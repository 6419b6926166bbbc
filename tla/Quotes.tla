-------------------------------- MODULE Quotes --------------------------------
(***************************************************************************)
(* The data a quote is computed from (src/src/api/quote.rs, info.rs): the  *)
(* two lists that Redis caches, pools:active and tokens:all, read through  *)
(* to PostgreSQL, and the live pool:{id} keys laid over the first.  Beside *)
(* the request run the writers of those keys: the topology refresh of the  *)
(* static worker, the detached tasks that copy what its commits registered *)
(* to Redis, and the dynamic workers, whose Redis write is the retry loop  *)
(* of set_pool_state.  A pool's state is its version.                      *)
(***************************************************************************)
EXTENDS Daemon, FiniteSets, FiniteSetsExt

CONSTANTS
    Pools,
    Workers,     \* the dynamic workers, two in run_daemon
    Paused,      \* the versions in which a pool is paused
    MaxVersion,  \* bound on the versions of a pool on chain
    MaxFaults,   \* bound on failed Redis operations and scans
    MaxCopies,   \* bound on the detached tasks that run at a time
    MaxTasks,    \* bound on the tasks of the dynamic workers
    None         \* no cached value

VARIABLES
    chain,    \* chain[p]: the version of pool p on chain
    hot,      \* pool:{id}: a version, 0 when the key has expired
    keys,     \* the two cached lists: a function from pools to versions, or None
    quote,    \* the running request
    refresh,  \* refresh[w]: the task of worker w; kept: no older version than
              \* the one it wrote has been in its key since
    copies,   \* what the static worker's detached tasks have yet to write
    topo,     \* the static worker's cycle
    queued,   \* queued[p]: the last version in the write queue, 0 if none
    told,     \* told[p]: the newest version broadcast while its key held it or
              \* a newer one, and since then an older one was not in the key
    fetched,  \* number of tasks the dynamic workers took
    faults

quoteVars == <<chain, hot, keys, quote, refresh, copies, topo, queued, told, fetched, faults>>

Versions == 0..MaxVersion

Lists == {"pools", "tokens"}

\* list_pools without the paused ones; list_tokens, with the tokens of every
\* registered pool, which its state does not change.
Stored(k) ==
    IF k = "pools" THEN [p \in {q \in Pools : row[q] \notin Paused \cup {0}} |-> row[p]]
    ELSE [p \in {q \in Pools : row[q] # 0} |-> 1]

Fault == faults < MaxFaults /\ faults' = faults + 1

Idle == [pc |-> "idle"]

-----------------------------------------------------------------------------
\* The request

Request ==
    [pc |-> "get", list |-> "pools", read |-> None, got |-> <<>>, left |-> {},
     floor |-> [p \in Pools |-> 0]]

\* handle_quote, and handle_build_tx up to the split, which load the same data.
QuoteArrives ==
    /\ Running("server") /\ quote = Idle
    /\ quote' = [Request EXCEPT !.floor = told]
    /\ UNCHANGED <<daemonVars, ready, row, chain, hot, keys, refresh, copies, topo, queued, told, faults, fetched>>

\* load_active_pools and load_all_tokens: the cached list if Redis has one.
\* With the tokens, the answer is computed (Router) and the request is over.
ListLoaded(l) ==
    IF quote.list = "pools"
    THEN [quote EXCEPT !.pc = "overlay", !.left = DOMAIN l, !.read = l]
    ELSE Idle

QuoteGet ==
    /\ quote.pc = "get"
    /\ LET l == keys[quote.list]
       IN quote' = IF l = None THEN [quote EXCEPT !.pc = "select"] ELSE ListLoaded(l)
    /\ UNCHANGED <<daemonVars, ready, row, chain, hot, keys, refresh, copies, topo, queued, told, faults, fetched>>

QuoteGetFails ==
    /\ quote.pc = "get" /\ Fault
    /\ quote' = [quote EXCEPT !.pc = "select"]
    /\ UNCHANGED <<daemonVars, ready, row, chain, hot, keys, refresh, copies, topo, queued, told, fetched>>

\* PostgreSQL: its failure ends the request, or leaves the token list empty and
\* the answer is computed without.
QuoteSelect ==
    /\ quote.pc = "select"
    /\ \/ quote' = [quote EXCEPT !.pc = "save", !.read = Stored(quote.list)]
       \/ quote' = Idle
    /\ UNCHANGED <<daemonVars, ready, row, chain, hot, keys, refresh, copies, topo, queued, told, faults, fetched>>

\* set_active_pools, set_all_tokens: the list read before is cached, whatever
\* was written in between; a failure is ignored.
QuoteSave ==
    /\ quote.pc = "save"
    /\ \/ keys' = [keys EXCEPT ![quote.list] = quote.read] /\ UNCHANGED faults
       \/ Fault /\ UNCHANGED keys
    /\ quote' = ListLoaded(quote.read)
    /\ UNCHANGED <<daemonVars, ready, row, chain, hot, refresh, copies, topo, queued, told, fetched>>

\* The live state, where there is one, replaces the baseline.
Overlay(p) == IF hot[p] # 0 THEN hot[p] ELSE quote.read[p]

\* get_pool_state for each pool of the list; a paused pool is left out.
QuoteOverlay(p) ==
    /\ quote.pc = "overlay" /\ p \in quote.left
    /\ quote' = [quote EXCEPT !.left = @ \ {p},
                              !.got = IF Overlay(p) \in Paused THEN @
                                      ELSE [q \in DOMAIN @ \cup {p} |-> IF q = p THEN Overlay(p) ELSE @[q]]]
    /\ UNCHANGED <<daemonVars, ready, row, chain, hot, keys, refresh, copies, topo, queued, told, faults, fetched>>

\* Redis does not answer: the baseline stands.
QuoteOverlayFails(p) ==
    /\ quote.pc = "overlay" /\ p \in quote.left /\ Fault
    /\ quote' = [quote EXCEPT !.left = @ \ {p}, !.floor[p] = 0,
                              !.got = [q \in DOMAIN @ \cup {p} |-> IF q = p THEN quote.read[p] ELSE @[q]]]
    /\ UNCHANGED <<daemonVars, ready, row, chain, hot, keys, refresh, copies, topo, queued, told, fetched>>

\* An empty catalog is answered 503 before the topology is ready; without a
\* usable pool there is no route; otherwise the tokens are loaded.
QuoteCompile ==
    /\ quote.pc = "overlay" /\ quote.left = {}
    /\ quote' = IF DOMAIN quote.got = {} THEN Idle
                ELSE [Request EXCEPT !.list = "tokens"]
    /\ UNCHANGED <<daemonVars, ready, row, chain, hot, keys, refresh, copies, topo, queued, told, faults, fetched>>

QuoteStep ==
    /\ Alive
    /\ \/ QuoteGet \/ QuoteGetFails \/ QuoteSelect \/ QuoteSave \/ QuoteCompile
       \/ \E p \in Pools : QuoteOverlay(p) \/ QuoteOverlayFails(p)

-----------------------------------------------------------------------------
\* The live keys

\* Version v is now in the key of p, 0 if it has expired: what was told of p, or
\* a request was promised, is void if it is newer.
KeyBecomes(p, v) ==
    /\ hot' = [hot EXCEPT ![p] = v]
    /\ told' = [told EXCEPT ![p] = IF v < @ THEN 0 ELSE @]
    /\ quote' = IF quote = Idle THEN quote
                ELSE [quote EXCEPT !.floor[p] = IF v < @ THEN 0 ELSE @]

\* The same for a task that has written p and not yet been broadcast.
Overtaken(t, p, v) ==
    IF t.pc \in {"publish", "send"} /\ t.pool = p /\ v < t.version
    THEN [t EXCEPT !.kept = FALSE] ELSE t

\* Everybody's tasks when someone else writes.
AllOvertaken(p, v) == [w \in Workers |-> Overtaken(refresh[w], p, v)]

-----------------------------------------------------------------------------
\* The static worker, from the topology's point of view

Scanning(left) == [pc |-> "scan", left |-> left]

\* The first cycle starts with the task, whatever the flag says.
FirstCycle ==
    /\ SpawnStatic
    /\ topo' = Scanning(Pools)
    /\ UNCHANGED <<chain, hot, keys, quote, refresh, copies, queued, told, faults, fetched>>

\* The flag is looked at between two cycles only.
CycleStart ==
    /\ Running("static") /\ topo = Idle /\ ~shutdown
    /\ topo' = Scanning(Pools)
    /\ UNCHANGED <<daemonVars, ready, row, chain, hot, keys, quote, refresh, copies, queued, told, faults, fetched>>

\* A commit of the cycle writes the row of a pool, new or known, and its tokens:
\* of a page, of a retried failure or of the reconciliation (bound: one commit
\* per pool and cycle, and the read is part of it: Discovery takes it apart).
\* What was read is copied to Redis by a task that the cycle does not wait for
\* (a retry and the reconciliation do wait).
Register(p) ==
    /\ topo.pc = "scan" /\ p \in topo.left /\ Cardinality(copies) < MaxCopies
    /\ row' = [row EXCEPT ![p] = chain[p]]
    /\ topo' = Scanning(topo.left \ {p})
    /\ copies' = copies \cup {[at |-> "set", pool |-> p, version |-> chain[p]]}
    /\ UNCHANGED <<daemonVars, ready, chain, hot, keys, quote, refresh, queued, told, faults, fetched>>

\* set_pool_state of a detached task; an error ends it.
CopySet(c) ==
    /\ c.at = "set"
    /\ \/ /\ KeyBecomes(c.pool, c.version)
          /\ refresh' = AllOvertaken(c.pool, c.version)
          /\ copies' = (copies \ {c}) \cup {[c EXCEPT !.at = "publish"]} /\ UNCHANGED faults
       \/ /\ Fault /\ copies' = copies \ {c}
          /\ UNCHANGED <<hot, told, quote, refresh>>
    /\ UNCHANGED <<daemonVars, ready, row, chain, keys, topo, queued, fetched>>

\* Its publish; an error is logged.
CopyPublish(c) ==
    /\ c.at = "publish"
    /\ \/ queued' = [queued EXCEPT ![c.pool] = c.version] /\ UNCHANGED faults
       \/ Fault /\ UNCHANGED queued
    /\ copies' = copies \ {c}
    /\ UNCHANGED <<daemonVars, ready, row, chain, hot, keys, quote, refresh, topo, told, fetched>>

CopyStep == Alive /\ \E c \in copies : CopySet(c) \/ CopyPublish(c)

\* The scans are over.  A call that failed ends the cycle; so does a catalog
\* that is still empty, unless a bootstrap has read a page.
Settle(bootstrapOk) ==
    /\ topo.pc = "scan"
    /\ \/ Fault /\ topo' = Idle /\ UNCHANGED ready
       \/ /\ ready' = (bootstrapOk \/ \E p \in Pools : row[p] # 0)
          /\ topo' = IF ready' THEN [pc |-> "select", list |-> "pools"] ELSE Idle
          /\ UNCHANGED faults
    /\ UNCHANGED <<daemonVars, row, chain, hot, keys, quote, refresh, copies, queued, told, fetched>>

\* refresh_topology_caches: PostgreSQL, then Redis, for each list; the first
\* failure ends the cycle.
TopoSelect ==
    /\ topo.pc = "select"
    /\ \/ topo' = [pc |-> "save", list |-> topo.list, read |-> Stored(topo.list)]
       \/ topo' = Idle
    /\ UNCHANGED <<daemonVars, ready, row, chain, hot, keys, quote, refresh, copies, queued, told, faults, fetched>>

TopoSave ==
    /\ topo.pc = "save"
    /\ \/ /\ keys' = [keys EXCEPT ![topo.list] = topo.read]
          /\ topo' = IF topo.list = "pools" THEN [pc |-> "select", list |-> "tokens"] ELSE Idle
          /\ UNCHANGED faults
       \/ Fault /\ topo' = Idle /\ UNCHANGED keys
    /\ UNCHANGED <<daemonVars, ready, row, chain, hot, quote, refresh, copies, queued, told, fetched>>

StaticStep(bootstrapOk) ==
    Alive /\ (FirstCycle \/ Settle(bootstrapOk) \/ TopoSelect \/ TopoSave)

Commit == Alive /\ \E p \in Pools : Register(p)

-----------------------------------------------------------------------------
\* The dynamic workers: fetch, set_pool_state, publish, broadcast

\* Polling names the registered pools, a WebSocket frame any pool.  (The tasks
\* still queued when the producers stop are in DynamicWorkers.)
Fetch(w, p) ==
    /\ Running("dynamic") /\ refresh[w] = Idle
    /\ fetched < MaxTasks /\ fetched' = fetched + 1
    /\ refresh' = [refresh EXCEPT ![w] =
                     [pc |-> "set", pool |-> p, version |-> chain[p], kept |-> TRUE]]
    /\ UNCHANGED <<daemonVars, ready, row, chain, hot, keys, quote, copies, topo, queued, told, faults>>

\* The key takes w's version, also over a newer one of another writer.
SetHot(w) ==
    LET t == refresh[w]
    IN /\ t.pc = "set"
       /\ KeyBecomes(t.pool, t.version)
       /\ refresh' = [AllOvertaken(t.pool, t.version) EXCEPT ![w] = [t EXCEPT !.pc = "publish"]]
       /\ UNCHANGED <<daemonVars, ready, row, chain, keys, copies, topo, queued, faults, fetched>>

\* Mutant: a write that failed for good is taken for done.
SetHotGivesUp_GoesOn(w) == [refresh[w] EXCEPT !.pc = "publish"]

\* The task is dropped: no message, no broadcast.
SetHotGivesUp(w) == Idle

\* An attempt fails, with the value written or not; there is another one, or it
\* was the last.
SetHotFails(w) ==
    LET t == refresh[w]
    IN /\ t.pc = "set" /\ Fault
       /\ \E r \in {t, SetHotGivesUp(w)} :
            \/ /\ KeyBecomes(t.pool, t.version)
               /\ refresh' = [AllOvertaken(t.pool, t.version) EXCEPT ![w] = r]
            \/ /\ UNCHANGED <<hot, told, quote>>
               /\ refresh' = [refresh EXCEPT ![w] = r]
       /\ UNCHANGED <<daemonVars, ready, row, chain, keys, copies, topo, queued, fetched>>

Publish(w) ==
    LET t == refresh[w]
    IN /\ t.pc = "publish"
       /\ \/ /\ queued' = [queued EXCEPT ![t.pool] = t.version]
             /\ refresh' = [refresh EXCEPT ![w].pc = "send"] /\ UNCHANGED faults
          \/ Fault /\ refresh' = [refresh EXCEPT ![w] = Idle] /\ UNCHANGED queued
       /\ UNCHANGED <<daemonVars, ready, row, chain, hot, keys, quote, copies, topo, told, fetched>>

\* broadcast_tx.send; the receivers are in Sockets.
Broadcast(w) ==
    LET t == refresh[w]
    IN /\ t.pc = "send"
       /\ told' = [told EXCEPT ![t.pool] = IF t.kept /\ t.version > @ THEN t.version ELSE @]
       /\ refresh' = [refresh EXCEPT ![w] = Idle]
       /\ UNCHANGED <<daemonVars, ready, row, chain, hot, keys, quote, copies, topo, queued, faults, fetched>>

-----------------------------------------------------------------------------
\* The database writer takes the message out of the queue.
Write(p) ==
    /\ Running("writer") /\ queued[p] # 0
    /\ row' = [row EXCEPT ![p] = queued[p]]
    /\ queued' = [queued EXCEPT ![p] = 0]
    /\ UNCHANGED <<daemonVars, ready, chain, hot, keys, quote, refresh, copies, topo, told, faults, fetched>>

ChainMoves(p) ==
    /\ Alive /\ chain[p] < MaxVersion
    /\ chain' = [chain EXCEPT ![p] = @ + 1]
    /\ UNCHANGED <<daemonVars, ready, row, hot, keys, quote, refresh, copies, topo, queued, told, faults, fetched>>

\* The key outlived its 300 seconds.
ExpireHot(p) ==
    /\ hot[p] # 0
    /\ KeyBecomes(p, 0)
    /\ refresh' = AllOvertaken(p, 0)
    /\ UNCHANGED <<daemonVars, ready, row, chain, keys, copies, topo, queued, faults, fetched>>

\* Mutant: pools:active is set without a time to live.
ExpireList_TokensOnly(k) ==
    /\ k = "tokens" /\ keys[k] # None
    /\ keys' = [keys EXCEPT ![k] = None]
    /\ UNCHANGED <<daemonVars, ready, row, chain, hot, quote, refresh, copies, topo, queued, told, faults, fetched>>

\* The list outlived its 30 or 300 seconds.
ExpireList(k) ==
    /\ keys[k] # None
    /\ keys' = [keys EXCEPT ![k] = None]
    /\ UNCHANGED <<daemonVars, ready, row, chain, hot, quote, refresh, copies, topo, queued, told, faults, fetched>>

QuoteInit ==
    /\ row \in [Pools -> {0, 1}]
    /\ chain = [p \in Pools |-> 1]
    /\ hot = [p \in Pools |-> 0]
    /\ keys = [k \in Lists |-> None]
    /\ quote = Idle /\ topo = Idle /\ copies = {}
    /\ refresh = [w \in Workers |-> Idle]
    /\ queued = [p \in Pools |-> 0] /\ told = [p \in Pools |-> 0]
    /\ faults = 0 /\ fetched = 0

=============================================================================
