-------------------------------- MODULE Service --------------------------------
(***************************************************************************)
(* The running process: the daemon, a quote and the writers of what it     *)
(* reads, and a WebSocket client.  What comes from outside or recurs is    *)
(* bounded by a scenario, a set of the kinds of events below: the proofs   *)
(* hold for every set of scenarios, the one with every event included.     *)
(***************************************************************************)
EXTENDS Quotes, Sockets

CONSTANT Scenarios  \* bound: a set of subsets of Events

Events == {"requests",   \* requests, one after the other
           "moves",      \* pools move on chain
           "refreshes",  \* the dynamic workers are given tasks
           "cycles",     \* discovery cycles after the first
           "commits",    \* they commit pools
           "pages",      \* a bootstrap reads a page without a pool
           "expiry",     \* live keys expire
           "client",     \* a WebSocket client
           "signal"}     \* Ctrl-C

ASSUME ScenarioAssumption == Scenarios \subseteq SUBSET Events

VARIABLE scenario  \* what may happen in this behaviour

vars == <<daemonVars, ready, row, quoteVars, socketVars, scenario>>

May(e) == e \in scenario

Init ==
    /\ DaemonInit /\ QuoteInit /\ SocketInit
    /\ scenario \in Scenarios

\* The worker's broadcast reaches the client's receiver in the same step.
BroadcastStep(w) == Broadcast(w) /\ Push(refresh[w].pool, refresh[w].version)

RefreshStep(w) ==
    /\ Alive
    /\ \/ (SetHot(w) \/ SetHotFails(w) \/ Publish(w)) /\ UNCHANGED socketVars
       \/ BroadcastStep(w)

DiscoveryStep ==
    \/ \E bootstrapOk \in {FALSE, May("pages")} : StaticStep(bootstrapOk)
    \/ May("commits") /\ Commit

\* A task stops once it has finished what it was doing.
StopTask(t) ==
    /\ TaskDrains(t) \/ TaskStops(t)
    /\ tasks'[t] = "stopped" =>
         /\ t = "static" => topo = Idle
         /\ t = "dynamic" => \A w \in Workers : refresh[w] = Idle
         /\ t = "server" => quote = Idle

ClientStep ==
    /\ Alive /\ tasks["server"] # "none"
    /\ \/ Running("server") /\ Connect
       \/ Leave \/ Recv \/ RecvLagged
       \/ \E p \in Topics : Subscribe(p) \/ Unsubscribe(p)

Expiry ==
    \/ \E k \in Lists : ExpireList(k)
    \/ May("expiry") /\ \E p \in Pools : ExpireHot(p)

PoolStep ==
    \E p \in Pools :
        \/ Write(p)
        \/ May("moves") /\ ChainMoves(p)
        \/ May("refreshes") /\ \E w \in Workers : Fetch(w, p)

Step ==
    \/ (DaemonStep \/ \E t \in TaskNames : StopTask(t)) /\ UNCHANGED <<quoteVars, socketVars>>
    \/ May("signal") /\ Signal /\ UNCHANGED <<quoteVars, socketVars>>
    \/ ((May("requests") /\ QuoteArrives) \/ QuoteStep) /\ UNCHANGED socketVars
    \/ ((May("cycles") /\ CycleStart) \/ DiscoveryStep \/ CopyStep) /\ UNCHANGED socketVars
    \/ \E w \in Workers : RefreshStep(w)
    \/ PoolStep /\ UNCHANGED socketVars
    \/ Expiry /\ UNCHANGED socketVars
    \/ May("client") /\ ClientStep /\ UNCHANGED <<daemonVars, ready, row, quoteVars>>

Next == Step /\ UNCHANGED scenario

\* Tasks and handlers that can run are scheduled, and Redis drops a key when
\* its time to live is over.  Nothing makes requests or chain updates come.
Fairness ==
    /\ WF_vars(DaemonStep /\ UNCHANGED <<quoteVars, socketVars, scenario>>)
    /\ WF_vars((\E t \in TaskNames : StopTask(t)) /\ UNCHANGED <<quoteVars, socketVars, scenario>>)
    /\ WF_vars(QuoteStep /\ UNCHANGED <<socketVars, scenario>>)
    /\ WF_vars(DiscoveryStep /\ UNCHANGED <<socketVars, scenario>>)
    /\ \A w \in Workers : WF_vars(RefreshStep(w) /\ UNCHANGED scenario)
    /\ \A k \in Lists : WF_vars(ExpireList(k) /\ UNCHANGED <<socketVars, scenario>>)

Spec == Init /\ [][Next]_vars /\ Fairness

-----------------------------------------------------------------------------
\* Properties

\* An update reaches the clients after Redis: a quote that starts once version
\* v of a pool has been broadcast is never computed from an older version of
\* it, whatever list it found and however many attempts the write took, unless
\* meanwhile the key expired, another writer (the other worker, or the copy of
\* a scan) put an older version over it, or Redis did not answer.
ToldThenServed ==
    quote # Idle => \A p \in DOMAIN quote.got : quote.got[p] >= quote.floor[p]

\* A client loses no update of a pool it is subscribed to except by being
\* overtaken: what it was last sent, once nothing of the pool is ahead of it in
\* the ring, and otherwise the newest one ahead, is the last one broadcast since
\* it subscribed; also after it lagged.
NoUpdateLost ==
    \A p \in Topics :
        due[p] # 0 =>
            \/ /\ seen[p] = due[p]
               /\ \A i \in DOMAIN ring : ring[i].pool # p
            \/ \E i \in DOMAIN ring :
                  /\ ring[i] = [pool |-> p, version |-> due[p]]
                  /\ \A j \in DOMAIN ring : i < j => ring[j].pool # p

\* Ctrl-C ends the daemon, also while it connects, waits for its first topology,
\* runs a discovery cycle or answers a request; and if run_daemon then returns
\* without an error, every task has ended before: no request, discovery cycle or
\* refresh is cut off, and a server that never came up has been reported.  The
\* detached copies are not joined and may be cut off.
ShutdownEnds ==
    shutdown ~>
        \/ dpc = "error"
        \/ /\ dpc = "ok"
           /\ \A t \in TaskNames : tasks[t] = "stopped"
           /\ quote = Idle /\ topo = Idle /\ \A w \in Workers : refresh[w] = Idle

\* A list that a slow request wrote back over a newer one is not served for
\* ever: once PostgreSQL no longer changes, every cached list that is present
\* names exactly the pools registered there.
StaleListsHeal ==
    <>[](\A k \in Lists : keys[k] # None => DOMAIN keys[k] = DOMAIN Stored(k))

=============================================================================
