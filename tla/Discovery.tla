----------------------------- MODULE Discovery -----------------------------
(***************************************************************************)
(* Pool discovery: StaticPoolManager::discover_and_register                *)
(* (src/src/workers/static_worker.rs), scan_dex_object_bootstrap           *)
(* (src/src/discovery/scanner.rs) and commit_discovery_page                *)
(* (src/src/storage/postgres.rs).  A cycle lists, DEX by DEX and page by   *)
(* page, the pool objects on chain, hydrates each, and commits a page with *)
(* its cursor in one transaction; a detached task then copies the page to  *)
(* Redis.  The cycle goes on to retry recorded failures, to refresh every  *)
(* known pool, and to publish the snapshot the API serves.                 *)
(*                                                                         *)
(* A pool object is a pair <<dex, pos>>: pos is its place in the DEX's     *)
(* listing and a page cursor is the place of the page's last object, 0 for *)
(* no cursor.  Objects appear at any place, also before the cursor; no     *)
(* pool is paused, and none is removed.  The event scans between bootstrap *)
(* and settling are not part of this module, nor is the expiry of the      *)
(* snapshot, which the API then rebuilds from PostgreSQL.  Cycles          *)
(* reconcile every time (reconciliation_every_n_scans = 1, the default).   *)
(***************************************************************************)
EXTENDS Integers, FiniteSets

CONSTANTS NumDexes,      \* length of ALL_DISCOVERY_SPECS
          NumPositions,  \* bound: pool objects per DEX
          Unrecognized,  \* places of the objects parse_object_page rejects
          PageSize,      \* discovery_page_size
          MaxPages,      \* discovery_max_pages_per_scan
          RetryLimit,    \* limit of list_pool_discovery_failures (100)
          Named,         \* bound: places of the objects WebSocket frames name
          MaxFaults      \* bound: failed calls, expired cursors and crashes

ASSUME DiscoveryAssumption ==
  /\ {NumDexes, PageSize, MaxPages, RetryLimit} \subseteq Nat \ {0}
  /\ NumPositions \in Nat
  /\ Unrecognized \subseteq 1..NumPositions
  /\ Named \subseteq 1..NumPositions
  /\ MaxFaults \in Nat

Dexes     == 1..NumDexes
Positions == 1..NumPositions
Objects   == Dexes \X Positions
OfDex(S, d) == {o \in S : o[1] = d}

VARIABLES
  live,       \* the pool objects on chain
  \* PostgreSQL
  pools,      \* the pools table
  failed,     \* pool_discovery_failures: the objects with a row
  older,      \* pairs of those rows whose updated_at are in strict order
  progress,   \* progress[d]: the object_bootstrap row of DEX d
  \* Redis
  refreshed,  \* pools whose key discovery has written
  snapshot,   \* the active-pool snapshot
  \* the process
  ready,      \* topology_ready
  booting,    \* run_daemon has yet to look for existing pools
  hot,        \* pools that detached after_commit tasks have yet to write
  spc,        \* where discover_and_register is
  dex,        \* the DEX it is at
  mem,        \* its copy of the DEX's progress
  pageIdx,    \* iterations of the page loop so far
  page,       \* the page in hand: objects left, more to come, last place
  found,      \* the page commit in hand: its pools ...
  missed,     \* ... and its failures
  hadPools,   \* !existing_pools.is_empty(), read at the start of the cycle
  scanned,    \* bootstrap_ok
  work,       \* objects left to retry or to reconcile
  faults

pgVars     == <<pools, failed, older, progress>>
redisVars  == <<refreshed, snapshot>>
cycleVars  == <<spc, dex, mem, pageIdx, page, found, missed, hadPools, scanned,
                work>>
vars == <<live, pgVars, redisVars, ready, booting, hot, cycleVars, faults>>

\* base is not in the code: the objects that were on chain when the pass the
\* row belongs to began.
Progress == [cursor : 0..NumPositions, complete : BOOLEAN, base : SUBSET Objects]

NewProgress == [cursor |-> 0, complete |-> FALSE, base |-> {}]

NoPage == [left |-> {}, more |-> FALSE, last |-> 0]

TypeOK ==
  /\ live \subseteq Objects
  /\ pools \subseteq live
  /\ failed \subseteq live
  /\ older \subseteq failed \X failed
  /\ progress \in [Dexes -> Progress]
  /\ refreshed \subseteq live /\ snapshot \subseteq live
  /\ ready \in BOOLEAN /\ booting \in BOOLEAN
  /\ hot \subseteq live
  /\ spc \in {"idle", "query", "hydrate", "blank", "settle", "list", "retry",
              "apply", "reconcile"}
  /\ dex \in Dexes
  /\ mem \in Progress
  /\ pageIdx \in 0..(MaxPages - 1)
  /\ page \in [left : SUBSET live, more : BOOLEAN, last : 0..NumPositions]
  /\ found \subseteq live /\ missed \subseteq live
  /\ hadPools \in BOOLEAN /\ scanned \in BOOLEAN
  /\ work \subseteq live
  /\ faults \in 0..MaxFaults

Init ==
  /\ live \in SUBSET Objects
  /\ pools = {} /\ failed = {} /\ older = {}
  /\ progress = [d \in Dexes |-> NewProgress]
  /\ refreshed = {} /\ snapshot = {}
  /\ ready = FALSE /\ booting = TRUE /\ hot = {}
  /\ spc = "idle" /\ dex = 1 /\ mem = NewProgress /\ pageIdx = 0
  /\ page = NoPage /\ found = {} /\ missed = {}
  /\ hadPools = FALSE /\ scanned = FALSE /\ work = {}
  /\ faults = 0

Fault == faults < MaxFaults /\ faults' = faults + 1

\* Nothing in hand.
Cleared ==
  /\ mem' = NewProgress /\ pageIdx' = 0 /\ page' = NoPage
  /\ found' = {} /\ missed' = {} /\ work' = {}

\* discover_and_register returns, with Ok or Err; the next cycle is due.
CycleEnds ==
  spc' = "idle" /\ dex' = 1 /\ Cleared /\ hadPools' = FALSE /\ scanned' = FALSE

-----------------------------------------------------------------------------
(***************************************************************************)
(* What is around the cycle.                                               *)
(***************************************************************************)
Create(o) ==
  /\ o \notin live
  /\ live' = live \cup {o}
  /\ UNCHANGED <<pgVars, redisVars, ready, booting, hot, cycleVars, faults>>

\* run_daemon: a catalog that is not empty makes the topology ready at once.
DaemonCheck ==
  /\ booting
  /\ booting' = FALSE
  /\ ready' = (ready \/ pools # {})
  /\ UNCHANGED <<live, pgVars, redisVars, hot, cycleVars, faults>>

\* A detached after_commit task writes one of its pools to Redis (and to the
\* write queue); an error is logged and the pool skipped.
HotPath(o) ==
  /\ o \in hot
  /\ hot' = hot \ {o}
  /\ \/ refreshed' = refreshed \cup {o} /\ UNCHANGED faults
     \/ Fault /\ UNCHANGED refreshed
  /\ UNCHANGED <<live, pgVars, snapshot, ready, booting, cycleVars>>

\* The database writer inserts the row of a pool that a WebSocket frame named
\* and the dynamic worker fetched (and whose key it set, before that).
WriterRow(o) ==
  /\ o \in live \ pools
  /\ o[2] \in Named
  /\ pools' = pools \cup {o}
  /\ UNCHANGED <<live, failed, older, progress, redisVars, ready, booting, hot,
                 cycleVars, faults>>

\* The process is killed and started again.
Crash ==
  /\ Fault
  /\ ready' = FALSE /\ booting' = TRUE /\ hot' = {}
  /\ CycleEnds
  /\ UNCHANGED <<live, pgVars, redisVars>>

-----------------------------------------------------------------------------
(***************************************************************************)
(* scan_dex_object_bootstrap                                               *)
(***************************************************************************)
\* The scan of DEX d begins, with progress read from PostgreSQL.
OpenScan(d) ==
  /\ spc' = "query" /\ dex' = d /\ mem' = progress[d] /\ pageIdx' = 0
  /\ page' = NoPage /\ found' = {} /\ missed' = {} /\ work' = {}

\* list_pools and the GraphQL range.  An error of list_pools ends the cycle, and
\* so does one of the range if there are no pools; with pools it goes on.
BeginCycle ==
  /\ spc = "idle"
  /\ \/ /\ OpenScan(1)
        /\ hadPools' = (pools # {})
        /\ scanned' = FALSE
        /\ UNCHANGED faults
     \/ Fault /\ UNCHANGED cycleVars
  /\ UNCHANGED <<live, pgVars, redisVars, ready, booting, hot>>

\* The scan of this DEX is over: on to the next DEX, or to what follows.
ScanEnds ==
  /\ UNCHANGED hadPools
  /\ \/ dex < NumDexes /\ OpenScan(dex + 1)
     \/ dex = NumDexes /\ spc' = "settle" /\ dex' = 1 /\ Cleared

\* An error of the scan ends the whole cycle if it began without any pool.
ScanFails ==
  \/ hadPools /\ ScanEnds /\ UNCHANGED scanned
  \/ ~hadPools /\ CycleEnds

\* Mutant: one page too many.
NextPage_OneMore(m) ==
  /\ pageIdx' = pageIdx + 1
  /\ spc' = "query" /\ mem' = m
  /\ page' = NoPage /\ found' = {} /\ missed' = {}
  /\ UNCHANGED <<dex, hadPools, work>>

\* The page loop runs on with progress m, if there is an iteration left.
NextPage(m) ==
  \/ /\ pageIdx + 1 < MaxPages
     /\ pageIdx' = pageIdx + 1
     /\ spc' = "query" /\ mem' = m
     /\ page' = NoPage /\ found' = {} /\ missed' = {}
     /\ UNCHANGED <<dex, hadPools, work>>
  \/ pageIdx + 1 >= MaxPages /\ ScanEnds

\* The objects of the DEX behind the cursor; the page is their first PageSize.
Rest == {o \in OfDex(live, dex) : o[2] > mem.cursor}

FirstPage ==
  {o \in Rest : Cardinality({x \in Rest : x[2] <= o[2]}) <= PageSize}

\* A page arrived: pages_scanned > 0.  bootstrap_ok is set when the scan returns
\* Ok; set here it is the same, for a scan that fails later on ends the cycle
\* or there were pools at its start, and then Settle does not depend on it.
QueryPage ==
  /\ spc = "query"
  /\ \E n \in Positions :
        /\ <<dex, n>> \in FirstPage
        /\ \A o \in FirstPage : o[2] <= n
        /\ page' = [left |-> FirstPage, more |-> FirstPage # Rest, last |-> n]
  /\ spc' = "hydrate"
  /\ mem' = IF mem.cursor = 0
            THEN [mem EXCEPT !.base = OfDex(live, dex)] ELSE mem
  /\ scanned' = TRUE
  /\ UNCHANGED <<live, pgVars, redisVars, ready, booting, hot, dex, pageIdx,
                 found, missed, hadPools, work, faults>>

\* An empty page commits the progress as it is and ends the scan.
QueryEmpty ==
  /\ spc = "query"
  /\ FirstPage = {}
  /\ spc' = "blank"
  /\ scanned' = TRUE
  /\ UNCHANGED <<live, pgVars, redisVars, ready, booting, hot, dex, mem,
                 pageIdx, page, found, missed, hadPools, work, faults>>

\* "invalid cursor" or "expired cursor": the next iteration starts over.
QueryExpired ==
  /\ spc = "query"
  /\ mem.cursor # 0
  /\ Fault
  /\ NextPage(NewProgress)
  /\ UNCHANGED <<live, pgVars, redisVars, ready, booting, hot, scanned>>

QueryErr ==
  /\ spc = "query"
  /\ Fault
  /\ ScanFails
  /\ UNCHANGED <<live, pgVars, redisVars, ready, booting, hot>>

\* Mutant: an object that cannot be hydrated is logged and skipped.
Hydrate_Unrecorded(o) ==
  /\ spc = "hydrate"
  /\ o \in page.left
  /\ page' = [page EXCEPT !.left = @ \ {o}]
  /\ found' = IF o[2] \in Unrecognized THEN found ELSE found \cup {o}
  /\ UNCHANGED <<live, pgVars, redisVars, ready, booting, hot, spc, dex, mem,
                 pageIdx, missed, hadPools, scanned, work, faults>>

\* The next object of the page: its JSON is rejected, or it is hydrated
\* (build_commit_for_pool), which may fail.  A failure becomes a row.
Hydrate(o) ==
  /\ spc = "hydrate"
  /\ o \in page.left
  /\ \A x \in page.left : o[2] <= x[2]
  /\ page' = [page EXCEPT !.left = @ \ {o}]
  /\ \/ /\ o[2] \notin Unrecognized
        /\ found' = found \cup {o}
        /\ UNCHANGED <<missed, faults>>
     \/ /\ IF o[2] \in Unrecognized THEN UNCHANGED faults ELSE Fault
        /\ missed' = missed \cup {o}
        /\ UNCHANGED found
  /\ UNCHANGED <<live, pgVars, redisVars, ready, booting, hot, spc, dex, mem,
                 pageIdx, hadPools, scanned, work>>

\* commit_discovery_page for DEX d: one transaction.  A failure that has a row
\* already gets a new updated_at; NOW() is the same for the whole commit.
WritePage(d, p, found_, missed_) ==
  /\ progress' = [progress EXCEPT ![d] = p]
  /\ pools' = pools \cup found_
  /\ failed' = failed \cup missed_
  /\ older' = {r \in older : r[1] \notin missed_ /\ r[2] \notin missed_}
                \cup ((failed \ missed_) \X missed_)

\* Mutant: the cursor is kept after the last page.
Advanced_KeepsCursor ==
  [cursor   |-> page.last,
   complete |-> mem.complete \/ ~page.more,
   base     |-> mem.base]

\* The progress that goes with the page in hand.
Advanced ==
  [cursor   |-> IF page.more THEN page.last ELSE 0,
   complete |-> mem.complete \/ ~page.more,
   base     |-> mem.base]

PageDone == spc = "hydrate" /\ page.left = {}

CommitPage ==
  /\ PageDone
  /\ WritePage(dex, Advanced, found, missed)
  /\ hot' = hot \cup found
  /\ IF page.more THEN NextPage(Advanced) ELSE ScanEnds
  /\ UNCHANGED <<live, redisVars, ready, booting, scanned, faults>>

CommitBlank ==
  /\ spc = "blank"
  /\ WritePage(dex, mem, {}, {})
  /\ ScanEnds
  /\ UNCHANGED <<live, redisVars, ready, booting, hot, scanned, faults>>

\* Mutant: after_commit runs whether or not the commit succeeded.
CommitErr_Hook ==
  /\ PageDone
  /\ Fault
  /\ hot' = hot \cup found
  /\ ScanFails
  /\ UNCHANGED <<live, pgVars, redisVars, ready, booting>>

\* The transaction is rolled back, or it commits and the reply is lost; either
\* way after_commit does not run.
CommitErr ==
  /\ PageDone \/ spc = "blank"
  /\ Fault
  /\ \/ UNCHANGED pgVars
     \/ PageDone /\ WritePage(dex, Advanced, found, missed)
     \/ spc = "blank" /\ WritePage(dex, mem, {}, {})
  /\ ScanFails
  /\ UNCHANGED <<live, redisVars, ready, booting, hot>>

-----------------------------------------------------------------------------
(***************************************************************************)
(* The rest of discover_and_register.                                      *)
(***************************************************************************)
\* topology_ready, from bootstrap_ok and a second list_pools.
Settle ==
  /\ spc = "settle"
  /\ \/ /\ scanned \/ pools # {}
        /\ ready' = TRUE
        /\ spc' = "list"
        /\ UNCHANGED <<dex, mem, pageIdx, page, found, missed, hadPools,
                       scanned, work, faults>>
     \/ /\ ~scanned /\ pools = {}
        /\ ready' = FALSE
        /\ CycleEnds
        /\ UNCHANGED faults
     \/ /\ Fault                      \* list_pools failed
        /\ CycleEnds
        /\ UNCHANGED ready
  /\ UNCHANGED <<live, pgVars, redisVars, booting, hot>>

\* retry_discovery_failures: the RetryLimit failures of the DEX with the
\* oldest updated_at.
Window(W) ==
  LET F == OfDex(failed, dex)
  IN  /\ W \subseteq F
      /\ Cardinality(W) =
           IF Cardinality(F) < RetryLimit THEN Cardinality(F) ELSE RetryLimit
      /\ \A a \in F \ W, b \in W : <<a, b>> \notin older

ListFailures ==
  /\ spc = "list"
  /\ \/ /\ \E W \in SUBSET failed : Window(W) /\ work' = W
        /\ spc' = "retry"
        /\ UNCHANGED <<dex, mem, pageIdx, page, found, missed, hadPools,
                       scanned, faults>>
     \/ Fault /\ CycleEnds
  /\ UNCHANGED <<live, pgVars, redisVars, ready, booting, hot>>

\* DELETE ... WHERE dex_name = d AND event_id = ANY(ids)
Resolve(d, ids) == failed \ {o \in ids : o[1] = d}

\* build_commit_for_pool leaves the default progress in its commit, which is
\* that of a DEX "unknown"; the failure's id is among resolved_failure_ids.  The
\* progress row of "unknown" is written too, but nothing reads it.
Unknown == 0

RetryCommit(o) ==
  /\ pools' = pools \cup {o}
  /\ failed' = Resolve(Unknown, {o})
  /\ older' = older \cap (failed' \X failed')
  /\ UNCHANGED progress

RetryOne(o) ==
  /\ spc = "retry"
  /\ o \in work
  /\ \/ /\ RetryCommit(o)            \* the commit succeeds
        /\ work' = work \ {o}
        /\ found' = {o}
        /\ spc' = "apply"
        /\ UNCHANGED <<dex, mem, pageIdx, page, missed, hadPools, scanned,
                       faults>>
     \/ /\ Fault                     \* the commit fails: return Err
        /\ RetryCommit(o) \/ UNCHANGED pgVars
        /\ CycleEnds
     \/ /\ Fault                     \* still failing
        /\ work' = work \ {o}
        /\ UNCHANGED <<pgVars, spc, dex, mem, pageIdx, page, found, missed,
                       hadPools, scanned>>
  /\ UNCHANGED <<live, redisVars, ready, booting, hot>>

\* apply_hot_path_commit; its error ends the cycle.
ApplyRetry ==
  /\ spc = "apply"
  /\ \/ /\ refreshed' = refreshed \cup found
        /\ found' = {}
        /\ spc' = "retry"
        /\ UNCHANGED <<dex, mem, pageIdx, page, missed, hadPools, scanned, work,
                       faults>>
     \/ /\ Fault
        /\ refreshed' = refreshed \cup found \/ UNCHANGED refreshed
        /\ CycleEnds
  /\ UNCHANGED <<live, pgVars, snapshot, ready, booting, hot>>

\* The next DEX, or on to reconciliation, which lists the pools.
RetryEnds ==
  /\ spc = "retry"
  /\ work = {}
  /\ \/ /\ dex < NumDexes
        /\ dex' = dex + 1 /\ spc' = "list"
        /\ UNCHANGED <<mem, pageIdx, page, found, missed, hadPools, scanned,
                       work, faults>>
     \/ /\ dex = NumDexes
        /\ work' = pools /\ spc' = "reconcile"
        /\ UNCHANGED <<dex, mem, pageIdx, page, found, missed, hadPools,
                       scanned, faults>>
     \/ dex = NumDexes /\ Fault /\ CycleEnds
  /\ UNCHANGED <<live, pgVars, redisVars, ready, booting, hot>>

\* hydrate_existing_pool: commit again what is there, then Redis; errors are
\* not counted.
Reconcile(o) ==
  /\ spc = "reconcile"
  /\ o \in work
  /\ work' = work \ {o}
  /\ \/ refreshed' = refreshed \cup {o} /\ UNCHANGED faults
     \/ Fault /\ UNCHANGED refreshed
  /\ UNCHANGED <<live, pgVars, snapshot, ready, booting, hot, spc, dex, mem,
                 pageIdx, page, found, missed, hadPools, scanned>>

\* refresh_topology_caches; gas price and ticks follow, and the cycle is over.
Refresh ==
  /\ spc = "reconcile"
  /\ work = {}
  /\ CycleEnds
  /\ \/ snapshot' = pools /\ UNCHANGED faults
     \/ Fault /\ UNCHANGED snapshot
  /\ UNCHANGED <<live, pgVars, refreshed, ready, booting, hot>>

CycleStep ==
  \/ BeginCycle \/ QueryPage \/ QueryEmpty \/ QueryExpired \/ QueryErr
  \/ (\E o \in Objects : Hydrate(o))
  \/ CommitPage \/ CommitBlank \/ CommitErr
  \/ Settle \/ ListFailures
  \/ (\E o \in Objects : RetryOne(o))
  \/ ApplyRetry \/ RetryEnds
  \/ (\E o \in Objects : Reconcile(o))
  \/ Refresh

Next ==
  \/ \E o \in Objects : Create(o)
  \/ DaemonCheck
  \/ \E o \in Objects : HotPath(o) \/ WriterRow(o)
  \/ Crash
  \/ CycleStep

Spec == Init /\ [][Next]_vars

\* The static worker runs one cycle after another; its calls return.
Fairness == WF_vars(CycleStep)

FairSpec == Spec /\ Fairness

-----------------------------------------------------------------------------
\* No object falls between the cursor and the catalog: all that were on chain
\* when the current pass began and lie before the saved cursor are registered
\* or recorded as failures, and after a completed pass all of them are,
\* whatever crashes, lost commits and expired cursors came between.
Accounted(d) ==
  LET p == progress[d]
  IN  \A o \in p.base :
        \/ o \in pools \cup failed
        \/ o[2] > p.cursor /\ ~(p.complete /\ p.cursor = 0)

NothingSkipped == \A d \in Dexes : Accounted(d)

\* ARCHITECTURE.md 129: "Pages commit atomically to PostgreSQL ..., then
\* refresh Redis": whatever discovery has put into Redis, by a detached task, a
\* retry, a reconciliation or a snapshot, PostgreSQL had committed before.
RefreshFollowsCommit == refreshed \cup snapshot \subseteq pools

\* The failures of o's DEX outnumber the rows that a cycle retries.
Crowded(o) == Cardinality(OfDex(failed, o[1])) > RetryLimit

\* Every pool object on chain ends up in the snapshot the API serves, wherever
\* in the listing it appears and however discovery is interrupted meanwhile.
\* The exception is an object that the listing's parser rejects, while its DEX
\* has more failures than a cycle retries: those never leave the table.
EveryPoolServed ==
  \A o \in Objects :
    o \in live ~> (o \in snapshot \/ (o[2] \in Unrecognized /\ Crowded(o)))

\* API.md 21: "Readiness when topology bootstrap finished and the pool catalog
\* is non-empty."
ReadyMeansBootstrapped ==
  ready /\ pools # {} => \A d \in Dexes : progress[d].complete

\* storage/mod.rs 55: "Removes resolved discovery failures after a successful
\* retry."
RetryClearsFailure ==
  [][\A o \in Objects :
        spc = "retry" /\ spc' = "apply" /\ found' = {o} => o \notin failed']_vars
=============================================================================
