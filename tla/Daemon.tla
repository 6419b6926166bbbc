-------------------------------- MODULE Daemon --------------------------------
(***************************************************************************)
(* run_daemon (src/src/daemon.rs): connect to the stores, start the static *)
(* worker, wait for a first topology, start the other tasks, and on        *)
(* shutdown join them in order.  What the tasks do is in Quotes and        *)
(* Sockets, and in detail in Discovery, DynamicWorkers and ColdPath.       *)
(***************************************************************************)
EXTENDS Integers, Sequences

CONSTANTS
    MaxAttempts,  \* max_attempts of connect_with_retry
    MaxWaits      \* turns of the bootstrap wait

VARIABLES
    dpc,       \* step of run_daemon
    step,      \* number of the current setup step or join
    attempt,   \* attempts of the current connection, turns of the wait
    tasks,     \* the spawned tasks
    shutdown,  \* the watch channel's value
    ready,     \* topology_ready
    row        \* row[p]: the version of pool p in PostgreSQL, 0 if not registered

daemonVars == <<dpc, step, attempt, tasks, shutdown>>

TaskNames == {"static", "dynamic", "writer", "server"}

\* What run_daemon needs before it starts a task, in order.
Setup == <<"postgres", "create_tables", "redis_client", "redis_connection",
           "clickhouse", "seed_known_tokens">>

Retried == {"postgres", "redis_client", "redis_connection", "clickhouse"}

\* The process runs until run_daemon returns.
Alive == dpc \notin {"ok", "error"}

Running(t) == Alive /\ tasks[t] = "running"

SetupDone ==
    /\ dpc = "setup"
    /\ dpc' = IF step = Len(Setup) THEN "spawn" ELSE dpc
    /\ step' = step + 1 /\ attempt' = 0
    /\ UNCHANGED <<tasks, shutdown, ready, row>>

\* connect_with_retry gives up after max_attempts; the other steps at once.
SetupFails ==
    /\ dpc = "setup"
    /\ attempt' = attempt + 1
    /\ dpc' = IF Setup[step] \in Retried /\ attempt' < MaxAttempts THEN dpc ELSE "error"
    /\ UNCHANGED <<step, tasks, shutdown, ready, row>>

SpawnStatic ==
    /\ dpc = "spawn"
    /\ dpc' = "check" /\ attempt' = 0
    /\ tasks' = [tasks EXCEPT !["static"] = "running"]
    /\ UNCHANGED <<step, shutdown, ready, row>>

\* list_pools: with a catalog from an earlier life the topology counts as ready.
CheckExisting ==
    /\ dpc = "check"
    /\ \/ dpc' = "error" /\ UNCHANGED ready
       \/ (\A p \in DOMAIN row : row[p] = 0) /\ dpc' = "wait" /\ UNCHANGED ready
       \/ (\E p \in DOMAIN row : row[p] # 0) /\ dpc' = "launch" /\ ready' = TRUE
    /\ UNCHANGED <<step, attempt, tasks, shutdown, row>>

\* The topology is there, the turns are used up, or shutdown was asked for.
WaitOver == ready \/ attempt = MaxWaits \/ (attempt > 0 /\ shutdown)

WaitTurn ==
    /\ dpc = "wait"
    /\ IF WaitOver THEN dpc' = "launch" /\ UNCHANGED attempt
       ELSE attempt' = (IF attempt < MaxWaits THEN attempt + 1 ELSE attempt) /\ UNCHANGED dpc
    /\ UNCHANGED <<step, tasks, shutdown, ready, row>>

\* list_pools again, then the dynamic manager, the writer and the server.
Launch ==
    /\ dpc = "launch"
    /\ \/ dpc' = "error" /\ UNCHANGED tasks
       \/ /\ dpc' = "serve"
          /\ tasks' = [tasks EXCEPT !["dynamic"] = "running", !["writer"] = "running",
                                    !["server"] = "binding"]
    /\ attempt' = 0
    /\ UNCHANGED <<step, shutdown, ready, row>>

\* A server that cannot bind panics in its own task; nobody looks until the join.
Bind ==
    /\ Alive /\ tasks["server"] = "binding"
    /\ \E s \in {"running", "panicked"} : tasks' = [tasks EXCEPT !["server"] = s]
    /\ UNCHANGED <<step, dpc, attempt, shutdown, ready, row>>

\* Ctrl-C
Signal ==
    /\ Alive /\ ~shutdown
    /\ shutdown' = TRUE
    /\ UNCHANGED <<step, dpc, attempt, tasks, ready, row>>

\* The daemon's receiver has not seen the change yet, even when the wait looked
\* at the value: changed() returns.
Stopping ==
    /\ dpc = "serve" /\ shutdown
    /\ dpc' = "join" /\ step' = 1
    /\ UNCHANGED <<attempt, tasks, shutdown, ready, row>>

\* The server stops accepting and the dynamic manager stops its producers.
TaskDrains(t) ==
    /\ t \in {"dynamic", "server"} /\ Running(t) /\ shutdown
    /\ tasks' = [tasks EXCEPT ![t] = "draining"]
    /\ UNCHANGED <<dpc, step, attempt, shutdown, ready, row>>

\* A task ends once it is between two pieces of work.
TaskStops(t) ==
    /\ Alive /\ shutdown
    /\ tasks[t] = IF t \in {"dynamic", "server"} THEN "draining" ELSE "running"
    /\ tasks' = [tasks EXCEPT ![t] = "stopped"]
    /\ UNCHANGED <<dpc, step, attempt, shutdown, ready, row>>

\* Mutant: the writer is not joined.
JoinOrder_NoWriter == <<"static", "dynamic", "server">>

JoinOrder == <<"static", "dynamic", "writer", "server">>

\* The next task has ended; a panic is returned as an error at once.
Join ==
    /\ dpc = "join"
    /\ IF step > Len(JoinOrder) THEN dpc' = "ok" /\ UNCHANGED step
       ELSE /\ tasks[JoinOrder[step]] \in {"stopped", "panicked"}
            /\ IF tasks[JoinOrder[step]] = "panicked" THEN dpc' = "error" /\ UNCHANGED step
               ELSE step' = step + 1 /\ UNCHANGED dpc
    /\ UNCHANGED <<attempt, tasks, shutdown, ready, row>>

DaemonInit ==
    /\ dpc = "setup" /\ step = 1 /\ attempt = 0 /\ shutdown = FALSE /\ ready = FALSE
    /\ tasks = [t \in TaskNames |-> "none"]

DaemonStep ==
    \/ SetupDone \/ SetupFails \/ CheckExisting \/ WaitTurn \/ Launch
    \/ Bind \/ Stopping \/ Join

=============================================================================
