--------------------------- MODULE DynamicWorkers ---------------------------
(***************************************************************************)
(* DynamicPoolManager (src/src/workers/dynamic_worker.rs): a WebSocket     *)
(* listener and a polling loop put refresh tasks into one bounded channel; *)
(* a pool of workers takes them out and, for each, fetches the pool from   *)
(* the chain, writes it to Redis, publishes it to the write queue and      *)
(* broadcasts it.  The manager spawns them all and, on shutdown, joins     *)
(* first the two producers and then the workers.                           *)
(*                                                                         *)
(* A pool's state is represented by its version on chain.  Of the write    *)
(* queue only the last accepted version per pool is kept: the queue is     *)
(* FIFO with one consumer (ColdPath).  Redis keys do not expire here       *)
(* (their TTL is 300 s, and polling rewrites them), and every pool is of   *)
(* one of the four DEXes with a collector.  The static manager's writes to *)
(* the same keys are in Quotes.                                            *)
(***************************************************************************)
EXTENDS Integers, Sequences, FiniteSets

CONSTANTS Pools,       \* the pools that a frame may name
          Registered,  \* those that PostgreSQL knows from the start
          Workers,     \* num_workers of them
          MaxRetries,  \* config.max_retries
          MaxVersion,  \* bound: versions of a pool on chain
          MaxFaults,   \* bound: failed RPC, Redis and PostgreSQL calls
          NoTask

ASSUME DynamicAssumption ==
  /\ IsFiniteSet(Workers) /\ Workers # {}
  /\ MaxRetries \in Nat
  /\ MaxVersion \in Nat
  /\ MaxFaults \in Nat
  /\ Registered \subseteq Pools
  /\ NoTask \notin Pools

VARIABLES
  chain,      \* chain[p]: the version of p on chain
  shutdown,   \* the watch channel's value
  channel,    \* the mpsc channel of tasks
  wsPc, wsTask,                \* the WebSocket listener
  pollPc, pollLeft,            \* the polling loop
  mgr,                         \* the manager's run()
  wpc, task, state, attempt,   \* the workers
  redis,      \* redis[p]: the cached version of p
  lastPub,    \* lastPub[p]: the version last accepted by the write queue
  queueUp,    \* the queue's connection, which nothing reopens
  reach,      \* reach[p][v]: how far version v of p has got
  faults

\* mpsc::channel(num_workers * 2)
Capacity == Cardinality(Workers) * 2

producerVars == <<wsPc, wsTask, pollPc, pollLeft>>
storeVars    == <<redis, lastPub, queueUp, reach>>
workerVars   == <<wpc, task, state, attempt, storeVars>>
vars == <<chain, shutdown, channel, producerVars, mgr, workerVars, faults>>

Versions == 0..MaxVersion

Stages == {"none", "cached", "queued", "sent"}

Rank(s) == CASE s = "none" -> 0 [] s = "cached" -> 1
             [] s = "queued" -> 2 [] s = "sent" -> 3

TypeOK ==
  /\ chain \in [Pools -> Versions]
  /\ shutdown \in BOOLEAN
  /\ channel \in Seq(Pools) /\ Len(channel) <= Capacity
  /\ wsPc \in {"top", "retry", "pause", "listen", "send", "stopped"}
  /\ wsTask \in Pools \cup {NoTask}
  /\ pollPc \in {"top", "send", "sleep", "stopped"}
  /\ pollLeft \subseteq Pools
  /\ mgr \in {"wait", "join", "dropped", "done"}
  /\ wpc \in [Workers -> {"recv", "fetch", "cache", "publish", "broadcast",
                          "done"}]
  /\ task \in [Workers -> Pools \cup {NoTask}]
  /\ state \in [Workers -> Versions]
  /\ attempt \in [Workers -> 0..MaxRetries]
  /\ redis \in [Pools -> Versions]
  /\ lastPub \in [Pools -> Versions]
  /\ queueUp \in BOOLEAN
  /\ reach \in [Pools -> [Versions -> Stages]]
  /\ faults \in 0..MaxFaults

\* Version 0 of a pool is what an earlier run of the daemon has left: cached,
\* queued and broadcast.
Init ==
  /\ chain = [p \in Pools |-> 0]
  /\ shutdown = FALSE
  /\ channel = <<>>
  /\ wsPc = "top" /\ wsTask = NoTask
  /\ pollPc = "top" /\ pollLeft = {}
  /\ mgr = "wait"
  /\ wpc = [w \in Workers |-> "recv"]
  /\ task = [w \in Workers |-> NoTask]
  /\ state = [w \in Workers |-> 0]
  /\ attempt = [w \in Workers |-> 0]
  /\ redis = [p \in Pools |-> 0]
  /\ lastPub = [p \in Pools |-> 0]
  /\ queueUp = TRUE
  /\ reach = [p \in Pools |->
                [v \in Versions |-> IF v = 0 THEN "sent" ELSE "none"]]
  /\ faults = 0

Fault == faults < MaxFaults /\ faults' = faults + 1

\* Mutant: room for one more.
Send_OneMore(p) == Len(channel) <= Capacity /\ channel' = Append(channel, p)

\* tx.send(task).await: waits while the channel is full.
Send(p) == Len(channel) < Capacity /\ channel' = Append(channel, p)

-----------------------------------------------------------------------------
(***************************************************************************)
(* The environment: swaps move pools on chain, Ctrl-C sets the flag.       *)
(***************************************************************************)
ChainMoves(p) ==
  /\ chain[p] < MaxVersion
  /\ chain' = [chain EXCEPT ![p] = @ + 1]
  /\ UNCHANGED <<shutdown, channel, producerVars, mgr, workerVars, faults>>

Shutdown ==
  /\ ~shutdown
  /\ shutdown' = TRUE
  /\ UNCHANGED <<chain, channel, producerVars, mgr, workerVars, faults>>

-----------------------------------------------------------------------------
(***************************************************************************)
(* run_websocket_listener                                                  *)
(***************************************************************************)
WsGoto(pc) ==
  /\ wsPc' = pc
  /\ UNCHANGED <<chain, shutdown, wsTask, pollPc, pollLeft, mgr,
                 workerVars>>

\* The shutdown test; then connect_async and the subscription request.
WsTop ==
  /\ wsPc = "top"
  /\ \/ shutdown /\ WsGoto("stopped")
     \/ ~shutdown /\ WsGoto("listen")
     \/ ~shutdown /\ WsGoto("retry")    \* no connection
     \/ ~shutdown /\ WsGoto("pause")    \* connected, but the request was not sent
  /\ UNCHANGED <<channel, faults>>

\* After a failed connect: select! { sleep, shutdown.changed() }.
WsRetry ==
  /\ wsPc = "retry"
  /\ WsGoto("top") \/ (shutdown /\ WsGoto("stopped"))
  /\ UNCHANGED <<channel, faults>>

\* After a failed subscription: a plain sleep.
WsPause ==
  wsPc = "pause" /\ WsGoto("top") /\ UNCHANGED <<channel, faults>>

\* A text frame about pool p, registered or not: nobody looks it up.  Frames
\* that parse neither as a pool message nor as a swap event change nothing.
WsFrame(p) ==
  /\ wsPc = "listen"
  /\ wsPc' = "send"
  /\ wsTask' = p
  /\ UNCHANGED <<chain, shutdown, channel, pollPc, pollLeft, mgr, workerVars,
                 faults>>

\* tx.send; for a swap event (what parses as one always parses as a pool
\* message) then publish(SwapEventLog), whose result is ignored.
WsSend ==
  /\ wsPc = "send"
  /\ Send(wsTask)
  /\ wsPc' = "listen"
  /\ wsTask' = NoTask
  /\ UNCHANGED <<chain, shutdown, pollPc, pollLeft, mgr, workerVars, faults>>

\* The connection is lost, or the listener notices the shutdown.
WsLeave ==
  /\ wsPc = "listen"
  /\ WsGoto(IF shutdown THEN "stopped" ELSE "top")
  /\ UNCHANGED <<channel, faults>>

WsRun == WsTop \/ WsRetry \/ WsPause \/ WsSend

-----------------------------------------------------------------------------
(***************************************************************************)
(* run_polling_loop                                                        *)
(***************************************************************************)
\* The shutdown test and list_pools, which may by now return pools that
\* discovery or the database writer has added.
PollTop ==
  /\ pollPc = "top"
  /\ \/ /\ shutdown
        /\ pollPc' = "stopped" /\ UNCHANGED <<pollLeft, faults>>
     \/ /\ ~shutdown
        /\ pollPc' = "send" /\ UNCHANGED faults
        /\ pollLeft' \in {rows \in SUBSET Pools : Registered \subseteq rows}
     \/ /\ ~shutdown
        /\ pollPc' = "sleep" /\ UNCHANGED pollLeft /\ Fault
  /\ UNCHANGED <<chain, shutdown, channel, wsPc, wsTask, mgr,
                 workerVars>>

\* One iteration of the for loop over the pools, which does not look at the
\* shutdown flag.
PollSend(p) ==
  /\ pollPc = "send"
  /\ p \in pollLeft
  /\ Send(p)
  /\ pollLeft' = pollLeft \ {p}
  /\ UNCHANGED <<chain, shutdown, wsPc, wsTask, pollPc, mgr,
                 workerVars, faults>>

\* Mutant: one round of polling only.
PollRest_Once ==
  /\ pollPc = "send"
  /\ pollLeft = {}
  /\ pollPc' = "stopped"
  /\ UNCHANGED <<chain, shutdown, channel, wsPc, wsTask, pollLeft, mgr,
                 workerVars, faults>>

PollRest ==
  /\ pollPc = "send"
  /\ pollLeft = {}
  /\ pollPc' = "sleep"
  /\ UNCHANGED <<chain, shutdown, channel, wsPc, wsTask, pollLeft, mgr,
                 workerVars, faults>>

PollWake ==
  /\ pollPc = "sleep"
  /\ pollPc' = "top" \/ (shutdown /\ pollPc' = "stopped")
  /\ UNCHANGED <<chain, shutdown, channel, wsPc, wsTask, pollLeft, mgr,
                 workerVars, faults>>

PollRun == PollTop \/ (\E p \in Pools : PollSend(p)) \/ PollRest \/ PollWake

-----------------------------------------------------------------------------
(***************************************************************************)
(* worker_loop and process_task                                            *)
(***************************************************************************)
\* All Senders are gone: both producers have returned and run() dropped its own.
SendersDropped ==
  wsPc = "stopped" /\ pollPc = "stopped" /\ mgr \in {"dropped", "done"}

\* Version v of p has got at least to stage s.
Record(p, v, s) ==
  reach' = [reach EXCEPT ![p][v] = IF Rank(@) < Rank(s) THEN s ELSE @]

\* set_pool_state, which knows nothing of versions.
SetRedis(p, v) == redis' = [redis EXCEPT ![p] = v] /\ Record(p, v, "cached")

Enqueue(p, v) == lastPub' = [lastPub EXCEPT ![p] = v] /\ Record(p, v, "queued")

Goto(w, pc) == wpc' = [wpc EXCEPT ![w] = pc]

\* process_task returned, Ok or Err: the task is forgotten.
Drop(w) ==
  /\ Goto(w, "recv")
  /\ task' = [task EXCEPT ![w] = NoTask]
  /\ state' = [state EXCEPT ![w] = 0]
  /\ attempt' = [attempt EXCEPT ![w] = 0]

WorkerKeeps == UNCHANGED <<chain, shutdown, producerVars, mgr>>

\* recv() under the shared mutex returns a task.
Recv(w) ==
  /\ wpc[w] = "recv"
  /\ channel # <<>>
  /\ channel' = Tail(channel)
  /\ task' = [task EXCEPT ![w] = Head(channel)]
  /\ Goto(w, "fetch")
  /\ WorkerKeeps
  /\ UNCHANGED <<state, attempt, storeVars, faults>>

\* Mutant: try_recv, which also returns nothing while senders remain.
RecvNone_TryRecv(w) ==
  /\ wpc[w] = "recv"
  /\ channel = <<>>
  /\ shutdown
  /\ Goto(w, "done")
  /\ WorkerKeeps
  /\ UNCHANGED <<channel, task, state, attempt, storeVars, faults>>

\* recv() returns None: the channel is empty and closed.
RecvNone(w) ==
  /\ wpc[w] = "recv"
  /\ channel = <<>>
  /\ SendersDropped
  /\ Goto(w, "done")
  /\ WorkerKeeps
  /\ UNCHANGED <<channel, task, state, attempt, storeVars, faults>>

FetchOk(w) ==
  /\ wpc[w] = "fetch"
  /\ state' = [state EXCEPT ![w] = chain[task[w]]]
  /\ Goto(w, "cache")
  /\ WorkerKeeps
  /\ UNCHANGED <<channel, task, attempt, storeVars, faults>>

\* Retry with backoff until attempt > max_retries, then give the task up.
FetchErr(w) ==
  /\ wpc[w] = "fetch"
  /\ Fault
  /\ \/ /\ attempt[w] + 1 > MaxRetries
        /\ Drop(w)
     \/ /\ attempt[w] + 1 <= MaxRetries
        /\ attempt' = [attempt EXCEPT ![w] = @ + 1]
        /\ UNCHANGED <<wpc, task, state>>
  /\ WorkerKeeps
  /\ UNCHANGED <<channel, storeVars>>

\* Mutant: broadcast right after Redis.
CacheOk_ToBroadcast(w) ==
  /\ wpc[w] = "cache"
  /\ SetRedis(task[w], state[w])
  /\ Goto(w, "broadcast")
  /\ WorkerKeeps
  /\ UNCHANGED <<channel, task, state, attempt, lastPub, queueUp, faults>>

CacheOk(w) ==
  /\ wpc[w] = "cache"
  /\ SetRedis(task[w], state[w])
  /\ Goto(w, "publish")
  /\ WorkerKeeps
  /\ UNCHANGED <<channel, task, state, attempt, lastPub, queueUp, faults>>

\* set_pool_state failed three times; one of the tries may have taken effect.
CacheErr(w) ==
  /\ wpc[w] = "cache"
  /\ Fault
  /\ SetRedis(task[w], state[w]) \/ UNCHANGED <<redis, reach>>
  /\ Drop(w)
  /\ WorkerKeeps
  /\ UNCHANGED <<channel, lastPub, queueUp>>

PublishOk(w) ==
  /\ wpc[w] = "publish"
  /\ queueUp
  /\ Enqueue(task[w], state[w])
  /\ Goto(w, "broadcast")
  /\ WorkerKeeps
  /\ UNCHANGED <<channel, task, state, attempt, redis, queueUp, faults>>

\* A failed publish, which may have taken effect: the reply was lost, or the
\* connection with it.
PublishErr(w) ==
  /\ wpc[w] = "publish"
  /\ queueUp
  /\ Fault
  /\ Enqueue(task[w], state[w]) \/ UNCHANGED <<lastPub, reach>>
  /\ queueUp' \in BOOLEAN
  /\ Drop(w)
  /\ WorkerKeeps
  /\ UNCHANGED <<channel, redis>>

\* Once the connection is lost every publish fails.
PublishDown(w) ==
  /\ wpc[w] = "publish"
  /\ ~queueUp
  /\ Drop(w)
  /\ WorkerKeeps
  /\ UNCHANGED <<channel, storeVars, faults>>

\* broadcast_tx.send, whose result is ignored.
Broadcast(w) ==
  /\ wpc[w] = "broadcast"
  /\ Record(task[w], state[w], "sent")
  /\ Drop(w)
  /\ WorkerKeeps
  /\ UNCHANGED <<channel, redis, lastPub, queueUp, faults>>

WorkerRun(w) ==
  \/ Recv(w) \/ RecvNone(w) \/ FetchOk(w) \/ FetchErr(w)
  \/ CacheOk(w) \/ CacheErr(w) \/ PublishOk(w) \/ PublishErr(w)
  \/ PublishDown(w) \/ Broadcast(w)

-----------------------------------------------------------------------------
(***************************************************************************)
(* run()                                                                   *)
(***************************************************************************)
ManagerKeeps == UNCHANGED <<chain, shutdown, channel, producerVars, workerVars,
                            faults>>

MgrWake == mgr = "wait" /\ shutdown /\ mgr' = "join" /\ ManagerKeeps

\* Mutant: the workers are joined before drop(tx).
MgrJoin_WorkersFirst ==
  /\ mgr = "join"
  /\ wsPc = "stopped"
  /\ pollPc = "stopped"
  /\ \A w \in Workers : wpc[w] = "done"
  /\ mgr' = "dropped"
  /\ ManagerKeeps

\* ws_handle.await, poll_handle.await, drop(tx).
MgrJoin ==
  /\ mgr = "join"
  /\ wsPc = "stopped"
  /\ pollPc = "stopped"
  /\ mgr' = "dropped"
  /\ ManagerKeeps

MgrDone ==
  /\ mgr = "dropped"
  /\ \A w \in Workers : wpc[w] = "done"
  /\ mgr' = "done"
  /\ ManagerKeeps

MgrRun == MgrWake \/ MgrJoin \/ MgrDone

\* The manager has returned; the process goes on to its other joins.
Exited == mgr = "done" /\ UNCHANGED vars

Next ==
  \/ \E p \in Pools : ChainMoves(p)
  \/ Shutdown
  \/ \E p \in Pools : WsFrame(p)
  \/ WsLeave
  \/ WsRun
  \/ PollRun
  \/ \E w \in Workers : WorkerRun(w)
  \/ MgrRun
  \/ Exited

Spec == Init /\ [][Next]_vars

\* Every task spawned on the runtime is scheduled, and the calls it awaits
\* return, with Ok or Err.  Frames and lost connections are up to the server;
\* but select! polls its branches in random order, so a listener that is told
\* to shut down leaves its loop even if frames keep coming; and the channel
\* serves waiting senders in turn, so frames cannot keep the poll out of it.
Fairness ==
  /\ WF_vars(WsRun)
  /\ SF_vars(WsLeave /\ shutdown)
  /\ SF_vars(PollRun)
  /\ \A w \in Workers : WF_vars(WorkerRun(w))
  /\ WF_vars(MgrRun)

FairSpec == Spec /\ Fairness

-----------------------------------------------------------------------------
\* A worker stops only when nothing is left to do and nothing can come: both
\* producers have returned and the channel is empty.  So a clean exit never
\* abandons a task that tx.send accepted.
NoTaskAbandoned ==
  (\E w \in Workers : wpc[w] = "done")
    => channel = <<>> /\ wsPc = "stopped" /\ pollPc = "stopped"

\* ARCHITECTURE.md, "Dynamic worker invariant": a version of a pool reaches
\* the write queue only after Redis, and the WebSocket clients only after the
\* write queue, whichever worker carries it.
HotPathOrder ==
  [][\A p \in Pools, v \in Versions :
        Rank(reach'[p][v]) <= Rank(reach[p][v]) + 1]_vars

\* A shutdown ends the manager, from whatever state: a full channel, a
\* producer blocked in send, a worker in its retries, a listener in its sleep,
\* a queue whose connection is lost.
ShutdownCompletes == shutdown ~> mgr = "done"

\* Once the chain is quiet and as long as the daemon runs, polling repairs the
\* stale overwrites of another worker, the dropped tasks and the failed writes:
\* Redis ends up at the chain's version of every registered pool for good, and
\* so does the write queue, unless its connection was lost meanwhile.
Converges ==
  (<>[]~shutdown)
    => <>[](\A p \in Registered :
              redis[p] = chain[p] /\ (queueUp => lastPub[p] = chain[p]))
=============================================================================
