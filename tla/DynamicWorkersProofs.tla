------------------------ MODULE DynamicWorkersProofs ------------------------
(***************************************************************************)
(* Proofs about DynamicWorkers, for any sets of pools and workers and any  *)
(* bounds: types, that no accepted task is abandoned, and the order of the *)
(* hot path.                                                               *)
(***************************************************************************)
EXTENDS DynamicWorkers, FiniteSetTheorems, TLAPS

Busy == {"fetch", "cache", "publish", "broadcast"}

\* Who holds a task.
Holding ==
  /\ wsPc = "send" => wsTask \in Pools
  /\ \A w \in Workers : wpc[w] \in Busy => task[w] \in Pools

TypeInv == TypeOK /\ Holding

\* What a bounded channel does with a list of tasks.
LEMMA ChannelFacts ==
  ASSUME NEW p \in Pools, channel \in Seq(Pools), Len(channel) <= Capacity
  PROVE  /\ Len(channel) < Capacity
              => /\ Append(channel, p) \in Seq(Pools)
                 /\ Len(Append(channel, p)) <= Capacity
         /\ channel # <<>>
              => /\ Head(channel) \in Pools
                 /\ Tail(channel) \in Seq(Pools)
                 /\ Len(Tail(channel)) <= Capacity
<1>1. Capacity \in Nat
  <2>1. Cardinality(Workers) \in Nat
    BY DynamicAssumption, FS_CardinalityType
  <2> QED
    BY <2>1 DEF Capacity
<1> QED
  BY <1>1

\* TypeInv by owner, so that a step is charged only with what it changes.
ChainTypes == chain \in [Pools -> Versions] /\ faults \in 0..MaxFaults

FlagTypes == shutdown \in BOOLEAN /\ queueUp \in BOOLEAN

ChannelTypes == channel \in Seq(Pools) /\ Len(channel) <= Capacity

ProducerTypes ==
  /\ wsPc \in {"top", "retry", "pause", "listen", "send", "stopped"}
  /\ wsTask \in Pools \cup {NoTask}
  /\ wsPc = "send" => wsTask \in Pools
  /\ pollPc \in {"top", "send", "sleep", "stopped"}
  /\ pollLeft \subseteq Pools

ManagerTypes == mgr \in {"wait", "join", "dropped", "done"}

WorkerTypes ==
  /\ wpc \in [Workers -> {"recv", "fetch", "cache", "publish", "broadcast",
                          "done"}]
  /\ task \in [Workers -> Pools \cup {NoTask}]
  /\ state \in [Workers -> Versions]
  /\ attempt \in [Workers -> 0..MaxRetries]
  /\ \A w \in Workers : wpc[w] \in Busy => task[w] \in Pools

StoreTypes ==
  /\ redis \in [Pools -> Versions]
  /\ lastPub \in [Pools -> Versions]
  /\ reach \in [Pools -> [Versions -> Stages]]

\* The type invariant, in parts that each step touches few of.
LEMMA TypeParts ==
  TypeInv <=> /\ ChainTypes /\ FlagTypes /\ ChannelTypes /\ ProducerTypes
              /\ ManagerTypes /\ WorkerTypes /\ StoreTypes
BY Zenon DEF TypeInv, TypeOK, Holding, ChainTypes, FlagTypes, ChannelTypes,
             ProducerTypes, ManagerTypes, WorkerTypes, StoreTypes

\* The same of the next state.
LEMMA TypePartsPrime ==
  TypeInv' <=> /\ ChainTypes' /\ FlagTypes' /\ ChannelTypes' /\ ProducerTypes'
               /\ ManagerTypes' /\ WorkerTypes' /\ StoreTypes'
BY Zenon DEF TypeInv, TypeOK, Holding, ChainTypes, FlagTypes, ChannelTypes,
             ProducerTypes, ManagerTypes, WorkerTypes, StoreTypes

\* run() starts well typed.
LEMMA TypeInit == Init => TypeInv
<1> SUFFICES ASSUME Init PROVE TypeInv
  OBVIOUS
<1>1. ChainTypes /\ StoreTypes
  BY DynamicAssumption DEF Init, ChainTypes, StoreTypes, Versions, Stages
<1>2. FlagTypes
  BY Zenon DEF Init, FlagTypes
<1>3. ChannelTypes
  <2>1. Capacity \in Nat
    BY DynamicAssumption, FS_CardinalityType DEF Capacity
  <2> QED
    BY <2>1 DEF Init, ChannelTypes
<1>4. ProducerTypes /\ ManagerTypes
  BY DEF Init, ProducerTypes, ManagerTypes
<1>5. WorkerTypes
  BY DynamicAssumption DEF Init, WorkerTypes, Versions, Busy
<1> QED
  BY <1>1, <1>2, <1>3, <1>4, <1>5, TypeParts

\* The environment and the manager.
LEMMA TypeOutside ==
  ASSUME TypeInv,
         (\E p \in Pools : ChainMoves(p)) \/ Shutdown \/ MgrRun \/ Exited
           \/ UNCHANGED vars
  PROVE  TypeInv'
<1>1. /\ UNCHANGED <<channel, producerVars, workerVars, faults>>
      /\ chain' = chain \/ \E p \in Pools : chain[p] < MaxVersion
                             /\ chain' = [chain EXCEPT ![p] = @ + 1]
      /\ shutdown' = shutdown \/ shutdown' = TRUE
      /\ mgr' = mgr \/ mgr' \in {"join", "dropped", "done"}
  BY DEF ChainMoves, Shutdown, MgrRun, MgrWake, MgrJoin, MgrDone, Exited, vars,
         ManagerKeeps
<1>2. ChainTypes'
  BY <1>1, TypeParts, DynamicAssumption DEF ChainTypes, Versions
<1>3. FlagTypes'
  BY <1>1, TypeParts, Zenon DEF FlagTypes, workerVars, storeVars
<1>4. ChannelTypes' /\ ProducerTypes' /\ ManagerTypes'
  BY <1>1, TypeParts
     DEF ChannelTypes, ProducerTypes, ManagerTypes, producerVars
<1>5. WorkerTypes' /\ StoreTypes'
  BY <1>1, TypeParts DEF WorkerTypes, StoreTypes, workerVars, storeVars
<1> QED
  BY <1>2, <1>3, <1>4, <1>5, TypePartsPrime

\* The WebSocket listener.
LEMMA TypeWs ==
  ASSUME TypeInv,
         WsRun \/ WsLeave
           \/ \E p \in Pools : WsFrame(p)
  PROVE  TypeInv'
<1> USE TypeParts
<1>1. UNCHANGED <<chain, shutdown, pollPc, pollLeft, mgr, workerVars, faults>>
  BY DEF WsRun, WsTop, WsRetry, WsPause, WsSend, WsLeave,
         WsFrame, WsGoto
<1>2. ChainTypes' /\ ManagerTypes' /\ WorkerTypes' /\ StoreTypes'
  BY <1>1 DEF ChainTypes, ManagerTypes, WorkerTypes, StoreTypes, workerVars,
              storeVars
<1>3. FlagTypes'
  BY <1>1, Zenon DEF FlagTypes, workerVars, storeVars
<1>4. ChannelTypes'
  <2>1. UNCHANGED channel \/ (wsPc = "send" /\ Send(wsTask))
    BY DEF WsRun, WsTop, WsRetry, WsPause, WsSend, WsLeave,
           WsFrame, WsGoto
  <2> QED
    BY <2>1, ChannelFacts DEF ChannelTypes, ProducerTypes, Send
<1>5. ProducerTypes'
  BY <1>1 DEF ProducerTypes, WsRun, WsTop, WsRetry, WsPause, WsSend, WsLeave, WsFrame, WsGoto
<1> QED
  BY <1>2, <1>3, <1>4, <1>5, TypePartsPrime

\* The polling loop.
LEMMA TypePoll ==
  ASSUME TypeInv, PollRun
  PROVE  TypeInv'
<1> USE TypeParts
<1>1. UNCHANGED <<chain, shutdown, wsPc, wsTask, mgr, workerVars>>
  BY DEF PollRun, PollTop, PollSend, PollRest, PollWake
<1>2. ManagerTypes' /\ WorkerTypes' /\ StoreTypes'
  BY <1>1 DEF ManagerTypes, WorkerTypes, StoreTypes, workerVars, storeVars
<1>3. FlagTypes'
  BY <1>1, Zenon DEF FlagTypes, workerVars, storeVars
<1>4. ChainTypes'
  <2>1. UNCHANGED faults \/ Fault
    BY DEF PollRun, PollTop, PollSend, PollRest, PollWake
  <2> QED
    BY <1>1, <2>1, DynamicAssumption DEF ChainTypes, Fault
<1>5. ChannelTypes'
  <2>1. UNCHANGED channel \/ \E p \in Pools : Send(p)
    BY DEF PollRun, PollTop, PollSend, PollRest, PollWake
  <2> QED
    BY <2>1, ChannelFacts DEF ChannelTypes, Send
<1>6. ProducerTypes'
  BY <1>1 DEF ProducerTypes, PollRun, PollTop, PollSend, PollRest, PollWake
<1> QED
  BY <1>2, <1>3, <1>4, <1>5, <1>6, TypePartsPrime

\* A worker's step only concerns w's own entries, the stores and the channel.
LEMMA WorkerFrame ==
  ASSUME NEW w \in Workers, WorkerRun(w)
  PROVE  /\ UNCHANGED <<chain, shutdown, producerVars, mgr>>
         /\ UNCHANGED faults \/ Fault
         /\ UNCHANGED channel \/ (channel # <<>> /\ channel' = Tail(channel))
BY DEF WorkerRun, Recv, RecvNone, FetchOk, FetchErr, CacheOk, CacheErr,
       PublishOk, PublishErr, PublishDown, Broadcast, WorkerKeeps, Drop

\* Record keeps reach a table of stages.
LEMMA RecordType ==
  ASSUME NEW w \in Workers, WorkerTypes, StoreTypes, task[w] \in Pools,
         NEW s \in Stages, Record(task[w], state[w], s)
  PROVE  reach' \in [Pools -> [Versions -> Stages]]
<1> DEFINE old == reach[task[w]][state[w]]
           new == IF Rank(old) < Rank(s) THEN s ELSE old
<1>1. state[w] \in Versions /\ reach[task[w]] \in [Versions -> Stages]
  BY DEF WorkerTypes, StoreTypes
<1>2. new \in Stages
  BY <1>1
<1>3. [reach[task[w]] EXCEPT ![state[w]] = new] \in [Versions -> Stages]
  BY <1>1, <1>2
<1>4. reach' = [reach EXCEPT ![task[w]] = [reach[task[w]] EXCEPT ![state[w]] = new]]
  BY DEF Record
<1> QED
  BY <1>3, <1>4 DEF StoreTypes

\* Giving a task up leaves the worker typed.
LEMMA DropType ==
  ASSUME NEW w \in Workers, WorkerTypes, Drop(w)
  PROVE  WorkerTypes'
BY DynamicAssumption DEF WorkerTypes, Drop, Goto, Versions, Busy

\* The steps of one worker.
LEMMA TypeWorker ==
  ASSUME TypeInv, NEW w \in Workers, WorkerRun(w)
  PROVE  TypeInv'
<1> USE TypeParts
<1>1. ChainTypes' /\ ManagerTypes' /\ ProducerTypes'
  BY WorkerFrame, DynamicAssumption
     DEF ChainTypes, ManagerTypes, ProducerTypes, producerVars, Fault
<1>2. FlagTypes'
  <2>1. queueUp' = queueUp \/ queueUp' \in BOOLEAN
    BY DEF WorkerRun, Recv, RecvNone, FetchOk, FetchErr, CacheOk, CacheErr,
           PublishOk, PublishErr, PublishDown, Broadcast, storeVars
  <2> QED
    BY <2>1, WorkerFrame, Zenon DEF FlagTypes
<1>3. ChannelTypes'
  BY WorkerFrame, ChannelFacts DEF ChannelTypes
<1>4. wpc[w] \in Busy => task[w] \in Pools
  BY DEF WorkerTypes
<1>5. WorkerTypes'
  <2>1. CASE Recv(w)
    <3>1. Head(channel) \in Pools
      BY <2>1, ChannelFacts DEF Recv, ChannelTypes
    <3> QED
      BY <2>1, <3>1 DEF Recv, Goto, WorkerTypes, Busy
  <2>2. CASE RecvNone(w)
    BY <2>2 DEF RecvNone, Goto, WorkerTypes, Busy
  <2>3. CASE FetchOk(w)
    <3>1. chain[task[w]] \in Versions
      BY <2>3, <1>4 DEF FetchOk, ChainTypes, Busy
    <3> QED
      BY <2>3, <3>1, <1>4 DEF FetchOk, Goto, WorkerTypes, Busy
  <2>4. CASE FetchErr(w)
    <3>1. CASE Drop(w)
      BY <3>1, DropType
    <3>2. CASE /\ attempt[w] + 1 <= MaxRetries
               /\ attempt' = [attempt EXCEPT ![w] = @ + 1]
               /\ UNCHANGED <<wpc, task, state>>
      BY <3>2, DynamicAssumption DEF WorkerTypes
    <3> QED
      BY <2>4, <3>1, <3>2 DEF FetchErr
  <2>5. CASE CacheOk(w)
    BY <2>5, <1>4 DEF CacheOk, Goto, WorkerTypes, Busy
  <2>6. CASE PublishOk(w)
    BY <2>6, <1>4 DEF PublishOk, Goto, WorkerTypes, Busy
  <2>7. CASE CacheErr(w) \/ PublishErr(w) \/ PublishDown(w) \/ Broadcast(w)
    BY <2>7, DropType DEF CacheErr, PublishErr, PublishDown, Broadcast
  <2> QED
    BY <2>1, <2>2, <2>3, <2>4, <2>5, <2>6, <2>7 DEF WorkerRun
<1>6. StoreTypes'
  <2>1. CASE Recv(w) \/ RecvNone(w) \/ FetchOk(w) \/ FetchErr(w) \/ PublishDown(w)
    BY <2>1 DEF Recv, RecvNone, FetchOk, FetchErr, PublishDown, StoreTypes, storeVars
  <2>2. CASE ~(Recv(w) \/ RecvNone(w) \/ FetchOk(w) \/ FetchErr(w) \/ PublishDown(w))
    <3>1. task[w] \in Pools /\ state[w] \in Versions
      BY <2>2, <1>4 DEF WorkerRun, CacheOk, CacheErr, PublishOk, PublishErr,
                        PublishDown, Broadcast, Busy, WorkerTypes
    <3>2. /\ redis' = redis \/ redis' = [redis EXCEPT ![task[w]] = state[w]]
          /\ lastPub' = lastPub \/ lastPub' = [lastPub EXCEPT ![task[w]] = state[w]]
          /\ reach' = reach \/ \E s \in Stages : Record(task[w], state[w], s)
      BY <2>2 DEF WorkerRun, CacheOk, CacheErr, PublishOk, PublishErr, PublishDown, Broadcast,
                  SetRedis, Enqueue, Stages
    <3>3. reach' \in [Pools -> [Versions -> Stages]]
      BY <3>1, <3>2, RecordType DEF StoreTypes
    <3> QED
      BY <3>1, <3>2, <3>3 DEF StoreTypes
  <2> QED
    BY <2>1, <2>2
<1> QED
  BY <1>1, <1>2, <1>3, <1>5, <1>6, TypePartsPrime

\* Every step keeps the types.
LEMMA TypeInvInductive == TypeInv /\ [Next]_vars => TypeInv'
BY TypeOutside, TypeWs, TypePoll, TypeWorker DEF Next

\* Every value stays of its type; in particular the channel never holds more
\* than num_workers * 2 tasks and no worker starts more than max_retries
\* retries.
THEOREM TypeCorrect == Spec => []TypeOK
<1>1. TypeInv => TypeOK
  BY DEF TypeInv
<1> QED
  BY <1>1, TypeInit, TypeInvInductive, PTL DEF Spec

-----------------------------------------------------------------------------
(***************************************************************************)
(* A worker that has returned saw a closed and empty channel, and nothing  *)
(* can fill it again.                                                      *)
(***************************************************************************)
Drained ==
  (\E w \in Workers : wpc[w] = "done") => SendersDropped /\ channel = <<>>

\* No step adds work after a worker has returned.
LEMMA DrainedInductive == TypeInv /\ Drained /\ [Next]_vars => Drained'
<1> SUFFICES ASSUME TypeInv, Drained, [Next]_vars PROVE Drained'
  OBVIOUS
<1> USE DEF Drained, SendersDropped
<1>1. CASE (\E p \in Pools : ChainMoves(p)) \/ Shutdown \/ Exited \/ UNCHANGED vars
  BY <1>1 DEF ChainMoves, Shutdown, Exited, vars, producerVars, workerVars
<1>2. CASE MgrRun
  BY <1>2 DEF MgrRun, MgrWake, MgrJoin, MgrDone, ManagerKeeps, producerVars,
              workerVars
<1>3. CASE WsRun \/ WsLeave \/ \E p \in Pools : WsFrame(p)
  BY <1>3 DEF WsRun, WsTop, WsRetry, WsPause, WsSend, WsLeave,
              WsFrame, WsGoto, workerVars
<1>4. CASE PollRun
  BY <1>4 DEF PollRun, PollTop, PollSend, PollRest, PollWake, workerVars
<1>5. CASE \E w \in Workers : WorkerRun(w)
  <2> PICK w \in Workers : WorkerRun(w)
    BY <1>5
  <2>1. SendersDropped /\ channel = <<>> => SendersDropped' /\ channel' = <<>>
    BY WorkerFrame DEF producerVars
  <2>2. CASE RecvNone(w)
    BY <2>1, <2>2 DEF RecvNone
  <2>3. CASE ~RecvNone(w)
    <3>1. \A v \in Workers : wpc'[v] = "done" => wpc[v] = "done"
      BY <2>3 DEF TypeInv, TypeOK, WorkerRun, Recv, FetchOk, FetchErr, CacheOk,
                  CacheErr, PublishOk, PublishErr, PublishDown, Broadcast, Drop, Goto
    <3> QED
      BY <2>1, <3>1
  <2> QED
    BY <2>2, <2>3
<1> QED
  BY <1>1, <1>2, <1>3, <1>4, <1>5 DEF Next

\* However shutdown, full channel, blocked producers and joins interleave, a
\* worker returns only when no accepted task is left and none can come.
THEOREM NoTaskIsAbandoned == Spec => []NoTaskAbandoned
<1>1. Init => Drained
  BY DEF Init, Drained
<1>2. Drained => NoTaskAbandoned
  BY DEF Drained, NoTaskAbandoned, SendersDropped
<1> QED
  BY <1>1, <1>2, TypeInit, TypeInvInductive, DrainedInductive, PTL DEF Spec

-----------------------------------------------------------------------------
(***************************************************************************)
(* The order of the hot path.  A worker about to publish has cached its    *)
(* version, one about to broadcast has queued it; stages never shrink.     *)
(***************************************************************************)
Carried ==
  \A w \in Workers :
    /\ wpc[w] = "publish" => Rank(reach[task[w]][state[w]]) >= 1
    /\ wpc[w] = "broadcast" => Rank(reach[task[w]][state[w]]) >= 2

\* Ranks are the numbers 0 to 3, in the order of the stages.
LEMMA RankFacts ==
  /\ \A s \in Stages : Rank(s) \in 0..3
  /\ Rank("cached") = 1 /\ Rank("queued") = 2 /\ Rank("sent") = 3
BY DEF Stages, Rank

\* No version loses a stage, and none gains more than one.
OneStage ==
  \A p \in Pools, v \in Versions :
    /\ Rank(reach'[p][v]) >= Rank(reach[p][v])
    /\ Rank(reach'[p][v]) <= Rank(reach[p][v]) + 1

\* Recording the next stage moves one version up by at most one.
LEMMA RecordEffect ==
  ASSUME TypeInv, NEW w \in Workers, task[w] \in Pools,
         NEW s \in Stages, Record(task[w], state[w], s),
         Rank(reach[task[w]][state[w]]) + 1 >= Rank(s)
  PROVE  OneStage /\ Rank(reach'[task[w]][state[w]]) >= Rank(s)
<1> DEFINE old == reach[task[w]][state[w]]
           new == IF Rank(old) < Rank(s) THEN s ELSE old
<1>1. /\ state[w] \in Versions
      /\ reach \in [Pools -> [Versions -> Stages]]
  BY DEF TypeInv, TypeOK
<1>2. old \in Stages
  BY <1>1
<1>3. Rank(old) \in 0..3 /\ Rank(s) \in 0..3
  BY <1>2, RankFacts
<1>4. Rank(new) >= Rank(old) /\ Rank(new) >= Rank(s) /\ Rank(new) <= Rank(old) + 1
  BY <1>3
<1>5. reach' = [reach EXCEPT ![task[w]] = [reach[task[w]] EXCEPT ![state[w]] = new]]
  BY DEF Record
<1>6. \A p \in Pools, v \in Versions :
        reach'[p][v] = IF p = task[w] /\ v = state[w] THEN new ELSE reach[p][v]
  BY <1>1, <1>5
<1>7. \A p \in Pools, v \in Versions : Rank(reach[p][v]) \in 0..3
  BY <1>1, RankFacts
<1>8. OneStage
  <2> SUFFICES ASSUME NEW p \in Pools, NEW v \in Versions
               PROVE  /\ Rank(reach'[p][v]) >= Rank(reach[p][v])
                      /\ Rank(reach'[p][v]) <= Rank(reach[p][v]) + 1
    BY DEF OneStage
  <2>1. CASE p = task[w] /\ v = state[w]
    BY <2>1, <1>4, <1>6
  <2>2. CASE ~(p = task[w] /\ v = state[w])
    <3>1. reach'[p][v] = reach[p][v]
      BY <2>2, <1>6
    <3> HIDE DEF new, old
    <3> QED
      BY <3>1, <1>7
  <2> QED
    BY <2>1, <2>2
<1>9. reach'[task[w]][state[w]] = new
  BY <1>1, <1>6
<1> HIDE DEF new
<1> QED
  BY <1>4, <1>8, <1>9

\* Steps that record nothing and take no worker to "publish" or "broadcast".
LEMMA CarriedElsewhere ==
  ASSUME TypeInv, Carried, UNCHANGED reach,
         \A w \in Workers :
            wpc'[w] \in {"publish", "broadcast"}
              => wpc'[w] = wpc[w] /\ task'[w] = task[w] /\ state'[w] = state[w]
  PROVE  Carried' /\ OneStage
<1>1. \A p \in Pools, v \in Versions : Rank(reach[p][v]) \in Int
  BY RankFacts DEF TypeInv, TypeOK
<1>2. OneStage
  BY <1>1 DEF OneStage
<1>3. Carried'
  BY DEF Carried
<1> QED
  BY <1>2, <1>3

\* A worker records a stage; the others keep their place.
LEMMA CarriedRecord ==
  ASSUME TypeInv, Carried, NEW w \in Workers, task[w] \in Pools,
         NEW s \in Stages, Record(task[w], state[w], s),
         Rank(reach[task[w]][state[w]]) + 1 >= Rank(s),
         \A v \in Workers \ {w} :
            wpc'[v] = wpc[v] /\ task'[v] = task[v] /\ state'[v] = state[v],
         wpc'[w] \in {"publish", "broadcast"}
              => /\ task'[w] = task[w] /\ state'[w] = state[w]
                 /\ wpc'[w] = "publish" => Rank(s) >= 1
                 /\ wpc'[w] = "broadcast" => Rank(s) >= 2
  PROVE  Carried' /\ OneStage
<1>1. OneStage /\ Rank(reach'[task[w]][state[w]]) >= Rank(s)
  BY RecordEffect
<1>2. reach' \in [Pools -> [Versions -> Stages]]
  BY RecordType, TypeParts
<1>3. \A p \in Pools, v \in Versions :
         Rank(reach[p][v]) \in Int /\ Rank(reach'[p][v]) \in Int
  BY <1>2, RankFacts DEF TypeInv, TypeOK
<1>4. Rank(s) \in Int
  BY RankFacts
<1>5. ASSUME NEW v \in Workers
      PROVE  /\ wpc'[v] = "publish" => Rank(reach'[task'[v]][state'[v]]) >= 1
             /\ wpc'[v] = "broadcast" => Rank(reach'[task'[v]][state'[v]]) >= 2
  <2>1. CASE v = w
    <3>1. Rank(reach'[task[w]][state[w]]) \in Int
      BY <1>3 DEF TypeInv, TypeOK
    <3> QED
      BY <2>1, <1>1, <1>4, <3>1
  <2>2. CASE v # w
    <3>1. wpc'[v] = wpc[v] /\ task'[v] = task[v] /\ state'[v] = state[v]
      BY <2>2
    <3>2. wpc[v] \in {"publish", "broadcast"} =>
            /\ task[v] \in Pools /\ state[v] \in Versions
      BY DEF TypeInv, TypeOK, Holding, Busy
    <3>3. wpc[v] \in {"publish", "broadcast"} =>
            /\ Rank(reach'[task[v]][state[v]]) >= Rank(reach[task[v]][state[v]])
            /\ Rank(reach[task[v]][state[v]]) \in Int
            /\ Rank(reach'[task[v]][state[v]]) \in Int
      BY <1>1, <1>3, <3>2 DEF OneStage
    <3> QED
      BY <3>1, <3>3 DEF Carried
  <2> QED
    BY <2>1, <2>2
<1> QED
  BY <1>1, <1>5 DEF Carried

\* The steps of one worker.
LEMMA CarriedWorker ==
  ASSUME TypeInv, Carried, NEW w \in Workers, WorkerRun(w)
  PROVE  Carried' /\ OneStage
<1>1. /\ wpc[w] \in Busy => task[w] \in Pools
      /\ state[w] \in Versions
      /\ wpc \in [Workers -> {"recv", "fetch", "cache", "publish", "broadcast",
                              "done"}]
      /\ task \in [Workers -> Pools \cup {NoTask}]
      /\ state \in [Workers -> Versions]
  BY DEF TypeInv, TypeOK, Holding
<1>2. \A p \in Pools, v \in Versions : Rank(reach[p][v]) \in 0..3
  BY RankFacts DEF TypeInv, TypeOK
<1>3. \A v \in Workers \ {w} :
         wpc'[v] = wpc[v] /\ task'[v] = task[v] /\ state'[v] = state[v]
  BY <1>1 DEF WorkerRun, Recv, RecvNone, FetchOk, FetchErr, CacheOk, CacheErr,
              PublishOk, PublishErr, PublishDown, Broadcast, Drop, Goto
<1>4. CASE Recv(w) \/ RecvNone(w) \/ FetchOk(w) \/ FetchErr(w) \/ PublishDown(w)
  <2>1. UNCHANGED reach /\ wpc'[w] \notin {"publish", "broadcast"}
    BY <1>1, <1>4 DEF Recv, RecvNone, FetchOk, FetchErr, PublishDown, Drop, Goto,
                      storeVars
  <2> QED
    BY <1>3, <2>1, CarriedElsewhere
<1>5. CASE CacheOk(w) \/ CacheErr(w)
  <2>1. wpc[w] = "cache" /\ task[w] \in Pools
    BY <1>1, <1>5 DEF CacheOk, CacheErr, Busy
  <2>2. CASE Record(task[w], state[w], "cached")
    <3>1. Rank(reach[task[w]][state[w]]) + 1 >= Rank("cached")
      BY <1>1, <1>2, <2>1, RankFacts
    <3>2. \/ wpc'[w] = "publish" /\ task'[w] = task[w] /\ state'[w] = state[w]
          \/ wpc'[w] = "recv"
      BY <1>1, <1>5 DEF CacheOk, CacheErr, Goto, Drop
    <3>3. "cached" \in Stages
      BY DEF Stages
    <3> QED
      BY <1>3, <2>1, <2>2, <3>1, <3>2, <3>3, RankFacts, CarriedRecord
  <2>3. CASE UNCHANGED reach /\ CacheErr(w)
    <3>1. wpc'[w] = "recv"
      BY <1>1, <2>3 DEF CacheErr, Goto, Drop
    <3> QED
      BY <1>3, <2>3, <3>1, CarriedElsewhere
  <2> QED
    BY <1>5, <2>2, <2>3 DEF CacheOk, CacheErr, SetRedis
<1>6. CASE PublishOk(w) \/ PublishErr(w)
  <2>1. wpc[w] = "publish" /\ task[w] \in Pools
    BY <1>1, <1>6 DEF PublishOk, PublishErr, Busy
  <2>2. CASE Record(task[w], state[w], "queued")
    <3>1. Rank(reach[task[w]][state[w]]) + 1 >= Rank("queued")
      BY <1>1, <1>2, <2>1, RankFacts DEF Carried
    <3>2. \/ wpc'[w] = "broadcast" /\ task'[w] = task[w] /\ state'[w] = state[w]
          \/ wpc'[w] = "recv"
      BY <1>1, <1>6 DEF PublishOk, PublishErr, Goto, Drop
    <3>3. "queued" \in Stages
      BY DEF Stages
    <3> QED
      BY <1>3, <2>1, <2>2, <3>1, <3>2, <3>3, RankFacts, CarriedRecord
  <2>3. CASE UNCHANGED reach /\ PublishErr(w)
    <3>1. wpc'[w] = "recv"
      BY <1>1, <2>3 DEF PublishErr, Goto, Drop
    <3> QED
      BY <1>3, <2>3, <3>1, CarriedElsewhere
  <2> QED
    BY <1>6, <2>2, <2>3 DEF PublishOk, PublishErr, Enqueue
<1>7. CASE Broadcast(w)
  <2>1. wpc[w] = "broadcast" /\ task[w] \in Pools
    BY <1>1, <1>7 DEF Broadcast, Busy
  <2>2. Rank(reach[task[w]][state[w]]) + 1 >= Rank("sent")
    BY <1>1, <1>2, <2>1, RankFacts DEF Carried
  <2>3. wpc'[w] = "recv" /\ Record(task[w], state[w], "sent")
    BY <1>1, <1>7 DEF Broadcast, Goto, Drop
  <2>4. "sent" \in Stages
    BY DEF Stages
  <2> QED
    BY <1>3, <2>1, <2>2, <2>3, <2>4, CarriedRecord
<1> QED
  BY <1>4, <1>5, <1>6, <1>7 DEF WorkerRun

\* Every step keeps Carried and moves a version up by at most one stage.
LEMMA CarriedInductive ==
  TypeInv /\ Carried /\ [Next]_vars => Carried' /\ OneStage
<1> SUFFICES ASSUME TypeInv, Carried, [Next]_vars PROVE Carried' /\ OneStage
  OBVIOUS
<1>1. CASE \E w \in Workers : WorkerRun(w)
  BY <1>1, CarriedWorker
<1>2. CASE ~\E w \in Workers : WorkerRun(w)
  <2>1. UNCHANGED workerVars
    BY <1>2 DEF Next, vars, ChainMoves, Shutdown, WsFrame, WsLeave, WsRun, WsTop,
                WsRetry, WsPause, WsSend, WsGoto, PollRun,
                PollTop, PollSend, PollRest, PollWake, MgrRun, MgrWake, MgrJoin,
                MgrDone, ManagerKeeps, Exited
  <2> QED
    BY <2>1, CarriedElsewhere DEF workerVars, storeVars
<1> QED
  BY <1>1, <1>2

\* Whichever workers carry a version, in whatever order their calls succeed
\* and fail, it gets to the write queue only after Redis and to the WebSocket
\* clients only after the write queue.
THEOREM HotPathIsOrdered == Spec => HotPathOrder
<1>1. Init => Carried
  BY DEF Init, Carried
<1>2. OneStage => \A p \in Pools, v \in Versions :
                     Rank(reach'[p][v]) <= Rank(reach[p][v]) + 1
  BY DEF OneStage
<1> QED
  BY <1>1, <1>2, TypeInit, TypeInvInductive, CarriedInductive, PTL
     DEF Spec, HotPathOrder

=============================================================================
