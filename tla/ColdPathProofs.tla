--------------------------- MODULE ColdPathProofs ---------------------------
(***************************************************************************)
(* Proofs about ColdPath, for any number of messages, pools, tries, faults *)
(* and any replay limit.                                                   *)
(***************************************************************************)
EXTENDS ColdPath, FiniteSetTheorems, TLAPS

(***************************************************************************)
(* What RPUSH and LPOP do to a list.                                       *)
(***************************************************************************)
LEMMA AppendFacts ==
  ASSUME NEW S, NEW s \in Seq(S), NEW x \in S
  PROVE  /\ Append(s, x) \in Seq(S)
         /\ DOMAIN Append(s, x) = DOMAIN s \cup {Len(s) + 1}
         /\ Len(s) + 1 \notin DOMAIN s
         /\ Append(s, x)[Len(s) + 1] = x
         /\ \A n \in DOMAIN s : Append(s, x)[n] = s[n]
OBVIOUS

\* LPOP returns the first element and shifts the others by one.
LEMMA TailFacts ==
  ASSUME NEW S, NEW s \in Seq(S), s # <<>>
  PROVE  /\ Tail(s) \in Seq(S)
         /\ Head(s) \in S
         /\ 1 \in DOMAIN s
         /\ Head(s) = s[1]
         /\ \A n \in DOMAIN Tail(s) :
               n + 1 \in DOMAIN s /\ n + 1 # 1 /\ Tail(s)[n] = s[n + 1]
         /\ \A m, n \in DOMAIN Tail(s) : m + 1 = n + 1 => m = n
OBVIOUS

\* A fault stays within the bound.
LEMMA FaultType ==
  ASSUME QueueTypeOK, Fault PROVE faults' \in 0..MaxFaults
BY FaultAssumption DEF QueueTypeOK, Fault

\* Whatever the outcome of a Redis command, faults and link stay typed.
LEMMA RejectedType ==
  ASSUME QueueTypeOK, NEW c, Rejected(c) \/ ReplyLost(c) \/ Executed(c)
  PROVE  faults' \in 0..MaxFaults /\ link' \in {"up", "down"}
BY FaultType DEF QueueTypeOK, Rejected, ReplyLost, Executed

\* consume keeps the lists typed and returns a message.
LEMMA ConsumeType ==
  ASSUME QueueTypeOK, ConsumeSome \/ ConsumeNone \/ ConsumeErr
  PROVE  QueueTypeOK' /\ (ConsumeSome => Head(queue) \in Message)
<1>1. queue # <<>> => Tail(queue) \in Seq(Message) /\ Head(queue) \in Message
  BY TailFacts DEF QueueTypeOK
<1>2. faults' \in 0..MaxFaults /\ link' \in {"up", "down"}
  BY RejectedType DEF ConsumeSome, ConsumeNone, ConsumeErr
<1> QED
  BY <1>1, <1>2 DEF QueueTypeOK, ConsumeSome, ConsumeNone, ConsumeErr

\* push_dlq keeps the lists typed.
LEMMA PushDlqType ==
  ASSUME QueueTypeOK, NEW e \in DlqEntry, PushDlqOk(e) \/ PushDlqErr(e)
  PROVE  QueueTypeOK'
<1>1. Append(dlq, e) \in Seq(DlqEntry)
  BY AppendFacts DEF QueueTypeOK
<1>2. faults' \in 0..MaxFaults /\ link' \in {"up", "down"}
  BY RejectedType DEF PushDlqOk, PushDlqErr
<1> QED
  BY <1>1, <1>2 DEF QueueTypeOK, PushDlqOk, PushDlqErr

\* pop_dlq keeps the lists typed and returns an entry.
LEMMA PopDlqType ==
  ASSUME QueueTypeOK, PopDlqSome \/ PopDlqNone \/ PopDlqErr
  PROVE  QueueTypeOK' /\ (PopDlqSome => Head(dlq) \in DlqEntry)
<1>1. dlq # <<>> => Tail(dlq) \in Seq(DlqEntry) /\ Head(dlq) \in DlqEntry
  BY TailFacts DEF QueueTypeOK
<1>2. faults' \in 0..MaxFaults /\ link' \in {"up", "down"}
  BY RejectedType DEF PopDlqSome, PopDlqNone, PopDlqErr
<1> QED
  BY <1>1, <1>2 DEF QueueTypeOK, PopDlqSome, PopDlqNone, PopDlqErr

\* publish keeps the lists typed, whoever calls it.
LEMMA PublishType ==
  ASSUME QueueTypeOK, NEW m \in Message, NEW c,
         PublishOk(c, m) \/ PublishErr(c, m)
  PROVE  QueueTypeOK'
<1>1. Append(queue, m) \in Seq(Message)
  BY AppendFacts DEF QueueTypeOK
<1>2. faults' \in 0..MaxFaults /\ link' \in {"up", "down"}
  BY RejectedType DEF PublishOk, PublishErr
<1> QED
  BY <1>1, <1>2 DEF QueueTypeOK, PublishOk, PublishErr

\* A write to a sink keeps the counts and the rows typed.
LEMMA SinkWriteType ==
  ASSUME applied \in [MsgIds -> Nat], rows \in [RowKinds -> [Pools -> Nat]],
         NEW m \in Message, SinkWrite(m)
  PROVE  /\ applied' \in [MsgIds -> Nat]
         /\ rows' \in [RowKinds -> [Pools -> Nat]]
<1>1. applied' \in [MsgIds -> Nat]
  <2>1. \A i \in MsgIds : applied[i] + 1 \in Nat
    OBVIOUS
  <2>2. applied' = [applied EXCEPT ![m.id] = applied[m.id] + 1]
    BY DEF SinkWrite
  <2> QED
    BY <2>1, <2>2
<1>2. ASSUME m.kind \in RowKinds
      PROVE  rows' \in [RowKinds -> [Pools -> Nat]]
  <2>1. m.id \in Nat /\ m.pool \in Pools
    BY DEF Message
  <2>2. rows[m.kind] \in [Pools -> Nat]
    BY <1>2
  <2>3. [rows[m.kind] EXCEPT ![m.pool] = m.id] \in [Pools -> Nat]
    BY <2>1, <2>2
  <2>4. rows' = [rows EXCEPT ![m.kind] = [rows[m.kind] EXCEPT ![m.pool] = m.id]]
    BY <1>2 DEF SinkWrite, InsertPool, SetPoolTickData, RowKinds
  <2> QED
    BY <1>2, <2>3, <2>4
<1> QED
  BY <1>1, <1>2 DEF SinkWrite, RowKinds

-----------------------------------------------------------------------------
(***************************************************************************)
(* Types.                                                                  *)
(***************************************************************************)
\* The program counters tell who holds a message.
LEMMA TypeInvInductive ==
  (Init => TypeInv) /\ (TypeInv /\ [Next]_vars => TypeInv')
<1> USE FaultAssumption, WriterAssumption, ReplayAssumption, TrafficAssumption
    DEF TypeInv, TypeOK, Hands
<1>1. Init => TypeInv
  <2> SUFFICES ASSUME Init PROVE TypeInv
    OBVIOUS
  <2>1. QueueTypeOK
    BY DEF Init, QueueInit, QueueTypeOK
  <2>2. WriterTypeOK
    <3>1. applied \in [MsgIds -> Nat] /\ doubts \in [MsgIds -> 0..MaxDoubts]
      BY DEF Init, WriterInit
    <3>2. [p \in Pools |-> 0] \in [Pools -> Nat]
      OBVIOUS
    <3>3. rows \in [RowKinds -> [Pools -> Nat]]
      BY <3>2 DEF Init, WriterInit
    <3>4. shutdown \in BOOLEAN
      BY Zenon DEF Init, WriterInit
    <3>5. wpc = "top" /\ cur = NoMsg /\ attempts \in 0..MaxAttempts
      BY DEF Init, WriterInit
    <3> QED
      BY <3>1, <3>3, <3>4, <3>5 DEF WriterTypeOK
  <2>3. ReplayTypeOK
    BY DEF Init, ReplayInit, ReplayTypeOK
  <2>4. Hands /\ published \in 0..MaxMsgs
    BY DEF Init, WriterInit, ReplayInit
  <2> QED
    BY <2>1, <2>2, <2>3, <2>4
<1>2. TypeInv /\ [Next]_vars => TypeInv'
  <2> SUFFICES ASSUME TypeInv, [Next]_vars
               PROVE  TypeInv'
    OBVIOUS
  <2> USE DEF QueueTypeOK, WriterTypeOK, ReplayTypeOK
  <2>1. ASSUME NEW k \in Traffic, NEW p \in Pools, Publish(k, p)
        PROVE  TypeInv'
    <3>1. [id |-> published + 1, kind |-> k, pool |-> p] \in Message
      BY DEF Message
    <3> QED
      BY <2>1, <3>1, AppendFacts
         DEF Publish, PublishOk, Executed, writerVars, replayVars
  <2>2. CASE WriterStep /\ UNCHANGED <<replayVars, published>>
    <3>1. CASE CheckShutdown
      BY <2>2, <3>1 DEF CheckShutdown, queueVars, replayVars
    <3>2. CASE Consume
      <4>1. QueueTypeOK' /\ (ConsumeSome => Head(queue) \in Message)
        BY <3>2, ConsumeType DEF Consume
      <4> QED
        BY <2>2, <3>2, <4>1 DEF Consume, replayVars
    <3>3. CASE PersistOk
      <4>1. cur \in Message
        BY <3>3 DEF PersistOk
      <4>2. SinkWrite(cur) => /\ applied' \in [MsgIds -> Nat]
                             /\ rows' \in [RowKinds -> [Pools -> Nat]]
        BY <4>1, SinkWriteType
      <4> QED
        BY <2>2, <3>3, <4>1, <4>2 DEF PersistOk, queueVars, replayVars
    <3>4. CASE PersistErr
      <4>1. cur \in Message
        BY <3>4 DEF PersistErr
      <4>2. SinkWrite(cur) => /\ applied' \in [MsgIds -> Nat]
                             /\ rows' \in [RowKinds -> [Pools -> Nat]]
        BY <4>1, SinkWriteType
      <4>3. /\ applied' \in [MsgIds -> Nat]
            /\ rows' \in [RowKinds -> [Pools -> Nat]]
        BY <3>4, <4>2 DEF PersistErr
      <4>4. doubts' \in [MsgIds -> 0..MaxDoubts]
        <5>1. doubts[cur.id] < MaxDoubts /\ cur.id \in MsgIds
                 => doubts[cur.id] + 1 \in 0..MaxDoubts
          OBVIOUS
        <5> QED
          BY <3>4, <5>1 DEF PersistErr
      <4>5. /\ attempts' \in 0..MaxAttempts
            /\ wpc' = "backoff" => attempts' < MaxAttempts
            /\ wpc' \in {"push", "backoff"}
        BY <3>4 DEF PersistErr
      <4> QED
        BY <2>2, <3>4, <4>1, <4>3, <4>4, <4>5
           DEF PersistErr, queueVars, replayVars
    <3>5. CASE Backoff
      BY <2>2, <3>5 DEF Backoff, queueVars, replayVars
    <3>6. CASE PushDlq
      <4>1. [message |-> cur, attempts |-> attempts] \in DlqEntry
        BY <3>6 DEF PushDlq, DlqEntry
      <4>2. QueueTypeOK'
        BY <3>6, <4>1, PushDlqType DEF PushDlq
      <4> QED
        BY <2>2, <3>6, <4>2 DEF PushDlq, replayVars
    <3>7. CASE Wake
      BY <2>2, <3>7 DEF Wake, queueVars, replayVars
    <3> QED
      BY <2>2, <3>1, <3>2, <3>3, <3>4, <3>5, <3>6, <3>7 DEF WriterStep
  <2>3. CASE ReplayStep /\ UNCHANGED <<writerVars, published>>
    <3>1. CASE ReplayStart
      BY <2>3, <3>1 DEF ReplayStart, queueVars, writerVars
    <3>2. CASE ReplayPop
      <4>1. QueueTypeOK' /\ (PopDlqSome => Head(dlq) \in DlqEntry)
        BY <3>2, PopDlqType DEF ReplayPop
      <4>2. PopDlqSome => /\ Head(dlq).message \in Message
                         /\ Head(dlq).message.id \in Nat
        BY <4>1 DEF DlqEntry, Message
      <4>3. ReplayTypeOK' /\ (rcur' # NoReplay <=> rpc' = "publish")
        <5>1. rleft' \in 0..ReplayLimit
          BY <3>2 DEF ReplayPop
        <5>2. replayed' \subseteq Nat
          BY <3>2, <4>2 DEF ReplayPop
        <5>3. /\ rcur' \in Message \cup {NoReplay}
              /\ rpc' \in {"idle", "publish"}
              /\ rcur' # NoReplay <=> rpc' = "publish"
          BY <3>2, <4>2 DEF ReplayPop
        <5> QED
          BY <5>1, <5>2, <5>3
      <4> QED
        BY <2>3, <4>1, <4>3 DEF writerVars
    <3>3. CASE ReplayDone
      BY <2>3, <3>3 DEF ReplayDone, queueVars, writerVars
    <3>4. CASE ReplayPublish
      <4>1. rcur \in Message
        BY <3>4 DEF ReplayPublish
      <4>2. QueueTypeOK'
        BY <3>4, <4>1, PublishType DEF ReplayPublish
      <4> QED
        BY <2>3, <3>4, <4>2 DEF ReplayPublish, writerVars
    <3>5. CASE ReplayKilled
      BY <2>3, <3>5 DEF ReplayKilled, Fault, writerVars
    <3> QED
      BY <2>3, <3>1, <3>2, <3>3, <3>4, <3>5 DEF ReplayStep, ReplayRun
  <2>4. CASE LinkBreaks /\ UNCHANGED <<writerVars, replayVars, published>>
    BY <2>4 DEF LinkBreaks, Fault, writerVars, replayVars
  <2>5. CASE Shutdown
    BY <2>5 DEF Shutdown, queueVars, replayVars
  <2>6. CASE Crash
    BY <2>6 DEF Crash, Fault, replayVars
  <2>7. CASE Restart
    BY <2>7 DEF Restart, replayVars
  <2>8. CASE UNCHANGED vars
    BY <2>8 DEF vars, queueVars, writerVars, replayVars
  <2> QED
    BY <2>1, <2>2, <2>3, <2>4, <2>5, <2>6, <2>7, <2>8 DEF Next
<1> QED
  BY <1>1, <1>2

\* Every variable stays in its type: in particular attempts never exceeds
\* max_attempts, whatever the order of failures, parkings, crashes and restarts.
THEOREM TypeCorrect == Spec => []TypeOK
<1>1. TypeInv => TypeOK
  BY DEF TypeInv
<1> QED
  BY <1>1, TypeInvInductive, PTL DEF Spec

-----------------------------------------------------------------------------
(***************************************************************************)
(* Custody.  Each step either leaves the places alone or moves one message *)
(* from the place it is taken from to at most one other place.             *)
(***************************************************************************)
IdTypes ==
  /\ \A n \in DOMAIN queue : queue[n] \in Message /\ queue[n].id \in Nat
  /\ \A n \in DOMAIN dlq : dlq[n].message \in Message
                            /\ dlq[n].message.id \in Nat
  /\ cur # NoMsg => cur.id \in Nat
  /\ rcur # NoReplay => rcur.id \in Nat

\* The ids in the lists and in the hands are numbers.
LEMMA IdTypesHold == ASSUME TypeInv PROVE IdTypes
<1>1. \A m \in Message : m.id \in Nat
  BY DEF Message
<1>2. \A e \in DlqEntry : e.message \in Message
  BY DEF DlqEntry
<1>3. queue \in Seq(Message) /\ dlq \in Seq(DlqEntry)
  BY DEF TypeInv, TypeOK, QueueTypeOK
<1>4. \A n \in DOMAIN queue : queue[n] \in Message
  BY <1>3
<1>5. \A n \in DOMAIN dlq : dlq[n] \in DlqEntry
  BY <1>3
<1>6. cur \in Message \cup {NoMsg} /\ rcur \in Message \cup {NoReplay}
  BY DEF TypeInv, TypeOK, WriterTypeOK, ReplayTypeOK
<1> QED
  BY <1>1, <1>2, <1>4, <1>5, <1>6 DEF IdTypes

\* At the start there is no message anywhere.
LEMMA CustodyInit == Init => KnownIds /\ SingleCustody
BY DEF Init, QueueInit, WriterInit, ReplayInit, KnownIds, SingleCustody,
       InQueue, InDlq, InReplay

\* publish appends a message whose id is nowhere yet.
LEMMA CustodyPublish ==
  ASSUME Custody, NEW k \in Traffic, NEW p \in Pools, Publish(k, p), TypeInv'
  PROVE  (KnownIds /\ SingleCustody)'
<1> DEFINE m == [id |-> published + 1, kind |-> k, pool |-> p]
<1>1. m \in Message /\ published \in Nat /\ published' = published + 1
  BY WriterAssumption, TrafficAssumption
     DEF Custody, TypeInv, TypeOK, Message, Publish
<1>2. queue \in Seq(Message) /\ queue' = Append(queue, m)
  BY DEF Custody, TypeInv, TypeOK, QueueTypeOK, Publish, PublishOk
<1> HIDE DEF m
<1>3. /\ DOMAIN queue' = DOMAIN queue \cup {Len(queue) + 1}
      /\ queue'[Len(queue) + 1] = m
      /\ Len(queue) + 1 \notin DOMAIN queue
      /\ \A n \in DOMAIN queue : queue'[n] = queue[n]
  BY <1>1, <1>2, AppendFacts
<1>4. m.id = published + 1
  BY DEF m
<1>5. UNCHANGED <<dlq, cur, rcur>>
  BY DEF Publish, PublishOk, writerVars, replayVars
<1>6. IdTypes
  BY IdTypesHold DEF Custody
<1> QED
  BY <1>1, <1>3, <1>4, <1>5, <1>6
     DEF IdTypes, Custody, KnownIds, SingleCustody, InQueue, InDlq, InReplay

\* LPOP of the write queue: the head goes to the writer or is dropped.
LEMMA CustodyConsume ==
  ASSUME Custody, Consume, UNCHANGED <<replayVars, published>>
  PROVE  (KnownIds /\ SingleCustody)'
<1>1. UNCHANGED <<dlq, rcur, published>>
  BY DEF Consume, ConsumeSome, ConsumeNone, ConsumeErr, replayVars
<1>2. cur = NoMsg
  BY DEF Custody, TypeInv, Hands, Consume
<1>3. CASE UNCHANGED <<queue, cur>>
  BY <1>1, <1>3
     DEF Custody, KnownIds, SingleCustody, InQueue, InDlq, InReplay
<1>4. CASE queue # <<>> /\ queue' = Tail(queue)
           /\ (cur' = NoMsg \/ cur' = Head(queue))
  <2>1. queue \in Seq(Message)
    BY DEF Custody, TypeInv, TypeOK, QueueTypeOK
  <2>2. /\ 1 \in DOMAIN queue
        /\ Head(queue) = queue[1]
        /\ \A n \in DOMAIN queue' :
              n + 1 \in DOMAIN queue /\ n + 1 # 1 /\ queue'[n] = queue[n + 1]
        /\ \A m, n \in DOMAIN queue' : m + 1 = n + 1 => m = n
    BY <1>4, <2>1, TailFacts
  <2> QED
    BY <1>1, <1>2, <1>4, <2>2
       DEF Custody, KnownIds, SingleCustody, InQueue, InDlq, InReplay
<1> QED
  BY <1>2, <1>3, <1>4
     DEF Consume, ConsumeSome, ConsumeNone, ConsumeErr

\* RPUSH to the dead-letter queue: the writer's message goes there or is dropped.
LEMMA CustodyPushDlq ==
  ASSUME Custody, PushDlq, UNCHANGED <<replayVars, published>>
  PROVE  (KnownIds /\ SingleCustody)'
<1> DEFINE e == [message |-> cur, attempts |-> attempts]
<1>1. UNCHANGED <<queue, rcur, published>> /\ cur' = NoMsg
  BY DEF PushDlq, PushDlqOk, PushDlqErr, replayVars
<1>2. cur # NoMsg /\ cur \in Message /\ e.message = cur
  BY DEF Custody, TypeInv, TypeOK, WriterTypeOK, Hands, PushDlq
<1>3. CASE UNCHANGED dlq
  BY <1>1, <1>3
     DEF Custody, KnownIds, SingleCustody, InQueue, InDlq, InReplay
<1>4. CASE dlq' = Append(dlq, e)
  <2>1. dlq \in Seq(DlqEntry) /\ e \in DlqEntry
    BY <1>2 DEF Custody, TypeInv, TypeOK, QueueTypeOK, WriterTypeOK, DlqEntry
  <2> HIDE DEF e
  <2>2. /\ DOMAIN dlq' = DOMAIN dlq \cup {Len(dlq) + 1}
        /\ dlq'[Len(dlq) + 1] = e
        /\ Len(dlq) + 1 \notin DOMAIN dlq
        /\ \A n \in DOMAIN dlq : dlq'[n] = dlq[n]
    BY <1>4, <2>1, AppendFacts
  <2> QED
    BY <1>1, <1>2, <2>2
       DEF Custody, KnownIds, SingleCustody, InQueue, InDlq, InReplay
<1> QED
  BY <1>3, <1>4 DEF PushDlq, PushDlqOk, PushDlqErr

\* LPOP of the dead-letter queue: the head goes to the replayer or is dropped.
LEMMA CustodyReplayPop ==
  ASSUME Custody, ReplayPop, UNCHANGED <<writerVars, published>>
  PROVE  (KnownIds /\ SingleCustody)'
<1>1. UNCHANGED <<queue, cur, published>>
  BY DEF ReplayPop, PopDlqSome, PopDlqNone, PopDlqErr, writerVars
<1>2. rcur = NoReplay
  BY DEF Custody, TypeInv, Hands, ReplayPop
<1>3. CASE UNCHANGED <<dlq, rcur>>
  BY <1>1, <1>3
     DEF Custody, KnownIds, SingleCustody, InQueue, InDlq, InReplay
<1>4. CASE dlq # <<>> /\ dlq' = Tail(dlq)
           /\ (rcur' = NoReplay \/ rcur' = Head(dlq).message)
  <2>1. dlq \in Seq(DlqEntry)
    BY DEF Custody, TypeInv, TypeOK, QueueTypeOK
  <2>2. /\ 1 \in DOMAIN dlq
        /\ Head(dlq) = dlq[1]
        /\ \A n \in DOMAIN dlq' :
              n + 1 \in DOMAIN dlq /\ n + 1 # 1 /\ dlq'[n] = dlq[n + 1]
        /\ \A m, n \in DOMAIN dlq' : m + 1 = n + 1 => m = n
    BY <1>4, <2>1, TailFacts
  <2> QED
    BY <1>1, <1>2, <1>4, <2>2
       DEF Custody, KnownIds, SingleCustody, InQueue, InDlq, InReplay
<1> QED
  BY <1>2, <1>3, <1>4
     DEF ReplayPop, PopDlqSome, PopDlqNone, PopDlqErr

\* RPUSH to the write queue: the replayer's message goes there or is dropped.
LEMMA CustodyReplayPublish ==
  ASSUME Custody, ReplayPublish, UNCHANGED <<writerVars, published>>
  PROVE  (KnownIds /\ SingleCustody)'
<1>1. UNCHANGED <<dlq, cur, published>> /\ rcur' = NoReplay
  BY DEF ReplayPublish, PublishOk, PublishErr, writerVars
<1>2. rcur # NoReplay /\ rcur \in Message
  BY DEF Custody, TypeInv, TypeOK, ReplayTypeOK, Hands, ReplayPublish
<1>3. CASE UNCHANGED queue
  BY <1>1, <1>3
     DEF Custody, KnownIds, SingleCustody, InQueue, InDlq, InReplay
<1>4. CASE queue' = Append(queue, rcur)
  <2>1. queue \in Seq(Message)
    BY DEF Custody, TypeInv, TypeOK, QueueTypeOK
  <2>2. /\ DOMAIN queue' = DOMAIN queue \cup {Len(queue) + 1}
        /\ queue'[Len(queue) + 1] = rcur
        /\ Len(queue) + 1 \notin DOMAIN queue
        /\ \A n \in DOMAIN queue : queue'[n] = queue[n]
    BY <1>2, <1>4, <2>1, AppendFacts
  <2> QED
    BY <1>1, <1>2, <2>2
       DEF Custody, KnownIds, SingleCustody, InQueue, InDlq, InReplay
<1> QED
  BY <1>3, <1>4 DEF ReplayPublish, PublishOk, PublishErr

\* Every other step leaves the lists alone and keeps or empties a hand.
LEMMA CustodyElsewhere ==
  ASSUME Custody, UNCHANGED <<queue, dlq, published>>,
         cur' \in {cur, NoMsg}, rcur' \in {rcur, NoReplay}
  PROVE  (KnownIds /\ SingleCustody)'
BY DEF Custody, KnownIds, SingleCustody, InQueue, InDlq, InReplay

\* Every step of the write path keeps custody single.
LEMMA CustodyInductive == Custody /\ [Next]_vars => Custody'
<1> SUFFICES ASSUME Custody, [Next]_vars
             PROVE  Custody'
  OBVIOUS
<1>1. TypeInv'
  BY TypeInvInductive DEF Custody
<1>2. (KnownIds /\ SingleCustody)'
  <2>1. ASSUME NEW k \in Traffic, NEW p \in Pools, Publish(k, p)
        PROVE  (KnownIds /\ SingleCustody)'
    BY <1>1, <2>1, CustodyPublish
  <2>2. CASE WriterStep /\ UNCHANGED <<replayVars, published>>
    <3>1. CASE Consume
      BY <2>2, <3>1, CustodyConsume
    <3>2. CASE PushDlq
      BY <2>2, <3>2, CustodyPushDlq
    <3>3. CASE CheckShutdown \/ PersistOk \/ PersistErr \/ Backoff \/ Wake
      BY <2>2, <3>3, CustodyElsewhere
         DEF CheckShutdown, PersistOk, PersistErr, Backoff, Wake, queueVars,
             replayVars
    <3> QED
      BY <2>2, <3>1, <3>2, <3>3 DEF WriterStep
  <2>3. CASE ReplayStep /\ UNCHANGED <<writerVars, published>>
    <3>1. CASE ReplayPop
      BY <2>3, <3>1, CustodyReplayPop
    <3>2. CASE ReplayPublish
      BY <2>3, <3>2, CustodyReplayPublish
    <3>3. CASE ReplayStart \/ ReplayDone \/ ReplayKilled
      BY <2>3, <3>3, CustodyElsewhere
         DEF ReplayStart, ReplayDone, ReplayKilled, queueVars, writerVars
    <3> QED
      BY <2>3, <3>1, <3>2, <3>3 DEF ReplayStep, ReplayRun
  <2>4. CASE LinkBreaks /\ UNCHANGED <<writerVars, replayVars, published>>
    BY <2>4, CustodyElsewhere DEF LinkBreaks, writerVars, replayVars
  <2>5. CASE Shutdown \/ Crash \/ Restart
    BY <2>5, CustodyElsewhere
       DEF Shutdown, Crash, Restart, queueVars, replayVars
  <2>6. CASE UNCHANGED vars
    BY <2>6, CustodyElsewhere DEF vars, queueVars, writerVars, replayVars
  <2> QED
    BY <2>1, <2>2, <2>3, <2>4, <2>5, <2>6 DEF Next
<1> QED
  BY <1>1, <1>2 DEF Custody

\* No interleaving of publishers, writer, replayer, retries, lost replies,
\* crashes and restarts ever duplicates a message in the lists or lets two
\* parties hold it.
THEOREM CustodyIsSingle == Spec => []SingleCustody
<1>1. Init => Custody
  BY CustodyInit, TypeInvInductive DEF Custody
<1>2. Custody => SingleCustody
  BY DEF Custody
<1> QED
  BY <1>1, <1>2, CustodyInductive, PTL DEF Spec

-----------------------------------------------------------------------------
(***************************************************************************)
(* Writes.  No step brings back a message that is nowhere any more, and an *)
(* acknowledged write is the last the writer does with its message.        *)
(***************************************************************************)
LEMMA HeldListSteps ==
  ASSUME Custody, NEW i \in MsgIds,
         \/ Consume /\ UNCHANGED <<replayVars, published>>
         \/ PushDlq /\ UNCHANGED <<replayVars, published>>
         \/ ReplayPop /\ UNCHANGED <<writerVars, published>>
         \/ ReplayPublish /\ UNCHANGED <<writerVars, published>>,
         Held(i)'
  PROVE  Held(i)
<1>1. queue \in Seq(Message) /\ dlq \in Seq(DlqEntry)
  BY DEF Custody, TypeInv, TypeOK, QueueTypeOK
<1>2. CASE Consume /\ UNCHANGED <<replayVars, published>>
  <2>1. UNCHANGED <<dlq, rcur, published>>
    BY <1>2 DEF Consume, ConsumeSome, ConsumeNone, ConsumeErr, replayVars
  <2>2. CASE UNCHANGED <<queue, cur>>
    BY <2>1, <2>2 DEF Held, InQueue, InDlq, InWriter, InReplay
  <2>3. CASE queue # <<>> /\ queue' = Tail(queue)
             /\ (cur' = cur \/ cur' = Head(queue))
    <3>1. /\ 1 \in DOMAIN queue
          /\ Head(queue) = queue[1]
          /\ \A n \in DOMAIN queue' :
                n + 1 \in DOMAIN queue /\ queue'[n] = queue[n + 1]
      BY <1>1, <2>3, TailFacts
    <3> QED
      BY <2>1, <2>3, <3>1 DEF Held, InQueue, InDlq, InWriter, InReplay
  <2> QED
    BY <1>2, <2>2, <2>3 DEF Consume, ConsumeSome, ConsumeNone, ConsumeErr
<1>3. CASE PushDlq /\ UNCHANGED <<replayVars, published>>
  <2> DEFINE e == [message |-> cur, attempts |-> attempts]
  <2>1. UNCHANGED <<queue, rcur, published>> /\ cur' = NoMsg
    BY <1>3 DEF PushDlq, PushDlqOk, PushDlqErr, replayVars
  <2>2. cur # NoMsg /\ cur \in Message /\ e \in DlqEntry /\ e.message = cur
    BY <1>3
       DEF Custody, TypeInv, TypeOK, WriterTypeOK, Hands, PushDlq, DlqEntry
  <2>3. CASE UNCHANGED dlq
    BY <2>1, <2>3 DEF Held, InQueue, InDlq, InWriter, InReplay
  <2>4. CASE dlq' = Append(dlq, e)
    <3> HIDE DEF e
    <3>1. /\ DOMAIN dlq' = DOMAIN dlq \cup {Len(dlq) + 1}
          /\ dlq'[Len(dlq) + 1] = e
          /\ \A n \in DOMAIN dlq : dlq'[n] = dlq[n]
      BY <1>1, <2>2, <2>4, AppendFacts
    <3> QED
      BY <2>1, <2>2, <3>1 DEF Held, InQueue, InDlq, InWriter, InReplay
  <2> QED
    BY <1>3, <2>3, <2>4 DEF PushDlq, PushDlqOk, PushDlqErr
<1>4. CASE ReplayPop /\ UNCHANGED <<writerVars, published>>
  <2>1. UNCHANGED <<queue, cur, published>>
    BY <1>4 DEF ReplayPop, PopDlqSome, PopDlqNone, PopDlqErr, writerVars
  <2>2. CASE UNCHANGED <<dlq, rcur>>
    BY <2>1, <2>2 DEF Held, InQueue, InDlq, InWriter, InReplay
  <2>3. CASE dlq # <<>> /\ dlq' = Tail(dlq)
             /\ (rcur' = rcur \/ rcur' = Head(dlq).message)
    <3>1. /\ 1 \in DOMAIN dlq
          /\ Head(dlq) = dlq[1]
          /\ \A n \in DOMAIN dlq' :
                n + 1 \in DOMAIN dlq /\ dlq'[n] = dlq[n + 1]
      BY <1>1, <2>3, TailFacts
    <3> QED
      BY <2>1, <2>3, <3>1 DEF Held, InQueue, InDlq, InWriter, InReplay
  <2> QED
    BY <1>4, <2>2, <2>3 DEF ReplayPop, PopDlqSome, PopDlqNone, PopDlqErr
<1>5. CASE ReplayPublish /\ UNCHANGED <<writerVars, published>>
  <2>1. UNCHANGED <<dlq, cur, published>> /\ rcur' = NoReplay
    BY <1>5 DEF ReplayPublish, PublishOk, PublishErr, writerVars
  <2>2. rcur # NoReplay /\ rcur \in Message
    BY <1>5 DEF Custody, TypeInv, TypeOK, ReplayTypeOK, Hands, ReplayPublish
  <2>3. CASE UNCHANGED queue
    BY <2>1, <2>3 DEF Held, InQueue, InDlq, InWriter, InReplay
  <2>4. CASE queue' = Append(queue, rcur)
    <3>1. /\ DOMAIN queue' = DOMAIN queue \cup {Len(queue) + 1}
          /\ queue'[Len(queue) + 1] = rcur
          /\ \A n \in DOMAIN queue : queue'[n] = queue[n]
      BY <1>1, <2>2, <2>4, AppendFacts
    <3> QED
      BY <2>1, <2>2, <3>1 DEF Held, InQueue, InDlq, InWriter, InReplay
  <2> QED
    BY <1>5, <2>3, <2>4 DEF ReplayPublish, PublishOk, PublishErr
<1> QED
  BY <1>2, <1>3, <1>4, <1>5

\* A publish brings back no message that is nowhere any more.
LEMMA HeldPublish ==
  ASSUME Custody, NEW k \in Traffic, NEW p \in Pools, Publish(k, p),
         NEW i \in MsgIds, Held(i)'
  PROVE  Held(i)
<1> DEFINE m == [id |-> published + 1, kind |-> k, pool |-> p]
<1>1. m \in Message /\ published \in Nat /\ published' = published + 1
  BY WriterAssumption, TrafficAssumption
     DEF Custody, TypeInv, TypeOK, Message, Publish
<1>2. queue \in Seq(Message) /\ queue' = Append(queue, m)
  BY DEF Custody, TypeInv, TypeOK, QueueTypeOK, Publish, PublishOk
<1>3. m.id = published + 1 /\ i \in Nat
  BY WriterAssumption DEF MsgIds
<1> HIDE DEF m
<1>4. /\ DOMAIN queue' = DOMAIN queue \cup {Len(queue) + 1}
      /\ queue'[Len(queue) + 1] = m
      /\ \A n \in DOMAIN queue : queue'[n] = queue[n]
  BY <1>1, <1>2, AppendFacts
<1>5. UNCHANGED <<dlq, cur, rcur>>
  BY DEF Publish, PublishOk, writerVars, replayVars
<1> QED
  BY <1>1, <1>3, <1>4, <1>5 DEF Held, InQueue, InDlq, InWriter, InReplay

\* Steps that leave the lists alone and keep or empty a hand.
LEMMA HeldElsewhere ==
  ASSUME UNCHANGED <<queue, dlq, published>>,
         cur' \in {cur, NoMsg}, rcur' \in {rcur, NoReplay},
         NEW i \in MsgIds, Held(i)'
  PROVE  Held(i)
BY DEF Held, InQueue, InDlq, InWriter, InReplay

Writes == HeldUnwritten /\ AtMostOncePlusDoubt

\* Steps that write nothing and bring nothing back.
LEMMA WritesElsewhere ==
  ASSUME Writes, UNCHANGED <<applied, doubts>>,
         \A i \in MsgIds : Held(i)' => Held(i)
  PROVE  Writes'
BY DEF Writes, HeldUnwritten, AtMostOncePlusDoubt

\* A failed try writes nothing, or its write counts as a doubt.
LEMMA WritesPersistErr ==
  ASSUME Custody, Writes, PersistErr, UNCHANGED <<replayVars, published>>
  PROVE  Writes'
<1>1. UNCHANGED <<queue, dlq, published, cur, rcur>>
  BY DEF PersistErr, queueVars, replayVars
<1>2. \A i \in MsgIds : Held(i)' => Held(i)
  BY <1>1, HeldElsewhere
<1>3. CASE UNCHANGED <<applied, doubts>>
  BY <1>2, <1>3, WritesElsewhere
<1>4. CASE /\ doubts' = [doubts EXCEPT ![cur.id] = @ + 1]
           /\ applied' = [applied EXCEPT ![cur.id] = @ + 1]
  <2>1. applied \in [MsgIds -> Nat] /\ doubts \in [MsgIds -> 0..MaxDoubts]
    BY DEF Custody, TypeInv, TypeOK, WriterTypeOK
  <2>2. \A i \in MsgIds : applied[i] \in Nat /\ doubts[i] \in Nat
    BY <2>1
  <2>3. \A i \in MsgIds :
          \/ applied'[i] = applied[i] /\ doubts'[i] = doubts[i]
          \/ applied'[i] = applied[i] + 1 /\ doubts'[i] = doubts[i] + 1
    BY <1>4, <2>1
  <2> QED
    BY <1>2, <2>2, <2>3 DEF Writes, HeldUnwritten, AtMostOncePlusDoubt
<1> QED
  BY <1>3, <1>4 DEF PersistErr, SinkWrite

\* An acknowledged write lets go of the message.
LEMMA WritesPersistOk ==
  ASSUME Custody, Writes, PersistOk, UNCHANGED <<replayVars, published>>
  PROVE  Writes'
<1>1. UNCHANGED <<queue, dlq, published, rcur, doubts>> /\ cur' = NoMsg
  BY DEF PersistOk, queueVars, replayVars
<1>2. cur # NoMsg /\ cur \in Message
  BY DEF PersistOk, Custody, TypeInv, TypeOK, WriterTypeOK, Hands
<1>3. applied' = [applied EXCEPT ![cur.id] = @ + 1]
  BY DEF PersistOk, SinkWrite
<1>4. applied \in [MsgIds -> Nat] /\ doubts \in [MsgIds -> 0..MaxDoubts]
  BY DEF Custody, TypeInv, TypeOK, WriterTypeOK
<1>5. \A i \in MsgIds : applied[i] \in Nat /\ doubts[i] \in Nat
  BY <1>4
<1>6. ASSUME NEW i \in MsgIds, i # cur.id
      PROVE  /\ applied'[i] = applied[i]
             /\ Held(i)' => Held(i)
  BY <1>1, <1>3, <1>4, <1>6, HeldElsewhere
<1>7. ASSUME NEW i \in MsgIds, i = cur.id
      PROVE  applied'[i] <= doubts[i] + 1 /\ ~Held(i)'
  <2>1. applied[i] <= doubts[i] /\ applied'[i] = applied[i] + 1
    BY <1>2, <1>3, <1>4, <1>7 DEF Writes, HeldUnwritten, Held, InWriter
  <2>2. ~(i > published)
    <3>1. i \in Nat /\ published \in Nat
      BY WriterAssumption DEF MsgIds, Custody, TypeInv, TypeOK
    <3> QED
      BY <1>2, <1>7, <3>1 DEF Custody, KnownIds
  <2>3. ~InQueue(i)' /\ ~InDlq(i)' /\ ~InReplay(i)' /\ ~InWriter(i)'
    BY <1>1, <1>2, <1>7
       DEF Custody, SingleCustody, InQueue, InDlq, InReplay, InWriter
  <2> QED
    BY <1>1, <1>5, <2>1, <2>2, <2>3 DEF Held
<1> QED
  BY <1>1, <1>5, <1>6, <1>7 DEF Writes, HeldUnwritten, AtMostOncePlusDoubt

\* A message's row or event is written at most once more often than its
\* writes reported an error although they took effect: neither the retry loop,
\* nor a replay, nor a restart repeats an acknowledged write.
THEOREM WritesAreBounded == Spec => []AtMostOncePlusDoubt
<1>1. Init => Custody
  BY CustodyInit, TypeInvInductive DEF Custody
<1>2. Init => Writes
  BY DEF Init, WriterInit, Writes, HeldUnwritten, AtMostOncePlusDoubt
<1>3. Custody /\ Writes /\ [Next]_vars => Writes'
  <2> SUFFICES ASSUME Custody, Writes, [Next]_vars
               PROVE  Writes'
    OBVIOUS
  <2>1. ASSUME NEW k \in Traffic, NEW p \in Pools, Publish(k, p)
        PROVE  Writes'
    <3>1. \A i \in MsgIds : Held(i)' => Held(i)
      BY <2>1, HeldPublish
    <3> QED
      BY <2>1, <3>1, WritesElsewhere DEF Publish, writerVars
  <2>2. CASE PersistOk /\ UNCHANGED <<replayVars, published>>
    BY <2>2, WritesPersistOk
  <2>3. CASE PersistErr /\ UNCHANGED <<replayVars, published>>
    BY <2>3, WritesPersistErr
  <2>4. CASE \/ Consume /\ UNCHANGED <<replayVars, published>>
             \/ PushDlq /\ UNCHANGED <<replayVars, published>>
             \/ ReplayPop /\ UNCHANGED <<writerVars, published>>
             \/ ReplayPublish /\ UNCHANGED <<writerVars, published>>
    <3>1. \A i \in MsgIds : Held(i)' => Held(i)
      BY <2>4, HeldListSteps
    <3> QED
      BY <2>4, <3>1, WritesElsewhere DEF Consume, PushDlq, writerVars
  <2>5. CASE \/ /\ CheckShutdown \/ Backoff \/ Wake
                /\ UNCHANGED <<replayVars, published>>
             \/ /\ ReplayStart \/ ReplayDone \/ ReplayKilled
                /\ UNCHANGED <<writerVars, published>>
             \/ LinkBreaks /\ UNCHANGED <<writerVars, replayVars, published>>
             \/ Shutdown \/ Crash \/ Restart
             \/ UNCHANGED vars
    <3>1. /\ UNCHANGED <<queue, dlq, published, applied, doubts>>
          /\ cur' \in {cur, NoMsg}
          /\ rcur' \in {rcur, NoReplay}
      BY <2>5 DEF CheckShutdown, Backoff, Wake, ReplayStart, ReplayDone,
                  ReplayKilled, LinkBreaks, Shutdown, Crash, Restart,
                  vars, queueVars, writerVars, replayVars
    <3>2. \A i \in MsgIds : Held(i)' => Held(i)
      BY <3>1, HeldElsewhere
    <3> QED
      BY <3>1, <3>2, WritesElsewhere
  <2> QED
    BY <2>1, <2>2, <2>3, <2>4, <2>5 DEF Next, WriterStep, ReplayStep, ReplayRun
<1>4. Writes => AtMostOncePlusDoubt
  BY DEF Writes
<1> QED
  BY <1>1, <1>2, <1>3, <1>4, CustodyInductive, PTL DEF Spec

-----------------------------------------------------------------------------
(***************************************************************************)
(* Losses.  Each step moves at most one message, and the message lost by a *)
(* step without a fault of its own was in the writer's hand when the       *)
(* connection broke: it is charged to that fault.                          *)
(***************************************************************************)
\* The messages that are lost, or that the writer can only store or drop.
AtRisk == {i \in MsgIds : Status(i) = "lost" \/ (link = "down" /\ InWriter(i))}

LossCharged == Cardinality(AtRisk) <= faults

\* What a step may do to the messages: only message x changes its status, by a
\* move of the ledger, and a message comes to be at risk only by a fault.
Moved(x) ==
  /\ \A i \in MsgIds : i # x => Status(i)' = Status(i)
  /\ Status(x)' # Status(x) => <<Status(x), Status(x)'>> \in Promise!Moves
  /\ faults' \in {faults, faults + 1}
  /\ \A i \in AtRisk' : i \in AtRisk \/ (i = x /\ faults' = faults + 1)

\* The status of a message, place by place.
StatusTable(i) ==
  /\ i > published => Status(i) = "unsent"
  /\ ~(i > published) /\ (InQueue(i) \/ InWriter(i) \/ InReplay(i))
       => Status(i) = "pending"
  /\ ~(i > published) /\ InDlq(i) => Status(i) = "parked"
  /\ ~Held(i) /\ applied[i] > 0 => Status(i) = "stored"
  /\ ~Held(i) /\ ~(applied[i] > 0) => Status(i) = "lost"

\* At most one case of Status applies, since custody is single.
LEMMA StatusIs == Custody => \A i \in MsgIds : StatusTable(i)
<1> SUFFICES ASSUME Custody, NEW i \in MsgIds
             PROVE  StatusTable(i)
  OBVIOUS
<1>1. i \in Nat /\ published \in Nat
  BY WriterAssumption DEF MsgIds, Custody, TypeInv, TypeOK
<1>2. InQueue(i) => ~(i > published) /\ ~InDlq(i)
  BY <1>1, IdTypesHold
     DEF Custody, KnownIds, SingleCustody, InQueue, InDlq, IdTypes
<1>3. InWriter(i) => ~(i > published) /\ ~InDlq(i)
  BY <1>1, IdTypesHold
     DEF Custody, KnownIds, SingleCustody, InWriter, InDlq, IdTypes
<1>4. InReplay(i) => ~(i > published) /\ ~InDlq(i)
  BY <1>1, IdTypesHold
     DEF Custody, KnownIds, SingleCustody, InReplay, InDlq, IdTypes
<1>5. InDlq(i) => ~(i > published)
  BY <1>1, IdTypesHold DEF Custody, KnownIds, InDlq, IdTypes
<1>6. CASE i > published
  BY <1>2, <1>3, <1>4, <1>5, <1>6 DEF StatusTable, Status, Held
<1>7. CASE InQueue(i) \/ InWriter(i) \/ InReplay(i)
  BY <1>2, <1>3, <1>4, <1>7 DEF StatusTable, Status, Held
<1>8. CASE InDlq(i)
  BY <1>2, <1>3, <1>4, <1>5, <1>8 DEF StatusTable, Status, Held
<1>9. CASE ~Held(i)
  BY <1>9 DEF StatusTable, Status, Held
<1> QED
  BY <1>6, <1>7, <1>8, <1>9 DEF Held

\* RPUSH adds one id to a list and LPOP takes one away.
LEMMA QueuePlaces ==
  ASSUME Custody, NEW i
  PROVE  /\ \A m \in Message : queue' = Append(queue, m) =>
              (InQueue(i)' <=> InQueue(i) \/ i = m.id)
         /\ queue # <<>> /\ queue' = Tail(queue) =>
              /\ InQueue(i)' <=> InQueue(i) /\ i # Head(queue).id
              /\ InQueue(Head(queue).id)
         /\ UNCHANGED queue => (InQueue(i)' <=> InQueue(i))
<1>1. queue \in Seq(Message)
  BY DEF Custody, TypeInv, TypeOK, QueueTypeOK
<1>2. ASSUME NEW m \in Message, queue' = Append(queue, m)
      PROVE  InQueue(i)' <=> InQueue(i) \/ i = m.id
  <2>1. /\ DOMAIN queue' = DOMAIN queue \cup {Len(queue) + 1}
        /\ queue'[Len(queue) + 1] = m
        /\ \A n \in DOMAIN queue : queue'[n] = queue[n]
    BY <1>1, <1>2, AppendFacts
  <2> QED
    BY <2>1 DEF InQueue
<1>3. ASSUME queue # <<>>, queue' = Tail(queue)
      PROVE  /\ InQueue(i)' <=> InQueue(i) /\ i # Head(queue).id
             /\ InQueue(Head(queue).id)
  <2>1. /\ 1 \in DOMAIN queue
        /\ Head(queue) = queue[1]
        /\ \A n \in DOMAIN queue' :
              n + 1 \in DOMAIN queue /\ n + 1 # 1 /\ queue'[n] = queue[n + 1]
    BY <1>1, <1>3, TailFacts
  <2>2. \A n \in DOMAIN queue : n # 1 =>
          n - 1 \in DOMAIN queue' /\ queue'[n - 1] = queue[n]
    BY <1>1, <1>3
  <2> QED
    BY <2>1, <2>2 DEF InQueue, Custody, SingleCustody
<1> QED
  BY <1>2, <1>3 DEF InQueue

\* The same for the dead-letter queue.
LEMMA DlqPlaces ==
  ASSUME Custody, NEW i
  PROVE  /\ \A e \in DlqEntry : dlq' = Append(dlq, e) =>
              (InDlq(i)' <=> InDlq(i) \/ i = e.message.id)
         /\ dlq # <<>> /\ dlq' = Tail(dlq) =>
              /\ InDlq(i)' <=> InDlq(i) /\ i # Head(dlq).message.id
              /\ InDlq(Head(dlq).message.id)
         /\ UNCHANGED dlq => (InDlq(i)' <=> InDlq(i))
<1>1. dlq \in Seq(DlqEntry)
  BY DEF Custody, TypeInv, TypeOK, QueueTypeOK
<1>2. ASSUME NEW e \in DlqEntry, dlq' = Append(dlq, e)
      PROVE  InDlq(i)' <=> InDlq(i) \/ i = e.message.id
  <2>1. /\ DOMAIN dlq' = DOMAIN dlq \cup {Len(dlq) + 1}
        /\ dlq'[Len(dlq) + 1] = e
        /\ \A n \in DOMAIN dlq : dlq'[n] = dlq[n]
    BY <1>1, <1>2, AppendFacts
  <2> QED
    BY <2>1 DEF InDlq
<1>3. ASSUME dlq # <<>>, dlq' = Tail(dlq)
      PROVE  /\ InDlq(i)' <=> InDlq(i) /\ i # Head(dlq).message.id
             /\ InDlq(Head(dlq).message.id)
  <2>1. /\ 1 \in DOMAIN dlq
        /\ Head(dlq) = dlq[1]
        /\ \A n \in DOMAIN dlq' :
              n + 1 \in DOMAIN dlq /\ n + 1 # 1 /\ dlq'[n] = dlq[n + 1]
    BY <1>1, <1>3, TailFacts
  <2>2. \A n \in DOMAIN dlq : n # 1 =>
          n - 1 \in DOMAIN dlq' /\ dlq'[n - 1] = dlq[n]
    BY <1>1, <1>3
  <2> QED
    BY <2>1, <2>2 DEF InDlq, Custody, SingleCustody
<1> QED
  BY <1>2, <1>3 DEF InDlq

\* The same after a step.
LEMMA StatusIsNext == Custody' => \A i \in MsgIds : StatusTable(i)'
<1> DEFINE Table == \A i \in MsgIds : StatusTable(i)
<1>1. Custody => Table
  BY StatusIs
<1> HIDE DEF Table
<1>2. Custody' => Table'
  BY <1>1, PTL
<1> QED
  BY <1>2 DEF Table

\* Nothing about message i changes, but perhaps for the hand that holds it.
Kept(i) ==
  /\ (i > published') <=> (i > published)
  /\ InDlq(i)' <=> InDlq(i)
  /\ (InQueue(i) \/ InWriter(i) \/ InReplay(i))'
       <=> (InQueue(i) \/ InWriter(i) \/ InReplay(i))
  /\ applied'[i] > 0 <=> applied[i] > 0

\* Such a message keeps its status.
LEMMA KeptStatus ==
  ASSUME Custody, Custody', NEW i \in MsgIds, Kept(i)
  PROVE  Status(i)' = Status(i)
<1>1. StatusTable(i) /\ StatusTable(i)'
  BY StatusIs, StatusIsNext
<1> QED
  BY <1>1 DEF StatusTable, Kept, Held

\* A publish makes one message pending.
LEMMA MovedPublish ==
  ASSUME Custody, Custody', NEW k \in Traffic, NEW p \in Pools, Publish(k, p)
  PROVE  \E x : Moved(x)
<1> DEFINE m == [id |-> published + 1, kind |-> k, pool |-> p]
<1>0. PICK x \in MsgIds : x = published + 1
  BY WriterAssumption DEF Custody, TypeInv, TypeOK, MsgIds, Publish
<1>1. /\ m \in Message /\ m.id = x /\ published \in Nat /\ published' = x
      /\ x = published + 1 /\ \A i \in MsgIds : i \in Nat
  BY <1>0, WriterAssumption, TrafficAssumption
     DEF Custody, TypeInv, TypeOK, Message, MsgIds, Publish
<1>2. /\ queue' = Append(queue, m) /\ link = "up"
      /\ UNCHANGED <<dlq, cur, rcur, applied, link, faults>>
  BY DEF Publish, PublishOk, Executed, Reaches, writerVars, replayVars
<1> HIDE DEF m
<1>3. ASSUME NEW i \in MsgIds
      PROVE  /\ InQueue(i)' <=> InQueue(i) \/ i = x
             /\ InDlq(i)' <=> InDlq(i)
             /\ InWriter(i)' <=> InWriter(i)
             /\ InReplay(i)' <=> InReplay(i)
  BY <1>1, <1>2, QueuePlaces, DlqPlaces DEF InWriter, InReplay
<1>4. ASSUME NEW i \in MsgIds, i # x
      PROVE  Status(i)' = Status(i)
  BY <1>1, <1>2, <1>3, <1>4, KeptStatus DEF Kept
<1>5. Status(x) = "unsent" /\ Status(x)' = "pending"
  BY <1>1, <1>3, StatusIs, StatusIsNext DEF StatusTable
<1>6. \A i \in AtRisk' : i \in AtRisk
  BY <1>2, <1>4, <1>5 DEF AtRisk
<1> QED
  BY <1>2, <1>4, <1>5, <1>6 DEF Moved, Promise!Moves

\* LPOP of the write queue: the head stays pending in the writer's hand, or its
\* reply was lost.
LEMMA MovedConsume ==
  ASSUME Custody, Custody', Consume, UNCHANGED <<replayVars, published>>
  PROVE  \E x : Moved(x)
<1>1. /\ UNCHANGED <<dlq, rcur, published, applied, link>> /\ cur = NoMsg
      /\ faults' \in {faults, faults + 1} /\ faults \in Nat
  BY DEF Consume, ConsumeSome, ConsumeNone, ConsumeErr, Executed, Rejected,
         ReplyLost, Fault, replayVars, Custody, TypeInv, TypeOK, QueueTypeOK, Hands
<1>2. CASE UNCHANGED <<queue, cur>>
  <2>1. ASSUME NEW i \in MsgIds PROVE Kept(i) /\ (InWriter(i)' <=> InWriter(i))
    BY <1>1, <1>2 DEF Kept, InQueue, InDlq, InWriter, InReplay
  <2>2. \A i \in MsgIds : Status(i)' = Status(i)
    BY <2>1, KeptStatus
  <2>3. Status(0)' = Status(0)
    BY <1>1, <1>2 DEF Status, InQueue, InDlq, InWriter, InReplay
  <2>4. \A i \in AtRisk' : i \in AtRisk
    BY <1>1, <2>1, <2>2 DEF AtRisk
  <2>5. Moved(0)
    BY <1>1, <2>2, <2>3, <2>4 DEF Moved
  <2> QED
    BY <2>5
<1>3. CASE queue # <<>> /\ queue' = Tail(queue) /\ link = "up"
           /\ (cur' = Head(queue) \/ (cur' = NoMsg /\ faults' = faults + 1))
  <2>0. /\ queue \in Seq(Message) /\ published \in 0..MaxMsgs
        /\ 1 \in DOMAIN queue /\ Head(queue) = queue[1] /\ Head(queue) \in Message
    <3>1. queue \in Seq(Message) /\ published \in 0..MaxMsgs
      BY DEF Custody, TypeInv, TypeOK, QueueTypeOK
    <3> QED
      BY <1>3, <3>1, TailFacts
  <2> PICK x \in MsgIds : x = Head(queue).id
    <3>1. Head(queue).id \in Nat \ {0}
      BY <2>0 DEF Message
    <3> QED
      BY <2>0, <3>1, WriterAssumption DEF Custody, KnownIds, MsgIds
  <2>1. /\ Head(queue) \in Message /\ x = Head(queue).id
        /\ ~InDlq(x) /\ ~InReplay(x) /\ ~(x > published)
    <3>1. x \in Nat /\ published \in Nat /\ x <= published
      BY <2>0, WriterAssumption DEF Custody, KnownIds, MsgIds
    <3>2. InQueue(x)
      BY <2>0 DEF InQueue
    <3>3. ~InDlq(x) /\ ~InReplay(x)
      BY <3>2 DEF Custody, SingleCustody, InQueue, InDlq, InReplay
    <3> QED
      BY <2>0, <3>1, <3>3
  <2>2. ASSUME NEW i \in MsgIds
        PROVE  /\ InQueue(i)' <=> InQueue(i) /\ i # x
               /\ InDlq(i)' <=> InDlq(i)
               /\ InReplay(i)' <=> InReplay(i)
               /\ ~InWriter(i)
               /\ InWriter(i)' => i = x
               /\ InWriter(i)' \/ faults' = faults + 1 \/ i # x
    <3>1. Head(queue) # NoMsg
      BY <2>1, WriterAssumption
    <3> QED
      BY <1>1, <1>3, <2>1, <3>1, QueuePlaces, DlqPlaces DEF InWriter, InReplay
  <2>3. ASSUME NEW i \in MsgIds, i # x PROVE Status(i)' = Status(i)
    BY <1>1, <2>2, <2>3, KeptStatus DEF Kept
  <2>4. Status(x) = "pending"
    BY <1>3, <2>1, QueuePlaces, StatusIs DEF StatusTable
  <2>5. \/ Status(x)' = "pending"
        \/ faults' = faults + 1 /\ Status(x)' \in {"stored", "lost"}
    BY <1>1, <2>1, <2>2, StatusIsNext DEF StatusTable, Held
  <2>6. \A i \in AtRisk' : i \in AtRisk \/ (i = x /\ faults' = faults + 1)
    BY <1>1, <1>3, <2>3, <2>5 DEF AtRisk
  <2> QED
    BY <1>1, <2>3, <2>4, <2>5, <2>6 DEF Moved, Promise!Moves
<1>4. \/ UNCHANGED <<queue, cur>>
      \/ /\ queue # <<>> /\ queue' = Tail(queue) /\ link = "up"
         /\ cur' = Head(queue) \/ (cur' = NoMsg /\ faults' = faults + 1)
  BY <1>1 DEF Consume, ConsumeSome, ConsumeNone, ConsumeErr, Executed, ReplyLost,
         Reaches, Fault
<1> QED
  BY <1>2, <1>3, <1>4

\* A step that moves message x only, with no hand filled and no link broken.
LEMMA OneMoves ==
  ASSUME Custody, Custody', NEW x \in MsgIds,
         \A i \in MsgIds : i # x => Kept(i),
         Status(x)' # Status(x) => <<Status(x), Status(x)'>> \in Promise!Moves,
         faults' \in {faults, faults + 1},
         link' = link \/ link' = "up",
         \A i \in MsgIds : InWriter(i)' => InWriter(i),
         Status(x)' = "lost" =>
           \/ faults' = faults + 1 \/ Status(x) = "lost"
           \/ link = "down" /\ InWriter(x)
  PROVE  \E y : Moved(y)
<1>1. ASSUME NEW i \in MsgIds, i # x PROVE Status(i)' = Status(i)
  BY <1>1, KeptStatus
<1>2. \A i \in AtRisk' : i \in AtRisk \/ (i = x /\ faults' = faults + 1)
  BY <1>1 DEF AtRisk
<1>3. Moved(x)
  BY <1>1, <1>2 DEF Moved
<1> QED
  BY <1>3

\* A step that moves no message.
LEMMA NoneMoves ==
  ASSUME Custody, Custody', UNCHANGED <<queue, dlq, cur, rcur, published, applied>>,
         faults' \in {faults, faults + 1}, link' = link \/ link' = "up"
  PROVE  \E y : Moved(y)
<1>1. ASSUME NEW i PROVE Kept(i) /\ (InWriter(i)' <=> InWriter(i))
  BY DEF Kept, InQueue, InDlq, InWriter, InReplay
<1>2. \A i \in MsgIds : Status(i)' = Status(i)
  BY <1>1, KeptStatus
<1>3. Status(0)' = Status(0)
  BY DEF Status, InQueue, InDlq, InWriter, InReplay
<1>4. \A i \in AtRisk' : i \in AtRisk
  BY <1>1, <1>2 DEF AtRisk
<1>5. Moved(0)
  BY <1>2, <1>3, <1>4 DEF Moved
<1> QED
  BY <1>5

\* The message in the writer's hand is nowhere else.
LEMMA InHand ==
  ASSUME Custody, cur # NoMsg
  PROVE  \E x \in MsgIds : /\ x = cur.id /\ InWriter(x) /\ ~(x > published)
                           /\ ~InQueue(x) /\ ~InDlq(x) /\ ~InReplay(x)
                           /\ Status(x) = "pending"
<1>1. cur \in Message /\ published \in 0..MaxMsgs
  BY DEF Custody, TypeInv, TypeOK, WriterTypeOK
<1>2. cur.id \in Nat \ {0}
  BY <1>1 DEF Message
<1>3. PICK x \in MsgIds : x = cur.id
  BY <1>1, <1>2, WriterAssumption DEF Custody, KnownIds, MsgIds
<1>4. ~(x > published)
  BY <1>1, <1>2, <1>3, WriterAssumption DEF Custody, KnownIds, MsgIds
<1>5. InWriter(x) /\ ~InQueue(x) /\ ~InDlq(x) /\ ~InReplay(x)
  BY <1>3 DEF Custody, SingleCustody, InWriter, InReplay
<1>6. Status(x) = "pending"
  BY <1>4, <1>5, StatusIs DEF StatusTable
<1> QED
  BY <1>3, <1>4, <1>5, <1>6

\* So is the one in the replayer's hand.
LEMMA InReplayersHand ==
  ASSUME Custody, rcur # NoReplay
  PROVE  \E x \in MsgIds : /\ x = rcur.id /\ InReplay(x) /\ ~(x > published)
                           /\ ~InQueue(x) /\ ~InDlq(x) /\ ~InWriter(x)
                           /\ Status(x) = "pending"
<1>1. rcur \in Message /\ published \in 0..MaxMsgs
  BY DEF Custody, TypeInv, TypeOK, ReplayTypeOK
<1>2. rcur.id \in Nat \ {0}
  BY <1>1 DEF Message
<1>3. PICK x \in MsgIds : x = rcur.id
  BY <1>1, <1>2, WriterAssumption DEF Custody, KnownIds, MsgIds
<1>4. ~(x > published)
  BY <1>1, <1>2, <1>3, WriterAssumption DEF Custody, KnownIds, MsgIds
<1>5. InReplay(x) /\ ~InQueue(x) /\ ~InDlq(x) /\ ~InWriter(x)
  BY <1>3 DEF Custody, SingleCustody, InWriter, InReplay
<1>6. Status(x) = "pending"
  BY <1>4, <1>5, StatusIs DEF StatusTable
<1> QED
  BY <1>3, <1>4, <1>5, <1>6

\* A try of the writer: the message is stored or still pending.
LEMMA MovedPersist ==
  ASSUME Custody, Custody', PersistOk \/ PersistErr,
         UNCHANGED <<replayVars, published>>
  PROVE  \E y : Moved(y)
<1>1. /\ UNCHANGED <<queue, dlq, rcur, published, link, faults>>
      /\ cur # NoMsg /\ cur' \in {cur, NoMsg}
      /\ applied \in [MsgIds -> Nat]
  BY DEF PersistOk, PersistErr, queueVars, replayVars, Custody, TypeInv, TypeOK,
         WriterTypeOK, Hands
<1>2. PICK x \in MsgIds : /\ x = cur.id /\ InWriter(x) /\ ~(x > published)
                          /\ ~InQueue(x) /\ ~InDlq(x) /\ ~InReplay(x)
                          /\ Status(x) = "pending"
  BY <1>1, InHand
<1>3. /\ applied' = applied \/ applied' = [applied EXCEPT ![x] = @ + 1]
      /\ cur' = NoMsg => applied' = [applied EXCEPT ![x] = @ + 1]
  BY <1>1, <1>2 DEF PersistOk, PersistErr, SinkWrite
<1>4. ASSUME NEW i \in MsgIds
      PROVE  /\ InQueue(i)' <=> InQueue(i)
             /\ InDlq(i)' <=> InDlq(i)
             /\ InReplay(i)' <=> InReplay(i)
             /\ InWriter(i)' => InWriter(i)
             /\ i # x => (InWriter(i)' <=> InWriter(i)) /\ applied'[i] = applied[i]
  BY <1>1, <1>2, <1>3 DEF InQueue, InDlq, InReplay, InWriter
<1>5. \A i \in MsgIds : i # x => Kept(i)
  BY <1>1, <1>4 DEF Kept
<1>6. CASE cur' = cur
  <2>1. Status(x)' = "pending"
    BY <1>1, <1>2, <1>6, StatusIsNext DEF StatusTable, InWriter
  <2> QED
    BY <1>1, <1>2, <1>4, <1>5, <2>1, OneMoves
<1>7. CASE cur' = NoMsg
  <2>1. applied'[x] = applied[x] + 1 /\ applied[x] \in Nat
    BY <1>1, <1>3, <1>7
  <2>2. ~Held(x)'
    BY <1>1, <1>2, <1>4, <1>7 DEF Held, InWriter
  <2>3. Status(x)' = "stored"
    BY <2>1, <2>2, StatusIsNext DEF StatusTable
  <2> QED
    BY <1>1, <1>2, <1>4, <1>5, <2>3, OneMoves DEF Promise!Moves
<1> QED
  BY <1>1, <1>6, <1>7

\* push_dlq: the message is parked, or dropped because of a fault, of this step
\* or the one that broke the link.
LEMMA MovedPushDlq ==
  ASSUME Custody, Custody', PushDlq, UNCHANGED <<replayVars, published>>
  PROVE  \E y : Moved(y)
<1> DEFINE e == [message |-> cur, attempts |-> attempts]
<1>1. /\ UNCHANGED <<queue, rcur, published, link, applied>> /\ cur' = NoMsg
      /\ faults' \in {faults, faults + 1} /\ faults \in Nat /\ link \in {"up", "down"}
  BY DEF PushDlq, PushDlqOk, PushDlqErr, Executed, Rejected, ReplyLost, Fault,
         replayVars, Custody, TypeInv, TypeOK, QueueTypeOK
<1>2. cur # NoMsg /\ cur \in Message /\ e.message = cur /\ e \in DlqEntry
  BY DEF Custody, TypeInv, TypeOK, WriterTypeOK, Hands, PushDlq, DlqEntry
<1>3. PICK x \in MsgIds : /\ x = cur.id /\ InWriter(x) /\ ~(x > published)
                          /\ ~InQueue(x) /\ ~InDlq(x) /\ ~InReplay(x)
                          /\ Status(x) = "pending"
  BY <1>2, InHand
<1>4. \/ dlq' = Append(dlq, e)
      \/ UNCHANGED dlq /\ (faults' = faults + 1 \/ link = "down")
  BY <1>1 DEF PushDlq, PushDlqOk, PushDlqErr, Rejected, Fault, Reaches
<1> HIDE DEF e
<1>5. ASSUME NEW i \in MsgIds
      PROVE  /\ InQueue(i)' <=> InQueue(i)
             /\ InReplay(i)' <=> InReplay(i)
             /\ ~InWriter(i)'
             /\ InWriter(i) => i = x
             /\ InDlq(i)' <=> InDlq(i) \/ (i = x /\ dlq' = Append(dlq, e))
  BY <1>1, <1>2, <1>3, <1>4, QueuePlaces, DlqPlaces DEF InReplay, InWriter
<1>6. \A i \in MsgIds : i # x => Kept(i)
  BY <1>1, <1>5 DEF Kept
<1>7. \/ Status(x)' = "parked"
      \/ /\ Status(x)' \in {"stored", "lost"}
         /\ faults' = faults + 1 \/ link = "down"
  BY <1>1, <1>3, <1>4, <1>5, StatusIsNext DEF StatusTable, Held
<1> QED
  BY <1>1, <1>3, <1>5, <1>6, <1>7, OneMoves DEF Promise!Moves

\* LPOP of the dead-letter queue: the head is pending again, or its reply lost.
LEMMA MovedReplayPop ==
  ASSUME Custody, Custody', ReplayPop, UNCHANGED <<writerVars, published>>
  PROVE  \E y : Moved(y)
<1>1. /\ UNCHANGED <<queue, cur, published, applied, link>> /\ rcur = NoReplay
      /\ faults' \in {faults, faults + 1} /\ faults \in Nat
  BY DEF ReplayPop, PopDlqSome, PopDlqNone, PopDlqErr, Executed, Rejected,
         ReplyLost, Fault, writerVars, Custody, TypeInv, TypeOK, QueueTypeOK, Hands
<1>2. CASE UNCHANGED <<dlq, rcur>>
  BY <1>1, <1>2, NoneMoves
<1>3. CASE /\ dlq # <<>> /\ dlq' = Tail(dlq)
           /\ rcur' = Head(dlq).message \/ (rcur' = NoReplay /\ faults' = faults + 1)
  <2>0. /\ dlq \in Seq(DlqEntry) /\ published \in 0..MaxMsgs
        /\ 1 \in DOMAIN dlq /\ Head(dlq) = dlq[1] /\ Head(dlq) \in DlqEntry
    <3>1. dlq \in Seq(DlqEntry) /\ published \in 0..MaxMsgs
      BY DEF Custody, TypeInv, TypeOK, QueueTypeOK
    <3> QED
      BY <1>3, <3>1, TailFacts
  <2>1. Head(dlq).message \in Message /\ Head(dlq).message.id \in Nat \ {0}
    BY <2>0 DEF Message, DlqEntry
  <2> PICK x \in MsgIds : x = Head(dlq).message.id
    BY <2>0, <2>1, WriterAssumption DEF Custody, KnownIds, MsgIds
  <2>2. InDlq(x) /\ ~InQueue(x) /\ ~InWriter(x) /\ ~(x > published)
    <3>1. x \in Nat /\ published \in Nat /\ x <= published
      BY <2>0, WriterAssumption DEF Custody, KnownIds, MsgIds
    <3>2. InDlq(x)
      BY <2>0 DEF InDlq
    <3>3. ~InQueue(x) /\ ~InWriter(x)
      BY <3>2 DEF Custody, SingleCustody, InQueue, InDlq, InWriter
    <3> QED
      BY <3>1, <3>2, <3>3
  <2>3. ASSUME NEW i \in MsgIds
        PROVE  /\ InQueue(i)' <=> InQueue(i)
               /\ InWriter(i)' <=> InWriter(i)
               /\ InDlq(i)' <=> InDlq(i) /\ i # x
               /\ ~InReplay(i)
               /\ InReplay(i)' => i = x
               /\ InReplay(i)' \/ faults' = faults + 1 \/ i # x
    <3>1. Head(dlq).message # NoReplay
      BY <2>1, ReplayAssumption
    <3> QED
      BY <1>1, <1>3, <3>1, QueuePlaces, DlqPlaces DEF InWriter, InReplay
  <2>4. \A i \in MsgIds : i # x => Kept(i)
    BY <1>1, <2>3 DEF Kept
  <2>5. Status(x) = "parked"
    BY <2>2, StatusIs DEF StatusTable
  <2>6. \/ Status(x)' = "pending"
        \/ faults' = faults + 1 /\ Status(x)' \in {"stored", "lost"}
    BY <1>1, <2>2, <2>3, StatusIsNext DEF StatusTable, Held
  <2> QED
    BY <1>1, <2>3, <2>4, <2>5, <2>6, OneMoves DEF Promise!Moves
<1>4. \/ UNCHANGED <<dlq, rcur>>
      \/ /\ dlq # <<>> /\ dlq' = Tail(dlq)
         /\ rcur' = Head(dlq).message \/ (rcur' = NoReplay /\ faults' = faults + 1)
  BY <1>1 DEF ReplayPop, PopDlqSome, PopDlqNone, PopDlqErr, ReplyLost, Fault
<1> QED
  BY <1>2, <1>3, <1>4

\* RPUSH by the replayer: the message is queued, or dropped with a fault.
LEMMA MovedReplayPublish ==
  ASSUME Custody, Custody', ReplayPublish, UNCHANGED <<writerVars, published>>
  PROVE  \E y : Moved(y)
<1>1. /\ UNCHANGED <<dlq, cur, published, applied, link>> /\ rcur' = NoReplay
      /\ faults' \in {faults, faults + 1} /\ faults \in Nat
      /\ rcur # NoReplay /\ rcur \in Message
  BY DEF ReplayPublish, PublishOk, PublishErr, Executed, Rejected, ReplyLost, Fault,
         writerVars, Custody, TypeInv, TypeOK, QueueTypeOK, ReplayTypeOK, Hands
<1>2. PICK x \in MsgIds : /\ x = rcur.id /\ InReplay(x) /\ ~(x > published)
                          /\ ~InQueue(x) /\ ~InDlq(x) /\ ~InWriter(x)
                          /\ Status(x) = "pending"
  BY <1>1, InReplayersHand
<1>3. queue' = Append(queue, rcur) \/ (UNCHANGED queue /\ faults' = faults + 1)
  BY DEF ReplayPublish, PublishOk, PublishErr, Rejected, Fault, Reaches
<1>4. ASSUME NEW i \in MsgIds
      PROVE  /\ InDlq(i)' <=> InDlq(i)
             /\ InWriter(i)' <=> InWriter(i)
             /\ ~InReplay(i)'
             /\ InReplay(i) => i = x
             /\ InQueue(i)' <=> InQueue(i) \/ (i = x /\ queue' = Append(queue, rcur))
  BY <1>1, <1>2, <1>3, QueuePlaces, DlqPlaces DEF InReplay, InWriter
<1>5. \A i \in MsgIds : i # x => Kept(i)
  BY <1>1, <1>4 DEF Kept
<1>6. \/ Status(x)' = "pending"
      \/ Status(x)' \in {"stored", "lost"} /\ faults' = faults + 1
  BY <1>1, <1>2, <1>3, <1>4, StatusIsNext DEF StatusTable, Held
<1> QED
  BY <1>1, <1>2, <1>4, <1>5, <1>6, OneMoves DEF Promise!Moves

\* A process is killed: what it holds is dropped, one message for one fault.
LEMMA MovedKilled ==
  ASSUME Custody, Custody', UNCHANGED <<queue, dlq, published, applied, link>>,
         faults' = faults + 1,
         \/ cur' = NoMsg /\ UNCHANGED rcur
         \/ rcur' = NoReplay /\ UNCHANGED cur
  PROVE  \E y : Moved(y)
<1>1. CASE UNCHANGED <<cur, rcur>>
  BY <1>1, NoneMoves
<1>2. CASE cur # NoMsg /\ cur' = NoMsg /\ UNCHANGED rcur
  <2>1. PICK x \in MsgIds : /\ x = cur.id /\ InWriter(x) /\ ~(x > published)
                            /\ ~InQueue(x) /\ ~InDlq(x) /\ ~InReplay(x)
                            /\ Status(x) = "pending"
    BY <1>2, InHand
  <2>2. ASSUME NEW i \in MsgIds
        PROVE  /\ InQueue(i)' <=> InQueue(i)
               /\ InDlq(i)' <=> InDlq(i)
               /\ InReplay(i)' <=> InReplay(i)
               /\ ~InWriter(i)'
               /\ InWriter(i) => i = x
    BY <1>2, <2>1 DEF InQueue, InDlq, InReplay, InWriter
  <2>3. \A i \in MsgIds : i # x => Kept(i)
    BY <2>2 DEF Kept
  <2>4. Status(x)' \in {"stored", "lost"}
    BY <2>1, <2>2, StatusIsNext DEF StatusTable, Held
  <2> QED
    BY <2>1, <2>2, <2>3, <2>4, OneMoves DEF Promise!Moves
<1>3. CASE rcur # NoReplay /\ rcur' = NoReplay /\ UNCHANGED cur
  <2>1. PICK x \in MsgIds : /\ x = rcur.id /\ InReplay(x) /\ ~(x > published)
                            /\ ~InQueue(x) /\ ~InDlq(x) /\ ~InWriter(x)
                            /\ Status(x) = "pending"
    BY <1>3, InReplayersHand
  <2>2. ASSUME NEW i \in MsgIds
        PROVE  /\ InQueue(i)' <=> InQueue(i)
               /\ InDlq(i)' <=> InDlq(i)
               /\ InWriter(i)' <=> InWriter(i)
               /\ ~InReplay(i)'
               /\ InReplay(i) => i = x
    BY <1>3, <2>1 DEF InQueue, InDlq, InReplay, InWriter
  <2>3. \A i \in MsgIds : i # x => Kept(i)
    BY <2>2 DEF Kept
  <2>4. Status(x)' \in {"stored", "lost"}
    BY <2>1, <2>2, StatusIsNext DEF StatusTable, Held
  <2> QED
    BY <2>1, <2>2, <2>3, <2>4, OneMoves DEF Promise!Moves
<1> QED
  BY <1>1, <1>2, <1>3

\* The link breaks: no message moves, and the one in hand is at risk.
LEMMA MovedLinkBreaks ==
  ASSUME Custody, Custody', LinkBreaks, UNCHANGED <<writerVars, replayVars, published>>
  PROVE  \E y : Moved(y)
<1>1. /\ UNCHANGED <<queue, dlq, cur, rcur, published, applied>>
      /\ faults' = faults + 1 /\ link = "up"
  BY DEF LinkBreaks, Fault, writerVars, replayVars
<1>2. ASSUME NEW i PROVE Kept(i) /\ (InWriter(i)' <=> InWriter(i))
  BY <1>1 DEF Kept, InQueue, InDlq, InWriter, InReplay
<1>3. \A i \in MsgIds : Status(i)' = Status(i)
  BY <1>2, KeptStatus
<1>4. CASE cur = NoMsg
  <2>1. \A i \in AtRisk' : i \in AtRisk
    BY <1>2, <1>3, <1>4 DEF AtRisk, InWriter
  <2>2. Status(0)' = Status(0)
    BY <1>1 DEF Status, InQueue, InDlq, InWriter, InReplay
  <2>3. Moved(0)
    BY <1>1, <1>3, <2>1, <2>2 DEF Moved
  <2> QED
    BY <2>3
<1>5. CASE cur # NoMsg
  <2>1. PICK x \in MsgIds : x = cur.id
    BY <1>5, InHand
  <2>2. \A i \in AtRisk' : i \in AtRisk \/ i = x
    BY <1>1, <1>3, <2>1 DEF AtRisk, InWriter
  <2>3. Moved(x)
    BY <1>1, <1>3, <2>2 DEF Moved
  <2> QED
    BY <2>3
<1> QED
  BY <1>4, <1>5

\* Every step of the write path moves at most one message, as the ledger allows.
LEMMA StepMoves ==
  ASSUME Custody, Custody', [Next]_vars
  PROVE  \E y : Moved(y)
<1>1. ASSUME NEW k \in Traffic, NEW p \in Pools, Publish(k, p)
      PROVE  \E y : Moved(y)
  BY <1>1, MovedPublish
<1>2. CASE WriterStep /\ UNCHANGED <<replayVars, published>>
  <2>1. CASE Consume
    BY <1>2, <2>1, MovedConsume
  <2>2. CASE PersistOk \/ PersistErr
    BY <1>2, <2>2, MovedPersist
  <2>3. CASE PushDlq
    BY <1>2, <2>3, MovedPushDlq
  <2>4. CASE CheckShutdown \/ Backoff \/ Wake
    BY <1>2, <2>4, NoneMoves DEF CheckShutdown, Backoff, Wake, queueVars, replayVars
  <2> QED
    BY <1>2, <2>1, <2>2, <2>3, <2>4 DEF WriterStep
<1>3. CASE ReplayStep /\ UNCHANGED <<writerVars, published>>
  <2>1. CASE ReplayPop
    BY <1>3, <2>1, MovedReplayPop
  <2>2. CASE ReplayPublish
    BY <1>3, <2>2, MovedReplayPublish
  <2>3. CASE ReplayKilled
    BY <1>3, <2>3, MovedKilled DEF ReplayKilled, Fault, writerVars
  <2>4. CASE ReplayStart \/ ReplayDone
    BY <1>3, <2>4, NoneMoves DEF ReplayStart, ReplayDone, queueVars, writerVars
  <2> QED
    BY <1>3, <2>1, <2>2, <2>3, <2>4 DEF ReplayStep, ReplayRun
<1>4. CASE LinkBreaks /\ UNCHANGED <<writerVars, replayVars, published>>
  BY <1>4, MovedLinkBreaks
<1>5. CASE Crash
  BY <1>5, MovedKilled DEF Crash, Fault, replayVars
<1>6. CASE Shutdown \/ Restart \/ UNCHANGED vars
  BY <1>6, NoneMoves
     DEF Shutdown, Restart, vars, queueVars, writerVars, replayVars
<1> QED
  BY <1>1, <1>2, <1>3, <1>4, <1>5, <1>6 DEF Next

\* At the start every message is unsent.
LEMMA StatusInit ==
  ASSUME Init
  PROVE  /\ \A i \in MsgIds : Status(i) = "unsent"
         /\ AtRisk = {} /\ Custody
<1>1. Custody
  BY CustodyInit, TypeInvInductive DEF Custody
<1>2. \A i \in MsgIds : i > published
  BY WriterAssumption DEF Init, MsgIds
<1>3. \A i \in MsgIds : Status(i) = "unsent"
  BY <1>1, <1>2, StatusIs DEF StatusTable
<1>4. link = "up"
  BY DEF Init, QueueInit
<1> QED
  BY <1>1, <1>3, <1>4 DEF AtRisk

\* There are never more messages at risk than there were faults.
LEMMA LossChargedInductive ==
  /\ Init => LossCharged
  /\ Custody /\ Custody' /\ LossCharged /\ [Next]_vars => LossCharged'
<1>1. Init => LossCharged
  BY StatusInit, FS_EmptySet DEF LossCharged, Init, QueueInit
<1>2. ASSUME Custody, Custody', LossCharged, [Next]_vars
      PROVE  LossCharged'
  <2>1. IsFiniteSet(AtRisk) /\ IsFiniteSet(AtRisk')
    <3>1. IsFiniteSet(MsgIds)
      BY WriterAssumption, FS_Interval DEF MsgIds
    <3>2. AtRisk \subseteq MsgIds /\ AtRisk' \subseteq MsgIds
      BY DEF AtRisk
    <3> QED
      BY <3>1, <3>2, FS_Subset
  <2>2. PICK x : Moved(x)
    BY <1>2, StepMoves
  <2>3. /\ Cardinality(AtRisk) \in Nat /\ Cardinality(AtRisk') \in Nat
        /\ faults \in Nat /\ faults' \in {faults, faults + 1}
    BY <1>2, <2>1, <2>2, FS_CardinalityType
       DEF Moved, Custody, TypeInv, TypeOK, QueueTypeOK
  <2>4. CASE faults' = faults
    <3>1. AtRisk' \subseteq AtRisk
      BY <2>2, <2>3, <2>4 DEF Moved
    <3>2. Cardinality(AtRisk') <= Cardinality(AtRisk)
      BY <2>1, <3>1, FS_Subset
    <3> QED
      BY <1>2, <2>3, <2>4, <3>2 DEF LossCharged
  <2>5. CASE faults' = faults + 1
    <3>1. AtRisk' \subseteq AtRisk \cup {x}
      BY <2>2 DEF Moved
    <3>2. /\ IsFiniteSet(AtRisk \cup {x})
          /\ Cardinality(AtRisk \cup {x}) <= Cardinality(AtRisk) + 1
      <4>1. Cardinality(AtRisk \cup {x}) =
              IF x \in AtRisk THEN Cardinality(AtRisk) ELSE Cardinality(AtRisk) + 1
        BY <2>1, FS_AddElement
      <4>2. IsFiniteSet(AtRisk \cup {x})
        BY <2>1, FS_AddElement
      <4> QED
        BY <2>3, <4>1, <4>2
    <3>3. Cardinality(AtRisk') <= Cardinality(AtRisk \cup {x})
      BY <3>1, <3>2, FS_Subset
    <3>4. Cardinality(AtRisk \cup {x}) \in Nat
      BY <3>2, FS_CardinalityType
    <3> QED
      BY <1>2, <2>3, <2>5, <3>2, <3>3, <3>4 DEF LossCharged
  <2> QED
    BY <2>3, <2>4, <2>5
<1> QED
  BY <1>1, <1>2

\* The lost messages are at risk.
LEMMA LossFollows == Custody /\ LossCharged => LossBound
<1> SUFFICES ASSUME Custody, LossCharged PROVE LossBound
  OBVIOUS
<1> DEFINE Lost == {i \in MsgIds : Status(i) = "lost"}
<1>1. IsFiniteSet(AtRisk) /\ Lost \subseteq AtRisk
  <2>1. IsFiniteSet(MsgIds)
    BY WriterAssumption, FS_Interval DEF MsgIds
  <2>2. AtRisk \subseteq MsgIds
    BY DEF AtRisk
  <2> QED
    BY <2>1, <2>2, FS_Subset DEF AtRisk
<1> HIDE DEF Lost
<1>2. IsFiniteSet(Lost) /\ Cardinality(Lost) <= Cardinality(AtRisk)
  BY <1>1, FS_Subset
<1>3. /\ Cardinality(Lost) \in Nat /\ Cardinality(AtRisk) \in Nat
      /\ faults \in Nat
  BY <1>1, <1>2, FS_CardinalityType DEF Custody, TypeInv, TypeOK, QueueTypeOK
<1>4. Cardinality(Lost) <= faults
  BY <1>2, <1>3 DEF LossCharged
<1> QED
  BY <1>4 DEF LossBound, Lost

\* Every lost message has a fault of its own, for any number of messages, tries
\* and faults: a step without a fault loses a message only if it was in the
\* writer's hand when the connection broke.
THEOREM LossesAreBounded == Spec => []LossBound
<1>1. Init => Custody
  BY StatusInit
<1> QED
  BY <1>1, CustodyInductive, LossChargedInductive, LossFollows, PTL DEF Spec

-----------------------------------------------------------------------------
(***************************************************************************)
(* The refinement: a step that moves message x is the ledger's Step(x), a  *)
(* fault that moves none is Harmless, and every other step is a stutter.   *)
(***************************************************************************)
LEMMA StepRefines ==
  ASSUME Custody, Custody', LossBound', [Next]_vars
  PROVE  [Promise!Next]_<<[i \in MsgIds |-> Status(i)], faults>>
<1> DEFINE st == [i \in MsgIds |-> Status(i)]
<1>1. PICK x : Moved(x)
  BY StepMoves
<1>2. faults \in Nat /\ faults' \in {faults, faults + 1}
  BY <1>1 DEF Moved, Custody, TypeInv, TypeOK, QueueTypeOK
<1>3. CASE x \notin MsgIds \/ Status(x)' = Status(x)
  <2>1. st' = st
    BY <1>1, <1>3 DEF Moved
  <2> QED
    BY <1>2, <2>1 DEF Promise!Next, Promise!Harmless
<1>4. CASE x \in MsgIds /\ Status(x)' # Status(x)
  <2>1. <<st[x], Status(x)'>> \in Promise!Moves
    BY <1>1, <1>4 DEF Moved
  <2>2. Status(x)' \in {"pending", "parked", "stored", "lost"}
    BY <2>1 DEF Promise!Moves
  <2>3. st' = [st EXCEPT ![x] = Status(x)']
    BY <1>1, <1>4 DEF Moved
  <2>4. Promise!Cardinality(Promise!LostIds') <= faults'
    <3>1. Promise!LostIds' = {i \in MsgIds : Status(i)' = "lost"}
      BY DEF Promise!LostIds
    <3>2. \A S : Promise!Cardinality(S) = Cardinality(S)
      BY DEF Promise!Cardinality, Cardinality
    <3> QED
      BY <3>1, <3>2 DEF LossBound
  <2>5. Promise!Step(x)
    BY <1>2, <2>1, <2>2, <2>3, <2>4 DEF Promise!Step
  <2> QED
    BY <1>4, <2>5 DEF Promise!Next
<1> QED
  BY <1>3, <1>4

\* The queue, the writer with its retries, the dead-letter queue, the replayer
\* and their crashes implement the ledger: a published message is pending or
\* parked until it is stored, or lost to a fault of its own, and what is stored
\* or lost stays so.
THEOREM ImplementsLedger == Spec => KeepsPromise
<1>1. Init => Custody /\ Promise!Init
  <2> SUFFICES ASSUME Init PROVE Custody /\ Promise!Init
    OBVIOUS
  <2> QED
    BY StatusInit DEF Promise!Init, Init, QueueInit
<1>2. Custody /\ Custody' /\ LossBound' /\ [Next]_vars
        => [Promise!Next]_<<[i \in MsgIds |-> Status(i)], faults>>
  BY StepRefines
<1> QED
  BY <1>1, <1>2, CustodyInductive, LossesAreBounded, PTL
     DEF Spec, KeepsPromise, Promise!Spec

-----------------------------------------------------------------------------
(***************************************************************************)
(* Order.  A message that was never replayed is younger than everything    *)
(* that left the write queue before it, because the queue is FIFO; only    *)
(* replayed messages come to the queue out of order.                       *)
(***************************************************************************)
\* What was replayed or written is published; the replayer holds a replayed one.
Accounted ==
  /\ \A r \in replayed : r <= published
  /\ \A k \in RowKinds, p \in Pools : rows[k][p] <= published
  /\ rcur # NoReplay => rcur.id \in replayed

\* A message waiting for its first delivery is younger than what is elsewhere.
Younger ==
  \A n \in DOMAIN queue : queue[n].id \notin replayed =>
    /\ \A r \in replayed : r < queue[n].id
    /\ \A d \in DOMAIN dlq : dlq[d].message.id < queue[n].id
    /\ cur # NoMsg => cur.id < queue[n].id
    /\ \A k \in RowKinds, p \in Pools : rows[k][p] < queue[n].id
    /\ \A m \in DOMAIN queue : m < n => queue[m].id < queue[n].id

\* A first delivery in the writer's hand is no older than any row.
Newest ==
  cur # NoMsg /\ cur.id \notin replayed =>
    \A k \in RowKinds, p \in Pools : rows[k][p] <= cur.id

Order == Accounted /\ Younger /\ Newest

\* The numbers that Order compares.
LEMMA OrderTypes ==
  ASSUME Custody
  PROVE  /\ published \in Nat /\ replayed \subseteq Nat
         /\ rows \in [RowKinds -> [Pools -> Nat]]
         /\ \A k \in RowKinds, p \in Pools : rows[k][p] \in Nat
         /\ queue \in Seq(Message) /\ dlq \in Seq(DlqEntry)
         /\ IdTypes
BY IdTypesHold
   DEF Custody, TypeInv, TypeOK, QueueTypeOK, WriterTypeOK, ReplayTypeOK

\* The message just published is the youngest.
LEMMA OrderPublish ==
  ASSUME Custody, Order, NEW k \in Traffic, NEW p \in Pools, Publish(k, p)
  PROVE  Order'
<1> DEFINE m == [id |-> published + 1, kind |-> k, pool |-> p]
<1>1. m \in Message /\ m.id = published + 1 /\ published' = published + 1
  BY TrafficAssumption DEF Custody, TypeInv, TypeOK, Message, Publish
<1>2. /\ queue' = Append(queue, m)
      /\ UNCHANGED <<dlq, cur, rcur, rows, replayed>>
  BY DEF Publish, PublishOk, writerVars, replayVars
<1> HIDE DEF m
<1>3. /\ DOMAIN queue' = DOMAIN queue \cup {Len(queue) + 1}
      /\ queue'[Len(queue) + 1] = m
      /\ \A n \in DOMAIN queue : queue'[n] = queue[n]
      /\ \A n \in DOMAIN queue : n < Len(queue) + 1 /\ ~(Len(queue) + 1 < n)
      /\ ~(Len(queue) + 1 < Len(queue) + 1)
  <2>1. queue \in Seq(Message)
    BY OrderTypes
  <2> QED
    BY <1>1, <1>2, <2>1, AppendFacts
<1>4. Accounted'
  BY <1>1, <1>2, OrderTypes DEF Order, Accounted
<1>5. Younger'
  <2>1. ASSUME NEW n \in DOMAIN queue, queue[n].id \notin replayed
        PROVE  \A j \in DOMAIN queue' : j < n => queue'[j].id < queue[n].id
    BY <1>3, <2>1 DEF Order, Younger
  <2>2. /\ \A r \in replayed : r < m.id
        /\ \A d \in DOMAIN dlq : dlq[d].message.id < m.id
        /\ cur # NoMsg => cur.id < m.id
        /\ \A kk \in RowKinds, pp \in Pools : rows[kk][pp] < m.id
        /\ \A j \in DOMAIN queue : queue[j].id < m.id
    BY <1>1, OrderTypes DEF Order, Accounted, Custody, KnownIds, IdTypes
  <2>3. ASSUME NEW n \in DOMAIN queue, queue'[n].id \notin replayed
        PROVE  /\ \A r \in replayed : r < queue'[n].id
               /\ \A d \in DOMAIN dlq : dlq[d].message.id < queue'[n].id
               /\ cur # NoMsg => cur.id < queue'[n].id
               /\ \A kk \in RowKinds, pp \in Pools : rows[kk][pp] < queue'[n].id
    BY <1>3, <2>3 DEF Order, Younger
  <2> QED
    BY <1>2, <1>3, <2>1, <2>2, <2>3 DEF Younger
<1>6. Newest'
  BY <1>2 DEF Order, Newest
<1> QED
  BY <1>4, <1>5, <1>6 DEF Order

\* LPOP keeps the order; a first delivery is older than what is left.
LEMMA OrderConsume ==
  ASSUME Custody, Order, Consume, UNCHANGED <<replayVars, published>>
  PROVE  Order'
<1>1. UNCHANGED <<dlq, rcur, published, rows, replayed>> /\ cur = NoMsg
  BY DEF Consume, ConsumeSome, ConsumeNone, ConsumeErr, replayVars,
         Custody, TypeInv, Hands
<1>2. Accounted'
  BY <1>1 DEF Order, Accounted
<1>3. CASE UNCHANGED <<queue, cur>>
  BY <1>1, <1>2, <1>3 DEF Order, Younger, Newest
<1>4. CASE queue # <<>> /\ queue' = Tail(queue)
           /\ (cur' = NoMsg \/ cur' = Head(queue))
  <2>1. /\ 1 \in DOMAIN queue
        /\ Head(queue) = queue[1]
        /\ \A n \in DOMAIN queue' :
              n + 1 \in DOMAIN queue /\ 1 < n + 1 /\ queue'[n] = queue[n + 1]
        /\ \A m, n \in DOMAIN queue' : m < n => m + 1 < n + 1
    BY <1>4, OrderTypes
  <2>2. ASSUME NEW n \in DOMAIN queue', queue'[n].id \notin replayed
        PROVE  /\ \A r \in replayed : r < queue'[n].id
               /\ \A d \in DOMAIN dlq : dlq[d].message.id < queue'[n].id
               /\ queue[1].id < queue'[n].id
               /\ \A k \in RowKinds, p \in Pools : rows[k][p] < queue'[n].id
               /\ \A m \in DOMAIN queue' : m < n => queue'[m].id < queue'[n].id
    BY <2>1, <2>2 DEF Order, Younger
  <2>3. Younger'
    BY <1>1, <1>4, <2>1, <2>2 DEF Younger
  <2>4. queue[1].id \notin replayed =>
          \A k \in RowKinds, p \in Pools : rows[k][p] <= queue[1].id
    BY <2>1, OrderTypes DEF Order, Younger, IdTypes
  <2>5. Newest'
    BY <1>1, <1>4, <2>1, <2>4 DEF Newest
  <2> QED
    BY <1>2, <2>3, <2>5 DEF Order
<1> QED
  BY <1>1, <1>3, <1>4 DEF Consume, ConsumeSome, ConsumeNone, ConsumeErr

\* A try writes the message in hand, which is older than what waits.
LEMMA OrderPersist ==
  ASSUME Custody, Order, PersistOk \/ PersistErr, UNCHANGED <<replayVars, published>>
  PROVE  Order'
<1>1. /\ UNCHANGED <<queue, dlq, rcur, published, replayed>>
      /\ cur # NoMsg /\ cur' \in {cur, NoMsg} /\ cur \in Message
  BY DEF PersistOk, PersistErr, queueVars, replayVars, Custody, TypeInv, TypeOK,
         WriterTypeOK, Hands
<1>2. \A k \in RowKinds, p \in Pools : rows'[k][p] \in {rows[k][p], cur.id}
  <2>1. rows' = rows \/ SinkWrite(cur)
    BY DEF PersistOk, PersistErr
  <2> QED
    BY <2>1, OrderTypes DEF SinkWrite, InsertPool, SetPoolTickData, RowKinds
<1>3. cur.id <= published /\ cur.id \in Nat
  BY <1>1, OrderTypes DEF Custody, KnownIds, IdTypes
<1>4. Accounted'
  BY <1>1, <1>2, <1>3 DEF Order, Accounted
<1>5. Younger'
  BY <1>1, <1>2 DEF Order, Younger
<1>6. Newest'
  BY <1>1, <1>2, <1>3 DEF Order, Newest
<1> QED
  BY <1>4, <1>5, <1>6 DEF Order

\* RPUSH to the dead-letter queue: the message parked is older than what waits.
LEMMA OrderPushDlq ==
  ASSUME Custody, Order, PushDlq, UNCHANGED <<replayVars, published>>
  PROVE  Order'
<1> DEFINE e == [message |-> cur, attempts |-> attempts]
<1>1. UNCHANGED <<queue, rcur, published, rows, replayed>> /\ cur' = NoMsg
  BY DEF PushDlq, PushDlqOk, PushDlqErr, replayVars
<1>2. cur # NoMsg /\ e.message = cur /\ e \in DlqEntry
  BY DEF Custody, TypeInv, TypeOK, WriterTypeOK, Hands, PushDlq, DlqEntry
<1>3. dlq' = dlq \/ dlq' = Append(dlq, e)
  BY DEF PushDlq, PushDlqOk, PushDlqErr
<1> HIDE DEF e
<1>4. \A d \in DOMAIN dlq' : dlq'[d].message = cur \/ (d \in DOMAIN dlq /\ dlq'[d] = dlq[d])
  BY <1>2, <1>3, OrderTypes, AppendFacts
<1> QED
  BY <1>1, <1>2, <1>4 DEF Order, Accounted, Younger, Newest

\* LPOP of the dead-letter queue: the message taken is older than what waits.
LEMMA OrderReplayPop ==
  ASSUME Custody, Order, ReplayPop, UNCHANGED <<writerVars, published>>
  PROVE  Order'
<1>1. UNCHANGED <<queue, cur, published, rows>>
  BY DEF ReplayPop, PopDlqSome, PopDlqNone, PopDlqErr, writerVars
<1>2. CASE UNCHANGED <<dlq, rcur, replayed>>
  BY <1>1, <1>2 DEF Order, Accounted, Younger, Newest
<1>3. CASE /\ dlq # <<>> /\ dlq' = Tail(dlq)
           /\ \/ UNCHANGED <<rcur, replayed>>
              \/ /\ rcur' = Head(dlq).message
                 /\ replayed' = replayed \cup {Head(dlq).message.id}
  <2>1. /\ 1 \in DOMAIN dlq
        /\ Head(dlq) = dlq[1]
        /\ \A d \in DOMAIN dlq' : d + 1 \in DOMAIN dlq /\ dlq'[d] = dlq[d + 1]
    BY <1>3, OrderTypes, TailFacts
  <2>2. Head(dlq).message.id <= published
    BY <2>1 DEF Custody, KnownIds
  <2>3. Accounted'
    BY <1>1, <1>3, <2>2 DEF Order, Accounted
  <2>4. Younger'
    BY <1>1, <1>3, <2>1 DEF Order, Younger
  <2>5. Newest'
    BY <1>1, <1>3 DEF Order, Newest
  <2> QED
    BY <2>3, <2>4, <2>5 DEF Order
<1> QED
  BY <1>2, <1>3 DEF ReplayPop, PopDlqSome, PopDlqNone, PopDlqErr

\* RPUSH to the write queue by the replayer: the message is a replayed one.
LEMMA OrderReplayPublish ==
  ASSUME Custody, Order, ReplayPublish, UNCHANGED <<writerVars, published>>
  PROVE  Order'
<1>1. UNCHANGED <<dlq, cur, published, rows, replayed>> /\ rcur' = NoReplay
  BY DEF ReplayPublish, PublishOk, PublishErr, writerVars
<1>2. rcur # NoReplay /\ rcur \in Message /\ rcur.id \in replayed
  BY DEF Custody, TypeInv, TypeOK, ReplayTypeOK, Hands, ReplayPublish, Order, Accounted
<1>3. queue' = queue \/ queue' = Append(queue, rcur)
  BY DEF ReplayPublish, PublishOk, PublishErr
<1>4. \A n \in DOMAIN queue' :
        \/ queue'[n] = rcur /\ \A m \in DOMAIN queue : ~(n < m)
        \/ n \in DOMAIN queue /\ queue'[n] = queue[n]
  <2>1. queue \in Seq(Message)
    BY OrderTypes
  <2>2. \A m \in DOMAIN queue : ~(Len(queue) + 1 < m)
    BY <2>1
  <2> QED
    BY <1>2, <1>3, <2>1, <2>2, AppendFacts
<1>5. Younger'
  <2> SUFFICES ASSUME NEW n \in DOMAIN queue', queue'[n].id \notin replayed
               PROVE  /\ \A r \in replayed : r < queue'[n].id
                      /\ \A d \in DOMAIN dlq : dlq[d].message.id < queue'[n].id
                      /\ cur # NoMsg => cur.id < queue'[n].id
                      /\ \A k \in RowKinds, p \in Pools : rows[k][p] < queue'[n].id
                      /\ \A m \in DOMAIN queue' : m < n => queue'[m].id < queue'[n].id
    BY <1>1 DEF Younger
  <2>1. n \in DOMAIN queue /\ queue'[n] = queue[n]
    BY <1>2, <1>4
  <2>2. ASSUME NEW m \in DOMAIN queue', m < n PROVE queue'[m].id < queue'[n].id
    BY <1>4, <2>1, <2>2 DEF Order, Younger
  <2> QED
    BY <2>1, <2>2 DEF Order, Younger
<1> QED
  BY <1>1, <1>5 DEF Order, Accounted, Newest

\* Every step keeps the order.
LEMMA OrderInductive ==
  /\ Init => Order
  /\ Custody /\ Order /\ [Next]_vars => Order'
<1>1. Init => Order
  BY DEF Init, QueueInit, WriterInit, ReplayInit, Order, Accounted, Younger, Newest
<1>2. ASSUME Custody, Order, [Next]_vars PROVE Order'
  <2>1. ASSUME NEW k \in Traffic, NEW p \in Pools, Publish(k, p) PROVE Order'
    BY <1>2, <2>1, OrderPublish
  <2>2. CASE WriterStep /\ UNCHANGED <<replayVars, published>>
    <3>1. CASE CheckShutdown \/ Backoff \/ Wake
      BY <1>2, <2>2, <3>1
         DEF CheckShutdown, Backoff, Wake, queueVars, replayVars, Order, Accounted,
             Younger, Newest
    <3> QED
      BY <1>2, <2>2, <3>1, OrderConsume, OrderPersist, OrderPushDlq DEF WriterStep
  <2>3. CASE ReplayStep /\ UNCHANGED <<writerVars, published>>
    <3>1. CASE ReplayStart \/ ReplayDone \/ ReplayKilled
      BY <1>2, <2>3, <3>1
         DEF ReplayStart, ReplayDone, ReplayKilled, queueVars, writerVars, Order,
             Accounted, Younger, Newest
    <3> QED
      BY <1>2, <2>3, <3>1, OrderReplayPop, OrderReplayPublish
         DEF ReplayStep, ReplayRun
  <2>4. CASE LinkBreaks /\ UNCHANGED <<writerVars, replayVars, published>>
    BY <1>2, <2>4
       DEF LinkBreaks, writerVars, replayVars, Order, Accounted, Younger, Newest
  <2>5. CASE Shutdown \/ Crash \/ Restart
    BY <1>2, <2>5
       DEF Shutdown, Crash, Restart, queueVars, replayVars, Order, Accounted,
           Younger, Newest
  <2>6. CASE UNCHANGED vars
    BY <1>2, <2>6
       DEF vars, queueVars, writerVars, replayVars, Order, Accounted, Younger, Newest
  <2> QED
    BY <1>2, <2>1, <2>2, <2>3, <2>4, <2>5, <2>6 DEF Next
<1> QED
  BY <1>1, <1>2

\* A pool's row goes back to an older message only by replaying that message,
\* however publishes, retries, parkings, replays, crashes and restarts mix.
THEOREM OnlyReplayRegresses == Spec => RowsRegressOnlyByReplay
<1> DEFINE Step == \A k \in RowKinds, p \in Pools :
                     rows'[k][p] < rows[k][p] => rows'[k][p] \in replayed
<1>1. Init => Custody
  BY StatusInit
<1>2. Custody /\ Order /\ [Next]_vars => [Step]_vars
  <2> SUFFICES ASSUME Custody, Order, Next PROVE Step
    BY DEF vars
  <2>1. CASE PersistOk \/ PersistErr
    <3>1. cur # NoMsg /\ cur.id \in Nat
      BY <2>1, OrderTypes DEF PersistOk, PersistErr, Custody, TypeInv, Hands, IdTypes
    <3>2. rows' = rows \/ SinkWrite(cur)
      BY <2>1 DEF PersistOk, PersistErr
    <3>3. \A k \in RowKinds, p \in Pools : rows'[k][p] \in {rows[k][p], cur.id}
      BY <3>2, OrderTypes DEF SinkWrite, InsertPool, SetPoolTickData, RowKinds
    <3> SUFFICES ASSUME NEW k \in RowKinds, NEW p \in Pools, rows'[k][p] < rows[k][p]
                 PROVE  rows'[k][p] \in replayed
      OBVIOUS
    <3>4. rows[k][p] \in Nat /\ rows'[k][p] = cur.id
      BY <3>3, OrderTypes
    <3>5. ~(rows[k][p] <= cur.id)
      BY <3>1, <3>4
    <3> QED
      BY <3>1, <3>4, <3>5 DEF Order, Newest
  <2>2. CASE UNCHANGED rows
    BY <2>2, OrderTypes
  <2>3. PersistOk \/ PersistErr \/ UNCHANGED rows
    BY DEF Next, Publish, WriterStep, CheckShutdown, Consume, Backoff, PushDlq, Wake,
           writerVars, Shutdown, Crash, Restart
  <2> QED
    BY <2>1, <2>2, <2>3
<1> QED
  BY <1>1, <1>2, CustodyInductive, OrderInductive, PTL DEF Spec, RowsRegressOnlyByReplay
=============================================================================
