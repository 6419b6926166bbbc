---------------------------- MODULE MessageQueue ----------------------------
(***************************************************************************)
(* The two Redis lists behind MessageQueueTrait (src/src/queue.rs): the    *)
(* write queue and its dead-letter queue.  publish and push_dlq are RPUSH, *)
(* consume and pop_dlq are LPOP.  Every operation is one Redis command and *)
(* has three outcomes: it runs and the caller learns so; it is refused; or *)
(* it runs and its reply is lost, so that the caller takes it for refused. *)
(*                                                                         *)
(* The daemon clones one MultiplexedConnection for all its queue calls and *)
(* never opens another (daemon.rs 140-151); once that connection is broken *)
(* every queue call of the daemon fails until the process is restarted.    *)
(* The replay_dlq program has a connection of its own.                     *)
(***************************************************************************)
EXTENDS Integers, Sequences

CONSTANTS Pools,      \* pool object ids
          MaxFaults   \* bound: Redis errors, broken links and crashes

ASSUME FaultAssumption == MaxFaults \in Nat

VARIABLES queue,      \* the write queue, oldest message first
          dlq,        \* the dead-letter queue, oldest entry first
          link,       \* the daemon's queue connection: "up" or "down"
          faults      \* faults so far

queueVars == <<queue, dlq, link, faults>>

Kinds == {"PoolStateUpdate", "PoolTickDataUpdate", "SwapEventLog"}

\* id numbers the messages in the order in which they were first published.
Message == [id : Nat \ {0}, kind : Kinds, pool : Pools]

\* failure_reason and failed_at_unix are dropped: nothing reads them.
DlqEntry == [message : Message, attempts : Nat]

QueueTypeOK ==
  /\ queue \in Seq(Message)
  /\ dlq \in Seq(DlqEntry)
  /\ link \in {"up", "down"}
  /\ faults \in 0..MaxFaults

QueueInit ==
  /\ queue = <<>>
  /\ dlq = <<>>
  /\ link = "up"
  /\ faults = 0

-----------------------------------------------------------------------------
Fault == faults < MaxFaults /\ faults' = faults + 1

\* c is the client that sends the command: "daemon" or "replayer".
Reaches(c) == c = "daemon" => link = "up"

Executed(c) == Reaches(c) /\ UNCHANGED <<faults, link>>

Rejected(c) ==
  /\ UNCHANGED link
  /\ \/ Reaches(c) /\ Fault
     \/ ~Reaches(c) /\ UNCHANGED faults

ReplyLost(c) == Reaches(c) /\ Fault /\ UNCHANGED link

PublishOk(c, m) ==
  Executed(c) /\ queue' = Append(queue, m) /\ UNCHANGED dlq

PublishErr(c, m) ==
  /\ UNCHANGED dlq
  /\ \/ Rejected(c) /\ UNCHANGED queue
     \/ ReplyLost(c) /\ queue' = Append(queue, m)

\* Some(Head(queue)) is returned.
ConsumeSome ==
  /\ Executed("daemon")
  /\ queue # <<>>
  /\ queue' = Tail(queue)
  /\ UNCHANGED dlq

ConsumeNone ==
  Executed("daemon") /\ queue = <<>> /\ UNCHANGED <<queue, dlq>>

ConsumeErr ==
  /\ UNCHANGED dlq
  /\ \/ Rejected("daemon") /\ UNCHANGED queue
     \/ ReplyLost("daemon") /\ queue # <<>> /\ queue' = Tail(queue)

PushDlqOk(entry) ==
  Executed("daemon") /\ dlq' = Append(dlq, entry) /\ UNCHANGED queue

PushDlqErr(entry) ==
  /\ UNCHANGED queue
  /\ \/ Rejected("daemon") /\ UNCHANGED dlq
     \/ ReplyLost("daemon") /\ dlq' = Append(dlq, entry)

\* Mutant: LINDEX instead of LPOP leaves the entry in the list.
PopDlqSome_Peek == Executed("replayer") /\ dlq # <<>> /\ UNCHANGED <<queue, dlq>>

\* Some(Head(dlq)) is returned.
PopDlqSome ==
  /\ Executed("replayer")
  /\ dlq # <<>>
  /\ dlq' = Tail(dlq)
  /\ UNCHANGED queue

PopDlqNone ==
  Executed("replayer") /\ dlq = <<>> /\ UNCHANGED <<queue, dlq>>

PopDlqErr ==
  /\ UNCHANGED queue
  /\ \/ Rejected("replayer") /\ UNCHANGED dlq
     \/ ReplyLost("replayer") /\ dlq # <<>> /\ dlq' = Tail(dlq)

\* The daemon's TCP connection to Redis breaks.
LinkBreaks ==
  link = "up" /\ link' = "down" /\ Fault /\ UNCHANGED <<queue, dlq>>
=============================================================================
