------------------------------ MODULE ColdPath ------------------------------
(***************************************************************************)
(* The write path as a whole: publishers inside the daemon, the write      *)
(* queue and its dead-letter queue in Redis, the DatabaseWriter task, and  *)
(* the replay_dlq program an operator may run at any time.  The daemon can *)
(* be killed between any two steps; Redis and the databases survive it.    *)
(***************************************************************************)
EXTENDS DatabaseWriter, ReplayDlq, FiniteSets

CONSTANT Traffic      \* the kinds of message published

ASSUME TrafficAssumption == Traffic \subseteq Kinds

VARIABLE published    \* number of messages published so far

vars == <<queueVars, writerVars, replayVars, published>>

Init == QueueInit /\ WriterInit /\ ReplayInit /\ published = 0

-----------------------------------------------------------------------------
\* A worker of the daemon publishes a message; a publish that fails leaves no
\* trace here (DynamicWorkers models what the worker does then).
Publish(k, p) ==
  /\ published < MaxMsgs
  /\ wpc # "dead"
  /\ PublishOk("daemon", [id |-> published + 1, kind |-> k, pool |-> p])
  /\ published' = published + 1
  /\ UNCHANGED <<writerVars, replayVars>>

\* Ctrl-C: the watch channel is set to true.
Shutdown ==
  /\ wpc # "dead"
  /\ ~shutdown
  /\ shutdown' = TRUE
  /\ UNCHANGED <<queueVars, wpc, cur, attempts, applied, doubts, rows,
                 replayVars, published>>

\* The process is killed; what the writer had in hand is gone.
Crash ==
  /\ wpc \notin {"stopped", "dead"}
  /\ Fault
  /\ wpc' = "dead"
  /\ cur' = NoMsg
  /\ attempts' = 0
  /\ UNCHANGED <<queue, dlq, link, shutdown, applied, doubts, rows,
                 replayVars, published>>

\* A new process, with a new connection, after a crash or a clean stop.
Restart ==
  /\ wpc \in {"stopped", "dead"}
  /\ wpc' = "top"
  /\ shutdown' = FALSE
  /\ link' = "up"
  /\ UNCHANGED <<queue, dlq, faults, cur, attempts, applied, doubts, rows,
                 replayVars, published>>

Next ==
  \/ \E k \in Traffic, p \in Pools : Publish(k, p)
  \/ WriterStep /\ UNCHANGED <<replayVars, published>>
  \/ ReplayStep /\ UNCHANGED <<writerVars, published>>
  \/ LinkBreaks /\ UNCHANGED <<writerVars, replayVars, published>>
  \/ Shutdown
  \/ Crash
  \/ Restart

Spec == Init /\ [][Next]_vars

\* The writer task is scheduled by tokio, the replayer by the OS; restarting a
\* crashed daemon is the container's restart policy.  Publishers, operators,
\* shutdowns and faults are under no obligation.
Fairness ==
  /\ WF_vars(WriterStep /\ UNCHANGED <<replayVars, published>>)
  /\ WF_vars(ReplayRun /\ UNCHANGED <<writerVars, published>>)
  /\ WF_vars(wpc = "dead" /\ Restart)

FairSpec == Spec /\ Fairness

-----------------------------------------------------------------------------
\* Where message i is.
InQueue(i)  == \E n \in DOMAIN queue : queue[n].id = i
InDlq(i)    == \E n \in DOMAIN dlq : dlq[n].message.id = i
InWriter(i) == cur # NoMsg /\ cur.id = i
InReplay(i) == rcur # NoReplay /\ rcur.id = i

\* Message i is still to come or still somewhere.
Held(i) ==
  i > published \/ InQueue(i) \/ InDlq(i) \/ InWriter(i) \/ InReplay(i)

Status(i) ==
  CASE i > published                             -> "unsent"
    [] InQueue(i) \/ InWriter(i) \/ InReplay(i)  -> "pending"
    [] InDlq(i)                                  -> "parked"
    [] OTHER -> IF applied[i] > 0 THEN "stored" ELSE "lost"

TypeOK ==
  /\ QueueTypeOK
  /\ WriterTypeOK
  /\ ReplayTypeOK
  /\ published \in 0..MaxMsgs

\* The program counters tell who holds a message, and a try is left while the
\* retry loop runs.
Hands ==
  /\ cur # NoMsg <=> wpc \in {"persist", "backoff", "push"}
  /\ wpc \in {"persist", "backoff"} => attempts < MaxAttempts
  /\ rcur # NoReplay <=> rpc = "publish"

TypeInv == TypeOK /\ Hands

\* A message is in one place only: it is never twice in the lists, nor in a
\* list while the writer or the replayer holds it, whichever of LPOP, RPUSH,
\* retry, replay and restart ran last.
SingleCustody ==
  /\ \A m, n \in DOMAIN queue : queue[m].id = queue[n].id => m = n
  /\ \A m, n \in DOMAIN dlq : dlq[m].message.id = dlq[n].message.id => m = n
  /\ \A m \in DOMAIN queue, n \in DOMAIN dlq : queue[m].id # dlq[n].message.id
  /\ cur # NoMsg => ~InQueue(cur.id) /\ ~InDlq(cur.id) /\ ~InReplay(cur.id)
  /\ rcur # NoReplay => ~InQueue(rcur.id) /\ ~InDlq(rcur.id)

\* Only messages already published are anywhere.
KnownIds ==
  /\ \A n \in DOMAIN queue : queue[n].id <= published
  /\ \A n \in DOMAIN dlq : dlq[n].message.id <= published
  /\ cur # NoMsg => cur.id <= published
  /\ rcur # NoReplay => rcur.id <= published

Custody == TypeInv /\ KnownIds /\ SingleCustody

\* A message is written to its database at most once more than the number of
\* its writes that took effect but reported an error: neither the retry loop
\* nor a replay repeats an acknowledged write (swap_events has no key that
\* would absorb a duplicate).
AtMostOncePlusDoubt ==
  \A i \in MsgIds : applied[i] <= doubts[i] + 1

\* Of a message that is still somewhere, only unacknowledged writes took
\* effect; of one not yet published, none.
HeldUnwritten == \A i \in MsgIds : Held(i) => applied[i] <= doubts[i]

\* Every lost message has a fault of its own: one broken connection or one
\* crash costs at most the message in hand.
LossBound ==
  Cardinality({i \in MsgIds : Status(i) = "lost"}) <= faults

\* A pool's row goes back to an older message only by replaying that message:
\* the queue is FIFO and has one consumer, so first deliveries are in order.
RowsRegressOnlyByReplay ==
  [][\A k \in RowKinds, p \in Pools :
        rows'[k][p] < rows[k][p] => rows'[k][p] \in replayed]_vars

\* The write path implements the ledger.
Promise == INSTANCE Ledger WITH
             Ids <- MsgIds, status <- [i \in MsgIds |-> Status(i)]

KeepsPromise == Promise!Spec

\* While the daemon stays up with a working queue connection, every message in
\* the queue is eventually stored or parked, whether or not the databases work.
QueueDrains ==
  \A i \in MsgIds :
    (<>[](link = "up" /\ ~shutdown)) => [](InQueue(i) => <>~InQueue(i))

\* The writer obeys a shutdown, also in the middle of its retries.
ShutdownStopsWriter == shutdown ~> wpc = "stopped" \/ ~shutdown

\* A run of replay_dlq ends, even if the writer parks again what it replays.
ReplayEnds == rpc # "idle" ~> rpc = "idle"

\* ARCHITECTURE.md 178: "Terminal write failures go to a Redis DLQ after
\* retries".
TerminalFailureReachesDlq ==
  [][wpc = "push" /\ wpc' = "top" => Len(dlq') = Len(dlq) + 1]_vars
=============================================================================
