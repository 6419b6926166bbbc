--------------------------- MODULE DatabaseWriter ---------------------------
(***************************************************************************)
(* The DatabaseWriter task (src/src/workers/db_writer.rs): it pops one     *)
(* message at a time from the write queue, persists it to PostgreSQL or    *)
(* ClickHouse with up to max_attempts tries, and after the last failure    *)
(* pushes it to the dead-letter queue.                                     *)
(***************************************************************************)
EXTENDS MessageQueue

CONSTANTS MaxAttempts,  \* max_attempts of persist_with_retry (3 in the code)
          MaxMsgs,      \* bound: messages ever published
          MaxDoubts,    \* bound: sink writes that take effect but report an error
          NoMsg         \* "no message in hand"

ASSUME WriterAssumption ==
  /\ MaxAttempts \in Nat \ {0}
  /\ MaxMsgs \in Nat
  /\ MaxDoubts \in Nat
  /\ NoMsg \notin Message

MsgIds == 1..MaxMsgs

VARIABLES shutdown,   \* the watch channel's value
          wpc,        \* where the writer task is
          cur,        \* the message in hand, or NoMsg
          attempts,   \* failed tries of the message in hand
          applied,    \* applied[i]: times message i was written to its sink
          doubts,     \* doubts[i]: of those, the ones reported as an error
          rows        \* rows[k][p]: id of the message row (k, p) was written from

writerVars == <<shutdown, wpc, cur, attempts, applied, doubts, rows>>

RowKinds == {"PoolStateUpdate", "PoolTickDataUpdate"}

WriterTypeOK ==
  /\ shutdown \in BOOLEAN
  /\ wpc \in {"top", "consume", "persist", "backoff", "push", "sleep",
              "stopped", "dead"}
  /\ cur \in Message \cup {NoMsg}
  /\ attempts \in 0..MaxAttempts
  /\ applied \in [MsgIds -> Nat]
  /\ doubts \in [MsgIds -> 0..MaxDoubts]
  /\ rows \in [RowKinds -> [Pools -> Nat]]

WriterInit ==
  /\ shutdown = FALSE
  /\ wpc = "top"
  /\ cur = NoMsg
  /\ attempts = 0
  /\ applied = [i \in MsgIds |-> 0]
  /\ doubts = [i \in MsgIds |-> 0]
  /\ rows = [k \in RowKinds |-> [p \in Pools |-> 0]]

-----------------------------------------------------------------------------
\* Mutant: the loop does not test the flag.
CheckShutdown_Ignored ==
  /\ wpc = "top"
  /\ wpc' = "consume"
  /\ UNCHANGED <<queueVars, shutdown, cur, attempts, applied, doubts, rows>>

\* The loop's first test: if *shutdown_rx.borrow() { break; }
CheckShutdown ==
  /\ wpc = "top"
  /\ wpc' = IF shutdown THEN "stopped" ELSE "consume"
  /\ UNCHANGED <<queueVars, shutdown, cur, attempts, applied, doubts, rows>>

Consume ==
  /\ wpc = "consume"
  /\ \/ /\ ConsumeSome
        /\ cur' = Head(queue)
        /\ attempts' = 0
        /\ wpc' = "persist"
     \/ /\ ConsumeNone \/ ConsumeErr
        /\ wpc' = "sleep"
        /\ UNCHANGED <<cur, attempts>>
  /\ UNCHANGED <<shutdown, applied, doubts, rows>>

\* insert_pool overwrites the pool's row, whatever it holds: there is no
\* comparison with what is there.
InsertPool(m) == rows' = [rows EXCEPT !["PoolStateUpdate"][m.pool] = m.id]

\* So does set_pool_tick_data, in one transaction that deletes the old ticks.
SetPoolTickData(m) == rows' = [rows EXCEPT !["PoolTickDataUpdate"][m.pool] = m.id]

\* Mutant: swap events are acknowledged but not inserted.
SinkWrite_NoSwapEvents(m) ==
  /\ applied' = [applied EXCEPT ![m.id] = IF m.kind = "SwapEventLog" THEN @ ELSE @ + 1]
  /\ \/ m.kind = "PoolStateUpdate" /\ InsertPool(m)
     \/ m.kind = "PoolTickDataUpdate" /\ SetPoolTickData(m)
     \/ m.kind = "SwapEventLog" /\ UNCHANGED rows

\* The match on the message: each kind has its sink.  insert_swap_event appends
\* to a table without a key, so that applied is all there is to know of it.
SinkWrite(m) ==
  /\ applied' = [applied EXCEPT ![m.id] = @ + 1]
  /\ \/ m.kind = "PoolStateUpdate" /\ InsertPool(m)
     \/ m.kind = "PoolTickDataUpdate" /\ SetPoolTickData(m)
     \/ m.kind = "SwapEventLog" /\ UNCHANGED rows

\* Mutant: the retry loop does not return after a success.
PersistOk_NoReturn ==
  /\ wpc = "persist"
  /\ applied[cur.id] <= MaxAttempts
  /\ SinkWrite(cur)
  /\ UNCHANGED <<queueVars, shutdown, wpc, cur, attempts, doubts>>

\* persist() = Ok: return to the loop.
PersistOk ==
  /\ wpc = "persist"
  /\ SinkWrite(cur)
  /\ cur' = NoMsg
  /\ attempts' = 0
  /\ wpc' = "top"
  /\ UNCHANGED <<queueVars, shutdown, doubts>>

\* Mutant: `attempts > max_attempts', one try too many.
PersistErr_OneTryMore ==
  /\ wpc = "persist"
  /\ attempts' = attempts + 1
  /\ wpc' = IF attempts + 1 > MaxAttempts THEN "push" ELSE "backoff"
  /\ UNCHANGED <<queueVars, shutdown, cur, applied, doubts, rows>>

\* Mutant: attempts is reset in the loop, which never gives up.
PersistErr_Forever ==
  /\ wpc = "persist"
  /\ wpc' = "backoff"
  /\ UNCHANGED <<queueVars, shutdown, cur, attempts, applied, doubts, rows>>

\* persist() = Err: nothing was written, or the write took effect and only
\* its acknowledgement was lost.
PersistErr ==
  /\ wpc = "persist"
  /\ \/ UNCHANGED <<applied, doubts, rows>>
     \/ /\ doubts[cur.id] < MaxDoubts
        /\ doubts' = [doubts EXCEPT ![cur.id] = @ + 1]
        /\ SinkWrite(cur)
  /\ attempts' = attempts + 1
  /\ wpc' = IF attempts + 1 >= MaxAttempts THEN "push" ELSE "backoff"
  /\ UNCHANGED <<queueVars, shutdown, cur>>

Backoff ==
  /\ wpc = "backoff"
  /\ wpc' = "persist"
  /\ UNCHANGED <<queueVars, shutdown, cur, attempts, applied, doubts, rows>>

\* Mutant: the failed message is logged and dropped.
PushDlq_Dropped ==
  /\ wpc = "push"
  /\ cur' = NoMsg
  /\ attempts' = 0
  /\ wpc' = "top"
  /\ UNCHANGED <<queueVars, shutdown, applied, doubts, rows>>

\* Mutant: the failed message goes back to the write queue.
PushDlq_Requeued ==
  /\ wpc = "push"
  /\ PublishOk("daemon", cur)
  /\ cur' = NoMsg
  /\ attempts' = 0
  /\ wpc' = "top"
  /\ UNCHANGED <<shutdown, applied, doubts, rows>>

\* An error of push_dlq is logged and the message dropped.
PushDlq ==
  /\ wpc = "push"
  /\ LET entry == [message |-> cur, attempts |-> attempts]
     IN  PushDlqOk(entry) \/ PushDlqErr(entry)
  /\ cur' = NoMsg
  /\ attempts' = 0
  /\ wpc' = "top"
  /\ UNCHANGED <<shutdown, applied, doubts, rows>>

\* select! { sleep, shutdown_rx.changed() } after an empty or failed consume.
Wake ==
  /\ wpc = "sleep"
  /\ \/ wpc' = "top"
     \/ shutdown /\ wpc' = "stopped"
  /\ UNCHANGED <<queueVars, shutdown, cur, attempts, applied, doubts, rows>>

WriterStep ==
  \/ CheckShutdown \/ Consume \/ PersistOk \/ PersistErr
  \/ Backoff \/ PushDlq \/ Wake
=============================================================================
