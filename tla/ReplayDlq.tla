----------------------------- MODULE ReplayDlq -----------------------------
(***************************************************************************)
(* The replay_dlq program (src/src/bin/replay_dlq.rs and                   *)
(* queue::replay_dlq): an operator runs it beside the daemon to move at    *)
(* most `limit' entries from the dead-letter queue back to the write       *)
(* queue.  It pops an entry and then publishes its message: two commands,  *)
(* and any error ends the program at once.                                 *)
(***************************************************************************)
EXTENDS MessageQueue

CONSTANTS ReplayLimit,  \* the program's limit argument
          NoReplay      \* "no message in hand"

ASSUME ReplayAssumption == ReplayLimit \in Nat /\ NoReplay \notin Message

VARIABLES rpc,       \* "idle" (not running), "pop" or "publish"
          rcur,      \* the message popped and not yet published, or NoReplay
          rleft,     \* iterations left of for _ in 0..limit
          replayed   \* ids of the messages popped for replay so far

replayVars == <<rpc, rcur, rleft, replayed>>

ReplayTypeOK ==
  /\ rpc \in {"idle", "pop", "publish"}
  /\ rcur \in Message \cup {NoReplay}
  /\ rleft \in 0..ReplayLimit
  /\ replayed \subseteq Nat

ReplayInit ==
  rpc = "idle" /\ rcur = NoReplay /\ rleft = 0 /\ replayed = {}

ReplayStart ==
  /\ rpc = "idle"
  /\ rpc' = "pop"
  /\ rleft' = ReplayLimit
  /\ UNCHANGED <<queueVars, rcur, replayed>>

\* Mutant: loop until the list is empty instead of `limit' times.
ReplayPop_Unlimited ==
  /\ rpc = "pop"
  /\ UNCHANGED rleft
  /\ \/ /\ PopDlqSome
        /\ rcur' = Head(dlq).message
        /\ replayed' = replayed \cup {Head(dlq).message.id}
        /\ rpc' = "publish"
     \/ /\ PopDlqNone \/ PopDlqErr
        /\ rpc' = "idle"
        /\ UNCHANGED <<rcur, replayed>>

ReplayPop ==
  /\ rpc = "pop"
  /\ rleft > 0
  /\ \/ /\ PopDlqSome
        /\ rcur' = Head(dlq).message
        /\ replayed' = replayed \cup {Head(dlq).message.id}
        /\ rpc' = "publish"
        /\ rleft' = rleft - 1
     \/ /\ PopDlqNone \/ PopDlqErr
        /\ rpc' = "idle"
        /\ rleft' = 0
        /\ UNCHANGED <<rcur, replayed>>

\* The loop ran limit times: return Ok(replayed).
ReplayDone ==
  /\ rpc = "pop"
  /\ rleft = 0
  /\ rpc' = "idle"
  /\ UNCHANGED <<queueVars, rcur, rleft, replayed>>

\* On an error of publish the `?' returns and the popped entry is dropped.
ReplayPublish ==
  /\ rpc = "publish"
  /\ rcur' = NoReplay
  /\ \/ PublishOk("replayer", rcur) /\ rpc' = "pop" /\ UNCHANGED rleft
     \/ PublishErr("replayer", rcur) /\ rpc' = "idle" /\ rleft' = 0
  /\ UNCHANGED replayed

\* The operator's process is killed.
ReplayKilled ==
  /\ rpc # "idle"
  /\ Fault
  /\ rpc' = "idle"
  /\ rcur' = NoReplay
  /\ rleft' = 0
  /\ UNCHANGED <<queue, dlq, link, replayed>>

ReplayRun == ReplayPop \/ ReplayDone \/ ReplayPublish

ReplayStep == ReplayStart \/ ReplayRun \/ ReplayKilled
=============================================================================
