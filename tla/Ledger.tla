------------------------------- MODULE Ledger -------------------------------
(***************************************************************************)
(* What the write path promises of each message, without its lists,        *)
(* retries and processes.  A message is sent once; from then on it is      *)
(* pending, or parked for an operator, until it is stored.  It may be      *)
(* lost, but there are never more losses than faults, and nothing leaves   *)
(* "stored" or "lost" again.                                               *)
(***************************************************************************)
EXTENDS Integers, FiniteSets

CONSTANT Ids

VARIABLES status,   \* status[i] of message i
          faults    \* errors and crashes so far

Init ==
  /\ status = [i \in Ids |-> "unsent"]
  /\ faults = 0

Moves == { <<"unsent", "pending">>,   \* published
           <<"pending", "stored">>,   \* written to its database
           <<"pending", "parked">>,   \* out of tries
           <<"parked", "pending">>,   \* replayed
           <<"parked", "stored">>,    \* dropped, but an earlier try took effect
           <<"pending", "lost">>,
           <<"parked", "lost">> }

LostIds == {i \in Ids : status[i] = "lost"}

\* Message i changes its status, possibly because of a fault.
Step(i) ==
  /\ \E to \in {"pending", "parked", "stored", "lost"} :
        /\ <<status[i], to>> \in Moves
        /\ status' = [status EXCEPT ![i] = to]
  /\ faults' \in {faults, faults + 1}
  /\ Cardinality(LostIds') <= faults'

\* A fault that harms no message.
Harmless == faults' = faults + 1 /\ UNCHANGED status

Next == Harmless \/ \E i \in Ids : Step(i)

Spec == Init /\ [][Next]_<<status, faults>>
=============================================================================
