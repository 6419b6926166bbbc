--------------------------------- MODULE Loops ---------------------------------
(***************************************************************************)
(* Loops over a list, as recursive functions of the number of turns.  What *)
(* they compute can be proved by induction over the turns (NumberSets).    *)
(***************************************************************************)
EXTENDS Integers, Sequences, SequencesExt

\* The value of the accumulator after the last turn, computed once per turn.
Fold(op(_, _), base, seq) ==
    LET acc[n \in 0..Len(seq)] ==
          IF n = 0 THEN base
          ELSE CHOOSE r \in {op(a, seq[n]) : a \in {acc[n - 1]}} : TRUE
    IN acc[Len(seq)]

\* The sum of a list of numbers.
Total(seq) ==
    LET acc[n \in 0..Len(seq)] == IF n = 0 THEN 0 ELSE acc[n - 1] + seq[n]
    IN acc[Len(seq)]

\* The elements that are in a set, in order.
Filter(seq, set) ==
    LET acc[n \in 0..Len(seq)] ==
          IF n = 0 THEN <<>>
          ELSE IF seq[n] \in set THEN Append(acc[n - 1], seq[n]) ELSE acc[n - 1]
    IN acc[Len(seq)]

=============================================================================
