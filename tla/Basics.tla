------------------------------- MODULE Basics -------------------------------
(***************************************************************************)
(* What the modules about trips share: instants are minutes, a date is a   *)
(* number of days, and a list is filtered by a set.                        *)
(***************************************************************************)
EXTENDS Integers, SequencesExt

Minutes == 1440
NoTime == -1

localDate(time) == time \div Minutes

\* `filter`: the elements of s that are in S, in their order.
Only(s, S) ==
    FoldLeft(LAMBDA kept, e : IF e \in S THEN Append(kept, e) ELSE kept,
             <<>>, s)
=============================================================================
