------------------------------- MODULE Lists -------------------------------
(***************************************************************************)
(* Array.prototype.filter, as the code uses it.                            *)
(*                                                                         *)
(* SelectSeq with a set for its test, and its recursion spelled out:       *)
(* the provers know nothing of SelectSeq, and can unfold this.             *)
(***************************************************************************)
EXTENDS Integers, Sequences

\* The elements of a list that are in S, in their order.
Keep(list, S) ==
  LET kept[i \in 0..Len(list)] ==
        IF i = 0 THEN <<>>
        ELSE IF list[i] \in S THEN Append(kept[i - 1], list[i]) ELSE kept[i - 1]
  IN  kept[Len(list)]
=============================================================================
