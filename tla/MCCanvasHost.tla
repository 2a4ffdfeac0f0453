---------------------------- MODULE MCCanvasHost ----------------------------
(* A small instance of CanvasHost. *)
EXTENDS CanvasHost, TLC

limits  == {[min |-> -1, max |-> 1], [min |-> 0, max |-> 1]}
budgets == {[canvas |-> 2, panel |-> 0], [canvas |-> 1, panel |-> 1], [canvas |-> 0, panel |-> 5]}
fingers == Permutations(Pointer)
=============================================================================
