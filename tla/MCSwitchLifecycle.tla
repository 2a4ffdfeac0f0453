------------------------- MODULE MCSwitchLifecycle -------------------------
(* SwitchLifecycle for TLC.                                                 *)
EXTENDS SwitchPromises, TLC

\* Request slots and cron passes are interchangeable.
Symmetry == Permutations(Request) \cup Permutations(Sweeper)
=============================================================================
