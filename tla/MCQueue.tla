------------------------------ MODULE MCQueue ------------------------------
(* Queue for TLC. Threads of a kind behave alike, and so may be exchanged  *)
(* in the runs that check no liveness.                                     *)
EXTENDS Queue, TLC

Interchangeable == Permutations(Pushers) \cup Permutations(Poppers)

=============================================================================
