------------------------------ MODULE MCCopier ------------------------------
(* Copier with two destinations. *)
EXTENDS Copier

CONSTANTS w1, w2

TwoDestinations == <<w1, w2>>

=============================================================================
