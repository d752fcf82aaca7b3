------------------------------ MODULE MCOutbox ------------------------------
(***************************************************************************)
(* Small instances of Outbox.                                              *)
(***************************************************************************)
EXTENDS Outbox, TLC

CONSTANTS s1, s2

Symmetry == Permutations(Senders)

=============================================================================
