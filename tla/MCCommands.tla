----------------------------- MODULE MCCommands -----------------------------
(* Commands for TLC: one institution, and its people by name. *)
EXTENDS CommandsRefinement, TLC

CONSTANTS student, moderator, officer, officer2, ombuds, icc, registrar

MCUserRole ==
  [u \in Users |->
     CASE u = student -> "student"
       [] u = moderator -> "moderator"
       [] u \in {officer, officer2} -> "redressal_officer"
       [] u = ombuds -> "ombudsperson"
       [] u = icc -> "icc_member"
       [] u = registrar -> "institution_admin"]

Symmetry == Permutations(Tx)
=============================================================================
