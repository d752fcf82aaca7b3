------------------------------ MODULE MCPortal ------------------------------
(* Portal for TLC: one institution and one of each role that reads it. *)
EXTENDS Portal

CONSTANTS student, moderator, officer, ombuds, icc

MCUserRole ==
  [u \in Users |->
     CASE u = student -> "student"
       [] u = moderator -> "moderator"
       [] u = officer -> "redressal_officer"
       [] u = ombuds -> "ombudsperson"
       [] u = icc -> "icc_member"]

Symmetry == Permutations(Keys)

=============================================================================
