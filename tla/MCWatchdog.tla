----------------------------- MODULE MCWatchdog -----------------------------
(***************************************************************************)
(* Small instances of Watchdog.                                            *)
(***************************************************************************)
EXTENDS Watchdog

CONSTANTS r1, r2, c1, c2, officer, registrar, ombuds

MCUserRole ==
  [u \in Users |-> CASE u = officer -> "redressal_officer"
                     [] u = registrar -> "institution_admin"
                     [] u = ombuds -> "ombudsperson"]
MCAssignee == [g \in Cases |-> IF g = c1 THEN officer ELSE NULL]
Together   == [g \in Cases |-> 0]
General    == [g \in Cases |-> "sgrc"]
Icc        == [g \in Cases |-> "icc"]

=============================================================================
