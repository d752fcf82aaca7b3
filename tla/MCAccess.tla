------------------------------ MODULE MCAccess ------------------------------
(***************************************************************************)
(* An administrator and one other account, from one address, two requests  *)
(* at a time.                                                              *)
(***************************************************************************)
EXTENDS Access, TLC

CONSTANTS admin, officer, address, r1, r2

MCKeys     == {admin, officer, address}
MCAccounts == {admin, officer}
MCLimit    == (admin :> 1) @@ (officer :> 1) @@ (address :> 2)

\* Many attempts, alone, together, and with a restart; many changes of accounts with few
\* logins, together, and with a restart.
MCBounds ==
  { [atOnce |-> 1, logins |-> 4, visits |-> 0, changes |-> 0, restarts |-> 0, time |-> 3],
    [atOnce |-> 2, logins |-> 3, visits |-> 0, changes |-> 0, restarts |-> 1, time |-> 2],
    [atOnce |-> 2, logins |-> 3, visits |-> 3, changes |-> 2, restarts |-> 0, time |-> 1],
    [atOnce |-> 2, logins |-> 2, visits |-> 3, changes |-> 2, restarts |-> 1, time |-> 1] }

Symmetry == Permutations(Requests)
=============================================================================
