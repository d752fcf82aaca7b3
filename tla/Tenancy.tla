------------------------------ MODULE Tenancy ------------------------------
(***************************************************************************)
(* The one way to the data of a tenant (src/src/db/client.ts) and the      *)
(* policies behind it (drizzle/0001_rls.sql). Connections are pooled: a    *)
(* request leaves its connection to the next one, and with it whatever it  *)
(* has set on it.                                                          *)
(***************************************************************************)
EXTENDS Naturals, FiniteSets

CONSTANTS
  NULL,
  Institutions,
  Requests,      \* requests that may be going on
  Connections    \* of the pool that connects as sincp_app

ASSUME TenancyAssumption == NULL \notin Institutions \cup Connections

VARIABLES
  setting,   \* app.institution_id, per connection
  held       \* the connection of each request, or NULL

tenancyVars == <<setting, held>>

TenancyInit ==
  /\ setting = [c \in Connections |-> NULL]
  /\ held = [r \in Requests |-> NULL]

Free == {c \in Connections : \A r \in Requests : held[r] # c}

\* A transaction on a free connection; its first statement is set_config.
withTenant(r, institution) ==
  /\ held[r] = NULL
  /\ \E c \in Free :
       /\ held' = [held EXCEPT ![r] = c]
       /\ setting' = [setting EXCEPT ![c] = institution]

\* Mutant: set_config(..., false) outlives the transaction.
AfterCommit_Session(value) == value

\* What a commit leaves of a setting that was local to its transaction.
AfterCommit(value) == NULL

Commit(r) ==
  /\ setting' = [setting EXCEPT ![held[r]] = AfterCommit(@)]
  /\ held' = [held EXCEPT ![r] = NULL]

\* A throw rolls set_config back with the rest, and a lost connection is replaced.
Abort(r) ==
  /\ setting' = [setting EXCEPT ![held[r]] = NULL]
  /\ held' = [held EXCEPT ![r] = NULL]

\* The policy of every table of a tenant, for reading and for writing. No setting gives
\* the role of the application what only sincp_admin has.
Visible(c, row) == setting[c] # NULL /\ row.institution = setting[c]

=============================================================================
