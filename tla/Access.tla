------------------------------- MODULE Access -------------------------------
(***************************************************************************)
(* Who gets in: the login action (src/src/app/(auth)/login/actions.ts),    *)
(* server-side sessions (src/src/lib/auth/session.ts) and the user part of *)
(* administration (src/src/lib/admin/service.ts), on top of the limiter.   *)
(*                                                                         *)
(* A request is a sequence of short transactions with awaits between them: *)
(* what it read in one may have changed before the next.  Deactivation is  *)
(* two of them, the UPDATE of the account and the DELETE of its sessions.  *)
(***************************************************************************)
EXTENDS RateLimit

CONSTANTS
  Requests,     \* requests the server works on at the same time
  Accounts,     \* by email address, which is their key in the limiter
  Addresses,    \* IP addresses, keys of the limiter too
  Admin,        \* the account the installation starts with
  SESSION_TTL,  \* SESSION_TTL_MS, in ticks
  Bounds        \* bounds, of which a behaviour has one: requests at a time, logins, other
                \* requests, changes of accounts, restarts of the server, ticks of the clock

ASSUME AccessAssumption ==
  /\ Keys = Accounts \cup Addresses
  /\ Admin \in Accounts
  /\ SESSION_TTL \in Nat \ {0}
  /\ Bounds \subseteq [atOnce : Nat, logins : Nat, visits : Nat, changes : Nat, restarts : Nat,
                      time : 0 .. MaxTime]

Roles == {"student", "institution_admin"}
Steps == {"idle", "limit", "create", "kill", "acting", "revoke"}

VARIABLES
  role, isActive,  \* the row of each account; role is "none" before it is invited
  sessions,        \* rows of sessions
  pc,              \* where each request is
  account,         \* the account a request is about
  due, within,     \* a login's hits still to make, and whether all were allowed so far
  session,         \* the session a request came with, 0 if none
  actor,           \* who a request acts for: what getSession returned
  issued,          \* how many sessions were ever created: a token is not used twice
  bounds,          \* the bounds of this behaviour
  spent,           \* what it has used of them
  deactivations,   \* ghost: how often each account was deactivated
  target,          \* ghost: the deactivation a request revokes the sessions of
  revoked          \* ghost: the last deactivation of each account whose DELETE is done

accountVars == <<role, isActive, deactivations>>
requestVars == <<pc, account, due, within, session, actor, target>>
vars == <<limiterVars, accountVars, requestVars, sessions, issued, revoked, bounds, spent>>

NoActor   == [id |-> Admin, role |-> "none", since |-> 0]

\* The accounts of the installation when the server starts: the administrator's, and
\* some that were invited earlier.
Init ==
  /\ LimiterInit
  /\ \E invited \in SUBSET (Accounts \ {Admin}) :
       /\ role = [u \in Accounts |-> IF u = Admin THEN "institution_admin"
                                     ELSE IF u \in invited THEN "student" ELSE "none"]
       /\ isActive = [u \in Accounts |-> u \in invited \cup {Admin}]
  /\ sessions = {}
  /\ pc = [r \in Requests |-> "idle"]
  /\ account = [r \in Requests |-> Admin]
  /\ due = [r \in Requests |-> {}]
  /\ within = [r \in Requests |-> TRUE]
  /\ session = [r \in Requests |-> 0]
  /\ actor = [r \in Requests |-> NoActor]
  /\ issued = 0
  /\ bounds \in Bounds
  /\ spent = [logins |-> 0, visits |-> 0, changes |-> 0, restarts |-> 0]
  /\ deactivations = [u \in Accounts |-> 0]
  /\ target = [r \in Requests |-> 0]
  /\ revoked = [u \in Accounts |-> 0]

\* Request r ends: it forgets what it read.
Finish(r) ==
  /\ pc' = [pc EXCEPT ![r] = "idle"]
  /\ account' = [account EXCEPT ![r] = Admin]
  /\ due' = [due EXCEPT ![r] = {}]
  /\ within' = [within EXCEPT ![r] = TRUE]
  /\ session' = [session EXCEPT ![r] = 0]
  /\ actor' = [actor EXCEPT ![r] = NoActor]
  /\ target' = [target EXCEPT ![r] = 0]

\* Request r begins.
Begin(r) ==
  /\ pc[r] = "idle"
  /\ Cardinality({x \in Requests : pc[x] # "idle"}) < bounds.atOnce

Spend(what) ==
  /\ spent[what] < bounds[what]
  /\ spent' = [spent EXCEPT ![what] = @ + 1]
  /\ UNCHANGED bounds

Costless == UNCHANGED <<bounds, spent>>

Goto(r, step) ==
  /\ pc' = [pc EXCEPT ![r] = step]
  /\ UNCHANGED <<account, due, within, session, actor, target>>

-----------------------------------------------------------------------------
(* login *)

Login(r, address, u) ==
  /\ Begin(r)
  /\ Spend("logins")
  /\ pc' = [pc EXCEPT ![r] = "limit"]
  /\ account' = [account EXCEPT ![r] = u]
  /\ due' = [due EXCEPT ![r] = {address, u}]
  /\ UNCHANGED <<limiterVars, issued, accountVars, sessions, revoked, within, session, actor, target>>

\* The two counters are hit side by side, and both whatever the other says.
HitOne(r, k) ==
  /\ pc[r] = "limit"
  /\ k \in due[r]
  /\ Hit(k)
  /\ due' = [due EXCEPT ![r] = @ \ {k}]
  /\ within' = [within EXCEPT ![r] = @ /\ Allows(k)]
  /\ Costless
  /\ UNCHANGED <<accountVars, issued, sessions, revoked, pc, account, session, actor, target>>

\* Within both budgets, an active account is found, and the password is right; or the
\* login fails, for one reason or another, with one message. Hashes may be upgraded here.
LookUp(r) ==
  /\ pc[r] = "limit"
  /\ due[r] = {}
  /\ \/ within[r] /\ isActive[account[r]] /\ Goto(r, "create")
     \/ Finish(r)
  /\ Costless
  /\ UNCHANGED <<limiterVars, issued, accountVars, sessions, revoked>>

\* Nothing is asked again about the account that was looked up earlier.
CreateSession(r) ==
  /\ pc[r] = "create"
  /\ issued' = issued + 1
  /\ sessions' = sessions \cup
       {[id |-> issued', user |-> account[r], expiresAt |-> now + SESSION_TTL,
         since |-> deactivations[account[r]]]}
  /\ Finish(r)
  /\ Costless
  /\ UNCHANGED <<limiterVars, accountVars, revoked>>

-----------------------------------------------------------------------------
(* requests with a session *)

\* A session counts whatever became of its account since.
GetSession_AnyAccount(r, s) ==
  /\ Begin(r)
  /\ Spend("visits")
  /\ s.expiresAt > now
  /\ session' = [session EXCEPT ![r] = s.id]
  /\ pc' = [pc EXCEPT ![r] = "acting"]
  /\ actor' = [actor EXCEPT ![r] =
       [id |-> s.user, role |-> role[s.user], since |-> deactivations[s.user]]]
  /\ UNCHANGED <<limiterVars, issued, accountVars, sessions, revoked, account, due, within, target>>

\* One query joins the session, unexpired, with the account as it is now.
GetSession(r, s) ==
  /\ Begin(r)
  /\ Spend("visits")
  /\ s.expiresAt > now
  /\ session' = [session EXCEPT ![r] = s.id]
  /\ IF isActive[s.user]
       THEN /\ pc' = [pc EXCEPT ![r] = "acting"]
            /\ actor' = [actor EXCEPT ![r] =
                 [id |-> s.user, role |-> role[s.user], since |-> deactivations[s.user]]]
       ELSE pc' = [pc EXCEPT ![r] = "kill"] /\ UNCHANGED actor
  /\ UNCHANGED <<limiterVars, issued, accountVars, sessions, revoked, account, due, within, target>>

DestroySessionByHash(id) == sessions' = {s \in sessions : s.id # id}

\* The session of a deactivated account goes when it is shown.
KillSession(r) ==
  /\ pc[r] = "kill"
  /\ DestroySessionByHash(session[r])
  /\ Finish(r)
  /\ Costless
  /\ UNCHANGED <<limiterVars, issued, accountVars, revoked>>

LogOut(r) ==
  /\ pc[r] = "acting"
  /\ DestroySessionByHash(session[r])
  /\ Finish(r)
  /\ Costless
  /\ UNCHANGED <<limiterVars, issued, accountVars, revoked>>

\* Any other request: a page, or a command of somebody.
Respond(r) ==
  /\ pc[r] = "acting"
  /\ Finish(r)
  /\ Costless
  /\ UNCHANGED <<limiterVars, issued, accountVars, sessions, revoked>>

-----------------------------------------------------------------------------
(* administration of accounts *)

\* The role is the one getSession read.
RequireInstitutionAdmin(r) ==
  /\ pc[r] = "acting"
  /\ actor[r].role = "institution_admin"

\* A taken address is refused by the unique index.
InviteUser(r, u, newRole) ==
  /\ RequireInstitutionAdmin(r)
  /\ role[u] = "none"
  /\ Spend("changes")
  /\ role' = [role EXCEPT ![u] = newRole]
  /\ isActive' = [isActive EXCEPT ![u] = TRUE]
  /\ Finish(r)
  /\ UNCHANGED <<limiterVars, issued, sessions, revoked, deactivations>>

SetUserRole(r, u, newRole) ==
  /\ RequireInstitutionAdmin(r)
  /\ role[u] # "none"
  /\ Spend("changes")
  /\ role' = [role EXCEPT ![u] = newRole]
  /\ Finish(r)
  /\ UNCHANGED <<limiterVars, issued, sessions, revoked, isActive, deactivations>>

Reactivate(r, u) ==
  /\ RequireInstitutionAdmin(r)
  /\ role[u] # "none"
  /\ Spend("changes")
  /\ isActive' = [isActive EXCEPT ![u] = TRUE]
  /\ Finish(r)
  /\ UNCHANGED <<limiterVars, issued, sessions, revoked, role, deactivations>>

\* The account's transaction commits; the sessions are a transaction of their own.
Deactivate(r, u) ==
  /\ RequireInstitutionAdmin(r)
  /\ role[u] # "none"
  /\ Spend("changes")
  /\ isActive' = [isActive EXCEPT ![u] = FALSE]
  /\ deactivations' = [deactivations EXCEPT ![u] = @ + 1]
  /\ pc' = [pc EXCEPT ![r] = "revoke"]
  /\ account' = [account EXCEPT ![r] = u]
  /\ target' = [target EXCEPT ![r] = deactivations'[u]]
  /\ UNCHANGED <<limiterVars, issued, sessions, revoked, role, due, within, session, actor>>

DestroyAllSessionsFor(r) ==
  /\ pc[r] = "revoke"
  /\ sessions' = {s \in sessions : s.user # account[r]}
  /\ revoked' = [revoked EXCEPT ![account[r]] = IF target[r] > @ THEN target[r] ELSE @]
  /\ Finish(r)
  /\ Costless
  /\ UNCHANGED <<limiterVars, issued, accountVars>>

-----------------------------------------------------------------------------

\* The server stops and starts again: its requests are gone, and so is the Map.
Restart ==
  /\ Spend("restarts")
  /\ LoseStore
  /\ pc' = [r \in Requests |-> "idle"]
  /\ account' = [r \in Requests |-> Admin]
  /\ due' = [r \in Requests |-> {}]
  /\ within' = [r \in Requests |-> TRUE]
  /\ session' = [r \in Requests |-> 0]
  /\ actor' = [r \in Requests |-> NoActor]
  /\ target' = [r \in Requests |-> 0]
  /\ UNCHANGED <<accountVars, issued, sessions, revoked>>

TimePasses ==
  /\ now < bounds.time
  /\ Tick
  /\ Costless
  /\ UNCHANGED <<accountVars, issued, requestVars, sessions, revoked>>

Step(r) ==
  \/ \E a \in Addresses, u \in Accounts : Login(r, a, u)
  \/ \E k \in Keys : HitOne(r, k)
  \/ LookUp(r) \/ CreateSession(r)
  \/ \E s \in sessions : GetSession(r, s)
  \/ KillSession(r) \/ LogOut(r) \/ Respond(r)
  \/ \E u \in Accounts :
       \/ \E newRole \in Roles : InviteUser(r, u, newRole) \/ SetUserRole(r, u, newRole)
       \/ Reactivate(r, u) \/ Deactivate(r, u)
  \/ DestroyAllSessionsFor(r)

Next == (\E r \in Requests : Step(r)) \/ Restart \/ TimePasses

Spec == Init /\ [][Next]_vars

-----------------------------------------------------------------------------

\* The values of the state of logins, sessions and accounts.
TypeOK ==
  /\ LimiterTypeOK
  /\ role \in [Accounts -> Roles \cup {"none"}]
  /\ isActive \in [Accounts -> BOOLEAN]
  /\ \A s \in sessions : s.id \in 1 .. issued /\ role[s.user] # "none"
  /\ pc \in [Requests -> Steps]
  /\ \A r \in Requests :
       /\ due[r] \subseteq Keys
       /\ pc[r] \in {"kill", "acting"} => session[r] \in 1 .. issued
       /\ pc[r] = "acting" => actor[r].role \in Roles
       /\ pc[r] # "revoke" => target[r] = 0
  /\ \A s, t \in sessions : s.id = t.id => s = t

\* No session from before a deactivation is left once its DELETE is done, whatever
\* logins were under way and however the server was restarted.
OldSessionsAreGone ==
  \A s \in sessions : s.since >= revoked[s.user]

\* Whoever acts for an account that is inactive began before it was deactivated: a
\* request that starts later is refused, with an old session or with one that a login
\* under way has created since.
NobodyActsAfterwards ==
  \A r \in Requests :
    pc[r] = "acting" /\ ~isActive[actor[r].id] => actor[r].since < deactivations[actor[r].id]

\* "Disable this officer's access now" means now (session.ts:4-7, service.ts:132-135),
\* although the account, its sessions and the requests under way change one by one.
DeactivationTakesHold == OldSessionsAreGone /\ NobodyActsAfterwards
=============================================================================
