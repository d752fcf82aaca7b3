------------------------------ MODULE Lifecycle ------------------------------
(***************************************************************************)
(* What the grievance service promises: a register of cases to which each  *)
(* command does one thing at once or nothing at all. There are no          *)
(* transactions here, no locks and no retries. Commands.tla is shown to    *)
(* implement it.                                                           *)
(*                                                                         *)
(* The guards are the ones the commands keep under concurrency. They are   *)
(* the state machine, the roles, ownership and the track. Two conditions   *)
(* of the policy are absent because a command evaluates them on the row it *)
(* read first and does not hold them until it commits: that a case is      *)
(* still the officer's own, and that it is not yet withdrawn when somebody *)
(* comments on it.                                                         *)
(***************************************************************************)
EXTENDS Policy, Naturals, Sequences

CONSTANTS
  Users,          \* user ids
  UserRole,       \* the role of each
  CategoryTracks  \* the tracks a new case may be filed on

VARIABLE cases    \* the register: case number n is cases[n]

Opened(u, anonymous, track, appealOf) ==
  [submittedById |-> u, isAnonymous |-> anonymous, track |-> track, appealOfId |-> appealOf,
   status |-> "submitted", assignedToId |-> NULL,
   history |-> <<[type |-> "submitted", actorId |-> u, to |-> "submitted", ref |-> NULL,
                 visibility |-> "public"]>>]

Init == cases = <<>>

\* Case n gets one more entry in its history and a new status and assignee.
Record(n, u, type, to, ref, visibility, status, assignee) ==
  [cases EXCEPT ![n].status = status,
                ![n].assignedToId = assignee,
                ![n].history = Append(@, [type |-> type, actorId |-> u, to |-> to, ref |-> ref,
                                          visibility |-> visibility])]

\* The part of the policy that does not depend on what may change meanwhile.
Entitled(u, n) ==
  IF UserRole[u] = "student"
  THEN cases[n].submittedById = u
  ELSE canAccessTrack(UserRole[u], cases[n].track)

File(u, track, anonymous) ==
  /\ UserRole[u] = "student"
  /\ cases' = Append(cases, Opened(u, anonymous, track, NULL))

Decide(u, n, to) ==
  /\ to # "appealed"
  /\ Entitled(u, n)
  /\ UserRole[u] \in TRANSITION_ROLES[to]
  /\ canTransition(cases[n].status, to)
  /\ cases' = Record(n, u, "status_changed", to, NULL, "public", to, cases[n].assignedToId)

Assign(u, n, assignee) ==
  /\ Entitled(u, n)
  /\ UserRole[u] \in {"moderator", "institution_admin"}
  /\ UserRole[assignee] \in {"redressal_officer", "ombudsperson"}
  /\ cases' = Record(n, u, "assigned", assignee, NULL, "internal", cases[n].status, assignee)

\* An internal note is a remark by staff.
Note(u, n, type, visibility) ==
  /\ Entitled(u, n)
  /\ visibility = "internal" => type = "remark_added" /\ isStaff(UserRole[u])
  /\ cases' = Record(n, u, type, NULL, NULL, visibility, cases[n].status, cases[n].assignedToId)

\* The original moves to "appealed" and its appeal is opened, in one step.
Appeal(u, n) ==
  /\ UserRole[u] = "student"
  /\ Entitled(u, n)
  /\ canTransition(cases[n].status, "appealed")
  /\ cases' = Append(Record(n, u, "appealed", "appealed", Len(cases) + 1, "public",
                            "appealed", cases[n].assignedToId),
                     Opened(u, cases[n].isAnonymous, "sgrc", n))

Next ==
  \E u \in Users :
    \/ \E track \in CategoryTracks, anonymous \in BOOLEAN : File(u, track, anonymous)
    \/ \E n \in DOMAIN cases :
         \/ \E to \in Status : Decide(u, n, to)
         \/ \E assignee \in Users : Assign(u, n, assignee)
         \/ \E type \in {"remark_added", "attachment_added"}, visibility \in {"public", "internal"} :
              Note(u, n, type, visibility)
         \/ Appeal(u, n)

Spec == Init /\ [][Next]_cases

=============================================================================
