-------------------------------- MODULE Reads --------------------------------
(***************************************************************************)
(* The read side: what each surface makes of a register of grievances for  *)
(* one viewer. The queries are those of queries.ts, the pages those of     *)
(* app/(staff), app/(student) and app/(public)/status, and the download is *)
(* api/attachments/[id].                                                   *)
(*                                                                         *)
(* A register is a function from numbers to rows, and a trail a sequence   *)
(* of entries [type, actorId, to, ref, visibility]. Text, paging and the   *)
(* order of lists are left out; the order of the queue is in Reports.      *)
(***************************************************************************)
EXTENDS Policy, Sequences, SequencesExt

\* Mutant: the identity is withheld from the moderator alone.
toActorView_Moderator(actor, g) ==
  IF g.isAnonymous /\ actor.role = "moderator" THEN [g EXCEPT !.submittedById = NULL] ELSE g

\* A row as it is handed to a viewer: an anonymous filer is withheld from staff.
toActorView(actor, g) ==
  IF g.isAnonymous /\ isStaff(actor.role) THEN [g EXCEPT !.submittedById = NULL] ELSE g

Masked(actor, rows, S) == [n \in S |-> toActorView(actor, rows[n])]

-----------------------------------------------------------------------------
(* Lists. *)

listGrievances(actor, rows, statuses) ==
  Masked(actor, rows,
         {n \in DOMAIN rows : roleScopeCondition(actor, rows[n]) /\ rows[n].status \in statuses})

\* assignee is a user, "unassigned", or "anyone" for no filter.
listQueue(actor, rows, statuses, assignee) ==
  Masked(actor, rows,
         {n \in DOMAIN rows :
            /\ roleScopeCondition(actor, rows[n])
            /\ rows[n].status \in (IF statuses = {} THEN {s \in Status : isOpen(s)} ELSE statuses)
            /\ CASE assignee = "anyone" -> TRUE
                 [] assignee = "unassigned" -> rows[n].assignedToId = NULL
                 [] OTHER -> rows[n].assignedToId = assignee})

\* The two aggregates scope by track alone: the rows the clusters on the queue page
\* are made of, and the rows the compliance report counts.
detectPatterns(actor, rows) ==
  IF isStaff(actor.role)
  THEN {n \in DOMAIN rows : /\ rows[n].track \in accessibleTracks(actor.role)
                            /\ rows[n].status \notin {"closed", "rejected", "withdrawn"}}
  ELSE {}

complianceSnapshot(actor, rows) ==
  IF actor.role \in {"institution_admin", "moderator"}
  THEN {n \in DOMAIN rows : rows[n].track \in accessibleTracks(actor.role)}
  ELSE {}

-----------------------------------------------------------------------------
(* One grievance. *)

IsPublic(e) == e.visibility = "public"

\* The public entries of a trail in their order: the one with k - 1 public ones before it
\* is the k-th.
PublicPlaces(trail) == {i \in DOMAIN trail : IsPublic(trail[i])}

Before(places, i) == Cardinality({j \in places : j < i})

PublicOnly(trail) ==
  LET places == PublicPlaces(trail)
  IN [k \in 1 .. Cardinality(places) |-> trail[CHOOSE i \in places : Before(places, i) = k - 1]]

visibleEvents(actor, g, trail) ==
  IF canViewInternalRemarks(actor, g) THEN trail ELSE PublicOnly(trail)

\* Whose name the trail shows beside an entry; NULL leaves only the role.
ActorName(actor, g, e) ==
  IF g.isAnonymous /\ isStaff(actor.role) /\ e.actorId = g.submittedById THEN NULL ELSE e.actorId

\* An entry with that name. It keeps the id of its actor, which no page prints.
Named(e, name) ==
  [type |-> e.type, actorId |-> e.actorId, to |-> e.to, ref |-> e.ref,
   visibility |-> e.visibility, actorName |-> name]

\* The trail of getGrievanceDetail, of a row read before.
Trail(actor, g, trail) ==
  LET shown == visibleEvents(actor, g, trail)
  IN [i \in DOMAIN shown |-> Named(shown[i], ActorName(actor, g, shown[i]))]

\* The case page: the buttons are the moves the policy grants, the reassignment form
\* and the remark form, which is always there.
CaseActions(actor, g) ==
  {to \in TRANSITIONS[g.status] : canSetStatus(actor, g, to)}
    \cup (IF canAssign(actor, g) THEN {"assign"} ELSE {}) \cup {"remark"}

\* The bulk form of the queue page offers the same four moves to every staff role.
BULK_STATUSES == {"under_review", "in_progress", "resolved", "rejected"}

\* The student's page: acceptance, appeal and withdrawal, where the state machine has
\* them; windowOpen is the appeal window, which only the page observes.
StudentActions(g, windowOpen) ==
  TRANSITIONS[g.status] \cap ({"closed", "withdrawn"} \cup (IF windowOpen THEN {"appealed"} ELSE {}))

\* The appeal the student's page points at: that of the first entry of the trail that
\* names one, while the case is under appeal.
AppealShown(g, trail) ==
  IF g.status # "appealed" THEN {}
  ELSE {trail[i].ref : i \in {j \in DOMAIN trail : /\ trail[j].type = "appealed"
                                                   /\ \A k \in 1 .. j - 1 : trail[k].type # "appealed"}}

\* The public form: a reference and the filer's address, and no account.
lookupGrievanceStatus(filer, g, trail) ==
  IF g.submittedById = filer THEN <<g.status, PublicOnly(trail)>> ELSE NULL

\* A file is given to whoever may see the grievance it belongs to.
loadAuthorizedAttachment(actor, g) == canView(actor, g)

\* Which route group lets a role in: (staff) or (student).
requireStaffActor(actor)   == isStaff(actor.role)
requireStudentActor(actor) == actor.role = "student"

=============================================================================
