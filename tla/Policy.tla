------------------------------- MODULE Policy -------------------------------
(***************************************************************************)
(* Who may do what to a grievance: the pure authorisation rules of         *)
(* src/src/lib/grievance/policy.ts, and the SQL scope of _internal.ts that *)
(* repeats one of them.                                                    *)
(*                                                                         *)
(* An actor is a record [id, role, institutionId]; a grievance is any      *)
(* record with the fields institutionId, submittedById, track, status,     *)
(* assignedToId and appealOfId.                                            *)
(***************************************************************************)
CONSTANT NULL   \* the SQL null

Role == {"student", "moderator", "redressal_officer", "ombudsperson",
         "icc_member", "institution_admin"}

Status == {"submitted", "under_review", "in_progress", "resolved", "closed",
           "rejected", "withdrawn", "appealed"}

Track == {"sgrc", "icc", "anti_ragging"}

-----------------------------------------------------------------------------
(* The state machine. *)

TRANSITIONS ==
  [submitted    |-> {"under_review", "rejected", "withdrawn"},
   under_review |-> {"in_progress", "rejected", "withdrawn"},
   in_progress  |-> {"resolved", "withdrawn"},
   resolved     |-> {"closed", "appealed"},
   closed       |-> {"appealed"},
   appealed     |-> {"in_progress", "resolved"},
   rejected     |-> {"appealed"},
   withdrawn    |-> {}]

canTransition(from, to) == to \in TRANSITIONS[from]

TERMINAL_STATUSES == {"closed", "rejected", "withdrawn"}

isOpen(status) == status \notin TERMINAL_STATUSES

\* Mutant: the committee is left out of those who may resolve a case.
TRANSITION_ROLES_NoCommittee ==
  [submitted    |-> {},
   under_review |-> {"moderator", "redressal_officer", "institution_admin", "icc_member"},
   in_progress  |-> {"redressal_officer", "ombudsperson", "institution_admin", "icc_member"},
   resolved     |-> {"redressal_officer", "ombudsperson", "institution_admin"},
   rejected     |-> {"moderator", "redressal_officer", "institution_admin", "icc_member"},
   closed       |-> {"student"}, withdrawn |-> {"student"}, appealed |-> {"student"}]

\* No entry in the code means nobody: "submitted" is only ever inserted.
TRANSITION_ROLES ==
  [submitted    |-> {},
   under_review |-> {"moderator", "redressal_officer", "institution_admin", "icc_member"},
   in_progress  |-> {"redressal_officer", "ombudsperson", "institution_admin", "icc_member"},
   resolved     |-> {"redressal_officer", "ombudsperson", "institution_admin", "icc_member"},
   rejected     |-> {"moderator", "redressal_officer", "institution_admin", "icc_member"},
   closed       |-> {"student"},
   withdrawn    |-> {"student"},
   appealed     |-> {"student"}]

STAFF_ROLES == Role \ {"student"}

isStaff(role) == role \in STAFF_ROLES

-----------------------------------------------------------------------------
(* Visibility. *)

TRACK_ROLES ==
  [sgrc         |-> {"moderator", "redressal_officer", "ombudsperson", "institution_admin"},
   icc          |-> {"icc_member"},
   anti_ragging |-> {"moderator", "redressal_officer", "ombudsperson", "institution_admin"}]

canAccessTrack(role, track) == role = "student" \/ role \in TRACK_ROLES[track]

accessibleTracks(role) == {t \in Track : canAccessTrack(role, t)}

\* The per-role branch of canView, reached once the track gate is passed.
RoleSees(actor, g) ==
  \/ actor.role \in {"moderator", "institution_admin", "icc_member"}
  \/ actor.role = "redressal_officer" /\ g.assignedToId \in {actor.id, NULL}
  \/ /\ actor.role = "ombudsperson"
     /\ \/ g.status = "appealed"
        \/ g.appealOfId # NULL
        \/ g.assignedToId = actor.id

canView(actor, g) ==
  /\ actor.institutionId = g.institutionId
  /\ IF actor.role = "student"
     THEN g.submittedById = actor.id
     ELSE canAccessTrack(actor.role, g.track) /\ RoleSees(actor, g)

canComment(actor, g) == canView(actor, g) /\ g.status # "withdrawn"

canViewInternalRemarks(actor, g) == canView(actor, g) /\ isStaff(actor.role)

canSetStatus(actor, g, to) ==
  /\ canView(actor, g)
  /\ canTransition(g.status, to)
  /\ actor.role \in TRANSITION_ROLES[to]
  /\ actor.role = "student" => g.submittedById = actor.id

canAssign(actor, g) ==
  canView(actor, g) /\ actor.role \in {"moderator", "institution_admin"}

\* Mutant: an appeal is known by its status alone.
roleScopeCondition_NoAppealRow(actor, g) ==
  IF actor.role = "student"
  THEN g.submittedById = actor.id
  ELSE /\ g.track \in accessibleTracks(actor.role)
       /\ CASE actor.role = "redressal_officer" -> g.assignedToId \in {actor.id, NULL}
            [] actor.role = "ombudsperson" -> g.status = "appealed" \/ g.assignedToId = actor.id
            [] OTHER -> TRUE

\* The WHERE clause of every list query. Row-level security supplies the tenant
\* condition, so the caller's own rows are the only ones it is ever applied to.
roleScopeCondition(actor, g) ==
  IF actor.role = "student"
  THEN g.submittedById = actor.id
  ELSE /\ g.track \in accessibleTracks(actor.role)
       /\ CASE actor.role \in {"moderator", "institution_admin"} -> TRUE
            [] actor.role = "redressal_officer" ->
                 g.assignedToId = actor.id \/ g.assignedToId = NULL
            [] actor.role = "ombudsperson" ->
                 \/ g.status = "appealed"
                 \/ g.appealOfId # NULL
                 \/ g.assignedToId = actor.id
            [] actor.role = "icc_member" -> TRUE
            [] OTHER -> FALSE

=============================================================================
