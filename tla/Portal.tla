------------------------------- MODULE Portal -------------------------------
(***************************************************************************)
(* The portal: people read grievances while others act on them. Composes   *)
(* the register of Lifecycle, the filing of Attachments and the read paths *)
(* of Reads.                                                               *)
(*                                                                         *)
(* A page is made by several statements in READ COMMITTED transactions,    *)
(* between which others commit: it reads the row and asks the policy, then *)
(* it reads the trail, and then it stays on the screen. Readers do not     *)
(* disturb anybody, so one page at a time is enough.                       *)
(***************************************************************************)
EXTENDS Attachments, Reads

ASSUME UsersAssumption ==
  NULL \notin Users /\ UserRole \in [Users -> Role] /\ CategoryTracks \subseteq Track

\* Somebody works on each track: an officer and a moderator, or an administrator in the
\* place of both, and a member of the committee.
ASSUME StaffAssumption ==
  LET Has(role) == \E u \in Users : UserRole[u] = role
  IN /\ Has("institution_admin") \/ (Has("moderator") /\ Has("redressal_officer"))
     /\ Has("icc_member")

VARIABLE page   \* the page being made or shown: the row and the trail it has read

portal == <<vars, page>>

NoPage == [viewer |-> NULL, case |-> NULL, row |-> NULL, trail |-> <<>>]

PortalInit == Init /\ page = NoPage

\* Bound: pages and uploads are explored in separate histories, since neither reads
\* what the other writes.
OpenPage(u, n) ==
  /\ page = NoPage /\ filing = NoFiling /\ \A k \in Keys : disk[k] = NULL
  /\ canView(Actor(u), Row(n))
  /\ page' = [viewer |-> u, case |-> n, row |-> Row(n), trail |-> <<>>]
  /\ UNCHANGED vars

\* The trail is read by the transaction that read the row.
\* Mutant: it is what a page made earlier had read, from a cache.
FreshTrail_Cached(n) == SubSeq(cases[n].history, 1, 1)
FreshTrail(n) == cases[n].history

ReadTrail ==
  /\ page.viewer # NULL /\ page.trail = <<>>
  /\ page' = [page EXCEPT !.trail = Trail(Actor(page.viewer), page.row, FreshTrail(page.case))]
  /\ UNCHANGED vars

ClosePage ==
  /\ page.trail # <<>>
  /\ page' = NoPage
  /\ UNCHANGED vars

\* The forms of the case page.
StaffForms(u, n) ==
  /\ requireStaffActor(Actor(u))
  /\ \/ \E to \in Status : Register!Decide(u, n, to)
     \/ \E assignee \in Users : Register!Assign(u, n, assignee)
     \/ \E visibility \in {"public", "internal"} :
          Register!Note(u, n, "remark_added", visibility)

\* The bulk forms of the queue page treat their rows one after the other.
BulkForms(u, n) ==
  /\ requireStaffActor(Actor(u))
  /\ \/ \E to \in BULK_STATUSES : Register!Decide(u, n, to)
     \/ \E assignee \in Users : Register!Assign(u, n, assignee)

\* The forms of the student's page; the server does not ask for the appeal window.
StudentForms(u, n) ==
  /\ requireStudentActor(Actor(u))
  /\ \/ \E to \in {"withdrawn", "closed"} : Register!Decide(u, n, to)
     \/ /\ Len(cases) < MaxCases /\ Entries + 1 < MaxEntries
        /\ Register!Appeal(u, n)

Others ==
  /\ HasRoom
  /\ \E u \in Users, n \in DOMAIN cases :
       StaffForms(u, n) \/ BulkForms(u, n) \/ StudentForms(u, n)
  /\ UNCHANGED <<disk, attachments, filing, mishaps>>

PortalNext ==
  \/ /\ \/ \E u \in Users, track \in CategoryTracks, anonymous \in BOOLEAN,
             files \in 0 .. MAX_ATTACHMENTS + 1 :
             (files = 0 \/ page = NoPage) /\ SubmitGrievance(u, track, anonymous, files)
        \/ FilingStep \/ Crash \/ Others
     /\ UNCHANGED page
  \/ \E u \in Users, n \in DOMAIN cases : OpenPage(u, n)
  \/ ReadTrail \/ ClosePage

PortalSpec == PortalInit /\ [][PortalNext]_portal

\* What is on the screen.
Screen == [row |-> toActorView(Actor(page.viewer), page.row), trail |-> page.trail]

Shown == page.viewer # NULL /\ page.trail # <<>>

-----------------------------------------------------------------------------
Rows == [n \in DOMAIN cases |-> Row(n)]

\* One rule decides who sees a grievance, however it is asked for: the lists, which
\* filter in SQL before there is a row to hand to canView, show exactly the rows that
\* canView grants, the compliance report counts none it would refuse, and a file is
\* given out with its grievance (_internal.ts:237-241, queries.ts:264-269).
SurfacesAgree ==
  \A u \in Users :
    LET actor == Actor(u)
        seen  == {n \in DOMAIN cases : canView(actor, Row(n))} IN
    /\ DOMAIN listGrievances(actor, Rows, Status) = seen
    /\ DOMAIN listQueue(actor, Rows, Status, "anyone") = seen
    /\ complianceSnapshot(actor, Rows) \subseteq seen
    /\ {n \in DOMAIN cases : loadAuthorizedAttachment(actor, Row(n))} = seen

\* No surface shows staff who filed an anonymous grievance, in the row, beside an entry
\* of the trail or in a list; none shows a case to a role its track is closed to, aggregates
\* included; and no internal note reaches the student's page.
ConfidencesKept ==
  /\ Shown => LET viewer == Actor(page.viewer) IN
       /\ isStaff(viewer.role) => viewer.role \in TRACK_ROLES[page.row.track]
       /\ isStaff(viewer.role) /\ page.row.isAnonymous =>
            /\ Screen.row.submittedById = NULL
            /\ \A i \in DOMAIN Screen.trail :
                 Screen.trail[i].actorName # cases[page.case].submittedById
       /\ viewer.role = "student" =>
            \A i \in DOMAIN Screen.trail : Screen.trail[i].visibility = "public"
  /\ \A u \in Users : isStaff(UserRole[u]) =>
       /\ \A n \in detectPatterns(Actor(u), Rows) \cup complianceSnapshot(Actor(u), Rows) :
            UserRole[u] \in TRACK_ROLES[cases[n].track]
       /\ LET list == listGrievances(Actor(u), Rows, Status) IN
          \A n \in DOMAIN list : cases[n].isAnonymous => list[n].submittedById = NULL

\* A page explains itself: however many commits fall between its statements, the
\* status and the assignee it shows are ones its own trail records; the student's page
\* of a case under appeal names an appeal of it; and that page and the public form tell
\* the filer the same story ([reference]/page.tsx:30-33 reads the row in one
\* transaction and the trail in the next).
TrailExplainsRow ==
  Shown =>
    /\ \E i \in DOMAIN Screen.trail :
         /\ Screen.trail[i].type \in {"submitted", "status_changed", "appealed"}
         /\ Screen.trail[i].to = Screen.row.status
    /\ isStaff(UserRole[page.viewer]) /\ Screen.row.assignedToId # NULL =>
         \E i \in DOMAIN Screen.trail :
           Screen.trail[i].type = "assigned" /\ Screen.trail[i].to = Screen.row.assignedToId
    /\ page.viewer = page.row.submittedById =>
         /\ \A a \in AppealShown(page.row, page.trail) : cases[a].appealOfId = page.case
         /\ page.row.status = "appealed" => AppealShown(page.row, page.trail) # {}
         /\ LET public == lookupGrievanceStatus(page.viewer, Row(page.case), cases[page.case].history)[2]
            IN IsPrefix([i \in DOMAIN Screen.trail |-> Screen.trail[i].type],
                        [i \in DOMAIN public |-> public[i].type])

\* Nobody is left waiting for a button: while a case is with the staff, its track and
\* its assignment leave somebody who has it in the queue and whose case page offers a
\* move, which the bulk form offers too; once it is with the filer, the student's page
\* offers a move while the window is open; and what it offers, the policy accepts.
WithStaff == {"submitted", "under_review", "in_progress", "appealed"}

NoDeadEnd ==
  \A n \in DOMAIN cases :
    LET g == Row(n)
        filer == Actor(g.submittedById)
        Moves(u) == CaseActions(Actor(u), toActorView(Actor(u), g)) \cap Status IN
    /\ g.status \in WithStaff =>
         \E u \in Users : /\ requireStaffActor(Actor(u))
                         /\ n \in DOMAIN listQueue(Actor(u), Rows, {}, "anyone")
                         /\ Moves(u) # {} /\ Moves(u) \subseteq BULK_STATUSES
    /\ g.status \notin WithStaff \cup {"withdrawn"} => StudentActions(g, TRUE) # {}
    /\ \A to \in StudentActions(g, TRUE) : requireStudentActor(filer) /\ canSetStatus(filer, g, to)

\* A row of attachments never names a file that is not there, whole and of the type
\* the row says, unless a fault struck between the disk and the database.
AttachmentsNameFiles ==
  \A a \in attachments :
    /\ a.contentType \in AllowedType
    /\ disk[a.storageKey] = "whole" \/ a.storageKey \in mishaps

=============================================================================
