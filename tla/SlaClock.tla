------------------------------ MODULE SlaClock ------------------------------
(***************************************************************************)
(* The statutory clock: due dates (src/src/lib/grievance/sla.ts), and the  *)
(* four places that decide whether a case is late: the queue (slaState),   *)
(* the badge (components/ui/sla.ts), the compliance report (wasBreached in *)
(* compliance.ts) and the watchdog's flag (agents/sla-watchdog.ts).        *)
(*                                                                         *)
(* Instants are counted in half hours of UTC since the epoch, which is     *)
(* what the offset of India needs. The last half hour of an Indian day     *)
(* stands for its last millisecond, the instant at which cases are due.    *)
(*                                                                         *)
(* Clocks do not depend on each other, so the module follows one           *)
(* grievance. An appeal touches two rows: it is the filing of the one and  *)
(* a change of status of the other, and here it is either, for the row     *)
(* that is followed. That the two go together, who may decide what, and    *)
(* how decisions race is in Commands.                                      *)
(***************************************************************************)
EXTENDS Policy, Integers, FiniteSets, FiniteSetsExt

CONSTANTS
  Instants,             \* the moments at which something may happen
  LastFiling,           \* bound: no grievance is filed after this instant
  Holidays,             \* days an institution may close on, beside Sundays
  slaResolutionDays,    \* the institution's windows, in days
  slaIccInquiryDays,
  slaOmbudspersonDays,
  CategorySlaDays,      \* overrides the categories have; NULL is none
  Modes                 \* ways of counting institutions have chosen

ASSUME InstantsAssumption == Instants \subseteq Nat /\ LastFiling \in Instants
ASSUME WindowsAssumption ==
  /\ {slaResolutionDays, slaIccInquiryDays, slaOmbudspersonDays} \subseteq Nat \ {0}
  /\ CategorySlaDays \subseteq (Nat \ {0}) \cup {NULL}
  /\ Modes \subseteq {"calendar", "working"}
  /\ Holidays \subseteq Nat /\ IsFiniteSet(Holidays)
  /\ NULL \notin Nat

VARIABLES
  now,        \* the current instant
  grievance   \* the row, NULL until it is filed

vars == <<now, grievance>>

-----------------------------------------------------------------------------
(* Days in India. *)

DAY == 48
IST_OFFSET == 11

istDayNumber(instant) == (instant + IST_OFFSET) \div DAY

istEndOfDay(day) == (day + 1) * DAY - 1 - IST_OFFSET

\* Day 0, the epoch, was a Thursday.
isSunday(day) == (day + 4) % 7 = 0

\* Mutant: only the institution's list is asked.
Off_HolidaysOnly(day, holidays) == day \in holidays
Off(day, holidays) == isSunday(day) \/ day \in holidays

\* The loop of working mode, from so many days remaining and the day it has come to: it
\* moves a day ahead and counts it unless it is off.
Walk(holidays) ==
  LET walk[at \in Nat \X Nat] ==
        IF at[1] = 0 THEN at[2]
        ELSE walk[<<IF Off(at[2] + 1, holidays) THEN at[1] ELSE at[1] - 1, at[2] + 1>>]
  IN walk

\* The due instant of a window of so many days that starts at submittedAt.
computeDueAt(submittedAt, days, mode, holidays) ==
  LET today == istDayNumber(submittedAt)
  IN istEndOfDay(IF mode = "calendar" THEN today + days ELSE Walk(holidays)[<<days, today>>])

daysOverdue(dueAt, instant) ==
  Max({0, istDayNumber(instant) - istDayNumber(dueAt)})

-----------------------------------------------------------------------------
(* Is it late? The threshold of due_soon is multiplied out of its 20%. *)

DueSoon(g, instant) ==
  LET remaining == g.dueAt - instant
  IN 5 * remaining <= Max({g.dueAt - g.createdAt, 15 * DAY})

slaState(g, instant) ==
  IF g.status \in TERMINAL_STATUSES THEN "stopped"
  ELSE IF instant >= g.dueAt THEN "breached"
  ELSE IF DueSoon(g, instant) THEN "due_soon" ELSE "on_track"

computeSlaState(g, instant) ==
  IF isOpen(g.status)
  THEN LET state == slaState(g, instant) IN IF state = "breached" THEN "overdue" ELSE state
  ELSE IF g.resolvedAt = NULL \/ g.resolvedAt <= g.dueAt THEN "met" ELSE "breached"

\* Mutant: a case is finished when it is closed, not when the officer resolved it.
finishedAt_Closed(g) == IF g.closedAt # NULL THEN g.closedAt ELSE g.resolvedAt
finishedAt(g) == IF g.resolvedAt # NULL THEN g.resolvedAt ELSE g.closedAt

wasBreached(g, instant) ==
  IF finishedAt(g) # NULL THEN finishedAt(g) > g.dueAt
  ELSE g.status \notin {"rejected", "withdrawn"} /\ instant > g.dueAt

-----------------------------------------------------------------------------
(* Filing, deciding, appealing and sweeping. *)

Grievance ==
  [status: Status, createdAt: Instants, dueAt: Nat,
   resolvedAt: Instants \cup {NULL}, closedAt: Instants \cup {NULL},
   flag: Nat \cup {NULL}]   \* the days the watchdog's event says it was overdue

Filed == grievance # NULL

NewGrievance(dueAt) ==
  [status |-> "submitted", createdAt |-> now, dueAt |-> dueAt,
   resolvedAt |-> NULL, closedAt |-> NULL, flag |-> NULL]

Init == now = Min(Instants) /\ grievance = NULL

\* The ICC has its own window, in calendar days. No caller passes a holiday list.
DueAtFor(track, override, mode) ==
  IF track = "icc" THEN computeDueAt(now, slaIccInquiryDays, "calendar", {})
  ELSE computeDueAt(now, IF override = NULL THEN slaResolutionDays ELSE override, mode, {})

SubmitGrievance ==
  /\ ~Filed /\ now <= LastFiling
  /\ \E track \in Track, override \in CategorySlaDays, mode \in Modes :
       grievance' = NewGrievance(DueAtFor(track, override, mode))
  /\ UNCHANGED now

\* The row is the appeal. Its clock is the Ombudsperson's, whatever the category.
FileAppeal ==
  /\ ~Filed /\ now <= LastFiling
  /\ grievance' = NewGrievance(computeDueAt(now, slaOmbudspersonDays, "calendar", {}))
  /\ UNCHANGED now

\* Mutant: the time an appeal is given is given to its original.
WithStatus_AppealExtends(g, to) ==
  [g EXCEPT !.status = to,
            !.dueAt = IF to = "appealed" THEN computeDueAt(now, slaOmbudspersonDays, "calendar", {}) ELSE @,
            !.resolvedAt = IF to = "resolved" THEN now ELSE @,
            !.closedAt = IF isOpen(to) THEN @ ELSE now]

\* Neither stamp is ever taken back, and a second resolution renews resolvedAt.
WithStatus(g, to) ==
  [g EXCEPT !.status = to,
            !.resolvedAt = IF to = "resolved" THEN now ELSE @,
            !.closedAt = IF isOpen(to) THEN @ ELSE now]

\* With to = "appealed" this is also what an appeal does to its original.
TransitionStatus ==
  /\ Filed
  /\ \E to \in Status :
       /\ canTransition(grievance.status, to)
       /\ grievance' = WithStatus(grievance, to)
  /\ UNCHANGED now

Overdue(g) ==
  isOpen(g.status) /\ g.dueAt < now /\ slaState(g, now) = "breached"

Sweep ==
  /\ Filed /\ Overdue(grievance) /\ grievance.flag = NULL
  /\ grievance' = [grievance EXCEPT !.flag = daysOverdue(grievance.dueAt, now)]
  /\ UNCHANGED now

Tick ==
  /\ \E t \in Instants : t > now
  /\ now' = Min({t \in Instants : t > now})
  /\ UNCHANGED grievance

Next == SubmitGrievance \/ FileAppeal \/ TransitionStatus \/ Sweep \/ Tick

Spec == Init /\ [][Next]_vars

-----------------------------------------------------------------------------
(* Properties. *)

\* Working mode, against its definition: whatever the holidays, a case filed now is
\* due on a working day, and the working days after the day of filing, up to and
\* with that one, are as many as the window has (sla.ts:57-85).
DueDayIsTheNthWorkingDay ==
  \A days \in (CategorySlaDays \ {NULL}) \cup {slaResolutionDays}, closed \in SUBSET Holidays :
    LET due == istDayNumber(computeDueAt(now, days, "working", closed))
        worked == {d \in istDayNumber(now) + 1 .. due : ~isSunday(d) /\ d \notin closed}
    IN due \in worked /\ Cardinality(worked) = days

\* The ways in which the verdicts on a case come apart.

\* Rejected or withdrawn after the due instant, and never resolved.
DroppedLate(g) == ~isOpen(g.status) /\ g.resolvedAt = NULL /\ g.closedAt > g.dueAt

\* Resolved or dropped in time, and after the due instant open still, or again.
OpenAfterTimelyEnd(g) ==
  isOpen(g.status) /\ finishedAt(g) # NULL /\ finishedAt(g) <= g.dueAt /\ now >= g.dueAt

\* Never finished, at the very instant it is due.
DueThisInstant(g) == finishedAt(g) = NULL /\ now = g.dueAt

\* The code has no one verdict on lateness, and this is where the verdicts differ, and the
\* only places. Queue and badge say the same of every open case. The report counts a
\* breach where the badge says the case met its date ("met") exactly if it was dropped late;
\* the badge, and the queue, say late where the report counts nothing exactly if the work was
\* done in time and the case is open, or at the due instant itself. What the watchdog
\* flagged, never on the due day, all of which is available, the report counts unless it
\* was finished in time (compliance.ts:61-70, components/ui/sla.ts:26-50, sla.ts:109-122,
\* sla-watchdog.ts:131-139).
VerdictsDifferOnlyHere ==
  Filed => LET g       == grievance
               counted == wasBreached(g, now)
               shown   == computeSlaState(g, now) \in {"overdue", "breached"} IN
    /\ isOpen(g.status) => (shown <=> slaState(g, now) = "breached")
    /\ counted /\ ~shown <=> DroppedLate(g)
    /\ shown /\ ~counted <=> OpenAfterTimelyEnd(g) \/ DueThisInstant(g)
    /\ g.flag # NULL =>
         /\ g.flag >= 1
         /\ counted \/ (finishedAt(g) # NULL /\ finishedAt(g) <= g.dueAt)

\* Lateness does not wear off. A breach that the report counts stays counted while the case
\* is worked on: through acceptance, appeal and a second resolution, and however much time
\* passes; and while a case stays open its state in the queue only gets worse. Of
\* rejections and withdrawals the first part says nothing: by its comment the report leaves
\* such cases out (compliance.ts:59-60), by its code it counts the late ones, which is
\* DroppedLate above (compliance.ts:61-70, sla.ts:109-122, commands.ts:162-167).
Severity == [on_track |-> 0, due_soon |-> 1, breached |-> 2]

BreachStaysCounted ==
  [][Filed =>
       /\ wasBreached(grievance, now) /\ grievance'.status \notin {"rejected", "withdrawn"} =>
            wasBreached(grievance', now')
       /\ isOpen(grievance.status) /\ isOpen(grievance'.status) =>
            Severity[slaState(grievance, now)] <= Severity[slaState(grievance', now')]]_vars

=============================================================================
