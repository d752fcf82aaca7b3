------------------------------ MODULE Watchdog ------------------------------
(***************************************************************************)
(* The SLA watchdog (src/src/lib/agents/sla-watchdog.ts), run on a timer by *)
(* scripts/run-agents.ts, possibly by two processes at once.               *)
(*                                                                         *)
(* A sweep is one long transaction: it reads the overdue cases, then the   *)
(* flags they have, and then appends an sla_breached event and the mails   *)
(* to each case that has none. It takes no lock on a case; the unique index *)
(* on (grievance, seq) is all that orders it against anybody else.         *)
(*                                                                         *)
(* People work on the cases meanwhile. Their commands are single steps     *)
(* here, which is what Commands is shown to implement (Lifecycle).         *)
(***************************************************************************)
EXTENDS Policy, Naturals, FiniteSets

CONSTANTS
  Runners,             \* processes that run the watchdog
  Cases, CaseTrack,    \* the grievances of one institution, and their tracks
  DueDay,              \* the day each of them is due; a day of the dedupe key
  Assignee,            \* the officer each is assigned to, or NULL
  Users, UserRole,     \* active users
  MaxDay,              \* bound: days that pass
  MaxHumanEvents,      \* bound: events people append
  MaxDeaths,           \* bound: sweeps that die for no reason of their own
  MAX_EVENT_ATTEMPTS   \* tries of one append

ASSUME WatchdogAssumption ==
  /\ IsFiniteSet(Runners)
  /\ IsFiniteSet(Cases)
  /\ CaseTrack \in [Cases -> Track]
  /\ DueDay \in [Cases -> Nat]
  /\ UserRole \in [Users -> Role]
  /\ NULL \notin Users \cup Cases
  /\ Assignee \in [Cases -> Users \cup {NULL}]
  /\ {MaxDay, MaxHumanEvents, MaxDeaths} \subseteq Nat
  /\ MAX_EVENT_ATTEMPTS \in Nat \ {0}

Event == [grievanceId: Cases, seq: Nat \ {0}, type: {"human", "closed", "sla_breached"}, day: Nat]
Mail  == [recipient: Users, grievanceId: Cases, day: Nat]

VARIABLES
  open,       \* cases whose status is not terminal
  events,     \* committed events
  outbox,     \* committed sla_breached mails, by their dedupe key
  today, deaths,
  pc,         \* the next statement of each sweep
  now,        \* the instant a sweep was started with
  todo,       \* overdue cases it read, still to be handled
  current,    \* the case it is appending to
  tail,       \* the last seq it read there
  tries,      \* attempts of that append
  newEvents, newMail   \* what it has inserted and not committed

db   == <<open, events, outbox>>
vars == <<open, events, outbox, today, deaths, pc, now, todo, current, tail, tries, newEvents, newMail>>

Init ==
  /\ open = Cases
  /\ events = {[grievanceId |-> g, seq |-> 1, type |-> "human", day |-> 0] : g \in Cases}
  /\ outbox = {}
  /\ today = 0 /\ deaths = 0
  /\ pc = [r \in Runners |-> "idle"]
  /\ now = [r \in Runners |-> 0]
  /\ todo = [r \in Runners |-> {}]
  /\ current = [r \in Runners |-> NULL]
  /\ tail = [r \in Runners |-> 0]
  /\ tries = [r \in Runners |-> 0]
  /\ newEvents = [r \in Runners |-> {}]
  /\ newMail = [r \in Runners |-> {}]

EventsOf(g) == {e \in events : e.grievanceId = g}
Length(g)   == Cardinality(EventsOf(g))
Flagged     == {g \in Cases : \E e \in EventsOf(g) : e.type = "sla_breached"}

\* An open transaction has inserted event (g, seq).
Claims(r, g, seq) == \E e \in newEvents[r] : e.grievanceId = g /\ e.seq = seq
SeqClaimed(g, seq) == \E r \in Runners : Claims(r, g, seq)

-----------------------------------------------------------------------------
(* People, and time. *)

HumanEvents == Cardinality({e \in events : e.type # "sla_breached"}) - Cardinality(Cases)

Record(g, type) ==
  /\ HumanEvents < MaxHumanEvents
  /\ ~SeqClaimed(g, Length(g) + 1)
  /\ events' = events \cup {[grievanceId |-> g, seq |-> Length(g) + 1, type |-> type, day |-> today]}
  /\ UNCHANGED <<outbox, today, deaths, pc, now, todo, current, tail, tries, newEvents, newMail>>

\* A remark, an assignment, a status change between open statuses.
Work(g)  == g \in open /\ Record(g, "human") /\ UNCHANGED open
Close(g) == g \in open /\ Record(g, "closed") /\ open' = open \ {g}

Tick ==
  /\ today < MaxDay
  /\ today' = today + 1
  /\ UNCHANGED <<db, deaths, pc, now, todo, current, tail, tries, newEvents, newMail>>

-----------------------------------------------------------------------------
(* A sweep. *)

\* Mutant: only what fell due the day before, as a daily job would ask.
Overdue_Yesterday(g, day) == DueDay[g] + 1 = day
Overdue(g, day) == DueDay[g] < day

\* A statement that waits for nobody runs long before the timer fires again. (Reading
\* the cases commutes with it, so no other order of the two shows anything new.)
Rested ==
  \A s \in Runners : pc[s] = "append" => SeqClaimed(current[s], tail[s] + 1)

StillOpen == open

BeginSweep(r) ==
  /\ pc[r] = "idle"
  /\ Rested
  /\ \E g \in StillOpen : Overdue(g, today)
  /\ now' = [now EXCEPT ![r] = today]
  /\ todo' = [todo EXCEPT ![r] = {g \in StillOpen : Overdue(g, today)}]
  /\ pc' = [pc EXCEPT ![r] = "flags"]
  /\ UNCHANGED <<db, today, deaths, current, tail, tries, newEvents, newMail>>

\* Mutant: no check for a prior event.
AlreadyFlagged_Never == {}
AlreadyFlagged == Flagged

ReadFlags(r) ==
  /\ pc[r] = "flags"
  /\ todo' = [todo EXCEPT ![r] = @ \ AlreadyFlagged]
  /\ pc' = [pc EXCEPT ![r] = "next"]
  /\ UNCHANGED <<db, today, deaths, now, current, tail, tries, newEvents, newMail>>

\* The rows were read without an order.
NextCase(r) ==
  /\ pc[r] = "next"
  /\ \E g \in todo[r] : current' = [current EXCEPT ![r] = g]
  /\ pc' = [pc EXCEPT ![r] = "read"]
  /\ UNCHANGED <<db, today, deaths, now, todo, tail, tries, newEvents, newMail>>

ReadTail(r) ==
  /\ pc[r] = "read"
  /\ tail' = [tail EXCEPT ![r] = Length(current[r])]
  /\ pc' = [pc EXCEPT ![r] = "append"]
  /\ UNCHANGED <<db, today, deaths, now, todo, current, tries, newEvents, newMail>>

SeqTaken(r) == tail[r] < Length(current[r])

Recipients(g) ==
  {u \in Users : u = Assignee[g] \/ UserRole[u] \in {"institution_admin", "ombudsperson"}}

Flag(r) ==
  [grievanceId |-> current[r], seq |-> tail[r] + 1, type |-> "sla_breached", day |-> now[r]]

\* notifyBreach, one message for each recipient.
Warnings(r) ==
  {[recipient |-> u, grievanceId |-> current[r], day |-> now[r]] : u \in Recipients(current[r])}

\* The INSERT of appendEvent, and the enqueues that follow it in the transaction. It
\* waits for a transaction that has inserted the same seq.
AppendFlag(r) ==
  /\ pc[r] = "append"
  /\ ~SeqTaken(r)
  /\ ~SeqClaimed(current[r], tail[r] + 1)
  /\ newEvents' = [newEvents EXCEPT ![r] = @ \cup {Flag(r)}]
  /\ newMail' = [newMail EXCEPT ![r] = @ \cup Warnings(r)]
  /\ todo' = [todo EXCEPT ![r] = @ \ {current[r]}]
  /\ tries' = [tries EXCEPT ![r] = 0]
  /\ pc' = [pc EXCEPT ![r] = "next"]
  /\ UNCHANGED <<db, today, deaths, now, current, tail>>

\* The transaction ends, and the runner sleeps until its next turn.
Release(r) ==
  /\ pc' = [pc EXCEPT ![r] = "idle"]
  /\ todo' = [todo EXCEPT ![r] = {}]
  /\ current' = [current EXCEPT ![r] = NULL]
  /\ now' = [now EXCEPT ![r] = 0]
  /\ tail' = [tail EXCEPT ![r] = 0]
  /\ tries' = [tries EXCEPT ![r] = 0]
  /\ newEvents' = [newEvents EXCEPT ![r] = {}]
  /\ newMail' = [newMail EXCEPT ![r] = {}]

Rollback(r) == Release(r) /\ UNCHANGED <<db, today>>

\* After the last try appendEvent throws, and the sweep of the institution is lost.
RetryAppend(r) ==
  /\ pc[r] = "append"
  /\ SeqTaken(r)
  /\ IF tries[r] + 1 < MAX_EVENT_ATTEMPTS
     THEN /\ tries' = [tries EXCEPT ![r] = @ + 1]
          /\ pc' = [pc EXCEPT ![r] = "read"]
          /\ UNCHANGED <<db, today, now, todo, current, tail, newEvents, newMail>>
     ELSE Rollback(r)
  /\ UNCHANGED deaths

CommitSweep(r) ==
  /\ pc[r] = "next"
  /\ todo[r] = {}
  /\ events' = events \cup newEvents[r]
  /\ outbox' = outbox \cup newMail[r]
  /\ Release(r)
  /\ UNCHANGED <<open, today, deaths>>

WaitsFor(r, s) ==
  /\ r # s
  /\ pc[r] = "append"
  /\ Claims(s, current[r], tail[r] + 1)

\* Sweeps that wait for each other in a circle (or several).
Circle(S) ==
  \A r \in S : (\E s \in S : WaitsFor(r, s)) /\ (\E s \in S : WaitsFor(s, r))

\* The database finds the circle and cancels one of them.
\* Mutant: nobody does.
BreakDeadlock_Never(r) == FALSE /\ UNCHANGED vars
BreakDeadlock(r) ==
  /\ \E S \in SUBSET Runners : r \in S /\ Circle(S)
  /\ Rollback(r)
  /\ UNCHANGED deaths

\* Mutant: the mails go out on a connection of their own, before the events commit.
Die_MailSent(r) ==
  /\ pc[r] # "idle"
  /\ deaths < MaxDeaths
  /\ deaths' = deaths + 1
  /\ outbox' = outbox \cup newMail[r]
  /\ Release(r)
  /\ UNCHANGED <<open, events, today>>
Die(r) ==
  /\ pc[r] # "idle"
  /\ deaths < MaxDeaths
  /\ deaths' = deaths + 1
  /\ Rollback(r)

Sweep(r) ==
  \/ BeginSweep(r) \/ ReadFlags(r) \/ NextCase(r)
  \/ ReadTail(r) \/ AppendFlag(r) \/ RetryAppend(r) \/ CommitSweep(r)

Next ==
  \/ Tick
  \/ \E g \in Cases : Work(g) \/ Close(g)
  \/ \E r \in Runners : Sweep(r) \/ BreakDeadlock(r) \/ Die(r)

Spec == Init /\ [][Next]_vars

\* The timer fires again and again, and the database finds deadlocks. Strong
\* fairness, because a sweep that waits is woken each time the holder's transaction ends.
FairSpec ==
  /\ Spec
  /\ \A r \in Runners : SF_vars(Sweep(r)) /\ WF_vars(BreakDeadlock(r))

-----------------------------------------------------------------------------
(* Properties. *)

\* Everybody a breach concerns is told of it, and nobody of a breach that is not in the
\* trail: the mails of a flag commit with it, also when the sweep dies half way.
MailsFor(flags) ==
  UNION {{[recipient |-> u, grievanceId |-> e.grievanceId, day |-> e.day] : u \in Recipients(e.grievanceId)} :
           e \in flags}

FlagsAndMailsAgree == outbox = MailsFor({e \in events : e.type = "sla_breached"})

\* Idempotency (sla-watchdog.ts:28): "every escalation checks for its own prior event
\* before writing another". A runner that has seen a flag never adds one, so runners that
\* overlap flag a case once each at most, however often the timer fires or a sweep dies.
\* And sla-watchdog.ts:87, "Terminal cases have no clock left to breach": a closed case is
\* flagged only by a sweep that was under way when it was closed.
Flags(g) == {e \in EventsOf(g) : e.type = "sla_breached"}

FlagsPerCase == \A g \in Cases : Cardinality(Flags(g)) <= Cardinality(Runners)

LateFlagsWereUnderWay ==
  \A d, e \in events :
    d.grievanceId = e.grievanceId /\ d.type = "closed" /\ e.type = "sla_breached" /\ d.seq < e.seq
      => e.day <= d.day

FlagsAreBounded == FlagsPerCase /\ LateFlagsWereUnderWay

\* Type correctness, which the strengthenings below rest on.
TypeOK ==
  /\ open \subseteq Cases
  /\ events \subseteq Event /\ IsFiniteSet(events)
  /\ outbox \subseteq Mail
  /\ today \in Nat /\ deaths \in Nat
  /\ pc \in [Runners -> {"idle", "flags", "next", "read", "append"}]
  /\ now \in [Runners -> Nat]
  /\ todo \in [Runners -> SUBSET Cases]
  /\ current \in [Runners -> Cases \cup {NULL}]
  /\ tail \in [Runners -> Nat]
  /\ tries \in [Runners -> Nat]
  /\ newEvents \in [Runners -> SUBSET Event]
  /\ newMail \in [Runners -> SUBSET Mail]

\* What a sweep has not committed: a flag at most for each case that it has handled,
\* dated by its start, and the mails of these flags.
Pending(r, g) == \E e \in newEvents[r] : e.grievanceId = g

RunnerInv(r) ==
  /\ pc[r] = "idle" => todo[r] = {}
  /\ pc[r] \in {"idle", "flags"} => newEvents[r] = {}
  /\ pc[r] \in {"read", "append"} => current[r] \in todo[r]
  /\ \A e \in newEvents[r] :
       /\ e.type = "sla_breached" /\ e.day = now[r]
       /\ e.grievanceId \notin todo[r]
       /\ \A f \in newEvents[r] : f.grievanceId = e.grievanceId => f = e
  /\ newMail[r] = MailsFor(newEvents[r])

SweepInv == TypeOK /\ (\A r \in Runners : RunnerInv(r)) /\ FlagsAndMailsAgree

\* The sweeps that may still flag g. Once g is flagged no other sweep joins them: each
\* flag of g was one of them before.
MayFlag(g) ==
  {r \in Runners : Pending(r, g) \/ (pc[r] \in {"next", "read", "append"} /\ g \in todo[r])}

CountInv ==
  \A g \in Cases :
    Flags(g) # {} => Cardinality(Flags(g)) + Cardinality(MayFlag(g)) <= Cardinality(Runners)

\* A case is closed for good, and whoever is about to flag a closed one read it before.
ClosedInv ==
  /\ \A e \in events : e.day <= today
  /\ \A r \in Runners : now[r] <= today
  /\ \A d \in events : d.type = "closed" =>
       /\ d.grievanceId \notin open
       /\ \A e \in Flags(d.grievanceId) : e.day <= d.day
       /\ \A r \in Runners :
            d.grievanceId \in todo[r] \/ Pending(r, d.grievanceId) => now[r] <= d.day

\* A case that is overdue is flagged, or somebody closes it first, although sweeps die,
\* wait for each other and are cancelled.
EveryBreachIsFlagged ==
  \A g \in Cases : (g \in open /\ DueDay[g] < today) ~> (g \in Flagged \/ g \notin open)

\* Every sweep ends, whatever it waits for.
EverySweepEnds == \A r \in Runners : pc[r] # "idle" ~> pc[r] = "idle"

\* README.md:24: "An ICC case under the PoSH Act is visible to the Internal Complaints
\* Committee and nobody else, including the moderator and the Registrar": a mail that
\* names a case goes to somebody whose role may see its track.
MailRespectsTracks ==
  \A m \in outbox : canAccessTrack(UserRole[m.recipient], CaseTrack[m.grievanceId])

=============================================================================
