------------------------- MODULE CommandsProperties -------------------------
(***************************************************************************)
(* What the transactions of Commands guarantee together.                   *)
(***************************************************************************)
EXTENDS Commands

\* The audit trail of every grievance verifies (audit.ts verifyChain): no two events
\* share a seq, the first one starts from the genesis hash, and every later one has a
\* predecessor and carries its hash. Concurrent appenders, retries and rollbacks
\* neither fork the chain nor leave a gap in it.
OneEventPerSeq ==
  \A d, e \in events : d.grievanceId = e.grievanceId /\ d.seq = e.seq => d = e

Linked(e, log) ==
  IF e.seq = 1
  THEN e.prevHash = GENESIS_HASH
  ELSE \E d \in log : /\ d.grievanceId = e.grievanceId
                      /\ d.seq + 1 = e.seq
                      /\ hashEvent(d) = e.prevHash

ChainVerifies == OneEventPerSeq /\ \A e \in events : Linked(e, events)

\* Event e is the last of those of its grievance that satisfy the test P.
IsLast(e, P(_)) ==
  P(e) /\ \A d \in EventsOf(e.grievanceId) : P(d) => d.seq <= e.seq

SetsStatus(e)   == e.type \in StatusTypes
SetsAssignee(e) == e.type = "assigned"

\* The columns of a grievance are projections of its event log (schema.ts, "grievances.
\* status is a projection"), whatever commands raced or were rolled back: the status is
\* what the last event that changed it says; so is the assignee, which
\* assignGrievance writes without comparing; and resolvedAt and closedAt are set
\* exactly when the history has entered "resolved", or a terminal status.
StatusIsProjection ==
  \A g \in Existing :
    \E e \in EventsOf(g) : IsLast(e, SetsStatus) /\ e.to = grievances[g].status

AssigneeIsProjection ==
  \A g \in Existing :
    IF \E e \in EventsOf(g) : SetsAssignee(e)
    THEN \E e \in EventsOf(g) : IsLast(e, SetsAssignee) /\ e.to = grievances[g].assignedToId
    ELSE grievances[g].assignedToId = NULL

Entered(g, statuses) == \E e \in EventsOf(g) : SetsStatus(e) /\ e.to \in statuses

StampsAreProjection ==
  \A g \in Existing :
    grievances[g].stamps =
      (IF Entered(g, {"resolved"}) THEN {"resolvedAt"} ELSE {})
        \cup (IF Entered(g, TERMINAL_STATUSES) THEN {"closedAt"} ELSE {})

RowsAreProjections == StatusIsProjection /\ AssigneeIsProjection /\ StampsAreProjection

\* An appeal and the original it appeals are committed together or not at all: every
\* appeal row is named by exactly one "appealed" event of its original, and every such
\* event names an appeal by the same student (commands.ts, "orphaned appeal").
AppealsArePaired ==
  /\ \A a \in Existing : grievances[a].appealOfId # NULL =>
       \E e \in EventsOf(grievances[a].appealOfId) :
         \A d \in events : d.ref = a <=> d = e
  /\ \A e \in events : e.ref # NULL =>
       /\ e.ref \in Existing
       /\ grievances[e.ref].appealOfId = e.grievanceId
       /\ grievances[e.ref].submittedById = grievances[e.grievanceId].submittedById
       /\ grievances[e.ref].isAnonymous = grievances[e.grievanceId].isAnonymous

\* The outbox holds what the committed history calls for and nothing else: no message
\* for a command that rolled back, none lost, none to an anonymous filer, none to a
\* student about what they did.
FilerMail(e) ==
  LET g == grievances[e.grievanceId] IN
  IF g.isAnonymous THEN {}
  ELSE IF e.type = "submitted" /\ g.appealOfId = NULL
  THEN {Message(g.submittedById, "grievance_submitted", e.grievanceId, 0)}
  ELSE IF e.type = "status_changed" /\ e.actorId # g.submittedById
  THEN {Message(g.submittedById, "status_changed", e.grievanceId, e.seq)}
  ELSE {}

StaffMail(e) ==
  CASE e.type = "assigned" -> {Message(e.to, "assigned", e.grievanceId, 0)}
    [] e.type = "appealed" ->
         {Message(u, "appeal_filed", e.ref, 0) : u \in {v \in Users : UserRole[v] = "ombudsperson"}}
    [] OTHER -> {}

OutboxMatchesHistory ==
  outbox = UNION {FilerMail(e) \cup StaffMail(e) : e \in events}

\* Transactions wait for row locks and for unique keys, and never in a circle: the
\* commands alone cannot deadlock in the database.
WaitsFor(t, u) ==
  /\ t # u
  /\ \/ pc[t] = "insert" /\ number[t] \in GrievanceId /\ newRows[u][number[t]] # NULL
     \/ pc[t] = "update" /\ newRows[u][cmd[t].target] # NULL
     \/ /\ pc[t] = "append"
        /\ \E e \in newEvents[u] : e.grievanceId = Subject(t) /\ e.seq = NextSeq(t)

NoWaitCycle ==
  \A S \in SUBSET Active : S # {} => \E t \in S : \A u \in S : ~WaitsFor(t, u)

\* Liveness: every command that was started ends, committed, denied or rolled back,
\* although it may wait for others and retry.
EveryCommandEnds == \A t \in Tx : pc[t] # "idle" ~> pc[t] = "idle"

-----------------------------------------------------------------------------
(* The strengthening that makes the invariants above inductive. *)

Holding == {"read", "append", "update", "commit"}

\* What each label of a transaction says about the command it runs.
CommandIsFormed(t) ==
  LET c == cmd[t] IN
  /\ c.op = "none" <=> pc[t] = "idle"
  /\ c.op # "none" => c.actor \in Users
  /\ c.op = "submit" => c.arg \in Track
  /\ c.op \in {"transition", "close", "appeal"} => c.arg \in Status
  /\ c.op = "assign" => c.arg \in Users
  /\ c.op = "remark" => c.arg \in {"public", "internal"}
  /\ c.op \in CommandNames \ {"submit"} =>
       c.target \in Existing /\ seen[t] \in Grievance
  /\ pc[t] \in {"number", "insert"} => c.op \in {"submit", "appeal"}
  /\ pc[t] = "update" => c.op \in {"transition", "close", "assign", "appeal"}

\* What a transaction has written by the time it reaches each label.
WritesAreFormed(t) ==
  LET c == cmd[t] IN
  /\ pc[t] \in {"idle", "number", "insert"} => newEvents[t] = {} /\ newRows[t] = NoRows
  /\ c.op \notin {"submit", "appeal"} => number[t] = 0
  /\ c.op \in {"submit", "appeal"} /\ pc[t] \in Holding =>
       number[t] \in GrievanceId /\ newRows[t][number[t]] # NULL
  /\ c.op = "appeal" /\ pc[t] \in Holding =>
       number[t] # c.target /\ \A e \in newEvents[t] : e.grievanceId \in {number[t], c.target}
  /\ c.op = "appeal" /\ pc[t] \in {"read", "append", "update"} =>
       \A e \in newEvents[t] : e.grievanceId = number[t]
  /\ c.op = "appeal" /\ pc[t] = "update" => newEvents[t] # {}
  /\ c.op # "appeal" /\ pc[t] # "commit" => newEvents[t] = {}
  /\ c.op \in {"transition", "close", "assign"} /\ pc[t] \in {"read", "append", "commit"} =>
       newRows[t][c.target] # NULL

\* Types, and what each label of a transaction says about it.
FormInv ==
  /\ TypeOK
  /\ \A t \in Tx : CommandIsFormed(t) /\ WritesAreFormed(t)

\* An event not yet committed follows a committed one, and claims a seq that no
\* other event has.
PendingIsNext ==
  \A t \in Tx : \A e \in newEvents[t] :
    /\ Linked(e, events)
    /\ \A d \in events : d.grievanceId = e.grievanceId => d.seq < e.seq
    /\ \A u \in Tx : \A d \in newEvents[u] :
         d.grievanceId = e.grievanceId => t = u /\ d = e

\* What an appender read is still the hash of a committed event.
TailIsCommitted ==
  \A t \in Tx : pc[t] = "append" /\ tail[t] # GENESIS_HASH =>
    \E d \in events : d.grievanceId = Subject(t) /\ hashEvent(d) = tail[t]

\* The committed trail of a grievance has every seq up to its last.
Dense ==
  \A d \in events : \A n \in 1 .. d.seq :
    \E e \in events : e.grievanceId = d.grievanceId /\ e.seq = n

ChainInv ==
  /\ FormInv
  /\ TailIsCommitted
  /\ PendingIsNext
  /\ Dense
  /\ ChainVerifies

-----------------------------------------------------------------------------
(* The strengthening for the rows, the outbox and the appeals. *)

\* The columns no UPDATE of a command names.
SameCase(r, s) ==
  /\ r.submittedById = s.submittedById /\ r.isAnonymous = s.isAnonymous
  /\ r.track = s.track /\ r.appealOfId = s.appealOfId

\* What the policy granted when a command began still holds of the row it read, and that
\* row and the current one are the same case.
IsGranted(t) ==
  LET c == cmd[t] IN
  /\ c.op = "submit" => UserRole[c.actor] = "student" /\ c.arg \in CategoryTracks
  /\ c.op \in {"transition", "close", "appeal"} => canSetStatus(Actor(c.actor), seen[t], c.arg)
  /\ c.op \in {"transition", "close"} => c.arg # "appealed"
  /\ c.op = "close" => c.arg = "closed"
  /\ c.op = "appeal" => c.arg = "appealed"
  /\ c.op = "assign" =>
       /\ canAssign(Actor(c.actor), seen[t])
       /\ UserRole[c.arg] \in {"redressal_officer", "ombudsperson"}
  /\ c.op \in {"remark", "attach"} => canComment(Actor(c.actor), seen[t])
  /\ c.op = "remark" /\ c.arg = "internal" => isStaff(UserRole[c.actor])
  /\ c.op \in CommandNames \ {"submit"} => SameCase(seen[t], grievances[c.target])

\* A transaction has written nothing but the row it inserts and the row its command is
\* about, and nobody else has written those. The second is still what the UPDATE made
\* of the committed version, which had the status the command saw.
RowsAreLocked(t) ==
  \A g \in GrievanceId : newRows[t][g] # NULL =>
    /\ \A u \in Tx \ {t} : newRows[u][g] = NULL
    /\ \/ /\ cmd[t].op \in {"submit", "appeal"} /\ g = number[t]
          /\ g \notin Existing /\ newRows[t][g] = InsertedRow(t)
       \/ /\ cmd[t].op \in {"transition", "close", "assign", "appeal"} /\ g = cmd[t].target
          /\ g \in Existing /\ newRows[t][g] = UpdatedRow(t) /\ ~StatusMoved(t)

\* A command updates its row once, and an appeal between its two events.
UpdateIsInOrder(t) ==
  /\ pc[t] = "update" => newRows[t][cmd[t].target] = NULL
  /\ cmd[t].op = "appeal" =>
       /\ pc[t] \in {"read", "append"} => (newEvents[t] = {} <=> newRows[t][cmd[t].target] = NULL)
       /\ pc[t] = "commit" => newRows[t][cmd[t].target] # NULL

\* The content of an event, without its place in the chain.
Says(e, type, actor, to, ref, visibility) ==
  /\ e.type = type /\ e.actorId = actor /\ e.to = to
  /\ e.ref = ref /\ e.visibility = visibility

\* The event that opens a case, and the one that records a command.
Opens(t, e) ==
  /\ e.grievanceId = number[t]
  /\ Says(e, "submitted", cmd[t].actor, "submitted", NULL, "public")

Reports(t, e) ==
  LET op == cmd[t].op IN
  /\ e.grievanceId = cmd[t].target
  /\ Says(e,
          CASE op \in {"transition", "close"} -> "status_changed"
            [] op = "appeal" -> "appealed"
            [] op = "assign" -> "assigned"
            [] op = "remark" -> "remark_added"
            [] op = "attach" -> "attachment_added",
          cmd[t].actor,
          IF op \in {"transition", "close", "appeal", "assign"} THEN cmd[t].arg ELSE NULL,
          IF op = "appeal" THEN number[t] ELSE NULL,
          IF op = "assign" THEN "internal" ELSE IF op = "remark" THEN cmd[t].arg ELSE "public")

\* A transaction has inserted the events its command calls for, each once it was due.
EventsAreDue(t) ==
  LET op == cmd[t].op IN
  /\ \A e \in newEvents[t] :
       \/ op \in {"submit", "appeal"} /\ Opens(t, e)
       \/ op \in CommandNames \ {"submit"} /\ Reports(t, e)
  /\ pc[t] = "commit" /\ op = "submit" => \E e \in newEvents[t] : Opens(t, e)
  /\ pc[t] = "commit" /\ op # "submit" =>
       \E e \in newEvents[t] : Reports(t, e) /\ e.seq = NextSeq(t)
  /\ op = "appeal" /\ newEvents[t] # {} => \E e \in newEvents[t] : Opens(t, e)

\* A reference that is in use or about to be is at most one above those in use, so the
\* numbers in use have no gap.
NumbersAreDense ==
  /\ Existing = 1 .. Cardinality(Existing)
  /\ \A t \in Tx : pc[t] \in Holding \cup {"insert"} => number[t] <= Cardinality(Existing) + 1

EventsHaveRows == \A e \in events : e.grievanceId \in Existing

TxInv(t) == IsGranted(t) /\ RowsAreLocked(t) /\ UpdateIsInOrder(t) /\ EventsAreDue(t)

RowsInv ==
  /\ ChainInv
  /\ \A t \in Tx : TxInv(t)
  /\ NumbersAreDense
  /\ EventsHaveRows
  /\ RowsAreProjections
  /\ AppealsArePaired
  /\ OutboxMatchesHistory

=============================================================================
