------------------------------ MODULE Commands ------------------------------
(***************************************************************************)
(* The write side of the grievance service: the commands of                *)
(* src/src/lib/grievance/commands.ts (and closeGrievance of queries.ts) as *)
(* concurrent PostgreSQL transactions.                                     *)
(*                                                                         *)
(* Every command runs in one READ COMMITTED transaction (withTenant). A    *)
(* statement of a transaction sees the rows other transactions have        *)
(* committed and its own writes; an UPDATE waits for the transaction that  *)
(* last wrote the row and then re-evaluates its WHERE on the new version;  *)
(* an INSERT waits for a transaction that has inserted the same unique key *)
(* and fails if that one commits. Nothing else orders the steps.           *)
(*                                                                         *)
(* A reference number stands for the grievance that carries it: the unique *)
(* index on (institution, reference) makes the two interchangeable. One    *)
(* institution and one calendar year are modelled.                         *)
(***************************************************************************)
EXTENDS Policy, Naturals, FiniteSets

CONSTANTS
  Tx,             \* database transactions that can be open at once
  Users,          \* user ids
  UserRole,       \* the role each user signs in with
  Institution,    \* the tenant every modelled user belongs to
  CategoryTracks, \* the tracks of the institution's active categories
  Anonymity,      \* the values of isAnonymous a filer may choose
  Ops,            \* the commands the clients issue
  MAX_EVENT_ATTEMPTS, MAX_ATTEMPTS,   \* retry limits of the two savepoint loops
  MaxGrievances,  \* bound: rows ever created
  MaxEvents       \* bound: no command starts once this many events exist

CommandNames == {"submit", "transition", "close", "assign", "remark", "attach", "appeal"}

ASSUME NULLAssumption ==
  NULL \notin Users \cup Tx \cup Nat \cup Status
ASSUME UsersAssumption ==
  UserRole \in [Users -> Role]
ASSUME ChoicesAssumption ==
  /\ CategoryTracks \subseteq Track
  /\ Anonymity \subseteq BOOLEAN
  /\ Ops \subseteq CommandNames
ASSUME BoundsAssumption ==
  /\ MAX_EVENT_ATTEMPTS \in Nat \ {0}
  /\ MAX_ATTEMPTS \in Nat \ {0}
  /\ MaxGrievances \in Nat
  /\ MaxEvents \in Nat

GrievanceId == 1 .. MaxGrievances

Actor(u) == [id |-> u, role |-> UserRole[u], institutionId |-> Institution]

-----------------------------------------------------------------------------
(* Rows. *)

\* What a grievance row holds, as far as any rule reads it; stamps is the set of
\* the timestamps resolvedAt and closedAt that are not null.
Grievance ==
  [institutionId: {Institution}, submittedById: Users, isAnonymous: BOOLEAN,
   track: Track, status: Status, assignedToId: Users \cup {NULL},
   appealOfId: GrievanceId \cup {NULL}, stamps: SUBSET {"resolvedAt", "closedAt"}]

ASSUME RowAssumption == NULL \notin Grievance

NewGrievance(u, anonymous, track, appealOf) ==
  [institutionId |-> Institution, submittedById |-> u, isAnonymous |-> anonymous,
   track |-> track, status |-> "submitted", assignedToId |-> NULL,
   appealOfId |-> appealOf, stamps |-> {}]

EventType == {"submitted", "status_changed", "assigned", "remark_added",
              "attachment_added", "appealed"}

\* A hash is collision free, so hashEvent yields the fields it covers, without the
\* hash before it, which would nest the whole chain.
Hash ==
  [seq: Nat, type: EventType \cup {"genesis"}, actorId: Users \cup {NULL},
   to: Status \cup Users \cup {NULL}]

GENESIS_HASH == [seq |-> 0, type |-> "genesis", actorId |-> NULL, to |-> NULL]

hashEvent(e) == [seq |-> e.seq, type |-> e.type, actorId |-> e.actorId, to |-> e.to]

\* from and to are the payload: {from, to} of a status change, {assigneeId} in to
\* for an assignment, {appealGrievanceId} in ref for an appeal.
Event ==
  [grievanceId: GrievanceId, seq: Nat \ {0}, prevHash: Hash, type: EventType, actorId: Users,
   from: Status \cup {NULL}, to: Status \cup Users \cup {NULL},
   ref: GrievanceId \cup {NULL}, visibility: {"public", "internal"}]

\* The events that set the status column.
StatusTypes == {"submitted", "status_changed", "appealed"}

\* A queued message; its last three fields are the dedupe key. The key of a status
\* change holds the row's updatedAt, for which the event's seq stands.
Mail ==
  [recipient: Users,
   kind: {"grievance_submitted", "status_changed", "assigned", "appeal_filed"},
   grievanceId: GrievanceId, at: Nat]

-----------------------------------------------------------------------------
VARIABLES
  grievances,  \* committed rows, NULL where a number is unused
  events,      \* committed grievance_events
  outbox,      \* committed notifications
  pc,          \* the next statement of each transaction
  cmd,         \* the command each transaction runs
  seen,        \* the row it read first, on which the policy was evaluated
  number,      \* the reference it is about to insert
  tail,        \* the seq and hash of the last event, read before an append
  tries,       \* attempts of the savepoint loop it is in
  newRows,     \* rows it has inserted or updated, not committed
  newEvents    \* events it has inserted, not committed

db    == <<grievances, events, outbox>>
local == <<pc, cmd, seen, number, tail, tries, newRows, newEvents>>
vars  == <<grievances, events, outbox, pc, cmd, seen, number, tail, tries, newRows, newEvents>>

NoCommand == [op |-> "none", actor |-> NULL, target |-> NULL, arg |-> NULL, anon |-> FALSE]
NoRows    == [g \in GrievanceId |-> NULL]

Init ==
  /\ grievances = NoRows
  /\ events = {}
  /\ outbox = {}
  /\ pc = [t \in Tx |-> "idle"]
  /\ cmd = [t \in Tx |-> NoCommand]
  /\ seen = [t \in Tx |-> NULL]
  /\ number = [t \in Tx |-> 0]
  /\ tail = [t \in Tx |-> GENESIS_HASH]
  /\ tries = [t \in Tx |-> 0]
  /\ newRows = [t \in Tx |-> NoRows]
  /\ newEvents = [t \in Tx |-> {}]

Existing == {g \in GrievanceId : grievances[g] # NULL}
Active   == {t \in Tx : pc[t] # "idle"}
EventsOf(g) == {e \in events : e.grievanceId = g}

\* A new command may start: the bound on the length of a history.
HasBudget == Cardinality(events) + Cardinality(Active) < MaxEvents

-----------------------------------------------------------------------------
(* The first statement of each command: read the row and ask the policy. A  *)
(* denied command returns without writing, which is a stuttering step.      *)

Start(t, c, row, next) ==
  /\ pc[t] = "idle"
  /\ c.op \in Ops
  /\ HasBudget
  /\ pc' = [pc EXCEPT ![t] = next]
  /\ cmd' = [cmd EXCEPT ![t] = c]
  /\ seen' = [seen EXCEPT ![t] = row]
  /\ UNCHANGED <<grievances, events, outbox, number, tail, tries, newRows, newEvents>>

\* Rows that exist or are being created stay within MaxGrievances.
HasRoom ==
  Cardinality(Existing)
    + Cardinality({t \in Active : cmd[t].op \in {"submit", "appeal"}}) < MaxGrievances

SubmitGrievance(t, u, track, anonymous) ==
  /\ UserRole[u] = "student"
  /\ HasRoom
  /\ Start(t, [op |-> "submit", actor |-> u, target |-> NULL, arg |-> track, anon |-> anonymous],
           NULL, "number")

\* The staff screens' call; a student reaches it only through withdrawGrievance.
TransitionStatus(t, u, g, to) ==
  /\ g \in Existing
  /\ isStaff(UserRole[u])
  /\ canSetStatus(Actor(u), grievances[g], to)
  /\ Start(t, [op |-> "transition", actor |-> u, target |-> g, arg |-> to, anon |-> FALSE],
           grievances[g], "update")

WithdrawGrievance(t, u, g) ==
  /\ g \in Existing
  /\ canSetStatus(Actor(u), grievances[g], "withdrawn")
  /\ Start(t, [op |-> "transition", actor |-> u, target |-> g, arg |-> "withdrawn", anon |-> FALSE],
           grievances[g], "update")

CloseGrievance(t, u, g) ==
  /\ g \in Existing
  /\ canSetStatus(Actor(u), grievances[g], "closed")
  /\ Start(t, [op |-> "close", actor |-> u, target |-> g, arg |-> "closed", anon |-> FALSE],
           grievances[g], "update")

AssignGrievance(t, u, g, assignee) ==
  /\ g \in Existing
  /\ canAssign(Actor(u), grievances[g])
  /\ UserRole[assignee] \in {"redressal_officer", "ombudsperson"}
  /\ Start(t, [op |-> "assign", actor |-> u, target |-> g, arg |-> assignee, anon |-> FALSE],
           grievances[g], "update")

AddRemark(t, u, g, visibility) ==
  /\ g \in Existing
  /\ visibility = "internal" => isStaff(UserRole[u])
  /\ canComment(Actor(u), grievances[g])
  /\ Start(t, [op |-> "remark", actor |-> u, target |-> g, arg |-> visibility, anon |-> FALSE],
           grievances[g], "read")

AddAttachment(t, u, g) ==
  /\ g \in Existing
  /\ canComment(Actor(u), grievances[g])
  /\ Start(t, [op |-> "attach", actor |-> u, target |-> g, arg |-> "public", anon |-> FALSE],
           grievances[g], "read")

FileAppeal(t, u, g) ==
  /\ g \in Existing
  /\ canSetStatus(Actor(u), grievances[g], "appealed")
  /\ HasRoom
  /\ Start(t, [op |-> "appeal", actor |-> u, target |-> g, arg |-> "appealed", anon |-> FALSE],
           grievances[g], "number")

-----------------------------------------------------------------------------
(* The statements that follow. *)

\* Step t to the label next, leaving the committed database alone.
Goto(t, next) ==
  /\ pc' = [pc EXCEPT ![t] = next]
  /\ UNCHANGED <<db, cmd, seen>>

\* The transaction ends and the connection returns to the pool.
Release(t) ==
  /\ pc' = [pc EXCEPT ![t] = "idle"]
  /\ cmd' = [cmd EXCEPT ![t] = NoCommand]
  /\ seen' = [seen EXCEPT ![t] = NULL]
  /\ number' = [number EXCEPT ![t] = 0]
  /\ tail' = [tail EXCEPT ![t] = GENESIS_HASH]
  /\ tries' = [tries EXCEPT ![t] = 0]
  /\ newRows' = [newRows EXCEPT ![t] = NoRows]
  /\ newEvents' = [newEvents EXCEPT ![t] = {}]

Rollback(t) == Release(t) /\ UNCHANGED db

\* The savepoint is rolled back and the loop starts over at the label again.
Retry(t, limit, again) ==
  IF tries[t] + 1 < limit
  THEN /\ tries' = [tries EXCEPT ![t] = @ + 1]
       /\ Goto(t, again)
       /\ UNCHANGED <<number, tail, newRows, newEvents>>
  ELSE Rollback(t)

\* Another transaction has written row g and not ended: a row lock, or an entry
\* of the unique index on the reference.
RowLocked(t, g) == \E u \in Tx \ {t} : newRows[u][g] # NULL

\* Mutant: no unique index on (grievance_id, seq), so an insert waits for nobody.
SeqClaimed_NoIndex(t, g, seq) == FALSE

\* Another transaction has inserted event (g, seq) and not ended.
SeqClaimed(t, g, seq) ==
  \E u \in Tx \ {t} : \E e \in newEvents[u] : e.grievanceId = g /\ e.seq = seq

SeqTaken(g, seq) == \E e \in EventsOf(g) : e.seq = seq

\* withRetriedReference: count the rows there are, then insert under count + 1.
ReferencesInUse == Existing

CountReferences(t) ==
  /\ pc[t] = "number"
  /\ number' = [number EXCEPT ![t] = Cardinality(ReferencesInUse) + 1]
  /\ Goto(t, "insert")
  /\ UNCHANGED <<tail, tries, newRows, newEvents>>

\* fileAppeal names no track, so the column's default applies.
InsertedRow(t) ==
  IF cmd[t].op = "appeal"
  THEN NewGrievance(cmd[t].actor, seen[t].isAnonymous, "sgrc", cmd[t].target)
  ELSE NewGrievance(cmd[t].actor, cmd[t].anon, cmd[t].arg, NULL)

InsertGrievance(t) ==
  /\ pc[t] = "insert"
  /\ number[t] \in GrievanceId \ Existing
  /\ ~RowLocked(t, number[t])
  /\ newRows' = [newRows EXCEPT ![t][number[t]] = InsertedRow(t)]
  /\ tries' = [tries EXCEPT ![t] = 0]
  /\ Goto(t, "read")
  /\ UNCHANGED <<number, tail, newEvents>>

RetryReference(t) ==
  /\ pc[t] = "insert"
  /\ number[t] \in Existing
  /\ Retry(t, MAX_ATTEMPTS, "number")

\* A status change and the timestamps that go with it.
StopsTheClock(status) == ~isOpen(status)

WithStatus(row, to) ==
  [row EXCEPT !.status = to,
              !.stamps = @ \cup (IF to = "resolved" THEN {"resolvedAt"} ELSE {})
                           \cup (IF StopsTheClock(to) THEN {"closedAt"} ELSE {})]

\* What the UPDATE makes of the row's latest version.
\* Mutant: the whole row that was read is written back, not the changed columns.
UpdatedRow_WholeRow(t) ==
  IF cmd[t].op = "assign"
  THEN [seen[t] EXCEPT !.assignedToId = cmd[t].arg]
  ELSE WithStatus(seen[t], cmd[t].arg)
UpdatedRow(t) ==
  IF cmd[t].op = "assign"
  THEN [grievances[cmd[t].target] EXCEPT !.assignedToId = cmd[t].arg]
  ELSE WithStatus(grievances[cmd[t].target], cmd[t].arg)

\* The status comparison in the WHERE clause fails. assignGrievance has none: the
\* last of two assignments wins.
\* Mutant: no command compares.
StatusMoved_Ignored(t) == FALSE
StatusMoved(t) ==
  cmd[t].op # "assign" /\ grievances[cmd[t].target].status # seen[t].status

UpdateGrievance(t) ==
  /\ pc[t] = "update"
  /\ ~RowLocked(t, cmd[t].target)
  /\ ~StatusMoved(t)
  /\ newRows' = [newRows EXCEPT ![t][cmd[t].target] = UpdatedRow(t)]
  /\ Goto(t, "read")
  /\ UNCHANGED <<number, tail, tries, newEvents>>

\* An UPDATE that matched no row: transitionStatus and closeGrievance return a
\* denial, having written nothing; fileAppeal throws.
\* Mutant: fileAppeal returns a denial too, and so commits what it has inserted.
Denied_Commits(t) ==
  IF cmd[t].op = "appeal"
  THEN Goto(t, "commit") /\ UNCHANGED <<number, tail, tries, newRows, newEvents>>
  ELSE Rollback(t)
\* Mutant: the UPDATE is repeated until it matches, without reading the row again.
Denied_Spins(t) ==
  Goto(t, "update") /\ UNCHANGED <<number, tail, tries, newRows, newEvents>>
Denied(t) == Rollback(t)

LoseStatusRace(t) ==
  /\ pc[t] = "update"
  /\ ~RowLocked(t, cmd[t].target)
  /\ StatusMoved(t)
  /\ Denied(t)

\* The grievance the next event belongs to: an appeal first starts the history of
\* the new row, and every other event goes to the row the command is about.
Subject(t) ==
  IF cmd[t].op = "submit" \/ (cmd[t].op = "appeal" /\ newEvents[t] = {})
  THEN number[t]
  ELSE cmd[t].target

\* appendEvent, first half: the last event of the grievance, if any.
ReadTail(t) ==
  /\ pc[t] = "read"
  /\ \/ /\ EventsOf(Subject(t)) = {}
        /\ tail' = [tail EXCEPT ![t] = GENESIS_HASH]
     \/ \E last \in EventsOf(Subject(t)) :
          /\ \A e \in EventsOf(Subject(t)) : e.seq <= last.seq
          /\ tail' = [tail EXCEPT ![t] = hashEvent(last)]
  /\ Goto(t, "append")
  /\ UNCHANGED <<number, tries, newRows, newEvents>>

\* What the command says about the event it appends.
EventTypeOf(t) ==
  IF Subject(t) = number[t] THEN "submitted"
  ELSE CASE cmd[t].op \in {"transition", "close"} -> "status_changed"
         [] cmd[t].op = "appeal" -> "appealed"
         [] cmd[t].op = "assign" -> "assigned"
         [] cmd[t].op = "remark" -> "remark_added"
         [] cmd[t].op = "attach" -> "attachment_added"

\* Mutant: the first event of a grievance gets seq 0.
NextSeq_FromZero(t) == IF tail[t] = GENESIS_HASH THEN 0 ELSE tail[t].seq + 1
NextSeq(t) == tail[t].seq + 1

\* nextEvent: one link of the hash chain.
NextEvent(t) ==
  LET type  == EventTypeOf(t)
      moves == type \in {"status_changed", "appealed"} IN
  [grievanceId |-> Subject(t), seq |-> NextSeq(t), prevHash |-> tail[t],
   type |-> type, actorId |-> cmd[t].actor,
   from |-> IF moves THEN seen[t].status ELSE NULL,
   to |-> IF type = "submitted" THEN "submitted"
          ELSE IF moves \/ type = "assigned" THEN cmd[t].arg ELSE NULL,
   ref |-> IF type = "appealed" THEN number[t] ELSE NULL,
   visibility |-> IF type = "assigned" THEN "internal"
                  ELSE IF type = "remark_added" THEN cmd[t].arg ELSE "public"]

\* The statement after an append.
\* Mutant: a remark touches its row too, once it has claimed its place in the log.
AfterAppend_TouchesRow(t) ==
  IF cmd[t].op \in {"appeal", "remark"} /\ newEvents[t] = {} THEN "update" ELSE "commit"
AfterAppend(t) ==
  IF cmd[t].op = "appeal" /\ newEvents[t] = {} THEN "update" ELSE "commit"

\* appendEvent, second half: the INSERT.
AppendEvent(t) ==
  /\ pc[t] = "append"
  /\ ~SeqClaimed(t, Subject(t), NextSeq(t))
  /\ ~SeqTaken(Subject(t), NextSeq(t))
  /\ newEvents' = [newEvents EXCEPT ![t] = @ \cup {NextEvent(t)}]
  /\ tries' = [tries EXCEPT ![t] = 0]
  /\ Goto(t, AfterAppend(t))
  /\ UNCHANGED <<number, tail, newRows>>

RetryAppend(t) ==
  /\ pc[t] = "append"
  /\ SeqTaken(Subject(t), NextSeq(t))
  /\ Retry(t, MAX_EVENT_ATTEMPTS, "read")

\* The messages a command queues in its own transaction. A filer who asked for
\* anonymity is never written to, and nobody is told what they did themselves.
Message(to, kind, g, at) == [recipient |-> to, kind |-> kind, grievanceId |-> g, at |-> at]

\* Mutant: an anonymous filer is written to like any other.
HidesFiler_Never(anonymous) == FALSE
HidesFiler(anonymous) == anonymous

Messages(t) ==
  LET row == newRows[t][cmd[t].target] IN
  CASE cmd[t].op = "submit" ->
         IF HidesFiler(cmd[t].anon) THEN {}
         ELSE {Message(cmd[t].actor, "grievance_submitted", number[t], 0)}
    [] cmd[t].op = "transition" ->
         IF HidesFiler(row.isAnonymous) \/ row.submittedById = cmd[t].actor THEN {}
         ELSE {Message(row.submittedById, "status_changed", cmd[t].target, NextSeq(t))}
    [] cmd[t].op = "assign" -> {Message(cmd[t].arg, "assigned", cmd[t].target, 0)}
    [] cmd[t].op = "appeal" ->
         {Message(u, "appeal_filed", number[t], 0) : u \in {v \in Users : UserRole[v] = "ombudsperson"}}
    [] OTHER -> {}

\* enqueue and COMMIT. The outbox is keyed on the whole message, so one that is
\* already there is not queued again.
Commit(t) ==
  /\ pc[t] = "commit"
  /\ grievances' = [g \in GrievanceId |-> IF newRows[t][g] # NULL THEN newRows[t][g] ELSE grievances[g]]
  /\ events' = events \cup newEvents[t]
  /\ outbox' = outbox \cup Messages(t)
  /\ Release(t)

\* The process dies, the connection is lost or a statement throws.
Abort(t) ==
  /\ pc[t] # "idle"
  /\ Rollback(t)

Begin(t) ==
  \E u \in Users :
    \/ \E track \in CategoryTracks, anonymous \in Anonymity : SubmitGrievance(t, u, track, anonymous)
    \/ \E g \in Existing :
         \/ \E to \in Status : TransitionStatus(t, u, g, to)
         \/ WithdrawGrievance(t, u, g)
         \/ CloseGrievance(t, u, g)
         \/ \E assignee \in Users : AssignGrievance(t, u, g, assignee)
         \/ \E visibility \in {"public", "internal"} : AddRemark(t, u, g, visibility)
         \/ AddAttachment(t, u, g)
         \/ FileAppeal(t, u, g)

Continue(t) ==
  \/ CountReferences(t) \/ InsertGrievance(t) \/ RetryReference(t)
  \/ UpdateGrievance(t) \/ LoseStatusRace(t)
  \/ ReadTail(t) \/ AppendEvent(t) \/ RetryAppend(t)
  \/ Commit(t)

Next == \E t \in Tx : Begin(t) \/ Continue(t) \/ Abort(t)

Spec == Init /\ [][Next]_vars

\* Requests in flight are served; nothing obliges a client to send one, or a process
\* to die. Strong fairness, since a statement that waits is woken each time the
\* transaction it waits for ends, and PostgreSQL queues waiters in order: a stream of
\* later transactions that all roll back cannot overtake it for ever.
FairSpec == Spec /\ \A t \in Tx : SF_vars(Continue(t))

-----------------------------------------------------------------------------
(* Types. *)

Command ==
  [op: CommandNames \cup {"none"}, actor: Users \cup {NULL},
   target: GrievanceId \cup {NULL},
   arg: Status \cup Track \cup Users \cup {"public", "internal", NULL}, anon: BOOLEAN]

Label == {"idle", "number", "insert", "update", "read", "append", "commit"}

\* Type correctness: rows, events and messages have the shape of their tables.
TypeOK ==
  /\ grievances \in [GrievanceId -> Grievance \cup {NULL}]
  /\ events \subseteq Event
  /\ outbox \subseteq Mail
  /\ pc \in [Tx -> Label]
  /\ cmd \in [Tx -> Command]
  /\ seen \in [Tx -> Grievance \cup {NULL}]
  /\ number \in [Tx -> Nat]
  /\ tail \in [Tx -> Hash]
  /\ tries \in [Tx -> Nat]
  /\ newRows \in [Tx -> [GrievanceId -> Grievance \cup {NULL}]]
  /\ newEvents \in [Tx -> SUBSET Event]

=============================================================================
