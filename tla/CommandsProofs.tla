--------------------------- MODULE CommandsProofs ---------------------------
(***************************************************************************)
(* What Commands guarantees for any number of transactions, users,         *)
(* grievances and events, proved from the assumptions on the constants.    *)
(*                                                                         *)
(* First the form of a transaction, the references, the state machine, the *)
(* policy's gate and the hash chain. Then rows, outbox and appeals agree   *)
(* with the history, however commands race: a row that a transaction has   *)
(* written is its own until it ends, so the UPDATE's verdict on the status *)
(* still holds at the commit (RowsAreLocked), and what the policy granted  *)
(* at the start is about columns that no command changes (IsGranted). A    *)
(* commit is then one step of the case: the row, its event and its mails,  *)
(* or an original and its appeal together. So the transactions implement   *)
(* the register of Lifecycle, whose own promises come last.                *)
(***************************************************************************)
EXTENDS CommandsRefinement, FiniteSetTheorems, SequenceTheorems, TLAPS

\* Counting rows yields a number.
LEMMA CountingRows == Cardinality(Existing) \in Nat
<1>1. IsFiniteSet(GrievanceId)
  BY FS_Interval, BoundsAssumption DEF GrievanceId, BoundsAssumption
<1>2. Existing \subseteq GrievanceId
  BY DEF Existing
<1>3. QED
  BY <1>1, <1>2, FS_Subset, FS_CardinalityType

LEMMA GenesisIsHash == GENESIS_HASH \in Hash
  BY DEF GENESIS_HASH, Hash

LEMMA EventHasHash == ASSUME NEW e \in Event PROVE hashEvent(e) \in Hash
  BY DEF Event, Hash, hashEvent

\* A transaction keeps its form while others step, since rows are never deleted.
LEMMA OthersKeepForm ==
  ASSUME FormInv, NEW t \in Tx, NEW u \in Tx \ {t},
         Existing \subseteq Existing',
         pc' \in [Tx -> Label], cmd' \in [Tx -> Command],
         pc'[u] = pc[u], cmd'[u] = cmd[u], seen'[u] = seen[u], number'[u] = number[u],
         newRows'[u] = newRows[u], newEvents'[u] = newEvents[u]
  PROVE  (CommandIsFormed(u) /\ WritesAreFormed(u))'
<1>1. CommandIsFormed(u) /\ WritesAreFormed(u)
  BY DEF FormInv
<1>2. CommandIsFormed(u)'
  BY <1>1 DEF CommandIsFormed
<1>3. WritesAreFormed(u)'
  BY <1>1 DEF WritesAreFormed
<1>4. QED
  BY <1>2, <1>3

LEMMA InitForm == Init => FormInv
<1>1. Init => TypeOK
  BY GenesisIsHash DEF Init, TypeOK, NoRows, NoCommand, Command, Label, GENESIS_HASH
<1>2. Init => \A t \in Tx : CommandIsFormed(t) /\ WritesAreFormed(t)
  BY DEF Init, CommandIsFormed, WritesAreFormed, NoCommand, Holding, CommandNames
<1>3. QED
  BY <1>1, <1>2 DEF FormInv

\* A transaction that starts a well-formed command is well formed.
LEMMA StartForm ==
  ASSUME FormInv, NEW t \in Tx, NEW c \in Command, NEW row \in Grievance \cup {NULL},
         NEW next \in {"number", "update", "read"},
         Start(t, c, row, next),
         c.op # "none", c.actor \in Users,
         c.op = "submit" => c.arg \in Track,
         c.op \in {"transition", "close", "appeal"} => c.arg \in Status,
         c.op = "assign" => c.arg \in Users,
         c.op = "remark" => c.arg \in {"public", "internal"},
         c.op # "submit" => c.target \in Existing /\ row \in Grievance,
         next = "number" <=> c.op \in {"submit", "appeal"},
         next = "update" <=> c.op \in {"transition", "close", "assign"}
  PROVE  FormInv'
<1> USE DEF FormInv
<1>1. TypeOK'
  BY DEF Start, TypeOK, Label
<1>2. ASSUME NEW u \in Tx, u # t PROVE (CommandIsFormed(u) /\ WritesAreFormed(u))'
  BY <1>1, <1>2, OthersKeepForm DEF Start, TypeOK, Existing
<1>3. CommandIsFormed(t)' /\ WritesAreFormed(t)'
  <2>1. pc[t] = "idle" /\ WritesAreFormed(t) /\ CommandIsFormed(t)
    BY DEF Start
  <2>2. /\ pc'[t] = next /\ cmd'[t] = c /\ seen'[t] = row
        /\ UNCHANGED <<grievances, number, newRows, newEvents>>
    BY DEF Start, TypeOK
  <2>3. CommandIsFormed(t)'
    BY <2>1, <2>2 DEF CommandIsFormed, Existing, Command, CommandNames
  <2>4. number[t] = 0 \/ c.op \in {"submit", "appeal"}
    BY <2>1 DEF WritesAreFormed, CommandIsFormed
  <2>5. WritesAreFormed(t)'
    BY <2>1, <2>2, <2>4 DEF WritesAreFormed, Holding, CommandNames, Command
  <2>6. QED
    BY <2>3, <2>5
<1>4. QED
  BY <1>1, <1>2, <1>3

\* A transaction that ends is idle and has nothing written.
LEMMA ReleaseForm ==
  ASSUME FormInv, NEW t \in Tx, Release(t), Existing \subseteq Existing',
         grievances' \in [GrievanceId -> Grievance \cup {NULL}],
         events' \subseteq Event, outbox' \subseteq Mail
  PROVE  FormInv'
<1> USE DEF FormInv
<1>1. TypeOK'
  BY GenesisIsHash DEF Release, TypeOK, Label, Command, NoCommand, NoRows
<1>2. ASSUME NEW u \in Tx, u # t PROVE (CommandIsFormed(u) /\ WritesAreFormed(u))'
  BY <1>1, <1>2, OthersKeepForm DEF Release, TypeOK
<1>3. (CommandIsFormed(t) /\ WritesAreFormed(t))'
  BY DEF Release, TypeOK, CommandIsFormed, WritesAreFormed, NoCommand, Holding, CommandNames
<1>4. QED
  BY <1>1, <1>2, <1>3

LEMMA RollbackForm ==
  ASSUME FormInv, NEW t \in Tx, Rollback(t)
  PROVE  FormInv'
BY ReleaseForm DEF Rollback, db, FormInv, TypeOK, Existing

\* A step of transaction t inside the savepoint loops and the update: it touches no
\* committed row, and what it leaves t with is checked action by action.
LEMMA GotoForm ==
  ASSUME FormInv, NEW t \in Tx, NEW next \in Label, Goto(t, next),
         \A u \in Tx \ {t} : /\ number'[u] = number[u]
                             /\ newRows'[u] = newRows[u]
                             /\ newEvents'[u] = newEvents[u],
         number' \in [Tx -> Nat], tail' \in [Tx -> Hash], tries' \in [Tx -> Nat],
         newRows' \in [Tx -> [GrievanceId -> Grievance \cup {NULL}]],
         newEvents' \in [Tx -> SUBSET Event],
         CommandIsFormed(t)', WritesAreFormed(t)'
  PROVE  FormInv'
<1> USE DEF FormInv
<1>1. TypeOK'
  BY DEF Goto, TypeOK, db
<1>2. ASSUME NEW u \in Tx, u # t PROVE (CommandIsFormed(u) /\ WritesAreFormed(u))'
  BY <1>1, <1>2, OthersKeepForm DEF Goto, db, TypeOK, Existing
<1>3. QED
  BY <1>1, <1>2

LEMMA RetryForm ==
  ASSUME FormInv, NEW t \in Tx, NEW limit \in Nat, NEW again \in {"number", "read"},
         Retry(t, limit, again),
         pc[t] = (IF again = "number" THEN "insert" ELSE "append")
  PROVE  FormInv'
<1>1. CASE Rollback(t)
  BY <1>1, RollbackForm
<1>2. CASE /\ tries' = [tries EXCEPT ![t] = @ + 1]
           /\ Goto(t, again)
           /\ UNCHANGED <<number, tail, newRows, newEvents>>
  <2>1. /\ pc'[t] = again /\ cmd' = cmd /\ seen' = seen /\ grievances' = grievances
        /\ CommandIsFormed(t) /\ WritesAreFormed(t)
    BY <1>2 DEF Goto, FormInv, TypeOK, db
  <2>2. CommandIsFormed(t)' /\ WritesAreFormed(t)'
    BY <1>2, <2>1 DEF CommandIsFormed, WritesAreFormed, Holding, CommandNames, Existing
  <2>3. tries' \in [Tx -> Nat]
    BY <1>2 DEF FormInv, TypeOK
  <2>4. QED
    BY <1>2, <2>2, <2>3, GotoForm DEF FormInv, TypeOK, Label
<1>3. QED
  BY <1>1, <1>2 DEF Retry

LEMMA BeginForm ==
  ASSUME FormInv, NEW t \in Tx, Begin(t)
  PROVE  FormInv'
<1> USE UsersAssumption, ChoicesAssumption
<1>1. PICK u \in Users :
        \/ \E track \in CategoryTracks, anonymous \in Anonymity : SubmitGrievance(t, u, track, anonymous)
        \/ \E g \in Existing :
             \/ \E to \in Status : TransitionStatus(t, u, g, to)
             \/ WithdrawGrievance(t, u, g)
             \/ CloseGrievance(t, u, g)
             \/ \E assignee \in Users : AssignGrievance(t, u, g, assignee)
             \/ \E visibility \in {"public", "internal"} : AddRemark(t, u, g, visibility)
             \/ AddAttachment(t, u, g)
             \/ FileAppeal(t, u, g)
  BY DEF Begin
<1>2. ASSUME NEW g \in Existing PROVE g \in GrievanceId /\ grievances[g] \in Grievance
  BY DEF Existing, FormInv, TypeOK
<1>3. \A a \in Status \cup Track \cup Users \cup {"public", "internal", NULL}, op \in CommandNames,
         g \in GrievanceId \cup {NULL}, anon \in BOOLEAN :
        [op |-> op, actor |-> u, target |-> g, arg |-> a, anon |-> anon] \in Command
  BY DEF Command
<1>4. {"withdrawn", "closed", "appealed"} \subseteq Status
  BY DEF Status
<1>5. CASE \E track \in CategoryTracks, anonymous \in Anonymity : SubmitGrievance(t, u, track, anonymous)
  <2>1. PICK track \in CategoryTracks, anonymous \in Anonymity : SubmitGrievance(t, u, track, anonymous)
    BY <1>5
  <2> DEFINE c == [op |-> "submit", actor |-> u, target |-> NULL, arg |-> track, anon |-> anonymous]
  <2>2. c \in Command /\ track \in Track
    BY <1>3 DEF CommandNames, ChoicesAssumption
  <2>3. Start(t, c, NULL, "number")
    BY <2>1 DEF SubmitGrievance
  <2>4. QED
    BY <2>2, <2>3, StartForm
<1>6. ASSUME NEW g \in Existing, NEW to \in Status, TransitionStatus(t, u, g, to) PROVE FormInv'
  <2> DEFINE c == [op |-> "transition", actor |-> u, target |-> g, arg |-> to, anon |-> FALSE]
  <2>1. Start(t, c, grievances[g], "update") /\ c \in Command
    BY <1>2, <1>3, <1>6 DEF TransitionStatus, CommandNames
  <2>2. QED
    BY <1>2, <2>1, StartForm
<1>7. ASSUME NEW g \in Existing, WithdrawGrievance(t, u, g) PROVE FormInv'
  <2> DEFINE c == [op |-> "transition", actor |-> u, target |-> g, arg |-> "withdrawn", anon |-> FALSE]
  <2>1. Start(t, c, grievances[g], "update") /\ c \in Command
    BY <1>2, <1>3, <1>4, <1>7 DEF WithdrawGrievance, CommandNames
  <2>2. QED
    BY <1>2, <1>4, <2>1, StartForm
<1>8. ASSUME NEW g \in Existing, CloseGrievance(t, u, g) PROVE FormInv'
  <2> DEFINE c == [op |-> "close", actor |-> u, target |-> g, arg |-> "closed", anon |-> FALSE]
  <2>1. Start(t, c, grievances[g], "update") /\ c \in Command
    BY <1>2, <1>3, <1>4, <1>8 DEF CloseGrievance, CommandNames
  <2>2. QED
    BY <1>2, <1>4, <2>1, StartForm
<1>9. ASSUME NEW g \in Existing, NEW assignee \in Users, AssignGrievance(t, u, g, assignee)
      PROVE FormInv'
  <2> DEFINE c == [op |-> "assign", actor |-> u, target |-> g, arg |-> assignee, anon |-> FALSE]
  <2>1. Start(t, c, grievances[g], "update") /\ c \in Command
    BY <1>2, <1>3, <1>9 DEF AssignGrievance, CommandNames
  <2>2. QED
    BY <1>2, <2>1, StartForm
<1>10. ASSUME NEW g \in Existing, NEW visibility \in {"public", "internal"},
              AddRemark(t, u, g, visibility)
       PROVE FormInv'
  <2> DEFINE c == [op |-> "remark", actor |-> u, target |-> g, arg |-> visibility, anon |-> FALSE]
  <2>1. Start(t, c, grievances[g], "read") /\ c \in Command
    BY <1>2, <1>3, <1>10 DEF AddRemark, CommandNames
  <2>2. QED
    BY <1>2, <2>1, StartForm
<1>11. ASSUME NEW g \in Existing, AddAttachment(t, u, g) PROVE FormInv'
  <2> DEFINE c == [op |-> "attach", actor |-> u, target |-> g, arg |-> "public", anon |-> FALSE]
  <2>1. Start(t, c, grievances[g], "read") /\ c \in Command
    BY <1>2, <1>3, <1>11 DEF AddAttachment, CommandNames
  <2>2. QED
    BY <1>2, <2>1, StartForm
<1>12. ASSUME NEW g \in Existing, FileAppeal(t, u, g) PROVE FormInv'
  <2> DEFINE c == [op |-> "appeal", actor |-> u, target |-> g, arg |-> "appealed", anon |-> FALSE]
  <2>1. Start(t, c, grievances[g], "number") /\ c \in Command
    BY <1>2, <1>3, <1>4, <1>12 DEF FileAppeal, CommandNames
  <2>2. QED
    BY <1>2, <1>4, <2>1, StartForm
<1>13. QED
  BY <1>1, <1>5, <1>6, <1>7, <1>8, <1>9, <1>10, <1>11, <1>12

LEMMA CountReferencesForm ==
  ASSUME FormInv, NEW t \in Tx, CountReferences(t)
  PROVE  FormInv'
<1>1. /\ pc[t] = "number" /\ pc'[t] = "insert"
      /\ UNCHANGED <<grievances, cmd, seen, newRows, newEvents>>
  BY DEF CountReferences, Goto, db, FormInv, TypeOK
<1>2. number' = [number EXCEPT ![t] = Cardinality(Existing) + 1] /\ number' \in [Tx -> Nat]
  BY CountingRows DEF CountReferences, ReferencesInUse, FormInv, TypeOK
<1>3. CommandIsFormed(t) /\ WritesAreFormed(t)
  BY DEF FormInv
<1>4. CommandIsFormed(t)' /\ WritesAreFormed(t)'
  BY <1>1, <1>2, <1>3 DEF CommandIsFormed, WritesAreFormed, Holding, CommandNames, Existing
<1>5. QED
  BY <1>1, <1>2, <1>4, GotoForm DEF CountReferences, FormInv, TypeOK, Label

\* What a transaction inserts is a row.
LEMMA InsertedIsRow ==
  ASSUME FormInv, NEW t \in Tx, pc[t] = "insert"
  PROVE  InsertedRow(t) \in Grievance
<1>1. CommandIsFormed(t) /\ cmd[t] \in Command
  BY DEF FormInv, TypeOK
<1>2. cmd[t].op \in {"submit", "appeal"}
  BY <1>1 DEF CommandIsFormed
<1>3. "sgrc" \in Track /\ "submitted" \in Status
  BY DEF Track, Status
<1>4. CASE cmd[t].op = "appeal"
  <2>1. seen[t].isAnonymous \in BOOLEAN /\ cmd[t].target \in GrievanceId /\ cmd[t].actor \in Users
    BY <1>1, <1>4 DEF CommandIsFormed, CommandNames, Grievance, Existing
  <2>2. QED
    BY <1>3, <1>4, <2>1 DEF InsertedRow, NewGrievance, Grievance
<1>5. CASE cmd[t].op = "submit"
  <2>1. cmd[t].arg \in Track /\ cmd[t].anon \in BOOLEAN /\ cmd[t].actor \in Users
    BY <1>1, <1>5 DEF CommandIsFormed, Command
  <2>2. QED
    BY <1>3, <1>5, <2>1 DEF InsertedRow, NewGrievance, Grievance
<1>6. QED
  BY <1>2, <1>4, <1>5

LEMMA InsertGrievanceForm ==
  ASSUME FormInv, NEW t \in Tx, InsertGrievance(t)
  PROVE  FormInv'
<1>1. /\ pc[t] = "insert" /\ pc'[t] = "read"
      /\ number[t] \in GrievanceId \ Existing
      /\ UNCHANGED <<grievances, events, outbox, cmd, seen, number, newEvents>>
      /\ newRows' = [newRows EXCEPT ![t][number[t]] = InsertedRow(t)]
  BY DEF InsertGrievance, Goto, db, FormInv, TypeOK
<1>2. InsertedRow(t) \in Grievance
  BY <1>1, InsertedIsRow
<1>3. /\ newRows' \in [Tx -> [GrievanceId -> Grievance \cup {NULL}]]
      /\ newRows'[t][number[t]] # NULL
      /\ \A u \in Tx \ {t} : newRows'[u] = newRows[u]
  BY <1>1, <1>2, RowAssumption DEF FormInv, TypeOK
<1>4. CommandIsFormed(t) /\ WritesAreFormed(t)
  BY DEF FormInv
<1>5. CommandIsFormed(t)'
  BY <1>1, <1>4 DEF CommandIsFormed, CommandNames, Existing
<1>6. WritesAreFormed(t)'
  <2>1. cmd[t].op \in {"submit", "appeal"} /\ newEvents[t] = {}
    BY <1>1, <1>4 DEF CommandIsFormed, WritesAreFormed
  <2>2. cmd[t].op = "appeal" => number[t] # cmd[t].target
    BY <1>1, <1>4 DEF CommandIsFormed, CommandNames
  <2>3. QED
    BY <1>1, <1>3, <2>1, <2>2 DEF WritesAreFormed, Holding
<1>7. QED
  BY <1>1, <1>3, <1>5, <1>6, GotoForm DEF InsertGrievance, FormInv, TypeOK, Label

LEMMA StatusUpdateIsRow ==
  ASSUME NEW row \in Grievance, NEW to \in Status
  PROVE  WithStatus(row, to) \in Grievance
BY DEF WithStatus, Grievance

\* What a transaction updates a row to is a row.
LEMMA UpdatedIsRow ==
  ASSUME FormInv, NEW t \in Tx, pc[t] = "update"
  PROVE  UpdatedRow(t) \in Grievance /\ cmd[t].target \in Existing
<1>1. CommandIsFormed(t)
  BY DEF FormInv
<1>2. cmd[t].op \in {"transition", "close", "assign", "appeal"}
  BY <1>1 DEF CommandIsFormed
<1>3. cmd[t].target \in Existing /\ grievances[cmd[t].target] \in Grievance
  BY <1>1, <1>2 DEF CommandIsFormed, CommandNames, Existing, FormInv, TypeOK
<1>4. CASE cmd[t].op = "assign"
  <2>1. cmd[t].arg \in Users
    BY <1>1, <1>4 DEF CommandIsFormed
  <2>2. QED
    BY <1>3, <1>4, <2>1 DEF UpdatedRow, Grievance
<1>5. CASE cmd[t].op \in {"transition", "close", "appeal"}
  <2>1. cmd[t].arg \in Status
    BY <1>1, <1>5 DEF CommandIsFormed
  <2>2. UpdatedRow(t) = WithStatus(grievances[cmd[t].target], cmd[t].arg)
    BY <1>5 DEF UpdatedRow
  <2>3. QED
    BY <1>3, <2>1, <2>2, StatusUpdateIsRow
<1>6. QED
  BY <1>2, <1>4, <1>5

LEMMA UpdateGrievanceForm ==
  ASSUME FormInv, NEW t \in Tx, UpdateGrievance(t)
  PROVE  FormInv'
<1>1. /\ pc[t] = "update" /\ pc'[t] = "read"
      /\ UNCHANGED <<grievances, events, outbox, cmd, seen, number, newEvents>>
      /\ newRows' = [newRows EXCEPT ![t][cmd[t].target] = UpdatedRow(t)]
  BY DEF UpdateGrievance, Goto, db, FormInv, TypeOK
<1>2. UpdatedRow(t) \in Grievance /\ cmd[t].target \in GrievanceId
  BY <1>1, UpdatedIsRow DEF Existing
<1>3. /\ newRows' \in [Tx -> [GrievanceId -> Grievance \cup {NULL}]]
      /\ newRows'[t][cmd[t].target] # NULL
      /\ \A g \in GrievanceId : newRows[t][g] # NULL => newRows'[t][g] # NULL
      /\ \A u \in Tx \ {t} : newRows'[u] = newRows[u]
  BY <1>1, <1>2, RowAssumption DEF FormInv, TypeOK
<1>4. CommandIsFormed(t) /\ WritesAreFormed(t)
  BY DEF FormInv
<1>5. CommandIsFormed(t)'
  BY <1>1, <1>4 DEF CommandIsFormed, CommandNames, Existing
<1>6. WritesAreFormed(t)'
  <2>1. cmd[t].op \in {"transition", "close", "assign", "appeal"}
    BY <1>1, <1>4 DEF CommandIsFormed
  <2>2. QED
    BY <1>1, <1>3, <1>4, <2>1 DEF WritesAreFormed, Holding
<1>7. QED
  BY <1>1, <1>3, <1>5, <1>6, GotoForm DEF UpdateGrievance, FormInv, TypeOK, Label

LEMMA ReadTailForm ==
  ASSUME FormInv, NEW t \in Tx, ReadTail(t)
  PROVE  FormInv'
<1>1. /\ pc[t] = "read" /\ pc'[t] = "append"
      /\ UNCHANGED <<grievances, events, outbox, cmd, seen, number, newRows, newEvents>>
  BY DEF ReadTail, Goto, db, FormInv, TypeOK
<1>2. tail' \in [Tx -> Hash]
  BY GenesisIsHash, EventHasHash DEF ReadTail, FormInv, TypeOK, EventsOf
<1>3. CommandIsFormed(t) /\ WritesAreFormed(t)
  BY DEF FormInv
<1>4. CommandIsFormed(t)' /\ WritesAreFormed(t)'
  BY <1>1, <1>3 DEF CommandIsFormed, WritesAreFormed, Holding, CommandNames, Existing
<1>5. QED
  BY <1>1, <1>2, <1>4, GotoForm DEF ReadTail, FormInv, TypeOK, Label

\* The event a transaction appends has the shape of its table.
LEMMA NextEventIsEvent ==
  ASSUME FormInv, NEW t \in Tx, pc[t] = "append"
  PROVE  NextEvent(t) \in Event /\ Subject(t) \in GrievanceId
<1>1. CommandIsFormed(t) /\ WritesAreFormed(t) /\ cmd[t] \in Command /\ tail[t] \in Hash
  BY DEF FormInv, TypeOK
<1>2. cmd[t].op \in CommandNames
  BY <1>1 DEF CommandIsFormed, Command
<1>3. Subject(t) \in GrievanceId
  BY <1>1, <1>2 DEF Subject, CommandIsFormed, WritesAreFormed, Existing, Holding, CommandNames
<1>4. NextSeq(t) \in Nat \ {0}
  BY <1>1 DEF NextSeq, Hash
<1>5. EventTypeOf(t) \in EventType
  BY <1>2 DEF EventTypeOf, EventType, CommandNames, Subject
<1>6. cmd[t].actor \in Users /\ "submitted" \in Status
  BY <1>1, <1>2 DEF CommandIsFormed, CommandNames, Status
<1>7. EventTypeOf(t) \in {"status_changed", "appealed"} =>
        cmd[t].arg \in Status /\ seen[t].status \in Status
  <2>1. ASSUME EventTypeOf(t) \in {"status_changed", "appealed"}
        PROVE  cmd[t].op \in {"transition", "close", "appeal"}
    BY <1>2, <2>1 DEF EventTypeOf, CommandNames, Subject
  <2>2. ASSUME cmd[t].op \in {"transition", "close", "appeal"}
        PROVE  cmd[t].arg \in Status /\ seen[t].status \in Status
    BY <1>1, <2>2 DEF CommandIsFormed, CommandNames, Grievance
  <2>3. QED
    BY <2>1, <2>2
<1>8. EventTypeOf(t) = "assigned" => cmd[t].arg \in Users
  <2>1. EventTypeOf(t) = "assigned" => cmd[t].op = "assign"
    BY <1>2 DEF EventTypeOf, CommandNames, Subject
  <2>2. QED
    BY <1>1, <2>1 DEF CommandIsFormed
<1>9. EventTypeOf(t) = "remark_added" => cmd[t].arg \in {"public", "internal"}
  <2>1. EventTypeOf(t) = "remark_added" => cmd[t].op = "remark"
    BY <1>2 DEF EventTypeOf, CommandNames, Subject
  <2>2. QED
    BY <1>1, <2>1 DEF CommandIsFormed
<1>10. EventTypeOf(t) = "appealed" => number[t] \in GrievanceId
  BY <1>1, <1>2 DEF EventTypeOf, CommandIsFormed, WritesAreFormed, CommandNames, Holding
<1>11. QED
  BY <1>1, <1>3, <1>4, <1>5, <1>6, <1>7, <1>8, <1>9, <1>10 DEF NextEvent, Event

LEMMA AppendEventForm ==
  ASSUME FormInv, NEW t \in Tx, AppendEvent(t)
  PROVE  FormInv'
<1>1. /\ pc[t] = "append" /\ pc'[t] = AfterAppend(t)
      /\ UNCHANGED <<grievances, events, outbox, cmd, seen, number, newRows>>
      /\ newEvents' = [newEvents EXCEPT ![t] = @ \cup {NextEvent(t)}]
  BY DEF AppendEvent, Goto, db, FormInv, TypeOK
<1>2. NextEvent(t) \in Event /\ NextEvent(t).grievanceId = Subject(t)
  BY <1>1, NextEventIsEvent DEF NextEvent
<1>3. /\ newEvents' \in [Tx -> SUBSET Event]
      /\ newEvents'[t] = newEvents[t] \cup {NextEvent(t)}
      /\ \A u \in Tx \ {t} : newEvents'[u] = newEvents[u]
  BY <1>1, <1>2 DEF FormInv, TypeOK
<1>4. CommandIsFormed(t) /\ WritesAreFormed(t)
  BY DEF FormInv
<1>5. /\ AfterAppend(t) \in {"update", "commit"}
      /\ AfterAppend(t) = "update" <=> (cmd[t].op = "appeal" /\ newEvents[t] = {})
  BY DEF AfterAppend
<1>6. CommandIsFormed(t)'
  BY <1>1, <1>4, <1>5 DEF CommandIsFormed, CommandNames, Existing
<1>7. WritesAreFormed(t)'
  BY <1>1, <1>2, <1>3, <1>4, <1>5 DEF WritesAreFormed, Holding, Subject
<1>8. QED
  BY <1>1, <1>3, <1>5, <1>6, <1>7, GotoForm DEF AppendEvent, FormInv, TypeOK, Label

\* The messages a command queues have the shape of their table.
LEMMA MessagesAreMail ==
  ASSUME FormInv, NEW t \in Tx, pc[t] = "commit"
  PROVE  Messages(t) \subseteq Mail
<1>1. /\ CommandIsFormed(t) /\ WritesAreFormed(t) /\ cmd[t] \in Command
      /\ tail[t] \in Hash /\ newRows[t] \in [GrievanceId -> Grievance \cup {NULL}]
  BY DEF FormInv, TypeOK
<1>2. NextSeq(t) \in Nat
  BY <1>1 DEF NextSeq, Hash
<1>3. cmd[t].op \in CommandNames /\ cmd[t].actor \in Users
  BY <1>1 DEF CommandIsFormed, Command
<1>4. cmd[t].op \in {"submit", "appeal"} => number[t] \in GrievanceId
  BY <1>1 DEF WritesAreFormed, Holding
<1>5. cmd[t].op \in {"transition", "assign"} => cmd[t].target \in GrievanceId
  BY <1>1 DEF CommandIsFormed, CommandNames, Existing
<1>6. cmd[t].op = "transition" => newRows[t][cmd[t].target].submittedById \in Users
  BY <1>1, <1>5 DEF WritesAreFormed, Grievance
<1>7. cmd[t].op = "assign" => cmd[t].arg \in Users
  BY <1>1 DEF CommandIsFormed
<1>8. QED
  BY <1>2, <1>3, <1>4, <1>5, <1>6, <1>7 DEF Messages, Message, Mail, CommandNames

LEMMA CommitForm ==
  ASSUME FormInv, NEW t \in Tx, Commit(t)
  PROVE  FormInv'
<1>1. outbox' \subseteq Mail
  BY MessagesAreMail DEF Commit, FormInv, TypeOK
<1>2. grievances' \in [GrievanceId -> Grievance \cup {NULL}] /\ events' \subseteq Event
  BY DEF Commit, FormInv, TypeOK
<1>3. Existing \subseteq Existing'
  BY DEF Commit, Existing
<1>4. QED
  BY <1>1, <1>2, <1>3, ReleaseForm DEF Commit

LEMMA ContinueForm ==
  ASSUME FormInv, NEW t \in Tx, Continue(t)
  PROVE  FormInv'
<1>1. CASE CountReferences(t)   BY <1>1, CountReferencesForm
<1>2. CASE InsertGrievance(t)   BY <1>2, InsertGrievanceForm
<1>3. CASE RetryReference(t)
  BY <1>3, RetryForm, BoundsAssumption DEF RetryReference, BoundsAssumption
<1>4. CASE UpdateGrievance(t)   BY <1>4, UpdateGrievanceForm
<1>5. CASE LoseStatusRace(t)    BY <1>5, RollbackForm DEF LoseStatusRace, Denied
<1>6. CASE ReadTail(t)          BY <1>6, ReadTailForm
<1>7. CASE AppendEvent(t)       BY <1>7, AppendEventForm
<1>8. CASE RetryAppend(t)
  BY <1>8, RetryForm, BoundsAssumption DEF RetryAppend, BoundsAssumption
<1>9. CASE Commit(t)            BY <1>9, CommitForm
<1>10. QED
  BY <1>1, <1>2, <1>3, <1>4, <1>5, <1>6, <1>7, <1>8, <1>9 DEF Continue

LEMMA StutterForm == ASSUME FormInv, UNCHANGED vars PROVE FormInv'
<1>1. TypeOK'
  BY DEF FormInv, TypeOK, vars
<1>2. ASSUME NEW t \in Tx PROVE (CommandIsFormed(t) /\ WritesAreFormed(t))'
  BY <1>2 DEF FormInv, CommandIsFormed, WritesAreFormed, vars, Existing
<1>3. QED
  BY <1>1, <1>2 DEF FormInv

\* No step leaves the types or the forms of the labels.
LEMMA NextForm == FormInv /\ [Next]_vars => FormInv'
<1>1. SUFFICES ASSUME FormInv, [Next]_vars PROVE FormInv'
  OBVIOUS
<1>2. CASE UNCHANGED vars
  BY <1>1, <1>2, StutterForm
<1>3. ASSUME NEW t \in Tx, Begin(t) \/ Continue(t) \/ Abort(t) PROVE FormInv'
  BY <1>1, <1>3, BeginForm, ContinueForm, RollbackForm DEF Abort
<1>4. QED
  BY <1>1, <1>2, <1>3 DEF Next

\* Type correctness of the write side: whatever commands race, retry and roll back,
\* every row, event and message has the shape of its table.
THEOREM TypeCorrect == Spec => []TypeOK
<1>1. FormInv => TypeOK
  BY DEF FormInv
<1>2. QED
  BY <1>1, InitForm, NextForm, PTL DEF Spec

-----------------------------------------------------------------------------

(***************************************************************************)
(* The audit trail of every grievance verifies, however many transactions  *)
(* append to it at once: ChainVerifies, for every value of the constants.  *)
(*                                                                         *)
(* A pending event claims a seq above every committed one (PendingIsNext), *)
(* because the trail has no gaps (Dense): an appender whose tail is stale  *)
(* proposes a seq that is taken, and the unique index refuses it. Two      *)
(* pending events of one grievance would claim the same seq, and the index *)
(* makes the second wait. So a commit extends the chain by exactly one     *)
(* link for each grievance it touches.                                     *)
(***************************************************************************)

LEMMA InitChain == Init => ChainInv
<1>1. Init => events = {} /\ newEvents = [t \in Tx |-> {}] /\ pc = [t \in Tx |-> "idle"]
  BY DEF Init
<1>2. QED
  BY <1>1, InitForm
     DEF ChainInv, TailIsCommitted, PendingIsNext, Dense, ChainVerifies, OneEventPerSeq

\* A step that commits nothing, appends nothing and reads no tail keeps the chain.
LEMMA QuietChain ==
  ASSUME ChainInv, FormInv', events' = events,
         \A u \in Tx : newEvents'[u] \subseteq newEvents[u],
         \A u \in Tx : pc'[u] = "append" =>
           pc[u] = "append" /\ tail'[u] = tail[u] /\ Subject(u)' = Subject(u)
  PROVE  ChainInv'
<1>1. TailIsCommitted'
  BY DEF ChainInv, TailIsCommitted
<1>2. PendingIsNext'
  BY DEF ChainInv, PendingIsNext, Linked
<1>3. Dense' /\ ChainVerifies'
  BY DEF ChainInv, Dense, ChainVerifies, OneEventPerSeq, Linked
<1>4. QED
  BY <1>1, <1>2, <1>3 DEF ChainInv

LEMMA BeginChain ==
  ASSUME ChainInv, NEW t \in Tx, Begin(t)
  PROVE  ChainInv'
<1>1. FormInv'
  BY BeginForm DEF ChainInv
<1>2. /\ UNCHANGED <<grievances, events, outbox, number, tail, tries, newRows, newEvents>>
      /\ pc'[t] # "append"
      /\ \A u \in Tx \ {t} : pc'[u] = pc[u] /\ cmd'[u] = cmd[u]
  BY DEF Begin, SubmitGrievance, TransitionStatus, WithdrawGrievance, CloseGrievance,
         AssignGrievance, AddRemark, AddAttachment, FileAppeal, Start, ChainInv, FormInv, TypeOK
<1>3. \A u \in Tx : pc'[u] = "append" =>
        pc[u] = "append" /\ tail'[u] = tail[u] /\ Subject(u)' = Subject(u)
  BY <1>2 DEF Subject
<1>4. QED
  BY <1>1, <1>2, <1>3, QuietChain

LEMMA RollbackChain ==
  ASSUME ChainInv, NEW t \in Tx, Rollback(t)
  PROVE  ChainInv'
<1>1. FormInv'
  BY RollbackForm DEF ChainInv
<1>2. /\ events' = events /\ pc'[t] = "idle" /\ newEvents'[t] = {}
      /\ \A u \in Tx \ {t} : /\ pc'[u] = pc[u] /\ cmd'[u] = cmd[u] /\ number'[u] = number[u]
                             /\ tail'[u] = tail[u] /\ newEvents'[u] = newEvents[u]
  BY DEF Rollback, Release, db, ChainInv, FormInv, TypeOK
<1>3. \A u \in Tx : pc'[u] = "append" =>
        pc[u] = "append" /\ tail'[u] = tail[u] /\ Subject(u)' = Subject(u)
  BY <1>2 DEF Subject
<1>4. QED
  BY <1>1, <1>2, <1>3, QuietChain

\* A step to a label other than "append" that appends nothing.
LEMMA GotoChain ==
  ASSUME ChainInv, FormInv', NEW t \in Tx, NEW next \in Label \ {"append"}, Goto(t, next),
         UNCHANGED newEvents, UNCHANGED tail,
         \A u \in Tx \ {t} : number'[u] = number[u]
  PROVE  ChainInv'
<1>1. /\ events' = events /\ cmd' = cmd /\ pc'[t] # "append"
      /\ \A u \in Tx \ {t} : pc'[u] = pc[u]
  BY DEF Goto, db, ChainInv, FormInv, TypeOK
<1>2. \A u \in Tx : pc'[u] = "append" =>
        pc[u] = "append" /\ tail'[u] = tail[u] /\ Subject(u)' = Subject(u)
  BY <1>1 DEF Subject
<1>3. QED
  BY <1>1, <1>2, QuietChain

LEMMA RetryChain ==
  ASSUME ChainInv, FormInv', NEW t \in Tx, NEW limit \in Nat, NEW again \in {"number", "read"},
         Retry(t, limit, again)
  PROVE  ChainInv'
<1>1. CASE Rollback(t)
  BY <1>1, RollbackChain
<1>2. CASE Goto(t, again) /\ UNCHANGED <<number, tail, newRows, newEvents>>
  BY <1>2, GotoChain DEF Label
<1>3. QED
  BY <1>1, <1>2 DEF Retry

\* Reading the tail: the appender now holds the hash of a committed event.
LEMMA ReadTailChain ==
  ASSUME ChainInv, NEW t \in Tx, ReadTail(t)
  PROVE  ChainInv'
<1>1. FormInv'
  BY ReadTailForm DEF ChainInv
<1>2. /\ UNCHANGED <<events, cmd, number, newEvents>>
      /\ \A u \in Tx \ {t} : pc'[u] = pc[u] /\ tail'[u] = tail[u]
      /\ \/ tail'[t] = GENESIS_HASH
         \/ \E last \in EventsOf(Subject(t)) : tail'[t] = hashEvent(last)
  BY DEF ReadTail, Goto, db, ChainInv, FormInv, TypeOK
<1>3. \A u \in Tx : Subject(u)' = Subject(u)
  BY <1>2 DEF Subject
<1>4. TailIsCommitted'
  BY <1>2, <1>3 DEF ChainInv, TailIsCommitted, EventsOf
<1>5. PendingIsNext' /\ Dense' /\ ChainVerifies'
  BY <1>2 DEF ChainInv, PendingIsNext, Dense, ChainVerifies, OneEventPerSeq, Linked
<1>6. QED
  BY <1>1, <1>4, <1>5 DEF ChainInv

\* An event that may be inserted carries the hash of its committed predecessor, and a
\* seq above every committed one.
LEMMA NextFollows ==
  ASSUME ChainInv, NEW t \in Tx, pc[t] = "append", ~SeqTaken(Subject(t), NextSeq(t))
  PROVE  /\ Linked(NextEvent(t), events)
         /\ \A d \in events : d.grievanceId = Subject(t) => d.seq < NextSeq(t)
<1> DEFINE e == NextEvent(t)
<1>1. /\ e \in Event /\ e.grievanceId = Subject(t) /\ e.seq = NextSeq(t) /\ e.prevHash = tail[t]
      /\ events \subseteq Event
  BY NextEventIsEvent DEF NextEvent, ChainInv, FormInv, TypeOK
<1>2. ASSUME tail[t] = GENESIS_HASH PROVE Linked(e, events)
  <2>1. e.seq = 1
    BY <1>1, <1>2 DEF NextSeq, GENESIS_HASH
  <2>2. QED
    BY <1>1, <1>2, <2>1 DEF Linked
<1>3. ASSUME tail[t] # GENESIS_HASH PROVE Linked(e, events)
  <2>1. PICK d \in events : d.grievanceId = Subject(t) /\ hashEvent(d) = tail[t]
    BY <1>3 DEF ChainInv, TailIsCommitted
  <2>2. d.seq \in Nat \ {0} /\ d.seq = tail[t].seq
    BY <1>1, <2>1 DEF Event, hashEvent
  <2>3. e.seq = d.seq + 1 /\ e.seq # 1
    BY <1>1, <2>2 DEF NextSeq
  <2>4. QED
    BY <1>1, <2>1, <2>3 DEF Linked
<1>4. ASSUME NEW d \in events, d.grievanceId = Subject(t) PROVE d.seq < NextSeq(t)
  <2>1. d.seq \in Nat \ {0} /\ NextSeq(t) \in Nat \ {0}
    BY <1>1 DEF Event
  <2>2. SUFFICES ASSUME NextSeq(t) <= d.seq PROVE FALSE
    BY <2>1
  <2>3. NextSeq(t) \in 1 .. d.seq
    BY <2>1, <2>2
  <2>4. PICK c \in events : c.grievanceId = d.grievanceId /\ c.seq = NextSeq(t)
    BY <2>3 DEF ChainInv, Dense
  <2>5. QED
    BY <1>4, <2>4 DEF SeqTaken, EventsOf
<1>5. QED
  BY <1>2, <1>3, <1>4

\* Two events that both come next in one trail claim the same seq.
LEMMA NextIsUnique ==
  ASSUME NEW log \in SUBSET Event, NEW d \in Event, NEW e \in Event,
         d.grievanceId = e.grievanceId, Linked(d, log), Linked(e, log),
         \A c \in log : c.grievanceId = e.grievanceId => c.seq < d.seq /\ c.seq < e.seq
  PROVE  d.seq = e.seq
<1>1. d.seq \in Nat \ {0} /\ e.seq \in Nat \ {0} /\ \A c \in log : c.seq \in Nat \ {0}
  BY DEF Event
<1>2. CASE d.seq = 1 \/ e.seq = 1
  BY <1>1, <1>2 DEF Linked
<1>3. CASE d.seq # 1 /\ e.seq # 1
  <2>1. PICK b \in log : b.grievanceId = d.grievanceId /\ b.seq + 1 = d.seq
    BY <1>3 DEF Linked
  <2>2. PICK c \in log : c.grievanceId = e.grievanceId /\ c.seq + 1 = e.seq
    BY <1>3 DEF Linked
  <2>3. QED
    BY <1>1, <2>1, <2>2
<1>4. QED
  BY <1>2, <1>3

LEMMA AppendEventChain ==
  ASSUME ChainInv, NEW t \in Tx, AppendEvent(t)
  PROVE  ChainInv'
<1> DEFINE e == NextEvent(t)
<1>1. FormInv' /\ FormInv
  BY AppendEventForm DEF ChainInv
<1>2. /\ pc[t] = "append" /\ pc'[t] # "append"
      /\ UNCHANGED <<events, cmd, number, tail>>
      /\ \A u \in Tx \ {t} : pc'[u] = pc[u] /\ newEvents'[u] = newEvents[u]
      /\ newEvents'[t] = newEvents[t] \cup {e}
  BY <1>1 DEF AppendEvent, AfterAppend, Goto, db, FormInv, TypeOK
<1>3. /\ e \in Event /\ e.grievanceId = Subject(t) /\ e.seq = NextSeq(t)
      /\ events \subseteq Event /\ \A u \in Tx : newEvents[u] \subseteq Event
  BY <1>1, <1>2, NextEventIsEvent DEF NextEvent, FormInv, TypeOK
<1>4. /\ Linked(e, events)
      /\ \A d \in events : d.grievanceId = e.grievanceId => d.seq < e.seq
  BY <1>2, <1>3, NextFollows DEF AppendEvent
<1>5. ASSUME NEW u \in Tx, NEW d \in newEvents[u] PROVE d.grievanceId # e.grievanceId
  <2>1. SUFFICES ASSUME d.grievanceId = e.grievanceId PROVE FALSE
    OBVIOUS
  <2>2. CASE u = t
    BY <1>1, <1>2, <1>3, <2>1, <2>2 DEF FormInv, WritesAreFormed, Subject, Holding
  <2>3. CASE u # t
    <3>1. Linked(d, events) /\ \A c \in events : c.grievanceId = d.grievanceId => c.seq < d.seq
      BY DEF ChainInv, PendingIsNext
    <3>2. d.seq = e.seq
      BY <1>3, <1>4, <2>1, <3>1, NextIsUnique
    <3>3. QED
      BY <1>3, <2>1, <2>3, <3>2 DEF AppendEvent, SeqClaimed
  <2>4. QED
    BY <2>2, <2>3
<1>6. PendingIsNext'
  <2>1. ASSUME NEW u \in Tx, NEW d \in newEvents'[u]
        PROVE  (u = t /\ d = e) \/ d \in newEvents[u]
    BY <1>2, <2>1
  <2>2. ASSUME NEW u \in Tx, NEW d \in newEvents'[u]
        PROVE  /\ Linked(d, events)
               /\ \A c \in events : c.grievanceId = d.grievanceId => c.seq < d.seq
    BY <1>4, <2>1, <2>2 DEF ChainInv, PendingIsNext
  <2>3. ASSUME NEW u \in Tx, NEW v \in Tx, NEW d \in newEvents'[u], NEW c \in newEvents'[v],
               c.grievanceId = d.grievanceId
        PROVE  u = v /\ c = d
    BY <1>5, <2>1, <2>3 DEF ChainInv, PendingIsNext
  <2>4. QED
    BY <1>2, <2>2, <2>3 DEF PendingIsNext, Linked
<1>7. TailIsCommitted'
  BY <1>2 DEF ChainInv, TailIsCommitted, Subject
<1>8. Dense' /\ ChainVerifies'
  BY <1>2 DEF ChainInv, Dense, ChainVerifies, OneEventPerSeq, Linked
<1>9. QED
  BY <1>1, <1>6, <1>7, <1>8 DEF ChainInv

\* A commit extends the chain of each grievance it touches by one link.
LEMMA CommitChain ==
  ASSUME ChainInv, NEW t \in Tx, Commit(t)
  PROVE  ChainInv'
<1>1. FormInv' /\ FormInv
  BY CommitForm DEF ChainInv
<1>2. /\ events' = events \cup newEvents[t]
      /\ pc'[t] = "idle" /\ newEvents'[t] = {}
      /\ \A u \in Tx \ {t} : /\ pc'[u] = pc[u] /\ cmd'[u] = cmd[u] /\ number'[u] = number[u]
                             /\ tail'[u] = tail[u] /\ newEvents'[u] = newEvents[u]
  BY <1>1 DEF Commit, Release, FormInv, TypeOK
<1>3. events' \subseteq Event
  BY <1>1 DEF FormInv, TypeOK
<1>4. \A e : Linked(e, events) => Linked(e, events')
  BY <1>2 DEF Linked
<1>5. /\ \A e \in newEvents[t] : Linked(e, events)
      /\ \A e \in newEvents[t], d \in events : d.grievanceId = e.grievanceId => d.seq < e.seq
      /\ \A d, e \in newEvents[t] : d.grievanceId = e.grievanceId => d = e
      /\ \A u \in Tx \ {t} : \A d \in newEvents[t], e \in newEvents[u] : d.grievanceId # e.grievanceId
  BY DEF ChainInv, PendingIsNext
<1>6. TailIsCommitted'
  BY <1>2 DEF ChainInv, TailIsCommitted, Subject
<1>7. PendingIsNext'
  <2>1. ASSUME NEW u \in Tx, NEW e \in newEvents'[u]
        PROVE  u # t /\ e \in newEvents[u]
    BY <1>2, <2>1
  <2>2. ASSUME NEW u \in Tx, NEW e \in newEvents'[u]
        PROVE  Linked(e, events')
    BY <1>4, <2>1, <2>2 DEF ChainInv, PendingIsNext
  <2>3. ASSUME NEW u \in Tx, NEW e \in newEvents'[u], NEW d \in events',
               d.grievanceId = e.grievanceId
        PROVE  d.seq < e.seq
    BY <1>2, <1>5, <2>1, <2>3 DEF ChainInv, PendingIsNext
  <2>4. ASSUME NEW u \in Tx, NEW v \in Tx, NEW e \in newEvents'[u], NEW d \in newEvents'[v],
               d.grievanceId = e.grievanceId
        PROVE  u = v /\ d = e
    BY <2>1, <2>4 DEF ChainInv, PendingIsNext
  <2>5. QED
    BY <2>2, <2>3, <2>4 DEF PendingIsNext
<1>8. Dense'
  <2>1. SUFFICES ASSUME NEW d \in events', NEW n \in 1 .. d.seq
                 PROVE  \E e \in events' : e.grievanceId = d.grievanceId /\ e.seq = n
    BY DEF Dense
  <2>2. d.seq \in Nat \ {0}
    BY <1>3 DEF Event
  <2>3. CASE d \in events
    BY <1>2, <2>3 DEF ChainInv, Dense
  <2>4. CASE n = d.seq
    BY <2>4
  <2>5. CASE d \in newEvents[t] /\ n # d.seq
    <3>1. PICK c \in events : c.grievanceId = d.grievanceId /\ c.seq + 1 = d.seq
      BY <1>5, <2>2, <2>5 DEF Linked
    <3>2. c.seq \in Nat
      BY <1>2, <1>3, <3>1 DEF Event
    <3>3. n \in 1 .. c.seq
      BY <2>2, <2>5, <3>1, <3>2
    <3>4. QED
      BY <1>2, <3>1, <3>3 DEF ChainInv, Dense
  <2>6. QED
    BY <1>2, <2>3, <2>4, <2>5
<1>9. OneEventPerSeq'
  <2>1. ASSUME NEW d \in events, NEW e \in newEvents[t], d.grievanceId = e.grievanceId
        PROVE  d.seq # e.seq
    BY <1>2, <1>3, <1>5, <2>1 DEF Event
  <2>2. QED
    BY <1>2, <1>5, <2>1 DEF ChainInv, ChainVerifies, OneEventPerSeq
<1>10. ChainVerifies'
  BY <1>2, <1>4, <1>5, <1>9 DEF ChainInv, ChainVerifies
<1>11. QED
  BY <1>1, <1>6, <1>7, <1>8, <1>10 DEF ChainInv

LEMMA ContinueChain ==
  ASSUME ChainInv, NEW t \in Tx, Continue(t)
  PROVE  ChainInv'
<1>1. FormInv' /\ FormInv
  BY ContinueForm DEF ChainInv
<1>2. CASE CountReferences(t)
  BY <1>1, <1>2, GotoChain DEF CountReferences, Label, FormInv, TypeOK
<1>3. CASE InsertGrievance(t)
  BY <1>1, <1>3, GotoChain DEF InsertGrievance, Label
<1>4. CASE RetryReference(t)
  BY <1>1, <1>4, RetryChain, BoundsAssumption DEF RetryReference, BoundsAssumption
<1>5. CASE UpdateGrievance(t)
  BY <1>1, <1>5, GotoChain DEF UpdateGrievance, Label
<1>6. CASE LoseStatusRace(t)
  BY <1>6, RollbackChain DEF LoseStatusRace, Denied
<1>7. CASE ReadTail(t)
  BY <1>7, ReadTailChain
<1>8. CASE AppendEvent(t)
  BY <1>8, AppendEventChain
<1>9. CASE RetryAppend(t)
  BY <1>1, <1>9, RetryChain, BoundsAssumption DEF RetryAppend, BoundsAssumption
<1>10. CASE Commit(t)
  BY <1>10, CommitChain
<1>11. QED
  BY <1>2, <1>3, <1>4, <1>5, <1>6, <1>7, <1>8, <1>9, <1>10 DEF Continue

LEMMA StutterChain == ASSUME ChainInv, UNCHANGED vars PROVE ChainInv'
<1>1. FormInv'
  BY StutterForm DEF ChainInv
<1>2. QED
  BY <1>1, QuietChain DEF vars, Subject

\* No step forks a chain or leaves a gap in one.
LEMMA NextChain == ChainInv /\ [Next]_vars => ChainInv'
<1>1. SUFFICES ASSUME ChainInv, [Next]_vars PROVE ChainInv'
  OBVIOUS
<1>2. CASE UNCHANGED vars
  BY <1>1, <1>2, StutterChain
<1>3. ASSUME NEW t \in Tx, Begin(t) \/ Continue(t) \/ Abort(t) PROVE ChainInv'
  BY <1>1, <1>3, BeginChain, ContinueChain, RollbackChain DEF Abort
<1>4. QED
  BY <1>1, <1>2, <1>3 DEF Next

\* The audit trail of every grievance verifies in every reachable state: one event per
\* seq, each carrying the hash of the one before it, from the genesis hash on.
THEOREM ChainSafe == Spec => []ChainVerifies
<1>1. ChainInv => ChainVerifies
  BY DEF ChainInv
<1>2. QED
  BY <1>1, InitChain, NextChain, PTL DEF Spec

-----------------------------------------------------------------------------
(* What one transaction holds. *)

LEMMA InitTx == ASSUME Init, NEW t \in Tx PROVE TxInv(t)
<1>1. pc[t] = "idle" /\ cmd[t] = NoCommand /\ newRows[t] = NoRows /\ newEvents[t] = {}
  BY DEF Init
<1>2. \A g \in GrievanceId : newRows[t][g] = NULL
  BY <1>1 DEF NoRows
<1>3. QED
  BY <1>1, <1>2 DEF TxInv, IsGranted, RowsAreLocked, UpdateIsInOrder, EventsAreDue, NoCommand, CommandNames

\* What a transaction holds, others cannot take away: they leave its rows alone and
\* change no column that its grant is about.
LEMMA OthersKeepTx ==
  ASSUME FormInv, NEW t \in Tx, NEW u \in Tx \ {t}, TxInv(u),
         pc'[u] = pc[u], cmd'[u] = cmd[u], seen'[u] = seen[u], number'[u] = number[u],
         tail'[u] = tail[u], newRows'[u] = newRows[u], newEvents'[u] = newEvents[u],
         \A v \in Tx \ {t} : newRows'[v] = newRows[v],
         \A g \in GrievanceId : newRows[u][g] # NULL => newRows'[t][g] = NULL /\ grievances'[g] = grievances[g],
         \A g \in Existing : SameCase(grievances[g], grievances'[g])
  PROVE  TxInv(u)'
<1>1. IsGranted(u)'
  <2>1. cmd[u].op \in CommandNames \ {"submit"} => cmd[u].target \in Existing
    BY DEF FormInv, CommandIsFormed
  <2>2. IsGranted(u)
    BY DEF TxInv
  <2>3. cmd[u].op \in CommandNames \ {"submit"} => SameCase(seen[u], grievances'[cmd[u].target])
    BY <2>1, <2>2 DEF IsGranted, SameCase
  <2>4. QED
    BY <2>2, <2>3 DEF IsGranted
<1>2. RowsAreLocked(u)'
  <2>1. ASSUME NEW g \in GrievanceId, newRows'[u][g] # NULL, NEW v \in Tx \ {u} PROVE newRows'[v][g] = NULL
    BY <2>1 DEF TxInv, RowsAreLocked
  <2>2. ASSUME NEW g \in GrievanceId, newRows'[u][g] # NULL
        PROVE  \/ /\ cmd'[u].op \in {"submit", "appeal"} /\ g = number'[u]
                  /\ g \notin Existing' /\ newRows'[u][g] = InsertedRow(u)'
               \/ /\ cmd'[u].op \in {"transition", "close", "assign", "appeal"} /\ g = cmd'[u].target
                  /\ g \in Existing' /\ newRows'[u][g] = UpdatedRow(u)' /\ ~StatusMoved(u)'
    <3>1. grievances'[g] = grievances[g] /\ newRows[u][g] # NULL
      BY <2>2
    <3>2. CASE /\ cmd[u].op \in {"submit", "appeal"} /\ g = number[u]
               /\ g \notin Existing /\ newRows[u][g] = InsertedRow(u)
      BY <3>1, <3>2 DEF InsertedRow, Existing
    <3>3. CASE /\ cmd[u].op \in {"transition", "close", "assign", "appeal"} /\ g = cmd[u].target
               /\ g \in Existing /\ newRows[u][g] = UpdatedRow(u) /\ ~StatusMoved(u)
      BY <3>1, <3>3 DEF UpdatedRow, StatusMoved, Existing
    <3>4. QED
      BY <3>1, <3>2, <3>3 DEF TxInv, RowsAreLocked
  <2>3. QED
    BY <2>1, <2>2 DEF RowsAreLocked
<1>3. UpdateIsInOrder(u)'
  BY DEF TxInv, UpdateIsInOrder
<1>4. EventsAreDue(u)'
  BY DEF TxInv, EventsAreDue, Opens, Reports, NextSeq
<1>5. QED
  BY <1>1, <1>2, <1>3, <1>4 DEF TxInv

\* A statement that writes no row and commits nothing keeps what the others hold.
LEMMA QuietOthers ==
  ASSUME FormInv, NEW t \in Tx, \A u \in Tx : TxInv(u), UNCHANGED grievances,
         \A u \in Tx \ {t} :
           /\ pc'[u] = pc[u] /\ cmd'[u] = cmd[u] /\ seen'[u] = seen[u] /\ number'[u] = number[u]
           /\ tail'[u] = tail[u] /\ newRows'[u] = newRows[u] /\ newEvents'[u] = newEvents[u],
         \A g \in GrievanceId : newRows'[t][g] # NULL => newRows[t][g] # NULL
  PROVE  \A u \in Tx \ {t} : TxInv(u)'
<1> SUFFICES ASSUME NEW u \in Tx \ {t} PROVE TxInv(u)'
  OBVIOUS
<1>1. ASSUME NEW g \in GrievanceId, newRows[u][g] # NULL PROVE newRows'[t][g] = NULL
  BY <1>1 DEF TxInv, RowsAreLocked
<1>2. \A g \in Existing : SameCase(grievances[g], grievances'[g])
  BY DEF SameCase
<1>3. QED
  BY <1>1, <1>2, OthersKeepTx

\* A transaction that ends holds nothing.
LEMMA ReleaseTx ==
  ASSUME FormInv, NEW t \in Tx, Release(t)
  PROVE  TxInv(t)'
<1>1. pc'[t] = "idle" /\ cmd'[t] = NoCommand /\ newRows'[t] = NoRows /\ newEvents'[t] = {}
  BY DEF Release, FormInv, TypeOK
<1>2. \A g \in GrievanceId : newRows'[t][g] = NULL
  BY <1>1 DEF NoRows
<1>3. QED
  BY <1>1, <1>2 DEF TxInv, IsGranted, RowsAreLocked, UpdateIsInOrder, EventsAreDue, NoCommand, CommandNames

\* The invariant splits into what each transaction holds and what is committed.
LEMMA QuietRows ==
  ASSUME RowsInv, ChainInv', UNCHANGED db, \A t \in Tx : TxInv(t)',
         \A t \in Tx : pc'[t] \in Holding \cup {"insert"} => number'[t] <= Cardinality(Existing) + 1
  PROVE  RowsInv'
<1>1. UNCHANGED <<grievances, events, outbox>>
  BY DEF db
<1>2. Existing' = Existing /\ \A g : EventsOf(g)' = EventsOf(g)
  BY <1>1 DEF Existing, EventsOf
<1>3. NumbersAreDense' /\ EventsHaveRows'
  BY <1>1, <1>2 DEF RowsInv, NumbersAreDense, EventsHaveRows
<1>4. RowsAreProjections'
  BY <1>1, <1>2 DEF RowsInv, RowsAreProjections, StatusIsProjection, AssigneeIsProjection,
                    StampsAreProjection, Entered, IsLast
<1>5. AppealsArePaired'
  BY <1>1, <1>2 DEF RowsInv, AppealsArePaired
<1>6. OutboxMatchesHistory'
  BY <1>1 DEF RowsInv, OutboxMatchesHistory, FilerMail, StaffMail
<1>7. QED
  BY <1>3, <1>4, <1>5, <1>6 DEF RowsInv

-----------------------------------------------------------------------------
(* The first statement: the policy grants the command on the row it read. *)

LEMMA StartTx ==
  ASSUME RowsInv, NEW t \in Tx, NEW c \in Command, NEW row, NEW next \in {"number", "update", "read"},
         Start(t, c, row, next), FormInv',
         c.op = "submit" => UserRole[c.actor] = "student" /\ c.arg \in CategoryTracks,
         c.op \in {"transition", "close", "appeal"} => canSetStatus(Actor(c.actor), row, c.arg),
         c.op \in {"transition", "close"} => c.arg # "appealed",
         c.op = "close" => c.arg = "closed",
         c.op = "appeal" => c.arg = "appealed" /\ next = "number",
         c.op = "assign" => /\ canAssign(Actor(c.actor), row)
                            /\ UserRole[c.arg] \in {"redressal_officer", "ombudsperson"},
         c.op \in {"remark", "attach"} => canComment(Actor(c.actor), row),
         c.op = "remark" /\ c.arg = "internal" => isStaff(UserRole[c.actor]),
         c.op \in CommandNames \ {"submit"} => row = grievances[c.target],
         next = "number" <=> c.op \in {"submit", "appeal"}
  PROVE  RowsInv'
<1>0. FormInv /\ ChainInv /\ \A u \in Tx : TxInv(u)
  BY DEF RowsInv, ChainInv
<1>1. /\ pc[t] = "idle" /\ pc'[t] = next /\ cmd'[t] = c /\ seen'[t] = row
      /\ UNCHANGED <<grievances, events, outbox, number, tail, tries, newRows, newEvents>>
      /\ \A u \in Tx \ {t} : pc'[u] = pc[u] /\ cmd'[u] = cmd[u] /\ seen'[u] = seen[u]
  BY <1>0 DEF Start, FormInv, TypeOK
<1>2. newRows[t] = NoRows /\ newEvents[t] = {} /\ \A g \in GrievanceId : newRows[t][g] = NULL
  BY <1>0, <1>1 DEF FormInv, WritesAreFormed, NoRows
<1>3. TxInv(t)'
  <2>1. IsGranted(t)'
    BY <1>1 DEF IsGranted, SameCase
  <2>2. RowsAreLocked(t)'
    BY <1>1, <1>2 DEF RowsAreLocked
  <2>3. UpdateIsInOrder(t)'
    <3>1. next = "update" => c.target \in GrievanceId
      <4>1. CommandIsFormed(t)'
        BY DEF FormInv
      <4>2. QED
        BY <1>1, <4>1 DEF CommandIsFormed, Existing, CommandNames
    <3>2. QED
      BY <1>1, <1>2, <3>1 DEF UpdateIsInOrder
  <2>4. EventsAreDue(t)'
    BY <1>1, <1>2 DEF EventsAreDue
  <2>5. QED
    BY <2>1, <2>2, <2>3, <2>4 DEF TxInv
<1>4. \A u \in Tx \ {t} : TxInv(u)'
  BY <1>0, <1>1, QuietOthers
<1>5. ASSUME NEW u \in Tx, pc'[u] \in Holding \cup {"insert"} PROVE number'[u] <= Cardinality(Existing) + 1
  <2>1. CASE u = t
    <3>1. number[t] = 0
      BY <1>0, <1>1, <1>5, <2>1 DEF FormInv, CommandIsFormed, WritesAreFormed, Holding
    <3>2. QED
      BY <1>1, <2>1, <3>1, CountingRows
  <2>2. CASE u # t
    BY <1>1, <1>5, <2>2 DEF RowsInv, NumbersAreDense
  <2>3. QED
    BY <2>1, <2>2
<1>6. ChainInv'
  <2>1. \A u \in Tx : pc'[u] = "append" => pc[u] = "append" /\ tail'[u] = tail[u] /\ Subject(u)' = Subject(u)
    BY <1>1 DEF Subject
  <2>2. QED
    BY <1>0, <1>1, <2>1, QuietChain
<1>7. QED
  BY <1>1, <1>3, <1>4, <1>5, <1>6, QuietRows DEF db

LEMMA BeginRows ==
  ASSUME RowsInv, NEW t \in Tx, Begin(t)
  PROVE  RowsInv'
<1> DEFINE C(op, u, g, a, anon) == [op |-> op, actor |-> u, target |-> g, arg |-> a, anon |-> anon]
<1>1. FormInv /\ FormInv'
  BY BeginForm DEF RowsInv, ChainInv
<1>2. \A g \in Existing : g \in GrievanceId /\ grievances[g] \in Grievance
  BY <1>1 DEF Existing, FormInv, TypeOK
<1>3. \A op \in CommandNames, u \in Users, g \in GrievanceId \cup {NULL}, anon \in BOOLEAN,
         a \in Status \cup Track \cup Users \cup {"public", "internal", NULL} : C(op, u, g, a, anon) \in Command
  BY DEF Command
<1>4. {"withdrawn", "closed", "appealed"} \subseteq Status
  BY DEF Status
<1>5. ASSUME NEW u \in Users, NEW track \in CategoryTracks, NEW anonymous \in Anonymity,
             SubmitGrievance(t, u, track, anonymous)
      PROVE  RowsInv'
  <2>1. C("submit", u, NULL, track, anonymous) \in Command
    BY <1>3, ChoicesAssumption DEF CommandNames
  <2>2. QED
    BY <1>1, <1>5, <2>1, StartTx DEF SubmitGrievance
<1>6. ASSUME NEW u \in Users, NEW g \in Existing, NEW to \in Status,
             TransitionStatus(t, u, g, to) \/ (to = "withdrawn" /\ WithdrawGrievance(t, u, g))
      PROVE  RowsInv'
  <2>1. C("transition", u, g, to, FALSE) \in Command
    BY <1>2, <1>3 DEF CommandNames
  <2>2. canSetStatus(Actor(u), grievances[g], to) /\ Start(t, C("transition", u, g, to, FALSE), grievances[g], "update")
    BY <1>6 DEF TransitionStatus, WithdrawGrievance
  <2>3. to # "appealed"
    BY <1>6, <2>2 DEF TransitionStatus, canSetStatus, TRANSITION_ROLES, isStaff, STAFF_ROLES, Actor
  <2>4. QED
    BY <1>1, <2>1, <2>2, <2>3, StartTx
<1>7. ASSUME NEW u \in Users, NEW g \in Existing, CloseGrievance(t, u, g) PROVE RowsInv'
  <2>1. C("close", u, g, "closed", FALSE) \in Command
    BY <1>2, <1>3, <1>4 DEF CommandNames
  <2>2. QED
    BY <1>1, <1>7, <2>1, StartTx DEF CloseGrievance
<1>8. ASSUME NEW u \in Users, NEW g \in Existing, NEW assignee \in Users, AssignGrievance(t, u, g, assignee)
      PROVE  RowsInv'
  <2>1. C("assign", u, g, assignee, FALSE) \in Command
    BY <1>2, <1>3 DEF CommandNames
  <2>2. QED
    BY <1>1, <1>8, <2>1, StartTx DEF AssignGrievance
<1>9. ASSUME NEW u \in Users, NEW g \in Existing, NEW visibility \in {"public", "internal"},
             AddRemark(t, u, g, visibility)
      PROVE  RowsInv'
  <2>1. C("remark", u, g, visibility, FALSE) \in Command
    BY <1>2, <1>3 DEF CommandNames
  <2>2. QED
    BY <1>1, <1>9, <2>1, StartTx DEF AddRemark
<1>10. ASSUME NEW u \in Users, NEW g \in Existing, AddAttachment(t, u, g) PROVE RowsInv'
  <2>1. C("attach", u, g, "public", FALSE) \in Command
    BY <1>2, <1>3 DEF CommandNames
  <2>2. QED
    BY <1>1, <1>10, <2>1, StartTx DEF AddAttachment
<1>11. ASSUME NEW u \in Users, NEW g \in Existing, FileAppeal(t, u, g) PROVE RowsInv'
  <2>1. C("appeal", u, g, "appealed", FALSE) \in Command
    BY <1>2, <1>3, <1>4 DEF CommandNames
  <2>2. QED
    BY <1>1, <1>11, <2>1, StartTx DEF FileAppeal
<1>12. QED
  BY <1>4, <1>5, <1>6, <1>7, <1>8, <1>9, <1>10, <1>11 DEF Begin

-----------------------------------------------------------------------------
(* The statements in between. *)

\* A statement of t that leaves the committed rows alone, in terms of what t holds then.
LEMMA StatementRows ==
  ASSUME RowsInv, ChainInv', NEW t \in Tx, NEW next \in Label, Goto(t, next), TxInv(t)',
         \A u \in Tx \ {t} : /\ number'[u] = number[u] /\ tail'[u] = tail[u]
                             /\ newRows'[u] = newRows[u] /\ newEvents'[u] = newEvents[u],
         \A u \in Tx \ {t}, g \in GrievanceId : newRows[u][g] # NULL => newRows'[t][g] = NULL,
         next \in Holding \cup {"insert"} => number'[t] <= Cardinality(Existing) + 1
  PROVE  RowsInv'
<1>1. FormInv /\ \A u \in Tx : TxInv(u)
  BY DEF RowsInv, ChainInv
<1>2. /\ UNCHANGED <<grievances, events, outbox, cmd, seen>> /\ pc'[t] = next
      /\ \A u \in Tx \ {t} : pc'[u] = pc[u]
  BY <1>1 DEF Goto, db, FormInv, TypeOK
<1>3. \A g \in Existing : SameCase(grievances[g], grievances'[g])
  BY <1>2 DEF SameCase
<1>4. \A u \in Tx \ {t} : TxInv(u)'
  BY <1>1, <1>2, <1>3, OthersKeepTx
<1>5. \A u \in Tx : pc'[u] \in Holding \cup {"insert"} => number'[u] <= Cardinality(Existing) + 1
  BY <1>2 DEF RowsInv, NumbersAreDense
<1>6. QED
  BY <1>2, <1>4, <1>5, QuietRows DEF db

\* Rows that somebody else has written, t has not.
LEMMA RowsOfOthers ==
  ASSUME RowsInv, NEW t \in Tx, NEW u \in Tx \ {t}, NEW g \in GrievanceId, newRows[u][g] # NULL
  PROVE  newRows[t][g] = NULL
BY DEF RowsInv, TxInv, RowsAreLocked

LEMMA CountReferencesRows ==
  ASSUME RowsInv, NEW t \in Tx, CountReferences(t)
  PROVE  RowsInv'
<1>1. FormInv /\ ChainInv /\ ChainInv' /\ TxInv(t)
  BY ContinueChain DEF RowsInv, ChainInv, Continue
<1>2. /\ pc[t] = "number" /\ pc'[t] = "insert" /\ number'[t] = Cardinality(Existing) + 1
      /\ \A u \in Tx \ {t} : number'[u] = number[u]
      /\ UNCHANGED <<grievances, cmd, seen, tail, newRows, newEvents>>
  BY <1>1 DEF CountReferences, ReferencesInUse, Goto, db, FormInv, TypeOK
<1>3. newRows[t] = NoRows /\ newEvents[t] = {} /\ \A g \in GrievanceId : newRows[t][g] = NULL
  BY <1>1, <1>2 DEF FormInv, WritesAreFormed, NoRows
<1>4. TxInv(t)'
  BY <1>1, <1>2, <1>3 DEF TxInv, IsGranted, RowsAreLocked, UpdateIsInOrder, EventsAreDue
<1>5. QED
  BY <1>1, <1>2, <1>3, <1>4, CountingRows, StatementRows DEF CountReferences, Label

LEMMA InsertGrievanceRows ==
  ASSUME RowsInv, NEW t \in Tx, InsertGrievance(t)
  PROVE  RowsInv'
<1>1. FormInv /\ ChainInv /\ ChainInv' /\ TxInv(t)
  BY ContinueChain DEF RowsInv, ChainInv, Continue
<1>2. /\ pc[t] = "insert" /\ pc'[t] = "read" /\ number[t] \in GrievanceId \ Existing
      /\ ~RowLocked(t, number[t])
      /\ newRows' = [newRows EXCEPT ![t][number[t]] = InsertedRow(t)]
      /\ UNCHANGED <<grievances, cmd, seen, number, tail, newEvents>>
  BY <1>1 DEF InsertGrievance, Goto, db, FormInv, TypeOK
<1>3. newRows[t] = NoRows /\ newEvents[t] = {} /\ cmd[t].op \in {"submit", "appeal"}
  BY <1>1, <1>2 DEF FormInv, WritesAreFormed, CommandIsFormed
<1>4. /\ newRows'[t][number[t]] = InsertedRow(t)
      /\ \A g \in GrievanceId : g # number[t] => newRows'[t][g] = NULL
      /\ \A u \in Tx \ {t} : newRows'[u] = newRows[u] /\ newRows[u][number[t]] = NULL
  BY <1>1, <1>2, <1>3 DEF FormInv, TypeOK, NoRows, RowLocked
<1>5. cmd[t].op = "appeal" => cmd[t].target \in Existing /\ cmd[t].target \in GrievanceId
  BY <1>1 DEF FormInv, CommandIsFormed, CommandNames, Existing
<1>6. Existing' = Existing /\ InsertedRow(t)' = InsertedRow(t)
  BY <1>2 DEF Existing, InsertedRow
<1>7. TxInv(t)'
  <2>1. IsGranted(t)'
    BY <1>1, <1>2 DEF TxInv, IsGranted
  <2>2. RowsAreLocked(t)'
    BY <1>2, <1>3, <1>4, <1>6 DEF RowsAreLocked
  <2>3. UpdateIsInOrder(t)'
    BY <1>2, <1>3, <1>4, <1>5 DEF UpdateIsInOrder
  <2>4. EventsAreDue(t)'
    BY <1>2, <1>3 DEF EventsAreDue
  <2>5. QED
    BY <2>1, <2>2, <2>3, <2>4 DEF TxInv
<1>8. number[t] <= Cardinality(Existing) + 1
  BY <1>2 DEF RowsInv, NumbersAreDense
<1>9. \A u \in Tx \ {t}, g \in GrievanceId : newRows[u][g] # NULL => newRows'[t][g] = NULL
  BY <1>4
<1>10. QED
  BY <1>1, <1>2, <1>4, <1>7, <1>8, <1>9, StatementRows DEF InsertGrievance, Label

LEMMA UpdateGrievanceRows ==
  ASSUME RowsInv, NEW t \in Tx, UpdateGrievance(t)
  PROVE  RowsInv'
<1>1. FormInv /\ ChainInv /\ ChainInv' /\ TxInv(t)
  BY ContinueChain DEF RowsInv, ChainInv, Continue
<1>2. /\ pc[t] = "update" /\ pc'[t] = "read" /\ ~StatusMoved(t) /\ ~RowLocked(t, cmd[t].target)
      /\ newRows' = [newRows EXCEPT ![t][cmd[t].target] = UpdatedRow(t)]
      /\ UNCHANGED <<grievances, cmd, seen, number, tail, newEvents>>
  BY <1>1 DEF UpdateGrievance, Goto, db, FormInv, TypeOK
<1>3. /\ cmd[t].op \in {"transition", "close", "assign", "appeal"}
      /\ cmd[t].op = "appeal" => newEvents[t] # {}
      /\ cmd[t].target \in Existing /\ cmd[t].target \in GrievanceId /\ UpdatedRow(t) # NULL
  BY <1>1, <1>2, UpdatedIsRow, RowAssumption DEF FormInv, CommandIsFormed, WritesAreFormed, Existing
<1>4. /\ newRows'[t][cmd[t].target] = UpdatedRow(t)
      /\ \A g \in GrievanceId : g # cmd[t].target => newRows'[t][g] = newRows[t][g]
      /\ \A u \in Tx \ {t} : newRows'[u] = newRows[u] /\ newRows[u][cmd[t].target] = NULL
  BY <1>1, <1>2, <1>3 DEF FormInv, TypeOK, RowLocked
<1>5. /\ Existing' = Existing /\ InsertedRow(t)' = InsertedRow(t)
      /\ UpdatedRow(t)' = UpdatedRow(t) /\ StatusMoved(t)' = StatusMoved(t)
  BY <1>2 DEF Existing, InsertedRow, UpdatedRow, StatusMoved
<1>6. TxInv(t)'
  <2>1. IsGranted(t)'
    BY <1>1, <1>2 DEF TxInv, IsGranted
  <2>2. RowsAreLocked(t)'
    <3>1. ASSUME NEW g \in GrievanceId, g # cmd[t].target, newRows'[t][g] # NULL
          PROVE  /\ \A u \in Tx \ {t} : newRows'[u][g] = NULL
                 /\ cmd[t].op \in {"submit", "appeal"} /\ g = number[t]
                 /\ g \notin Existing /\ newRows'[t][g] = InsertedRow(t)
      BY <1>1, <1>4, <3>1 DEF TxInv, RowsAreLocked
    <3>2. QED
      BY <1>2, <1>3, <1>4, <1>5, <3>1 DEF RowsAreLocked
  <2>3. UpdateIsInOrder(t)'
    BY <1>2, <1>3, <1>4 DEF UpdateIsInOrder
  <2>4. EventsAreDue(t)'
    BY <1>1, <1>2 DEF TxInv, EventsAreDue, Opens, Reports
  <2>5. QED
    BY <2>1, <2>2, <2>3, <2>4 DEF TxInv
<1>7. number[t] <= Cardinality(Existing) + 1
  BY <1>2 DEF RowsInv, NumbersAreDense, Holding
<1>8. \A u \in Tx \ {t}, g \in GrievanceId : newRows[u][g] # NULL => newRows'[t][g] = NULL
  BY <1>4, RowsOfOthers
<1>9. QED
  BY <1>1, <1>2, <1>4, <1>6, <1>7, <1>8, StatementRows DEF UpdateGrievance, Label

LEMMA ReadTailRows ==
  ASSUME RowsInv, NEW t \in Tx, ReadTail(t)
  PROVE  RowsInv'
<1>1. FormInv /\ ChainInv /\ ChainInv' /\ TxInv(t)
  BY ContinueChain DEF RowsInv, ChainInv, Continue
<1>2. /\ pc[t] = "read" /\ pc'[t] = "append" /\ UNCHANGED <<grievances, cmd, seen, number, newRows, newEvents>>
      /\ \A u \in Tx \ {t} : tail'[u] = tail[u]
  BY <1>1 DEF ReadTail, Goto, db, FormInv, TypeOK
<1>3. TxInv(t)'
  <2>1. IsGranted(t)' /\ UpdateIsInOrder(t)'
    BY <1>1, <1>2 DEF TxInv, IsGranted, UpdateIsInOrder
  <2>2. RowsAreLocked(t)'
    BY <1>1, <1>2 DEF TxInv, RowsAreLocked, Existing, InsertedRow, UpdatedRow, StatusMoved
  <2>3. EventsAreDue(t)'
    BY <1>1, <1>2 DEF TxInv, EventsAreDue, Opens, Reports
  <2>4. QED
    BY <2>1, <2>2, <2>3 DEF TxInv
<1>4. number[t] <= Cardinality(Existing) + 1
  BY <1>2 DEF RowsInv, NumbersAreDense, Holding
<1>5. QED
  BY <1>1, <1>2, <1>3, <1>4, RowsOfOthers, StatementRows DEF ReadTail, Label

\* The event that is appended opens the new case, or reports the command.
LEMMA NextEventIsDue ==
  ASSUME FormInv, NEW t \in Tx, pc[t] = "append"
  PROVE  IF cmd[t].op = "submit" \/ (cmd[t].op = "appeal" /\ newEvents[t] = {})
         THEN Opens(t, NextEvent(t))
         ELSE Reports(t, NextEvent(t))
<1>1. CommandIsFormed(t) /\ WritesAreFormed(t) /\ cmd[t].op \in CommandNames
  BY DEF FormInv, TypeOK, CommandIsFormed, Command
<1>2. CASE cmd[t].op = "submit" \/ (cmd[t].op = "appeal" /\ newEvents[t] = {})
  <2>1. Subject(t) = number[t] /\ EventTypeOf(t) = "submitted"
    BY <1>2 DEF Subject, EventTypeOf
  <2>2. QED
    BY <1>2, <2>1 DEF NextEvent, Opens, Says
<1>3. CASE ~(cmd[t].op = "submit" \/ (cmd[t].op = "appeal" /\ newEvents[t] = {}))
  <2>1. Subject(t) = cmd[t].target /\ cmd[t].target \in GrievanceId
    BY <1>1, <1>3 DEF Subject, CommandIsFormed, Existing
  <2>2. cmd[t].target # number[t]
    BY <1>1, <1>3, <2>1 DEF WritesAreFormed, Holding, GrievanceId
  <2>3. CASE cmd[t].op \in {"transition", "close"}
    BY <2>1, <2>2, <2>3 DEF EventTypeOf, NextEvent, Reports, Says
  <2>4. CASE cmd[t].op = "appeal"
    BY <1>3, <2>1, <2>2, <2>4 DEF EventTypeOf, NextEvent, Reports, Says
  <2>5. CASE cmd[t].op = "assign"
    BY <2>1, <2>2, <2>5 DEF EventTypeOf, NextEvent, Reports, Says
  <2>6. CASE cmd[t].op = "remark"
    BY <2>1, <2>2, <2>6 DEF EventTypeOf, NextEvent, Reports, Says
  <2>7. CASE cmd[t].op = "attach"
    BY <2>1, <2>2, <2>7 DEF EventTypeOf, NextEvent, Reports, Says
  <2>8. QED
    BY <1>1, <1>3, <2>3, <2>4, <2>5, <2>6, <2>7 DEF CommandNames
<1>4. QED
  BY <1>2, <1>3

LEMMA AppendEventRows ==
  ASSUME RowsInv, NEW t \in Tx, AppendEvent(t)
  PROVE  RowsInv'
<1>1. FormInv /\ ChainInv /\ ChainInv' /\ TxInv(t)
  BY ContinueChain DEF RowsInv, ChainInv, Continue
<1>2. /\ pc[t] = "append" /\ pc'[t] = AfterAppend(t) /\ AfterAppend(t) \in {"update", "commit"}
      /\ newEvents' = [newEvents EXCEPT ![t] = @ \cup {NextEvent(t)}]
      /\ UNCHANGED <<grievances, cmd, seen, number, tail, newRows>>
  BY <1>1 DEF AppendEvent, AfterAppend, Goto, db, FormInv, TypeOK
<1>3. newEvents'[t] = newEvents[t] \cup {NextEvent(t)} /\ \A u \in Tx \ {t} : newEvents'[u] = newEvents[u]
  BY <1>1, <1>2 DEF FormInv, TypeOK
<1>4. CommandIsFormed(t) /\ cmd[t].op \in CommandNames /\ NextEvent(t).seq = NextSeq(t)
  BY <1>1, <1>2 DEF FormInv, TypeOK, CommandIsFormed, Command, NextEvent
<1>5. AfterAppend(t) = "update" <=> (cmd[t].op = "appeal" /\ newEvents[t] = {})
  BY DEF AfterAppend
<1>6. TxInv(t)'
  <2>1. IsGranted(t)'
    BY <1>1, <1>2 DEF TxInv, IsGranted
  <2>2. RowsAreLocked(t)'
    BY <1>1, <1>2 DEF TxInv, RowsAreLocked, Existing, InsertedRow, UpdatedRow, StatusMoved
  <2>3. UpdateIsInOrder(t)'
    BY <1>1, <1>2, <1>5 DEF TxInv, UpdateIsInOrder
  <2>4. EventsAreDue(t)'
    <3>1. \A e : /\ Opens(t, e)' <=> Opens(t, e)
                 /\ Reports(t, e)' <=> Reports(t, e)
      BY <1>2 DEF Opens, Reports
    <3>2. NextSeq(t)' = NextSeq(t)
      BY <1>2 DEF NextSeq
    <3>3. CASE cmd[t].op = "submit" \/ (cmd[t].op = "appeal" /\ newEvents[t] = {})
      <4>1. Opens(t, NextEvent(t))
        BY <1>1, <1>2, <3>3, NextEventIsDue
      <4>2. QED
        BY <1>1, <1>2, <1>3, <1>4, <1>5, <3>1, <3>3, <4>1 DEF TxInv, EventsAreDue
    <3>4. CASE ~(cmd[t].op = "submit" \/ (cmd[t].op = "appeal" /\ newEvents[t] = {}))
      <4>1. Reports(t, NextEvent(t)) /\ cmd[t].op \in CommandNames \ {"submit"}
        BY <1>1, <1>2, <1>4, <3>4, NextEventIsDue
      <4>2. QED
        BY <1>1, <1>2, <1>3, <1>4, <1>5, <3>1, <3>2, <3>4, <4>1 DEF TxInv, EventsAreDue
    <3>5. QED
      BY <3>3, <3>4
  <2>5. QED
    BY <2>1, <2>2, <2>3, <2>4 DEF TxInv
<1>7. number[t] <= Cardinality(Existing) + 1
  BY <1>2 DEF RowsInv, NumbersAreDense, Holding
<1>8. QED
  BY <1>1, <1>2, <1>3, <1>6, <1>7, RowsOfOthers, StatementRows DEF AppendEvent, Label

LEMMA RollbackRows ==
  ASSUME RowsInv, NEW t \in Tx, Rollback(t)
  PROVE  RowsInv'
<1>1. FormInv /\ ChainInv' /\ \A u \in Tx : TxInv(u)
  BY RollbackChain DEF RowsInv, ChainInv
<1>2. /\ pc'[t] = "idle" /\ newRows'[t] = NoRows /\ UNCHANGED <<grievances, events, outbox>>
      /\ \A u \in Tx \ {t} :
           /\ pc'[u] = pc[u] /\ cmd'[u] = cmd[u] /\ seen'[u] = seen[u] /\ number'[u] = number[u]
           /\ tail'[u] = tail[u] /\ newRows'[u] = newRows[u] /\ newEvents'[u] = newEvents[u]
  BY <1>1 DEF Rollback, Release, db, FormInv, TypeOK
<1>3. \A g \in GrievanceId : newRows'[t][g] = NULL
  BY <1>2 DEF NoRows
<1>4. TxInv(t)' /\ \A u \in Tx \ {t} : TxInv(u)'
  BY <1>1, <1>2, <1>3, ReleaseTx, QuietOthers DEF Rollback
<1>5. \A u \in Tx : pc'[u] \in Holding \cup {"insert"} => number'[u] <= Cardinality(Existing) + 1
  BY <1>2 DEF RowsInv, NumbersAreDense, Holding
<1>6. QED
  BY <1>1, <1>2, <1>4, <1>5, QuietRows DEF db

LEMMA RetryRows ==
  ASSUME RowsInv, ChainInv', NEW t \in Tx, NEW limit \in Nat, NEW again \in {"number", "read"},
         Retry(t, limit, again), pc[t] = (IF again = "number" THEN "insert" ELSE "append")
  PROVE  RowsInv'
<1>1. CASE Rollback(t)
  BY <1>1, RollbackRows
<1>2. CASE Goto(t, again) /\ UNCHANGED <<number, tail, newRows, newEvents>>
  <2>1. FormInv /\ TxInv(t)
    BY DEF RowsInv, ChainInv
  <2>2. pc'[t] = again /\ UNCHANGED <<grievances, cmd, seen>>
    BY <1>2, <2>1 DEF Goto, db, FormInv, TypeOK
  <2>3. TxInv(t)'
    <3>1. IsGranted(t)' /\ UpdateIsInOrder(t)'
      BY <1>2, <2>1, <2>2 DEF TxInv, IsGranted, UpdateIsInOrder
    <3>2. RowsAreLocked(t)'
      BY <1>2, <2>1, <2>2 DEF TxInv, RowsAreLocked, Existing, InsertedRow, UpdatedRow, StatusMoved
    <3>3. EventsAreDue(t)'
      BY <1>2, <2>1, <2>2 DEF TxInv, EventsAreDue, Opens, Reports
    <3>4. QED
      BY <3>1, <3>2, <3>3 DEF TxInv
  <2>4. again \in Holding \cup {"insert"} => number[t] <= Cardinality(Existing) + 1
    BY DEF RowsInv, NumbersAreDense, Holding
  <2>5. QED
    BY <1>2, <2>3, <2>4, RowsOfOthers, StatementRows DEF Label
<1>3. QED
  BY <1>1, <1>2 DEF Retry

-----------------------------------------------------------------------------
(* The commit. *)

\* A commit opens a case, or records a command on its case, or both; the row it leaves is
\* what the UPDATE made of the committed version, and no other row changes.
LEMMA CommitEffect ==
  ASSUME RowsInv, NEW t \in Tx, Commit(t)
  PROVE  /\ cmd[t].op \in CommandNames /\ cmd[t].actor \in Users /\ newEvents[t] \subseteq Event
         /\ events' = events \cup newEvents[t] /\ outbox' = outbox \cup Messages(t)
         /\ cmd[t].op \in {"submit", "appeal"} =>
              /\ number[t] \in GrievanceId /\ number[t] \notin Existing
              /\ grievances'[number[t]] = InsertedRow(t) /\ InsertedRow(t) \in Grievance
              /\ \E d \in newEvents[t] : Opens(t, d) /\ d.seq = 1
         /\ cmd[t].op # "submit" =>
              /\ cmd[t].target \in GrievanceId /\ cmd[t].target \in Existing
              /\ cmd[t].target # number[t]
              /\ grievances[cmd[t].target] \in Grievance
              /\ SameCase(seen[t], grievances[cmd[t].target])
              /\ \E e \in newEvents[t] : Reports(t, e) /\ e.seq = NextSeq(t)
         /\ cmd[t].op \in {"transition", "close", "assign", "appeal"} =>
              grievances'[cmd[t].target] = UpdatedRow(t) /\ ~StatusMoved(t)
         /\ cmd[t].op \in {"remark", "attach"} => grievances' = grievances
         /\ \A g \in GrievanceId :
              \/ grievances'[g] = grievances[g]
              \/ cmd[t].op # "submit" /\ g = cmd[t].target
              \/ cmd[t].op \in {"submit", "appeal"} /\ g = number[t]
         /\ \A d \in newEvents[t] : \/ cmd[t].op \in {"submit", "appeal"} /\ Opens(t, d)
                                    \/ cmd[t].op \in CommandNames \ {"submit"} /\ Reports(t, d)
         /\ \A d, e \in newEvents[t] : d.grievanceId = e.grievanceId => d = e
         /\ \A e \in newEvents[t], d \in events : d.grievanceId = e.grievanceId => d.seq < e.seq
<1>1. FormInv /\ ChainInv /\ TxInv(t) /\ pc[t] = "commit"
  BY DEF RowsInv, ChainInv, Commit
<1>2. CommandIsFormed(t) /\ WritesAreFormed(t) /\ cmd[t] \in Command
      /\ newEvents[t] \subseteq Event /\ events \subseteq Event
  BY <1>1 DEF FormInv, TypeOK
<1>3. cmd[t].op \in CommandNames /\ cmd[t].actor \in Users
  BY <1>1, <1>2 DEF CommandIsFormed, Command
<1>4. /\ events' = events \cup newEvents[t] /\ outbox' = outbox \cup Messages(t)
      /\ \A g \in GrievanceId :
           grievances'[g] = IF newRows[t][g] # NULL THEN newRows[t][g] ELSE grievances[g]
      /\ grievances' = [g \in GrievanceId |-> IF newRows[t][g] # NULL THEN newRows[t][g] ELSE grievances[g]]
  BY DEF Commit
<1>5. /\ \A d \in newEvents[t] : \/ cmd[t].op \in {"submit", "appeal"} /\ Opens(t, d)
                                 \/ cmd[t].op \in CommandNames \ {"submit"} /\ Reports(t, d)
      /\ \A d, e \in newEvents[t] : d.grievanceId = e.grievanceId => d = e
      /\ \A e \in newEvents[t] : Linked(e, events)
      /\ \A e \in newEvents[t], d \in events : d.grievanceId = e.grievanceId => d.seq < e.seq
  BY <1>1 DEF TxInv, EventsAreDue, ChainInv, PendingIsNext
<1>6. ASSUME cmd[t].op # "submit"
      PROVE  /\ cmd[t].target \in GrievanceId /\ cmd[t].target \in Existing
             /\ cmd[t].target # number[t]
             /\ grievances[cmd[t].target] \in Grievance
             /\ SameCase(seen[t], grievances[cmd[t].target])
             /\ \E e \in newEvents[t] : Reports(t, e) /\ e.seq = NextSeq(t)
  <2>1. cmd[t].target \in GrievanceId /\ cmd[t].target \in Existing
    BY <1>2, <1>3, <1>6 DEF CommandIsFormed, Existing
  <2>2. cmd[t].target # number[t]
    BY <1>1, <1>2, <1>6, <2>1 DEF WritesAreFormed, Holding, GrievanceId
  <2>3. SameCase(seen[t], grievances[cmd[t].target])
    BY <1>1, <1>3, <1>6 DEF TxInv, IsGranted
  <2>4. \E e \in newEvents[t] : Reports(t, e) /\ e.seq = NextSeq(t)
    BY <1>1, <1>6 DEF TxInv, EventsAreDue
  <2>5. QED
    BY <1>1, <2>1, <2>2, <2>3, <2>4 DEF FormInv, TypeOK, Existing
<1>7. ASSUME cmd[t].op \in {"submit", "appeal"}
      PROVE  /\ number[t] \in GrievanceId /\ number[t] \notin Existing
             /\ grievances'[number[t]] = InsertedRow(t) /\ InsertedRow(t) \in Grievance
             /\ \E d \in newEvents[t] : Opens(t, d) /\ d.seq = 1
  <2>1. number[t] \in GrievanceId /\ newRows[t][number[t]] # NULL
    BY <1>1, <1>2, <1>7 DEF WritesAreFormed, Holding
  <2>2. number[t] \notin Existing /\ newRows[t][number[t]] = InsertedRow(t)
    BY <1>1, <1>6, <1>7, <2>1 DEF TxInv, RowsAreLocked
  <2>3. InsertedRow(t) \in Grievance
    BY <1>1, <2>1, <2>2 DEF FormInv, TypeOK
  <2>4. PICK d \in newEvents[t] : Opens(t, d)
    <3>1. CASE cmd[t].op = "submit"
      BY <1>1, <3>1 DEF TxInv, EventsAreDue
    <3>2. CASE cmd[t].op = "appeal"
      <4>1. newEvents[t] # {}
        BY <1>6, <3>2
      <4>2. QED
        BY <1>1, <3>2, <4>1 DEF TxInv, EventsAreDue
    <3>3. QED
      BY <1>7, <3>1, <3>2
  <2>5. d.grievanceId = number[t]
    BY <2>4 DEF Opens
  <2>6. d.seq = 1
    <3>1. SUFFICES ASSUME d.seq # 1 PROVE FALSE
      OBVIOUS
    <3>2. PICK b \in events : b.grievanceId = d.grievanceId
      BY <1>5, <3>1 DEF Linked
    <3>3. QED
      BY <2>2, <2>5, <3>2 DEF RowsInv, EventsHaveRows
  <2>7. QED
    BY <1>4, <2>1, <2>2, <2>3, <2>4, <2>6
<1>8. ASSUME cmd[t].op \in {"transition", "close", "assign", "appeal"}
      PROVE  grievances'[cmd[t].target] = UpdatedRow(t) /\ ~StatusMoved(t)
  <2>1. newRows[t][cmd[t].target] # NULL
    BY <1>1, <1>2, <1>8 DEF WritesAreFormed, TxInv, UpdateIsInOrder
  <2>2. newRows[t][cmd[t].target] = UpdatedRow(t) /\ ~StatusMoved(t)
    BY <1>1, <1>6, <1>8, <2>1 DEF TxInv, RowsAreLocked
  <2>3. QED
    BY <1>4, <1>6, <1>8, <2>1, <2>2
<1>9. \A g \in GrievanceId :
        \/ newRows[t][g] = NULL
        \/ cmd[t].op \in {"transition", "close", "assign", "appeal"} /\ g = cmd[t].target
        \/ cmd[t].op \in {"submit", "appeal"} /\ g = number[t]
  BY <1>1 DEF TxInv, RowsAreLocked
<1>10. cmd[t].op \in {"remark", "attach"} => grievances' = grievances
  <2>1. cmd[t].op \in {"remark", "attach"} => \A g \in GrievanceId : newRows[t][g] = NULL
    BY <1>9
  <2>2. QED
    BY <1>1, <1>4, <2>1 DEF FormInv, TypeOK
<1>11. QED
  BY <1>2, <1>3, <1>4, <1>5, <1>6, <1>7, <1>8, <1>9, <1>10

\* A command changes none of the columns that say whose case it is and what about.
LEMMA CommitSameCase ==
  ASSUME RowsInv, NEW t \in Tx, Commit(t), NEW g \in Existing
  PROVE  SameCase(grievances[g], grievances'[g]) /\ g \in Existing'
<1>1. g \in GrievanceId /\ grievances[g] \in Grievance
  BY DEF RowsInv, ChainInv, FormInv, TypeOK, Existing
<1>2. CASE grievances'[g] = grievances[g]
  BY <1>1, <1>2 DEF SameCase, Existing
<1>3. CASE cmd[t].op \in {"transition", "close", "assign", "appeal"} /\ g = cmd[t].target
  <2>1. grievances'[g] = UpdatedRow(t)
    BY <1>3, CommitEffect
  <2>2. pc[t] = "commit" /\ FormInv /\ CommandIsFormed(t)
    BY DEF RowsInv, ChainInv, FormInv, Commit
  <2>3. SameCase(grievances[g], UpdatedRow(t)) /\ UpdatedRow(t) \in Grievance
    <3>1. CASE cmd[t].op = "assign"
      <4>1. cmd[t].arg \in Users /\ UpdatedRow(t) = [grievances[g] EXCEPT !.assignedToId = cmd[t].arg]
        BY <1>3, <2>2, <3>1 DEF CommandIsFormed, UpdatedRow
      <4>2. QED
        BY <1>1, <4>1 DEF SameCase, Grievance
    <3>2. CASE cmd[t].op # "assign"
      <4>1. cmd[t].arg \in Status /\ UpdatedRow(t) = WithStatus(grievances[g], cmd[t].arg)
        BY <1>3, <2>2, <3>2 DEF CommandIsFormed, UpdatedRow
      <4>2. SameCase(grievances[g], WithStatus(grievances[g], cmd[t].arg))
        BY <1>1 DEF SameCase, WithStatus, Grievance
      <4>3. QED
        BY <1>1, <4>1, <4>2, StatusUpdateIsRow
    <3>3. QED
      BY <3>1, <3>2
  <2>4. QED
    BY <1>1, <2>1, <2>3, RowAssumption DEF Existing
<1>4. QED
  BY <1>1, <1>2, <1>3, CommitEffect DEF SameCase, Existing, CommandNames

\* The others still hold what they held, for the rows that change were t's alone.
LEMMA CommitTx ==
  ASSUME RowsInv, NEW t \in Tx, Commit(t)
  PROVE  \A u \in Tx : TxInv(u)'
<1>1. FormInv /\ Release(t) /\ \A u \in Tx : TxInv(u)
  BY DEF RowsInv, ChainInv, Commit
<1>2. /\ newRows'[t] = NoRows
      /\ \A u \in Tx \ {t} :
           /\ pc'[u] = pc[u] /\ cmd'[u] = cmd[u] /\ seen'[u] = seen[u] /\ number'[u] = number[u]
           /\ tail'[u] = tail[u] /\ newRows'[u] = newRows[u] /\ newEvents'[u] = newEvents[u]
  BY <1>1 DEF Release, FormInv, TypeOK
<1>3. \A g \in GrievanceId : newRows'[t][g] = NULL
  BY <1>2 DEF NoRows
<1>4. ASSUME NEW u \in Tx \ {t} PROVE TxInv(u)'
  <2>1. \A g \in GrievanceId : newRows[u][g] # NULL => newRows'[t][g] = NULL /\ grievances'[g] = grievances[g]
    BY <1>3, RowsOfOthers DEF Commit
  <2>2. QED
    BY <1>1, <1>2, <2>1, CommitSameCase, OthersKeepTx
<1>5. QED
  BY <1>1, <1>4, ReleaseTx

\* A number that is inserted is the next one.
LEMMA CommitNumbers ==
  ASSUME RowsInv, NEW t \in Tx, Commit(t)
  PROVE  /\ Existing' = Existing \cup (IF cmd[t].op \in {"submit", "appeal"} THEN {number[t]} ELSE {})
         /\ cmd[t].op \in {"submit", "appeal"} => number[t] = Cardinality(Existing) + 1
         /\ NumbersAreDense'
<1> DEFINE n == Cardinality(Existing)
<1>1. n \in Nat /\ Existing = 1 .. n /\ FormInv /\ pc[t] = "commit"
  BY CountingRows DEF RowsInv, ChainInv, NumbersAreDense, Commit
<1>2. Existing' = Existing \cup (IF cmd[t].op \in {"submit", "appeal"} THEN {number[t]} ELSE {})
  <2>1. ASSUME NEW g \in GrievanceId, g \in Existing'
        PROVE  g \in Existing \/ (cmd[t].op \in {"submit", "appeal"} /\ g = number[t])
    BY <2>1, CommitEffect DEF Existing
  <2>2. Existing \subseteq Existing'
    BY CommitSameCase
  <2>3. cmd[t].op \in {"submit", "appeal"} => number[t] \in Existing'
    BY CommitEffect, RowAssumption DEF Existing
  <2>4. QED
    BY <2>1, <2>2, <2>3 DEF Existing
<1>3. cmd[t].op \in {"submit", "appeal"} => number[t] = n + 1
  <2>1. number[t] <= n + 1
    BY <1>1 DEF RowsInv, NumbersAreDense, Holding
  <2>2. cmd[t].op \in {"submit", "appeal"} => number[t] \in Nat \ {0} /\ number[t] \notin 1 .. n
    BY <1>1, CommitEffect DEF GrievanceId
  <2>3. QED
    BY <1>1, <2>1, <2>2
<1>4. PICK m \in {n, n + 1} : Existing' = 1 .. m
  <2>1. CASE cmd[t].op \in {"submit", "appeal"}
    <3>1. (1 .. n) \cup {n + 1} = 1 .. (n + 1)
      BY <1>1
    <3>2. QED
      BY <1>1, <1>2, <1>3, <2>1, <3>1
  <2>2. CASE cmd[t].op \notin {"submit", "appeal"}
    BY <1>1, <1>2, <2>2
  <2>3. QED
    BY <2>1, <2>2
<1>5. Cardinality(1 .. m) = m /\ m \in Nat
  BY <1>1, FS_Interval
<1>6. Cardinality(Existing') = m
  BY <1>4, <1>5
<1>7. ASSUME NEW u \in Tx, pc'[u] \in Holding \cup {"insert"} PROVE number'[u] <= m + 1
  <2>1. u # t /\ pc'[u] = pc[u] /\ number'[u] = number[u] /\ number[u] \in Nat
    BY <1>1, <1>7 DEF Commit, Release, FormInv, TypeOK, Holding
  <2>2. number[u] <= n + 1
    BY <1>7, <2>1 DEF RowsInv, NumbersAreDense
  <2>3. QED
    BY <1>1, <2>1, <2>2
<1>8. NumbersAreDense'
  BY <1>4, <1>6, <1>7 DEF NumbersAreDense
<1>9. QED
  BY <1>2, <1>3, <1>8

\* Every event of a commit is about a row that exists by then.
LEMMA CommitHasRows ==
  ASSUME RowsInv, NEW t \in Tx, Commit(t)
  PROVE  EventsHaveRows'
<1>1. ASSUME NEW e \in newEvents[t] PROVE e.grievanceId \in Existing'
  <2>1. CASE cmd[t].op \in {"submit", "appeal"} /\ Opens(t, e)
    BY <2>1, CommitNumbers DEF Opens
  <2>2. CASE cmd[t].op \in CommandNames \ {"submit"} /\ Reports(t, e)
    BY <2>2, CommitEffect, CommitNumbers DEF Reports
  <2>3. QED
    BY <2>1, <2>2, CommitEffect
<1>2. ASSUME NEW e \in events PROVE e.grievanceId \in Existing'
  BY CommitSameCase DEF RowsInv, EventsHaveRows
<1>3. QED
  BY <1>1, <1>2, CommitEffect DEF EventsHaveRows

\* The trail of each case after a commit.
LEMMA CommitTrail ==
  ASSUME RowsInv, NEW t \in Tx, Commit(t), NEW g \in Existing'
  PROVE  \/ /\ cmd[t].op \in {"submit", "appeal"} /\ g = number[t]
            /\ \E d \in newEvents[t] : Opens(t, d) /\ d.seq = 1 /\ EventsOf(g)' = {d} /\ EventsOf(g) = {}
         \/ /\ cmd[t].op # "submit" /\ g = cmd[t].target /\ g \in Existing
            /\ \E e \in newEvents[t] : /\ Reports(t, e) /\ EventsOf(g)' = EventsOf(g) \cup {e}
                                       /\ e.seq = NextSeq(t) /\ e \notin EventsOf(g)
                                       /\ \A d \in EventsOf(g) : d.seq < e.seq
         \/ /\ ~(cmd[t].op \in {"submit", "appeal"} /\ g = number[t])
            /\ ~(cmd[t].op # "submit" /\ g = cmd[t].target)
            /\ g \in Existing /\ grievances'[g] = grievances[g] /\ EventsOf(g)' = EventsOf(g)
<1>1. /\ \A e \in newEvents[t] : \/ cmd[t].op \in {"submit", "appeal"} /\ e.grievanceId = number[t]
                                 \/ cmd[t].op # "submit" /\ e.grievanceId = cmd[t].target
      /\ events' = events \cup newEvents[t]
  BY CommitEffect DEF Opens, Reports
<1>2. CASE cmd[t].op \in {"submit", "appeal"} /\ g = number[t]
  <2>1. PICK d \in newEvents[t] : Opens(t, d) /\ d.seq = 1
    BY <1>2, CommitEffect
  <2>2. EventsOf(g) = {}
    BY <1>2, CommitEffect DEF EventsOf, RowsInv, EventsHaveRows
  <2>3. d.grievanceId = g /\ \A e \in newEvents[t] : e.grievanceId = g => e = d
    BY <1>2, <2>1, CommitEffect DEF Opens
  <2>4. EventsOf(g)' = {d}
    BY <1>1, <2>2, <2>3 DEF EventsOf
  <2>5. QED
    BY <1>2, <2>1, <2>2, <2>4
<1>3. CASE cmd[t].op # "submit" /\ g = cmd[t].target
  <2>1. PICK e \in newEvents[t] : Reports(t, e) /\ e.seq = NextSeq(t)
    BY <1>3, CommitEffect
  <2>2. e.grievanceId = g /\ \A d \in newEvents[t] : d.grievanceId = g => d = e
    BY <1>3, <2>1, CommitEffect DEF Reports
  <2>3. EventsOf(g)' = EventsOf(g) \cup {e}
    BY <1>1, <2>2 DEF EventsOf
  <2>4. \A d \in EventsOf(g) : d.seq < e.seq
    BY <2>1, <2>2, CommitEffect DEF EventsOf
  <2>5. e \notin EventsOf(g) /\ g \in Existing
    <3>1. e.seq \in Nat
      BY <2>1, CommitEffect DEF Event
    <3>2. QED
      BY <1>3, <2>4, <3>1, CommitEffect
  <2>6. QED
    BY <1>3, <2>1, <2>3, <2>4, <2>5
<1>4. CASE /\ ~(cmd[t].op \in {"submit", "appeal"} /\ g = number[t])
           /\ ~(cmd[t].op # "submit" /\ g = cmd[t].target)
  <2>1. EventsOf(g)' = EventsOf(g)
    BY <1>1, <1>4 DEF EventsOf
  <2>2. grievances'[g] = grievances[g] /\ g \in Existing
    BY <1>4, CommitEffect DEF Existing
  <2>3. QED
    BY <1>4, <2>1, <2>2
<1>5. QED
  BY <1>2, <1>3, <1>4

-----------------------------------------------------------------------------
(* The columns are projections of the history. *)

StatusOf(g) ==
  \E e \in EventsOf(g) :
    /\ SetsStatus(e) /\ e.to = grievances[g].status
    /\ \A d \in EventsOf(g) : SetsStatus(d) => d.seq <= e.seq

AssigneeOf(g) ==
  IF \E e \in EventsOf(g) : SetsAssignee(e)
  THEN \E e \in EventsOf(g) :
         /\ SetsAssignee(e) /\ e.to = grievances[g].assignedToId
         /\ \A d \in EventsOf(g) : SetsAssignee(d) => d.seq <= e.seq
  ELSE grievances[g].assignedToId = NULL

StampsOf(g) ==
  grievances[g].stamps =
    (IF Entered(g, {"resolved"}) THEN {"resolvedAt"} ELSE {})
      \cup (IF Entered(g, TERMINAL_STATUSES) THEN {"closedAt"} ELSE {})

Projected(g) == StatusOf(g) /\ AssigneeOf(g) /\ StampsOf(g)

LEMMA ProjectedAll == RowsAreProjections <=> \A g \in Existing : Projected(g)
<1>1. \A g, e : e \in EventsOf(g) => EventsOf(e.grievanceId) = EventsOf(g)
  BY DEF EventsOf
<1>2. StatusIsProjection <=> \A g \in Existing : StatusOf(g)
  BY <1>1 DEF StatusIsProjection, StatusOf, IsLast
<1>3. AssigneeIsProjection <=> \A g \in Existing : AssigneeOf(g)
  BY <1>1 DEF AssigneeIsProjection, AssigneeOf, IsLast
<1>4. StampsAreProjection <=> \A g \in Existing : StampsOf(g)
  BY DEF StampsAreProjection, StampsOf
<1>5. QED
  BY <1>2, <1>3, <1>4 DEF RowsAreProjections, Projected

LEMMA ProjectedAllNext == RowsAreProjections' <=> (\A g \in Existing : Projected(g))'
BY ProjectedAll, PTL

\* A new case is what its first event says.
LEMMA OpenedIsProjected ==
  ASSUME NEW t, NEW g, NEW d, Opens(t, d), d.seq = 1, EventsOf(g)' = {d}, grievances'[g] = InsertedRow(t)
  PROVE  Projected(g)'
<1>1. d.type = "submitted" /\ d.to = "submitted"
  BY DEF Opens, Says
<1>2. InsertedRow(t).status = "submitted" /\ InsertedRow(t).assignedToId = NULL /\ InsertedRow(t).stamps = {}
  BY DEF InsertedRow, NewGrievance
<1>3. StatusOf(g)'
  BY <1>1, <1>2 DEF StatusOf, SetsStatus, StatusTypes
<1>4. AssigneeOf(g)'
  BY <1>1, <1>2 DEF AssigneeOf, SetsAssignee
<1>5. Entered(g, {"resolved"})' = FALSE /\ Entered(g, TERMINAL_STATUSES)' = FALSE
  BY <1>1 DEF Entered, TERMINAL_STATUSES
<1>6. QED
  BY <1>2, <1>3, <1>4, <1>5 DEF Projected, StampsOf

\* A case with one more event is what it was, but for what the event says.
LEMMA ReportedIsProjected ==
  ASSUME RowsInv, NEW t \in Tx, Commit(t), cmd[t].op # "submit", NEW g \in Existing, g = cmd[t].target,
         Projected(g), NEW e \in newEvents[t], Reports(t, e), EventsOf(g)' = EventsOf(g) \cup {e},
         \A d \in EventsOf(g) : d.seq < e.seq
  PROVE  Projected(g)'
<1>1. e.seq \in Nat /\ \A d \in EventsOf(g) : d.seq \in Nat
  BY CommitEffect DEF Event, EventsOf, RowsInv, ChainInv, FormInv, TypeOK
<1>2. g \in GrievanceId /\ grievances[g] \in Grievance
  BY DEF RowsInv, ChainInv, FormInv, TypeOK, Existing
<1>3. CASE cmd[t].op \in {"transition", "close", "appeal"}
  <2>1. e.type \in {"status_changed", "appealed"} /\ e.to = cmd[t].arg
    BY <1>3 DEF Reports, Says
  <2>2. grievances'[g] = WithStatus(grievances[g], cmd[t].arg)
    BY <1>3, CommitEffect DEF UpdatedRow
  <2>3. /\ grievances'[g].status = cmd[t].arg /\ grievances'[g].assignedToId = grievances[g].assignedToId
        /\ grievances'[g].stamps = grievances[g].stamps
             \cup (IF cmd[t].arg = "resolved" THEN {"resolvedAt"} ELSE {})
             \cup (IF cmd[t].arg \in TERMINAL_STATUSES THEN {"closedAt"} ELSE {})
    BY <1>2, <2>2 DEF WithStatus, StopsTheClock, isOpen, Grievance
  <2>4. SetsStatus(e) /\ ~SetsAssignee(e)
    BY <2>1 DEF SetsStatus, StatusTypes, SetsAssignee
  <2>5. StatusOf(g)'
    BY <1>1, <2>1, <2>3, <2>4 DEF StatusOf
  <2>6. AssigneeOf(g)'
    BY <2>3, <2>4 DEF AssigneeOf, Projected
  <2>7. /\ Entered(g, {"resolved"})' <=> Entered(g, {"resolved"}) \/ cmd[t].arg = "resolved"
        /\ Entered(g, TERMINAL_STATUSES)' <=> Entered(g, TERMINAL_STATUSES) \/ cmd[t].arg \in TERMINAL_STATUSES
    BY <2>1, <2>4 DEF Entered
  <2>8. StampsOf(g)'
    BY <2>3, <2>7 DEF StampsOf, Projected
  <2>9. QED
    BY <2>5, <2>6, <2>8 DEF Projected
<1>4. CASE cmd[t].op = "assign"
  <2>1. e.type = "assigned" /\ e.to = cmd[t].arg
    BY <1>4 DEF Reports, Says
  <2>2. grievances'[g] = [grievances[g] EXCEPT !.assignedToId = cmd[t].arg]
    BY <1>4, CommitEffect DEF UpdatedRow
  <2>3. /\ grievances'[g].status = grievances[g].status /\ grievances'[g].assignedToId = cmd[t].arg
        /\ grievances'[g].stamps = grievances[g].stamps
    BY <1>2, <2>2 DEF Grievance
  <2>4. ~SetsStatus(e) /\ SetsAssignee(e)
    BY <2>1 DEF SetsStatus, StatusTypes, SetsAssignee
  <2>5. StatusOf(g)'
    BY <2>3, <2>4 DEF StatusOf, Projected
  <2>6. AssigneeOf(g)'
    BY <1>1, <2>1, <2>3, <2>4 DEF AssigneeOf
  <2>7. \A S : Entered(g, S)' <=> Entered(g, S)
    BY <2>4 DEF Entered
  <2>8. StampsOf(g)'
    BY <2>3, <2>7 DEF StampsOf, Projected
  <2>9. QED
    BY <2>5, <2>6, <2>8 DEF Projected
<1>5. CASE cmd[t].op \in {"remark", "attach"}
  <2>1. e.type \in {"remark_added", "attachment_added"}
    BY <1>5 DEF Reports, Says
  <2>2. ~SetsStatus(e) /\ ~SetsAssignee(e) /\ grievances'[g] = grievances[g]
    BY <1>5, <2>1, CommitEffect DEF SetsStatus, StatusTypes, SetsAssignee
  <2>3. StatusOf(g)' /\ AssigneeOf(g)'
    BY <2>2 DEF StatusOf, AssigneeOf, Projected
  <2>4. \A S : Entered(g, S)' <=> Entered(g, S)
    BY <2>2 DEF Entered
  <2>5. QED
    BY <2>2, <2>3, <2>4 DEF StampsOf, Projected
<1>6. QED
  BY <1>3, <1>4, <1>5, CommitEffect DEF CommandNames

LEMMA CommitProjects ==
  ASSUME RowsInv, NEW t \in Tx, Commit(t)
  PROVE  RowsAreProjections'
<1>1. \A g \in Existing : Projected(g)
  BY ProjectedAll DEF RowsInv
<1>2. ASSUME NEW g \in Existing' PROVE Projected(g)'
  <2>1. CASE /\ cmd[t].op \in {"submit", "appeal"} /\ g = number[t]
             /\ \E d \in newEvents[t] : Opens(t, d) /\ d.seq = 1 /\ EventsOf(g)' = {d} /\ EventsOf(g) = {}
    BY <2>1, CommitEffect, OpenedIsProjected
  <2>2. CASE /\ cmd[t].op # "submit" /\ g = cmd[t].target /\ g \in Existing
             /\ \E e \in newEvents[t] : /\ Reports(t, e) /\ EventsOf(g)' = EventsOf(g) \cup {e}
                                        /\ e.seq = NextSeq(t) /\ e \notin EventsOf(g)
                                        /\ \A d \in EventsOf(g) : d.seq < e.seq
    BY <1>1, <2>2, ReportedIsProjected
  <2>3. CASE g \in Existing /\ grievances'[g] = grievances[g] /\ EventsOf(g)' = EventsOf(g)
    BY <1>1, <2>3 DEF Projected, StatusOf, AssigneeOf, StampsOf, Entered
  <2>4. QED
    BY <2>1, <2>2, <2>3, CommitTrail
<1>3. QED
  BY <1>2, ProjectedAllNext

-----------------------------------------------------------------------------
(* Appeals and their originals. *)

\* Only the report of an appeal refers to another case.
LEMMA CommitReferences ==
  ASSUME RowsInv, NEW t \in Tx, Commit(t), NEW e \in newEvents[t], e.ref # NULL
  PROVE  /\ cmd[t].op = "appeal" /\ e.ref = number[t] /\ e.grievanceId = cmd[t].target
         /\ number[t] \in GrievanceId /\ number[t] \notin Existing /\ number[t] \in Existing'
<1>1. cmd[t].op = "appeal" /\ e.ref = number[t] /\ e.grievanceId = cmd[t].target
  <2>1. ~Opens(t, e)
    BY DEF Opens, Says
  <2>2. Reports(t, e)
    BY <2>1, CommitEffect
  <2>3. QED
    BY <2>2 DEF Reports, Says
<1>2. QED
  BY <1>1, CommitEffect, CommitNumbers

\* An appeal is granted to the student whose case it is, and copies the anonymity.
LEMMA AppealIsByFiler ==
  ASSUME RowsInv, NEW t \in Tx, Commit(t), cmd[t].op = "appeal"
  PROVE  /\ grievances'[number[t]].appealOfId = cmd[t].target
         /\ grievances'[number[t]].submittedById = grievances'[cmd[t].target].submittedById
         /\ grievances'[number[t]].isAnonymous = grievances'[cmd[t].target].isAnonymous
<1>1. grievances'[number[t]] = NewGrievance(cmd[t].actor, seen[t].isAnonymous, "sgrc", cmd[t].target)
  BY CommitEffect DEF InsertedRow
<1>2. seen[t].submittedById = cmd[t].actor
  <2>1. canSetStatus(Actor(cmd[t].actor), seen[t], "appealed")
    BY DEF RowsInv, TxInv, IsGranted
  <2>2. QED
    BY <2>1 DEF canSetStatus, TRANSITION_ROLES, Actor
<1>3. SameCase(seen[t], grievances[cmd[t].target]) /\ cmd[t].target \in Existing
  BY CommitEffect
<1>4. SameCase(grievances[cmd[t].target], grievances'[cmd[t].target])
  BY <1>3, CommitSameCase
<1>5. QED
  BY <1>1, <1>2, <1>3, <1>4 DEF SameCase, NewGrievance

LEMMA CommitPaired ==
  ASSUME RowsInv, NEW t \in Tx, Commit(t)
  PROVE  AppealsArePaired'
<1>1. events' = events \cup newEvents[t] /\ AppealsArePaired /\ EventsHaveRows
  BY CommitEffect DEF RowsInv
<1>2. \A g : g \in GrievanceId => g # NULL
  BY NULLAssumption DEF GrievanceId
<1>3. \A e \in events : e.ref # NULL => e.ref \in Existing
  BY <1>1 DEF AppealsArePaired
<1>4. \A a \in Existing' : a \in Existing \/ (cmd[t].op \in {"submit", "appeal"} /\ a = number[t])
  BY CommitNumbers
<1>5. ASSUME NEW a \in Existing, grievances'[a].appealOfId # NULL
      PROVE  \E e \in events' : /\ e.grievanceId = grievances'[a].appealOfId
                               /\ \A d \in events' : d.ref = a <=> d = e
  <2>1. grievances'[a].appealOfId = grievances[a].appealOfId
    BY CommitSameCase DEF SameCase
  <2>2. PICK e \in EventsOf(grievances[a].appealOfId) : \A d \in events : d.ref = a <=> d = e
    BY <1>1, <1>5, <2>1 DEF AppealsArePaired
  <2>3. \A d \in newEvents[t] : d.ref # a
    BY <1>2, CommitReferences DEF Existing
  <2>4. e \in events /\ e.ref = a
    BY <2>2 DEF EventsOf
  <2>5. e \in events' /\ e.grievanceId = grievances'[a].appealOfId
    BY <1>1, <2>1, <2>2 DEF EventsOf
  <2>6. \A d \in events' : d.ref = a <=> d = e
    BY <1>1, <2>2, <2>3, <2>4
  <2>7. QED
    BY <2>5, <2>6
<1>6. ASSUME cmd[t].op \in {"submit", "appeal"}, grievances'[number[t]].appealOfId # NULL
      PROVE  \E e \in events' : /\ e.grievanceId = grievances'[number[t]].appealOfId
                               /\ \A d \in events' : d.ref = number[t] <=> d = e
  <2>1. cmd[t].op = "appeal"
    <3>1. grievances'[number[t]] = InsertedRow(t)
      BY <1>6, CommitEffect
    <3>2. QED
      BY <1>6, <3>1 DEF InsertedRow, NewGrievance
  <2>2. grievances'[number[t]].appealOfId = cmd[t].target
    BY <2>1, AppealIsByFiler
  <2>3. PICK e \in newEvents[t] : Reports(t, e)
    BY <2>1, CommitEffect
  <2>4. e.ref = number[t] /\ e.grievanceId = cmd[t].target
    BY <2>1, <2>3 DEF Reports, Says
  <2>5. e \in events'
    BY <1>1
  <2>6. number[t] \in GrievanceId /\ number[t] \notin Existing
    BY <2>1, CommitEffect
  <2>7. ASSUME NEW d \in events', d.ref = number[t] PROVE d = e
    <3>1. d \in newEvents[t] /\ d.ref # NULL
      BY <1>1, <1>2, <1>3, <2>6, <2>7
    <3>2. QED
      BY <2>4, <3>1, CommitReferences, CommitEffect
  <2>8. QED
    BY <2>2, <2>4, <2>5, <2>7
<1>7. ASSUME NEW e \in events', e.ref # NULL
      PROVE  /\ e.ref \in Existing'
             /\ grievances'[e.ref].appealOfId = e.grievanceId
             /\ grievances'[e.ref].submittedById = grievances'[e.grievanceId].submittedById
             /\ grievances'[e.ref].isAnonymous = grievances'[e.grievanceId].isAnonymous
  <2>1. CASE e \in events
    <3>1. /\ e.ref \in Existing /\ e.grievanceId \in Existing
          /\ grievances[e.ref].appealOfId = e.grievanceId
          /\ grievances[e.ref].submittedById = grievances[e.grievanceId].submittedById
          /\ grievances[e.ref].isAnonymous = grievances[e.grievanceId].isAnonymous
      BY <1>1, <1>7, <2>1 DEF AppealsArePaired, EventsHaveRows
    <3>2. /\ SameCase(grievances[e.ref], grievances'[e.ref]) /\ e.ref \in Existing'
          /\ SameCase(grievances[e.grievanceId], grievances'[e.grievanceId])
      BY <3>1, CommitSameCase
    <3>3. QED
      BY <3>1, <3>2 DEF SameCase
  <2>2. CASE e \in newEvents[t]
    BY <1>7, <2>2, CommitReferences, AppealIsByFiler
  <2>3. QED
    BY <1>1, <2>1, <2>2
<1>8. \A a \in Existing' : grievances'[a].appealOfId # NULL =>
        \E e \in events' : /\ e.grievanceId = grievances'[a].appealOfId
                          /\ \A d \in events' : d.ref = a <=> d = e
  BY <1>4, <1>5, <1>6
<1>9. QED
  BY <1>7, <1>8 DEF AppealsArePaired, EventsOf

-----------------------------------------------------------------------------
(* The outbox. *)

\* Who is written to about an event does not change once it is committed.
LEMMA OldMail ==
  ASSUME RowsInv, NEW t \in Tx, Commit(t), NEW e \in events
  PROVE  FilerMail(e)' = FilerMail(e)
<1>1. SameCase(grievances[e.grievanceId], grievances'[e.grievanceId])
  BY CommitSameCase DEF RowsInv, EventsHaveRows
<1>2. QED
  BY <1>1 DEF FilerMail, SameCase

\* The filer of a new case gets a receipt, unless anonymous; nobody is told that an
\* appeal's own history began.
LEMMA OpeningMail ==
  ASSUME RowsInv, NEW t \in Tx, Commit(t), cmd[t].op \in {"submit", "appeal"}, NEW d, Opens(t, d)
  PROVE  /\ FilerMail(d)' = IF cmd[t].op = "appeal" \/ cmd[t].anon THEN {}
                            ELSE {Message(cmd[t].actor, "grievance_submitted", number[t], 0)}
         /\ StaffMail(d) = {}
<1>1. d.type = "submitted" /\ d.grievanceId = number[t]
  BY DEF Opens, Says
<1>2. grievances'[number[t]] = InsertedRow(t)
  BY CommitEffect
<1>3. StaffMail(d) = {}
  BY <1>1 DEF StaffMail
<1>4. CASE cmd[t].op = "submit"
  <2>1. /\ grievances'[number[t]].isAnonymous = cmd[t].anon /\ grievances'[number[t]].appealOfId = NULL
        /\ grievances'[number[t]].submittedById = cmd[t].actor
    BY <1>2, <1>4 DEF InsertedRow, NewGrievance
  <2>2. QED
    BY <1>1, <1>3, <1>4, <2>1 DEF FilerMail
<1>5. CASE cmd[t].op = "appeal"
  <2>1. grievances'[number[t]].appealOfId = cmd[t].target
    BY <1>5, AppealIsByFiler
  <2>2. cmd[t].target # NULL
    BY <1>5, CommitEffect, NULLAssumption DEF GrievanceId
  <2>3. QED
    BY <1>1, <1>3, <1>5, <2>1, <2>2 DEF FilerMail
<1>6. QED
  BY <1>4, <1>5

\* What a command says about its case, the filer hears only of a status that somebody
\* else has set, which a closing never is.
LEMMA ReportMail ==
  ASSUME RowsInv, NEW t \in Tx, Commit(t), cmd[t].op # "submit", NEW e \in newEvents[t],
         Reports(t, e), e.seq = NextSeq(t)
  PROVE  FilerMail(e)' \cup StaffMail(e) = Messages(t)
<1>1. e.grievanceId = cmd[t].target /\ cmd[t].op \in CommandNames
  BY CommitEffect DEF Reports
<1>2. CASE cmd[t].op = "transition"
  <2>1. newRows[t][cmd[t].target] # NULL
    BY <1>2 DEF RowsInv, ChainInv, FormInv, WritesAreFormed, Commit
  <2>2. grievances'[cmd[t].target] = newRows[t][cmd[t].target]
    BY <1>2, <2>1, CommitEffect DEF Commit
  <2>3. e.type = "status_changed" /\ e.actorId = cmd[t].actor
    BY <1>2 DEF Reports, Says
  <2>4. StaffMail(e) = {}
    BY <2>3 DEF StaffMail
  <2>5. Messages(t) =
          IF newRows[t][cmd[t].target].isAnonymous \/ newRows[t][cmd[t].target].submittedById = cmd[t].actor
          THEN {}
          ELSE {Message(newRows[t][cmd[t].target].submittedById, "status_changed", cmd[t].target, NextSeq(t))}
    BY <1>2 DEF Messages, HidesFiler
  <2>6. FilerMail(e)' = Messages(t)
    BY <1>1, <2>2, <2>3, <2>5 DEF FilerMail
  <2>7. QED
    BY <2>4, <2>6
<1>3. CASE cmd[t].op = "close"
  <2>1. e.type = "status_changed" /\ e.actorId = cmd[t].actor
    BY <1>3 DEF Reports, Says
  <2>2. seen[t].submittedById = cmd[t].actor
    <3>1. canSetStatus(Actor(cmd[t].actor), seen[t], "closed")
      BY <1>3 DEF RowsInv, TxInv, IsGranted
    <3>2. QED
      BY <3>1 DEF canSetStatus, TRANSITION_ROLES, Actor
  <2>3. SameCase(seen[t], grievances[cmd[t].target]) /\ cmd[t].target \in Existing
    BY <1>3, CommitEffect
  <2>4. grievances'[cmd[t].target].submittedById = cmd[t].actor
    BY <2>2, <2>3, CommitSameCase DEF SameCase
  <2>5. FilerMail(e)' = {} /\ StaffMail(e) = {} /\ Messages(t) = {}
    BY <1>1, <1>3, <2>1, <2>4 DEF FilerMail, StaffMail, Messages
  <2>6. QED
    BY <2>5
<1>4. CASE cmd[t].op = "assign"
  <2>1. e.type = "assigned" /\ e.to = cmd[t].arg
    BY <1>4 DEF Reports, Says
  <2>2. QED
    BY <1>1, <1>4, <2>1 DEF FilerMail, StaffMail, Messages
<1>5. CASE cmd[t].op = "appeal"
  <2>1. e.type = "appealed" /\ e.ref = number[t]
    BY <1>5 DEF Reports, Says
  <2>2. QED
    BY <1>5, <2>1 DEF FilerMail, StaffMail, Messages
<1>6. CASE cmd[t].op \in {"remark", "attach"}
  <2>1. e.type \in {"remark_added", "attachment_added"}
    BY <1>6 DEF Reports, Says
  <2>2. QED
    BY <1>6, <2>1 DEF FilerMail, StaffMail, Messages
<1>7. QED
  BY <1>1, <1>2, <1>3, <1>4, <1>5, <1>6 DEF CommandNames

\* The messages a command queues are those its events call for.
LEMMA CommitMail ==
  ASSUME RowsInv, NEW t \in Tx, Commit(t)
  PROVE  Messages(t) = UNION {FilerMail(e)' \cup StaffMail(e) : e \in newEvents[t]}
<1>1. /\ \A e \in newEvents[t] : (cmd[t].op \in {"submit", "appeal"} /\ Opens(t, e)) \/ Reports(t, e)
      /\ \A d, e \in newEvents[t] : d.grievanceId = e.grievanceId => d = e
      /\ cmd[t].op \in {"submit", "appeal"} => \E d \in newEvents[t] : Opens(t, d)
      /\ cmd[t].op = "submit" => \A e \in newEvents[t] : Opens(t, e)
  BY CommitEffect
<1>2. CASE cmd[t].op = "submit"
  <2>1. PICK d \in newEvents[t] : Opens(t, d)
    BY <1>1, <1>2
  <2>2. newEvents[t] = {d}
    BY <1>1, <1>2, <2>1 DEF Opens
  <2>3. Messages(t) = FilerMail(d)' \cup StaffMail(d)
    BY <1>2, <2>1, OpeningMail DEF Messages, HidesFiler
  <2>4. QED
    BY <2>2, <2>3
<1>3. CASE cmd[t].op # "submit"
  <2>1. PICK e \in newEvents[t] : Reports(t, e) /\ e.seq = NextSeq(t)
    BY <1>3, CommitEffect
  <2>2. FilerMail(e)' \cup StaffMail(e) = Messages(t)
    BY <1>3, <2>1, ReportMail
  <2>3. ASSUME NEW d \in newEvents[t], d # e PROVE FilerMail(d)' \cup StaffMail(d) = {}
    <3>1. ~Reports(t, d)
      BY <1>1, <2>1, <2>3 DEF Reports
    <3>2. cmd[t].op = "appeal" /\ Opens(t, d)
      BY <1>1, <1>3, <3>1
    <3>3. FilerMail(d)' = {} /\ StaffMail(d) = {}
      BY <3>2, OpeningMail
    <3>4. QED
      BY <3>3
  <2>4. QED
    BY <2>2, <2>3
<1>4. QED
  BY <1>2, <1>3

LEMMA CommitOutbox ==
  ASSUME RowsInv, NEW t \in Tx, Commit(t)
  PROVE  OutboxMatchesHistory'
<1>1. events' = events \cup newEvents[t] /\ outbox' = outbox \cup Messages(t)
  BY CommitEffect
<1>2. outbox = UNION {FilerMail(e)' \cup StaffMail(e) : e \in events}
  BY OldMail DEF RowsInv, OutboxMatchesHistory
<1>3. outbox' = UNION {FilerMail(e)' \cup StaffMail(e) : e \in events'}
  BY <1>1, <1>2, CommitMail
<1>4. QED
  BY <1>3 DEF OutboxMatchesHistory, StaffMail

-----------------------------------------------------------------------------
(* The invariant. *)

LEMMA InitRows == Init => RowsInv
<1> SUFFICES ASSUME Init PROVE RowsInv
  OBVIOUS
<1>1. /\ Existing = {} /\ events = {} /\ outbox = {}
      /\ \A t \in Tx : pc[t] = "idle" /\ TxInv(t)
  BY InitTx DEF Init, NoRows, Existing
<1>2. NumbersAreDense
  <2>1. Cardinality(Existing) = 0 /\ Existing = 1 .. 0
    BY <1>1, FS_EmptySet
  <2>2. QED
    BY <1>1, <2>1 DEF NumbersAreDense, Holding
<1>3. EventsHaveRows /\ AppealsArePaired
  BY <1>1 DEF EventsHaveRows, AppealsArePaired
<1>4. RowsAreProjections
  BY <1>1 DEF RowsAreProjections, StatusIsProjection, AssigneeIsProjection, StampsAreProjection
<1>5. OutboxMatchesHistory
  BY <1>1 DEF OutboxMatchesHistory
<1>6. QED
  BY <1>1, <1>2, <1>3, <1>4, <1>5, InitChain DEF RowsInv

LEMMA ContinueRows ==
  ASSUME RowsInv, NEW t \in Tx, Continue(t)
  PROVE  RowsInv'
<1>1. ChainInv /\ ChainInv'
  BY ContinueChain DEF RowsInv
<1>2. CASE CountReferences(t)
  BY <1>2, CountReferencesRows
<1>3. CASE InsertGrievance(t)
  BY <1>3, InsertGrievanceRows
<1>4. CASE RetryReference(t)
  BY <1>1, <1>4, RetryRows, BoundsAssumption DEF RetryReference
<1>5. CASE UpdateGrievance(t)
  BY <1>5, UpdateGrievanceRows
<1>6. CASE LoseStatusRace(t)
  BY <1>6, RollbackRows DEF LoseStatusRace, Denied
<1>7. CASE ReadTail(t)
  BY <1>7, ReadTailRows
<1>8. CASE AppendEvent(t)
  BY <1>8, AppendEventRows
<1>9. CASE RetryAppend(t)
  BY <1>1, <1>9, RetryRows, BoundsAssumption DEF RetryAppend
<1>10. CASE Commit(t)
  BY <1>1, <1>10, CommitTx, CommitNumbers, CommitHasRows, CommitProjects, CommitPaired, CommitOutbox DEF RowsInv
<1>11. QED
  BY <1>2, <1>3, <1>4, <1>5, <1>6, <1>7, <1>8, <1>9, <1>10 DEF Continue

LEMMA StutterRows == ASSUME RowsInv, UNCHANGED vars PROVE RowsInv'
<1>1. UNCHANGED <<grievances, events, outbox, pc, cmd, seen, number, tail, newRows, newEvents>>
  BY DEF vars
<1>2. ChainInv'
  BY StutterChain DEF RowsInv
<1>3. ASSUME NEW t \in Tx PROVE TxInv(t)'
  <2>1. TxInv(t)
    BY DEF RowsInv
  <2>2. IsGranted(t)' /\ UpdateIsInOrder(t)'
    BY <1>1, <2>1 DEF TxInv, IsGranted, UpdateIsInOrder
  <2>3. RowsAreLocked(t)'
    BY <1>1, <2>1 DEF TxInv, RowsAreLocked, Existing, InsertedRow, UpdatedRow, StatusMoved
  <2>4. EventsAreDue(t)'
    BY <1>1, <2>1 DEF TxInv, EventsAreDue, Opens, Reports, NextSeq
  <2>5. QED
    BY <2>2, <2>3, <2>4 DEF TxInv
<1>4. \A t \in Tx : pc'[t] \in Holding \cup {"insert"} => number'[t] <= Cardinality(Existing) + 1
  BY <1>1 DEF RowsInv, NumbersAreDense
<1>5. QED
  BY <1>1, <1>2, <1>3, <1>4, QuietRows DEF db

LEMMA NextRows == RowsInv /\ [Next]_vars => RowsInv'
<1> SUFFICES ASSUME RowsInv, [Next]_vars PROVE RowsInv'
  OBVIOUS
<1>1. ASSUME NEW t \in Tx, Begin(t) PROVE RowsInv'
  BY <1>1, BeginRows
<1>2. ASSUME NEW t \in Tx, Continue(t) PROVE RowsInv'
  BY <1>2, ContinueRows
<1>3. ASSUME NEW t \in Tx, Abort(t) PROVE RowsInv'
  BY <1>3, RollbackRows DEF Abort
<1>4. CASE UNCHANGED vars
  BY <1>4, StutterRows
<1>5. QED
  BY <1>1, <1>2, <1>3, <1>4 DEF Next

LEMMA RowsHold == Spec => []RowsInv
BY InitRows, NextRows, PTL DEF Spec

\* The status, the assignee and the timestamps of every grievance are what its history
\* says (schema.ts, "grievances.status is a projection"), whatever commands of
\* commands.ts raced, retried, were denied or rolled back on the way.
THEOREM ColumnsProject == Spec => []RowsAreProjections
<1>1. RowsInv => RowsAreProjections
  BY DEF RowsInv
<1>2. QED
  BY <1>1, RowsHold, PTL

\* fileAppeal commits the new grievance and the "appealed" event of the original
\* together or not at all, and both are the same student's.
THEOREM AppealsPair == Spec => []AppealsArePaired
<1>1. RowsInv => AppealsArePaired
  BY DEF RowsInv
<1>2. QED
  BY <1>1, RowsHold, PTL

\* enqueue, called in the command's own transaction, queues exactly the messages that the
\* committed events call for: none for a command that rolled back, none to an anonymous
\* filer, and none to a student about a withdrawal or a closing of their own.
THEOREM OutboxIsHistory == Spec => []OutboxMatchesHistory
<1>1. RowsInv => OutboxMatchesHistory
  BY DEF RowsInv
<1>2. QED
  BY <1>1, RowsHold, PTL

-----------------------------------------------------------------------------
(* Nobody waits in a circle: a transaction only waits for one that has come *)
(* further, from the insert over the update to the append.                  *)

\* How far a transaction has come, as far as a statement that may wait is concerned.
Rank(t) ==
  CASE pc[t] = "insert" -> 0
    [] pc[t] = "update" -> 1
    [] pc[t] = "append" -> 2
    [] OTHER -> 3

\* Who has written a row is past the insert, and past the update if the row existed.
LEMMA HolderIsPast ==
  ASSUME RowsInv, NEW u \in Tx, NEW g \in GrievanceId, newRows[u][g] # NULL
  PROVE  Rank(u) >= 1 /\ (g \in Existing => Rank(u) >= 2)
<1>1. WritesAreFormed(u) /\ RowsAreLocked(u) /\ UpdateIsInOrder(u)
  BY DEF RowsInv, ChainInv, FormInv, TxInv
<1>2. pc[u] # "insert"
  BY <1>1 DEF WritesAreFormed, NoRows
<1>3. g \in Existing => pc[u] # "update"
  BY <1>1 DEF RowsAreLocked, UpdateIsInOrder
<1>4. QED
  BY <1>2, <1>3 DEF Rank

\* Who claims the seq that another is about to append is about to commit: the first of
\* an appeal's two events is about a case that only the appeal knows.
LEMMA ClaimantIsPast ==
  ASSUME RowsInv, NEW t \in Tx, NEW u \in Tx \ {t}, pc[t] = "append",
         NEW e \in newEvents[u], e.grievanceId = Subject(t)
  PROVE  pc[u] = "commit"
<1>1. /\ WritesAreFormed(t) /\ WritesAreFormed(u) /\ CommandIsFormed(t) /\ TypeOK
      /\ RowsAreLocked(t) /\ RowsAreLocked(u)
  BY DEF RowsInv, ChainInv, FormInv, TxInv
<1>2. SUFFICES ASSUME pc[u] # "commit" PROVE FALSE
  OBVIOUS
<1>3. cmd[u].op = "appeal" /\ pc[u] \in {"read", "append", "update"}
  BY <1>1, <1>2 DEF WritesAreFormed, TypeOK, Label
<1>4. e.grievanceId = number[u] /\ number[u] \in GrievanceId /\ newRows[u][number[u]] # NULL
  BY <1>1, <1>3 DEF WritesAreFormed, Holding
<1>5. number[u] \notin Existing
  <2>1. number[u] # cmd[u].target
    BY <1>1, <1>3 DEF WritesAreFormed, Holding
  <2>2. QED
    BY <1>1, <1>4, <2>1 DEF RowsAreLocked
<1>6. CASE Subject(t) = number[t] /\ cmd[t].op \in {"submit", "appeal"}
  <2>1. newRows[t][number[t]] # NULL
    BY <1>1, <1>6 DEF WritesAreFormed, Holding
  <2>2. QED
    BY <1>1, <1>4, <1>6, <2>1 DEF RowsAreLocked
<1>7. CASE Subject(t) = cmd[t].target /\ cmd[t].op \in CommandNames \ {"submit"}
  BY <1>1, <1>4, <1>5, <1>7 DEF CommandIsFormed
<1>8. cmd[t].op \in CommandNames
  BY <1>1 DEF CommandIsFormed, TypeOK, Command
<1>9. QED
  BY <1>6, <1>7, <1>8 DEF Subject, CommandNames

LEMMA WaitersAreBehind ==
  ASSUME RowsInv, NEW t \in Tx, NEW u \in Tx, WaitsFor(t, u)
  PROVE  Rank(t) < Rank(u)
<1>1. u # t
  BY DEF WaitsFor
<1>2. CASE pc[t] = "insert" /\ number[t] \in GrievanceId /\ newRows[u][number[t]] # NULL
  <2>1. Rank(u) >= 1 /\ Rank(t) = 0
    BY <1>2, HolderIsPast DEF Rank
  <2>2. QED
    BY <2>1 DEF Rank
<1>3. CASE pc[t] = "update" /\ newRows[u][cmd[t].target] # NULL
  <2>1. cmd[t].target \in Existing /\ cmd[t].target \in GrievanceId
    BY <1>3 DEF RowsInv, ChainInv, FormInv, CommandIsFormed, CommandNames, Existing
  <2>2. Rank(u) >= 2 /\ Rank(t) = 1
    BY <1>3, <2>1, HolderIsPast DEF Rank
  <2>3. QED
    BY <2>2 DEF Rank
<1>4. CASE pc[t] = "append" /\ \E e \in newEvents[u] : e.grievanceId = Subject(t) /\ e.seq = NextSeq(t)
  <2>1. pc[u] = "commit"
    BY <1>1, <1>4, ClaimantIsPast
  <2>2. QED
    BY <1>4, <2>1 DEF Rank
<1>5. QED
  BY <1>2, <1>3, <1>4 DEF WaitsFor

LEMMA FurthestWaitsForNone ==
  ASSUME RowsInv, NEW S \in SUBSET Active, S # {}
  PROVE  \E t \in S : \A u \in S : ~WaitsFor(t, u)
<1>1. \A t \in S : t \in Tx /\ Rank(t) \in 0 .. 3
  BY DEF Active, Rank
<1>2. PICK t \in S : \A u \in S : Rank(u) <= Rank(t)
  <2>1. CASE \E t \in S : Rank(t) = 3
    BY <1>1, <2>1
  <2>2. CASE (\E t \in S : Rank(t) = 2) /\ \A t \in S : Rank(t) # 3
    BY <1>1, <2>2
  <2>3. CASE (\E t \in S : Rank(t) = 1) /\ \A t \in S : Rank(t) \notin {2, 3}
    BY <1>1, <2>3
  <2>4. CASE \A t \in S : Rank(t) = 0
    BY <2>4
  <2>5. QED
    BY <1>1, <2>1, <2>2, <2>3, <2>4
<1>3. \A u \in S : ~(Rank(t) < Rank(u))
  BY <1>1, <1>2
<1>4. QED
  BY <1>1, <1>3, WaitersAreBehind

\* The waits on row locks and unique keys never close a circle, so the commands of
\* commands.ts cannot deadlock in the database: INSERT of the grievance, UPDATE of the
\* row, append of the event are always taken in this order, but for an appeal, whose first
\* event is about a case that nobody else can see yet.
THEOREM NoDeadlock == Spec => []NoWaitCycle
<1>1. RowsInv => NoWaitCycle
  BY FurthestWaitsForNone DEF NoWaitCycle
<1>2. QED
  BY <1>1, RowsHold, PTL


-----------------------------------------------------------------------------
(* Sequences as functions. *)

HasLength(s, n) == s = [i \in 1 .. n |-> s[i]]

LEMMA FunctionIsSequence ==
  ASSUME NEW n \in Nat, NEW S, NEW s, HasLength(s, n), \A i \in 1 .. n : s[i] \in S
  PROVE  s \in Seq(S) /\ Len(s) = n
<1>1. s \in [1 .. n -> S]
  BY DEF HasLength
<1>2. QED
  BY <1>1

\* A function one longer than a sequence, with one more value, is what Append makes.
LEMMA AppendIs ==
  ASSUME NEW n \in Nat, NEW s, HasLength(s, n), NEW x, NEW r, HasLength(r, n + 1),
         \A i \in 1 .. n : r[i] = s[i], r[n + 1] = x
  PROVE  r = Append(s, x)
<1> DEFINE S == {s[i] : i \in 1 .. n} \cup {x}
<1>1. \A i \in 1 .. (n + 1) : i \in 1 .. n \/ i = n + 1
  OBVIOUS
<1>2. x \in S /\ (\A i \in 1 .. n : s[i] \in S) /\ (\A i \in 1 .. (n + 1) : r[i] \in S)
  BY <1>1
<1> HIDE DEF S
<1>3. s \in Seq(S) /\ Len(s) = n /\ r \in Seq(S) /\ Len(r) = n + 1
  BY <1>2, FunctionIsSequence
<1>4. /\ Append(s, x) \in Seq(S) /\ Len(Append(s, x)) = n + 1
      /\ \A i \in 1 .. n : Append(s, x)[i] = s[i]
      /\ Append(s, x)[n + 1] = x
  BY <1>2, <1>3, AppendProperties
<1>5. \A i \in 1 .. (n + 1) : r[i] = Append(s, x)[i]
  BY <1>1, <1>4
<1>6. QED
  BY <1>3, <1>4, <1>5, SeqEqual

-----------------------------------------------------------------------------
(* The trail of one case. *)

\* An event that follows the last one makes the trail one longer.
LEMMA DenseGrows ==
  ASSUME NEW S, IsDense(S), NEW e, e.seq \in Nat, e \notin S,
         \A d \in S : d.seq < e.seq, \E d \in S : d.seq + 1 = e.seq
  PROVE  /\ e.seq = Cardinality(S) + 1 /\ Cardinality(S \cup {e}) = Cardinality(S) + 1
         /\ IsDense(S \cup {e})
<1> DEFINE n == Cardinality(S)
           T == S \cup {e}
<1>1. IsFiniteSet(S) /\ n \in Nat /\ n > 0
  BY FS_CardinalityType, FS_EmptySet DEF IsDense
<1>2. IsFiniteSet(T) /\ Cardinality(T) = n + 1
  BY <1>1, FS_AddElement
<1>3. e.seq = n + 1
  <2>1. PICK last \in S : last.seq = n
    BY <1>1 DEF IsDense
  <2>2. PICK d \in S : d.seq + 1 = e.seq
    OBVIOUS
  <2>3. d.seq \in 1 .. n
    BY <2>2 DEF IsDense
  <2>4. QED
    BY <1>1, <2>1, <2>2, <2>3
<1>4. \A d \in T : d.seq \in 1 .. (n + 1)
  BY <1>1, <1>3 DEF IsDense
<1>5. \A i \in 1 .. (n + 1) : \E d \in T : d.seq = i
  <2>1. \A i \in 1 .. (n + 1) : i \in 1 .. n \/ i = n + 1
    BY <1>1
  <2>2. QED
    BY <1>3, <2>1 DEF IsDense
<1>6. QED
  BY <1>1, <1>2, <1>3, <1>4, <1>5 DEF IsDense

LEMMA DenseBegins ==
  ASSUME NEW d, d.seq = 1
  PROVE  IsDense({d}) /\ Cardinality({d}) = 1
<1>1. IsFiniteSet({d}) /\ Cardinality({d}) = 1
  BY FS_Singleton
<1>2. QED
  BY <1>1 DEF IsDense

\* No two events of a trail have the same seq.
OnePerSeq(S) == \A d, e \in S : d.seq = e.seq => d = e

LEMMA EntryAt ==
  ASSUME NEW S, OnePerSeq(S), NEW e \in S, e.seq \in 1 .. Cardinality(S)
  PROVE  InOrder(S)[e.seq] = Entry(e)
<1>1. (CHOOSE d \in S : d.seq = e.seq) = e
  BY DEF OnePerSeq
<1>2. QED
  BY <1>1 DEF InOrder

LEMMA OrderGrows ==
  ASSUME NEW S, IsDense(S), OnePerSeq(S), NEW e, e.seq \in Nat, e \notin S,
         \A d \in S : d.seq < e.seq, \E d \in S : d.seq + 1 = e.seq
  PROVE  InOrder(S \cup {e}) = Append(InOrder(S), Entry(e))
<1> DEFINE n == Cardinality(S)
           T == S \cup {e}
<1>1. e.seq = n + 1 /\ Cardinality(T) = n + 1 /\ IsDense(T)
  BY DenseGrows
<1>2. n \in Nat
  BY FS_CardinalityType DEF IsDense
<1>3. OnePerSeq(T)
  BY <1>1, <1>2 DEF OnePerSeq, IsDense
<1> HIDE DEF n, T
<1>4. \A i \in 1 .. n : InOrder(T)[i] = InOrder(S)[i]
  <2> SUFFICES ASSUME NEW i \in 1 .. n PROVE InOrder(T)[i] = InOrder(S)[i]
    OBVIOUS
  <2>1. PICK d \in S : d.seq = i
    BY DEF IsDense, n
  <2>2. d \in T /\ d.seq \in 1 .. Cardinality(T) /\ d.seq \in 1 .. Cardinality(S)
    BY <1>1, <2>1 DEF T, n, IsDense
  <2>3. QED
    BY <1>3, <2>1, <2>2, EntryAt
<1>5. InOrder(T)[n + 1] = Entry(e)
  <2>1. e \in T /\ e.seq \in 1 .. Cardinality(T)
    BY <1>1, <1>2 DEF T
  <2>2. QED
    BY <1>1, <1>3, <2>1, EntryAt
<1>6. HasLength(InOrder(S), n)
  BY DEF InOrder, HasLength, n
<1>7. HasLength(InOrder(T), n + 1)
  BY <1>1 DEF InOrder, HasLength
<1>8. InOrder(T) = Append(InOrder(S), Entry(e))
  BY <1>2, <1>4, <1>5, <1>6, <1>7, AppendIs
<1>9. QED
  BY <1>8 DEF T

LEMMA OrderBegins ==
  ASSUME NEW d, d.seq = 1
  PROVE  InOrder({d}) = <<Entry(d)>>
<1>1. Cardinality({d}) = 1
  BY DenseBegins
<1>2. InOrder({d}) = [i \in 1 .. 1 |-> Entry(d)]
  <2>1. \A i \in 1 .. 1 : (CHOOSE e \in {d} : e.seq = i) = d
    OBVIOUS
  <2>2. QED
    BY <1>1, <2>1 DEF InOrder
<1>3. QED
  BY <1>2

-----------------------------------------------------------------------------
(* What a commit does to the trails. *)

LEMMA TrailsAreSingle == ASSUME RowsInv, NEW g PROVE OnePerSeq(EventsOf(g))
BY DEF RowsInv, ChainInv, ChainVerifies, OneEventPerSeq, OnePerSeq, EventsOf

\* The event that reports a command follows the last one of its case.
LEMMA ReportFollows ==
  ASSUME RowsInv, NEW t \in Tx, Commit(t), NEW g \in Existing, IsDense(EventsOf(g)),
         NEW e \in newEvents[t], e.grievanceId = g, \A d \in EventsOf(g) : d.seq < e.seq
  PROVE  e.seq \in Nat /\ \E d \in EventsOf(g) : d.seq + 1 = e.seq
<1>1. e.seq \in Nat /\ \A d \in EventsOf(g) : d.seq \in Nat \ {0}
  BY CommitEffect DEF Event, EventsOf, RowsInv, ChainInv, FormInv, TypeOK
<1>2. PICK d \in EventsOf(g) : d.seq < e.seq
  BY DEF IsDense
<1>3. e.seq # 1
  BY <1>1, <1>2
<1>4. Linked(e, events)
  BY DEF RowsInv, ChainInv, PendingIsNext
<1>5. QED
  BY <1>1, <1>3, <1>4 DEF Linked, EventsOf

\* A commit opens a trail, adds one event to a trail, or does both.
LEMMA CommitOrder ==
  ASSUME LifecycleInv, NEW t \in Tx, Commit(t), NEW g \in Existing'
  PROVE  /\ IsDense(EventsOf(g)')
         /\ cmd[t].op \in {"submit", "appeal"} /\ g = number[t] =>
              \E d : Opens(t, d) /\ InOrder(EventsOf(g)') = <<Entry(d)>>
         /\ cmd[t].op # "submit" /\ g = cmd[t].target =>
              \E e : Reports(t, e) /\ InOrder(EventsOf(g)') = Append(InOrder(EventsOf(g)), Entry(e))
         /\ g # number[t] /\ g # cmd[t].target =>
              grievances'[g] = grievances[g] /\ EventsOf(g)' = EventsOf(g)
<1>1. RowsInv /\ OnePerSeq(EventsOf(g)) /\ (g \in Existing => IsDense(EventsOf(g)))
  BY TrailsAreSingle DEF LifecycleInv
<1>2. cmd[t].op # "submit" => cmd[t].target # number[t]
  BY <1>1, CommitEffect
<1>3. CASE /\ cmd[t].op \in {"submit", "appeal"} /\ g = number[t]
           /\ \E d \in newEvents[t] : Opens(t, d) /\ d.seq = 1 /\ EventsOf(g)' = {d} /\ EventsOf(g) = {}
  <2>1. PICK d \in newEvents[t] : Opens(t, d) /\ d.seq = 1 /\ EventsOf(g)' = {d}
    BY <1>3
  <2>2. IsDense(EventsOf(g)') /\ InOrder(EventsOf(g)') = <<Entry(d)>>
    BY <2>1, DenseBegins, OrderBegins
  <2>3. QED
    BY <1>2, <1>3, <2>1, <2>2
<1>4. CASE /\ cmd[t].op # "submit" /\ g = cmd[t].target /\ g \in Existing
           /\ \E e \in newEvents[t] : /\ Reports(t, e) /\ EventsOf(g)' = EventsOf(g) \cup {e}
                                      /\ e.seq = NextSeq(t) /\ e \notin EventsOf(g)
                                      /\ \A d \in EventsOf(g) : d.seq < e.seq
  <2>1. PICK e \in newEvents[t] : /\ Reports(t, e) /\ EventsOf(g)' = EventsOf(g) \cup {e}
                                  /\ e \notin EventsOf(g) /\ \A d \in EventsOf(g) : d.seq < e.seq
    BY <1>4
  <2>2. e.grievanceId = g
    BY <1>4, <2>1 DEF Reports
  <2>3. e.seq \in Nat /\ \E d \in EventsOf(g) : d.seq + 1 = e.seq
    BY <1>1, <1>4, <2>1, <2>2, ReportFollows
  <2>4. /\ IsDense(EventsOf(g) \cup {e})
        /\ InOrder(EventsOf(g) \cup {e}) = Append(InOrder(EventsOf(g)), Entry(e))
    BY <1>1, <1>4, <2>1, <2>3, DenseGrows, OrderGrows
  <2>5. QED
    BY <1>2, <1>4, <2>1, <2>4
<1>5. CASE /\ ~(cmd[t].op \in {"submit", "appeal"} /\ g = number[t])
           /\ ~(cmd[t].op # "submit" /\ g = cmd[t].target)
           /\ g \in Existing /\ grievances'[g] = grievances[g] /\ EventsOf(g)' = EventsOf(g)
  BY <1>1, <1>5
<1>6. QED
  BY <1>1, <1>3, <1>4, <1>5, CommitTrail

\* A step that is not a commit changes no committed row and no committed event.
LEMMA OnlyCommitsShow ==
  ASSUME [Next]_vars
  PROVE  (\E t \in Tx : Commit(t)) \/ UNCHANGED <<grievances, events>>
<1>1. ASSUME NEW t \in Tx, Begin(t) PROVE UNCHANGED <<grievances, events>>
  BY <1>1 DEF Begin, SubmitGrievance, TransitionStatus, WithdrawGrievance, CloseGrievance,
              AssignGrievance, AddRemark, AddAttachment, FileAppeal, Start
<1>2. ASSUME NEW t \in Tx, Continue(t), ~Commit(t) PROVE UNCHANGED <<grievances, events>>
  BY <1>2 DEF Continue, CountReferences, InsertGrievance, RetryReference, UpdateGrievance,
              LoseStatusRace, Denied, ReadTail, AppendEvent, RetryAppend, Retry, Goto, Rollback, db
<1>3. ASSUME NEW t \in Tx, Abort(t) PROVE UNCHANGED <<grievances, events>>
  BY <1>3 DEF Abort, Rollback, db
<1>4. CASE UNCHANGED vars
  BY <1>4 DEF vars
<1>5. QED
  BY <1>1, <1>2, <1>3, <1>4 DEF Next

LEMMA InitLifecycle == Init => LifecycleInv
<1>1. ASSUME Init PROVE Existing = {}
  BY <1>1 DEF Init, NoRows, Existing
<1>2. QED
  BY <1>1, InitRows DEF LifecycleInv

LEMMA NextLifecycle == LifecycleInv /\ [Next]_vars => LifecycleInv'
<1> SUFFICES ASSUME LifecycleInv, [Next]_vars PROVE LifecycleInv'
  OBVIOUS
<1>1. RowsInv /\ RowsInv'
  BY NextRows DEF LifecycleInv
<1>2. CASE \E t \in Tx : Commit(t)
  BY <1>1, <1>2, CommitOrder DEF LifecycleInv
<1>3. CASE UNCHANGED <<grievances, events>>
  BY <1>1, <1>3 DEF LifecycleInv, Existing, EventsOf
<1>4. QED
  BY <1>1, <1>2, <1>3, OnlyCommitsShow DEF LifecycleInv

-----------------------------------------------------------------------------
(* The register. *)

RegisterHolds ==
  /\ Cardinality(Existing) \in Nat /\ Existing = 1 .. Cardinality(Existing)
  /\ DOMAIN CaseRegister = Existing /\ HasLength(CaseRegister, Cardinality(Existing))
  /\ \A g \in Existing : CaseRegister[g] = CaseOf(grievances[g], EventsOf(g))

\* The register has the existing cases, in the order of their numbers.
LEMMA RegisterIs == NumbersAreDense => RegisterHolds
<1> SUFFICES ASSUME NumbersAreDense PROVE RegisterHolds
  OBVIOUS
<1>1. Cardinality(Existing) \in Nat /\ Existing = 1 .. Cardinality(Existing)
  BY CountingRows DEF NumbersAreDense
<1>2. QED
  BY <1>1 DEF CaseRegister, HasLength, RegisterHolds

LEMMA RegisterIsNext == NumbersAreDense' => RegisterHolds'
BY RegisterIs, PTL

\* A step that shows nothing is none of the register's.
LEMMA QuietRegister == ASSUME UNCHANGED <<grievances, events>> PROVE CaseRegister' = CaseRegister
BY DEF CaseRegister, Existing, EventsOf

\* What the policy granted on the row that was read, the register grants on the case.
LEMMA StillEntitled ==
  ASSUME RowsInv, NEW t \in Tx, Commit(t), cmd[t].op # "submit"
  PROVE  LET u == cmd[t].actor
             row == grievances[cmd[t].target] IN
         /\ IF UserRole[u] = "student" THEN row.submittedById = u ELSE canAccessTrack(UserRole[u], row.track)
         /\ cmd[t].op \in {"transition", "close", "appeal"} =>
              UserRole[u] \in TRANSITION_ROLES[cmd[t].arg] /\ canTransition(row.status, cmd[t].arg)
         /\ cmd[t].op = "appeal" => cmd[t].arg = "appealed" /\ UserRole[u] = "student"
         /\ cmd[t].op \in {"transition", "close"} => cmd[t].arg # "appealed"
         /\ cmd[t].op = "assign" => /\ UserRole[u] \in {"moderator", "institution_admin"}
                                    /\ UserRole[cmd[t].arg] \in {"redressal_officer", "ombudsperson"}
         /\ cmd[t].op = "remark" /\ cmd[t].arg = "internal" => isStaff(UserRole[u])
<1>1. IsGranted(t) /\ cmd[t].op \in CommandNames
  BY CommitEffect DEF RowsInv, TxInv
<1>2. SameCase(seen[t], grievances[cmd[t].target])
  BY CommitEffect
<1>3. cmd[t].op \in {"transition", "close", "appeal"} => seen[t].status = grievances[cmd[t].target].status
  BY CommitEffect DEF StatusMoved
<1>4. canView(Actor(cmd[t].actor), seen[t])
  BY <1>1 DEF IsGranted, CommandNames, canSetStatus, canAssign, canComment
<1>5. IF UserRole[cmd[t].actor] = "student"
      THEN grievances[cmd[t].target].submittedById = cmd[t].actor
      ELSE canAccessTrack(UserRole[cmd[t].actor], grievances[cmd[t].target].track)
  BY <1>2, <1>4 DEF canView, SameCase, Actor
<1>6. cmd[t].op \in {"transition", "close", "appeal"} =>
        /\ UserRole[cmd[t].actor] \in TRANSITION_ROLES[cmd[t].arg]
        /\ canTransition(grievances[cmd[t].target].status, cmd[t].arg)
  BY <1>1, <1>3 DEF IsGranted, canSetStatus, Actor
<1>7. cmd[t].op = "appeal" => cmd[t].arg = "appealed" /\ UserRole[cmd[t].actor] = "student"
  BY <1>1, <1>6 DEF IsGranted, TRANSITION_ROLES
<1>8. QED
  BY <1>1, <1>5, <1>6, <1>7 DEF IsGranted, canAssign, Actor

Full(u, n, k, p, s, a, h) ==
  [submittedById |-> u, isAnonymous |-> n, track |-> k, appealOfId |-> p, status |-> s,
   assignedToId |-> a, history |-> h]

\* A case with a new status and assignee, and one more entry in its history.
WithEntry(c, status, assignee, x) ==
  [c EXCEPT !.status = status, !.assignedToId = assignee, !.history = Append(@, x)]

LEMMA FullUpdated ==
  ASSUME NEW u, NEW n, NEW k, NEW p, NEW s, NEW a, NEW h, NEW status, NEW assignee, NEW x
  PROVE  WithEntry(Full(u, n, k, p, s, a, h), status, assignee, x) =
         Full(u, n, k, p, status, assignee, Append(h, x))
<1>1. [Full(u, n, k, p, s, a, h) EXCEPT !.status = status] = Full(u, n, k, p, status, a, h)
  BY DEF Full
<1>2. [Full(u, n, k, p, status, a, h) EXCEPT !.assignedToId = assignee] =
      Full(u, n, k, p, status, assignee, h)
  BY DEF Full
<1>3. [Full(u, n, k, p, status, assignee, h) EXCEPT !.history = Append(h, x)] =
      Full(u, n, k, p, status, assignee, Append(h, x))
  BY DEF Full
<1>4. Full(u, n, k, p, s, a, h).history = h
  BY DEF Full
<1>5. [Full(u, n, k, p, s, a, h) EXCEPT !.status = status, !.assignedToId = assignee,
                                        !.history = Append(h, x)] =
      Full(u, n, k, p, status, assignee, Append(h, x))
  BY <1>1, <1>2, <1>3
<1>6. QED
  BY <1>4, <1>5 DEF WithEntry

LEMMA CaseWithEntry ==
  ASSUME NEW r, NEW s, SameCase(r, s), NEW S, NEW T, NEW x, InOrder(T) = Append(InOrder(S), x)
  PROVE  CaseOf(s, T) = WithEntry(CaseOf(r, S), s.status, s.assignedToId, x)
<1>1. CaseOf(r, S) = Full(s.submittedById, s.isAnonymous, s.track, s.appealOfId, r.status, r.assignedToId, InOrder(S))
  BY DEF CaseOf, SameCase, Full
<1>2. CaseOf(s, T) = Full(s.submittedById, s.isAnonymous, s.track, s.appealOfId, s.status, s.assignedToId,
                          Append(InOrder(S), x))
  BY DEF CaseOf, Full
<1>3. QED
  BY <1>1, <1>2, FullUpdated

\* The case a command is about keeps its first columns and gets one more entry.
LEMMA CaseReported ==
  ASSUME LifecycleInv, NEW t \in Tx, Commit(t), cmd[t].op # "submit", NEW g \in Existing, g = cmd[t].target
  PROVE  \E e : /\ Reports(t, e)
                /\ CaseOf(grievances'[g], EventsOf(g)') =
                     WithEntry(CaseOf(grievances[g], EventsOf(g)),
                               grievances'[g].status, grievances'[g].assignedToId, Entry(e))
<1>1. RowsInv /\ g \in Existing' /\ SameCase(grievances[g], grievances'[g])
  BY CommitSameCase DEF LifecycleInv
<1>2. PICK e : Reports(t, e) /\ InOrder(EventsOf(g)') = Append(InOrder(EventsOf(g)), Entry(e))
  BY <1>1, CommitOrder
<1>3. QED
  BY <1>1, <1>2, CaseWithEntry

LEMMA CaseOpened ==
  ASSUME LifecycleInv, NEW t \in Tx, Commit(t), cmd[t].op \in {"submit", "appeal"}, NEW g, g = number[t]
  PROVE  CaseOf(grievances'[g], EventsOf(g)') =
           Abstract!Opened(cmd[t].actor, InsertedRow(t).isAnonymous, InsertedRow(t).track, InsertedRow(t).appealOfId)
<1>1. RowsInv /\ g \in Existing' /\ grievances'[g] = InsertedRow(t)
  BY CommitEffect, CommitNumbers DEF LifecycleInv
<1>2. PICK d : Opens(t, d) /\ InOrder(EventsOf(g)') = <<Entry(d)>>
  BY <1>1, CommitOrder
<1>3. Entry(d) = [type |-> "submitted", actorId |-> cmd[t].actor, to |-> "submitted", ref |-> NULL,
                  visibility |-> "public"]
  BY <1>2 DEF Entry, Opens, Says
<1>4. /\ InsertedRow(t).submittedById = cmd[t].actor /\ InsertedRow(t).status = "submitted"
      /\ InsertedRow(t).assignedToId = NULL
  BY DEF InsertedRow, NewGrievance
<1>5. QED
  BY <1>1, <1>2, <1>3, <1>4 DEF CaseOf, Abstract!Opened

-----------------------------------------------------------------------------
(* A commit is one step of the register. *)

LEMMA RecordIs ==
  ASSUME NEW g, NEW u, NEW type, NEW to, NEW ref, NEW visibility, NEW status, NEW assignee
  PROVE  Abstract!Record(g, u, type, to, ref, visibility, status, assignee) =
           [CaseRegister EXCEPT ![g] =
              WithEntry(CaseRegister[g], status, assignee,
                        [type |-> type, actorId |-> u, to |-> to, ref |-> ref, visibility |-> visibility])]
BY DEF Abstract!Record, WithEntry

\* The columns of the register's cases, as the guards read them.
LEMMA CaseColumns ==
  ASSUME NEW row, NEW trail
  PROVE  LET c == CaseOf(row, trail) IN
         /\ c.submittedById = row.submittedById /\ c.isAnonymous = row.isAnonymous
         /\ c.track = row.track /\ c.status = row.status /\ c.assignedToId = row.assignedToId
BY DEF CaseOf

LEMMA CommitRegisters ==
  ASSUME LifecycleInv, LifecycleInv', NEW t \in Tx, Commit(t)
  PROVE  /\ RowsInv /\ RegisterHolds /\ RegisterHolds'
         /\ cmd[t].op \in {"submit", "appeal"} =>
              /\ number[t] = Cardinality(Existing) + 1
              /\ Cardinality(Existing)' = Cardinality(Existing) + 1
         /\ cmd[t].op \notin {"submit", "appeal"} => Cardinality(Existing)' = Cardinality(Existing)
<1>1. RowsInv /\ RegisterHolds /\ RegisterHolds'
  BY RegisterIs, RegisterIsNext DEF LifecycleInv, RowsInv
<1> DEFINE n == Cardinality(Existing)
<1>2. Existing' = Existing \cup (IF cmd[t].op \in {"submit", "appeal"} THEN {number[t]} ELSE {})
      /\ (cmd[t].op \in {"submit", "appeal"} => number[t] = n + 1)
  BY <1>1, CommitNumbers
<1>3. n \in Nat /\ Existing = 1 .. n /\ Cardinality(Existing') = Cardinality(Existing)'
  BY <1>1 DEF RegisterHolds
<1>4. CASE cmd[t].op \in {"submit", "appeal"}
  <2>1. Existing' = 1 .. (n + 1)
    BY <1>2, <1>3, <1>4
  <2>2. Cardinality(1 .. (n + 1)) = n + 1
    BY <1>3, FS_Interval
  <2>3. QED
    BY <1>1, <1>2, <1>3, <1>4, <2>1, <2>2
<1>5. CASE cmd[t].op \notin {"submit", "appeal"}
  BY <1>1, <1>2, <1>3, <1>5
<1>6. QED
  BY <1>4, <1>5

\* A command that opens a case makes the register one longer.
LEMMA OpeningAppends ==
  ASSUME LifecycleInv, LifecycleInv', NEW t \in Tx, Commit(t), cmd[t].op \in {"submit", "appeal"},
         NEW s, HasLength(s, Cardinality(Existing)), \A g \in Existing : CaseRegister'[g] = s[g]
  PROVE  CaseRegister' =
           Append(s, Abstract!Opened(cmd[t].actor, InsertedRow(t).isAnonymous, InsertedRow(t).track,
                                     InsertedRow(t).appealOfId))
<1> DEFINE new == Abstract!Opened(cmd[t].actor, InsertedRow(t).isAnonymous, InsertedRow(t).track,
                                  InsertedRow(t).appealOfId)
<1>1. PICK n : n = Cardinality(Existing)
  OBVIOUS
<1>2. /\ RowsInv /\ RegisterHolds /\ RegisterHolds'
      /\ number[t] = n + 1 /\ Cardinality(Existing)' = n + 1
  BY <1>1, CommitRegisters
<1>3. n \in Nat /\ Existing = 1 .. n /\ HasLength(s, n) /\ HasLength(CaseRegister', n + 1)
  BY <1>1, <1>2 DEF RegisterHolds
<1>4. n + 1 \in Existing'
  BY <1>2, CommitNumbers
<1>5. CaseRegister'[n + 1] = CaseOf(grievances'[n + 1], EventsOf(n + 1)')
  BY <1>2, <1>4 DEF RegisterHolds
<1>6. CaseRegister'[n + 1] = new
  BY <1>2, <1>5, CaseOpened
<1> HIDE DEF new
<1>7. CaseRegister' = Append(s, new)
  BY <1>3, <1>6, AppendIs
<1>8. QED
  BY <1>7 DEF new

\* The other cases stay what they are.
LEMMA OthersStay ==
  ASSUME LifecycleInv, LifecycleInv', NEW t \in Tx, Commit(t), NEW g \in Existing,
         cmd[t].op = "submit" \/ g # cmd[t].target
  PROVE  CaseRegister'[g] = CaseRegister[g]
<1>1. RowsInv /\ RegisterHolds /\ RegisterHolds'
  BY CommitRegisters
<1>2. g \in Existing' /\ g \in GrievanceId
  BY <1>1, CommitNumbers DEF Existing
<1>3. g # number[t] \/ cmd[t].op \notin {"submit", "appeal"}
  BY <1>1, CommitEffect
<1>4. grievances'[g] = grievances[g] /\ EventsOf(g)' = EventsOf(g)
  BY <1>1, <1>2, <1>3, CommitTrail
<1>5. QED
  BY <1>1, <1>2, <1>4 DEF RegisterHolds

LEMMA FileStep ==
  ASSUME LifecycleInv, LifecycleInv', NEW t \in Tx, Commit(t), cmd[t].op = "submit"
  PROVE  Abstract!File(cmd[t].actor, cmd[t].arg, cmd[t].anon)
<1>1. RowsInv /\ HasLength(CaseRegister, Cardinality(Existing))
  BY CommitRegisters DEF RegisterHolds
<1>2. UserRole[cmd[t].actor] = "student"
  BY <1>1 DEF RowsInv, TxInv, IsGranted
<1>3. /\ InsertedRow(t).isAnonymous = cmd[t].anon /\ InsertedRow(t).track = cmd[t].arg
      /\ InsertedRow(t).appealOfId = NULL
  BY DEF InsertedRow, NewGrievance
<1>4. CaseRegister' = Append(CaseRegister, Abstract!Opened(cmd[t].actor, cmd[t].anon, cmd[t].arg, NULL))
  BY <1>1, <1>3, OthersStay, OpeningAppends
<1>5. QED
  BY <1>2, <1>4 DEF Abstract!File

\* A command on a case that exists replaces that case by one with one more entry.
LEMMA ReportingReplaces ==
  ASSUME LifecycleInv, LifecycleInv', NEW t \in Tx, Commit(t), cmd[t].op # "submit", NEW g, g = cmd[t].target
  PROVE  /\ g \in Existing /\ g \in DOMAIN CaseRegister
         /\ CaseRegister[g] = CaseOf(grievances[g], EventsOf(g))
         /\ \E e : /\ Reports(t, e)
                   /\ CaseRegister'[g] = WithEntry(CaseRegister[g], grievances'[g].status,
                                                   grievances'[g].assignedToId, Entry(e))
<1>1. RowsInv /\ RegisterHolds /\ RegisterHolds'
  BY CommitRegisters
<1>2. g \in Existing /\ g \in Existing'
  BY <1>1, CommitEffect, CommitNumbers
<1>3. /\ CaseRegister[g] = CaseOf(grievances[g], EventsOf(g))
      /\ CaseRegister'[g] = CaseOf(grievances'[g], EventsOf(g)')
      /\ g \in DOMAIN CaseRegister
  BY <1>1, <1>2 DEF RegisterHolds
<1>4. PICK e : /\ Reports(t, e)
               /\ CaseOf(grievances'[g], EventsOf(g)') =
                     WithEntry(CaseOf(grievances[g], EventsOf(g)),
                               grievances'[g].status, grievances'[g].assignedToId, Entry(e))
  BY <1>2, CaseReported
<1>5. QED
  BY <1>2, <1>3, <1>4

\* Nothing else changes when no case is opened.
LEMMA RegisterReplaced ==
  ASSUME LifecycleInv, LifecycleInv', NEW t \in Tx, Commit(t),
         cmd[t].op \in {"transition", "close", "assign", "remark", "attach"}, NEW g, g = cmd[t].target
  PROVE  CaseRegister' = [CaseRegister EXCEPT ![g] = CaseRegister'[g]]
<1>1. /\ RegisterHolds /\ RegisterHolds' /\ Cardinality(Existing)' = Cardinality(Existing)
  BY CommitRegisters
<1>2. PICK n : n = Cardinality(Existing)
  OBVIOUS
<1>3. n \in Nat /\ Existing = 1 .. n /\ HasLength(CaseRegister, n) /\ HasLength(CaseRegister', n)
  BY <1>1, <1>2 DEF RegisterHolds
<1>4. \A i \in 1 .. n : i # g => CaseRegister'[i] = CaseRegister[i]
  BY <1>3, OthersStay
<1>5. QED
  BY <1>3, <1>4 DEF HasLength

LEMMA RowAfter ==
  ASSUME RowsInv, NEW t \in Tx, Commit(t), cmd[t].op # "submit", NEW g, g = cmd[t].target
  PROVE  /\ grievances'[g].status =
              IF cmd[t].op \in {"transition", "close", "appeal"} THEN cmd[t].arg ELSE grievances[g].status
         /\ grievances'[g].assignedToId =
              IF cmd[t].op = "assign" THEN cmd[t].arg ELSE grievances[g].assignedToId
<1>1. grievances[g] \in Grievance /\ cmd[t].op \in CommandNames
  BY CommitEffect
<1>2. CASE cmd[t].op \in {"transition", "close", "appeal"}
  <2>1. grievances'[g] = WithStatus(grievances[g], cmd[t].arg)
    BY <1>2, CommitEffect DEF UpdatedRow
  <2>2. QED
    BY <1>1, <1>2, <2>1 DEF WithStatus, Grievance
<1>3. CASE cmd[t].op = "assign"
  <2>1. grievances'[g] = [grievances[g] EXCEPT !.assignedToId = cmd[t].arg]
    BY <1>3, CommitEffect DEF UpdatedRow
  <2>2. QED
    BY <1>1, <1>3, <2>1 DEF Grievance
<1>4. CASE cmd[t].op \in {"remark", "attach"}
  BY <1>4, CommitEffect
<1>5. QED
  BY <1>1, <1>2, <1>3, <1>4 DEF CommandNames

\* The register's guards are those of the policy on the committed row.
LEMMA EntitledHere ==
  ASSUME LifecycleInv, LifecycleInv', NEW t \in Tx, Commit(t), cmd[t].op # "submit", NEW g, g = cmd[t].target
  PROVE  /\ Abstract!Entitled(cmd[t].actor, g)
         /\ CaseRegister[g].status = grievances[g].status
         /\ CaseRegister[g].assignedToId = grievances[g].assignedToId
         /\ CaseRegister[g].isAnonymous = grievances[g].isAnonymous
<1>1. CaseRegister[g] = CaseOf(grievances[g], EventsOf(g))
  BY ReportingReplaces
<1>2. /\ CaseRegister[g].submittedById = grievances[g].submittedById
      /\ CaseRegister[g].track = grievances[g].track
      /\ CaseRegister[g].status = grievances[g].status
      /\ CaseRegister[g].assignedToId = grievances[g].assignedToId
      /\ CaseRegister[g].isAnonymous = grievances[g].isAnonymous
  BY <1>1, CaseColumns
<1>3. IF UserRole[cmd[t].actor] = "student"
      THEN grievances[g].submittedById = cmd[t].actor
      ELSE canAccessTrack(UserRole[cmd[t].actor], grievances[g].track)
  BY StillEntitled DEF LifecycleInv
<1>4. QED
  BY <1>2, <1>3 DEF Abstract!Entitled, Abstract!canAccessTrack, canAccessTrack, Abstract!TRACK_ROLES, TRACK_ROLES

LEMMA DecideStep ==
  ASSUME LifecycleInv, LifecycleInv', NEW t \in Tx, Commit(t), cmd[t].op \in {"transition", "close"},
         NEW g, g = cmd[t].target
  PROVE  Abstract!Decide(cmd[t].actor, g, cmd[t].arg)
<1>1. RowsInv
  BY DEF LifecycleInv
<1>2. PICK e : /\ Reports(t, e)
               /\ CaseRegister'[g] = WithEntry(CaseRegister[g], grievances'[g].status,
                                               grievances'[g].assignedToId, Entry(e))
  BY ReportingReplaces
<1>3. Entry(e) = [type |-> "status_changed", actorId |-> cmd[t].actor, to |-> cmd[t].arg, ref |-> NULL,
                  visibility |-> "public"]
  BY <1>2 DEF Reports, Says, Entry
<1>4. /\ grievances'[g].status = cmd[t].arg
      /\ grievances'[g].assignedToId = CaseRegister[g].assignedToId
      /\ CaseRegister[g].status = grievances[g].status
      /\ Abstract!Entitled(cmd[t].actor, g)
  BY <1>1, RowAfter, EntitledHere
<1>5. CaseRegister' = Abstract!Record(g, cmd[t].actor, "status_changed", cmd[t].arg, NULL, "public",
                                      cmd[t].arg, CaseRegister[g].assignedToId)
  <2>1. CaseRegister' = [CaseRegister EXCEPT ![g] = CaseRegister'[g]]
    BY RegisterReplaced
  <2>2. CaseRegister'[g] = WithEntry(CaseRegister[g], cmd[t].arg, CaseRegister[g].assignedToId, Entry(e))
    BY <1>2, <1>4
  <2>3. QED
    BY <1>3, <2>1, <2>2, RecordIs
<1>6. /\ UserRole[cmd[t].actor] \in TRANSITION_ROLES[cmd[t].arg]
      /\ canTransition(CaseRegister[g].status, cmd[t].arg) /\ cmd[t].arg # "appealed"
  BY <1>1, <1>4, StillEntitled
<1>7. QED
  BY <1>4, <1>5, <1>6 DEF Abstract!Decide, Abstract!TRANSITION_ROLES, TRANSITION_ROLES,
                          Abstract!canTransition, canTransition, Abstract!TRANSITIONS, TRANSITIONS

LEMMA AssignStep ==
  ASSUME LifecycleInv, LifecycleInv', NEW t \in Tx, Commit(t), cmd[t].op = "assign", NEW g, g = cmd[t].target
  PROVE  Abstract!Assign(cmd[t].actor, g, cmd[t].arg)
<1>1. RowsInv
  BY DEF LifecycleInv
<1>2. PICK e : /\ Reports(t, e)
               /\ CaseRegister'[g] = WithEntry(CaseRegister[g], grievances'[g].status,
                                               grievances'[g].assignedToId, Entry(e))
  BY ReportingReplaces
<1>3. Entry(e) = [type |-> "assigned", actorId |-> cmd[t].actor, to |-> cmd[t].arg, ref |-> NULL,
                  visibility |-> "internal"]
  BY <1>2 DEF Reports, Says, Entry
<1>4. /\ grievances'[g].status = CaseRegister[g].status
      /\ grievances'[g].assignedToId = cmd[t].arg
      /\ Abstract!Entitled(cmd[t].actor, g)
  BY <1>1, RowAfter, EntitledHere
<1>5. CaseRegister' = Abstract!Record(g, cmd[t].actor, "assigned", cmd[t].arg, NULL, "internal",
                                      CaseRegister[g].status, cmd[t].arg)
  <2>1. CaseRegister' = [CaseRegister EXCEPT ![g] = CaseRegister'[g]]
    BY RegisterReplaced
  <2>2. CaseRegister'[g] = WithEntry(CaseRegister[g], CaseRegister[g].status, cmd[t].arg, Entry(e))
    BY <1>2, <1>4
  <2>3. QED
    BY <1>3, <2>1, <2>2, RecordIs
<1>6. /\ UserRole[cmd[t].actor] \in {"moderator", "institution_admin"}
      /\ UserRole[cmd[t].arg] \in {"redressal_officer", "ombudsperson"}
  BY <1>1, StillEntitled
<1>7. QED
  BY <1>4, <1>5, <1>6 DEF Abstract!Assign

LEMMA NoteStep ==
  ASSUME LifecycleInv, LifecycleInv', NEW t \in Tx, Commit(t), cmd[t].op \in {"remark", "attach"},
         NEW g, g = cmd[t].target
  PROVE  \E type \in {"remark_added", "attachment_added"}, visibility \in {"public", "internal"} :
           Abstract!Note(cmd[t].actor, g, type, visibility)
<1> DEFINE type == IF cmd[t].op = "remark" THEN "remark_added" ELSE "attachment_added"
           visibility == IF cmd[t].op = "remark" THEN cmd[t].arg ELSE "public"
<1>1. RowsInv /\ visibility \in {"public", "internal"} /\ type \in {"remark_added", "attachment_added"}
  BY DEF LifecycleInv, RowsInv, ChainInv, FormInv, CommandIsFormed
<1>2. PICK e : /\ Reports(t, e)
               /\ CaseRegister'[g] = WithEntry(CaseRegister[g], grievances'[g].status,
                                               grievances'[g].assignedToId, Entry(e))
  BY ReportingReplaces
<1>3. Entry(e) = [type |-> type, actorId |-> cmd[t].actor, to |-> NULL, ref |-> NULL,
                  visibility |-> visibility]
  BY <1>2 DEF Reports, Says, Entry
<1>4. /\ grievances'[g].status = CaseRegister[g].status
      /\ grievances'[g].assignedToId = CaseRegister[g].assignedToId
      /\ Abstract!Entitled(cmd[t].actor, g)
  BY <1>1, RowAfter, EntitledHere
<1>5. visibility = "internal" => type = "remark_added" /\ isStaff(UserRole[cmd[t].actor])
  BY <1>1, StillEntitled
<1> HIDE DEF type, visibility
<1>6. CaseRegister' = Abstract!Record(g, cmd[t].actor, type, NULL, NULL, visibility,
                                      CaseRegister[g].status, CaseRegister[g].assignedToId)
  <2>1. CaseRegister' = [CaseRegister EXCEPT ![g] = CaseRegister'[g]]
    BY RegisterReplaced
  <2>2. CaseRegister'[g] = WithEntry(CaseRegister[g], CaseRegister[g].status, CaseRegister[g].assignedToId, Entry(e))
    BY <1>2, <1>4
  <2>3. QED
    BY <1>3, <2>1, <2>2, RecordIs
<1>7. Abstract!Note(cmd[t].actor, g, type, visibility)
  BY <1>4, <1>5, <1>6 DEF Abstract!Note, Abstract!isStaff, isStaff, Abstract!STAFF_ROLES, STAFF_ROLES,
                          Abstract!Role, Role
<1>8. QED
  BY <1>1, <1>7

LEMMA AppealStep ==
  ASSUME LifecycleInv, LifecycleInv', NEW t \in Tx, Commit(t), cmd[t].op = "appeal", NEW g, g = cmd[t].target
  PROVE  Abstract!Appeal(cmd[t].actor, g)
<1> DEFINE r == Abstract!Record(g, cmd[t].actor, "appealed", "appealed", Len(CaseRegister) + 1, "public",
                                "appealed", CaseRegister[g].assignedToId)
<1>1. PICK n : n = Cardinality(Existing)
  OBVIOUS
<1>2. /\ RowsInv /\ RegisterHolds /\ number[t] = n + 1
      /\ n \in Nat /\ Existing = 1 .. n /\ HasLength(CaseRegister, n)
  BY <1>1, CommitRegisters DEF RegisterHolds
<1>3. Len(CaseRegister) = n
  <2>1. \A i \in 1 .. n : CaseRegister[i] \in {CaseRegister[j] : j \in 1 .. n}
    OBVIOUS
  <2>2. QED
    BY <1>2, <2>1, FunctionIsSequence
<1>4. PICK e : /\ Reports(t, e)
               /\ CaseRegister'[g] = WithEntry(CaseRegister[g], grievances'[g].status,
                                               grievances'[g].assignedToId, Entry(e))
  BY ReportingReplaces
<1>5. /\ cmd[t].arg = "appealed" /\ UserRole[cmd[t].actor] = "student"
      /\ canTransition(grievances[g].status, "appealed")
  BY <1>2, StillEntitled
<1>6. Entry(e) = [type |-> "appealed", actorId |-> cmd[t].actor, to |-> "appealed", ref |-> n + 1,
                  visibility |-> "public"]
  BY <1>2, <1>4, <1>5 DEF Reports, Says, Entry
<1>7. /\ grievances'[g].status = "appealed"
      /\ grievances'[g].assignedToId = CaseRegister[g].assignedToId
      /\ CaseRegister[g].status = grievances[g].status
      /\ CaseRegister[g].isAnonymous = grievances[g].isAnonymous
      /\ Abstract!Entitled(cmd[t].actor, g)
  BY <1>2, <1>5, RowAfter, EntitledHere
<1>8. g \in Existing /\ g \in DOMAIN CaseRegister
  BY ReportingReplaces
<1>9. r = [CaseRegister EXCEPT ![g] = CaseRegister'[g]]
  <2>1. CaseRegister'[g] = WithEntry(CaseRegister[g], "appealed", CaseRegister[g].assignedToId, Entry(e))
    BY <1>4, <1>7
  <2>2. QED
    BY <1>3, <1>6, <2>1, RecordIs
<1> HIDE DEF r
<1>10. HasLength(r, n) /\ \A i \in Existing : CaseRegister'[i] = r[i]
  <2>1. HasLength(r, n)
    BY <1>2, <1>9 DEF HasLength
  <2>2. \A i \in Existing : i # g => CaseRegister'[i] = CaseRegister[i]
    BY OthersStay
  <2>3. QED
    BY <1>2, <1>8, <1>9, <2>1, <2>2 DEF HasLength
<1>11. /\ InsertedRow(t).isAnonymous = CaseRegister[g].isAnonymous /\ InsertedRow(t).track = "sgrc"
       /\ InsertedRow(t).appealOfId = g
  <2>1. /\ InsertedRow(t).isAnonymous = seen[t].isAnonymous /\ InsertedRow(t).track = "sgrc"
        /\ InsertedRow(t).appealOfId = g
    BY DEF InsertedRow, NewGrievance
  <2>2. seen[t].isAnonymous = grievances[g].isAnonymous
    BY <1>2, CommitEffect DEF SameCase
  <2>3. QED
    BY <1>7, <2>1, <2>2
<1>12. CaseRegister' = Append(r, Abstract!Opened(cmd[t].actor, CaseRegister[g].isAnonymous, "sgrc", g))
  BY <1>1, <1>10, <1>11, OpeningAppends
<1>13. QED
  BY <1>5, <1>7, <1>12 DEF r, Abstract!Appeal, Abstract!canTransition, canTransition,
                           Abstract!TRANSITIONS, TRANSITIONS

LEMMA CommitIsStep ==
  ASSUME LifecycleInv, LifecycleInv', NEW t \in Tx, Commit(t)
  PROVE  Abstract!Next
<1>1. /\ cmd[t].op \in CommandNames /\ cmd[t].actor \in Users /\ FormInv /\ CommandIsFormed(t)
      /\ cmd[t] \in Command /\ IsGranted(t)
  BY CommitEffect DEF LifecycleInv, RowsInv, ChainInv, FormInv, TypeOK, TxInv
<1>2. CASE cmd[t].op = "submit"
  <2>1. cmd[t].arg \in CategoryTracks /\ cmd[t].anon \in BOOLEAN
    BY <1>1, <1>2 DEF IsGranted, Command
  <2>2. QED
    BY <1>1, <1>2, <2>1, FileStep DEF Abstract!Next
<1>3. PICK g : g = cmd[t].target
  OBVIOUS
<1>4. cmd[t].op # "submit" => g \in DOMAIN CaseRegister
  BY <1>3, ReportingReplaces
<1>5. CASE cmd[t].op \in {"transition", "close"}
  <2>1. cmd[t].arg \in Abstract!Status
    BY <1>1, <1>5 DEF CommandIsFormed, Abstract!Status, Status
  <2>2. QED
    BY <1>1, <1>3, <1>4, <1>5, <2>1, DecideStep DEF Abstract!Next
<1>6. CASE cmd[t].op = "assign"
  <2>1. cmd[t].arg \in Users
    BY <1>1, <1>6 DEF CommandIsFormed
  <2>2. QED
    BY <1>1, <1>3, <1>4, <1>6, <2>1, AssignStep DEF Abstract!Next
<1>7. CASE cmd[t].op \in {"remark", "attach"}
  BY <1>1, <1>3, <1>4, <1>7, NoteStep DEF Abstract!Next
<1>8. CASE cmd[t].op = "appeal"
  BY <1>1, <1>3, <1>4, <1>8, AppealStep DEF Abstract!Next
<1>9. QED
  BY <1>1, <1>2, <1>5, <1>6, <1>7, <1>8 DEF CommandNames

LEMMA InitIsInit == Init => Abstract!Init
<1> SUFFICES ASSUME Init PROVE CaseRegister = <<>>
  BY DEF Abstract!Init
<1>1. Existing = {} /\ Cardinality(Existing) = 0
  BY FS_EmptySet DEF Init, NoRows, Existing
<1>2. QED
  BY <1>1 DEF CaseRegister

\* Every command of commands.ts acts at once or not at all: the committed rows and
\* trails of any number of racing, retrying and failing transactions change only by
\* single steps of the register, each granted by the policy on the case as it is then.
THEOREM CommandsAreAtomic == Spec => ImplementsLifecycle
<1>1. LifecycleInv /\ LifecycleInv' /\ [Next]_vars => [Abstract!Next]_CaseRegister
  <2> SUFFICES ASSUME LifecycleInv, LifecycleInv', [Next]_vars PROVE [Abstract!Next]_CaseRegister
    OBVIOUS
  <2>1. CASE \E t \in Tx : Commit(t)
    BY <2>1, CommitIsStep
  <2>2. CASE UNCHANGED <<grievances, events>>
    BY <2>2, QuietRegister
  <2>3. QED
    BY <2>1, <2>2, OnlyCommitsShow
<1>2. QED
  BY <1>1, InitLifecycle, NextLifecycle, InitIsInit, PTL DEF Spec, ImplementsLifecycle, Abstract!Spec

=============================================================================
