------------------------------ MODULE Loading ------------------------------
(***************************************************************************)
(* How a register of grievances is filled other than one by one: the       *)
(* import of a 2019 dump (scripts/import-legacy.ts) and the demonstration  *)
(* data (scripts/seed.ts), running beside live filings, decisions and      *)
(* appeals, for one institution. The reports of Reports are read off the   *)
(* result.                                                                 *)
(*                                                                         *)
(* An import is one transaction with a private record of what it has       *)
(* inserted; a unique value it has inserted blocks whoever wants the same  *)
(* one until it ends. Reading the dump (parseInserts) and its text are     *)
(* left out, and the hashes of a trail are in AuditChain. A live command   *)
(* is one step, as Commands shows that it may be.                          *)
(***************************************************************************)
EXTENDS Reports

CONSTANTS
  LegacyUsers, LegacyAdmins,        \* sequences of [id, email]
  LegacyCats, LegacySubcats,        \* of [id, name] and of [parent, name]
  LegacyComplaints,                 \* of [no, user, cat, sub, date, status, words]
  LegacyRemarks,                    \* of [no, date, remark]
  Plan, SeedLeaves,                 \* the seed's buckets; its leaves as [id, name, track, sla],
                                    \* whose sla is NULL without a window of their own
  BurstSize, SeedAccounts,          \* the burst of one incident; the demo accounts
  Words,                            \* the term sets live grievances may have
  Importers,                        \* runs of the import that may be going on
  Accounts0,                        \* accounts that may exist before anything is loaded
  SlaResolutionDays, SlaIccInquiryDays, SlaOmbudspersonDays,   \* windows of the institution
  Instants,
  Filers, FiledUnder,               \* bounds: the accounts that file live cases, and the
                                    \* names of the categories they file them under
  MaxImports, MaxFiled, MaxDecisions   \* bounds

ASSUME LoadingAssumption ==
  /\ {BurstSize, SlaResolutionDays, SlaIccInquiryDays, SlaOmbudspersonDays,
      MaxImports, MaxFiled, MaxDecisions} \subseteq Nat
  /\ Instants \subseteq Nat \ {0} /\ Instants # {} /\ IsFiniteSet(Instants)

\* A dump is a list per table, whose complaints have a primary key; and no category of the
\* seed has an id that an import draws (ids are random).
ASSUME DumpAssumption ==
  /\ \A list \in {LegacyUsers, LegacyAdmins, LegacyCats, LegacySubcats, LegacyComplaints,
                  LegacyRemarks, Plan, SeedLeaves} : list \in Seq(ToSet(list))
  /\ \A i, j \in DOMAIN LegacyComplaints : LegacyComplaints[i].no = LegacyComplaints[j].no => i = j
  /\ \A i \in DOMAIN LegacyComplaints : LegacyComplaints[i].date \in Nat \cup {NULL}
  /\ \A i \in DOMAIN SeedLeaves :
       ~\E batch \in 1 .. MaxImports, list \in {"cat", "sub"},
           k \in DOMAIN LegacyCats \cup DOMAIN LegacySubcats : SeedLeaves[i].id = <<batch, list, k>>

Buckets == {"on_track", "due_soon", "breached", "resolved_closed", "appealed", "rejected"}

\* There is a category for the cases of the plan.
ASSUME SeedAssumption ==
  /\ ToSet(Plan) \subseteq Buckets
  /\ \A i \in DOMAIN SeedLeaves : SeedLeaves[i].sla \in Nat \cup {NULL}
  /\ \E i \in DOMAIN SeedLeaves : SeedLeaves[i].track # "icc"

VARIABLES
  now,
  institution,   \* whether it exists
  accounts,      \* the addresses of its users
  categories,    \* its categories, as [id, name, parent, track, sla]
  rows,          \* its grievances, with their trails
  seeding,       \* whether the seed has made the institution and not yet filled it
  importing,     \* per import: NULL, or what its transaction has done
  imports        \* imports begun so far

vars == <<now, institution, accounts, categories, rows, seeding, importing, imports>>

Least(S)    == CHOOSE x \in S : \A y \in S : x <= y
Larger(a, b) == IF a > b THEN a ELSE b

References == {rows[n].ref : n \in DOMAIN rows}

-----------------------------------------------------------------------------
(* The import. *)

mapStatus ==
  [s \in {NULL, "in process", "closed", "resolved", "rejected", "other"} |->
     CASE s = "in process" -> "in_progress"
       [] s \in {"closed", "resolved", "rejected"} -> s
       [] OTHER -> "submitted"]

\* A date that cannot be read is the epoch.
parseDate(day) == IF day = NULL THEN 0 ELSE day

UserKey(id) == <<"", id>>

\* Mutant: administrators and students are numbered in one map.
AdminKey_Bare(id) == <<"", id>>
AdminKey(id) == <<"admin:", id>>

\* The accounts of the dump in the order they are inserted.
DumpAccounts ==
  [i \in 1 .. Len(LegacyUsers) + Len(LegacyAdmins) |->
     IF i <= Len(LegacyUsers)
     THEN [key |-> UserKey(LegacyUsers[i].id), email |-> LegacyUsers[i].email]
     ELSE LET a == LegacyAdmins[i - Len(LegacyUsers)] IN [key |-> AdminKey(a.id), email |-> a.email]]

\* An address that is taken, by an account or by an earlier line, inserts nothing.
Inserted ==
  {i \in DOMAIN DumpAccounts :
     /\ DumpAccounts[i].email \notin accounts
     /\ \A j \in 1 .. i - 1 : DumpAccounts[j].email # DumpAccounts[i].email}

\* What the import remembers: the account of each line that was inserted, by its key.
UserIdMap ==
  [key \in {DumpAccounts[i].key : i \in Inserted} |->
     LET lines == {i \in Inserted : DumpAccounts[i].key = key}
     IN DumpAccounts[CHOOSE i \in lines : \A j \in lines : j <= i].email]

\* Imported categories are on the default track and have no window of their own.
NewCategories(batch) ==
  {[id |-> <<batch, "cat", i>>, name |-> LegacyCats[i].name, parent |-> NULL,
    track |-> "sgrc", sla |-> NULL] : i \in DOMAIN LegacyCats}
    \cup
  {[id |-> <<batch, "sub", i>>, name |-> LegacySubcats[i].name,
    parent |-> LET up == {k \in DOMAIN LegacyCats : LegacyCats[k].id = LegacySubcats[i].parent}
               IN IF up = {} THEN NULL ELSE <<batch, "cat", Least(up)>>,
    track |-> "sgrc", sla |-> NULL] : i \in DOMAIN LegacySubcats}

\* A complaint names its subcategory, and the last one of that name is taken.
CategoryFor(batch, c) ==
  LET subs == {i \in DOMAIN LegacySubcats : LegacySubcats[i].name = c.sub}
      cats == {i \in DOMAIN LegacyCats : LegacyCats[i].id = c.cat}
  IN IF subs # {} THEN <<batch, "sub", CHOOSE i \in subs : \A j \in subs : j <= i>>
     ELSE IF cats # {} THEN <<batch, "cat", Least(cats)>> ELSE NULL

\* The row of the k-th complaint, before it has a trail.
LegacyRow(run, year, k) ==
  LET c == LegacyComplaints[k]
      key == UserKey(c.user)
  IN [ref |-> <<"LEGACY", year, k>>,
      submittedById |-> IF key \in DOMAIN run.userIdMap THEN run.userIdMap[key] ELSE NULL,
      categoryId |-> CategoryFor(run.batch, c),
      kind |-> "grievance", track |-> "sgrc", status |-> mapStatus[c.status],
      createdAt |-> parseDate(c.date), dueAt |-> NULL,
      resolvedAt |-> NULL, closedAt |-> NULL, words |-> c.words, trail |-> <<>>]

\* Its trail: that it was filed, and its own remarks by date, those of one date in the
\* order of the dump.
OwnRemarks(k) == {i \in DOMAIN LegacyRemarks : LegacyRemarks[i].no = LegacyComplaints[k].no}

LegacyTrail(k) ==
  LET sorted == InOrder([i \in OwnRemarks(k) |-> parseDate(LegacyRemarks[i].date)])
  IN [e \in 1 .. Cardinality(OwnRemarks(k)) + 1 |->
        IF e = 1 THEN "submitted" ELSE LegacyRemarks[sorted[e - 1]].remark]

Others(i) == {j \in Importers \ {i} : importing[j] # NULL}

Step(i, run) ==
  /\ importing' = [importing EXCEPT ![i] = run]
  /\ UNCHANGED <<now, institution, accounts, categories, rows, seeding, imports>>

\* Without --commit, or for an institution that is not there, nothing happens.
StartImport(i) ==
  /\ institution /\ importing[i] = NULL /\ imports < MaxImports
  /\ importing' = [importing EXCEPT ![i] = [at |-> "users", batch |-> imports + 1,
                     accounts |-> {}, userIdMap |-> <<>>, categories |-> {}, rows |-> <<>>]]
  /\ imports' = imports + 1
  /\ UNCHANGED <<now, institution, accounts, categories, rows, seeding>>

ImportUsers(i) ==
  /\ importing[i] # NULL /\ importing[i].at = "users"
  /\ \A j \in Others(i) : importing[j].accounts = {}
  /\ Step(i, [importing[i] EXCEPT !.at = "categories", !.userIdMap = UserIdMap,
                                  !.accounts = {DumpAccounts[k].email : k \in Inserted}])

ImportCategories(i) ==
  /\ importing[i] # NULL /\ importing[i].at = "categories"
  /\ Step(i, [importing[i] EXCEPT !.at = "complaints", !.categories = NewCategories(importing[i].batch)])

\* The year is that of the moment; a reference that is taken ends the run.
ImportComplaints(i) ==
  /\ importing[i] # NULL /\ importing[i].at = "complaints"
  /\ \A j \in Others(i) : importing[j].rows # <<>> => importing[j].rows[1].ref[2] # YearOf(now)
  /\ LET new == [k \in DOMAIN LegacyComplaints |-> LegacyRow(importing[i], YearOf(now), k)]
     IN Step(i, IF \E k \in DOMAIN new : new[k].ref \in References THEN NULL
                ELSE [importing[i] EXCEPT !.at = "trails", !.rows = new])

ImportTrails(i) ==
  /\ importing[i] # NULL /\ importing[i].at = "trails"
  /\ Step(i, [importing[i] EXCEPT !.at = "commit",
                !.rows = [k \in DOMAIN @ |-> [@[k] EXCEPT !.trail = LegacyTrail(k)]]])

CommitImport(i) ==
  /\ importing[i] # NULL /\ importing[i].at = "commit"
  /\ accounts' = accounts \cup importing[i].accounts
  /\ categories' = categories \cup importing[i].categories
  /\ rows' = rows \o importing[i].rows
  /\ importing' = [importing EXCEPT ![i] = NULL]
  /\ UNCHANGED <<now, institution, seeding, imports>>

\* Mutant: what was inserted before the process died stays.
AfterCrash_KeepsInserts(run) == rows \o run.rows
AfterCrash(run) == rows

\* The process dies, or its connection does.
ImportDies(i) ==
  /\ importing[i] # NULL
  /\ rows' = AfterCrash(importing[i])
  /\ importing' = [importing EXCEPT ![i] = NULL]
  /\ UNCHANGED <<now, institution, accounts, categories, seeding, imports>>

-----------------------------------------------------------------------------
(* The seed. *)

\* The statuses a case of each bucket goes through, each step checked by advance.
BucketPath(bucket) ==
  <<"submitted">> \o
  CASE bucket = "rejected" -> <<"rejected">>
    [] bucket = "resolved_closed" -> <<"under_review", "in_progress", "resolved", "closed">>
    [] bucket = "appealed" -> <<"under_review", "in_progress", "resolved", "appealed">>
    [] OTHER -> <<"under_review", "in_progress">>

BucketTrail(bucket) ==
  <<"submitted", "status_changed">> \o
  CASE bucket = "rejected" -> <<>>
    [] bucket = "breached" -> <<"assigned", "status_changed", "sla_breached">>
    [] bucket = "resolved_closed" -> <<"assigned", "status_changed", "status_changed", "status_changed">>
    [] bucket = "appealed" -> <<"assigned", "status_changed", "status_changed", "appealed">>
    [] OTHER -> <<"assigned", "status_changed">>

submittedDaysAgo(bucket, sla, i) ==
  CASE bucket = "on_track" -> Larger(1, (3 * sla) \div 10) + (i % 3)
    [] bucket = "due_soon" -> Larger(1, sla - 1 - (i % 2))
    [] bucket = "breached" -> sla + 6 + (i % 5)
    [] bucket = "resolved_closed" -> sla + 12 + (i % 4)
    [] bucket = "appealed" -> sla + 18
    [] bucket = "rejected" -> 4 + (i % 3)

\* Mutant: the seed numbers its cases under the prefix the filing form uses.
SeedPrefix_Slug == "APP"

\* The prefix the seed writes is not the one that is derived from the slug.
SeedPrefix == "SEED"

Seeded(n, year, leaf, status, created, due, trail, words) ==
  [ref |-> <<SeedPrefix, year, n>>, submittedById |-> CHOOSE a \in SeedAccounts : TRUE,
   categoryId |-> leaf.id, kind |-> "grievance", track |-> leaf.track, status |-> status,
   createdAt |-> created, dueAt |-> due, resolvedAt |-> NULL, closedAt |-> NULL,
   words |-> words, trail |-> trail]

LeavesOf(S) ==
  LET own == InOrder([i \in S |-> i])
  IN [k \in DOMAIN own |-> SeedLeaves[own[k]]]

GeneralLeaves == LeavesOf({i \in DOMAIN SeedLeaves : SeedLeaves[i].track # "icc"})

\* The days a category gives, its own or else the institution's.
Window(c) == IF c.sla = NULL THEN SlaResolutionDays ELSE c.sla

\* seedGrievances: case i of the plan, its reference in the year of its filing.
PlannedCase(i) ==
  LET bucket   == Plan[i + 1]
      leaf     == GeneralLeaves[(i % Len(GeneralLeaves)) + 1]
      created  == now - submittedDaysAgo(bucket, Window(leaf), i)
      resolved == created + Larger(2, (8 * Window(leaf)) \div 10)
      case     == Seeded(i + 1, YearOf(created), leaf, Last(BucketPath(bucket)), created,
                         created + Window(leaf), BucketTrail(bucket), {<<leaf.name, i>>})
  IN [case EXCEPT
        !.resolvedAt = IF bucket \in {"resolved_closed", "appealed"} THEN resolved ELSE NULL,
        !.closedAt = IF bucket = "resolved_closed" THEN resolved + 3 ELSE NULL]

\* seedSystemicBurst and seedIccCases: taken up at once, numbered in the current year.
BurstCase(i) ==
  LET created == now - (6 - i \div 3)
  IN Seeded(Len(Plan) + i + 1, YearOf(now), GeneralLeaves[1], "in_progress", created,
            created + Window(GeneralLeaves[1]), <<"submitted", "status_changed">>,
            {<<"water", 0>>, <<"block", i % 2>>})

IccLeaves == LeavesOf({i \in DOMAIN SeedLeaves : SeedLeaves[i].track = "icc"})

IccCase(i) ==
  LET created == now - (IF i = 0 THEN 12 ELSE 40)
  IN Seeded(Len(Plan) + BurstSize + i + 1, YearOf(now), IccLeaves[1], "in_progress", created,
            created + 90, <<"submitted", "assigned">>, {<<"posh", i>>})

SeedRows ==
  [i \in 1 .. Len(Plan) |-> PlannedCase(i - 1)]
    \o [i \in 1 .. BurstSize |-> BurstCase(i - 1)]
    \o (IF IccLeaves = <<>> THEN <<>> ELSE <<IccCase(0), IccCase(1)>>)

\* The institution is made in a transaction of its own; if it is there, its data is
\* taken to be there too.
EnsureInstitution ==
  /\ ~institution
  /\ institution' = TRUE /\ seeding' = TRUE
  /\ UNCHANGED <<now, accounts, categories, rows, importing, imports>>

\* The rest is another transaction; a step that the state machine forbids ends it.
FillInstitution ==
  /\ seeding
  /\ \A i \in DOMAIN Plan : LET path == BucketPath(Plan[i]) IN
       \A k \in 2 .. Len(path) : canTransition(path[k - 1], path[k])
  /\ categories' = categories \cup
       {[id |-> l.id, name |-> l.name, parent |-> NULL, track |-> l.track, sla |-> l.sla] :
          l \in ToSet(SeedLeaves)}
  /\ accounts' = accounts \cup SeedAccounts
  /\ rows' = rows \o SeedRows
  /\ seeding' = FALSE
  /\ UNCHANGED <<now, institution, importing, imports>>

SeedDies ==
  /\ seeding
  /\ seeding' = FALSE
  /\ UNCHANGED <<now, institution, accounts, categories, rows, importing, imports>>

-----------------------------------------------------------------------------
(* The portal meanwhile. *)

Live == {n \in DOMAIN rows : rows[n].ref[1] = "APP"}

\* withRetriedReference: one more than there are of this year. A number that is taken
\* is counted again, and the count stays the same.
NextReference ==
  <<"APP", YearOf(now),
    Cardinality({r \in References : r[1] = "APP" /\ r[2] = YearOf(now)}) + 1>>

NewRow(by, kind, category, track, days, words) ==
  [ref |-> NextReference, submittedById |-> by, categoryId |-> category, kind |-> kind,
   track |-> track, status |-> "submitted", createdAt |-> now, dueAt |-> now + days,
   resolvedAt |-> NULL, closedAt |-> NULL, words |-> words, trail |-> <<"submitted">>]

CanFile == institution /\ Cardinality(Live) < MaxFiled /\ NextReference \notin References

\* The category decides the track, and the track the clock. Here it runs on calendar
\* days; SlaClock has the mode that counts working days.
FilingDays(c) == IF c.track = "icc" THEN SlaIccInquiryDays ELSE Window(c)

FileCase(by, kind, c, words) ==
  /\ CanFile
  /\ rows' = Append(rows, NewRow(by, kind, c.id, c.track, FilingDays(c), words))
  /\ UNCHANGED <<now, institution, accounts, categories, seeding, importing, imports>>

WithStatus(g, to, type) ==
  [g EXCEPT !.status = to, !.trail = Append(@, type),
            !.resolvedAt = IF to = "resolved" THEN now ELSE @,
            !.closedAt = IF isOpen(to) THEN @ ELSE now]

\* Bound: so many decisions, and none on the cases of the seed.
Decisions ==
  FoldSeq(LAMBDA g, count : IF g.ref[1] = SeedPrefix THEN count
                            ELSE count + Len(SelectSeq(g.trail, LAMBDA type : type = "status_changed")),
          0, rows)

Decide(n, to) ==
  /\ canTransition(rows[n].status, to) /\ to # "appealed"
  /\ rows[n].ref[1] # SeedPrefix /\ Decisions < MaxDecisions
  /\ rows' = [rows EXCEPT ![n] = WithStatus(@, to, "status_changed")]
  /\ UNCHANGED <<now, institution, accounts, categories, seeding, importing, imports>>

\* An appeal is a grievance of the default track, whatever the track of the original, and
\* in its category; its window is the Ombudsperson's.
FileAppeal(n) ==
  /\ CanFile /\ canTransition(rows[n].status, "appealed")
  /\ rows[n].ref[1] # SeedPrefix /\ rows[n].submittedById # NULL
  /\ rows' = Append([rows EXCEPT ![n] = WithStatus(@, "appealed", "appealed")],
                    NewRow(rows[n].submittedById, "appeal", rows[n].categoryId, "sgrc",
                           SlaOmbudspersonDays, rows[n].words))
  /\ UNCHANGED <<now, institution, accounts, categories, seeding, importing, imports>>

Tick ==
  /\ \E t \in Instants : t > now
  /\ now' = Least({t \in Instants : t > now})
  /\ UNCHANGED <<institution, accounts, categories, rows, seeding, importing, imports>>

-----------------------------------------------------------------------------
Init ==
  /\ now = Least(Instants) /\ institution \in BOOLEAN
  /\ accounts \in (IF institution THEN SUBSET Accounts0 ELSE {{}})
  /\ categories = {} /\ rows = <<>> /\ seeding = FALSE
  /\ importing = [i \in Importers |-> NULL] /\ imports = 0

Import(i) ==
  \/ StartImport(i) \/ ImportUsers(i) \/ ImportCategories(i) \/ ImportComplaints(i)
  \/ ImportTrails(i) \/ CommitImport(i) \/ ImportDies(i)

Next ==
  \/ \E i \in Importers : Import(i)
  \/ EnsureInstitution \/ FillInstitution \/ SeedDies
  \/ \E by \in accounts \cap Filers, kind \in {"grievance", "suggestion"},
        c \in {d \in categories : d.name \in FiledUnder}, w \in Words : FileCase(by, kind, c, w)
  \/ \E n \in DOMAIN rows, to \in Status : Decide(n, to)
  \/ \E n \in DOMAIN rows : FileAppeal(n)
  \/ Tick

Spec == Init /\ [][Next]_vars

-----------------------------------------------------------------------------
(* Properties. *)

Legacy(year) == {n \in DOMAIN rows : rows[n].ref[1] = "LEGACY" /\ rows[n].ref[2] = year}
LegacyRows   == {n \in DOMAIN rows : rows[n].ref[1] = "LEGACY"}

\* A load happens once or not at all. Whatever dies, and whoever runs the import again,
\* by hand, twice at a time or after a failure: of the cases of a dump either none is
\* there for a year or each exactly once, with its whole trail; and the seed's cases are
\* there all together (import-legacy.ts:221-415, seed.ts:996-1010, reference index of
\* schema.ts).
LoadsAreWhole ==
  /\ Cardinality(References) = Len(rows)
  /\ \A n \in LegacyRows :
       /\ {rows[m].ref[3] : m \in Legacy(rows[n].ref[2])} = DOMAIN LegacyComplaints
       /\ Len(rows[n].trail) >= 1 + Cardinality(OwnRemarks(rows[n].ref[3]))
  /\ Cardinality({n \in DOMAIN rows : rows[n].ref[1] = SeedPrefix}) \in {0, Len(SeedRows)}

\* An imported case is about whom and what it was about. Its filer is the account with
\* the address of the student who wrote it, or nobody, also where administrators and
\* students have the same numbers or two lines have one address; it is in a category
\* with the name it had; and its trail starts with its own remarks by date
\* (import-legacy.ts:226-370).
LegacyCasesAreThemselves ==
  \A n \in LegacyRows :
    LET c == LegacyComplaints[rows[n].ref[3]]
        names == {cat.name : cat \in {d \in categories : d.id = rows[n].categoryId}}
    IN /\ rows[n].submittedById # NULL =>
            /\ rows[n].submittedById \in accounts
            /\ \E i \in DOMAIN LegacyUsers : LegacyUsers[i].id = c.user
                                             /\ LegacyUsers[i].email = rows[n].submittedById
       /\ rows[n].categoryId # NULL =>
            \/ names = {c.sub}
            \/ \E k \in DOMAIN LegacyCats : LegacyCats[k].id = c.cat /\ names = {LegacyCats[k].name}
       /\ IsPrefix(LegacyTrail(rows[n].ref[3]), rows[n].trail)

\* However the register was filled, the next number of the filing form is free: no
\* import, no seed, not even one whose cases lie on both sides of a new year, can bring
\* count plus one to a number that is taken, at which every attempt would count the
\* same and no case could be filed any more (reference.ts:54-87, import-legacy.ts:310,
\* seed.ts:480, 567, 798).
FilingIsNeverStuck == institution => NextReference \notin References

\* Imported history puts nobody in the wrong. It is never late in the report or judged
\* in the public rate, also after officers have worked on it; and in the queue it never
\* stands before a case that has a deadline, nor, where the scan ends, in place of one
\* (import-legacy.ts:321-324, compliance.ts:61-70, stats.ts:130-137, queries.ts:122-128).
LegacyIsOffTheClock ==
  LET queue == listQueue(rows, "moderator") IN
  \A n \in LegacyRows :
    /\ ~wasBreached(rows[n], now) /\ n \notin Judged(rows, DOMAIN rows)
    /\ n \in ToSet(queue) =>
         \A m \in DOMAIN rows :
           /\ rows[m].dueAt # NULL /\ isOpen(rows[m].status)
           /\ rows[m].track \in accessibleTracks("moderator")
           => \E i, j \in DOMAIN queue : i < j /\ queue[i] = m /\ queue[j] = n

\* What a published figure must be: a median has no more than half of the cases on either
\* side, and a figure of a cell or a rate rests on MIN_CELL_SIZE cases or more of those it
\* is computed from.
IsMedian(twice, days) ==
  /\ 2 * Cardinality({n \in DOMAIN days : 2 * days[n] < twice}) <= Cardinality(DOMAIN days)
  /\ 2 * Cardinality({n \in DOMAIN days : 2 * days[n] > twice}) <= Cardinality(DOMAIN days)

CellIsHonest(cell, own) ==
  LET finished == {n \in own : rows[n].resolvedAt # NULL}
      days     == [n \in finished |-> rows[n].resolvedAt - rows[n].createdAt]
  IN /\ cell.filedCount # NULL => Cardinality(own) >= MIN_CELL_SIZE
     /\ cell.medianResolutionDays # NULL =>
          Cardinality(finished) >= MIN_CELL_SIZE /\ IsMedian(cell.medianResolutionDays, days)

RateIsHonest(rate, own) ==
  LET met    == {n \in own : /\ rows[n].resolvedAt # NULL /\ rows[n].dueAt # NULL
                             /\ rows[n].resolvedAt <= rows[n].dueAt}
      judged == {n \in own : rows[n].resolvedAt # NULL /\ rows[n].dueAt # NULL}
  IN rate # NULL => /\ Cardinality(judged) >= MIN_CELL_SIZE
                    /\ rate = <<Cardinality(met), Cardinality(judged)>>

SumOver(f) == Cardinality(UNION {{c} \X (1 .. f[c]) : c \in DOMAIN f})

\* A figure that leaves the house stands for enough people, and what stays inside adds
\* up. Every published figure but the total, of a category, of a month and of them all,
\* a number filed, a median or a rate, is computed from MIN_CELL_SIZE grievances or more
\* of its own; and the landing page shows no median that no category publishes and no
\* rate that the transparency page withholds. In the report of a cycle the categories,
\* the ages of the open cases and the breaches sum to the totals, and the median of a
\* category has no more than half of its finished cases on either side (stats.ts:34-42,
\* 110-168, 218-243, compliance.ts:42-56, 79-127, 143-160).
FiguresAreHonest ==
  LET active  == {c.id : c \in categories}
      public  == getTransparencyStats(rows, active, now)
      landing == getPublicSummary(rows, active, now)
      report  == complianceSnapshot(rows, "moderator", CycleStart(now), now, active, now)
      cycle   == {n \in DOMAIN rows : /\ rows[n].track \in accessibleTracks("moderator")
                                      /\ CycleStart(now) <= rows[n].createdAt /\ rows[n].createdAt <= now}
  IN /\ \A c \in active :
          CellIsHonest(public.categories[c], {n \in Grievances(rows) : rows[n].categoryId = c})
     /\ \A month \in DOMAIN public.trend :
          LET own == {n \in Grievances(rows) : MonthOf(rows[n].createdAt) = month} IN
          /\ CellIsHonest(public.trend[month].cell, own)
          /\ RateIsHonest(public.trend[month].withinWindowRate, own)
     /\ RateIsHonest(public.overallWithinWindowRate, Grievances(rows))
     /\ RateIsHonest(landing.withinWindowPct, Grievances(rows))
     /\ landing.medianDays # NULL =>
          \E c \in active : public.categories[c].medianResolutionDays = landing.medianDays
     /\ \A c \in DOMAIN report.byCategory :
          LET ended == {n \in cycle : rows[n].categoryId = c /\ finishedAt(rows[n]) # NULL}
              twice == report.byCategory[c].medianResolutionDays
          IN twice # NULL => IsMedian(twice, [n \in ended |-> finishedAt(rows[n]) - rows[n].createdAt])
     /\ SumOver([c \in DOMAIN report.byCategory |-> report.byCategory[c].count]) = report.totalFiled
     /\ SumOver([c \in DOMAIN report.byCategory |-> report.byCategory[c].breached]) = report.breachedCount
     /\ SumOver(report.ageingBuckets) = report.totalOpen

\* The patterns are the large connected components of the similarity of the cases that
\* were scanned, or the largest PATTERN_LIMIT of them: uniting pairs in any order neither
\* splits a chain of similar cases nor joins two that no chain connects, none is shown
\* twice, and one is left out only for as many others that are no smaller
\* (ai/clusters.ts:79-153, queries.ts:476-544).
PatternsAreComponents ==
  LET scan == ToSet(PatternScan(rows, "moderator", now))
      Linked(S) == \A m \in S, n \in scan : Similar(rows[m].words, rows[n].words) => n \in S
      components == {S \in (SUBSET scan) \ {{}} : Linked(S) /\ \A T \in (SUBSET S) \ {{}, S} : ~Linked(T)}
      large == {S \in components : Cardinality(S) >= MIN_CLUSTER_SIZE}
      patterns == detectPatterns(rows, "moderator", now)
      shown == {patterns[k].grievances : k \in DOMAIN patterns}
  IN /\ shown \subseteq large /\ Cardinality(shown) = Len(patterns)
     /\ \A S \in large \ shown :
          Len(patterns) = PATTERN_LIMIT /\ \A T \in shown : Cardinality(T) >= Cardinality(S)

=============================================================================
