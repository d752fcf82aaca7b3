------------------------------ MODULE Reports ------------------------------
(***************************************************************************)
(* What is made of many grievances at once: the public figures (stats.ts,  *)
(* shown by app/(public)/transparency), the compliance report              *)
(* (grievance/compliance.ts and its page), the order of the queue and the  *)
(* patterns on it (grievance/queries.ts, ai/clusters.ts).                  *)
(*                                                                         *)
(* The grievances are a sequence rows of records with the columns these    *)
(* read; time is in days. A median is kept doubled and a rate as a         *)
(* fraction, so that all numbers are integers, and the text of a grievance *)
(* is the set of its terms. Layout and rounding are left out.              *)
(***************************************************************************)
EXTENDS Policy, Integers, Sequences, SequencesExt

CONSTANTS
  MIN_CELL_SIZE,         \* 5 in the code
  QUEUE_SCAN_CAP,        \* 1000
  PATTERN_SCAN_LIMIT,    \* 400
  MIN_CLUSTER_SIZE,      \* 3
  PATTERN_LIMIT,         \* 5
  MonthLength, YearLength

ASSUME ReportsAssumption ==
  {MIN_CELL_SIZE, QUEUE_SCAN_CAP, PATTERN_SCAN_LIMIT, MIN_CLUSTER_SIZE, PATTERN_LIMIT,
   MonthLength, YearLength} \subseteq Nat \ {0}

-----------------------------------------------------------------------------
(* Arithmetic shared by the reports. *)

\* Numbers in the order of their values, and those of one value in their own order.
Before(value, m, n) == value[m] < value[n] \/ (value[m] = value[n] /\ m < n)

InOrder(value) ==
  LET S     == DOMAIN value
      place == [n \in S |-> Cardinality({m \in S : Before(value, m, n)}) + 1]
  IN [k \in 1 .. Cardinality(S) |-> CHOOSE n \in S : place[n] = k]

TwiceMedian(value) ==
  LET order == InOrder(value)
      mid   == Len(order) \div 2
  IN IF Len(order) % 2 = 0 THEN value[order[mid]] + value[order[mid + 1]] ELSE 2 * value[order[mid + 1]]

finishedAt(g) == IF g.resolvedAt # NULL THEN g.resolvedAt ELSE g.closedAt

EndOfWork(rows) == [n \in DOMAIN rows |-> rows[n].resolvedAt]
EndOfCase(rows) == [n \in DOMAIN rows |-> finishedAt(rows[n])]

\* Days from filing to the end, of the grievances in S that have an end.
Days(rows, S, end) == [n \in {m \in S : end[m] # NULL} |-> end[n] - rows[n].createdAt]

MonthOf(day) == day \div MonthLength
YearOf(day)  == day \div YearLength

-----------------------------------------------------------------------------
(* The public figures. *)

suppressSmallCell(count, value) == IF count < MIN_CELL_SIZE THEN NULL ELSE value

Judged(rows, S)   == {n \in S : rows[n].resolvedAt # NULL /\ rows[n].dueAt # NULL}
InWindow(rows, S) == {n \in Judged(rows, S) : rows[n].resolvedAt <= rows[n].dueAt}

\* Mutant: the median is withheld by the number filed, not by the number resolved.
Cell_ByFiled(rows, S) ==
  LET days == Days(rows, S, EndOfWork(rows)) IN
  [filedCount |-> suppressSmallCell(Cardinality(S), Cardinality(S)),
   medianResolutionDays |->
     suppressSmallCell(Cardinality(S), IF DOMAIN days = {} THEN 0 ELSE TwiceMedian(days))]

\* The cell of a category or of a month: each figure is withheld on the number of
\* grievances it is computed from.
Cell(rows, S) ==
  LET days == Days(rows, S, EndOfWork(rows)) IN
  [filedCount |-> suppressSmallCell(Cardinality(S), Cardinality(S)),
   medianResolutionDays |->
     suppressSmallCell(Cardinality(DOMAIN days), IF DOMAIN days = {} THEN 0 ELSE TwiceMedian(days))]

\* Mutant: the rate is withheld by the number filed, not by the number judged.
WithinWindowRate_ByFiled(rows, S) ==
  suppressSmallCell(Cardinality(S), <<Cardinality(InWindow(rows, S)), Cardinality(Judged(rows, S))>>)

WithinWindowRate(rows, S) ==
  LET judged == Cardinality(Judged(rows, S))
  IN suppressSmallCell(judged, <<Cardinality(InWindow(rows, S)), judged>>)

computeCategoryStats(rows, S, cats) ==
  [c \in cats |-> Cell(rows, {n \in S : rows[n].categoryId = c})]

\* The last six months, by the month of filing.
computeTrend(rows, S, now) ==
  [month \in MonthOf(now) - 5 .. MonthOf(now) |->
     LET filed == {n \in S : MonthOf(rows[n].createdAt) = month}
     IN [cell |-> Cell(rows, filed), withinWindowRate |-> WithinWindowRate(rows, filed)]]

Grievances(rows) == {n \in DOMAIN rows : rows[n].kind = "grievance"}

getTransparencyStats(rows, active, now) ==
  LET S == Grievances(rows) IN
  [totalFiled |-> Cardinality(S),
   overallWithinWindowRate |-> WithinWindowRate(rows, S),
   categories |-> computeCategoryStats(rows, S, active),
   trend |-> computeTrend(rows, S, now)]

\* The landing page: the upper median of the medians the categories publish.
getPublicSummary(rows, active, now) ==
  LET stats   == getTransparencyStats(rows, active, now)
      shown   == SetToSeq({c \in active : stats.categories[c].medianResolutionDays # NULL})
      medians == [i \in DOMAIN shown |-> stats.categories[shown[i]].medianResolutionDays]
  IN [totalFiled |-> stats.totalFiled,
      medianDays |-> suppressSmallCell(stats.totalFiled,
                       IF DOMAIN shown = {} THEN NULL ELSE medians[InOrder(medians)[Len(shown) \div 2 + 1]]),
      withinWindowPct |-> stats.overallWithinWindowRate]

-----------------------------------------------------------------------------
(* The compliance report. *)

wasBreached(g, now) ==
  /\ g.dueAt # NULL
  /\ IF finishedAt(g) # NULL THEN finishedAt(g) > g.dueAt
     ELSE g.status \notin {"rejected", "withdrawn"} /\ now > g.dueAt

Breached(rows, S, now) == {n \in S : wasBreached(rows[n], now)}
OpenOf(rows, S)        == {n \in S : isOpen(rows[n].status)}

\* The first of the buckets up to 7, 15 and 30 days and beyond that an age fits in.
AGEING_DEFS == <<7, 15, 30>>
BucketOf(age) ==
  IF \E b \in DOMAIN AGEING_DEFS : age <= AGEING_DEFS[b]
  THEN CHOOSE b \in DOMAIN AGEING_DEFS :
         age <= AGEING_DEFS[b] /\ \A c \in 1 .. b - 1 : age > AGEING_DEFS[c]
  ELSE Len(AGEING_DEFS) + 1

ageingBuckets(rows, S, now) ==
  [b \in 1 .. Len(AGEING_DEFS) + 1 |->
     Cardinality({n \in OpenOf(rows, S) : BucketOf(now - rows[n].createdAt) = b})]

\* Appeals over decisions, as a fraction; a resolved case is not yet a decision.
appealRate(rows, S) ==
  LET appeals == {n \in S : rows[n].kind = "appeal"}
      decided == {n \in S \ appeals : rows[n].status \in TERMINAL_STATUSES \cup {"appealed"}}
  IN IF decided = {} THEN <<0, 1>> ELSE <<Cardinality(appeals), Cardinality(decided)>>

categoryStats(rows, S, named, now) ==
  [c \in {rows[n].categoryId : n \in S} |->
     LET own  == {n \in S : rows[n].categoryId = c}
         days == Days(rows, own, EndOfCase(rows))
     IN [categoryName |-> IF c = NULL THEN "Uncategorised"
                          ELSE IF c \in named THEN c ELSE "Unknown category",
         count |-> Cardinality(own),
         medianResolutionDays |-> IF DOMAIN days = {} THEN NULL ELSE TwiceMedian(days),
         breached |-> Cardinality(Breached(rows, own, now))]]

buildComplianceStats(rows, S, named, now) ==
  [totalFiled |-> Cardinality(S),
   totalOpen |-> Cardinality(OpenOf(rows, S)),
   breachedCount |-> Cardinality(Breached(rows, S, now)),
   appealRate |-> appealRate(rows, S),
   ageingBuckets |-> ageingBuckets(rows, S, now),
   byCategory |-> categoryStats(rows, S, named, now)]

\* The rows of one cycle that a role may count. Without parameters the cycle is the
\* calendar year up to now.
complianceSnapshot(rows, role, since, until, named, now) ==
  IF role \notin {"institution_admin", "moderator"} THEN NULL
  ELSE buildComplianceStats(rows,
         {n \in DOMAIN rows : /\ rows[n].track \in accessibleTracks(role)
                              /\ since <= rows[n].createdAt /\ rows[n].createdAt <= until},
         named, now)

CycleStart(until) == YearOf(until) * YearLength

-----------------------------------------------------------------------------
(* The queue. *)

\* Mutant: what has no due date comes first.
DueFirst_NullsFirst(dated, undated) == undated \o dated

\* What has no due date comes last.
DueFirst(dated, undated) == dated \o undated

UpTo(limit, list) == SubSeq(list, 1, IF Len(list) < limit THEN Len(list) ELSE limit)

\* The open cases a role sees, as far as the scan goes.
listQueue(rows, role) ==
  LET open  == {n \in DOMAIN rows : rows[n].track \in accessibleTracks(role) /\ isOpen(rows[n].status)}
      dated == {n \in open : rows[n].dueAt # NULL}
  IN UpTo(QUEUE_SCAN_CAP, DueFirst(InOrder([n \in dated |-> rows[n].dueAt]),
                                   InOrder([n \in open \ dated |-> n])))

-----------------------------------------------------------------------------
(* Patterns. *)

\* Shared terms over distinct terms, against the floor of 0.34.
Similar(a, b) ==
  a # {} /\ b # {} /\ 100 * Cardinality(a \cap b) >= 34 * Cardinality(a \cup b)

find(parent) == LET root[i \in DOMAIN parent] == IF parent[i] = i THEN i ELSE root[parent[i]] IN root

\* Mutant: the second document is hung below the first, whatever its own root is.
union_Leaf(parent, a, b) == [parent EXCEPT ![b] = find(parent)[a]]

union(parent, a, b) == [parent EXCEPT ![find(parent)[b]] = find(parent)[a]]

\* The loop over j unites i with the documents after it that are similar; the loop over i
\* begins with every document on its own.
Inner(docs, i, parent) ==
  LET after[j \in 0 .. Len(docs)] ==
        IF j = 0 THEN parent
        ELSE IF i < j /\ Similar(docs[i].words, docs[j].words) THEN union(after[j - 1], i, j)
        ELSE after[j - 1]
  IN after[Len(docs)]

Roots(docs) ==
  LET after[i \in 0 .. Len(docs)] ==
        IF i = 0 THEN [k \in DOMAIN docs |-> k] ELSE Inner(docs, i, after[i - 1])
  IN find(after[Len(docs)])

\* What most of a group have in common. Of these the code keeps the six most frequent; their
\* number decides nothing, and none is left out here.
SharedTerms(docs, members) ==
  {t \in UNION {docs[m].words : m \in members} :
     10 * Cardinality({m \in members : t \in docs[m].words}) >= 6 * Cardinality(members)}

\* A group has a category only if its members agree on it.
Cluster(docs, g) ==
  [members |-> g, terms |-> SharedTerms(docs, g),
   categoryId |-> IF Cardinality({docs[i].categoryId : i \in g}) = 1
                  THEN docs[CHOOSE i \in g : TRUE].categoryId ELSE NULL]

\* The groups that are large enough, as sets of positions, biggest first. Their cohesion,
\* which decides between groups of one size, is left out: the roots decide.
clusterGrievances(docs) ==
  LET roots == Roots(docs)
      group == [r \in {roots[i] : i \in DOMAIN docs} |-> {i \in DOMAIN docs : roots[i] = r}]
      large == {r \in DOMAIN group : Cardinality(group[r]) >= MIN_CLUSTER_SIZE}
      order == InOrder([r \in large |-> -Cardinality(group[r])])
  IN [k \in DOMAIN order |-> Cluster(docs, group[order[k]])]

PATTERN_DAYS == 90

\* The most recent open cases of a role's tracks, newest first, that the patterns are
\* looked for among.
PatternScan(rows, role, now) ==
  LET live == {n \in DOMAIN rows : /\ rows[n].track \in accessibleTracks(role)
                                   /\ rows[n].createdAt >= now - PATTERN_DAYS
                                   /\ rows[n].status \notin {"closed", "rejected", "withdrawn"}}
  IN UpTo(PATTERN_SCAN_LIMIT, InOrder([n \in live |-> -rows[n].createdAt]))

\* The first PATTERN_LIMIT groups of the scan.
detectPatterns(rows, role, now) ==
  IF ~isStaff(role) THEN <<>>
  ELSE LET scan  == PatternScan(rows, role, now)
           found == UpTo(PATTERN_LIMIT, clusterGrievances([i \in DOMAIN scan |-> rows[scan[i]]]))
       IN [k \in DOMAIN found |->
             [grievances |-> {scan[i] : i \in found[k].members}, terms |-> found[k].terms,
              categoryId |-> found[k].categoryId]]

=============================================================================
