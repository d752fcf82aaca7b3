---------------------------- MODULE PortalProofs ----------------------------
(***************************************************************************)
(* What people are shown while others act. A trail only grows, so what a   *)
(* page has read stays the beginning of the trail there is, and what the   *)
(* row of a page says was recorded before the row was read. The rest is    *)
(* the policy, case by case.                                               *)
(***************************************************************************)
EXTENDS Portal, FiniteSetTheorems, SequenceTheorems, WellFoundedInduction, TLAPS

-----------------------------------------------------------------------------
(* The public entries of a trail. *)

ArePlaces(P) == IsFiniteSet(P) /\ P \subseteq Nat

\* As many places come before i as its number says, fewer than there are, and more the
\* later it comes.
LEMMA BeforeBounds ==
  ASSUME NEW P, ArePlaces(P), NEW i \in P
  PROVE  /\ Before(P, i) \in Nat /\ Cardinality(P) \in Nat /\ Before(P, i) < Cardinality(P)
         /\ \A h \in P : h < i => Before(P, h) < Before(P, i)
<1>0. IsFiniteSet(P) /\ \A j \in P : j \in Nat
  BY DEF ArePlaces
<1>1. ASSUME NEW x \in P PROVE IsFiniteSet({j \in P : j < x}) /\ Before(P, x) \in Nat
  <2>1. IsFiniteSet({j \in P : j < x})
    BY <1>0, FS_Subset
  <2>2. QED
    BY <2>1, FS_CardinalityType DEF Before
<1>2. Cardinality(P) \in Nat /\ Before(P, i) < Cardinality(P)
  <2>1. {j \in P : j < i} \subseteq P /\ {j \in P : j < i} # P
    BY <1>0
  <2>2. QED
    BY <1>0, <2>1, FS_Subset, FS_CardinalityType DEF Before
<1>3. ASSUME NEW h \in P, h < i PROVE Before(P, h) < Before(P, i)
  <2> DEFINE A == {j \in P : j < h}
             B == {j \in P : j < i}
  <2>1. A \subseteq B /\ h \in B /\ h \notin A
    BY <1>0, <1>3
  <2>2. A # B /\ IsFiniteSet(B)
    BY <1>1, <2>1
  <2> HIDE DEF A, B
  <2>3. Cardinality(A) < Cardinality(B)
    BY <2>1, <2>2, FS_Subset, FS_CardinalityType
  <2>4. QED
    BY <2>3 DEF A, B, Before
<1>4. QED
  BY <1>1, <1>2, <1>3

LEMMA BeforeIsInjective ==
  ASSUME NEW P, ArePlaces(P), NEW h \in P, NEW i \in P, Before(P, h) = Before(P, i)
  PROVE  h = i
<1>1. h \in Nat /\ i \in Nat
  BY DEF ArePlaces
<1>2. /\ Before(P, h) \in Nat
      /\ h < i => Before(P, h) < Before(P, i)
      /\ i < h => Before(P, i) < Before(P, h)
  BY BeforeBounds
<1>3. QED
  BY <1>1, <1>2

LEMMA BeforeIsOnto ==
  ASSUME NEW P, ArePlaces(P), NEW k \in 1 .. Cardinality(P)
  PROVE  \E i \in P : Before(P, i) = k - 1
<1> DEFINE n == Cardinality(P)
           f == [i \in P |-> Before(P, i)]
           T == 0 .. n - 1
<1>1. n \in Nat
  BY FS_CardinalityType DEF ArePlaces
<1>2. IsFiniteSet(T) /\ Cardinality(T) = n
  <2> HIDE DEF n
  <2>1. PICK m \in Int : m = n - 1
    BY <1>1
  <2>2. IsFiniteSet(0 .. m) /\ Cardinality(0 .. m) = IF 0 > m THEN 0 ELSE m - 0 + 1
    BY FS_Interval
  <2>3. QED
    BY <1>1, <2>1, <2>2
<1>3. \A i \in P : Before(P, i) \in T
  BY BeforeBounds, <1>1
<1>4. \A h, i \in P : Before(P, h) = Before(P, i) => h = i
  BY BeforeIsInjective
<1> HIDE DEF n, T
<1>5. f \in Injection(P, T)
  BY <1>3, <1>4 DEF Injection, IsInjective
<1> HIDE DEF f
<1>6. f \in Surjection(P, T)
  BY <1>1, <1>2, <1>5, FS_Injection DEF n, ArePlaces
<1>7. k - 1 \in T
  BY <1>1 DEF T, n
<1>8. QED
  BY <1>6, <1>7 DEF Surjection, f

\* A sequence of n values, as a function.
IsList(s, n) == n \in Nat /\ DOMAIN s = 1 .. n

LEMMA PlacesAreFinite ==
  ASSUME NEW s, NEW n, IsList(s, n)
  PROVE  /\ ArePlaces(PublicPlaces(s))
         /\ Cardinality(PublicPlaces(s)) \in Nat
<1>1. IsFiniteSet(1 .. n)
  BY FS_Interval DEF IsList
<1>2. PublicPlaces(s) \subseteq 1 .. n /\ 1 .. n \subseteq Nat
  BY DEF PublicPlaces, IsList
<1>3. QED
  BY <1>1, <1>2, FS_Subset, FS_CardinalityType DEF ArePlaces

\* The k-th public entry is that of the place with k - 1 before it.
LEMMA PublicAt ==
  ASSUME NEW s, NEW n, IsList(s, n), NEW i \in PublicPlaces(s)
  PROVE  /\ Before(PublicPlaces(s), i) + 1 \in 1 .. Cardinality(PublicPlaces(s))
         /\ PublicOnly(s)[Before(PublicPlaces(s), i) + 1] = s[i]
<1> DEFINE P == PublicPlaces(s)
<1>1. ArePlaces(P)
  BY PlacesAreFinite
<1> HIDE DEF P
<1>2. Before(P, i) \in Nat /\ Cardinality(P) \in Nat /\ Before(P, i) < Cardinality(P)
  BY <1>1, BeforeBounds DEF P
<1>3. Before(P, i) + 1 \in 1 .. Cardinality(P) /\ (Before(P, i) + 1) - 1 = Before(P, i)
  BY <1>2
<1>4. \A h \in P : Before(P, h) = Before(P, i) => h = i
  BY <1>1, BeforeIsInjective DEF P
<1>5. (CHOOSE h \in P : Before(P, h) = Before(P, i)) = i
  BY <1>4 DEF P
<1>6. QED
  BY <1>3, <1>5 DEF P, PublicOnly

\* The public part of a trail has its public entries and no other.
LEMMA PublicEntries ==
  ASSUME NEW s, NEW n, IsList(s, n)
  PROVE  /\ IsList(PublicOnly(s), Cardinality(PublicPlaces(s)))
         /\ \A k \in 1 .. Cardinality(PublicPlaces(s)) :
              \E i \in PublicPlaces(s) : Before(PublicPlaces(s), i) = k - 1 /\ PublicOnly(s)[k] = s[i]
         /\ \A i \in PublicPlaces(s) :
              \E k \in 1 .. Cardinality(PublicPlaces(s)) : PublicOnly(s)[k] = s[i]
<1>1. IsList(PublicOnly(s), Cardinality(PublicPlaces(s)))
  BY PlacesAreFinite DEF IsList, PublicOnly
<1>2. ASSUME NEW k \in 1 .. Cardinality(PublicPlaces(s))
      PROVE  \E i \in PublicPlaces(s) : Before(PublicPlaces(s), i) = k - 1 /\ PublicOnly(s)[k] = s[i]
  <2>1. PICK i \in PublicPlaces(s) : Before(PublicPlaces(s), i) = k - 1
    BY PlacesAreFinite, BeforeIsOnto
  <2>2. Before(PublicPlaces(s), i) + 1 = k
    BY <2>1, PlacesAreFinite, BeforeBounds
  <2>3. QED
    BY <2>1, <2>2, PublicAt
<1>3. QED
  BY <1>1, <1>2, PublicAt

\* The public part of the beginning of a trail is the beginning of its public part.
LEMMA PublicBegins ==
  ASSUME NEW s, NEW m, IsList(s, m), NEW t, NEW n, IsList(t, n), m <= n, \A i \in 1 .. m : s[i] = t[i]
  PROVE  /\ Cardinality(PublicPlaces(s)) <= Cardinality(PublicPlaces(t))
         /\ \A k \in 1 .. Cardinality(PublicPlaces(s)) : PublicOnly(s)[k] = PublicOnly(t)[k]
<1>1. 1 .. m \subseteq 1 .. n
  BY DEF IsList
<1>2. PublicPlaces(s) \subseteq PublicPlaces(t)
  BY <1>1 DEF PublicPlaces, IsList
<1>3. Cardinality(PublicPlaces(s)) <= Cardinality(PublicPlaces(t))
  BY <1>2, PlacesAreFinite, FS_Subset DEF ArePlaces
<1>4. ASSUME NEW i \in PublicPlaces(s) PROVE Before(PublicPlaces(s), i) = Before(PublicPlaces(t), i)
  <2>1. \A j \in PublicPlaces(t) : j < i => j \in PublicPlaces(s)
    BY <1>1 DEF PublicPlaces, IsList
  <2>2. {j \in PublicPlaces(s) : j < i} = {j \in PublicPlaces(t) : j < i}
    BY <1>2, <2>1
  <2>3. QED
    BY <2>2 DEF Before
<1>5. ASSUME NEW k \in 1 .. Cardinality(PublicPlaces(s)) PROVE PublicOnly(s)[k] = PublicOnly(t)[k]
  <2>1. PICK i \in PublicPlaces(s) : Before(PublicPlaces(s), i) = k - 1 /\ PublicOnly(s)[k] = s[i]
    BY PublicEntries
  <2>2. PublicOnly(t)[Before(PublicPlaces(t), i) + 1] = t[i]
    BY <1>2, PublicAt
  <2>3. Before(PublicPlaces(t), i) + 1 = k /\ s[i] = t[i]
    BY <1>4, <2>1, PlacesAreFinite DEF PublicPlaces, IsList
  <2>4. QED
    BY <2>1, <2>2, <2>3
<1>6. QED
  BY <1>3, <1>5

-----------------------------------------------------------------------------
(* Files: a row names bytes that are whole, or that a fault has touched. *)

IsFiling ==
  /\ filing = [pc |-> filing.pc, user |-> filing.user, case |-> filing.case, left |-> filing.left,
               key |-> filing.key, fits |-> filing.fits, type |-> filing.type]
  /\ filing.pc \in {"idle", "put", "write", "row", "delete"}
  /\ filing.pc \in {"write", "row", "delete"} => filing.key \in Keys /\ filing.type \in AllowedType

IsStore ==
  /\ disk \in [Keys -> {NULL, "part", "whole"}]
  /\ \A a \in attachments : a.storageKey \in Keys

\* What a filing holds: bytes that nobody names yet, whole once they are about to be named.
HoldsKey ==
  /\ filing.pc = "row" => disk[filing.key] = "whole"
  /\ filing.pc \in {"write", "row"} => \A a \in attachments : a.storageKey # filing.key
  /\ filing.pc = "delete" =>
       filing.key \in mishaps \/ \A a \in attachments : a.storageKey # filing.key

FilesInv == IsFiling /\ IsStore /\ HoldsKey /\ AttachmentsNameFiles

fileVars == <<disk, attachments, filing, mishaps>>

LEMMA InitFiles == PortalInit => FilesInv
BY DEF PortalInit, Init, NoFiling, FilesInv, IsFiling, IsStore, HoldsKey, AttachmentsNameFiles

LEMMA StillFiles == FilesInv /\ UNCHANGED fileVars => FilesInv'
BY DEF fileVars, FilesInv, IsFiling, IsStore, HoldsKey, AttachmentsNameFiles

\* The loop goes on with nothing in hand.
LEMMA NextIsFree ==
  ASSUME IsFiling, filing' = NextFile(filing)
  PROVE  IsFiling' /\ filing'.pc \in {"idle", "put"}
BY DEF IsFiling, NextFile, NoFiling

LEMMA KeepsFiles ==
  ASSUME FilesInv, IsFiling', filing'.pc \in {"idle", "put"}, UNCHANGED <<disk, attachments, mishaps>>
  PROVE  FilesInv'
BY DEF FilesInv, IsStore, HoldsKey, AttachmentsNameFiles

LEMMA FilesOpened ==
  ASSUME FilesInv, NEW k \in Keys, OpenFile(k)
  PROVE  FilesInv'
<1>1. PICK file \in Upload : /\ ~Refused(file)
                             /\ filing' = [filing EXCEPT !.pc = "write", !.key = k, !.type = sniff(file),
                                                         !.fits = (file.size = "fits")]
  BY DEF OpenFile, AfterOpen
<1>2. sniff(file) \in AllowedType
  BY <1>1 DEF Refused, sniff, Upload
<1>3. IsFiling' /\ filing'.pc = "write" /\ filing'.key = k
  BY <1>1, <1>2 DEF FilesInv, IsFiling
<1>4. disk' = [disk EXCEPT ![k] = "part"] /\ \A a \in attachments : a.storageKey # k
  BY DEF OpenFile
<1>5. QED
  BY <1>3, <1>4 DEF FilesInv, IsStore, HoldsKey, AttachmentsNameFiles, OpenFile

LEMMA FilesFinished == FilesInv /\ FinishFile => FilesInv'
<1> SUFFICES ASSUME FilesInv, FinishFile PROVE FilesInv'
  OBVIOUS
<1>1. IsFiling' /\ filing'.pc = "row" /\ filing'.key = filing.key
  BY DEF FinishFile, FilesInv, IsFiling
<1>2. QED
  BY <1>1 DEF FinishFile, FilesInv, IsFiling, IsStore, HoldsKey, AttachmentsNameFiles

LEMMA FilesAbandoned == FilesInv /\ AbandonFile => FilesInv'
<1> SUFFICES ASSUME FilesInv, AbandonFile PROVE FilesInv'
  OBVIOUS
<1>1. IsFiling' /\ filing'.pc \in {"idle", "put"}
  BY NextIsFree DEF AbandonFile, FilesInv
<1>2. QED
  BY <1>1 DEF AbandonFile, FilesInv, IsFiling, IsStore, HoldsKey, AttachmentsNameFiles

\* The row that is written names what is held.
LEMMA RowWritten ==
  ASSUME FilesInv, filing.pc = "row", WriteRow, UNCHANGED disk, mishaps \subseteq mishaps'
  PROVE  IsStore' /\ AttachmentsNameFiles'
BY DEF WriteRow, FilesInv, IsFiling, IsStore, HoldsKey, AttachmentsNameFiles

LEMMA FilesNamed == FilesInv /\ (AddAttachment \/ AnswerLost) => FilesInv'
<1> SUFFICES ASSUME FilesInv, AddAttachment \/ AnswerLost PROVE FilesInv'
  OBVIOUS
<1>1. CASE AddAttachment
  <2>1. IsFiling' /\ filing'.pc \in {"idle", "put"}
    BY <1>1, NextIsFree DEF AddAttachment, FilesInv
  <2>2. IsStore' /\ AttachmentsNameFiles'
    BY <1>1, RowWritten DEF AddAttachment
  <2>3. QED
    BY <2>1, <2>2 DEF FilesInv, HoldsKey
<1>2. CASE AnswerLost
  <2>1. IsFiling' /\ filing'.pc = "delete" /\ filing'.key = filing.key
    BY <1>2 DEF AnswerLost, FilesInv, IsFiling
  <2>2. IsStore' /\ AttachmentsNameFiles'
    BY <1>2, RowWritten DEF AnswerLost
  <2>3. filing.key \in mishaps'
    BY <1>2 DEF AnswerLost
  <2>4. QED
    BY <2>1, <2>2, <2>3 DEF FilesInv, HoldsKey
<1>3. QED
  BY <1>1, <1>2

LEMMA FilesDropped == FilesInv /\ (AttachmentFails \/ DeleteFile \/ Crash) => FilesInv'
<1> SUFFICES ASSUME FilesInv, AttachmentFails \/ DeleteFile \/ Crash PROVE FilesInv'
  OBVIOUS
<1>1. CASE AttachmentFails
  <2>1. IsFiling' /\ filing'.pc = "delete" /\ filing'.key = filing.key
    BY <1>1 DEF AttachmentFails, FilesInv, IsFiling
  <2>2. QED
    BY <1>1, <2>1 DEF AttachmentFails, FilesInv, IsStore, HoldsKey, AttachmentsNameFiles
<1>2. CASE DeleteFile
  <2>1. IsFiling' /\ filing'.pc \in {"idle", "put"}
    BY <1>2, NextIsFree DEF DeleteFile, FilesInv
  <2>2. QED
    BY <1>2, <2>1 DEF DeleteFile, FilesInv, IsFiling, IsStore, HoldsKey, AttachmentsNameFiles
<1>3. CASE Crash
  <2>1. IsFiling' /\ filing'.pc = "idle" /\ mishaps \subseteq mishaps'
    BY <1>3 DEF Crash, NoFiling, IsFiling
  <2>2. QED
    BY <1>3, <2>1 DEF Crash, FilesInv, IsStore, HoldsKey, AttachmentsNameFiles
<1>4. QED
  BY <1>1, <1>2, <1>3

LEMMA FilesBegun ==
  ASSUME FilesInv, NEW u, NEW track, NEW anonymous, NEW files, SubmitGrievance(u, track, anonymous, files)
  PROVE  FilesInv'
<1>1. IsFiling' /\ filing'.pc \in {"idle", "put"}
  BY DEF SubmitGrievance, NoFiling, IsFiling
<1>2. QED
  BY <1>1, KeepsFiles DEF SubmitGrievance

LEMMA NextFiles == FilesInv /\ [PortalNext]_portal => FilesInv'
<1> SUFFICES ASSUME FilesInv, [PortalNext]_portal PROVE FilesInv'
  OBVIOUS
<1>1. CASE RefuseFile \/ AttachmentDenied
  BY <1>1, NextIsFree, KeepsFiles DEF RefuseFile, AttachmentDenied, FilesInv
<1>2. CASE FilingStep
  BY <1>1, <1>2, FilesOpened, FilesFinished, FilesAbandoned, FilesNamed, FilesDropped DEF FilingStep
<1>3. CASE Crash
  BY <1>3, FilesDropped
<1>4. CASE UNCHANGED fileVars
  BY <1>4, StillFiles
<1>5. QED
  BY <1>2, <1>3, <1>4, FilesBegun
     DEF PortalNext, Others, OpenPage, ReadTrail, ClosePage, portal, vars, fileVars

\* A row of attachments never names a file that is not there, whole and of its type, unless
\* a fault struck between the disk and the database (my/new/actions.ts, storage/local.ts).
THEOREM FilesAreThere == PortalSpec => []AttachmentsNameFiles
<1>1. FilesInv => AttachmentsNameFiles
  BY DEF FilesInv
<1>2. QED
  BY <1>1, InitFiles, NextFiles, PTL DEF PortalSpec

-----------------------------------------------------------------------------
(* The register: its columns. *)

Students == {u \in Users : UserRole[u] = "student"}
Assignees == {u \in Users : UserRole[u] \in {"redressal_officer", "ombudsperson"}}

EntryType == {"submitted", "status_changed", "assigned", "remark_added", "attachment_added", "appealed"}

TrailEntry == [type : EntryType, actorId : Users, to : Status \cup Users \cup {NULL},
               ref : Nat \cup {NULL}, visibility : {"public", "internal"}]

Full(u, anonymous, track, appealOf, status, assignee, history) ==
  [submittedById |-> u, isAnonymous |-> anonymous, track |-> track, appealOfId |-> appealOf,
   status |-> status, assignedToId |-> assignee, history |-> history]

IsCase(c) ==
  /\ c = Full(c.submittedById, c.isAnonymous, c.track, c.appealOfId, c.status, c.assignedToId, c.history)
  /\ c.submittedById \in Students /\ c.isAnonymous \in BOOLEAN /\ c.track \in Track
  /\ c.status \in Status /\ c.assignedToId \in Assignees \cup {NULL}
  /\ c.history \in Seq(TrailEntry)

\* A sequence, as a function.
HasLength(s, n) == s = [i \in 1 .. n |-> s[i]]

IsRegister(cs) ==
  Len(cs) \in Nat /\ HasLength(cs, Len(cs)) /\ \A n \in DOMAIN cs : IsCase(cs[n])

\* What is the same in every version of a case.
SameCase(c, d) ==
  /\ d.submittedById = c.submittedById /\ d.isAnonymous = c.isAnonymous
  /\ d.track = c.track /\ d.appealOfId = c.appealOfId

\* A trail that begins with another one.
Begins(h, j) == Len(h) <= Len(j) /\ \A i \in 1 .. Len(h) : j[i] = h[i]

\* The status of a row is that of a public entry, and its assignee of an entry.
Explains(h, row) ==
  /\ \E i \in DOMAIN h :
       /\ IsPublic(h[i]) /\ h[i].type \in {"submitted", "status_changed", "appealed"}
       /\ h[i].to = row.status /\ (row.status = "appealed" => h[i].type = "appealed")
  /\ row.assignedToId # NULL =>
       \E i \in DOMAIN h : h[i].type = "assigned" /\ h[i].to = row.assignedToId

\* An entry of an appeal names a case that appeals this one.
NamesAppeals(n, cs) ==
  \A i \in DOMAIN cs[n].history :
    LET e == cs[n].history[i] IN
    e.type = "appealed" => e.ref \in DOMAIN cs /\ cs[e.ref].appealOfId = n

AllExplained(cs) ==
  /\ IsRegister(cs)
  /\ \A n \in DOMAIN cs : Explains(cs[n].history, cs[n]) /\ NamesAppeals(n, cs)

CasesInv == AllExplained(cases)

\* Cases and their trails only grow.
Grown(cs) ==
  \A n \in DOMAIN cases :
    /\ n \in DOMAIN cs /\ SameCase(cases[n], cs[n])
    /\ Begins(cases[n].history, cs[n].history)

\* A case with one more entry in its history.
WithEntry(c, status, assignee, e) ==
  [c EXCEPT !.status = status, !.assignedToId = assignee, !.history = Append(@, e)]

LEMMA FullUpdated ==
  ASSUME NEW u, NEW n, NEW k, NEW p, NEW s, NEW a, NEW h, NEW status, NEW assignee, NEW e
  PROVE  WithEntry(Full(u, n, k, p, s, a, h), status, assignee, e) =
         Full(u, n, k, p, status, assignee, Append(h, e))
<1>1. [Full(u, n, k, p, s, a, h) EXCEPT !.status = status] = Full(u, n, k, p, status, a, h)
  BY DEF Full
<1>2. [Full(u, n, k, p, status, a, h) EXCEPT !.assignedToId = assignee] =
      Full(u, n, k, p, status, assignee, h)
  BY DEF Full
<1>3. [Full(u, n, k, p, status, assignee, h) EXCEPT !.history = Append(h, e)] =
      Full(u, n, k, p, status, assignee, Append(h, e))
  BY DEF Full
<1>4. Full(u, n, k, p, s, a, h).history = h
  BY DEF Full
<1>5. [Full(u, n, k, p, s, a, h) EXCEPT !.status = status, !.assignedToId = assignee,
                                        !.history = Append(h, e)] =
      Full(u, n, k, p, status, assignee, Append(h, e))
  BY <1>1, <1>2, <1>3
<1>6. QED
  BY <1>4, <1>5 DEF WithEntry

LEMMA TrailGrows ==
  ASSUME NEW h \in Seq(TrailEntry), NEW e \in TrailEntry
  PROVE  /\ Append(h, e) \in Seq(TrailEntry) /\ Len(h) \in Nat /\ Len(Append(h, e)) = Len(h) + 1
         /\ DOMAIN h = 1 .. Len(h) /\ DOMAIN Append(h, e) = 1 .. (Len(h) + 1)
         /\ Append(h, e)[Len(h) + 1] = e /\ \A i \in 1 .. Len(h) : Append(h, e)[i] = h[i]
         /\ \A i \in 1 .. (Len(h) + 1) : i \in 1 .. Len(h) \/ i = Len(h) + 1
OBVIOUS

\* What a command may leave behind in one case: an entry, and the status and assignee
\* that it records.
IsReport(n, c, e, cs) ==
  /\ e \in TrailEntry
  /\ c.status \in Status /\ c.assignedToId \in Assignees \cup {NULL}
  /\ c.status # cases[n].status =>
       /\ e.type \in {"status_changed", "appealed"} /\ e.to = c.status /\ IsPublic(e)
       /\ c.status = "appealed" => e.type = "appealed"
  /\ c.assignedToId \notin {cases[n].assignedToId, NULL} => e.type = "assigned" /\ e.to = c.assignedToId
  /\ e.type = "appealed" => e.ref \in DOMAIN cs /\ cs[e.ref].appealOfId = n

LEMMA CaseReported ==
  ASSUME CasesInv, NEW n \in DOMAIN cases, NEW cs, NEW status, NEW assignee, NEW e,
         cs[n] = WithEntry(cases[n], status, assignee, e), IsReport(n, cs[n], e, cs),
         \A m \in DOMAIN cases : m \in DOMAIN cs /\ cs[m].appealOfId = cases[m].appealOfId
  PROVE  /\ IsCase(cs[n]) /\ SameCase(cases[n], cs[n]) /\ Begins(cases[n].history, cs[n].history)
         /\ Explains(cs[n].history, cs[n]) /\ NamesAppeals(n, cs)
<1> DEFINE c == cases[n]
           h == c.history
<1>1. IsCase(c) /\ Explains(h, c) /\ NamesAppeals(n, cases)
  BY DEF CasesInv, AllExplained, IsRegister
<1>2. cs[n] = Full(c.submittedById, c.isAnonymous, c.track, c.appealOfId, status, assignee, Append(h, e))
  BY <1>1, FullUpdated DEF IsCase
<1>3. /\ cs[n].submittedById = c.submittedById /\ cs[n].isAnonymous = c.isAnonymous
      /\ cs[n].track = c.track /\ cs[n].appealOfId = c.appealOfId
      /\ cs[n].status = status /\ cs[n].assignedToId = assignee /\ cs[n].history = Append(h, e)
  <2> DEFINE d == cs[n]
  <2>1. d = Full(c.submittedById, c.isAnonymous, c.track, c.appealOfId, status, assignee, Append(h, e))
    BY <1>2
  <2> HIDE DEF c, h, d
  <2>2. /\ d.submittedById = c.submittedById /\ d.isAnonymous = c.isAnonymous
        /\ d.track = c.track /\ d.appealOfId = c.appealOfId
        /\ d.status = status /\ d.assignedToId = assignee /\ d.history = Append(h, e)
    BY <2>1 DEF Full
  <2>3. QED
    BY <2>2 DEF d
<1>4. h \in Seq(TrailEntry) /\ e \in TrailEntry
  BY <1>1 DEF IsCase, IsReport
<1> HIDE DEF c, h
<1>5. /\ Append(h, e) \in Seq(TrailEntry) /\ Len(h) \in Nat /\ Len(Append(h, e)) = Len(h) + 1
      /\ DOMAIN h = 1 .. Len(h) /\ DOMAIN Append(h, e) = 1 .. (Len(h) + 1)
      /\ Append(h, e)[Len(h) + 1] = e /\ \A i \in 1 .. Len(h) : Append(h, e)[i] = h[i]
      /\ \A i \in 1 .. (Len(h) + 1) : i \in 1 .. Len(h) \/ i = Len(h) + 1
  BY <1>4, TrailGrows
<1>6. /\ \A i \in 1 .. Len(h) : i \in DOMAIN cs[n].history /\ cs[n].history[i] = h[i]
      /\ Len(h) + 1 \in DOMAIN cs[n].history /\ cs[n].history[Len(h) + 1] = e
  BY <1>3, <1>5
<1>7. IsCase(cs[n])
  BY <1>1, <1>2, <1>3, <1>5 DEF IsCase, IsReport, c
<1>8. SameCase(c, cs[n]) /\ Begins(h, cs[n].history)
  BY <1>3, <1>5 DEF SameCase, Begins
<1>9. Explains(cs[n].history, cs[n])
  <2> DEFINE StatusTold ==
               \E i \in DOMAIN cs[n].history :
                 /\ IsPublic(cs[n].history[i])
                 /\ cs[n].history[i].type \in {"submitted", "status_changed", "appealed"}
                 /\ cs[n].history[i].to = cs[n].status
                 /\ cs[n].status = "appealed" => cs[n].history[i].type = "appealed"
             AssigneeTold ==
               \E i \in DOMAIN cs[n].history :
                 cs[n].history[i].type = "assigned" /\ cs[n].history[i].to = cs[n].assignedToId
  <2>1. ASSUME status = c.status PROVE StatusTold
    <3>1. PICK i \in 1 .. Len(h) :
            /\ IsPublic(h[i]) /\ h[i].type \in {"submitted", "status_changed", "appealed"}
            /\ h[i].to = c.status /\ (c.status = "appealed" => h[i].type = "appealed")
      BY <1>1, <1>5 DEF Explains
    <3>2. QED
      BY <2>1, <3>1, <1>3, <1>6
  <2>2. ASSUME status # c.status PROVE StatusTold
    BY <2>2, <1>3, <1>6 DEF IsReport, c
  <2>3. ASSUME assignee # NULL, assignee = c.assignedToId PROVE AssigneeTold
    <3>1. PICK i \in 1 .. Len(h) : h[i].type = "assigned" /\ h[i].to = c.assignedToId
      BY <1>1, <1>5, <2>3 DEF Explains
    <3>2. QED
      BY <2>3, <3>1, <1>3, <1>6
  <2>4. ASSUME assignee # NULL, assignee # c.assignedToId PROVE AssigneeTold
    BY <2>4, <1>3, <1>6 DEF IsReport, c
  <2>5. QED
    BY <1>3, <2>1, <2>2, <2>3, <2>4 DEF Explains
<1>10. NamesAppeals(n, cs)
  <2> SUFFICES ASSUME NEW i \in 1 .. (Len(h) + 1), cs[n].history[i].type = "appealed"
               PROVE  /\ cs[n].history[i].ref \in DOMAIN cs
                      /\ cs[cs[n].history[i].ref].appealOfId = n
    BY <1>3, <1>5 DEF NamesAppeals
  <2>1. CASE i = Len(h) + 1
    BY <2>1, <1>6 DEF IsReport
  <2>2. CASE i \in 1 .. Len(h)
    BY <1>1, <1>5, <1>6, <2>2 DEF NamesAppeals, h, c
  <2>3. QED
    BY <1>5, <2>1, <2>2
<1>11. QED
  BY <1>7, <1>8, <1>9, <1>10 DEF c, h

LEMMA FunctionIsSequence ==
  ASSUME NEW n \in Nat, NEW S, NEW s, HasLength(s, n), \A i \in 1 .. n : s[i] \in S
  PROVE  s \in Seq(S) /\ Len(s) = n
<1>1. s \in [1 .. n -> S]
  BY DEF HasLength
<1>2. QED
  BY <1>1

\* A function one longer than a sequence, with one more value, is what Append makes.
LEMMA AppendIs ==
  ASSUME NEW n \in Nat, NEW s, HasLength(s, n), NEW x, NEW r, HasLength(r, n + 1),
         \A i \in 1 .. n : r[i] = s[i], r[n + 1] = x
  PROVE  r = Append(s, x)
<1> DEFINE S == {s[i] : i \in 1 .. n} \cup {x}
<1>1. \A i \in 1 .. (n + 1) : i \in 1 .. n \/ i = n + 1
  OBVIOUS
<1>2. x \in S /\ (\A i \in 1 .. n : s[i] \in S) /\ (\A i \in 1 .. (n + 1) : r[i] \in S)
  BY <1>1
<1> HIDE DEF S
<1>3. s \in Seq(S) /\ Len(s) = n /\ r \in Seq(S) /\ Len(r) = n + 1
  BY <1>2, FunctionIsSequence
<1>4. /\ Append(s, x) \in Seq(S) /\ Len(Append(s, x)) = n + 1
      /\ \A i \in 1 .. n : Append(s, x)[i] = s[i]
      /\ Append(s, x)[n + 1] = x
  BY <1>2, <1>3, AppendProperties
<1>5. \A i \in 1 .. (n + 1) : r[i] = Append(s, x)[i]
  BY <1>1, <1>4
<1>6. QED
  BY <1>3, <1>4, <1>5, SeqEqual

\* A sequence and one more value.
LEMMA ListGrows ==
  ASSUME NEW n \in Nat, NEW s, HasLength(s, n), NEW x
  PROVE  LET r == Append(s, x) IN
         /\ Len(s) = n /\ Len(r) = n + 1 /\ HasLength(r, n + 1)
         /\ r[n + 1] = x /\ \A i \in 1 .. n : r[i] = s[i]
<1> DEFINE S == {s[i] : i \in 1 .. n} \cup {x}
<1>1. x \in S /\ \A i \in 1 .. n : s[i] \in S
  OBVIOUS
<1> HIDE DEF S
<1>2. s \in Seq(S) /\ Len(s) = n
  BY <1>1, FunctionIsSequence
<1>3. /\ Append(s, x) \in Seq(S) /\ Len(Append(s, x)) = n + 1
      /\ \A i \in 1 .. n : Append(s, x)[i] = s[i]
      /\ Append(s, x)[n + 1] = x
  BY <1>1, <1>2, AppendProperties
<1>4. HasLength(Append(s, x), n + 1)
  BY <1>3 DEF HasLength
<1>5. QED
  BY <1>2, <1>3, <1>4

\* A case that has just been opened.
IsNew(c) ==
  /\ IsCase(c) /\ Explains(c.history, c)
  /\ \A i \in DOMAIN c.history : c.history[i].type # "appealed"

LEMMA OpenedIsNew ==
  ASSUME NEW u \in Students, NEW anonymous \in BOOLEAN, NEW track \in Track, NEW appealOf
  PROVE  /\ IsNew(Register!Opened(u, anonymous, track, appealOf))
         /\ Register!Opened(u, anonymous, track, appealOf).appealOfId = appealOf
<1> DEFINE e == [type |-> "submitted", actorId |-> u, to |-> "submitted", ref |-> NULL,
                 visibility |-> "public"]
           c == Register!Opened(u, anonymous, track, appealOf)
<1>1. c = Full(u, anonymous, track, appealOf, "submitted", NULL, <<e>>)
  BY DEF Register!Opened, Full
<1>2. e \in TrailEntry /\ IsPublic(e) /\ e.type = "submitted" /\ e.to = "submitted"
  BY DEF Students, TrailEntry, EntryType, Status, IsPublic
<1> HIDE DEF e, c
<1>3. /\ c.submittedById = u /\ c.isAnonymous = anonymous /\ c.track = track
      /\ c.appealOfId = appealOf /\ c.status = "submitted" /\ c.assignedToId = NULL
      /\ c.history = <<e>>
  BY <1>1 DEF Full
<1>4. <<e>> \in Seq(TrailEntry) /\ DOMAIN <<e>> = 1 .. 1 /\ <<e>>[1] = e
  BY <1>2
<1>5. IsCase(c)
  BY <1>1, <1>3, <1>4 DEF IsCase, Status
<1>6. Explains(c.history, c) /\ \A i \in DOMAIN c.history : c.history[i].type # "appealed"
  BY <1>2, <1>3, <1>4 DEF Explains
<1>7. QED
  BY <1>3, <1>5, <1>6 DEF IsNew, c

\* New cases are opened behind the ones there are.
LEMMA CasesOpened ==
  ASSUME CasesInv, NEW cs, Len(cs) \in Nat, HasLength(cs, Len(cs)), Len(cases) <= Len(cs),
         \A m \in DOMAIN cases : cs[m] = cases[m],
         \A m \in DOMAIN cs \ DOMAIN cases : IsNew(cs[m])
  PROVE  AllExplained(cs) /\ Grown(cs)
<1>1. DOMAIN cs = 1 .. Len(cs) /\ DOMAIN cases = 1 .. Len(cases) /\ DOMAIN cases \subseteq DOMAIN cs
  BY DEF CasesInv, AllExplained, IsRegister, HasLength
<1>2. ASSUME NEW m \in DOMAIN cases
      PROVE  /\ IsCase(cs[m]) /\ Explains(cs[m].history, cs[m]) /\ NamesAppeals(m, cs)
             /\ SameCase(cases[m], cs[m]) /\ Begins(cases[m].history, cs[m].history)
  <2>1. cs[m] = cases[m] /\ IsCase(cases[m]) /\ Explains(cases[m].history, cases[m])
    BY DEF CasesInv, AllExplained, IsRegister
  <2>2. NamesAppeals(m, cs)
    BY <1>1, <2>1 DEF CasesInv, AllExplained, NamesAppeals
  <2>3. Begins(cases[m].history, cs[m].history)
    BY <2>1 DEF IsCase, Begins
  <2>4. QED
    BY <2>1, <2>2, <2>3 DEF SameCase
<1>3. ASSUME NEW m \in DOMAIN cs \ DOMAIN cases
      PROVE  IsCase(cs[m]) /\ Explains(cs[m].history, cs[m]) /\ NamesAppeals(m, cs)
  BY DEF IsNew, NamesAppeals
<1>4. QED
  BY <1>1, <1>2, <1>3 DEF AllExplained, IsRegister, Grown

\* One case gets an entry, and perhaps others are opened behind.
LEMMA CasesReported ==
  ASSUME CasesInv, NEW cs, Len(cs) \in Nat, HasLength(cs, Len(cs)), Len(cases) <= Len(cs),
         NEW n \in DOMAIN cases, NEW status, NEW assignee, NEW e,
         cs[n] = WithEntry(cases[n], status, assignee, e), IsReport(n, cs[n], e, cs),
         \A m \in DOMAIN cases \ {n} : cs[m] = cases[m],
         \A m \in DOMAIN cs \ DOMAIN cases : IsNew(cs[m])
  PROVE  AllExplained(cs) /\ Grown(cs)
<1>1. DOMAIN cs = 1 .. Len(cs) /\ DOMAIN cases = 1 .. Len(cases) /\ DOMAIN cases \subseteq DOMAIN cs
  BY DEF CasesInv, AllExplained, IsRegister, HasLength
<1>2. cs[n].appealOfId = cases[n].appealOfId
  <2> DEFINE c == cases[n]
             d == cs[n]
  <2>1. IsCase(c)
    BY DEF CasesInv, AllExplained, IsRegister
  <2>2. d = Full(c.submittedById, c.isAnonymous, c.track, c.appealOfId, status, assignee,
                 Append(c.history, e))
    BY <2>1, FullUpdated DEF IsCase
  <2> HIDE DEF c, d
  <2>3. d.appealOfId = c.appealOfId
    BY <2>2 DEF Full
  <2>4. QED
    BY <2>3 DEF c, d
<1>3. \A m \in DOMAIN cases : m \in DOMAIN cs /\ cs[m].appealOfId = cases[m].appealOfId
  BY <1>1, <1>2
<1>4. /\ IsCase(cs[n]) /\ SameCase(cases[n], cs[n]) /\ Begins(cases[n].history, cs[n].history)
      /\ Explains(cs[n].history, cs[n]) /\ NamesAppeals(n, cs)
  BY <1>3, CaseReported
<1>5. ASSUME NEW m \in DOMAIN cases \ {n}
      PROVE  /\ IsCase(cs[m]) /\ Explains(cs[m].history, cs[m]) /\ NamesAppeals(m, cs)
             /\ SameCase(cases[m], cs[m]) /\ Begins(cases[m].history, cs[m].history)
  <2>1. cs[m] = cases[m] /\ IsCase(cases[m]) /\ Explains(cases[m].history, cases[m])
    BY DEF CasesInv, AllExplained, IsRegister
  <2>2. NamesAppeals(m, cs)
    BY <1>3, <2>1 DEF CasesInv, AllExplained, NamesAppeals
  <2>3. Begins(cases[m].history, cs[m].history)
    BY <2>1 DEF IsCase, Begins
  <2>4. QED
    BY <2>1, <2>2, <2>3 DEF SameCase
<1>6. ASSUME NEW m \in DOMAIN cs \ DOMAIN cases
      PROVE  IsCase(cs[m]) /\ Explains(cs[m].history, cs[m]) /\ NamesAppeals(m, cs)
  BY DEF IsNew, NamesAppeals
<1>7. QED
  BY <1>1, <1>4, <1>5, <1>6 DEF AllExplained, IsRegister, Grown

-----------------------------------------------------------------------------
(* The register: its commands. *)

\* What an entry says that a command writes.
NewTrailEntry(type, u, to, ref, visibility) ==
  [type |-> type, actorId |-> u, to |-> to, ref |-> ref, visibility |-> visibility]

LEMMA RecordIs ==
  ASSUME CasesInv, NEW n \in DOMAIN cases, NEW u, NEW type, NEW to, NEW ref, NEW visibility,
         NEW status, NEW assignee,
         NEW cs, cs = Register!Record(n, u, type, to, ref, visibility, status, assignee)
  PROVE  /\ Len(cases) \in Nat /\ Len(cs) = Len(cases) /\ HasLength(cs, Len(cases))
         /\ cs[n] = WithEntry(cases[n], status, assignee, NewTrailEntry(type, u, to, ref, visibility))
         /\ \A m \in DOMAIN cases \ {n} : cs[m] = cases[m]
<1>1. Len(cases) \in Nat /\ HasLength(cases, Len(cases)) /\ DOMAIN cases = 1 .. Len(cases)
  BY DEF CasesInv, AllExplained, IsRegister, HasLength
<1>2. cs = [m \in 1 .. Len(cases) |->
              IF m = n THEN WithEntry(cases[n], status, assignee, NewTrailEntry(type, u, to, ref, visibility))
                       ELSE cases[m]]
  BY <1>1 DEF Register!Record, WithEntry, NewTrailEntry
<1>3. HasLength(cs, Len(cases))
  BY <1>2 DEF HasLength
<1>4. Len(cs) = Len(cases)
  BY <1>1, <1>3, ListGrows
<1>5. QED
  BY <1>1, <1>2, <1>3, <1>4

LEMMA WithEntryFields ==
  ASSUME NEW c, IsCase(c), NEW status, NEW assignee, NEW e, NEW d, d = WithEntry(c, status, assignee, e)
  PROVE  d.status = status /\ d.assignedToId = assignee
<1>1. d = Full(c.submittedById, c.isAnonymous, c.track, c.appealOfId, status, assignee,
               Append(c.history, e))
  BY FullUpdated DEF IsCase
<1>2. QED
  BY <1>1 DEF Full

\* One command on one case.
LEMMA RecordGrows ==
  ASSUME CasesInv, NEW n \in DOMAIN cases, NEW u \in Users, NEW type \in EntryType \ {"appealed"},
         NEW to \in Status \cup Users \cup {NULL}, NEW visibility \in {"public", "internal"},
         NEW status \in Status, NEW assignee \in Assignees \cup {NULL},
         status # cases[n].status =>
           type = "status_changed" /\ to = status /\ visibility = "public" /\ status # "appealed",
         assignee # cases[n].assignedToId => type = "assigned" /\ to = assignee,
         NEW cs, cs = Register!Record(n, u, type, to, NULL, visibility, status, assignee)
  PROVE  AllExplained(cs) /\ Grown(cs)
<1> DEFINE e == NewTrailEntry(type, u, to, NULL, visibility)
<1>1. /\ Len(cases) \in Nat /\ Len(cs) = Len(cases) /\ HasLength(cs, Len(cs))
      /\ cs[n] = WithEntry(cases[n], status, assignee, e)
      /\ \A m \in DOMAIN cases \ {n} : cs[m] = cases[m]
  BY RecordIs
<1>2. /\ e \in TrailEntry /\ e.type = type /\ e.to = to
      /\ visibility = "public" => IsPublic(e)
  BY DEF NewTrailEntry, TrailEntry, IsPublic
<1> HIDE DEF e
<1>3. cs[n].status = status /\ cs[n].assignedToId = assignee
  BY <1>1, WithEntryFields DEF CasesInv, AllExplained, IsRegister
<1>4. IsReport(n, cs[n], e, cs)
  BY <1>2, <1>3 DEF IsReport
<1>5. DOMAIN cs = DOMAIN cases
  BY <1>1 DEF HasLength, CasesInv, AllExplained, IsRegister
<1>6. QED
  BY <1>1, <1>4, <1>5, CasesReported

LEMMA CaseKnown ==
  ASSUME CasesInv, NEW n \in DOMAIN cases
  PROVE  /\ IsCase(cases[n]) /\ cases[n].status \in Status
         /\ cases[n].assignedToId \in Assignees \cup {NULL}
BY DEF CasesInv, AllExplained, IsRegister, IsCase

LEMMA DecideGrows ==
  ASSUME CasesInv, NEW u \in Users, NEW n \in DOMAIN cases, NEW to \in Status, Register!Decide(u, n, to),
         NEW cs, cs = cases'
  PROVE  AllExplained(cs) /\ Grown(cs)
<1>1. /\ to # "appealed"
      /\ cs = Register!Record(n, u, "status_changed", to, NULL, "public", to, cases[n].assignedToId)
  BY DEF Register!Decide
<1>2. "status_changed" \in EntryType \ {"appealed"} /\ "public" \in {"public", "internal"}
  BY DEF EntryType
<1>3. QED
  BY <1>1, <1>2, CaseKnown, RecordGrows

LEMMA AssignGrows ==
  ASSUME CasesInv, NEW u \in Users, NEW n \in DOMAIN cases, NEW assignee \in Users,
         Register!Assign(u, n, assignee), NEW cs, cs = cases'
  PROVE  AllExplained(cs) /\ Grown(cs)
<1>1. /\ assignee \in Assignees
      /\ cs = Register!Record(n, u, "assigned", assignee, NULL, "internal", cases[n].status, assignee)
  BY DEF Register!Assign, Assignees
<1>2. "assigned" \in EntryType \ {"appealed"} /\ "internal" \in {"public", "internal"}
  BY DEF EntryType
<1>3. QED
  BY <1>1, <1>2, CaseKnown, RecordGrows

LEMMA NoteGrows ==
  ASSUME CasesInv, NEW u \in Users, NEW n \in DOMAIN cases, NEW type \in {"remark_added", "attachment_added"},
         NEW visibility \in {"public", "internal"}, Register!Note(u, n, type, visibility),
         NEW cs, cs = cases'
  PROVE  AllExplained(cs) /\ Grown(cs)
<1>1. cs = Register!Record(n, u, type, NULL, NULL, visibility, cases[n].status, cases[n].assignedToId)
  BY DEF Register!Note
<1>2. type \in EntryType \ {"appealed"}
  BY DEF EntryType
<1>3. QED
  BY <1>1, <1>2, CaseKnown, RecordGrows

LEMMA FileGrows ==
  ASSUME CasesInv, NEW u \in Users, NEW track \in CategoryTracks, NEW anonymous \in BOOLEAN,
         Register!File(u, track, anonymous), NEW cs, cs = cases'
  PROVE  AllExplained(cs) /\ Grown(cs) /\ Len(cases) + 1 \in DOMAIN cs
<1> DEFINE c == Register!Opened(u, anonymous, track, NULL)
<1>1. cs = Append(cases, c) /\ u \in Students /\ track \in Track
  BY UsersAssumption DEF Register!File, Students
<1>2. IsNew(c)
  BY <1>1, OpenedIsNew
<1> HIDE DEF c
<1>3. Len(cases) \in Nat /\ HasLength(cases, Len(cases)) /\ DOMAIN cases = 1 .. Len(cases)
  BY DEF CasesInv, AllExplained, IsRegister, HasLength
<1>4. /\ Len(cs) = Len(cases) + 1 /\ HasLength(cs, Len(cs)) /\ cs[Len(cs)] = c
      /\ \A m \in DOMAIN cases : cs[m] = cases[m]
  BY <1>1, <1>3, ListGrows
<1>5. \A m \in DOMAIN cs \ DOMAIN cases : m = Len(cs)
  BY <1>3, <1>4 DEF HasLength
<1>6. Len(cs) \in DOMAIN cs
  BY <1>3, <1>4 DEF HasLength
<1>7. QED
  BY <1>2, <1>3, <1>4, <1>5, <1>6, CasesOpened

LEMMA AppealGrows ==
  ASSUME CasesInv, NEW u \in Users, NEW n \in DOMAIN cases, Register!Appeal(u, n), NEW cs, cs = cases'
  PROVE  AllExplained(cs) /\ Grown(cs)
<1> DEFINE c == Register!Opened(u, cases[n].isAnonymous, "sgrc", n)
           e == NewTrailEntry("appealed", u, "appealed", Len(cases) + 1, "public")
           mid == Register!Record(n, u, "appealed", "appealed", Len(cases) + 1, "public",
                                  "appealed", cases[n].assignedToId)
<1>1. cs = Append(mid, c) /\ u \in Students
  BY DEF Register!Appeal, Students
<1>2. IsNew(c) /\ c.appealOfId = n
  <2>1. cases[n].isAnonymous \in BOOLEAN /\ "sgrc" \in Track
    BY CaseKnown DEF IsCase, Track
  <2>2. QED
    BY <1>1, <2>1, OpenedIsNew
<1>3. /\ Len(cases) \in Nat /\ HasLength(mid, Len(cases))
      /\ mid[n] = WithEntry(cases[n], "appealed", cases[n].assignedToId, e)
      /\ \A m \in DOMAIN cases \ {n} : mid[m] = cases[m]
  BY RecordIs
<1>4. DOMAIN cases = 1 .. Len(cases)
  BY DEF CasesInv, AllExplained, IsRegister, HasLength
<1>5. e \in TrailEntry /\ e.type = "appealed" /\ e.to = "appealed" /\ e.ref = Len(cases) + 1 /\ IsPublic(e)
  BY <1>3 DEF NewTrailEntry, TrailEntry, EntryType, Status, IsPublic
<1> HIDE DEF c, e, mid
<1>6. /\ Len(cs) = Len(cases) + 1 /\ HasLength(cs, Len(cs)) /\ cs[Len(cs)] = c
      /\ \A m \in DOMAIN cases : cs[m] = mid[m]
  BY <1>1, <1>3, <1>4, ListGrows
<1>7. /\ \A m \in DOMAIN cs \ DOMAIN cases : m = Len(cs)
      /\ Len(cs) \in DOMAIN cs
  BY <1>3, <1>4, <1>6 DEF HasLength
<1>8. cs[n] = WithEntry(cases[n], "appealed", cases[n].assignedToId, e)
  BY <1>3, <1>6
<1>9. cs[n].status = "appealed" /\ cs[n].assignedToId = cases[n].assignedToId
  BY <1>8, CaseKnown, WithEntryFields
<1>10. IsReport(n, cs[n], e, cs)
  BY <1>2, <1>5, <1>6, <1>7, <1>9, CaseKnown DEF IsReport, Status
<1>11. QED
  BY <1>2, <1>3, <1>6, <1>7, <1>8, <1>10, CasesReported

-----------------------------------------------------------------------------
(* The page: what it has read is still the beginning of what there is. *)

IsRow(r) ==
  r = [institutionId |-> r.institutionId, submittedById |-> r.submittedById,
       isAnonymous |-> r.isAnonymous, track |-> r.track, status |-> r.status,
       assignedToId |-> r.assignedToId, appealOfId |-> r.appealOfId]

Prefix(h, m) == [i \in 1 .. m |-> h[i]]

\* The page p was made from the first entries of a trail, which explain its row.
HasRead(p, h) ==
  \E m \in 0 .. Len(h) :
    Explains(Prefix(h, m), p.row) /\ p.trail = Trail(Actor(p.viewer), p.row, Prefix(h, m))

IsPage(p, cs) ==
  /\ p = [viewer |-> p.viewer, case |-> p.case, row |-> p.row, trail |-> p.trail]
  /\ p.viewer \in Users /\ p.case \in DOMAIN cs
  /\ IsRow(p.row) /\ canView(Actor(p.viewer), p.row) /\ SameCase(cs[p.case], p.row)
  /\ Explains(cs[p.case].history, p.row)
  /\ p.trail = <<>> \/ HasRead(p, cs[p.case].history)

PageInv == page = NoPage \/ IsPage(page, cases)

\* A filing is about a case that is there.
FilerInv == filing.pc # "idle" => filing.user \in Users /\ filing.case \in DOMAIN cases

PortalInv == FilesInv /\ CasesInv /\ FilerInv /\ PageInv

LEMMA HistoryIsList ==
  ASSUME NEW h \in Seq(TrailEntry)
  PROVE  Len(h) \in Nat /\ DOMAIN h = 1 .. Len(h) /\ \A i \in 1 .. Len(h) : h[i] \in TrailEntry
OBVIOUS

LEMMA WholePrefix ==
  ASSUME NEW h \in Seq(TrailEntry)
  PROVE  Len(h) \in 0 .. Len(h) /\ Prefix(h, Len(h)) = h
BY DEF Prefix

LEMMA PrefixGrows ==
  ASSUME NEW h \in Seq(TrailEntry), NEW j \in Seq(TrailEntry), Begins(h, j), NEW row
  PROVE  /\ Explains(h, row) => Explains(j, row)
         /\ \A m \in 0 .. Len(h) : m \in 0 .. Len(j) /\ Prefix(j, m) = Prefix(h, m)
<1>1. /\ Len(h) \in Nat /\ Len(j) \in Nat /\ DOMAIN h = 1 .. Len(h) /\ DOMAIN j = 1 .. Len(j)
      /\ Len(h) <= Len(j) /\ \A i \in 1 .. Len(h) : j[i] = h[i]
  BY HistoryIsList DEF Begins
<1>2. \A i \in DOMAIN h : i \in DOMAIN j /\ j[i] = h[i]
  BY <1>1
<1>3. Explains(h, row) => Explains(j, row)
  BY <1>2 DEF Explains
<1>4. ASSUME NEW m \in 0 .. Len(h) PROVE m \in 0 .. Len(j) /\ Prefix(j, m) = Prefix(h, m)
  <2>1. m \in 0 .. Len(j) /\ \A i \in 1 .. m : j[i] = h[i]
    BY <1>1
  <2>2. QED
    BY <2>1 DEF Prefix
<1>5. QED
  BY <1>3, <1>4

LEMMA PageGrows ==
  ASSUME CasesInv, NEW cs, AllExplained(cs), Grown(cs), NEW p, IsPage(p, cases)
  PROVE  IsPage(p, cs)
<1> DEFINE h == cases[p.case].history
           j == cs[p.case].history
<1>1. /\ p.case \in DOMAIN cs /\ SameCase(cases[p.case], cs[p.case]) /\ Begins(h, j)
      /\ h \in Seq(TrailEntry) /\ j \in Seq(TrailEntry)
  BY DEF IsPage, Grown, CasesInv, AllExplained, IsRegister, IsCase
<1>2. SameCase(cs[p.case], p.row)
  BY <1>1 DEF IsPage, SameCase
<1>3. /\ Explains(h, p.row) => Explains(j, p.row)
      /\ \A m \in 0 .. Len(h) : m \in 0 .. Len(j) /\ Prefix(j, m) = Prefix(h, m)
  BY <1>1, PrefixGrows
<1>4. HasRead(p, h) => HasRead(p, j)
  BY <1>3 DEF HasRead
<1>5. QED
  BY <1>1, <1>2, <1>3, <1>4 DEF IsPage

LEMMA RegisterGrows ==
  ASSUME PortalInv, NEW cs, cs = cases', AllExplained(cs), Grown(cs), UNCHANGED page
  PROVE  CasesInv' /\ PageInv' /\ \A n \in DOMAIN cases : n \in DOMAIN cases'
<1>1. CasesInv'
  BY DEF CasesInv
<1>2. PageInv'
  <2>1. CASE page = NoPage
    BY <2>1 DEF PageInv
  <2>2. CASE IsPage(page, cases)
    <3>1. PICK p : p = page
      OBVIOUS
    <3>2. IsPage(p, cs)
      BY <2>2, <3>1, PageGrows DEF PortalInv
    <3>3. QED
      BY <3>1, <3>2 DEF PageInv
  <2>3. QED
    BY <2>1, <2>2 DEF PortalInv, PageInv
<1>3. QED
  BY <1>1, <1>2 DEF Grown

LEMMA InitPortal == PortalInit => PortalInv
<1> SUFFICES ASSUME PortalInit PROVE PortalInv
  OBVIOUS
<1>1. FilesInv /\ FilerInv /\ PageInv
  BY InitFiles DEF PortalInit, Init, NoFiling, FilerInv, PageInv
<1>2. cases = <<>> /\ Len(cases) = 0 /\ DOMAIN cases = {} /\ cases = [i \in 1 .. 0 |-> cases[i]]
  BY DEF PortalInit, Init, Register!Init
<1>3. CasesInv
  BY <1>2 DEF CasesInv, AllExplained, IsRegister, HasLength
<1>4. QED
  BY <1>1, <1>3 DEF PortalInv

-----------------------------------------------------------------------------
(* The invariant. *)

\* What people do through the forms is one command of the register.
LEMMA FormsGrow ==
  ASSUME CasesInv, NEW u \in Users, NEW n \in DOMAIN cases,
         StaffForms(u, n) \/ BulkForms(u, n) \/ StudentForms(u, n), NEW cs, cs = cases'
  PROVE  AllExplained(cs) /\ Grown(cs)
<1>1. BULK_STATUSES \subseteq Status /\ {"withdrawn", "closed"} \subseteq Status
  BY DEF BULK_STATUSES, Status
<1>2. CASE \E to \in Status : Register!Decide(u, n, to)
  BY <1>2, DecideGrows
<1>3. CASE \E assignee \in Users : Register!Assign(u, n, assignee)
  BY <1>3, AssignGrows
<1>4. CASE \E visibility \in {"public", "internal"} : Register!Note(u, n, "remark_added", visibility)
  BY <1>4, NoteGrows
<1>5. CASE Register!Appeal(u, n)
  BY <1>5, AppealGrows
<1>6. QED
  BY <1>1, <1>2, <1>3, <1>4, <1>5 DEF StaffForms, BulkForms, StudentForms

LEMMA InvWithOthers == PortalInv /\ Others /\ UNCHANGED page => CasesInv' /\ FilerInv' /\ PageInv'
<1> SUFFICES ASSUME PortalInv, Others, UNCHANGED page PROVE CasesInv' /\ FilerInv' /\ PageInv'
  OBVIOUS
<1>1. PICK cs : cs = cases'
  OBVIOUS
<1>2. AllExplained(cs) /\ Grown(cs)
  BY <1>1, FormsGrow DEF PortalInv, Others
<1>3. CasesInv' /\ PageInv' /\ \A n \in DOMAIN cases : n \in DOMAIN cases'
  BY <1>1, <1>2, RegisterGrows
<1>4. QED
  BY <1>3 DEF Others, PortalInv, FilerInv

LEMMA InvWithSubmission ==
  ASSUME PortalInv, UNCHANGED page, NEW u \in Users, NEW track \in CategoryTracks, NEW anonymous \in BOOLEAN,
         NEW files, SubmitGrievance(u, track, anonymous, files)
  PROVE  CasesInv' /\ FilerInv' /\ PageInv'
<1>1. PICK cs : cs = cases'
  OBVIOUS
<1>2. AllExplained(cs) /\ Grown(cs) /\ Len(cases) + 1 \in DOMAIN cs
  BY <1>1, FileGrows DEF PortalInv, SubmitGrievance
<1>3. CasesInv' /\ PageInv'
  BY <1>1, <1>2, RegisterGrows
<1>4. FilerInv'
  BY <1>1, <1>2 DEF SubmitGrievance, NoFiling, FilerInv
<1>5. QED
  BY <1>3, <1>4

\* The row of a file is an entry of the trail.
LEMMA InvWithFile == PortalInv /\ FilingStep /\ UNCHANGED page => CasesInv' /\ FilerInv' /\ PageInv'
<1> SUFFICES ASSUME PortalInv, FilingStep, UNCHANGED page PROVE CasesInv' /\ FilerInv' /\ PageInv'
  OBVIOUS
<1>1. /\ filing.pc # "idle" /\ filing.user \in Users /\ filing.case \in DOMAIN cases
      /\ filing'.pc = "idle" \/ (filing'.user = filing.user /\ filing'.case = filing.case)
  <2>1. filing.pc # "idle" /\ filing.user \in Users /\ filing.case \in DOMAIN cases
    BY DEF FilingStep, RefuseFile, OpenFile, FinishFile, AbandonFile, AddAttachment, AttachmentDenied,
           AttachmentFails, AnswerLost, DeleteFile, PortalInv, FilerInv
  <2> SUFFICES filing'.pc = "idle" \/ (filing'.user = filing.user /\ filing'.case = filing.case)
    BY <2>1
  <2>2. IsFiling
    BY DEF PortalInv, FilesInv
  <2>3. CASE filing' = NextFile(filing)
    BY <2>2, <2>3 DEF NextFile, NoFiling, IsFiling
  <2>4. CASE \E pc : filing' = [filing EXCEPT !.pc = pc]
    BY <2>2, <2>4 DEF IsFiling
  <2>5. CASE \E k \in Keys : OpenFile(k)
    BY <2>2, <2>5 DEF OpenFile, IsFiling
  <2>6. QED
    BY <2>1, <2>3, <2>4, <2>5
       DEF FilingStep, RefuseFile, FinishFile, AbandonFile, AddAttachment, AttachmentDenied,
           AttachmentFails, AnswerLost, DeleteFile
<1>2. CASE UNCHANGED cases
  BY <1>1, <1>2 DEF PortalInv, CasesInv, FilerInv, PageInv
<1>3. CASE WriteRow
  <2>1. PICK cs : cs = cases'
    OBVIOUS
  <2>2. AllExplained(cs) /\ Grown(cs)
    BY <1>1, <1>3, <2>1, NoteGrows DEF WriteRow, PortalInv
  <2>3. CasesInv' /\ PageInv' /\ \A n \in DOMAIN cases : n \in DOMAIN cases'
    BY <2>1, <2>2, RegisterGrows
  <2>4. QED
    BY <1>1, <2>3 DEF FilerInv
<1>4. QED
  BY <1>2, <1>3 DEF FilingStep, RefuseFile, OpenFile, FinishFile, AbandonFile, AddAttachment,
                    AttachmentDenied, AttachmentFails, AnswerLost, DeleteFile

LEMMA InvWithOpening ==
  ASSUME PortalInv, NEW u \in Users, NEW n \in DOMAIN cases, OpenPage(u, n)
  PROVE  PageInv'
<1> DEFINE p == [viewer |-> u, case |-> n, row |-> Row(n), trail |-> <<>>]
<1>1. page' = p /\ canView(Actor(u), Row(n)) /\ UNCHANGED cases
  BY DEF OpenPage, vars
<1>2. IsRow(Row(n)) /\ SameCase(cases[n], Row(n))
  BY DEF IsRow, Row, SameCase
<1>3. Explains(cases[n].history, Row(n))
  BY DEF PortalInv, CasesInv, AllExplained, Explains, Row
<1>4. IsPage(p, cases)
  BY <1>1, <1>2, <1>3 DEF IsPage
<1>5. QED
  BY <1>1, <1>4 DEF PageInv

LEMMA InvWithReading == PortalInv /\ ReadTrail => PageInv'
<1> SUFFICES ASSUME PortalInv, ReadTrail PROVE PageInv'
  OBVIOUS
<1>1. IsPage(page, cases)
  BY DEF PortalInv, PageInv, ReadTrail, NoPage
<1> DEFINE h == cases[page.case].history
           p == [viewer |-> page.viewer, case |-> page.case, row |-> page.row,
                 trail |-> Trail(Actor(page.viewer), page.row, h)]
<1>2. page' = p /\ UNCHANGED cases
  BY <1>1 DEF ReadTrail, FreshTrail, vars, IsPage
<1>3. h \in Seq(TrailEntry)
  BY <1>1 DEF IsPage, PortalInv, CasesInv, AllExplained, IsRegister, IsCase
<1>4. HasRead(p, h)
  BY <1>1, <1>3, WholePrefix DEF HasRead, IsPage
<1>5. IsPage(p, cases)
  BY <1>1, <1>4 DEF IsPage
<1>6. QED
  BY <1>2, <1>5 DEF PageInv

LEMMA NextPortal == PortalInv /\ [PortalNext]_portal => PortalInv'
<1> SUFFICES ASSUME PortalInv, [PortalNext]_portal PROVE PortalInv'
  OBVIOUS
<1>1. FilesInv'
  BY NextFiles DEF PortalInv
<1>2. SUFFICES CasesInv' /\ FilerInv' /\ PageInv'
  BY <1>1 DEF PortalInv
<1>3. CASE Crash /\ UNCHANGED page
  BY <1>3 DEF Crash, NoFiling, PortalInv, CasesInv, FilerInv, PageInv
<1>4. CASE UNCHANGED <<vars, page>>
  BY <1>4 DEF vars, PortalInv, CasesInv, FilerInv, PageInv
<1>5. CASE UNCHANGED vars /\ PageInv'
  BY <1>5 DEF vars, PortalInv, CasesInv, FilerInv
<1>6. CASE ClosePage
  BY <1>6, <1>5 DEF ClosePage, PageInv
<1>7. CASE \E u \in Users, n \in DOMAIN cases : OpenPage(u, n)
  BY <1>7, <1>5, InvWithOpening DEF OpenPage
<1>8. CASE ReadTrail
  BY <1>8, <1>5, InvWithReading DEF ReadTrail
<1>9. CASE Others /\ UNCHANGED page
  BY <1>9, InvWithOthers
<1>10. CASE FilingStep /\ UNCHANGED page
  BY <1>10, InvWithFile
<1>11. CASE /\ UNCHANGED page
            /\ \E u \in Users, track \in CategoryTracks, anonymous \in BOOLEAN,
                  files \in 0 .. MAX_ATTACHMENTS + 1 :
                 SubmitGrievance(u, track, anonymous, files)
  BY <1>11, InvWithSubmission
<1>12. QED
  BY <1>3, <1>4, <1>6, <1>7, <1>8, <1>9, <1>10, <1>11 DEF PortalNext, portal

LEMMA PortalHolds == PortalSpec => []PortalInv
BY InitPortal, NextPortal, PTL DEF PortalSpec

-----------------------------------------------------------------------------
(* Who sees what. *)

LEMMA ActorIs ==
  ASSUME NEW u \in Users
  PROVE  /\ Actor(u).id = u /\ Actor(u).role = UserRole[u] /\ Actor(u).institutionId = Institution
         /\ UserRole[u] \in Role /\ u # NULL
BY UsersAssumption DEF Actor

\* The WHERE clause of the lists is canView on a row of the same institution.
LEMMA ScopeIsView ==
  ASSUME NEW u \in Users, NEW r, r.institutionId = Institution, r.track \in Track
  PROVE  roleScopeCondition(Actor(u), r) <=> canView(Actor(u), r)
<1>1. /\ Actor(u).id = u /\ Actor(u).role = UserRole[u] /\ Actor(u).institutionId = Institution
      /\ UserRole[u] \in Role
  BY ActorIs
<1>2. CASE UserRole[u] = "student"
  BY <1>1, <1>2 DEF roleScopeCondition, canView
<1>3. CASE UserRole[u] # "student"
  <2>1. r.track \in accessibleTracks(UserRole[u]) <=> canAccessTrack(UserRole[u], r.track)
    BY DEF accessibleTracks
  <2>2. \/ UserRole[u] \in {"moderator", "institution_admin", "icc_member"}
        \/ UserRole[u] = "redressal_officer" \/ UserRole[u] = "ombudsperson"
    BY <1>1, <1>3 DEF Role
  <2>3. QED
    BY <1>1, <1>3, <2>1, <2>2 DEF roleScopeCondition, canView, RoleSees
<1>4. QED
  BY <1>2, <1>3

LEMMA RowIs ==
  ASSUME CasesInv, NEW n \in DOMAIN cases
  PROVE  /\ Rows[n] = Row(n) /\ n \in DOMAIN Rows /\ Row(n).institutionId = Institution
         /\ Row(n).submittedById = cases[n].submittedById /\ Row(n).isAnonymous = cases[n].isAnonymous
         /\ Row(n).track = cases[n].track /\ Row(n).appealOfId = cases[n].appealOfId
         /\ Row(n).status = cases[n].status /\ Row(n).assignedToId = cases[n].assignedToId
         /\ Row(n).track \in Track /\ Row(n).status \in Status
         /\ Row(n).submittedById \in Students /\ Row(n).isAnonymous \in BOOLEAN
         /\ Row(n).assignedToId \in Assignees \cup {NULL}
BY CaseKnown DEF Rows, Row, IsCase

LEMMA RowsAreCases == DOMAIN Rows = DOMAIN cases
BY DEF Rows

LEMMA ListsAre ==
  ASSUME NEW actor, NEW rows, NEW statuses
  PROVE  /\ \A n : n \in DOMAIN listGrievances(actor, rows, statuses) <=>
              n \in DOMAIN rows /\ roleScopeCondition(actor, rows[n]) /\ rows[n].status \in statuses
         /\ \A n : n \in DOMAIN listQueue(actor, rows, statuses, "anyone") <=>
              /\ n \in DOMAIN rows /\ roleScopeCondition(actor, rows[n])
              /\ rows[n].status \in (IF statuses = {} THEN {s \in Status : isOpen(s)} ELSE statuses)
         /\ \A n \in complianceSnapshot(actor, rows) :
              /\ n \in DOMAIN rows /\ actor.role \in {"institution_admin", "moderator"}
              /\ rows[n].track \in accessibleTracks(actor.role)
<1>1. \A S : DOMAIN Masked(actor, rows, S) = S
  BY DEF Masked
<1>2. QED
  BY <1>1 DEF listGrievances, listQueue, complianceSnapshot

\* Those who have the reports may see every grievance of their tracks.
LEMMA SurfacesHold == CasesInv => SurfacesAgree
<1> SUFFICES ASSUME CasesInv, NEW u \in Users
             PROVE  LET actor == Actor(u)
                        seen  == {n \in DOMAIN cases : canView(actor, Row(n))} IN
                    /\ DOMAIN listGrievances(actor, Rows, Status) = seen
                    /\ DOMAIN listQueue(actor, Rows, Status, "anyone") = seen
                    /\ complianceSnapshot(actor, Rows) \subseteq seen
                    /\ {n \in DOMAIN cases : loadAuthorizedAttachment(actor, Row(n))} = seen
  BY DEF SurfacesAgree
<1> DEFINE actor == Actor(u)
           seen == {n \in DOMAIN cases : canView(actor, Row(n))}
<1>1. \A n \in DOMAIN cases : /\ Rows[n] = Row(n) /\ Row(n).status \in Status
                              /\ roleScopeCondition(actor, Row(n)) <=> canView(actor, Row(n))
  BY RowIs, ScopeIsView
<1> HIDE DEF actor
<1>2. DOMAIN listGrievances(actor, Rows, Status) = seen
  <2>1. \A n : n \in DOMAIN listGrievances(actor, Rows, Status) <=>
                 n \in DOMAIN Rows /\ roleScopeCondition(actor, Rows[n]) /\ Rows[n].status \in Status
    BY ListsAre
  <2>2. \A n : n \in DOMAIN listGrievances(actor, Rows, Status) <=> n \in seen
    BY <1>1, <2>1, RowsAreCases
  <2>3. QED
    BY <2>2
<1>3. DOMAIN listQueue(actor, Rows, Status, "anyone") = seen
  <2>1. \A n : n \in DOMAIN listQueue(actor, Rows, Status, "anyone") <=>
                 /\ n \in DOMAIN Rows /\ roleScopeCondition(actor, Rows[n])
                 /\ Rows[n].status \in (IF Status = {} THEN {s \in Status : isOpen(s)} ELSE Status)
    BY ListsAre
  <2>2. Status # {}
    BY DEF Status
  <2>3. \A n : n \in DOMAIN listQueue(actor, Rows, Status, "anyone") <=> n \in seen
    BY <1>1, <2>1, <2>2, RowsAreCases
  <2>4. QED
    BY <2>3
<1>4. complianceSnapshot(actor, Rows) \subseteq seen
  <2> SUFFICES ASSUME NEW n \in complianceSnapshot(actor, Rows) PROVE n \in seen
    OBVIOUS
  <2>1. /\ n \in DOMAIN cases /\ UserRole[u] \in {"institution_admin", "moderator"}
        /\ Row(n).track \in accessibleTracks(UserRole[u])
    <3>1. /\ n \in DOMAIN Rows /\ actor.role \in {"institution_admin", "moderator"}
          /\ Rows[n].track \in accessibleTracks(actor.role)
      BY ListsAre
    <3>2. QED
      BY <1>1, <3>1, RowsAreCases, ActorIs DEF actor
  <2>2. canView(actor, Row(n))
    BY <2>1, ActorIs, RowIs DEF accessibleTracks, canView, RoleSees, actor
  <2>3. QED
    BY <2>1, <2>2
<1>5. {n \in DOMAIN cases : loadAuthorizedAttachment(actor, Row(n))} = seen
  BY DEF loadAuthorizedAttachment
<1>6. QED
  BY <1>2, <1>3, <1>4, <1>5 DEF actor

\* One rule decides who sees a grievance, in the lists, the queue, the report and the
\* download (_internal.ts:237-241, queries.ts:264-269, policy.ts).
THEOREM OneRule == PortalSpec => []SurfacesAgree
<1>1. PortalInv => SurfacesAgree
  BY SurfacesHold DEF PortalInv
<1>2. QED
  BY <1>1, PortalHolds, PTL

-----------------------------------------------------------------------------
(* What a page shows of a trail. *)

\* A shown entry says what the entry of the trail says, its author aside.
Shows(d, e) == d.type = e.type /\ d.to = e.to /\ d.ref = e.ref /\ d.visibility = e.visibility

Told(u, e) == isStaff(UserRole[u]) \/ IsPublic(e)

LEMMA VisibleAre ==
  ASSUME NEW u \in Users, NEW r, canView(Actor(u), r), NEW p, NEW m, IsList(p, m)
  PROVE  \E k : /\ IsList(visibleEvents(Actor(u), r, p), k)
                /\ \A i \in 1 .. k : \E j \in 1 .. m :
                     visibleEvents(Actor(u), r, p)[i] = p[j] /\ Told(u, p[j])
                /\ \A j \in 1 .. m : Told(u, p[j]) =>
                     \E i \in 1 .. k : visibleEvents(Actor(u), r, p)[i] = p[j]
<1>1. CASE isStaff(UserRole[u])
  <2>1. visibleEvents(Actor(u), r, p) = p
    BY <1>1, ActorIs DEF visibleEvents, canViewInternalRemarks
  <2>2. QED
    BY <1>1, <2>1 DEF Told
<1>2. CASE ~isStaff(UserRole[u])
  <2>1. visibleEvents(Actor(u), r, p) = PublicOnly(p)
    BY <1>2, ActorIs DEF visibleEvents, canViewInternalRemarks
  <2>2. \A j : j \in PublicPlaces(p) <=> j \in 1 .. m /\ IsPublic(p[j])
    BY DEF PublicPlaces, IsList
  <2> DEFINE k == Cardinality(PublicPlaces(p))
  <2>3. /\ IsList(PublicOnly(p), k)
        /\ \A i \in 1 .. k : \E j \in PublicPlaces(p) : PublicOnly(p)[i] = p[j]
        /\ \A j \in PublicPlaces(p) : \E i \in 1 .. k : PublicOnly(p)[i] = p[j]
    BY PublicEntries
  <2> HIDE DEF k
  <2>4. QED
    BY <1>2, <2>1, <2>2, <2>3 DEF Told
<1>3. QED
  BY <1>1, <1>2

LEMMA NamedEntry ==
  ASSUME NEW e \in TrailEntry, NEW author
  PROVE  Shows(Named(e, author), e) /\ Named(e, author).actorName = author
BY DEF TrailEntry, Shows, Named

LEMMA TrailShows ==
  ASSUME NEW u \in Users, NEW r, canView(Actor(u), r), NEW p, NEW m, IsList(p, m),
         \A i \in 1 .. m : p[i] \in TrailEntry, NEW T, T = Trail(Actor(u), r, p)
  PROVE  \E k : /\ IsList(T, k)
                /\ \A i \in 1 .. k : \E j \in 1 .. m :
                     Shows(T[i], p[j]) /\ Told(u, p[j]) /\ T[i].actorName = ActorName(Actor(u), r, p[j])
                /\ \A j \in 1 .. m : Told(u, p[j]) => \E i \in 1 .. k : Shows(T[i], p[j])
<1> DEFINE V == visibleEvents(Actor(u), r, p)
<1>1. PICK k : /\ IsList(V, k)
               /\ \A i \in 1 .. k : \E j \in 1 .. m : V[i] = p[j] /\ Told(u, p[j])
               /\ \A j \in 1 .. m : Told(u, p[j]) => \E i \in 1 .. k : V[i] = p[j]
  BY VisibleAre
<1>2. IsList(T, k) /\ \A i \in 1 .. k : T[i] = Named(V[i], ActorName(Actor(u), r, V[i]))
  BY <1>1 DEF Trail, IsList, Named
<1> HIDE DEF V
<1>3. \A i \in 1 .. k : V[i] \in TrailEntry
  BY <1>1
<1>4. \A i \in 1 .. k : Shows(T[i], V[i]) /\ T[i].actorName = ActorName(Actor(u), r, V[i])
  BY <1>2, <1>3, NamedEntry
<1>5. \A i \in 1 .. k : \E j \in 1 .. m :
        Shows(T[i], p[j]) /\ Told(u, p[j]) /\ T[i].actorName = ActorName(Actor(u), r, p[j])
  BY <1>1, <1>4
<1>6. \A j \in 1 .. m : Told(u, p[j]) => \E i \in 1 .. k : Shows(T[i], p[j])
  BY <1>1, <1>4
<1>7. QED
  BY <1>2, <1>5, <1>6

\* What is on the screen comes from the first entries of the trail.
LEMMA ScreenIs ==
  ASSUME PortalInv, Shown
  PROVE  /\ page.viewer \in Users /\ page.case \in DOMAIN cases /\ IsRow(page.row)
         /\ canView(Actor(page.viewer), page.row) /\ SameCase(cases[page.case], page.row)
         /\ IsCase(cases[page.case])
         /\ \E m \in 0 .. Len(cases[page.case].history) :
              LET p == Prefix(cases[page.case].history, m) IN
              /\ IsList(p, m) /\ \A i \in 1 .. m : p[i] \in TrailEntry
              /\ \A i \in 1 .. m : p[i] = cases[page.case].history[i]
              /\ Explains(p, page.row) /\ page.trail = Trail(Actor(page.viewer), page.row, p)
<1>1. IsPage(page, cases)
  BY DEF PortalInv, PageInv, Shown, NoPage
<1> DEFINE h == cases[page.case].history
<1>2. IsCase(cases[page.case]) /\ h \in Seq(TrailEntry)
  BY <1>1 DEF IsPage, PortalInv, CasesInv, AllExplained, IsRegister, IsCase
<1>3. PICK m \in 0 .. Len(h) : /\ Explains(Prefix(h, m), page.row)
                               /\ page.trail = Trail(Actor(page.viewer), page.row, Prefix(h, m))
  BY <1>1 DEF IsPage, HasRead, Shown
<1> HIDE DEF h
<1>4. /\ IsList(Prefix(h, m), m) /\ \A i \in 1 .. m : Prefix(h, m)[i] \in TrailEntry
      /\ \A i \in 1 .. m : Prefix(h, m)[i] = h[i]
  BY <1>2, HistoryIsList DEF Prefix, IsList
<1>5. QED
  BY <1>1, <1>2, <1>3, <1>4 DEF IsPage, h

-----------------------------------------------------------------------------
(* Confidences. *)

LEMMA StaffIsEntitled ==
  ASSUME NEW u \in Users, NEW r, canView(Actor(u), r), isStaff(UserRole[u])
  PROVE  UserRole[u] \in TRACK_ROLES[r.track]
BY ActorIs DEF canView, canAccessTrack, isStaff, STAFF_ROLES

LEMMA ViewOfRow ==
  ASSUME NEW u \in Users, NEW r, IsRow(r)
  PROVE  LET v == toActorView(Actor(u), r) IN
         /\ v.status = r.status /\ v.assignedToId = r.assignedToId
         /\ isStaff(UserRole[u]) /\ r.isAnonymous => v.submittedById = NULL
BY ActorIs DEF toActorView, IsRow

LEMMA PageKeepsConfidences ==
  ASSUME PortalInv, Shown
  PROVE  LET viewer == Actor(page.viewer) IN
         /\ isStaff(viewer.role) => viewer.role \in TRACK_ROLES[page.row.track]
         /\ isStaff(viewer.role) /\ page.row.isAnonymous =>
              /\ Screen.row.submittedById = NULL
              /\ \A i \in DOMAIN Screen.trail :
                   Screen.trail[i].actorName # cases[page.case].submittedById
         /\ viewer.role = "student" =>
              \A i \in DOMAIN Screen.trail : Screen.trail[i].visibility = "public"
<1> DEFINE u == page.viewer
           r == page.row
           T == page.trail
<1>1. /\ u \in Users /\ IsRow(r) /\ canView(Actor(u), r) /\ SameCase(cases[page.case], r)
      /\ IsCase(cases[page.case])
  BY ScreenIs
<1>2. PICK p : \E m \in Nat : /\ IsList(p, m) /\ \A i \in 1 .. m : p[i] \in TrailEntry
                              /\ T = Trail(Actor(u), r, p)
  BY ScreenIs DEF IsList
<1>3. PICK m \in Nat : /\ IsList(p, m) /\ \A i \in 1 .. m : p[i] \in TrailEntry
                       /\ T = Trail(Actor(u), r, p)
  BY <1>2
<1>4. Screen.trail = T /\ Screen.row = toActorView(Actor(u), r) /\ Actor(u).role = UserRole[u]
  BY <1>1, ActorIs DEF Screen
<1> HIDE DEF u, r, T
<1>5. PICK k : /\ IsList(T, k)
               /\ \A i \in 1 .. k : \E j \in 1 .. m :
                    Shows(T[i], p[j]) /\ Told(u, p[j]) /\ T[i].actorName = ActorName(Actor(u), r, p[j])
  BY <1>1, <1>3, TrailShows
<1>6. DOMAIN T = 1 .. k
  BY <1>5 DEF IsList
<1>7. isStaff(UserRole[u]) => UserRole[u] \in TRACK_ROLES[r.track]
  BY <1>1, StaffIsEntitled
<1>8. ASSUME isStaff(UserRole[u]), r.isAnonymous
      PROVE  /\ toActorView(Actor(u), r).submittedById = NULL
             /\ \A i \in DOMAIN T : T[i].actorName # cases[page.case].submittedById
  <2>1. toActorView(Actor(u), r).submittedById = NULL
    BY <1>1, <1>8, ViewOfRow
  <2>2. /\ r.submittedById = cases[page.case].submittedById
        /\ cases[page.case].submittedById # NULL
    BY <1>1, UsersAssumption DEF SameCase, IsCase, Students
  <2>3. \A j \in 1 .. m : ActorName(Actor(u), r, p[j]) # r.submittedById
    BY <1>4, <1>8, <2>2 DEF ActorName
  <2>4. QED
    BY <1>5, <1>6, <2>1, <2>2, <2>3
<1>9. ASSUME UserRole[u] = "student" PROVE \A i \in DOMAIN T : T[i].visibility = "public"
  <2>1. ~isStaff(UserRole[u])
    BY <1>9 DEF isStaff, STAFF_ROLES
  <2>2. QED
    BY <1>5, <1>6, <2>1 DEF Told, Shows, IsPublic
<1>10. QED
  BY <1>4, <1>7, <1>8, <1>9 DEF u, r, T

LEMMA ListsKeepConfidences ==
  ASSUME CasesInv, NEW u \in Users, isStaff(UserRole[u])
  PROVE  /\ \A n \in detectPatterns(Actor(u), Rows) \cup complianceSnapshot(Actor(u), Rows) :
              UserRole[u] \in TRACK_ROLES[cases[n].track]
         /\ LET list == listGrievances(Actor(u), Rows, Status) IN
            \A n \in DOMAIN list : cases[n].isAnonymous => list[n].submittedById = NULL
<1>1. /\ Actor(u).role = UserRole[u] /\ UserRole[u] # "student"
      /\ \A n : n \in DOMAIN Rows <=> n \in DOMAIN cases
  BY ActorIs, RowsAreCases DEF isStaff, STAFF_ROLES
<1>2. ASSUME NEW n \in detectPatterns(Actor(u), Rows) \cup complianceSnapshot(Actor(u), Rows)
      PROVE  UserRole[u] \in TRACK_ROLES[cases[n].track]
  <2>1. n \in DOMAIN cases /\ Rows[n].track \in accessibleTracks(UserRole[u])
    BY <1>1 DEF detectPatterns, complianceSnapshot
  <2>2. QED
    BY <1>1, <2>1, RowIs DEF accessibleTracks, canAccessTrack
<1>3. ASSUME NEW n \in DOMAIN listGrievances(Actor(u), Rows, Status), cases[n].isAnonymous
      PROVE  listGrievances(Actor(u), Rows, Status)[n].submittedById = NULL
  <2>1. /\ n \in DOMAIN cases
        /\ listGrievances(Actor(u), Rows, Status)[n] = toActorView(Actor(u), Rows[n])
    BY <1>1 DEF listGrievances, Masked
  <2>2. Rows[n] = Row(n) /\ IsRow(Row(n)) /\ Row(n).isAnonymous
    BY <1>3, <2>1, RowIs DEF IsRow, Row
  <2>3. QED
    BY <2>1, <2>2, ViewOfRow
<1>4. QED
  BY <1>2, <1>3

\* No surface shows staff who filed an anonymous grievance, none shows a case to a role its
\* track is closed to, and no internal note reaches the student's page (_internal.ts,
\* queries.ts, policy.ts).
THEOREM ConfidencesHold == PortalSpec => []ConfidencesKept
<1>1. PortalInv => ConfidencesKept
  BY PageKeepsConfidences, ListsKeepConfidences DEF ConfidencesKept, PortalInv
<1>2. QED
  BY <1>1, PortalHolds, PTL

-----------------------------------------------------------------------------
(* No dead end. *)

LEMMA MaskedRow ==
  ASSUME NEW u \in Users, NEW r, IsRow(r), isStaff(UserRole[u])
  PROVE  LET v == toActorView(Actor(u), r) IN
         /\ v.status = r.status
         /\ canView(Actor(u), v) <=> canView(Actor(u), r)
<1> DEFINE v == toActorView(Actor(u), r)
<1>1. /\ v.status = r.status /\ v.assignedToId = r.assignedToId /\ v.track = r.track
      /\ v.appealOfId = r.appealOfId /\ v.institutionId = r.institutionId
  BY ActorIs DEF toActorView, IsRow
<1>2. Actor(u).role = UserRole[u] /\ UserRole[u] # "student"
  BY ActorIs DEF isStaff, STAFF_ROLES
<1> HIDE DEF v
<1>3. canView(Actor(u), v) <=> canView(Actor(u), r)
  BY <1>1, <1>2 DEF canView, RoleSees
<1>4. QED
  BY <1>1, <1>3 DEF v

Moves(u, n) == CaseActions(Actor(u), toActorView(Actor(u), Row(n))) \cap Status

\* Somebody on the staff who sees a case and may make a move of the state machine is
\* offered it, and the bulk form has all that they are offered.
LEMMA MoveIsOffered ==
  ASSUME CasesInv, NEW n \in DOMAIN cases, Row(n).status \in WithStaff,
         NEW u \in Users, isStaff(UserRole[u]), canView(Actor(u), Row(n)),
         NEW to \in TRANSITIONS[Row(n).status], UserRole[u] \in TRANSITION_ROLES[to]
  PROVE  /\ requireStaffActor(Actor(u)) /\ n \in DOMAIN listQueue(Actor(u), Rows, {}, "anyone")
         /\ Moves(u, n) # {} /\ Moves(u, n) \subseteq BULK_STATUSES
<1>1. /\ Actor(u).role = UserRole[u] /\ UserRole[u] # "student" /\ UserRole[u] \in Role
      /\ requireStaffActor(Actor(u))
  BY ActorIs DEF isStaff, STAFF_ROLES, requireStaffActor
<1> DEFINE v == toActorView(Actor(u), Row(n))
<1>2. v.status = Row(n).status /\ canView(Actor(u), v)
  BY MaskedRow DEF IsRow, Row
<1>3. n \in DOMAIN listQueue(Actor(u), Rows, {}, "anyone")
  <2>1. /\ n \in DOMAIN Rows /\ Rows[n] = Row(n) /\ Row(n).status \in Status
        /\ roleScopeCondition(Actor(u), Row(n))
    BY RowIs, ScopeIsView
  <2>2. isOpen(Row(n).status)
    BY DEF isOpen, WithStaff, TERMINAL_STATUSES
  <2>3. \A m : m \in DOMAIN listQueue(Actor(u), Rows, {}, "anyone") <=>
               /\ m \in DOMAIN Rows /\ roleScopeCondition(Actor(u), Rows[m])
               /\ Rows[m].status \in (IF {} = {} THEN {st \in Status : isOpen(st)} ELSE {})
    BY <1>1 DEF listQueue, Masked
  <2>4. QED
    BY <2>1, <2>2, <2>3
<1> HIDE DEF v
<1>4. /\ CaseActions(Actor(u), v) =
           {t \in TRANSITIONS[v.status] : canSetStatus(Actor(u), v, t)}
             \cup (IF canAssign(Actor(u), v) THEN {"assign"} ELSE {}) \cup {"remark"}
      /\ "assign" \notin Status /\ "remark" \notin Status
  BY DEF CaseActions, Status
<1>5. \A t : t \in Moves(u, n) <=>
        t \in TRANSITIONS[Row(n).status] /\ canSetStatus(Actor(u), v, t) /\ t \in Status
  BY <1>2, <1>4 DEF Moves, v
<1>6. to \in Moves(u, n)
  <2>1. to \in Status
    BY DEF WithStaff, TRANSITIONS, Status
  <2>2. canSetStatus(Actor(u), v, to)
    BY <1>1, <1>2 DEF canSetStatus, canTransition
  <2>3. QED
    BY <1>5, <2>1, <2>2
<1>7. Moves(u, n) \subseteq BULK_STATUSES
  <2> SUFFICES ASSUME NEW t \in Moves(u, n) PROVE t \in BULK_STATUSES
    OBVIOUS
  <2>1. t \in TRANSITIONS[Row(n).status] /\ UserRole[u] \in TRANSITION_ROLES[t]
    BY <1>1, <1>5 DEF canSetStatus
  <2>2. QED
    BY <1>1, <2>1 DEF WithStaff, TRANSITIONS, TRANSITION_ROLES, BULK_STATUSES
<1>8. QED
  BY <1>1, <1>3, <1>6, <1>7

\* Who has a case in hand, by its track, its status and its assignee.
LEMMA SomebodyMoves ==
  ASSUME CasesInv, NEW n \in DOMAIN cases, Row(n).status \in WithStaff
  PROVE  \E u \in Users, to \in TRANSITIONS[Row(n).status] :
           /\ isStaff(UserRole[u]) /\ canView(Actor(u), Row(n)) /\ UserRole[u] \in TRANSITION_ROLES[to]
<1>1. /\ Row(n).institutionId = Institution /\ Row(n).track \in Track
      /\ Row(n).assignedToId \in Assignees \cup {NULL}
  BY RowIs
<1>2. ASSUME NEW u \in Users, UserRole[u] \in {"moderator", "institution_admin", "icc_member"},
             UserRole[u] \in TRACK_ROLES[Row(n).track]
      PROVE  isStaff(UserRole[u]) /\ canView(Actor(u), Row(n))
  BY <1>1, <1>2, ActorIs DEF isStaff, STAFF_ROLES, Role, canView, canAccessTrack, RoleSees
<1>3. \E to \in TRANSITIONS[Row(n).status] :
        "icc_member" \in TRANSITION_ROLES[to] /\ "institution_admin" \in TRANSITION_ROLES[to]
  BY DEF WithStaff, TRANSITIONS, TRANSITION_ROLES
<1>4. CASE Row(n).track = "icc"
  <2>1. PICK u \in Users : UserRole[u] = "icc_member"
    BY StaffAssumption
  <2>2. isStaff(UserRole[u]) /\ canView(Actor(u), Row(n))
    BY <1>2, <1>4, <2>1 DEF TRACK_ROLES
  <2>3. QED
    BY <1>3, <2>1, <2>2
<1>5. CASE Row(n).track # "icc" /\ \E u \in Users : UserRole[u] = "institution_admin"
  <2>1. PICK u \in Users : UserRole[u] = "institution_admin"
    BY <1>5
  <2>2. isStaff(UserRole[u]) /\ canView(Actor(u), Row(n))
    BY <1>1, <1>2, <1>5, <2>1 DEF TRACK_ROLES, Track
  <2>3. QED
    BY <1>3, <2>1, <2>2
<1>6. CASE /\ Row(n).track # "icc" /\ \E u \in Users : UserRole[u] = "moderator"
           /\ Row(n).status \in {"submitted", "under_review"}
  <2>1. PICK u \in Users : UserRole[u] = "moderator"
    BY <1>6
  <2>2. isStaff(UserRole[u]) /\ canView(Actor(u), Row(n))
    BY <1>1, <1>2, <1>6, <2>1 DEF TRACK_ROLES, Track
  <2>3. "rejected" \in TRANSITIONS[Row(n).status] /\ "moderator" \in TRANSITION_ROLES["rejected"]
    BY <1>6 DEF TRANSITIONS, TRANSITION_ROLES
  <2>4. QED
    BY <2>1, <2>2, <2>3
<1>7. CASE /\ Row(n).track # "icc" /\ \E u \in Users : UserRole[u] = "redressal_officer"
           /\ Row(n).status \in {"in_progress", "appealed"}
  <2>1. PICK u \in Users : /\ UserRole[u] \in {"redressal_officer", "ombudsperson"}
                           /\ Row(n).assignedToId = u \/
                                (Row(n).assignedToId = NULL /\ UserRole[u] = "redressal_officer")
    BY <1>1, <1>7 DEF Assignees
  <2>2. UserRole[u] \in TRACK_ROLES[Row(n).track]
    BY <1>1, <1>7, <2>1 DEF TRACK_ROLES, Track
  <2>3. isStaff(UserRole[u]) /\ canView(Actor(u), Row(n))
    BY <1>1, <2>1, <2>2, ActorIs DEF isStaff, STAFF_ROLES, Role, canView, canAccessTrack, RoleSees
  <2>4. /\ "resolved" \in TRANSITIONS[Row(n).status]
        /\ {"redressal_officer", "ombudsperson"} \subseteq TRANSITION_ROLES["resolved"]
    BY <1>7 DEF TRANSITIONS, TRANSITION_ROLES
  <2>5. QED
    BY <2>1, <2>3, <2>4
<1>8. \/ \E u \in Users : UserRole[u] = "institution_admin"
      \/ /\ \E u \in Users : UserRole[u] = "moderator"
         /\ \E u \in Users : UserRole[u] = "redressal_officer"
  BY StaffAssumption
<1>9. QED
  BY <1>4, <1>5, <1>6, <1>7, <1>8 DEF WithStaff

\* What the student's page offers, the policy accepts.
LEMMA FilerMoves ==
  ASSUME CasesInv, NEW n \in DOMAIN cases
  PROVE  LET g == Row(n)
             filer == Actor(g.submittedById) IN
         /\ g.status \notin WithStaff \cup {"withdrawn"} => StudentActions(g, TRUE) # {}
         /\ \A to \in StudentActions(g, TRUE) : requireStudentActor(filer) /\ canSetStatus(filer, g, to)
<1> DEFINE g == Row(n)
           u == g.submittedById
<1>1. /\ g.institutionId = Institution /\ g.status \in Status
      /\ u \in Users /\ UserRole[u] = "student"
  BY RowIs DEF Students
<1>2. /\ Actor(u).id = u /\ Actor(u).role = "student" /\ Actor(u).institutionId = Institution
  BY <1>1, ActorIs
<1>3. StudentActions(g, TRUE) = TRANSITIONS[g.status] \cap {"closed", "withdrawn", "appealed"}
  BY DEF StudentActions
<1> HIDE DEF g
<1>4. g.status \notin WithStaff \cup {"withdrawn"} => StudentActions(g, TRUE) # {}
  <2>1. g.status \in {"resolved", "closed", "rejected"} => "closed" \in TRANSITIONS[g.status] \/ "appealed" \in TRANSITIONS[g.status]
    BY DEF TRANSITIONS
  <2>2. g.status \notin WithStaff \cup {"withdrawn"} => g.status \in {"resolved", "closed", "rejected"}
    BY <1>1 DEF WithStaff, Status
  <2>3. QED
    BY <1>3, <2>1, <2>2
<1>5. ASSUME NEW to \in StudentActions(g, TRUE)
      PROVE  requireStudentActor(Actor(u)) /\ canSetStatus(Actor(u), g, to)
  <2>1. to \in TRANSITIONS[g.status] /\ to \in {"closed", "withdrawn", "appealed"}
    BY <1>3
  <2>2. "student" \in TRANSITION_ROLES[to]
    BY <2>1 DEF TRANSITION_ROLES
  <2>3. canView(Actor(u), g)
    BY <1>1, <1>2 DEF canView
  <2>4. QED
    BY <1>2, <2>1, <2>2, <2>3 DEF canSetStatus, canTransition, requireStudentActor
<1>6. QED
  BY <1>4, <1>5 DEF g

LEMMA NoDeadEnds == CasesInv => NoDeadEnd
<1> SUFFICES ASSUME CasesInv, NEW n \in DOMAIN cases
             PROVE  /\ Row(n).status \in WithStaff =>
                         \E u \in Users : /\ requireStaffActor(Actor(u))
                                          /\ n \in DOMAIN listQueue(Actor(u), Rows, {}, "anyone")
                                          /\ Moves(u, n) # {} /\ Moves(u, n) \subseteq BULK_STATUSES
                    /\ Row(n).status \notin WithStaff \cup {"withdrawn"} => StudentActions(Row(n), TRUE) # {}
                    /\ \A to \in StudentActions(Row(n), TRUE) :
                         /\ requireStudentActor(Actor(Row(n).submittedById))
                         /\ canSetStatus(Actor(Row(n).submittedById), Row(n), to)
  BY DEF NoDeadEnd, Moves
<1>1. QED
  BY FilerMoves, SomebodyMoves, MoveIsOffered

\* While a case is open somebody who has it in their queue is offered a move, later its
\* filer is, and the policy accepts what is offered (policy.ts, the pages of staff and
\* students), if somebody works on each track.
THEOREM NobodyIsStuck == PortalSpec => []NoDeadEnd
<1>1. PortalInv => NoDeadEnd
  BY NoDeadEnds DEF PortalInv
<1>2. QED
  BY <1>1, PortalHolds, PTL

-----------------------------------------------------------------------------
(* The story of a page. *)

LEMMA LeastNumber ==
  ASSUME NEW T, T \subseteq Nat, T # {}
  PROVE  \E x \in T : \A y \in T : x <= y
<1>1. \E x \in T : \A y \in T : ~(<<y, x>> \in OpToRel(<, Nat))
  BY NatLessThanWellFounded, WFMin
<1>2. \A x, y \in Nat : <<y, x>> \in OpToRel(<, Nat) <=> y < x
  BY DEF OpToRel
<1>3. PICK x \in T : \A y \in T : ~(y < x)
  BY <1>1, <1>2
<1>4. x \in Nat /\ \A y \in T : y \in Nat
  OBVIOUS
<1>5. QED
  BY <1>3, <1>4

LEMMA PrefixIs ==
  ASSUME NEW k \in Nat, NEW n \in Nat, k <= n, NEW a, HasLength(a, k), NEW b, HasLength(b, n),
         \A i \in 1 .. k : a[i] = b[i]
  PROVE  IsPrefix(a, b)
<1> DEFINE S == {b[i] : i \in 1 .. n}
<1>1. (\A i \in 1 .. n : b[i] \in S) /\ 1 .. k \subseteq 1 .. n
  OBVIOUS
<1> HIDE DEF S
<1>2. a \in Seq(S) /\ Len(a) = k /\ b \in Seq(S) /\ Len(b) = n
  BY <1>1, FunctionIsSequence
<1>3. SubSeq(a, 1, k) = SubSeq(b, 1, k)
  BY <1>2
<1>4. QED
  BY <1>2, <1>3 DEF IsPrefix

\* The entries of a student's page are the public ones, in their order.
LEMMA StudentTrail ==
  ASSUME NEW u \in Students, NEW r, NEW p, NEW m, IsList(p, m), \A i \in 1 .. m : p[i] \in TrailEntry,
         NEW T, T = Trail(Actor(u), r, p)
  PROVE  /\ IsList(T, Cardinality(PublicPlaces(p)))
         /\ \A i \in DOMAIN T : T[i].type = PublicOnly(p)[i].type
<1> DEFINE V == PublicOnly(p)
           k == Cardinality(PublicPlaces(p))
<1>1. visibleEvents(Actor(u), r, p) = V
  BY ActorIs DEF Students, visibleEvents, canViewInternalRemarks, isStaff, STAFF_ROLES
<1>2. IsList(V, k) /\ \A i \in 1 .. k : \E j \in PublicPlaces(p) : V[i] = p[j]
  BY PublicEntries
<1>3. \A i \in 1 .. k : V[i] \in TrailEntry
  BY <1>2 DEF PublicPlaces, IsList
<1>4. IsList(T, k) /\ \A i \in 1 .. k : T[i] = Named(V[i], ActorName(Actor(u), r, V[i]))
  BY <1>1, <1>2 DEF Trail, IsList, Named
<1> HIDE DEF V, k
<1>5. \A i \in 1 .. k : T[i].type = V[i].type
  BY <1>3, <1>4, NamedEntry DEF Shows
<1>6. DOMAIN T = 1 .. k
  BY <1>4 DEF IsList
<1>7. QED
  BY <1>4, <1>5, <1>6 DEF V, k

\* The page and the public form tell the filer the same story.
LEMMA SameStory ==
  ASSUME PortalInv, Shown, page.viewer = page.row.submittedById
  PROVE  LET public == lookupGrievanceStatus(page.viewer, Row(page.case), cases[page.case].history)[2]
         IN IsPrefix([i \in DOMAIN Screen.trail |-> Screen.trail[i].type],
                     [i \in DOMAIN public |-> public[i].type])
<1> DEFINE h == cases[page.case].history
           u == page.viewer
           T == page.trail
<1>1. PICK m \in 0 .. Len(h) :
        LET p == Prefix(h, m) IN
        /\ IsList(p, m) /\ \A i \in 1 .. m : p[i] \in TrailEntry
        /\ \A i \in 1 .. m : p[i] = h[i]
        /\ T = Trail(Actor(u), page.row, p)
  BY ScreenIs
<1> DEFINE p == Prefix(h, m)
<1>2. h \in Seq(TrailEntry) /\ page.case \in DOMAIN cases
      /\ u = cases[page.case].submittedById /\ u \in Students
  BY ScreenIs DEF IsCase, SameCase
<1>3. IsList(h, Len(h)) /\ m \in Nat /\ m <= Len(h)
  BY <1>2, HistoryIsList DEF IsList
<1>4. lookupGrievanceStatus(u, Row(page.case), h)[2] = PublicOnly(h)
  <2>1. Row(page.case).submittedById = u
    BY <1>2 DEF Row
  <2>2. QED
    BY <2>1 DEF lookupGrievanceStatus
<1> DEFINE k == Cardinality(PublicPlaces(p))
           n == Cardinality(PublicPlaces(h))
<1>5. IsList(T, k) /\ \A i \in DOMAIN T : T[i].type = PublicOnly(p)[i].type
  BY <1>1, <1>2, StudentTrail
<1>6. k <= n /\ \A i \in 1 .. k : PublicOnly(p)[i] = PublicOnly(h)[i]
  BY <1>1, <1>3, PublicBegins
<1>7. IsList(PublicOnly(h), n)
  BY <1>3, PublicEntries
<1> HIDE DEF k, n, h, p, T, u
<1> DEFINE a == [i \in DOMAIN T |-> T[i].type]
           b == [i \in DOMAIN PublicOnly(h) |-> PublicOnly(h)[i].type]
<1>8. /\ k \in Nat /\ n \in Nat /\ HasLength(a, k) /\ HasLength(b, n)
      /\ \A i \in 1 .. k : a[i] = b[i]
  <2>1. k \in Nat /\ DOMAIN T = 1 .. k /\ n \in Nat /\ DOMAIN PublicOnly(h) = 1 .. n
    BY <1>5, <1>7 DEF IsList
  <2>2. HasLength(a, k) /\ HasLength(b, n)
    BY <2>1 DEF HasLength
  <2>3. 1 .. k \subseteq 1 .. n
    BY <1>6, <2>1
  <2>4. QED
    BY <1>5, <1>6, <2>1, <2>2, <2>3
<1> HIDE DEF a, b
<1>9. IsPrefix(a, b)
  BY <1>6, <1>8, PrefixIs
<1>10. Screen.trail = T
  BY DEF Screen, T
<1>11. QED
  BY <1>4, <1>9, <1>10 DEF a, b, h, u

LEMMA PageExplains ==
  ASSUME PortalInv, Shown
  PROVE  /\ \E i \in DOMAIN Screen.trail :
              /\ Screen.trail[i].type \in {"submitted", "status_changed", "appealed"}
              /\ Screen.trail[i].to = Screen.row.status
         /\ isStaff(UserRole[page.viewer]) /\ Screen.row.assignedToId # NULL =>
              \E i \in DOMAIN Screen.trail :
                Screen.trail[i].type = "assigned" /\ Screen.trail[i].to = Screen.row.assignedToId
         /\ page.viewer = page.row.submittedById =>
              /\ \A a \in AppealShown(page.row, page.trail) : cases[a].appealOfId = page.case
              /\ page.row.status = "appealed" => AppealShown(page.row, page.trail) # {}
<1> DEFINE h == cases[page.case].history
           u == page.viewer
           T == page.trail
           row == page.row
<1>1. /\ u \in Users /\ page.case \in DOMAIN cases /\ IsRow(row) /\ canView(Actor(u), row)
      /\ h \in Seq(TrailEntry)
  BY ScreenIs DEF IsCase
<1>2. PICK m \in Nat :
        LET p == Prefix(h, m) IN
        /\ IsList(p, m) /\ \A i \in 1 .. m : p[i] \in TrailEntry
        /\ \A i \in 1 .. m : p[i] = h[i] /\ i \in DOMAIN h
        /\ Explains(p, row) /\ T = Trail(Actor(u), row, p)
  BY <1>1, ScreenIs, HistoryIsList
<1> DEFINE p == Prefix(h, m)
<1>3. IsList(p, m) /\ (\A i \in 1 .. m : p[i] = h[i]) /\ Explains(p, row)
  BY <1>2
<1>4. u \in Users /\ canView(Actor(u), row) /\ T = Trail(Actor(u), row, p)
  BY <1>1, <1>2
<1>5. \A i \in 1 .. m : p[i] \in TrailEntry
  BY <1>2
<1>6. /\ Screen.trail = T /\ Screen.row.status = row.status
      /\ Screen.row.assignedToId = row.assignedToId
  BY <1>1, ViewOfRow DEF Screen
<1>7. \A j \in 1 .. m : p[j] = h[j] /\ j \in DOMAIN h
  BY <1>2
<1>8. NamesAppeals(page.case, cases)
  BY <1>1 DEF PortalInv, CasesInv, AllExplained
<1> HIDE DEF p, T, u, row
<1>9. PICK k : /\ IsList(T, k)
               /\ \A i \in 1 .. k : \E j \in 1 .. m :
                    Shows(T[i], p[j]) /\ Told(u, p[j]) /\ T[i].actorName = ActorName(Actor(u), row, p[j])
               /\ \A j \in 1 .. m : Told(u, p[j]) => \E i \in 1 .. k : Shows(T[i], p[j])
  BY <1>3, <1>4, <1>5, TrailShows
<1>10. DOMAIN p = 1 .. m /\ k \in Nat /\ DOMAIN T = 1 .. k
  BY <1>3, <1>9 DEF IsList
<1>11. \E i \in DOMAIN T : /\ T[i].type \in {"submitted", "status_changed", "appealed"}
                           /\ T[i].to = row.status
                           /\ row.status = "appealed" => T[i].type = "appealed"
  <2>1. PICK j \in 1 .. m :
          /\ IsPublic(p[j]) /\ p[j].type \in {"submitted", "status_changed", "appealed"}
          /\ p[j].to = row.status /\ (row.status = "appealed" => p[j].type = "appealed")
    BY <1>10, <1>3 DEF Explains
  <2>2. PICK i \in 1 .. k : Shows(T[i], p[j])
    BY <1>9, <2>1 DEF Told
  <2>3. T[i].type = p[j].type /\ T[i].to = p[j].to /\ i \in DOMAIN T
    BY <1>10, <2>2 DEF Shows
  <2>4. QED
    BY <2>1, <2>3
<1>12. ASSUME isStaff(UserRole[u]), row.assignedToId # NULL
       PROVE  \E i \in DOMAIN T : T[i].type = "assigned" /\ T[i].to = row.assignedToId
  <2>1. PICK j \in 1 .. m : p[j].type = "assigned" /\ p[j].to = row.assignedToId
    BY <1>10, <1>3, <1>12 DEF Explains
  <2>2. PICK i \in 1 .. k : Shows(T[i], p[j])
    BY <1>9, <1>12 DEF Told
  <2>3. T[i].type = p[j].type /\ T[i].to = p[j].to /\ i \in DOMAIN T
    BY <1>10, <2>2 DEF Shows
  <2>4. QED
    BY <2>1, <2>3
<1>13. ASSUME NEW a \in AppealShown(row, T) PROVE cases[a].appealOfId = page.case
  <2>1. PICK i \in DOMAIN T : T[i].type = "appealed" /\ a = T[i].ref
    BY <1>13 DEF AppealShown
  <2>2. PICK j \in 1 .. m : Shows(T[i], p[j])
    BY <1>9, <1>10, <2>1
  <2>3. h[j].type = "appealed" /\ h[j].ref = a /\ j \in DOMAIN h
    BY <1>7, <2>1, <2>2 DEF Shows
  <2>4. QED
    BY <1>8, <2>3 DEF NamesAppeals
<1>14. row.status = "appealed" => AppealShown(row, T) # {}
  <2>1. HAVE row.status = "appealed"
  <2> DEFINE A == {i \in DOMAIN T : T[i].type = "appealed"}
  <2>2. A \subseteq Nat /\ A # {}
    BY <1>10, <1>11, <2>1
  <2>3. PICK i \in A : \A j \in A : i <= j
    <3> HIDE DEF A
    <3>1. QED
      BY <2>2, LeastNumber
  <2>4. \A j \in 1 .. i - 1 : T[j].type # "appealed"
    BY <1>10, <2>3
  <2>5. T[i].ref \in AppealShown(row, T)
    BY <2>1, <2>3, <2>4 DEF AppealShown
  <2>6. QED
    BY <2>5
<1>15. QED
  BY <1>6, <1>11, <1>12, <1>13, <1>14 DEF u, T, row

\* A page explains itself, though others commit between its statements: its status and
\* its assignee are ones that its trail records, the page of a case under appeal names an
\* appeal of it, and the public form goes on from where the page stopped
\* ([reference]/page.tsx, queries.ts).
THEOREM StoryHolds == PortalSpec => []TrailExplainsRow
<1>1. PortalInv => TrailExplainsRow
  <2>1. SUFFICES ASSUME PortalInv, Shown PROVE TrailExplainsRow
    BY DEF TrailExplainsRow
  <2>2. QED
    BY <2>1, PageExplains, SameStory DEF TrailExplainsRow
<1>2. QED
  BY <1>1, PortalHolds, PTL

=============================================================================
