---------------------------- MODULE LoadingProofs ----------------------------
(***************************************************************************)
(* What loading leaves behind, for any dump, any seed and any number of    *)
(* imports beside the portal.                                              *)
(*                                                                         *)
(* References do the work: those of the portal have no gaps, those of an   *)
(* import that has not ended are free and its own, and those of the seed   *)
(* are nobody else's. Rows are added with new references and never lose    *)
(* theirs, so each way of adding them is the same step of the register.    *)
(*                                                                         *)
(* Then what the reports, the queue and the patterns say of such a         *)
(* register: lists in order, dates, figures, loops, union and find.        *)
(***************************************************************************)
EXTENDS Loading, FiniteSetTheorems, FunctionTheorems, SequenceTheorems, WellFoundedInduction, TLAPS

-----------------------------------------------------------------------------
(* Lists. *)

HasLength(s, n) == n \in Nat /\ s = [i \in 1 .. n |-> s[i]]

\* A list that begins with another one.
Begins(h, j) == \A i \in DOMAIN h : i \in DOMAIN j /\ j[i] = h[i]

LEMMA ListIs ==
  ASSUME NEW n, NEW s, HasLength(s, n)
  PROVE  n \in Nat /\ Len(s) = n /\ DOMAIN s = 1 .. n /\ s \in Seq({s[i] : i \in 1 .. n})
<1> DEFINE S == {s[i] : i \in 1 .. n}
<1>1. n \in Nat /\ DOMAIN s = 1 .. n /\ s = [i \in 1 .. n |-> s[i]] /\ \A i \in 1 .. n : s[i] \in S
  BY DEF HasLength
<1> HIDE DEF S
<1>2. s \in [1 .. n -> S]
  BY <1>1
<1>3. s \in Seq(S) /\ Len(s) = n
  BY <1>1, <1>2
<1>4. QED
  BY <1>1, <1>3 DEF S

LEMMA SequenceIs ==
  ASSUME NEW S, NEW s \in Seq(S)
  PROVE  HasLength(s, Len(s))
BY DEF HasLength

Joined(u, s, m, t, n) ==
  /\ HasLength(u, m + n)
  /\ \A i \in 1 .. m : u[i] = s[i]
  /\ \A i \in 1 .. n : u[m + i] = t[i]

LEMMA ListsJoin ==
  ASSUME NEW m, NEW n, NEW s, HasLength(s, m), NEW t, HasLength(t, n), NEW u, u = s \o t
  PROVE  Joined(u, s, m, t, n)
<1> DEFINE S == {s[i] : i \in 1 .. m} \cup {t[i] : i \in 1 .. n}
<1>1. /\ m \in Nat /\ Len(s) = m /\ n \in Nat /\ Len(t) = n
      /\ s \in Seq({s[i] : i \in 1 .. m}) /\ t \in Seq({t[i] : i \in 1 .. n})
  BY ListIs
<1>2. s \in Seq(S) /\ t \in Seq(S)
  BY <1>1
<1> HIDE DEF S
<1>3. /\ u \in Seq(S) /\ Len(u) = m + n
      /\ \A i \in 1 .. m + n : u[i] = IF i <= m THEN s[i] ELSE t[i - m]
  BY <1>1, <1>2, ConcatProperties
<1>4. HasLength(u, m + n)
  BY <1>3, SequenceIs
<1>5. \A i \in 1 .. m : i \in 1 .. m + n /\ i <= m
  BY <1>1
<1>6. \A i \in 1 .. n : m + i \in 1 .. m + n /\ ~(m + i <= m) /\ (m + i) - m = i
  BY <1>1
<1>7. QED
  BY <1>3, <1>4, <1>5, <1>6 DEF Joined

LEMMA ListGrows ==
  ASSUME NEW n, NEW s, HasLength(s, n), NEW x
  PROVE  /\ HasLength(Append(s, x), n + 1) /\ Append(s, x)[n + 1] = x
         /\ \A i \in 1 .. n : Append(s, x)[i] = s[i]
<1> DEFINE S == {s[i] : i \in 1 .. n} \cup {x}
<1>1. n \in Nat /\ Len(s) = n /\ s \in Seq({s[i] : i \in 1 .. n})
  BY ListIs
<1>2. s \in Seq(S) /\ x \in S
  BY <1>1
<1> HIDE DEF S
<1>3. /\ Append(s, x) \in Seq(S) /\ Len(Append(s, x)) = n + 1
      /\ \A i \in 1 .. n : Append(s, x)[i] = s[i]
      /\ Append(s, x)[n + 1] = x
  BY <1>1, <1>2, AppendProperties
<1>4. QED
  BY <1>3, SequenceIs

LEMMA ListHasFirst ==
  ASSUME NEW n, NEW s, HasLength(s, n), s # <<>>
  PROVE  1 \in 1 .. n /\ 1 \in DOMAIN s
<1>1. n \in Nat /\ DOMAIN s = 1 .. n /\ s = [i \in 1 .. n |-> s[i]]
  BY DEF HasLength
<1>2. n # 0
  <2> SUFFICES ASSUME n = 0 PROVE s = <<>>
    OBVIOUS
  <2>1. 1 .. n = {} /\ <<>> = [i \in {} |-> s[i]]
    OBVIOUS
  <2>2. QED
    BY <1>1, <2>1
<1>3. QED
  BY <1>1, <1>2

LEMMA PrefixIs ==
  ASSUME NEW k, NEW n, NEW a, HasLength(a, k), NEW b, HasLength(b, n), Begins(a, b)
  PROVE  IsPrefix(a, b) /\ k <= n
<1>1. /\ k \in Nat /\ Len(a) = k /\ DOMAIN a = 1 .. k /\ a \in Seq({a[i] : i \in 1 .. k})
      /\ n \in Nat /\ Len(b) = n /\ DOMAIN b = 1 .. n /\ b \in Seq({b[i] : i \in 1 .. n})
  BY ListIs
<1>2. k <= n /\ \A i \in 1 .. k : a[i] = b[i]
  <2>1. \A i \in 1 .. k : i \in 1 .. n /\ b[i] = a[i]
    BY <1>1 DEF Begins
  <2>2. k = 0 \/ k \in 1 .. k
    BY <1>1
  <2>3. QED
    BY <1>1, <2>1, <2>2
<1> DEFINE S == {b[i] : i \in 1 .. n}
<1>3. b \in Seq(S)
  BY <1>1
<1>4. \A i \in 1 .. k : a[i] \in S
  BY <1>1, <1>2
<1> HIDE DEF S
<1>5. a \in Seq(S)
  <2>1. a \in [1 .. k -> S]
    BY <1>4 DEF HasLength
  <2>2. QED
    BY <1>1, <2>1
<1>6. SubSeq(a, 1, k) = SubSeq(b, 1, k)
  BY <1>1, <1>2, <1>3, <1>5
<1>7. QED
  BY <1>1, <1>2, <1>6 DEF IsPrefix

-----------------------------------------------------------------------------
(* The register. *)

Columns == {"ref", "submittedById", "categoryId", "kind", "track", "status", "createdAt", "dueAt",
            "resolvedAt", "closedAt", "words", "trail"}

IsGrievance(g) ==
  /\ g = [column \in Columns |-> g[column]]
  /\ g.ref = <<g.ref[1], g.ref[2], g.ref[3]>>
  /\ HasLength(g.trail, Len(g.trail))

IsRegister(rs) == HasLength(rs, Len(rs)) /\ \A n \in DOMAIN rs : IsGrievance(rs[n])

RefsOf(rs) == {rs[n].ref : n \in DOMAIN rs}

HasUniqueRefs(rs) == \A m, n \in DOMAIN rs : rs[m].ref = rs[n].ref => m = n

\* Rows that can be added together.
CanJoin(rs, new, count) ==
  /\ HasLength(new, count)
  /\ \A k \in 1 .. count : IsGrievance(new[k]) /\ new[k].ref \notin RefsOf(rs)
  /\ \A k, l \in 1 .. count : new[k].ref = new[l].ref => k = l

RowsJoined(r, rs, new, count) ==
  /\ IsRegister(r) /\ HasUniqueRefs(r) /\ Len(rs) \in Nat /\ count \in Nat
  /\ DOMAIN rs = 1 .. Len(rs) /\ DOMAIN r = 1 .. (Len(rs) + count)
  /\ RefsOf(r) = RefsOf(rs) \cup {new[k].ref : k \in 1 .. count}
  /\ \A n \in DOMAIN rs : n \in DOMAIN r /\ r[n] = rs[n]
  /\ \A k \in 1 .. count : Len(rs) + k \in DOMAIN r /\ r[Len(rs) + k] = new[k]
  /\ \A n \in DOMAIN r \ DOMAIN rs : \E k \in 1 .. count : n = Len(rs) + k

LEMMA RowsJoin ==
  ASSUME NEW rs, IsRegister(rs), HasUniqueRefs(rs), NEW new, NEW count, CanJoin(rs, new, count),
         NEW r, r = rs \o new
  PROVE  RowsJoined(r, rs, new, count)
<1> DEFINE m == Len(rs)
<1>1. /\ HasLength(rs, m) /\ HasLength(new, count)
      /\ m \in Nat /\ count \in Nat /\ DOMAIN rs = 1 .. m
  BY ListIs DEF IsRegister, CanJoin
<1> HIDE DEF m
<1>2. /\ HasLength(r, m + count)
      /\ \A i \in 1 .. m : r[i] = rs[i]
      /\ \A i \in 1 .. count : r[m + i] = new[i]
  <2>1. HasLength(rs, m) /\ HasLength(new, count)
    BY <1>1
  <2>2. Joined(r, rs, m, new, count)
    BY <2>1, ListsJoin
  <2>3. QED
    BY <2>2 DEF Joined
<1>3. Len(r) = m + count /\ DOMAIN r = 1 .. (m + count)
  BY <1>2, ListIs
<1>4. /\ \A n \in 1 .. m : n \in 1 .. (m + count)
      /\ \A k \in 1 .. count : m + k \in 1 .. (m + count) /\ m + k \notin 1 .. m
      /\ \A n \in 1 .. (m + count) : n \notin 1 .. m => n - m \in 1 .. count /\ n = m + (n - m)
  BY <1>1
<1>5. \A n \in DOMAIN r : n \in DOMAIN rs \/ \E k \in 1 .. count : n = m + k
  BY <1>1, <1>3, <1>4
<1>6. IsRegister(r)
  <2>1. \A n \in DOMAIN r : IsGrievance(r[n])
    BY <1>1, <1>2, <1>5 DEF IsRegister, CanJoin
  <2>2. QED
    BY <1>2, <1>3, <2>1 DEF IsRegister
<1>7. RefsOf(r) = RefsOf(rs) \cup {new[k].ref : k \in 1 .. count}
  <2>1. ASSUME NEW n \in DOMAIN r
        PROVE  r[n].ref \in RefsOf(rs) \cup {new[k].ref : k \in 1 .. count}
    <3>1. CASE n \in DOMAIN rs
      BY <1>1, <1>2, <3>1 DEF RefsOf
    <3>2. CASE n \notin DOMAIN rs
      BY <1>2, <1>5, <3>2
    <3>3. QED
      BY <3>1, <3>2
  <2>2. \A n \in DOMAIN rs : n \in DOMAIN r /\ r[n].ref = rs[n].ref
    BY <1>1, <1>2, <1>3, <1>4
  <2>3. \A k \in 1 .. count : m + k \in DOMAIN r /\ r[m + k].ref = new[k].ref
    BY <1>2, <1>3, <1>4
  <2>4. ASSUME NEW n \in DOMAIN rs PROVE rs[n].ref \in RefsOf(r)
    BY <2>2 DEF RefsOf
  <2>5. ASSUME NEW k \in 1 .. count PROVE new[k].ref \in RefsOf(r)
    BY <2>3 DEF RefsOf
  <2>6. ASSUME NEW x \in RefsOf(r) PROVE x \in RefsOf(rs) \cup {new[k].ref : k \in 1 .. count}
    <3>1. PICK n \in DOMAIN r : x = r[n].ref
      BY DEF RefsOf
    <3>2. QED
      BY <2>1, <3>1
  <2>7. ASSUME NEW x \in RefsOf(rs) PROVE x \in RefsOf(r)
    <3>1. PICK n \in DOMAIN rs : x = rs[n].ref
      BY DEF RefsOf
    <3>2. QED
      BY <2>4, <3>1
  <2>8. QED
    BY <2>5, <2>6, <2>7
<1>8. HasUniqueRefs(r)
  <2> SUFFICES ASSUME NEW a \in DOMAIN r, NEW b \in DOMAIN r, r[a].ref = r[b].ref PROVE a = b
    BY DEF HasUniqueRefs
  <2>1. CASE a \in DOMAIN rs /\ b \in DOMAIN rs
    BY <1>1, <1>2, <2>1 DEF HasUniqueRefs
  <2>2. \A n \in DOMAIN rs, k \in 1 .. count : r[n].ref # r[m + k].ref
    <3>1. \A n \in DOMAIN rs : r[n].ref = rs[n].ref /\ rs[n].ref \in RefsOf(rs)
      BY <1>1, <1>2 DEF RefsOf
    <3>2. \A k \in 1 .. count : r[m + k].ref \notin RefsOf(rs)
      BY <1>2 DEF CanJoin
    <3>3. QED
      BY <3>1, <3>2
  <2>3. \A k, l \in 1 .. count : r[m + k].ref = r[m + l].ref => k = l
    BY <1>2 DEF CanJoin
  <2>4. QED
    BY <1>5, <2>1, <2>2, <2>3
<1>9. QED
  BY <1>1, <1>2, <1>3, <1>4, <1>5, <1>6, <1>7, <1>8 DEF RowsJoined, m

\* A row that is written anew, under its reference.
RowReplaced(r, rs, n, g) ==
  /\ IsRegister(r) /\ HasUniqueRefs(r) /\ DOMAIN r = DOMAIN rs /\ RefsOf(r) = RefsOf(rs)
  /\ r[n] = g /\ \A m \in DOMAIN rs \ {n} : r[m] = rs[m]

LEMMA RowChanged ==
  ASSUME NEW rs, IsRegister(rs), HasUniqueRefs(rs), NEW n \in DOMAIN rs, NEW g, IsGrievance(g),
         g.ref = rs[n].ref, NEW r, r = [rs EXCEPT ![n] = g]
  PROVE  RowReplaced(r, rs, n, g)
<1> DEFINE l == Len(rs)
<1>1. HasLength(rs, l) /\ l \in Nat /\ DOMAIN rs = 1 .. l
  BY ListIs DEF IsRegister
<1> HIDE DEF l
<1>2. /\ DOMAIN r = DOMAIN rs /\ r[n] = g /\ \A m \in DOMAIN rs \ {n} : r[m] = rs[m]
      /\ HasLength(r, l)
  BY <1>1 DEF HasLength
<1>3. Len(r) = l
  BY <1>2, ListIs
<1>4. \A m \in DOMAIN rs : r[m].ref = rs[m].ref
  BY <1>2
<1>5. IsRegister(r)
  BY <1>2, <1>3 DEF IsRegister
<1>6. HasUniqueRefs(r) /\ RefsOf(r) = RefsOf(rs)
  BY <1>2, <1>4 DEF HasUniqueRefs, RefsOf
<1>7. QED
  BY <1>2, <1>5, <1>6 DEF RowReplaced

-----------------------------------------------------------------------------
(* Numbers. *)

LEMMA LeastNumber ==
  ASSUME NEW T, T \subseteq Nat, T # {}
  PROVE  \E x \in T : \A y \in T : x <= y
<1>1. \E x \in T : \A y \in T : ~(<<y, x>> \in OpToRel(<, Nat))
  BY NatLessThanWellFounded, WFMin
<1>2. \A x, y \in Nat : <<y, x>> \in OpToRel(<, Nat) <=> y < x
  BY DEF OpToRel
<1>3. PICK x \in T : \A y \in T : ~(y < x)
  BY <1>1, <1>2
<1>4. x \in Nat /\ \A y \in T : y \in Nat
  OBVIOUS
<1>5. QED
  BY <1>3, <1>4

\* Finitely many numbers from 1 on without a gap are counted by the last of them.
LEMMA NoGaps ==
  ASSUME NEW N, N \subseteq Nat \ {0}, IsFiniteSet(N), \A n \in N : \A i \in 1 .. n : i \in N
  PROVE  Cardinality(N) \in Nat /\ N = 1 .. Cardinality(N)
<1> DEFINE c   == Cardinality(N)
           Out == {i \in Nat \ {0} : i \notin N}
<1>1. c \in Nat
  BY FS_CardinalityType
<1> HIDE DEF c
<1>2. Out # {}
  <2> SUFFICES ASSUME \A i \in Nat \ {0} : i \in N PROVE FALSE
    OBVIOUS
  <2>1. 1 .. (c + 1) \in SUBSET N
    BY <1>1
  <2>2. Cardinality(1 .. (c + 1)) = c + 1
    BY <1>1, FS_Interval
  <2>3. Cardinality(1 .. (c + 1)) <= Cardinality(N)
    BY <2>1, FS_Subset
  <2>4. QED
    BY <1>1, <2>2, <2>3 DEF c
<1>3. PICK m \in Out : \A i \in Out : m <= i
  BY <1>2, LeastNumber
<1>4. N = 1 .. (m - 1)
  <2>1. \A i \in N : i \in 1 .. (m - 1)
    BY <1>3
  <2>2. \A i \in 1 .. (m - 1) : i \in N
    BY <1>3
  <2>3. QED
    BY <2>1, <2>2
<1>5. Cardinality(1 .. (m - 1)) = m - 1
  BY <1>3, FS_Interval
<1>6. QED
  BY <1>3, <1>4, <1>5

AreReferences(R) == IsFiniteSet(R) /\ \A r \in R : r = <<r[1], r[2], r[3]>>

NumbersAreDense(R) ==
  \A r \in R : r[1] = "APP" =>
    r[3] \in Nat \ {0} /\ \A k \in 1 .. r[3] : <<"APP", r[2], k>> \in R

OfYear(R, y) == {r \in R : r[1] = "APP" /\ r[2] = y}

\* One more than there are of a year is the first number that is free, and leaves no gap.
LEMMA NextIsFree ==
  ASSUME NEW R, AreReferences(R), NumbersAreDense(R), NEW y,
         NEW c, c = Cardinality(OfYear(R, y)) + 1
  PROVE  /\ c \in Nat \ {0} /\ <<"APP", y, c>> \notin R
         /\ \A k \in 1 .. c : k # c => <<"APP", y, k>> \in R
<1> DEFINE D == OfYear(R, y)
           N == {r[3] : r \in D}
           f == [r \in D |-> r[3]]
<1>1. IsFiniteSet(D)
  BY FS_Subset DEF OfYear, AreReferences
<1>2. \A r \in D : r \in R /\ r = <<"APP", y, r[3]>> /\ r[1] = "APP" /\ r[2] = y
  BY DEF OfYear, AreReferences
<1>3. \A k : <<"APP", y, k>> \in R => <<"APP", y, k>> \in D /\ k \in N
  <2> SUFFICES ASSUME NEW k, <<"APP", y, k>> \in R PROVE <<"APP", y, k>> \in D /\ k \in N
    OBVIOUS
  <2>1. <<"APP", y, k>> \in D /\ <<"APP", y, k>>[3] = k
    BY DEF OfYear
  <2>2. QED
    BY <2>1
<1> HIDE DEF D
<1>4. f \in Bijection(D, N)
  <2>1. \A r \in D : f[r] \in N /\ f[r] = r[3]
    OBVIOUS
  <2>2. \A r, s \in D : f[r] = f[s] => r = s
    BY <1>2, <2>1
  <2>3. \A n \in N : \E r \in D : f[r] = n
    OBVIOUS
  <2>4. f \in [D -> N]
    OBVIOUS
  <2>5. QED
    BY <2>2, <2>3, <2>4 DEF Bijection, Injection, Surjection, IsInjective
<1>5. IsFiniteSet(N) /\ Cardinality(N) = Cardinality(D)
  BY <1>1, <1>4, FS_Bijection DEF ExistsBijection
<1>6. /\ N \subseteq Nat \ {0}
      /\ \A n \in N : \A i \in 1 .. n : i \in N
  <2> SUFFICES ASSUME NEW r \in D
               PROVE  r[3] \in Nat \ {0} /\ \A i \in 1 .. r[3] : i \in N
    OBVIOUS
  <2>1. r[3] \in Nat \ {0} /\ \A i \in 1 .. r[3] : <<"APP", y, i>> \in R
    BY <1>2 DEF NumbersAreDense
  <2>2. QED
    BY <1>3, <2>1
<1>7. \A n \in N : <<"APP", y, n>> \in R
  BY <1>2
<1> HIDE DEF N
<1>8. Cardinality(N) \in Nat /\ N = 1 .. Cardinality(N)
  BY <1>5, <1>6, NoGaps
<1>9. c \in Nat \ {0} /\ N = 1 .. (c - 1)
  BY <1>5, <1>8 DEF D
<1>10. \A k \in 1 .. c : k # c => k \in 1 .. (c - 1)
  BY <1>9
<1>11. c \notin 1 .. (c - 1)
  BY <1>9
<1>12. QED
  BY <1>3, <1>7, <1>9, <1>10, <1>11

LEMMA DenseGrows ==
  ASSUME NEW R, NumbersAreDense(R), NEW y, NEW c, c \in Nat \ {0},
         \A k \in 1 .. c : k # c => <<"APP", y, k>> \in R,
         NEW ref, ref = <<"APP", y, c>>, NEW S, S = R \cup {ref}
  PROVE  NumbersAreDense(S)
<1>1. \A r \in R : r[1] = "APP" =>
        r[3] \in Nat \ {0} /\ \A k \in 1 .. r[3] : <<"APP", r[2], k>> \in S
  BY DEF NumbersAreDense
<1>2. ref[2] = y /\ ref[3] = c
  OBVIOUS
<1>3. \A k \in 1 .. c : <<"APP", y, k>> \in S
  OBVIOUS
<1>4. QED
  BY <1>1, <1>2, <1>3 DEF NumbersAreDense

\* References of others leave the numbers of the portal as they are.
LEMMA DenseStays ==
  ASSUME NEW R, NumbersAreDense(R), NEW T, \A r \in T : r[1] # "APP", NEW S, S = R \cup T
  PROVE  NumbersAreDense(S)
BY DEF NumbersAreDense

-----------------------------------------------------------------------------
(* Rows. *)

\* What becomes of a row: it keeps what it is known by, and its trail only grows.
Grown(g, h) ==
  /\ h.ref = g.ref /\ h.submittedById = g.submittedById /\ h.categoryId = g.categoryId
  /\ Begins(g.trail, h.trail)

LEMMA StatusGrows ==
  ASSUME NEW g, IsGrievance(g), NEW to, NEW type, NEW h, h = WithStatus(g, to, type)
  PROVE  IsGrievance(h) /\ Grown(g, h)
<1> DEFINE trail == Append(g.trail, type)
<1>1. /\ HasLength(trail, Len(g.trail) + 1) /\ DOMAIN g.trail = 1 .. Len(g.trail)
      /\ Len(g.trail) \in Nat /\ \A n \in 1 .. Len(g.trail) : trail[n] = g.trail[n]
  BY ListGrows, ListIs DEF IsGrievance
<1> HIDE DEF trail
<1>2. HasLength(trail, Len(trail)) /\ DOMAIN trail = 1 .. (Len(g.trail) + 1)
  BY <1>1, ListIs
<1>3. Begins(g.trail, trail)
  BY <1>1, <1>2 DEF Begins
<1>4. /\ h = [column \in Columns |-> h[column]] /\ h.ref = g.ref
      /\ h.submittedById = g.submittedById /\ h.categoryId = g.categoryId
      /\ h.trail = Append(g.trail, type)
  BY DEF WithStatus, IsGrievance, Columns
<1>5. QED
  BY <1>2, <1>3, <1>4 DEF IsGrievance, Grown, trail

LEMMA NewRowIs ==
  ASSUME NEW by, NEW kind, NEW category, NEW track, NEW days, NEW words,
         NEW g, g = NewRow(by, kind, category, track, days, words)
  PROVE  IsGrievance(g) /\ g.ref = NextReference
<1>1. HasLength(<<"submitted">>, 1) /\ Len(<<"submitted">>) = 1
  BY DEF HasLength
<1>2. NextReference = <<NextReference[1], NextReference[2], NextReference[3]>>
  BY DEF NextReference
<1>3. /\ g = [column \in Columns |-> g[column]] /\ g.ref = NextReference /\ g.trail = <<"submitted">>
  BY DEF NewRow, Columns
<1>4. QED
  BY <1>1, <1>2, <1>3 DEF IsGrievance

LEMMA BeginsOnward ==
  ASSUME NEW a, NEW b, Begins(a, b), NEW c, Begins(b, c)
  PROVE  Begins(a, c)
BY DEF Begins

-----------------------------------------------------------------------------
(* The invariant. *)

\* No number of the portal is given twice, and none is skipped.
Register(rs) == IsRegister(rs) /\ HasUniqueRefs(rs) /\ NumbersAreDense(RefsOf(rs))

\* by is an account of the student who wrote c.
FilerKnown(by, c, accts) ==
  by # NULL =>
    by \in accts /\ \E i \in DOMAIN LegacyUsers : LegacyUsers[i].id = c.user /\ LegacyUsers[i].email = by

\* id is what an import found for c among the categories that it has added.
CategoryKnown(id, c, cats) ==
  id # NULL => \E b \in 1 .. MaxImports : id = CategoryFor(b, c) /\ NewCategories(b) \subseteq cats

CaseKnown(g, accts, cats) ==
  /\ g.ref[3] \in DOMAIN LegacyComplaints
  /\ FilerKnown(g.submittedById, LegacyComplaints[g.ref[3]], accts)
  /\ CategoryKnown(g.categoryId, LegacyComplaints[g.ref[3]], cats)
  /\ Begins(LegacyTrail(g.ref[3]), g.trail)

\* An imported case is as the dump has it, and the others of its year are there too.
CasesKnown(rs, accts, cats) ==
  \A n \in DOMAIN rs : rs[n].ref[1] = "LEGACY" =>
    /\ CaseKnown(rs[n], accts, cats)
    /\ \A k \in DOMAIN LegacyComplaints : <<"LEGACY", rs[n].ref[2], k>> \in RefsOf(rs)

\* A category is a leaf of the seed, with its window, or of an import.
CategoriesKnown(cats) ==
  \A d \in cats : \/ \E i \in DOMAIN SeedLeaves : d.id = SeedLeaves[i].id /\ d.sla = SeedLeaves[i].sla
                  \/ \E b \in 1 .. MaxImports : d \in NewCategories(b)

RunColumns == {"at", "batch", "accounts", "userIdMap", "categories", "rows"}

MapKnown(run) ==
  \A k \in DOMAIN LegacyComplaints :
    LET c == LegacyComplaints[k] IN
    UserKey(c.user) \in DOMAIN run.userIdMap =>
      FilerKnown(run.userIdMap[UserKey(c.user)], c, run.accounts)

\* The run has a row for each complaint, all of one year.
HoldsDump(run) ==
  /\ HasLength(run.rows, Len(LegacyComplaints))
  /\ \A k \in DOMAIN LegacyComplaints :
       /\ IsGrievance(run.rows[k]) /\ run.rows[k].ref = <<"LEGACY", run.rows[1].ref[2], k>>
       /\ FilerKnown(run.rows[k].submittedById, LegacyComplaints[k], run.accounts)
       /\ run.rows[k].categoryId = CategoryFor(run.batch, LegacyComplaints[k])

HoldsTrails(run) == \A k \in DOMAIN LegacyComplaints : run.rows[k].trail = LegacyTrail(k)

\* What a transaction has done when it has come so far.
IsRun(run) ==
  /\ run = [column \in RunColumns |-> run[column]] /\ run.batch \in 1 .. MaxImports
  /\ run.at # "users" => MapKnown(run)
  /\ run.at \in {"complaints", "trails", "commit"} => run.categories = NewCategories(run.batch)
  /\ run.at \in {"trails", "commit"} => HoldsDump(run)
  /\ run.at \notin {"trails", "commit"} => run.rows = <<>>
  /\ run.at = "commit" => HoldsTrails(run)

\* Its references are nobody else's.
IsFree(run, R) == \A k \in DOMAIN run.rows : run.rows[k].ref \notin R

AreApart(run, other) ==
  run.rows # <<>> /\ other.rows # <<>> => run.rows[1].ref[2] # other.rows[1].ref[2]

SeedSet(rs) == {n \in DOMAIN rs : rs[n].ref[1] = SeedPrefix}

SeedTotal == Len(Plan) + BurstSize + (IF IccLeaves = <<>> THEN 0 ELSE 2)

RegisterInv == Register(rows)
CasesInv    == CasesKnown(rows, accounts, categories)
CatsInv     == CategoriesKnown(categories)

RunsInv ==
  /\ imports \in Nat /\ importing = [i \in Importers |-> importing[i]]
  /\ \A i \in Importers : importing[i] # NULL =>
       IsRun(importing[i]) /\ IsFree(importing[i], RefsOf(rows))
  /\ \A i, j \in Importers : i # j /\ importing[i] # NULL /\ importing[j] # NULL =>
       AreApart(importing[i], importing[j])

\* The seed fills an institution that is new, and once.
SeedInv ==
  /\ ~institution => ~seeding
  /\ ~institution \/ seeding => SeedSet(rows) = {}
  /\ SeedSet(rows) # {} => Cardinality(SeedSet(rows)) = SeedTotal

LoadedInv == RegisterInv /\ CasesInv /\ CatsInv /\ RunsInv /\ SeedInv

-----------------------------------------------------------------------------
(* Ways to add and to change rows. *)

LEMMA RegisterIs ==
  ASSUME NEW rs, Register(rs)
  PROVE  /\ IsRegister(rs) /\ HasUniqueRefs(rs) /\ Len(rs) \in Nat /\ DOMAIN rs = 1 .. Len(rs)
         /\ AreReferences(RefsOf(rs))
<1>1. IsRegister(rs) /\ HasUniqueRefs(rs) /\ Len(rs) \in Nat /\ DOMAIN rs = 1 .. Len(rs)
  BY ListIs DEF Register, IsRegister
<1>2. IsFiniteSet(RefsOf(rs))
  <2> DEFINE f == [n \in DOMAIN rs |-> rs[n].ref]
  <2>1. IsFiniteSet(DOMAIN rs)
    BY <1>1, FS_Interval
  <2>2. f \in Surjection(DOMAIN rs, RefsOf(rs))
    BY DEF Surjection, RefsOf
  <2>3. QED
    BY <2>1, <2>2, FS_Surjection
<1>3. \A r \in RefsOf(rs) : r = <<r[1], r[2], r[3]>>
  <2> SUFFICES ASSUME NEW n \in DOMAIN rs
               PROVE  rs[n].ref = <<rs[n].ref[1], rs[n].ref[2], rs[n].ref[3]>>
    BY DEF RefsOf
  <2>1. QED
    BY <1>1 DEF IsRegister, IsGrievance
<1>4. QED
  BY <1>1, <1>2, <1>3 DEF AreReferences

NoneIs(new, count, prefix) == \A k \in 1 .. count : new[k].ref[1] # prefix

LEMMA RegisterJoins ==
  ASSUME NEW rs, Register(rs), NEW new, NEW count, CanJoin(rs, new, count),
         NoneIs(new, count, "APP"), NEW r, r = rs \o new
  PROVE  Register(r)
<1> DEFINE T == {new[k].ref : k \in 1 .. count}
<1>1. RowsJoined(r, rs, new, count)
  BY RowsJoin DEF Register
<1>2. \A t \in T : t[1] # "APP"
  BY DEF NoneIs
<1> HIDE DEF T
<1>3. IsRegister(r) /\ HasUniqueRefs(r) /\ RefsOf(r) = RefsOf(rs) \cup T
  BY <1>1 DEF RowsJoined, T
<1>4. NumbersAreDense(RefsOf(r))
  BY <1>2, <1>3, DenseStays DEF Register
<1>5. QED
  BY <1>3, <1>4 DEF Register

\* One row more is a list of one joined.
LEMMA AppendIsJoin ==
  ASSUME NEW rs, IsRegister(rs), NEW g, IsGrievance(g), g.ref \notin RefsOf(rs)
  PROVE  CanJoin(rs, <<g>>, 1) /\ Append(rs, g) = rs \o <<g>>
<1> DEFINE S == {rs[i] : i \in 1 .. Len(rs)} \cup {g}
<1>1. rs \in Seq({rs[i] : i \in 1 .. Len(rs)})
  BY ListIs DEF IsRegister
<1>2. rs \in Seq(S) /\ g \in S
  BY <1>1
<1> HIDE DEF S
<1>3. Append(rs, g) = rs \o <<g>>
  BY <1>2, AppendIsConcat
<1>4. HasLength(<<g>>, 1)
  BY DEF HasLength
<1>5. QED
  BY <1>3, <1>4 DEF CanJoin

LEMMA RegisterGains ==
  ASSUME NEW rs, Register(rs), NEW y, NEW g, IsGrievance(g),
         g.ref = <<"APP", y, Cardinality(OfYear(RefsOf(rs), y)) + 1>>, NEW r, r = Append(rs, g)
  PROVE  Register(r) /\ CanJoin(rs, <<g>>, 1) /\ r = rs \o <<g>>
<1> DEFINE c == Cardinality(OfYear(RefsOf(rs), y)) + 1
<1>1. IsRegister(rs) /\ HasUniqueRefs(rs) /\ AreReferences(RefsOf(rs))
  BY RegisterIs
<1>2. NumbersAreDense(RefsOf(rs))
  BY DEF Register
<1>3. /\ c \in Nat \ {0} /\ <<"APP", y, c>> \notin RefsOf(rs)
      /\ \A k \in 1 .. c : k # c => <<"APP", y, k>> \in RefsOf(rs)
  BY <1>1, <1>2, NextIsFree
<1> HIDE DEF c
<1>4. g.ref = <<"APP", y, c>>
  BY DEF c
<1>5. CanJoin(rs, <<g>>, 1) /\ r = rs \o <<g>>
  BY <1>1, <1>3, <1>4, AppendIsJoin
<1>6. RowsJoined(r, rs, <<g>>, 1)
  BY <1>1, <1>5, RowsJoin
<1>7. IsRegister(r) /\ HasUniqueRefs(r) /\ RefsOf(r) = RefsOf(rs) \cup {g.ref}
  <2>1. {<<g>>[k].ref : k \in 1 .. 1} = {g.ref}
    <3>1. \A k \in 1 .. 1 : <<g>>[k].ref = g.ref
      OBVIOUS
    <3>2. 1 \in 1 .. 1
      OBVIOUS
    <3>3. QED
      BY <3>1, <3>2
  <2>2. QED
    BY <1>6, <2>1 DEF RowsJoined
<1>8. NumbersAreDense(RefsOf(r))
  BY <1>2, <1>3, <1>4, <1>7, DenseGrows
<1>9. QED
  BY <1>5, <1>7, <1>8 DEF Register

LEMMA KnownStays ==
  ASSUME NEW accts, NEW cats, NEW a, accts \subseteq a, NEW c, cats \subseteq c,
         NEW g, CaseKnown(g, accts, cats),
         NEW h, h.ref = g.ref, h.submittedById = g.submittedById, h.categoryId = g.categoryId,
         Begins(g.trail, h.trail)
  PROVE  CaseKnown(h, a, c)
<1>1. FilerKnown(h.submittedById, LegacyComplaints[h.ref[3]], a)
  BY DEF CaseKnown, FilerKnown
<1>2. CategoryKnown(h.categoryId, LegacyComplaints[h.ref[3]], c)
  BY DEF CaseKnown, CategoryKnown
<1>3. Begins(LegacyTrail(h.ref[3]), h.trail)
  BY BeginsOnward DEF CaseKnown
<1>4. QED
  BY <1>1, <1>2, <1>3 DEF CaseKnown

\* The cases of the dump when rows are added, of it or of others.
NewAreKnown(new, count, r, accts, cats) ==
  \A k \in 1 .. count : new[k].ref[1] = "LEGACY" =>
    /\ CaseKnown(new[k], accts, cats)
    /\ \A j \in DOMAIN LegacyComplaints : <<"LEGACY", new[k].ref[2], j>> \in RefsOf(r)

LEMMA CasesJoin ==
  ASSUME NEW rs, Register(rs), NEW new, NEW count, CanJoin(rs, new, count), NEW r, r = rs \o new,
         NEW accts, NEW cats, CasesKnown(rs, accts, cats),
         NEW a, accts \subseteq a, NEW c, cats \subseteq c, NewAreKnown(new, count, r, a, c)
  PROVE  CasesKnown(r, a, c)
<1>1. IsRegister(rs) /\ HasUniqueRefs(rs)
  BY RegisterIs
<1>2. /\ RefsOf(r) = RefsOf(rs) \cup {new[k].ref : k \in 1 .. count}
      /\ \A n \in DOMAIN rs : r[n] = rs[n]
      /\ \A k \in 1 .. count : r[Len(rs) + k] = new[k]
      /\ \A n \in DOMAIN r \ DOMAIN rs : \E k \in 1 .. count : n = Len(rs) + k
  <2>1. RowsJoined(r, rs, new, count)
    BY <1>1, RowsJoin
  <2>2. QED
    BY <2>1 DEF RowsJoined
<1>3. RefsOf(rs) \subseteq RefsOf(r)
  BY <1>2
<1> SUFFICES ASSUME NEW n \in DOMAIN r, r[n].ref[1] = "LEGACY"
             PROVE  /\ CaseKnown(r[n], a, c)
                    /\ \A k \in DOMAIN LegacyComplaints : <<"LEGACY", r[n].ref[2], k>> \in RefsOf(r)
  BY DEF CasesKnown
<1>4. CASE n \in DOMAIN rs
  <2>1. r[n] = rs[n] /\ CaseKnown(rs[n], accts, cats)
    BY <1>2, <1>4 DEF CasesKnown
  <2>2. \A k \in DOMAIN LegacyComplaints : <<"LEGACY", r[n].ref[2], k>> \in RefsOf(rs)
    BY <1>2, <1>4 DEF CasesKnown
  <2>3. Begins(r[n].trail, r[n].trail)
    BY DEF Begins
  <2>4. CaseKnown(r[n], a, c)
    BY <2>1, <2>3, KnownStays
  <2>5. QED
    BY <1>3, <2>2, <2>4
<1>5. CASE n \notin DOMAIN rs
  <2>1. PICK k \in 1 .. count : n = Len(rs) + k
    BY <1>2, <1>5
  <2>2. r[n] = new[k]
    BY <1>2, <2>1
  <2>3. QED
    BY <2>2 DEF NewAreKnown
<1>6. QED
  BY <1>4, <1>5

LEMMA SeedsStay ==
  ASSUME NEW rs, Register(rs), NEW new, NEW count, CanJoin(rs, new, count), NEW r, r = rs \o new,
         NoneIs(new, count, SeedPrefix)
  PROVE  SeedSet(r) = SeedSet(rs)
<1>1. IsRegister(rs) /\ HasUniqueRefs(rs)
  BY RegisterIs
<1>2. /\ \A n \in DOMAIN rs : n \in DOMAIN r /\ r[n] = rs[n]
      /\ \A k \in 1 .. count : r[Len(rs) + k] = new[k]
      /\ \A n \in DOMAIN r \ DOMAIN rs : \E k \in 1 .. count : n = Len(rs) + k
  <2>1. RowsJoined(r, rs, new, count)
    BY <1>1, RowsJoin
  <2>2. QED
    BY <2>1 DEF RowsJoined
<1>3. \A n \in DOMAIN r \ DOMAIN rs : r[n].ref[1] # SeedPrefix
  BY <1>2 DEF NoneIs
<1>4. QED
  BY <1>2, <1>3 DEF SeedSet

\* A row that is worked on.
LEMMA RowWorkedOn ==
  ASSUME NEW rs, Register(rs), NEW n \in DOMAIN rs, NEW g, IsGrievance(g), Grown(rs[n], g),
         NEW r, r = [rs EXCEPT ![n] = g],
         NEW accts, NEW cats, CasesKnown(rs, accts, cats)
  PROVE  /\ Register(r) /\ RefsOf(r) = RefsOf(rs) /\ SeedSet(r) = SeedSet(rs)
         /\ CasesKnown(r, accts, cats)
<1>1. IsRegister(rs) /\ HasUniqueRefs(rs) /\ g.ref = rs[n].ref
  BY RegisterIs DEF Grown
<1>2. /\ IsRegister(r) /\ HasUniqueRefs(r) /\ DOMAIN r = DOMAIN rs /\ RefsOf(r) = RefsOf(rs)
      /\ r[n] = g /\ \A m \in DOMAIN rs \ {n} : r[m] = rs[m]
  <2>1. RowReplaced(r, rs, n, g)
    BY <1>1, RowChanged
  <2>2. QED
    BY <2>1 DEF RowReplaced
<1>3. \A m \in DOMAIN rs : r[m].ref = rs[m].ref
  BY <1>1, <1>2
<1>4. Register(r)
  BY <1>2 DEF Register
<1>5. SeedSet(r) = SeedSet(rs)
  BY <1>2, <1>3 DEF SeedSet
<1>6. CasesKnown(r, accts, cats)
  <2> SUFFICES ASSUME NEW m \in DOMAIN rs, rs[m].ref[1] = "LEGACY"
               PROVE  CaseKnown(r[m], accts, cats)
    BY <1>2, <1>3 DEF CasesKnown
  <2>1. CaseKnown(rs[m], accts, cats)
    BY DEF CasesKnown
  <2>2. CASE m = n
    BY <1>2, <2>1, <2>2, KnownStays DEF Grown
  <2>3. CASE m # n
    BY <1>2, <2>1, <2>3
  <2>4. QED
    BY <2>2, <2>3
<1>7. QED
  BY <1>2, <1>4, <1>5, <1>6

-----------------------------------------------------------------------------
(* What an import writes. *)

LEMMA DumpIs ==
  /\ Len(LegacyUsers) \in Nat /\ DOMAIN LegacyUsers = 1 .. Len(LegacyUsers)
  /\ Len(LegacyAdmins) \in Nat /\ DOMAIN LegacyAdmins = 1 .. Len(LegacyAdmins)
  /\ Len(LegacyCats) \in Nat /\ DOMAIN LegacyCats = 1 .. Len(LegacyCats)
  /\ Len(LegacySubcats) \in Nat /\ DOMAIN LegacySubcats = 1 .. Len(LegacySubcats)
  /\ Len(LegacyComplaints) \in Nat /\ DOMAIN LegacyComplaints = 1 .. Len(LegacyComplaints)
  /\ Len(LegacyRemarks) \in Nat /\ DOMAIN LegacyRemarks = 1 .. Len(LegacyRemarks)
<1>1. \A list \in {LegacyUsers, LegacyAdmins, LegacyCats, LegacySubcats, LegacyComplaints,
                   LegacyRemarks, Plan, SeedLeaves} : list \in Seq(ToSet(list))
  BY DumpAssumption
<1>2. ASSUME NEW S, NEW s \in Seq(S) PROVE Len(s) \in Nat /\ DOMAIN s = 1 .. Len(s)
  OBVIOUS
<1>3. \A list \in {LegacyUsers, LegacyAdmins, LegacyCats, LegacySubcats, LegacyComplaints,
                   LegacyRemarks, Plan, SeedLeaves} :
        Len(list) \in Nat /\ DOMAIN list = 1 .. Len(list)
  BY <1>1, <1>2
<1>4. QED
  BY <1>3

LEMMA GreatestNumber ==
  ASSUME NEW n \in Nat, NEW S, S \subseteq 1 .. n, S # {}
  PROVE  \E x \in S : \A y \in S : y <= x
<1> DEFINE T == {n - x : x \in S}
<1>1. \A x \in S : x \in 1 .. n
  OBVIOUS
<1>2. T \subseteq Nat /\ T # {}
  <2>1. \A x \in S : n - x \in Nat /\ n - x \in T
    BY <1>1
  <2>2. QED
    BY <2>1
<1>3. PICK t \in T : \A u \in T : t <= u
  BY <1>2, LeastNumber
<1>4. PICK x \in S : t = n - x
  BY <1>3
<1>5. \A y \in S : n - y \in T
  OBVIOUS
<1>6. ASSUME NEW y \in S PROVE y <= x
  BY <1>1, <1>3, <1>4, <1>5
<1>7. QED
  BY <1>6

LEMMA RemarksAreFinite ==
  ASSUME NEW k
  PROVE  IsFiniteSet(OwnRemarks(k)) /\ Cardinality(OwnRemarks(k)) \in Nat
<1>1. IsFiniteSet(DOMAIN LegacyRemarks)
  BY DumpIs, FS_Interval
<1>2. OwnRemarks(k) \in SUBSET DOMAIN LegacyRemarks
  BY DEF OwnRemarks
<1>3. QED
  BY <1>1, <1>2, FS_Subset, FS_CardinalityType

LEMMA TrailIs ==
  ASSUME NEW k, NEW trail, trail = LegacyTrail(k)
  PROVE  HasLength(trail, Cardinality(OwnRemarks(k)) + 1) /\ HasLength(trail, Len(trail))
<1> DEFINE n == Cardinality(OwnRemarks(k)) + 1
<1>1. n \in Nat
  BY RemarksAreFinite
<1>2. HasLength(trail, n)
  BY <1>1 DEF LegacyTrail, HasLength
<1> HIDE DEF n
<1>3. Len(trail) = n
  BY <1>2, ListIs
<1>4. QED
  BY <1>2, <1>3 DEF n

LEMMA LegacyRowIs ==
  ASSUME NEW run, NEW year, NEW k, NEW g, g = LegacyRow(run, year, k)
  PROVE  /\ IsGrievance(g) /\ g.ref = <<"LEGACY", year, k>>
         /\ g.submittedById = (IF UserKey(LegacyComplaints[k].user) \in DOMAIN run.userIdMap
                               THEN run.userIdMap[UserKey(LegacyComplaints[k].user)] ELSE NULL)
         /\ g.categoryId = CategoryFor(run.batch, LegacyComplaints[k])
<1>1. HasLength(<<>>, 0) /\ Len(<<>>) = 0
  BY DEF HasLength
<1>2. /\ g = [column \in Columns |-> g[column]] /\ g.ref = <<"LEGACY", year, k>> /\ g.trail = <<>>
      /\ g.submittedById = (IF UserKey(LegacyComplaints[k].user) \in DOMAIN run.userIdMap
                            THEN run.userIdMap[UserKey(LegacyComplaints[k].user)] ELSE NULL)
      /\ g.categoryId = CategoryFor(run.batch, LegacyComplaints[k])
  BY DEF LegacyRow, Columns
<1>3. ASSUME NEW ref, ref = <<"LEGACY", year, k>> PROVE ref = <<ref[1], ref[2], ref[3]>>
  BY <1>3
<1>4. g.ref = <<g.ref[1], g.ref[2], g.ref[3]>>
  BY <1>2, <1>3
<1>5. QED
  BY <1>1, <1>2, <1>4 DEF IsGrievance

\* Administrators have keys of their own, so a student's number leads to a student.
LEMMA MapLeadsToFiler ==
  ASSUME NEW c, UserKey(c.user) \in DOMAIN UserIdMap
  PROVE  FilerKnown(UserIdMap[UserKey(c.user)], c, {DumpAccounts[k].email : k \in Inserted})
<1> DEFINE key   == UserKey(c.user)
           lines == {i \in Inserted : DumpAccounts[i].key = key}
           last  == CHOOSE i \in lines : \A j \in lines : j <= i
           n     == Len(LegacyUsers) + Len(LegacyAdmins)
<1>1. Len(LegacyUsers) \in Nat /\ Len(LegacyAdmins) \in Nat /\ n \in Nat
  BY DumpIs
<1>2. Inserted \subseteq 1 .. n
  BY DEF Inserted, DumpAccounts
<1>3. lines # {} /\ UserIdMap[key] = DumpAccounts[last].email
  BY DEF UserIdMap
<1>4. \E i \in lines : \A j \in lines : j <= i
  <2>1. lines \subseteq 1 .. n
    BY <1>2
  <2> HIDE DEF lines, n
  <2>2. QED
    BY <1>1, <1>3, <2>1, GreatestNumber
<1>5. last \in lines
  BY <1>4
<1>6. last \in Inserted /\ last \in 1 .. n
  BY <1>2, <1>5
<1>7. DumpAccounts[last].key = <<"", c.user>>
  BY <1>5 DEF UserKey
<1>8. \A x, y : <<"", x>> # <<"admin:", y>>
  OBVIOUS
<1>9. \A x, y : <<"", x>> = <<"", y>> => x = y
  OBVIOUS
<1> HIDE DEF last
<1>10. last <= Len(LegacyUsers)
  <2> SUFFICES ASSUME ~(last <= Len(LegacyUsers)) PROVE FALSE
    OBVIOUS
  <2>1. DumpAccounts[last].key = <<"admin:", LegacyAdmins[last - Len(LegacyUsers)].id>>
    BY <1>6 DEF DumpAccounts, AdminKey
  <2>2. <<"", c.user>> = <<"admin:", LegacyAdmins[last - Len(LegacyUsers)].id>>
    BY <1>7, <2>1
  <2>3. QED
    BY <1>8, <2>2
<1>11. /\ DumpAccounts[last].key = <<"", LegacyUsers[last].id>>
       /\ DumpAccounts[last].email = LegacyUsers[last].email
  BY <1>6, <1>10 DEF DumpAccounts, UserKey
<1>12. last \in 1 .. Len(LegacyUsers)
  BY <1>1, <1>6, <1>10
<1>13. last \in DOMAIN LegacyUsers
  BY <1>12, DumpIs
<1>14. LegacyUsers[last].id = c.user
  <2>1. <<"", LegacyUsers[last].id>> = <<"", c.user>>
    BY <1>7, <1>11
  <2>2. QED
    BY <1>9, <2>1
<1>15. DumpAccounts[last].email \in {DumpAccounts[k].email : k \in Inserted}
  BY <1>6
<1>16. QED
  BY <1>3, <1>11, <1>13, <1>14, <1>15 DEF FilerKnown

-----------------------------------------------------------------------------
(* What the seed writes. *)

LEMMA BucketTrailIs ==
  ASSUME NEW bucket, NEW trail, trail = BucketTrail(bucket)
  PROVE  HasLength(trail, Len(trail))
<1> DEFINE first == <<"submitted", "status_changed">>
           rest  == CASE bucket = "rejected" -> <<>>
                      [] bucket = "breached" -> <<"assigned", "status_changed", "sla_breached">>
                      [] bucket = "resolved_closed" -> <<"assigned", "status_changed", "status_changed", "status_changed">>
                      [] bucket = "appealed" -> <<"assigned", "status_changed", "status_changed", "appealed">>
                      [] OTHER -> <<"assigned", "status_changed">>
<1>1. trail = first \o rest
  BY DEF BucketTrail
<1>2. HasLength(first, 2)
  BY DEF HasLength
<1> HIDE DEF first
<1>3. \E n : HasLength(rest, n)
  <2>1. CASE bucket = "rejected"
    <3>1. HasLength(<<>>, 0)
      BY DEF HasLength
    <3>2. QED
      BY <2>1, <3>1
  <2>2. CASE bucket = "breached"
    <3>1. HasLength(<<"assigned", "status_changed", "sla_breached">>, 3)
      BY DEF HasLength
    <3>2. QED
      BY <2>2, <3>1
  <2>3. CASE bucket = "resolved_closed"
    <3>1. HasLength(<<"assigned", "status_changed", "status_changed", "status_changed">>, 4)
      BY DEF HasLength
    <3>2. QED
      BY <2>3, <3>1
  <2>4. CASE bucket = "appealed"
    <3>1. HasLength(<<"assigned", "status_changed", "status_changed", "appealed">>, 4)
      BY DEF HasLength
    <3>2. QED
      BY <2>4, <3>1
  <2>5. CASE bucket \notin {"rejected", "breached", "resolved_closed", "appealed"}
    <3>1. HasLength(<<"assigned", "status_changed">>, 2)
      BY DEF HasLength
    <3>2. QED
      BY <2>5, <3>1
  <2>6. QED
    BY <2>1, <2>2, <2>3, <2>4, <2>5
<1> HIDE DEF rest
<1>4. PICK n : HasLength(rest, n)
  BY <1>3
<1>5. HasLength(trail, 2 + n)
  <2>1. Joined(trail, first, 2, rest, n)
    BY <1>1, <1>2, <1>4, ListsJoin
  <2>2. QED
    BY <2>1 DEF Joined
<1>6. QED
  BY <1>5, ListIs

IsSeedCase(g, n) == IsGrievance(g) /\ g.ref[1] = SeedPrefix /\ g.ref[3] = n

LEMMA SeededIs ==
  ASSUME NEW n, NEW year, NEW leaf, NEW status, NEW created, NEW due, NEW trail, NEW words,
         HasLength(trail, Len(trail)),
         NEW g, g = Seeded(n, year, leaf, status, created, due, trail, words)
  PROVE  IsSeedCase(g, n)
<1>1. g = [column \in Columns |-> g[column]] /\ g.ref = <<SeedPrefix, year, n>> /\ g.trail = trail
  BY DEF Seeded, Columns
<1>2. ASSUME NEW ref, ref = <<SeedPrefix, year, n>>
      PROVE  ref = <<ref[1], ref[2], ref[3]>> /\ ref[1] = SeedPrefix /\ ref[3] = n
  BY <1>2
<1>3. g.ref = <<g.ref[1], g.ref[2], g.ref[3]>> /\ g.ref[1] = SeedPrefix /\ g.ref[3] = n
  BY <1>1, <1>2
<1>4. QED
  BY <1>1, <1>3 DEF IsGrievance, IsSeedCase

\* A row on which the days are written when it ended.
Ended(g, x, y) == [g EXCEPT !.resolvedAt = x, !.closedAt = y]

LEMMA EndedIs ==
  ASSUME NEW g, IsGrievance(g), NEW x, NEW y, NEW h, h = Ended(g, x, y)
  PROVE  IsGrievance(h) /\ h.ref = g.ref
<1>1. h = [column \in Columns |-> h[column]] /\ h.ref = g.ref /\ h.trail = g.trail
  BY DEF IsGrievance, Columns, Ended
<1>2. QED
  BY <1>1 DEF IsGrievance

\* Rows of the seed, numbered onward.
IsSeedPart(s, n, from) ==
  /\ HasLength(s, n)
  /\ \A k \in 1 .. n : IsSeedCase(s[k], from + k)

LEMMA SeedPartsJoin ==
  ASSUME NEW from \in Nat, NEW m, NEW n, NEW s, IsSeedPart(s, m, from), NEW t, IsSeedPart(t, n, from + m),
         NEW u, u = s \o t
  PROVE  IsSeedPart(u, m + n, from)
<1>1. m \in Nat /\ n \in Nat /\ HasLength(s, m) /\ HasLength(t, n)
  BY DEF IsSeedPart, HasLength
<1>2. Joined(u, s, m, t, n)
  BY <1>1, ListsJoin
<1> SUFFICES ASSUME NEW k \in 1 .. (m + n)
             PROVE  IsSeedCase(u[k], from + k)
  BY <1>2 DEF IsSeedPart, Joined
<1>3. CASE k \in 1 .. m
  BY <1>2, <1>3 DEF IsSeedPart, Joined
<1>4. CASE k \notin 1 .. m
  <2>1. k - m \in 1 .. n /\ k = m + (k - m) /\ (from + m) + (k - m) = from + k
    BY <1>1, <1>4
  <2>2. u[k] = t[k - m]
    BY <1>2, <2>1 DEF Joined
  <2>3. QED
    BY <2>1, <2>2 DEF IsSeedPart
<1>5. QED
  BY <1>3, <1>4

LEMMA PlannedIs ==
  ASSUME NEW i, NEW g, g = PlannedCase(i)
  PROVE  IsSeedCase(g, i + 1)
<1> DEFINE bucket   == Plan[i + 1]
           leaf     == GeneralLeaves[(i % Len(GeneralLeaves)) + 1]
           created  == now - submittedDaysAgo(bucket, Window(leaf), i)
           resolved == created + Larger(2, (8 * Window(leaf)) \div 10)
           case     == Seeded(i + 1, YearOf(created), leaf, Last(BucketPath(bucket)), created,
                              created + Window(leaf), BucketTrail(bucket), {<<leaf.name, i>>})
           x        == IF bucket \in {"resolved_closed", "appealed"} THEN resolved ELSE NULL
           y        == IF bucket = "resolved_closed" THEN resolved + 3 ELSE NULL
<1>1. g = Ended(case, x, y)
  BY DEF PlannedCase, Ended
<1>2. HasLength(BucketTrail(bucket), Len(BucketTrail(bucket)))
  BY BucketTrailIs
<1> HIDE DEF bucket, leaf, created, resolved, x, y
<1>3. IsSeedCase(case, i + 1)
  BY <1>2, SeededIs
<1> HIDE DEF case
<1>4. IsGrievance(g) /\ g.ref = case.ref
  BY <1>1, <1>3, EndedIs DEF IsSeedCase
<1>5. QED
  BY <1>3, <1>4 DEF IsSeedCase

LEMMA BurstIs ==
  ASSUME NEW i, NEW g, g = BurstCase(i)
  PROVE  IsSeedCase(g, Len(Plan) + i + 1)
<1> DEFINE created == now - (6 - i \div 3)
           due     == created + Window(GeneralLeaves[1])
           trail   == <<"submitted", "status_changed">>
           words   == {<<"water", 0>>, <<"block", i % 2>>}
<1>1. g = Seeded(Len(Plan) + i + 1, YearOf(now), GeneralLeaves[1], "in_progress", created, due,
                 trail, words)
  BY DEF BurstCase
<1>2. HasLength(trail, Len(trail))
  BY DEF HasLength
<1> HIDE DEF created, due, trail, words
<1>3. QED
  BY <1>1, <1>2, SeededIs

LEMMA IccIs ==
  ASSUME NEW i, NEW g, g = IccCase(i)
  PROVE  IsSeedCase(g, Len(Plan) + BurstSize + i + 1)
<1> DEFINE created == now - (IF i = 0 THEN 12 ELSE 40)
           due     == created + 90
           trail   == <<"submitted", "assigned">>
           words   == {<<"posh", i>>}
<1>1. g = Seeded(Len(Plan) + BurstSize + i + 1, YearOf(now), IccLeaves[1], "in_progress", created,
                 due, trail, words)
  BY DEF IccCase
<1>2. HasLength(trail, Len(trail))
  BY DEF HasLength
<1> HIDE DEF created, due, trail, words
<1>3. QED
  BY <1>1, <1>2, SeededIs

LEMMA SeedIs == SeedTotal \in Nat /\ IsSeedPart(SeedRows, SeedTotal, 0)
<1> DEFINE p == Len(Plan)
           planned == [i \in 1 .. p |-> PlannedCase(i - 1)]
           burst   == [i \in 1 .. BurstSize |-> BurstCase(i - 1)]
           icc     == IF IccLeaves = <<>> THEN <<>> ELSE <<IccCase(0), IccCase(1)>>
           q       == IF IccLeaves = <<>> THEN 0 ELSE 2
<1>1. p \in Nat /\ BurstSize \in Nat
  BY DumpAssumption, LoadingAssumption
<1>2. IsSeedPart(planned, p, 0)
  <2>1. HasLength(planned, p)
    BY <1>1 DEF HasLength
  <2>2. ASSUME NEW k \in 1 .. p
        PROVE  IsSeedCase(planned[k], 0 + k)
    <3>1. planned[k] = PlannedCase(k - 1) /\ (k - 1) + 1 = 0 + k
      BY <1>1
    <3>2. IsSeedCase(planned[k], (k - 1) + 1)
      BY <3>1, PlannedIs
    <3>3. QED
      BY <3>1, <3>2
  <2>3. QED
    BY <2>1, <2>2 DEF IsSeedPart
<1>3. ASSUME NEW i PROVE IsSeedCase(BurstCase(i), p + i + 1)
  BY BurstIs
<1>4. ASSUME NEW i PROVE IsSeedCase(IccCase(i), p + BurstSize + i + 1)
  BY IccIs
<1> HIDE DEF planned, p
<1>5. IsSeedPart(burst, BurstSize, 0 + p)
  <2>1. HasLength(burst, BurstSize)
    BY <1>1 DEF HasLength
  <2>2. ASSUME NEW k \in 1 .. BurstSize
        PROVE  IsSeedCase(burst[k], (0 + p) + k)
    <3>1. burst[k] = BurstCase(k - 1) /\ p + (k - 1) + 1 = (0 + p) + k
      BY <1>1
    <3>2. QED
      BY <3>1, <1>3
  <2>3. QED
    BY <2>1, <2>2 DEF IsSeedPart
<1> HIDE DEF burst
<1>6. IsSeedPart(planned \o burst, p + BurstSize, 0)
  BY <1>2, <1>5, SeedPartsJoin
<1>7. IsSeedPart(icc, q, 0 + (p + BurstSize))
  <2>1. HasLength(icc, q)
    BY DEF HasLength
  <2>2. ASSUME NEW k \in 1 .. q
        PROVE  IsSeedCase(icc[k], (0 + (p + BurstSize)) + k)
    <3>1. icc = <<IccCase(0), IccCase(1)>> /\ k \in {1, 2}
      OBVIOUS
    <3>2. CASE k = 1
      <4>1. icc[k] = IccCase(0) /\ p + BurstSize + 0 + 1 = (0 + (p + BurstSize)) + k
        BY <1>1, <3>1, <3>2
      <4>2. QED
        BY <4>1, <1>4
    <3>3. CASE k = 2
      <4>1. icc[k] = IccCase(1) /\ p + BurstSize + 1 + 1 = (0 + (p + BurstSize)) + k
        BY <1>1, <3>1, <3>3
      <4>2. QED
        BY <4>1, <1>4
    <3>4. QED
      BY <3>1, <3>2, <3>3
  <2>3. QED
    BY <2>1, <2>2 DEF IsSeedPart
<1>8. SeedRows = (planned \o burst) \o icc /\ SeedTotal = (p + BurstSize) + q
  BY DEF SeedRows, SeedTotal, planned, burst, p
<1> HIDE DEF icc
<1>9. q \in Nat
  OBVIOUS
<1> HIDE DEF q
<1>10. IsSeedPart(SeedRows, (p + BurstSize) + q, 0)
  BY <1>1, <1>6, <1>7, <1>8, SeedPartsJoin
<1>11. QED
  BY <1>1, <1>8, <1>9, <1>10

-----------------------------------------------------------------------------
(* The steps of a run. *)

LEMMA NothingHeld ==
  ASSUME NEW run, run.rows = <<>>
  PROVE  (\A R : IsFree(run, R)) /\ (\A other : AreApart(run, other))
BY DEF IsFree, AreApart

LEMMA RunStarts ==
  ASSUME NEW n \in Nat, n < MaxImports,
         NEW run, run = [at |-> "users", batch |-> n + 1, accounts |-> {}, userIdMap |-> <<>>,
                         categories |-> {}, rows |-> <<>>]
  PROVE  IsRun(run) /\ run.rows = <<>>
<1>1. MaxImports \in Nat
  BY LoadingAssumption
<1>2. /\ run = [column \in RunColumns |-> run[column]]
      /\ run.at = "users" /\ run.batch = n + 1 /\ run.rows = <<>>
  BY DEF RunColumns
<1>3. n + 1 \in 1 .. MaxImports
  BY <1>1
<1>4. QED
  BY <1>2, <1>3 DEF IsRun

LEMMA UsersRead ==
  ASSUME NEW run, IsRun(run), run.at = "users", NEW map, NEW accts,
         \A c : UserKey(c.user) \in DOMAIN map => FilerKnown(map[UserKey(c.user)], c, accts),
         NEW next, next = [run EXCEPT !.at = "categories", !.userIdMap = map, !.accounts = accts]
  PROVE  IsRun(next) /\ next.rows = <<>>
<1>1. /\ next = [column \in RunColumns |-> next[column]] /\ next.batch = run.batch
      /\ next.at = "categories" /\ next.userIdMap = map /\ next.accounts = accts /\ next.rows = run.rows
  BY DEF IsRun, RunColumns
<1>2. run.rows = <<>> /\ run.batch \in 1 .. MaxImports
  BY DEF IsRun
<1>3. MapKnown(next)
  BY <1>1 DEF MapKnown
<1>4. QED
  BY <1>1, <1>2, <1>3 DEF IsRun

LEMMA CategoriesRead ==
  ASSUME NEW run, IsRun(run), run.at = "categories",
         NEW next, next = [run EXCEPT !.at = "complaints", !.categories = NewCategories(run.batch)]
  PROVE  IsRun(next) /\ next.rows = <<>>
<1>1. /\ next = [column \in RunColumns |-> next[column]] /\ next.batch = run.batch
      /\ next.at = "complaints" /\ next.userIdMap = run.userIdMap /\ next.accounts = run.accounts
      /\ next.rows = run.rows /\ next.categories = NewCategories(run.batch)
  BY DEF IsRun, RunColumns
<1>2. run.rows = <<>> /\ run.batch \in 1 .. MaxImports /\ MapKnown(run)
  BY DEF IsRun
<1>3. MapKnown(next)
  BY <1>1, <1>2 DEF MapKnown
<1>4. QED
  BY <1>1, <1>2, <1>3 DEF IsRun

DumpedRows(run, year) == [k \in DOMAIN LegacyComplaints |-> LegacyRow(run, year, k)]

WithRows(run, new) == [run EXCEPT !.at = "trails", !.rows = new]

LEMMA ComplaintsRead ==
  ASSUME NEW run, IsRun(run), run.at = "complaints", NEW year, NEW new, new = DumpedRows(run, year),
         NEW next, next = WithRows(run, new)
  PROVE  IsRun(next) /\ next.rows = new /\ (new # <<>> => new[1].ref[2] = year)
<1>1. /\ next = [column \in RunColumns |-> next[column]] /\ next.batch = run.batch
      /\ next.at = "trails" /\ next.userIdMap = run.userIdMap /\ next.accounts = run.accounts
      /\ next.rows = new /\ next.categories = run.categories
  BY DEF IsRun, RunColumns, WithRows
<1>2. run.batch \in 1 .. MaxImports /\ MapKnown(run) /\ run.categories = NewCategories(run.batch)
  BY DEF IsRun
<1>3. MapKnown(next)
  BY <1>1, <1>2 DEF MapKnown
<1>4. Len(LegacyComplaints) \in Nat /\ DOMAIN LegacyComplaints = 1 .. Len(LegacyComplaints)
  BY DumpIs
<1>5. HasLength(new, Len(LegacyComplaints))
  BY <1>4 DEF HasLength, DumpedRows
<1>6. ASSUME NEW k \in DOMAIN LegacyComplaints
      PROVE  /\ IsGrievance(new[k]) /\ new[k].ref = <<"LEGACY", year, k>>
             /\ FilerKnown(new[k].submittedById, LegacyComplaints[k], run.accounts)
             /\ new[k].categoryId = CategoryFor(run.batch, LegacyComplaints[k])
  <2>1. new[k] = LegacyRow(run, year, k)
    BY DEF DumpedRows
  <2>2. /\ IsGrievance(new[k]) /\ new[k].ref = <<"LEGACY", year, k>>
        /\ new[k].submittedById = (IF UserKey(LegacyComplaints[k].user) \in DOMAIN run.userIdMap
                                   THEN run.userIdMap[UserKey(LegacyComplaints[k].user)] ELSE NULL)
        /\ new[k].categoryId = CategoryFor(run.batch, LegacyComplaints[k])
    BY <2>1, LegacyRowIs
  <2>3. FilerKnown(new[k].submittedById, LegacyComplaints[k], run.accounts)
    <3>1. CASE UserKey(LegacyComplaints[k].user) \in DOMAIN run.userIdMap
      BY <1>2, <2>2, <3>1 DEF MapKnown
    <3>2. CASE UserKey(LegacyComplaints[k].user) \notin DOMAIN run.userIdMap
      BY <2>2, <3>2 DEF FilerKnown
    <3>3. QED
      BY <3>1, <3>2
  <2>4. QED
    BY <2>2, <2>3
<1>7. DOMAIN LegacyComplaints # {} => 1 \in DOMAIN LegacyComplaints
  BY <1>4
<1>8. DOMAIN LegacyComplaints # {} => new[1].ref[2] = year
  BY <1>6, <1>7
<1>9. HoldsDump(next)
  <2>1. ASSUME NEW k \in DOMAIN LegacyComplaints
        PROVE  /\ IsGrievance(new[k]) /\ new[k].ref = <<"LEGACY", new[1].ref[2], k>>
               /\ FilerKnown(new[k].submittedById, LegacyComplaints[k], next.accounts)
               /\ new[k].categoryId = CategoryFor(next.batch, LegacyComplaints[k])
    <3>1. new[1].ref[2] = year
      BY <1>8
    <3>2. QED
      BY <1>1, <1>6, <3>1
  <2>2. next.rows = new
    BY <1>1
  <2>3. QED
    BY <1>5, <2>1, <2>2 DEF HoldsDump
<1>10. new # <<>> => DOMAIN LegacyComplaints # {}
  BY <1>4, <1>5, ListHasFirst
<1>11. IsRun(next)
  BY <1>1, <1>2, <1>3, <1>9 DEF IsRun
<1>12. QED
  BY <1>1, <1>8, <1>10, <1>11

WithTrail(g, trail) == [g EXCEPT !.trail = trail]

LEMMA TrailWritten ==
  ASSUME NEW g, IsGrievance(g), NEW k, NEW h, h = WithTrail(g, LegacyTrail(k))
  PROVE  /\ IsGrievance(h) /\ h.ref = g.ref /\ h.submittedById = g.submittedById
         /\ h.categoryId = g.categoryId /\ h.trail = LegacyTrail(k)
<1>1. /\ h = [column \in Columns |-> h[column]] /\ h.ref = g.ref /\ h.submittedById = g.submittedById
      /\ h.categoryId = g.categoryId /\ h.trail = LegacyTrail(k)
  BY DEF IsGrievance, Columns, WithTrail
<1>2. HasLength(LegacyTrail(k), Len(LegacyTrail(k)))
  BY TrailIs
<1>3. QED
  BY <1>1, <1>2 DEF IsGrievance

LEMMA TrailsRead ==
  ASSUME NEW run, IsRun(run), run.at = "trails",
         NEW next, next = [run EXCEPT !.at = "commit",
                             !.rows = [k \in DOMAIN @ |-> [@[k] EXCEPT !.trail = LegacyTrail(k)]]]
  PROVE  /\ IsRun(next) /\ DOMAIN next.rows = DOMAIN run.rows
         /\ \A k \in DOMAIN run.rows : next.rows[k].ref = run.rows[k].ref
         /\ next.rows # <<>> => run.rows # <<>> /\ next.rows[1].ref = run.rows[1].ref
<1> DEFINE new == [k \in DOMAIN run.rows |-> WithTrail(run.rows[k], LegacyTrail(k))]
<1>1. next = [run EXCEPT !.at = "commit", !.rows = new]
  BY DEF WithTrail
<1> HIDE DEF new
<1>2. /\ next = [column \in RunColumns |-> next[column]] /\ next.batch = run.batch
      /\ next.at = "commit" /\ next.userIdMap = run.userIdMap /\ next.accounts = run.accounts
      /\ next.rows = new /\ next.categories = run.categories
  BY <1>1 DEF IsRun, RunColumns
<1>3. /\ run.batch \in 1 .. MaxImports /\ MapKnown(run) /\ run.categories = NewCategories(run.batch)
      /\ HoldsDump(run)
  BY DEF IsRun
<1>4. MapKnown(next)
  BY <1>2, <1>3 DEF MapKnown
<1>5. /\ Len(LegacyComplaints) \in Nat /\ DOMAIN LegacyComplaints = 1 .. Len(LegacyComplaints)
      /\ HasLength(run.rows, Len(LegacyComplaints)) /\ DOMAIN run.rows = DOMAIN LegacyComplaints
  BY <1>3, DumpIs, ListIs DEF HoldsDump
<1>6. HasLength(new, Len(LegacyComplaints)) /\ DOMAIN new = DOMAIN LegacyComplaints
  BY <1>5 DEF HasLength, new
<1>7. ASSUME NEW k \in DOMAIN LegacyComplaints
      PROVE  /\ IsGrievance(new[k]) /\ new[k].ref = run.rows[k].ref
             /\ new[k].submittedById = run.rows[k].submittedById
             /\ new[k].categoryId = run.rows[k].categoryId /\ new[k].trail = LegacyTrail(k)
  <2>1. new[k] = WithTrail(run.rows[k], LegacyTrail(k)) /\ IsGrievance(run.rows[k])
    BY <1>3, <1>5 DEF HoldsDump, new
  <2>2. QED
    BY <2>1, TrailWritten
<1>8. DOMAIN LegacyComplaints # {} => 1 \in DOMAIN LegacyComplaints
  BY <1>5
<1>9. DOMAIN LegacyComplaints # {} => new[1].ref = run.rows[1].ref
  BY <1>7, <1>8
<1>10. HoldsDump(next)
  <2>1. ASSUME NEW k \in DOMAIN LegacyComplaints
        PROVE  /\ IsGrievance(new[k]) /\ new[k].ref = <<"LEGACY", new[1].ref[2], k>>
               /\ FilerKnown(new[k].submittedById, LegacyComplaints[k], run.accounts)
               /\ new[k].categoryId = CategoryFor(run.batch, LegacyComplaints[k])
    <3>1. run.rows[k].ref = <<"LEGACY", run.rows[1].ref[2], k>>
      BY <1>3 DEF HoldsDump
    <3>2. new[1].ref = run.rows[1].ref
      BY <1>9
    <3>3. /\ FilerKnown(run.rows[k].submittedById, LegacyComplaints[k], run.accounts)
          /\ run.rows[k].categoryId = CategoryFor(run.batch, LegacyComplaints[k])
      BY <1>3 DEF HoldsDump
    <3>4. QED
      BY <1>7, <3>1, <3>2, <3>3
  <2>2. QED
    BY <1>2, <1>6, <2>1 DEF HoldsDump
<1>11. HoldsTrails(next)
  BY <1>2, <1>7 DEF HoldsTrails
<1>12. IsRun(next)
  BY <1>2, <1>3, <1>4, <1>10, <1>11 DEF IsRun
<1>13. new # <<>> => run.rows # <<>> /\ new[1].ref = run.rows[1].ref
  <2> SUFFICES ASSUME new # <<>> PROVE run.rows # <<>> /\ new[1].ref = run.rows[1].ref
    OBVIOUS
  <2>1. 1 \in DOMAIN LegacyComplaints
    BY <1>5, <1>6, ListHasFirst
  <2>2. QED
    BY <1>5, <1>7, <2>1
<1>14. QED
  BY <1>2, <1>5, <1>6, <1>7, <1>12, <1>13

-----------------------------------------------------------------------------
(* The invariant holds. *)

LEMMA InitLoaded == Init => LoadedInv
<1> SUFFICES ASSUME Init PROVE LoadedInv
  OBVIOUS
<1>1. rows = <<>> /\ categories = {} /\ imports = 0 /\ importing = [i \in Importers |-> NULL]
      /\ seeding = FALSE
  BY DEF Init
<1>2. HasLength(<<>>, 0) /\ DOMAIN <<>> = {} /\ Len(<<>>) = 0
  BY DEF HasLength
<1>3. RefsOf(rows) = {} /\ SeedSet(rows) = {}
  BY <1>1, <1>2 DEF RefsOf, SeedSet
<1>4. RegisterInv
  BY <1>1, <1>2, <1>3 DEF RegisterInv, Register, IsRegister, HasUniqueRefs, NumbersAreDense
<1>5. CasesInv
  BY <1>1, <1>2 DEF CasesInv, CasesKnown
<1>6. CatsInv
  BY <1>1 DEF CatsInv, CategoriesKnown
<1>7. RunsInv
  BY <1>1 DEF RunsInv
<1>8. SeedInv
  BY <1>1, <1>3 DEF SeedInv
<1>9. QED
  BY <1>4, <1>5, <1>6, <1>7, <1>8 DEF LoadedInv

\* Rows, accounts and categories stay.
RegisterStands == UNCHANGED <<institution, accounts, categories, rows>>

LEMMA OthersStand ==
  ASSUME LoadedInv, RegisterStands, UNCHANGED seeding
  PROVE  RegisterInv' /\ CasesInv' /\ CatsInv' /\ SeedInv'
<1>1. RegisterInv' /\ CasesInv' /\ CatsInv'
  BY DEF LoadedInv, RegisterStands, RegisterInv, CasesInv, CatsInv
<1>2. SeedInv'
  BY DEF LoadedInv, RegisterStands, SeedInv
<1>3. QED
  BY <1>1, <1>2

LEMMA RunWritten ==
  ASSUME RunsInv, rows' = rows, imports' \in Nat, NEW i \in Importers, NEW run,
         importing' = [importing EXCEPT ![i] = run],
         run # NULL => /\ IsRun(run) /\ IsFree(run, RefsOf(rows))
                       /\ \A j \in Importers \ {i} : importing[j] # NULL => AreApart(run, importing[j])
  PROVE  RunsInv'
<1>1. /\ importing' = [j \in Importers |-> importing'[j]] /\ importing'[i] = run
      /\ \A j \in Importers \ {i} : importing'[j] = importing[j]
  BY DEF RunsInv
<1>2. ASSUME NEW j \in Importers, importing'[j] # NULL
      PROVE  IsRun(importing'[j]) /\ IsFree(importing'[j], RefsOf(rows'))
  BY <1>1, <1>2 DEF RunsInv
<1>3. ASSUME NEW j \in Importers, NEW k \in Importers, j # k, importing'[j] # NULL, importing'[k] # NULL
      PROVE  AreApart(importing'[j], importing'[k])
  <2>1. \A a, b : AreApart(a, b) <=> AreApart(b, a)
    BY DEF AreApart
  <2>2. CASE j = i
    BY <1>1, <1>3, <2>2
  <2>3. CASE k = i
    BY <1>1, <1>3, <2>1, <2>3
  <2>4. CASE j # i /\ k # i
    BY <1>1, <1>3, <2>4 DEF RunsInv
  <2>5. QED
    BY <2>2, <2>3, <2>4
<1>4. QED
  BY <1>1, <1>2, <1>3 DEF RunsInv

\* Rows are added, of which no run that goes on has one, and the run of who may be over.
LEMMA RunsGoOn ==
  ASSUME RunsInv, NEW r, rows' = r, NEW T, RefsOf(r) \subseteq RefsOf(rows) \cup T, UNCHANGED imports,
         importing' = [i \in Importers |-> importing'[i]],
         \A j \in Importers : importing'[j] # NULL =>
           importing'[j] = importing[j] /\ IsFree(importing[j], T)
  PROVE  RunsInv'
<1>1. ASSUME NEW j \in Importers, importing'[j] # NULL
      PROVE  IsRun(importing'[j]) /\ IsFree(importing'[j], RefsOf(rows'))
  <2>1. importing'[j] = importing[j] /\ IsRun(importing[j]) /\ IsFree(importing[j], RefsOf(rows))
        /\ IsFree(importing[j], T)
    BY <1>1 DEF RunsInv
  <2>2. IsFree(importing[j], RefsOf(r))
    BY <2>1 DEF IsFree
  <2>3. QED
    BY <2>1, <2>2
<1>2. ASSUME NEW j \in Importers, NEW k \in Importers, j # k, importing'[j] # NULL, importing'[k] # NULL
      PROVE  AreApart(importing'[j], importing'[k])
  BY <1>2 DEF RunsInv
<1>3. QED
  BY <1>1, <1>2 DEF RunsInv

LEMMA LoadedStart ==
  ASSUME LoadedInv, NEW i \in Importers, StartImport(i)
  PROVE  LoadedInv'
<1> DEFINE run == [at |-> "users", batch |-> imports + 1, accounts |-> {}, userIdMap |-> <<>>,
                   categories |-> {}, rows |-> <<>>]
<1>1. /\ RegisterStands /\ UNCHANGED seeding /\ rows' = rows
      /\ imports < MaxImports /\ importing' = [importing EXCEPT ![i] = run] /\ imports' = imports + 1
  BY DEF StartImport, RegisterStands
<1>2. imports \in Nat /\ RunsInv
  BY DEF LoadedInv, RunsInv
<1>3. IsRun(run) /\ run.rows = <<>>
  BY <1>1, <1>2, RunStarts
<1> HIDE DEF run
<1>4. IsFree(run, RefsOf(rows)) /\ \A other : AreApart(run, other)
  BY <1>3, NothingHeld
<1>5. imports' \in Nat
  BY <1>1, <1>2
<1>6. RunsInv'
  BY <1>1, <1>2, <1>3, <1>4, <1>5, RunWritten
<1>7. QED
  BY <1>1, <1>6, OthersStand DEF LoadedInv

LEMMA RunIs ==
  ASSUME LoadedInv, NEW i \in Importers, importing[i] # NULL
  PROVE  /\ RunsInv /\ imports \in Nat /\ IsRun(importing[i]) /\ IsFree(importing[i], RefsOf(rows))
         /\ \A j \in Importers \ {i} : importing[j] # NULL => AreApart(importing[i], importing[j])
BY DEF LoadedInv, RunsInv

LEMMA LoadedUsers ==
  ASSUME LoadedInv, NEW i \in Importers, ImportUsers(i)
  PROVE  LoadedInv'
<1> DEFINE accts == {DumpAccounts[k].email : k \in Inserted}
           map   == UserIdMap
           run   == importing[i]
           next  == [run EXCEPT !.at = "categories", !.userIdMap = map, !.accounts = accts]
<1>1. /\ RegisterStands /\ UNCHANGED <<seeding, imports>> /\ rows' = rows
      /\ importing[i] # NULL /\ run.at = "users"
  BY DEF ImportUsers, Step, RegisterStands
<1>2. importing' = [importing EXCEPT ![i] = next]
  BY DEF ImportUsers, Step
<1>3. RunsInv /\ imports \in Nat /\ IsRun(run)
  BY <1>1, RunIs
<1>4. \A c : UserKey(c.user) \in DOMAIN map => FilerKnown(map[UserKey(c.user)], c, accts)
  BY MapLeadsToFiler
<1> HIDE DEF accts, map, run
<1>5. IsRun(next) /\ next.rows = <<>>
  BY <1>1, <1>3, <1>4, UsersRead
<1> HIDE DEF next
<1>6. IsFree(next, RefsOf(rows)) /\ \A other : AreApart(next, other)
  BY <1>5, NothingHeld
<1>7. RunsInv'
  BY <1>1, <1>2, <1>3, <1>5, <1>6, RunWritten
<1>8. QED
  BY <1>1, <1>7, OthersStand DEF LoadedInv

LEMMA LoadedCategories ==
  ASSUME LoadedInv, NEW i \in Importers, ImportCategories(i)
  PROVE  LoadedInv'
<1> DEFINE run  == importing[i]
           next == [run EXCEPT !.at = "complaints", !.categories = NewCategories(run.batch)]
<1>1. /\ RegisterStands /\ UNCHANGED <<seeding, imports>> /\ rows' = rows
      /\ importing[i] # NULL /\ run.at = "categories"
  BY DEF ImportCategories, Step, RegisterStands
<1>2. importing' = [importing EXCEPT ![i] = next]
  BY DEF ImportCategories, Step
<1>3. RunsInv /\ imports \in Nat /\ IsRun(run)
  BY <1>1, RunIs
<1> HIDE DEF run
<1>4. IsRun(next) /\ next.rows = <<>>
  BY <1>1, <1>3, CategoriesRead
<1> HIDE DEF next
<1>5. IsFree(next, RefsOf(rows)) /\ \A other : AreApart(next, other)
  BY <1>4, NothingHeld
<1>6. RunsInv'
  BY <1>1, <1>2, <1>3, <1>4, <1>5, RunWritten
<1>7. QED
  BY <1>1, <1>6, OthersStand DEF LoadedInv

LEMMA LoadedComplaints ==
  ASSUME LoadedInv, NEW i \in Importers, ImportComplaints(i)
  PROVE  LoadedInv'
<1> DEFINE run  == importing[i]
           year == YearOf(now)
           new  == DumpedRows(run, year)
           next == WithRows(run, new)
           taken == \E k \in DOMAIN new : new[k].ref \in RefsOf(rows)
           res  == IF taken THEN NULL ELSE next
<1>1. /\ RegisterStands /\ UNCHANGED <<seeding, imports>> /\ rows' = rows
      /\ importing[i] # NULL /\ run.at = "complaints"
      /\ \A j \in Importers \ {i} : importing[j] # NULL /\ importing[j].rows # <<>> =>
           importing[j].rows[1].ref[2] # year
  BY DEF ImportComplaints, Step, RegisterStands, Others
<1>2. importing' = [importing EXCEPT ![i] = res]
  BY DEF ImportComplaints, Step, DumpedRows, References, RefsOf, WithRows
<1>3. RunsInv /\ imports \in Nat /\ IsRun(run)
  BY <1>1, RunIs
<1> HIDE DEF run, year
<1>4. IsRun(next) /\ next.rows = new /\ (new # <<>> => new[1].ref[2] = year)
  <2>1. new = DumpedRows(run, year)
    OBVIOUS
  <2> HIDE DEF new
  <2>2. QED
    BY <1>1, <1>3, <2>1, ComplaintsRead
<1> HIDE DEF new
<1> HIDE DEF next
<1>5. ~taken => IsFree(next, RefsOf(rows))
  BY <1>4 DEF IsFree
<1>6. \A j \in Importers \ {i} : importing[j] # NULL => AreApart(next, importing[j])
  BY <1>1, <1>4 DEF AreApart
<1> HIDE DEF taken
<1>7. res # NULL => /\ IsRun(res) /\ IsFree(res, RefsOf(rows))
                    /\ \A j \in Importers \ {i} : importing[j] # NULL => AreApart(res, importing[j])
  BY <1>4, <1>5, <1>6
<1> HIDE DEF res
<1>8. RunsInv'
  BY <1>1, <1>2, <1>3, <1>7, RunWritten
<1>9. QED
  BY <1>1, <1>8, OthersStand DEF LoadedInv

LEMMA LoadedTrails ==
  ASSUME LoadedInv, NEW i \in Importers, ImportTrails(i)
  PROVE  LoadedInv'
<1> DEFINE run  == importing[i]
           next == [run EXCEPT !.at = "commit",
                      !.rows = [k \in DOMAIN @ |-> [@[k] EXCEPT !.trail = LegacyTrail(k)]]]
<1>1. /\ RegisterStands /\ UNCHANGED <<seeding, imports>> /\ rows' = rows
      /\ importing[i] # NULL /\ run.at = "trails"
  BY DEF ImportTrails, Step, RegisterStands
<1>2. importing' = [importing EXCEPT ![i] = next]
  BY DEF ImportTrails, Step
<1>3. /\ RunsInv /\ imports \in Nat /\ IsRun(run) /\ IsFree(run, RefsOf(rows))
      /\ \A j \in Importers \ {i} : importing[j] # NULL => AreApart(run, importing[j])
  BY <1>1, RunIs
<1> HIDE DEF run
<1>4. /\ IsRun(next) /\ DOMAIN next.rows = DOMAIN run.rows
      /\ \A k \in DOMAIN run.rows : next.rows[k].ref = run.rows[k].ref
      /\ next.rows # <<>> => run.rows # <<>> /\ next.rows[1].ref = run.rows[1].ref
  BY <1>1, <1>3, TrailsRead
<1> HIDE DEF next
<1>5. IsFree(next, RefsOf(rows))
  BY <1>3, <1>4 DEF IsFree
<1>6. \A j \in Importers \ {i} : importing[j] # NULL => AreApart(next, importing[j])
  BY <1>3, <1>4 DEF AreApart
<1>7. RunsInv'
  BY <1>1, <1>2, <1>3, <1>4, <1>5, <1>6, RunWritten
<1>8. QED
  BY <1>1, <1>7, OthersStand DEF LoadedInv

LEMMA LoadedDies ==
  ASSUME LoadedInv, NEW i \in Importers, ImportDies(i)
  PROVE  LoadedInv'
<1>1. /\ RegisterStands /\ UNCHANGED <<seeding, imports>> /\ rows' = rows
      /\ importing' = [importing EXCEPT ![i] = NULL]
  BY DEF ImportDies, AfterCrash, RegisterStands
<1>2. RunsInv /\ imports \in Nat
  BY DEF LoadedInv, RunsInv
<1>3. RunsInv'
  BY <1>1, <1>2, RunWritten
<1>4. QED
  BY <1>1, <1>3, OthersStand DEF LoadedInv

LEMMA RunRefs ==
  ASSUME NEW run, IsRun(run)
  PROVE  /\ \A k \in DOMAIN run.rows : run.rows[k].ref[1] = "LEGACY"
         /\ \A k \in DOMAIN run.rows : run.rows # <<>> /\ run.rows[k].ref[2] = run.rows[1].ref[2]
<1>1. CASE run.at \in {"trails", "commit"}
  <2>1. HoldsDump(run)
    BY <1>1 DEF IsRun
  <2>2. DOMAIN run.rows = DOMAIN LegacyComplaints
    BY <2>1, DumpIs, ListIs DEF HoldsDump
  <2>3. \A k \in DOMAIN run.rows : run.rows[k].ref = <<"LEGACY", run.rows[1].ref[2], k>>
    BY <2>1, <2>2 DEF HoldsDump
  <2>4. DOMAIN <<>> = {}
    OBVIOUS
  <2>5. QED
    BY <2>3, <2>4
<1>2. CASE run.at \notin {"trails", "commit"}
  BY <1>2 DEF IsRun
<1>3. QED
  BY <1>1, <1>2

\* Rows of others are added while runs go on.
LEMMA RunsBeside ==
  ASSUME RunsInv, NEW r, rows' = r, NEW T, RefsOf(r) \subseteq RefsOf(rows) \cup T,
         \A t \in T : t[1] # "LEGACY", UNCHANGED <<importing, imports>>
  PROVE  RunsInv'
<1>1. ASSUME NEW j \in Importers, importing[j] # NULL PROVE IsFree(importing[j], T)
  <2>1. IsRun(importing[j])
    BY <1>1 DEF RunsInv
  <2>2. QED
    BY <2>1, RunRefs DEF IsFree
<1>2. importing' = [i \in Importers |-> importing'[i]]
  BY DEF RunsInv
<1>3. QED
  BY <1>1, <1>2, RunsGoOn

LEMMA LoadedFile ==
  ASSUME LoadedInv, NEW by, NEW kind, NEW category, NEW track, NEW days, NEW words, CanFile,
         NEW rs, Register(rs), RefsOf(rs) = RefsOf(rows), SeedSet(rs) = SeedSet(rows),
         CasesKnown(rs, accounts, categories),
         rows' = Append(rs, NewRow(by, kind, category, track, days, words)),
         UNCHANGED <<institution, accounts, categories, seeding, importing, imports>>
  PROVE  LoadedInv'
<1> DEFINE g == NewRow(by, kind, category, track, days, words)
<1>1. IsGrievance(g) /\ g.ref = NextReference
  BY NewRowIs
<1> HIDE DEF g
<1> DEFINE r == Append(rs, g)
           year == YearOf(now)
<1>2. g.ref = <<"APP", year, Cardinality(OfYear(RefsOf(rs), year)) + 1>>
  BY <1>1 DEF NextReference, References, RefsOf, OfYear
<1>3. rows' = r
  BY DEF g
<1> HIDE DEF year
<1>4. Register(r) /\ CanJoin(rs, <<g>>, 1) /\ r = rs \o <<g>>
  BY <1>1, <1>2, RegisterGains
<1> HIDE DEF r
<1>5. g.ref[1] = "APP"
  BY <1>2
<1> DEFINE new == <<g>>
           one == 1
<1>6. \A k \in 1 .. one : new[k] = g
  OBVIOUS
<1>7. \A k \in 1 .. one : new[k].ref[1] # "LEGACY" /\ new[k].ref[1] # SeedPrefix
  BY <1>5, <1>6 DEF SeedPrefix
<1>8. CanJoin(rs, new, one) /\ r = rs \o new
  BY <1>4
<1> HIDE DEF new, one
<1>9. CasesKnown(r, accounts, categories)
  <2>1. NewAreKnown(new, one, r, accounts, categories)
    BY <1>7 DEF NewAreKnown
  <2>2. accounts \subseteq accounts /\ categories \subseteq categories
    OBVIOUS
  <2>3. QED
    BY <1>8, <2>1, <2>2, CasesJoin
<1>10. SeedSet(r) = SeedSet(rows)
  <2>1. NoneIs(new, one, SeedPrefix)
    BY <1>7 DEF NoneIs
  <2>2. SeedSet(r) = SeedSet(rs)
    BY <1>8, <2>1, SeedsStay
  <2>3. QED
    BY <2>2
<1>11. RefsOf(r) \subseteq RefsOf(rows) \cup {g.ref}
  <2>1. IsRegister(rs) /\ HasUniqueRefs(rs)
    BY RegisterIs
  <2>2. RowsJoined(r, rs, new, one)
    BY <1>8, <2>1, RowsJoin
  <2>3. RefsOf(r) = RefsOf(rs) \cup {new[k].ref : k \in 1 .. one}
    BY <2>2 DEF RowsJoined
  <2>4. \A k \in 1 .. one : new[k].ref = g.ref
    BY <1>6
  <2>5. QED
    BY <2>3, <2>4
<1>12. \A t \in {g.ref} : t[1] # "LEGACY"
  BY <1>5
<1>13. RunsInv /\ SeedInv /\ CatsInv
  BY DEF LoadedInv
<1>14. RunsInv'
  BY <1>3, <1>11, <1>12, <1>13, RunsBeside
<1>15. RegisterInv' /\ CasesInv' /\ CatsInv' /\ SeedInv'
  BY <1>3, <1>4, <1>9, <1>10, <1>13 DEF RegisterInv, CasesInv, CatsInv, SeedInv
<1>16. QED
  BY <1>14, <1>15 DEF LoadedInv

LEMMA LoadedFileCase ==
  ASSUME LoadedInv, NEW by, NEW kind, NEW c, NEW words, FileCase(by, kind, c, words)
  PROVE  LoadedInv'
<1>1. /\ CanFile /\ rows' = Append(rows, NewRow(by, kind, c.id, c.track, FilingDays(c), words))
      /\ UNCHANGED <<institution, accounts, categories, seeding, importing, imports>>
  BY DEF FileCase
<1>2. Register(rows) /\ CasesKnown(rows, accounts, categories)
  BY DEF LoadedInv, RegisterInv, CasesInv
<1>3. QED
  BY <1>1, <1>2, LoadedFile

LEMMA LoadedDecide ==
  ASSUME LoadedInv, NEW n \in DOMAIN rows, NEW to, Decide(n, to)
  PROVE  LoadedInv'
<1> DEFINE g == WithStatus(rows[n], to, "status_changed")
           r == [rows EXCEPT ![n] = g]
<1>1. /\ rows' = r /\ UNCHANGED <<institution, accounts, categories, seeding, importing, imports>>
  BY DEF Decide
<1>2. /\ Register(rows) /\ CasesKnown(rows, accounts, categories) /\ RunsInv /\ SeedInv /\ CatsInv
  BY DEF LoadedInv, RegisterInv, CasesInv
<1>3. IsGrievance(rows[n])
  BY <1>2, RegisterIs DEF IsRegister
<1>4. IsGrievance(g) /\ Grown(rows[n], g)
  BY <1>3, StatusGrows
<1> HIDE DEF g
<1>5. /\ Register(r) /\ RefsOf(r) = RefsOf(rows) /\ SeedSet(r) = SeedSet(rows)
      /\ CasesKnown(r, accounts, categories)
  BY <1>2, <1>4, RowWorkedOn
<1> HIDE DEF r
<1> DEFINE T == {}
<1>6. RefsOf(r) \subseteq RefsOf(rows) \cup T /\ \A t \in T : t[1] # "LEGACY"
  BY <1>5
<1> HIDE DEF T
<1>7. RunsInv'
  BY <1>1, <1>2, <1>6, RunsBeside
<1>8. RegisterInv' /\ CasesInv' /\ CatsInv' /\ SeedInv'
  BY <1>1, <1>2, <1>5 DEF RegisterInv, CasesInv, CatsInv, SeedInv
<1>9. QED
  BY <1>7, <1>8 DEF LoadedInv

LEMMA LoadedAppeal ==
  ASSUME LoadedInv, NEW n \in DOMAIN rows, FileAppeal(n)
  PROVE  LoadedInv'
<1> DEFINE g  == WithStatus(rows[n], "appealed", "appealed")
           rs == [rows EXCEPT ![n] = g]
<1>1. /\ CanFile /\ UNCHANGED <<institution, accounts, categories, seeding, importing, imports>>
      /\ rows' = Append(rs, NewRow(rows[n].submittedById, "appeal", rows[n].categoryId, "sgrc",
                                   SlaOmbudspersonDays, rows[n].words))
  BY DEF FileAppeal
<1>2. Register(rows) /\ CasesKnown(rows, accounts, categories)
  BY DEF LoadedInv, RegisterInv, CasesInv
<1>3. IsGrievance(rows[n])
  BY <1>2, RegisterIs DEF IsRegister
<1>4. IsGrievance(g) /\ Grown(rows[n], g)
  BY <1>3, StatusGrows
<1> HIDE DEF g
<1>5. /\ Register(rs) /\ RefsOf(rs) = RefsOf(rows) /\ SeedSet(rs) = SeedSet(rows)
      /\ CasesKnown(rs, accounts, categories)
  BY <1>2, <1>4, RowWorkedOn
<1> HIDE DEF rs
<1>6. QED
  BY <1>1, <1>5, LoadedFile

\* The rows of a run that has come to its end join the register.
LEMMA LoadedCommit ==
  ASSUME LoadedInv, NEW i \in Importers, CommitImport(i)
  PROVE  LoadedInv'
<1> DEFINE run   == importing[i]
           new   == run.rows
           count == Len(LegacyComplaints)
           year  == new[1].ref[2]
           a     == accounts \cup run.accounts
           c     == categories \cup run.categories
           r     == rows \o new
           T     == {new[k].ref : k \in 1 .. count}
<1>1. /\ run # NULL /\ run.at = "commit" /\ accounts' = a /\ categories' = c /\ rows' = r
      /\ importing' = [importing EXCEPT ![i] = NULL] /\ UNCHANGED <<institution, seeding, imports>>
  BY DEF CommitImport
<1>2. /\ RunsInv /\ IsRun(run) /\ IsFree(run, RefsOf(rows))
      /\ \A j \in Importers \ {i} : importing[j] # NULL => AreApart(run, importing[j])
  BY <1>1, RunIs
<1>3. /\ Register(rows) /\ CasesKnown(rows, accounts, categories) /\ CategoriesKnown(categories)
      /\ SeedInv
  BY DEF LoadedInv, RegisterInv, CasesInv, CatsInv
<1> HIDE DEF run
<1>4. /\ HoldsDump(run) /\ HoldsTrails(run) /\ run.categories = NewCategories(run.batch)
      /\ run.batch \in 1 .. MaxImports
  BY <1>1, <1>2 DEF IsRun
<1>5. /\ HasLength(new, count) /\ DOMAIN new = 1 .. count /\ DOMAIN LegacyComplaints = 1 .. count
  BY <1>4, DumpIs, ListIs DEF HoldsDump
<1>6. ASSUME NEW k \in 1 .. count
      PROVE  /\ IsGrievance(new[k]) /\ new[k].ref = <<"LEGACY", year, k>> /\ new[k].ref \notin RefsOf(rows)
             /\ FilerKnown(new[k].submittedById, LegacyComplaints[k], run.accounts)
             /\ new[k].categoryId = CategoryFor(run.batch, LegacyComplaints[k])
             /\ new[k].trail = LegacyTrail(k)
  BY <1>2, <1>4, <1>5 DEF HoldsDump, HoldsTrails, IsFree
<1>7. \A k \in 1 .. count : new[k].ref[1] = "LEGACY" /\ new[k].ref[2] = year /\ new[k].ref[3] = k
  <2>1. ASSUME NEW k, NEW ref, ref = <<"LEGACY", year, k>>
        PROVE  ref[1] = "LEGACY" /\ ref[2] = year /\ ref[3] = k
    BY <2>1
  <2>2. QED
    BY <1>6, <2>1
<1>8. CanJoin(rows, new, count)
  <2>1. \A k, l \in 1 .. count : new[k].ref = new[l].ref => k = l
    BY <1>7
  <2>2. QED
    BY <1>5, <1>6, <2>1 DEF CanJoin
<1>9. NoneIs(new, count, "APP") /\ NoneIs(new, count, SeedPrefix)
  BY <1>7 DEF NoneIs, SeedPrefix
<1>10. RefsOf(r) = RefsOf(rows) \cup T
  <2>1. IsRegister(rows) /\ HasUniqueRefs(rows)
    BY <1>3, RegisterIs
  <2>2. RowsJoined(r, rows, new, count)
    BY <1>8, <2>1, RowsJoin
  <2>3. QED
    BY <2>2 DEF RowsJoined
<1>11. \A k \in DOMAIN LegacyComplaints : <<"LEGACY", year, k>> \in RefsOf(r)
  <2> SUFFICES ASSUME NEW k \in 1 .. count PROVE <<"LEGACY", year, k>> \in RefsOf(r)
    BY <1>5
  <2>1. new[k].ref = <<"LEGACY", year, k>> /\ new[k].ref \in T
    BY <1>6
  <2>2. QED
    BY <1>10, <2>1
<1>12. \A ref \in T : \E k \in 1 .. count : ref = new[k].ref
  OBVIOUS
<1> HIDE DEF T
<1>13. accounts \subseteq a /\ categories \subseteq c /\ run.accounts \subseteq a
       /\ NewCategories(run.batch) \subseteq c
  BY <1>4
<1> HIDE DEF a, c, year
<1>14. NewAreKnown(new, count, r, a, c)
  <2> SUFFICES ASSUME NEW k \in 1 .. count
               PROVE  /\ CaseKnown(new[k], a, c)
                      /\ \A j \in DOMAIN LegacyComplaints : <<"LEGACY", new[k].ref[2], j>> \in RefsOf(r)
    BY DEF NewAreKnown
  <2>1. new[k].ref[3] = k /\ new[k].ref[2] = year /\ k \in DOMAIN LegacyComplaints
    BY <1>5, <1>7
  <2>2. FilerKnown(new[k].submittedById, LegacyComplaints[k], a)
    BY <1>6, <1>13 DEF FilerKnown
  <2>3. CategoryKnown(new[k].categoryId, LegacyComplaints[k], c)
    BY <1>4, <1>6, <1>13 DEF CategoryKnown
  <2>4. Begins(LegacyTrail(k), new[k].trail)
    BY <1>6 DEF Begins
  <2>5. CaseKnown(new[k], a, c)
    BY <2>1, <2>2, <2>3, <2>4 DEF CaseKnown
  <2>6. QED
    BY <1>11, <2>1, <2>5
<1>15. r = rows \o new
  OBVIOUS
<1> HIDE DEF r, new, count
<1>16. Register(r)
  BY <1>3, <1>8, <1>9, <1>15, RegisterJoins
<1>17. SeedSet(r) = SeedSet(rows)
  BY <1>3, <1>8, <1>9, <1>15, SeedsStay
<1>18. CasesKnown(r, a, c)
  <2>1. Register(rows) /\ CasesKnown(rows, accounts, categories)
    BY <1>3
  <2>2. accounts \subseteq a /\ categories \subseteq c
    BY <1>13
  <2>3. QED
    BY <1>8, <1>14, <1>15, <2>1, <2>2, CasesJoin
<1>19. CategoriesKnown(c)
  BY <1>3, <1>4 DEF CategoriesKnown, c
<1>20. ASSUME NEW j \in Importers, importing'[j] # NULL
       PROVE  importing'[j] = importing[j] /\ IsFree(importing[j], T)
  <2>1. j # i /\ importing'[j] = importing[j] /\ importing[j] # NULL
    BY <1>1, <1>2, <1>20 DEF RunsInv
  <2>2. AreApart(run, importing[j]) /\ IsRun(importing[j])
    BY <1>2, <2>1 DEF RunsInv
  <2> SUFFICES ASSUME NEW k \in DOMAIN importing[j].rows, importing[j].rows[k].ref \in T PROVE FALSE
    BY <2>1 DEF IsFree
  <2>3. PICK l \in 1 .. count : importing[j].rows[k].ref = new[l].ref
    BY <1>12
  <2>4. importing[j].rows # <<>> /\ importing[j].rows[k].ref[2] = importing[j].rows[1].ref[2]
    BY <2>2, RunRefs
  <2>5. run.rows # <<>>
    <3>1. l \in DOMAIN run.rows
      BY <1>5, <2>3 DEF new
    <3>2. QED
      BY <1>2, <3>1, RunRefs
  <2>6. new[l].ref[2] = run.rows[1].ref[2]
    BY <1>7, <2>3 DEF year, new
  <2>7. run.rows[1].ref[2] # importing[j].rows[1].ref[2]
    BY <2>2, <2>4, <2>5 DEF AreApart
  <2>8. QED
    BY <2>3, <2>4, <2>6, <2>7
<1>21. importing' = [j \in Importers |-> importing'[j]]
  BY <1>1, <1>2 DEF RunsInv
<1>22. RefsOf(r) \subseteq RefsOf(rows) \cup T
  BY <1>10
<1>23. RunsInv'
  BY <1>1, <1>2, <1>20, <1>21, <1>22, RunsGoOn
<1>24. RegisterInv' /\ CasesInv' /\ CatsInv' /\ SeedInv'
  BY <1>1, <1>3, <1>16, <1>17, <1>18, <1>19 DEF RegisterInv, CasesInv, CatsInv, SeedInv
<1>25. QED
  BY <1>23, <1>24 DEF LoadedInv

\* The seed is written once, so its numbers are its own.
LEMMA LoadedFill ==
  ASSUME LoadedInv, FillInstitution
  PROVE  LoadedInv'
<1> DEFINE new == SeedRows
           r   == rows \o new
           a   == accounts \cup SeedAccounts
           c   == categories \cup
                    {[id |-> l.id, name |-> l.name, parent |-> NULL, track |-> l.track, sla |-> l.sla] :
                       l \in ToSet(SeedLeaves)}
           T   == {new[k].ref : k \in 1 .. SeedTotal}
<1>1. /\ seeding /\ ~seeding' /\ accounts' = a /\ categories' = c /\ rows' = r
      /\ UNCHANGED <<institution, importing, imports>>
  BY DEF FillInstitution
<1>2. /\ Register(rows) /\ CasesKnown(rows, accounts, categories) /\ CategoriesKnown(categories)
      /\ SeedInv /\ RunsInv
  BY DEF LoadedInv, RegisterInv, CasesInv, CatsInv
<1>3. SeedSet(rows) = {} /\ institution
  BY <1>1, <1>2 DEF SeedInv
<1>4. /\ SeedTotal \in Nat /\ HasLength(new, SeedTotal)
      /\ \A k \in 1 .. SeedTotal : IsGrievance(new[k]) /\ new[k].ref[1] = SeedPrefix /\ new[k].ref[3] = k
  <2>1. SeedTotal \in Nat /\ IsSeedPart(SeedRows, SeedTotal, 0)
    BY SeedIs
  <2>2. \A k \in 1 .. SeedTotal : 0 + k = k
    BY <2>1
  <2> HIDE DEF new
  <2>3. QED
    BY <2>1, <2>2 DEF IsSeedPart, IsSeedCase, new
<1>5. \A k \in 1 .. SeedTotal : new[k].ref[1] # "APP" /\ new[k].ref[1] # "LEGACY"
  BY <1>4 DEF SeedPrefix
<1> HIDE DEF new
<1>6. \A ref \in RefsOf(rows) : ref[1] # SeedPrefix
  BY <1>3 DEF SeedSet, RefsOf
<1>7. CanJoin(rows, new, SeedTotal)
  <2>1. \A k \in 1 .. SeedTotal : new[k].ref \notin RefsOf(rows)
    BY <1>4, <1>6
  <2>2. \A k, l \in 1 .. SeedTotal : new[k].ref = new[l].ref => k = l
    BY <1>4
  <2>3. QED
    BY <1>4, <2>1, <2>2 DEF CanJoin
<1>8. NoneIs(new, SeedTotal, "APP") /\ NewAreKnown(new, SeedTotal, r, a, c)
  BY <1>5 DEF NoneIs, NewAreKnown
<1>9. \A ref \in T : ref[1] # "LEGACY"
  BY <1>5
<1>10. RowsJoined(r, rows, new, SeedTotal)
  <2>1. IsRegister(rows) /\ HasUniqueRefs(rows)
    BY <1>2, RegisterIs
  <2>2. QED
    BY <1>7, <2>1, RowsJoin
<1>11. RefsOf(r) \subseteq RefsOf(rows) \cup T
  BY <1>10 DEF RowsJoined
<1> HIDE DEF T
<1>12. accounts \subseteq a /\ categories \subseteq c
  OBVIOUS
<1>13. CategoriesKnown(c)
  <2> SUFFICES ASSUME NEW l \in ToSet(SeedLeaves), NEW d,
                      d = [id |-> l.id, name |-> l.name, parent |-> NULL, track |-> l.track, sla |-> l.sla]
               PROVE  \E i \in DOMAIN SeedLeaves : d.id = SeedLeaves[i].id /\ d.sla = SeedLeaves[i].sla
    BY <1>2 DEF CategoriesKnown
  <2>1. d.id = l.id /\ d.sla = l.sla
    OBVIOUS
  <2>2. \E i \in DOMAIN SeedLeaves : l = SeedLeaves[i]
    BY DEF ToSet
  <2>3. QED
    BY <2>1, <2>2
<1>14. r = rows \o new
  OBVIOUS
<1> HIDE DEF a, c, r
<1>15. Register(r)
  BY <1>2, <1>7, <1>8, <1>14, RegisterJoins
<1>16. CasesKnown(r, a, c)
  BY <1>2, <1>7, <1>8, <1>12, <1>14, CasesJoin
<1>17. Cardinality(SeedSet(r)) = SeedTotal
  <2> DEFINE m == Len(rows)
  <2>1. /\ m \in Nat /\ DOMAIN rows = 1 .. m /\ DOMAIN r = 1 .. (m + SeedTotal)
        /\ \A n \in DOMAIN rows : r[n] = rows[n]
        /\ \A k \in 1 .. SeedTotal : r[m + k] = new[k]
        /\ \A n \in DOMAIN r \ DOMAIN rows : \E k \in 1 .. SeedTotal : n = m + k
    BY <1>10 DEF RowsJoined
  <2> HIDE DEF m
  <2>2. \A n \in 1 .. m : r[n].ref[1] # SeedPrefix
    BY <1>3, <2>1 DEF SeedSet
  <2>3. \A n \in (m + 1) .. (m + SeedTotal) : n \in DOMAIN r \ DOMAIN rows
    BY <1>4, <2>1
  <2>4. ASSUME NEW n \in (m + 1) .. (m + SeedTotal) PROVE r[n].ref[1] = SeedPrefix
    <3>1. PICK k \in 1 .. SeedTotal : n = m + k
      BY <2>1, <2>3
    <3>2. r[n] = new[k]
      BY <2>1, <3>1
    <3>3. QED
      BY <1>4, <3>2
  <2>5. \A n \in DOMAIN r : n \in 1 .. m \/ n \in (m + 1) .. (m + SeedTotal)
    BY <1>4, <2>1
  <2>6. SeedSet(r) = (m + 1) .. (m + SeedTotal)
    BY <2>2, <2>3, <2>4, <2>5 DEF SeedSet
  <2>7. Cardinality((m + 1) .. (m + SeedTotal)) = SeedTotal
    BY <1>4, <2>1, FS_Interval
  <2>8. QED
    BY <2>6, <2>7
<1>18. RunsInv'
  BY <1>1, <1>2, <1>9, <1>11, RunsBeside
<1>19. RegisterInv' /\ CasesInv' /\ CatsInv'
  BY <1>1, <1>13, <1>15, <1>16 DEF RegisterInv, CasesInv, CatsInv
<1>20. SeedInv'
  BY <1>1, <1>3, <1>17 DEF SeedInv
<1>21. QED
  BY <1>18, <1>19, <1>20 DEF LoadedInv

LEMMA LoadedRest ==
  ASSUME LoadedInv, EnsureInstitution \/ SeedDies \/ Tick \/ UNCHANGED vars
  PROVE  LoadedInv'
<1>1. UNCHANGED <<accounts, categories, rows, importing, imports>>
  BY DEF EnsureInstitution, SeedDies, Tick, vars
<1>2. RegisterInv' /\ CasesInv' /\ CatsInv' /\ RunsInv'
  BY <1>1 DEF LoadedInv, RegisterInv, CasesInv, CatsInv, RunsInv
<1>3. \/ ~institution /\ institution' /\ seeding'
      \/ seeding /\ ~seeding' /\ institution' = institution
      \/ institution' = institution /\ seeding' = seeding
  BY DEF EnsureInstitution, SeedDies, Tick, vars
<1>4. SeedInv'
  BY <1>1, <1>3 DEF LoadedInv, SeedInv
<1>5. QED
  BY <1>2, <1>4 DEF LoadedInv

LEMMA NextLoaded == LoadedInv /\ [Next]_vars => LoadedInv'
<1> SUFFICES ASSUME LoadedInv, [Next]_vars PROVE LoadedInv'
  OBVIOUS
<1>1. ASSUME NEW i \in Importers, Import(i) PROVE LoadedInv'
  BY <1>1, LoadedStart, LoadedUsers, LoadedCategories, LoadedComplaints, LoadedTrails, LoadedCommit,
     LoadedDies DEF Import
<1>2. ASSUME NEW by, NEW kind, NEW c, NEW w, FileCase(by, kind, c, w) PROVE LoadedInv'
  BY <1>2, LoadedFileCase
<1>3. ASSUME NEW n \in DOMAIN rows, NEW to, Decide(n, to) PROVE LoadedInv'
  BY <1>3, LoadedDecide
<1>4. ASSUME NEW n \in DOMAIN rows, FileAppeal(n) PROVE LoadedInv'
  BY <1>4, LoadedAppeal
<1>5. CASE FillInstitution
  BY <1>5, LoadedFill
<1>6. CASE EnsureInstitution \/ SeedDies \/ Tick \/ UNCHANGED vars
  BY <1>6, LoadedRest
<1>7. QED
  BY <1>1, <1>2, <1>3, <1>4, <1>5, <1>6 DEF Next

LEMMA LoadedHolds == Spec => []LoadedInv
<1>1. QED
  BY InitLoaded, NextLoaded, PTL DEF Spec

-----------------------------------------------------------------------------
(* What the portal can count on. *)

LEMMA LoadedFilingIsNeverStuck == LoadedInv => FilingIsNeverStuck
<1> SUFFICES ASSUME LoadedInv, institution
             PROVE  NextReference \notin References
  BY DEF FilingIsNeverStuck
<1> DEFINE R == RefsOf(rows)
           y == YearOf(now)
           c == Cardinality(OfYear(R, y)) + 1
<1>1. R = References /\ NextReference = <<"APP", y, c>>
  BY DEF RefsOf, References, NextReference, OfYear
<1>2. AreReferences(R) /\ NumbersAreDense(R)
  BY RegisterIs DEF LoadedInv, RegisterInv, Register
<1> HIDE DEF R, y
<1>3. <<"APP", y, c>> \notin R
  BY <1>2, NextIsFree
<1>4. QED
  BY <1>1, <1>3

\* The next number of the filing form is free, whatever was imported and seeded and in what
\* order: the form counts the references of its year and adds one, and a taken number would
\* be counted again without end (reference.ts:54-87, import-legacy.ts:310, seed.ts:480). The
\* references that bear the form's prefix come from the form alone, and have no gaps.
THEOREM NumbersAreFree == Spec => []FilingIsNeverStuck
<1>1. QED
  BY LoadedHolds, LoadedFilingIsNeverStuck, PTL

-----------------------------------------------------------------------------
(* What a load leaves. *)

LEMMA ReferencesAreCounted ==
  ASSUME NEW rs, Register(rs)
  PROVE  Cardinality(RefsOf(rs)) = Len(rs)
<1> DEFINE f == [n \in DOMAIN rs |-> rs[n].ref]
<1>1. /\ HasUniqueRefs(rs) /\ Len(rs) \in Nat /\ DOMAIN rs = 1 .. Len(rs)
  BY RegisterIs
<1>2. IsFiniteSet(DOMAIN rs) /\ Cardinality(DOMAIN rs) = Len(rs)
  <2>1. ASSUME NEW m \in Nat PROVE IsFiniteSet(1 .. m) /\ Cardinality(1 .. m) = m
    BY FS_Interval
  <2>2. QED
    BY <1>1, <2>1
<1>3. f \in Surjection(DOMAIN rs, RefsOf(rs))
  BY DEF Surjection, RefsOf
<1>4. \A m, n \in DOMAIN rs : f[m] = f[n] => m = n
  BY <1>1 DEF HasUniqueRefs
<1> HIDE DEF f
<1>5. f \in Bijection(DOMAIN rs, RefsOf(rs))
  BY <1>3, <1>4 DEF Surjection, Bijection, Injection, IsInjective
<1>6. QED
  BY <1>2, <1>5, FS_Bijection DEF ExistsBijection

\* The numbers of the imported cases of a year are those of the complaints.
LEMMA DumpIsThere ==
  ASSUME LoadedInv, NEW n \in LegacyRows
  PROVE  {rows[m].ref[3] : m \in Legacy(rows[n].ref[2])} = DOMAIN LegacyComplaints
<1> DEFINE year == rows[n].ref[2]
<1>1. n \in DOMAIN rows /\ rows[n].ref[1] = "LEGACY"
  BY DEF LegacyRows
<1>2. CasesKnown(rows, accounts, categories)
  BY DEF LoadedInv, CasesInv
<1>3. ASSUME NEW m \in Legacy(year) PROVE rows[m].ref[3] \in DOMAIN LegacyComplaints
  <2>1. m \in DOMAIN rows /\ rows[m].ref[1] = "LEGACY"
    BY DEF Legacy
  <2>2. CaseKnown(rows[m], accounts, categories)
    BY <1>2, <2>1 DEF CasesKnown
  <2>3. QED
    BY <2>2 DEF CaseKnown
<1>4. ASSUME NEW k \in DOMAIN LegacyComplaints
      PROVE  \E m \in Legacy(year) : rows[m].ref[3] = k
  <2>1. <<"LEGACY", year, k>> \in RefsOf(rows)
    BY <1>1, <1>2 DEF CasesKnown
  <2>2. PICK m \in DOMAIN rows : rows[m].ref = <<"LEGACY", year, k>>
    BY <2>1 DEF RefsOf
  <2>3. rows[m].ref[1] = "LEGACY" /\ rows[m].ref[2] = year /\ rows[m].ref[3] = k
    BY <2>2
  <2> HIDE DEF year
  <2>4. m \in Legacy(year)
    BY <2>3 DEF Legacy
  <2>5. QED
    BY <2>3, <2>4
<1> HIDE DEF year
<1>5. {rows[m].ref[3] : m \in Legacy(year)} = DOMAIN LegacyComplaints
  BY <1>3, <1>4
<1>6. QED
  BY <1>5 DEF year

LEMMA CaseHasItsTrail ==
  ASSUME LoadedInv, NEW n \in LegacyRows
  PROVE  /\ CaseKnown(rows[n], accounts, categories)
         /\ IsPrefix(LegacyTrail(rows[n].ref[3]), rows[n].trail)
         /\ Len(rows[n].trail) >= 1 + Cardinality(OwnRemarks(rows[n].ref[3]))
<1> DEFINE k == rows[n].ref[3]
           a == LegacyTrail(k)
           b == rows[n].trail
           count == Cardinality(OwnRemarks(k))
<1>1. n \in DOMAIN rows /\ rows[n].ref[1] = "LEGACY"
  BY DEF LegacyRows
<1>2. CaseKnown(rows[n], accounts, categories)
  BY <1>1 DEF LoadedInv, CasesInv, CasesKnown
<1>3. Begins(a, b)
  BY <1>2 DEF CaseKnown
<1>4. HasLength(b, Len(b))
  BY <1>1 DEF LoadedInv, RegisterInv, Register, IsRegister, IsGrievance
<1>5. HasLength(a, count + 1) /\ count \in Nat
  BY TrailIs, RemarksAreFinite
<1> HIDE DEF a, b, count
<1>6. IsPrefix(a, b) /\ count + 1 <= Len(b)
  BY <1>3, <1>4, <1>5, PrefixIs
<1>7. Len(b) \in Nat
  BY <1>4 DEF HasLength
<1>8. Len(b) >= 1 + count
  BY <1>5, <1>6, <1>7
<1>9. QED
  BY <1>2, <1>6, <1>8 DEF a, b, count

LEMMA LoadedLoadsAreWhole == LoadedInv => LoadsAreWhole
<1> SUFFICES ASSUME LoadedInv PROVE LoadsAreWhole
  OBVIOUS
<1>1. Cardinality(References) = Len(rows)
  <2>1. References = RefsOf(rows)
    BY DEF References, RefsOf
  <2>2. QED
    BY <2>1, ReferencesAreCounted DEF LoadedInv, RegisterInv
<1>2. Cardinality({n \in DOMAIN rows : rows[n].ref[1] = SeedPrefix}) \in {0, Len(SeedRows)}
  <2>1. {n \in DOMAIN rows : rows[n].ref[1] = SeedPrefix} = SeedSet(rows)
    BY DEF SeedSet
  <2>2. HasLength(SeedRows, SeedTotal)
    BY SeedIs DEF IsSeedPart
  <2>3. Len(SeedRows) = SeedTotal
    BY <2>2, ListIs
  <2>4. CASE SeedSet(rows) = {}
    BY <2>1, <2>4, FS_EmptySet
  <2>5. CASE SeedSet(rows) # {}
    <3>1. Cardinality(SeedSet(rows)) = SeedTotal
      BY <2>5 DEF LoadedInv, SeedInv
    <3>2. QED
      BY <2>1, <2>3, <3>1
  <2>6. QED
    BY <2>4, <2>5
<1>3. QED
  BY <1>1, <1>2, DumpIsThere, CaseHasItsTrail DEF LoadsAreWhole

\* A load happens once or not at all, for every dump and every number of runs of the import:
\* the unique reference ends a run that comes second in a year, a transaction that dies leaves
\* nothing, and the seed fills an institution that it has just made (import-legacy.ts:221-415,
\* seed.ts:996-1010).
THEOREM LoadsAreOnce == Spec => []LoadsAreWhole
<1>1. QED
  BY LoadedHolds, LoadedLoadsAreWhole, PTL

-----------------------------------------------------------------------------
(* What an imported case is. *)

\* The category that an import found for a complaint has the name the complaint gave it.
NamedAsBefore(id, c) ==
  LET names == {cat.name : cat \in {d \in categories : d.id = id}} IN
  \/ names = {c.sub}
  \/ \E k \in DOMAIN LegacyCats : LegacyCats[k].id = c.cat /\ names = {LegacyCats[k].name}

\* What carries the id of an import's category is that category.
LEMMA CategoryIsItself ==
  ASSUME CatsInv, NEW b \in 1 .. MaxImports, NEW list \in {"cat", "sub"},
         NEW k \in DOMAIN LegacyCats \cup DOMAIN LegacySubcats,
         NEW d \in categories, d.id = <<b, list, k>>
  PROVE  d \in NewCategories(b)
<1>1. ~\E i \in DOMAIN SeedLeaves : d.id = SeedLeaves[i].id
  BY DumpAssumption
<1>2. PICK e \in 1 .. MaxImports : d \in NewCategories(e)
  BY <1>1 DEF CatsInv, CategoriesKnown
<1> DEFINE up(i) == LET above == {m \in DOMAIN LegacyCats : LegacyCats[m].id = LegacySubcats[i].parent}
                    IN IF above = {} THEN NULL ELSE <<e, "cat", Least(above)>>
<1>3. \/ \E i \in DOMAIN LegacyCats : d.id = <<e, "cat", i>>
      \/ \E i \in DOMAIN LegacySubcats : d.id = <<e, "sub", i>>
  <2>1. NewCategories(e) =
          {[id |-> <<e, "cat", i>>, name |-> LegacyCats[i].name, parent |-> NULL,
            track |-> "sgrc", sla |-> NULL] : i \in DOMAIN LegacyCats}
            \cup {[id |-> <<e, "sub", i>>, name |-> LegacySubcats[i].name, parent |-> up(i),
                   track |-> "sgrc", sla |-> NULL] : i \in DOMAIN LegacySubcats}
    BY DEF NewCategories
  <2> HIDE DEF up
  <2>2. QED
    BY <1>2, <2>1
<1>4. ASSUME NEW x, NEW i, <<b, list, k>> = <<e, x, i>> PROVE b = e
  BY <1>4
<1>5. b = e
  BY <1>3, <1>4
<1>6. QED
  BY <1>2, <1>5

LEMMA CategoryHasName ==
  ASSUME CatsInv, NEW b \in 1 .. MaxImports, NewCategories(b) \subseteq categories,
         NEW c, CategoryFor(b, c) # NULL
  PROVE  NamedAsBefore(CategoryFor(b, c), c)
<1> DEFINE subs == {i \in DOMAIN LegacySubcats : LegacySubcats[i].name = c.sub}
           cats == {i \in DOMAIN LegacyCats : LegacyCats[i].id = c.cat}
           last == CHOOSE i \in subs : \A j \in subs : j <= i
           up(i) == LET above == {k \in DOMAIN LegacyCats : LegacyCats[k].id = LegacySubcats[i].parent}
                    IN IF above = {} THEN NULL ELSE <<b, "cat", Least(above)>>
           Sub(i) == [id |-> <<b, "sub", i>>, name |-> LegacySubcats[i].name, parent |-> up(i),
                      track |-> "sgrc", sla |-> NULL]
           Cat(i) == [id |-> <<b, "cat", i>>, name |-> LegacyCats[i].name, parent |-> NULL,
                      track |-> "sgrc", sla |-> NULL]
<1>1. NewCategories(b) = {Cat(i) : i \in DOMAIN LegacyCats} \cup {Sub(i) : i \in DOMAIN LegacySubcats}
  BY DEF NewCategories
<1>2. /\ \A i : Sub(i).id = <<b, "sub", i>> /\ Sub(i).name = LegacySubcats[i].name
      /\ \A i : Cat(i).id = <<b, "cat", i>> /\ Cat(i).name = LegacyCats[i].name
  OBVIOUS
<1> HIDE DEF Sub, Cat, up
<1>3. ASSUME NEW x, NEW i, NEW y, NEW j, <<b, x, i>> = <<b, y, j>> PROVE x = y /\ i = j
  BY <1>3
<1>4. CASE subs # {}
  <2>1. \E i \in subs : \A j \in subs : j <= i
    <3>1. subs \subseteq 1 .. Len(LegacySubcats) /\ Len(LegacySubcats) \in Nat
      BY DumpIs
    <3> HIDE DEF subs
    <3>2. QED
      BY <1>4, <3>1, GreatestNumber
  <2>2. last \in subs
    BY <2>1
  <2>3. last \in DOMAIN LegacySubcats /\ LegacySubcats[last].name = c.sub
    BY <2>2
  <2>4. CategoryFor(b, c) = <<b, "sub", last>>
    BY <1>4 DEF CategoryFor
  <2> HIDE DEF last, subs
  <2>5. Sub(last) \in categories /\ Sub(last).id = CategoryFor(b, c) /\ Sub(last).name = c.sub
    BY <1>1, <1>2, <2>3, <2>4
  <2>6. ASSUME NEW d \in categories, d.id = CategoryFor(b, c) PROVE d.name = c.sub
    <3>1. d \in NewCategories(b)
      BY <2>3, <2>4, <2>6, CategoryIsItself
    <3>2. CASE \E i \in DOMAIN LegacyCats : d = Cat(i)
      <4>1. PICK i \in DOMAIN LegacyCats : d = Cat(i)
        BY <3>2
      <4>2. <<b, "sub", last>> = <<b, "cat", i>>
        BY <1>2, <2>4, <2>6, <4>1
      <4>3. "sub" = "cat"
        BY <1>3, <4>2
      <4>4. QED
        BY <4>3
    <3>3. CASE \E i \in DOMAIN LegacySubcats : d = Sub(i)
      <4>1. PICK i \in DOMAIN LegacySubcats : d = Sub(i)
        BY <3>3
      <4>2. <<b, "sub", last>> = <<b, "sub", i>>
        BY <1>2, <2>4, <2>6, <4>1
      <4>3. last = i
        BY <1>3, <4>2
      <4>4. QED
        BY <1>2, <2>3, <4>1, <4>3
    <3>4. QED
      BY <1>1, <3>1, <3>2, <3>3
  <2>7. {cat.name : cat \in {d \in categories : d.id = CategoryFor(b, c)}} = {c.sub}
    BY <2>5, <2>6
  <2>8. QED
    BY <2>7 DEF NamedAsBefore
<1>5. CASE subs = {}
  <2>1. cats # {} /\ CategoryFor(b, c) = <<b, "cat", Least(cats)>>
    BY <1>5 DEF CategoryFor
  <2>2. \E x \in cats : \A y \in cats : x <= y
    <3>1. cats \subseteq Nat
      BY DumpIs
    <3> HIDE DEF cats
    <3>2. QED
      BY <2>1, <3>1, LeastNumber
  <2> DEFINE first == Least(cats)
  <2>3. first \in cats
    BY <2>2 DEF Least
  <2>4. first \in DOMAIN LegacyCats /\ LegacyCats[first].id = c.cat
    BY <2>3
  <2>5. CategoryFor(b, c) = <<b, "cat", first>>
    BY <2>1
  <2> HIDE DEF first, cats
  <2>6. Cat(first) \in categories /\ Cat(first).id = CategoryFor(b, c) /\ Cat(first).name = LegacyCats[first].name
    BY <1>1, <1>2, <2>4, <2>5
  <2>7. ASSUME NEW d \in categories, d.id = CategoryFor(b, c) PROVE d.name = LegacyCats[first].name
    <3>1. d \in NewCategories(b)
      BY <2>4, <2>5, <2>7, CategoryIsItself
    <3>2. CASE \E i \in DOMAIN LegacySubcats : d = Sub(i)
      <4>1. PICK i \in DOMAIN LegacySubcats : d = Sub(i)
        BY <3>2
      <4>2. <<b, "cat", first>> = <<b, "sub", i>>
        BY <1>2, <2>5, <2>7, <4>1
      <4>3. "cat" = "sub"
        BY <1>3, <4>2
      <4>4. QED
        BY <4>3
    <3>3. CASE \E i \in DOMAIN LegacyCats : d = Cat(i)
      <4>1. PICK i \in DOMAIN LegacyCats : d = Cat(i)
        BY <3>3
      <4>2. <<b, "cat", first>> = <<b, "cat", i>>
        BY <1>2, <2>5, <2>7, <4>1
      <4>3. first = i
        BY <1>3, <4>2
      <4>4. QED
        BY <1>2, <4>1, <4>3
    <3>4. QED
      BY <1>1, <3>1, <3>2, <3>3
  <2>8. {cat.name : cat \in {d \in categories : d.id = CategoryFor(b, c)}} = {LegacyCats[first].name}
    BY <2>6, <2>7
  <2>9. QED
    BY <2>4, <2>8 DEF NamedAsBefore
<1>6. QED
  BY <1>4, <1>5

LEMMA LoadedLegacyCasesAreThemselves == LoadedInv => LegacyCasesAreThemselves
<1> SUFFICES ASSUME LoadedInv, NEW n \in LegacyRows, NEW c, c = LegacyComplaints[rows[n].ref[3]]
             PROVE  /\ FilerKnown(rows[n].submittedById, c, accounts)
                    /\ rows[n].categoryId # NULL => NamedAsBefore(rows[n].categoryId, c)
                    /\ IsPrefix(LegacyTrail(rows[n].ref[3]), rows[n].trail)
  BY DEF LegacyCasesAreThemselves, FilerKnown, NamedAsBefore
<1>1. /\ CaseKnown(rows[n], accounts, categories)
      /\ IsPrefix(LegacyTrail(rows[n].ref[3]), rows[n].trail)
  BY CaseHasItsTrail
<1>2. FilerKnown(rows[n].submittedById, c, accounts)
  BY <1>1 DEF CaseKnown
<1>3. ASSUME rows[n].categoryId # NULL PROVE NamedAsBefore(rows[n].categoryId, c)
  <2>1. PICK b \in 1 .. MaxImports : /\ rows[n].categoryId = CategoryFor(b, c)
                                     /\ NewCategories(b) \subseteq categories
    BY <1>1, <1>3 DEF CaseKnown, CategoryKnown
  <2>2. CatsInv
    BY DEF LoadedInv
  <2>3. NamedAsBefore(CategoryFor(b, c), c)
    BY <1>3, <2>1, <2>2, CategoryHasName
  <2>4. QED
    BY <2>1, <2>3
<1>4. QED
  BY <1>1, <1>2, <1>3

\* An imported case is about whom and what it was about: its filer is the student who wrote
\* it, with the keys of administrators apart; its category has the name it had; and its trail
\* begins with its own remarks, whatever has been decided since (import-legacy.ts:226-370).
THEOREM CasesAreThemselves == Spec => []LegacyCasesAreThemselves
<1>1. QED
  BY LoadedHolds, LoadedLegacyCasesAreThemselves, PTL

-----------------------------------------------------------------------------
(* Lists in order. *)

\* Numbers with values to order them by.
HasValues(v) ==
  /\ DOMAIN v \subseteq Nat /\ IsFiniteSet(DOMAIN v)
  /\ \A n \in DOMAIN v : v[n] \in Int

Earlier(v, n) == {m \in DOMAIN v : Before(v, m, n)}
PlaceOf(v, n) == Cardinality(Earlier(v, n)) + 1

\* The list o has each of them once, in order.
IsOrder(o, v) ==
  /\ HasLength(o, Cardinality(DOMAIN v))
  /\ \A k \in DOMAIN o : o[k] \in DOMAIN v
  /\ \A n \in DOMAIN v : \E k \in DOMAIN o : o[k] = n
  /\ \A j, k \in DOMAIN o : j < k => Before(v, o[j], o[k])

LEMMA BeforeIsStrict ==
  ASSUME NEW v, HasValues(v)
  PROVE  /\ \A n \in DOMAIN v : ~Before(v, n, n)
         /\ \A m, n \in DOMAIN v : m = n \/ Before(v, m, n) \/ Before(v, n, m)
         /\ \A l, m, n \in DOMAIN v : Before(v, l, m) /\ Before(v, m, n) => Before(v, l, n)
<1>1. \A n \in DOMAIN v : n \in Nat /\ v[n] \in Int
  BY DEF HasValues
<1>2. QED
  BY <1>1 DEF Before

LEMMA PlacesGrow ==
  ASSUME NEW v, HasValues(v), NEW n \in DOMAIN v
  PROVE  /\ PlaceOf(v, n) \in 1 .. Cardinality(DOMAIN v)
         /\ \A m \in DOMAIN v : Before(v, m, n) => PlaceOf(v, m) < PlaceOf(v, n)
<1>1. IsFiniteSet(DOMAIN v)
  BY DEF HasValues
<1>2. ASSUME NEW x \in DOMAIN v PROVE IsFiniteSet(Earlier(v, x)) /\ Cardinality(Earlier(v, x)) \in Nat
  <2>1. Earlier(v, x) \in SUBSET DOMAIN v
    BY DEF Earlier
  <2>2. QED
    BY <1>1, <2>1, FS_Subset, FS_CardinalityType
<1>3. Cardinality(DOMAIN v) \in Nat /\ Cardinality(Earlier(v, n)) < Cardinality(DOMAIN v)
  <2>1. Earlier(v, n) \subseteq DOMAIN v /\ n \notin Earlier(v, n)
    BY BeforeIsStrict DEF Earlier
  <2>2. Earlier(v, n) # DOMAIN v
    BY <2>1
  <2>3. QED
    BY <1>1, <2>1, <2>2, FS_Subset, FS_CardinalityType
<1>4. ASSUME NEW m \in DOMAIN v, Before(v, m, n)
      PROVE  Cardinality(Earlier(v, m)) < Cardinality(Earlier(v, n))
  <2>1. Earlier(v, m) \subseteq Earlier(v, n) /\ m \in Earlier(v, n) /\ m \notin Earlier(v, m)
    BY <1>4, BeforeIsStrict DEF Earlier
  <2>2. Earlier(v, m) # Earlier(v, n)
    BY <2>1
  <2>3. QED
    BY <1>2, <2>1, <2>2, FS_Subset, FS_CardinalityType
<1>5. QED
  BY <1>2, <1>3, <1>4 DEF PlaceOf

LEMMA PlacesAreTaken ==
  ASSUME NEW v, HasValues(v)
  PROVE  /\ \A m, n \in DOMAIN v : PlaceOf(v, m) = PlaceOf(v, n) => m = n
         /\ \A k \in 1 .. Cardinality(DOMAIN v) : \E n \in DOMAIN v : PlaceOf(v, n) = k
<1> DEFINE S == DOMAIN v
           c == Cardinality(S)
           f == [n \in S |-> PlaceOf(v, n)]
<1>1. IsFiniteSet(S) /\ c \in Nat
  BY FS_CardinalityType DEF HasValues
<1>2. \A n \in S : PlaceOf(v, n) \in 1 .. c
  BY PlacesGrow
<1>3. ASSUME NEW m \in S, NEW n \in S, PlaceOf(v, m) = PlaceOf(v, n) PROVE m = n
  <2>1. ~Before(v, m, n) /\ ~Before(v, n, m)
    BY <1>1, <1>2, <1>3, PlacesGrow
  <2>2. QED
    BY <2>1, BeforeIsStrict
<1>4. IsFiniteSet(1 .. c) /\ Cardinality(1 .. c) = c
  <2>1. ASSUME NEW m \in Nat PROVE IsFiniteSet(1 .. m) /\ Cardinality(1 .. m) = m
    BY FS_Interval
  <2>2. QED
    BY <1>1, <2>1
<1> DEFINE T == 1 .. c
<1>5. \A n \in S : f[n] \in T /\ f[n] = PlaceOf(v, n)
  BY <1>2
<1>6. IsFiniteSet(T) /\ Cardinality(S) = Cardinality(T)
  BY <1>4
<1> HIDE DEF T, c
<1>7. f \in Injection(S, T)
  BY <1>3, <1>5 DEF Injection, IsInjective
<1> HIDE DEF f
<1>8. f \in Surjection(S, T)
  BY <1>1, <1>6, <1>7, FS_Injection
<1>9. \A k \in T : \E n \in S : f[n] = k
  BY <1>8 DEF Surjection
<1>10. QED
  BY <1>3, <1>5, <1>9 DEF T, c

\* InOrder lists its numbers in order, each once.
LEMMA OrderIs ==
  ASSUME NEW v, HasValues(v), NEW o, o = InOrder(v)
  PROVE  IsOrder(o, v)
<1> DEFINE c == Cardinality(DOMAIN v)
           S == DOMAIN v
<1>1. c \in Nat
  BY FS_CardinalityType DEF HasValues
<1>2. o = [k \in 1 .. c |-> CHOOSE n \in S : PlaceOf(v, n) = k]
  <2> DEFINE place == [n \in S |-> Cardinality({m \in S : Before(v, m, n)}) + 1]
  <2>1. \A n \in S : place[n] = PlaceOf(v, n)
    BY DEF PlaceOf, Earlier
  <2>2. o = [k \in 1 .. c |-> CHOOSE n \in S : place[n] = k]
    BY DEF InOrder
  <2> HIDE DEF place
  <2>3. ASSUME NEW k PROVE (CHOOSE n \in S : place[n] = k) = (CHOOSE n \in S : PlaceOf(v, n) = k)
    <3>1. \A n : n \in S /\ place[n] = k <=> n \in S /\ PlaceOf(v, n) = k
      BY <2>1
    <3>2. {n \in S : place[n] = k} = {n \in S : PlaceOf(v, n) = k}
      BY <3>1
    <3>3. QED
      BY <3>1
  <2>4. QED
    BY <2>2, <2>3
<1>3. ASSUME NEW k \in 1 .. c PROVE o[k] \in S /\ PlaceOf(v, o[k]) = k
  <2>1. \E n \in S : PlaceOf(v, n) = k
    BY PlacesAreTaken
  <2>2. o[k] = CHOOSE n \in S : PlaceOf(v, n) = k
    BY <1>2
  <2>3. QED
    BY <2>1, <2>2
<1>4. HasLength(o, c) /\ DOMAIN o = 1 .. c
  BY <1>1, <1>2 DEF HasLength
<1>5. ASSUME NEW n \in S PROVE \E k \in DOMAIN o : o[k] = n
  <2>1. PlaceOf(v, n) \in 1 .. c
    BY PlacesGrow
  <2>2. PlaceOf(v, o[PlaceOf(v, n)]) = PlaceOf(v, n) /\ o[PlaceOf(v, n)] \in S
    BY <1>3, <2>1
  <2>3. QED
    BY <1>4, <2>1, <2>2, PlacesAreTaken
<1>6. ASSUME NEW j \in DOMAIN o, NEW k \in DOMAIN o, j < k PROVE Before(v, o[j], o[k])
  <2>1. o[j] \in S /\ o[k] \in S /\ PlaceOf(v, o[j]) = j /\ PlaceOf(v, o[k]) = k
    BY <1>3, <1>4
  <2>2. j \in Nat /\ k \in Nat
    BY <1>4
  <2>3. ~Before(v, o[k], o[j])
    <3>1. Before(v, o[k], o[j]) => PlaceOf(v, o[k]) < PlaceOf(v, o[j])
      BY <2>1, PlacesGrow
    <3>2. QED
      BY <1>6, <2>1, <2>2, <3>1
  <2>4. o[j] # o[k]
    BY <1>6, <2>1, <2>2
  <2>5. QED
    BY <2>1, <2>3, <2>4, BeforeIsStrict
<1>7. QED
  BY <1>3, <1>4, <1>5, <1>6 DEF IsOrder

-----------------------------------------------------------------------------
(* Dates. *)

IsDate(x) == x = NULL \/ x \in Int

\* Every row has a date of filing, and those of an import have no deadline.
HasDates(g) ==
  /\ g.createdAt \in Int
  /\ IsDate(g.dueAt) /\ IsDate(g.resolvedAt) /\ IsDate(g.closedAt)
  /\ g.ref[1] = "LEGACY" => g.dueAt = NULL

AllDated(rs) == \A n \in DOMAIN rs : HasDates(rs[n])

DatesInv ==
  /\ now \in Nat /\ AllDated(rows) /\ IsFiniteSet(categories)
  /\ \A i \in Importers : importing[i] # NULL => AllDated(importing[i].rows)

LEMMA DatedJoin ==
  ASSUME NEW m, NEW n, NEW s, HasLength(s, m), AllDated(s), NEW t, HasLength(t, n), AllDated(t),
         NEW u, u = s \o t
  PROVE  AllDated(u)
<1>1. /\ m \in Nat /\ n \in Nat /\ DOMAIN s = 1 .. m /\ DOMAIN t = 1 .. n
  BY ListIs
<1>2. Joined(u, s, m, t, n)
  BY ListsJoin
<1>3. DOMAIN u = 1 .. (m + n)
  <2>1. HasLength(u, m + n)
    BY <1>2 DEF Joined
  <2>2. QED
    BY <2>1, ListIs
<1>4. ASSUME NEW i \in 1 .. (m + n) PROVE HasDates(u[i])
  <2>1. CASE i \in 1 .. m
    BY <1>1, <1>2, <2>1 DEF Joined, AllDated
  <2>2. CASE i \notin 1 .. m
    <3>1. i - m \in 1 .. n /\ i = m + (i - m)
      BY <1>1, <2>2
    <3>2. u[i] = t[i - m]
      BY <1>2, <3>1 DEF Joined
    <3>3. QED
      BY <1>1, <3>1, <3>2 DEF AllDated
  <2>3. QED
    BY <2>1, <2>2
<1>5. QED
  BY <1>3, <1>4 DEF AllDated

LEMMA DatedGrows ==
  ASSUME NEW s, IsRegister(s), AllDated(s), NEW g, HasDates(g), NEW u, u = Append(s, g)
  PROVE  AllDated(u)
<1> DEFINE n == Len(s)
<1>1. HasLength(s, n)
  BY DEF IsRegister
<1> HIDE DEF n
<1>2. n \in Nat /\ DOMAIN s = 1 .. n
  BY <1>1, ListIs
<1>3. HasLength(u, n + 1) /\ u[n + 1] = g /\ \A i \in 1 .. n : u[i] = s[i]
  <2> DEFINE S == {s[i] : i \in 1 .. n} \cup {g}
  <2>1. Len(s) = n /\ s \in Seq({s[i] : i \in 1 .. n})
    BY <1>1, ListIs
  <2>2. s \in Seq(S) /\ g \in S
    BY <2>1
  <2> HIDE DEF S
  <2>3. u \in Seq(S) /\ Len(u) = n + 1 /\ u[n + 1] = g /\ \A i \in 1 .. n : u[i] = s[i]
    BY <1>2, <2>1, <2>2, AppendProperties
  <2>4. QED
    BY <2>3, SequenceIs
<1>4. DOMAIN u = 1 .. (n + 1)
  BY <1>3, ListIs
<1>5. \A i \in 1 .. (n + 1) : i \in 1 .. n \/ i = n + 1
  BY <1>2
<1>6. QED
  BY <1>2, <1>3, <1>4, <1>5 DEF AllDated

LEMMA StatusIsDated ==
  ASSUME NEW g, IsGrievance(g), HasDates(g), now \in Nat, NEW to, NEW type, NEW h, h = WithStatus(g, to, type)
  PROVE  HasDates(h)
<1>1. /\ h.ref = g.ref /\ h.createdAt = g.createdAt /\ h.dueAt = g.dueAt
      /\ h.resolvedAt = (IF to = "resolved" THEN now ELSE g.resolvedAt)
      /\ h.closedAt = (IF isOpen(to) THEN g.closedAt ELSE now)
  BY DEF WithStatus, IsGrievance, Columns
<1>2. IsDate(now)
  BY DEF IsDate
<1>3. IsDate(h.resolvedAt) /\ IsDate(h.closedAt)
  BY <1>1, <1>2 DEF HasDates
<1>4. QED
  BY <1>1, <1>3 DEF HasDates

LEMMA DecidedIsDated ==
  ASSUME NEW rs, IsRegister(rs), AllDated(rs), now \in Nat, NEW n \in DOMAIN rs, NEW to, NEW type,
         NEW r, r = [rs EXCEPT ![n] = WithStatus(rs[n], to, type)]
  PROVE  AllDated(r)
<1> DEFINE g == WithStatus(rs[n], to, type)
<1>1. HasDates(g)
  BY StatusIsDated DEF IsRegister, AllDated
<1> HIDE DEF g
<1>2. r = [rs EXCEPT ![n] = g]
  BY DEF g
<1>3. DOMAIN r = DOMAIN rs /\ r[n] = g /\ \A m \in DOMAIN rs \ {n} : r[m] = rs[m]
  BY <1>2
<1>4. QED
  BY <1>1, <1>3 DEF AllDated

LEMMA NewRowIsDated ==
  ASSUME now \in Nat, NEW by, NEW kind, NEW category, NEW track, NEW days \in Nat, NEW words,
         NEW g, g = NewRow(by, kind, category, track, days, words)
  PROVE  HasDates(g)
<1>1. now + days \in Int
  OBVIOUS
<1>2. /\ g.createdAt = now /\ g.dueAt = now + days /\ g.resolvedAt = NULL /\ g.closedAt = NULL
      /\ g.ref = NextReference
  BY DEF NewRow
<1>3. NextReference[1] = "APP"
  BY DEF NextReference
<1>4. QED
  BY <1>1, <1>2, <1>3 DEF HasDates, IsDate

LEMMA LegacyIsDated ==
  ASSUME NEW run, NEW year, NEW k \in DOMAIN LegacyComplaints, NEW g, g = LegacyRow(run, year, k)
  PROVE  HasDates(g)
<1>1. /\ g.createdAt = parseDate(LegacyComplaints[k].date) /\ g.dueAt = NULL
      /\ g.resolvedAt = NULL /\ g.closedAt = NULL
  BY DEF LegacyRow
<1>2. parseDate(LegacyComplaints[k].date) \in Int
  BY DumpAssumption DEF parseDate
<1>3. QED
  BY <1>1, <1>2 DEF HasDates, IsDate

LEMMA NewCategoriesAreFinite ==
  ASSUME NEW b
  PROVE  IsFiniteSet(NewCategories(b))
<1> DEFINE up(i) == LET above == {m \in DOMAIN LegacyCats : LegacyCats[m].id = LegacySubcats[i].parent}
                    IN IF above = {} THEN NULL ELSE <<b, "cat", Least(above)>>
           Sub(i) == [id |-> <<b, "sub", i>>, name |-> LegacySubcats[i].name, parent |-> up(i),
                      track |-> "sgrc", sla |-> NULL]
           Cat(i) == [id |-> <<b, "cat", i>>, name |-> LegacyCats[i].name, parent |-> NULL,
                      track |-> "sgrc", sla |-> NULL]
<1>1. NewCategories(b) = {Cat(i) : i \in DOMAIN LegacyCats} \cup {Sub(i) : i \in DOMAIN LegacySubcats}
  BY DEF NewCategories
<1> HIDE DEF Sub, Cat, up
<1>2. IsFiniteSet(DOMAIN LegacyCats) /\ IsFiniteSet(DOMAIN LegacySubcats)
  BY DumpIs, FS_Interval
<1> DEFINE f == [i \in DOMAIN LegacyCats |-> Cat(i)]
           h == [i \in DOMAIN LegacySubcats |-> Sub(i)]
           F == {Cat(i) : i \in DOMAIN LegacyCats}
           H == {Sub(i) : i \in DOMAIN LegacySubcats}
<1>3. f \in Surjection(DOMAIN LegacyCats, F) /\ h \in Surjection(DOMAIN LegacySubcats, H)
  BY DEF Surjection
<1>4. NewCategories(b) = F \cup H
  BY <1>1
<1> HIDE DEF f, h, F, H
<1>5. IsFiniteSet(F) /\ IsFiniteSet(H)
  BY <1>2, <1>3, FS_Surjection
<1>6. QED
  BY <1>4, <1>5, FS_Union

LEMMA SeedCategoriesAreFinite ==
  IsFiniteSet({[id |-> l.id, name |-> l.name, parent |-> NULL, track |-> l.track, sla |-> l.sla] :
                 l \in ToSet(SeedLeaves)})
<1> DEFINE Cat(i) == [id |-> SeedLeaves[i].id, name |-> SeedLeaves[i].name, parent |-> NULL,
                      track |-> SeedLeaves[i].track, sla |-> SeedLeaves[i].sla]
           C == {[id |-> l.id, name |-> l.name, parent |-> NULL, track |-> l.track, sla |-> l.sla] :
                   l \in ToSet(SeedLeaves)}
           f == [i \in DOMAIN SeedLeaves |-> Cat(i)]
<1>1. IsFiniteSet(DOMAIN SeedLeaves)
  <2>1. SeedLeaves \in Seq(ToSet(SeedLeaves))
    BY DumpAssumption
  <2>2. ASSUME NEW S, NEW s \in Seq(S) PROVE Len(s) \in Nat /\ DOMAIN s = 1 .. Len(s)
    OBVIOUS
  <2>3. Len(SeedLeaves) \in Nat /\ DOMAIN SeedLeaves = 1 .. Len(SeedLeaves)
    BY <2>1, <2>2
  <2>4. QED
    BY <2>3, FS_Interval
<1>2. C = {Cat(i) : i \in DOMAIN SeedLeaves}
  BY DEF ToSet
<1>3. f \in Surjection(DOMAIN SeedLeaves, C)
  <2>1. f \in Surjection(DOMAIN SeedLeaves, {Cat(i) : i \in DOMAIN SeedLeaves})
    BY DEF Surjection
  <2>2. QED
    BY <1>2, <2>1
<1> HIDE DEF f, C
<1>4. IsFiniteSet(C)
  BY <1>1, <1>3, FS_Surjection
<1>5. QED
  BY <1>4 DEF C

-----------------------------------------------------------------------------
(* Dates of the seed. *)

LEMMA LeavesAre ==
  ASSUME NEW S, S \subseteq DOMAIN SeedLeaves, NEW leaves, leaves = LeavesOf(S)
  PROVE  /\ HasLength(leaves, Cardinality(S))
         /\ \A k \in DOMAIN leaves : Window(leaves[k]) \in Nat
<1> DEFINE v == [i \in S |-> i]
           own == InOrder(v)
<1>1. SeedLeaves \in Seq(ToSet(SeedLeaves))
  BY DumpAssumption
<1>2. ASSUME NEW T, NEW s \in Seq(T) PROVE Len(s) \in Nat /\ DOMAIN s = 1 .. Len(s)
  OBVIOUS
<1>3. Len(SeedLeaves) \in Nat /\ DOMAIN SeedLeaves = 1 .. Len(SeedLeaves)
  BY <1>1, <1>2
<1>4. IsFiniteSet(DOMAIN SeedLeaves)
  BY <1>3, FS_Interval
<1>5. DOMAIN v = S /\ HasValues(v)
  BY <1>3, <1>4, FS_Subset DEF HasValues
<1> HIDE DEF v
<1>6. IsOrder(own, v)
  BY <1>5, OrderIs
<1>7. leaves = [k \in DOMAIN own |-> SeedLeaves[own[k]]]
  BY DEF LeavesOf, v
<1> HIDE DEF own
<1>8. HasLength(own, Cardinality(S)) /\ \A k \in DOMAIN own : own[k] \in S
  BY <1>5, <1>6 DEF IsOrder
<1>9. HasLength(leaves, Cardinality(S))
  BY <1>7, <1>8 DEF HasLength
<1>10. \A k \in DOMAIN leaves : Window(leaves[k]) \in Nat
  BY <1>7, <1>8, SeedAssumption, LoadingAssumption DEF Window
<1>11. QED
  BY <1>9, <1>10

LEMMA GeneralLeavesAre ==
  /\ Len(GeneralLeaves) \in Nat \ {0} /\ DOMAIN GeneralLeaves = 1 .. Len(GeneralLeaves)
  /\ \A k \in DOMAIN GeneralLeaves : Window(GeneralLeaves[k]) \in Nat
<1> DEFINE S == {i \in DOMAIN SeedLeaves : SeedLeaves[i].track # "icc"}
<1>1. GeneralLeaves = LeavesOf(S) /\ S \subseteq DOMAIN SeedLeaves /\ S # {}
  BY SeedAssumption DEF GeneralLeaves
<1> HIDE DEF S
<1>2. /\ HasLength(GeneralLeaves, Cardinality(S))
      /\ \A k \in DOMAIN GeneralLeaves : Window(GeneralLeaves[k]) \in Nat
  BY <1>1, LeavesAre
<1>3. Len(GeneralLeaves) = Cardinality(S) /\ Cardinality(S) \in Nat
      /\ DOMAIN GeneralLeaves = 1 .. Cardinality(S)
  BY <1>2, ListIs
<1>4. Cardinality(S) # 0
  <2>1. IsFiniteSet(DOMAIN SeedLeaves)
    <3>1. SeedLeaves \in Seq(ToSet(SeedLeaves))
      BY DumpAssumption
    <3>2. ASSUME NEW T, NEW s \in Seq(T) PROVE Len(s) \in Nat /\ DOMAIN s = 1 .. Len(s)
      OBVIOUS
    <3>3. Len(SeedLeaves) \in Nat /\ DOMAIN SeedLeaves = 1 .. Len(SeedLeaves)
      BY <3>1, <3>2
    <3>4. QED
      BY <3>3, FS_Interval
  <2>2. IsFiniteSet(S)
    BY <1>1, <2>1, FS_Subset
  <2>3. QED
    BY <1>1, <2>2, FS_EmptySet
<1>5. QED
  BY <1>2, <1>3, <1>4

LEMMA SeededIsDated ==
  ASSUME NEW n, NEW year, NEW leaf, NEW status, NEW created \in Int, NEW due \in Int, NEW trail, NEW words,
         NEW g, g = Seeded(n, year, leaf, status, created, due, trail, words)
  PROVE  HasDates(g)
<1>1. /\ g.createdAt = created /\ g.dueAt = due /\ g.resolvedAt = NULL /\ g.closedAt = NULL
      /\ g.ref = <<SeedPrefix, year, n>>
  BY DEF Seeded
<1>2. ASSUME NEW ref, ref = <<SeedPrefix, year, n>> PROVE ref[1] # "LEGACY"
  BY <1>2 DEF SeedPrefix
<1>3. g.ref[1] # "LEGACY"
  BY <1>1, <1>2
<1>4. QED
  BY <1>1, <1>3 DEF HasDates, IsDate

LEMMA EndedIsDated ==
  ASSUME NEW g, IsGrievance(g), HasDates(g), NEW x, IsDate(x), NEW y, IsDate(y), NEW h, h = Ended(g, x, y)
  PROVE  HasDates(h)
<1>1. /\ h.ref = g.ref /\ h.createdAt = g.createdAt /\ h.dueAt = g.dueAt
      /\ h.resolvedAt = x /\ h.closedAt = y
  BY DEF IsGrievance, Columns, Ended
<1>2. QED
  BY <1>1 DEF HasDates

LEMMA AgeIsNumber ==
  ASSUME NEW bucket \in Buckets, NEW sla \in Nat, NEW i \in Nat
  PROVE  submittedDaysAgo(bucket, sla, i) \in Int
<1>1. i % 3 \in Int /\ i % 2 \in Int /\ i % 5 \in Int /\ i % 4 \in Int /\ (3 * sla) \div 10 \in Int
  OBVIOUS
<1>2. \A a, b \in Int : Larger(a, b) \in Int
  BY DEF Larger
<1>3. QED
  BY <1>1, <1>2 DEF submittedDaysAgo, Buckets

LEMMA PlannedIsDated ==
  ASSUME now \in Nat, NEW i \in Nat, i + 1 \in DOMAIN Plan, NEW g, g = PlannedCase(i)
  PROVE  HasDates(g)
<1> DEFINE bucket   == Plan[i + 1]
           k        == (i % Len(GeneralLeaves)) + 1
           leaf     == GeneralLeaves[k]
           age      == submittedDaysAgo(bucket, Window(leaf), i)
           created  == now - age
           resolved == created + Larger(2, (8 * Window(leaf)) \div 10)
           case     == Seeded(i + 1, YearOf(created), leaf, Last(BucketPath(bucket)), created,
                              created + Window(leaf), BucketTrail(bucket), {<<leaf.name, i>>})
           x        == IF bucket \in {"resolved_closed", "appealed"} THEN resolved ELSE NULL
           y        == IF bucket = "resolved_closed" THEN resolved + 3 ELSE NULL
<1>1. g = Ended(case, x, y)
  BY DEF PlannedCase, Ended
<1>2. HasLength(BucketTrail(bucket), Len(BucketTrail(bucket)))
  BY BucketTrailIs
<1>3. bucket \in Buckets
  BY SeedAssumption DEF ToSet
<1>4. k \in DOMAIN GeneralLeaves
  <2>1. ASSUME NEW n \in Nat \ {0} PROVE (i % n) + 1 \in 1 .. n
    OBVIOUS
  <2>2. QED
    BY <2>1, GeneralLeavesAre
<1> HIDE DEF k, bucket
<1>5. Window(leaf) \in Nat
  BY <1>4, GeneralLeavesAre
<1> HIDE DEF leaf
<1>6. age \in Int
  BY <1>3, <1>5, AgeIsNumber
<1> HIDE DEF age
<1>7. created \in Int /\ created + Window(leaf) \in Int
  BY <1>5, <1>6
<1> HIDE DEF created
<1>8. resolved \in Int
  <2>1. (8 * Window(leaf)) \div 10 \in Int
    BY <1>5
  <2>2. QED
    BY <1>7, <2>1 DEF Larger
<1>9. IsDate(x) /\ IsDate(y)
  BY <1>8 DEF IsDate
<1> HIDE DEF resolved, x, y
<1>10. IsSeedCase(case, i + 1) /\ HasDates(case)
  BY <1>2, <1>7, SeededIs, SeededIsDated
<1> HIDE DEF case
<1>11. QED
  BY <1>1, <1>9, <1>10, EndedIsDated DEF IsSeedCase

LEMMA BurstIsDated ==
  ASSUME now \in Nat, NEW i \in Nat, NEW g, g = BurstCase(i)
  PROVE  HasDates(g)
<1> DEFINE created == now - (6 - i \div 3)
           due     == created + Window(GeneralLeaves[1])
           trail   == <<"submitted", "status_changed">>
           words   == {<<"water", 0>>, <<"block", i % 2>>}
<1>1. g = Seeded(Len(Plan) + i + 1, YearOf(now), GeneralLeaves[1], "in_progress", created, due,
                 trail, words)
  BY DEF BurstCase
<1>2. created \in Int
  OBVIOUS
<1>3. Window(GeneralLeaves[1]) \in Nat
  BY GeneralLeavesAre
<1> HIDE DEF created
<1>4. due \in Int
  BY <1>2, <1>3
<1> HIDE DEF due, trail, words
<1>5. QED
  BY <1>1, <1>2, <1>4, SeededIsDated

LEMMA IccIsDated ==
  ASSUME now \in Nat, NEW i \in {0, 1}, NEW g, g = IccCase(i)
  PROVE  HasDates(g)
<1> DEFINE created == now - (IF i = 0 THEN 12 ELSE 40)
           due     == created + 90
           trail   == <<"submitted", "assigned">>
           words   == {<<"posh", i>>}
<1>1. g = Seeded(Len(Plan) + BurstSize + i + 1, YearOf(now), IccLeaves[1], "in_progress", created,
                 due, trail, words)
  BY DEF IccCase
<1>2. created \in Int /\ due \in Int
  OBVIOUS
<1> HIDE DEF created, due, trail, words
<1>3. QED
  BY <1>1, <1>2, SeededIsDated

LEMMA SeedIsDated ==
  ASSUME now \in Nat
  PROVE  AllDated(SeedRows)
<1> DEFINE p == Len(Plan)
           planned == [i \in 1 .. p |-> PlannedCase(i - 1)]
           burst   == [i \in 1 .. BurstSize |-> BurstCase(i - 1)]
           icc     == IF IccLeaves = <<>> THEN <<>> ELSE <<IccCase(0), IccCase(1)>>
           q       == IF IccLeaves = <<>> THEN 0 ELSE 2
<1>1. p \in Nat /\ DOMAIN Plan = 1 .. p /\ BurstSize \in Nat
  <2>1. Plan \in Seq(ToSet(Plan))
    BY DumpAssumption
  <2>2. QED
    BY <2>1, LoadingAssumption
<1> HIDE DEF p
<1>2. HasLength(planned, p) /\ AllDated(planned)
  <2>1. ASSUME NEW k \in 1 .. p PROVE HasDates(PlannedCase(k - 1))
    <3>1. k - 1 \in Nat /\ (k - 1) + 1 = k /\ k \in DOMAIN Plan
      BY <1>1
    <3>2. QED
      BY <3>1, PlannedIsDated
  <2>2. QED
    BY <1>1, <2>1 DEF HasLength, AllDated
<1>3. HasLength(burst, BurstSize) /\ AllDated(burst)
  <2>1. ASSUME NEW k \in 1 .. BurstSize PROVE HasDates(BurstCase(k - 1))
    <3>1. k - 1 \in Nat
      BY <1>1
    <3>2. QED
      BY <3>1, BurstIsDated
  <2>2. QED
    BY <1>1, <2>1 DEF HasLength, AllDated
<1>4. HasLength(icc, q) /\ AllDated(icc)
  <2>1. HasLength(icc, q)
    BY DEF HasLength
  <2>2. ASSUME NEW i \in {0, 1} PROVE HasDates(IccCase(i))
    BY IccIsDated
  <2>3. HasDates(IccCase(0)) /\ HasDates(IccCase(1))
    BY <2>2
  <2>4. AllDated(icc)
    <3>1. CASE IccLeaves = <<>>
      BY <3>1 DEF AllDated
    <3>2. CASE IccLeaves # <<>>
      <4>1. icc = <<IccCase(0), IccCase(1)>>
        BY <3>2
      <4>2. DOMAIN icc = {1, 2} /\ icc[1] = IccCase(0) /\ icc[2] = IccCase(1)
        BY <4>1
      <4>3. QED
        BY <2>3, <4>2 DEF AllDated
    <3>3. QED
      BY <3>1, <3>2
  <2>5. QED
    BY <2>1, <2>4
<1>5. SeedRows = (planned \o burst) \o icc
  BY DEF SeedRows, p
<1> HIDE DEF planned, burst, icc, q
<1> DEFINE two == planned \o burst
<1>6. HasLength(two, p + BurstSize)
  <2>1. Joined(two, planned, p, burst, BurstSize)
    BY <1>2, <1>3, ListsJoin
  <2>2. QED
    BY <2>1 DEF Joined
<1>7. AllDated(two)
  BY <1>2, <1>3, DatedJoin
<1> HIDE DEF two
<1>8. SeedRows = two \o icc
  BY <1>5 DEF two
<1>9. QED
  BY <1>4, <1>6, <1>7, <1>8, DatedJoin

-----------------------------------------------------------------------------
(* Dates stay what they are. *)

LEMMA InitDated == Init => DatesInv
<1> SUFFICES ASSUME Init PROVE DatesInv
  OBVIOUS
<1>1. Instants \subseteq Nat /\ Instants # {}
  BY LoadingAssumption
<1>2. now \in Nat
  <2>1. \E x \in Instants : \A y \in Instants : x <= y
    BY <1>1, LeastNumber
  <2>2. Least(Instants) \in Instants
    BY <2>1 DEF Least
  <2>3. QED
    BY <1>1, <2>2 DEF Init
<1>3. AllDated(rows) /\ IsFiniteSet(categories) /\ \A i \in Importers : importing[i] = NULL
  BY FS_EmptySet DEF Init, AllDated
<1>4. QED
  BY <1>2, <1>3 DEF DatesInv

LEMMA RunIsDated ==
  ASSUME LoadedInv, DatesInv, UNCHANGED <<now, rows, categories>>, NEW i \in Importers, NEW run,
         importing' = [importing EXCEPT ![i] = run], run # NULL => AllDated(run.rows)
  PROVE  DatesInv'
<1>1. importing = [j \in Importers |-> importing[j]]
  BY DEF LoadedInv, RunsInv
<1>2. importing'[i] = run /\ \A j \in Importers \ {i} : importing'[j] = importing[j]
  BY <1>1
<1>3. ASSUME NEW j \in Importers, importing'[j] # NULL PROVE AllDated(importing'[j].rows)
  BY <1>2, <1>3 DEF DatesInv
<1>4. now' \in Nat /\ AllDated(rows') /\ IsFiniteSet(categories')
  BY DEF DatesInv
<1>5. QED
  BY <1>3, <1>4 DEF DatesInv

LEMMA ComplaintsAreDated ==
  ASSUME NEW run, NEW year, NEW new, new = DumpedRows(run, year)
  PROVE  AllDated(new)
<1>1. ASSUME NEW k \in DOMAIN LegacyComplaints PROVE HasDates(LegacyRow(run, year, k))
  BY LegacyIsDated
<1>2. QED
  BY <1>1 DEF AllDated, DumpedRows

LEMMA TrailsAreDated ==
  ASSUME NEW rs, AllDated(rs), \A k \in DOMAIN rs : IsGrievance(rs[k]),
         NEW new, new = [k \in DOMAIN rs |-> WithTrail(rs[k], LegacyTrail(k))]
  PROVE  AllDated(new)
<1>1. ASSUME NEW g, IsGrievance(g), HasDates(g), NEW trail, NEW h, h = WithTrail(g, trail) PROVE HasDates(h)
  <2>1. /\ h.ref = g.ref /\ h.createdAt = g.createdAt /\ h.dueAt = g.dueAt
        /\ h.resolvedAt = g.resolvedAt /\ h.closedAt = g.closedAt
    BY <1>1 DEF IsGrievance, Columns, WithTrail
  <2>2. QED
    BY <1>1, <2>1 DEF HasDates
<1>2. \A k \in DOMAIN rs : HasDates(WithTrail(rs[k], LegacyTrail(k)))
  BY <1>1 DEF AllDated
<1>3. QED
  BY <1>2 DEF AllDated

LEMMA ImportKeepsDates ==
  ASSUME LoadedInv, DatesInv, NEW i \in Importers, Import(i)
  PROVE  DatesInv'
<1> DEFINE run == importing[i]
<1>1. CASE StartImport(i)
  <2> DEFINE next == [at |-> "users", batch |-> imports + 1, accounts |-> {}, userIdMap |-> <<>>,
                      categories |-> {}, rows |-> <<>>]
  <2>1. importing' = [importing EXCEPT ![i] = next] /\ UNCHANGED <<now, rows, categories>>
    BY <1>1 DEF StartImport
  <2>2. AllDated(next.rows)
    BY DEF AllDated
  <2> HIDE DEF next
  <2>3. QED
    BY <2>1, <2>2, RunIsDated
<1>2. CASE ImportUsers(i)
  <2> DEFINE next == [run EXCEPT !.at = "categories", !.userIdMap = UserIdMap,
                                 !.accounts = {DumpAccounts[k].email : k \in Inserted}]
  <2>1. importing' = [importing EXCEPT ![i] = next] /\ UNCHANGED <<now, rows, categories>> /\ run # NULL
    BY <1>2 DEF ImportUsers, Step
  <2>2. IsRun(run) /\ AllDated(run.rows)
    BY <2>1, RunIs DEF DatesInv
  <2>3. next.rows = run.rows
    BY <2>2 DEF IsRun, RunColumns
  <2> HIDE DEF next, run
  <2>4. QED
    BY <2>1, <2>2, <2>3, RunIsDated
<1>3. CASE ImportCategories(i)
  <2> DEFINE next == [run EXCEPT !.at = "complaints", !.categories = NewCategories(run.batch)]
  <2>1. importing' = [importing EXCEPT ![i] = next] /\ UNCHANGED <<now, rows, categories>> /\ run # NULL
    BY <1>3 DEF ImportCategories, Step
  <2>2. IsRun(run) /\ AllDated(run.rows)
    BY <2>1, RunIs DEF DatesInv
  <2>3. next.rows = run.rows
    BY <2>2 DEF IsRun, RunColumns
  <2> HIDE DEF next, run
  <2>4. QED
    BY <2>1, <2>2, <2>3, RunIsDated
<1>4. CASE ImportComplaints(i)
  <2> DEFINE new  == DumpedRows(run, YearOf(now))
             next == IF \E k \in DOMAIN new : new[k].ref \in References THEN NULL ELSE WithRows(run, new)
  <2>1. importing' = [importing EXCEPT ![i] = next] /\ UNCHANGED <<now, rows, categories>> /\ run # NULL
    BY <1>4 DEF ImportComplaints, Step, DumpedRows, WithRows
  <2>2. IsRun(run) /\ AllDated(new)
    BY <2>1, RunIs, ComplaintsAreDated
  <2> HIDE DEF new
  <2>3. next # NULL => next.rows = new
    BY <2>2 DEF IsRun, RunColumns, WithRows
  <2> HIDE DEF next, run
  <2>4. next # NULL => AllDated(next.rows)
    BY <2>2, <2>3
  <2>5. QED
    BY <2>1, <2>4, RunIsDated
<1>5. CASE ImportTrails(i)
  <2> DEFINE new  == [k \in DOMAIN run.rows |-> WithTrail(run.rows[k], LegacyTrail(k))]
             next == [run EXCEPT !.at = "commit", !.rows = new]
  <2>1. /\ importing' = [importing EXCEPT ![i] = next] /\ UNCHANGED <<now, rows, categories>>
        /\ run # NULL /\ run.at = "trails"
    BY <1>5 DEF ImportTrails, Step, WithTrail
  <2>2. IsRun(run) /\ AllDated(run.rows)
    BY <2>1, RunIs DEF DatesInv
  <2>3. \A k \in DOMAIN run.rows : IsGrievance(run.rows[k])
    <3>1. HoldsDump(run)
      BY <2>1, <2>2 DEF IsRun
    <3>2. DOMAIN run.rows = DOMAIN LegacyComplaints
      BY <3>1, DumpIs, ListIs DEF HoldsDump
    <3>3. QED
      BY <3>1, <3>2 DEF HoldsDump
  <2>4. AllDated(new)
    BY <2>2, <2>3, TrailsAreDated
  <2> HIDE DEF new
  <2>5. next.rows = new
    BY <2>2 DEF IsRun, RunColumns
  <2> HIDE DEF next, run
  <2>6. QED
    BY <2>1, <2>4, <2>5, RunIsDated
<1>6. CASE CommitImport(i)
  <2>1. /\ run # NULL /\ run.at = "commit" /\ categories' = categories \cup run.categories
        /\ rows' = rows \o run.rows /\ importing' = [importing EXCEPT ![i] = NULL] /\ now' = now
    BY <1>6 DEF CommitImport
  <2>2. IsRun(run) /\ AllDated(run.rows) /\ AllDated(rows) /\ IsFiniteSet(categories) /\ now \in Nat
    BY <2>1, RunIs DEF DatesInv
  <2>3. importing = [j \in Importers |-> importing[j]]
    BY DEF LoadedInv, RunsInv
  <2>4. IsRegister(rows)
    BY DEF LoadedInv, RegisterInv, Register
  <2> HIDE DEF run
  <2>5. HoldsDump(run) /\ run.categories = NewCategories(run.batch)
    BY <2>1, <2>2 DEF IsRun
  <2>6. AllDated(rows')
    <3>1. HasLength(run.rows, Len(LegacyComplaints)) /\ HasLength(rows, Len(rows))
      BY <2>4, <2>5 DEF HoldsDump, IsRegister
    <3> DEFINE r == rows \o run.rows
    <3>2. AllDated(r)
      BY <2>2, <3>1, DatedJoin
    <3>3. QED
      BY <2>1, <3>2
  <2>7. IsFiniteSet(categories')
    BY <2>1, <2>2, <2>5, NewCategoriesAreFinite, FS_Union
  <2>8. ASSUME NEW j \in Importers, importing'[j] # NULL PROVE AllDated(importing'[j].rows)
    <3>1. importing'[j] = importing[j]
      BY <2>1, <2>3, <2>8
    <3>2. QED
      BY <2>8, <3>1 DEF DatesInv
  <2>9. QED
    BY <2>1, <2>2, <2>6, <2>7, <2>8 DEF DatesInv
<1>7. CASE ImportDies(i)
  <2> DEFINE next == NULL
  <2>1. importing' = [importing EXCEPT ![i] = next] /\ UNCHANGED <<now, rows, categories>>
    BY <1>7 DEF ImportDies, AfterCrash
  <2>2. next # NULL => AllDated(next.rows)
    OBVIOUS
  <2> HIDE DEF next
  <2>3. QED
    BY <2>1, <2>2, RunIsDated
<1>8. QED
  BY <1>1, <1>2, <1>3, <1>4, <1>5, <1>6, <1>7 DEF Import

LEMMA RowsKeepDates ==
  ASSUME DatesInv, NEW r, rows' = r, AllDated(r), UNCHANGED <<now, importing, categories>>
  PROVE  DatesInv'
BY DEF DatesInv

\* Whatever category a case is filed under, its window is a number of days.
LEMMA WindowIsNumber ==
  ASSUME CatsInv, NEW c \in categories
  PROVE  FilingDays(c) \in Nat
<1>1. c.sla \in Nat \cup {NULL}
  <2>1. CASE \E i \in DOMAIN SeedLeaves : c.id = SeedLeaves[i].id /\ c.sla = SeedLeaves[i].sla
    BY <2>1, SeedAssumption
  <2>2. ASSUME NEW b \in 1 .. MaxImports, c \in NewCategories(b) PROVE c.sla = NULL
    <3> DEFINE up(i) == LET above == {m \in DOMAIN LegacyCats : LegacyCats[m].id = LegacySubcats[i].parent}
                        IN IF above = {} THEN NULL ELSE <<b, "cat", Least(above)>>
               Sub(i) == [id |-> <<b, "sub", i>>, name |-> LegacySubcats[i].name, parent |-> up(i),
                          track |-> "sgrc", sla |-> NULL]
               Cat(i) == [id |-> <<b, "cat", i>>, name |-> LegacyCats[i].name, parent |-> NULL,
                          track |-> "sgrc", sla |-> NULL]
    <3>1. NewCategories(b) = {Cat(i) : i \in DOMAIN LegacyCats} \cup {Sub(i) : i \in DOMAIN LegacySubcats}
      BY DEF NewCategories
    <3>2. \A i : Cat(i).sla = NULL /\ Sub(i).sla = NULL
      OBVIOUS
    <3> HIDE DEF Sub, Cat
    <3>3. QED
      BY <2>2, <3>1, <3>2
  <2>3. QED
    BY <2>1, <2>2 DEF CatsInv, CategoriesKnown
<1>2. QED
  BY <1>1, LoadingAssumption DEF FilingDays, Window

LEMMA PortalKeepsDates ==
  ASSUME LoadedInv, DatesInv,
         \/ \E by, kind, w : \E c \in categories : FileCase(by, kind, c, w)
         \/ \E n \in DOMAIN rows : \E to : Decide(n, to)
         \/ \E n \in DOMAIN rows : FileAppeal(n)
  PROVE  DatesInv'
<1>1. /\ IsRegister(rows) /\ AllDated(rows) /\ now \in Nat
  BY DEF LoadedInv, RegisterInv, Register, DatesInv
<1>2. ASSUME NEW by, NEW kind, NEW c \in categories, NEW w, FileCase(by, kind, c, w) PROVE DatesInv'
  <2> DEFINE g == NewRow(by, kind, c.id, c.track, FilingDays(c), w)
             r == Append(rows, g)
  <2>1. rows' = r /\ UNCHANGED <<now, importing, categories>>
    BY <1>2 DEF FileCase
  <2>2. HasDates(g)
    <3>1. FilingDays(c) \in Nat
      BY WindowIsNumber DEF LoadedInv
    <3>2. QED
      BY <1>1, <3>1, NewRowIsDated
  <2> HIDE DEF g
  <2>3. AllDated(r)
    BY <1>1, <2>2, DatedGrows
  <2> HIDE DEF r
  <2>4. QED
    BY <2>1, <2>3, RowsKeepDates
<1>3. ASSUME NEW n \in DOMAIN rows, NEW to, Decide(n, to) PROVE DatesInv'
  <2> DEFINE r == [rows EXCEPT ![n] = WithStatus(rows[n], to, "status_changed")]
  <2>1. rows' = r /\ UNCHANGED <<now, importing, categories>>
    BY <1>3 DEF Decide
  <2>2. AllDated(r)
    BY <1>1, DecidedIsDated
  <2> HIDE DEF r
  <2>3. QED
    BY <2>1, <2>2, RowsKeepDates
<1>4. ASSUME NEW n \in DOMAIN rows, FileAppeal(n) PROVE DatesInv'
  <2> DEFINE g  == WithStatus(rows[n], "appealed", "appealed")
             rs == [rows EXCEPT ![n] = g]
             h  == NewRow(rows[n].submittedById, "appeal", rows[n].categoryId, "sgrc",
                          SlaOmbudspersonDays, rows[n].words)
             r  == Append(rs, h)
  <2>1. rows' = r /\ UNCHANGED <<now, importing, categories>>
    BY <1>4 DEF FileAppeal
  <2>2. HasDates(h)
    BY <1>1, LoadingAssumption, NewRowIsDated
  <2>3. AllDated(rs)
    BY <1>1, DecidedIsDated
  <2>4. IsRegister(rs)
    <3>1. Register(rows) /\ CasesKnown(rows, accounts, categories)
      BY DEF LoadedInv, RegisterInv, CasesInv
    <3>2. IsGrievance(rows[n])
      BY <3>1, RegisterIs DEF IsRegister
    <3>3. IsGrievance(g) /\ Grown(rows[n], g)
      BY <3>2, StatusGrows
    <3> HIDE DEF g
    <3>4. Register(rs)
      BY <3>1, <3>3, RowWorkedOn
    <3>5. QED
      BY <3>4, RegisterIs
  <2> HIDE DEF rs, h
  <2>5. AllDated(r)
    BY <2>2, <2>3, <2>4, DatedGrows
  <2> HIDE DEF r
  <2>6. QED
    BY <2>1, <2>5, RowsKeepDates
<1>5. QED
  BY <1>2, <1>3, <1>4

LEMMA SeedKeepsDates ==
  ASSUME LoadedInv, DatesInv, FillInstitution
  PROVE  DatesInv'
<1> DEFINE C == {[id |-> l.id, name |-> l.name, parent |-> NULL, track |-> l.track, sla |-> l.sla] :
                   l \in ToSet(SeedLeaves)}
           r == rows \o SeedRows
<1>1. rows' = r /\ categories' = categories \cup C /\ UNCHANGED <<now, importing>>
  BY DEF FillInstitution
<1>2. AllDated(rows) /\ IsFiniteSet(categories) /\ now \in Nat
  BY DEF DatesInv
<1>3. AllDated(r)
  <2>1. HasLength(rows, Len(rows))
    BY DEF LoadedInv, RegisterInv, Register, IsRegister
  <2>2. HasLength(SeedRows, SeedTotal) /\ AllDated(SeedRows)
    BY <1>2, SeedIs, SeedIsDated DEF IsSeedPart
  <2>3. QED
    BY <1>2, <2>1, <2>2, DatedJoin
<1>4. IsFiniteSet(C)
  BY SeedCategoriesAreFinite
<1> HIDE DEF r, C
<1>5. IsFiniteSet(categories')
  BY <1>1, <1>2, <1>4, FS_Union
<1>6. QED
  BY <1>1, <1>2, <1>3, <1>5 DEF DatesInv

LEMMA ClockKeepsDates ==
  ASSUME DatesInv, Tick
  PROVE  DatesInv'
<1> DEFINE T == {t \in Instants : t > now}
<1>1. now' = Least(T) /\ T # {} /\ UNCHANGED <<categories, rows, importing>>
  BY DEF Tick
<1>2. T \subseteq Nat
  BY LoadingAssumption
<1> HIDE DEF T
<1>3. \E x \in T : \A y \in T : x <= y
  BY <1>1, <1>2, LeastNumber
<1>4. Least(T) \in T
  BY <1>3 DEF Least
<1>5. now' \in Nat
  BY <1>1, <1>2, <1>4
<1>6. QED
  BY <1>1, <1>5 DEF DatesInv

LEMMA NextDated == LoadedInv /\ DatesInv /\ [Next]_vars => DatesInv'
<1> SUFFICES ASSUME LoadedInv, DatesInv, [Next]_vars PROVE DatesInv'
  OBVIOUS
<1>1. CASE EnsureInstitution \/ SeedDies \/ UNCHANGED vars
  BY <1>1 DEF EnsureInstitution, SeedDies, vars, DatesInv
<1>2. QED
  BY <1>1, ImportKeepsDates, PortalKeepsDates, SeedKeepsDates, ClockKeepsDates DEF Next

LEMMA DatesHold == Spec => [](LoadedInv /\ DatesInv)
<1>1. Init => LoadedInv /\ DatesInv
  BY InitLoaded, InitDated
<1>2. LoadedInv /\ DatesInv /\ [Next]_vars => (LoadedInv /\ DatesInv)'
  BY NextLoaded, NextDated
<1>3. QED
  BY <1>1, <1>2, PTL DEF Spec

-----------------------------------------------------------------------------
(* What is not late. *)

LEMMA QueueIsOrdered ==
  ASSUME LoadedInv, DatesInv, NEW queue, queue = listQueue(rows, "moderator"),
         NEW n \in DOMAIN rows, rows[n].dueAt = NULL, n \in ToSet(queue),
         NEW m \in DOMAIN rows, rows[m].dueAt # NULL, isOpen(rows[m].status),
         rows[m].track \in accessibleTracks("moderator")
  PROVE  \E i, j \in DOMAIN queue : i < j /\ queue[i] = m /\ queue[j] = n
<1> DEFINE open  == {k \in DOMAIN rows : rows[k].track \in accessibleTracks("moderator") /\ isOpen(rows[k].status)}
           dated == {k \in open : rows[k].dueAt # NULL}
           late  == open \ dated
           v     == [k \in dated |-> rows[k].dueAt]
           w     == [k \in late |-> k]
           s     == InOrder(v)
           t     == InOrder(w)
           all   == s \o t
           a     == Cardinality(dated)
           b     == Cardinality(late)
           l     == IF Len(all) < QUEUE_SCAN_CAP THEN Len(all) ELSE QUEUE_SCAN_CAP
<1>1. queue = SubSeq(all, 1, l)
  BY DEF listQueue, UpTo, DueFirst
<1>2. Len(rows) \in Nat /\ DOMAIN rows = 1 .. Len(rows)
  BY RegisterIs DEF LoadedInv, RegisterInv
<1>2a. ASSUME NEW k \in Nat PROVE IsFiniteSet(1 .. k)
  BY FS_Interval
<1>2b. IsFiniteSet(DOMAIN rows)
  BY <1>2, <1>2a
<1>3. dated \in SUBSET DOMAIN rows /\ late \in SUBSET DOMAIN rows /\ IsFiniteSet(DOMAIN rows)
  <2>1. dated \in SUBSET DOMAIN rows
    OBVIOUS
  <2>2. late \in SUBSET DOMAIN rows
    OBVIOUS
  <2>3. QED
    BY <1>2b, <2>1, <2>2
<1>4. IsFiniteSet(dated) /\ IsFiniteSet(late)
  BY <1>3, FS_Subset
<1>5. \A k \in dated : rows[k].dueAt \in Int
  BY DEF DatesInv, AllDated, HasDates, IsDate
<1>6. m \in dated /\ n \notin dated
  OBVIOUS
<1> HIDE DEF dated, late
<1>7. HasValues(v) /\ DOMAIN v = dated
  BY <1>2, <1>3, <1>4, <1>5 DEF HasValues
<1>8. HasValues(w) /\ DOMAIN w = late
  BY <1>2, <1>3, <1>4 DEF HasValues
<1> HIDE DEF v, w
<1>9. IsOrder(s, v) /\ IsOrder(t, w)
  BY <1>7, <1>8, OrderIs
<1> HIDE DEF s, t
<1>10. /\ HasLength(s, a) /\ HasLength(t, b) /\ a \in Nat /\ b \in Nat /\ DOMAIN s = 1 .. a
       /\ \A k \in 1 .. a : s[k] \in dated
  BY <1>7, <1>8, <1>9, ListIs DEF IsOrder
<1>11. Joined(all, s, a, t, b)
  BY <1>10, ListsJoin
<1>12. HasLength(all, a + b) /\ Len(all) = a + b
  <2>1. HasLength(all, a + b)
    BY <1>11 DEF Joined
  <2>2. QED
    BY <2>1, ListIs
<1>13. l \in Nat /\ l <= a + b
  BY <1>10, <1>12, ReportsAssumption
<1> HIDE DEF all, l
<1>14. /\ DOMAIN queue = 1 .. l /\ \A k \in 1 .. l : queue[k] = all[k]
  <2>1. all \in Seq({all[k] : k \in 1 .. (a + b)})
    BY <1>12, ListIs
  <2>2. QED
    BY <1>1, <1>12, <1>13, <2>1
<1>15. PICK j \in 1 .. l : queue[j] = n
  BY <1>14 DEF ToSet
<1>16. ~(j \in 1 .. a)
  <2> SUFFICES ASSUME j \in 1 .. a PROVE FALSE
    OBVIOUS
  <2>1. all[j] = s[j] /\ s[j] \in dated
    BY <1>10, <1>11 DEF Joined
  <2>2. QED
    BY <1>6, <1>14, <1>15, <2>1
<1>17. PICK i \in 1 .. a : s[i] = m
  BY <1>6, <1>7, <1>9, <1>10 DEF IsOrder
<1>18. i < j /\ i \in 1 .. l
  BY <1>10, <1>13, <1>15, <1>16, <1>17
<1>19. queue[i] = m
  BY <1>11, <1>14, <1>17, <1>18 DEF Joined
<1>20. QED
  BY <1>14, <1>15, <1>18, <1>19

LEMMA DatedLegacyIsOffTheClock == LoadedInv /\ DatesInv => LegacyIsOffTheClock
<1> SUFFICES ASSUME LoadedInv, DatesInv, NEW queue, queue = listQueue(rows, "moderator"),
                    NEW n \in LegacyRows
             PROVE  /\ ~wasBreached(rows[n], now) /\ n \notin Judged(rows, DOMAIN rows)
                    /\ n \in ToSet(queue) =>
                         \A m \in DOMAIN rows :
                           /\ rows[m].dueAt # NULL /\ isOpen(rows[m].status)
                           /\ rows[m].track \in accessibleTracks("moderator")
                           => \E i, j \in DOMAIN queue : i < j /\ queue[i] = m /\ queue[j] = n
  BY DEF LegacyIsOffTheClock
<1>1. n \in DOMAIN rows /\ rows[n].dueAt = NULL
  BY DEF LegacyRows, DatesInv, AllDated, HasDates
<1>2. ~wasBreached(rows[n], now) /\ n \notin Judged(rows, DOMAIN rows)
  BY <1>1 DEF wasBreached, Judged
<1>3. QED
  BY <1>1, <1>2, QueueIsOrdered

\* Imported history puts nobody in the wrong: without a due date it is never late or judged,
\* whatever officers do to it since, and in the queue, which lists undated cases last and only
\* then cuts the list, it takes nobody's place (import-legacy.ts:321-324, compliance.ts:61-70,
\* stats.ts:130-137, queries.ts:122-128).
THEOREM HistoryIsNotLate == Spec => []LegacyIsOffTheClock
<1>1. QED
  BY DatesHold, DatedLegacyIsOffTheClock, PTL

-----------------------------------------------------------------------------
(* Figures. *)

\* What stands in k places of a list counts at most k.
LEMMA CountByPlaces ==
  ASSUME NEW o, NEW v, IsOrder(o, v), HasValues(v), NEW a \in Nat, NEW b \in Nat, b <= Cardinality(DOMAIN v), a <= b,
         NEW P \in SUBSET DOMAIN v, \A k \in DOMAIN o : o[k] \in P => k \in a + 1 .. b
  PROVE  IsFiniteSet(P) /\ Cardinality(P) \in Nat /\ Cardinality(P) <= b - a
<1> DEFINE T == a + 1 .. b
           f == [n \in P |-> CHOOSE k \in DOMAIN o : o[k] = n]
<1>1. IsFiniteSet(T) /\ Cardinality(T) = b - a
  <2>1. ASSUME NEW x \in Int, NEW y \in Int
        PROVE  IsFiniteSet(x .. y) /\ Cardinality(x .. y) = IF x > y THEN 0 ELSE y - x + 1
    BY FS_Interval
  <2>2. a + 1 \in Int /\ b \in Int
    OBVIOUS
  <2>3. IsFiniteSet(T) /\ Cardinality(T) = IF a + 1 > b THEN 0 ELSE b - (a + 1) + 1
    BY <2>1, <2>2
  <2>4. QED
    BY <2>3
<1>2. ASSUME NEW n \in P PROVE f[n] \in DOMAIN o /\ o[f[n]] = n /\ f[n] \in T
  <2>1. \E k \in DOMAIN o : o[k] = n
    BY DEF IsOrder
  <2>2. f[n] \in DOMAIN o /\ o[f[n]] = n
    BY <2>1
  <2>3. QED
    BY <2>2
<1>3. DOMAIN f = P
  OBVIOUS
<1> HIDE DEF f, T
<1>4. f \in [P -> T]
  <2>1. f = [n \in P |-> f[n]]
    BY DEF f
  <2>2. QED
    BY <1>2, <2>1
<1>5. f \in Injection(P, T)
  BY <1>2, <1>3, <1>4 DEF Injection, IsInjective
<1>6. IsFiniteSet(P) /\ Cardinality(P) <= Cardinality(T)
  BY <1>1, <1>5, FS_Injection
<1>7. QED
  BY <1>1, <1>6, FS_CardinalityType

LEMMA MedianHalves ==
  ASSUME NEW v, HasValues(v), DOMAIN v # {}, NEW t, t = TwiceMedian(v)
  PROVE  t \in Int /\ IsMedian(t, v)
<1> DEFINE c   == Cardinality(DOMAIN v)
           o   == InOrder(v)
           mid == c \div 2
           L   == {n \in DOMAIN v : 2 * v[n] < t}
           U   == {n \in DOMAIN v : 2 * v[n] > t}
<1>1. IsFiniteSet(DOMAIN v) /\ c \in Nat /\ c # 0
  BY FS_CardinalityType, FS_EmptySet DEF HasValues
<1>2. IsOrder(o, v)
  BY OrderIs
<1> HIDE DEF o
<1>3. Len(o) = c /\ DOMAIN o = 1 .. c
  BY <1>2, ListIs DEF IsOrder
<1>4. t = IF c % 2 = 0 THEN v[o[mid]] + v[o[mid + 1]] ELSE 2 * v[o[mid + 1]]
  BY <1>3 DEF TwiceMedian, o
<1>5. \A k \in 1 .. c : o[k] \in DOMAIN v /\ v[o[k]] \in Int
  BY <1>2, <1>3 DEF IsOrder, HasValues
<1>6. \A j, k \in 1 .. c : j <= k => v[o[j]] <= v[o[k]]
  BY <1>2, <1>3, <1>5 DEF IsOrder, Before
<1> HIDE DEF c
<1>7. /\ mid \in Nat /\ mid + 1 \in 1 .. c
      /\ c % 2 = 0 => c = 2 * mid /\ mid \in 1 .. c
      /\ c % 2 # 0 => c = 2 * mid + 1
  BY <1>1
<1> HIDE DEF mid
<1>8. t \in Int
  BY <1>4, <1>5, <1>7
<1>9. \A k \in 1 .. c : o[k] \in L => k \in 0 + 1 .. mid
  <2> SUFFICES ASSUME NEW k \in 1 .. c, o[k] \in L, k > mid PROVE FALSE
    BY <1>7
  <2>1. v[o[k]] \in Int /\ v[o[mid + 1]] \in Int /\ v[o[mid + 1]] <= v[o[k]] /\ 2 * v[o[k]] < t
    BY <1>5, <1>6, <1>7
  <2>2. CASE c % 2 = 0
    <3>1. v[o[mid]] \in Int /\ v[o[mid]] <= v[o[mid + 1]] /\ t = v[o[mid]] + v[o[mid + 1]]
      BY <1>4, <1>5, <1>6, <1>7, <2>2
    <3>2. QED
      BY <2>1, <3>1
  <2>3. CASE c % 2 # 0
    BY <1>4, <2>1, <2>3
  <2>4. QED
    BY <2>2, <2>3
<1>10. \A k \in 1 .. c : o[k] \in U => k \in (c - mid) + 1 .. c
  <2> SUFFICES ASSUME NEW k \in 1 .. c, o[k] \in U, k <= c - mid PROVE FALSE
    BY <1>1, <1>7
  <2>1. v[o[k]] \in Int /\ v[o[mid + 1]] \in Int /\ 2 * v[o[k]] > t
    BY <1>5, <1>7
  <2>2. CASE c % 2 = 0
    <3>1. k <= mid /\ v[o[mid]] \in Int /\ v[o[k]] <= v[o[mid]] /\ v[o[mid]] <= v[o[mid + 1]]
      BY <1>5, <1>6, <1>7, <2>2
    <3>2. QED
      BY <1>4, <2>1, <2>2, <3>1
  <2>3. CASE c % 2 # 0
    <3>1. k <= mid + 1 /\ v[o[k]] <= v[o[mid + 1]]
      BY <1>6, <1>7, <2>3
    <3>2. QED
      BY <1>4, <2>1, <2>3, <3>1
  <2>4. QED
    BY <2>2, <2>3
<1>11. Cardinality(L) \in Nat /\ Cardinality(L) <= mid
  <2>1. L \in SUBSET DOMAIN v /\ mid <= Cardinality(DOMAIN v) /\ 0 \in Nat /\ 0 <= mid
    BY <1>1, <1>7 DEF c
  <2> HIDE DEF L
  <2>2. \A k \in DOMAIN o : o[k] \in L => k \in 0 + 1 .. mid
    BY <1>3, <1>9
  <2>3. Cardinality(L) \in Nat /\ Cardinality(L) <= mid - 0
    BY <1>2, <1>7, <2>1, <2>2, CountByPlaces
  <2>4. QED
    BY <1>7, <2>3
<1>12. Cardinality(U) \in Nat /\ Cardinality(U) <= mid
  <2> DEFINE a == c - mid
  <2>1. U \in SUBSET DOMAIN v /\ a \in Nat /\ c <= Cardinality(DOMAIN v) /\ a <= c /\ c - a = mid
    BY <1>1, <1>7 DEF c
  <2> HIDE DEF U
  <2>2. \A k \in DOMAIN o : o[k] \in U => k \in a + 1 .. c
    BY <1>3, <1>10
  <2> HIDE DEF a
  <2>3. Cardinality(U) \in Nat /\ Cardinality(U) <= c - a
    BY <1>1, <1>2, <2>1, <2>2, CountByPlaces
  <2>4. QED
    BY <2>1, <2>3
<1>13. 2 * mid <= c
  BY <1>1, <1>7
<1>14. QED
  BY <1>1, <1>7, <1>8, <1>11, <1>12, <1>13 DEF IsMedian, c

\* The number of each class, over the classes of a set, is the number of the set.
LEMMA ClassesAddUp ==
  ASSUME NEW S, IsFiniteSet(S), NEW k, NEW f,
         \A n \in S : k[n] \in DOMAIN f,
         \A c \in DOMAIN f : f[c] = Cardinality({n \in S : k[n] = c})
  PROVE  SumOver(f) = Cardinality(S)
<1> DEFINE D == DOMAIN f
           Class(c) == {n \in S : k[n] = c}
           h == [c \in D |-> CHOOSE b : b \in Bijection(1 .. f[c], Class(c))]
           P == UNION {{c} \X (1 .. f[c]) : c \in D}
           g == [p \in P |-> h[p[1]][p[2]]]
<1>1. ASSUME NEW c \in D
      PROVE  h[c] \in Bijection(1 .. f[c], Class(c)) /\ IsFiniteSet(Class(c)) /\ f[c] = Cardinality(Class(c)) /\ f[c] \in Nat
  <2>1. Class(c) \in SUBSET S /\ f[c] = Cardinality(Class(c))
    OBVIOUS
  <2> HIDE DEF Class
  <2>2. IsFiniteSet(Class(c))
    BY <2>1, FS_Subset
  <2>3. ExistsBijection(1 .. f[c], Class(c)) /\ f[c] \in Nat
    BY <2>1, <2>2, FS_CardinalityType
  <2>4. \E b : b \in Bijection(1 .. f[c], Class(c))
    BY <2>3 DEF ExistsBijection
  <2>5. h[c] = CHOOSE b : b \in Bijection(1 .. f[c], Class(c))
    OBVIOUS
  <2> HIDE DEF h
  <2>6. QED
    BY <2>1, <2>2, <2>3, <2>4, <2>5
<1>2. \A c \in D : \A n : n \in Class(c) <=> n \in S /\ k[n] = c
  OBVIOUS
<1> HIDE DEF Class, h
<1>3. ASSUME NEW c \in D
      PROVE  /\ \A i \in 1 .. f[c] : h[c][i] \in S /\ k[h[c][i]] = c
             /\ \A i, j \in 1 .. f[c] : h[c][i] = h[c][j] => i = j
             /\ \A n \in S : k[n] = c => \E i \in 1 .. f[c] : h[c][i] = n
  BY <1>1, <1>2 DEF Bijection, Injection, Surjection, IsInjective
<1>4. \A p : p \in P <=> \E c \in D : \E i \in 1 .. f[c] : p = <<c, i>>
  OBVIOUS
<1>5. DOMAIN g = P /\ \A p \in P : g[p] = h[p[1]][p[2]]
  OBVIOUS
<1>6. P = UNION {{c} \X (1 .. f[c]) : c \in DOMAIN f} /\ g = [p \in P |-> g[p]]
  OBVIOUS
<1> HIDE DEF P, g
<1>7. ASSUME NEW p \in P PROVE /\ p[1] \in D /\ p[2] \in 1 .. f[p[1]] /\ p = <<p[1], p[2]>>
                               /\ g[p] \in S /\ k[g[p]] = p[1]
  <2>1. PICK c \in D : \E i \in 1 .. f[c] : p = <<c, i>>
    BY <1>4
  <2>2. p[1] = c /\ p[2] \in 1 .. f[c] /\ p = <<p[1], p[2]>>
    BY <2>1
  <2>3. QED
    BY <1>3, <1>5, <2>1, <2>2
<1>8. ASSUME NEW p \in P, NEW q \in P, g[p] = g[q] PROVE p = q
  <2>1. p[1] = q[1]
    BY <1>7, <1>8
  <2>2. p[2] = q[2]
    BY <1>3, <1>5, <1>7, <1>8, <2>1
  <2>3. QED
    BY <1>7, <2>1, <2>2
<1>9. ASSUME NEW n \in S PROVE \E p \in P : g[p] = n
  <2>1. PICK i \in 1 .. f[k[n]] : h[k[n]][i] = n
    BY <1>3
  <2>2. <<k[n], i>> \in P
    BY <1>4, <2>1
  <2>3. g[<<k[n], i>>] = n
    BY <1>5, <2>1, <2>2
  <2>4. QED
    BY <2>2, <2>3
<1>10. g \in Bijection(P, S)
  <2>1. g \in [P -> S]
    BY <1>6, <1>7
  <2>2. QED
    BY <1>5, <1>8, <1>9, <2>1 DEF Bijection, Injection, Surjection, IsInjective
<1>11. ExistsBijection(S, P)
  BY <1>10, Fun_ExistsBijSymmetric DEF ExistsBijection
<1>12. Cardinality(P) = Cardinality(S)
  BY <1>11, FS_Bijection
<1>13. QED
  BY <1>6, <1>12 DEF SumOver

\* A sequence of the elements of a finite set.
LEMMA SetToSeqIs ==
  ASSUME NEW S, IsFiniteSet(S), NEW s, s = SetToSeq(S)
  PROVE  /\ Cardinality(S) \in Nat /\ HasLength(s, Cardinality(S))
         /\ \A i \in 1 .. Cardinality(S) : s[i] \in S
<1> DEFINE c == Cardinality(S)
<1>1. c \in Nat /\ ExistsBijection(1 .. c, S)
  BY FS_CardinalityType
<1>2. \E f \in [1 .. c -> S] : IsInjective(f)
  BY <1>1 DEF ExistsBijection, Bijection, Injection
<1>3. s \in [1 .. c -> S]
  BY <1>2 DEF SetToSeq
<1>4. QED
  BY <1>1, <1>3 DEF HasLength

-----------------------------------------------------------------------------
(* What the figures say. *)

LEMMA RowsAreFinite ==
  ASSUME LoadedInv
  PROVE  /\ DOMAIN rows \subseteq Nat
         /\ \A S \in SUBSET DOMAIN rows : IsFiniteSet(S) /\ Cardinality(S) \in Nat
<1>1. Len(rows) \in Nat /\ DOMAIN rows = 1 .. Len(rows)
  BY RegisterIs DEF LoadedInv, RegisterInv
<1>2. ASSUME NEW m \in Nat PROVE IsFiniteSet(1 .. m)
  BY FS_Interval
<1>3. IsFiniteSet(DOMAIN rows)
  BY <1>1, <1>2
<1>4. QED
  BY <1>1, <1>3, FS_Subset, FS_CardinalityType

\* Days from filing to an end, of some grievances.
LEMMA DaysAre ==
  ASSUME LoadedInv, DatesInv, NEW S \in SUBSET DOMAIN rows,
         NEW end, \A n \in DOMAIN rows : IsDate(end[n]), NEW d, d = Days(rows, S, end)
  PROVE  /\ HasValues(d)
         /\ d = [n \in {m \in S : end[m] # NULL} |-> end[n] - rows[n].createdAt]
<1> DEFINE T == {m \in S : end[m] # NULL}
<1>1. d = [n \in T |-> end[n] - rows[n].createdAt]
  BY DEF Days
<1>2. T \in SUBSET DOMAIN rows /\ \A n \in T : end[n] # NULL
  OBVIOUS
<1> HIDE DEF T
<1>3. IsFiniteSet(T) /\ T \subseteq Nat
  BY <1>2, RowsAreFinite
<1>4. \A n \in T : end[n] \in Int /\ rows[n].createdAt \in Int
  BY <1>2 DEF DatesInv, AllDated, HasDates, IsDate
<1>5. DOMAIN d = T /\ \A n \in T : d[n] \in Int
  BY <1>1, <1>4
<1>6. HasValues(d)
  BY <1>3, <1>5 DEF HasValues
<1>7. QED
  BY <1>1, <1>6 DEF T

\* A cell is honest about the grievances it is made of.
LEMMA CellHolds ==
  ASSUME LoadedInv, DatesInv, NEW own \in SUBSET DOMAIN rows, NEW cell, cell = Cell(rows, own)
  PROVE  /\ CellIsHonest(cell, own)
         /\ cell.medianResolutionDays # NULL => cell.medianResolutionDays \in Int
<1> DEFINE d        == Days(rows, own, EndOfWork(rows))
           twice    == cell.medianResolutionDays
           finished == {n \in own : rows[n].resolvedAt # NULL}
           days     == [n \in finished |-> rows[n].resolvedAt - rows[n].createdAt]
<1>1. HasValues(d) /\ d = days
  <2> DEFINE end == EndOfWork(rows)
  <2>1. \A n \in DOMAIN rows : end[n] = rows[n].resolvedAt
    BY DEF EndOfWork
  <2>2. \A n \in DOMAIN rows : IsDate(end[n])
    BY <2>1 DEF DatesInv, AllDated, HasDates
  <2>3. d = Days(rows, own, end)
    OBVIOUS
  <2> HIDE DEF end, d
  <2>4. /\ HasValues(d)
        /\ d = [n \in {m \in own : end[m] # NULL} |-> end[n] - rows[n].createdAt]
    BY <2>2, <2>3, DaysAre
  <2>5. {m \in own : end[m] # NULL} = finished
    BY <2>1
  <2> HIDE DEF finished
  <2>6. \A n \in finished : end[n] = rows[n].resolvedAt
    BY <2>1 DEF finished
  <2>7. QED
    BY <2>4, <2>5, <2>6
<1>2. /\ cell.filedCount = suppressSmallCell(Cardinality(own), Cardinality(own))
      /\ twice = suppressSmallCell(Cardinality(DOMAIN d), IF DOMAIN d = {} THEN 0 ELSE TwiceMedian(d))
  BY DEF Cell
<1>3. DOMAIN days = finished
  OBVIOUS
<1> HIDE DEF d, twice, days
<1>4. DOMAIN d = finished /\ IsFiniteSet(DOMAIN d) /\ Cardinality(DOMAIN d) \in Nat
  BY <1>1, <1>3, FS_CardinalityType DEF HasValues
<1>5. MIN_CELL_SIZE \in Nat \ {0}
  BY ReportsAssumption
<1>6. cell.filedCount # NULL => Cardinality(own) >= MIN_CELL_SIZE
  <2>1. Cardinality(own) \in Nat
    BY RowsAreFinite
  <2>2. QED
    BY <1>2, <1>5, <2>1 DEF suppressSmallCell
<1>7. ASSUME twice # NULL
      PROVE  twice \in Int /\ Cardinality(finished) >= MIN_CELL_SIZE /\ IsMedian(twice, d)
  <2>1. Cardinality(DOMAIN d) >= MIN_CELL_SIZE
    BY <1>2, <1>4, <1>5, <1>7 DEF suppressSmallCell
  <2>2. DOMAIN d # {}
    BY <1>4, <1>5, <2>1, FS_EmptySet
  <2>3. twice = TwiceMedian(d)
    BY <1>2, <1>7, <2>2 DEF suppressSmallCell
  <2>4. QED
    BY <1>1, <1>4, <2>1, <2>2, <2>3, MedianHalves
<1>8. QED
  BY <1>1, <1>6, <1>7 DEF CellIsHonest, twice, days

\* So is a rate.
LEMMA RateHolds ==
  ASSUME LoadedInv, NEW own \in SUBSET DOMAIN rows, NEW rate, rate = WithinWindowRate(rows, own)
  PROVE  RateIsHonest(rate, own)
<1> DEFINE judged == {n \in own : rows[n].resolvedAt # NULL /\ rows[n].dueAt # NULL}
           met    == {n \in own : /\ rows[n].resolvedAt # NULL /\ rows[n].dueAt # NULL
                                  /\ rows[n].resolvedAt <= rows[n].dueAt}
<1>1. judged = Judged(rows, own) /\ met = InWindow(rows, own)
  BY DEF Judged, InWindow
<1>2. rate = suppressSmallCell(Cardinality(judged), <<Cardinality(met), Cardinality(judged)>>)
  BY <1>1 DEF WithinWindowRate
<1>3. Cardinality(judged) \in Nat /\ MIN_CELL_SIZE \in Nat
  <2>1. judged \in SUBSET DOMAIN rows
    OBVIOUS
  <2> HIDE DEF judged
  <2>2. QED
    BY <2>1, RowsAreFinite, ReportsAssumption
<1>4. rate # NULL => /\ Cardinality(judged) >= MIN_CELL_SIZE
                     /\ rate = <<Cardinality(met), Cardinality(judged)>>
  <2> HIDE DEF judged, met
  <2>1. QED
    BY <1>2, <1>3 DEF suppressSmallCell
<1>5. QED
  BY <1>4 DEF RateIsHonest

\* The landing page shows the median of a category.
LEMMA LandingIsShown ==
  ASSUME LoadedInv, DatesInv, NEW active, IsFiniteSet(active),
         NEW days, days = getPublicSummary(rows, active, now).medianDays, days # NULL
  PROVE  \E c \in active : getTransparencyStats(rows, active, now).categories[c].medianResolutionDays = days
<1> DEFINE cats == getTransparencyStats(rows, active, now).categories
           X == {c \in active : cats[c].medianResolutionDays # NULL}
           shown == SetToSeq(X)
           medians == [i \in DOMAIN shown |-> cats[shown[i]].medianResolutionDays]
           n == Cardinality(X)
           o == InOrder(medians)
           total == getTransparencyStats(rows, active, now).totalFiled
<1>1. days = suppressSmallCell(total, IF DOMAIN shown = {} THEN NULL ELSE medians[o[Len(shown) \div 2 + 1]])
  BY DEF getPublicSummary
<1>1a. \A c \in active : cats[c] = Cell(rows, {i \in Grievances(rows) : rows[i].categoryId = c})
  BY DEF getTransparencyStats, computeCategoryStats
<1> HIDE DEF cats
<1>2. IsFiniteSet(X) /\ n \in Nat
  <2>1. X \in SUBSET active
    OBVIOUS
  <2> HIDE DEF X
  <2>2. QED
    BY <2>1, FS_Subset, FS_CardinalityType
<1>3. ASSUME NEW c \in X PROVE cats[c].medianResolutionDays \in Int
  <2> DEFINE own == {i \in Grievances(rows) : rows[i].categoryId = c}
  <2>1. own \in SUBSET DOMAIN rows
    BY DEF Grievances
  <2>2. cats[c] = Cell(rows, own)
    BY <1>1a
  <2>3. cats[c].medianResolutionDays # NULL
    OBVIOUS
  <2> HIDE DEF own
  <2>4. QED
    BY <2>1, <2>2, <2>3, CellHolds
<1>4. \A c \in X : c \in active
  OBVIOUS
<1> HIDE DEF X
<1>5. HasLength(shown, n) /\ \A i \in 1 .. n : shown[i] \in X
  BY <1>2, SetToSeqIs
<1> HIDE DEF shown
<1>6. Len(shown) = n /\ DOMAIN shown = 1 .. n
  BY <1>5, ListIs
<1>7. DOMAIN medians = 1 .. n /\ \A i \in 1 .. n : medians[i] \in Int /\ medians[i] = cats[shown[i]].medianResolutionDays
  BY <1>3, <1>5, <1>6
<1> HIDE DEF medians
<1>8. ASSUME NEW m \in Nat PROVE IsFiniteSet(1 .. m) /\ Cardinality(1 .. m) = m
  BY FS_Interval
<1>9. HasValues(medians) /\ Cardinality(DOMAIN medians) = n
  BY <1>2, <1>7, <1>8 DEF HasValues
<1>10. IsOrder(o, medians)
  BY <1>9, OrderIs
<1> HIDE DEF o, n
<1>11. DOMAIN o = 1 .. n /\ \A j \in 1 .. n : o[j] \in 1 .. n
  BY <1>7, <1>9, <1>10, ListIs DEF IsOrder
<1>12. n # 0 /\ days = medians[o[n \div 2 + 1]]
  BY <1>1, <1>2, <1>6 DEF suppressSmallCell
<1>13. n \div 2 + 1 \in 1 .. n
  BY <1>2, <1>12
<1>14. o[n \div 2 + 1] \in 1 .. n
  BY <1>11, <1>13
<1>15. QED
  BY <1>4, <1>5, <1>7, <1>12, <1>14 DEF cats

LEMMA BucketIs ==
  ASSUME NEW age \in Int
  PROVE  BucketOf(age) \in 1 .. 4
<1>1. DOMAIN AGEING_DEFS = 1 .. 3 /\ Len(AGEING_DEFS) = 3
  BY DEF AGEING_DEFS
<1>2. AGEING_DEFS[1] = 7 /\ AGEING_DEFS[2] = 15 /\ AGEING_DEFS[3] = 30
  BY DEF AGEING_DEFS
<1>3. CASE \E b \in DOMAIN AGEING_DEFS : age <= AGEING_DEFS[b]
  <2>1. \E b \in 1 .. 3 : age <= AGEING_DEFS[b] /\ \A c \in 1 .. b - 1 : age > AGEING_DEFS[c]
    <3>1. CASE age <= 7
      <4>1. 1 \in 1 .. 3 /\ age <= AGEING_DEFS[1] /\ \A c \in 1 .. 1 - 1 : age > AGEING_DEFS[c]
        BY <1>2, <3>1
      <4>2. QED
        BY <4>1
    <3>2. CASE age > 7 /\ age <= 15
      <4>1. 2 \in 1 .. 3 /\ age <= AGEING_DEFS[2] /\ \A c \in 1 .. 2 - 1 : age > AGEING_DEFS[c]
        BY <1>2, <3>2
      <4>2. QED
        BY <4>1
    <3>3. CASE age > 15
      <4>1. 3 \in 1 .. 3 /\ age <= AGEING_DEFS[3] /\ \A c \in 1 .. 3 - 1 : age > AGEING_DEFS[c]
        BY <1>1, <1>2, <1>3, <3>3
      <4>2. QED
        BY <4>1
    <3>4. QED
      BY <3>1, <3>2, <3>3
  <2>2. BucketOf(age) = CHOOSE b \in 1 .. 3 : age <= AGEING_DEFS[b] /\ \A c \in 1 .. b - 1 : age > AGEING_DEFS[c]
    BY <1>1, <1>3 DEF BucketOf
  <2>3. BucketOf(age) \in 1 .. 3
    BY <2>1, <2>2
  <2>4. QED
    BY <2>3
<1>4. CASE ~(\E b \in DOMAIN AGEING_DEFS : age <= AGEING_DEFS[b])
  BY <1>1, <1>4 DEF BucketOf
<1>5. QED
  BY <1>3, <1>4

\* The parts of the report add up.
LEMMA ReportAddsUp ==
  ASSUME LoadedInv, DatesInv, NEW S \in SUBSET DOMAIN rows, NEW named,
         NEW report, report = buildComplianceStats(rows, S, named, now)
  PROVE  /\ SumOver([c \in DOMAIN report.byCategory |-> report.byCategory[c].count]) = report.totalFiled
         /\ SumOver([c \in DOMAIN report.byCategory |-> report.byCategory[c].breached]) = report.breachedCount
         /\ SumOver(report.ageingBuckets) = report.totalOpen
<1> DEFINE D == {rows[n].categoryId : n \in S}
           B == Breached(rows, S, now)
           O == OpenOf(rows, S)
           k == [n \in S |-> rows[n].categoryId]
           a == [n \in O |-> BucketOf(now - rows[n].createdAt)]
           counts   == [c \in DOMAIN report.byCategory |-> report.byCategory[c].count]
           breaches == [c \in DOMAIN report.byCategory |-> report.byCategory[c].breached]
           ages     == report.ageingBuckets
<1>1. IsFiniteSet(S) /\ IsFiniteSet(B) /\ IsFiniteSet(O)
  <2>1. Len(rows) \in Nat /\ DOMAIN rows = 1 .. Len(rows)
    BY RegisterIs DEF LoadedInv, RegisterInv
  <2>2. ASSUME NEW m \in Nat PROVE IsFiniteSet(1 .. m)
    BY FS_Interval
  <2>3. IsFiniteSet(DOMAIN rows) /\ B \in SUBSET S /\ O \in SUBSET S
    BY <2>1, <2>2 DEF Breached, OpenOf
  <2>4. IsFiniteSet(S)
    BY <2>3, FS_Subset
  <2>5. QED
    BY <2>3, <2>4, FS_Subset
<1>2. /\ report.totalFiled = Cardinality(S) /\ report.breachedCount = Cardinality(B)
      /\ report.totalOpen = Cardinality(O)
      /\ report.ageingBuckets = ageingBuckets(rows, S, now)
      /\ report.byCategory = categoryStats(rows, S, named, now)
  BY DEF buildComplianceStats
<1>3. /\ DOMAIN report.byCategory = D
      /\ \A c \in D : /\ report.byCategory[c].count = Cardinality({n \in S : rows[n].categoryId = c})
                      /\ report.byCategory[c].breached
                           = Cardinality(Breached(rows, {n \in S : rows[n].categoryId = c}, now))
  <2>1. DOMAIN report.byCategory = D
    BY <1>2 DEF categoryStats
  <2>2. ASSUME NEW c \in D
        PROVE  /\ report.byCategory[c].count = Cardinality({n \in S : rows[n].categoryId = c})
               /\ report.byCategory[c].breached
                    = Cardinality(Breached(rows, {n \in S : rows[n].categoryId = c}, now))
    <3> DEFINE own  == {n \in S : rows[n].categoryId = c}
               days == Days(rows, own, EndOfCase(rows))
               name == IF c = NULL THEN "Uncategorised" ELSE IF c \in named THEN c ELSE "Unknown category"
               mid  == IF DOMAIN days = {} THEN NULL ELSE TwiceMedian(days)
               size == Cardinality(own)
               late == Cardinality(Breached(rows, own, now))
    <3>1. report.byCategory[c]
            = [categoryName |-> name, count |-> size, medianResolutionDays |-> mid, breached |-> late]
      BY <1>2 DEF categoryStats
    <3> HIDE DEF name, mid, size, late
    <3>2. report.byCategory[c].count = size /\ report.byCategory[c].breached = late
      BY <3>1
    <3>3. QED
      BY <3>2 DEF size, late
  <2>3. QED
    BY <2>1, <2>2
<1>4. SumOver(counts) = Cardinality(S)
  <2>1. \A n \in S : k[n] \in DOMAIN counts
    BY <1>3
  <2>2. ASSUME NEW c \in DOMAIN counts PROVE counts[c] = Cardinality({n \in S : k[n] = c})
    <3>1. {n \in S : k[n] = c} = {n \in S : rows[n].categoryId = c}
      OBVIOUS
    <3>2. QED
      BY <1>3, <3>1
  <2> HIDE DEF counts, k
  <2>3. QED
    BY <1>1, <2>1, <2>2, ClassesAddUp
<1>5. SumOver(breaches) = Cardinality(B)
  <2>1. \A n \in B : k[n] \in DOMAIN breaches
    BY <1>3 DEF Breached
  <2>2. ASSUME NEW c \in DOMAIN breaches PROVE breaches[c] = Cardinality({n \in B : k[n] = c})
    <3>1. {n \in B : k[n] = c} = Breached(rows, {n \in S : rows[n].categoryId = c}, now)
      BY DEF Breached
    <3>2. QED
      BY <1>3, <3>1
  <2> HIDE DEF breaches, k, B
  <2>3. QED
    BY <1>1, <2>1, <2>2, ClassesAddUp
<1>6. SumOver(ages) = Cardinality(O)
  <2>1. DOMAIN ages = 1 .. 4
    BY <1>2 DEF ageingBuckets, AGEING_DEFS
  <2>2. \A n \in O : a[n] \in DOMAIN ages
    <3> SUFFICES ASSUME NEW n \in O PROVE BucketOf(now - rows[n].createdAt) \in 1 .. 4
      BY <2>1
    <3>1. now - rows[n].createdAt \in Int
      BY DEF OpenOf, DatesInv, AllDated, HasDates
    <3>2. QED
      BY <3>1, BucketIs
  <2>3. ASSUME NEW b \in DOMAIN ages PROVE ages[b] = Cardinality({n \in O : a[n] = b})
    <3>1. ages[b] = Cardinality({n \in O : BucketOf(now - rows[n].createdAt) = b})
      BY <1>2, <2>1 DEF ageingBuckets, AGEING_DEFS
    <3>2. {n \in O : a[n] = b} = {n \in O : BucketOf(now - rows[n].createdAt) = b}
      OBVIOUS
    <3>3. QED
      BY <3>1, <3>2
  <2> HIDE DEF ages, a, O
  <2>4. QED
    BY <1>1, <2>2, <2>3, ClassesAddUp
<1>7. QED
  BY <1>2, <1>4, <1>5, <1>6

\* The median of a category in the report is that of its finished cases.
LEMMA ReportMedian ==
  ASSUME LoadedInv, DatesInv, NEW S \in SUBSET DOMAIN rows, NEW named,
         NEW report, report = buildComplianceStats(rows, S, named, now),
         NEW c \in DOMAIN report.byCategory,
         NEW twice, twice = report.byCategory[c].medianResolutionDays, twice # NULL,
         NEW ended, ended = {n \in S : rows[n].categoryId = c /\ finishedAt(rows[n]) # NULL}
  PROVE  IsMedian(twice, [n \in ended |-> finishedAt(rows[n]) - rows[n].createdAt])
<1> DEFINE own  == {n \in S : rows[n].categoryId = c}
           end  == EndOfCase(rows)
           days == Days(rows, own, end)
           name == IF c = NULL THEN "Uncategorised" ELSE IF c \in named THEN c ELSE "Unknown category"
           mid  == IF DOMAIN days = {} THEN NULL ELSE TwiceMedian(days)
           size == Cardinality(own)
           late == Cardinality(Breached(rows, own, now))
<1>1. report.byCategory = categoryStats(rows, S, named, now)
  BY DEF buildComplianceStats
<1>2. c \in {rows[n].categoryId : n \in S}
  BY <1>1 DEF categoryStats
<1>3. report.byCategory[c]
        = [categoryName |-> name, count |-> size, medianResolutionDays |-> mid, breached |-> late]
  BY <1>1, <1>2 DEF categoryStats
<1> HIDE DEF name, mid, size, late
<1>4. twice = mid
  BY <1>3
<1>5. \A n \in DOMAIN rows : end[n] = finishedAt(rows[n])
  BY DEF EndOfCase
<1>6. \A n \in DOMAIN rows : IsDate(end[n])
  BY <1>5 DEF finishedAt, DatesInv, AllDated, HasDates
<1>7. own \in SUBSET DOMAIN rows /\ {m \in own : end[m] # NULL} = ended
  BY <1>5
<1> HIDE DEF end, own
<1>8. HasValues(days) /\ days = [n \in ended |-> end[n] - rows[n].createdAt]
  <2>1. /\ HasValues(days)
        /\ days = [n \in {m \in own : end[m] # NULL} |-> end[n] - rows[n].createdAt]
    BY <1>6, <1>7, DaysAre
  <2>2. QED
    BY <1>7, <2>1
<1>9. \A n \in ended : end[n] = finishedAt(rows[n])
  BY <1>5
<1>10. days = [n \in ended |-> finishedAt(rows[n]) - rows[n].createdAt]
  BY <1>8, <1>9
<1> HIDE DEF days
<1>11. DOMAIN days # {} /\ twice = TwiceMedian(days)
  BY <1>4 DEF mid
<1>12. IsMedian(twice, days)
  BY <1>8, <1>11, MedianHalves
<1>13. QED
  BY <1>10, <1>12

LEMMA LoadedFiguresAreHonest == LoadedInv /\ DatesInv => FiguresAreHonest
<1> SUFFICES ASSUME LoadedInv, DatesInv PROVE FiguresAreHonest
  OBVIOUS
<1> DEFINE active == {c.id : c \in categories}
           public  == getTransparencyStats(rows, active, now)
           landing == getPublicSummary(rows, active, now)
           report  == complianceSnapshot(rows, "moderator", CycleStart(now), now, active, now)
           cycle   == {n \in DOMAIN rows : /\ rows[n].track \in accessibleTracks("moderator")
                                           /\ CycleStart(now) <= rows[n].createdAt /\ rows[n].createdAt <= now}
           Own(c)  == {n \in Grievances(rows) : rows[n].categoryId = c}
           Of(m)   == {n \in Grievances(rows) : MonthOf(rows[n].createdAt) = m}
<1>1. /\ Grievances(rows) \in SUBSET DOMAIN rows
      /\ \A c : Own(c) \in SUBSET DOMAIN rows
      /\ \A m : Of(m) \in SUBSET DOMAIN rows
  BY DEF Grievances
<1>2. IsFiniteSet(active)
  <2> DEFINE f == [c \in categories |-> c.id]
  <2>1. f \in Surjection(categories, active)
    BY DEF Surjection
  <2>2. IsFiniteSet(categories)
    BY DEF DatesInv
  <2> HIDE DEF active, f
  <2>3. QED
    BY <2>1, <2>2, FS_Surjection
<1>3. landing.medianDays # NULL =>
        \E c \in active : public.categories[c].medianResolutionDays = landing.medianDays
  <2> HIDE DEF active
  <2>1. QED
    BY <1>2, LandingIsShown
<1>4. cycle \in SUBSET DOMAIN rows /\ report = buildComplianceStats(rows, cycle, active, now)
  BY DEF complianceSnapshot
<1>5. /\ SumOver([c \in DOMAIN report.byCategory |-> report.byCategory[c].count]) = report.totalFiled
      /\ SumOver([c \in DOMAIN report.byCategory |-> report.byCategory[c].breached]) = report.breachedCount
      /\ SumOver(report.ageingBuckets) = report.totalOpen
  <2> HIDE DEF cycle, report, active
  <2>1. QED
    BY <1>4, ReportAddsUp
<1>6. ASSUME NEW c \in DOMAIN report.byCategory, report.byCategory[c].medianResolutionDays # NULL,
             NEW ended, ended = {n \in cycle : rows[n].categoryId = c /\ finishedAt(rows[n]) # NULL}
      PROVE  IsMedian(report.byCategory[c].medianResolutionDays,
                      [n \in ended |-> finishedAt(rows[n]) - rows[n].createdAt])
  <2> DEFINE twice == report.byCategory[c].medianResolutionDays
             P     == IsMedian(twice, [n \in ended |-> finishedAt(rows[n]) - rows[n].createdAt])
  <2>1. c \in DOMAIN report.byCategory /\ twice = report.byCategory[c].medianResolutionDays /\ twice # NULL
    BY <1>6
  <2>2. ended = {n \in cycle : rows[n].categoryId = c /\ finishedAt(rows[n]) # NULL}
    BY <1>6
  <2> HIDE DEF cycle, report, active, twice
  <2>3. P
    BY <1>4, <2>1, <2>2, ReportMedian
  <2>4. QED
    BY <2>3 DEF twice
<1>7. ASSUME NEW c \in active PROVE CellIsHonest(public.categories[c], Own(c))
  <2>1. public.categories[c] = Cell(rows, Own(c))
    BY DEF getTransparencyStats, computeCategoryStats
  <2> HIDE DEF public, Own, active
  <2>2. QED
    BY <1>1, <2>1, CellHolds
<1>8. ASSUME NEW m \in DOMAIN public.trend
      PROVE  /\ CellIsHonest(public.trend[m].cell, Of(m))
             /\ RateIsHonest(public.trend[m].withinWindowRate, Of(m))
  <2>1. /\ public.trend[m].cell = Cell(rows, Of(m))
        /\ public.trend[m].withinWindowRate = WithinWindowRate(rows, Of(m))
    BY DEF getTransparencyStats, computeTrend
  <2> HIDE DEF public, Of
  <2>2. QED
    BY <1>1, <2>1, CellHolds, RateHolds
<1>9. /\ RateIsHonest(public.overallWithinWindowRate, Grievances(rows))
      /\ RateIsHonest(landing.withinWindowPct, Grievances(rows))
  <2>1. /\ public.overallWithinWindowRate = WithinWindowRate(rows, Grievances(rows))
        /\ landing.withinWindowPct = public.overallWithinWindowRate
    BY DEF getTransparencyStats, getPublicSummary
  <2> HIDE DEF public, landing
  <2>2. QED
    BY <1>1, <2>1, RateHolds
<1> HIDE DEF public, landing, report
<1>10. QED
  BY <1>3, <1>5, <1>6, <1>7, <1>8, <1>9 DEF FiguresAreHonest, public, landing, report

\* Every published figure but the total, of a category, of a month or of them all, is made
\* of MIN_CELL_SIZE cases or more of its own, and is the median or the rate it says; the
\* landing page shows a median that a category publishes; and in the report the medians are
\* those of the finished cases, and categories, breaches and ages sum to the totals, for any
\* register (stats.ts:34-42, 110-168, 218-243, compliance.ts:42-56, 79-127, 143-160).
THEOREM FiguresHold == Spec => []FiguresAreHonest
<1>1. QED
  BY DatesHold, LoadedFiguresAreHonest, PTL

-----------------------------------------------------------------------------
(* Loops. *)

\* What a loop over 1 .. n computes that begins with e and whose turn j makes g[<<j, x>>] of x.
IsLoop(f, n, X, e, g) ==
  f \in [0 .. n -> X] /\ f[0] = e /\ \A j \in 1 .. n : f[j] = g[<<j, f[j - 1]>>]

LEMMA LoopIs ==
  ASSUME NEW n \in Nat, NEW X, NEW e \in X, NEW g, \A j \in 1 .. n : \A x \in X : g[<<j, x>>] \in X
  PROVE  \E f : IsLoop(f, n, X, e, g)
<1> DEFINE Bad == {k \in 0 .. n : ~\E f : IsLoop(f, k, X, e, g)}
<1>1. SUFFICES ASSUME Bad # {} PROVE FALSE
  OBVIOUS
<1>2. PICK k \in Bad : \A j \in Bad : k <= j
  <2>1. Bad \in SUBSET Nat
    OBVIOUS
  <2> HIDE DEF Bad
  <2>2. QED
    BY <1>1, <2>1, LeastNumber
<1>3. k # 0
  <2> SUFFICES ASSUME k = 0 PROVE FALSE
    OBVIOUS
  <2> DEFINE f == [j \in 0 .. 0 |-> e]
  <2>1. IsLoop(f, 0, X, e, g)
    BY DEF IsLoop
  <2>2. QED
    BY <2>1
<1>4. k - 1 \in 0 .. n /\ k \in 1 .. n /\ k - 1 \notin Bad
  BY <1>2, <1>3
<1>5. PICK f : IsLoop(f, k - 1, X, e, g)
  BY <1>4
<1> DEFINE h == [j \in 0 .. k |-> IF j = k THEN g[<<k, f[k - 1]>>] ELSE f[j]]
<1>6. f[k - 1] \in X /\ \A j \in 0 .. k - 1 : f[j] \in X
  BY <1>4, <1>5 DEF IsLoop
<1>7. /\ h \in [0 .. k -> X] /\ h[k] = g[<<k, f[k - 1]>>]
      /\ \A j \in 0 .. k - 1 : h[j] = f[j]
  BY <1>4, <1>6
<1> HIDE DEF h
<1>8. ASSUME NEW j \in 1 .. k PROVE h[j] = g[<<j, h[j - 1]>>]
  <2>1. CASE j = k
    BY <1>4, <1>7, <2>1
  <2>2. CASE j # k
    <3>1. j \in 1 .. k - 1 /\ j \in 0 .. k - 1 /\ j - 1 \in 0 .. k - 1
      BY <1>4, <2>2
    <3>2. QED
      BY <1>5, <1>7, <3>1 DEF IsLoop
  <2>3. QED
    BY <2>1, <2>2
<1>9. h[0] = e
  BY <1>4, <1>5, <1>7 DEF IsLoop
<1>10. IsLoop(h, k, X, e, g)
  BY <1>7, <1>8, <1>9 DEF IsLoop
<1>11. QED
  BY <1>10

-----------------------------------------------------------------------------
(* Union and find. *)

\* The parents p are a forest on D, with roots r; d falls along every path.
IsForest(p, D, r, d) ==
  /\ p \in [D -> D] /\ r \in [D -> D] /\ d \in [D -> Nat]
  /\ \A i \in D : p[i] # i => d[p[i]] < d[i]
  /\ \A i \in D : r[i] = IF p[i] = i THEN i ELSE r[p[i]]
  /\ \A i \in D : p[r[i]] = r[i]

LEMMA FindIs ==
  ASSUME NEW p, NEW D, NEW r, NEW d, IsForest(p, D, r, d)
  PROVE  find(p) = r
<1> DEFINE f == CHOOSE root : root = [i \in DOMAIN p |-> IF p[i] = i THEN i ELSE root[p[i]]]
<1>1. find(p) = f
  BY DEF find
<1>2. /\ DOMAIN p = D /\ r = [i \in D |-> r[i]]
      /\ \A i \in D : p[i] \in D /\ d[i] \in Nat
      /\ \A i \in D : r[i] = IF p[i] = i THEN i ELSE r[p[i]]
      /\ \A i \in D : p[i] # i => d[p[i]] < d[i]
  BY DEF IsForest
<1>3. r = [i \in DOMAIN p |-> IF p[i] = i THEN i ELSE r[p[i]]]
  BY <1>2
<1>4. f = [i \in DOMAIN p |-> IF p[i] = i THEN i ELSE f[p[i]]]
  BY <1>3
<1> HIDE DEF f
<1>5. f = [i \in D |-> f[i]] /\ \A i \in D : f[i] = IF p[i] = i THEN i ELSE f[p[i]]
  BY <1>2, <1>4
<1> DEFINE K == {d[i] : i \in {j \in D : f[j] # r[j]}}
<1>6. K = {}
  <2> SUFFICES ASSUME K # {} PROVE FALSE
    OBVIOUS
  <2>1. K \in SUBSET Nat
    BY <1>2
  <2>2. \A i \in D : f[i] # r[i] => d[i] \in K
    OBVIOUS
  <2>3. \A k \in K : \E i \in D : f[i] # r[i] /\ k = d[i]
    OBVIOUS
  <2> HIDE DEF K
  <2>4. PICK k \in K : \A l \in K : k <= l
    BY <2>1, LeastNumber
  <2>5. PICK i \in D : f[i] # r[i] /\ k = d[i]
    BY <2>3
  <2>6. p[i] # i /\ p[i] \in D /\ f[p[i]] # r[p[i]]
    BY <1>2, <1>5, <2>5
  <2>7. d[p[i]] \in K /\ d[p[i]] < k
    BY <1>2, <2>2, <2>5, <2>6
  <2>8. QED
    BY <1>2, <2>4, <2>5, <2>6, <2>7
<1>7. \A i \in D : f[i] = r[i]
  BY <1>6
<1>8. QED
  BY <1>1, <1>2, <1>5, <1>7

\* The roots after a union.
Merged(r, D, a, b) == [i \in D |-> IF r[i] = r[b] THEN r[a] ELSE r[i]]

LEMMA UnionIs ==
  ASSUME NEW p, NEW D, NEW r, NEW d, IsForest(p, D, r, d), NEW a \in D, NEW b \in D,
         NEW q, q = union(p, a, b)
  PROVE  \E e : IsForest(q, D, Merged(r, D, a, b), e)
<1> DEFINE s == Merged(r, D, a, b)
<1>1. q = [p EXCEPT ![r[b]] = r[a]]
  BY FindIs DEF union
<1>2. /\ p \in [D -> D] /\ r \in [D -> D] /\ d \in [D -> Nat]
      /\ \A i \in D : p[i] \in D /\ r[i] \in D /\ d[i] \in Nat
      /\ \A i \in D : p[i] # i => d[p[i]] < d[i]
      /\ \A i \in D : r[i] = IF p[i] = i THEN i ELSE r[p[i]]
      /\ \A i \in D : p[r[i]] = r[i] /\ r[r[i]] = r[i]
  BY DEF IsForest
<1>3. /\ q \in [D -> D]
      /\ \A i \in D : q[i] = IF i = r[b] THEN r[a] ELSE p[i]
  BY <1>1, <1>2
<1>4. s \in [D -> D] /\ \A i \in D : s[i] = IF r[i] = r[b] THEN r[a] ELSE r[i]
  BY <1>2 DEF Merged
<1> HIDE DEF s
<1>5. CASE r[a] = r[b]
  <2>1. \A i \in D : q[i] = p[i] /\ s[i] = r[i]
    BY <1>2, <1>3, <1>4, <1>5
  <2>2. IsForest(q, D, s, d)
    BY <1>2, <1>3, <1>4, <2>1 DEF IsForest
  <2>3. QED
    BY <2>2 DEF s
<1>6. CASE r[a] # r[b]
  <2> DEFINE e == [i \in D |-> IF r[i] = r[b] THEN d[i] + d[r[a]] + 1 ELSE d[i]]
  <2>1. e \in [D -> Nat] /\ \A i \in D : e[i] = IF r[i] = r[b] THEN d[i] + d[r[a]] + 1 ELSE d[i]
    BY <1>2
  <2> HIDE DEF e
  <2>2. ASSUME NEW i \in D, q[i] # i PROVE e[q[i]] < e[i]
    <3>1. CASE i = r[b]
      <4>1. q[i] = r[a] /\ r[i] = r[b] /\ r[r[a]] = r[a] /\ r[a] \in D
        BY <1>2, <1>3, <3>1
      <4>2. e[i] = d[i] + d[r[a]] + 1 /\ e[q[i]] = d[r[a]] /\ d[i] \in Nat /\ d[r[a]] \in Nat
        BY <1>2, <1>6, <2>1, <4>1
      <4>3. QED
        BY <4>2
    <3>2. CASE i # r[b]
      <4>1. q[i] = p[i] /\ p[i] \in D /\ p[i] # i /\ r[i] = r[p[i]] /\ d[p[i]] < d[i]
        BY <1>2, <1>3, <2>2, <3>2
      <4>2. d[i] \in Nat /\ d[p[i]] \in Nat /\ d[r[a]] \in Nat
        BY <1>2, <4>1
      <4>3. QED
        BY <2>1, <4>1, <4>2
    <3>3. QED
      BY <3>1, <3>2
  <2>3. ASSUME NEW i \in D PROVE s[i] = IF q[i] = i THEN i ELSE s[q[i]]
    <3>1. CASE i = r[b]
      BY <1>2, <1>3, <1>4, <1>6, <3>1
    <3>2. CASE i # r[b]
      BY <1>2, <1>3, <1>4, <3>2
    <3>3. QED
      BY <3>1, <3>2
  <2>4. ASSUME NEW i \in D PROVE q[s[i]] = s[i]
    BY <1>2, <1>3, <1>4, <1>6
  <2>5. IsForest(q, D, s, e)
    BY <1>3, <1>4, <2>1, <2>2, <2>3, <2>4 DEF IsForest
  <2>6. QED
    BY <2>5 DEF s
<1>7. QED
  BY <1>5, <1>6

\* What every turn of a loop keeps holds after each.
LEMMA LoopKeeps ==
  ASSUME NEW n \in Nat, NEW f, NEW X, f[0] \in X[0],
         \A j \in 1 .. n : f[j - 1] \in X[j - 1] => f[j] \in X[j]
  PROVE  \A j \in 0 .. n : f[j] \in X[j]
<1> DEFINE Bad == {k \in 0 .. n : f[k] \notin X[k]}
<1> SUFFICES ASSUME Bad # {} PROVE FALSE
  OBVIOUS
<1>1. PICK k \in Bad : \A j \in Bad : k <= j
  <2>1. Bad \in SUBSET Nat
    OBVIOUS
  <2> HIDE DEF Bad
  <2>2. QED
    BY <2>1, LeastNumber
<1>2. k # 0
  OBVIOUS
<1>3. k \in 1 .. n /\ k - 1 \in 0 .. n /\ k - 1 \notin Bad
  BY <1>1, <1>2
<1>4. QED
  BY <1>3

-----------------------------------------------------------------------------
(* The loops over pairs. *)

Alike(docs, i, j) == Similar(docs[i].words, docs[j].words)

LEMMA AlikeIsMutual ==
  ASSUME NEW docs, NEW i, NEW j, Alike(docs, i, j)
  PROVE  Alike(docs, j, i)
<1> DEFINE a == docs[i].words
           b == docs[j].words
<1>1. a \cap b = b \cap a /\ a \cup b = b \cup a
  OBVIOUS
<1>2. QED
  BY <1>1 DEF Alike, Similar

\* Positions that similarity does not lead out of.
IsClosed(docs, T) == \A i \in T, j \in DOMAIN docs : Alike(docs, i, j) => j \in T

\* No tree reaches over the border of such a set.
Keeps(docs, r) ==
  \A T \in SUBSET DOMAIN docs : IsClosed(docs, T) => \A i \in DOMAIN docs : i \in T <=> r[i] \in T

\* The pairs up to the one of i and j have been looked at.
Done(docs, r, i, j) ==
  \A a, b \in DOMAIN docs : a < b /\ Alike(docs, a, b) /\ (a < i \/ (a = i /\ b <= j)) => r[a] = r[b]

Forests(D) == {p \in [D -> D] : \E r, d : IsForest(p, D, r, d)}

United(p, docs, i, j) ==
  \E r, d : IsForest(p, DOMAIN docs, r, d) /\ Keeps(docs, r) /\ Done(docs, r, i, j)

LEMMA UnionKeeps ==
  ASSUME NEW docs, NEW r, r \in [DOMAIN docs -> DOMAIN docs], Keeps(docs, r),
         NEW a \in DOMAIN docs, NEW b \in DOMAIN docs, Alike(docs, a, b)
  PROVE  Keeps(docs, Merged(r, DOMAIN docs, a, b))
<1> DEFINE D == DOMAIN docs
           s == Merged(r, D, a, b)
<1> SUFFICES ASSUME NEW T \in SUBSET D, IsClosed(docs, T), NEW i \in D PROVE i \in T <=> s[i] \in T
  BY DEF Keeps
<1>1. s[i] = IF r[i] = r[b] THEN r[a] ELSE r[i]
  BY DEF Merged
<1>2. Alike(docs, b, a)
  BY AlikeIsMutual
<1>3. a \in T <=> b \in T
  BY <1>2 DEF IsClosed
<1>4. \A k \in D : k \in T <=> r[k] \in T
  BY DEF Keeps
<1>5. QED
  BY <1>1, <1>3, <1>4

LEMMA TurnUnites ==
  ASSUME NEW docs, NEW p, NEW i \in DOMAIN docs, NEW j \in DOMAIN docs, DOMAIN docs \subseteq Nat,
         United(p, docs, i, j - 1),
         NEW q, q = IF i < j /\ Alike(docs, i, j) THEN union(p, i, j) ELSE p
  PROVE  United(q, docs, i, j)
<1> DEFINE D == DOMAIN docs
<1>1. PICK r, d : IsForest(p, D, r, d) /\ Keeps(docs, r) /\ Done(docs, r, i, j - 1)
  BY DEF United
<1>2. i \in Nat /\ j \in Nat /\ \A b \in D : b \in Nat
  OBVIOUS
<1>3. CASE i < j /\ Alike(docs, i, j)
  <2> DEFINE s == Merged(r, D, i, j)
  <2>1. PICK e : IsForest(q, D, s, e)
    BY <1>1, <1>3, UnionIs
  <2>2. r \in [D -> D]
    BY <1>1 DEF IsForest
  <2>3. Keeps(docs, s)
    BY <1>1, <1>3, <2>2, UnionKeeps
  <2>4. \A a \in D : s[a] = IF r[a] = r[j] THEN r[i] ELSE r[a]
    BY DEF Merged
  <2> HIDE DEF s
  <2>5. s[i] = s[j]
    BY <2>4
  <2>6. \A a, b \in D : r[a] = r[b] => s[a] = s[b]
    BY <2>4
  <2>7. ASSUME NEW a \in D, NEW b \in D, a < b, Alike(docs, a, b), a < i \/ (a = i /\ b <= j)
        PROVE  s[a] = s[b]
    <3>1. CASE a = i /\ b = j
      BY <2>5, <3>1
    <3>2. CASE ~(a = i /\ b = j)
      <4>1. a < i \/ (a = i /\ b <= j - 1)
        BY <1>2, <2>7, <3>2
      <4>2. r[a] = r[b]
        BY <1>1, <2>7, <4>1 DEF Done
      <4>3. QED
        BY <2>6, <4>2
    <3>3. QED
      BY <3>1, <3>2
  <2>8. Done(docs, s, i, j)
    BY <2>7 DEF Done
  <2>9. QED
    BY <2>1, <2>3, <2>8 DEF United
<1>4. CASE ~(i < j /\ Alike(docs, i, j))
  <2>1. ASSUME NEW a \in D, NEW b \in D, a < b, Alike(docs, a, b), a < i \/ (a = i /\ b <= j)
        PROVE  r[a] = r[b]
    <3>1. ~(a = i /\ b = j)
      BY <1>4, <2>1
    <3>2. a < i \/ (a = i /\ b <= j - 1)
      BY <1>2, <2>1, <3>1
    <3>3. QED
      BY <1>1, <2>1, <3>2 DEF Done
  <2>2. Done(docs, r, i, j)
    BY <2>1 DEF Done
  <2>3. QED
    BY <1>1, <1>4, <2>2 DEF United
<1>5. QED
  BY <1>3, <1>4

LEMMA UnionIsForest ==
  ASSUME NEW D, NEW p \in Forests(D), NEW a \in D, NEW b \in D
  PROVE  union(p, a, b) \in Forests(D)
<1>1. PICK r, d : IsForest(p, D, r, d)
  BY DEF Forests
<1> DEFINE q == union(p, a, b)
<1> HIDE DEF q
<1>2. PICK e : IsForest(q, D, Merged(r, D, a, b), e)
  BY <1>1, UnionIs DEF q
<1>3. q \in [D -> D]
  BY <1>2 DEF IsForest
<1>4. QED
  BY <1>2, <1>3 DEF Forests, q

LEMMA InnerIs ==
  ASSUME NEW docs, NEW n, HasLength(docs, n), NEW i \in 1 .. n, NEW p \in Forests(DOMAIN docs),
         NEW q, q = Inner(docs, i, p)
  PROVE  q \in Forests(DOMAIN docs) /\ (United(p, docs, i, 0) => United(q, docs, i, n))
<1> DEFINE D == DOMAIN docs
           F == Forests(D)
           f == CHOOSE after : after =
                  [j \in 0 .. Len(docs) |->
                     IF j = 0 THEN p
                     ELSE IF i < j /\ Similar(docs[i].words, docs[j].words) THEN union(after[j - 1], i, j)
                     ELSE after[j - 1]]
           g == [t \in (1 .. n) \X F |-> IF i < t[1] /\ Alike(docs, i, t[1]) THEN union(t[2], i, t[1]) ELSE t[2]]
<1>1. n \in Nat /\ Len(docs) = n /\ D = 1 .. n
  BY ListIs
<1>2. q = f[n]
  BY <1>1 DEF Inner
<1>3. \A j \in 1 .. n : \A x \in F :
        /\ g[<<j, x>>] = (IF i < j /\ Alike(docs, i, j) THEN union(x, i, j) ELSE x)
        /\ g[<<j, x>>] \in F
  <2> SUFFICES ASSUME NEW j \in 1 .. n, NEW x \in F
               PROVE  /\ g[<<j, x>>] = (IF i < j /\ Alike(docs, i, j) THEN union(x, i, j) ELSE x)
                      /\ g[<<j, x>>] \in F
    OBVIOUS
  <2>1. g[<<j, x>>] = (IF i < j /\ Alike(docs, i, j) THEN union(x, i, j) ELSE x)
    OBVIOUS
  <2>2. union(x, i, j) \in F
    BY <1>1, UnionIsForest
  <2> HIDE DEF g, F
  <2>3. QED
    BY <2>1, <2>2
<1> HIDE DEF g
<1>4. PICK h : IsLoop(h, n, F, p, g)
  <2> HIDE DEF F
  <2>1. p \in F
    BY DEF F
  <2>2. QED
    BY <1>1, <1>3, <2>1, LoopIs
<1>5. /\ h = [j \in 0 .. n |-> h[j]] /\ h[0] = p
      /\ \A j \in 0 .. n : h[j] \in F
      /\ \A j \in 1 .. n : h[j] = IF i < j /\ Alike(docs, i, j) THEN union(h[j - 1], i, j) ELSE h[j - 1]
  <2>1. /\ h = [j \in 0 .. n |-> h[j]] /\ h[0] = p /\ \A j \in 0 .. n : h[j] \in F
    BY <1>4 DEF IsLoop
  <2>2. ASSUME NEW j \in 1 .. n
        PROVE  h[j] = IF i < j /\ Alike(docs, i, j) THEN union(h[j - 1], i, j) ELSE h[j - 1]
    <3>1. j - 1 \in 0 .. n /\ h[j - 1] \in F
      BY <1>1, <2>1
    <3>2. h[j] = g[<<j, h[j - 1]>>]
      BY <1>4 DEF IsLoop
    <3>3. QED
      BY <1>3, <3>1, <3>2
  <2>3. QED
    BY <2>1, <2>2
<1> HIDE DEF F
<1>6. h = [j \in 0 .. Len(docs) |->
             IF j = 0 THEN p
             ELSE IF i < j /\ Similar(docs[i].words, docs[j].words) THEN union(h[j - 1], i, j)
             ELSE h[j - 1]]
  <2> DEFINE Turn(j) == IF j = 0 THEN p
                        ELSE IF i < j /\ Similar(docs[i].words, docs[j].words) THEN union(h[j - 1], i, j)
                        ELSE h[j - 1]
  <2>1. ASSUME NEW j \in 0 .. n PROVE h[j] = Turn(j)
    <3>1. CASE j = 0
      BY <1>5, <3>1
    <3>2. CASE j # 0
      <4>1. j \in 1 .. n
        BY <1>1, <3>2
      <4>2. QED
        BY <1>5, <3>2, <4>1 DEF Alike
    <3>3. QED
      BY <3>1, <3>2
  <2> HIDE DEF Turn
  <2>2. h = [j \in 0 .. Len(docs) |-> Turn(j)]
    BY <1>1, <1>5, <2>1
  <2>3. QED
    BY <2>2 DEF Turn
<1>7. f = [j \in 0 .. Len(docs) |->
             IF j = 0 THEN p
             ELSE IF i < j /\ Similar(docs[i].words, docs[j].words) THEN union(f[j - 1], i, j)
             ELSE f[j - 1]]
  BY <1>6
<1> HIDE DEF f
<1>8. /\ f[0] = p
      /\ \A j \in 1 .. n : f[j] = IF i < j /\ Alike(docs, i, j) THEN union(f[j - 1], i, j) ELSE f[j - 1]
  BY <1>1, <1>7 DEF Alike
<1>9. f[n] \in F
  <2> DEFINE X == [j \in 0 .. n |-> F]
  <2>1. f[0] \in X[0]
    BY <1>1, <1>8 DEF F
  <2>2. ASSUME NEW j \in 1 .. n, f[j - 1] \in X[j - 1] PROVE f[j] \in X[j]
    <3>1. j - 1 \in 0 .. n /\ f[j - 1] \in F
      BY <1>1, <2>2
    <3>2. union(f[j - 1], i, j) \in F
      BY <1>1, <3>1, UnionIsForest DEF F
    <3>3. QED
      BY <1>1, <1>8, <3>1, <3>2
  <2> HIDE DEF X
  <2>3. \A j \in 0 .. n : f[j] \in X[j]
    BY <1>1, <2>1, <2>2, LoopKeeps
  <2>4. QED
    BY <1>1, <2>3 DEF X
<1>10. ASSUME United(p, docs, i, 0) PROVE United(f[n], docs, i, n)
  <2> DEFINE X == [j \in 0 .. n |-> {x \in [D -> D] : United(x, docs, i, j)}]
  <2>1. \A x, j : United(x, docs, i, j) => x \in [D -> D]
    BY DEF United, IsForest
  <2>2. \A j \in 0 .. n : \A x : x \in X[j] <=> United(x, docs, i, j)
    BY <2>1
  <2> HIDE DEF X
  <2>3. f[0] \in X[0]
    BY <1>1, <1>8, <1>10, <2>2
  <2>4. ASSUME NEW j \in 1 .. n, f[j - 1] \in X[j - 1] PROVE f[j] \in X[j]
    <3>1. j - 1 \in 0 .. n /\ j \in 0 .. n /\ United(f[j - 1], docs, i, j - 1)
      BY <1>1, <2>2, <2>4
    <3>2. D \subseteq Nat /\ i \in D /\ j \in D
      BY <1>1
    <3>3. United(f[j], docs, i, j)
      BY <1>8, <3>1, <3>2, TurnUnites
    <3>4. QED
      BY <2>2, <3>1, <3>3
  <2>5. \A j \in 0 .. n : f[j] \in X[j]
    BY <1>1, <2>3, <2>4, LoopKeeps
  <2>6. QED
    BY <1>1, <2>2, <2>5
<1>11. QED
  BY <1>2, <1>9, <1>10 DEF F

\* The trees at the end: similar documents share a root, and no tree leaves a closed set.
IsPartition(docs, r) ==
  /\ r \in [DOMAIN docs -> DOMAIN docs]
  /\ Keeps(docs, r)
  /\ \A a, b \in DOMAIN docs : Alike(docs, a, b) => r[a] = r[b]

LEMMA RootsAre ==
  ASSUME NEW docs, NEW n, HasLength(docs, n), NEW r, r = Roots(docs)
  PROVE  IsPartition(docs, r)
<1> DEFINE D == DOMAIN docs
           F == Forests(D)
           alone == [k \in DOMAIN docs |-> k]
           f == CHOOSE after : after =
                  [i \in 0 .. Len(docs) |-> IF i = 0 THEN alone ELSE Inner(docs, i, after[i - 1])]
           g == [t \in (1 .. n) \X F |-> Inner(docs, t[1], t[2])]
<1>1. n \in Nat /\ Len(docs) = n /\ D = 1 .. n
  BY ListIs
<1>2. r = find(f[n])
  BY <1>1 DEF Roots
<1>3. United(alone, docs, 0, n) /\ alone \in F
  <2> DEFINE d == [k \in D |-> 0]
  <2>1. IsForest(alone, D, alone, d)
    BY DEF IsForest
  <2>2. Keeps(docs, alone)
    BY DEF Keeps
  <2>3. Done(docs, alone, 0, n)
    BY <1>1 DEF Done
  <2>4. alone \in [D -> D]
    OBVIOUS
  <2> HIDE DEF alone, d
  <2>5. QED
    BY <2>1, <2>2, <2>3, <2>4 DEF United, Forests
<1> HIDE DEF alone
<1>4. \A i \in 1 .. n : \A x \in F : g[<<i, x>>] = Inner(docs, i, x) /\ g[<<i, x>>] \in F
  <2> SUFFICES ASSUME NEW i \in 1 .. n, NEW x \in F
               PROVE  g[<<i, x>>] = Inner(docs, i, x) /\ g[<<i, x>>] \in F
    OBVIOUS
  <2>1. g[<<i, x>>] = Inner(docs, i, x)
    OBVIOUS
  <2>2. Inner(docs, i, x) \in F
    BY InnerIs
  <2> HIDE DEF g, F
  <2>3. QED
    BY <2>1, <2>2
<1> HIDE DEF g
<1>5. PICK h : IsLoop(h, n, F, alone, g)
  <2> HIDE DEF F
  <2>1. QED
    BY <1>1, <1>3, <1>4, LoopIs
<1>6. /\ h = [i \in 0 .. n |-> h[i]] /\ h[0] = alone
      /\ \A i \in 1 .. n : h[i] = Inner(docs, i, h[i - 1])
  <2>1. /\ h = [i \in 0 .. n |-> h[i]] /\ h[0] = alone /\ \A i \in 0 .. n : h[i] \in F
    BY <1>5 DEF IsLoop
  <2>2. ASSUME NEW i \in 1 .. n PROVE h[i] = Inner(docs, i, h[i - 1])
    <3>1. i - 1 \in 0 .. n /\ h[i - 1] \in F
      BY <1>1, <2>1
    <3>2. h[i] = g[<<i, h[i - 1]>>]
      BY <1>5 DEF IsLoop
    <3>3. QED
      BY <1>4, <3>1, <3>2
  <2>3. QED
    BY <2>1, <2>2
<1> HIDE DEF F
<1>7. h = [i \in 0 .. Len(docs) |-> IF i = 0 THEN alone ELSE Inner(docs, i, h[i - 1])]
  <2> DEFINE Turn(i) == IF i = 0 THEN alone ELSE Inner(docs, i, h[i - 1])
  <2>1. ASSUME NEW i \in 0 .. n PROVE h[i] = Turn(i)
    <3>1. CASE i = 0
      BY <1>6, <3>1
    <3>2. CASE i # 0
      <4>1. i \in 1 .. n
        BY <1>1, <3>2
      <4>2. QED
        BY <1>6, <3>2, <4>1
    <3>3. QED
      BY <3>1, <3>2
  <2> HIDE DEF Turn
  <2>2. h = [i \in 0 .. Len(docs) |-> Turn(i)]
    BY <1>1, <1>6, <2>1
  <2>3. QED
    BY <2>2 DEF Turn
<1>8. f = [i \in 0 .. Len(docs) |-> IF i = 0 THEN alone ELSE Inner(docs, i, f[i - 1])]
  BY <1>7
<1> HIDE DEF f
<1>9. f[0] = alone /\ \A i \in 1 .. n : f[i] = Inner(docs, i, f[i - 1])
  BY <1>1, <1>8
<1>10. United(f[n], docs, n, n)
  <2> DEFINE X == [i \in 0 .. n |-> {x \in F : United(x, docs, i, n)}]
  <2>1. \A i \in 0 .. n : \A x : x \in X[i] <=> x \in F /\ United(x, docs, i, n)
    OBVIOUS
  <2> HIDE DEF X
  <2>2. f[0] \in X[0]
    BY <1>1, <1>3, <1>9, <2>1
  <2>3. ASSUME NEW i \in 1 .. n, f[i - 1] \in X[i - 1] PROVE f[i] \in X[i]
    <3>1. i - 1 \in 0 .. n /\ i \in 0 .. n /\ f[i - 1] \in F /\ United(f[i - 1], docs, i - 1, n)
      BY <1>1, <2>1, <2>3
    <3>2. United(f[i - 1], docs, i, 0)
      <4>1. ASSUME NEW s, Done(docs, s, i - 1, n) PROVE Done(docs, s, i, 0)
        <5> SUFFICES ASSUME NEW a \in D, NEW b \in D, a < b, Alike(docs, a, b), a < i \/ (a = i /\ b <= 0)
                     PROVE  s[a] = s[b]
          BY DEF Done
        <5>1. a < i - 1 \/ (a = i - 1 /\ b <= n)
          BY <1>1
        <5>2. QED
          BY <4>1, <5>1 DEF Done
      <4>2. QED
        BY <3>1, <4>1 DEF United
    <3>3. f[i] \in F /\ United(f[i], docs, i, n)
      BY <1>9, <3>1, <3>2, InnerIs DEF F
    <3>4. QED
      BY <2>1, <3>1, <3>3
  <2>4. \A i \in 0 .. n : f[i] \in X[i]
    BY <1>1, <2>2, <2>3, LoopKeeps
  <2>5. QED
    BY <1>1, <2>1, <2>4
<1>11. PICK s, d : IsForest(f[n], D, s, d) /\ Keeps(docs, s) /\ Done(docs, s, n, n)
  BY <1>10 DEF United
<1>12. r = s
  BY <1>2, <1>11, FindIs
<1>13. ASSUME NEW a \in D, NEW b \in D, Alike(docs, a, b) PROVE s[a] = s[b]
  <2>1. CASE a < b
    <3>1. a < n
      BY <1>1, <2>1
    <3>2. QED
      BY <1>11, <1>13, <2>1, <3>1 DEF Done
  <2>2. CASE b < a
    <3>1. b < n /\ Alike(docs, b, a)
      BY <1>1, <1>13, <2>2, AlikeIsMutual
    <3>2. QED
      BY <1>11, <2>2, <3>1 DEF Done
  <2>3. QED
    BY <1>1, <2>1, <2>2
<1>14. s \in [D -> D]
  BY <1>11 DEF IsForest
<1>15. QED
  BY <1>11, <1>12, <1>13, <1>14 DEF IsPartition

-----------------------------------------------------------------------------
(* What is a pattern. *)

IsLinked(S, scan) ==
  \A m \in S, n \in scan : Similar(rows[m].words, rows[n].words) => n \in S

IsComponent(S, scan) ==
  /\ S \in (SUBSET scan) \ {{}} /\ IsLinked(S, scan)
  /\ \A T \in (SUBSET S) \ {{}, S} : ~IsLinked(T, scan)

\* The grievances at some positions of a list.
At(l, g) == {l[i] : i \in g}

\* A list of n rows, none of them twice.
IsScan(l, n) ==
  /\ HasLength(l, n) /\ \A i \in 1 .. n : l[i] \in DOMAIN rows
  /\ \A i, j \in 1 .. n : l[i] = l[j] => i = j

Tree(r, n, x) == {i \in 1 .. n : r[i] = x}

LEMMA TreesAreComponents ==
  ASSUME NEW l, NEW n, IsScan(l, n), NEW docs, docs = [i \in DOMAIN l |-> rows[l[i]]],
         NEW r, IsPartition(docs, r), NEW scan, scan = ToSet(l)
  PROVE  /\ \A k \in 1 .. n : /\ IsComponent(At(l, Tree(r, n, r[k])), scan)
                              /\ Cardinality(At(l, Tree(r, n, r[k]))) = Cardinality(Tree(r, n, r[k]))
         /\ \A S : IsComponent(S, scan) => \E k \in 1 .. n : S = At(l, Tree(r, n, r[k]))
<1> DEFINE D == 1 .. n
<1>1. n \in Nat /\ DOMAIN l = D /\ DOMAIN docs = D
  BY ListIs DEF IsScan
<1>2. \A i, j \in D : Alike(docs, i, j) <=> Similar(rows[l[i]].words, rows[l[j]].words)
  BY <1>1 DEF Alike
<1>3. \A m : m \in scan <=> \E i \in D : m = l[i]
  BY <1>1 DEF ToSet
<1>4. \A i, j \in D : l[i] = l[j] => i = j
  BY DEF IsScan
<1>5. /\ \A i \in D : r[i] \in D
      /\ \A i, j \in D : Alike(docs, i, j) => r[i] = r[j]
  BY <1>1 DEF IsPartition
<1>6. ASSUME NEW T \in SUBSET scan, IsLinked(T, scan)
      PROVE  \A i \in D : l[i] \in T <=> l[r[i]] \in T
  <2> DEFINE P == {i \in D : l[i] \in T}
  <2>1. P \in SUBSET DOMAIN docs /\ \A i \in D : i \in P <=> l[i] \in T
    BY <1>1
  <2> HIDE DEF P
  <2>2. IsClosed(docs, P)
    BY <1>1, <1>2, <1>3, <1>6, <2>1 DEF IsClosed, IsLinked
  <2>3. \A i \in D : i \in P <=> r[i] \in P
    BY <1>1, <2>1, <2>2 DEF IsPartition, Keeps
  <2>4. QED
    BY <1>5, <2>1, <2>3
<1>7. \A x : \A m : m \in At(l, Tree(r, n, x)) <=> \E i \in D : r[i] = x /\ m = l[i]
  BY DEF At, Tree
<1>8. ASSUME NEW x PROVE IsLinked(At(l, Tree(r, n, x)), scan)
  <2> SUFFICES ASSUME NEW m \in At(l, Tree(r, n, x)), NEW q \in scan, Similar(rows[m].words, rows[q].words)
               PROVE  q \in At(l, Tree(r, n, x))
    BY DEF IsLinked
  <2>1. PICK i \in D : r[i] = x /\ m = l[i]
    BY <1>7
  <2>2. PICK j \in D : q = l[j]
    BY <1>3
  <2>3. r[j] = x
    BY <1>2, <1>5, <2>1, <2>2
  <2>4. QED
    BY <1>7, <2>2, <2>3
<1>9. ASSUME NEW T \in (SUBSET scan) \ {{}}, IsLinked(T, scan)
      PROVE  \E k \in D : At(l, Tree(r, n, r[k])) \subseteq T /\ l[k] \in T
  <2>1. PICK k \in D : l[k] \in T
    BY <1>3
  <2>2. l[r[k]] \in T
    BY <1>6, <1>9, <2>1
  <2>3. At(l, Tree(r, n, r[k])) \subseteq T
    BY <1>6, <1>7, <1>9, <2>2
  <2>4. QED
    BY <2>1, <2>3
<1>10. ASSUME NEW k \in D PROVE IsComponent(At(l, Tree(r, n, r[k])), scan)
  <2> DEFINE S == At(l, Tree(r, n, r[k]))
  <2>1. S \in SUBSET scan /\ l[k] \in S
    BY <1>3, <1>7
  <2>2. ASSUME NEW T \in (SUBSET S) \ {{}, S}, IsLinked(T, scan) PROVE FALSE
    <3>1. PICK j \in D : At(l, Tree(r, n, r[j])) \subseteq T /\ l[j] \in T
      BY <1>9, <2>1, <2>2
    <3>2. r[j] = r[k]
      BY <1>4, <1>7, <3>1
    <3>3. QED
      BY <2>2, <3>1, <3>2
  <2>3. IsLinked(S, scan)
    BY <1>8
  <2> HIDE DEF S
  <2>4. QED
    BY <2>1, <2>2, <2>3 DEF IsComponent, S
<1>11. ASSUME NEW k \in D
       PROVE  Cardinality(At(l, Tree(r, n, r[k]))) = Cardinality(Tree(r, n, r[k]))
  <2> DEFINE G == Tree(r, n, r[k])
             S == At(l, G)
             b == [i \in G |-> l[i]]
  <2>1. G \in SUBSET D
    BY DEF Tree
  <2>2. IsFiniteSet(G)
    <3>1. ASSUME NEW m \in Nat PROVE IsFiniteSet(1 .. m)
      BY FS_Interval
    <3>2. QED
      BY <1>1, <2>1, <3>1, FS_Subset
  <2>3. \A m : m \in S <=> \E i \in G : m = l[i]
    BY DEF At
  <2> HIDE DEF G, S
  <2>4. b \in Bijection(G, S)
    BY <1>4, <2>1, <2>3 DEF Bijection, Injection, Surjection, IsInjective
  <2>5. ExistsBijection(G, S)
    BY <2>4 DEF ExistsBijection
  <2>6. Cardinality(S) = Cardinality(G)
    BY <2>2, <2>5, FS_Bijection
  <2>7. QED
    BY <2>6 DEF S, G
<1>12. ASSUME NEW S, IsComponent(S, scan) PROVE \E k \in D : S = At(l, Tree(r, n, r[k]))
  <2>1. S \in (SUBSET scan) \ {{}} /\ IsLinked(S, scan)
    BY <1>12 DEF IsComponent
  <2>2. PICK k \in D : At(l, Tree(r, n, r[k])) \subseteq S
    BY <1>9, <2>1
  <2>3. l[k] \in At(l, Tree(r, n, r[k])) /\ IsLinked(At(l, Tree(r, n, r[k])), scan)
    BY <1>7, <1>8
  <2>4. QED
    BY <1>12, <2>2, <2>3 DEF IsComponent
<1>13. QED
  BY <1>10, <1>11, <1>12

\* The cases that patterns are looked for among.
LEMMA ScanIs ==
  ASSUME LoadedInv, DatesInv, NEW l, l = PatternScan(rows, "moderator", now)
  PROVE  \E n : IsScan(l, n)
<1> DEFINE live == {k \in DOMAIN rows : /\ rows[k].track \in accessibleTracks("moderator")
                                        /\ rows[k].createdAt >= now - PATTERN_DAYS
                                        /\ rows[k].status \notin {"closed", "rejected", "withdrawn"}}
           v == [k \in live |-> -rows[k].createdAt]
           o == InOrder(v)
           c == Cardinality(live)
           n == IF Len(o) < PATTERN_SCAN_LIMIT THEN Len(o) ELSE PATTERN_SCAN_LIMIT
<1>1. l = SubSeq(o, 1, n)
  BY DEF PatternScan, UpTo
<1>2. live \in SUBSET DOMAIN rows
  OBVIOUS
<1> HIDE DEF live
<1>3. DOMAIN rows \subseteq Nat /\ IsFiniteSet(DOMAIN rows)
  <2>1. Len(rows) \in Nat /\ DOMAIN rows = 1 .. Len(rows)
    BY RegisterIs DEF LoadedInv, RegisterInv
  <2>2. ASSUME NEW m \in Nat PROVE IsFiniteSet(1 .. m)
    BY FS_Interval
  <2>3. QED
    BY <2>1, <2>2
<1>4. IsFiniteSet(live) /\ c \in Nat
  BY <1>2, <1>3, FS_Subset, FS_CardinalityType
<1>5. HasValues(v) /\ DOMAIN v = live
  BY <1>2, <1>3, <1>4 DEF HasValues, DatesInv, AllDated, HasDates
<1> HIDE DEF v
<1>6. IsOrder(o, v)
  BY <1>5, OrderIs
<1> HIDE DEF o
<1>7. HasLength(o, c) /\ Len(o) = c /\ DOMAIN o = 1 .. c
  BY <1>5, <1>6, ListIs DEF IsOrder
<1>8. n \in Nat /\ n <= c
  BY <1>4, <1>7, ReportsAssumption
<1>9. \A k \in 1 .. c : o[k] \in live
  BY <1>5, <1>6, <1>7 DEF IsOrder
<1>10. ASSUME NEW j \in 1 .. c, NEW k \in 1 .. c, o[j] = o[k] PROVE j = k
  <2>1. ~(j < k) /\ ~(k < j)
    BY <1>5, <1>6, <1>7, <1>9, <1>10, BeforeIsStrict DEF IsOrder
  <2>2. QED
    BY <1>4, <2>1
<1> HIDE DEF n
<1>11. HasLength(l, n) /\ \A k \in 1 .. n : l[k] = o[k]
  <2>1. o \in Seq({o[k] : k \in 1 .. c})
    BY <1>7, ListIs
  <2>2. l = [k \in 1 .. n |-> o[k]]
    BY <1>1, <1>4, <1>7, <1>8, <2>1
  <2>3. QED
    BY <1>8, <2>2 DEF HasLength
<1>12. \A k \in 1 .. n : k \in 1 .. c
  BY <1>4, <1>8
<1>13. IsScan(l, n)
  <2>1. \A k \in 1 .. n : l[k] = o[k] /\ o[k] \in DOMAIN rows
    BY <1>2, <1>9, <1>11, <1>12
  <2>2. \A j, k \in 1 .. n : o[j] = o[k] => j = k
    BY <1>10, <1>12
  <2> HIDE DEF c
  <2>3. \A j, k \in 1 .. n : l[j] = l[k] => j = k
    BY <2>1, <2>2
  <2>4. HasLength(l, n)
    BY <1>11
  <2>5. \A k \in 1 .. n : l[k] \in DOMAIN rows
    BY <2>1
  <2>6. QED
    BY <2>3, <2>4, <2>5 DEF IsScan
<1>14. QED
  BY <1>13

\* A list of c clusters has every tree that is large enough once, none before a larger one.
HasClusters(found, c, r, n) ==
  /\ HasLength(found, c)
  /\ \A k \in 1 .. c : /\ Cardinality(found[k].members) >= MIN_CLUSTER_SIZE
                       /\ \E i \in 1 .. n : found[k].members = Tree(r, n, r[i])
  /\ \A i \in 1 .. n : Cardinality(Tree(r, n, r[i])) >= MIN_CLUSTER_SIZE =>
       \E k \in 1 .. c : found[k].members = Tree(r, n, r[i])
  /\ \A j, k \in 1 .. c : j < k =>
       /\ found[j].members # found[k].members
       /\ Cardinality(found[j].members) >= Cardinality(found[k].members)

LEMMA ClustersAre ==
  ASSUME NEW docs, NEW n, HasLength(docs, n), NEW found, found = clusterGrievances(docs)
  PROVE  \E c \in Nat : HasClusters(found, c, Roots(docs), n)
<1> DEFINE r == Roots(docs)
           X == {r[i] : i \in DOMAIN docs}
           group == [x \in X |-> {i \in DOMAIN docs : r[i] = x}]
           large == {x \in X : Cardinality(group[x]) >= MIN_CLUSTER_SIZE}
           v == [x \in large |-> -Cardinality(group[x])]
           o == InOrder(v)
           c == Cardinality(large)
<1>1. n \in Nat /\ DOMAIN docs = 1 .. n
  BY ListIs
<1>2. \A i \in 1 .. n : r[i] \in 1 .. n
  <2> HIDE DEF r
  <2>1. IsPartition(docs, r)
    BY RootsAre DEF r
  <2>2. QED
    BY <1>1, <2>1 DEF IsPartition
<1>3. /\ DOMAIN group = X
      /\ found = [k \in DOMAIN o |-> Cluster(docs, group[o[k]])]
  BY DEF clusterGrievances
<1> HIDE DEF r
<1>4. ASSUME NEW x \in X PROVE x \in 1 .. n /\ group[x] = Tree(r, n, x) /\ \E i \in 1 .. n : x = r[i]
  BY <1>1, <1>2 DEF Tree
<1>5. ASSUME NEW i \in 1 .. n PROVE r[i] \in X
  BY <1>1
<1>6. \A x : x \in large <=> x \in X /\ Cardinality(group[x]) >= MIN_CLUSTER_SIZE
  OBVIOUS
<1> HIDE DEF X, group, large
<1>7. IsFiniteSet(1 .. n)
  BY <1>1, FS_Interval
<1>8. ASSUME NEW x \in X PROVE Cardinality(group[x]) \in Nat
  <2>1. group[x] \in SUBSET (1 .. n)
    BY <1>4 DEF Tree
  <2>2. QED
    BY <1>7, <2>1, FS_Subset, FS_CardinalityType
<1>9. large \in SUBSET (1 .. n)
  BY <1>4, <1>6
<1>10. IsFiniteSet(large) /\ c \in Nat
  BY <1>7, <1>9, FS_Subset, FS_CardinalityType
<1>11. DOMAIN v = large /\ \A x \in large : v[x] = -Cardinality(group[x]) /\ v[x] \in Int
  BY <1>6, <1>8
<1> HIDE DEF v
<1>12. HasValues(v)
  <2>1. \A x \in large : x \in Nat
    BY <1>1, <1>9
  <2>2. DOMAIN v \subseteq Nat /\ IsFiniteSet(DOMAIN v)
    BY <1>10, <1>11, <2>1
  <2>3. QED
    BY <1>11, <2>2 DEF HasValues
<1>13. IsOrder(o, v)
  BY <1>12, OrderIs
<1> HIDE DEF o
<1>14. HasLength(o, c) /\ DOMAIN o = 1 .. c
  BY <1>11, <1>13, ListIs DEF IsOrder
<1> HIDE DEF c
<1>15. /\ \A k \in 1 .. c : o[k] \in large
       /\ \A x \in large : \E k \in 1 .. c : o[k] = x
       /\ \A j, k \in 1 .. c : j < k => Before(v, o[j], o[k])
  BY <1>11, <1>13, <1>14 DEF IsOrder
<1>16. HasLength(found, c)
  BY <1>3, <1>10, <1>14 DEF HasLength
<1>17. ASSUME NEW k \in 1 .. c PROVE found[k].members = Tree(r, n, o[k]) /\ o[k] \in X
  <2>1. found[k] = Cluster(docs, group[o[k]])
    BY <1>3, <1>14
  <2>2. ASSUME NEW g PROVE Cluster(docs, g).members = g
    <3> DEFINE agreed == IF Cardinality({docs[i].categoryId : i \in g}) = 1
                         THEN docs[CHOOSE i \in g : TRUE].categoryId ELSE NULL
    <3>1. Cluster(docs, g) = [members |-> g, terms |-> SharedTerms(docs, g), categoryId |-> agreed]
      BY DEF Cluster
    <3> HIDE DEF agreed
    <3>2. QED
      BY <3>1
  <2>3. QED
    BY <1>4, <1>6, <1>15, <2>1, <2>2
<1>18. ASSUME NEW k \in 1 .. c
       PROVE  /\ Cardinality(found[k].members) >= MIN_CLUSTER_SIZE
              /\ \E i \in 1 .. n : found[k].members = Tree(r, n, r[i])
  BY <1>4, <1>6, <1>15, <1>17
<1>19. ASSUME NEW i \in 1 .. n, Cardinality(Tree(r, n, r[i])) >= MIN_CLUSTER_SIZE
       PROVE  \E k \in 1 .. c : found[k].members = Tree(r, n, r[i])
  <2>1. r[i] \in large
    BY <1>4, <1>5, <1>6, <1>19
  <2>2. QED
    BY <1>15, <1>17, <2>1
<1>20. ASSUME NEW j \in 1 .. c, NEW k \in 1 .. c, j < k
       PROVE  /\ found[j].members # found[k].members
              /\ Cardinality(found[j].members) >= Cardinality(found[k].members)
  <2>1. Before(v, o[j], o[k]) /\ o[j] \in large /\ o[k] \in large
    BY <1>15, <1>20
  <2>2. o[j] # o[k]
    BY <1>11, <1>12, <2>1, BeforeIsStrict
  <2>3. Tree(r, n, o[j]) # Tree(r, n, o[k])
    <3>1. PICK i \in 1 .. n : o[j] = r[i]
      BY <1>4, <1>17
    <3>2. i \in Tree(r, n, o[j]) /\ i \notin Tree(r, n, o[k])
      BY <2>2, <3>1 DEF Tree
    <3>3. QED
      BY <3>2
  <2>4. v[o[j]] <= v[o[k]]
    BY <1>11, <2>1 DEF Before
  <2>5. Cardinality(group[o[j]]) >= Cardinality(group[o[k]])
    BY <1>6, <1>8, <1>11, <2>1, <2>4
  <2>6. QED
    BY <1>4, <1>17, <2>3, <2>5
<1>21. HasClusters(found, c, r, n)
  BY <1>16, <1>18, <1>19, <1>20 DEF HasClusters
<1>22. QED
  BY <1>10, <1>21 DEF r

\* The patterns are the first of the clusters.
LEMMA PatternsAre ==
  ASSUME NEW l, l = PatternScan(rows, "moderator", now),
         NEW docs, docs = [i \in DOMAIN l |-> rows[l[i]]],
         NEW found, found = clusterGrievances(docs), NEW c \in Nat, HasLength(found, c),
         NEW m, m = (IF c < PATTERN_LIMIT THEN c ELSE PATTERN_LIMIT),
         NEW patterns, patterns = detectPatterns(rows, "moderator", now)
  PROVE  HasLength(patterns, m) /\ \A k \in 1 .. m : patterns[k].grievances = At(l, found[k].members)
<1> DEFINE first == UpTo(PATTERN_LIMIT, found)
           Shown(p) == [grievances |-> {l[i] : i \in p.members}, terms |-> p.terms,
                        categoryId |-> p.categoryId]
<1>1. isStaff("moderator")
  BY DEF isStaff, STAFF_ROLES, Role
<1>2. patterns = [k \in DOMAIN first |-> Shown(first[k])]
  BY <1>1 DEF detectPatterns
<1>3. \A p : Shown(p).grievances = At(l, p.members)
  BY DEF At
<1> HIDE DEF Shown
<1>4. m \in Nat /\ m <= c
  BY ReportsAssumption
<1>5. Len(found) = c /\ found \in Seq({found[k] : k \in 1 .. c})
  BY ListIs
<1>6. first = SubSeq(found, 1, m)
  BY <1>5 DEF UpTo
<1> HIDE DEF first
<1>7. first = [k \in 1 .. m |-> found[k]]
  <2>1. ASSUME NEW S, NEW s \in Seq(S), NEW j \in Nat, j <= Len(s)
        PROVE  SubSeq(s, 1, j) = [k \in 1 .. j |-> s[k]]
    OBVIOUS
  <2>2. QED
    BY <1>4, <1>5, <1>6, <2>1
<1>8. QED
  BY <1>2, <1>3, <1>4, <1>7 DEF HasLength

LEMMA LoadedPatternsAreComponents == LoadedInv /\ DatesInv => PatternsAreComponents
<1> SUFFICES ASSUME LoadedInv, DatesInv PROVE PatternsAreComponents
  OBVIOUS
<1> DEFINE l     == PatternScan(rows, "moderator", now)
           scan  == ToSet(l)
           docs  == [i \in DOMAIN l |-> rows[l[i]]]
           r     == Roots(docs)
           found == clusterGrievances(docs)
           patterns == detectPatterns(rows, "moderator", now)
           shown == {patterns[k].grievances : k \in DOMAIN patterns}
           IsLarge(S) == IsComponent(S, scan) /\ Cardinality(S) >= MIN_CLUSTER_SIZE
<1>1. PICK n : IsScan(l, n)
  BY ScanIs
<1>2. n \in Nat /\ DOMAIN l = 1 .. n /\ HasLength(docs, n)
  <2> HIDE DEF l
  <2>1. n \in Nat /\ DOMAIN l = 1 .. n
    BY <1>1, ListIs DEF IsScan
  <2>2. QED
    BY <2>1 DEF HasLength
<1>3. PICK c \in Nat : HasClusters(found, c, r, n)
  <2> HIDE DEF docs
  <2>1. QED
    BY <1>2, ClustersAre
<1> DEFINE m == IF c < PATTERN_LIMIT THEN c ELSE PATTERN_LIMIT
<1>4. HasLength(patterns, m) /\ \A k \in 1 .. m : patterns[k].grievances = At(l, found[k].members)
  <2>1. HasLength(found, c)
    BY <1>3 DEF HasClusters
  <2> HIDE DEF l, docs, found, patterns, m
  <2>2. /\ l = PatternScan(rows, "moderator", now) /\ docs = [i \in DOMAIN l |-> rows[l[i]]]
        /\ found = clusterGrievances(docs) /\ patterns = detectPatterns(rows, "moderator", now)
        /\ m = IF c < PATTERN_LIMIT THEN c ELSE PATTERN_LIMIT
    BY DEF l, docs, found, patterns, m
  <2>3. QED
    BY <2>1, <2>2, PatternsAre
<1> HIDE DEF l
<1>5. /\ \A k \in 1 .. n : /\ IsComponent(At(l, Tree(r, n, r[k])), scan)
                           /\ Cardinality(At(l, Tree(r, n, r[k]))) = Cardinality(Tree(r, n, r[k]))
      /\ \A S : IsComponent(S, scan) => \E k \in 1 .. n : S = At(l, Tree(r, n, r[k]))
  <2>1. IsPartition(docs, r)
    <3> HIDE DEF docs
    <3>1. QED
      BY <1>2, RootsAre
  <2> HIDE DEF r
  <2>2. QED
    BY <1>1, <2>1, TreesAreComponents
<1> HIDE DEF docs, r, found, patterns
<1>6. m \in Nat /\ m <= c /\ (m < c => m = PATTERN_LIMIT)
  BY ReportsAssumption
<1> HIDE DEF m
<1>7. DOMAIN patterns = 1 .. m /\ Len(patterns) = m
  BY <1>4, ListIs
<1>8. ASSUME NEW k \in 1 .. c
      PROVE  /\ found[k].members \in SUBSET (1 .. n) /\ IsLarge(At(l, found[k].members))
             /\ Cardinality(At(l, found[k].members)) = Cardinality(found[k].members)
  <2>1. PICK i \in 1 .. n : found[k].members = Tree(r, n, r[i])
    BY <1>3 DEF HasClusters
  <2>2. Cardinality(found[k].members) >= MIN_CLUSTER_SIZE
    BY <1>3 DEF HasClusters
  <2>3. QED
    BY <1>5, <2>1, <2>2 DEF Tree
<1>9. \A T : T \in shown <=> \E k \in 1 .. m : T = At(l, found[k].members)
  BY <1>4, <1>7
<1>10. \A k \in 1 .. m : k \in 1 .. c
  BY <1>6
<1>11. \A T \in shown : IsLarge(T)
  BY <1>8, <1>9, <1>10
<1>12. Cardinality(shown) = Len(patterns)
  <2> DEFINE f == [k \in 1 .. m |-> At(l, found[k].members)]
  <2>1. ASSUME NEW g \in SUBSET (1 .. n), NEW h \in SUBSET (1 .. n), At(l, g) = At(l, h) PROVE g = h
    <3>1. \A i, j \in 1 .. n : l[i] = l[j] => i = j
      BY <1>1 DEF IsScan
    <3>2. \A i \in 1 .. n : (l[i] \in At(l, g) <=> i \in g) /\ (l[i] \in At(l, h) <=> i \in h)
      BY <3>1 DEF At
    <3>3. QED
      BY <2>1, <3>2
  <2>2. ASSUME NEW j \in 1 .. m, NEW k \in 1 .. m, f[j] = f[k] PROVE j = k
    <3>1. found[j].members = found[k].members
      BY <1>8, <1>10, <2>1, <2>2
    <3>2. ~(j < k) /\ ~(k < j)
      BY <1>3, <1>10, <3>1 DEF HasClusters
    <3>3. QED
      BY <1>6, <3>2
  <2>3. f \in Bijection(1 .. m, shown)
    <3>1. DOMAIN f = 1 .. m /\ f = [k \in 1 .. m |-> f[k]] /\ \A k \in 1 .. m : f[k] = At(l, found[k].members)
      OBVIOUS
    <3> HIDE DEF f, shown
    <3>2. \A k \in 1 .. m : f[k] \in shown
      BY <1>9, <3>1
    <3>3. f \in [1 .. m -> shown]
      BY <3>1, <3>2
    <3>4. \A T \in shown : \E k \in 1 .. m : f[k] = T
      BY <1>9, <3>1
    <3>5. QED
      BY <2>2, <3>3, <3>4 DEF Bijection, Injection, Surjection, IsInjective
  <2>4. ExistsBijection(1 .. m, shown)
    BY <2>3 DEF ExistsBijection
  <2>5. IsFiniteSet(1 .. m) /\ Cardinality(1 .. m) = m
    BY <1>6, FS_Interval
  <2> HIDE DEF shown
  <2>6. QED
    BY <1>7, <2>4, <2>5, FS_Bijection
<1>13. ASSUME NEW S, IsLarge(S), S \notin shown
       PROVE  Len(patterns) = PATTERN_LIMIT /\ \A T \in shown : Cardinality(T) >= Cardinality(S)
  <2>1. PICK i \in 1 .. n : S = At(l, Tree(r, n, r[i]))
    BY <1>5, <1>13
  <2>2. Cardinality(Tree(r, n, r[i])) >= MIN_CLUSTER_SIZE
    BY <1>5, <1>13, <2>1
  <2>3. PICK k \in 1 .. c : found[k].members = Tree(r, n, r[i])
    BY <1>3, <2>2 DEF HasClusters
  <2>4. k \notin 1 .. m
    BY <1>9, <1>13, <2>1, <2>3
  <2>5. m < k /\ m < c
    BY <1>6, <2>4
  <2>6. ASSUME NEW T \in shown PROVE Cardinality(T) >= Cardinality(S)
    <3>1. PICK j \in 1 .. m : T = At(l, found[j].members)
      BY <1>9
    <3>2. j \in 1 .. c /\ j < k
      BY <1>6, <2>5
    <3>3. Cardinality(found[j].members) >= Cardinality(found[k].members)
      BY <1>3, <3>2 DEF HasClusters
    <3>4. QED
      BY <1>8, <2>1, <2>3, <3>1, <3>2, <3>3
  <2>7. QED
    BY <1>6, <1>7, <2>5, <2>6
<1>14. QED
  <2> DEFINE components == {S \in (SUBSET scan) \ {{}} :
                              /\ \A a \in S, b \in scan : Similar(rows[a].words, rows[b].words) => b \in S
                              /\ \A T \in (SUBSET S) \ {{}, S} :
                                   ~(\A a \in T, b \in scan : Similar(rows[a].words, rows[b].words) => b \in T)}
             large == {S \in components : Cardinality(S) >= MIN_CLUSTER_SIZE}
  <2>1. \A S : S \in components <=> IsComponent(S, scan)
    BY DEF IsComponent, IsLinked
  <2> HIDE DEF components
  <2>2. \A S : S \in large <=> IsLarge(S)
    BY <2>1
  <2> HIDE DEF large, IsLarge, shown
  <2>3. /\ shown \subseteq large /\ Cardinality(shown) = Len(patterns)
        /\ \A S \in large \ shown :
             Len(patterns) = PATTERN_LIMIT /\ \A T \in shown : Cardinality(T) >= Cardinality(S)
    BY <1>11, <1>12, <1>13, <2>2
  <2>4. QED
    BY <2>3 DEF PatternsAreComponents, components, large, shown, scan, l, patterns

\* However the pairs are united, the patterns on the queue are the large connected components
\* of the similarity of the cases that were scanned, or as many of the largest as are shown:
\* no chain of similar cases is split, none are joined that no chain connects, and no
\* component gives way to a smaller one (ai/clusters.ts:79-153, queries.ts:476-544).
THEOREM PatternsHold == Spec => []PatternsAreComponents
<1>1. QED
  BY DatesHold, LoadedPatternsAreComponents, PTL

=============================================================================
