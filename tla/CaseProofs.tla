----------------------------- MODULE CaseProofs -----------------------------
(***************************************************************************)
(* One grievance: its statutory clock, for any windows, holidays and       *)
(* instants, and its trail, of any length.                                 *)
(*                                                                         *)
(* The first part is about computeDueAt: the loop of working mode ends on  *)
(* the day that is the last of so many working days, as there is always    *)
(* another one after the last holiday.  Induction over the days remaining  *)
(* is by the least number for which it would be wrong.                     *)
(*                                                                         *)
(* The second part follows the case: what its stamps and its flag say of   *)
(* the instants at which they were set.                                    *)
(*                                                                         *)
(* The third part is about the verdict on a trail: a chain only the        *)
(* application wrote verifies, and what was done to a stored row is found  *)
(* where it was done, however many events follow. The argument counts. In  *)
(* a trail whose first rows are numbered 1 .. k and linked, those rows are *)
(* the first k in order and none is a break (IsSound); so the verdict      *)
(* falls on the row after them. What follows are the rows a change leaves  *)
(* sound, and the one it does not.                                         *)
(***************************************************************************)
EXTENDS SlaClock, AuditChain, FiniteSetTheorems, WellFoundedInduction, TLAPS

\* Of some numbers one is the least.
LEMMA LeastNumber ==
  ASSUME NEW T, T \subseteq Nat, T # {}
  PROVE  \E x \in T : \A y \in T : x <= y
<1>1. IsWellFoundedOn(OpToRel(<, Nat), Nat)
  BY NatLessThanWellFounded
<1>2. \E x \in T : \A y \in T : ~(<<y, x>> \in OpToRel(<, Nat))
  BY <1>1, WFMin
<1>3. \A x, y \in Nat : <<y, x>> \in OpToRel(<, Nat) <=> y < x
  BY DEF OpToRel
<1>4. PICK x \in T : \A y \in T : ~(y < x)
  BY <1>2, <1>3
<1>5. \A y \in T : y \in Nat
  OBVIOUS
<1> QED BY <1>4, <1>5

LEMMA MinIsLeast ==
  ASSUME NEW S, S \subseteq Nat, S # {}
  PROVE  Min(S) \in S /\ \A y \in S : Min(S) <= y
<1>1. \E x \in S : \A y \in S : x <= y
  BY LeastNumber
<1> QED BY <1>1 DEF Min

LEMMA MaxOfTwo ==
  ASSUME NEW a \in Int, NEW b \in Int
  PROVE  /\ Max({a, b}) \in {a, b}
         /\ Max({a, b}) >= a /\ Max({a, b}) >= b
<1>1. \E x \in {a, b} : \A y \in {a, b} : x >= y
  OBVIOUS
<1> QED BY <1>1 DEF Max

\* A finite set of numbers has a bound.
LEMMA FiniteIsBounded ==
  ASSUME NEW S, S \subseteq Nat, IsFiniteSet(S)
  PROVE  \E b \in Nat : \A x \in S : x <= b
<1> DEFINE Bounded(R) == \E b \in Nat : \A x \in R : x <= b
           Wrong == {n \in Nat : \E R \in SUBSET Nat :
                       IsFiniteSet(R) /\ Cardinality(R) = n /\ ~Bounded(R)}
<1>1. CASE Wrong = {}
  <2>1. Cardinality(S) \in Nat
    BY FS_CardinalityType
  <2> QED BY <1>1, <2>1
<1>2. CASE Wrong # {}
  <2>1. PICK n \in Wrong : \A m \in Wrong : n <= m
    <3> HIDE DEF Bounded
    <3>1. Wrong \subseteq Nat
      OBVIOUS
    <3> HIDE DEF Wrong
    <3> QED BY <1>2, <3>1, LeastNumber
  <2>2. PICK R \in SUBSET Nat : IsFiniteSet(R) /\ Cardinality(R) = n /\ ~Bounded(R)
    OBVIOUS
  <2>3. R # {}
    BY <2>2
  <2>4. PICK r \in R : TRUE
    BY <2>3
  <2>5. IsFiniteSet(R \ {r}) /\ Cardinality(R \ {r}) = n - 1 /\ n \in Nat /\ n # 0
    BY <2>2, <2>3, <2>4, FS_RemoveElement, FS_EmptySet
  <2>6. n - 1 \in Nat /\ n - 1 \notin Wrong
    BY <2>1, <2>5
  <2>7. Bounded(R \ {r})
    <3> HIDE DEF Bounded
    <3> QED BY <2>5, <2>6
  <2>8. PICK b \in Nat : \A x \in R \ {r} : x <= b
    BY <2>7
  <2>9. r \in Nat /\ \A x \in R : x <= b + r
    <3>1. r \in Nat /\ R \subseteq Nat
      BY <2>2, <2>4
    <3> QED BY <2>8, <3>1
  <2>10. Bounded(R)
    <3>1. b + r \in Nat
      BY <2>9
    <3> QED BY <2>9, <3>1
  <2> QED
    <3> HIDE DEF Bounded
    <3> QED BY <2>2, <2>10
<1> QED BY <1>1, <1>2
-----------------------------------------------------------------------------
(* Working days. *)

\* The working days after a, up to and with b.
Worked(a, b, holidays) == {d \in a + 1 .. b : ~Off(d, holidays)}

\* x is the n-th working day after d; d itself if n is 0.
IsNth(x, n, d, holidays) ==
  IF n = 0 THEN x = d
  ELSE /\ x \in Nat /\ x > d /\ ~Off(x, holidays)
       /\ Cardinality(Worked(d, x, holidays)) = n

\* e is the first working day after d.
IsNext(e, d, holidays) ==
  /\ e \in Nat /\ e > d /\ ~Off(e, holidays)
  /\ \A x \in d + 1 .. e - 1 : Off(x, holidays)

LEMMA WorkedIsFinite ==
  ASSUME NEW a \in Nat, NEW b \in Nat, NEW h
  PROVE  IsFiniteSet(Worked(a, b, h)) /\ Cardinality(Worked(a, b, h)) \in Nat
<1>1. IsFiniteSet(a + 1 .. b)
  BY FS_Interval
<1>2. IsFiniteSet(Worked(a, b, h))
  BY <1>1, FS_Subset DEF Worked
<1> QED BY <1>2, FS_CardinalityType

\* After the last holiday, of two days that follow each other one is worked.
LEMMA NextExists ==
  ASSUME NEW d \in Nat, NEW h, h \subseteq Nat, IsFiniteSet(h)
  PROVE  \E e \in Nat : IsNext(e, d, h)
<1>1. PICK b \in Nat : \A x \in h : x <= b
  BY FiniteIsBounded
<1> DEFINE T == {e \in Nat : e > d /\ ~Off(e, h)}
<1>2. d + b + 1 \in T \/ d + b + 2 \in T
  <2>1. d + b + 1 \notin h /\ d + b + 2 \notin h
    BY <1>1
  <2>2. ~isSunday(d + b + 1) \/ ~isSunday(d + b + 2)
    BY DEF isSunday
  <2> QED BY <2>1, <2>2 DEF Off
<1>3. PICK e \in T : \A y \in T : e <= y
  <2>1. T \subseteq Nat /\ T # {}
    BY <1>2
  <2> HIDE DEF T
  <2> QED BY <2>1, LeastNumber
<1>4. \A x \in d + 1 .. e - 1 : Off(x, h)
  BY <1>3
<1> QED BY <1>3, <1>4 DEF IsNext

\* The n-th working day after d is the one before it after the first.
LEMMA NthAfterNext ==
  ASSUME NEW d \in Nat, NEW h, NEW e \in Nat, IsNext(e, d, h),
         NEW n \in Nat, n # 0, NEW x \in Nat, IsNth(x, n - 1, e, h)
  PROVE  IsNth(x, n, d, h)
<1>1. x >= e
  BY DEF IsNth
<1>2. Worked(d, x, h) = Worked(e, x, h) \cup {e} /\ e \notin Worked(e, x, h)
  BY <1>1 DEF Worked, IsNext
<1>3. Cardinality(Worked(d, x, h)) = Cardinality(Worked(e, x, h)) + 1
  BY <1>2, WorkedIsFinite, FS_AddElement
<1>4. Cardinality(Worked(e, x, h)) = n - 1
  <2>1. CASE n = 1
    <3>1. Worked(e, x, h) = {}
      BY <2>1 DEF IsNth, Worked
    <3> QED BY <2>1, <3>1, FS_EmptySet
  <2> QED BY <2>1 DEF IsNth
<1>5. x > d /\ ~Off(x, h)
  BY <1>1 DEF IsNth, IsNext
<1> QED BY <1>3, <1>4, <1>5 DEF IsNth

\* There is only one.
LEMMA NthIsUnique ==
  ASSUME NEW d \in Nat, NEW h, NEW n \in Nat, NEW x \in Nat, NEW y \in Nat,
         IsNth(x, n, d, h), IsNth(y, n, d, h)
  PROVE  x = y
<1>1. ASSUME NEW u \in Nat, NEW v \in Nat, IsNth(u, n, d, h), IsNth(v, n, d, h), u < v
      PROVE  FALSE
  <2>1. n # 0 /\ u > d
    BY <1>1 DEF IsNth
  <2>2. Worked(d, u, h) \subseteq Worked(d, v, h) /\ v \in Worked(d, v, h) /\ v \notin Worked(d, u, h)
    BY <1>1, <2>1 DEF Worked, IsNth
  <2>3. Cardinality(Worked(d, u, h)) = Cardinality(Worked(d, v, h))
    BY <1>1, <2>1 DEF IsNth
  <2>4. IsFiniteSet(Worked(d, v, h))
    BY WorkedIsFinite
  <2> QED BY <2>2, <2>3, <2>4, FS_Subset
<1> QED BY <1>1

\* There is one, by induction on n.
LEMMA NthExists ==
  ASSUME NEW h, h \subseteq Nat, IsFiniteSet(h), NEW n \in Nat, NEW d \in Nat
  PROVE  \E x \in Nat : IsNth(x, n, d, h)
<1> DEFINE Wrong == {m \in Nat : \E a \in Nat : \A x \in Nat : ~IsNth(x, m, a, h)}
<1>1. CASE Wrong # {}
  <2>1. PICK m \in Wrong : \A k \in Wrong : m <= k
    <3>1. Wrong \subseteq Nat
      OBVIOUS
    <3> HIDE DEF Wrong
    <3> QED BY <1>1, <3>1, LeastNumber
  <2>2. PICK a \in Nat : \A x \in Nat : ~IsNth(x, m, a, h)
    OBVIOUS
  <2>3. m \in Nat /\ m # 0
    BY <2>2 DEF IsNth
  <2>4. m - 1 \in Nat /\ m - 1 \notin Wrong
    BY <2>1, <2>3
  <2>5. PICK e \in Nat : IsNext(e, a, h)
    BY NextExists
  <2>6. PICK x \in Nat : IsNth(x, m - 1, e, h)
    BY <2>4
  <2> HIDE DEF Wrong
  <2> QED BY <2>2, <2>3, <2>5, <2>6, NthAfterNext
<1> QED BY <1>1

\* A day off does not count.
LEMMA NthAfterOff ==
  ASSUME NEW d \in Nat, NEW h, Off(d + 1, h),
         NEW n \in Nat, n # 0, NEW x \in Nat, IsNth(x, n, d + 1, h)
  PROVE  IsNth(x, n, d, h)
<1>1. Worked(d, x, h) = Worked(d + 1, x, h)
  BY DEF Worked
<1> QED BY <1>1 DEF IsNth

-----------------------------------------------------------------------------
(* The loop. *)

\* What the definition of Walk says of it, if there is such a function.
IsWalk(f, holidays) ==
  f = [at \in Nat \X Nat |->
        IF at[1] = 0 THEN at[2]
        ELSE f[<<IF Off(at[2] + 1, holidays) THEN at[1] ELSE at[1] - 1, at[2] + 1>>]]

\* Where the loop ends that has n days remaining and has come to day d.
At(f, n, d) == f[<<n, d>>]

LEMMA WalkIsWalk ==
  ASSUME NEW h, NEW f, IsWalk(f, h)
  PROVE  IsWalk(Walk(h), h)
BY DEF Walk, IsWalk

LEMMA WalkSteps ==
  ASSUME NEW h, NEW f, IsWalk(f, h), NEW n \in Nat, NEW d \in Nat
  PROVE  /\ At(f, 0, d) = d
         /\ n # 0 /\ Off(d + 1, h) => At(f, n, d) = At(f, n, d + 1)
         /\ n # 0 /\ ~Off(d + 1, h) => At(f, n, d) = At(f, n - 1, d + 1)
BY DEF IsWalk, At

\* There is: the function to the n-th working day.
LEMMA WalkExists ==
  ASSUME NEW h, h \subseteq Nat, IsFiniteSet(h)
  PROVE  IsWalk(Walk(h), h)
<1> DEFINE f == [at \in Nat \X Nat |-> CHOOSE x \in Nat : IsNth(x, at[1], at[2], h)]
           step(at) == IF at[1] = 0 THEN at[2]
                       ELSE f[<<IF Off(at[2] + 1, h) THEN at[1] ELSE at[1] - 1, at[2] + 1>>]
<1>1. ASSUME NEW n \in Nat, NEW d \in Nat
      PROVE  f[<<n, d>>] \in Nat /\ IsNth(f[<<n, d>>], n, d, h)
  <2>1. f[<<n, d>>] = CHOOSE x \in Nat : IsNth(x, n, d, h)
    OBVIOUS
  <2> QED BY <2>1, NthExists
<1>2. ASSUME NEW n \in Nat, NEW d \in Nat PROVE f[<<n, d>>] = step(<<n, d>>)
  <2>1. f[<<n, d>>] \in Nat /\ IsNth(f[<<n, d>>], n, d, h)
    BY <1>1
  <2>2. CASE n = 0
    BY <2>1, <2>2 DEF IsNth
  <2>3. CASE n # 0 /\ Off(d + 1, h)
    <3>1. step(<<n, d>>) = f[<<n, d + 1>>]
      BY <2>3
    <3>2. f[<<n, d + 1>>] \in Nat /\ IsNth(f[<<n, d + 1>>], n, d + 1, h)
      BY <1>1
    <3> HIDE DEF f
    <3>3. IsNth(f[<<n, d + 1>>], n, d, h)
      BY <2>3, <3>2, NthAfterOff
    <3> HIDE DEF step
    <3> QED BY <2>1, <3>1, <3>2, <3>3, NthIsUnique
  <2>4. CASE n # 0 /\ ~Off(d + 1, h)
    <3>1. step(<<n, d>>) = f[<<n - 1, d + 1>>]
      BY <2>4
    <3>2. f[<<n - 1, d + 1>>] \in Nat /\ IsNth(f[<<n - 1, d + 1>>], n - 1, d + 1, h)
      <4>1. n - 1 \in Nat
        BY <2>4
      <4> HIDE DEF f
      <4> QED BY <1>1, <4>1
    <3>3. IsNext(d + 1, d, h)
      BY <2>4 DEF IsNext
    <3> HIDE DEF f, step
    <3>4. IsNth(f[<<n - 1, d + 1>>], n, d, h)
      BY <2>4, <3>2, <3>3, NthAfterNext
    <3> QED BY <2>1, <3>1, <3>2, <3>4, NthIsUnique
  <2> HIDE DEF f, step
  <2> QED BY <2>2, <2>3, <2>4
<1>3. f = [at \in Nat \X Nat |-> step(at)]
  <2>1. \A at \in Nat \X Nat : f[at] = step(at)
    <3> HIDE DEF f, step
    <3> SUFFICES ASSUME NEW at \in Nat \X Nat PROVE f[at] = step(at)
      OBVIOUS
    <3>1. at = <<at[1], at[2]>> /\ at[1] \in Nat /\ at[2] \in Nat
      OBVIOUS
    <3>2. f[<<at[1], at[2]>>] = step(<<at[1], at[2]>>)
      BY <1>2, <3>1
    <3> QED BY <3>1, <3>2
  <2>2. f = [at \in Nat \X Nat |-> f[at]]
    OBVIOUS
  <2> HIDE DEF f, step
  <2> QED BY <2>1, <2>2
<1>4. IsWalk(f, h)
  <2> HIDE DEF f
  <2> QED BY <1>3 DEF IsWalk
<1> HIDE DEF f
<1> QED BY <1>4, WalkIsWalk

\* From d, the loop goes through the days off to the next working day.
LEMMA WalkToNext ==
  ASSUME NEW h, NEW f, IsWalk(f, h), NEW n \in Nat, n # 0,
         NEW d \in Nat, NEW e \in Nat, IsNext(e, d, h)
  PROVE  At(f, n, d) = At(f, n - 1, e)
<1> DEFINE Wrong == {k \in Nat : k < e - d /\ At(f, n, e - 1 - k) # At(f, n - 1, e)}
<1>0. \A y \in Nat : /\ Off(y + 1, h) => At(f, n, y) = At(f, n, y + 1)
                     /\ ~Off(y + 1, h) => At(f, n, y) = At(f, n - 1, y + 1)
  BY WalkSteps
<1>1. CASE Wrong # {}
  <2>1. PICK k \in Wrong : \A j \in Wrong : k <= j
    <3>1. Wrong \subseteq Nat
      OBVIOUS
    <3> HIDE DEF Wrong
    <3> QED BY <1>1, <3>1, LeastNumber
  <2>2. /\ k \in Nat /\ k < e - d /\ At(f, n, e - 1 - k) # At(f, n - 1, e)
        /\ e - 1 - k \in Nat /\ e > d
    BY <2>1 DEF IsNext
  <2>3. CASE k = 0
    <3>1. e - 1 \in Nat /\ (e - 1) + 1 = e /\ ~Off(e, h)
      BY <2>2, <2>3 DEF IsNext
    <3>2. At(f, n, e - 1) = At(f, n - 1, (e - 1) + 1)
      BY <1>0, <3>1
    <3> QED BY <2>2, <2>3, <3>1, <3>2
  <2>4. CASE k # 0
    <3>1. /\ k - 1 \in Nat /\ k - 1 < e - d /\ (e - 1 - k) + 1 = e - 1 - (k - 1)
          /\ (e - 1 - k) + 1 \in d + 1 .. e - 1
      BY <2>2, <2>4
    <3>2. At(f, n, e - 1 - (k - 1)) = At(f, n - 1, e)
      BY <2>1, <2>2, <3>1
    <3>3. Off((e - 1 - k) + 1, h)
      BY <3>1 DEF IsNext
    <3>4. At(f, n, e - 1 - k) = At(f, n, (e - 1 - k) + 1)
      BY <1>0, <2>2, <3>3
    <3> QED BY <2>2, <3>1, <3>2, <3>4
  <2> QED BY <2>3, <2>4
<1>2. CASE Wrong = {}
  <2>1. e - d - 1 \in Nat /\ e - d - 1 < e - d /\ e - 1 - (e - d - 1) = d
    BY DEF IsNext
  <2>2. At(f, n, e - 1 - (e - d - 1)) = At(f, n - 1, e)
    BY <1>2, <2>1
  <2> QED BY <2>1, <2>2
<1> QED BY <1>1, <1>2

\* The loop ends on the n-th working day after the day it began on (sla.ts:71-85).
LEMMA WalkIsNth ==
  ASSUME NEW h, h \subseteq Nat, IsFiniteSet(h), NEW n \in Nat, NEW d \in Nat
  PROVE  Walk(h)[<<n, d>>] \in Nat /\ IsNth(Walk(h)[<<n, d>>], n, d, h)
<1> DEFINE w == Walk(h)
           Right(m, a) == At(w, m, a) \in Nat /\ IsNth(At(w, m, a), m, a, h)
           Wrong == {m \in Nat : \E a \in Nat : ~Right(m, a)}
<1>0. IsWalk(w, h)
  BY WalkExists
<1> HIDE DEF w
<1>1. CASE Wrong # {}
  <2>1. PICK m \in Wrong : \A k \in Wrong : m <= k
    <3>1. Wrong \subseteq Nat
      OBVIOUS
    <3> HIDE DEF Wrong
    <3> QED BY <1>1, <3>1, LeastNumber
  <2>2. PICK a \in Nat : ~Right(m, a)
    OBVIOUS
  <2>3. CASE m = 0
    <3>1. At(w, 0, a) = a
      BY <1>0, WalkSteps, 0 \in Nat
    <3> QED BY <2>2, <2>3, <3>1 DEF IsNth
  <2>4. CASE m # 0
    <3>1. m \in Nat /\ m - 1 \in Nat /\ m - 1 \notin Wrong
      BY <2>1, <2>4
    <3>2. PICK e \in Nat : IsNext(e, a, h)
      BY NextExists
    <3>3. Right(m - 1, e)
      <4> HIDE DEF Right
      <4> QED BY <3>1
    <3>4. At(w, m, a) = At(w, m - 1, e)
      <4> HIDE DEF Wrong, Right
      <4> QED BY <1>0, <2>4, <3>1, <3>2, WalkToNext
    <3>5. IsNth(At(w, m - 1, e), m, a, h)
      BY <2>4, <3>1, <3>2, <3>3, NthAfterNext
    <3> QED BY <2>2, <3>3, <3>4, <3>5
  <2> QED BY <2>3, <2>4
<1>2. CASE Wrong = {}
  <2>1. Right(n, d)
    <3> HIDE DEF Right
    <3> QED BY <1>2
  <2> QED BY <2>1 DEF w, At
<1> QED BY <1>1, <1>2

-----------------------------------------------------------------------------
(* Due dates. *)

\* The last half hour of an Indian day is of that day.
LEMMA EndOfDayIsOfTheDay ==
  ASSUME NEW k \in Nat
  PROVE  istEndOfDay(k) \in Nat /\ istDayNumber(istEndOfDay(k)) = k
BY DEF istEndOfDay, istDayNumber, DAY, IST_OFFSET

LEMMA DaysAreNumbers ==
  ASSUME NEW i \in Nat PROVE istDayNumber(i) \in Nat
BY DEF istDayNumber, DAY, IST_OFFSET

\* A case is due at the end of some day, whatever the window and the mode.
LEMMA DueAtEndOfDay ==
  ASSUME NEW i \in Nat, NEW days \in Nat, NEW mode, NEW h, h \subseteq Nat, IsFiniteSet(h)
  PROVE  \E k \in Nat : computeDueAt(i, days, mode, h) = istEndOfDay(k)
<1>1. istDayNumber(i) \in Nat
  BY DaysAreNumbers
<1>2. Walk(h)[<<days, istDayNumber(i)>>] \in Nat
  BY <1>1, WalkIsNth
<1>3. istDayNumber(i) + days \in Nat
  BY <1>1
<1> QED BY <1>2, <1>3 DEF computeDueAt

\* A working day is found, and as many of them as the window has lie between.
LEMMA DueDayIsNth ==
  ASSUME now \in Nat, NEW days \in Nat \ {0}, NEW h, h \subseteq Nat, IsFiniteSet(h)
  PROVE  LET due == istDayNumber(computeDueAt(now, days, "working", h))
             worked == {d \in istDayNumber(now) + 1 .. due : ~isSunday(d) /\ d \notin h}
         IN due \in worked /\ Cardinality(worked) = days
<1> DEFINE today == istDayNumber(now)
           end   == Walk(h)[<<days, today>>]
<1>1. today \in Nat
  BY DaysAreNumbers
<1>2. end \in Nat /\ IsNth(end, days, today, h)
  BY <1>1, WalkIsNth
<1>3. istDayNumber(computeDueAt(now, days, "working", h)) = end
  BY <1>2, EndOfDayIsOfTheDay DEF computeDueAt
<1>4. /\ end > today /\ ~Off(end, h)
      /\ Cardinality(Worked(today, end, h)) = days
  BY <1>2 DEF IsNth
<1>5. {d \in today + 1 .. end : ~isSunday(d) /\ d \notin h} = Worked(today, end, h)
  BY DEF Worked, Off
<1>6. end \in Worked(today, end, h)
  BY <1>1, <1>2, <1>4 DEF Worked
<1> QED BY <1>3, <1>4, <1>5, <1>6

-----------------------------------------------------------------------------
(* One case. *)

\* A stamp is none, or an instant that has come.
IsStamp(x, t) == x # NULL => x \in Nat /\ x <= t

Row(status, createdAt, dueAt, resolvedAt, closedAt, flag) ==
  [status |-> status, createdAt |-> createdAt, dueAt |-> dueAt,
   resolvedAt |-> resolvedAt, closedAt |-> closedAt, flag |-> flag]

\* What a row says of the instants at which it was written, at time t: it is due at the
\* end of a day; what is not open has a closing stamp; and a flag was set after that day.
IsCase(g, t) ==
  /\ g = Row(g.status, g.createdAt, g.dueAt, g.resolvedAt, g.closedAt, g.flag)
  /\ g.status \in Status
  /\ g.createdAt \in Nat
  /\ \E k \in Nat : g.dueAt = istEndOfDay(k)
  /\ IsStamp(g.resolvedAt, t) /\ IsStamp(g.closedAt, t)
  /\ ~isOpen(g.status) => g.closedAt # NULL
  /\ g.flag # NULL => g.flag \in Nat /\ g.flag >= 1 /\ g.dueAt < t

ClockInv ==
  /\ now \in Instants
  /\ Filed => IsCase(grievance, now)

LEMMA DueAtIsANumber ==
  ASSUME NEW g, NEW t, IsCase(g, t) PROVE g.dueAt \in Nat
BY EndOfDayIsOfTheDay DEF IsCase

LEMMA InstantsAreNumbers == Instants \subseteq Nat /\ Instants # {}
BY InstantsAssumption

LEMMA NewCase ==
  ASSUME now \in Nat, NEW k \in Nat
  PROVE  IsCase(NewGrievance(istEndOfDay(k)), now)
BY DEF NewGrievance, IsCase, Row, IsStamp, Status, isOpen, TERMINAL_STATUSES

\* The instants are filed, decided and swept in order.
LEMMA FilingKeepsClock ==
  ASSUME ClockInv, SubmitGrievance \/ FileAppeal PROVE ClockInv'
<1>1. now \in Nat /\ now' = now
  BY InstantsAreNumbers DEF ClockInv, SubmitGrievance, FileAppeal
<1>2. IsFiniteSet({}) /\ {} \subseteq Nat
  BY FS_EmptySet
<1>3. \E k \in Nat : grievance' = NewGrievance(istEndOfDay(k))
  <2>1. CASE SubmitGrievance
    <3>1. PICK track \in Track, override \in CategorySlaDays, mode \in Modes :
            grievance' = NewGrievance(DueAtFor(track, override, mode))
      BY <2>1 DEF SubmitGrievance
    <3>2. /\ slaIccInquiryDays \in Nat
          /\ (IF override = NULL THEN slaResolutionDays ELSE override) \in Nat
      BY WindowsAssumption
    <3>3. \E k \in Nat : DueAtFor(track, override, mode) = istEndOfDay(k)
      BY <1>1, <1>2, <3>2, DueAtEndOfDay DEF DueAtFor
    <3> QED BY <3>1, <3>3
  <2>2. CASE FileAppeal
    <3>1. slaOmbudspersonDays \in Nat
      BY WindowsAssumption
    <3> QED BY <1>1, <1>2, <2>2, <3>1, DueAtEndOfDay DEF FileAppeal
  <2> QED BY <2>1, <2>2
<1>4. IsCase(grievance', now)
  BY <1>1, <1>3, NewCase
<1> QED BY <1>1, <1>4 DEF ClockInv


\* A decision writes the status and the stamp it stands for, and nothing else.
LEMMA RowUpdated ==
  ASSUME NEW s, NEW c, NEW d, NEW r, NEW x, NEW f, NEW to
  PROVE  WithStatus(Row(s, c, d, r, x, f), to) =
         Row(to, c, d, IF to = "resolved" THEN now ELSE r, IF isOpen(to) THEN x ELSE now, f)
<1> DEFINE r2 == IF to = "resolved" THEN now ELSE r
           x2 == IF isOpen(to) THEN x ELSE now
<1> HIDE DEF r2, x2
<1>1. [Row(s, c, d, r, x, f) EXCEPT !.status = to] = Row(to, c, d, r, x, f)
  BY DEF Row
<1>2. [Row(to, c, d, r, x, f) EXCEPT !.resolvedAt = r2] = Row(to, c, d, r2, x, f)
  BY DEF Row
<1>3. [Row(to, c, d, r2, x, f) EXCEPT !.closedAt = x2] = Row(to, c, d, r2, x2, f)
  BY DEF Row
<1>4. Row(s, c, d, r, x, f).resolvedAt = r /\ Row(s, c, d, r, x, f).closedAt = x
  BY DEF Row
<1>5. [Row(s, c, d, r, x, f) EXCEPT !.status = to, !.resolvedAt = r2, !.closedAt = x2] =
      Row(to, c, d, r2, x2, f)
  BY <1>1, <1>2, <1>3
<1> QED BY <1>4, <1>5 DEF WithStatus, r2, x2

LEMMA DecidingKeepsClock ==
  ASSUME ClockInv, TransitionStatus PROVE ClockInv' /\ (Filed => IsCase(grievance', now'))
<1>1. now \in Nat /\ now' = now /\ IsCase(grievance, now)
  BY InstantsAreNumbers DEF ClockInv, TransitionStatus
<1>2. PICK to \in Status : grievance' = WithStatus(grievance, to)
  BY DEF TransitionStatus
<1> DEFINE g == grievance
           h == Row(to, g.createdAt, g.dueAt, IF to = "resolved" THEN now ELSE g.resolvedAt,
                    IF isOpen(to) THEN g.closedAt ELSE now, g.flag)
<1>3. WithStatus(g, to) = h
  <2>1. g = Row(g.status, g.createdAt, g.dueAt, g.resolvedAt, g.closedAt, g.flag)
    BY <1>1 DEF IsCase
  <2>2. WithStatus(Row(g.status, g.createdAt, g.dueAt, g.resolvedAt, g.closedAt, g.flag), to) = h
    BY RowUpdated
  <2> HIDE DEF h
  <2> QED BY <2>1, <2>2
<1>4. now # NULL
  BY <1>1, WindowsAssumption
<1>5. IsCase(h, now)
  BY <1>1, <1>4 DEF IsCase, IsStamp, Row
<1> QED BY <1>1, <1>2, <1>3, <1>5 DEF ClockInv

\* A flag is set when the day on which the case was due is over.
LEMMA OverdueByADay ==
  ASSUME NEW k \in Nat, NEW t \in Nat, istEndOfDay(k) < t
  PROVE  daysOverdue(istEndOfDay(k), t) \in Nat /\ daysOverdue(istEndOfDay(k), t) >= 1
<1>1. istDayNumber(istEndOfDay(k)) = k
  BY EndOfDayIsOfTheDay
<1>2. istDayNumber(t) \in Nat /\ istDayNumber(t) - k >= 1
  BY DEF istEndOfDay, istDayNumber, DAY, IST_OFFSET
<1>3. istDayNumber(t) - k \in Int /\ 0 \in Int
  BY <1>2
<1>4. /\ Max({0, istDayNumber(t) - k}) \in {0, istDayNumber(t) - k}
      /\ Max({0, istDayNumber(t) - k}) >= istDayNumber(t) - k
  BY <1>3, MaxOfTwo
<1> QED BY <1>1, <1>2, <1>4 DEF daysOverdue

LEMMA SweepKeepsClock ==
  ASSUME ClockInv, Sweep PROVE ClockInv' /\ (Filed => IsCase(grievance', now'))
<1>1. now \in Nat /\ now' = now /\ IsCase(grievance, now)
  BY InstantsAreNumbers DEF ClockInv, Sweep
<1>2. PICK k \in Nat : grievance.dueAt = istEndOfDay(k)
  BY <1>1 DEF IsCase
<1>3. PICK f : f = daysOverdue(grievance.dueAt, now)
  OBVIOUS
<1>4. f \in Nat /\ f >= 1 /\ grievance.dueAt < now
  BY <1>1, <1>2, <1>3, OverdueByADay DEF Sweep, Overdue
<1>5. grievance' = [grievance EXCEPT !.flag = f]
  BY <1>3 DEF Sweep
<1>6. grievance' = Row(grievance.status, grievance.createdAt, grievance.dueAt,
                       grievance.resolvedAt, grievance.closedAt, f)
  BY <1>1, <1>5 DEF IsCase, Row
<1>7. IsCase(grievance', now)
  BY <1>1, <1>4, <1>6 DEF IsCase, Row
<1> QED BY <1>1, <1>7 DEF ClockInv

\* Time only moves on.
LEMMA TickMovesOn ==
  ASSUME now \in Instants, Tick PROVE now' \in Instants /\ now' > now
<1> DEFINE later == {t \in Instants : t > now}
<1>1. later \subseteq Nat /\ later # {}
  BY InstantsAreNumbers DEF Tick
<1>2. now' = Min(later)
  BY DEF Tick
<1> HIDE DEF later
<1>3. now' \in later
  BY <1>1, <1>2, MinIsLeast
<1> QED BY <1>3 DEF later

LEMMA TickKeepsClock ==
  ASSUME ClockInv, Tick PROVE ClockInv' /\ (Filed => IsCase(grievance', now'))
<1>1. now' \in Instants /\ now' > now /\ now' \in Nat /\ now \in Nat /\ grievance' = grievance
  BY TickMovesOn, InstantsAreNumbers DEF ClockInv, Tick
<1>2. ASSUME Filed PROVE IsCase(grievance, now')
  <2>1. IsCase(grievance, now) /\ grievance.dueAt \in Nat
    BY <1>2, DueAtIsANumber DEF ClockInv
  <2> QED BY <1>1, <2>1 DEF IsCase, IsStamp
<1> QED BY <1>1, <1>2 DEF ClockInv, Filed

LEMMA ClockStarts == ASSUME Init PROVE ClockInv
<1>1. Min(Instants) \in Instants
  BY InstantsAreNumbers, MinIsLeast
<1> QED BY <1>1 DEF Init, ClockInv, Filed

LEMMA ClockSteps == ASSUME ClockInv, [Next]_vars PROVE ClockInv'
<1>1. CASE UNCHANGED vars
  BY <1>1 DEF vars, ClockInv, Filed
<1> QED BY <1>1, FilingKeepsClock, DecidingKeepsClock, SweepKeepsClock, TickKeepsClock DEF Next

LEMMA ClockHolds == Spec => []ClockInv
BY ClockStarts, ClockSteps, PTL DEF Spec

-----------------------------------------------------------------------------
(* The theorems. *)

\* The due date of working mode is the n-th working day after the day of filing, for
\* every window an institution or a category has and whatever days it closes on
\* (sla.ts:57-85).
THEOREM WorkingDaysAreCounted == Spec => []DueDayIsTheNthWorkingDay
<1>1. ASSUME ClockInv PROVE DueDayIsTheNthWorkingDay
  <2>1. now \in Nat
    BY <1>1, InstantsAreNumbers DEF ClockInv
  <2>2. ASSUME NEW days \in (CategorySlaDays \ {NULL}) \cup {slaResolutionDays}
        PROVE  days \in Nat \ {0}
    BY WindowsAssumption
  <2>3. ASSUME NEW closed \in SUBSET Holidays
        PROVE  closed \subseteq Nat /\ IsFiniteSet(closed)
    BY WindowsAssumption, FS_Subset
  <2> QED BY <2>1, <2>2, <2>3, DueDayIsNth DEF DueDayIsTheNthWorkingDay
<1> QED BY <1>1, ClockHolds, PTL

LEMMA OpenStatuses ==
  ASSUME NEW s, isOpen(s) PROVE s \notin TERMINAL_STATUSES /\ s \notin {"rejected", "withdrawn"}
BY DEF isOpen, TERMINAL_STATUSES

\* The verdicts of queue, badge, report and watchdog on a case differ in the listed ways
\* and in no other: the case was dropped late, or done in time and is open, or this is just
\* the due instant (compliance.ts:61-70, components/ui/sla.ts:26-50, sla.ts:109-122).
THEOREM VerdictsCompared == Spec => []VerdictsDifferOnlyHere
<1>1. ASSUME ClockInv PROVE VerdictsDifferOnlyHere
  <2> SUFFICES ASSUME Filed PROVE VerdictsDifferOnlyHere
    BY DEF VerdictsDifferOnlyHere
  <2> DEFINE g == grievance
             counted == wasBreached(g, now)
             shown   == computeSlaState(g, now) \in {"overdue", "breached"}
  <2>1. IsCase(g, now) /\ now \in Nat /\ g.dueAt \in Nat
    BY <1>1, InstantsAreNumbers, DueAtIsANumber DEF ClockInv
  <2>2. finishedAt(g) # NULL => finishedAt(g) \in Nat /\ finishedAt(g) <= now
    BY <2>1 DEF finishedAt, IsCase, IsStamp
  \* An open case is late on the screen from its due instant on, ...
  <2>3. ASSUME isOpen(g.status)
        PROVE  (slaState(g, now) = "breached" <=> now >= g.dueAt) /\ (shown <=> now >= g.dueAt)
    <3>1. slaState(g, now) = "breached" <=> now >= g.dueAt
      BY <2>3, OpenStatuses DEF slaState
    <3>2. slaState(g, now) # "overdue"
      BY DEF slaState
    <3> QED BY <2>3, <3>1, <3>2 DEF computeSlaState
  \* ... and one that is not by its resolution, without which it is never late.
  <2>4. ASSUME ~isOpen(g.status)
        PROVE  shown <=> g.resolvedAt # NULL /\ ~(g.resolvedAt <= g.dueAt)
    BY <2>4 DEF computeSlaState
  \* The report goes by the end of the case, and by the clock only if there is none.
  <2>5. IF finishedAt(g) = NULL
        THEN isOpen(g.status) /\ (counted <=> now > g.dueAt)
        ELSE counted <=> finishedAt(g) > g.dueAt
    <3>1. CASE finishedAt(g) = NULL
      <4>1. isOpen(g.status)
        BY <2>1, <3>1 DEF finishedAt, IsCase
      <4> QED BY <3>1, <4>1, OpenStatuses DEF wasBreached
    <3>2. CASE finishedAt(g) # NULL
      BY <3>2 DEF wasBreached
    <3> QED BY <3>1, <3>2
  <2>6. ~isOpen(g.status) => finishedAt(g) # NULL /\ (g.resolvedAt = NULL => finishedAt(g) = g.closedAt)
    BY <2>5 DEF finishedAt
  <2>7. g.resolvedAt # NULL => finishedAt(g) = g.resolvedAt
    BY DEF finishedAt
  <2> HIDE DEF counted, shown
  <2>8. counted /\ ~shown <=> DroppedLate(g)
    <3>1. CASE isOpen(g.status)
      BY <2>1, <2>2, <2>3, <2>5, <3>1 DEF DroppedLate
    <3>2. CASE ~isOpen(g.status)
      BY <2>1, <2>2, <2>4, <2>5, <2>6, <2>7, <3>2 DEF DroppedLate
    <3> QED BY <3>1, <3>2
  <2>9. shown /\ ~counted <=> OpenAfterTimelyEnd(g) \/ DueThisInstant(g)
    <3>1. CASE isOpen(g.status)
      BY <2>1, <2>2, <2>3, <2>5, <3>1 DEF OpenAfterTimelyEnd, DueThisInstant
    <3>2. CASE ~isOpen(g.status)
      BY <2>1, <2>2, <2>4, <2>5, <2>6, <2>7, <3>2 DEF OpenAfterTimelyEnd, DueThisInstant
    <3> QED BY <3>1, <3>2
  <2>10. g.flag # NULL =>
           g.flag >= 1 /\ (counted \/ (finishedAt(g) # NULL /\ finishedAt(g) <= g.dueAt))
    BY <2>1, <2>2, <2>5 DEF IsCase
  <2> QED BY <2>3, <2>8, <2>9, <2>10 DEF VerdictsDifferOnlyHere, counted, shown
<1> QED BY <1>1, ClockHolds, PTL

\* The threshold of due_soon is only ever passed one way.
LEMMA DueSoonStays ==
  ASSUME NEW g, NEW h, NEW t \in Nat, NEW u \in Nat, t <= u,
         g.dueAt \in Nat, g.createdAt \in Nat, h.dueAt = g.dueAt, h.createdAt = g.createdAt,
         DueSoon(g, t)
  PROVE  DueSoon(h, u)
<1>1. g.dueAt - g.createdAt \in Int /\ 15 * DAY \in Int
  BY DEF DAY
<1>2. Max({g.dueAt - g.createdAt, 15 * DAY}) \in Int
  BY <1>1, MaxOfTwo
<1> HIDE DEF DAY
<1>3. PICK m \in Int : m = Max({g.dueAt - g.createdAt, 15 * DAY})
  BY <1>2
<1>4. 5 * (g.dueAt - t) <= m
  BY <1>3 DEF DueSoon
<1>5. 5 * (g.dueAt - u) <= m
  BY <1>4
<1> QED BY <1>3, <1>5 DEF DueSoon

\* What the queue says of an open case gets no better as long as its due date stands.
LEMMA QueueWorsens ==
  ASSUME NEW g, NEW h, NEW t \in Nat, NEW u \in Nat, t <= u,
         g.dueAt \in Nat, g.createdAt \in Nat, h.dueAt = g.dueAt, h.createdAt = g.createdAt,
         isOpen(g.status), isOpen(h.status)
  PROVE  Severity[slaState(g, t)] <= Severity[slaState(h, u)]
<1>1. DueSoon(g, t) => DueSoon(h, u)
  BY DueSoonStays
<1>2. g.status \notin TERMINAL_STATUSES /\ h.status \notin TERMINAL_STATUSES
  BY OpenStatuses
<1>3. /\ Severity["on_track"] = 0 /\ Severity["due_soon"] = 1 /\ Severity["breached"] = 2
  BY DEF Severity
<1> QED BY <1>1, <1>2, <1>3 DEF slaState

\* What the report counts as breached it counts as long as the due date stands, no stamp
\* is taken back and none is set to an instant that is past.
LEMMA ReportStands ==
  ASSUME NEW g, NEW h, NEW t \in Nat, NEW u \in Nat, t <= u, IsCase(g, t), IsCase(h, u),
         h.dueAt = g.dueAt,
         h.resolvedAt = g.resolvedAt \/ h.resolvedAt = u,
         h.closedAt = g.closedAt \/ h.closedAt = u,
         wasBreached(g, t)
  PROVE  wasBreached(h, u)
<1>0. g.dueAt \in Nat /\ u # NULL
  BY DueAtIsANumber, WindowsAssumption
<1>1. CASE finishedAt(g) = NULL
  <2>1. t > g.dueAt /\ g.resolvedAt = NULL /\ g.closedAt = NULL
    BY <1>1 DEF wasBreached, finishedAt
  <2>2. CASE finishedAt(h) = NULL
    <3>1. isOpen(h.status)
      BY <2>2 DEF finishedAt, IsCase
    <3> QED BY <1>0, <2>1, <2>2, <3>1, OpenStatuses DEF wasBreached
  <2>3. CASE finishedAt(h) # NULL
    <3>1. finishedAt(h) = u
      BY <2>1, <2>3 DEF finishedAt
    <3> QED BY <1>0, <2>1, <2>3, <3>1 DEF wasBreached
  <2> QED BY <2>2, <2>3
<1>2. CASE finishedAt(g) # NULL
  <2>1. finishedAt(g) > g.dueAt /\ finishedAt(g) \in Nat /\ finishedAt(g) <= t
    BY <1>2 DEF wasBreached, finishedAt, IsCase, IsStamp
  <2>2. finishedAt(h) = finishedAt(g) \/ finishedAt(h) = u
    BY <1>0, <1>2 DEF finishedAt
  <2> QED BY <1>0, <1>2, <2>1, <2>2 DEF wasBreached
<1> QED BY <1>1, <1>2

\* What a step does to the columns the verdicts read.
LEMMA StampsOnlyAdvance ==
  ASSUME ClockInv, Filed, Next
  PROVE  /\ now \in Nat /\ now' \in Nat /\ now <= now'
         /\ grievance'.dueAt = grievance.dueAt /\ grievance'.createdAt = grievance.createdAt
         /\ grievance'.resolvedAt = grievance.resolvedAt \/ grievance'.resolvedAt = now'
         /\ grievance'.closedAt = grievance.closedAt \/ grievance'.closedAt = now'
<1>1. now \in Nat /\ IsCase(grievance, now)
  BY InstantsAreNumbers DEF ClockInv
<1>2. CASE TransitionStatus
  <2>1. PICK to \in Status : grievance' = WithStatus(grievance, to)
    BY <1>2 DEF TransitionStatus
  <2> DEFINE g == grievance
  <2>2. g = Row(g.status, g.createdAt, g.dueAt, g.resolvedAt, g.closedAt, g.flag)
    BY <1>1 DEF IsCase
  <2>3. WithStatus(Row(g.status, g.createdAt, g.dueAt, g.resolvedAt, g.closedAt, g.flag), to) =
          Row(to, g.createdAt, g.dueAt, IF to = "resolved" THEN now ELSE g.resolvedAt,
              IF isOpen(to) THEN g.closedAt ELSE now, g.flag)
    BY RowUpdated
  <2>4. grievance' = Row(to, g.createdAt, g.dueAt, IF to = "resolved" THEN now ELSE g.resolvedAt,
                         IF isOpen(to) THEN g.closedAt ELSE now, g.flag)
    BY <2>1, <2>2, <2>3
  <2>5. now' = now
    BY <1>2 DEF TransitionStatus
  <2> QED BY <1>1, <2>4, <2>5 DEF Row
<1>3. CASE Sweep
  BY <1>1, <1>3 DEF Sweep, IsCase, Row
<1>4. CASE Tick
  <2>1. now' \in Instants /\ now' > now /\ grievance' = grievance
    BY <1>4, TickMovesOn DEF ClockInv, Tick
  <2> QED BY <1>1, <2>1, InstantsAreNumbers
<1> QED BY <1>2, <1>3, <1>4 DEF Next, SubmitGrievance, FileAppeal

\* No acceptance, appeal, second resolution or passing of time takes a case out of the
\* breaches the report counts, and what the queue says of an open case only gets worse
\* (compliance.ts:61-70, sla.ts:109-122, commands.ts:162-167).
THEOREM BreachStands == Spec => BreachStaysCounted
<1> DEFINE P == Filed =>
             /\ wasBreached(grievance, now) /\ grievance'.status \notin {"rejected", "withdrawn"} =>
                  wasBreached(grievance', now')
             /\ isOpen(grievance.status) /\ isOpen(grievance'.status) =>
                  Severity[slaState(grievance, now)] <= Severity[slaState(grievance', now')]
<1>1. ASSUME ClockInv, ClockInv', Next PROVE P
  <2> SUFFICES ASSUME Filed PROVE P
    OBVIOUS
  <2>1. IsCase(grievance, now) /\ grievance.dueAt \in Nat /\ grievance.createdAt \in Nat
    BY <1>1, DueAtIsANumber DEF ClockInv, IsCase
  <2>2. TransitionStatus \/ Sweep \/ Tick
    BY <1>1 DEF Next, SubmitGrievance, FileAppeal
  <2>3. IsCase(grievance', now')
    BY <1>1, <2>2, DecidingKeepsClock, SweepKeepsClock, TickKeepsClock
  <2>4. wasBreached(grievance, now) => wasBreached(grievance', now')
    BY <1>1, <2>1, <2>3, StampsOnlyAdvance, ReportStands
  <2>5. isOpen(grievance.status) /\ isOpen(grievance'.status) =>
          Severity[slaState(grievance, now)] <= Severity[slaState(grievance', now')]
    BY <1>1, <2>1, StampsOnlyAdvance, QueueWorsens
  <2> QED BY <2>4, <2>5
<1>2. ClockInv /\ ClockInv' /\ [Next]_vars => [P]_vars
  BY <1>1
<1>3. Spec => [][P]_vars
  <2> HIDE DEF P
  <2> QED BY <1>2, ClockHolds, PTL DEF Spec
<1> QED BY <1>3 DEF BreachStaysCounted


-----------------------------------------------------------------------------
(* Rows in order. *)

EventOf(content, remark, visibility, seq, prevHash, hash) ==
  [content |-> content, remark |-> remark, visibility |-> visibility, seq |-> seq,
   prevHash |-> prevHash, hash |-> hash]

IsRow(e) == e = EventOf(e.content, e.remark, e.visibility, e.seq, e.prevHash, e.hash)

\* The table holds finitely many rows, and no two of one seq.
IsTable(S) ==
  /\ IsFiniteSet(S)
  /\ \A e \in S : IsRow(e) /\ e.seq \in Nat
  /\ \A d, e \in S : d.seq = e.seq => d = e

\* There are as many rows before e as its rank says, fewer than rows, and more the
\* later it comes.
LEMMA RankBounds ==
  ASSUME NEW S, IsTable(S), NEW e \in S
  PROVE  /\ Rank(S, e) \in Nat /\ Cardinality(S) \in Nat /\ Rank(S, e) < Cardinality(S)
         /\ \A d \in S : d.seq < e.seq => Rank(S, d) < Rank(S, e)
<1>1. ASSUME NEW x \in S
      PROVE  IsFiniteSet({d \in S : d.seq < x.seq}) /\ Rank(S, x) \in Nat
  <2>1. IsFiniteSet({d \in S : d.seq < x.seq})
    BY FS_Subset DEF IsTable
  <2> QED BY <2>1, FS_CardinalityType DEF Rank
<1>2. Cardinality(S) \in Nat /\ Rank(S, e) < Cardinality(S)
  <2>1. {d \in S : d.seq < e.seq} \subseteq S /\ e \notin {d \in S : d.seq < e.seq}
    BY DEF IsTable
  <2>2. {d \in S : d.seq < e.seq} # S
    BY <2>1
  <2>3. IsFiniteSet(S)
    BY DEF IsTable
  <2>4. Cardinality({d \in S : d.seq < e.seq}) < Cardinality(S)
    BY <2>1, <2>2, <2>3, FS_Subset, FS_CardinalityType
  <2> QED BY <2>3, <2>4, FS_CardinalityType DEF Rank
<1>3. ASSUME NEW d \in S, d.seq < e.seq PROVE Rank(S, d) < Rank(S, e)
  <2> DEFINE A == {x \in S : x.seq < d.seq}
             B == {x \in S : x.seq < e.seq}
  <2>1. A \subseteq B /\ d \in B /\ d \notin A
    BY <1>3 DEF IsTable
  <2>2. IsFiniteSet(B)
    BY <1>1
  <2>3. A # B
    BY <2>1
  <2> HIDE DEF A, B
  <2>4. Cardinality(A) < Cardinality(B)
    BY <2>1, <2>2, <2>3, FS_Subset, FS_CardinalityType
  <2> QED BY <2>4 DEF A, B, Rank
<1> QED BY <1>1, <1>2, <1>3

LEMMA RankIsInjective ==
  ASSUME NEW S, IsTable(S), NEW d \in S, NEW e \in S, Rank(S, d) = Rank(S, e)
  PROVE  d = e
<1>1. d.seq \in Nat /\ e.seq \in Nat /\ (d.seq = e.seq => d = e)
  BY DEF IsTable
<1>2. ~(d.seq < e.seq) /\ ~(e.seq < d.seq)
  BY RankBounds
<1> QED BY <1>1, <1>2

\* Every rank below the number of rows is somebody's.
LEMMA RankIsOnto ==
  ASSUME NEW S, IsTable(S), NEW i \in 0 .. Cardinality(S) - 1
  PROVE  \E e \in S : Rank(S, e) = i
<1> DEFINE n == Cardinality(S)
           f == [e \in S |-> Rank(S, e)]
           T == 0 .. n - 1
<1>1. n \in Nat /\ IsFiniteSet(S)
  BY FS_CardinalityType DEF IsTable
<1>2. IsFiniteSet(T) /\ Cardinality(T) = n
  <2> HIDE DEF n
  <2>1. PICK m \in Int : m = n - 1
    BY <1>1
  <2>2. IsFiniteSet(0 .. m) /\ Cardinality(0 .. m) = IF 0 > m THEN 0 ELSE m - 0 + 1
    BY FS_Interval
  <2> QED BY <1>1, <2>1, <2>2
<1>3. \A e \in S : Rank(S, e) \in T
  BY RankBounds, <1>1
<1>4. \A d, e \in S : Rank(S, d) = Rank(S, e) => d = e
  BY RankIsInjective
<1> HIDE DEF n, T
<1>5. f \in Injection(S, T)
  BY <1>3, <1>4 DEF Injection, IsInjective
<1> HIDE DEF f
<1>6. f \in Surjection(S, T)
  BY <1>1, <1>2, <1>5, FS_Injection DEF n
<1> QED BY <1>6 DEF Surjection, f, T, n

\* In order, a row is where its rank puts it, and every place has a row.
LEMMA PlaceOfRow ==
  ASSUME NEW S, IsTable(S), NEW e \in S
  PROVE  /\ Rank(S, e) + 1 \in DOMAIN InOrder(S)
         /\ InOrder(S)[Rank(S, e) + 1] = e
<1>1. Rank(S, e) \in Nat /\ Cardinality(S) \in Nat /\ Rank(S, e) < Cardinality(S)
  BY RankBounds
<1>2. Rank(S, e) + 1 \in 1 .. Cardinality(S) /\ (Rank(S, e) + 1) - 1 = Rank(S, e)
  BY <1>1
<1>3. InOrder(S)[Rank(S, e) + 1] = CHOOSE d \in S : Rank(S, d) = Rank(S, e)
  BY <1>2 DEF InOrder
<1>4. \A d \in S : Rank(S, d) = Rank(S, e) => d = e
  BY RankIsInjective
<1> QED BY <1>2, <1>3, <1>4 DEF InOrder

LEMMA RowAtPlace ==
  ASSUME NEW S, IsTable(S), NEW i \in 1 .. Cardinality(S)
  PROVE  InOrder(S)[i] \in S /\ Rank(S, InOrder(S)[i]) = i - 1
<1>1. Cardinality(S) \in Nat
  BY FS_CardinalityType DEF IsTable
<1>2. \E e \in S : Rank(S, e) = i - 1
  BY <1>1, RankIsOnto
<1> QED BY <1>2 DEF InOrder

LEMMA OrderIsSequence ==
  ASSUME NEW S, IsTable(S)
  PROVE  /\ Cardinality(S) \in Nat /\ DOMAIN InOrder(S) = 1 .. Cardinality(S)
         /\ Len(InOrder(S)) = Cardinality(S)
<1>1. Cardinality(S) \in Nat
  BY FS_CardinalityType DEF IsTable
<1>2. DOMAIN InOrder(S) = 1 .. Cardinality(S)
  BY DEF InOrder
<1>3. InOrder(S) \in [1 .. Cardinality(S) -> S]
  BY RowAtPlace, <1>2 DEF InOrder
<1>4. InOrder(S) \in Seq(S)
  BY <1>1, <1>3
<1>5. Len(InOrder(S)) \in Nat /\ DOMAIN InOrder(S) = 1 .. Len(InOrder(S))
  BY <1>4
<1> QED BY <1>1, <1>2, <1>5

\* A row whose seq is i, with one of every seq before it and none of seq 0, is the i-th.
LEMMA PlaceOfSeq ==
  ASSUME NEW S, IsTable(S), \A e \in S : e.seq # 0, NEW i \in Nat \ {0}, NEW e \in S,
         \A d \in S : d.seq < e.seq => d.seq < i,
         \A j \in 1 .. i - 1 : \E d \in S : d.seq = j /\ d.seq < e.seq
  PROVE  i \in DOMAIN InOrder(S) /\ InOrder(S)[i] = e
<1> DEFINE B == {d \in S : d.seq < e.seq}
           f == [d \in B |-> d.seq]
           T == 1 .. i - 1
<1>1. IsFiniteSet(B) /\ \A d \in B : d.seq \in T
  BY FS_Subset DEF IsTable
<1>2. \A j \in T : \E d \in B : d.seq = j
  OBVIOUS
<1>3. \A c, d \in B : c.seq = d.seq => c = d
  BY DEF IsTable
<1> HIDE DEF B, T
<1>4. f \in Bijection(B, T)
  BY <1>1, <1>2, <1>3 DEF Bijection, Injection, IsInjective, Surjection
<1>5. Cardinality(T) = Cardinality(B)
  BY <1>1, <1>4, FS_Bijection DEF ExistsBijection
<1>6. Cardinality(T) = i - 1
  BY FS_Interval DEF T
<1>7. Rank(S, e) = i - 1
  BY <1>5, <1>6 DEF Rank, B
<1> QED BY <1>7, PlaceOfRow

\* The last row has the greatest seq.
LEMMA LastIsGreatest ==
  ASSUME NEW S, IsTable(S), S # {}
  PROVE  LET last == InOrder(S)[Len(InOrder(S))] IN
         last \in S /\ \A e \in S : e.seq <= last.seq
<1> DEFINE last == InOrder(S)[Cardinality(S)]
<1>1. Cardinality(S) \in Nat /\ Cardinality(S) # 0 /\ Len(InOrder(S)) = Cardinality(S)
  BY OrderIsSequence, FS_EmptySet DEF IsTable
<1>2. last \in S /\ Rank(S, last) = Cardinality(S) - 1
  BY <1>1, RowAtPlace
<1> HIDE DEF last
<1>3. ASSUME NEW e \in S PROVE e.seq <= last.seq
  <2>1. Rank(S, e) \in Nat /\ Rank(S, e) < Cardinality(S) /\ (last.seq < e.seq => Rank(S, last) < Rank(S, e))
    BY <1>2, RankBounds
  <2>2. e.seq \in Nat /\ last.seq \in Nat
    BY <1>2 DEF IsTable
  <2> QED BY <1>1, <1>2, <2>1, <2>2
<1> QED BY <1>1, <1>2, <1>3 DEF last

-----------------------------------------------------------------------------
(* Sound rows, and the verdict. *)

\* A row with the hash of what it holds, that points at the row before it.
IsLinked(S, e) ==
  /\ e.hash = hashEvent(e)
  /\ IF e.seq = 1 THEN e.prevHash = GENESIS_HASH
     ELSE \E d \in S : d.seq = e.seq - 1 /\ d.hash = e.prevHash

\* The first k rows are numbered 1 .. k and linked.
IsSound(S, k) ==
  /\ \A e \in S : e.seq # 0
  /\ \A i \in 1 .. k : \E e \in S : e.seq = i /\ IsLinked(S, e)

LEMMA SoundPlace ==
  ASSUME NEW S, IsTable(S), NEW k \in Nat, IsSound(S, k), NEW i \in 1 .. k
  PROVE  i \in DOMAIN InOrder(S) /\ InOrder(S)[i] \in S /\ InOrder(S)[i].seq = i
         /\ IsLinked(S, InOrder(S)[i])
<1>1. PICK e \in S : e.seq = i /\ IsLinked(S, e)
  BY DEF IsSound
<1>2. \A j \in 1 .. i - 1 : \E d \in S : d.seq = j /\ d.seq < e.seq
  BY <1>1 DEF IsSound
<1>3. (\A d \in S : d.seq # 0) /\ (\A d \in S : d.seq < e.seq => d.seq < i) /\ i \in Nat \ {0}
  BY <1>1 DEF IsSound
<1>4. i \in DOMAIN InOrder(S) /\ InOrder(S)[i] = e
  BY <1>2, <1>3, PlaceOfSeq
<1> QED BY <1>1, <1>4

LEMMA SoundIsNoBreak ==
  ASSUME NEW S, IsTable(S), NEW k \in Nat, IsSound(S, k), NEW i \in 1 .. k
  PROVE  ~IsBreak(InOrder(S), i)
<1> DEFINE t == InOrder(S)
<1>1. t[i] \in S /\ t[i].seq = i /\ IsLinked(S, t[i])
  BY SoundPlace
<1>2. PrevOk(t, i)
  <2>1. CASE i = 1
    BY <1>1, <2>1 DEF IsLinked, PrevOk
  <2>2. CASE i # 1
    <3>1. PICK d \in S : d.seq = i - 1 /\ d.hash = t[i].prevHash
      BY <1>1, <2>2 DEF IsLinked
    <3>2. i - 1 \in 1 .. k
      BY <2>2
    <3>3. t[i - 1] \in S /\ t[i - 1].seq = i - 1
      BY <3>2, SoundPlace
    <3>4. t[i - 1] = d
      BY <3>1, <3>3 DEF IsTable
    <3> QED BY <2>2, <3>1, <3>4 DEF PrevOk
  <2> QED BY <2>1, <2>2
<1> QED BY <1>1, <1>2 DEF IsBreak, SeqOk, HashOk, IsLinked

LEMMA SoundVerdict ==
  ASSUME NEW S, IsTable(S), IsSound(S, Cardinality(S))
  PROVE  verifyChain(InOrder(S)) = [ok |-> TRUE, length |-> Cardinality(S)]
<1>1. /\ Cardinality(S) \in Nat /\ DOMAIN InOrder(S) = 1 .. Cardinality(S)
      /\ Len(InOrder(S)) = Cardinality(S)
  BY OrderIsSequence
<1>2. {i \in DOMAIN InOrder(S) : IsBreak(InOrder(S), i)} = {}
  BY <1>1, SoundIsNoBreak
<1> QED BY <1>1, <1>2 DEF verifyChain

LEMMA FirstBreak ==
  ASSUME NEW S, IsTable(S), NEW k \in Nat \ {0}, IsSound(S, k - 1),
         k \in DOMAIN InOrder(S), IsBreak(InOrder(S), k)
  PROVE  verifyChain(InOrder(S)) =
           [ok |-> FALSE, brokenAtSeq |-> InOrder(S)[k].seq, reason |-> Reason(InOrder(S), k)]
<1> DEFINE breaks == {i \in DOMAIN InOrder(S) : IsBreak(InOrder(S), i)}
<1>1. k \in breaks
  OBVIOUS
<1>2. ASSUME NEW i \in breaks PROVE k <= i
  <2>1. i \in Nat /\ i # 0
    BY OrderIsSequence
  <2>2. k - 1 \in Nat /\ i \notin 1 .. k - 1
    BY <1>2, SoundIsNoBreak
  <2> QED BY <2>1, <2>2
<1>3. \A i \in breaks : i \in Nat
  BY OrderIsSequence
<1>4. (CHOOSE i \in breaks : \A j \in breaks : i <= j) = k
  <2> HIDE DEF breaks
  <2>1. \A i \in breaks : (\A j \in breaks : i <= j) <=> i = k
    BY <1>1, <1>2, <1>3
  <2> QED BY <1>1, <2>1
<1>5. breaks # {}
  BY <1>1
<1> QED BY <1>4, <1>5 DEF verifyChain

LEMMA AnyBreak ==
  ASSUME NEW S, IsTable(S), NEW e \in S, hashEvent(e) # e.hash
  PROVE  ~verifyChain(InOrder(S)).ok
<1>1. Rank(S, e) + 1 \in DOMAIN InOrder(S) /\ InOrder(S)[Rank(S, e) + 1] = e
  BY PlaceOfRow
<1>2. IsBreak(InOrder(S), Rank(S, e) + 1)
  BY <1>1 DEF IsBreak, HashOk
<1>3. {i \in DOMAIN InOrder(S) : IsBreak(InOrder(S), i)} # {}
  BY <1>1, <1>2
<1> QED BY <1>3 DEF verifyChain

-----------------------------------------------------------------------------
(* Hashing. *)

HashOf(prevHash, seq, content, remark) ==
  <<"v1", OrElse(prevHash, GENESIS_HASH), seq, content, OrElse(remark, "")>>

LEMMA HashOfRow ==
  ASSUME NEW e PROVE hashEvent(e) = HashOf(e.prevHash, e.seq, e.content, e.remark)
BY DEF hashEvent, canonical, HashOf

LEMMA RowWithHash ==
  ASSUME NEW c, NEW r, NEW v, NEW s, NEW p, NEW h
  PROVE  WithHash(EventOf(c, r, v, s, p, h)) = EventOf(c, r, v, s, p, HashOf(p, s, c, r))
<1>1. hashEvent(EventOf(c, r, v, s, p, h)) = HashOf(p, s, c, r)
  BY HashOfRow DEF EventOf
<1>2. PICK x : x = HashOf(p, s, c, r)
  OBVIOUS
<1>3. [EventOf(c, r, v, s, p, h) EXCEPT !.hash = x] = EventOf(c, r, v, s, p, x)
  BY DEF EventOf
<1> QED BY <1>1, <1>2, <1>3 DEF WithHash

\* Values that are hashed alike: equal ones, and none and what stands for it.
SameBytes(x, y, default) == x = y \/ {x, y} = {None, default}

\* Different bytes, different hashes.
LEMMA RowsDiffer ==
  ASSUME NEW g, NEW e,
         HashOf(g.prevHash, g.seq, g.content, g.remark) = HashOf(e.prevHash, e.seq, e.content, e.remark)
  PROVE  /\ g.seq = e.seq /\ g.content = e.content
         /\ SameBytes(g.prevHash, e.prevHash, GENESIS_HASH)
         /\ SameBytes(g.remark, e.remark, "")
<1>1. /\ g.seq = e.seq /\ g.content = e.content
      /\ OrElse(g.prevHash, GENESIS_HASH) = OrElse(e.prevHash, GENESIS_HASH)
      /\ OrElse(g.remark, "") = OrElse(e.remark, "")
  BY DEF HashOf
<1>2. \A x, y, z : OrElse(x, z) = OrElse(y, z) => SameBytes(x, y, z)
  BY DEF OrElse, SameBytes
<1> QED BY <1>1, <1>2

LEMMA HashIsNotGenesis ==
  ASSUME NEW p, NEW s, NEW c, NEW r PROVE HashOf(p, s, c, r) # GENESIS_HASH
<1>1. Len(HashOf(p, s, c, r)) = 5 /\ Len(GENESIS_HASH) = 1
  BY DEF HashOf, GENESIS_HASH
<1> QED BY <1>1

-----------------------------------------------------------------------------
(* The table as it grows and is changed. *)

\* The rows that no change has touched are the first ones, and a change leaves one row
\* that gives it away.
NothingDone ==
  change.kind = "none" =>
    /\ \A e \in rows : e.seq <= Cardinality(rows)
    /\ IsSound(rows, Cardinality(rows))

EditShows ==
  change.kind = "edit" /\ change.hashed =>
    IF change.field = "seq" THEN \E e \in rows : hashEvent(e) # e.hash
    ELSE /\ change.at \in Nat \ {0} /\ IsSound(rows, change.at - 1)
         /\ \E e \in rows : e.seq = change.at /\ hashEvent(e) # e.hash

RemovalShows ==
  change.kind = "delete" /\ ~change.last =>
    /\ change.at \in Nat \ {0} /\ IsSound(rows, change.at - 1)
    /\ \A e \in rows : e.seq # change.at
    /\ \E e \in rows : e.seq = change.at + 1

RewriteShows ==
  change.kind = "rewrite" /\ ~change.last =>
    /\ change.at \in Nat \ {0} /\ IsSound(rows, change.at)
    /\ \E d, e \in rows : d.seq = change.at /\ e.seq = change.at + 1 /\ e.prevHash # d.hash

ChainInv == IsTable(rows) /\ NothingDone /\ EditShows /\ RemovalShows /\ RewriteShows

\* The next event comes after all rows, and is linked to the last.
LEMMA NextRow ==
  ASSUME IsTable(rows), NEW draft, NEW e, e = nextEvent(Newest, draft)
  PROVE  /\ IsRow(e) /\ e.seq \in Nat \ {0} /\ e.hash = hashEvent(e)
         /\ \A d \in rows : d.seq < e.seq
         /\ rows = {} => e.seq = 1 /\ e.prevHash = GENESIS_HASH
         /\ rows # {} => \E d \in rows : d.seq = e.seq - 1 /\ d.hash = e.prevHash
<1>1. PICK s, p : s = (IF Newest = <<>> THEN 1 ELSE Newest[1].seq + 1) /\ p = LinkOf(Newest)
  OBVIOUS
<1>2. e = EventOf(draft.content, draft.remark, draft.visibility, s, p, HashOf(p, s, draft.content, draft.remark))
  BY <1>1, RowWithHash DEF nextEvent, EventOf
<1>3. /\ IsRow(e) /\ e.seq = s /\ e.prevHash = p
      /\ e.hash = hashEvent(e)
  <2>1. e.hash = HashOf(p, s, draft.content, draft.remark) /\ e.prevHash = p /\ e.seq = s
        /\ e.content = draft.content /\ e.remark = draft.remark /\ e.visibility = draft.visibility
    BY <1>2 DEF EventOf
  <2> QED BY <1>2, <2>1, HashOfRow DEF IsRow
<1>4. CASE rows = {}
  <2>1. Newest = <<>>
    BY <1>4 DEF Newest
  <2> QED BY <1>1, <1>3, <1>4, <2>1 DEF LinkOf
<1>5. CASE rows # {}
  <2>1. PICK m : m = Trail[Len(Trail)]
    OBVIOUS
  <2>2. m \in rows /\ \A d \in rows : d.seq <= m.seq
    BY <1>5, <2>1, LastIsGreatest DEF Trail
  <2>3. Newest = <<m>>
    BY <1>5, <2>1 DEF Newest
  <2>4. s = m.seq + 1 /\ p = m.hash
    BY <1>1, <2>3 DEF LinkOf
  <2>5. m.seq \in Nat /\ \A d \in rows : d.seq \in Nat
    BY <2>2 DEF IsTable
  <2>6. m.seq = s - 1 /\ s \in Nat \ {0} /\ \A d \in rows : d.seq < s
    BY <2>2, <2>4, <2>5
  <2> QED BY <1>3, <1>5, <2>2, <2>4, <2>6
<1> QED BY <1>4, <1>5

\* What is sound stays so as events follow.
LEMMA SoundGrows ==
  ASSUME NEW S, NEW T, S \subseteq T, NEW k, IsSound(S, k), \A e \in T \ S : e.seq # 0
  PROVE  IsSound(T, k)
<1>1. \A e \in S : IsLinked(S, e) => IsLinked(T, e)
  BY DEF IsLinked
<1> QED BY <1>1 DEF IsSound

LEMMA AppendKeepsChain ==
  ASSUME ChainInv, NEW draft, AppendEvent(draft) PROVE ChainInv'
<1>1. PICK e : e = nextEvent(Newest, draft)
  OBVIOUS
<1>2. rows' = rows \cup {e} /\ change' = change
  BY <1>1 DEF AppendEvent
<1>3. /\ IsRow(e) /\ e.seq \in Nat \ {0} /\ e.hash = hashEvent(e)
      /\ \A d \in rows : d.seq < e.seq
      /\ rows = {} => e.seq = 1 /\ e.prevHash = GENESIS_HASH
      /\ rows # {} => \E d \in rows : d.seq = e.seq - 1 /\ d.hash = e.prevHash
  BY <1>1, NextRow DEF ChainInv
<1>4. IsTable(rows) /\ e \notin rows
  BY <1>3 DEF ChainInv, IsTable
<1>5. IsTable(rows')
  BY <1>2, <1>3, <1>4, FS_AddElement DEF IsTable
<1>6. \A k : IsSound(rows, k) => IsSound(rows', k)
  <2> SUFFICES ASSUME NEW k, IsSound(rows, k) PROVE IsSound(rows', k)
    OBVIOUS
  <2> QED BY <1>2, <1>3, SoundGrows
<1>7. ASSUME change.kind = "none"
      PROVE  /\ \A d \in rows' : d.seq <= Cardinality(rows')
             /\ IsSound(rows', Cardinality(rows'))
  <2>1. Cardinality(rows) \in Nat /\ Cardinality(rows') = Cardinality(rows) + 1
    BY <1>2, <1>4, FS_AddElement, FS_CardinalityType DEF IsTable
  <2> DEFINE n == Cardinality(rows)
  <2>2. IsSound(rows, n) /\ \A d \in rows : d.seq <= n
    BY <1>7 DEF ChainInv, NothingDone
  <2>3. e.seq = n + 1
    <3>1. CASE rows = {}
      BY <1>3, <3>1, FS_EmptySet
    <3>2. CASE rows # {}
      <4>1. n # 0
        BY <3>2, <1>4, FS_EmptySet DEF IsTable
      <4>2. PICK d \in rows : d.seq = n
        BY <2>1, <2>2, <4>1 DEF IsSound
      <4>3. PICK c \in rows : c.seq = e.seq - 1
        BY <1>3, <3>2
      <4>4. c.seq <= n /\ n < e.seq
        BY <1>3, <2>2, <4>2
      <4> QED BY <1>3, <2>1, <4>3, <4>4
    <3> QED BY <3>1, <3>2
  <2>4. IsLinked(rows', e)
    <3>1. CASE rows = {}
      BY <1>3, <3>1 DEF IsLinked
    <3>2. CASE rows # {}
      <4>1. PICK d \in rows : d.seq = e.seq - 1 /\ d.hash = e.prevHash
        BY <1>3, <3>2
      <4>2. e.seq # 1
        BY <1>3, <2>2, <4>1 DEF IsSound
      <4> QED BY <1>2, <1>3, <4>1, <4>2 DEF IsLinked
    <3> QED BY <3>1, <3>2
  <2>5. IsSound(rows', n)
    BY <1>6, <2>2
  <2>6. \A i \in 1 .. n + 1 : i \in 1 .. n \/ i = n + 1
    BY <2>1
  <2>7. \A d \in rows' : d.seq <= n + 1
    BY <1>2, <2>1, <2>2, <2>3, <1>4 DEF IsTable
  <2> HIDE DEF n
  <2>8. IsSound(rows', n + 1)
    BY <1>2, <2>3, <2>4, <2>5, <2>6 DEF IsSound
  <2> QED BY <2>1, <2>7, <2>8 DEF n
<1>8. NothingDone'
  BY <1>2, <1>7 DEF NothingDone
<1>9. EditShows'
  <2> SUFFICES ASSUME change.kind = "edit", change.hashed
               PROVE  IF change.field = "seq" THEN \E d \in rows' : hashEvent(d) # d.hash
                      ELSE /\ change.at \in Nat \ {0} /\ IsSound(rows', change.at - 1)
                           /\ \E d \in rows' : d.seq = change.at /\ hashEvent(d) # d.hash
    BY <1>2 DEF EditShows
  <2> QED BY <1>2, <1>6 DEF ChainInv, EditShows
<1>10. RemovalShows'
  <2> SUFFICES ASSUME change.kind = "delete", ~change.last
               PROVE  /\ change.at \in Nat \ {0} /\ IsSound(rows', change.at - 1)
                      /\ \A d \in rows' : d.seq # change.at
                      /\ \E d \in rows' : d.seq = change.at + 1
    BY <1>2 DEF RemovalShows
  <2>1. PICK d \in rows : d.seq = change.at + 1 /\ change.at \in Nat \ {0}
    BY DEF ChainInv, RemovalShows
  <2>2. e.seq # change.at
    BY <1>3, <2>1
  <2> QED BY <1>2, <1>6, <2>2 DEF ChainInv, RemovalShows
<1>11. RewriteShows'
  <2> SUFFICES ASSUME change.kind = "rewrite", ~change.last
               PROVE  /\ change.at \in Nat \ {0} /\ IsSound(rows', change.at)
                      /\ \E c, d \in rows' : c.seq = change.at /\ d.seq = change.at + 1
                                               /\ d.prevHash # c.hash
    BY <1>2 DEF RewriteShows
  <2> QED BY <1>2, <1>6 DEF ChainInv, RewriteShows
<1> QED BY <1>5, <1>8, <1>9, <1>10, <1>11 DEF ChainInv

\* What is sound up to k is so in a table that has the same rows up to k.
LEMMA SoundBefore ==
  ASSUME NEW S, NEW n \in Nat, IsSound(S, n), NEW k \in Nat, k <= n,
         NEW T, \A e \in S : e.seq <= k => e \in T, \A e \in T : e.seq # 0
  PROVE  IsSound(T, k)
<1> SUFFICES ASSUME NEW i \in 1 .. k PROVE \E e \in T : e.seq = i /\ IsLinked(T, e)
  BY DEF IsSound
<1>1. PICK e \in S : e.seq = i /\ IsLinked(S, e)
  BY DEF IsSound
<1>2. e \in T
  BY <1>1
<1>3. IsLinked(T, e)
  <2>1. CASE i = 1
    BY <1>1, <2>1 DEF IsLinked
  <2>2. CASE i # 1
    <3>1. PICK d \in S : d.seq = i - 1 /\ d.hash = e.prevHash
      BY <1>1, <2>2 DEF IsLinked
    <3>2. d \in T
      BY <3>1
    <3> QED BY <1>1, <2>2, <3>1, <3>2 DEF IsLinked
  <2> QED BY <2>1, <2>2
<1> QED BY <1>1, <1>2, <1>3

\* As long as nothing was done, the rows are numbered 1 .. n and each has its hash.
LEMMA HonestRows ==
  ASSUME ChainInv, change.kind = "none"
  PROVE  /\ Cardinality(rows) \in Nat /\ IsTable(rows) /\ IsSound(rows, Cardinality(rows))
         /\ \A e \in rows : e.seq \in 1 .. Cardinality(rows) /\ e.hash = hashEvent(e)
<1>1. Cardinality(rows) \in Nat /\ IsTable(rows) /\ IsSound(rows, Cardinality(rows))
      /\ \A e \in rows : e.seq <= Cardinality(rows)
  BY FS_CardinalityType DEF ChainInv, NothingDone, IsTable
<1>2. ASSUME NEW e \in rows PROVE e.seq \in 1 .. Cardinality(rows) /\ e.hash = hashEvent(e)
  <2>1. e.seq \in 1 .. Cardinality(rows)
    BY <1>1 DEF IsTable, IsSound
  <2>2. PICK d \in rows : d.seq = e.seq /\ IsLinked(rows, d)
    BY <1>1, <2>1 DEF IsSound
  <2>3. d = e
    BY <1>1, <2>2 DEF IsTable
  <2> QED BY <2>1, <2>2, <2>3 DEF IsLinked
<1> QED BY <1>1, <1>2

Edited(e, field, value) == [e EXCEPT ![field] = value]

LEMMA EditedRow ==
  ASSUME NEW e, IsRow(e), NEW field \in Fields, NEW value, NEW g, g = Edited(e, field, value)
  PROVE  /\ IsRow(g) /\ g[field] = value
         /\ \A f \in Fields \ {field} : g[f] = e[f]
<1> DEFINE IfIs(f, old) == IF field = f THEN value ELSE old
<1>1. g = EventOf(IfIs("content", e.content), IfIs("remark", e.remark), IfIs("visibility", e.visibility),
              IfIs("seq", e.seq), IfIs("prevHash", e.prevHash), IfIs("hash", e.hash))
  <2>1. CASE field = "content"
    BY <2>1 DEF Edited, IsRow, EventOf
  <2>2. CASE field = "remark"
    BY <2>2 DEF Edited, IsRow, EventOf
  <2>3. CASE field = "visibility"
    BY <2>3 DEF Edited, IsRow, EventOf
  <2>4. CASE field = "seq"
    BY <2>4 DEF Edited, IsRow, EventOf
  <2>5. CASE field = "prevHash"
    BY <2>5 DEF Edited, IsRow, EventOf
  <2>6. CASE field = "hash"
    BY <2>6 DEF Edited, IsRow, EventOf
  <2> QED BY <2>1, <2>2, <2>3, <2>4, <2>5, <2>6 DEF Fields
<1>2. PICK c, r, v, s, p, h :
        /\ c = IfIs("content", e.content) /\ r = IfIs("remark", e.remark)
        /\ v = IfIs("visibility", e.visibility) /\ s = IfIs("seq", e.seq)
        /\ p = IfIs("prevHash", e.prevHash) /\ h = IfIs("hash", e.hash)
  OBVIOUS
<1>3. g = EventOf(c, r, v, s, p, h)
  BY <1>1, <1>2
<1>4. /\ g.content = c /\ g.remark = r /\ g.visibility = v /\ g.seq = s /\ g.prevHash = p /\ g.hash = h
  BY <1>3 DEF EventOf
<1>5. IsRow(g)
  BY <1>3, <1>4 DEF IsRow
<1> QED BY <1>2, <1>4, <1>5 DEF Fields

\* A row no longer has the hash of what it holds when something the hash covers is edited.
LEMMA EditBreaksHash ==
  ASSUME NEW e, IsRow(e), e.hash = hashEvent(e), NEW field \in Fields, NEW value,
         e[field] # value, HashCovers(field, e[field], value),
         NEW g, g = Edited(e, field, value)
  PROVE  hashEvent(g) # g.hash
<1>1. g[field] = value /\ \A f \in Fields \ {field} : g[f] = e[f]
  BY EditedRow
<1>2. hashEvent(g) = HashOf(g.prevHash, g.seq, g.content, g.remark)
      /\ hashEvent(e) = HashOf(e.prevHash, e.seq, e.content, e.remark)
  BY HashOfRow
<1>3. CASE field = "hash"
  <2>1. /\ g.prevHash = e.prevHash /\ g.seq = e.seq /\ g.content = e.content /\ g.remark = e.remark
        /\ g.hash # e.hash
    BY <1>1, <1>3 DEF Fields
  <2> QED BY <1>2, <2>1
<1>4. CASE field # "hash"
  <2>1. g.hash = e.hash
    BY <1>1, <1>4 DEF Fields
  <2>2. ASSUME hashEvent(g) = g.hash PROVE FALSE
    <3>1. HashOf(g.prevHash, g.seq, g.content, g.remark) = HashOf(e.prevHash, e.seq, e.content, e.remark)
      BY <1>2, <2>1, <2>2
    <3>2. /\ g.seq = e.seq /\ g.content = e.content
          /\ SameBytes(g.prevHash, e.prevHash, GENESIS_HASH)
          /\ SameBytes(g.remark, e.remark, "")
      BY <3>1, RowsDiffer
    <3>3. field = "remark" => e.remark # value /\ g.remark = value /\ {e.remark, value} # {None, ""}
      BY <1>1 DEF HashCovers
    <3>4. field = "prevHash" => e.prevHash # value /\ g.prevHash = value
                                /\ {e.prevHash, value} # {None, GENESIS_HASH}
      BY <1>1 DEF HashCovers
    <3>5. field \in {"remark", "prevHash", "content", "seq"}
      BY <1>4 DEF HashCovers
    <3>6. field = "content" => e.content # value /\ g.content = value
      BY <1>1
    <3>7. field = "seq" => e.seq # value /\ g.seq = value
      BY <1>1
    <3> QED BY <3>2, <3>3, <3>4, <3>5, <3>6, <3>7 DEF SameBytes
  <2> QED BY <2>2
<1> QED BY <1>3, <1>4

LEMMA EditKeepsChain ==
  ASSUME ChainInv, NEW e \in rows, NEW field \in Fields, NEW value \in Values(field),
         EditRow(e, field, value)
  PROVE  ChainInv'
<1>1. PICK g : g = Edited(e, field, value)
  OBVIOUS
<1>2. /\ change.kind = "none" /\ e[field] # value
      /\ rows' = (rows \ {e}) \cup {g}
      /\ change' = [kind |-> "edit", at |-> e.seq, field |-> field,
                    hashed |-> HashCovers(field, e[field], value)]
  BY <1>1 DEF EditRow, Edited
<1> DEFINE n == Cardinality(rows)
<1>3. /\ n \in Nat /\ IsTable(rows) /\ IsSound(rows, n)
      /\ \A d \in rows : d.seq \in 1 .. n /\ d.hash = hashEvent(d)
  BY <1>2, HonestRows
<1>4. IsRow(e) /\ IsRow(g) /\ g[field] = value /\ (field # "seq" => g.seq = e.seq)
  <2>1. IsRow(e)
    BY <1>3 DEF IsTable
  <2>2. IsRow(g) /\ g[field] = value /\ \A f \in Fields \ {field} : g[f] = e[f]
    BY <1>1, <2>1, EditedRow
  <2> QED BY <2>1, <2>2 DEF Fields
<1>5. field = "seq" => g.seq \in Nat /\ \A d \in rows : d.seq # g.seq
  <2> SUFFICES ASSUME field = "seq" PROVE g.seq \in Nat /\ \A d \in rows : d.seq # g.seq
    OBVIOUS
  <2>1. value \in (0 .. MaxEvents + 1) \ {d.seq : d \in rows}
    BY DEF Values
  <2> QED BY <1>4, <2>1
<1>6. g.seq \in Nat /\ \A d \in rows \ {e} : d.seq # g.seq
  BY <1>3, <1>4, <1>5 DEF IsTable
<1>7. IsTable(rows')
  <2>1. IsFiniteSet((rows \ {e}) \cup {g})
    BY <1>3, FS_AddElement, FS_RemoveElement DEF IsTable
  <2> QED BY <1>2, <1>3, <1>4, <1>6, <2>1 DEF IsTable
<1>8. EditShows'
  <2> SUFFICES ASSUME HashCovers(field, e[field], value)
               PROVE  IF field = "seq" THEN \E d \in rows' : hashEvent(d) # d.hash
                      ELSE /\ e.seq \in Nat \ {0} /\ IsSound(rows', e.seq - 1)
                           /\ \E d \in rows' : d.seq = e.seq /\ hashEvent(d) # d.hash
    BY <1>2 DEF EditShows
  <2>1. hashEvent(g) # g.hash /\ g \in rows'
    BY <1>1, <1>2, <1>3, <1>4, EditBreaksHash
  <2>2. ASSUME field # "seq" PROVE e.seq \in Nat \ {0} /\ IsSound(rows', e.seq - 1)
    <3>1. e.seq \in 1 .. n /\ e.seq - 1 \in Nat /\ e.seq - 1 <= n
      BY <1>3
    <3>2. (\A d \in rows : d.seq <= e.seq - 1 => d \in rows') /\ (\A d \in rows' : d.seq # 0)
      BY <1>2, <1>3, <1>4, <2>2, <3>1
    <3> HIDE DEF n
    <3> QED BY <1>3, <3>1, <3>2, SoundBefore
  <2> QED BY <1>4, <2>1, <2>2
<1> QED BY <1>2, <1>7, <1>8 DEF ChainInv, NothingDone, RemovalShows, RewriteShows

LEMMA DeleteKeepsChain ==
  ASSUME ChainInv, NEW e \in rows, DeleteRow(e) PROVE ChainInv'
<1>1. PICK m : m = Trail[Len(Trail)]
  OBVIOUS
<1>2. /\ change.kind = "none" /\ rows' = rows \ {e}
      /\ change' = [kind |-> "delete", at |-> e.seq, last |-> e = m]
  BY <1>1 DEF DeleteRow
<1> DEFINE n == Cardinality(rows)
<1>3. /\ n \in Nat /\ IsTable(rows) /\ IsSound(rows, n)
      /\ \A d \in rows : d.seq \in 1 .. n /\ d.hash = hashEvent(d)
  BY <1>2, HonestRows
<1>4. m \in rows /\ \A d \in rows : d.seq <= m.seq
  BY <1>1, <1>3, LastIsGreatest DEF Trail
<1>5. IsTable(rows')
  BY <1>2, <1>3, FS_RemoveElement DEF IsTable
<1>6. RemovalShows'
  <2> SUFFICES ASSUME e # m
               PROVE  /\ e.seq \in Nat \ {0} /\ IsSound(rows', e.seq - 1)
                      /\ \A d \in rows' : d.seq # e.seq
                      /\ \E d \in rows' : d.seq = e.seq + 1
    BY <1>2 DEF RemovalShows
  <2>1. e.seq \in 1 .. n /\ e.seq - 1 \in Nat /\ e.seq - 1 <= n
    BY <1>3
  <2>2. e.seq + 1 \in 1 .. n
    BY <1>3, <1>4, <2>1 DEF IsTable
  <2>3. PICK d \in rows : d.seq = e.seq + 1
    BY <1>3, <2>2 DEF IsSound
  <2>4. d \in rows'
    BY <1>2, <2>1, <2>3
  <2>5. (\A c \in rows : c.seq <= e.seq - 1 => c \in rows') /\ (\A c \in rows' : c.seq # 0 /\ c.seq # e.seq)
    BY <1>2, <1>3, <2>1 DEF IsTable
  <2> HIDE DEF n
  <2>6. IsSound(rows', e.seq - 1)
    BY <1>3, <2>1, <2>5, SoundBefore
  <2> QED BY <2>1, <2>3, <2>4, <2>5, <2>6
<1> QED BY <1>2, <1>5, <1>6 DEF ChainInv, NothingDone, EditShows, RewriteShows

-----------------------------------------------------------------------------
(* Rows written anew. *)

Rephrased(e, content) == WithHash([e EXCEPT !.content = content])
Relinked(e, hash)     == WithHash([e EXCEPT !.prevHash = hash])

\* What the definition of Rewritten says of it, if there is such a function.
IsRewrite(f, trail, i, j, content) ==
  f = [k \in i .. j |->
        IF k = i THEN Rephrased(trail[k], content)
                 ELSE Relinked(trail[k], f[k - 1].hash)]

LEMMA RewriteIsRewrite ==
  ASSUME NEW trail, NEW i, NEW j, NEW content, NEW f, IsRewrite(f, trail, i, j, content)
  PROVE  IsRewrite(Rewritten(trail, i, j, content), trail, i, j, content)
BY DEF Rewritten, IsRewrite, Rephrased, Relinked

\* There is, by induction on the number of rows.
LEMMA RewriteExists ==
  ASSUME NEW trail, NEW i \in Nat, NEW j \in Nat, i <= j, NEW content
  PROVE  IsRewrite(Rewritten(trail, i, j, content), trail, i, j, content)
<1> DEFINE Wrong == {n \in Nat : \A f : ~IsRewrite(f, trail, i, i + n, content)}
<1>1. CASE Wrong # {}
  <2>1. PICK n \in Wrong : \A m \in Wrong : n <= m
    <3>1. Wrong \subseteq Nat
      OBVIOUS
    <3> HIDE DEF Wrong
    <3> QED BY <1>1, <3>1, LeastNumber
  <2>2. n \in Nat /\ \A f : ~IsRewrite(f, trail, i, i + n, content)
    OBVIOUS
  <2>3. CASE n = 0
    <3> DEFINE g == [k \in i .. i |-> Rephrased(trail[k], content)]
    <3>1. g = [k \in i .. i |->
                IF k = i THEN Rephrased(trail[k], content)
                         ELSE Relinked(trail[k], g[k - 1].hash)]
      OBVIOUS
    <3>2. i + n = i
      BY <2>3
    <3> HIDE DEF g
    <3>3. IsRewrite(g, trail, i, i + n, content)
      BY <3>1, <3>2 DEF IsRewrite
    <3> QED BY <2>2, <3>3
  <2>4. CASE n # 0
    <3>1. n - 1 \in Nat /\ n - 1 \notin Wrong
      BY <2>1, <2>2, <2>4
    <3>2. PICK f : IsRewrite(f, trail, i, i + (n - 1), content)
      BY <3>1
    <3>3. \A k \in i .. i + (n - 1) :
            f[k] = IF k = i THEN Rephrased(trail[k], content)
                   ELSE Relinked(trail[k], f[k - 1].hash)
      BY <3>2 DEF IsRewrite
    <3> DEFINE h == i + n
               last == Relinked(trail[h], f[h - 1].hash)
               g == [k \in i .. h |-> IF k = h THEN last ELSE f[k]]
    <3>4. ASSUME NEW k \in i .. h
          PROVE  g[k] = IF k = i THEN Rephrased(trail[k], content)
                        ELSE Relinked(trail[k], g[k - 1].hash)
      <4>1. k # h => k \in i .. i + (n - 1)
        BY <2>2
      <4>2. h # i /\ k \in Nat /\ h \in Nat
        BY <2>2, <2>4
      <4>3. k # i => k - 1 \in i .. h /\ k - 1 # h
        BY <4>2
      <4>4. k # i => g[k - 1] = f[k - 1]
        BY <4>3
      <4>5. g[k] = IF k = h THEN last ELSE f[k]
        OBVIOUS
      <4> HIDE DEF g, h
      <4> QED BY <3>3, <4>1, <4>2, <4>4, <4>5
    <3>5. g = [k \in i .. h |-> g[k]]
      OBVIOUS
    <3>6. IsRewrite(g, trail, i, h, content)
      <4> HIDE DEF g, h
      <4> QED BY <3>4, <3>5 DEF IsRewrite
    <3> HIDE DEF g
    <3> QED BY <2>2, <3>6
  <2> QED BY <2>3, <2>4
<1>2. CASE Wrong = {}
  <2>1. j - i \in Nat /\ i + (j - i) = j
    OBVIOUS
  <2>2. \E f : IsRewrite(f, trail, i, i + (j - i), content)
    BY <1>2, <2>1
  <2> HIDE DEF Wrong
  <2> QED BY <2>1, <2>2, RewriteIsRewrite
<1> QED BY <1>1, <1>2

LEMMA RowWithContent ==
  ASSUME NEW e, IsRow(e), NEW x, NEW g, g = Rephrased(e, x)
  PROVE  IsRow(g) /\ g.seq = e.seq /\ g.prevHash = e.prevHash /\ g.content = x /\ g.hash = hashEvent(g)
<1>1. [e EXCEPT !.content = x] = EventOf(x, e.remark, e.visibility, e.seq, e.prevHash, e.hash)
  BY DEF IsRow, EventOf
<1>2. g = EventOf(x, e.remark, e.visibility, e.seq, e.prevHash, HashOf(e.prevHash, e.seq, x, e.remark))
  BY <1>1, RowWithHash DEF Rephrased
<1>3. /\ g.content = x /\ g.remark = e.remark /\ g.visibility = e.visibility /\ g.seq = e.seq
      /\ g.prevHash = e.prevHash /\ g.hash = HashOf(e.prevHash, e.seq, x, e.remark)
  BY <1>2 DEF EventOf
<1>4. g.hash = hashEvent(g) /\ IsRow(g)
  BY <1>2, <1>3, HashOfRow DEF IsRow
<1> QED BY <1>3, <1>4

LEMMA RowRelinked ==
  ASSUME NEW e, IsRow(e), NEW x, NEW g, g = Relinked(e, x)
  PROVE  IsRow(g) /\ g.seq = e.seq /\ g.prevHash = x /\ g.hash = hashEvent(g)
<1>1. [e EXCEPT !.prevHash = x] = EventOf(e.content, e.remark, e.visibility, e.seq, x, e.hash)
  BY DEF IsRow, EventOf
<1>2. g = EventOf(e.content, e.remark, e.visibility, e.seq, x, HashOf(x, e.seq, e.content, e.remark))
  BY <1>1, RowWithHash DEF Relinked
<1>3. /\ g.content = e.content /\ g.remark = e.remark /\ g.visibility = e.visibility /\ g.seq = e.seq
      /\ g.prevHash = x /\ g.hash = HashOf(x, e.seq, e.content, e.remark)
  BY <1>2 DEF EventOf
<1>4. g.hash = hashEvent(g) /\ IsRow(g)
  BY <1>2, <1>3, HashOfRow DEF IsRow
<1> QED BY <1>3, <1>4

\* Rows with the hash of what they hold have equal hashes only if they are linked alike.
LEMMA EqualHashes ==
  ASSUME NEW d, NEW e, d.hash = hashEvent(d), e.hash = hashEvent(e), d.hash = e.hash
  PROVE  d.content = e.content /\ SameBytes(d.prevHash, e.prevHash, GENESIS_HASH)
BY HashOfRow, RowsDiffer

LEMMA HashesAreNotGenesis ==
  ASSUME NEW e, e.hash = hashEvent(e) PROVE e.hash # GENESIS_HASH
BY HashOfRow, HashIsNotGenesis

\* The rows that are written anew keep their places, and each has another hash than the
\* row it replaces.
LEMMA RewrittenRows ==
  ASSUME ChainInv, change.kind = "none", NEW t, t = Trail, NEW n, n = Cardinality(rows),
         NEW i \in 1 .. n, NEW j \in 1 .. n, i <= j, NEW content, t[i].content # content,
         NEW new, new = Rewritten(t, i, j, content), NEW k \in i .. j
  PROVE  /\ IsRow(new[k]) /\ new[k].seq = k /\ new[k].hash = hashEvent(new[k])
         /\ k = i => new[k].prevHash = t[k].prevHash
         /\ k # i => new[k].prevHash = new[k - 1].hash
         /\ new[k].hash # t[k].hash
<1>1. n \in Nat /\ IsTable(rows) /\ IsSound(rows, n)
  BY HonestRows
<1>2. ASSUME NEW m \in 1 .. n
      PROVE  /\ t[m] \in rows /\ IsRow(t[m]) /\ t[m].seq = m /\ IsLinked(rows, t[m])
             /\ t[m].hash = hashEvent(t[m])
  BY <1>1, SoundPlace DEF Trail, IsTable, IsLinked
<1>3. \A m \in i .. j :
        new[m] = IF m = i THEN Rephrased(t[m], content)
                 ELSE Relinked(t[m], new[m - 1].hash)
  BY RewriteExists, <1>1 DEF IsRewrite
<1>4. ASSUME NEW m \in i .. j
      PROVE  /\ IsRow(new[m]) /\ new[m].seq = m /\ new[m].hash = hashEvent(new[m])
             /\ m = i => new[m].prevHash = t[m].prevHash /\ new[m].content = content
             /\ m # i => new[m].prevHash = new[m - 1].hash
  <2>1. m \in 1 .. n
    BY <1>1
  <2>2. IsRow(t[m]) /\ t[m].seq = m
    BY <1>2, <2>1
  <2>3. CASE m = i
    <3>1. new[m] = Rephrased(t[m], content)
      BY <1>3, <2>3
    <3> QED BY <2>2, <2>3, <3>1, RowWithContent
  <2>4. CASE m # i
    <3>1. new[m] = Relinked(t[m], new[m - 1].hash)
      BY <1>3, <2>4
    <3> QED BY <2>2, <2>4, <3>1, RowRelinked
  <2> QED BY <2>3, <2>4
<1> DEFINE Wrong == {m \in i .. j : new[m].hash = t[m].hash}
<1>5. CASE Wrong # {}
  <2>1. PICK m \in Wrong : \A l \in Wrong : m <= l
    <3>1. Wrong \subseteq Nat
      BY <1>1
    <3> HIDE DEF Wrong
    <3> QED BY <1>5, <3>1, LeastNumber
  <2>2. m \in i .. j /\ m \in 1 .. n /\ new[m].hash = t[m].hash
    BY <1>1
  <2>3. new[m].content = t[m].content /\ SameBytes(new[m].prevHash, t[m].prevHash, GENESIS_HASH)
    BY <1>2, <1>4, <2>2, EqualHashes
  <2>4. CASE m = i
    BY <1>4, <2>2, <2>3, <2>4
  <2>5. CASE m # i
    <3>1. m - 1 \in i .. j /\ m - 1 \in 1 .. n /\ m # 1 /\ m - 1 < m
      BY <1>1, <2>2, <2>5
    <3>2. m - 1 \notin Wrong
      <4> HIDE DEF Wrong
      <4> QED BY <1>1, <2>1, <2>2, <3>1
    <3>3. new[m - 1].hash # t[m - 1].hash
      BY <3>1, <3>2
    <3>4. new[m].prevHash = new[m - 1].hash
      BY <1>4, <2>2, <2>5
    <3>5. PICK d \in rows : d.seq = m - 1 /\ d.hash = t[m].prevHash
      BY <1>2, <2>2, <3>1 DEF IsLinked
    <3>6. d = t[m - 1]
      BY <1>1, <1>2, <3>1, <3>5 DEF IsTable
    <3>7. t[m].prevHash = t[m - 1].hash
      BY <3>5, <3>6
    <3>8. new[m - 1].hash # GENESIS_HASH /\ t[m - 1].hash # GENESIS_HASH
      BY <1>2, <1>4, <3>1, HashesAreNotGenesis
    <3> QED BY <2>3, <3>3, <3>4, <3>7, <3>8 DEF SameBytes
  <2> QED BY <2>4, <2>5
<1>6. CASE Wrong = {}
  BY <1>4, <1>6
<1> QED BY <1>5, <1>6

LEMMA RewriteKeepsChain ==
  ASSUME ChainInv, NEW i \in DOMAIN Trail, NEW j \in DOMAIN Trail, NEW content \in Contents,
         i <= j, RewriteRows(i, j, content)
  PROVE  ChainInv'
<1>1. PICK t, new, n : t = Trail /\ new = Rewritten(t, i, j, content) /\ n = Cardinality(rows)
  OBVIOUS
<1>2. /\ change.kind = "none" /\ t[i].content # content
      /\ rows' = {e \in rows : e.seq \notin i .. j} \cup {new[k] : k \in i .. j}
      /\ change' = [kind |-> "rewrite", at |-> j, last |-> j = Len(t)]
  BY <1>1 DEF RewriteRows
<1>3. /\ n \in Nat /\ IsTable(rows) /\ IsSound(rows, n)
      /\ \A d \in rows : d.seq \in 1 .. n /\ d.hash = hashEvent(d)
  BY <1>1, <1>2, HonestRows
<1>4. Len(t) = n /\ i \in 1 .. n /\ j \in 1 .. n
  BY <1>1, <1>3, OrderIsSequence DEF Trail
<1>5. ASSUME NEW k \in i .. j
      PROVE  /\ IsRow(new[k]) /\ new[k].seq = k /\ new[k].hash = hashEvent(new[k])
             /\ k = i => new[k].prevHash = t[k].prevHash
             /\ k # i => new[k].prevHash = new[k - 1].hash
             /\ new[k].hash # t[k].hash
  BY <1>1, <1>2, <1>4, RewrittenRows
<1>6. ASSUME NEW m \in 1 .. n
      PROVE  t[m] \in rows /\ t[m].seq = m /\ IsLinked(rows, t[m])
  BY <1>1, <1>3, SoundPlace DEF Trail
<1> DEFINE old == {e \in rows : e.seq \notin i .. j}
           anew == {new[k] : k \in i .. j}
<1>7. IsFiniteSet(old) /\ IsFiniteSet(anew)
  <2>1. IsFiniteSet(old)
    BY <1>3, FS_Subset DEF IsTable
  <2> DEFINE f == [k \in i .. j |-> new[k]]
  <2>2. f \in Surjection(i .. j, anew)
    BY DEF Surjection
  <2>3. IsFiniteSet(i .. j)
    BY <1>4, FS_Interval
  <2> HIDE DEF f, anew
  <2> QED BY <2>1, <2>2, <2>3, FS_Surjection
<1>8. \A e \in anew : IsRow(e) /\ e.seq \in i .. j /\ e = new[e.seq]
  BY <1>5
<1>9. IsTable(rows')
  <2>1. IsFiniteSet(rows')
    BY <1>2, <1>7, FS_Union
  <2>2. \A e \in rows' : IsRow(e) /\ e.seq \in Nat /\ e.seq # 0
    BY <1>2, <1>3, <1>4, <1>8 DEF IsTable
  <2>3. \A d, e \in rows' : d.seq = e.seq => d = e
    BY <1>2, <1>3, <1>8 DEF IsTable
  <2> QED BY <2>1, <2>2, <2>3 DEF IsTable
<1>10. RewriteShows'
  <2> SUFFICES ASSUME j # n
               PROVE  /\ j \in Nat \ {0} /\ IsSound(rows', j)
                      /\ \E d, e \in rows' : d.seq = j /\ e.seq = j + 1 /\ e.prevHash # d.hash
    BY <1>2, <1>4 DEF RewriteShows
  <2>1. \A e \in rows' : e.seq # 0
    BY <1>2, <1>3, <1>4, <1>8
  <2>2. IsSound(rows', i - 1)
    <3>1. i - 1 \in Nat /\ i - 1 <= n
      BY <1>4
    <3>2. \A e \in rows : e.seq <= i - 1 => e \in rows'
      BY <1>2, <1>3, <1>4 DEF IsTable
    <3> QED BY <1>3, <2>1, <3>1, <3>2, SoundBefore
  <2>3. ASSUME NEW m \in i .. j PROVE new[m] \in rows' /\ IsLinked(rows', new[m])
    <3>1. new[m] \in rows'
      BY <1>2
    <3>2. CASE m = i
      <4>1. t[m].prevHash = new[m].prevHash /\ new[m].seq = t[m].seq /\ IsLinked(rows, t[m]) /\ t[m].seq = i
        BY <1>4, <1>5, <1>6, <3>2
      <4>2. i # 1 => \E d \in rows' : d.seq = i - 1 /\ d.hash = t[m].prevHash
        BY <1>2, <1>4, <4>1 DEF IsLinked
      <4> QED BY <1>5, <3>1, <4>1, <4>2 DEF IsLinked
    <3>3. CASE m # i
      <4>1. m - 1 \in i .. j /\ m # 1
        BY <1>4, <3>3
      <4>2. new[m - 1] \in rows' /\ new[m - 1].seq = m - 1
        BY <1>2, <1>5, <4>1
      <4> QED BY <1>5, <3>1, <3>3, <4>1, <4>2 DEF IsLinked
    <3> QED BY <3>1, <3>2, <3>3
  <2>4. IsSound(rows', j)
    <3> SUFFICES ASSUME NEW m \in 1 .. j PROVE \E e \in rows' : e.seq = m /\ IsLinked(rows', e)
      BY <2>1 DEF IsSound
    <3>1. m \in 1 .. i - 1 \/ m \in i .. j
      BY <1>4
    <3> QED BY <1>5, <2>2, <2>3, <3>1 DEF IsSound
  <2>5. j \in i .. j /\ j + 1 \in 1 .. n /\ j + 1 # 1
    BY <1>4
  <2>6. new[j] \in rows' /\ new[j].seq = j /\ new[j].hash # t[j].hash
    BY <1>5, <2>3, <2>5
  <2>7. t[j + 1] \in rows' /\ t[j + 1].seq = j + 1
    BY <1>2, <1>6, <2>5
  <2>8. PICK d \in rows : d.seq = (j + 1) - 1 /\ d.hash = t[j + 1].prevHash
    BY <1>6, <2>5, <2>7 DEF IsLinked
  <2>9. d = t[j]
    BY <1>3, <1>4, <1>6, <2>8 DEF IsTable
  <2> QED BY <1>4, <2>4, <2>6, <2>7, <2>8, <2>9
<1> QED BY <1>2, <1>9, <1>10 DEF ChainInv, NothingDone, EditShows, RemovalShows

-----------------------------------------------------------------------------
(* The theorems. *)

LEMMA ChainStarts == ASSUME TrailInit PROVE ChainInv
<1>1. rows = {} /\ change.kind = "none"
  BY DEF TrailInit
<1>2. Cardinality(rows) = 0 /\ IsTable(rows)
  BY <1>1, FS_EmptySet DEF IsTable
<1> QED BY <1>1, <1>2 DEF ChainInv, NothingDone, EditShows, RemovalShows, RewriteShows, IsSound

LEMMA ChainSteps == ASSUME ChainInv, [TrailNext]_table PROVE ChainInv'
<1>1. CASE UNCHANGED table
  BY <1>1 DEF table, ChainInv, NothingDone, EditShows, RemovalShows, RewriteShows
<1>2. CASE \E draft \in Drafts : AppendEvent(draft)
  BY <1>2, AppendKeepsChain
<1>3. CASE \E e \in rows, field \in Fields : \E value \in Values(field) : EditRow(e, field, value)
  BY <1>3, EditKeepsChain
<1>4. CASE \E e \in rows : DeleteRow(e)
  BY <1>4, DeleteKeepsChain
<1>5. CASE \E i, j \in DOMAIN Trail, content \in Contents : i <= j /\ RewriteRows(i, j, content)
  BY <1>5, RewriteKeepsChain
<1> QED BY <1>1, <1>2, <1>3, <1>4, <1>5 DEF TrailNext

LEMMA ChainHolds == TrailSpec => []ChainInv
BY ChainStarts, ChainSteps, PTL DEF TrailSpec

\* A chain of any length that only the application wrote verifies, whatever its events
\* carry (audit.ts:72-118).
THEOREM HonestChains == TrailSpec => []HonestChainVerifies
<1>1. ASSUME ChainInv PROVE HonestChainVerifies
  BY <1>1, SoundVerdict DEF ChainInv, NothingDone, HonestChainVerifies, Verdict, Trail
<1> QED BY <1>1, ChainHolds, PTL

\* One edit of anything the hash covers, one row removed from the middle, one range of
\* rows written anew with its hashes: each is found, where it was done, in a trail of any
\* length and however many events follow (audit.ts:8-13, 68-103).
THEOREM TamperingShows == TrailSpec => []TamperingIsPlaced
<1>1. ASSUME ChainInv PROVE TamperingIsPlaced
  <2>1. IsTable(rows)
    BY <1>1 DEF ChainInv
  <2>2. ASSUME change.kind = "edit", change.hashed
        PROVE  ~Verdict.ok /\ (change.field = "seq" \/ Verdict.brokenAtSeq = change.at)
    <3>1. CASE change.field = "seq"
      BY <1>1, <2>1, <2>2, <3>1, AnyBreak DEF ChainInv, EditShows, Verdict, Trail
    <3>2. CASE change.field # "seq"
      <4>1. PICK k : k = change.at
        OBVIOUS
      <4>2. /\ k \in Nat \ {0} /\ IsSound(rows, k - 1)
            /\ \E e \in rows : e.seq = k /\ hashEvent(e) # e.hash
        BY <1>1, <2>2, <3>2, <4>1 DEF ChainInv, EditShows
      <4>3. PICK e \in rows : e.seq = k /\ hashEvent(e) # e.hash
        BY <4>2
      <4>4. \A i \in 1 .. k - 1 : \E d \in rows : d.seq = i /\ d.seq < e.seq
        BY <4>2, <4>3 DEF IsSound
      <4>5. k \in DOMAIN Trail /\ Trail[k] = e
        BY <2>1, <4>2, <4>3, <4>4, PlaceOfSeq DEF IsSound, Trail
      <4>6. IsBreak(Trail, k)
        BY <4>3, <4>5 DEF IsBreak, HashOk
      <4>7. Verdict = [ok |-> FALSE, brokenAtSeq |-> k, reason |-> Reason(Trail, k)]
        BY <2>1, <4>2, <4>3, <4>5, <4>6, FirstBreak DEF Verdict, Trail
      <4> QED BY <4>1, <4>7
    <3> QED BY <3>1, <3>2
  <2>3. ASSUME change.kind = "delete", ~change.last
        PROVE  ~Verdict.ok /\ Verdict.reason = "seq-gap" /\ Verdict.brokenAtSeq = change.at + 1
    <3>1. PICK k : k = change.at
      OBVIOUS
    <3>2. /\ k \in Nat \ {0} /\ IsSound(rows, k - 1) /\ \A d \in rows : d.seq # k
          /\ \E e \in rows : e.seq = k + 1
      BY <1>1, <2>3, <3>1 DEF ChainInv, RemovalShows
    <3>3. PICK e \in rows : e.seq = k + 1
      BY <3>2
    <3>4. \A i \in 1 .. k - 1 : \E d \in rows : d.seq = i /\ d.seq < e.seq
      BY <3>2, <3>3 DEF IsSound
    <3>5. \A d \in rows : d.seq < e.seq => d.seq < k
      BY <2>1, <3>2, <3>3 DEF IsTable
    <3>6. k \in DOMAIN Trail /\ Trail[k] = e
      <4>1. \A d \in rows : d.seq # 0
        BY <3>2 DEF IsSound
      <4> QED BY <2>1, <3>2, <3>4, <3>5, <4>1, PlaceOfSeq DEF Trail
    <3>7. ~SeqOk(Trail, k)
      BY <3>2, <3>3, <3>6 DEF SeqOk
    <3>8. IsBreak(Trail, k) /\ Reason(Trail, k) = "seq-gap"
      BY <3>7 DEF IsBreak, Reason
    <3>9. Verdict = [ok |-> FALSE, brokenAtSeq |-> k + 1, reason |-> "seq-gap"]
      BY <2>1, <3>2, <3>3, <3>6, <3>8, FirstBreak DEF Verdict, Trail
    <3> QED BY <3>1, <3>9
  <2>4. ASSUME change.kind = "rewrite", ~change.last
        PROVE  ~Verdict.ok /\ Verdict.reason = "prev-mismatch" /\ Verdict.brokenAtSeq = change.at + 1
    <3>1. PICK k : k = change.at
      OBVIOUS
    <3>2. /\ k \in Nat \ {0} /\ IsSound(rows, k)
          /\ \E d, e \in rows : d.seq = k /\ e.seq = k + 1 /\ e.prevHash # d.hash
      BY <1>1, <2>4, <3>1 DEF ChainInv, RewriteShows
    <3>3. PICK d, e \in rows : d.seq = k /\ e.seq = k + 1 /\ e.prevHash # d.hash
      BY <3>2
    <3>4. PICK m : m = k + 1
      OBVIOUS
    <3>5. m \in Nat \ {0} /\ m - 1 = k /\ m # 1 /\ \A i \in 1 .. m - 1 : i \in 1 .. k
      BY <3>2, <3>4
    <3>6. \A i \in 1 .. m - 1 : \E c \in rows : c.seq = i /\ c.seq < e.seq
      BY <3>2, <3>3, <3>4, <3>5 DEF IsSound
    <3>7. m \in DOMAIN Trail /\ Trail[m] = e
      BY <2>1, <3>2, <3>3, <3>4, <3>5, <3>6, PlaceOfSeq DEF IsSound, Trail
    <3>8. Trail[k] = d
      <4>1. Trail[k] \in rows /\ Trail[k].seq = k
        BY <2>1, <3>2, SoundPlace DEF Trail
      <4> QED BY <2>1, <3>3, <4>1 DEF IsTable
    <3>9. SeqOk(Trail, m) /\ ~PrevOk(Trail, m)
      BY <3>3, <3>4, <3>5, <3>7, <3>8 DEF SeqOk, PrevOk
    <3>10. IsBreak(Trail, m) /\ Reason(Trail, m) = "prev-mismatch"
      BY <3>9 DEF IsBreak, Reason
    <3>11. Verdict = [ok |-> FALSE, brokenAtSeq |-> m, reason |-> "prev-mismatch"]
      BY <2>1, <3>2, <3>3, <3>4, <3>5, <3>7, <3>10, FirstBreak DEF Verdict, Trail
    <3> QED BY <3>1, <3>4, <3>11
  <2> QED BY <2>2, <2>3, <2>4 DEF TamperingIsPlaced
<1> QED BY <1>1, ChainHolds, PTL

=============================================================================
