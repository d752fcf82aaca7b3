---------------------------- MODULE AccessProofs ----------------------------
(***************************************************************************)
(* The limiter keeps its promise whatever the budgets and the window are,  *)
(* with either store, and however logins, ticks and restarts mix.          *)
(*                                                                         *)
(* The bound speaks of any two windows' worth of attempts, the counters    *)
(* only of the window that is open.  WindowInv says what lies between:     *)
(* how far the attempts of the windows before are from this one.           *)
(***************************************************************************)
EXTENDS Access, TLAPS

\* What can happen to the limiter.
LimiterNext == (\E k \in Keys : Hit(k)) \/ Tick \/ LoseStore

\* The first i members of g are t or less.
UpTo(g, i, t) == \A j \in DOMAIN g : j <= i => g[j] <= t

\* Of the members of g, two that are d apart in it are w apart or more.
IsSpaced(g, d, w) ==
  \A i \in DOMAIN g : i + d \in DOMAIN g => g[i + d] - g[i] >= w

\* With a window open, the attempts before it are no later than its start, and all but
\* the last budget of them a window earlier. With none open, all but the last budget
\* less one are a window old.
WindowInv(k) ==
  IF IsOpen(k)
    THEN LET opened == buckets[k].resetAt - WINDOW
             first  == Len(grants[k]) + 1 - Counted(k)
         IN /\ opened <= now
            /\ UpTo(grants[k], first, opened)
            /\ UpTo(grants[k], first - Limit[k], opened - WINDOW)
    ELSE UpTo(grants[k], Len(grants[k]) + 1 - Limit[k], now - WINDOW)

KeyInv(k) ==
  /\ UpTo(grants[k], Len(grants[k]), now)
  /\ WindowInv(k)
  /\ IsSpaced(grants[k], 2 * Limit[k], WINDOW)

LimiterInv == LimiterTypeOK /\ \A k \in Keys : KeyInv(k)

Bucket == [count : Nat \ {0}, resetAt : Nat]

\* A hit on k that puts b into the store beside the buckets of the keys kept.
HitsWith(k, kept, b) ==
  /\ buckets' = WithBucket(kept, k, b)
  /\ \/ ~IsOpen(k) /\ b = FreshBucket /\ Answer(k, TRUE)
     \/ /\ IsOpen(k) /\ buckets[k].count < Limit[k]
        /\ b = [buckets[k] EXCEPT !.count = @ + 1] /\ Answer(k, TRUE)
     \/ /\ IsOpen(k) /\ buckets[k].count >= Limit[k]
        /\ b.resetAt = buckets[k].resetAt /\ b.count >= Limit[k] /\ Answer(k, FALSE)

\* What a hit leaves behind for the key that is hit, as both stores have it.
OpensWindow(k) ==
  /\ ~IsOpen(k)
  /\ k \in DOMAIN buckets' /\ buckets'[k] = FreshBucket
  /\ grants'[k] = Append(grants[k], now) /\ Answer(k, TRUE)

TakesFromWindow(k) ==
  /\ IsOpen(k) /\ buckets[k].count < Limit[k]
  /\ k \in DOMAIN buckets' /\ buckets'[k] = [buckets[k] EXCEPT !.count = @ + 1]
  /\ grants'[k] = Append(grants[k], now) /\ Answer(k, TRUE)

IsRefused(k) ==
  /\ IsOpen(k) /\ buckets[k].count >= Limit[k]
  /\ k \in DOMAIN buckets' /\ buckets'[k].resetAt = buckets[k].resetAt
  /\ buckets'[k].count \in Nat /\ buckets'[k].count >= Limit[k]
  /\ grants'[k] = grants[k] /\ Answer(k, FALSE)

\* What any step but the clock's leaves alone of the other keys.
IsUntouched(k) ==
  /\ grants'[k] = grants[k]
  /\ IsOpen(k)' <=> IsOpen(k)
  /\ IsOpen(k) => buckets'[k] = buckets[k]

-----------------------------------------------------------------------------

\* A hit opens a window, takes from the one that is open, or is refused; it does nothing
\* to another key, even when the Map is swept (ratelimit.ts:60-72, 86-107).
LEMMA HitCases ==
  ASSUME LimiterAssumption, LimiterTypeOK, NEW k \in Keys, Hit(k)
  PROVE  /\ now' = now
         /\ LimiterTypeOK'
         /\ OpensWindow(k) \/ TakesFromWindow(k) \/ IsRefused(k)
         /\ \A x \in Keys \ {k} : IsUntouched(x)
<1> DEFINE Kept == IF store = "memory" THEN Swept ELSE DOMAIN buckets
<1>0. /\ now' = now /\ store' = store /\ now \in Nat /\ now \in 0 .. MaxTime
      /\ grants \in [Keys -> Seq(0 .. MaxTime)] /\ refused \in [Keys -> Nat]
      /\ DOMAIN buckets \subseteq Keys /\ Limit[k] \in Nat \ {0} /\ WINDOW \in Nat \ {0}
      /\ \A x \in DOMAIN buckets : buckets[x] \in Bucket
      /\ store \in Stores
  BY DEF LimiterAssumption, LimiterTypeOK, Hit, Bucket
<1>1. /\ Kept \subseteq DOMAIN buckets
      /\ \A x \in DOMAIN buckets : IsOpen(x) => x \in Kept
  BY DEF Swept
<1>2. \E b \in Bucket : HitsWith(k, Kept, b)
  <2>1. FreshBucket \in Bucket
    BY <1>0 DEF FreshBucket, Bucket
  <2>2. IsOpen(k) => /\ buckets[k] \in Bucket
                     /\ [buckets[k] EXCEPT !.count = @ + 1] \in Bucket
    BY <1>0 DEF IsOpen, Bucket
  <2>3. CASE store = "memory" /\ HitMemory(k)
    <3>1. CASE ~IsOpen(k)
      <4>1. MemoryAllows(k) = TRUE BY <3>1 DEF MemoryAllows
      <4>2. buckets' = WithBucket(Kept, k, FreshBucket) /\ Answer(k, TRUE)
        BY <2>3, <3>1, <4>1 DEF HitMemory
      <4> QED BY <2>1, <3>1, <4>2 DEF HitsWith
    <3>2. CASE IsOpen(k) /\ buckets[k].count < Limit[k]
      <4>1. MemoryAllows(k) = TRUE BY <3>2 DEF MemoryAllows
      <4>2. buckets' = WithBucket(Kept, k, [buckets[k] EXCEPT !.count = @ + 1]) /\ Answer(k, TRUE)
        BY <2>3, <3>2, <4>1 DEF HitMemory
      <4> QED BY <2>2, <3>2, <4>2 DEF HitsWith
    <3>3. CASE IsOpen(k) /\ buckets[k].count >= Limit[k]
      <4>1. MemoryAllows(k) = FALSE BY <1>0, <2>2, <3>3 DEF MemoryAllows, Bucket
      <4>2. buckets' = WithBucket(Kept, k, buckets[k]) /\ Answer(k, FALSE)
        BY <2>3, <3>3, <4>1 DEF HitMemory
      <4> QED BY <2>2, <3>3, <4>2 DEF HitsWith
    <3>4. IsOpen(k) => buckets[k].count < Limit[k] \/ buckets[k].count >= Limit[k]
      BY <1>0, <2>2 DEF Bucket
    <3> QED BY <3>1, <3>2, <3>3, <3>4
  <2>4. CASE store = "postgres" /\ HitPostgres(k)
    <3>1. CASE ~IsOpen(k)
      <4>1. PostgresAllows(k) = TRUE BY <1>0, <3>1 DEF PostgresAllows, UpsertedCount
      <4>2. buckets' = WithBucket(Kept, k, FreshBucket) /\ Answer(k, TRUE)
        BY <2>4, <3>1, <4>1 DEF HitPostgres
      <4> QED BY <2>1, <3>1, <4>2 DEF HitsWith
    <3>2. CASE IsOpen(k)
      <4>1. buckets' = WithBucket(Kept, k, [buckets[k] EXCEPT !.count = @ + 1])
        BY <2>4, <3>2 DEF HitPostgres, UpsertedCount
      <4>2. CASE buckets[k].count < Limit[k]
        <5>1. PostgresAllows(k) = TRUE
          BY <1>0, <2>2, <3>2, <4>2 DEF PostgresAllows, UpsertedCount, Bucket
        <5> QED BY <2>2, <2>4, <3>2, <4>1, <4>2, <5>1 DEF HitPostgres, HitsWith
      <4>3. CASE buckets[k].count >= Limit[k]
        <5>1. PostgresAllows(k) = FALSE
          BY <1>0, <2>2, <3>2, <4>3 DEF PostgresAllows, UpsertedCount, Bucket
        <5>2. /\ [buckets[k] EXCEPT !.count = @ + 1].resetAt = buckets[k].resetAt
              /\ [buckets[k] EXCEPT !.count = @ + 1].count >= Limit[k]
          BY <1>0, <2>2, <3>2, <4>3 DEF Bucket
        <5> QED BY <2>2, <2>4, <3>2, <4>1, <4>3, <5>1, <5>2 DEF HitPostgres, HitsWith
      <4>4. buckets[k].count < Limit[k] \/ buckets[k].count >= Limit[k]
        BY <1>0, <2>2, <3>2 DEF Bucket
      <4> QED BY <4>2, <4>3, <4>4
    <3> QED BY <3>1, <3>2
  <2> QED BY <2>3, <2>4 DEF Hit
<1>3. PICK b \in Bucket : HitsWith(k, Kept, b)
  BY <1>2
<1>4. /\ DOMAIN buckets' = Kept \cup {k}
      /\ buckets'[k] = b
      /\ \A x \in Kept \ {k} : buckets'[x] = buckets[x]
  BY <1>3 DEF HitsWith, WithBucket
<1>5. \A x \in Keys \ {k} : grants'[x] = grants[x]
  BY <1>0, <1>3 DEF HitsWith, Answer
<1>6. \A x \in Keys \ {k} : IsUntouched(x)
  BY <1>0, <1>1, <1>4, <1>5 DEF IsUntouched, IsOpen
<1>7. OpensWindow(k) \/ TakesFromWindow(k) \/ IsRefused(k)
  <2>1. Answer(k, TRUE) => grants'[k] = Append(grants[k], now)
    BY <1>0 DEF Answer
  <2>2. Answer(k, FALSE) => grants'[k] = grants[k]
    BY DEF Answer
  <2>3. k \in DOMAIN buckets' /\ b.count \in Nat
    BY <1>4 DEF Bucket
  <2>4. CASE ~IsOpen(k) /\ b = FreshBucket /\ Answer(k, TRUE)
    BY <1>4, <2>1, <2>3, <2>4 DEF OpensWindow
  <2>5. CASE IsOpen(k) /\ buckets[k].count < Limit[k]
             /\ b = [buckets[k] EXCEPT !.count = @ + 1] /\ Answer(k, TRUE)
    BY <1>4, <2>1, <2>3, <2>5 DEF TakesFromWindow
  <2>6. CASE IsOpen(k) /\ buckets[k].count >= Limit[k]
             /\ b.resetAt = buckets[k].resetAt /\ b.count >= Limit[k] /\ Answer(k, FALSE)
    BY <1>4, <2>2, <2>3, <2>6 DEF IsRefused
  <2> QED
    BY <1>3, <2>4, <2>5, <2>6 DEF HitsWith
<1>8. LimiterTypeOK'
  <2>1. \A x \in DOMAIN buckets' : x \in Keys /\ buckets'[x] \in Bucket
    BY <1>0, <1>1, <1>4
  <2>2. grants' \in [Keys -> Seq(0 .. MaxTime)] /\ refused' \in [Keys -> Nat]
    <3>1. Append(grants[k], now) \in Seq(0 .. MaxTime) /\ refused[k] + 1 \in Nat
      BY <1>0
    <3>2. Answer(k, TRUE) => grants' \in [Keys -> Seq(0 .. MaxTime)] /\ refused' = refused
      BY <1>0, <3>1 DEF Answer
    <3>3. Answer(k, FALSE) => grants' = grants /\ refused' \in [Keys -> Nat]
      BY <1>0, <3>1 DEF Answer
    <3> QED BY <1>0, <1>3, <3>2, <3>3 DEF HitsWith
  <2> QED BY <1>0, <2>1, <2>2 DEF LimiterTypeOK, Bucket
<1> QED BY <1>0, <1>6, <1>7, <1>8

\* Of fewer members, and of a later time, the same holds.
LEMMA UpToWeaker ==
  ASSUME NEW g \in Seq(Nat), NEW i \in Int, NEW j \in Int, NEW t \in Int, NEW u \in Int,
         UpTo(g, i, t), j <= i, t <= u
  PROVE  UpTo(g, j, u)
<1> SUFFICES ASSUME NEW m \in DOMAIN g, m <= j
             PROVE  g[m] <= u
  BY DEF UpTo
<1>1. m \in Nat /\ g[m] \in Nat
  OBVIOUS
<1>2. m <= i
  BY <1>1
<1>3. g[m] <= t
  BY <1>2 DEF UpTo
<1> QED BY <1>1, <1>3

\* Appending changes nothing about the members that were there.
LEMMA UpToOfAppend ==
  ASSUME NEW g \in Seq(Nat), NEW x \in Nat, NEW i \in Int, NEW t \in Int,
         UpTo(g, i, t), i <= Len(g)
  PROVE  UpTo(Append(g, x), i, t)
<1> SUFFICES ASSUME NEW j \in DOMAIN Append(g, x), j <= i
             PROVE  Append(g, x)[j] <= t
  BY DEF UpTo
<1>1. j \in 1 .. Len(g)
  OBVIOUS
<1>2. j \in DOMAIN g /\ Append(g, x)[j] = g[j]
  BY <1>1
<1> QED BY <1>2 DEF UpTo

\* What is no less than all before it may come last.
LEMMA UpToAll ==
  ASSUME NEW g \in Seq(Nat), NEW x \in Nat, UpTo(g, Len(g), x)
  PROVE  UpTo(Append(g, x), Len(g) + 1, x)
<1> SUFFICES ASSUME NEW j \in DOMAIN Append(g, x)
             PROVE  Append(g, x)[j] <= x
  BY DEF UpTo
<1>1. CASE j = Len(g) + 1
  BY <1>1
<1>2. CASE j # Len(g) + 1
  <2>1. j \in 1 .. Len(g) /\ Append(g, x)[j] = g[j]
    BY <1>2
  <2> QED BY <2>1 DEF UpTo
<1> QED BY <1>1, <1>2

\* A member may come last if those a distance before it are far enough from it.
LEMMA SpacedAppend ==
  ASSUME NEW g \in Seq(Nat), NEW x \in Nat, NEW d \in Nat \ {0}, NEW w \in Nat,
         IsSpaced(g, d, w), UpTo(g, Len(g) + 1 - d, x - w)
  PROVE  IsSpaced(Append(g, x), d, w)
<1> SUFFICES ASSUME NEW i \in DOMAIN Append(g, x), i + d \in DOMAIN Append(g, x)
             PROVE  Append(g, x)[i + d] - Append(g, x)[i] >= w
  BY DEF IsSpaced
<1>1. i \in 1 .. Len(g) /\ i + d \in 1 .. Len(g) + 1
  OBVIOUS
<1>2. Append(g, x)[i] = g[i] /\ g[i] \in Nat /\ i \in DOMAIN g
  BY <1>1
<1>3. CASE i + d = Len(g) + 1
  <2>1. i <= Len(g) + 1 - d
    BY <1>1, <1>3
  <2>2. g[i] <= x - w
    BY <1>2, <2>1 DEF UpTo
  <2>3. Append(g, x)[i + d] = x
    BY <1>3
  <2> QED BY <1>2, <2>2, <2>3
<1>4. CASE i + d # Len(g) + 1
  <2>1. i + d \in DOMAIN g /\ Append(g, x)[i + d] = g[i + d]
    BY <1>1, <1>4
  <2> QED BY <1>2, <2>1 DEF IsSpaced
<1> QED BY <1>3, <1>4

\* An attempt that is let through keeps the bound of its key, and a refused one does not
\* touch it: the arithmetic of the two windows (ratelimit.ts:64-71).
LEMMA HitKeepsKeyInv ==
  ASSUME LimiterAssumption, LimiterTypeOK, NEW k \in Keys, KeyInv(k),
         now' = now, OpensWindow(k) \/ TakesFromWindow(k) \/ IsRefused(k)
  PROVE  KeyInv(k)'
<1>1. PICK g \in Seq(Nat), n \in Nat, L \in Nat \ {0} :
        grants[k] = g /\ Len(g) = n /\ Limit[k] = L
  <2>1. grants[k] \in Seq(Nat) /\ Limit[k] \in Nat \ {0}
    BY DEF LimiterAssumption, LimiterTypeOK
  <2>2. Len(grants[k]) \in Nat
    BY <2>1
  <2> QED BY <2>1, <2>2
<1>2. now \in Nat /\ WINDOW \in Nat \ {0} /\ 2 * L \in Nat \ {0}
  BY DEF LimiterAssumption, LimiterTypeOK
<1>3. Append(g, now) \in Seq(Nat) /\ Len(Append(g, now)) = n + 1
  BY <1>1, <1>2
<1>4. UpTo(g, n, now) /\ IsSpaced(g, 2 * L, WINDOW)
  BY <1>1 DEF KeyInv
<1>5. CASE OpensWindow(k)
  <2>1. /\ IsOpen(k)' /\ buckets'[k].count = 1 /\ buckets'[k].resetAt = now + WINDOW
        /\ grants'[k] = Append(g, now)
    BY <1>1, <1>2, <1>5 DEF OpensWindow, FreshBucket, IsOpen
  <2>2. Counted(k)' = 1 /\ buckets'[k].resetAt - WINDOW = now /\ n + 1 + 1 - 1 = n + 1
    BY <1>1, <1>2, <2>1 DEF Counted
  <2>3. UpTo(g, n + 1 - L, now - WINDOW)
    BY <1>1, <1>5 DEF KeyInv, WindowInv, OpensWindow
  <2>4. UpTo(Append(g, now), n + 1, now)
    BY <1>1, <1>2, <1>4, UpToAll
  <2>5. UpTo(Append(g, now), n + 1 - L, now - WINDOW)
    BY <1>1, <1>2, <2>3, UpToOfAppend
  <2>6. WindowInv(k)'
    BY <1>1, <1>3, <2>1, <2>2, <2>4, <2>5 DEF WindowInv
  <2>7. UpTo(g, n + 1 - 2 * L, now - WINDOW)
    BY <1>1, <1>2, <2>3, UpToWeaker
  <2>8. IsSpaced(Append(g, now), 2 * L, WINDOW)
    BY <1>1, <1>2, <1>4, <2>7, SpacedAppend
  <2> QED BY <1>1, <1>3, <2>1, <2>4, <2>6, <2>8 DEF KeyInv
<1>6. CASE TakesFromWindow(k)
  <2>1. IsOpen(k) /\ buckets[k].count \in Nat \ {0} /\ buckets[k].resetAt \in Nat
    BY <1>6 DEF TakesFromWindow, LimiterTypeOK, IsOpen
  <2>2. PICK c \in Nat \ {0}, opened \in Int :
          buckets[k].count = c /\ opened = buckets[k].resetAt - WINDOW
    BY <1>2, <2>1
  <2>3. /\ IsOpen(k)' /\ buckets'[k].count = c + 1 /\ buckets'[k].resetAt = buckets[k].resetAt
        /\ grants'[k] = Append(g, now) /\ c < L
    BY <1>1, <1>6, <2>1, <2>2 DEF TakesFromWindow, IsOpen, LimiterTypeOK
  <2>4. Counted(k) = c /\ Counted(k)' = c + 1
    BY <1>1, <2>2, <2>3 DEF Counted
  <2>5. opened <= now /\ UpTo(g, n + 1 - c, opened) /\ UpTo(g, n + 1 - c - L, opened - WINDOW)
    BY <1>1, <2>1, <2>2, <2>4 DEF KeyInv, WindowInv
  <2>6. /\ UpTo(Append(g, now), n + 1 - c, opened)
        /\ UpTo(Append(g, now), n + 1 - c - L, opened - WINDOW)
    BY <1>1, <1>2, <2>5, UpToOfAppend
  <2>7. /\ Len(grants'[k]) + 1 - Counted(k)' = n + 1 - c
        /\ buckets'[k].resetAt - WINDOW = opened
    BY <1>3, <2>2, <2>3, <2>4
  <2>8. WindowInv(k)'
    <3>1. WINDOW' = WINDOW /\ Limit[k]' = L /\ now' = now
      BY <1>1
    <3> QED BY <2>3, <2>5, <2>6, <2>7, <3>1 DEF WindowInv
  <2>9. UpTo(g, n + 1 - 2 * L, now - WINDOW)
    <3>1. n + 1 - 2 * L <= n + 1 - c - L /\ opened - WINDOW <= now - WINDOW
      BY <1>2, <2>3, <2>5
    <3> QED BY <1>2, <2>5, <3>1, UpToWeaker
  <2>10. IsSpaced(Append(g, now), 2 * L, WINDOW)
    BY <1>1, <1>2, <1>4, <2>9, SpacedAppend
  <2>11. UpTo(Append(g, now), n + 1, now)
    BY <1>1, <1>2, <1>4, UpToAll
  <2> QED BY <1>1, <1>3, <2>3, <2>8, <2>10, <2>11 DEF KeyInv
<1>7. CASE IsRefused(k)
  <2>1. /\ IsOpen(k) /\ IsOpen(k)' /\ buckets'[k].resetAt = buckets[k].resetAt
        /\ grants'[k] = grants[k]
    BY <1>7 DEF IsRefused, IsOpen
  <2>2. buckets[k].count \in Nat \ {0}
    BY <2>1 DEF LimiterTypeOK, IsOpen
  <2>3. Counted(k)' = Counted(k)
    BY <1>1, <1>7, <2>2 DEF IsRefused, Counted
  <2>4. WindowInv(k)'
    BY <2>1, <2>3 DEF KeyInv, WindowInv
  <2> QED BY <2>1, <2>4 DEF KeyInv
<1> QED BY <1>5, <1>6, <1>7

\* What a hit leaves alone stays within its bound.
LEMMA UntouchedKeepsKeyInv ==
  ASSUME NEW k \in Keys, KeyInv(k), now' = now, IsUntouched(k)
  PROVE  KeyInv(k)'
<1>1. grants'[k] = grants[k] /\ (IsOpen(k)' <=> IsOpen(k))
  BY DEF IsUntouched
<1>2. CASE IsOpen(k)
  <2>1. buckets'[k] = buckets[k] /\ Counted(k)' = Counted(k)
    BY <1>2 DEF Counted, IsUntouched
  <2> QED BY <1>1, <1>2, <2>1 DEF KeyInv, WindowInv
<1>3. CASE ~IsOpen(k)
  BY <1>1, <1>3 DEF KeyInv, WindowInv
<1> QED BY <1>2, <1>3

\* A window that closes with the clock leaves all but the last budget less one of its
\* attempts a window behind.
LEMMA TickKeepsKeyInv ==
  ASSUME LimiterAssumption, LimiterTypeOK, NEW k \in Keys, KeyInv(k), Tick
  PROVE  KeyInv(k)'
<1>1. PICK g \in Seq(Nat), n \in Nat, L \in Nat \ {0} :
        grants[k] = g /\ Len(g) = n /\ Limit[k] = L
  <2>1. grants[k] \in Seq(Nat) /\ Limit[k] \in Nat \ {0}
    BY DEF LimiterAssumption, LimiterTypeOK
  <2>2. Len(grants[k]) \in Nat
    BY <2>1
  <2> QED BY <2>1, <2>2
<1>2. /\ now \in Nat /\ now' = now + 1 /\ WINDOW \in Nat \ {0}
      /\ grants' = grants /\ buckets' = buckets
  BY DEF LimiterAssumption, LimiterTypeOK, Tick
<1>3. UpTo(g, n, now) /\ UpTo(g, n, now')
  <2>1. UpTo(g, n, now)
    BY <1>1 DEF KeyInv
  <2> QED BY <1>2, <2>1, UpToWeaker
<1>4. WindowInv(k)'
  <2>1. CASE IsOpen(k)
    <3>1. buckets[k].count \in Nat \ {0} /\ buckets[k].resetAt \in Nat /\ k \in DOMAIN buckets
      BY <2>1 DEF LimiterTypeOK, IsOpen
    <3>2. PICK c \in Nat, opened \in Int :
            Counted(k) = c /\ c <= L /\ opened = buckets[k].resetAt - WINDOW
      BY <1>1, <1>2, <3>1 DEF Counted
    <3>3. Counted(k)' = Counted(k)
      BY <1>2 DEF Counted
    <3>4. opened <= now /\ UpTo(g, n + 1 - c, opened) /\ UpTo(g, n + 1 - c - L, opened - WINDOW)
      BY <1>1, <2>1, <3>2 DEF KeyInv, WindowInv
    <3>5. CASE IsOpen(k)'
      <4>1. opened <= now'
        BY <1>2, <3>4
      <4> QED BY <1>1, <1>2, <3>2, <3>3, <3>4, <3>5, <4>1 DEF WindowInv
    <3>6. CASE ~IsOpen(k)'
      <4>1. n + 1 - L <= n + 1 - c /\ opened <= now' - WINDOW
        BY <1>2, <3>1, <3>2, <3>6 DEF IsOpen
      <4>2. UpTo(g, n + 1 - L, now' - WINDOW)
        BY <1>2, <3>4, <4>1, UpToWeaker
      <4> QED BY <1>1, <1>2, <3>6, <4>2 DEF WindowInv
    <3> QED BY <3>5, <3>6
  <2>2. CASE ~IsOpen(k)
    <3>1. ~IsOpen(k)'
      BY <1>2, <2>2 DEF IsOpen, LimiterTypeOK
    <3>2. UpTo(g, n + 1 - L, now - WINDOW)
      BY <1>1, <2>2 DEF KeyInv, WindowInv
    <3>3. UpTo(g, n + 1 - L, now' - WINDOW)
      BY <1>2, <3>2, UpToWeaker
    <3> QED BY <1>1, <1>2, <3>1, <3>3 DEF WindowInv
  <2> QED BY <2>1, <2>2
<1> QED BY <1>1, <1>2, <1>3, <1>4 DEF KeyInv

-----------------------------------------------------------------------------

\* Nothing has been let through at the start.
LEMMA LimiterStarts ==
  ASSUME LimiterAssumption, LimiterInit
  PROVE  LimiterInv
<1>1. LimiterTypeOK
  BY DEF LimiterAssumption, LimiterInit, LimiterTypeOK
<1>2. \A k \in Keys : grants[k] = <<>> /\ ~IsOpen(k)
  BY DEF LimiterInit, IsOpen
<1>3. \A k \in Keys : KeyInv(k)
  BY <1>2 DEF KeyInv, UpTo, WindowInv, IsSpaced
<1> QED BY <1>1, <1>3 DEF LimiterInv

\* The limiter's own steps keep its invariant.
LEMMA LimiterInvIsInductive ==
  ASSUME LimiterAssumption, LimiterInv, LimiterNext \/ UNCHANGED limiterVars
  PROVE  LimiterInv'
<1>1. CASE \E k \in Keys : Hit(k)
  <2>1. PICK k \in Keys : Hit(k)
    BY <1>1
  <2>2. /\ now' = now /\ LimiterTypeOK'
        /\ OpensWindow(k) \/ TakesFromWindow(k) \/ IsRefused(k)
        /\ \A x \in Keys \ {k} : IsUntouched(x)
    BY <2>1, HitCases DEF LimiterInv
  <2>3. KeyInv(k)'
    BY <2>2, HitKeepsKeyInv DEF LimiterInv
  <2>4. \A x \in Keys \ {k} : KeyInv(x)'
    BY <2>2, UntouchedKeepsKeyInv DEF LimiterInv
  <2> QED BY <2>2, <2>3, <2>4 DEF LimiterInv
<1>2. CASE Tick
  <2>1. LimiterTypeOK'
    BY <1>2 DEF LimiterAssumption, LimiterInv, LimiterTypeOK, Tick
  <2>2. \A k \in Keys : KeyInv(k)'
    BY <1>2, TickKeepsKeyInv DEF LimiterInv
  <2> QED BY <2>1, <2>2 DEF LimiterInv
<1>3. CASE LoseStore /\ store = "memory"
  <2>1. LimiterTypeOK'
    <3>1. DOMAIN buckets' = {} /\ grants' = [x \in Keys |-> <<>>]
      BY <1>3 DEF LoseStore
    <3>2. store' = store /\ now' = now /\ refused' = refused
      BY <1>3 DEF LoseStore
    <3>3. grants' \in [Keys -> Seq(0 .. MaxTime)]
      BY <3>1
    <3> QED BY <3>1, <3>2, <3>3 DEF LimiterInv, LimiterTypeOK
  <2>2. \A k \in Keys : grants'[k] = <<>> /\ ~IsOpen(k)'
    BY <1>3 DEF LoseStore, IsOpen
  <2>3. \A k \in Keys : KeyInv(k)'
    BY <2>2 DEF KeyInv, UpTo, WindowInv, IsSpaced
  <2> QED BY <2>1, <2>3 DEF LimiterInv
<1>4. CASE UNCHANGED limiterVars \/ (LoseStore /\ store # "memory")
  <2>1. UNCHANGED limiterVars
    BY <1>4 DEF LoseStore, limiterVars
  <2>2. LimiterTypeOK'
    BY <2>1 DEF LimiterInv, LimiterTypeOK, limiterVars
  <2>3. \A k \in Keys : now' = now /\ IsUntouched(k)
    BY <2>1 DEF limiterVars, IsUntouched, IsOpen
  <2>4. \A k \in Keys : KeyInv(k)'
    BY <2>3, UntouchedKeepsKeyInv DEF LimiterInv
  <2> QED BY <2>2, <2>4 DEF LimiterInv
<1> QED BY <1>1, <1>2, <1>3, <1>4 DEF LimiterNext

\* Logins, sessions and administration touch the limiter only through it.
LEMMA AccessStepsTheLimiter ==
  ASSUME [Next]_vars
  PROVE  LimiterNext \/ UNCHANGED limiterVars
<1>1. CASE \E r \in Requests : Step(r)
  <2>1. PICK r \in Requests : Step(r)
    BY <1>1
  <2>2. CASE \E k \in Keys : HitOne(r, k)
    BY <2>2 DEF HitOne, LimiterNext
  <2>3. CASE \E a \in Addresses, u \in Accounts : Login(r, a, u)
    BY <2>3 DEF Login
  <2>4. CASE LookUp(r) \/ CreateSession(r) \/ KillSession(r) \/ LogOut(r) \/ Respond(r)
             \/ DestroyAllSessionsFor(r)
    BY <2>4 DEF LookUp, CreateSession, KillSession, LogOut, Respond, DestroyAllSessionsFor
  <2>5. CASE \E s \in sessions : GetSession(r, s)
    BY <2>5 DEF GetSession
  <2>6. CASE \E u \in Accounts :
               \/ \E newRole \in Roles : InviteUser(r, u, newRole) \/ SetUserRole(r, u, newRole)
               \/ Reactivate(r, u) \/ Deactivate(r, u)
    BY <2>6 DEF InviteUser, SetUserRole, Reactivate, Deactivate
  <2> QED BY <2>1, <2>2, <2>3, <2>4, <2>5, <2>6 DEF Step
<1>2. CASE Restart \/ TimePasses
  BY <1>2 DEF Restart, TimePasses, LimiterNext
<1>3. CASE UNCHANGED vars
  BY <1>3 DEF vars
<1> QED BY <1>1, <1>2, <1>3 DEF Next

\* No stretch of one window's length lets more than two budgets of a key through, for
\* any budgets, any window and either store (ratelimit.ts:60-72, 86-107).
THEOREM BudgetHolds == Spec => []AttemptsAreBudgeted
<1>1. Init => LimiterInv
  BY LimiterAssumption, LimiterStarts DEF Init
<1>2. LimiterInv /\ [Next]_vars => LimiterInv'
  BY LimiterAssumption, LimiterInvIsInductive, AccessStepsTheLimiter
<1>3. LimiterInv => AttemptsAreBudgeted
  BY DEF LimiterInv, KeyInv, IsSpaced, AttemptsAreBudgeted
<1> QED BY <1>1, <1>2, <1>3, PTL DEF Spec

-----------------------------------------------------------------------------

(***************************************************************************)
(* Either store is the budget of Budget.  A key's window is its bucket     *)
(* while that is open, with the count capped at the limit; what expired    *)
(* buckets and counts beyond the limit are left lying about shows nowhere. *)
(***************************************************************************)

\* A hit opens a window of the budget, takes from it, or is refused by it
\* (ratelimit.ts:60-72, 86-107).
LEMMA HitIsOfTheBudget ==
  ASSUME LimiterAssumption, LimiterTypeOK, NEW k \in Keys, Hit(k)
  PROVE  B!OpenWindow(k) \/ B!TakeFromWindow(k) \/ B!Refuse(k)
<1>1. /\ now' = now
      /\ OpensWindow(k) \/ TakesFromWindow(k) \/ IsRefused(k)
      /\ \A x \in Keys \ {k} : IsUntouched(x)
  BY HitCases
<1>2. \A x \in Keys \ {k} : Windows'[x] = Windows[x]
  BY <1>1 DEF IsUntouched, Windows, Counted
<1>3. /\ Limit[k] \in Nat \ {0} /\ WINDOW \in Nat \ {0} /\ now \in Nat
      /\ k \in DOMAIN buckets => buckets[k] \in [count : Nat \ {0}, resetAt : Nat]
  BY DEF LimiterAssumption, LimiterTypeOK
<1>4. /\ Windows = [x \in Keys |-> Windows[x]]
      /\ Windows' = [x \in Keys |-> Windows'[x]]
  BY DEF Windows
<1>5. CASE OpensWindow(k)
  <2>1. Windows[k] = [used |-> 0, end |-> 0]
    BY <1>5 DEF Windows, OpensWindow
  <2>2. Windows'[k] = [used |-> 1, end |-> now + WINDOW]
    BY <1>1, <1>3, <1>5 DEF OpensWindow, Windows, Counted, IsOpen, FreshBucket
  <2>3. Windows' = [Windows EXCEPT ![k] = [used |-> 1, end |-> now + WINDOW]]
    BY <1>2, <1>4, <2>2
  <2> QED
    BY <1>1, <1>5, <2>1, <2>3 DEF OpensWindow, Answer, B!OpenWindow, B!Grant, B!NoWindow
<1>6. CASE TakesFromWindow(k)
  <2>1. Windows[k] = [used |-> buckets[k].count, end |-> buckets[k].resetAt]
    BY <1>3, <1>6 DEF Windows, TakesFromWindow, Counted, IsOpen
  <2>2. Windows'[k] = [used |-> buckets[k].count + 1, end |-> buckets[k].resetAt]
    BY <1>1, <1>3, <1>6 DEF TakesFromWindow, Windows, Counted, IsOpen
  <2>3. Windows' = [Windows EXCEPT ![k].used = @ + 1]
    BY <1>2, <1>4, <2>1, <2>2
  <2>4. Windows[k] # B!NoWindow /\ Windows[k].used < Limit[k]
    BY <1>3, <1>6, <2>1 DEF TakesFromWindow, IsOpen, B!NoWindow
  <2> QED
    BY <1>1, <1>6, <2>3, <2>4 DEF TakesFromWindow, Answer, B!TakeFromWindow, B!Grant
<1>7. CASE IsRefused(k)
  <2>1. Windows[k] = [used |-> Limit[k], end |-> buckets[k].resetAt]
    BY <1>3, <1>7 DEF Windows, IsRefused, Counted, IsOpen
  <2>2. Windows'[k] = [used |-> Limit[k], end |-> buckets[k].resetAt]
    BY <1>1, <1>3, <1>7 DEF IsRefused, Windows, Counted, IsOpen
  <2>3. Windows' = Windows
    BY <1>2, <1>4, <2>1, <2>2
  <2>4. Windows[k] # B!NoWindow /\ Windows[k].used = Limit[k]
    BY <1>3, <2>1 DEF B!NoWindow
  <2> QED
    BY <1>1, <1>7, <2>3, <2>4 DEF IsRefused, Answer, B!Refuse
<1> QED BY <1>1, <1>5, <1>6, <1>7

\* The clock closes the windows whose time is up; a store that is lost starts anew, and
\* one that is not lost goes on as it was (ratelimit.ts:44-47, 86-107).
LEMMA LimiterStepsTheBudget ==
  ASSUME LimiterAssumption, LimiterTypeOK, LimiterNext
  PROVE  B!Next \/ UNCHANGED <<now, Windows, grants, refused>>
<1>1. CASE \E k \in Keys : Hit(k)
  BY <1>1, HitIsOfTheBudget DEF B!Next
<1>2. CASE Tick
  <2>1. ASSUME NEW k \in Keys
        PROVE  Windows'[k] = IF Windows[k].end <= now' THEN B!NoWindow ELSE Windows[k]
    <3>1. /\ now \in Nat /\ now' = now + 1 /\ buckets' = buckets
          /\ k \in DOMAIN buckets => buckets[k].resetAt \in Nat
      BY <1>2 DEF Tick, LimiterTypeOK
    <3> QED BY <3>1 DEF Windows, IsOpen, Counted, B!NoWindow
  <2>2. Windows' = [k \in Keys |-> Windows'[k]]
    BY DEF Windows
  <2>3. Windows' = [k \in Keys |-> IF Windows[k].end <= now' THEN B!NoWindow ELSE Windows[k]]
    BY <2>1, <2>2
  <2> QED BY <1>2, <2>3 DEF Tick, B!Tick, B!Next
<1>3. CASE LoseStore /\ store = "memory"
  <2>1. DOMAIN buckets' = {} /\ grants' = [k \in Keys |-> <<>>] /\ UNCHANGED <<now, refused>>
    BY <1>3 DEF LoseStore
  <2>2. Windows' = [k \in Keys |-> B!NoWindow]
    BY <2>1 DEF Windows, IsOpen, B!NoWindow
  <2> QED BY <2>1, <2>2 DEF B!StartAnew, B!Next
<1>4. CASE LoseStore /\ store # "memory"
  BY <1>4 DEF LoseStore, Windows, IsOpen, Counted
<1> QED BY <1>1, <1>2, <1>3, <1>4 DEF LimiterNext

\* Either store implements the budget, for any budgets, window and sweep threshold, and
\* however logins, ticks and restarts mix (ratelimit.ts:21, 28-33).
THEOREM StoresAreBudgets == Spec => ImplementsBudget
<1>1. Init => B!Init
  <2> SUFFICES ASSUME Init PROVE B!Init
    OBVIOUS
  <2>1. /\ now = 0 /\ grants = [k \in Keys |-> <<>>] /\ refused = [k \in Keys |-> 0]
        /\ DOMAIN buckets = {}
    BY DEF Init, LimiterInit
  <2>2. Windows = [k \in Keys |-> B!NoWindow]
    BY <2>1 DEF Windows, IsOpen, B!NoWindow
  <2> QED BY <2>1, <2>2 DEF B!Init
<1>2. LimiterInv /\ [Next]_vars => [B!Next]_(B!vars)
  <2> SUFFICES ASSUME LimiterInv, [Next]_vars PROVE [B!Next]_(B!vars)
    OBVIOUS
  <2>1. CASE LimiterNext
    BY <2>1, LimiterAssumption, LimiterStepsTheBudget DEF LimiterInv, B!vars
  <2>2. CASE UNCHANGED limiterVars
    BY <2>2 DEF limiterVars, Windows, IsOpen, Counted, B!vars
  <2> QED BY <2>1, <2>2, AccessStepsTheLimiter
<1>3. Init => LimiterInv
  BY LimiterAssumption, LimiterStarts DEF Init
<1>4. LimiterInv /\ [Next]_vars => LimiterInv'
  BY LimiterAssumption, LimiterInvIsInductive, AccessStepsTheLimiter
<1> QED BY <1>1, <1>2, <1>3, <1>4, PTL DEF Spec, ImplementsBudget, B!Spec

-----------------------------------------------------------------------------

(***************************************************************************)
(* The deactivations of an account are numbered.  Sessions and requests    *)
(* know how many there were when they began, and DELETEs which one they    *)
(* belong to; nothing knows of one that has not happened.                  *)
(***************************************************************************)

AccessTypes ==
  /\ isActive \in [Accounts -> BOOLEAN]
  /\ deactivations \in [Accounts -> Nat]
  /\ revoked \in [Accounts -> Nat]
  /\ pc \in [Requests -> Steps]
  /\ account \in [Requests -> Accounts]
  /\ target \in [Requests -> Nat]
  /\ actor \in [Requests -> [id : Accounts, role : Roles \cup {"none"}, since : Nat]]
  /\ role \in [Accounts -> Roles \cup {"none"}]
  /\ \A s \in sessions : s.user \in Accounts /\ s.since \in Nat

\* No DELETE is ahead of its UPDATE.
RevocationsHappened ==
  /\ \A u \in Accounts : revoked[u] <= deactivations[u]
  /\ \A r \in Requests : pc[r] = "revoke" => target[r] <= deactivations[account[r]]

ActorsOverlap ==
  \A r \in Requests : pc[r] = "acting" =>
    /\ actor[r].since <= deactivations[actor[r].id]
    /\ ~isActive[actor[r].id] => actor[r].since < deactivations[actor[r].id]

DeactivationInv ==
  AccessTypes /\ RevocationsHappened /\ OldSessionsAreGone /\ ActorsOverlap

\* A request that only ends, or goes on with what it has, acts for nobody new.
LEMMA EndingKeepsActors ==
  ASSUME AccessAssumption, DeactivationInv, NEW r \in Requests,
         isActive' = isActive, deactivations' = deactivations, role' = role, revoked' = revoked,
         sessions' \subseteq sessions,
         \/ Finish(r)
         \/ \E step \in Steps \ {"acting", "revoke"} : Goto(r, step)
  PROVE  DeactivationInv'
<1> USE DEF DeactivationInv
<1>1. AccessTypes'
  <2>1. CASE Finish(r)
    BY <2>1 DEF AccessAssumption, AccessTypes, Finish, NoActor, Steps
  <2>2. CASE \E step \in Steps \ {"acting", "revoke"} : Goto(r, step)
    BY <2>2 DEF AccessTypes, Goto
  <2> QED BY <2>1, <2>2
<1>2. RevocationsHappened'
  <2>1. CASE Finish(r)
    BY <2>1 DEF AccessAssumption, AccessTypes, RevocationsHappened, Finish
  <2>2. CASE \E step \in Steps \ {"acting", "revoke"} : Goto(r, step)
    BY <2>2 DEF AccessTypes, RevocationsHappened, Goto
  <2> QED BY <2>1, <2>2
<1>3. OldSessionsAreGone'
  BY DEF OldSessionsAreGone
<1>4. ActorsOverlap'
  BY DEF AccessTypes, ActorsOverlap, Finish, Goto
<1> QED BY <1>1, <1>2, <1>3, <1>4

\* Nothing happens to those who act, and nothing is revoked, by any other step.
LEMMA OthersKeepActors ==
  ASSUME DeactivationInv,
         UNCHANGED <<accountVars, sessions, revoked>>,
         UNCHANGED <<pc, account, actor, target>>
  PROVE  DeactivationInv'
BY DEF DeactivationInv, AccessTypes, RevocationsHappened, OldSessionsAreGone, ActorsOverlap,
       accountVars

\* Each step keeps the numbers in order.
LEMMA DeactivationInvIsInductive ==
  ASSUME AccessAssumption, DeactivationInv, [Next]_vars
  PROVE  DeactivationInv'
<1>1. CASE \E r \in Requests : Step(r)
  <2>1. PICK r \in Requests : Step(r)
    BY <1>1
  <2>2. CASE \E a \in Addresses, u \in Accounts : Login(r, a, u)
    BY <2>2 DEF DeactivationInv, AccessTypes, RevocationsHappened, OldSessionsAreGone,
                ActorsOverlap, Login, Begin, Steps, accountVars
  <2>3. CASE \E k \in Keys : HitOne(r, k)
    BY <2>3, OthersKeepActors DEF HitOne
  <2>4. CASE LookUp(r) \/ KillSession(r) \/ LogOut(r) \/ Respond(r)
    BY <2>4, EndingKeepsActors DEF LookUp, KillSession, LogOut, Respond, DestroySessionByHash,
                                   accountVars, Steps
  <2>5. CASE CreateSession(r)
    <3> DEFINE born == [id |-> issued', user |-> account[r], expiresAt |-> now + SESSION_TTL,
                        since |-> deactivations[account[r]]]
    <3>1. sessions' = sessions \cup {born} /\ Finish(r) /\ UNCHANGED <<accountVars, revoked>>
      BY <2>5 DEF CreateSession
    <3>2. /\ born.user \in Accounts /\ born.since \in Nat
          /\ born.since >= revoked[born.user]
      BY DEF DeactivationInv, AccessTypes, RevocationsHappened
    <3>3. AccessTypes'
      BY <3>1, <3>2 DEF AccessAssumption, DeactivationInv, AccessTypes, Finish, NoActor, Steps,
                        accountVars
    <3>4. RevocationsHappened' /\ ActorsOverlap'
      BY <3>1 DEF DeactivationInv, AccessTypes, RevocationsHappened, ActorsOverlap, Finish,
                  accountVars
    <3>5. OldSessionsAreGone'
      BY <3>1, <3>2 DEF DeactivationInv, OldSessionsAreGone
    <3> QED BY <3>3, <3>4, <3>5 DEF DeactivationInv
  <2>6. CASE \E s \in sessions : GetSession(r, s)
    <3>1. PICK s \in sessions : GetSession(r, s)
      BY <2>6
    <3>2. s.user \in Accounts
      BY DEF DeactivationInv, AccessTypes
    <3>3. /\ UNCHANGED <<accountVars, sessions, revoked, account, target>>
          /\ pc[r] = "idle"
      BY <3>1 DEF GetSession, Begin
    <3>4. CASE isActive[s.user]
      <4>1. /\ pc' = [pc EXCEPT ![r] = "acting"]
            /\ actor' = [actor EXCEPT ![r] =
                 [id |-> s.user, role |-> role[s.user], since |-> deactivations[s.user]]]
        BY <3>1, <3>4 DEF GetSession
      <4>2. AccessTypes'
        BY <3>2, <3>3, <4>1 DEF DeactivationInv, AccessTypes, Steps, accountVars
      <4>3. RevocationsHappened' /\ OldSessionsAreGone'
        BY <3>3, <4>1 DEF DeactivationInv, AccessTypes, RevocationsHappened, OldSessionsAreGone,
                          accountVars
      <4>4. ActorsOverlap'
        BY <3>2, <3>3, <3>4, <4>1 DEF DeactivationInv, AccessTypes, ActorsOverlap, accountVars
      <4> QED BY <4>2, <4>3, <4>4 DEF DeactivationInv
    <3>5. CASE ~isActive[s.user]
      <4>1. pc' = [pc EXCEPT ![r] = "kill"] /\ actor' = actor
        BY <3>1, <3>5 DEF GetSession
      <4> QED
        BY <3>3, <4>1 DEF DeactivationInv, AccessTypes, RevocationsHappened, OldSessionsAreGone,
                          ActorsOverlap, Steps, accountVars
    <3> QED BY <3>4, <3>5
  <2>7. ASSUME NEW u \in Accounts,
               \/ \E newRole \in Roles : InviteUser(r, u, newRole) \/ SetUserRole(r, u, newRole)
               \/ Reactivate(r, u)
        PROVE  DeactivationInv'
    <3>2. /\ Finish(r) /\ UNCHANGED <<sessions, revoked, deactivations>>
          /\ isActive' \in {isActive, [isActive EXCEPT ![u] = TRUE]}
          /\ role' = role \/ \E newRole \in Roles : role' = [role EXCEPT ![u] = newRole]
      BY <2>7 DEF InviteUser, SetUserRole, Reactivate
    <3>3. /\ isActive' \in [Accounts -> BOOLEAN]
          /\ \A v \in Accounts : isActive[v] => isActive'[v]
      BY <3>2 DEF DeactivationInv, AccessTypes
    <3>4. role' \in [Accounts -> Roles \cup {"none"}]
      BY <3>2 DEF DeactivationInv, AccessTypes
    <3>5. AccessTypes'
      BY <3>2, <3>3, <3>4 DEF AccessAssumption, DeactivationInv, AccessTypes, Finish, NoActor, Steps
    <3>6. RevocationsHappened' /\ OldSessionsAreGone'
      BY <3>2 DEF DeactivationInv, AccessTypes, RevocationsHappened, OldSessionsAreGone, Finish
    <3>7. ActorsOverlap'
      BY <3>2, <3>3 DEF DeactivationInv, AccessTypes, ActorsOverlap, Finish
    <3> QED BY <3>5, <3>6, <3>7 DEF DeactivationInv
  <2>8. ASSUME NEW u \in Accounts, Deactivate(r, u)
        PROVE  DeactivationInv'
    <3>2. /\ isActive' = [isActive EXCEPT ![u] = FALSE]
          /\ deactivations' = [deactivations EXCEPT ![u] = @ + 1]
          /\ pc' = [pc EXCEPT ![r] = "revoke"]
          /\ account' = [account EXCEPT ![r] = u]
          /\ target' = [target EXCEPT ![r] = deactivations'[u]]
          /\ UNCHANGED <<sessions, revoked, role, actor>>
      BY <2>8 DEF Deactivate
    <3>3. /\ deactivations' \in [Accounts -> Nat]
          /\ deactivations'[u] = deactivations[u] + 1
          /\ \A v \in Accounts : deactivations'[v] >= deactivations[v]
          /\ \A v \in Accounts \ {u} : deactivations'[v] = deactivations[v]
      BY <3>2 DEF DeactivationInv, AccessTypes
    <3>4. AccessTypes'
      BY <3>2, <3>3 DEF DeactivationInv, AccessTypes, Steps
    <3>5. RevocationsHappened'
      <4>1. \A v \in Accounts : revoked'[v] <= deactivations'[v]
        BY <3>2, <3>3 DEF DeactivationInv, AccessTypes, RevocationsHappened
      <4>2. \A x \in Requests : pc'[x] = "revoke" => target'[x] <= deactivations'[account'[x]]
        <5>1. target'[r] <= deactivations'[account'[r]]
          BY <3>2, <3>3 DEF DeactivationInv, AccessTypes
        <5>2. \A x \in Requests \ {r} : pc[x] = "revoke" => target[x] <= deactivations'[account[x]]
          BY <3>3 DEF DeactivationInv, AccessTypes, RevocationsHappened
        <5> QED BY <3>2, <5>1, <5>2 DEF DeactivationInv, AccessTypes
      <4> QED BY <4>1, <4>2 DEF RevocationsHappened
    <3>6. OldSessionsAreGone'
      BY <3>2 DEF DeactivationInv, OldSessionsAreGone
    <3>7. ActorsOverlap'
      <4> SUFFICES ASSUME NEW x \in Requests, pc'[x] = "acting"
                   PROVE  /\ actor[x].since <= deactivations'[actor[x].id]
                          /\ ~isActive'[actor[x].id] => actor[x].since < deactivations'[actor[x].id]
        BY <3>2 DEF ActorsOverlap
      <4>1. /\ pc[x] = "acting" /\ actor[x].id \in Accounts /\ actor[x].since \in Nat
        BY <3>2 DEF DeactivationInv, AccessTypes
      <4>2. /\ actor[x].since <= deactivations[actor[x].id]
            /\ ~isActive[actor[x].id] => actor[x].since < deactivations[actor[x].id]
        BY <4>1 DEF DeactivationInv, ActorsOverlap
      <4>3. CASE actor[x].id = u
        BY <3>3, <4>1, <4>2, <4>3 DEF DeactivationInv, AccessTypes
      <4>4. CASE actor[x].id # u
        <5>1. isActive'[actor[x].id] = isActive[actor[x].id]
          BY <3>2, <4>1, <4>4 DEF DeactivationInv, AccessTypes
        <5> QED BY <3>3, <4>1, <4>2, <4>4, <5>1
      <4> QED BY <4>3, <4>4
    <3> QED BY <3>4, <3>5, <3>6, <3>7 DEF DeactivationInv
  <2>9. CASE DestroyAllSessionsFor(r)
    <3>1. /\ pc[r] = "revoke" /\ Finish(r) /\ UNCHANGED accountVars
          /\ sessions' = {s \in sessions : s.user # account[r]}
          /\ revoked' = [revoked EXCEPT ![account[r]] = IF target[r] > @ THEN target[r] ELSE @]
      BY <2>9 DEF DestroyAllSessionsFor
    <3>2. /\ revoked' \in [Accounts -> Nat]
          /\ \A v \in Accounts : revoked'[v] <= deactivations[v]
          /\ \A v \in Accounts \ {account[r]} : revoked'[v] = revoked[v]
      BY <3>1 DEF DeactivationInv, AccessTypes, RevocationsHappened
    <3>3. AccessTypes'
      BY <3>1, <3>2 DEF AccessAssumption, DeactivationInv, AccessTypes, Finish, NoActor, Steps,
                        accountVars
    <3>4. RevocationsHappened'
      BY <3>1, <3>2 DEF DeactivationInv, AccessTypes, RevocationsHappened, Finish, accountVars
    <3>5. OldSessionsAreGone'
      BY <3>1, <3>2 DEF DeactivationInv, AccessTypes, OldSessionsAreGone
    <3>6. ActorsOverlap'
      BY <3>1 DEF DeactivationInv, AccessTypes, ActorsOverlap, Finish, accountVars
    <3> QED BY <3>3, <3>4, <3>5, <3>6 DEF DeactivationInv
  <2>10. CASE \E u \in Accounts :
                \/ \E newRole \in Roles : InviteUser(r, u, newRole) \/ SetUserRole(r, u, newRole)
                \/ Reactivate(r, u) \/ Deactivate(r, u)
    BY <2>7, <2>8, <2>10
  <2> QED
    BY <2>1, <2>2, <2>3, <2>4, <2>5, <2>6, <2>9, <2>10 DEF Step
<1>2. CASE Restart
  <2>1. /\ UNCHANGED <<accountVars, sessions, revoked>>
        /\ pc' = [r \in Requests |-> "idle"] /\ account' = [r \in Requests |-> Admin]
        /\ actor' = [r \in Requests |-> NoActor] /\ target' = [r \in Requests |-> 0]
    BY <1>2 DEF Restart
  <2>2. AccessTypes'
    BY <2>1 DEF AccessAssumption, DeactivationInv, AccessTypes, NoActor, Steps, accountVars
  <2>3. RevocationsHappened' /\ OldSessionsAreGone' /\ ActorsOverlap'
    BY <2>1 DEF DeactivationInv, RevocationsHappened, OldSessionsAreGone, ActorsOverlap, accountVars
  <2> QED BY <2>2, <2>3 DEF DeactivationInv
<1>3. CASE TimePasses \/ UNCHANGED vars
  BY <1>3, OthersKeepActors DEF TimePasses, vars, requestVars, accountVars
<1> QED BY <1>1, <1>2, <1>3 DEF Next

\* Deactivation takes hold for any number of accounts and requests, however logins,
\* requests, other changes and restarts come between its two transactions
\* (admin/service.ts:135-149, session.ts:73-102, 130-136).
THEOREM Deactivated == Spec => []DeactivationTakesHold
<1>1. Init => DeactivationInv
  BY AccessAssumption
  DEF Init, AccessAssumption, DeactivationInv, AccessTypes, RevocationsHappened,
      OldSessionsAreGone, ActorsOverlap, NoActor, Steps, Roles
<1>2. DeactivationInv /\ [Next]_vars => DeactivationInv'
  BY AccessAssumption, DeactivationInvIsInductive
<1>3. DeactivationInv => DeactivationTakesHold
  BY DEF DeactivationInv, DeactivationTakesHold, NobodyActsAfterwards, ActorsOverlap
<1> QED BY <1>1, <1>2, <1>3, PTL DEF Spec
=============================================================================
