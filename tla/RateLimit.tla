------------------------------ MODULE RateLimit ------------------------------
(***************************************************************************)
(* The limiter of src/src/lib/auth/ratelimit.ts: a counter per key and     *)
(* window, kept in a Map of the process or in the table rate_limits.  The  *)
(* hit of the Map runs without an await; the hit of the table is one       *)
(* upsert.  Either way a hit is one step.                                  *)
(***************************************************************************)
EXTENDS Integers, Sequences, FiniteSets

CONSTANTS
  Keys,             \* what attempts are counted by: addresses and accounts
  Limit,            \* the budget of each key
  WINDOW,           \* WINDOW_MS, in ticks
  SWEEP_THRESHOLD,  \* size of the Map above which expired buckets are dropped
  MaxTime           \* bound: ticks of the clock

ASSUME LimiterAssumption ==
  /\ Limit \in [Keys -> Nat \ {0}]
  /\ WINDOW \in Nat \ {0}
  /\ SWEEP_THRESHOLD \in Nat
  /\ MaxTime \in Nat

Stores == {"memory", "postgres"}

VARIABLES
  store,    \* which store this deployment runs (RATE_LIMIT_STORE)
  now,      \* the clock
  buckets,  \* the counters the store has: a function on some of the keys
  grants,   \* when each attempt that hit allowed was made, since the store was empty
  refused   \* how many attempts each key was refused

limiterVars == <<store, now, buckets, grants, refused>>

LimiterInit ==
  /\ store \in Stores
  /\ now = 0
  /\ buckets = [k \in {} |-> [count |-> 0, resetAt |-> 0]]
  /\ grants = [k \in Keys |-> <<>>]
  /\ refused = [k \in Keys |-> 0]

IsOpen(k) == k \in DOMAIN buckets /\ buckets[k].resetAt > now

\* A sweep that drops every bucket, open or not.
Swept_Everything ==
  IF Cardinality(DOMAIN buckets) > SWEEP_THRESHOLD THEN {} ELSE DOMAIN buckets

\* The keys sweepExpired leaves in the Map.
Swept ==
  IF Cardinality(DOMAIN buckets) > SWEEP_THRESHOLD
    THEN {k \in DOMAIN buckets : IsOpen(k)}
    ELSE DOMAIN buckets

FreshBucket == [count |-> 1, resetAt |-> now + WINDOW]

\* The store with the bucket b under k, beside those of the keys kept.
WithBucket(kept, k, b) ==
  [x \in kept \cup {k} |-> IF x = k THEN b ELSE buckets[x]]

Answer(k, isAllowed) ==
  IF isAllowed
    THEN grants' = [grants EXCEPT ![k] = Append(@, now)] /\ UNCHANGED refused
    ELSE refused' = [refused EXCEPT ![k] = @ + 1] /\ UNCHANGED grants

\* The Map stops counting at the limit.
MemoryAllows(k) == ~IsOpen(k) \/ buckets[k].count < Limit[k]

HitMemory(k) ==
  /\ buckets' = WithBucket(Swept, k,
       IF ~IsOpen(k) THEN FreshBucket
       ELSE IF MemoryAllows(k) THEN [buckets[k] EXCEPT !.count = @ + 1]
       ELSE buckets[k])
  /\ Answer(k, MemoryAllows(k))

\* The table counts every attempt and compares afterwards.
UpsertedCount(k) == IF IsOpen(k) THEN buckets[k].count + 1 ELSE 1

\* The last attempt of the budget is refused.
PostgresAllows_Strict(k) == UpsertedCount(k) < Limit[k]

PostgresAllows(k) == UpsertedCount(k) <= Limit[k]

HitPostgres(k) ==
  /\ buckets' = WithBucket(DOMAIN buckets, k,
       IF IsOpen(k) THEN [buckets[k] EXCEPT !.count = UpsertedCount(k)] ELSE FreshBucket)
  /\ Answer(k, PostgresAllows(k))

Allows(k) == IF store = "memory" THEN MemoryAllows(k) ELSE PostgresAllows(k)

Hit(k) ==
  /\ \/ store = "memory" /\ HitMemory(k)
     \/ store = "postgres" /\ HitPostgres(k)
  /\ UNCHANGED <<store, now>>

Tick ==
  /\ now < MaxTime
  /\ now' = now + 1
  /\ UNCHANGED <<store, buckets, grants, refused>>

\* The Map goes with its process; the table stays.
LoseStore ==
  /\ IF store = "memory"
       THEN /\ buckets' = [k \in {} |-> FreshBucket]
            /\ grants' = [k \in Keys |-> <<>>]
       ELSE UNCHANGED <<buckets, grants>>
  /\ UNCHANGED <<store, now, refused>>

-----------------------------------------------------------------------------

LimiterTypeOK ==
  /\ store \in Stores
  /\ now \in 0 .. MaxTime
  /\ DOMAIN buckets \subseteq Keys
  /\ \A k \in DOMAIN buckets : buckets[k] \in [count : Nat \ {0}, resetAt : Nat]
  /\ grants \in [Keys -> Seq(0 .. MaxTime)]
  /\ refused \in [Keys -> Nat]

\* A fixed window lets at most two budgets through in any stretch of its length: of the
\* attempts of a key that were let through, the one that comes two budgets after another
\* comes a window later, at whatever moment the windows happen to open and however the
\* Map is swept (ratelimit.ts:60-72, 86-107).
AttemptsAreBudgeted ==
  \A k \in Keys : \A i \in DOMAIN grants[k] :
    i + 2 * Limit[k] \in DOMAIN grants[k] =>
      grants[k][i + 2 * Limit[k]] - grants[k][i] >= WINDOW

\* The attempts the open window of k has let through.
Counted(k) == IF buckets[k].count > Limit[k] THEN Limit[k] ELSE buckets[k].count

\* A key's window is its bucket while that is open.
Windows ==
  [k \in Keys |->
    IF IsOpen(k)
      THEN [used |-> Counted(k), end |-> buckets[k].resetAt]
      ELSE [used |-> 0, end |-> 0]]

B == INSTANCE Budget WITH window <- Windows

\* Both stores are one budget per window: the table's count beyond the limit, expired
\* rows and the lazy sweep of the Map are nobody's business, so that one store can be
\* swapped for the other and "the callers will not notice" (ratelimit.ts:21).
ImplementsBudget == B!Spec
=============================================================================
