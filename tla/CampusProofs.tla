---------------------------- MODULE CampusProofs ----------------------------
(***************************************************************************)
(* Tenants are apart for any number of institutions, requests, connections *)
(* and entries, whatever is written and whoever dies.                      *)
(*                                                                         *)
(* What TenantsAreApart says of rows follows from what PoolInv says of the *)
(* connections: each is set for the request that holds it, and for nobody  *)
(* when none does.                                                         *)
(***************************************************************************)
EXTENDS Campus, SequenceTheorems, TLAPS

\* No connection is shared, and a free one has no tenant.
PoolIsClean ==
  /\ held \in [Requests -> Connections \cup {NULL}]
  /\ setting \in [Connections -> Institutions \cup {NULL}]
  /\ \A q, r \in Requests : held[q] = held[r] /\ held[r] # NULL => q = r
  /\ \A c \in Free : setting[c] = NULL

\* What r is doing has the connection of r, set to its tenant, and has read nothing else.
IsTenants(r) ==
  LET w == work[r] IN
  /\ w = [job |-> w.job, seen |-> w.seen, attempt |-> w.attempt, since |-> w.since]
  /\ w.job.institution \in Institutions
  /\ held[r] # NULL /\ setting[held[r]] = w.job.institution
  /\ w.seen # NULL => w.seen.institution = w.job.institution

PoolInv ==
  /\ PoolIsClean
  /\ DOMAIN work = Requests /\ work = [r \in Requests |-> work[r]]
  /\ \A r \in Requests : work[r] # NULL => IsTenants(r)

-----------------------------------------------------------------------------
LEMMA InitPool == Init => PoolInv
BY TenancyAssumption DEF Init, TenancyInit, PoolInv, PoolIsClean, Free

LEMMA JobsHaveTenants ==
  ASSUME NEW job \in Creations \cup Changes PROVE job.institution \in Institutions
<1>1. CASE job \in Creations
  BY <1>1, CampusAssumption DEF Creations
<1>2. CASE job \in Changes
  BY <1>2, CampusAssumption DEF Changes
<1>3. QED
  BY <1>1, <1>2

\* Beginning takes a clean connection and sets it.
LEMMA BeginPool ==
  ASSUME PoolInv, NEW r \in Requests, NEW job \in Creations \cup Changes, Begin(r, job)
  PROVE  PoolInv'
<1>1. PICK c \in Free : /\ held' = [held EXCEPT ![r] = c]
                        /\ setting' = [setting EXCEPT ![c] = job.institution]
  BY DEF Begin, withTenant
<1>2. held[r] = NULL /\ c \in Connections /\ c # NULL /\ job.institution \in Institutions
  BY JobsHaveTenants, TenancyAssumption DEF Begin, withTenant, Free
<1>3. \A q \in Requests : held[q] # c
  BY DEF Free
<1>4. PoolIsClean'
  <2>1. /\ held' \in [Requests -> Connections \cup {NULL}]
        /\ setting' \in [Connections -> Institutions \cup {NULL}]
    BY <1>1, <1>2 DEF PoolInv, PoolIsClean
  <2>2. \A p, q \in Requests : held'[p] = held'[q] /\ held'[p] # NULL => p = q
    BY <1>1, <1>3 DEF PoolInv, PoolIsClean
  <2>3. ASSUME NEW d \in Free' PROVE setting'[d] = NULL
    <3>1. d \in Connections /\ d # c /\ \A q \in Requests : held'[q] # d
      BY <1>1, <2>3 DEF Free, PoolInv, PoolIsClean
    <3>2. d \in Free
      BY <1>1, <1>2, <3>1, TenancyAssumption DEF Free, PoolInv, PoolIsClean
    <3>3. QED
      BY <1>1, <3>1, <3>2 DEF PoolInv, PoolIsClean
  <2>4. QED
    BY <2>1, <2>2, <2>3 DEF PoolIsClean
<1>5. work' = [work EXCEPT ![r] = [job |-> job, seen |-> NULL, attempt |-> 0, since |-> now]]
  BY DEF Begin
<1>6. ASSUME NEW q \in Requests, work'[q] # NULL PROVE IsTenants(q)'
  <2>1. CASE q = r
    BY <1>1, <1>2, <1>5, <2>1 DEF PoolInv, PoolIsClean, IsTenants
  <2>2. CASE q # r
    <3>1. work'[q] = work[q] /\ held'[q] = held[q] /\ IsTenants(q)
      BY <1>1, <1>5, <1>6, <2>2 DEF PoolInv, PoolIsClean
    <3>2. setting'[held[q]] = setting[held[q]]
      BY <1>1, <1>3, <3>1 DEF PoolInv, PoolIsClean, IsTenants
    <3>3. QED
      BY <3>1, <3>2 DEF IsTenants
  <2>3. QED
    BY <2>1, <2>2
<1>7. QED
  BY <1>4, <1>5, <1>6 DEF PoolInv

\* Ending, well or badly, gives it back clean and touches nobody else's.
LEMMA EndPool ==
  ASSUME PoolInv, NEW r \in Requests, work[r] # NULL,
         Commit(r) \/ Abort(r), work' = [work EXCEPT ![r] = NULL]
  PROVE  PoolInv'
<1>1. held' = [held EXCEPT ![r] = NULL] /\ setting' = [setting EXCEPT ![held[r]] = NULL]
  BY DEF Commit, Abort, AfterCommit
<1>2. held[r] \in Connections /\ held[r] # NULL
  BY DEF PoolInv, PoolIsClean, IsTenants
<1>3. PoolIsClean'
  BY <1>1, <1>2 DEF PoolInv, PoolIsClean, Free
<1>4. ASSUME NEW q \in Requests, work'[q] # NULL PROVE IsTenants(q)'
  <2>1. q # r /\ work'[q] = work[q] /\ held'[q] = held[q] /\ IsTenants(q)
    BY <1>1, <1>4 DEF PoolInv, PoolIsClean
  <2>2. held[q] # held[r] /\ held[q] \in Connections
    BY <1>2, <2>1 DEF PoolInv, PoolIsClean, IsTenants
  <2>3. QED
    BY <1>1, <2>1, <2>2 DEF PoolInv, PoolIsClean, IsTenants
<1>5. QED
  BY <1>3, <1>4 DEF PoolInv

\* Going on without ending leaves the pool alone.
LEMMA StayPool ==
  ASSUME PoolInv, UNCHANGED tenancyVars, NEW r \in Requests, work[r] # NULL,
         NEW w, work' = [work EXCEPT ![r] = w],
         w = [job |-> w.job, seen |-> w.seen, attempt |-> w.attempt, since |-> w.since],
         w.job = work[r].job,
         w.seen # NULL => w.seen.institution = w.job.institution
  PROVE  PoolInv'
<1>1. PoolIsClean'
  BY DEF PoolInv, PoolIsClean, tenancyVars, Free
<1>2. ASSUME NEW q \in Requests, work'[q] # NULL PROVE IsTenants(q)'
  <2>1. CASE q = r
    BY <2>1 DEF PoolInv, IsTenants, tenancyVars
  <2>2. CASE q # r
    BY <1>2, <2>2 DEF PoolInv, IsTenants, tenancyVars
  <2>3. QED
    BY <2>1, <2>2
<1>3. QED
  BY <1>1, <1>2 DEF PoolInv

\* The search for a slug ends or counts an attempt.
LEMMA AttemptPool ==
  ASSUME PoolInv, NEW r \in Requests, work[r] # NULL, Attempt(r) PROVE PoolInv'
<1>1. PICK slug \in Candidates(work[r]) : Insert(r, slug) \/ Collide(r, slug)
  BY DEF Attempt
<1>2. CASE Insert(r, slug)
  BY <1>2, EndPool DEF Insert, End
<1>3. CASE Collide(r, slug) /\ Fail(r)
  BY <1>3, EndPool DEF Fail
<1>4. CASE Collide(r, slug) /\ ~Fail(r)
  <2>1. IsTenants(r)
    BY DEF PoolInv
  <2> DEFINE w == [work[r] EXCEPT !.attempt = NextAttempt(@)]
  <2>2. work' = [work EXCEPT ![r] = w] /\ UNCHANGED tenancyVars
    BY <1>4 DEF Collide
  <2>3. /\ w = [job |-> w.job, seen |-> w.seen, attempt |-> w.attempt, since |-> w.since]
        /\ w.job = work[r].job /\ w.seen = work[r].seen
    BY <2>1 DEF IsTenants
  <2>4. w.seen # NULL => w.seen.institution = w.job.institution
    BY <2>1, <2>3 DEF IsTenants
  <2> HIDE DEF w
  <2>5. QED
    BY <2>2, <2>3, <2>4, StayPool
<1>5. QED
  BY <1>1, <1>2, <1>3, <1>4

\* What a request reads has passed the WHERE of its own tenant.
LEMMA LoadPool ==
  ASSUME PoolInv, NEW r \in Requests, work[r] # NULL, Load(r) PROVE PoolInv'
<1>1. CASE \E id \in Own(r) : ~Refused(work[r].job, entries[id])
  <2>1. entries[work[r].job.id].institution = work[r].job.institution
    BY <1>1 DEF Own, OfKind
  <2>2. IsTenants(r)
    BY DEF PoolInv
  <2> DEFINE w == [work[r] EXCEPT !.seen = entries[work[r].job.id]]
  <2>3. work' = [work EXCEPT ![r] = w] /\ UNCHANGED tenancyVars
    BY <1>1 DEF Load
  <2>4. /\ w = [job |-> w.job, seen |-> w.seen, attempt |-> w.attempt, since |-> w.since]
        /\ w.job = work[r].job /\ w.seen = entries[work[r].job.id]
    BY <2>2 DEF IsTenants
  <2> HIDE DEF w
  <2>5. QED
    BY <2>1, <2>3, <2>4, StayPool
<1>2. CASE ~\E id \in Own(r) : ~Refused(work[r].job, entries[id])
  BY <1>2, EndPool DEF Load, End
<1>3. QED
  BY <1>1, <1>2

LEMMA NextPool == PoolInv /\ [Next]_vars => PoolInv'
<1> SUFFICES ASSUME PoolInv, [Next]_vars PROVE PoolInv'
  OBVIOUS
<1>1. ASSUME NEW r \in Requests, NEW job \in Creations \cup Changes, Begin(r, job)
      PROVE  PoolInv'
  BY <1>1, BeginPool
<1>2. ASSUME NEW r \in Requests, Proceed(r) PROVE PoolInv'
  <2>1. work[r] # NULL
    BY <1>2 DEF Proceed
  <2>2. CASE Attempt(r)
    BY <2>1, <2>2, AttemptPool
  <2>3. CASE Load(r)
    BY <2>1, <2>3, LoadPool
  <2>4. CASE Write(r)
    BY <2>1, <2>4, EndPool DEF Write, End
  <2>5. QED
    BY <1>2, <2>2, <2>3, <2>4 DEF Proceed
<1>3. ASSUME NEW r \in Requests, Dies(r) PROVE PoolInv'
  BY <1>3, EndPool DEF Dies, Fail
<1>4. CASE Tick \/ UNCHANGED vars
  <2>1. UNCHANGED <<tenancyVars, work>>
    BY <1>4 DEF Tick, vars
  <2>2. QED
    BY <2>1 DEF tenancyVars, PoolInv, PoolIsClean, Free, IsTenants
<1>5. QED
  BY <1>1, <1>2, <1>3, <1>4 DEF Next

\* A row is seen where the setting is its tenant, so clean connections separate them.
LEMMA PoolSeparates == PoolInv => TenantsAreApart
BY TenancyAssumption DEF PoolInv, PoolIsClean, IsTenants, TenantsAreApart, Visible

\* No connection carries a tenant from one request to the next, no request sees or has
\* read a row of another tenant, and none is seen outside of a transaction, for any pool
\* and any institutions (db/client.ts, drizzle/0001_rls.sql).
THEOREM TenantsApart == Spec => []TenantsAreApart
<1>1. Spec => []PoolInv
  BY InitPool, NextPool, PTL DEF Spec
<1>2. QED
  BY <1>1, PoolSeparates, PTL
-----------------------------------------------------------------------------

(***************************************************************************)
(* Links, votes and withdrawals.  SiteInv says what the two tables hold    *)
(* and that the ghost told tells of them: a link leads to the entry it was *)
(* made for, which is the only one of its address; the votes are counted;  *)
(* and what has an expiry is what was withdrawn, whether it had been       *)
(* published or not.                                                       *)
(***************************************************************************)

LinksLead ==
  \A l \in told.links :
    l.id \in DOMAIN entries /\ IsAt(entries[l.id], l.kind, l.institution, l.slug)

VotesAreCounted ==
  /\ told.votes \in Seq(Nat) /\ Len(told.votes) = Len(entries)
  /\ \A id \in DOMAIN entries :
       entries[id].kind = "handbook" => entries[id].helpfulCount = told.votes[id]

WithdrawalsAreTold ==
  /\ told.withdrawn \subseteq DOMAIN entries
  /\ \A id \in DOMAIN entries :
       id \in told.withdrawn <=> entries[id].kind = "news" /\ entries[id].expiresAt # NULL

\* What r was told to do, of the table it is about.
IsJob(r) ==
  /\ work[r].job.kind \in Kinds
  /\ work[r].since \in Nat /\ work[r].since <= now
  /\ work[r].job.op \in {"create", "publish", "expire", "update", "vote"}
  /\ work[r].job.op \in {"publish", "expire"} => work[r].job.kind = "news"
  /\ work[r].job.op \in {"update", "vote"} => work[r].job.kind = "handbook"

TablesInv ==
  /\ now \in Nat
  /\ \E S : entries \in Seq(S)
  /\ \A id \in DOMAIN entries : IsEntry(entries[id], now)
  /\ HasUniqueSlugs(entries)

ToldInv ==
  /\ told = [links |-> told.links, votes |-> told.votes, withdrawn |-> told.withdrawn]
  /\ LinksLead /\ VotesAreCounted /\ WithdrawalsAreTold

JobsInv == \A r \in Requests : work[r] # NULL => IsJob(r)

SiteInv == TablesInv /\ ToldInv /\ JobsInv

\* Entries grow older but not younger.
LEMMA EntriesAge ==
  ASSUME NEW e, NEW t \in Nat, NEW u \in Nat, t <= u, IsEntry(e, t)
  PROVE  IsEntry(e, u)
BY DEF IsEntry

\* A job that goes on is what it was.
LEMMA JobsStand ==
  ASSUME JobsInv, now \in Nat, now' \in Nat, now <= now',
         \A q \in Requests : work'[q] # NULL =>
           work[q] # NULL /\ work'[q].job = work[q].job /\ work'[q].since = work[q].since
  PROVE  JobsInv'
BY DEF JobsInv, IsJob

\* While the tables and what was told stay, only the jobs can go wrong.
LEMMA TablesStand ==
  ASSUME SiteInv, UNCHANGED <<now, entries, told>>
  PROVE  TablesInv' /\ ToldInv'
BY DEF SiteInv, TablesInv, ToldInv, LinksLead, VotesAreCounted, WithdrawalsAreTold

\* A request that goes on with its job, or ends, without writing.
LEMMA StaySite ==
  ASSUME SiteInv, UNCHANGED <<now, entries, told>>,
         \A q \in Requests : work'[q] # NULL =>
           work[q] # NULL /\ work'[q].job = work[q].job /\ work'[q].since = work[q].since
  PROVE  SiteInv'
<1>1. JobsInv'
  BY JobsStand DEF SiteInv, TablesInv
<1> QED BY <1>1, TablesStand DEF SiteInv

\* Idle work is nothing, and the others go on.
LEMMA OneEnds ==
  ASSUME PoolInv, NEW r \in Requests, work' = [work EXCEPT ![r] = NULL]
  PROVE  \A q \in Requests : work'[q] # NULL =>
           work[q] # NULL /\ work'[q].job = work[q].job /\ work'[q].since = work[q].since
BY DEF PoolInv

LEMMA InitSite == Init => SiteInv
<1> SUFFICES ASSUME Init PROVE SiteInv
  OBVIOUS
<1>1. /\ now = 0 /\ entries \in Before /\ work = [r \in Requests |-> NULL]
      /\ told = [links |-> {[kind |-> entries[id].kind, institution |-> entries[id].institution,
                             slug |-> entries[id].slug, id |-> id] : id \in DOMAIN entries},
                 votes |-> [id \in DOMAIN entries |->
                              IF entries[id].kind = "handbook" THEN entries[id].helpfulCount ELSE 0],
                 withdrawn |-> {id \in DOMAIN entries :
                                  entries[id].kind = "news" /\ entries[id].expiresAt # NULL}]
  BY DEF Init
<1>2. /\ entries \in Seq({entries[i] : i \in DOMAIN entries})
      /\ HasUniqueSlugs(entries) /\ \A i \in DOMAIN entries : IsEntry(entries[i], 0)
  BY <1>1, CampusAssumption
<1>3. TablesInv
  BY <1>1, <1>2 DEF TablesInv
<1>4. told.votes \in Seq(Nat) /\ Len(told.votes) = Len(entries)
  <2>1. DOMAIN entries = 1 .. Len(entries) /\ Len(entries) \in Nat
    BY <1>2, LenProperties
  <2>2. told.votes = [id \in 1 .. Len(entries) |->
                        IF entries[id].kind = "handbook" THEN entries[id].helpfulCount ELSE 0]
    BY <1>1, <2>1
  <2>3. \A id \in 1 .. Len(entries) :
          (IF entries[id].kind = "handbook" THEN entries[id].helpfulCount ELSE 0) \in Nat
    BY <1>2, <2>1 DEF IsEntry
  <2>4. told.votes \in [1 .. Len(entries) -> Nat]
    BY <2>2, <2>3
  <2> QED BY <2>1, <2>4, IsASeq, LenProperties
<1>5. LinksLead /\ WithdrawalsAreTold
  BY <1>1 DEF LinksLead, WithdrawalsAreTold, IsAt
<1>6. VotesAreCounted
  BY <1>1, <1>4 DEF VotesAreCounted
<1>7. JobsInv
  BY <1>1 DEF JobsInv
<1> QED BY <1>1, <1>3, <1>5, <1>6, <1>7 DEF SiteInv, ToldInv

\* A job is of a kind its operation is for.
LEMMA JobsAreProper ==
  ASSUME NEW job \in Creations \cup Changes
  PROVE  /\ job.kind \in Kinds
         /\ job.op \in {"create", "publish", "expire", "update", "vote"}
         /\ job.op \in {"publish", "expire"} => job.kind = "news"
         /\ job.op \in {"update", "vote"} => job.kind = "handbook"
<1>1. CASE job \in Creations
  BY <1>1, CampusAssumption DEF Creations
<1>2. CASE job \in Changes
  BY <1>2 DEF Changes, Kinds
<1> QED BY <1>1, <1>2

LEMMA BeginSite ==
  ASSUME PoolInv, SiteInv, NEW r \in Requests, NEW job \in Creations \cup Changes, Begin(r, job)
  PROVE  SiteInv'
<1>1. /\ UNCHANGED <<now, entries, told>>
      /\ work' = [work EXCEPT ![r] = [job |-> job, seen |-> NULL, attempt |-> 0, since |-> now]]
  BY DEF Begin
<1>2. ASSUME NEW q \in Requests, work'[q] # NULL PROVE IsJob(q)'
  <2>1. CASE q = r
    <3>1. work'[q].job = job /\ work'[q].since = now
      BY <1>1, <2>1 DEF PoolInv
    <3> QED BY <1>1, <3>1, JobsAreProper DEF IsJob, SiteInv, TablesInv
  <2>2. CASE q # r
    <3>1. work'[q] = work[q]
      BY <1>1, <2>2 DEF PoolInv
    <3> QED BY <1>1, <1>2, <3>1 DEF SiteInv, JobsInv, IsJob
  <2> QED BY <2>1, <2>2
<1> QED BY <1>1, <1>2, TablesStand DEF SiteInv, JobsInv

\* What is added to the end of a sequence changes nothing before it.
LEMMA Appended ==
  ASSUME NEW S, NEW s \in Seq(S), NEW x
  PROVE  /\ Append(s, x) \in Seq(S \cup {x})
         /\ DOMAIN s = 1 .. Len(s) /\ Len(s) \in Nat
         /\ DOMAIN Append(s, x) = 1 .. Len(s) + 1 /\ Len(Append(s, x)) = Len(s) + 1
         /\ \A i \in 1 .. Len(s) : Append(s, x)[i] = s[i]
         /\ Append(s, x)[Len(s) + 1] = x
<1>1. s \in Seq(S \cup {x}) /\ x \in S \cup {x}
  OBVIOUS
<1> HIDE DEF Append
<1> QED BY <1>1, AppendProperties, LenProperties

\* A new entry has the address that was found free, and its own link leads to it
\* (slug.ts:41-56, handbook/service.ts:63-90).
LEMMA InsertSite ==
  ASSUME PoolInv, SiteInv, NEW r \in Requests, work[r] # NULL, work[r].job.op = "create",
         NEW slug, Insert(r, slug)
  PROVE  SiteInv'
<1> DEFINE job  == work[r].job
           new  == NewEntry(job, slug, work[r].since)
           n    == Len(entries) + 1
           link == [kind |-> job.kind, institution |-> job.institution, slug |-> slug, id |-> n]
<1>0. job.kind \in Kinds /\ work[r].since \in Nat /\ work[r].since <= now /\ now \in Nat
  BY DEF SiteInv, JobsInv, IsJob, TablesInv
<1>1. /\ ~Taken(job, slug)
      /\ entries' = Append(entries, new)
      /\ told' = [told EXCEPT !.links = @ \cup {link}, !.votes = Append(@, 0)]
      /\ work' = [work EXCEPT ![r] = NULL]
      /\ now' = now
  BY DEF Insert, End
<1>2. new.kind = job.kind /\ new.institution = job.institution /\ new.slug = slug
  BY <1>0 DEF NewEntry, Kinds
<1>3. IsEntry(new, now) /\ (new.kind = "handbook" => new.helpfulCount = 0)
      /\ (new.kind = "news" => new.expiresAt = NULL)
  BY <1>0 DEF NewEntry, Kinds, IsEntry
<1> HIDE DEF new
<1>4. PICK S : entries \in Seq(S)
  BY DEF SiteInv, TablesInv
<1>5. /\ entries' \in Seq(S \cup {new})
      /\ DOMAIN entries = 1 .. Len(entries) /\ Len(entries) \in Nat
      /\ DOMAIN entries' = 1 .. n /\ Len(entries') = n
      /\ \A i \in DOMAIN entries : entries'[i] = entries[i]
      /\ entries'[n] = new
  BY <1>1, <1>4, Appended
<1>6. /\ DOMAIN entries' = DOMAIN entries \cup {n} /\ n \notin DOMAIN entries
  BY <1>5
<1>7. \A i \in DOMAIN entries : ~IsAt(entries[i], job.kind, job.institution, slug)
  BY <1>1 DEF Taken, OfKind, IsAt
<1>8. TablesInv'
  <2>1. \A i \in DOMAIN entries' : IsEntry(entries'[i], now)
    BY <1>3, <1>5, <1>6 DEF SiteInv, TablesInv
  <2>2. HasUniqueSlugs(entries')
    <3> SUFFICES ASSUME NEW i \in DOMAIN entries', NEW j \in DOMAIN entries',
                        IsAt(entries'[i], entries'[j].kind, entries'[j].institution, entries'[j].slug)
                 PROVE  i = j
      BY DEF HasUniqueSlugs
    <3>1. CASE i \in DOMAIN entries /\ j \in DOMAIN entries
      BY <1>5, <3>1 DEF SiteInv, TablesInv, HasUniqueSlugs
    <3>2. CASE i \in DOMAIN entries /\ j = n
      BY <1>2, <1>5, <1>7, <3>2
    <3>3. CASE i = n /\ j \in DOMAIN entries
      BY <1>2, <1>5, <1>7, <3>3 DEF IsAt
    <3> QED BY <1>6, <3>1, <3>2, <3>3
  <2> QED BY <1>1, <1>5, <2>1, <2>2, <1>0 DEF TablesInv
<1>9. /\ told'.links = told.links \cup {link} /\ told'.votes = Append(told.votes, 0)
      /\ told'.withdrawn = told.withdrawn
      /\ told' = [links |-> told'.links, votes |-> told'.votes, withdrawn |-> told'.withdrawn]
  BY <1>1 DEF SiteInv, ToldInv
<1>10. LinksLead'
  <2>1. IsAt(entries'[link.id], link.kind, link.institution, link.slug)
    BY <1>2, <1>5 DEF IsAt
  <2> QED BY <1>5, <1>6, <1>9, <2>1 DEF SiteInv, ToldInv, LinksLead
<1>11. VotesAreCounted'
  <2>0. told.votes \in Seq(Nat) /\ Len(told.votes) = Len(entries)
    BY DEF SiteInv, ToldInv, VotesAreCounted
  <2>1. /\ told'.votes \in Seq(Nat) /\ Len(told'.votes) = n
        /\ \A i \in DOMAIN entries : told'.votes[i] = told.votes[i]
        /\ told'.votes[n] = 0
    <3> DEFINE votes == told.votes
    <3>1. votes \in Seq(Nat) /\ Len(votes) = Len(entries) /\ told'.votes = Append(votes, 0)
      BY <1>9, <2>0
    <3> HIDE DEF votes
    <3>2. /\ Append(votes, 0) \in Seq(Nat) /\ Len(Append(votes, 0)) = Len(votes) + 1
          /\ \A i \in 1 .. Len(votes) : Append(votes, 0)[i] = votes[i]
          /\ Append(votes, 0)[Len(votes) + 1] = 0
      BY <3>1, AppendProperties, 0 \in Nat
    <3> QED BY <1>5, <3>1, <3>2 DEF votes
  <2> QED BY <1>3, <1>5, <1>6, <2>1 DEF SiteInv, ToldInv, VotesAreCounted
<1>12. WithdrawalsAreTold'
  BY <1>3, <1>5, <1>6, <1>9 DEF SiteInv, ToldInv, WithdrawalsAreTold
<1>13. JobsInv'
  BY <1>0, <1>1, OneEnds, JobsStand DEF SiteInv
<1> QED BY <1>8, <1>9, <1>10, <1>11, <1>12, <1>13 DEF SiteInv, ToldInv

\* What an operation makes of an entry of its kind: the address stays, a vote adds one,
\* an expiry expires, and nothing else touches counts and expiries.
LEMMA WrittenEntry ==
  ASSUME NEW w, NEW e, now \in Nat, NULL \notin Nat, IsEntry(e, now), e.kind = w.job.kind,
         w.job.op \in {"publish", "expire", "update", "vote"},
         w.job.op \in {"publish", "expire"} => w.job.kind = "news",
         w.job.op \in {"update", "vote"} => w.job.kind = "handbook"
  PROVE  /\ IsEntry(Written(w, e), now)
         /\ IsAt(Written(w, e), e.kind, e.institution, e.slug)
         /\ e.kind = "news" =>
              (Written(w, e).expiresAt # NULL <=> e.expiresAt # NULL \/ w.job.op = "expire")
         /\ e.kind = "handbook" =>
              Written(w, e).helpfulCount = e.helpfulCount + (IF w.job.op = "vote" THEN 1 ELSE 0)
<1>1. CASE w.job.op = "publish"
  <2>1. /\ Written(w, e) = [e EXCEPT !.publishedAt = now]
        /\ e.kind = "news"
    BY <1>1 DEF Written, Published
  <2> QED BY <1>1, <2>1 DEF IsEntry, IsAt
<1>2. CASE w.job.op = "expire"
  <2>1. /\ Written(w, e) = [e EXCEPT !.expiresAt = now]
        /\ e.kind = "news"
    BY <1>2 DEF Written, Expired
  <2> QED BY <1>2, <2>1 DEF IsEntry, IsAt
<1>3. CASE w.job.op = "update"
  <2>1. /\ Written(w, e) = [e EXCEPT !.isPublished = w.job.shown]
        /\ e.kind = "handbook"
    BY <1>3 DEF Written, Edited
  <2> QED BY <1>3, <2>1 DEF IsEntry, IsAt
<1>4. CASE w.job.op = "vote"
  <2>1. /\ Written(w, e) = [e EXCEPT !.helpfulCount = @ + 1]
        /\ e.kind = "handbook"
    BY <1>4 DEF Written, Voted
  <2> QED BY <1>4, <2>1 DEF IsEntry, IsAt
<1> QED BY <1>1, <1>2, <1>3, <1>4

\* A statement changes the rows of its own tenant and kind that it names, and what it
\* does to them is told (news/service.ts:82-112, handbook/service.ts:95-164).
LEMMA WriteSite ==
  ASSUME PoolInv, SiteInv, NEW r \in Requests, work[r] # NULL, Write(r)
  PROVE  SiteInv'
<1> DEFINE w == work[r]
           own == Own(r)
<1>0. now \in Nat /\ NULL \notin Nat
  BY CampusAssumption DEF SiteInv, TablesInv
<1>1. /\ entries' = [id \in DOMAIN entries |->
                       IF id \in own THEN Written(w, entries[id]) ELSE entries[id]]
      /\ told' = [told EXCEPT
           !.votes = [id \in DOMAIN @ |-> IF w.job.op = "vote" /\ id \in own THEN @[id] + 1 ELSE @[id]],
           !.withdrawn = IF w.job.op = "expire" THEN @ \cup own ELSE @]
      /\ work' = [work EXCEPT ![r] = NULL]
      /\ now' = now
      /\ w.job.op # "create"
  BY DEF Write, End
<1>2. IsJob(r) /\ w.job.op \in {"publish", "expire", "update", "vote"}
  BY <1>1 DEF SiteInv, JobsInv, IsJob
<1>3. \A id \in own : id \in DOMAIN entries /\ entries[id].kind = w.job.kind /\ id = w.job.id
  BY DEF Own, OfKind
<1>4. /\ DOMAIN entries' = DOMAIN entries
      /\ \A id \in own : entries'[id] = Written(w, entries[id])
      /\ \A id \in DOMAIN entries \ own : entries'[id] = entries[id]
  BY <1>1, <1>3
<1>5. ASSUME NEW id \in own
      PROVE  /\ IsEntry(entries'[id], now)
             /\ IsAt(entries'[id], entries[id].kind, entries[id].institution, entries[id].slug)
             /\ entries[id].kind = "news" =>
                  (entries'[id].expiresAt # NULL <=>
                     entries[id].expiresAt # NULL \/ w.job.op = "expire")
             /\ entries[id].kind = "handbook" =>
                  entries'[id].helpfulCount =
                    entries[id].helpfulCount + (IF w.job.op = "vote" THEN 1 ELSE 0)
  <2>1. IsEntry(entries[id], now)
    BY <1>3 DEF SiteInv, TablesInv
  <2>2. /\ w.job.op \in {"publish", "expire"} => w.job.kind = "news"
        /\ w.job.op \in {"update", "vote"} => w.job.kind = "handbook"
    BY <1>2 DEF IsJob
  <2> HIDE DEF w, own
  <2> QED BY <1>0, <1>2, <1>3, <1>4, <2>1, <2>2, WrittenEntry
<1>6. \A id \in DOMAIN entries :
        IsAt(entries'[id], entries[id].kind, entries[id].institution, entries[id].slug)
  BY <1>4, <1>5 DEF IsAt
<1>7. PICK S : entries \in Seq(S)
  BY DEF SiteInv, TablesInv
<1>8. DOMAIN entries = 1 .. Len(entries) /\ Len(entries) \in Nat
  BY <1>7, LenProperties
<1>9. /\ entries' \in Seq({entries'[id] : id \in DOMAIN entries})
      /\ Len(entries') = Len(entries)
  <2> DEFINE T == {entries'[id] : id \in DOMAIN entries}
             rows == [id \in DOMAIN entries |->
                       IF id \in own THEN Written(w, entries[id]) ELSE entries[id]]
  <2>1. rows = entries' /\ rows \in [1 .. Len(entries) -> T]
    BY <1>1, <1>8
  <2> HIDE DEF rows, T
  <2>2. rows \in Seq(T)
    BY <1>8, <2>1, IsASeq
  <2>3. Len(rows) = Len(entries)
    BY <1>8, <2>1, <2>2, LenProperties
  <2> QED BY <2>1, <2>2, <2>3 DEF T
<1>10. TablesInv'
  <2>1. \A id \in DOMAIN entries' : IsEntry(entries'[id], now)
    BY <1>4, <1>5 DEF SiteInv, TablesInv
  <2>2. HasUniqueSlugs(entries')
    BY <1>4, <1>6 DEF SiteInv, TablesInv, HasUniqueSlugs, IsAt
  <2> QED BY <1>0, <1>1, <1>9, <2>1, <2>2 DEF TablesInv
<1>11. /\ told'.links = told.links
       /\ told'.votes = [id \in DOMAIN told.votes |->
            IF w.job.op = "vote" /\ id \in own THEN told.votes[id] + 1 ELSE told.votes[id]]
       /\ told'.withdrawn = IF w.job.op = "expire" THEN told.withdrawn \cup own ELSE told.withdrawn
       /\ told' = [links |-> told'.links, votes |-> told'.votes, withdrawn |-> told'.withdrawn]
  BY <1>1 DEF SiteInv, ToldInv
<1>12. LinksLead'
  BY <1>4, <1>6, <1>11 DEF SiteInv, ToldInv, LinksLead, IsAt
<1>13. VotesAreCounted'
  <2>0. /\ told.votes \in Seq(Nat) /\ Len(told.votes) = Len(entries)
        /\ DOMAIN told.votes = DOMAIN entries
    BY <1>8, LenProperties DEF SiteInv, ToldInv, VotesAreCounted
  <2>1. \A id \in DOMAIN entries : told.votes[id] \in Nat
    BY <2>0, <1>8, ElementOfSeq
  <2> DEFINE votes == [id \in DOMAIN told.votes |->
            IF w.job.op = "vote" /\ id \in own THEN told.votes[id] + 1 ELSE told.votes[id]]
  <2>2. votes \in [1 .. Len(entries) -> Nat] /\ told'.votes = votes
    BY <1>8, <1>11, <2>0, <2>1
  <2>3. votes \in Seq(Nat) /\ Len(votes) = Len(entries)
    <3> HIDE DEF votes
    <3>1. votes \in Seq(Nat)
      BY <1>8, <2>2, IsASeq
    <3> QED BY <1>8, <2>2, <3>1, LenProperties
  <2>4. ASSUME NEW id \in DOMAIN entries, entries'[id].kind = "handbook"
        PROVE  entries'[id].helpfulCount = votes[id]
    <3>1. entries[id].kind = "handbook" /\ entries[id].helpfulCount = told.votes[id]
      BY <1>6, <2>4 DEF SiteInv, ToldInv, VotesAreCounted, IsAt
    <3>2. CASE id \in own
      BY <1>5, <2>0, <2>1, <3>1, <3>2
    <3>3. CASE id \notin own
      BY <1>4, <2>0, <3>1, <3>3
    <3> QED BY <3>2, <3>3
  <2> QED BY <1>4, <1>9, <2>2, <2>3, <2>4 DEF VotesAreCounted
<1>14. WithdrawalsAreTold'
  <2>1. told.withdrawn \subseteq DOMAIN entries
        /\ \A id \in DOMAIN entries :
             id \in told.withdrawn <=> entries[id].kind = "news" /\ entries[id].expiresAt # NULL
    BY DEF SiteInv, ToldInv, WithdrawalsAreTold
  <2>2. told'.withdrawn \subseteq DOMAIN entries'
    BY <1>3, <1>4, <1>11, <2>1
  <2>3. ASSUME NEW id \in DOMAIN entries
        PROVE  id \in told'.withdrawn <=> entries'[id].kind = "news" /\ entries'[id].expiresAt # NULL
    <3>1. entries'[id].kind = entries[id].kind
      BY <1>6 DEF IsAt
    <3>2. CASE id \in own
      <4>1. w.job.op = "expire" => entries[id].kind = "news"
        BY <1>2, <1>3, <3>2 DEF IsJob
      <4> QED BY <1>5, <1>11, <2>1, <3>1, <3>2, <4>1
    <3>3. CASE id \notin own
      BY <1>4, <1>11, <2>1, <3>3
    <3> QED BY <3>2, <3>3
  <2> QED BY <1>4, <2>2, <2>3 DEF WithdrawalsAreTold
<1>15. JobsInv'
  BY <1>0, <1>1, OneEnds, JobsStand DEF SiteInv
<1> QED BY <1>10, <1>11, <1>12, <1>13, <1>14, <1>15 DEF SiteInv, ToldInv

LEMMA NextSite ==
  ASSUME PoolInv, SiteInv, [Next]_vars PROVE SiteInv'
<1>1. ASSUME NEW r \in Requests, NEW job \in Creations \cup Changes, Begin(r, job)
      PROVE  SiteInv'
  BY <1>1, BeginSite
<1>2. ASSUME NEW r \in Requests, Fail(r) PROVE SiteInv'
  BY <1>2, OneEnds, StaySite DEF Fail
<1>3. ASSUME NEW r \in Requests, Proceed(r) PROVE SiteInv'
  <2>0. work[r] # NULL /\ IsTenants(r)
    BY <1>3 DEF Proceed, PoolInv
  <2>1. CASE Attempt(r)
    <3>1. PICK slug \in Candidates(work[r]) : Insert(r, slug) \/ Collide(r, slug)
      BY <2>1 DEF Attempt
    <3>2. CASE Insert(r, slug)
      BY <2>0, <2>1, <3>2, InsertSite DEF Attempt
    <3>3. CASE Collide(r, slug) /\ ~Fail(r)
      <4>1. /\ UNCHANGED <<now, entries, told>>
            /\ work' = [work EXCEPT ![r].attempt = NextAttempt(@)]
        BY <3>3 DEF Collide
      <4>2. \A q \in Requests : work'[q] # NULL =>
              work[q] # NULL /\ work'[q].job = work[q].job /\ work'[q].since = work[q].since
        BY <2>0, <4>1 DEF PoolInv, IsTenants
      <4> QED BY <4>1, <4>2, StaySite
    <3> QED BY <1>2, <3>1, <3>2, <3>3
  <2>2. CASE Load(r)
    <3>1. CASE \E id \in Own(r) : ~Refused(work[r].job, entries[id])
      <4>1. /\ UNCHANGED <<now, entries, told>>
            /\ work' = [work EXCEPT ![r].seen = entries[work[r].job.id]]
        BY <2>2, <3>1 DEF Load
      <4>2. \A q \in Requests : work'[q] # NULL =>
              work[q] # NULL /\ work'[q].job = work[q].job /\ work'[q].since = work[q].since
        BY <2>0, <4>1 DEF PoolInv, IsTenants
      <4> QED BY <4>1, <4>2, StaySite
    <3>2. CASE ~\E id \in Own(r) : ~Refused(work[r].job, entries[id])
      BY <2>2, <3>2, OneEnds, StaySite DEF Load, End
    <3> QED BY <3>1, <3>2
  <2>3. CASE Write(r)
    BY <2>0, <2>3, WriteSite
  <2> QED BY <1>3, <2>1, <2>2, <2>3 DEF Proceed
<1>4. CASE Tick
  <2>1. /\ now \in Nat /\ now' \in Nat /\ now <= now'
        /\ UNCHANGED <<entries, work, told>>
    BY <1>4 DEF Tick, SiteInv, TablesInv
  <2>2. TablesInv'
    BY <2>1, EntriesAge DEF SiteInv, TablesInv
  <2>3. ToldInv'
    BY <2>1 DEF SiteInv, ToldInv, LinksLead, VotesAreCounted, WithdrawalsAreTold
  <2>4. JobsInv'
    BY <2>1, JobsStand DEF SiteInv
  <2> QED BY <2>2, <2>3, <2>4 DEF SiteInv
<1>5. CASE UNCHANGED vars
  BY <1>5, StaySite DEF vars
<1> QED BY <1>1, <1>2, <1>3, <1>4, <1>5 DEF Next, Dies

\* The tables and what was told of them agree in every state.
LEMMA SiteHolds == Spec => []SiteInv
<1>1. PoolInv /\ SiteInv /\ [Next]_vars => (PoolInv /\ SiteInv)'
  BY NextPool, NextSite
<1>2. Init => PoolInv /\ SiteInv
  BY InitPool, InitSite
<1> QED BY <1>1, <1>2, PTL DEF Spec

-----------------------------------------------------------------------------

\* However commands interleave and die, a link leads to its entry and to it alone, and
\* a count is the number of votes taken, for any titles, slugs and suffixes, however
\* many institutions write (slug.ts:41-56, handbook/service.ts:104-164).
THEOREM LinksStand == Spec => []LinksAndVotesStand
<1>1. SiteInv => LinksAndVotesStand
  <2> SUFFICES ASSUME SiteInv PROVE LinksAndVotesStand
    OBVIOUS
  <2>1. ASSUME NEW l \in told.links
        PROVE  {id \in OfKind(l.kind, l.institution) : entries[id].slug = l.slug} = {l.id}
    <3>1. l.id \in DOMAIN entries /\ IsAt(entries[l.id], l.kind, l.institution, l.slug)
      BY DEF SiteInv, ToldInv, LinksLead
    <3>2. \A id \in DOMAIN entries : IsAt(entries[id], l.kind, l.institution, l.slug) => id = l.id
      BY <3>1 DEF SiteInv, TablesInv, HasUniqueSlugs, IsAt
    <3> QED BY <3>1, <3>2 DEF OfKind, IsAt
  <2> QED BY <2>1 DEF SiteInv, ToldInv, VotesAreCounted, LinksAndVotesStand
<1> QED BY <1>1, SiteHolds, PTL

\* Lists and pages agree for every viewer, and withdrawn news stays withdrawn, also when it
\* was withdrawn as a draft or a publication was under way (news/service.ts:82-187,
\* handbook/service.ts:167-206).
THEOREM OneStory == Spec => []SiteIsOneStory
<1>1. SiteInv => SiteIsOneStory
  <2> SUFFICES ASSUME SiteInv, NEW id \in DOMAIN entries
               PROVE
                 LET e == entries[id]
                     Page(actor) == id \in GetBySlug(e.kind, e.institution, e.slug, actor)
                     listed == id \in ListPublic(e.kind, e.institution)
                 IN /\ listed <=> Page(NoActor)
                    /\ \A i \in Institutions :
                         Page([isStaff |-> TRUE, institution |-> i]) <=> listed \/ i = e.institution
                    /\ e.kind = "news" =>
                         LET draft == id \in listDraftAnnouncements(e.institution)
                             withdrawn == id \in told.withdrawn
                         IN IF listed THEN ~draft /\ ~withdrawn ELSE draft \/ withdrawn
    BY DEF SiteIsOneStory
  <2> DEFINE e == entries[id]
  <2>1. /\ id \in ListPublic(e.kind, e.institution) <=> IsShown(e)
        /\ \A actor : id \in GetBySlug(e.kind, e.institution, e.slug, actor) <=> PageShows(e, actor)
    BY DEF ListPublic, OfKind, GetBySlug
  <2>2. PageShows(e, NoActor) <=> IsShown(e)
    BY DEF PageShows, NoActor
  <2>3. \A i \in Institutions :
          PageShows(e, [isStaff |-> TRUE, institution |-> i]) <=> IsShown(e) \/ i = e.institution
    BY DEF PageShows
  <2>4. e.kind = "news" =>
          /\ id \in listDraftAnnouncements(e.institution) <=> e.publishedAt = NULL
          /\ id \in told.withdrawn <=> e.expiresAt # NULL
          /\ IsShown(e) <=> e.publishedAt # NULL /\ e.expiresAt = NULL
    <3>1. IsEntry(e, now) /\ now \in Nat
      BY DEF SiteInv, TablesInv
    <3> QED
      BY <3>1 DEF SiteInv, ToldInv, WithdrawalsAreTold, IsEntry, IsShown, IsLive,
                  listDraftAnnouncements, OfKind
  <2> QED BY <2>1, <2>2, <2>3, <2>4
<1> QED BY <1>1, SiteHolds, PTL

=============================================================================
