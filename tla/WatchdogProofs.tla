--------------------------- MODULE WatchdogProofs ---------------------------
(***************************************************************************)
(* The watchdog, for any number of runners and cases: mails and flags      *)
(* commit together, a case is flagged once by each runner at most, and a    *)
(* closed case only by a sweep that read it before it was closed.          *)
(***************************************************************************)
EXTENDS Watchdog, FiniteSetTheorems, TLAPS

-----------------------------------------------------------------------------
(* The mails of a set of flags. *)

\* The mails of two sets of flags are those of the one and those of the other.
LEMMA MailsForUnion ==
  ASSUME NEW A, NEW B
  PROVE  MailsFor(A \cup B) = MailsFor(A) \cup MailsFor(B)
BY DEF MailsFor

LEMMA MailsForNone == MailsFor({}) = {}
BY DEF MailsFor

LEMMA MailsForOne ==
  ASSUME NEW e
  PROVE  MailsFor({e}) = {[recipient |-> u, grievanceId |-> e.grievanceId, day |-> e.day] :
                             u \in Recipients(e.grievanceId)}
BY DEF MailsFor

\* A mail goes to a user, about a case.
LEMMA MailsAreMail ==
  ASSUME NEW E \in SUBSET Event
  PROVE  MailsFor(E) \subseteq Mail
<1>1. ASSUME NEW m \in MailsFor(E) PROVE m \in Mail
  <2>1. PICK e \in E, u \in Users :
          m = [recipient |-> u, grievanceId |-> e.grievanceId, day |-> e.day]
    BY DEF MailsFor, Recipients
  <2>2. e \in Event
    OBVIOUS
  <2>3. e.grievanceId \in Cases /\ e.day \in Nat
    BY <2>2 DEF Event
  <2>4. QED
    BY <2>1, <2>3 DEF Mail
<1>2. QED
  BY <1>1

-----------------------------------------------------------------------------
(* A sweep. *)

LEMMA InitSweep == Init => SweepInv
<1> SUFFICES ASSUME Init PROVE SweepInv
  OBVIOUS
<1>1. IsFiniteSet(events)
  <2> DEFINE first == [g \in Cases |-> [grievanceId |-> g, seq |-> 1, type |-> "human", day |-> 0]]
  <2>1. first \in Surjection(Cases, events)
    BY DEF Init, Surjection
  <2>2. QED
    BY <2>1, WatchdogAssumption, FS_Surjection
<1>2. TypeOK
  BY <1>1, WatchdogAssumption DEF Init, TypeOK, Event, Mail
<1>3. ASSUME NEW r \in Runners PROVE RunnerInv(r)
  BY MailsForNone DEF Init, RunnerInv
<1>4. {e \in events : e.type = "sla_breached"} = {} /\ outbox = {}
  BY DEF Init
<1>5. FlagsAndMailsAgree
  BY <1>4, MailsForNone DEF FlagsAndMailsAgree
<1>6. QED
  BY <1>2, <1>3, <1>5 DEF SweepInv

\* What is left alone stays in order.
LEMMA RunnerRests ==
  ASSUME NEW s \in Runners, RunnerInv(s),
         pc'[s] = pc[s], todo'[s] = todo[s], current'[s] = current[s], now'[s] = now[s],
         newEvents'[s] = newEvents[s], newMail'[s] = newMail[s]
  PROVE  RunnerInv(s)'
BY DEF RunnerInv

\* A transaction that ends leaves a runner with nothing.
LEMMA RunnerReleased ==
  ASSUME TypeOK, NEW r \in Runners, Release(r)
  PROVE  /\ pc'[r] = "idle" /\ todo'[r] = {} /\ newEvents'[r] = {} /\ newMail'[r] = {} /\ now'[r] = 0
         /\ RunnerInv(r)'
         /\ \A s \in Runners : s # r =>
              /\ pc'[s] = pc[s] /\ todo'[s] = todo[s] /\ current'[s] = current[s] /\ now'[s] = now[s]
              /\ newEvents'[s] = newEvents[s] /\ newMail'[s] = newMail[s]
         /\ (pc \in [Runners -> {"idle", "flags", "next", "read", "append"}])'
         /\ (now \in [Runners -> Nat] /\ tail \in [Runners -> Nat] /\ tries \in [Runners -> Nat])'
         /\ (todo \in [Runners -> SUBSET Cases] /\ current \in [Runners -> Cases \cup {NULL}])'
         /\ (newEvents \in [Runners -> SUBSET Event] /\ newMail \in [Runners -> SUBSET Mail])'
<1>1. pc'[r] = "idle" /\ todo'[r] = {} /\ newEvents'[r] = {} /\ newMail'[r] = {} /\ now'[r] = 0
  BY DEF TypeOK, Release
<1>2. RunnerInv(r)'
  BY <1>1, MailsForNone DEF RunnerInv
<1>3. QED
  BY <1>1, <1>2 DEF TypeOK, Release

\* An event number is read from a finite trail.
LEMMA LengthIsNat == ASSUME TypeOK, NEW g PROVE Length(g) \in Nat /\ IsFiniteSet(EventsOf(g))
<1>1. EventsOf(g) \subseteq events /\ IsFiniteSet(events)
  BY DEF EventsOf, TypeOK
<1>2. QED
  BY <1>1, FS_Subset, FS_CardinalityType DEF Length

\* People never write a flag, so the mails stay those of the flags.
LEMMA PeopleSweep ==
  ASSUME SweepInv, NEW g \in Cases, Work(g) \/ Close(g)
  PROVE  SweepInv'
<1>1. PICK type \in {"human", "closed"} :
        /\ events' = events \cup {[grievanceId |-> g, seq |-> Length(g) + 1, type |-> type, day |-> today]}
        /\ UNCHANGED <<outbox, today, deaths, pc, now, todo, current, tail, tries, newEvents, newMail>>
        /\ open' \subseteq open
  BY DEF Work, Close, Record
<1> DEFINE new == [grievanceId |-> g, seq |-> Length(g) + 1, type |-> type, day |-> today]
<1>2. new \in Event /\ new.type = type
  BY LengthIsNat DEF SweepInv, TypeOK, Event
<1>3. events' = events \cup {new} /\ IsFiniteSet(events')
  BY <1>1, FS_AddElement DEF SweepInv, TypeOK
<1> HIDE DEF new
<1>4. TypeOK'
  BY <1>1, <1>2, <1>3 DEF SweepInv, TypeOK
<1>5. \A r \in Runners : RunnerInv(r)'
  BY <1>1, RunnerRests DEF SweepInv
<1>6. FlagsAndMailsAgree'
  <2>1. {e \in events' : e.type = "sla_breached"} = {e \in events : e.type = "sla_breached"}
    BY <1>2, <1>3
  <2>2. QED
    BY <1>1, <2>1 DEF SweepInv, FlagsAndMailsAgree
<1>7. QED
  BY <1>4, <1>5, <1>6 DEF SweepInv

\* The statements of a sweep up to its commit leave the trail and the outbox alone.
LEMMA RunnerSweep ==
  ASSUME SweepInv, NEW r \in Runners,
         BeginSweep(r) \/ ReadFlags(r) \/ NextCase(r) \/ ReadTail(r) \/ AppendFlag(r)
  PROVE  SweepInv'
<1>1. UNCHANGED <<db, today, deaths>>
  BY DEF BeginSweep, ReadFlags, NextCase, ReadTail, AppendFlag
<1>2. TypeOK /\ \A s \in Runners : RunnerInv(s)
  BY DEF SweepInv
<1>3. FlagsAndMailsAgree'
  BY <1>1 DEF SweepInv, FlagsAndMailsAgree, db
<1>4. \A s \in Runners : s # r => RunnerInv(s)'
  <2>1. ASSUME NEW s \in Runners, s # r
        PROVE /\ pc'[s] = pc[s] /\ todo'[s] = todo[s] /\ current'[s] = current[s] /\ now'[s] = now[s]
              /\ newEvents'[s] = newEvents[s] /\ newMail'[s] = newMail[s]
    BY <1>2, <2>1 DEF TypeOK, BeginSweep, ReadFlags, NextCase, ReadTail, AppendFlag
  <2>2. QED
    BY <1>2, <2>1, RunnerRests
<1>5. CASE BeginSweep(r)
  <2>1. TypeOK'
    BY <1>1, <1>2, <1>5 DEF TypeOK, BeginSweep, StillOpen, db
  <2>2. newEvents'[r] = {} /\ newMail'[r] = {} /\ pc'[r] = "flags"
    BY <1>2, <1>5, MailsForNone DEF BeginSweep, TypeOK, RunnerInv
  <2>3. RunnerInv(r)'
    BY <2>2, MailsForNone DEF RunnerInv
  <2>4. QED
    BY <1>3, <1>4, <2>1, <2>3 DEF SweepInv
<1>6. CASE ReadFlags(r)
  <2>1. TypeOK'
    BY <1>1, <1>2, <1>6 DEF TypeOK, ReadFlags, db
  <2>2. newEvents'[r] = {} /\ newMail'[r] = {} /\ pc'[r] = "next"
    BY <1>2, <1>6, MailsForNone DEF ReadFlags, TypeOK, RunnerInv
  <2>3. RunnerInv(r)'
    BY <2>2, MailsForNone DEF RunnerInv
  <2>4. QED
    BY <1>3, <1>4, <2>1, <2>3 DEF SweepInv
<1>7. CASE NextCase(r)
  <2>1. PICK g \in todo[r] : current' = [current EXCEPT ![r] = g]
    BY <1>7 DEF NextCase
  <2>2. g \in Cases /\ todo' = todo /\ newEvents' = newEvents /\ newMail' = newMail /\ now' = now
        /\ pc' = [pc EXCEPT ![r] = "read"] /\ tail' = tail /\ tries' = tries
    BY <1>2, <1>7, <2>1 DEF NextCase, TypeOK
  <2>3. TypeOK'
    BY <1>1, <1>2, <2>1, <2>2 DEF TypeOK, db
  <2>4. RunnerInv(r)'
    BY <1>2, <2>1, <2>2 DEF RunnerInv, TypeOK
  <2>5. QED
    BY <1>3, <1>4, <2>3, <2>4 DEF SweepInv
<1>8. CASE ReadTail(r)
  <2>1. TypeOK'
    BY <1>1, <1>2, <1>8, LengthIsNat DEF TypeOK, ReadTail, db
  <2>2. RunnerInv(r)'
    BY <1>2, <1>8 DEF RunnerInv, TypeOK, ReadTail
  <2>3. QED
    BY <1>3, <1>4, <2>1, <2>2 DEF SweepInv
<1>9. CASE AppendFlag(r)
  <2>1. current[r] \in todo[r] /\ current[r] \in Cases /\ now[r] \in Nat /\ tail[r] \in Nat
    BY <1>2, <1>9 DEF AppendFlag, RunnerInv, TypeOK
  <2>2. Flag(r) \in Event /\ Flag(r).type = "sla_breached" /\ Flag(r).day = now[r]
        /\ Flag(r).grievanceId = current[r]
    BY <2>1 DEF Flag, Event
  <2>3. Warnings(r) = MailsFor({Flag(r)})
    BY <2>2, MailsForOne DEF Warnings
  <2>4. Warnings(r) \subseteq Mail
    BY <2>2, <2>3, MailsAreMail
  <2>5. /\ newEvents' = [newEvents EXCEPT ![r] = @ \cup {Flag(r)}]
        /\ newMail' = [newMail EXCEPT ![r] = @ \cup Warnings(r)]
        /\ todo' = [todo EXCEPT ![r] = @ \ {current[r]}]
        /\ tries' = [tries EXCEPT ![r] = 0] /\ pc' = [pc EXCEPT ![r] = "next"]
        /\ now' = now /\ current' = current /\ tail' = tail
    BY <1>9 DEF AppendFlag
  <2>6. TypeOK'
    BY <1>1, <1>2, <2>2, <2>4, <2>5 DEF TypeOK, db
  <2>7. newMail'[r] = MailsFor(newEvents'[r])
    BY <1>2, <2>3, <2>5, MailsForUnion DEF RunnerInv, TypeOK
  <2>8. /\ newEvents'[r] = newEvents[r] \cup {Flag(r)} /\ todo'[r] = todo[r] \ {current[r]}
        /\ pc'[r] = "next" /\ now'[r] = now[r]
    BY <1>2, <2>5 DEF TypeOK
  <2>9. ASSUME NEW e \in newEvents'[r]
        PROVE  /\ e.type = "sla_breached" /\ e.day = now'[r]
               /\ e.grievanceId \notin todo'[r]
               /\ \A f \in newEvents'[r] : f.grievanceId = e.grievanceId => f = e
    BY <1>2, <2>1, <2>2, <2>8, <2>9 DEF RunnerInv
  <2>10. RunnerInv(r)'
    BY <2>7, <2>8, <2>9 DEF RunnerInv
  <2>11. QED
    BY <1>3, <1>4, <2>6, <2>10 DEF SweepInv
<1>10. QED
  BY <1>5, <1>6, <1>7, <1>8, <1>9

\* However a transaction ends without a commit, nothing of it remains.
LEMMA RollbackSweep ==
  ASSUME SweepInv, NEW r \in Runners, Release(r), UNCHANGED <<db, today>>, deaths' \in Nat
  PROVE  SweepInv'
<1>1. TypeOK /\ \A s \in Runners : RunnerInv(s)
  BY DEF SweepInv
<1>2. TypeOK'
  BY <1>1, RunnerReleased DEF TypeOK, db
<1>3. \A s \in Runners : RunnerInv(s)'
  BY <1>1, RunnerReleased, RunnerRests
<1>4. FlagsAndMailsAgree'
  BY DEF SweepInv, FlagsAndMailsAgree, db
<1>5. QED
  BY <1>2, <1>3, <1>4 DEF SweepInv

\* The commit publishes the flags of the sweep and their mails together.
LEMMA CommitSweepSweep ==
  ASSUME SweepInv, NEW r \in Runners, CommitSweep(r), IsFiniteSet(newEvents[r])
  PROVE  SweepInv'
<1>1. TypeOK /\ \A s \in Runners : RunnerInv(s)
  BY DEF SweepInv
<1>2. /\ Release(r) /\ UNCHANGED <<open, today, deaths>>
      /\ events' = events \cup newEvents[r] /\ outbox' = outbox \cup newMail[r]
  BY DEF CommitSweep
<1>3. IsFiniteSet(events')
  BY <1>1, <1>2, FS_Union DEF TypeOK
<1>4. newEvents[r] \subseteq Event /\ newMail[r] \subseteq Mail
  BY <1>1 DEF TypeOK
<1>5. TypeOK'
  BY <1>1, <1>2, <1>3, <1>4, RunnerReleased DEF TypeOK
<1>6. \A s \in Runners : RunnerInv(s)'
  BY <1>1, <1>2, RunnerReleased, RunnerRests
<1>7. FlagsAndMailsAgree'
  <2>1. {e \in events' : e.type = "sla_breached"} = {e \in events : e.type = "sla_breached"} \cup newEvents[r]
    BY <1>1, <1>2 DEF RunnerInv
  <2>2. newMail[r] = MailsFor(newEvents[r])
    BY <1>1 DEF RunnerInv
  <2>3. QED
    BY <1>2, <2>1, <2>2, MailsForUnion DEF SweepInv, FlagsAndMailsAgree
<1>8. QED
  BY <1>5, <1>6, <1>7 DEF SweepInv

\* A sweep writes a flag at most for each case.
LEMMA PendingIsFinite ==
  ASSUME SweepInv, NEW r \in Runners
  PROVE  IsFiniteSet(newEvents[r])
<1> DEFINE caseOf == [e \in newEvents[r] |-> e.grievanceId]
<1>1. newEvents[r] \subseteq Event /\ RunnerInv(r)
  BY DEF SweepInv, TypeOK
<1>2. \A e \in newEvents[r] : e.grievanceId \in Cases
  BY <1>1 DEF Event
<1>3. caseOf \in Injection(newEvents[r], Cases)
  BY <1>1, <1>2 DEF Injection, IsInjective, RunnerInv
<1>4. QED
  BY <1>3, WatchdogAssumption, FS_Injection

\* The actions, told apart the way the invariants see them: people append, a sweep
\* takes a statement of its own, it ends without a trace, or it commits.
LEMMA NextCases ==
  ASSUME Next, TypeOK
  PROVE  \/ Tick
         \/ \E g \in Cases : Work(g) \/ Close(g)
         \/ \E r \in Runners : BeginSweep(r) \/ ReadFlags(r) \/ NextCase(r) \/ ReadTail(r) \/ AppendFlag(r)
         \/ \E r \in Runners : Release(r) /\ UNCHANGED <<db, today>> /\ deaths' \in Nat
         \/ \E r \in Runners : /\ pc[r] = "append" /\ pc' = [pc EXCEPT ![r] = "read"] /\ tries' \in [Runners -> Nat]
                               /\ UNCHANGED <<db, today, deaths, now, todo, current, tail, newEvents, newMail>>
         \/ \E r \in Runners : CommitSweep(r)
<1>1. ASSUME NEW r \in Runners, RetryAppend(r)
      PROVE  \/ Release(r) /\ UNCHANGED <<db, today>> /\ deaths' \in Nat
             \/ /\ pc[r] = "append" /\ pc' = [pc EXCEPT ![r] = "read"] /\ tries' \in [Runners -> Nat]
                /\ UNCHANGED <<db, today, deaths, now, todo, current, tail, newEvents, newMail>>
  <2>1. pc[r] = "append" /\ deaths' = deaths
    BY <1>1 DEF RetryAppend
  <2>2. CASE tries[r] + 1 < MAX_EVENT_ATTEMPTS
    BY <1>1, <2>1, <2>2 DEF RetryAppend, TypeOK
  <2>3. CASE ~(tries[r] + 1 < MAX_EVENT_ATTEMPTS)
    BY <1>1, <2>1, <2>3 DEF RetryAppend, TypeOK, Rollback
  <2>4. QED
    BY <2>2, <2>3
<1>2. ASSUME NEW r \in Runners, BreakDeadlock(r) \/ Die(r)
      PROVE  Release(r) /\ UNCHANGED <<db, today>> /\ deaths' \in Nat
  BY <1>2 DEF BreakDeadlock, Die, Rollback, TypeOK
<1>3. QED
  BY <1>1, <1>2, Zenon DEF Next, Sweep

LEMMA NextSweep == ASSUME SweepInv, Next PROVE SweepInv'
<1>1. TypeOK /\ \A s \in Runners : RunnerInv(s)
  BY DEF SweepInv
<1>2. CASE Tick
  <2>1. TypeOK'
    BY <1>1, <1>2 DEF Tick, TypeOK, db
  <2>2. \A s \in Runners : RunnerInv(s)'
    BY <1>1, <1>2, RunnerRests DEF Tick
  <2>3. QED
    BY <1>2, <2>1, <2>2 DEF Tick, SweepInv, FlagsAndMailsAgree, db
<1>3. ASSUME NEW r \in Runners, pc[r] = "append", pc' = [pc EXCEPT ![r] = "read"], tries' \in [Runners -> Nat],
             UNCHANGED <<db, today, deaths, now, todo, current, tail, newEvents, newMail>>
      PROVE  SweepInv'
  <2>1. TypeOK'
    BY <1>1, <1>3 DEF TypeOK, db
  <2>2. \A s \in Runners : s # r => RunnerInv(s)'
    BY <1>1, <1>3, RunnerRests DEF TypeOK
  <2>3. RunnerInv(r)'
    BY <1>1, <1>3 DEF TypeOK, RunnerInv
  <2>4. QED
    BY <1>3, <2>1, <2>2, <2>3 DEF SweepInv, FlagsAndMailsAgree, db
<1>4. QED
  BY <1>1, <1>2, <1>3, NextCases, PeopleSweep, RunnerSweep, RollbackSweep, CommitSweepSweep, PendingIsFinite

LEMMA StepSweep == ASSUME SweepInv, [Next]_vars PROVE SweepInv'
<1>1. CASE UNCHANGED vars
  <2>1. TypeOK'
    BY <1>1 DEF vars, db, SweepInv, TypeOK
  <2>2. \A s \in Runners : RunnerInv(s)'
    BY <1>1, RunnerRests DEF vars, SweepInv
  <2>3. QED
    BY <1>1, <2>1, <2>2 DEF SweepInv, FlagsAndMailsAgree, vars, db
<1>2. QED
  BY <1>1, NextSweep

\* Flags and the mails about them commit together: nobody is told of a breach that is
\* not in the trail, and nobody whom a breach concerns is left out.
THEOREM FlagsAreTold == Spec => []FlagsAndMailsAgree
<1>1. SweepInv => FlagsAndMailsAgree
  BY DEF SweepInv
<1>2. QED
  BY <1>1, InitSweep, StepSweep, PTL DEF Spec

-----------------------------------------------------------------------------
(* How many flags a case can have. *)

FlagInv == SweepInv /\ CountInv /\ ClosedInv

LEMMA FlagsAreFinite ==
  ASSUME TypeOK, NEW g
  PROVE  /\ IsFiniteSet(Flags(g)) /\ Cardinality(Flags(g)) \in Nat
         /\ IsFiniteSet(MayFlag(g)) /\ Cardinality(MayFlag(g)) \in Nat
         /\ Cardinality(MayFlag(g)) <= Cardinality(Runners) /\ Cardinality(Runners) \in Nat
<1>1. Flags(g) \subseteq events /\ IsFiniteSet(events)
  BY DEF Flags, EventsOf, TypeOK
<1>2. MayFlag(g) \subseteq Runners /\ IsFiniteSet(Runners)
  BY WatchdogAssumption DEF MayFlag
<1>3. QED
  BY <1>1, <1>2, FS_Subset, FS_CardinalityType

\* A step that commits no flag and lets no sweep join those that may flag a flagged case
\* keeps the count.
LEMMA CountRests ==
  ASSUME TypeOK, TypeOK', CountInv,
         \A g \in Cases : Flags(g)' = Flags(g) /\ (Flags(g) # {} => MayFlag(g)' \subseteq MayFlag(g))
  PROVE  CountInv'
<1> SUFFICES ASSUME NEW g \in Cases, Flags(g)' # {}
             PROVE  Cardinality(Flags(g)') + Cardinality(MayFlag(g)') <= Cardinality(Runners)
  BY DEF CountInv
<1>1. Flags(g)' = Flags(g) /\ MayFlag(g)' \in SUBSET MayFlag(g)
  OBVIOUS
<1>2. Cardinality(MayFlag(g)') <= Cardinality(MayFlag(g))
  BY <1>1, FlagsAreFinite, FS_Subset
<1>3. /\ Cardinality(Flags(g)) \in Nat /\ Cardinality(MayFlag(g)) \in Nat /\ Cardinality(Runners) \in Nat
      /\ Cardinality(MayFlag(g)') \in Nat
  <2>1. IsFiniteSet(MayFlag(g)')
    BY <1>1, FlagsAreFinite, FS_Subset
  <2>2. QED
    BY <2>1, FlagsAreFinite, FS_CardinalityType
<1>4. Cardinality(Flags(g)) + Cardinality(MayFlag(g)) <= Cardinality(Runners)
  BY <1>1 DEF CountInv
<1>5. QED
  BY <1>1, <1>2, <1>3, <1>4

\* A commit turns a sweep that may flag g into a flag of g.
LEMMA CommitCounts ==
  ASSUME SweepInv, CountInv, NEW r \in Runners, CommitSweep(r), TypeOK'
  PROVE  CountInv'
<1> SUFFICES ASSUME NEW g \in Cases, Flags(g)' # {}
             PROVE  Cardinality(Flags(g)') + Cardinality(MayFlag(g)') <= Cardinality(Runners)
  BY DEF CountInv
<1>1. TypeOK /\ RunnerInv(r) /\ Release(r) /\ events' = events \cup newEvents[r]
  BY DEF SweepInv, CommitSweep
<1>2. MayFlag(g)' \subseteq MayFlag(g) \ {r}
  BY <1>1, RunnerReleased DEF MayFlag, Pending
<1>3. /\ Cardinality(Flags(g)) \in Nat /\ Cardinality(MayFlag(g)) \in Nat /\ Cardinality(Runners) \in Nat
      /\ IsFiniteSet(Flags(g)) /\ IsFiniteSet(MayFlag(g)) /\ Cardinality(MayFlag(g)) <= Cardinality(Runners)
  BY <1>1, FlagsAreFinite
<1>4. /\ IsFiniteSet(MayFlag(g) \ {r})
      /\ Cardinality(MayFlag(g) \ {r}) = IF r \in MayFlag(g) THEN Cardinality(MayFlag(g)) - 1 ELSE Cardinality(MayFlag(g))
  BY <1>3, FS_RemoveElement
<1>5. /\ Cardinality(MayFlag(g)') <= Cardinality(MayFlag(g) \ {r})
      /\ Cardinality(MayFlag(g)') \in Nat
  BY <1>2, <1>4, FS_Subset, FS_CardinalityType
<1>6. CASE Pending(r, g)
  <2>1. PICK e \in newEvents[r] : e.grievanceId = g
    BY <1>6 DEF Pending
  <2>2. Flags(g)' = Flags(g) \cup {e}
    BY <1>1, <2>1 DEF Flags, EventsOf, RunnerInv
  <2>3. Cardinality(Flags(g)') <= Cardinality(Flags(g)) + 1 /\ Cardinality(Flags(g)') \in Nat
    <3>1. /\ IsFiniteSet(Flags(g) \cup {e})
          /\ Cardinality(Flags(g) \cup {e}) =
               IF e \in Flags(g) THEN Cardinality(Flags(g)) ELSE Cardinality(Flags(g)) + 1
      BY <1>3, FS_AddElement
    <3>2. QED
      BY <1>3, <2>2, <3>1
  <2>4. r \in MayFlag(g)
    BY <1>6 DEF MayFlag
  <2>5. CASE Flags(g) = {}
    <3>1. Cardinality(Flags(g)) = 0
      BY <2>5, FS_EmptySet
    <3>2. QED
      BY <1>3, <1>4, <1>5, <2>3, <2>4, <3>1
  <2>6. CASE Flags(g) # {}
    <3>1. Cardinality(Flags(g)) + Cardinality(MayFlag(g)) <= Cardinality(Runners)
      BY <2>6 DEF CountInv
    <3>2. QED
      BY <1>3, <1>4, <1>5, <2>3, <2>4, <3>1
  <2>7. QED
    BY <2>5, <2>6
<1>7. CASE ~Pending(r, g)
  <2>1. Flags(g)' = Flags(g)
    BY <1>1, <1>7 DEF Flags, EventsOf, Pending
  <2>2. Cardinality(Flags(g)) + Cardinality(MayFlag(g)) <= Cardinality(Runners)
    BY <2>1 DEF CountInv
  <2>3. Cardinality(MayFlag(g)') <= Cardinality(MayFlag(g))
    BY <1>3, <1>4, <1>5
  <2>4. QED
    BY <1>3, <1>5, <2>1, <2>2, <2>3
<1>8. QED
  BY <1>6, <1>7

LEMMA NextCount == ASSUME SweepInv, CountInv, Next PROVE CountInv'
<1>1. TypeOK /\ TypeOK' /\ \A s \in Runners : RunnerInv(s)
  BY NextSweep DEF SweepInv
<1>2. CASE Tick
  <2>1. \A g \in Cases : Flags(g)' = Flags(g) /\ MayFlag(g)' = MayFlag(g)
    BY <1>2 DEF Tick, db, Flags, EventsOf, MayFlag, Pending
  <2>2. QED
    BY <1>1, <2>1, CountRests
<1>3. ASSUME NEW h \in Cases, Work(h) \/ Close(h) PROVE CountInv'
  <2>1. PICK new \in [grievanceId : {h}, seq : {Length(h) + 1}, type : {"human", "closed"}, day : {today}] :
          events' = events \cup {new}
    BY <1>3 DEF Work, Close, Record
  <2>2. \A g \in Cases : Flags(g)' = Flags(g)
    BY <2>1 DEF Flags, EventsOf
  <2>3. \A g \in Cases : MayFlag(g)' = MayFlag(g)
    BY <1>3 DEF Work, Close, Record, MayFlag, Pending
  <2>4. QED
    BY <1>1, <2>2, <2>3, CountRests
<1>4. ASSUME NEW r \in Runners, BeginSweep(r) \/ ReadFlags(r) \/ NextCase(r) \/ ReadTail(r) \/ AppendFlag(r)
      PROVE  CountInv'
  <2>1. events' = events
    BY <1>4 DEF BeginSweep, ReadFlags, NextCase, ReadTail, AppendFlag, db
  <2>2. \A g \in Cases : Flags(g)' = Flags(g)
    BY <2>1 DEF Flags, EventsOf
  <2>3. ASSUME NEW g \in Cases, Flags(g) # {}, NEW s \in Runners, s \in MayFlag(g)' PROVE s \in MayFlag(g)
    <3>1. CASE s # r
      <4>1. pc'[s] = pc[s] /\ todo'[s] = todo[s] /\ newEvents'[s] = newEvents[s]
        BY <1>1, <1>4, <3>1 DEF TypeOK, BeginSweep, ReadFlags, NextCase, ReadTail, AppendFlag
      <4>2. QED
        BY <2>3, <4>1 DEF MayFlag, Pending
    <3>2. CASE s = r /\ BeginSweep(r)
      BY <1>1, <2>3, <3>2 DEF TypeOK, BeginSweep, MayFlag, Pending
    <3>3. CASE s = r /\ ReadFlags(r)
      <4>1. g \in Flagged
        BY <2>3 DEF Flags, Flagged
      <4>2. QED
        BY <1>1, <2>3, <3>3, <4>1 DEF TypeOK, ReadFlags, AlreadyFlagged, MayFlag, Pending
    <3>4. CASE s = r /\ (NextCase(r) \/ ReadTail(r))
      BY <1>1, <2>3, <3>4 DEF TypeOK, NextCase, ReadTail, MayFlag, Pending
    <3>5. CASE s = r /\ AppendFlag(r)
      <4>1. current[r] \in todo[r] /\ pc[r] = "append"
        BY <1>1, <3>5 DEF AppendFlag, RunnerInv
      <4>2. /\ newEvents'[r] = newEvents[r] \cup {Flag(r)} /\ todo'[r] \subseteq todo[r]
            /\ Flag(r).grievanceId = current[r]
        BY <1>1, <3>5 DEF TypeOK, AppendFlag, Flag
      <4>3. QED
        BY <2>3, <3>5, <4>1, <4>2 DEF MayFlag, Pending
    <3>6. QED
      BY <1>4, <3>1, <3>2, <3>3, <3>4, <3>5
  <2>4. \A g \in Cases : Flags(g) # {} => MayFlag(g)' \subseteq MayFlag(g)
    BY <2>3 DEF MayFlag
  <2>5. QED
    BY <1>1, <2>2, <2>4, CountRests
<1>5. ASSUME NEW r \in Runners, Release(r), UNCHANGED <<db, today>> PROVE CountInv'
  <2>1. \A g \in Cases : Flags(g)' = Flags(g)
    BY <1>5 DEF Flags, EventsOf, db
  <2>2. \A g \in Cases : MayFlag(g)' \subseteq MayFlag(g)
    BY <1>1, <1>5, RunnerReleased DEF MayFlag, Pending
  <2>3. QED
    BY <1>1, <2>1, <2>2, CountRests
<1>6. ASSUME NEW r \in Runners, pc[r] = "append", pc' = [pc EXCEPT ![r] = "read"],
             UNCHANGED <<db, todo, newEvents>>
      PROVE  CountInv'
  <2>1. \A g \in Cases : Flags(g)' = Flags(g)
    BY <1>6 DEF Flags, EventsOf, db
  <2>2. \A g \in Cases : MayFlag(g)' \subseteq MayFlag(g)
    BY <1>1, <1>6 DEF MayFlag, Pending, TypeOK
  <2>3. QED
    BY <1>1, <2>1, <2>2, CountRests
<1>7. QED
  BY <1>1, <1>2, <1>3, <1>4, <1>5, <1>6, NextCases, CommitCounts

-----------------------------------------------------------------------------
(* Closed cases. *)

LEMMA NextClosed == ASSUME SweepInv, ClosedInv, Next PROVE ClosedInv'
<1>1. TypeOK /\ TypeOK' /\ \A s \in Runners : RunnerInv(s)
  BY NextSweep DEF SweepInv
<1>2. /\ \A e \in events : e.day \in Nat /\ e.grievanceId \in Cases
      /\ \A s \in Runners : now[s] \in Nat /\ now'[s] \in Nat /\ todo[s] \subseteq Cases
      /\ today \in Nat /\ today' \in Nat
  BY <1>1 DEF TypeOK, Event
<1> DEFINE Handles(s, g) == g \in todo[s] \/ Pending(s, g)
<1>3. CASE Tick
  BY <1>2, <1>3 DEF Tick, db, ClosedInv, Flags, EventsOf, Pending
<1>4. ASSUME NEW h \in Cases, Work(h) \/ Close(h) PROVE ClosedInv'
  <2> DEFINE Entry(type) == [grievanceId |-> h, seq |-> Length(h) + 1, type |-> type, day |-> today]
  <2>0. PICK type \in {"human", "closed"} :
          /\ events' = events \cup {Entry(type)}
          /\ (type = "closed" => open' = open \ {h}) /\ open' \subseteq open
    BY <1>4 DEF Work, Close, Record
  <2> DEFINE new == Entry(type)
  <2>1. /\ events' = events \cup {new} /\ new.grievanceId = h /\ new.day = today
        /\ new.type \in {"human", "closed"} /\ (new.type = "closed" => open' = open \ {h})
        /\ open' \subseteq open
    BY <2>0
  <2> HIDE DEF new
  <2>2. UNCHANGED <<today, now, todo, newEvents>>
    BY <1>4 DEF Work, Close, Record
  <2>3. \A g : Flags(g)' = Flags(g)
    BY <2>1 DEF Flags, EventsOf
  <2>4. \A s \in Runners : \A g : Handles(s, g)' <=> Handles(s, g)
    BY <2>2 DEF Pending
  <2>5. \A e \in events' : e.day <= today'
    BY <1>2, <2>1, <2>2 DEF ClosedInv
  <2>6. \A s \in Runners : now'[s] <= today'
    BY <2>2 DEF ClosedInv
  <2>7. ASSUME NEW d \in events', d.type = "closed"
        PROVE  /\ d.grievanceId \notin open'
               /\ \A e \in Flags(d.grievanceId)' : e.day <= d.day
               /\ \A s \in Runners : Handles(s, d.grievanceId)' => now'[s] <= d.day
    <3>1. CASE d \in events
      BY <2>1, <2>2, <2>3, <2>4, <2>7, <3>1 DEF ClosedInv
    <3>2. CASE d = new
      <4>1. d.grievanceId \notin open' /\ d.day = today
        BY <2>1, <2>7, <3>2
      <4>2. \A e \in Flags(d.grievanceId) : e.day <= today
        BY DEF Flags, EventsOf, ClosedInv
      <4>3. QED
        BY <2>2, <2>3, <2>6, <4>1, <4>2
    <3>3. QED
      BY <2>1, <3>1, <3>2
  <2>8. QED
    BY <2>5, <2>6, <2>7 DEF ClosedInv
<1>5. ASSUME UNCHANGED <<events, today>>, open' = open,
             \A s \in Runners : \/ now'[s] = 0
                                \/ now'[s] = now[s] /\ \A g \in Cases : Handles(s, g)' => Handles(s, g)
      PROVE  ClosedInv'
  <2>1. \A g : Flags(g)' = Flags(g)
    BY <1>5 DEF Flags, EventsOf
  <2>2. \A s \in Runners : now'[s] <= today'
    BY <1>2, <1>5 DEF ClosedInv
  <2>3. ASSUME NEW d \in events, d.type = "closed", NEW s \in Runners, Handles(s, d.grievanceId)'
        PROVE  now'[s] <= d.day
    BY <1>2, <1>5, <2>3 DEF ClosedInv
  <2>4. QED
    BY <1>5, <2>1, <2>2, <2>3 DEF ClosedInv
<1>6. ASSUME NEW r \in Runners, BeginSweep(r) PROVE ClosedInv'
  <2>1. /\ UNCHANGED <<events, open, today>> /\ newEvents' = newEvents
        /\ now' = [now EXCEPT ![r] = today]
        /\ todo' = [todo EXCEPT ![r] = {g \in open : Overdue(g, today)}]
        /\ newEvents[r] = {}
    BY <1>1, <1>6 DEF BeginSweep, StillOpen, db, RunnerInv
  <2>2. \A g : Flags(g)' = Flags(g)
    BY <2>1 DEF Flags, EventsOf
  <2>3. ASSUME NEW d \in events, d.type = "closed", NEW s \in Runners, Handles(s, d.grievanceId)'
        PROVE  now'[s] <= d.day
    <3>1. CASE s = r
      <4>1. d.grievanceId \in open
        BY <1>1, <2>1, <2>3, <3>1 DEF Pending, TypeOK
      <4>2. QED
        BY <2>3, <4>1 DEF ClosedInv
    <3>2. CASE s # r
      <4>1. now'[s] = now[s] /\ Handles(s, d.grievanceId)
        BY <1>1, <2>1, <2>3, <3>2 DEF Pending, TypeOK
      <4>2. QED
        BY <2>3, <4>1 DEF ClosedInv
    <3>3. QED
      BY <3>1, <3>2
  <2>4. \A s \in Runners : now'[s] <= today'
    BY <1>1, <1>2, <2>1 DEF ClosedInv, TypeOK
  <2>5. QED
    BY <2>1, <2>2, <2>3, <2>4 DEF ClosedInv
<1>7. ASSUME NEW r \in Runners, ReadFlags(r) \/ NextCase(r) \/ ReadTail(r) PROVE ClosedInv'
  <2>1. \A s \in Runners : todo'[s] \subseteq todo[s]
    BY <1>1, <1>7 DEF ReadFlags, NextCase, ReadTail, TypeOK
  <2>2. UNCHANGED <<events, open, today, now, newEvents>>
    BY <1>7 DEF ReadFlags, NextCase, ReadTail, db
  <2>3. QED
    BY <1>5, <2>1, <2>2 DEF Pending
<1>8. ASSUME NEW r \in Runners, AppendFlag(r) PROVE ClosedInv'
  <2>1. current[r] \in todo[r]
    BY <1>1, <1>8 DEF AppendFlag, RunnerInv
  <2>2. /\ UNCHANGED <<events, open, today, now>>
        /\ newEvents' = [newEvents EXCEPT ![r] = @ \cup {Flag(r)}]
        /\ todo' = [todo EXCEPT ![r] = @ \ {current[r]}] /\ Flag(r).grievanceId = current[r]
    BY <1>8 DEF AppendFlag, db, Flag
  <2>3. ASSUME NEW s \in Runners, NEW g \in Cases, Handles(s, g)' PROVE Handles(s, g)
    BY <1>1, <2>1, <2>2, <2>3 DEF Pending, TypeOK
  <2>4. QED
    BY <1>5, <2>2, <2>3
<1>9. ASSUME NEW r \in Runners, Release(r), UNCHANGED <<events, open, today>> PROVE ClosedInv'
  <2>1. now'[r] = 0
    BY <1>1, <1>9, RunnerReleased
  <2>2. \A s \in Runners : s # r => now'[s] = now[s] /\ todo'[s] = todo[s] /\ newEvents'[s] = newEvents[s]
    BY <1>1, <1>9, RunnerReleased
  <2>3. QED
    BY <1>5, <1>9, <2>1, <2>2 DEF Pending
<1>10. ASSUME NEW r \in Runners, UNCHANGED <<db, today, now, todo, newEvents>> PROVE ClosedInv'
  BY <1>5, <1>10 DEF db, Pending
<1>11. ASSUME NEW r \in Runners, CommitSweep(r) PROVE ClosedInv'
  <2>1. /\ Release(r) /\ UNCHANGED <<open, today>> /\ events' = events \cup newEvents[r]
        /\ \A e \in newEvents[r] : /\ e.type = "sla_breached" /\ e.day = now[r]
                                   /\ Pending(r, e.grievanceId)
    BY <1>1, <1>11 DEF CommitSweep, RunnerInv, Pending
  <2>2. \A e \in events' : e.day <= today'
    BY <1>2, <2>1 DEF ClosedInv
  <2>3. \A s \in Runners : \/ now'[s] = 0
                           \/ now'[s] = now[s] /\ \A g \in Cases : Handles(s, g)' => Handles(s, g)
    <3>1. now'[r] = 0
      BY <1>1, <2>1, RunnerReleased
    <3>2. \A s \in Runners : s # r => now'[s] = now[s] /\ todo'[s] = todo[s] /\ newEvents'[s] = newEvents[s]
      BY <1>1, <2>1, RunnerReleased
    <3>3. QED
      BY <3>1, <3>2 DEF Pending
  <2>4. \A s \in Runners : now'[s] <= today'
    BY <1>2, <2>1, <2>3 DEF ClosedInv
  <2>5. ASSUME NEW d \in events', d.type = "closed"
        PROVE  /\ d.grievanceId \notin open'
               /\ \A e \in Flags(d.grievanceId)' : e.day <= d.day
               /\ \A s \in Runners : Handles(s, d.grievanceId)' => now'[s] <= d.day
    <3>1. d \in events
      BY <2>1, <2>5
    <3>2. ASSUME NEW e \in Flags(d.grievanceId)' PROVE e.day <= d.day
      <4>1. CASE e \in events
        BY <2>5, <3>1, <3>2, <4>1 DEF Flags, EventsOf, ClosedInv
      <4>2. CASE e \in newEvents[r]
        <5>1. e.day = now[r] /\ Pending(r, d.grievanceId)
          BY <2>1, <3>2, <4>2 DEF Flags, EventsOf
        <5>2. QED
          BY <2>5, <3>1, <5>1 DEF ClosedInv
      <4>3. QED
        BY <2>1, <3>2, <4>1, <4>2 DEF Flags, EventsOf
    <3>3. ASSUME NEW s \in Runners, Handles(s, d.grievanceId)' PROVE now'[s] <= d.day
      BY <1>2, <2>3, <2>5, <3>1, <3>3 DEF ClosedInv
    <3>4. QED
      BY <2>1, <2>5, <3>1, <3>2, <3>3 DEF ClosedInv
  <2>6. QED
    BY <2>2, <2>4, <2>5 DEF ClosedInv
<1>12. QED
  BY <1>1, <1>3, <1>4, <1>6, <1>7, <1>8, <1>9, <1>10, <1>11, NextCases, Zenon DEF db

LEMMA InitFlags == Init => FlagInv
<1> SUFFICES ASSUME Init PROVE FlagInv
  OBVIOUS
<1>1. \A g : Flags(g) = {}
  BY DEF Init, Flags, EventsOf
<1>2. CountInv
  BY <1>1 DEF CountInv
<1>3. ClosedInv
  BY <1>1 DEF Init, ClosedInv
<1>4. QED
  BY <1>2, <1>3, InitSweep DEF FlagInv

LEMMA StepFlags == ASSUME FlagInv, [Next]_vars PROVE FlagInv'
<1>1. CASE Next
  BY <1>1, NextSweep, NextCount, NextClosed DEF FlagInv
<1>2. CASE UNCHANGED vars
  <2>1. \A g : Flags(g)' = Flags(g) /\ MayFlag(g)' = MayFlag(g)
    BY <1>2 DEF vars, db, Flags, EventsOf, MayFlag, Pending
  <2>2. CountInv' /\ ClosedInv'
    BY <1>2, <2>1 DEF vars, db, FlagInv, CountInv, ClosedInv, Pending
  <2>3. QED
    BY <1>2, <2>2, StepSweep DEF FlagInv
<1>3. QED
  BY <1>1, <1>2

\* However often the timer fires and sweeps die, a case has a flag for each runner at
\* most, and a closed case is flagged only by a sweep that was under way when it closed.
THEOREM FlagsStayFew == Spec => []FlagsAreBounded
<1>1. ASSUME FlagInv PROVE FlagsAreBounded
  <2>1. TypeOK
    BY <1>1 DEF FlagInv, SweepInv
  <2>2. ASSUME NEW g \in Cases PROVE Cardinality(Flags(g)) <= Cardinality(Runners)
    <3>1. /\ Cardinality(Flags(g)) \in Nat /\ Cardinality(MayFlag(g)) \in Nat /\ Cardinality(Runners) \in Nat
          /\ IsFiniteSet(Flags(g))
      BY <2>1, FlagsAreFinite
    <3>2. CASE Flags(g) = {}
      <4>1. Cardinality(Flags(g)) = 0
        BY <3>2, FS_EmptySet
      <4>2. QED
        BY <3>1, <4>1
    <3>3. CASE Flags(g) # {}
      <4>1. Cardinality(Flags(g)) + Cardinality(MayFlag(g)) <= Cardinality(Runners)
        BY <1>1, <3>3 DEF FlagInv, CountInv
      <4>2. QED
        BY <3>1, <4>1
    <3>4. QED
      BY <3>2, <3>3
  <2>3. LateFlagsWereUnderWay
    <3>1. ASSUME NEW d \in events, NEW e \in events,
                 d.grievanceId = e.grievanceId, d.type = "closed", e.type = "sla_breached"
          PROVE  e.day <= d.day
      <4>1. e \in Flags(d.grievanceId)
        BY <3>1 DEF Flags, EventsOf
      <4>2. QED
        BY <1>1, <3>1, <4>1 DEF FlagInv, ClosedInv
    <3>2. QED
      BY <3>1 DEF LateFlagsWereUnderWay
  <2>4. QED
    BY <2>2, <2>3 DEF FlagsAreBounded, FlagsPerCase
<1>2. QED
  BY <1>1, InitFlags, StepFlags, PTL DEF Spec

=============================================================================
