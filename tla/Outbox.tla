------------------------------- MODULE Outbox -------------------------------
(***************************************************************************)
(* Delivery: the notification outbox (src/src/lib/notify/outbox.ts), the   *)
(* sweep that drains it (sender.ts, scripts/send-notifications.ts) and the *)
(* mail relay it talks to (transport.ts).                                  *)
(*                                                                         *)
(* A sender claims a batch in one short transaction, FOR UPDATE SKIP       *)
(* LOCKED, and then works through it with the locks already given back.    *)
(* The relay answers, refuses, answers too late to be heard, or is not     *)
(* there: a socket error has no listener and ends the sender's process.    *)
(***************************************************************************)
EXTENDS Naturals, FiniteSets

CONSTANTS
  Senders,       \* processes that run the sweep
  MaxMessages,   \* bound: messages ever queued, numbered in the order of createdAt
  BatchLimit,    \* the limit of a claim
  MAX_ATTEMPTS,  \* failures after which a message is given up
  MaxFaults,     \* bound: lost answers, failed bookkeeping and killed processes
  MaxOutages     \* bound: times the relay goes away

ASSUME DeliveryAssumption ==
  /\ IsFiniteSet(Senders)
  /\ MaxMessages \in Nat
  /\ BatchLimit \in Nat \ {0}
  /\ MAX_ATTEMPTS \in Nat \ {0}
  /\ MaxFaults \in Nat
  /\ MaxOutages \in Nat

Messages == 1 .. MaxMessages
Status   == {"unqueued", "pending", "sent", "failed"}

VARIABLES
  deployed,          \* the senders this installation runs
  status, attempts,  \* the row of each message
  locked,            \* rows each sender's open claim holds FOR UPDATE
  batch,             \* claimed messages a sender has still to work through
  pc,                \* where each sender is in its sweep
  accepted,          \* how often the relay has taken each message
  faults,            \* faults that hit each message's bookkeeping
  relay, outages     \* whether the relay can be reached, and how often it went away

rows == <<status, attempts>>
vars == <<deployed, status, attempts, locked, batch, pc, accepted, faults, relay, outages>>

Init ==
  /\ deployed \in SUBSET Senders
  /\ status = [m \in Messages |-> "unqueued"]
  /\ attempts = [m \in Messages |-> 0]
  /\ locked = [s \in Senders |-> {}]
  /\ batch = [s \in Senders |-> {}]
  /\ pc = [s \in Senders |-> "idle"]
  /\ accepted = [m \in Messages |-> 0]
  /\ faults = [m \in Messages |-> 0]
  /\ relay = "up"
  /\ outages = 0

HasFaults ==
  Cardinality({f \in Messages \X (1 .. MaxFaults) : f[2] <= faults[f[1]]}) < MaxFaults

\* A command's transaction commits a message; createdAt orders the rows.
Enqueue(m) ==
  /\ status[m] = "unqueued"
  /\ \A n \in Messages : n < m => status[n] # "unqueued"
  /\ status' = [status EXCEPT ![m] = "pending"]
  /\ UNCHANGED <<attempts, locked, batch, pc, accepted, faults, relay, outages>>

-----------------------------------------------------------------------------
(* The claim. *)

\* Mutant: the query forgets the status, and finds what was sent already.
IsClaimable_AnyStatus(m) == status[m] # "unqueued" /\ attempts[m] < MAX_ATTEMPTS
\* Mutant: one attempt too many.
IsClaimable_Inclusive(m) == status[m] \in {"pending", "failed"} /\ attempts[m] <= MAX_ATTEMPTS
IsClaimable(m) == status[m] \in {"pending", "failed"} /\ attempts[m] < MAX_ATTEMPTS

LockedByOthers(s) == UNION {locked[r] : r \in Senders \ {s}}

\* The oldest claimable rows that nobody has locked, up to the limit.
NextBatch(s) ==
  LET free == {m \in Messages : IsClaimable(m)} \ LockedByOthers(s) IN
  {m \in free : Cardinality({n \in free : n <= m}) <= BatchLimit}

\* The SELECT of the claim.
ClaimBatch(s) ==
  /\ pc[s] = "idle"
  /\ NextBatch(s) # {}
  /\ locked' = [locked EXCEPT ![s] = NextBatch(s)]
  /\ batch' = [batch EXCEPT ![s] = NextBatch(s)]
  /\ pc' = [pc EXCEPT ![s] = "claimed"]
  /\ UNCHANGED <<status, attempts, accepted, faults, relay, outages>>

\* withoutTenantScope returns: the claim's transaction ends, and its locks with it.
EndClaim(s) ==
  /\ pc[s] = "claimed"
  /\ locked' = [locked EXCEPT ![s] = {}]
  /\ pc' = [pc EXCEPT ![s] = "send"]
  /\ UNCHANGED <<status, attempts, batch, accepted, faults, relay, outages>>

-----------------------------------------------------------------------------
(* The loop over the batch, oldest message first. *)

Current(s) == CHOOSE m \in batch[s] : \A n \in batch[s] : m <= n

Goto(s, label) ==
  /\ pc' = [pc EXCEPT ![s] = label]
  /\ UNCHANGED <<locked, batch>>

\* On to the next message, or the end of the sweep.
Advance(s) ==
  /\ batch' = [batch EXCEPT ![s] = @ \ {Current(s)}]
  /\ pc' = [pc EXCEPT ![s] = IF batch[s] = {Current(s)} THEN "idle" ELSE "send"]
  /\ UNCHANGED locked

\* The process ends, or its sweep throws; the loop or cron starts over.
Restart(s) ==
  /\ batch' = [batch EXCEPT ![s] = {}]
  /\ locked' = [locked EXCEPT ![s] = {}]
  /\ pc' = [pc EXCEPT ![s] = "idle"]

Accept(m) == accepted' = [accepted EXCEPT ![m] = @ + 1]
Fault(m)  == HasFaults /\ faults' = [faults EXCEPT ![m] = @ + 1]

SendAccepted(s) ==
  /\ pc[s] = "send" /\ relay = "up"
  /\ Accept(Current(s))
  /\ Goto(s, "sent")
  /\ UNCHANGED <<rows, faults, relay, outages>>

\* The relay answers with an error, or nothing answers within the read timeout.
\* Mutant: the error of a refused message is swallowed.
SendRefused_Swallowed(s) ==
  /\ pc[s] = "send"
  /\ Goto(s, "sent")
  /\ UNCHANGED <<rows, accepted, faults, relay, outages>>
SendRefused(s) ==
  /\ pc[s] = "send"
  /\ Goto(s, "failed")
  /\ UNCHANGED <<rows, accepted, faults, relay, outages>>

\* The relay takes the message and its answer comes after the read timeout.
SendUnheard(s) ==
  /\ pc[s] = "send" /\ relay = "up"
  /\ Accept(Current(s))
  /\ Fault(Current(s))
  /\ Goto(s, "failed")
  /\ UNCHANGED <<rows, relay, outages>>

\* createConnection fails. The socket emits an error that nothing listens to, which
\* ends the process before markFailed has run.
ConnectionRefused(s) ==
  /\ pc[s] = "send" /\ relay = "down"
  /\ Restart(s)
  /\ UNCHANGED <<rows, accepted, faults, relay, outages>>

\* An UPDATE waits while a claim holds the row.
CanUpdate(s, m) == m \notin LockedByOthers(s)

MarkSent(s) ==
  /\ pc[s] = "sent" /\ CanUpdate(s, Current(s))
  /\ status' = [status EXCEPT ![Current(s)] = "sent"]
  /\ Advance(s)
  /\ UNCHANGED <<attempts, accepted, faults, relay, outages>>

\* markSent throws inside the same try block as the send.
MarkSentThrows(s) ==
  /\ pc[s] = "sent"
  /\ Fault(Current(s))
  /\ Goto(s, "failed")
  /\ UNCHANGED <<rows, accepted, relay, outages>>

\* Mutant: a failure is recorded and not counted.
Failures_Forgotten(n) == n
Failures(n) == n + 1

MarkFailed(s) ==
  /\ pc[s] = "failed" /\ CanUpdate(s, Current(s))
  /\ status' = [status EXCEPT ![Current(s)] = "failed"]
  /\ attempts' = [attempts EXCEPT ![Current(s)] = Failures(@)]
  /\ Advance(s)
  /\ UNCHANGED <<accepted, faults, relay, outages>>

\* markFailed throws, or the process is killed anywhere in its sweep.
Die(s) ==
  /\ pc[s] # "idle"
  /\ Fault(Current(s))
  /\ Restart(s)
  /\ UNCHANGED <<rows, accepted, relay, outages>>

RelayGoesAway ==
  /\ relay = "up" /\ outages < MaxOutages
  /\ relay' = "down"
  /\ outages' = outages + 1
  /\ UNCHANGED <<rows, locked, batch, pc, accepted, faults>>

RelayComesBack ==
  /\ relay = "down"
  /\ relay' = "up"
  /\ UNCHANGED <<rows, locked, batch, pc, accepted, faults, outages>>

Sweep(s) ==
  \/ ClaimBatch(s) \/ EndClaim(s)
  \/ SendAccepted(s) \/ SendRefused(s) \/ SendUnheard(s) \/ ConnectionRefused(s)
  \/ MarkSent(s) \/ MarkSentThrows(s) \/ MarkFailed(s)

Next ==
  /\ \/ \E m \in Messages : Enqueue(m)
     \/ \E s \in deployed : Sweep(s) \/ Die(s)
     \/ RelayGoesAway \/ RelayComesBack
  /\ UNCHANGED deployed

Spec == Init /\ [][Next]_vars

\* The daemon or cron keeps sweeping.
FairSpec == Spec /\ \A s \in Senders : WF_vars(s \in deployed /\ Sweep(s) /\ UNCHANGED deployed)

\* And somebody repairs the relay.
RepairedSpec == FairSpec /\ WF_vars(RelayComesBack /\ UNCHANGED deployed)

-----------------------------------------------------------------------------
(* Properties. *)

\* Type correctness: rows and sweeps hold what the columns and the loop allow, and a
\* sender in its loop has a message to work on.
TypeOK ==
  /\ deployed \subseteq Senders
  /\ status \in [Messages -> Status]
  /\ attempts \in [Messages -> Nat]
  /\ locked \in [Senders -> SUBSET Messages]
  /\ batch \in [Senders -> SUBSET Messages]
  /\ pc \in [Senders -> {"idle", "claimed", "send", "sent", "failed"}]
  /\ accepted \in [Messages -> Nat]
  /\ faults \in [Messages -> Nat]
  /\ relay \in {"up", "down"}
  /\ outages \in Nat
  /\ \A s \in Senders : pc[s] = "idle" <=> batch[s] = {}

\* No message is marked sent that the relay has not taken: at-least-once delivery loses
\* nothing, whatever senders overlap and wherever they die (outbox.ts, "Delivery is
\* at-least-once").
SentWasAccepted == \A m \in Messages : status[m] = "sent" => accepted[m] > 0

OneSender == Cardinality(deployed) = 1

\* With one sender, a recipient is written to again only for a reason outbox.ts names: a
\* lost answer, a failed update or a process that died in between.
DuplicatesHaveACause == OneSender => \A m \in Messages : accepted[m] <= 1 + faults[m]

\* With one sender, a message that was sent stays sent, and one that failed MAX_ATTEMPTS
\* times is left alone: the sweep never touches a settled row.
Settled(m) == status[m] = "sent" \/ attempts[m] >= MAX_ATTEMPTS

SettledIsFinal ==
  [][OneSender => \A m \in Messages : Settled(m) =>
       status'[m] = status[m] /\ attempts'[m] = attempts[m] /\ accepted'[m] = accepted[m]]_vars

\* security.md:169: "a message that fails five times is dead-lettered rather than retried
\* forever": every message that was queued is sent or given up in the end, if
\* anybody sends at all.
EveryMessageSettles ==
  \A m \in Messages : status[m] = "pending" /\ deployed # {} ~> Settled(m)

\* The strengthening that makes SentWasAccepted inductive: a sender about to mark its
\* message sent has had it accepted.
SweepInv ==
  /\ TypeOK
  /\ SentWasAccepted
  /\ \A s \in Senders : pc[s] = "sent" => accepted[Current(s)] > 0

\* The strengthening for a single sender: nobody else sweeps, what it has still to work
\* through is claimable, and the relay has taken a message at most once for each of its
\* faults, and once more when it is marked sent or about to be.
Delivering(m) == status[m] = "sent" \/ \E s \in deployed : pc[s] = "sent" /\ m = Current(s)

OneSweepInv ==
  /\ TypeOK
  /\ OneSender =>
       /\ \A s \in Senders \ deployed : pc[s] = "idle"
       /\ \A s \in Senders : \A m \in batch[s] : IsClaimable(m)
       /\ \A m \in Messages : status[m] = "unqueued" => attempts[m] = 0
       /\ \A m \in Messages :
            accepted[m] <= IF Delivering(m) THEN faults[m] + 1 ELSE faults[m]

\* send-notifications.ts:5: "concurrent senders take disjoint work rather than sending the
\* same message twice": without a fault, no message is accepted twice.
SendersTakeDisjointWork == \A m \in Messages : faults[m] = 0 => accepted[m] <= 1

=============================================================================
