---------------------------- MODULE OutboxProofs ----------------------------
(***************************************************************************)
(* Delivery, for any number of senders, messages and faults: at least once *)
(* whoever sends, and with one sender no duplicate without a cause and no  *)
(* second touch of a settled row.                                          *)
(***************************************************************************)
EXTENDS Outbox, FiniteSetTheorems, WellFoundedInduction, TLAPS

\* A sweep with work left has an oldest message to work on.
LEMMA CurrentIsClaimed ==
  ASSUME TypeOK, NEW s \in Senders, pc[s] # "idle"
  PROVE  Current(s) \in batch[s] /\ Current(s) \in Messages
<1>1. batch[s] \subseteq Messages /\ batch[s] # {} /\ batch[s] \subseteq Nat
  BY DEF TypeOK, Messages
<1>2. PICK m \in batch[s] : \A n \in batch[s] : ~(<<n, m>> \in OpToRel(<, Nat))
  BY <1>1, NatLessThanWellFounded, WFMin
<1>3. ASSUME NEW n \in batch[s] PROVE m <= n
  <2>1. <<n, m>> \in Nat \X Nat /\ <<n, m>>[1] = n /\ <<n, m>>[2] = m
    BY <1>1
  <2>2. <<n, m>> \in OpToRel(<, Nat) <=> n < m
    BY <2>1, Zenon DEF OpToRel
  <2>3. ~(n < m)
    BY <1>2, <2>2, Zenon
  <2>4. m \in Nat /\ n \in Nat
    BY <1>1
  <2>5. QED
    BY <2>3, <2>4
<1>4. QED
  BY <1>1, <1>3 DEF Current

LEMMA InitSweep == Init => SweepInv
BY DEF Init, SweepInv, TypeOK, SentWasAccepted, Status

\* Each step keeps the types.
LEMMA NextTypes == ASSUME TypeOK, Next PROVE TypeOK'
<1> USE DEF TypeOK
<1>0. deployed' = deployed
  BY DEF Next
<1>1. ASSUME NEW m \in Messages, Enqueue(m) PROVE TypeOK'
  BY <1>0, <1>1 DEF Enqueue, Status
<1>2. ASSUME NEW s \in Senders, Sweep(s) \/ Die(s) PROVE TypeOK'
  <2>1. CASE ClaimBatch(s)
    <3>1. NextBatch(s) \subseteq Messages /\ NextBatch(s) # {}
      BY <2>1 DEF ClaimBatch, NextBatch
    <3>2. QED
      BY <1>0, <2>1, <3>1 DEF ClaimBatch
  <2>2. CASE EndClaim(s)
    BY <1>0, <2>2 DEF EndClaim
  <2>3. CASE SendAccepted(s) \/ SendRefused(s) \/ SendUnheard(s) \/ MarkSentThrows(s)
    BY <1>0, <2>3 DEF SendAccepted, SendRefused, SendUnheard, MarkSentThrows, Goto, Accept, Fault, rows
  <2>4. CASE ConnectionRefused(s) \/ Die(s)
    BY <1>0, <2>4 DEF ConnectionRefused, Die, Restart, Fault, rows
  <2>5. ASSUME MarkSent(s) \/ MarkFailed(s) PROVE TypeOK'
    <3>1. batch' = [batch EXCEPT ![s] = @ \ {Current(s)}]
          /\ pc' = [pc EXCEPT ![s] = IF batch[s] = {Current(s)} THEN "idle" ELSE "send"]
          /\ pc[s] # "idle"
      BY <2>5 DEF MarkSent, MarkFailed, Advance
    <3>2. batch[s] = {Current(s)} <=> batch'[s] = {}
      BY <3>1, CurrentIsClaimed
    <3>3. batch' \in [Senders -> SUBSET Messages] /\ \A r \in Senders : pc'[r] = "idle" <=> batch'[r] = {}
      BY <3>1, <3>2
    <3>4. status' \in [Messages -> Status] /\ attempts' \in [Messages -> Nat]
      BY <2>5 DEF MarkSent, MarkFailed, Failures, Status
    <3>5. QED
      BY <1>0, <2>5, <3>1, <3>3, <3>4 DEF MarkSent, MarkFailed, Advance
  <2>6. QED
    BY <1>2, <2>1, <2>2, <2>3, <2>4, <2>5 DEF Sweep
<1>3. CASE RelayGoesAway \/ RelayComesBack
  BY <1>0, <1>3 DEF RelayGoesAway, RelayComesBack, rows
<1>4. QED
  BY <1>1, <1>2, <1>3 DEF Next

\* A sender marks sent only what the relay has taken, and the relay takes nothing back.
LEMMA NextSweep == ASSUME SweepInv, Next PROVE SweepInv'
<1>1. TypeOK /\ TypeOK'
  BY NextTypes DEF SweepInv
<1>2. \A m \in Messages : accepted[m] \in Nat /\ (accepted[m] > 0 => accepted'[m] > 0)
  <2>1. ASSUME NEW s \in Senders, SendAccepted(s) \/ SendUnheard(s)
        PROVE  \A m \in Messages : accepted[m] > 0 => accepted'[m] > 0
    BY <1>1, <2>1 DEF SendAccepted, SendUnheard, Accept, TypeOK
  <2>2. (\A s \in Senders : ~SendAccepted(s) /\ ~SendUnheard(s)) => accepted' = accepted
    BY DEF SweepInv, TypeOK, Next, Sweep, Die, Enqueue, ClaimBatch, EndClaim, SendRefused,
           ConnectionRefused, MarkSent, MarkSentThrows, MarkFailed, RelayGoesAway, RelayComesBack
  <2>3. QED
    BY <1>1, <2>1, <2>2 DEF TypeOK
<1>3. ASSUME NEW m \in Messages, status'[m] = "sent" PROVE accepted'[m] > 0
  <2>1. CASE status[m] = "sent"
    BY <1>2, <2>1 DEF SweepInv, SentWasAccepted
  <2>2. CASE status[m] # "sent"
    <3>1. PICK s \in Senders : MarkSent(s) /\ m = Current(s)
      BY <1>1, <1>3, <2>2
         DEF SweepInv, TypeOK, Next, Sweep, Die, Enqueue, ClaimBatch, EndClaim, SendAccepted,
             SendRefused, SendUnheard, ConnectionRefused, MarkSent, MarkSentThrows, MarkFailed,
             RelayGoesAway, RelayComesBack, rows
    <3>2. accepted[Current(s)] > 0
      BY <3>1 DEF MarkSent, SweepInv
    <3>3. QED
      BY <1>2, <3>1, <3>2
  <2>3. QED
    BY <2>1, <2>2
<1>4. ASSUME NEW s \in Senders, pc'[s] = "sent" PROVE accepted'[Current(s)'] > 0
  <2>1. CASE SendAccepted(s)
    <3>1. Current(s) \in Messages /\ Current(s)' = Current(s)
      BY <1>1, <2>1, CurrentIsClaimed DEF SendAccepted, Goto, Current
    <3>2. QED
      BY <1>1, <2>1, <3>1 DEF SendAccepted, Accept, TypeOK
  <2>2. CASE ~SendAccepted(s)
    <3>1. pc[s] = "sent" /\ batch'[s] = batch[s]
      BY <1>1, <1>4, <2>2
         DEF TypeOK, Next, Sweep, Die, Enqueue, ClaimBatch, EndClaim, SendAccepted,
             SendRefused, SendUnheard, ConnectionRefused, MarkSent, MarkSentThrows, MarkFailed,
             RelayGoesAway, RelayComesBack, Goto, Advance, Restart
    <3>2. Current(s)' = Current(s) /\ Current(s) \in Messages
      BY <1>1, <3>1, CurrentIsClaimed DEF Current
    <3>3. QED
      BY <1>2, <3>1, <3>2 DEF SweepInv
  <2>3. QED
    BY <2>1, <2>2
<1>5. QED
  BY <1>1, <1>3, <1>4 DEF SweepInv, SentWasAccepted

\* No message is marked sent that the relay has not taken, whatever senders overlap and
\* wherever they die.
THEOREM AtLeastOnce == Spec => []SentWasAccepted
<1>1. SweepInv /\ UNCHANGED vars => SweepInv'
  BY DEF SweepInv, TypeOK, SentWasAccepted, Current, vars
<1>2. SweepInv => SentWasAccepted
  BY DEF SweepInv
<1>3. QED
  BY <1>1, <1>2, InitSweep, NextSweep, PTL DEF Spec

-----------------------------------------------------------------------------
(* One sender. *)

LEMMA OneSenderIsAlone ==
  ASSUME TypeOK, OneSender
  PROVE  \E z \in Senders : deployed = {z}
<1>1. deployed \subseteq Senders /\ IsFiniteSet(Senders)
  BY DeliveryAssumption DEF TypeOK
<1>2. IsFiniteSet(deployed)
  BY <1>1, FS_Subset
<1>3. QED
  BY <1>1, <1>2, FS_Singleton DEF OneSender

\* What the one sender works on is neither sent nor given up, and nobody else works.
LEMMA OneWorker ==
  ASSUME OneSweepInv, OneSender
  PROVE  /\ TypeOK
         /\ \A s \in Senders : pc[s] # "idle" =>
              /\ deployed = {s}
              /\ Current(s) \in batch[s] /\ Current(s) \in Messages
              /\ IsClaimable(Current(s))
<1>1. TypeOK
  BY DEF OneSweepInv
<1>2. PICK z \in Senders : deployed = {z}
  BY <1>1, OneSenderIsAlone
<1>3. ASSUME NEW s \in Senders, pc[s] # "idle"
      PROVE  deployed = {s} /\ Current(s) \in batch[s] /\ Current(s) \in Messages /\ IsClaimable(Current(s))
  <2>1. Current(s) \in batch[s] /\ Current(s) \in Messages
    BY <1>1, <1>3, CurrentIsClaimed
  <2>2. s \in deployed
    BY <1>3 DEF OneSweepInv
  <2>3. IsClaimable(Current(s))
    BY <2>1 DEF OneSweepInv
  <2>4. QED
    BY <1>2, <2>1, <2>2, <2>3
<1>4. QED
  BY <1>1, <1>3

LEMMA InitOneSweep == Init => OneSweepInv
<1> SUFFICES ASSUME Init PROVE OneSweepInv
  OBVIOUS
<1>1. TypeOK
  BY InitSweep DEF SweepInv
<1>2. \A m \in Messages : accepted[m] = 0 /\ faults[m] = 0 /\ status[m] = "unqueued" /\ attempts[m] = 0
  BY DEF Init
<1>3. \A s \in Senders : pc[s] = "idle" /\ batch[s] = {}
  BY DEF Init
<1>4. \A m \in Messages : ~Delivering(m)
  BY <1>2, <1>3 DEF Delivering, TypeOK, Init
<1>5. QED
  BY <1>1, <1>2, <1>3, <1>4 DEF OneSweepInv

\* The claim takes claimable rows, and a step that settles a row takes it off the batch.
LEMMA NextClaims ==
  ASSUME OneSweepInv, OneSender, Next
  PROVE  /\ \A s \in Senders \ deployed : pc'[s] = "idle"
         /\ \A s \in Senders : \A m \in batch'[s] : IsClaimable(m)'
         /\ \A m \in Messages : status'[m] = "unqueued" => attempts'[m] = 0
<1>1. TypeOK /\ TypeOK'
  BY NextTypes DEF OneSweepInv
<1>2. PICK z \in Senders : deployed = {z}
  BY <1>1, OneSenderIsAlone
<1>3. /\ \A s \in Senders : s # z => pc[s] = "idle" /\ batch[s] = {}
      /\ \A m \in batch[z] : m \in Messages /\ IsClaimable(m)
      /\ \A m \in Messages : status[m] = "unqueued" => attempts[m] = 0
  BY <1>1, <1>2 DEF OneSweepInv, TypeOK
<1> DEFINE Claims == /\ \A s \in Senders : s # z => pc[s] = "idle" /\ batch[s] = {}
                     /\ \A m \in batch[z] : IsClaimable(m)
                     /\ \A m \in Messages : status[m] = "unqueued" => attempts[m] = 0
<1>4. SUFFICES Claims'
  BY <1>1, <1>2 DEF TypeOK
<1> USE DEF TypeOK, IsClaimable
<1>5. ASSUME NEW m \in Messages, Enqueue(m) PROVE Claims'
  BY <1>1, <1>3, <1>5 DEF Enqueue
<1>6. CASE ClaimBatch(z)
  <2>1. NextBatch(z) \subseteq {m \in Messages : IsClaimable(m)}
    BY DEF NextBatch
  <2>2. QED
    BY <1>1, <1>3, <1>6, <2>1 DEF ClaimBatch
<1>7. CASE EndClaim(z)
  BY <1>1, <1>3, <1>7 DEF EndClaim
<1>8. CASE SendAccepted(z) \/ SendRefused(z) \/ SendUnheard(z) \/ MarkSentThrows(z)
  BY <1>1, <1>3, <1>8 DEF SendAccepted, SendRefused, SendUnheard, MarkSentThrows, Goto, rows
<1>9. CASE ConnectionRefused(z) \/ Die(z)
  BY <1>1, <1>3, <1>9 DEF ConnectionRefused, Die, Restart, rows
<1>10. CASE MarkSent(z) \/ MarkFailed(z)
  <2>1. pc[z] # "idle" /\ batch' = [batch EXCEPT ![z] = @ \ {Current(z)}]
        /\ \A s \in Senders : s # z => pc'[s] = pc[s]
    BY <1>1, <1>10 DEF MarkSent, MarkFailed, Advance
  <2>2. Current(z) \in Messages /\ IsClaimable(Current(z))
    BY <2>1, OneWorker
  <2>3. /\ \A m \in Messages : m # Current(z) => status'[m] = status[m] /\ attempts'[m] = attempts[m]
        /\ status'[Current(z)] # "unqueued"
    BY <1>1, <1>10, <2>2 DEF MarkSent, MarkFailed
  <2>4. QED
    BY <1>1, <1>3, <2>1, <2>2, <2>3
<1>11. CASE RelayGoesAway \/ RelayComesBack
  BY <1>1, <1>3, <1>11 DEF RelayGoesAway, RelayComesBack, rows
<1>12. QED
  BY <1>2, <1>5, <1>6, <1>7, <1>8, <1>9, <1>10, <1>11, Zenon DEF Next, Sweep

\* One more acceptance is one more fault or the first delivery of an unsent message.
LEMMA NextCounts ==
  ASSUME OneSweepInv, OneSender, Next
  PROVE  \A m \in Messages : accepted'[m] <= IF Delivering(m)' THEN faults'[m] + 1 ELSE faults'[m]
<1>1. TypeOK /\ TypeOK' /\ deployed' = deployed
  BY NextTypes DEF OneSweepInv, Next
<1>2. PICK z \in Senders : deployed = {z}
  BY <1>1, OneSenderIsAlone
<1> DEFINE Sending(m) == pc[z] = "sent" /\ m = Current(z)
           Counted == \A m \in Messages :
                        accepted[m] <= IF status[m] = "sent" \/ Sending(m) THEN faults[m] + 1 ELSE faults[m]
<1>3. \A m \in Messages : Delivering(m) <=> status[m] = "sent" \/ Sending(m)
  BY <1>2 DEF Delivering
<1>4. \A m \in Messages : Delivering(m)' <=> status'[m] = "sent" \/ Sending(m)'
  BY <1>1, <1>2 DEF Delivering
<1>5. Counted
  BY <1>3 DEF OneSweepInv
<1>6. SUFFICES Counted'
  BY <1>4
<1>7. pc[z] # "idle" => Current(z) \in Messages /\ status[Current(z)] # "sent"
  BY OneWorker DEF IsClaimable
<1>8. batch'[z] = batch[z] => Current(z)' = Current(z)
  BY DEF Current
<1> HIDE DEF Sending
<1>9. ASSUME NEW m \in Messages, Enqueue(m) PROVE Counted'
  <2>1. \A n \in Messages : Sending(n)' <=> Sending(n)
    BY <1>8, <1>9 DEF Enqueue, Sending
  <2>2. status[m] # "sent" /\ \A n \in Messages : n # m => status'[n] = status[n]
    BY <1>1, <1>9 DEF Enqueue, TypeOK
  <2>3. accepted' = accepted /\ faults' = faults
    BY <1>9 DEF Enqueue
  <2>4. QED
    BY <1>1, <1>5, <2>1, <2>2, <2>3 DEF TypeOK
<1>10. CASE ClaimBatch(z) \/ EndClaim(z) \/ SendRefused(z) \/ ConnectionRefused(z)
  <2>1. \A n \in Messages : ~Sending(n) /\ ~Sending(n)'
    BY <1>1, <1>10 DEF Sending, ClaimBatch, EndClaim, SendRefused, ConnectionRefused, Goto, Restart, TypeOK
  <2>2. status' = status /\ accepted' = accepted /\ faults' = faults
    BY <1>10 DEF ClaimBatch, EndClaim, SendRefused, ConnectionRefused, rows
  <2>3. QED
    BY <1>5, <2>1, <2>2
<1>11. CASE SendAccepted(z)
  <2>1. /\ pc[z] = "send" /\ pc'[z] = "sent" /\ Current(z)' = Current(z)
        /\ status' = status /\ faults' = faults
        /\ accepted' = [accepted EXCEPT ![Current(z)] = @ + 1]
    BY <1>1, <1>8, <1>11 DEF SendAccepted, Accept, Goto, rows, TypeOK
  <2>2. \A n \in Messages : ~Sending(n) /\ (Sending(n)' <=> n = Current(z))
    BY <2>1 DEF Sending
  <2>3. QED
    BY <1>1, <1>5, <1>7, <2>1, <2>2 DEF TypeOK
<1>12. CASE SendUnheard(z)
  <2>1. /\ pc[z] = "send" /\ pc'[z] = "failed" /\ status' = status
        /\ accepted' = [accepted EXCEPT ![Current(z)] = @ + 1]
        /\ faults' = [faults EXCEPT ![Current(z)] = @ + 1]
    BY <1>1, <1>12 DEF SendUnheard, Accept, Fault, Goto, rows, TypeOK
  <2>2. \A n \in Messages : ~Sending(n) /\ ~Sending(n)'
    BY <2>1 DEF Sending
  <2>3. QED
    BY <1>1, <1>5, <1>7, <2>1, <2>2 DEF TypeOK
<1>13. CASE MarkSentThrows(z) \/ Die(z)
  <2>1. /\ pc[z] # "idle" /\ pc'[z] # "sent" /\ status' = status /\ accepted' = accepted
        /\ faults' = [faults EXCEPT ![Current(z)] = @ + 1]
    BY <1>1, <1>13 DEF MarkSentThrows, Die, Fault, Goto, Restart, rows, TypeOK
  <2>2. \A n \in Messages : ~Sending(n)' /\ (Sending(n) => n = Current(z))
    BY <2>1 DEF Sending
  <2>3. QED
    BY <1>1, <1>5, <1>7, <2>1, <2>2 DEF TypeOK
<1>14. CASE MarkSent(z)
  <2>1. /\ pc[z] = "sent" /\ pc'[z] # "sent" /\ accepted' = accepted /\ faults' = faults
        /\ status' = [status EXCEPT ![Current(z)] = "sent"]
    BY <1>1, <1>14 DEF MarkSent, Advance, TypeOK
  <2>2. \A n \in Messages : ~Sending(n)' /\ (Sending(n) <=> n = Current(z))
    BY <2>1 DEF Sending
  <2>3. QED
    BY <1>1, <1>5, <1>7, <2>1, <2>2 DEF TypeOK
<1>15. CASE MarkFailed(z)
  <2>1. /\ pc[z] = "failed" /\ pc'[z] # "sent" /\ accepted' = accepted /\ faults' = faults
        /\ status' = [status EXCEPT ![Current(z)] = "failed"]
    BY <1>1, <1>15 DEF MarkFailed, Advance, TypeOK
  <2>2. \A n \in Messages : ~Sending(n)' /\ ~Sending(n)
    BY <2>1 DEF Sending
  <2>3. QED
    BY <1>1, <1>5, <1>7, <2>1, <2>2 DEF TypeOK
<1>16. CASE RelayGoesAway \/ RelayComesBack
  <2>1. \A n \in Messages : Sending(n)' <=> Sending(n)
    BY <1>8, <1>16 DEF RelayGoesAway, RelayComesBack, Sending
  <2>2. QED
    BY <1>5, <1>16, <2>1 DEF RelayGoesAway, RelayComesBack, rows
<1> HIDE DEF Counted
<1>17. QED
  BY <1>2, <1>9, <1>10, <1>11, <1>12, <1>13, <1>14, <1>15, <1>16, Zenon DEF Next, Sweep

\* A row that is sent or given up is not claimable, so no step of the one sender is
\* about it; only the INSERT of a message touches a row outside the sweep.
LEMMA NextSettles ==
  ASSUME OneSweepInv, OneSender, Next, NEW m \in Messages, Settled(m)
  PROVE  status'[m] = status[m] /\ attempts'[m] = attempts[m] /\ accepted'[m] = accepted[m]
<1>1. TypeOK
  BY DEF OneSweepInv
<1>2. PICK z \in Senders : deployed = {z}
  BY <1>1, OneSenderIsAlone
<1>3. status[m] # "unqueued" /\ ~IsClaimable(m)
  BY <1>1, DeliveryAssumption DEF TypeOK, OneSweepInv, Settled, IsClaimable
<1>4. pc[z] # "idle" => Current(z) \in Messages /\ Current(z) # m
  BY <1>3, OneWorker
<1>5. CASE \E n \in Messages : Enqueue(n)
  BY <1>1, <1>3, <1>5 DEF Enqueue, TypeOK
<1>6. CASE Sweep(z) \/ Die(z)
  BY <1>1, <1>4, <1>6
     DEF Sweep, Die, ClaimBatch, EndClaim, SendAccepted, SendRefused, SendUnheard, ConnectionRefused,
         MarkSent, MarkSentThrows, MarkFailed, Accept, rows, TypeOK
<1>7. CASE RelayGoesAway \/ RelayComesBack
  BY <1>7 DEF RelayGoesAway, RelayComesBack, rows
<1>8. QED
  BY <1>2, <1>5, <1>6, <1>7 DEF Next

LEMMA NextOneSweep == ASSUME OneSweepInv, [Next]_vars PROVE OneSweepInv'
<1>1. CASE Next
  <2>1. TypeOK' /\ (OneSender' => OneSender) /\ deployed' = deployed
    BY <1>1, NextTypes DEF OneSweepInv, Next, OneSender
  <2>2. QED
    BY <1>1, <2>1, NextClaims, NextCounts DEF OneSweepInv
<1>2. CASE UNCHANGED vars
  BY <1>2 DEF OneSweepInv, TypeOK, OneSender, IsClaimable, Delivering, Current, vars
<1>3. QED
  BY <1>1, <1>2

\* With one sender, a message reaches the relay once, and again only for a lost answer, a
\* failed update or a process that died between the two.
THEOREM DuplicatesExplained == Spec => []DuplicatesHaveACause
<1>1. OneSweepInv => DuplicatesHaveACause
  <2>1. \A m \in Messages : TypeOK => accepted[m] \in Nat /\ faults[m] \in Nat
    BY DEF TypeOK
  <2>2. QED
    BY <2>1 DEF OneSweepInv, DuplicatesHaveACause
<1>2. QED
  BY <1>1, InitOneSweep, NextOneSweep, PTL DEF Spec

\* With one sender, no step changes the row of a message that was sent or given up, and
\* none hands it to the relay again.
THEOREM SettledStays == Spec => SettledIsFinal
<1>1. OneSweepInv /\ [Next]_vars
      => [OneSender => \A m \in Messages : Settled(m) =>
            status'[m] = status[m] /\ attempts'[m] = attempts[m] /\ accepted'[m] = accepted[m]]_vars
  BY NextSettles
<1>2. QED
  BY <1>1, InitOneSweep, NextOneSweep, PTL DEF Spec, SettledIsFinal

=============================================================================
