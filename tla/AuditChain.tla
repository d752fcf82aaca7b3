----------------------------- MODULE AuditChain -----------------------------
(***************************************************************************)
(* The tamper-evident trail of one grievance (src/src/lib/grievance/       *)
(* audit.ts): nextEvent builds it, verifyChain reads it back.              *)
(*                                                                         *)
(* The application appends. Somebody with the table owner's rights changes *)
(* the stored rows once, and the application goes on appending. What the   *)
(* verdict says from then on is the question.                              *)
(*                                                                         *)
(* The hash is taken to be free of collisions: a hash is what was hashed.  *)
(***************************************************************************)
EXTENDS Naturals, FiniteSets, Sequences

CONSTANTS
  None,          \* null in the code
  Contents,      \* type, actor, payload and time of an event, taken together
  Texts,         \* remarks an event may carry; a remark may also be None
  Visibilities,  \* visibility and actor role: stored, not hashed
  MaxEvents      \* bound: rows of the trail

ASSUME TrailAssumption ==
  /\ None \notin Contents \cup Texts
  /\ MaxEvents \in Nat \ {0}

GENESIS_HASH == <<"genesis">>

-----------------------------------------------------------------------------
(* The hash of an event. *)

OrElse(value, default) == IF value = None THEN default ELSE value

\* What is hashed. A missing remark and an empty one are the same bytes, and so are a
\* missing prevHash and GENESIS_HASH.
\* Mutant: the remark is left out.
canonical_NoRemark(e) == <<"v1", OrElse(e.prevHash, GENESIS_HASH), e.seq, e.content>>
canonical(e) ==
  <<"v1", OrElse(e.prevHash, GENESIS_HASH), e.seq, e.content, OrElse(e.remark, "")>>

hashEvent(e) == canonical(e)
WithHash(e)  == [e EXCEPT !.hash = hashEvent(e)]

-----------------------------------------------------------------------------
(* The next link, and the verdict. *)

\* previous is what a LIMIT 1 has found: a list of one event, or of none.
\* Mutant: the link is the one the last event has, and not to it.
LinkOf_Same(previous) == IF previous = <<>> THEN GENESIS_HASH ELSE previous[1].prevHash
LinkOf(previous) == IF previous = <<>> THEN GENESIS_HASH ELSE previous[1].hash

nextEvent(previous, draft) ==
  WithHash([content    |-> draft.content,
            remark     |-> draft.remark,
            visibility |-> draft.visibility,
            seq        |-> IF previous = <<>> THEN 1 ELSE previous[1].seq + 1,
            prevHash   |-> LinkOf(previous),
            hash       |-> None])

SeqOk(events, i) == events[i].seq = i

\* Mutant: the links are not followed.
PrevOk_Any(events, i) == TRUE
PrevOk(events, i) ==
  IF i = 1 THEN events[i].prevHash \in {None, GENESIS_HASH}
           ELSE events[i].prevHash = events[i - 1].hash

HashOk(events, i) == hashEvent(events[i]) = events[i].hash

IsBreak(events, i) == ~(SeqOk(events, i) /\ PrevOk(events, i) /\ HashOk(events, i))

Reason(events, i) ==
  CASE ~SeqOk(events, i) -> "seq-gap"
    [] SeqOk(events, i) /\ ~PrevOk(events, i) -> "prev-mismatch"
    [] OTHER -> "hash-mismatch"

verifyChain(events) ==
  LET breaks == {i \in DOMAIN events : IsBreak(events, i)} IN
  IF breaks = {} THEN [ok |-> TRUE, length |-> Len(events)]
  ELSE LET first == CHOOSE i \in breaks : \A j \in breaks : i <= j IN
       [ok |-> FALSE, brokenAtSeq |-> events[first].seq, reason |-> Reason(events, first)]

-----------------------------------------------------------------------------
(* The table. *)

VARIABLES
  rows,    \* the stored events of the grievance
  change   \* what was done to them behind the application's back

table == <<rows, change>>

\* ORDER BY seq: the i-th row is the one that i - 1 rows precede.
Rank(S, e) == Cardinality({d \in S : d.seq < e.seq})
InOrder(S) == [i \in 1 .. Cardinality(S) |-> CHOOSE e \in S : Rank(S, e) = i - 1]

Trail   == InOrder(rows)
Newest  == IF rows = {} THEN <<>> ELSE <<Trail[Len(Trail)]>>
Verdict == verifyChain(Trail)

TrailInit ==
  /\ rows = {}
  /\ change = [kind |-> "none"]

Drafts == [content: Contents, remark: (Texts \ {""}) \cup {None}, visibility: Visibilities]

AppendEvent(draft) ==
  /\ Cardinality(rows) < MaxEvents
  /\ rows' = rows \cup {nextEvent(Newest, draft)}
  /\ UNCHANGED change

-----------------------------------------------------------------------------
(* Changes behind the application's back: one, at any time. *)

Hashes == {e.hash : e \in rows} \cup {GENESIS_HASH}

Values(field) ==
  CASE field = "content"    -> Contents
    [] field = "remark"     -> Texts \cup {None}
    [] field = "visibility" -> Visibilities
    [] field = "seq"        -> (0 .. MaxEvents + 1) \ {e.seq : e \in rows}
    [] field = "prevHash"   -> Hashes \cup {None}
    [] field = "hash"       -> Hashes

Fields == {"content", "remark", "visibility", "seq", "prevHash", "hash"}

\* The change is to something the hash covers, and to other bytes.
HashCovers(field, old, new) ==
  \/ field \in {"content", "seq", "hash"}
  \/ field = "remark" /\ {old, new} # {None, ""}
  \/ field = "prevHash" /\ {old, new} # {None, GENESIS_HASH}

EditRow(e, field, value) ==
  /\ change.kind = "none"
  /\ e[field] # value
  /\ rows' = (rows \ {e}) \cup {[e EXCEPT ![field] = value]}
  /\ change' = [kind |-> "edit", at |-> e.seq, field |-> field,
                hashed |-> HashCovers(field, e[field], value)]

DeleteRow(e) ==
  /\ change.kind = "none"
  /\ rows' = rows \ {e}
  /\ change' = [kind |-> "delete", at |-> e.seq, last |-> e = Trail[Len(Trail)]]

\* Rows i .. j written anew, and their links and hashes recomputed.
Rewritten(trail, i, j, content) ==
  LET new[k \in i .. j] ==
        IF k = i THEN WithHash([trail[k] EXCEPT !.content = content])
                 ELSE WithHash([trail[k] EXCEPT !.prevHash = new[k - 1].hash])
  IN new

RewriteRows(i, j, content) ==
  LET new == Rewritten(Trail, i, j, content) IN
  /\ change.kind = "none"
  /\ Trail[i].content # content
  /\ rows' = {e \in rows : e.seq \notin i .. j} \cup {new[k] : k \in i .. j}
  /\ change' = [kind |-> "rewrite", at |-> j, last |-> j = Len(Trail)]

TrailNext ==
  \/ \E draft \in Drafts : AppendEvent(draft)
  \/ \E e \in rows, field \in Fields : \E value \in Values(field) : EditRow(e, field, value)
  \/ \E e \in rows : DeleteRow(e)
  \/ \E i, j \in DOMAIN Trail, content \in Contents : i <= j /\ RewriteRows(i, j, content)

TrailSpec == TrailInit /\ [][TrailNext]_table

-----------------------------------------------------------------------------
(* Properties. *)

\* A chain that only the application wrote verifies, whatever its events carry.
HonestChainVerifies ==
  change.kind = "none" => Verdict = [ok |-> TRUE, length |-> Cardinality(rows)]

\* audit.ts:8: "Editing or deleting any historical row changes that row's hash", and
\* audit.ts:13: "they cannot rewrite *part* of it". Tampering is found, where it was done,
\* and stays found however many events follow: an edit of anything the hash covers is
\* named by its seq (a changed seq by that or by the hole it leaves), a row removed from
\* the middle shows as a gap right behind it, and rows rewritten with their hashes
\* recomputed break the link of the first row that was not.
TamperingIsPlaced ==
  /\ change.kind = "edit" /\ change.hashed =>
       ~Verdict.ok /\ (change.field = "seq" \/ Verdict.brokenAtSeq = change.at)
  /\ change.kind = "delete" /\ ~change.last =>
       ~Verdict.ok /\ Verdict.reason = "seq-gap" /\ Verdict.brokenAtSeq = change.at + 1
  /\ change.kind = "rewrite" /\ ~change.last =>
       ~Verdict.ok /\ Verdict.reason = "prev-mismatch" /\ Verdict.brokenAtSeq = change.at + 1

=============================================================================
