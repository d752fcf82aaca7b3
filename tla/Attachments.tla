----------------------------- MODULE Attachments -----------------------------
(***************************************************************************)
(* Filing with evidence: submitGrievanceAction (my/new/actions.ts), which  *)
(* files the grievance, then stores each file on disk (storage/local.ts)   *)
(* and writes the row that names it (addAttachment), in three places that  *)
(* share no transaction. The process may die between any two of them, and  *)
(* the answer to a COMMIT may be lost.                                     *)
(*                                                                         *)
(* The register of grievances is Lifecycle's: what the commands do to it   *)
(* is atomic, as Commands shows. Storage keys are random, so uploads do    *)
(* not meet and one filing at a time is enough; everything else that may   *)
(* happen to its grievance meanwhile is a step of the register.            *)
(***************************************************************************)
EXTENDS Policy, Naturals, Sequences, FiniteSets

CONSTANTS
  Users, UserRole, CategoryTracks,   \* as in Lifecycle
  Institution,                       \* the tenant of every modelled user
  MAX_ATTACHMENTS,                   \* files one filing may carry
  Keys,                              \* storage keys that can be drawn
  MaxCases, MaxEntries               \* bounds: grievances, and entries of all trails

ASSUME KeysAssumption == NULL \notin Keys /\ IsFiniteSet(Keys)
ASSUME LimitsAssumption == {MAX_ATTACHMENTS, MaxCases, MaxEntries} \subseteq Nat

VARIABLES
  cases,        \* the register
  disk,         \* what is stored under each key: NULL, or how much of the file
  attachments,  \* the rows of the attachments table
  filing,       \* the action that is running
  mishaps       \* keys a fault has touched: a crash, a lost answer, a failed removal

vars == <<cases, disk, attachments, filing, mishaps>>

Register == INSTANCE Lifecycle

Actor(u) == [id |-> u, role |-> UserRole[u], institutionId |-> Institution]

\* A case as a row of its table.
Row(n) == [institutionId |-> Institution,
           submittedById |-> cases[n].submittedById, isAnonymous |-> cases[n].isAnonymous,
           track |-> cases[n].track, status |-> cases[n].status,
           assignedToId |-> cases[n].assignedToId, appealOfId |-> cases[n].appealOfId]

Entries == Cardinality(UNION {{n} \X DOMAIN cases[n].history : n \in DOMAIN cases})
HasRoom == Entries < MaxEntries

\* What a student may send: the bytes say what they are, whatever the form declares,
\* and may exceed the cap within the head that is sniffed or after it.
AllowedType == {"application/pdf", "image/png", "image/jpeg", "image/webp", "text/plain"}
Upload == [bytes: {"text/plain", NULL}, declared: {"text/plain", "image/png", NULL},
           size: {"fits", "over in the head", "over after the head"}]

sniff(file) == IF file.bytes \in AllowedType THEN file.bytes ELSE NULL

\* Refused before anything is written.
Refused(file) ==
  \/ file.size = "over in the head"
  \/ sniff(file) = NULL
  \/ file.declared # NULL /\ file.declared # sniff(file)

-----------------------------------------------------------------------------
NoFiling == [pc |-> "idle", user |-> NULL, case |-> NULL, left |-> 0, key |-> NULL,
             fits |-> FALSE, type |-> NULL]

Init ==
  /\ Register!Init
  /\ disk = [k \in Keys |-> NULL]
  /\ attachments = {}
  /\ filing = NoFiling
  /\ mishaps = {}

\* The loop's head: the next file, or the redirect to the new grievance.
NextFile(f) ==
  IF f.left <= 1 THEN NoFiling
  ELSE [f EXCEPT !.pc = "put", !.left = @ - 1, !.key = NULL, !.type = NULL]

\* Too many files return to the form before anything is filed.
SubmitGrievance(u, track, anonymous, files) ==
  /\ filing.pc = "idle"
  /\ files <= MAX_ATTACHMENTS
  /\ Len(cases) < MaxCases /\ HasRoom
  /\ Register!File(u, track, anonymous)
  /\ filing' = IF files = 0 THEN NoFiling
               ELSE [NoFiling EXCEPT !.pc = "put", !.user = u, !.case = Len(cases) + 1,
                                     !.left = files]
  /\ UNCHANGED <<disk, attachments, mishaps>>

RefuseFile ==
  /\ filing.pc = "put"
  /\ \E file \in Upload : Refused(file)
  /\ filing' = NextFile(filing)
  /\ UNCHANGED <<cases, disk, attachments, mishaps>>

\* put opens a fresh key and streams into it.
\* Mutant: the row may be written as soon as the key is known.
AfterOpen_Row == "row"
AfterOpen == "write"

OpenFile(k) ==
  /\ filing.pc = "put"
  /\ disk[k] = NULL /\ \A a \in attachments : a.storageKey # k
  /\ \E file \in Upload :
       /\ ~Refused(file)
       /\ filing' = [filing EXCEPT !.pc = AfterOpen, !.key = k, !.type = sniff(file),
                                   !.fits = (file.size = "fits")]
  /\ disk' = [disk EXCEPT ![k] = "part"]
  /\ UNCHANGED <<cases, attachments, mishaps>>

FinishFile ==
  /\ filing.pc = "write" /\ filing.fits
  /\ disk' = [disk EXCEPT ![filing.key] = "whole"]
  /\ filing' = [filing EXCEPT !.pc = "row"]
  /\ UNCHANGED <<cases, attachments, mishaps>>

\* The stream exceeds the cap, or breaks, and put removes what it wrote.
AbandonFile ==
  /\ filing.pc = "write"
  /\ disk' = [disk EXCEPT ![filing.key] = NULL]
  /\ filing' = NextFile(filing)
  /\ UNCHANGED <<cases, attachments, mishaps>>

WriteRow ==
  /\ attachments' = attachments \cup
       {[storageKey |-> filing.key, grievanceId |-> filing.case, contentType |-> filing.type]}
  /\ Register!Note(filing.user, filing.case, "attachment_added", "public")

AddAttachment ==
  /\ filing.pc = "row" /\ HasRoom
  /\ canComment(Actor(filing.user), Row(filing.case))
  /\ WriteRow
  /\ filing' = NextFile(filing)
  /\ UNCHANGED <<disk, mishaps>>

\* addAttachment returns null, which the action takes for success: the grievance was
\* withdrawn, from another tab, since it was filed.
AttachmentDenied ==
  /\ filing.pc = "row"
  /\ ~canComment(Actor(filing.user), Row(filing.case))
  /\ filing' = NextFile(filing)
  /\ UNCHANGED <<cases, disk, attachments, mishaps>>

\* addAttachment throws, and the action drops the file.
AttachmentFails ==
  /\ filing.pc = "row"
  /\ filing' = [filing EXCEPT !.pc = "delete"]
  /\ UNCHANGED <<cases, disk, attachments, mishaps>>

\* The row is committed but the answer does not arrive.
AnswerLost ==
  /\ filing.pc = "row" /\ HasRoom
  /\ canComment(Actor(filing.user), Row(filing.case))
  /\ WriteRow
  /\ mishaps' = mishaps \cup {filing.key}
  /\ filing' = [filing EXCEPT !.pc = "delete"]
  /\ UNCHANGED disk

\* storage.delete; its own failure is swallowed.
DeleteFile ==
  /\ filing.pc = "delete"
  /\ \/ disk' = [disk EXCEPT ![filing.key] = NULL] /\ UNCHANGED mishaps
     \/ mishaps' = mishaps \cup {filing.key} /\ UNCHANGED disk
  /\ filing' = NextFile(filing)
  /\ UNCHANGED <<cases, attachments>>

\* The process dies; the disk and the database stay as they are.
Crash ==
  /\ filing.pc # "idle"
  /\ filing' = NoFiling
  /\ mishaps' = IF filing.key = NULL THEN mishaps ELSE mishaps \cup {filing.key}
  /\ UNCHANGED <<cases, disk, attachments>>

FilingStep ==
  \/ RefuseFile \/ (\E k \in Keys : OpenFile(k)) \/ FinishFile \/ AbandonFile
  \/ AddAttachment \/ AttachmentDenied \/ AttachmentFails \/ AnswerLost \/ DeleteFile

=============================================================================
