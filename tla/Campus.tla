------------------------------- MODULE Campus -------------------------------
(***************************************************************************)
(* News and the handbook (src/src/lib/news/service.ts, lib/handbook/       *)
(* service.ts), their slugs (lib/slug.ts) and their pages, on the pooled   *)
(* connections of Tenancy: what staff of several institutions write at the *)
(* same time and what visitors are shown.                                  *)
(*                                                                         *)
(* A request is one transaction: it reads a row, and decides on what it    *)
(* has read, and writes at most one row before it commits, so that its     *)
(* last write and its commit are one step. Text, order and paging of lists *)
(* and the review stamps are left out.                                     *)
(***************************************************************************)
EXTENDS Tenancy, Sequences

CONSTANTS
  PublicInstitution,   \* the one whose site this deployment shows
  Manuscripts,         \* what may be written, as [kind, institution, title, shown]
  slugify(_),          \* of a title; a slug is a sequence of words
  Suffixes,            \* the random suffixes
  MAX_ATTEMPTS,        \* 5 in the code
  Before,              \* sequences of entries that may be there at the start
  MaxRequests, MaxTime \* bounds

Kinds == {"news", "handbook"}

\* What a row of the two tables may hold at time t: the times of a publication and of an
\* expiry have come, and neither needs the other, as a draft can be expired too.
IsEntry(e, t) ==
  \/ /\ e.kind = "news"
     /\ e = [kind |-> "news", institution |-> e.institution, slug |-> e.slug,
             publishedAt |-> e.publishedAt, expiresAt |-> e.expiresAt]
     /\ e.publishedAt # NULL => e.publishedAt \in Nat /\ e.publishedAt <= t
     /\ e.expiresAt # NULL => e.expiresAt \in Nat /\ e.expiresAt <= t
  \/ /\ e.kind = "handbook"
     /\ e = [kind |-> "handbook", institution |-> e.institution, slug |-> e.slug,
             isPublished |-> e.isPublished, helpfulCount |-> e.helpfulCount]
     /\ e.helpfulCount \in Nat

\* The unique index of each table.
IsAt(e, kind, institution, slug) ==
  e.kind = kind /\ e.institution = institution /\ e.slug = slug

HasUniqueSlugs(site) ==
  \A i, j \in DOMAIN site :
    IsAt(site[i], site[j].kind, site[j].institution, site[j].slug) => i = j

ASSUME CampusAssumption ==
  /\ PublicInstitution \in Institutions
  /\ \A m \in Manuscripts : m.institution \in Institutions /\ m.kind \in Kinds
  /\ \A site \in Before :
       /\ site \in Seq({site[i] : i \in DOMAIN site})
       /\ HasUniqueSlugs(site) /\ \A i \in DOMAIN site : IsEntry(site[i], 0)
  /\ {MaxRequests, MaxTime} \subseteq Nat /\ MAX_ATTEMPTS \in Nat \ {0}
  /\ NULL \notin Nat

VARIABLES
  now,
  entries,   \* announcements and handbook entries, in the order of their making
  work,      \* what each request is doing, NULL if nothing
  begun,     \* requests so far
  told       \* ghost: the links handed out, the votes taken, the news withdrawn so far

vars == <<tenancyVars, now, entries, work, begun, told>>

-----------------------------------------------------------------------------
(* What is shown. *)

IsLive(e) ==
  /\ e.publishedAt # NULL /\ e.publishedAt <= now
  /\ e.expiresAt = NULL \/ e.expiresAt > now

IsShown(e) == IF e.kind = "news" THEN IsLive(e) ELSE e.isPublished

OfKind(kind, institution) ==
  {id \in DOMAIN entries : entries[id].kind = kind /\ entries[id].institution = institution}

\* listPublicAnnouncements and listPublishedHandbookEntries.
ListPublic(kind, institution) == {id \in OfKind(kind, institution) : IsShown(entries[id])}

listDraftAnnouncements(institution) ==
  {id \in OfKind("news", institution) : entries[id].publishedAt = NULL}

NoActor == [isStaff |-> FALSE, institution |-> NULL]

PageShows(e, actor) == IsShown(e) \/ (actor.isStaff /\ actor.institution = e.institution)

\* getAnnouncementBySlug and getHandbookEntryBySlug.
GetBySlug(kind, institution, slug, actor) ==
  {id \in OfKind(kind, institution) : entries[id].slug = slug /\ PageShows(entries[id], actor)}

-----------------------------------------------------------------------------
(* What is written. *)

NewEntry(job, slug, since) ==
  IF job.kind = "news"
  THEN [kind |-> "news", institution |-> job.institution, slug |-> slug,
        publishedAt |-> IF job.shown THEN since ELSE NULL, expiresAt |-> NULL]
  ELSE [kind |-> "handbook", institution |-> job.institution, slug |-> slug,
        isPublished |-> job.shown, helpfulCount |-> 0]

\* Mutant: the count is the one that was read, plus one.
Voted_FromRead(e, seen) == [e EXCEPT !.helpfulCount = seen.helpfulCount + 1]
Voted(e, seen) == [e EXCEPT !.helpfulCount = @ + 1]

\* An edit leaves the slug alone, whatever the question has become.
Edited(e, job) == [e EXCEPT !.isPublished = job.shown]

\* Mutant: publishing lifts an expiry.
Published_Anew(e) == [e EXCEPT !.publishedAt = now, !.expiresAt = NULL]
Published(e) == [e EXCEPT !.publishedAt = now]

Expired(e) == [e EXCEPT !.expiresAt = now]

Written(w, e) ==
  CASE w.job.op = "publish" -> Published(e)
    [] w.job.op = "expire"  -> Expired(e)
    [] w.job.op = "update"  -> Edited(e, w.job)
    [] w.job.op = "vote"    -> Voted(e, w.seen)

\* The staff of an institution act on its entries by id, and a visitor's vote is for the
\* public institution. The staff page offers an expiry where news is live; the action and
\* the service take any id, a draft's and an expired one's too.
Creations ==
  {[op |-> "create", kind |-> m.kind, institution |-> m.institution, title |-> m.title,
    shown |-> m.shown] : m \in Manuscripts}

Ids(kind) == {id \in DOMAIN entries : entries[id].kind = kind}

Changes ==
  [op: {"publish", "expire"}, kind: {"news"}, institution: Institutions, id: Ids("news")]
    \cup
  [op: {"update"}, kind: {"handbook"}, institution: Institutions, id: Ids("handbook"), shown: BOOLEAN]
    \cup
  [op: {"vote"}, kind: {"handbook"}, institution: {PublicInstitution}, id: Ids("handbook")]

\* Idle requests are alike, and one of them is taken.
Begin(r, job) ==
  /\ work[r] = NULL /\ r = CHOOSE q \in Requests : work[q] = NULL
  /\ begun < MaxRequests
  /\ withTenant(r, job.institution)
  /\ work' = [work EXCEPT ![r] = [job |-> job, seen |-> NULL, attempt |-> 0, since |-> now]]
  /\ begun' = begun + 1
  /\ UNCHANGED <<now, entries, told>>

\* The request ends, and its transaction is committed.
End(r) ==
  /\ Commit(r)
  /\ work' = [work EXCEPT ![r] = NULL]
  /\ UNCHANGED <<now, begun>>

\* The request ends with an error.
Fail(r) ==
  /\ Abort(r)
  /\ work' = [work EXCEPT ![r] = NULL]
  /\ UNCHANGED <<now, entries, begun, told>>

-----------------------------------------------------------------------------
(* withUniqueSlug *)

Taken(job, slug) == \E id \in OfKind(job.kind, job.institution) : entries[id].slug = slug

\* The plain slug first, and then one with a random suffix.
Candidates(w) ==
  IF w.attempt = 0 THEN {slugify(w.job.title)}
  ELSE {Append(slugify(w.job.title), s) : s \in Suffixes}

Insert(r, slug) ==
  LET w == work[r] IN
  /\ ~Taken(w.job, slug)
  /\ entries' = Append(entries, NewEntry(w.job, slug, w.since))
  /\ told' = [told EXCEPT
        !.links = @ \cup {[kind |-> w.job.kind, institution |-> w.job.institution,
                           slug |-> slug, id |-> Len(entries) + 1]},
        !.votes = Append(@, 0)]
  /\ End(r)

\* Mutant: a collision does not use an attempt up.
NextAttempt_Same(attempt) == attempt
NextAttempt(attempt) == attempt + 1

\* The savepoint is rolled back and the transaction goes on, unless this was the last.
Collide(r, slug) ==
  LET w == work[r] IN
  /\ Taken(w.job, slug)
  /\ IF w.attempt < MAX_ATTEMPTS - 1
     THEN /\ work' = [work EXCEPT ![r].attempt = NextAttempt(@)]
          /\ UNCHANGED <<tenancyVars, now, entries, begun, told>>
     ELSE Fail(r)

Attempt(r) ==
  /\ work[r].job.op = "create"
  /\ \E slug \in Candidates(work[r]) : Insert(r, slug) \/ Collide(r, slug)

-----------------------------------------------------------------------------
(* The other commands. *)

\* The WHERE of every statement, and the policy besides.
Own(r) ==
  {id \in OfKind(work[r].job.kind, work[r].job.institution) :
     id = work[r].job.id /\ Visible(held[r], entries[id])}

Reads == {"publish", "update", "vote"}

\* Nothing is done for a row that is not there, for news that is published already, and
\* for a vote on a draft.
Refused(job, e) ==
  \/ job.op = "publish" /\ e.publishedAt # NULL
  \/ job.op = "vote" /\ ~e.isPublished

Load(r) ==
  LET w == work[r] IN
  /\ w.job.op \in Reads /\ w.seen = NULL
  /\ IF \E id \in Own(r) : ~Refused(w.job, entries[id])
     THEN /\ work' = [work EXCEPT ![r].seen = entries[w.job.id]]
          /\ UNCHANGED <<tenancyVars, now, entries, begun, told>>
     ELSE End(r) /\ UNCHANGED <<entries, told>>

Write(r) ==
  LET w == work[r] IN
  /\ w.job.op # "create" /\ (w.job.op \in Reads => w.seen # NULL)
  /\ entries' = [id \in DOMAIN entries |->
                   IF id \in Own(r) THEN Written(w, entries[id]) ELSE entries[id]]
  /\ told' = [told EXCEPT
        !.votes = [id \in DOMAIN @ |-> IF w.job.op = "vote" /\ id \in Own(r) THEN @[id] + 1 ELSE @[id]],
        !.withdrawn = IF w.job.op = "expire" THEN @ \cup Own(r) ELSE @]
  /\ End(r)

Proceed(r) ==
  /\ work[r] # NULL
  /\ \/ Attempt(r)
     \/ Load(r)
     \/ Write(r)

\* An error of the database or of the process, at any moment before the commit.
Dies(r) == work[r] # NULL /\ Fail(r)

Tick ==
  /\ now < MaxTime
  /\ now' = now + 1
  /\ UNCHANGED <<tenancyVars, entries, work, begun, told>>

Init ==
  /\ TenancyInit
  /\ now = 0 /\ begun = 0
  /\ entries \in Before
  /\ work = [r \in Requests |-> NULL]
  /\ told = [links |-> {[kind |-> entries[id].kind, institution |-> entries[id].institution,
                         slug |-> entries[id].slug, id |-> id] : id \in DOMAIN entries},
             votes |-> [id \in DOMAIN entries |->
                          IF entries[id].kind = "handbook" THEN entries[id].helpfulCount ELSE 0],
             withdrawn |-> {id \in DOMAIN entries :
                              entries[id].kind = "news" /\ entries[id].expiresAt # NULL}]

Next ==
  \/ \E r \in Requests : \E job \in Creations \cup Changes : Begin(r, job)
  \/ \E r \in Requests : Proceed(r) \/ Dies(r)
  \/ Tick

Spec     == Init /\ [][Next]_vars
FairSpec == Spec /\ \A r \in Requests : WF_vars(Proceed(r))

-----------------------------------------------------------------------------
(* Properties. *)

\* docs/verification/tenant-isolation.md: "No test yet of a pooled connection inheriting
\* a previous request's tenant". A statement issued outside of a transaction, on whatever
\* connection it gets and however that was used before, finds no row of any tenant; one
\* inside finds those of its own tenant and no other, with or without a WHERE; and what a
\* request has read is its tenant's (client.ts:45-57, 0001_rls.sql:65-113).
TenantsAreApart ==
  /\ \A c \in Free, id \in DOMAIN entries : ~Visible(c, entries[id])
  /\ \A r \in {q \in Requests : work[q] # NULL} :
       /\ \A id \in DOMAIN entries :
            Visible(held[r], entries[id]) <=> entries[id].institution = work[r].job.institution
       /\ work[r].seen # NULL => work[r].seen.institution = work[r].job.institution

\* However commands interleave, an entry loses neither its address nor a vote. A link
\* that was handed out goes on leading to the same entry and to it alone, whoever takes
\* or edits the same title; and the count of an entry is the number of votes that were
\* taken for it, also while it was edited or voted on by others (slug.ts:41-56,
\* handbook/service.ts:104-164).
LinksAndVotesStand ==
  /\ \A l \in told.links :
       {id \in OfKind(l.kind, l.institution) : entries[id].slug = l.slug} = {l.id}
  /\ \A id \in DOMAIN entries :
       entries[id].kind = "handbook" => entries[id].helpfulCount = told.votes[id]

\* The site tells one story. A visitor finds on the list exactly what its own page shows,
\* a member of another institution no more than a visitor, the staff of the house every
\* entry; news that is shown is neither a draft nor withdrawn, and news that is not shown
\* is one or both; and what was withdrawn never comes back, not by a publication that was
\* under way or is made afterwards, and not where it was withdrawn as a draft
\* (news/service.ts:82-187, handbook/service.ts:167-206).
SiteIsOneStory ==
  \A id \in DOMAIN entries :
    LET e == entries[id]
        Page(actor) == id \in GetBySlug(e.kind, e.institution, e.slug, actor)
        listed == id \in ListPublic(e.kind, e.institution)
    IN /\ listed <=> Page(NoActor)
       /\ \A i \in Institutions :
            Page([isStaff |-> TRUE, institution |-> i]) <=> listed \/ i = e.institution
       /\ e.kind = "news" =>
            LET draft == id \in listDraftAnnouncements(e.institution)
                withdrawn == id \in told.withdrawn
            IN IF listed THEN ~draft /\ ~withdrawn ELSE draft \/ withdrawn

\* A request ends. In particular the search for a free slug does, with an entry or with
\* an error, even when every suffix is taken (slug.ts:46-56).
EveryRequestEnds == \A r \in Requests : work[r] # NULL ~> work[r] = NULL

=============================================================================
