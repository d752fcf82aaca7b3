# SINC-P: specifications, model checking and proofs

SINC-P is a grievance service for colleges: students file grievances, staff work on
them against a statutory clock, every step goes into a hash-chained audit trail, and
people are told by mail. This directory holds TLA+ models of it, the TLC runs
that check them on small instances, and proofs that TLAPS checks for every value of
the constants. Paths in the modules and below are relative to the repository's `src/`
unless they name a file at its root; module comments shorten
`src/lib/grievance/commands.ts` to `commands.ts` and so on.

## 1. The system

| Component | State it keeps | Operations | Talks to |
|---|---|---|---|
| Policy (`grievance/policy.ts`) | none: tables of transitions, roles, tracks | `canView`, `canSetStatus`, `canAssign`, `canComment`, ... | asked by every command and query |
| Commands (`grievance/commands.ts`, `_internal.ts`, `reference.ts`, `closeGrievance` in `queries.ts`) | `grievances`, `grievance_events`, `notifications` | submit, transition, withdraw, close, assign, remark, attach, appeal; bulk forms run the single one in a loop | policy, audit chain, outbox; each in one PostgreSQL transaction |
| Audit chain (`grievance/audit.ts`) | `seq`, `prevHash`, `hash` of the events | `nextEvent`, `verifyChain` | called by `appendEvent` |
| Outbox and sender (`notify/*`, `scripts/send-notifications.ts`) | `notifications.status`, `attempts` | `enqueue`, `claimBatch`, `markSent`, `markFailed`, sweep | commands and watchdog enqueue; the sender talks to a mail relay |
| SLA watchdog (`agents/sla-watchdog.ts`, `scripts/run-agents.ts`) | `sla_breached` events, breach mails | sweep of one institution, sweep of all | reads what commands write, appends to the same trails |
| SLA clock (`grievance/sla.ts`, `components/ui/sla.ts`, `wasBreached` in `compliance.ts`) | `dueAt`, `resolvedAt`, `closedAt` | `computeDueAt`, `slaState`, `computeSlaState`, `wasBreached` | commands set the columns; queue, badge, report and watchdog read them |
| Sessions and login (`auth/session.ts`, `auth/ratelimit.ts`, login action) | sessions, rate-limit buckets, `users.isActive` | login, logout, revoke, `hit` | administration revokes what login creates |
| Administration (`admin/service.ts`) | users, categories, settings | roles, activation, category tree | sessions, policy |
| Attachments (`storage/local.ts`, filing action, download route) | files on disk, attachment rows | put, delete, read | `submitGrievance` and `addAttachment` of commands |
| Queries and pages (`grievance/queries.ts`, `app/*`) | none: each page reads in a few transactions | lists, queue, case pages, status form | what commands write, the policy |
| Compliance, statistics (`compliance.ts`, `stats.ts`) | none: counts over the tables | report, CSV, public numbers with suppression | reads grievances |
| Legacy import, seed (`scripts/*`) | none of their own | one transaction per dump; institutions, then their cases | write accounts, categories, grievances and trails beside the live system |
| Handbook and news (`handbook`, `news`, `slug.ts`) | entries with slugs, votes, dates | create, edit, publish, expire, vote | pages of the public site |
| AI helpers (`ai/*`) | suggestions | triage, patterns of similar cases | an outside model service; patterns are on the queue page |
| Tenant isolation (`db/client.ts`, `drizzle/0001_rls.sql`) | the tenant setting of a transaction | `withTenant`, `withoutTenantScope` | everything |

What is hard in it:

- **Interleaving.** Nothing serialises the commands but PostgreSQL's read committed
  isolation, row locks taken by UPDATE, and unique indexes. Commands read a row
  without a lock, decide on it, and write later.
- **Two keys that several writers compute and race for:** the `seq` of an event and the
  reference of a grievance. Both are retried in savepoints.
- **Delivery.** The sender's locks are released before it sends, the relay may take a
  message and be heard too late, processes die between the send and the bookkeeping.
- **One long transaction** (a sweep) beside many short ones.
- **Four definitions of "late"** over three timestamps that an appeal leaves behind.
- **Pages of several transactions,** and rules of visibility written twice, in TypeScript
  and in SQL.
- **Disk and database** share no transaction; nor do the two steps of the seed.
- **Pooled connections** that carry the tenant of a request as a setting.

What makes each component correct is stated in its module; the properties are listed
with the runs below. The hazards they answer are in `PROJECT.json`, each at its line.

## 2. Modules

| Module | Models | Needs |
|---|---|---|
| `Policy` | the rules of `policy.ts` as operators, and the SQL scope that repeats `canView` | – |
| `Commands` | the write side, statement by statement | `Policy` |
| `CommandsProperties` | its properties, and the strengthening that makes them inductive | `Commands` |
| `Lifecycle` | what the commands promise: one atomic register of cases and histories | `Policy` |
| `CommandsRefinement` | the refinement mapping from `Commands` to `Lifecycle` | both |
| `CommandsProofs` | theorems about `Commands` and its refinement | `CommandsRefinement`, TLAPS |
| `AuditChain` | `nextEvent` and `verifyChain`, and a trail whose stored rows are changed once | – |
| `Outbox`, `OutboxProofs` | delivery: senders, rows, the relay | TLAPS |
| `Watchdog`, `WatchdogProofs` | sweeps of one institution beside people who work on the cases | `Policy`; TLAPS |
| `SlaClock` | due dates and the four ways of being late, for one grievance | `Policy` |
| `CaseProofs` | theorems about `SlaClock` and `AuditChain` | both, TLAPS |
| `Budget` | what the rate limiter promises: one budget per key and window | – |
| `RateLimit` | its two stores, Map and table | `Budget` |
| `Access` | login, sessions, administration of accounts | `RateLimit` |
| `AccessProofs` | theorems about `Access` | `Access`, TLAPS |
| `Attachments` | filing with files: disk, rows and the action between them | `Policy`, `Lifecycle` (as the register it acts on) |
| `Reads` | what each list, page and download returns to a viewer, as operators | `Policy` |
| `Portal` | people looking at pages while others act; composes `Lifecycle`, `Attachments`, `Reads` | those three |
| `PortalProofs` | theorems about `Portal` | `Portal`, TLAPS |
| `Reports` | public figures, compliance report, order of the queue, patterns, as operators | `Policy` |
| `Loading` | the legacy import and the seed beside live filings, with the reports on the result | `Reports` |
| `LoadingProofs` | theorems about `Loading` | `Loading`, TLAPS |
| `Tenancy` | the tenant setting of pooled connections, and the row policies | – |
| `Campus` | news and handbook requests of two institutions on those connections | `Tenancy` |
| `CampusProofs` | theorems about `Campus` | `Campus`, TLAPS |
| `MC*` | the small instances for TLC | the module they name |

How the models correspond to the code (`PROJECT.json` maps each definition to lines):

**Commands.** A transaction `t` has a program counter `pc[t]` whose labels are the
statements of a command: `number` and `insert` (reference and row), `update`,
`read` and `append` (the event), `commit`. Starting a command reads the grievance and
evaluates the policy, and keeps what was read in `seen[t]`. Committed rows are
`grievances`, `events` and `outbox`; what a transaction has written and not committed
is in `newRows[t]`, `newEvents[t]`. An UPDATE waits while another transaction has the
row in `newRows`, and re-evaluates its WHERE clause on the version it then finds. An
INSERT waits while another transaction has inserted the same unique key, fails if that
one commits, and is retried from its savepoint up to the limit in the code. The outbox
rows of a command are written by the commit action, since nobody can see them earlier
and their dedupe keys never make one command wait for another here. A reference
stands for the row that has it. A hash is the tuple of the fields it covers: hashes
are taken to be free of collisions.

**Lifecycle.** One action per kind of command, each atomic, on a sequence of cases
with their histories. `ImplementsLifecycle` says that every commit of `Commands` is
one such step on the *current* row, although the guard was evaluated on an older one. Histories are put in the
order of the `seq` of their events by the rank of each, with no recursion, so that this can be proved too.

**Access.** A request `r` has a program counter and what it has read: the account, the
session, and in `actor[r]` who it acts for, as `getSession` returned it. Each action is
one transaction; what the code does between two awaits without touching shared state
(hashing, comparing) is part of the neighbouring one. `HitOne` is one of the two hits
of a login, in either order. A restart ends every request and empties the Map. `since`,
`target`, `revoked` and `deactivations` are ghosts, as are `grants` and `refused` of the
limiter, which make its answers part of the state.

**Outbox.** A claim locks rows until its own short transaction ends (`EndClaim`) and
leaves them pending; the batch is worked through afterwards. Each send ends in one of
four ways: accepted, refused, accepted and not heard, or connection refused, which
ends the process (the socket has no error listener). `MarkSentThrows` is the UPDATE
after an accepted send failing; `Die` is the process being killed anywhere.
`deployed` is the set of sender processes of an installation.

**Watchdog.** The statements of a sweep that others can tell apart: reading the overdue
cases, reading the flags they have, choosing the next case, reading its tail,
inserting, committing. Commands of people are single steps, which is what the refinement of
`Commands` justifies. `Rested` is a timing assumption: a statement that waits for
nobody finishes long before the timer fires again. Without it a sweep could stand still
between two statements for days while the other runner goes round; that adds states
and no new order of the reads and writes.

**AuditChain.** The application appends; once, at any moment, somebody with the rights
of the table owner edits a field, deletes a row or rewrites a stretch of rows with
recomputed hashes. The verdict is the code's, on the rows in the order of their `seq`.

**SlaClock.** Time is counted in half hours of UTC, the unit of the Indian offset; the
last half hour of an Indian day stands for its last millisecond, at which cases are
due. One grievance is followed, since clocks do not depend on each other; an appeal is
its filing or its move to `appealed`, depending on which of its two rows is followed.

**Attachments and Portal.** The register is `Lifecycle`, so a command is one step, which
`ImplementsLifecycle` justifies. A filing is an action of many steps: the grievance, then
for each file the bytes under a random key, then the row that names it, and the removal
of the bytes when the row fails. It may die between any two; the row may fail to be
written, its commit may be lost on the way back, and the removal may fail. `mishaps`
collects the keys that a fault touched. A page (`page`) is what it has read
so far: the row, with the policy asked of it, and then the trail in a later transaction.
`Reads` holds the queries: a list is the rows its WHERE clause lets through, masked as
`toActorView` masks them; the buttons of a page are the moves its JSX renders.

**Loading and Reports.** An import is one transaction with a private record of what it has
inserted; its statements are grouped where nobody can tell them apart (accounts,
categories, cases with their trails) and it may die after each. A unique value inserted
by an unfinished import makes another one wait, as the index does. The seed makes
the institution in one transaction and fills it in another. Grievances are records with
the columns that reports read, days are integers, a text is the set of its terms, a
rate is a fraction and a median is kept doubled. The category of a filing decides its track and the track its
window, in calendar days here (the working days are in `SlaClock`). Lists are put in order by the rank of their
elements (`InOrder`): medians, the queue with the undated cases last, the scan for patterns, and the remarks of a trail by
date, those of one date in the order of the dump. `Reports` is pure: its operators are the
code's computations, from the rows in scope to the published figures, and from the scan
limit through the union of pairs to the patterns, of which the largest `PATTERN_LIMIT` are kept. Left out are the
cohesion of a group, which in the code decides between groups of one size (here their roots do), the cut of its
shared terms to six, and the rounding of percentages.

**Tenancy and Campus.** A connection keeps what was set on it until the end of its
transaction takes it back; a request takes a free connection, sets the tenant, runs and
commits, fails or dies. `Visible` is the policy of the tables: a row is seen where the
setting is its institution. A request reads its row, decides, and writes; its last write and its commit
are one step, its reads are not. `withUniqueSlug` is a loop of savepoints over the
suffixes that may be drawn. `told` is a ghost: the links that were handed out, the
votes that were taken and the news that were withdrawn. Staff may publish and expire any news of their
institution, drafts and expired ones too: the service has no such guard, only the page offers each button on some.

## 3. Runs

| Run | Instance | Shows |
|---|---|---|
| `commands_race` | 3 transactions, 1 grievance, up to 4 events, general and ICC tracks, named and anonymous filers | `ChainVerifies`, `RowsAreProjections`, `NoWaitCycle`, `OutboxMatchesHistory`, `ImplementsLifecycle` |
| `commands_appeal` | 2 transactions, 3 grievances, up to 6 events, with appeals | `TypeOK`, `AppealsArePaired`, `ImplementsLifecycle`, `EveryCommandEnds` |
| `outbox` | 0, 1 or 2 senders, 2 messages, batches of 2, a fault and an outage | `SentWasAccepted`, `DuplicatesHaveACause`, `SettledIsFinal`, `EveryMessageSettles` |
| `watchdog` | 2 runners, 2 cases, 2 days, a human event and a death | `FlagsAndMailsAgree`, `FlagsAreBounded`, `EveryBreachIsFlagged`, `EverySweepEnds` |
| `audit_chain` | 3 events, one change of any stored field | `HonestChainVerifies`, `TamperingIsPlaced` |
| `sla_clock` | 7 days from a Friday, every window, mode, track and holiday list | `DueDayIsTheNthWorkingDay`, `VerdictsDifferOnlyHere`, `BreachStaysCounted` |
| `access` | 2 accounts, 1 address, 2 requests, either store; 4 scenarios: many attempts, or many changes | `AttemptsAreBudgeted`, `DeactivationTakesHold`, `ImplementsBudget` |
| `portal` | 5 roles, 2 grievances, 4 entries of trails, open and ICC track; or a filing with up to 3 files | `SurfacesAgree`, `ConfidencesKept`, `TrailExplainsRow`, `NoDeadEnd`, `AttachmentsNameFiles` |
| `loading` | 2 imports of a dump of 4 cases, a seed of 11, a live filing on either track and 2 decisions, in 2 years | `LoadsAreWhole`, `LegacyCasesAreThemselves`, `FilingIsNeverStuck`, `LegacyIsOffTheClock`, `FiguresAreHonest`, `PatternsAreComponents` |
| `campus` | 2 institutions, 2 connections, 3 requests of which 2 at a time, 3 entries at the start | `TenantsAreApart`, `LinksAndVotesStand`, `SiteIsOneStory`, `EveryRequestEnds` |

What the invariants of several parts mean:

- `RowsAreProjections`: status, assignee and stamps of a row are what its events say.
- `TamperingIsPlaced`: an edited row is named, a deleted row inside the trail is a gap, and
  a rewritten stretch breaks at the row after it.
- `FlagsAreBounded`: a runner flags a case once at most, and only one that was open when it
  looked.
- `VerdictsDifferOnlyHere`: queue and badge say the same of every open case. Report and badge do
  contradict each other, in three ways and no other: a case rejected or withdrawn late is a breach in the
  report and "met" on the badge; a case resolved or dropped in time and open after its due date is late on the badge
  and no breach; so is one at the due instant. A flagged case is counted unless it was finished in time.
- `BreachStaysCounted`: acceptance, appeal, a second resolution and time do not take a breach out of the
  report. Of rejections and withdrawals it says nothing, since there the report's comment and its code differ (section 5).
- `SurfacesAgree`: lists, queue, counts and downloads show what `canView` grants.
- `TrailExplainsRow`: what a page shows of a row is recorded in the trail it shows.
- `NoDeadEnd`: while a case is open, somebody who can see it is offered a move that the
  policy accepts.
- `LoadsAreWhole`: of the cases of a dump none or each exactly once is there, per year.
- `FiguresAreHonest`: every published figure but the total (numbers filed, medians and rates, of a category, of a
  month, overall and on the landing page) is computed from `MIN_CELL_SIZE` cases of its own or more; and the
  compliance report adds up and its medians are medians.
- `PatternsAreComponents`: a pattern is a connected component of the similarity, each is shown
  once, and if any large one is left out, then as many as the limit are shown and none of them is smaller.
- `SiteIsOneStory`: lists and pages agree, and what was withdrawn stays so.

Two more runs end in a counterexample, each against a sentence of the repository
(quoted under "findings"): `outbox_overlap` and `watchdog_icc`.

Why the bounds are enough:

- *Transactions.* A conflict needs two; three give a transaction that waits for one
  which itself waits, and a retry that loses again. The retry limits are 2 instead of
  the code's larger ones so that giving up is reached.
- *Events.* Four or six events reach every status that the operations of the run can
  reach, an appeal of a resolved, a closed and a rejected case, and an original that
  is worked on again. A command starts only below the bound, so one that started may
  still end: no run stops a command half way.
- *Grievances.* Appeals need an original, its appeal, and one more filing that races
  for the reference.
- *Outbox.* Batches smaller and as large as what is queued, attempts at, below and
  above the limit (2), one fault in any place. A second fault would do to a second
  message what the first did to the first.
- *Watchdog.* Two cases handled in opposite orders by two runners is the smallest
  circle of waits; two days separate a sweep from the next one.
- *SLA.* Filings on a Friday, Saturday and Sunday, at the start of the UTC day and on both
  sides of Indian midnight, with windows that end before, on and after the Sunday.
- *Access.* `Bounds` is a set of bounds and a behaviour has one of them: four attempts of
  one request over two windows; three attempts of two requests with a restart; three
  logins, three other requests and two changes of accounts of two requests; and the same
  with fewer logins and a restart. A budget of one attempt per account and two per
  address is reached and exceeded, buckets expire and the Map is swept (threshold 1);
  two changes are a deactivation and the reactivation, or an invitation and a
  deactivation, with logins and old sessions on every side of both.
- *Portal.* A page and commits between its two reads need one case; an appeal on the
  student's page needs its original and the appeal. Four entries reach every status that
  the pages distinguish. Files: one that fits, one over the limit of 2 files, of any mix of
  sizes and types; two keys are enough because uploads draw fresh ones. Pages and uploads are explored
  in separate histories, since neither reads what the other writes.
- *Loading.* `MIN_CELL_SIZE` = 2, `QUEUE_SCAN_CAP` = 3, `PATTERN_SCAN_LIMIT` = 5, `MIN_CLUSTER_SIZE` = 2 and
  `PATTERN_LIMIT` = 1 instead of 5, 1000, 400, 3 and 5: below, at and above each is reached with the rows there are,
  two large components of uneven sizes among them, of which the limit drops one. The windows are 5 days for the institution,
  9 for an inquiry of the ICC, 7 for the Ombudsperson, and one category has 4 of its own; what is filed live
  (`FiledUnder`) goes to a category with a window, one of the ICC or an imported one. The dump has a student and an administrator with one number,
  two students with one address, two categories with a subcategory of one name, an
  undated and an out-of-order remark. Imports and the seed start in either of two
  years, and one account files at most one live case (`MaxFiled`) and officers decide at
  most twice (`MaxDecisions`).
- *Campus.* Titles that collide, and one whose own slug is what the other gets with a
  suffix, so that all `MAX_ATTEMPTS` = 3 attempts fail (5 in the code). A third request
  meets the connections the first two have used; a free request is chosen without
  symmetry, they begin in any order all the same. One tick of the clock tells before from
  after in publication and expiry.
- Symmetry: `commands_race` permutes the transactions, `access` the requests, `portal` the
  storage keys, `loading` the imports; each set is interchangeable, and none of these
  runs checks liveness. `commands_appeal`, `outbox`, `watchdog` and `campus` check liveness and use none.

Deadlock checking is off everywhere: all models have bounds at which nothing is left to
do. That nobody waits for ever is stated instead, by `NoWaitCycle` and by the liveness
properties.

Fairness:

- `commands_appeal`: a transaction that has begun goes on (its client is connected, the
  database schedules it). Strong fairness, because one that waits for a lock or a key is
  enabled each time the holder ends and may be disabled again by the next. Nobody is
  obliged to start a command.
- `outbox`: a deployed sender goes on and is started again after it died, as the daemon
  or cron does (weak fairness of its next statement), and an outage is repaired in the
  end. Faults and refusals happen at will, within their bounds.
- `watchdog`: the timer fires again and again, and the database finds deadlocks.
  Strong, because a waiting insert is enabled each time a holder ends.
- `campus`: the next statement of a request that has begun is executed (weak fairness of
  `Proceed` per request). It never waits for another one here, and it may die instead at any time.

## 4. Proofs

| Theorem | States | For every |
|---|---|---|
| `CommandsProofs!TypeCorrect` | `Spec => []TypeOK` | set of transactions, users, roles, tracks, and all bounds and limits |
| `CommandsProofs!ChainSafe` | `Spec => []ChainVerifies` | the same |
| `CommandsProofs!ColumnsProject` | `Spec => []RowsAreProjections` | the same |
| `CommandsProofs!AppealsPair` | `Spec => []AppealsArePaired` | the same |
| `CommandsProofs!OutboxIsHistory` | `Spec => []OutboxMatchesHistory` | the same |
| `CommandsProofs!NoDeadlock` | `Spec => []NoWaitCycle` | the same |
| `CommandsProofs!CommandsAreAtomic` | `Spec => ImplementsLifecycle` | the same |
| `OutboxProofs!AtLeastOnce` | `Spec => []SentWasAccepted` | set of senders, number of messages, faults and outages, batch and retry limit |
| `OutboxProofs!DuplicatesExplained` | `Spec => []DuplicatesHaveACause` | the same, with the property's hypothesis of one deployed sender |
| `OutboxProofs!SettledStays` | `Spec => SettledIsFinal` | the same |
| `WatchdogProofs!FlagsAreTold` | `Spec => []FlagsAndMailsAgree` | set of runners, cases and users, all due days, bounds and retry limits |
| `WatchdogProofs!FlagsStayFew` | `Spec => []FlagsAreBounded` | the same |
| `CaseProofs!WorkingDaysAreCounted` | `Spec => []DueDayIsTheNthWorkingDay` | filing time, window and finite list of holidays |
| `CaseProofs!VerdictsCompared` | `Spec => []VerdictsDifferOnlyHere` | windows, modes, tracks and histories of one case |
| `CaseProofs!BreachStands` | `Spec => BreachStaysCounted` | the same |
| `CaseProofs!HonestChains` | `TrailSpec => []HonestChainVerifies` | contents and lengths of trails |
| `CaseProofs!TamperingShows` | `TrailSpec => []TamperingIsPlaced` | the same, and any one change |
| `AccessProofs!BudgetHolds` | `Spec => []AttemptsAreBudgeted` | keys, budgets, window, sweep threshold, either store |
| `AccessProofs!StoresAreBudgets` | `Spec => ImplementsBudget` | the same |
| `AccessProofs!Deactivated` | `Spec => []DeactivationTakesHold` | set of accounts, addresses and requests, and all bounds |
| `PortalProofs!FilesAreThere` | `PortalSpec => []AttachmentsNameFiles` | finite set of storage keys, and all limits |
| `PortalProofs!OneRule` | `PortalSpec => []SurfacesAgree` | users, roles, tracks and categories |
| `PortalProofs!ConfidencesHold` | `PortalSpec => []ConfidencesKept` | the same |
| `PortalProofs!StoryHolds` | `PortalSpec => []TrailExplainsRow` | the same, histories of any length |
| `PortalProofs!NobodyIsStuck` | `PortalSpec => []NoDeadEnd` | users such that somebody works on each track |
| `LoadingProofs!NumbersAreFree` | `Spec => []FilingIsNeverStuck` | dump, plan of the seed, number of imports, filings and years |
| `LoadingProofs!LoadsAreOnce` | `Spec => []LoadsAreWhole` | the same |
| `LoadingProofs!CasesAreThemselves` | `Spec => []LegacyCasesAreThemselves` | the same |
| `LoadingProofs!HistoryIsNotLate` | `Spec => []LegacyIsOffTheClock` | the same, and all windows and limits of the reports |
| `LoadingProofs!FiguresHold` | `Spec => []FiguresAreHonest` | the same |
| `LoadingProofs!PatternsHold` | `Spec => []PatternsAreComponents` | the same, and any sets of terms |
| `CampusProofs!TenantsApart` | `Spec => []TenantsAreApart` | set of institutions, requests and connections, and all entries, slugs and bounds |
| `CampusProofs!LinksStand` | `Spec => []LinksAndVotesStand` | the same |
| `CampusProofs!OneStory` | `Spec => []SiteIsOneStory` | the same |

They rest on the assumptions named in the modules only, which TLC evaluates in the runs:
`NULLAssumption` ... `RowAssumption` in `Commands`, `DeliveryAssumption` in `Outbox`,
`WatchdogAssumption`, `InstantsAssumption` and `WindowsAssumption` in `SlaClock`,
`TrailAssumption` in `AuditChain`, `LimiterAssumption` in `RateLimit`, `AccessAssumption`,
`KeysAssumption` and `LimitsAssumption` in `Attachments`, `UsersAssumption` and
`StaffAssumption` in `Portal`, `ReportsAssumption`, `LoadingAssumption`, `DumpAssumption`
and `SeedAssumption` in `Reports` and `Loading`, `TenancyAssumption` and
`CampusAssumption`. They say that bounds and limits are numbers, that sets that are counted are
finite, that NULL is no value, and of the data that the code does not check: that the
complaints of a dump have a primary key, that the seed has a category for its cases, that
the entries a site begins with have slugs of their own, and that somebody works on each
track (of these the last is needed by `NobodyIsStuck` alone).

What each of them turns on:

*TypeCorrect.* `TypeOK` is not inductive: that `Commit` writes a well-typed row depends
on what the command was and on how far it has come. `FormInv` adds, for each label of
the program counter, the shape of the command (`CommandIsFormed`) and what it has
written by then (`WritesAreFormed`). There is one lemma per action.

*ChainSafe.* The argument is that of the code's comment on `appendEvent`, made explicit.
`ChainInv` is `FormInv` with four facts: the tail a transaction has read is the
genesis hash or the hash of a committed event (`TailIsCommitted`); committed trails
have no gap (`Dense`); an event not yet committed follows a committed one and claims a
seq that no other event, committed or not, has (`PendingIsNext`); and `ChainVerifies`.
An appender with a stale tail proposes a seq that exists, and the index refuses it; two
appenders with the same tail propose the same seq, and the second waits. So a commit
adds exactly one link to each trail it touches.

*ColumnsProject, AppealsPair, OutboxIsHistory.* One invariant, `RowsInv`, carries the three,
because a commit is right about each only if it is right about the row. It adds to `ChainInv`, per
transaction (`TxInv`): whoever has a version of a row in hand holds it alone and made it
from the committed one (`RowsAreLocked`), the update came before the event
(`UpdateIsInOrder`), the event says what the command does (`EventsAreDue`), and the
guard that was evaluated on an older row still holds of the one that was written
(`IsGranted`); and that numbers in use have no gap. The last is why a stale guard is
harmless: the UPDATE repeats the part of it that matters in its WHERE clause, under the lock.

*NoDeadlock.* `Rank` orders the statements of a command: insert, update, append, commit. A
transaction waits only for one of a higher rank, so in every set of transactions the furthest
waits for none of the set. The exception one would expect is the appeal, which appends twice; its first
event is on a case that nobody else can see yet.

*CommandsAreAtomic.* Every commit maps to one action of `Lifecycle` and every other statement to a
stutter. `LifecycleInv` adds that each trail has an event for every seq up to its length, so that the
mapping, which lists them in order, appends one entry where the commit inserts one event. The guard
of the register is then that of `IsGranted`, on the current row.

*AtLeastOnce, DuplicatesExplained, SettledStays.* `SweepInv` adds to the types that a sender
about to mark its current message sent has had it accepted. With one sender,
`OneSweepInv` adds that what it works on is neither sent nor given up, and counts: the
relay has taken a message as often as faults have struck it, and once more if it is being
marked or is sent.

*FlagsAreTold, FlagsStayFew.* `SweepInv` of `WatchdogProofs` ties what a sweep has inserted and not
committed to the mails it will enqueue. `CountInv` counts, per case, its flags and the runners that may still
flag it: read as unflagged and not yet past it. A sweep joins the second set only while
there is no flag, and moves to the first. `ClosedInv` does the same for flags after a close.

*WorkingDaysAreCounted.* `computeDueAt` walks day by day, and induction over the walk is
stated as a least number: the first day whose count of working days differs from what
the walk assumes would have a day before it. *VerdictsCompared* and *BreachStands* follow
from `ClockInv`: due dates are ends of days, stamps are instants that have come, what is
not open has a closing stamp, and a flag is younger than the due date.

*HonestChains, TamperingShows.* The verdict is about the rows in the order of their seq; lemmas on
ranks in a finite set of rows say which row stands at which place (`RowAtPlace`).
`ChainInv` of `CaseProofs` says how many of the first rows no change has touched
(`IsSound`) and which row gives it away: one whose hash is not its own, a
gap, or one that names a predecessor that is not there. Appends afterwards go to the end and
repair nothing.

*BudgetHolds.* The counters know the open window only, the bound is about any stretch of
time. `WindowInv` is the missing link: with a window open, the attempts up to its first
are no later than its start, and all but the last budget of those are a whole window
earlier; with none open, all but the last budget less one are a window old. The first
attempt of a window turns the second form into the first, the clock the first into the
second, and either puts two budgets a window apart. `HitCases` says that both stores
do one of three things to the key and nothing to the others, sweep or no sweep; the
rest of the proof does not know which store it is, and neither does *StoresAreBudgets*:
the window of `Budget` is the bucket while it is open, so that what is swept was no window.

*Deactivated.* Deactivations are numbered (a ghost). `DeactivationInv` says that no DELETE
is ahead of its UPDATE, that a session knows at least the last deactivation whose DELETE
is done, and that who acts for an inactive account knows fewer than there were. A login
under way may still create a session afterwards; it does not work, but it is there, and
works if the account is reactivated before it expires.

*FilesAreThere.* `HoldsKey`: a filing about to name its bytes has written them whole, under a key that no
row names, and what it is about to remove is named by no row unless a fault struck.
*OneRule, ConfidencesHold, StoryHolds, NobodyIsStuck* need no more of the register than that each
row follows from its history (`AllExplained`), and of a page that what it has read was once so
(`IsPage`): trails only grow, and a page's trail is a beginning of today's. That the WHERE clauses
and `canView` agree is a case split over roles; that nobody is stuck is the table of transitions,
with `StaffAssumption` for the people.

*NumbersAreFree, LoadsAreOnce, CasesAreThemselves.* One invariant, `LoadedInv`. References under the prefix
of the form have no gaps, so their count plus one is the first that is free
(`NextIsFree`). A run's references are free until it ends, and of a year that no other run
has, so a commit adds each row once. The seed fills the institution it has just made.
A case is known by accounts and categories that are never taken away, so what the
dump said of it stays true; rows are added with new references and keep theirs, and
there is one lemma per way of adding them.

*HistoryIsNotLate, FiguresHold, PatternsHold.* Of the register these need only `DatesInv`: every row has a date of
filing, its other dates are numbers or missing, and an imported row has no due date, which no
later command gives it. The rest are lemmas on the operators of `Reports`. `OrderIs`: `InOrder` lists its numbers in
order and each once, since the number of those before one is an injection into as many places.
From it follow the order of the queue, that at most half of the numbers lie on either
side of a median (`MedianHalves`), and that the scan for patterns holds no case twice. `ClassesAddUp`: pairs of a class and
a number up to its size correspond to the elements that are classified, so sizes of classes
sum to that of the set. For the patterns, `IsForest` says that parents lead down to a root, with a depth as
witness, and then `find` gives that root, whichever function the recursion may mean (`FindIs`);
`union` joins two trees or leaves one (`UnionIs`). Through the two loops, `United` keeps that the
pairs looked at share a root and that no tree crosses the border of a set closed under
similarity; at the end the first gives closed trees and the second minimal ones, which are the
components. That a loop computes anything at all is `LoopIs`. `HasClusters` says that `clusterGrievances` lists each
tree that is large enough once, the biggest first; the limit takes the first of them, so what it leaves out is no
larger than what it keeps. For the figures, a count, a median and a rate each carry the threshold of what they are computed
from (`CellHolds`, `RateHolds`), and `ReportMedian` does the medians of the report.

*TenantsApart.* What the property says of rows follows from what `PoolInv` says of
connections: none is shared, a free one has no setting, and the one a request holds is set to the
tenant of the request. Beginning takes a clean one, and every way to end, by commit, error or
death, gives it back clean. That the rows an unlocked read returned belong to the tenant follows from the WHERE of
the statement that read them, and stays true as the row changes, since no write moves a row.
*LinksStand, OneStory.* `SiteInv`: slugs are unique per table and institution and never
change, `told` has exactly one count per entry, and news that were published and withdrawn keep
both dates. The vote is one addition in SQL, so no vote is lost between a read and a write.

Only model-checked: liveness (`EveryCommandEnds`, `EveryMessageSettles`, `EveryBreachIsFlagged`,
`EverySweepEnds`, `EveryRequestEnds`), since fairness and ENABLED are beyond the prover.
Every invariant, action property and refinement of a passing run is also a theorem. The
operators are written for the proofs: orders by rank instead of a recursive sort, loops as
functions of their counter. Where a proof needs induction, it is stated on a subset of the
naturals with a least member, since the provers cannot instantiate the library's induction
theorems.


## 5. Where code and text disagree

With a run: see "findings" in `PROJECT.json`. Met while modelling, without a run of
their own:

- *ICC appeals.* `fileAppeal` inserts the appeal without a track (`commands.ts:390`), so
  it gets the column's default `sgrc` (`schema.ts:268`) whatever the track of the
  original. `docs/compliance.md:120` says the track decides who may see a case.
- *Silent reassignment.* The dedupe key of an assignment mail is the case and the
  assignee (`commands.ts:273`), so an officer who gets a case back is not told again,
  while `commands.ts:255` says owners are told. `OutboxMatchesHistory` holds because it
  speaks of keys.
- *Two watchdogs.* Two runners that overlap may both flag a case (`sla-watchdog.ts:98`
  reads the flags without a lock); the comment at line 26 promises idempotency.
  `FlagsAreBounded` is what holds.
- *A flag after the close.* A case closed between the read and its turn in the loop is
  flagged afterwards (`sla-watchdog.ts:134`). `FlagsAreBounded` is what holds.
- *Flagged, not reported.* A case resolved in time and not yet accepted stays open, is
  flagged once its due date passes, and its mail says the breach will appear in the
  compliance report (`templates.ts:103`); `wasBreached` goes by the resolution and
  does not count it. This is `OpenAfterTimelyEnd` in `VerdictsDifferOnlyHere`.
- *Relay down.* A refused connection emits an error event nobody listens to
  (`transport.ts:133`) and ends the sender, so no attempt is counted, while
  `docs/security.md:169` says a message that fails five times is given up. With the
  repair of the relay assumed, `EveryMessageSettles` holds; without, it does not.
- *Holidays.* `docs/glossary.md:140` speaks of a configured holiday list. `computeDueAt`
  takes one and no caller passes one.
- *Deleted tails.* `docs/flow.md:144-145` says a deleted row leaves a gap in `seq`. The
  newest rows leave none: what remains verifies (`audit.ts:102`) and the next append
  takes their numbers. `TamperingIsPlaced` speaks of rows inside the trail.
- *Expired sessions.* `pruneExpiredSessions` is "called from a cron route"
  (`session.ts:137`); there is no such route and no caller.
- *Role changes.* The comment on `destroyAllSessionsFor` (`session.ts:128`) names role
  changes; `setUserRole` does not call it. The next request has the new role all the
  same, since `getSession` reads the account again.
- *Unhashed columns.* The hash covers neither `visibility` nor `actorRole`
  (`audit.ts:39`), while `schema.ts:302` says any retro-edit breaks verification.

- *Discussion of a withdrawn case.* `policy.ts:152` closes a withdrawn grievance to further
  discussion by anyone; `addRemark` and `addAttachment` ask before they write, on a row they did not lock
  (`commands.ts:297`), so a remark that was under way lands after the withdrawal.
- *Late rejections.* `compliance.ts:59-60` and `compliance.test.ts:50` say that rejected and withdrawn
  cases are never breaches. They have a `closedAt`, so one rejected after its due date is
  counted (line 67); the test uses a row without the stamp. For the same reason
  `resolutionDays` takes a sample of them, which its comment (line 49) excludes. And the badge of such a case
  says "met" (`components/ui/sla.ts:30-33`): `DroppedLate` in `VerdictsDifferOnlyHere`.
- *Orphan files.* The action removes the bytes when the row that names them fails
  (`my/new/actions.ts:84-86`: "unreachable forever"). `addAttachment` may also return null, which is not an
  error, and the process may die in between; either leaves bytes without a row.
  `AttachmentsNameFiles` is the other direction, which holds.
- *The appeal on the student's page* is the one of the first `appealed` event
  (`my/[reference]/page.tsx:51`), also when the case has been appealed a second time.
- *Patterns* are scoped by track alone (`queries.ts:476-512`), not by `canView`: an officer is shown
  shared terms and subjects of cases that are assigned to somebody else. The public statistics
  have no filter by track.
- *Six problems.* At most five patterns are shown (`queries.ts:476`, `525`), the largest, and the page does not
  say that there are more (`staff/page.tsx:124-150`). `PatternsAreComponents` is stated for the limit.
- *Expired drafts.* `expireAnnouncement` takes any news (`news/service.ts:100-112`); only the page renders its
  button on listed ones. A draft that was expired stays in the list of drafts, and publishing it, which does not
  touch the expiry (line 92), leaves it hidden. `SiteIsOneStory` holds of such news too.
- *The total.* `README.md:25` and the transparency page (`transparency/page.tsx:39-40`) say that any figure
  computed from fewer than five grievances is withheld. `totalFiled` is published whatever it
  is (`stats.ts:196`).
- *Export of a cycle.* The route promises the identical numbers (`export/route.ts:12-14`). The link
  gives it `until` as a date (`compliance/page.tsx:47`), which is read as midnight, so what was filed on the last day
  is missing from the file.
- *Category tree.* `category-tree.ts:7-11` expects the console to stop a child whose parent is
  inactive. `setCategoryActive` does not look at children, and `assertValidParent`
  (`admin/service.ts:165`) refuses a category as its own parent but no longer circle, and no third
  level, which the form does not render.
- *Two publications.* `news/service.ts:89` calls publishing what is published a no-op. Two
  publications of one draft both pass the test, and the later overwrites the date.
- *Import.* Subcategories are found by name alone (`import-legacy.ts:286`), so two of one name
  are one to it, whatever their parents; a student whose address exists already returns no
  row (`onConflictDoNothing`), and their cases have no filer; and the references carry the
  year of the run, so running it again in another year imports everything twice.
- *Seed.* The institution is committed before its cases (`seed.ts:976`); after a death between the
  two, the next run finds it and fills nothing. Some of its rows have a status that
  their trail does not explain, and one is `appealed` without an appeal. Its prefix `RITB` differs from what
  `referencePrefix` makes of its slug, which keeps its numbers out of the way of live ones:
  `FilingIsNeverStuck` rests on it.

## 6. Not modelled, and the plan

Not modelled because there is no state of their own in them, or none that anything reads
back: layout and forms, Markdown, triage, redaction and prompts, password hashing and CSRF
tokens, the rows of `auth_events`, the redirects of the proxy. The category tree and the
settings are rows that single statements overwrite; the other models take what they
hold as constants. Grants, triggers and DDL are the database's, and
`docs/verification` tests them against a real server; the row policies are in `Tenancy`. Except
in `Campus`, a model is of one institution, and except in `Loading` the year of a reference does not
turn over.

What remains, in this order:

1. The safety half of the liveness properties: a measure that each step of a command, a sweep or a delivery
   lowers, as an action property, so that only fairness is left to the model checker.
2. An abstract register of categories for `admin/service.ts`, whose tree two accepted updates can turn into a cycle
   (the hazard at line 165), and for the column default of an appeal's track (`commands.ts:390`).
3. What the components that are modelled in part leave out: pages that only read, and the calls to the model
   behind `ai/triage.ts`, which are pure I/O.
