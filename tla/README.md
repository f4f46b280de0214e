# Verification of the NOVEX backend

NOVEX is the NestJS/PostgreSQL backend with which the coordinations of an
institution register operational problems ("situations"), attend to them under
an SLA, close them with a learning, and analyse them with a language model.
These modules model the parts of it in which several requests, schedulers or
attempts meet on the same rows, and the rules those meetings rest on. Paths are
relative to the repository (`src/src` in `PROJECT.json` is its `src/`).

Contents: [1 The system](#1-the-system) · [2 The modules](#2-the-modules) ·
[3 The runs](#3-the-runs) · [4 Fairness](#4-fairness) ·
[5 The proofs](#5-the-proofs) · [6 Findings](#6-findings) ·
[7 What is left out](#7-what-is-left-out) · [8 Plan](#8-plan)

## 1 The system

Everything is a stateless HTTP process over one PostgreSQL database, possibly
with several instances. Two schedulers call the same sweep: a cron inside the
process and an external job. Every process writes the catalogues when it boots,
if it is told to. There is no queue; what is shared is rows, one advisory lock
and a few unique indexes.

| component | state | operations | what it meets | what is hard | modelled |
|---|---|---|---|---|---|
| situations (`situations.service.ts`) | a row of `situations`, a row of `situation_resolutions` | register (INTERNAL, INTER), PATCH, resolve, list | every other writer of the row | PATCH saves a whole entity it loaded without a lock; resolve and consequences lock the row | yes |
| consequences (`situation-consequences.service.ts`) | `situation_consequences` | addConsequence | resolve, escalation | the instant is taken before the lock is obtained | yes |
| SLA sweep (`sweep/situation-sweep.service.ts`) | `sla_breached_at`, `last_sla_reminder_at` | run: breach, warning, escalation pages | itself, resolve, PATCH | overlapping runs with instants of their own, `SKIP LOCKED`, budget | yes |
| severity escalation (`severity-escalation/`) | `situation_severity_changes`, a cached severity column | materializeDueEscalations, the check of a history | sweep, resolve, consequences | the cache and its history; late sweeps after a closing | yes |
| timeline (`situation-timeline/`) | `situation_timeline`, append only | explicit entries, an entity subscriber on UPDATE | everything | one entry per fact, in the same transaction or after it | its writes |
| operational scope (`auth/services/operational-scope.service.ts`, `situation-access.service.ts`) | none | who reads, lists, updates, advances, resolves, adds; hints for the interface | every controller | reading is wider than writing; hints and lists are computed apart from the rules | yes |
| idempotent registration (`ai-orchestrator.service.ts`, `registration-fingerprint.ts`) | key and fingerprint columns, partial unique index | registerAndExecute | itself, through retries | lookup and insert are apart; lost answers | yes |
| AI analysis (`ai-orchestrator.service.ts`, `ai-analysis-sessions/`) | claim columns (token, expiry), versioned sessions, current record | claim, run, confirm, release, read | itself, PATCH | the provider outlives the lease; crashes with the claim or with the row lock | yes |
| impact (`situation-impact/`) | one row per situation | replaced by each analysis | AI analysis, overview | read outside the transaction that writes it | yes |
| prompt, provider, parser (`ai-prompt-engine`, `providers`) | prompts | build, call, parse | AI analysis | one remote call that may fail | its outcome |
| evidence (`situation-evidence/`) | `situation_evidence` with a client key | add, delete | retries | entry written apart from the row | yes |
| recommendations (`situation-recommendations/`) | one row each | PATCH | itself | whole-entity saves, entry written after | yes |
| users (`users.service.ts`), authentication (`auth/`) | one row per user | PATCH, onboarding, login, the guard of each request | each other | whole-entity saves by requests that do not know of one another | yes |
| roles and permissions (`rbac/`, `permissions/`, `roles/`) | `roles`, `permissions`, `role_permissions` | synchronised at boot by each server, and by a job | each other | no lock, no transaction; a server gives up where another overtook it | yes |
| catalogue seeds (`*/seeds/*-catalog-seed.service.ts`) | five catalogues | written at boot, two of them awaited by it | other instances | find, then save; a unique violation ends a list, or a boot | yes |
| operational KPIs (`operational-kpis/`) | none | state, history, breakdown, relations, period, reports | every writer of the situations | parallel queries outside a transaction; days, buckets, closed and open ends | yes |
| operational overview (`operational-overview/`) | none | integrity and life points of areas and of the Direction | every writer, the analysis | three parallel counts; a problem owned and suffered | yes |
| release migrations (`database/migrations/17874...-17882...`) | the schema | nine transactions under the revision that serves | registrations and edits of the revision before | columns, backfill and triggers are committed apart | yes |
| dashboard, coordinations, audit, configuration, health, demo seeds | catalogues and logs | reads, best-effort writes | - | little | no |
| recommended actions, operational areas, operational events, executive intelligence | tables without a writer | retired: no controller (`docs/CLOSURE_PHASE_1_P0.md`) | nothing calls them | - | no |

### What makes each part correct

* **Situation.** OPEN, then IN_PROGRESS, then CLOSED, never back; closed exactly
  when a learning is registered, with one CLOSED entry; INTERNAL problems have
  one area, INTER dependencies two; nothing is registered after the closing.
* **SLA.** The deadline is announced once, only if it was missed while the
  problem was alive, and in the end always; warnings are inside their window and
  apart by the cooldown.
* **Escalation.** The history is a prefix of the policy, chained from the
  reported level; the cached column is its last level; nothing takes effect
  after the closing.
* **Scope.** Reading never gives writing; attending and closing belong to the
  responsible area; what the interface is told agrees with what is enforced.
* **Registration.** A key of a user names at most one problem, and every answer
  is about the submission that was sent.
* **Analysis.** Versions follow the order of the claims, replace exactly the
  version before them, are announced once; a dead attempt blocks nobody for ever.
* **Evidence.** However an upload is retried there is one row and one entry, and
  all the retries are answered that row.
* **Recommendations.** COMPLETED and the instant of completion go together.
* **Accounts.** Who was deactivated is let in no more until someone activates him.
* **Permissions and catalogues.** Whoever boots at the same time, somebody finishes
  what each of them began, and meanwhile no role loses what the catalogue gives it.
* **Indicators.** Figures shown side by side, counted by queries that run apart,
  add up unless something of their period was written meanwhile; no area looks
  calm that is not.
* **Release.** What is registered while the schema changes is not refused, and has
  in the end the history and the area it would have had.

## 2 The modules

```
OperationalScope  <-- SituationPolicy <-- SituationLifecycle <-- MCSituationLifecycle
       ^                                    |        ^---------- SituationLifecycle_proofs
       |                                    |                          ^--- SituationHistory_proofs
       |                                    +- INSTANCE SituationRecord   (abstract)
MCOperationalScope <-- OperationalScope_proofs
       ^
MCRequests --> RegistrationIdempotency <-- RegistrationIdempotency_proofs
                      +- INSTANCE AtMostOnceRegistration   (abstract)

AnalysisClaim <-- AnalysisUnderPatch
   ^
   +-------- AnalysisTransaction    <-- AnalysisTransaction_proofs   (implements AnalysisClaim)
                  ^
MCBackOffice -----+-- BootSeeds              <-- ServerStart_proofs
                  +-- RbacSync               <-- ServerStart_proofs
                  +-- SchemaRelease          <-- ServerStart_proofs
                  +-- EvidenceUploads        <-- FollowUp_proofs
                  +-- RecommendationUpdates  <-- FollowUp_proofs

MCIndicators -----+-- OperationalKpi      --> KpiPeriods        <-- Indicators_proofs
                  +-- OperationalOverview --> OverviewPolicies  <-- Indicators_proofs

Accounts
```

**`OperationalScope`** translates the authorization rules about one situation,
one operator per method. A rule that throws in the code is an operator that is
false. An actor is the payload the guard resolves for the request; a situation
is the part of the row the rules read. `Listed` is the WHERE of the two modes of
the list (one's own area, or a named one) for one row. The order of the exceptions
(404 before 403) is not kept: no property tells them apart.

**`SituationPolicy`** holds the pure rules: the transition table, SLA windows,
warning window with its closed ends and the cooldown, the "not in the future"
rule (a calendar day ends at its last instant), the escalation planner with
its horizon `min(now, closedAt)`, and what the program itself finds wrong in a
history of levels (`SeverityHistoryViolations`), which the
run asks to be nothing. Production registers *no* escalation policy; the steps are
those of the fixture in `severity-escalation.spec.ts`, so that the mechanism that is
deployed is exercised.

**`SituationLifecycle`** is one situation and everything that writes it.

| variable | in the code |
|---|---|
| `now` | `new Date()`, shared by the instances |
| `row` | the columns of `situations` that a rule reads or a property is about |
| `resolution` | the row of `situation_resolutions` |
| `consequences`, `severityChanges` | their tables |
| `timeline` | number of `situation_timeline` entries by type |
| `warnings` | instants of the SLA_WARNING entries (history) |
| `lost` | columns in which a PATCH overwrote what others had committed (history) |
| `patch`, `adding`, `sweep` | where each request and each run of the sweep is, and what it holds in memory |

| action | in the code | why it is one step |
|---|---|---|
| `Init` | the commit of `persistNewSituation` | the row is invisible before it |
| `Resolve` | `resolve` | `FOR UPDATE` from the read to the commit |
| `AddStart`, `AddCommit`, `AddFails` | `addConsequence` | instant first, then the lock; after that, one step |
| `PatchLoad`, `PatchSelect`, `PatchWrite`, `PatchRecord` | `update` | no lock: split wherever another transaction fits |
| `PatchDetachFails` | `save` of an entity whose resolution appeared meanwhile | the ORM tries to detach it and its primary key refuses |
| `PatchDies` | a crash of the process, or of the connection | between any two of those |
| `SweepStart`, `MarkBreached`, `Warn`, `EscalationPage` | `run` and its three pages | a page is a transaction over locked rows |
| `PassOver`, `SweepStops` | a row that does not qualify or is locked; the advisory lock is taken, or the instance is scaled down | |

The split of PATCH is the heart of the module. `update` loads an entity, edits
it, and calls `repository.save(entity)`. The ORM re-reads the row *before* it
opens its transaction and updates every column in which the entity differs from
what it has just read, the columns that the request never meant to touch
included. So `PatchSelect` computes `changed` as a difference between the entity
and the row of that moment, and `PatchWrite` writes those columns, whatever has
happened since. `PatchRecord` inserts STATUS_CHANGED after the commit, which a
crash can prevent.

Nothing keeps two PATCHes, or a PATCH and any other writer, apart: every run lets them
overlap. What a stale write undoes is kept in `lost`, which no guard reads.
`Overwritten` finds it at the write: a column that no edit of a PATCH assigns can
differ from the row for no reason but that someone wrote it after the load, and a
status was someone else's if it is neither the one loaded nor the one written.
Properties say what holds whatever was lost, and which column must have been
lost where something does not.

**`SituationRecord`** is the promise made to the operation: a problem moves
open, attended, closed; it is closed exactly with a learning that never changes;
effects only grow and stop at the closing; a missed deadline is never unmissed.
`Break` says that the promise may fail, for good (`kept`), and what is left then:
effects stay and a learning is not replaced. `KeepsThePromise` is the refinement
(`stage`, `missed`, `effects`, `lesson` are functions of the row and its tables). It
maps `kept` to "no PATCH has overwritten the status or the missed deadline", so
that `Break` is no way out for any other step.

**`RegistrationIdempotency`** models `registerAndExecute` over the transaction of
`persistNewSituation`. An attempt is one HTTP request; what it carries is a
submission (user, key or none, content). The fingerprint is a function of the
content that collides on no two contents that differ (SHA-256), so the content
stands for it. `pc = "inserted"` is a row in an uncommitted transaction: `Insert`
of another attempt with the same index entry waits for it, as PostgreSQL does,
and conflicts if it was committed. `Abort` is any error or crash before the
commit; `LoseAnswer` any after it.

**`AtMostOnceRegistration`** is its abstract specification: a map from (user,
key) to a content that, once set, never changes, and a set of problems without a
key.

**`AnalysisClaim`** models `execute` and `runClaimedAnalysis`. The lease is a
countdown (`ttl`), `Claim` is the conditional UPDATE with the fencing token,
`Confirm` the transaction that asserts the token and appends version `latest + 1`,
`Release` the conditional release in `finally`. `taken` and `turn` are history
variables: the order in which claims were granted.

**`AnalysisUnderPatch`** puts a PATCH beside the claim, which lives in columns of
the row that PATCH saves whole. The save is the same three steps as in
`SituationLifecycle`; the expiry a PATCH holds in memory is an instant, so it
comes nearer as time passes there too.

**`AnalysisTransaction`** is `AnalysisClaim` in more detail, and implements it. The
confirmation is a transaction of several statements: `LockClaim` (the
`FOR UPDATE` of `assertClaimHeld`), `DraftVersion` (the latest version, read
inside it), `Commit`. A claim, a release or another confirmation that meets the
locked row waits for it; an attempt that lost its token finds no row and does not.
A process that dies with the lock keeps it until the database notices
(`NoticeDeath`). It also has what is read of an analysis while others confirm: the
impact in an answer, and the two reads of `GET /situations/:id/analysis`.

**`Accounts`** is the row of one user and the three requests that save it whole:
the PATCH of an administrator, the onboarding step and a login. The guard asks for
the status before each request.

**`RbacSync`** is `role_permissions` and those who bring it to
`ROLE_PERMISSION_CODES`: servers at boot, in the order of the catalogue and of
`ORDER BY`, and the job `seed:rbac`. Each query is a step. A server that finds an
assignment already removed is refused by `removeFromRole` and gives up; a job that finds
one already inserted violates the unique index and gives up, where a server logs it
and goes on. `skipped` are the grants that a server logged and left out for another reason.

**`BootSeeds`** is what a server writes into a catalogue when it boots: look for an
item, update it or insert it, one by one; a unique violation is an exception, which
ends the list. Roles and permissions are awaited (`Awaited` stands for them); the
others go on behind the boot. A boot whose awaited list failed leaves the process
alive and not ready; the startup probe (`/health/ready`, `deploy-backend.yml`)
replaces it.

**`EvidenceUploads`** is `addEvidence` with its client key: look up, insert under a
unique index, look up again after a violation; read the row again, entry, answer. A
delete before that read does not stop the entry, and leaves an answer that cannot be
composed (`orphaned`, `unanswered`). **`RecommendationUpdates`** is
the PATCH of a recommendation: load, compare, write, entry. `torn` marks, as
history, that a save was written between the comparison and the write of another.

**`OverviewPolicies`** are the pure rules of the overview (critical rules, integrity,
life points, the Direction), for any limits. **`OperationalOverview`** applies them to
three aggregations that each see the table at another moment, while problems are
registered, closed, reassigned, escalated and analysed. `Registry` is the analyst
registry, whose problems belong to no area of the catalogue.

**`KpiPeriods`** cuts a period into buckets and slots. **`OperationalKpi`** asks for a
view (state, or one metric with its distributions and reports) and runs its queries
one by one while the days pass and other areas and this one register, move and close
problems. Every query has its own operator, translated from its SQL: a stock at a
cut, a flow within a bucket, by kind, by affected area. The report of internal
problems brings rows instead of a count, one more than it may show at most
(`ProblemsLimit`, 500 in the code), and its total is that of the rows shown.

**`SchemaRelease`** is the release of `docs/RELEASE_CIRCO.md`: nine migrations, each a
transaction of its own, with the revision before (49a6483) still registering and
editing with the columns it knows, and the new one once the lot is applied. That
revision is not in this repository; the migrations say which columns it does not
send and that it could edit a severity. A registration is visible from its insert to
its commit because `ALTER TABLE` and `CREATE TRIGGER` wait for it. The backfill is
split between its UPDATE and its `SET NOT NULL`, where an insert may come behind it.

**`MCRequests`**, **`MCBackOffice`** and **`MCIndicators`** put components that share nothing in one
instance for TLC: in a behaviour one of them moves while the others are where they
began, so that nothing of any of them is missed and nothing is multiplied.

Operators preceded by a `Mutated:` comment are deliberate mistakes: each takes
the place of the operator it imitates to confirm that a property really depends
on the code it is about (`mutants` in `PROJECT.json`). No specification uses them.

## 3 The runs

One unit of time is six hours in `sla_sweeps` and `closing_overwritten`, so the SLA windows are the
real table (CRITICAL 24 h with a warning in the last 6 h, HIGH 72/24 h, MEDIUM
7 d/48 h, LOW 14 d/72 h) and the cooldown is the real 12 h; a day is four units. In
`lifecycle` and `breach_overwritten` a unit is twelve hours: the same table, but for the
6 h of CRITICAL, which are rounded down. No property of those runs is about warnings.

| run | question | bounds, and why they are enough |
|---|---|---|
| `lifecycle` | What survives PATCHes that overlap everything, and what may they overwrite? | 2 drafts: INTERNAL MEDIUM with an initial effect, which escalates twice, INTER CRITICAL; 2 PATCHes with any of 5 bodies (edit free text, attend, reassign, redate, close), a consequence that waits, a sweep that escalates, a closing; 36 h (`MaxTime` 4, the problem is registered at 1) reach past the CRITICAL deadline (3) and both escalation steps (2, 3), with closings before, between and after them |
| `sla_sweeps` | Are deadlines and warnings announced truthfully and in the end? | HIGH: deadline 13, window from 9, `MaxTime` 14, so up to three warnings, both ends of the window and of the cooldown and the first instant after the deadline occur; two overlapping sweeps, and a PATCH that may hold the row's columns through all of it |
| `closing_overwritten` | Is a closing final? | violation, see §6; one PATCH, one sweep |
| `breach_overwritten` | Is a missed deadline kept? | violation, see §6; one PATCH, one sweep, the CRITICAL deadline |
| `requests` | Do the rules of access agree with one another? Is registration at most once, truthful, and does it end? | one question at a time. Access is complete for the rules: they compare only equality of areas and users, so three areas (one of them general) and null, and two users, reach every combination of equalities; all roles, kinds, statuses and sets of the three permissions. Registration: 3 attempts, two users, one key (and none), two contents: winner, waiter and late retry at once, with equal and different contents |
| `hint_refused` | May whoever is told so PATCH? | violation, see §6; the actors and problems of `requests` |
| `analysis_claim` | Do fencing and lease keep versions in order? | 3 attempts, lease of 2 ticks: an attempt loses its claim to a second, which loses it to a third, while each may fail, crash or answer late |
| `claim_overwritten` | Does the fence hold under PATCH? | violation, see §6; two attempts, lease of 1, one PATCH |
| `deactivation_undone` | Is a deactivated user kept out? | violation, see §6; two administrators, one onboarding, one login, two roles |
| `back_office` | Do boots, jobs, retries and stale edits end where they should, and is the confirmation of an analysis one step? | see below |
| `release_window` | May the schema change with nobody turned away? | violation, see §6; one registration under the whole lot |
| `indicators` | Do the figures put side by side agree, and is no area shown calm that is not? | see below |

Bounds of `back_office`, one component at a time. Seeds: 2 servers, the awaited list
and one behind the boot, 2 items each, every mixture of absent, old and current:
one overtakes the other before and after any item, on either list, and each may die
and be replaced. Permissions: 2 servers and the job, 2 roles, 3 permissions, the
first role beginning with any set, the second with none or with all but its own:
a server is overtaken while it takes away and a job while it gives, in the first role
and in the next. Evidence: 4 uploads, three of one key: a winner, a loser of the
index and a late retry. Recommendations: 2 requests, 2 instants: the later may stamp
another instant than the earlier. Analysis: 2 attempts that may each hold, lose and
take again (lease 1), 1 reader between two confirmations. Release: 2 problems, of one
area or none, 2 levels, the whole lot of nine: one is registered before and one
behind the backfill, edited in between, refused or rolled back.

Bounds of `indicators`. KPIs: 2 situations of 2 areas and 2 kinds, 3 days, a bucket
that starts inside the period, periods cut before and at their calendar end, one
write while the request runs; the list of internal problems is cut at 1
(`ProblemsLimit`, 500 in the code), so that two problems reach the cut and one does not. `CONSTRAINT StillSettled` cuts the states in which
something of the period came late: it never stops being late, and every property is
about requests that are not. Overview: 2 problems of seven kinds (owned, suffered,
both, of the registry, of an inactive area), limits low enough for two problems to
reach every rule, 2 commits among the three counts.

What each property says is in the comment before it. The ones that took most
care:

* `ClosingIsWitnessed` and `InternalAreasAgree` hold whatever a stale PATCH writes. The
  first because a stale write never carries `resolution` and because an entity
  loaded before the closing cannot carry a `closedAt` other than null unless the
  column differs at the moment of `Select`, in which case `PatchDetachFails`
  refuses it; the second because both columns are always edited together and are
  compared with a row in which they agree.
* `ClosingFreezesHistory`, `SeverityHistoryCoherent`, `BreachIsTruthful`,
  `WarningsAreSpaced` and `KeepsThePromise` are about what a stale PATCH can break. Each
  has a part that holds in spite of it (no escalation after the closing, no rule
  registered or announced twice, a mark that is the deadline, warnings inside the window,
  effects and learnings that stay) and a part that fails only where `lost` has the
  column in question.
* `BreachIsDetected` is liveness: a deadline missed by a live problem is found though
  runs end after any page and a PATCH may write null over the mark. That a run is not
  kept from the row for ever is its assumption (§4), not its result.
* `HintsAreHonoured` is exact: what the response says of adding an effect is the verdict
  of the service, and who is told `canUpdate` and refused is one case, that of
  `hint_refused`.
* `ClosingFreezesHistory` covers consequences whose instant was taken before they
  waited for a row that a closing held.
* `SomebodyFinishes` and `SomebodySeeds`: whoever is refused was overtaken, so the
  last to be ahead is refused by nobody. A synchronisation that took the assignments in
  another order than the others breaks the first.
* `ImplementsClaim` is the refinement of the analysis: with the row lock the
  transaction is one step; without the lock it is not.
* `DistributionsAddUp`, `StockViewsAgree`, `FlowBalances`: the identities the
  interface relies on, over queries of different instants. The list of internal problems
  adds up to its limit, and says that it is cut exactly if there are more.
* `CompletionCoherent`, `AnswersAreCoherent`, `AdvanceIsRecorded` and `EvidenceIsAnnounced`
  admit what the code really leaves: a save written between the comparison and the
  write of another, a confirmation between the two reads of a reader, an entry lost by
  a crash. They say that nothing else does it.
* `MigratedRowsAreWhole` states exactly what is lost in the window and no more.
* `ReplacesTheLatest`: the version an analysis replaces is read before a call that
  may last minutes, and announced after it.

`SYMMETRY` permutes the PATCH requests in `lifecycle`, and the situations and problems in
`indicators`; neither checks liveness (`KeepsThePromise` names no request).
`CHECK_DEADLOCK FALSE` is in every configuration because each of them really stops: the
clock reaches its bound, requests and attempts are finite, and a decision is made once.

## 4 Fairness

* `SituationLifecycle.Fairness`. `WF(SweepStart)`: both schedulers fire for ever.
  `WF(PassOver)`: a run goes on to its next page. `SF(MarkBreached)`: requests
  hold the row lock only briefly, and both schedulers keep coming, so that not every
  run meets a locked row, a taken advisory lock or a stopped instance; any single one
  may, which is why weak fairness is not enough. It is an assumption about the
  deployment: that `SKIP LOCKED` never starves a row is not shown. `WF(PatchStep)`: a
  request ends or dies. Nothing is assumed of users: no fairness on resolve, PATCH or
  consequences, nor on the clock.
* `MCRequests.RequestsSpec`. `WF(Proceed(r))` for each attempt: a server
  that is up goes on. Failing is never counted on, so an attempt that waits for
  another's row is stuck until that row is committed or rolled back; the property
  is that the chain of waiting always resolves. A holder that dies is `Abort`
  (PostgreSQL rolls back the transaction of a lost session).
* `AnalysisClaim.FairSpec`. `WF(Tick)`: leases expire. `WF(Work(a))`: an attempt
  goes on, possibly by failing, and `Crash` can pre-empt it. `WF(Claim(a))`: a
  user answered 409 asks again. No fairness on crashes.
* `RbacFairSpec`. `WF(SyncStep(s))`: a synchronisation that began goes on until it
  ends; it may die, and then nothing is promised. Nothing makes a server boot.
* `SeedsFairness`. `WF` of the steps of a server over its lists, and
  `WF(ProbeRestarts(s))`: the platform asks `/health/ready` when a server starts and
  replaces one whose boot failed. `CATALOG_SEED_ON_BOOT` is off in production by
  default: these properties are about the deployments that turn it on.
* `AnalysisTransaction.TxFairSpec`: as `AnalysisClaim.FairSpec`, for the statements.
  No run needs it; `back_office` checks the refinement without fairness.
* None is assumed of the release, uploads, edits or readers.

## 5 The proofs

Checked by TLAPS for every value of the constants that satisfies the assumptions
`PolicyAssumption`, `LifecycleAssumption` (null is no area, status, severity or
natural; inputs have their types), `RegistrationAssumption`, `ClaimAssumption`,
`RbacAssumption` (some roles, permissions with an order, the job is no server),
`SeedsAssumption` (a list has at least one item), `UpdatesAssumption` (a clock),
`UploadsAssumption` and `ReleaseAssumption` (null and "no key" are none of the values),
`UsersAssumption` (null is no user), `KpiAssumption`, `UnitsAssumption` (the first days of
units are days), `OverviewAssumption` and `PoliciesAssumption` (limits are positive). Each
safety theorem is `Init => IInv`, `IInv /\ [Next]_vars => IInv'`, `IInv => property`, one
lemma per action. The larger strengthenings (`HistoryInv`, `OverviewInv`, `KpiInv`) were
checked as invariants of the runs' instances before they were proved.

Every invariant that a passing run checks is a theorem here; so are the action
properties and the three refinements. What a theorem assumes beyond its constants is in its statement: two limits for
`CriticalShows`, and nothing for the others. None assumes that PATCHes, or anything
else, do not overlap.

**`SituationLifecycle_proofs`**: `TypeCorrect`, `ClosingWitnessed`,
`InternalAgree`, `AdvanceRecorded`, for any number of PATCHes, consequences, sweeps,
actors and areas, however they overlap. The
properties are not inductive: a PATCH carries columns from an earlier state. The
strengthening says what the memory of a request may hold.

* `MemoryIsSound`: an entity in memory carries the `closedAt` of the row if it was
  loaded with its resolution and none otherwise, is closed only if a learning
  exists, and carries equal areas if the problem is INTERNAL; once its columns are
  compared, `closedAt` is not among those it will write, so it cannot undo the
  instant of a closing, and either both areas are or neither; and an entity that
  names an attendant either made that transition or read one already recorded.
* `InstantsArePast`: instants held by sweeps, requests and rows are not after
  `now`. The horizon of the escalation planner needs it: a rule registered before
  the closing took effect before it.

**`SituationHistory_proofs`**: what the program promises of the history of a problem, as
far as a stale PATCH leaves it: `ClosingFreezes`, `BreachesAreTruthful`,
`WarningsSpaced`, `HistoryCoherent`, and `PromiseKept`, the refinement of
`SituationRecord`. They too are for any overlap. The invariant is `HistoryInv`:

* `MemoryIsOfItsLoad`: an entity in memory has the status it was loaded with, or went
  from OPEN to IN_PROGRESS, and a mark of a missed deadline in it is one that was made.
  So a write leaves a column alone, or makes its own transition, or adds the column to
  `lost`.
* `ClosingIsFinal`: what has a learning is closed, unless the status was overwritten.
* `EffectsArePast`: no consequence is dated after `now`, nor after the closing, under
  the same proviso: an effect enters only a problem that shows as open.
* `BreachKept`: a deadline that was detected is past, and was before any closing; the
  column is the deadline or null, and null after a detection only if it was overwritten.
* `WarningsKept`: no warning is after the instant in the column, so the cooldown that a
  sweep checks against the column holds against all of them, unless an older reminder
  was written back; each is in the window in any case.
* `EscalationsKept`: the rules registered were taken in order, the history is exactly
  theirs and each was announced; none of this reads the column a PATCH may write. The
  level of the row is that of the last rule unless it was written back. Of the checks of
  `checkSeverityHistoryInvariants`, each but CURRENT_MISMATCH follows from the rules alone.

The refinement maps `stage`, `missed`, `effects`, `lesson` and `kept`; a PATCH that
attends to a problem, a closing, an effect and a breach are its steps, every other
action stutters, and a write that adds status or missed deadline to `lost` is `Break`,
as is whatever follows it. That one is `StepAdds`: no step takes an effect or
a learning away.

**`OperationalScope_proofs`**: `ReadersDoNotWrite`, `HintsAreVerdicts`,
`ListsAgreeWithDetail`, for any users, areas and problems. No state is kept from one
decision to the next: what is granted is a function of the actor and the row
(`Decided`), and the theorems compare the rules with one another case by case of the roles.
`HintsAreVerdicts` says exactly who is told `canUpdate` and refused, which is the case
that `hint_refused` finds.

**`RegistrationIdempotency_proofs`**: `AtMostOneRow`, `TruthfulAnswers`,
`SingleCreator`, `RefusedReuseIsReal`, `ConflictFindsTheWinner` (the branch that answers 409
REGISTRATION_IN_PROGRESS is unreachable: the index reports a violation only once
the other row is committed, and rows are never deleted) and `AtMostOnce`: the
service implements `AtMostOnceRegistration`, for any number of users, keys and
attempts. The strengthening is that at most one attempt with a given entry is
between insert and commit, and none of them while a committed row has the entry.

**`AnalysisTransaction_proofs`**, of the claim: `ClaimOrder`, `ReplacementIsExact`, `VersionsAreTold` and
`ClaimIsSafe`, for any number of attempts and any lease. The strengthening: whoever
holds the token had its turn after every confirmed version, and the version it read
when it began is still the latest, because whoever could append one had to hold the
token; and there is one entry for each version, and one for each that replaced
another.

Of the transaction: `TransactionsImplementClaim` (every statement of the
transaction is a stutter of `AnalysisClaim`, but for the commit, which is its
`Confirm`), hence `TransactionsAreOrdered`, which takes the theorems above over to the
detailed module; and `CoherentAnswers`. The refinement rests on `LockIsFenced`: who
has the row lock has the claim, because nobody can take the claim of a locked row, or
it is dead. The answers rest on who is current: the last to have confirmed, and, for
an attempt that still holds its claim after confirming, that one.

**`ServerStart_proofs`**, of the matrix of roles: `NeverRevoked` and `SomebodyDoes`, for any number of servers and
jobs and any matrix to begin with. What is inductive is not that somebody finishes but
that somebody is ahead: if a removal that a synchronisation still has to make is
already made, another one that was not refused is beyond it (`RevokeFront`), and so for
each insertion of a job (`GrantFront`). All take the assignments in one order, so
who overtook one that is refused is further on than it; the foremost is refused by
nobody.

Of the seeds: `SomebodyWrites` (`SomebodySeeds`), by the same argument: once a server
was started, for each list one of them is neither refused nor about to be
(`SomebodyIsAhead`), also when servers die and are replaced; and the items that a
server passed are current (`PassedIsCurrent`).

Of the release: `ReleaseLeavesRowsWhole`, for any number of problems,
areas and levels. The invariant says, of each row, what holds between two migrations:
what the backfill wrote is locked and is what the row says now; a registration that is
open when a trigger or a column comes has its own or the trigger's mark; nobody is
registered between the end of the backfill and the triggers.

**`FollowUp_proofs`**: of `EvidenceUploads`, `EvidenceIsToldOnce` and
`RetriesAreAnsweredAlike`, deletes at any moment included: a row follows from where the upload that inserted it is, a
key has one row, who lost to the index lost to a row of its key. Of
`RecommendationUpdates`, `CompletionsCohere`: what a request holds in memory is coherent, and
the columns it will not write are those of the row, unless a save was torn.

**`Indicators_proofs`**, of the overview: `FalseCalm`, `LivesLostOnce`, `CriticalShows`,
for any number of problems and coordinations and, but for the last, any limits
(`CriticalLimit = 1` and `CriticalAreas <= 2` are those of the code: with others a
CRITICAL problem may count for less than the Direction asks). `OverviewInv` says that an
answer gathered with one commit among the aggregations is, in each part, of the table
before or after it, and that whatever the commit moved between what an area owns and
what it suffers is in one of the two.

Of the indicators: `StockViews`, `Flow` and `PopulationsAgree`, for any situations, days,
units and periods. `KpiInv` says that a request no late write has touched would get the
same answers again. That needs `SeenAlike`: a registration or a closing that is dated
after the period changes no set that a query counts, whatever it was doing when the
query ran. The rest are facts of the calendar (a slot of the calendar is a bucket of
the data, `SlotsAreBuckets`; every day of the period is in exactly one bucket,
`BucketsPartThePeriod`), one of the cut (`PopulationsAgree` holds for any
`ProblemsLimit`, so also for 500) and one of sums: `SeriesAddsUp`, that the counts of
the buckets add up to the count of the period. The sum is a fold, which is recursive;
the count of the events until a set of days is shown to satisfy its equation, and
`SumIs` that nothing else does, by a set of least cardinality where they would differ.

`TypeCorrect` of the lifecycle, registration and claim, `RbacTypeCorrect`, `AtMostOneRow`,
`SingleCreator`, `TransactionsAreOrdered` and `BucketsPartThePeriod` are proved and are no
property of a run.

Only model-checked: liveness (`BreachIsDetected`, `AttemptsEnd`,
`EveryRequestIsServed`, `SyncConverges`, `EveryServerComesUp`), which this prover does
not reach; and the six disagreements of §6, which are counterexamples.

## 6 Findings

1. **A closing can be undone** (`closing_overwritten`, `ClosedStaysClosed`). A PATCH
   to IN_PROGRESS passes `Select` while the problem is OPEN; a closing commits;
   the PATCH writes `status`. The row is IN_PROGRESS with a learning, a `closedAt`
   and a CLOSED entry, and cannot be closed again (the learning's primary key).
   `resolve` locks the row for this reason; `update` does not.
2. **A missed deadline can be unmissed** (`breach_overwritten`, `BreachIsKept`). A PATCH
   that loaded the row before a sweep marked it, and compares after, writes null over
   `slaBreachedAt`, which the entity calls immutable; the next sweep marks and announces
   the deadline again. The same save writes back `severity` and `lastSlaReminderAt`.
3. **A claim can be given back** (`claim_overwritten`, `FencedUnderPatch`). A PATCH that
   loaded the row under one claim and saves it under the next writes the old token
   back: an attempt that lost its lease passes the fence, and may confirm after the
   one that took over.
4. **A deactivation can be undone** (`deactivation_undone`, `DeactivatedIsRefused`). A
   login, an onboarding step or the PATCH of another administrator, loaded while the
   user was ACTIVE and compared once it is INACTIVE, writes ACTIVE back.
5. **A window in which registrations are refused** (`release_window`,
   `NobodyIsTurnedAway`). `reported_severity` is NOT NULL when 1787800000000 commits,
   and the triggers that fill it for the revision that still serves come with
   1788100000000. The release document says there is no such window.
6. **A hint that the request refuses** (`hint_refused`, `HintMeansPatch`). `canUpdate` is
   computed from the permission and the authorship; PATCH also asks that the problem be
   of the coordinator's own area. A coordinator who reported a problem of another area is
   told that he can update it, and is answered 404.

Smaller observations, without a run:

* *Lifecycle.* A crash between the commit of `save` and the insert of STATUS_CHANGED
  loses that entry (`AdvanceIsRecorded` tolerates exactly this), and `statusAtCut` of
  the report of internal problems is reconstructed from those entries. A PATCH of
  `occurredAt` does not look at the effects already registered, though
  `addConsequence` refuses an effect earlier than its problem
  (`situation-consequences.service.ts:109`). A PATCH may reassign an INTER dependency to
  the area it affects, which registration refuses (`situation.entity.ts:54-57`).
* *Scope.* The list of another area (`situations.service.ts:597`)
  leaves out its problems that affect one's own area; a coordinator without an area is
  filtered by area in the detail and not in the list.
* *Registration and analysis.* REGISTRATION_IN_PROGRESS is dead code while the index is
  as it is. A confirmed version whose answer could not be built is also recorded as
  AI_ANALYSIS_FAILED. Recommendations of the model accumulate with each reanalysis. A
  provider that repeats a coordination code makes the whole confirmation fail.
* *Evidence and recommendations.* The ATTACHMENT_ADDED entry that a crash loses is not
  repaired by a retry. An upload whose evidence is deleted before it is read again is
  answered 500 after its entry was written (`situation-evidence.service.ts:72-91,196`). A save written between the comparison and the write of another
  can leave status and completion disagreeing (`torn`). `completeRecommendation` has no
  caller, while PATCH, marked deprecated, is live.
* *Accounts and catalogues.* The audit of a user's edit may miss a column that a
  concurrent save wrote. A failed awaited seed leaves a process alive that answers
  503 on `/health/ready` until it is replaced.
* *Indicators.* The DTO of internal problems says of `total` that it is the count of the
  breakdown (`operational-kpi-internal-problems.dto.ts:72`), without a condition; above
  500 it is 500, with `truncated` (`operational-kpi-internal-problems.service.ts:110`).
  `reliability: 'exact'` is told when the cut is taken as now, also if the
  data end on an earlier day (`operational-kpi-state.dto.ts:49-53`). The comment of
  `kpi-estado-aging.ts` that `due_at` is recomputed with the severity contradicts
  `situation-sla.policy.ts`. The documented identities hold only while nothing of the
  period is committed among the queries.
* *Release.* INTERNAL problems registered by the old revision between 1787400000000 and
  1788100000000 keep no affected area for good (`OnlyTheWindowLacksItsArea`). The
  backfill may fail on a row inserted behind it, or be the victim of a deadlock; it is
  rolled back and run again.

## 7 What is left out

* Data that no rule reads: titles, descriptions, categories, related
  coordinations, error wording, and the wording and payload of timeline entries.
* Queries that are not about one row, or not set beside another: paging, ordering,
  the dashboard, the KPIs' live snapshot and comparison, their filters by category
  and partner, percentages and texts of the reports. A sweep is modelled over one
  row: rows are independent (no statement reads two to decide about one), and the
  page limit appears as a row passed over.
* Audit entries: best effort, after the commit, read by nothing that decides.
* Rows deleted by hand, and clocks that disagree between instances.
* The text of the AI exchange (prompt, provider, parser, the comparison of two
  analyses, the simulation): the provider's outcome is a choice.
* Tokens and cookies: the result of authentication is the actor.
* The components retired from the runtime, whose modules declare no controller:
  recommended actions, operational areas, operational events, executive intelligence.
* The development seed of users, the demonstration scenarios, the migrations before
  this release and every `down`.

The last two, the data transfer objects, the text sent to the model and the module
wiring are most of the lines under `src/src`. That is why the definitions stand for
about a sixth of them: what keeps state, or decides, and runs, is modelled but for the
lists above.

## 8 Plan

1. **Versions for the rows that are saved whole** (a version column, or a save of the
   edited columns alone) would answer findings 1 to 4 alike. If the program adopts them
   `lost` stays empty: the properties and theorems of the history then hold in full, and
   `ClosedStaysClosed`, `BreachIsKept`, `FencedUnderPatch` and `DeactivatedIsRefused`
   become theorems.
2. **Safety under liveness**: that the steps the fairness is stated for stay enabled
   until they are taken is out of reach, but their guards are invariants that can be
   stated (a breach that is due is not hidden from the sweep's query). With it, a model
   of several problems and of `SKIP LOCKED` itself would show what `SF(MarkBreached)`
   now assumes.
3. **The reads of a response**: the confirmation between the two reads of an analysis is
   admitted by `AnswersAreCoherent`, and could be a finding if a document comes to
   promise otherwise.
