# DataHub backend: a TLA+ verification project

DataHub collects the web pages of universities, keeps what it saw as evidence,
extracts candidate claims from it, lets people review and resolve them, and
guards what may be published of them. This directory holds TLA+ models of that
program, the TLC configurations that check them on small instances, and proofs
that TLAPS checks for every instance. Every definition is read from the code
under `src/apps/api`; the "map" of `PROJECT.json` names the lines each one
stands for, "hazards" what is hard to test in them, and "mutants" a plausible bug
that each checked property finds. Paths below are relative to
`src/apps/api/src/app/` unless they begin otherwise.

1. The system. 2. The modules. 3. The runs. 4. What the runs found. 5. What is
proved. 6. Disagreements. 7. What is not modelled. 8. Plan.

## 1. The system

| Component | State | Operations | How it meets the others | What makes it correct |
| --- | --- | --- | --- | --- |
| Fetch queue and leases (`domains/acquisition/lease.py`) | `fetch_attempt`, `fetch_run` | enqueue_cycle, claim_next, heartbeat, release_lease, take_ownership_for_finalisation, sweep_expired, schedule_retry, oldest_open_cycle | workers, sweeper and enqueuer are separate processes that share tables only | one run per attempt, written by its last holder or the sweeper; justified retries; a queue that drains |
| Crawl worker (`domains/acquisition/runner.py`, `scripts/acquisition.py`, `workers/tasks/crawl.py`) | `source` eligibility, cooldown and strikes; `host_cooldown`; a `HostGate` in memory | run_cycle, _attempt_one, _react, _contain_internal_error | fetches between two transactions, with no lock held | late answers override nobody; pauses only extend; the lease lasts as long as the fetch |
| Recording and effective evidence (`recorder.py`, `evidence.py`, `fetcher.py`) | `content_blob`, `snapshot`, `fetch_run` | conditional_headers_for, fetch with its redirects, record_outcome, latest_effective_evidence | two cycles may fetch one page at once | a 304 names the bytes it confirmed |
| Evidence store (`storage.py`) | objects by hash, on disk or S3 | put, find_orphans, delete | written before the transaction that names the object | no row without an object, no torn object |
| Operator recovery (`recovery.py`) | the same `source` columns, `audit_log` | reenable, disable, mark_needs_review, clear_cooldown | races with workers' late answers | only audited commands change a judged source |
| Extraction (`domains/extraction/`) | `extraction`, derived objects; a page as blocks, tables, links | run_extraction, extract_one, the walk of a page | reads snapshots while the crawl goes on; passes may overlap | every newest snapshot gets one result, with the words of its page |
| Claims pipeline (`domains/claims/`) | `field_claim_candidate`, rule and document versions | run_claims, the extractors of a document | reads the latest documents; deployments change the versions under it | one candidate per statement, located where it says, saying what it says |
| Review and resolution (`claims/review.py`, `resolution.py`, `grouping.py`) | decisions, scopes, conflict resolutions | record_decision, preview and apply of scope and conflict, the queue | preview and apply are separate requests that lock nothing between | what a decision replaces its reviewer was shown, unless that committed while it was being applied |
| Source verification (`domains/verification/`, `scripts/source_review.py`) | hosts, mappings, `source` eligibility, field bindings | decisions about hosts and mappings, promotions, previews | sessions with row locks; triggers withdraw what a withdrawn trust carried | eligible sources are earned; decisions are as previewed |
| Publication gates (revisions 0013, 0017, 0019, 0032) | canonical columns, `field_provenance` | triggers and deferred constraints on what a publisher writes | read the trust chain while it changes | governed values are cited, citations rest on trust |
| Identity and sessions (`domains/identity/`, `verification/identity.py`, `authentication.py`) | accounts, enrolment challenges, sessions | issue, claim, revoke, enrol, reset, change, authenticate, provision | concurrent transactions on one account | a challenge opens an account once; passwords rest on a proof |
| Pilot and knowledge (`domains/pilot/`) | submissions, collected rows, targets, facts | import, supersede, triage, register, refresh of facts | background jobs of the review API and commands by hand | claims of a submission on one page share its target; facts stay with their run |
| Review API (`api/review/routes.py`) | job status in dictionaries of the module | start, poll | background threads of one process; restarts | a job shown as running has a task |
| Onboarding (`domains/onboarding/`) | target lists, their differences, institutions in scope; the collection workbook | import of lists, export of the template, validation and import of the book | concurrent importers; months pass between template and book | scope follows the newest list; a clean book is stopped only by the gaps of section 6 |
| Audit chain (`verification/audit.py`) | `audit_log`, `audit_chain_head` | append | inside the transactions above, its lock taken last | one unbroken chain |

The hard behaviour: slow network calls between two short transactions, processes
a scheduler kills, leases that expire under a live worker, answers that arrive
after a person has decided, bytes that live outside the database, previews that
are stale when applied, and versions that are deployed under a running pass.

## 2. The modules

| Module | Models | Built on |
| --- | --- | --- |
| `FetchLedger` | what the queue promises of a page's tries, without workers and clocks | |
| `Acquisition` | queue, leases, workers, sweeper, reactions, cooldowns, recovery commands | implements `FetchLedger` |
| `HostGate` | gates, shared pauses and leases against the clock | |
| `EvidenceStore` | objects, temporary files, the transaction, orphans and their deletion | |
| `Observation` | conditional requests, redirects, overlapping fetches, effective evidence | |
| `Extraction` | extraction passes over those snapshots | extends `Observation` |
| `Document` | pages as element sequences, the walk to blocks, tables, links; locators | |
| `Readers` | which parts of a document each extractor reads, and where its claims point | extends `Document` |
| `Wording` | scores, fees, dates and times as read from the tokens of a text | |
| `Triage` | what reviewers are shown: groups, verdicts, proposed scopes, labels, queues | extends `Readers` |
| `Claims` | passes, versions, candidates, decisions with previews | |
| `Reading` | the passes of `Claims` over real documents | extends the five above |
| `TrustChain` | decisions about hosts and mappings, promotions, locks and triggers | |
| `Publication` | claims, citations, governed columns and their triggers | extends `TrustChain` |
| `Identity` | accounts, challenges, passwords, in transactions with their locks | |
| `Pilot` | submissions of lists and workbooks, triage, registration | |
| `ReviewJobs` | the two background jobs and restarts of the API | extends `Pilot` |
| `TargetLists` | importers of target lists, institutions, people who move them along | |
| `Workbook` | the validator's errors, what an import stages, what the tables refuse | |
| `Onboarding` | lists, template and returned book together | extends `TargetLists`, instantiates `Workbook` |
| `MC...` | instances for TLC | each of the above |
| `...Proofs` | theorems (section 5) | each of the above |

**Atomicity.** Where nothing is decided inside a database transaction that
another could disturb, the transaction is one action: it commits or leaves
nothing behind, and the rows it decides on are locked (`FOR UPDATE SKIP LOCKED`,
or an `UPDATE ... WHERE` whose row count is the decision). This is so in
`Acquisition`, `EvidenceStore`, `Observation`, `Extraction`, `Pilot` and
`ReviewJobs`. Where the code reads without a lock, or where locks are taken one
after another, the steps are separate: `TrustChain`, `Publication`, `Identity`
and `TargetLists` take one lock, one check or one row at a time, and a
transaction's writes are shown at its commit because they lie under locks it
holds to the end. `Claims` separates the request that previews from the one that
applies. `HostGate`'s `Answer` joins leaving the gate and pausing the host since
no `await` separates them.

**Time** is counted in ticks that remain until a deadline, so that a state space
is finite and a passed deadline is 0. In `TargetLists` and `Observation` it is
counted in begins, whose order is all the code compares.

### Acquisition

`att` is `fetch_attempt`, indexed by its unique key (source, cycle, number);
`line` its QUEUED rows in claim order; `runs` is `fetch_run`; `elig`, `access`,
`cool`, `strikes` are columns of `source`, `hostCool` is `host_cooldown`; `pc`,
`cyc`, `lease` is what a worker process remembers. Lease tokens are UUIDs in the
code; a counter of the row's claims stands for them. Actions carry the names of
the functions: `Enqueue`, `Claim`, `Heartbeat`, `Release`, `Sweep`, the
`Record...` branches of `_react`, `ContainInternalError`, the four recovery
commands; `StartRun` is the choice of a cycle by the script, `Crash` the death
of a process at any point, `LeaveUnrecorded` the database being unavailable.
`heartbeat` and `release_lease` are called by no worker today; they are part of
the module's interface and are modelled as such. The selection made by
`enqueue_cycle` (limits, domains, duplicates) is any set of enqueueable pages.

### HostGate

One attempt in each worker, as `run_cycle` awaits every page before it claims
the next. `paused` and `floor` are the gate's memory, `cooldown` the shared
table, `ttl` the lease, `budget` what is left of the fetcher's total timeout.
Time passes only while no worker can go on: a worker leaves the gate when its
wait is over, a fetch ends within its budget, transactions take no time. `late`
and `unshared` are history variables for the properties.

### EvidenceStore

`deployment` says whether the store is the file system or S3, whether an
operator deletes what `find_orphans` lists, and how many writers may crash.
`object` and `partial` are the files under a hash: none, torn or whole. A writer
that has a file open keeps it through another writer's rename; `open` follows
it. `Begin` is the existence test of `put`, `OpenPartial`, `WriteBytes` and
`Rename` the three steps on disk, `PutObject` the single step of S3, `Commit`
the transaction. `Day` lets the 24-hour floor of `find_orphans` pass and with it
every lease; that an extraction writer, which has no lease, takes less than a
day from put to commit is assumed.

### Observation and Extraction

`Observation` is about what is recorded, not who may record it: `Lose` covers a
failed fetch, a dead worker and a lost lease. `site` is what the servers serve,
a content or a redirect at each address, and may change at any time; a fetch
follows up to `MaxRedirects` hops and sends the validators of the last snapshot
on each. `clock` counts fetches started, the order of `started_at` and
`observed_at`. `Effective` is the query of `latest_effective_evidence`.
Two assumptions about the environment: an address gives two contents two etags
(`TagsAssumption`), and answers 304 only to the etag of what it serves. In
`Extraction` a pass goes over one page; the loop over pages repeats that.

### Document, Readers, Wording, Triage, Reading

Pure operators. A page is the sequence of its elements in document order, each
with its tag and depth; `Document` is the walk of `html_document.py` over it,
`Readers` the extractors' choice of units and their locators, `Wording` what
`language.py`, `tuition.py` and `deadline.py` make of a text given as tokens
with widths, and `Triage` what `grouping.py`, `scope.py`, `quality.py` and the
queue make of candidates that state some components of a value and a context.
Each states its properties of every page, text or candidate up to a bound, and
`Reading` says them of each document that a pass of `Claims` has parsed and of
each row it has stored.

### Claims

`deployed` are the versions of rules and documents in the code, `parsed` the
documents there are, `rows` the candidates, `passes` the targets each pass still
has; `desk` is the request a reviewer previews or applies and `log` what was
decided, in order. What a decision is made on is recorded with it (`shown`), so
that a property can compare it with what was in force.

### TrustChain and Publication

`host`, `mapping`, `eligible`, `bound` are the rows; `tx` the transaction of each
session, `held` its locks in the order taken: the explicit `FOR UPDATE`, the rows
a trigger updates, the `FOR SHARE` a trigger takes on the host, and
`audit_chain_head` last. A cycle of waits ends in the abort of one. `token` is
what a preview showed. No publication service exists in `src`; a publisher is
any transaction its role may run, checked by the triggers statement by statement
and by the deferred constraints at its commit.

### Identity

Operations are transactions at READ COMMITTED that read without a lock where the
code does and lock where it does. Issue and claim lock the account and its live
challenge in opposite orders; the deadlock is broken by aborting one. A claim asks
`expires_at > now()`, and `now()` is the start of its transaction: `late` keeps
whether the challenge had expired by then, and one that expires while the claim
waits for a lock is still granted. `last` and `enrolled` are history.

### Pilot and ReviewJobs

`submissions` are `pilot_submission` with their rows, oldest first; `status` the
two dictionaries of the API module, `task` where each background thread is. A
restart of the API loses the dictionaries and the threads and keeps the tables.

### TargetLists, Workbook, Onboarding

A file is a sequence of lines below its header; `RowsOf` are the numbers of the
lines the parser takes. An import reads, compares, looks up and writes row by
row (`Compare`, `Look`, `Write`, `Finish`), so two of them interleave at the same
places as their transactions. A workbook row keeps the cells some check reads,
and of the others whether they fit their columns;
`Errors` is the validator's verdict, `Accepted` what the tables take, and the two
were written from different files of the source so that they can disagree.

## 3. The runs

| Run | Instance | Checks |
| --- | --- | --- |
| `leases` | `Acquisition`: 1 page in 2 cycles, 2 workers, every outcome, 3 tries, 3 leases in all, 1 command | `OneTerminalRun`, `NoStaleWriter`, `ParkedStaysParked`; `RefinesLedger`, `OnlyPeopleOverride`, `HostPauseOnlyExtends` |
| `drain` | 2 hosts with a page each, 2 cycles, 1 worker, fair | `NothingClaimableStarves`, `NothingStaysRunning` |
| `store` | 2 contents, 2 writers; the file system and S3, with deletions and without, 2 crashes, 2 days | `NoDanglingRow`, `TornIsTransient`, `NewObjectsSurvive` |
| `gate` | 4 attempts of 1 host (one with a port), 2 workers, pauses of 1 and 4 ticks, lease of 3 | `LeaseCoversRequest`, `AtMostOneLateRequest` |
| `pipeline` | 2 contents, 2 addresses, 2 fetchers, 3 fetches, 1 redirect, 1 extraction pass, fair | `EffectiveIsLatestAnswer`; `NewestGetsAResult`, `EveryFetchEnds` |
| `trust` | 2 hosts, 2 mappings of 1 source, 2 sessions, 1 publisher, 17 operations, 3 in a behaviour | `EligibleIsEarned`, `GovernedAreCited`; `DecidedAsPreviewed`, `CitedOnTrust` |
| `bindings` | the same, with promotion and rejection only | violation of `BindingsAreCurrent` |
| `accounts` | 2 accounts, challenges, passwords and clients, 3 transactions, fair | `EnrolledOnce`; `ProofsStillHold`, `EveryTransactionEnds` |
| `decisions` | `Claims`: 2 statements on 2 pages, 2 reviewers, 2 decisions, 1 deployment | `OnlyOverlapsAreBlind` |
| `reading` | `Reading`: 3 statements on 2 pages, 2 passes, 1 deployment, pages of 4 elements, fair | `OneCandidatePerStatement`, `NothingLostNorTwice`, `HeadingsGovern`, `ClaimsAreLocated`, `FurnitureIsNotContent`, `ReadAsWritten`, `ShownAsItIs`; `EveryStatementClaimed` |
| `jobs` | a list and a workbook, 2 tasks, 3 submissions, 1 decision, 1 claim in review | `ClaimsRideTogether`, `FactsOfTheirOwnRun`, `ShownRunningIsRunning` |
| `onboarding` | 2 importers, 6 files of 2 lists, 3 imports, one template and one book from 8 families of edits | `ScopeFollowsLists`, `EveryDifferenceIsRecorded`, `AbortsOnlyOnGaps`, `FactsStayTogether`, `PublishedFactsFit` |

On two cores the runs take from seconds to three minutes; the largest are `trust`
(3.05 million distinct states), `decisions` (1.55 million), `jobs` (1.26 million)
and `gate` (1.17 million). Type invariants are proved and no run repeats them.

**Why these bounds.** Fencing needs two claims of one attempt by two workers and
a sweeper, and retries a third number to tell the last try from the one before;
rows of different pages meet only in the claim order, which two cycles of one
page exercise: a retry of one cycle beside the first try of the other. Judgements
need two answers in flight for one page, hence two cycles, and a command between
them (`MaxDecisions`). Draining needs a second host, so that one page may be
cooling while the other waits, and one try each. A torn object needs two writers.
`gate` needs a pause longer than a lease (4 against 3) and one shorter, and a
third unported attempt that lets a worker claim again after two late answers.
`Observation` needs a third fetch for a 304 asked for before a newer snapshot was
recorded, and one redirect for an address that never served what it confirms.
Trust is lost through a host, a mapping or a promotion, so three operations of two
sessions are the shortest race of a promotion with a withdrawal and what comes
before it; one write of the governed row (`MaxWrites`) is enough to tell cited
from uncited. Enrolment needs a challenge issued, one claimed or revoked beside
it, and a third transaction between. A blind override needs two decisions and a
deployment between preview and apply (`MaxDeploys`). Three submissions
(`MaxSubmissions`) are one that is superseded, one of a task and one by hand.
Onboarding needs a list, one that omits an institution and one that brings it
back, two importers that overlap, a file with a run of blank lines (`BlankRun`
is 2 in the instance and 3 in the code) and one that declares a count; of a
book, amounts on both sides of what the column holds (`FigureLimit` is 4 in the
instance and 10^12 in the code) and a reference of each kind in digits other
than 0 to 9 (`OtherDigits`). Pages of four elements (`PageNodes`; six with
tables) hold a container, a heading, a block and a bare text in every order; the
theorems are about pages of any size. Other bounds: `MaxGeneration`,
`MaxEvents`, `MaxReviewed`, `MaxTx`, `MaxOps`, `MaxDays`, `MaxFetches`,
`MaxRedirects`, `MaxImports`, the constraint `FewClaims` of `leases` and
`EarlyTemplate` of `onboarding`, which follows books for the lists of the first
two imports. Symmetry is over workers, sessions, tasks and values that nothing
tells apart, and over none in runs with liveness.

Deadlock is not checked where a run may end for good, all pages done or a bound
reached. In `gate` a worker may always restart, so it cannot occur there.

**Fairness.** `Acquisition`: `docs/deploy-crawler.md` schedules the worker
hourly and the sweeper every 15 minutes, so starting a run, sweeping and the
clock are weakly fair; a run that has started claims at once, so the claim is
strongly fair against being killed again and again; a worker that has claimed
goes on unless it dies. Enqueueing, heartbeats, releases and commands are not
fair. `Observation`: a fetch has a total timeout, so a hop and an answer are
weakly fair. `Extraction` and `Claims`: nothing schedules the passes, so that
they go on being run is the runs' assumption, and so is that a document which
is tried again and again is parsed, and a target read, in the end; killed passes
and missing objects may come between any number of times (strong fairness of
`Parse`, of a result and of `Reads`, weak of the start of a pass). `Identity`: a
transaction that can go on does, a deadlock being broken by PostgreSQL.

## 4. What the runs found

`bindings`: `promote` adds the bindings of a responsibility with `ON CONFLICT DO
NOTHING` (`domains/verification/promotion.py:335`) and nothing removes one.
Rejecting the mapping clears its promotion and withdraws the source, but when
the mapping of another responsibility of the same page is promoted, the gate
accepts the fields of the rejected one again, where revision 0032 (lines 13-16)
sets out to keep the two decisions apart. The other disagreements met are in section 6.

## 5. What is proved

All theorems hold for any constants that satisfy the modules' named assumptions;
TLC evaluates those on every run. Each safety property of a passing run is
stated by a theorem, except two of `reading` (below).

**`AcquisitionProofs`** (`ConstantsAssumption`, `BackoffAssumption`,
`NoLeaseAssumption`). `TypeCorrect`: the types are inductive. The heart is
`FenceInv`, the conjunction of `TypeOK`, `TokensOK`, `OneTerminalRun` and
`NoStaleWriter`. None of the last three is inductive alone: that a stale worker
fails the fence needs that tokens in hand are at most the row's generation and
never shared (`TokensOK`), and that an attempt which ends had no run before needs
`OneTerminalRun`. Steps are sorted by what they do to rows: leave them, open
them, claim them, end one with a run. From `FenceInv` follow
`EveryAttemptEndsOnce`, `StaleWorkersWriteNothing` and, since tokens tell holders
apart, `AtMostOneHolder`. `InOrder`, that a later number exists only once the
earlier are terminal, makes every step one of `FetchLedger` or a stutter
(`CoreKeepsTheLedger`); what the ledger promises is then proved of the core
itself (`CoreRetriesAreEarned`, `CoreEndingsAreFinal`). `ParkedUntilReenabled` is
inductive over the judgements; `MachinesNeverOverride` and `PausesOnlyExtend` are
action properties proved step by step. `BackoffAssumption` states that
`backoff_seconds` is a number: the prover has no facts about exponentiation.

**`HostGateProofs`** (`TimesAssumption`, and `LeaseAssumption`, 2 + 60 < 180 seconds
in the code). `LeasesOutlastRequests`: `LeaseInv` says that what a gate remembers
of a host the table knows too (or the answer in hand does), that floors are at
most `FloorTicks`, that a worker's attempt is nobody else's, and that a lease
exceeds the wait and the fetch that are left. A claim then sees no pause in the
table, hence none in the gate. `PausesAreHeeded`: `LateInv` says that a worker
which waits in its gate has no late request on record.

**`EvidenceProofs`** (`DeploymentAssumption`; `ContentsAssumption`,
`TagsAssumption`). Of the store: `RowsAreBacked`, where an operator deletes
nothing, by `Backed` (a writer past its put has an object, and nothing is
listed); `ReconciliationIsSafe`, by `Aged` (what is old or listed has an object,
and nobody unfenced has just written it); `TornInPassing`, by `Attended` (a torn
file is being written by someone) until the first writer dies on the file system,
and by `Unshared` whoever dies: bytes that no two writers wrote at once have one
writer at most, who truncated what the dead left and renames it whole. What two
writers share when one is killed is excepted by the history `met` (section 6). Of
the evidence:
`EvidenceIsCurrent`, by `Sound`: what the runs recorded is accounted for by
snapshots (`Accounted`), a 304 in flight equals the snapshot whose validators
were sent (`InFlight`), and with no overlap the newest snapshot is the one each
fetch compares with (`Alone`). `PassesOnlyRead` carries it through `Extraction`;
`TypeCorrect` is about both.

**`PublicationProofs`** (`ChainAssumption`, `PublicationAssumption`).
`EligibleSourcesAreEarned` rests on locks: `Exclusion` (two sessions never hold
locks that conflict) lets what a transaction checked under its locks be still
true at its commit (`Vetted`), so a promotion commits on a mapping that is still
verified under a host that is still trusted, and a withdrawal that came between
waits. `DecisionsAreAsPreviewed` is the same of the preview's token;
`PublishedOnEarnedSources` carries eligibility through publications;
`GovernedValuesAreCited` adds what the deferred constraint sees at each commit;
`CitationsRestOnTrust` is an action property under that invariant.

**`IdentityProofs`** (`IdentityAssumption`). `AccountsEnrolOnce` and
`PasswordsRestOnProof` share `IInv`: locks are exclusive, an account has one live
challenge (`OneLive`), used challenges are the enrolled ones (`Spent`), tokens of
pending issues are fresh (`Fresh`), and a transaction past its checks holds what
it proved (`Proven`): a challenge, in time when the claim began, or the present
password. Resets by administrators rest on no such proof and are no part of it.

**`ClaimsProofs`** (`ClaimsAssumption`; `PageNodesAssumption`). `StatementsAreClaimedOnce` is the unique
fingerprint over versions that only grow. `DecisionsMeetWhatWasShown` needs no
lock: the log only grows and an apply remembers how long it was when its
transaction began (`Opened`), where `BeginApply` has compared what was shown with
what that prefix says; what no later entry is about stands as the prefix left it
(`StandsStill`), and where one is, it committed within the transaction. A deployment
restarts the process and ends open transactions.

The other theorems of this module are about what a parse makes of a page, for
pages of any number of elements: `PageNodes` is any natural number. An induction
theorem of the library cannot be used here, since it takes an operator as a
parameter; instead `UpInduction` and `DownInduction` state induction over a set
of numbers, and `TextExists`, `PathExists` and `WalkExists` show with them that
the recursive functions of `Document` exist, so that the equations of one step
(`TextSteps`, `WalkSteps`) can be used. Flattened sequences are reasoned about
by `FlattenInduction`. What is proved of a whole page rests on one induction
over the walk (`WalkFromEmitted`, `JoinWalked`, `PartsFacts`, `PageWalked`): for
each element, the blocks the walk emits for it are about elements of its
subtree, no two about one, none under a block tag, and marked as chrome if an
ancestor is (`Sound`), and every element under no block tag that makes a block
has one (`Heard`).

* `ClaimsPointAtTheirWording`. The types of documents (`TextType`, `BlockFacts`,
  `TableType`, `BlocksType`) say which blocks have texts and which have items; a
  pointer into a block, an item or a cell then resolves to the unit it was made
  from (`BlockPointer`, `ItemPointer`, `CellPointer`), and one into a part of a
  unit to that part (`LanguagePoints`, `CalendarPoints`). Models are held to the
  units whatever they answer (`ModelsPointInTexts`).
* `BlocksStandUnderTheirHeadings`. Going back from a block, the scan keeps, of
  each level below the last one kept, the nearest heading (`Standing`,
  `PathStands`); on a page whose headings hold no blocks, that is the heading
  path the tree gives.
* `NavigationIsNotRead`. A block whose element has an ancestor in the
  navigation, header or footer is marked so, however many sections are between
  (`Sound`). That a requirement is not the label of a link takes more: an
  element with the words of a link in it and no others holds only that link
  (`OnlyLink`, `ItemHasLinkOnly`), and words of different blocks are different
  (`BlocksApart`).
* `NoWordIsLostOrRepeated`. A text tells a set of words if it has these and no
  others, and recites it if it has each once (`Tells`, `Recites`). The text of
  an element recites the words of its subtree (`WordsRecite`), since subtrees of
  siblings share nothing (`KinApart`); so do the items of a list (`ListRecites`)
  and the cells of a table, row by row (`RowTells`, `RowsTell`), beside its
  caption (`CaptionRecites`, `TableRecites`). Blocks are about regions of the
  page that do not meet, and together cover what is said (`SomeBlockSays`,
  `PageRecites`), so the document says each word of the page once. What
  `_drop_non_content` takes away beforehand is only code (`SpokenAfterDrop`),
  and what followed it in a text follows a space (`JoinApart`, `TextsApart`), so
  that no two words are welded there. Pages with tables in tables are not
  `TablePages`: there rows are repeated (section 6).

**`ReviewJobsProofs`** (`PilotAssumption`, `JobsAssumption`). `PagesRideTogether`:
within one submission, the repeats of a page point at a claim that repeats
nothing, so registering one registers all; rows never move (`Keeps`).
`RunsKeepTheirFacts`: a task's submission is its own (`Owned`).
`RunningHasATask`: by the states of tasks and dictionaries.

**`OnboardingProofs`** (`ListsAssumption`, `BooksAssumption`). `Orderly` is the
invariant of the imports: an open import has written the institutions of exactly
the rows it has passed (`WritesOK`) and compares itself with a list no finished
import of its name has overtaken (`PreviousOK`). With `Scoped`, which speaks of
names whose imports do not overlap, follows `ScopeIsOfTheLatest`; the lemmas
about a finish say which lists are the newest before and after. `DifferencesTellAll`: each
list has the entries and differences of its file (`Told`), and `ReplayIsExact`
shows, of any two lists, that replaying the differences gives the second in the
columns of `Compared`; the key
facts are that a key has at most one change of each column and that changes and
losses are of different keys. `NoLineLost`: a set of rows as large as the set of
named lines is that set. `TypeCorrect` gives the CHECKs of the table. Of the
workbook, `Judged` remembers that a book which was not refused had no errors;
`OnlyKnownGapsAbort`, `FactsKeepToTheirOwn` and `PublishedFactsAreFit` then follow from what
the absence of errors says of each row (`RefFacts`, `CleanFacts`, `LargeFigure`) and
from what the insertion keeps of it (`StagedRowFacts`, `PlainFeeIsKept`), for books
of any length; the last with the exceptions section 6 names.

**Only model-checked.** Liveness (`NothingClaimableStarves`,
`NothingStaysRunning`, `NewestGetsAResult`, `EveryFetchEnds`,
`EveryTransactionEnds`, `EveryStatementClaimed`): fairness and ENABLED are beyond
the prover. `ReadAsWritten` and `ShownAsItIs` of `reading`: they compare what the
operators of `Wording` and `Triage` compute with a reference, over a finite
list of texts and a finite set of candidates in which no constant of the model
occurs, so that TLC's evaluation is exhaustive for what they state; for texts of
every length they would take induction over data with several folds in each
other, and they are not stated for those.

## 6. Disagreements

Met while modelling. A formula in parentheses is one the code does not satisfy;
it stands in the module with a comment, and no run has it.

Crawl and evidence:
* `oldest_open_cycle` (`lease.py:407`, docstring 403-405) takes the earliest
  QUEUED row's cycle although `claim_next` will not claim that row: a page
  refused in a later cycle while an older attempt of it is queued keeps every
  later run on the older cycle (`NothingClaimableStarves` with refusals).
* `scripts/acquisition.py:495-496` says a swept page "is eligible again". The
  sweeper schedules no retry and the enqueue skips a page with any attempt of the
  cycle: it waits for the next one (`SweptPageIsEligibleAgain`).
* `lease.py:59-60` says a slow fetch is never reaped mid-request. It is when a
  host's pause was cleared, or not recorded: the gate still sleeps it off
  (`NeverReapedMidRequest`).
* `put` reuses an object older than the age floor and leaves its age as it is
  (`storage.py:281`), so an operator may delete it before the row commits
  (`NoDanglingRow` with deletions).
* "A crash mid-write cannot leave a truncated object" (`storage.py:159-160`): it
  can when two writers of the same bytes share the temporary name, one renames it
  while the other rewrites it and the other is killed (`TornIsTransient` without
  the exception of `met`); and the second of two writers finds its file renamed
  away (`storage.py:161-163`).
* A second extraction pass "does nothing" (`extraction/runner.py:32-33`); two at
  once both find no result and the second insertion ends its pass
  (`SecondPassDoesNothing`).
* `host_cooldown.host` is compared with an authority that may name a port
  (`lease.py:263`, `docs/ACQUISITION.md:459`); strikes are reset by a success
  alone though called consecutive (`docs/ACQUISITION.md:448`); the later of two
  answers overwrites a source's cooldown (`runner.py:369`); the Celery task works
  the current hour's cycle only (`crawl.py:109`).
* Redirect hops do not pass the host gate (`fetcher.py:26-28`), and carry the
  validators of the first address: a 304 of another address is taken as a
  confirmation (`confirmedElsewhere`, the exception `EffectiveIsLatestAnswer`
  makes).

Review, identity and trust:
* A decision is recorded "refusing unless the facts are still the previewed ones"
  (`resolution.py:704`): nothing is locked between the second preview and the
  insertion, so of two reviewers whose transactions overlap the second to commit
  has not been shown the decision of the first, and replaces it if it began later
  (`NoBlindOverride`).
* A candidate may be ready whose group is in a dispute nobody was shown
  (`ReadyAsShown`; `resolution.py:255-259` against 92-95 and revision 0037).
* The rehash at a login on the command line may bring back a password that was
  changed meanwhile (`LatestPasswordHolds`; `authentication.py:153`). A reset
  revokes no session.
* "Every claim on this URL, physical and duplicate alike, points at the one
  source" (`registration.py:211-213`): the update beneath names the submission of
  the row it registers (219), and only current submissions have their rows
  registered, so a page that two submissions list has a target in one of them and
  none in the other until that is registered, if it ever is (`ClaimsRideAcross`).
* After a restart of the API, or in a second process, a run may start while one
  is under way (`OneRunAtATime`; the 409 of `routes.py:504` says "on this
  process"); a workbook supersedes a source list (`ListStands`;
  `import_workbook.py:499-516` against `models.py:166-167`).
* Lock orders of the trust chain form cycles, broken by an abort (`NoLockCycle`).
  A citation is asked to be of an eligible source and not of a field the source
  is responsible for (`CitedInScope`; revision 0032 lines 3 and 30-33, 0017 lines
  240-244). A citation's trust is that of its moment: rejecting an effective
  host later withdraws nothing published, and the value that is cited is not compared with
  the one the claim has.
* The scope's fingerprint leaves its criteria out (`resolution.py:500`);
  `record_decision` has no guard against a stale view; `SELECTED_SUPPORTED_CLAIM`
  also unblocks the claims that lost.

Onboarding:
* An import says it "must never knock a target that is already ACTIVE back into
  review" (`importer.py:361-364`), and judges by a status it read before
  (`ImportKeepsProgress`). Overlapping imports compare with the same previous
  list; an institution of two list names leaves the scope when one drops it; a
  region resolved later does not clear NEEDS_MANUAL_REVIEW; importing A, B, A
  leaves A superseded.
* "Every difference against the previous list of the same name is recorded" (`importer.py:22`)
  does not hold of the territory: it is stored with an entry (239) and neither
  selected from the list before (343-350) nor compared (`_row_diffs`, 425-507), so
  one that changes while the destination stays is recorded nowhere
  (`TerritoryIsRecorded`).
* A file whose declared count is that of its truncated table, or that declares
  none, loses the lines after a run of blanks silently; the theorem is about a
  count that is true.
* `names_differ_only_by_presentation` (`naming.py`) is not asked where the
  importer reports NAME_CHANGED.
* "through an import, on a file the validator had already called clean"
  (`pilot_workbook.py:743-748`) still happens (`ImportableIsImported`): a selected
  institution with an unusable homepage; a blank programme name; an unknown
  source type; one URL twice for an institution; a cited source row skipped for
  its URL; a fact of a well-formed, unknown institution; a cell longer than its
  column, such as a country in words (`applicant_country_code`, VARCHAR(8),
  revision 0020:585); an amount of 10^12 or more (NUMERIC(14,2), 570-571); a
  reference in digits that `\d` takes (`pilot_template.py:145-146`) and `[0-9]`
  does not (revision 0020:366, 460). `AbortsOnlyOnGaps` says that of the
  constraints modelled, the keys, foreign keys, CHECKs and widths of revisions
  0020 and 0022, these are all. The selected count need not be that of the rows
  (`CountIsOfRows`; `import_workbook.py:267-272`); an unrecognised status becomes
  NOT_CHECKED (`_field_status`, 619-630); a month part without a month, a
  published deadline without a kind or of a kind that does not exist
  (`pilot_workbook.py:924-960` asks for no membership) and day or month ranges pass
  the validator and no canonical CHECK. An amount with a no-break space between
  its digits passes too (`number`, 827), but `_decimal` (`import_workbook.py:475-476,
  589-594`) cannot read it, and the row says PUBLISHED and EXACT without a figure;
  the raw cell stays in `collected_values`. `PublishedFactsFit` excepts these, and
  `EveryPublishedFactFits`, which does not, fails. An amount spelled NaN, which
  ends the validation with an exception, is not modelled.

Reading and triage, each an operator over pages or texts:
* Sections and tables of the navigation are read for fees, scores and dates
  (`FurnitureIsNotRead`; `model.py:112`); bare text comes after what it
  introduces, terms of a `dl` before all bodies (`TextUnderItsHeading`,
  `InPageOrder`); nested tables repeat rows; a `dl` wrapped in `div`s loses its
  terms; headings in a `nav` govern what follows; `review.BODY_CONTAINERS` lacks
  "section"; `<br>` welds words.
* A link has the container and `in_chrome` of the block it stands in
  (`html_document.py:374-395`), not those of its own ancestors as
  `extraction/document.py:219` says ("True when any ancestor was a `nav`, `header`
  or `footer`. Sticky"): a link of a `nav` inside a list of the content is taken for content
  (`LinksInFurnitureAreNotRead`). `NavigationIsNotRead` is about blocks, which keep it.
* Claims of a model in one block share a pointer (`ModelClaimsAreToldApart`).
* A time ahead of its date goes to the date before (`TimesAheadAreKept`);
  alternatives without a word or comma are not told apart (`TellsApartWithout`);
  "£28000–32000" is one amount (`RangesKeepBothEnds`); "from X up to Y" is a
  floor; "CA$" is read as AUD and ¥ always as CNY; only a unit's first amount
  counts; table columns go by position, ignoring colspan.
* The academic year of a date is looked for in its headings before its wording
  (`deadline.py:229-240`), where the docstring takes the round from the wording
  first because headings "stamped" dates with others' rounds; and a period named
  as an academic year, as a year of entry and as the year of the date itself are
  three periods to `grouping.py:217-235`: two pages about one deadline contradict
  each other, and the dates of two cycles that fall in one year are rivals
  (`RivalsInAnyTerms`; `RivalsAnswerOneQuestion` is about pages that name
  their periods in one term, truly).
* Verdicts depend on what a third page leaves unsaid (`ContradictionsStand`;
  `grouping.py:492-537`), agreement is between sections for different applicants
  (`AgreeForOneApplicant`), rows of a table count as parts of one statement
  (`OneStatementEach`), requirements that are labels of links pass (`LabelsAreKnown`),
  equal amounts share a label (`EqualAmountsByTheirLabels`; `quality.py:356`).
  CONFLICTS is out of reach for claims of rules (`grouping.py:21`, 72-81), which
  `in_conflict` alone asks for while the console blocks on more
  (`resolution.py:98-104`).

## 7. What is not modelled

The network (its outcomes are inputs), HTML and character decoding, the layout
of PDFs, reports, logging and redaction, configuration, table declarations
except the constraints named above. In `Wording`: named components of tests,
operators, billing units, categories and rounds. In `Triage`: the number of a
priority, the other classes of admissions, `body_confirmation` and
`evidence_relationship`. The answers of a language model are an external
choice. Browser sessions are single statements on a row of their own. Manifests
are constants. The audit chain is its lock in `TrustChain` and a count in
`Acquisition`; hashes are left out. Normalisation of names and URLs is a function given as a
constant. The catalog schemas are declarations; no code in `src` writes
statuses of an institution beyond DOMAIN_VERIFIED, and the publication service is not built.

## 8. Plan

The plan of modules is carried out. What could still be added:

1. Proofs: of `Wording`, that a text of any length is divided into spans that lie in order
   and do not meet; of `Triage`, that the groups of candidates are a partition.
   Of `Document`, the words of links and of `dl` lists.
2. Proofs: from `OnlyOverlapsAreBlind` to the current version of a candidate, and of
   `Publication`, that what is published and what is withdrawn meet in no state
   a reader could see uncited.
3. Models: browser sessions beside the password operations of `Identity`; the
   hashes of the audit chain as a sequence, with the lock that orders them.
