# Verification of homehost

homehost rents virtual machines and containers on one home server. A user asks
for a machine on a web panel, an operator approves, and a worker on the host
builds it with Incus, gives it a public IPv6 address, and powers, sets up and
destroys it on request. Coding agents reach the same machines through a token
API, and a built-in agent chat runs commands on them.

This directory holds TLA+ models of that program, the TLC configurations that
check them and the TLAPS proofs about them. The models are read off the source
under `src/`; `PROJECT.json` names, for every definition, the lines it stands
for. Paths below are relative to `src/`; `A/` is `apps/api/src/` and `W/` is
`apps/worker/internal/worker/`.

    tlc -workers 2 -config Faults.cfg MCProvisioning     # one run
    tlapm ProvisioningProofs.tla                         # one proof module

## 1. The system

    browser, CLI, agents --HTTP--> API (TypeScript) --SQL--> Postgres <--SQL-- worker (Go)
                                     |                           |                 |
                                     +--> model provider         +---NOTIFY------->+--> Incus, DNS,
                                                                                        route files

API and worker share nothing but Postgres. The API runs every operation as one
transaction under a row lock. The worker runs every handler as a sequence of
single statements and host calls with no transaction around them. That
asymmetry is where most of the hazards come from: whatever the API commits may
fall between two statements of a handler that read its row long before.

| Component | State | Operations | What is hard | What makes it correct |
|---|---|---|---|---|
| Request lifecycle `A/domain/requests.ts` | `server_requests` | create, decide, cancel, power, retry provision, retry setup, read password | races with the worker; quota and GPU slots under two locks; proposals accepted twice | nothing before approval; no approved request without a job; nothing leaks; admission holds |
| Job outbox (migration 0002, `W/store.go`) | `provision_jobs` | insert, lease, finish, requeue | double inserts, dead leaseholders | one active job per request and action, oldest first, one leaseholder |
| Host worker `W/worker.go`, `W/jobs.go` | the job in hand, a snapshot of its row | provision, teardown, start, stop, setup | stale snapshots, crashes, failing host calls and statements | promotions are ready; teardowns are complete; every job ends |
| Incus client `internal/incus/incus.go` | instances | launch, start, stop, delete, state | partial effects of a failed call | through the worker's properties |
| IPv6 history (migration 0013, `W/store.go`) | `ip_assignments` | open, close, reconcile | order against build and delete | a live box can be attributed |
| Exec queue `A/agent-access.ts`, `A/domain/agent-access.ts`, `W/execs.go` | `machine_execs` | enqueue, wait, expire, claim, run, finish, recover, purge | deadlines against claims, restarts, several environments | started at most once; answers are true; the cap holds; everything ends |
| Wake-ups `W/notify.go`, both loops | one-token channels, the LISTEN connection | notify, poke, poll | lost notifications, merged pokes | no loop rests over a queued row |
| Accounts `A/domain/users.ts`, `invites.ts`, `audit.ts`, `A/oauth.ts` | `users`, `invites`, `moderation_actions`, session and state cookies | login, invite, approve, reject, classify, boot | operators, logins and booting containers change one account at once | the audit holds the one decision the row shows |
| Access `A/domain/agent-access.ts`, `A/desktop-ticket.ts`, `apps/web/src/routes/tokens.tsx` | `access_tokens`, tickets, the token page | create, revoke, list; bearer calls; desktop | checks in separate statements while what they rest on is taken away | token cap; a late call is never served; secrets reach their page |
| Agent chat `A/domain/agent-chat.ts`, `agent-storage.ts` | `agent_conversations`, messages, `agent_runs` | create, turn, recover on read | dying and stalled turns, two replicas | one turn at a time, every message answered, the daily cap |
| Concierge `A/domain/concierge.ts`, `packages/shared/src/concierge.ts`, `plans.ts` | `agent_runs` | suggest, with a daily cap | rules that replace each other's plan and software | what is suggested can be created and is not shrunk |
| Credit ledger `A/domain/ledger.ts` | `credit_ledger` hash chain | append, verify | concurrent transactions, ids before commits | no fork, balances are sums, no false alarm |
| Site generation `packages/sites/src/generate` | plan and pages of one generation | plan, fill in parallel, escalate | failing pages beside running ones | the generation ends with nothing in flight |
| Benchmark runner `packages/bench/src` | spend guard, rows, results file | run, record/replay, checkpoint | parallel calls and a shared cap | overshoot is bounded, no row lost, unknown spend reported |
| Rolling deployment `infra/prod/rollout.sh`, `restart.sh`, `A/db/migrate.ts`, `A/server.ts` | containers, Traefik's routes, migration ledger, worker binary | rollout, boot, drain, restart | failures, interrupts and crashes between any two steps | always one serving container; drained before stopped; code finds its schema |
| Web panel `apps/web/src` | TanStack's cache, component state | list, progress, chat and queue pages; request forms; desktop page | polls, mutations and page changes that cross; gestures, focus and timers | an answer once reported is not undone; consent is for what is sent; the guest gets keys in control only |
| Activity feed `components/ActivityFeed.tsx`, audit trail `components/admin/AuditTrail.tsx`, `A/domain/audit.ts` | pages of a list on the screen | read the first page, show more | polls replace the first page while older ones hang below it; rows commit late; cursors in milliseconds | a list has no gap but for named reasons |
| Scripts written into guests, DNS and route text, contract tables, CLI, host setup | little or none | - | - | not modelled, see section 7 |

## 2. Modules

| Module | Models | Notes |
|---|---|---|
| `JobQueue` | what the outbox promises | abstract specification: submit, lease oldest first, release, recover |
| `ControlPlane` | the tables and the world outside | the variables both sides share |
| `RequestApi` | `requests.ts` | one action per operation, whole transaction in one step |
| `JobWorker` | `worker.go`, `jobs.go`, `store.go` | one action per statement or host call, with every failure of it |
| `Provisioning` | API and worker together | properties, `INSTANCE JobQueue`, liveness |
| `Admission` | `createRequest` taken apart | owner's lock, GPU lock, proposal, quota |
| `OneShot` | what an agent is promised of an operation | abstract specification: started at most once, one lasting outcome, true answers |
| `ExecQueue` | exec calls, loops, recovery | `INSTANCE OneShot WITH` a refinement mapping |
| `Wakeup` | listener, channels, loops | rows only counted: `JobQueue` and `ExecQueue` follow single rows |
| `Accounts` | login, invites, reviews, boots | an account is its e-mail address |
| `Access` | tokens, tickets, bearer calls, the token page | EXTENDS `Accounts`: what a call rests on is what accounts change |
| `AgentChat` | turns and recoveries | |
| `Concierge` | plan table, `decideSuggestion`, the run's row | the answers of the model are the input |
| `CreditLedger` | appends and the paged verification | |
| `SiteGenerate` | `generateSite` | its model client is left to the composing module |
| `BenchRun` | runners, cache, guard, rows | EXTENDS `SiteGenerate` and supplies that client |
| `Rollout` | `rollout.sh`, migrating boot, drain, `restart.sh` | Traefik and docker as the script sees them |
| `DesktopCanvas` | `desktop-login.tsx` and its input bridge | control, focus, zoom, gestures, on-screen keyboard |
| `RequestForms` | search box, helper, request form, confirm card | calls that outlive their page |
| `Panel` | list, progress, chat and queue over `lib/query.ts` | every query holds a numbered reading of the server |
| `Feed` | activity feed and audit trail with their routes | a row is its place in the order of `created_at` |
| `MCLocks`, `MCPages`, `MCProgress` | compositions for TLC | a behaviour is about one of several components that share no state |
| other `MC*` | - | instances for TLC |
| `Sums` | - | lemmas about sums over finite sets |
| `ProvisioningProofs` | - | theorems on `Provisioning` |
| `ExecQueueProofs` | - | theorems on `ExecQueue` and `Wakeup` |
| `AccessProofs` | - | theorems on `Accounts` and `Access` |
| `LocksProofs` | - | theorems on `Admission`, `CreditLedger` and `AgentChat`: what is counted or held under a lock |
| `RolloutProofs` | - | theorems on `Rollout` |
| `BenchProofs` | - | theorems on `BenchRun` and the generations below it |
| `PagesProofs` | - | theorems on `DesktopCanvas`, `RequestForms`, `Concierge`, `Panel` and `Feed` |

**Sets for columns.** A nullable column is the set of requests for which it is
set; an Incus instance is `absent`, `stopped` or `running`. Names and addresses
are derived from request ids in the code, so a set is enough as long as the
derivation is injective.

**Grain.** An API transaction locks the request's row before it reads it, so it
is one action. Creation is the exception: it counts over many rows under locks
on others, and `Admission` takes it statement by statement. A worker handler is
one action per statement; `pc` is where it stands, `cur` the job it leased,
`snap` what it read at the start. The loop labels follow `jobs.go` from top to
bottom: `load`, `claim`, `clean`, `mint`, `launch`, `booted`, `access`, `assign`,
`publish`, `ready`, `promote`, `recipe`, `mark`, `complete` for a build,
`destroy`, `release`, `unpublish` for a teardown. Every host call has its failing
outcomes beside its success, partial effects included; `DbError` is a statement
that fails where a handler stands, `Crash` the end of the process anywhere,
`Boot` the next start with its requeue and reconciliation. In `Accounts`,
`Access` and `AgentChat` every statement that runs without a lock is a step of
its own; statements between taking a lock and committing are joined where
nothing outside can tell.

**The script.** `Rollout!pc` is the line of `rollout.sh` (`stale`, `start`,
`healthy`, `routed`, `abort`, `switch`, `switched`, `drain`, `stop`, `remove`,
then `worker`, `restart`). `GiveUp` is the last failed look of a wait and
`AbortNew` the removal that follows: between them the new container may get
healthy and routed after all. Containers move on by themselves: an api container takes the
migration lock, reads the ledger, applies what is missing and listens; Traefik
notices later who is healthy. `Interrupt` ends the script anywhere.

**The pages.** In `Panel` the server is one row, one conversation and a number
that grows with every change; a query keeps the reading it got. `Poll`,
`FetchLands` and `FetchFails` are what TanStack does on its own, `Succeeds`,
`TurnAnswered` and `Errs` the callbacks of the hooks; `Render` is what the
components keep and lose when their content comes and goes. A call belongs to
the page that made it (`here`) until that page is gone.

**Time** is a choice: a deadline, an expiry or a poll may fire whenever its
timer is armed. Where the code's constants order two timers, the guard says so
(`ExecQueue!Age` and `Long`, `AgentChat!FallSilent`).

## 3. Runs

| Run | Instance | Distinct states | Shows |
|---|---|---|---|
| `faults` | one desktop VM with a recipe; 3 jobs, 3 build attempts, 1 restart, 1 failing statement, `EnsureProject` may fail | 1,138,510 | approval before use, builds tracked, attribution, owner's access, teardowns complete, promotions ready, refinement of `JobQueue` |
| `liveness` | a container with a recipe and a refused VM side by side, 1 restart | 325,495 | every job ends |
| `leak`, `resurrected` | one VM | - | the disagreements of section 5 |
| `exec` | 2 operations of one token, cap 1, 2 loops, 1 restart, 1 failing statement, 1 status change | 622,688 | refinement of `OneShot`, the cap, nothing answered is still queued, calls and rows end |
| `access` | 2 accounts, 2 identities of one provider, 2 logins, 2 session calls, 2 grants, 1 box, 1 bearer call; 3 events in all | 779,284 | audits match rows, token cap, late calls are refused, secrets are shown |
| `progress` | chat: 3 turns, 2 conversations of one user, cap 1, 1 midnight, 1 stall, 1 failing statement; loops: 3 exec loops or the job loop, 4 rows, 2 lost connections, 1 error; deploy: 3 deploys of 3 builds (2 of a stack that was never started), one with other labels, 4 container names, 1 interrupt, 1 crash in a boot | 281,390 | the agent chat; no lost wake-up, notifications suffice; what a deploy found is drained before it goes, its successor is there, and deploys end |
| `locks` | ledger: 3 transactions of up to 2 appends, 2 users, 4 rows, pages of 2; admission: 2 calls, 2 owners of changing tiers, 1 GPU, 1 proposal, 2 rows | 2,081,465 | what is counted under a lock stays true |
| `bench` | 2 generations of 2 pages, 2 workers each, cap 1, prices 0 and 1, 1 disk error | 1,165,736 | the benchmark and the generation below it |
| `pages` | desktop page: 2 zoom steps, 2 changes; forms: 4 calls, 2 recipes; concierge: all answers, cap 2; panel: 2 changes of the server, 2 clicks or losses; lists: 7 rows, pages of 2, pairs of rows in one millisecond | 1,102,381 | the web client and the concierge |
| `keys`, `tap` | the instance of `pages` | - | the disagreements of section 5 |

**Why the bounds are enough.** The worker handles one job at a time, so one
request already meets every interleaving of API transactions with the
statements of a build, a teardown, a power change and a setup; a second request
adds the order of the queue, and is in `liveness`. The quota never binds in those
instances; what it bounds is `Admission`'s question. `MaxJobs`
limits what the API inserts (the worker's own insert may exceed it, to
`2 * MaxJobs` at most) and leaves room for a build, its retry or a power change,
and a teardown. Builds have one attempt more than restarts plus one, because a
build whose last attempt was lost to a restart is a finding of its own (`leak`).
Two operations and a cap of one are the smallest race for a place; a second
environment is left to the theorems, which hold for any number. Three loops are the smallest number at which a token can be
passed on twice; three turns over two conversations meet both the
per-conversation rule and the per-user cap; two pages and two generations are
the smallest overlap of calls within and between generations. Two calls of
`Admission` are the smallest race for a proposal, a quota and a GPU slot; two
rows are one more than any of them allows. In `access` one account is an
operator from the start, the other may become one by the allowlist, a login or
not at all; three events let a login, a review and a boot, or a token, its
revocation and a call that bears it overlap. Three deploys are a rollout, an
interrupted one and the one that finds what it left; they never use a fifth
container name. A stack that was never started has two: a first start and the
deploy after it. Two changes of the desktop page's queries take the
canvas away and bring it back. Two changes and two clicks
of `Panel` suffice for an answer that crosses a poll, a page change and one more
answer. Seven rows are three pages of two and one row more, so a page boundary
falls between and inside the pairs that share a millisecond. Fault bounds of one put the fault anywhere; properties that a second
fault would change say so in their guards.

**Deadlock.** Runs whose system may stop (nothing left to ask for, bounds used
up) say `CHECK_DEADLOCK FALSE`. `bench` keeps the check: the only state a run
may rest in is the finished one, and since every step uses something up (a job,
a stage of a piece, a save), the absence of deadlock is its termination.

**Fairness.** No specification assumes that a user, an operator, an agent or a
fault acts.
- `Provisioning!FairSpec`: weak fairness of the worker's own steps. systemd
  restarts the process (`Restart=always`), the loop polls, every host call has
  a deadline.
- `ExecQueue`: the fairness is the antecedent of each half of `OperationsEnd`:
  calls end by the API's timers alone (`CallsGoOn`), rows by the workers alone
  (`WorkersGoOn`).
- `Wakeup`: `NotificationsSuffice` assumes goroutines that run and a connection
  that stays; a poll timer that would end an idle wait is not among them.
- `MCProgress!ProgressSpec` gives each of its three parts the fairness its module
  states, for the behaviours that are about it:
- `AgentChat!FairChatSpec`: a live turn goes on (the provider call has a deadline of
  60 s), time passes, and somebody reads the conversation, which the page does
  every few seconds; recovery happens on reads and nowhere else.
- `Rollout!FairSpec`: docker, Traefik and booting containers go on, and so does
  the script, whose waits have deadlines. Nobody owes a deploy.

## 4. Proofs

Every theorem holds for all values of the constants that satisfy the named
assumptions, so for any number of requests, calls, loops, tokens, containers and
rows, and any bound on restarts and failing statements. Every invariant and every
action property that a passing run checks is the property of a theorem, and so
are the two refinements; the runs' liveness properties are not (see below).

| Module | Theorem | Property |
|---|---|---|
| `ProvisioningProofs` | `TypeCorrect`, `QueueImplemented` | `TypeOK`, `ImplementsQueue` |
| | `NothingBeforeApproval`, `BuildsAreTracked`, `OwnersHaveAccess` | `UnapprovedUsesNothing`, `BuildIsTracked`, `OwnerHasAccess` |
| | `TeardownsAreComplete`, `LeasesHeld` | `TeardownIsComplete`, `LeasesAreHeld` |
| | `LiveBoxesAreAttributed`, `PromotionsAreReady` | `LiveBoxIsAttributed`, `RunningMeansReady` |
| `ExecQueueProofs` | `TypeCorrect`, `OneShotImplemented`, `LoopsKeepTheirRows` | `TypeOK`, `OperationsAreOneShot`, `HeldIsRunning` |
| | `TokensKeepTheirCap`, `AnsweredNeverStarts` | `CapHolds`, `AnsweredIsNotQueued` |
| | `WakeTypeCorrect`, `WakeUpsAreKept` | `WakeTypeOK`, `NoRestOverWork` |
| `AccessProofs` | `LateCallsAreRefused`, `TokensStayCapped` | `LateIsRefused`, `TokenCapHolds` |
| | `ReviewsLeaveATrace`, `SecretsAlwaysShown` | `ReviewsAreAudited`, `SecretsAreShown` |
| `LocksProofs` | `ProposalsMakeOneRequest`, `GpuSlotsNeverExceeded`, `AdmissionNeverExceeds` | `ProposalMakesOneRequest`, `GpuSlotsHold`, `AdmissionHolds` |
| | `LedgerTypeCorrect`, `TheChainIsOne`, `VerificationIsTrue` | `TypeOK`, `ChainIsOne`, `VerifyNeverAccuses` |
| | `AgentChatTypeCorrect`, `OneTurnAtATime`, `NoMessageIsDropped`, `CapNeverExceeded` | `ChatTypeOK`, `TurnsAreSerial`, `EveryMessageAnswered`, `DailyCapHolds` |
| `RolloutProofs` | `RolloutTypeCorrect`, `SchemaAlwaysFits`, `DeployReplacesAll` | `TypeOK`, `SchemaFits`, `DeployedIsCurrent` |
| | `NothingIsCutOff`, `AlwaysOneServes` | `DrainedBeforeStop`, `NeverBelowOne` |
| `BenchProofs` | `OvershootStaysBounded`, `RowsAddUp`, `AttemptsReachTheFile` | `OvershootIsBounded`, `SpendIsReported`, `NoRowIsLost` |
| `PagesProofs` | `OnlyALateFrameTakesKeys`, `DragsTakeNoControl`, `LicensesAreAccepted` | `PreviewKeepsKeys`, `DragIsNoClick`, `AcceptedWhatIsSent` |
| | `SuggestionsAreCreateable`, `AnswersAreNotUndone`, `NoOtherGap` | `SuggestionsHold`, `QuietIsCurrent`, `FeedHasNoGap` |

**Provisioning.** Types alone are not inductive: a handler indexes the job table
with `cur`. `WorkerInv` adds that a worker inside a handler holds the lease of
`cur` and that its program point belongs to that job's handler. Everything else
is inductive beside `WorkerInv`:
- refinement: each API transaction is a `Submit` or leaves the queue alone, each
  worker step is a `Lease`, `Release`, `Recover` or a stutter. The abstract
  queue is the same table, so the mapping is the identity.
- `TeardownInv` follows what `destroy`, `release` and `unpublish` have already
  removed up to `complete`; the API inserts nothing outside the tables, so it
  survives every transaction in between.
- `BuildInv` pairs the status of a row with its provision job, and says what the
  worker is about to do when it has already written one of the two.
- `LeaseInv` counts stranded leases: while the worker is up they are at most
  `dbErrors`.
- `AttributionInv` follows an attempt (`ProgressInv`) and freezes what a promoted
  request has (`PromotionInv`): no attempt in hand is of a promoted request.
  A failing statement breaks that part (a build is retried after its promotion
  when `finishJob` failed), so both properties are claimed up to the first
  failing statement, and the proof carries `dbErrors = 0 => AttributionInv`:
  the count only grows, so a step that ends with none began with none. With two
  failing statements and a restart TLC shows a box as stopped without an open
  address record.

**Exec queue.** `IInv` is the type, that two loops never hold one row, that a
held row is running, that a queued row has not run, and how row, caller and
count of starts go together. `OneShotImplemented` maps the outcome of an
operation to its error, to done, to refused when it was never inserted, or to
open; a step of the queue then starts an operation that has not started, settles
open ones, tells a caller what stands, or stutters. Recovery settles all rows of
a dead worker in one step, so the abstract step is about a set of operations.
The cap needs one thing more: only `Enqueue` adds an active row, and it counts
under the token's lock. `GoneInv`: once its call is at its last read, a row nobody
took is no longer queued, unless a statement failed.

**Admission.** The locks are derived from where the calls stand. `OfferInv`: one
call of an owner is past that owner's lock; a call past the check of its
proposal still finds it unlinked; a row made from a proposal is the linked one.
`GpuInv`: one call holds the GPU lock, and while it waits to insert, the count is
below the limit. `QuotaInv`: what a call has counted of its owner's rows is still
so when it inserts, and so the sum of their memory with the new one is within
the allowance. Sums over finite sets come from `Sums`.

**Sums.** The library's induction theorems take an operator, which the provers
cannot instantiate. `Sums` states induction over the subsets of a finite set
with a *set* of subsets in its place and proves it by the least counterexample
of the strict subset order, which is well-founded. With it, `SumFunctionOnSet`
is shown to add each term once, whatever order its fold takes.

**Ledger.** `LedgerInv`: the advisory lock has one holder; rows above the
committed ones are its own; each row names the one before it and carries its
user's sum; what the holder has read is still the end of that chain; and the
verification has walked the committed rows from the first on without a gap. The
last part is where ids that are given out before they commit would bite.

**Agent chat.** While no live turn has seemed dead, a conversation that runs is
worked on by at most one live turn, and one that does not run by none. When one
has, and no statement failed, the run rows decide: the turn that is about to
free its conversation has settled the one run the conversation had, nobody was
admitted since, and the message it was asked has its answer. `TurnInv` joins
the two, under the excuses of the properties (`OneKindOfFault`).

**Wake-ups.** `NoRestOverWork` is inductive beside the type. The argument needs
that a loop that took an exec row pokes the others before it is busy, and that
only the job loop, which is alone on its channel, takes rows without doing so.

**Access.** A late call is stopped at the look-up of its grant or, if that was
live, of its box: `LateInv` says at which of the two a late call still stands,
and needs that a grant never comes back to life, keeps its kind and box, and that
a deleted box stays deleted. `CapInv` is the lock and its count: a call that may
insert a token holds the row of the account, so that what it counted can only
shrink until it commits. Reviews take the same lock and logins wait for it, so
the step goes through every action of `Accounts`. Whose a grant is and which role
a call saw do not matter to either; the record types leave these fields to some
set (`\E X`), so TLC evaluates the properties and not these invariants. For the
accounts, `AccountsInv` says what the tables hold and what logins and calls know;
`ReviewInv` that the row of an account tells the newest decision of its trace,
and what a review has read of it is still so while the row is locked; `SecretInv`
that a secret is on its way to the page that waits for it, or was given up.

**Rollout.** `RollInv` has seven parts, named in the header of the module. The
two that took the longest carry `NeverBelowOne`: a drain has a keeper that is not
in its list (up, of the tag's build, and routed unless an old twin of its build
still serves), and whoever leaves was relieved by one that is up and stays. The
script knows only that its probe was answered, not by whom.

**Benchmark.** `SiteInv` says which pieces may have a call under way: the plan
of a generation that plans, the pages of one that fills them, never more than
its workers. `CursorInv` counts the generations a runner is on, `FileInv` what
is recorded, written and still to be saved, `BooksInv` that each call is billed to
its job and to the guard alike. The bound of the overshoot is inductive beside
them: a call goes live below the cap, and those in flight are pieces of at most
`Runners` generations with at most `Workers` each (`PiecesOfSome`). The rows add
up because a finished run has recorded all it began, and terms that are 0 add
nothing (`SumOfTheRest`).

**Pages.** The five components share no state and each is proved about its own
specification. Desktop page: `FrameIsLate`, which step can give the
keyboard to a previewed guest, shown action by action without an invariant; and
`HandInv`, which ties the travel of a single finger to the mark that
makes it a drag. Forms: `FormInv`, that a licence which is sent was read since
the software was chosen, and `ChatFirst`. Concierge: a fact about the plan
table, for each answer of the model. Panel: `PanelInv` says of every query, those
that no page observes included, that it holds what it owes, the newest change an answer
reported, or is about to fetch it. Feed: `FeedInv` identifies a page of rows by its heading, as
long as no row commits late.

**What the proofs changed in the models.** `RequestForms!ChatOpened` left the
other chats that were being opened to a page that the first answer has led away
from; `Feed` now says in
`FeedAssumption` that stamps grow with the order of the rows, which they are
cut from. Assumptions that the proofs need and the code provides: `{1, 2}
\subseteq Slots` (`rollout.sh` starts a new container beside an old one), users
and amounts exist in the ledger, `Nobody` is no caller, `system` is no e-mail
address.

**Only model-checked.** Liveness (`JobsEnd`, `OperationsEnd`, `TurnsEnd`,
`DeployEnds`, `NotificationsSuffice`) is out of the prover's reach, as is the
absence of deadlock in `bench`, which is a run's termination. The four runs
that expect a violation (`leak`, `resurrected`, `keys`, `tap`) state what the code
does not keep.
`Accounts!TypeOK` and its like in `Access`, `BenchRun`, `Concierge` and the pages
declare their variables; neither a run nor a theorem states them, since the
invariants of the proofs carry the types they need.

## 5. Findings

1. **A deleted request comes back** (`resurrected`). `setRequest` writes the
   status the handler decided on, whatever the row has become. A request
   cancelled after its build has read the row and before the build claims it
   (`jobs.go:107`) ends as provisioning again, though its reservation was
   released: the owner may by then hold another one in its place, and more than
   the quota allows. The writes at `jobs.go:243` (promotion), 263 (parking) and
   443 (power) have the same form.
2. **A parked build forgets its box** (`leak`). A build whose snapshot was read
   before the instance was named parks the request with `instance_name` NULL,
   also when an earlier attempt had allocated the instance. Cancelling it then
   queues no teardown.
3. **Keys in preview** (`keys`). `enterFocus` leaves the focusing of the guest to
   an animation frame that does not look at the control flag. When control is
   released before the frame comes, the page says "Preview. Wheel and keys stay
   on this page." and the keyboard is in the guest. `PreviewKeepsKeys` says that
   there is no other way into this state.
4. **A drag that ends as a tap** (`tap`). A finger's move is measured from the
   event before it, so a stroke of up to 400 ms in steps within `TAP_SLOP` is
   never marked as a drag, however far it goes, and takes control at its end.
   `DragIsNoClick` is about strokes with one step beyond.

Seen while modelling and not stated as properties.

- Worker: promotion and the insert of the recipe's setup job are two statements,
  and the provision job that is run again after a restart between them refuses
  the running row, so the setup stays pending without a job (an earlier run
  showed it). A call with a timeout of more than 585 s still waits when a
  starting worker expires its row after ten minutes, although the comment at
  `W/execs.go:17` says that its caller gave up long before.
- Agent chat: a turn that stalls past recovery *and* then fails to store its
  outcome frees the conversation under a newer turn; the properties are stated
  for one kind of fault at a time (`OneKindOfFault`). Text is cleared when it is
  sent and not restored when the turn fails.
- Benchmark: a disk error while the answer without a cost is stored, on the last
  call of a run, leaves an unknown spend unreported (`SpendIsReported` assumes a
  disk that writes). An answer without a cost that was recorded stops every later
  recording run that meets it.
- Rollout: a new container that was given up is removed without another look and
  without a drain; one that got there in between is cut off (`DrainedBeforeStop`
  leaves it out), and is missed when the old ones do not serve (`NeverBelowOne`).
  A first start that failed, deployed again, is "already current", and
  the worker follows although no migration ran (`SchemaFits` leaves it out by
  `cold`). `wait_routed` may be answered by another container of the same build
  (`NeverBelowOne` leaves it out). The labels are compared with one of the old
  containers only.
- Accounts: a booting container sets `technical_level` but leaves `tier`. A login
  looks at the first 100 accounts of a provider; beyond them it tries to link a
  second account and fails on the unique index. The role of a login follows the
  provider's address, that of a boot the stored one. All tabs share one state
  cookie. Nothing ever sets the status `suspended`.
- Access: an operation queued before its token was revoked still runs. "Done" on
  the token page while the next token is being created drops its secret
  (`SecretsAreShown` excepts what the user gives up). The page lists the newest
  100 tokens. An open desktop stream is checked once.
- Admission: accepting a proposal whose request was rejected answers 201 with the
  rejected row.
- Concierge: a suggestion whose process dies leaves its `agent_runs` row running
  for ever, counted against the cap of the day.
- Panel: the list's refetch every three seconds replaces the one under way, so an
  API slower than that never updates the list while a row can flip. A fetch that
  lands late unflags an inactive query that was invalidated meanwhile; the poll
  makes up for it within ten seconds, and `owed` counts only observed queries
  with data. An answer that arrives while the dashboard loads for the first time
  joins the older fetch. A failed poll replaces the page's content, and local
  state goes with it. The countdown of the progress page goes on when the box
  stops being ready.
- Lists (the excuses of `FeedHasNoGap`): a page boundary inside one millisecond
  skips the older rows of it, because the cursor is cut to milliseconds. "Show
  more" that is under way when a new row comes is appended behind the reset and
  leaves a gap. A row that commits late pushes another off the first page without
  a new heading. The comment at `components/ActivityFeed.tsx:156` says that
  appended pages stay below a new head; the effect drops them, and must. The
  audit trail shows a failed first read and offers no way to read again.
- Forms and desktop page: opening a chat takes the user to `/chat` from whatever
  page is open when the answer comes. Escape does not release the guest while
  the keyboard is in the page; the gesture listeners are not wired when the
  overlay appears after the first render; the tap of a second finger takes
  control (`DragIsNoClick` leaves out both).

## 6. What could follow

TLC's runs and theorem modules are kept few, so a new question joins an existing
run when their instances agree.

1. Two environments and two workers in `JobWorker`: the requeue of another
   worker's leases, and the requeued job of another environment at the head of
   the queue. The proofs of `Provisioning` would have to be taken along.
2. `NothingLeaks` strengthened to an inductive invariant for
   `ProjectMayFail = FALSE` and enough attempts.
3. A machine's life as its owner sees it (asked, approved, running, stopped,
   gone), implemented by `Provisioning` without failing statements.

## 7. Abstractions and what is left out

- Activity events and log lines: no modelled write depends on them; `Feed` is
  about reading them in pages.
- `tick` reads a job's environment and the handler reads the row again; both are
  the one step `Load`. Environments are not in `JobWorker`: a job of another
  environment is leased, counted as an attempt and requeued, and stays the
  oldest (`W/worker.go:186`), and `requeueLeased` takes back the leases of a
  second worker that still runs.
- Jobs are ordered by insertion; in the code by `created_at`, the start of the
  inserting transaction. The difference shows only when two transactions overlap.
- Derived addresses do not collide, the prefix does not change, and the
  operator's lookup in the address history is a read.
- A guest that powers itself off is not modelled, nor operators acting on Incus
  by hand.
- The steps of a recipe are one action with the outcomes done, failed and
  interrupted; a missing plan or a refused EULA is a step's failure.
- A statement that fails has had no effect: a commit whose answer was lost is not
  modelled. A failing statement at boot ends the process, which is a crash.
- `desktop_password` and the SSH host data are not represented. A purged request
  row cannot occur while it has jobs.
- Exec queue: the machine's status is read in the step that opens the insert's
  transaction; a failed read or a dying API process is `Drop`; the two statements
  at boot are one step; a graceful drain is a crash of idle loops; error codes
  of an operation's own are one; tokens are valid (`Access` is about them).
- Admission: CPU and disk are counted like memory and left out; a row the worker
  brings back from deletion (section 5) is not in it.
- Accounts and access: signatures, nonces and cookie attributes; scopes are
  fixed per token; sessions end, tickets and tokens lapse at any moment.
- Agent chat: a message is a need for an answer or the end of one; tools are one
  action; a silent conversation's running runs all began more than 60 s ago; a
  stalled turn stalls in its provider or tool calls; replicas agree on midnight.
- Concierge: the model may answer anything its schema allows; warnings and copy
  are left out. No recipe of today's catalogue requires a VM; the run has one
  that does.
- Wake-ups: rows are counted; one environment; backoff and shutdown left out.
- Ledger: a hash is its row's id (no collisions); statements see what was
  committed when they start; a page is read and walked in one step; tampering is
  outside.
- Benchmark: a cache lookup finds anything, since each key is looked up once in a
  run; a checkpoint is written in one step; an error of the results file ends
  the run; cost of a timed-out call that the provider never reports is unknown to
  the code as well; the abort signal and a failing observer, which the benchmark
  does not use, are left out.
- Rollout: building images; later builds carry the migrations of earlier ones;
  Traefik changes its routes some time after a health change.
- Pages: a fetch reads when it is sent; two calls of one kind at the same point
  are one; sizes, speeds, wording and scrolling are left out, as are the pages
  with no state of their own, the credentials section and the operator's list of
  accounts.
- Desktop page: a finger's way is none, within `TAP_SLOP`, beyond it in small
  steps, or with one step beyond; it is lifted where its last move reported it;
  a press too long for a tap ends like one that the browser takes away.
- Lists: whose rows they are, filters, and the spinner of a superseded row are
  left out; "Show more" and a poll read when they are sent; a stamp whose
  microseconds happen to be zero is taken for one that is cut.
- Not modelled at all: the cryptography of logins and tickets, request parsing
  and the desktop byte stream, DNS and shell text generation, rendering of
  sites, the CLI with its self-update, and host setup scripts. They are I/O,
  formatting or cryptography, and keep no state that the modelled components
  read.
