# A verification project for the VELNAR platform

TLA+ modules that model the stateful core of this repository, TLC
configurations that check them on small instances, and theorems about them that
TLAPS checks for every instance. Paths below are relative to the repository's
root. `PROJECT.json` lists every component, run, theorem and hazard and maps
each definition to the lines it models.

    tlc -workers 2 -config AppointmentRaces.cfg MCAppointmentLifecycle
    tlapm AppointmentLifecycle_proofs.tla

## 1. The system

Three programs that share no memory:

* a **Cloudflare Worker** (`worker/`) over a D1 database (`migrations/`). Every
  HTTP request is an invocation of its own; two invocations interleave at every
  `await`, and the runtime may end one between two of them. D1 executes single
  statements and batches; a batch is one transaction, and its answer can be
  lost after it committed.
* the **FULGOR automation** (`scripts/fulgor/`): a long-running controller that
  takes review bundles from a directory, sends each one to an external verifier
  once, publishes signed evidence and keeps its queue in a JSON file. It may be
  killed at any file system call and is started again by an operator.
* a **React client** (`src/`), which reaches the worker through the handlers
  below only.

Beside the controller runs the **L4 verifier** (`scripts/fulgor/cloud/l4Worker*.ts`),
an HTTP worker on Cloud Run in front of one llama.cpp process. The controller
reaches it through a client with timers of its own; the container may be killed.

| component | state | operations | what is hard | what makes it correct |
|---|---|---|---|---|
| appointments (`worker/routes/appointmentsRouter.ts`, `worker/repositories/appointmentRepository.ts`) | `appointments` row with `row_version`, `last_transition_id`; `audit_logs` | POST books, PATCH moves the status | races between read and batch (ABA), stale times, lost answers, late read-back | row and audit trail agree, ended stays ended, answers are true |
| growth actions (`worker/routes/growthActionsRouter.ts`, `worker/repositories/growthActionRepository.ts`) | `growth_actions` row, `audit_logs` | approve, reject, defer | an UPDATE without a guard on the status | status, approver, guardrail and audit trail belong together |
| action policy (`worker/ai/actions/`, `worker/routes/actionPolicyRouter.ts`) | a row per business and per organization | PATCH: read, merge, write | reads of two rows while they change | an approval rests on limits somebody stored |
| AI gateway (`worker/ai/aiRouter.ts`, `budgetManager.ts`, `aiRunRepository.ts`, `aiPolicyRepository.ts`) | `ai_runs`, the organization's AI policy | `execute` | check-then-spend, midnight and month boundaries, failover | spend and count stay within their limits, the ledger tells what was paid |
| job queue (`scripts/fulgor/automation/`) | the state file and its backup | enqueue, recover, claim, complete, mark for review | a crash between two renames, an error half way | at most one verification per job, nothing lost, everything settles |
| runner lock (`scripts/fulgor/cloud/continuousControllerRunner.ts`) | a lock directory with `owner.json` | acquire, take over, release | stale owners, death in mid-protocol | one controller at a time |
| authorization replay and live transport (`worker/ai/canary/`: route boundary, coordinator, D1 backend, guarded transport) | `authorization_replay_ledger`; calls and cost of a run | verify, reserve, read the credential, send the sealed tasks | two requests with one authorization, lost INSERT answers, expiry and window during a wait, charges nobody recorded | an authorization is dispatched once, in its window, within its budget plus one call |
| successor certification (`deepSeekSuccessorCertificationStateMachine.ts`) | a snapshot: two tracks, a cursor, consumed tokens, evidence | one transition function | long sequences over two windows with failures and new cycles | certified means clean evidence whose program, window, commit, nonce and token were granted; nothing is granted twice |
| L4 verifier (`l4WorkerClient.ts`, `cloudRunIdTokenTransport.ts`, `l4WorkerServer.ts`, `llamaCppInferenceAdapter.ts`, `l4WorkerMain.ts`) | the worker's slot, the runtime process, open requests | verify, time out, shut down | late answers, callers that gave up, death of either process | one inference at a time, a verdict is about its candidate, slot and process are let go |
| orchestration, corpus (`scripts/fulgor/`) | run records, registries | runs, admissions | one process, one sequence | not modelled (section 6) |
| intelligence, evaluation, vault, leads, guards (`worker/`) | rows written by single statements, or none | | | not modelled (section 6) |

The components interact through calls and shared rows: an approval reads the
policy another handler writes; every budget check reads the rows that other
invocations save; the feeder and the supervisor share the state file; the
runner lock is what entitles a controller to assume it is alone with that file.

## 2. The modules

| module | models | composed with |
|---|---|---|
| `AppointmentStatus` | the statuses and the table of allowed moves | |
| `AppointmentLedger` | abstract: a status and its history that change together | `AppointmentStatus` |
| `AppointmentLifecycle` | both handlers, one action per D1 call | implements `AppointmentLedger` |
| `GrowthActionApproval` | decisions over one action and PATCH of the policy, together | |
| `AiBudgetGate` | `AIRouter.execute` of one organization | |
| `JobLedger` | abstract: jobs queued, claimed and settled once | |
| `AutomationState` | poll loop, supervisor, state file and backup, one action per file system call | implements `JobLedger` |
| `RunnerLock` | `acquireLock` and the release function, one action per file system call | |
| `SingleUseAuthorization` | abstract: authorizations that are used up once; a right that lapses and never comes back | |
| `CertificationTransport` | the live certification route, one action per await | implements `SingleUseAuthorization` |
| `CertificationStates` | `applyCertificationTransition`, one action per accepted branch | |
| `L4Verifier` | client, token transport, HTTP worker, runtime and container, together | the verifier call of `AutomationState` |
| `MC*` | instances for TLC: symmetry sets, views, price lists, payloads | |
| `*_proofs` | the theorems of section 5 | extend the module they are named after |

**State and code.** A variable with the name of a table is that table, reduced
to the columns the properties read. `req`, `dec` and `adm` hold what an
invocation keeps in local variables between two awaits; their `step` names the
await it is at. In `AutomationState`, `state` and `bak` are the contents of
`statePath` and `statePath.bak`, `next` is the temporary file and `step` the
call `writeState` is about to make; `op` is the store operation or supervisor
step under way. In `RunnerLock`, `lock` is what is at `lockDir` (nothing, a
directory without a readable owner, or the owner it names). Each action is one
database or file system call together with the code up to the next one, every
early return included. `calls`, `saved`, `verified`, `evidence` and `orphaned`
record what happened outside the modelled state (provider calls, stored
policies, verifications, published evidence, runners that died in a window).
In `CertificationTransport`, `ledger` maps a package to the request whose INSERT
made its row, and `pc` is the await a request is at. In `L4Verifier`, `outcome`
is what the caller of `verify` was told, `send` where the transport is, `handler`
and `reply` the worker's side of the same call; `runtime` holds the completions
the llama.cpp process works on, `aborted` those whose fetch was given up. In
`CertificationStates`, `cursor` is `currentState`; `grants` is a history.
`charged` counts what the provider charged whether the run learned of it or not.
Operators that carry a suffix (`UpdateMatches_NoVersion`) are mutants: slips
that would be easy to make at that place, each of which the property it
belongs to detects. They are part of no specification.

**What is abstracted.** Authorization, body syntax and tenant checks decide
whether a handler starts and are one choice at its start. Names, times of day,
notes and other payload are left out; a time is a value of a clock that ticks at
any moment. The array of job records is a map, so which pending job is claimed
is left open; so are the number of bundles per scan and of jobs per pass (the
local runtime takes one bundle per scan). Memory stand-ins that the code uses
only outside production are left out everywhere.

**The environment.** `ResourceChanges` (a staff resource goes off duty) and
`SavePolicy` (an administrator turns external AI off or on) are always enabled,
which is also why those models cannot deadlock. `Terminate` is the runtime
ending an invocation. A manual stop of the controller looks like a crash at the
end of a cycle. A verifier or provider call answers or throws. `Kill` and
`Restart` of `L4Verifier` are Cloud Run's. `LiveEnabled` stands for the live gates
of the canary code, which are constants that are closed at this commit; the run
opens them to check the code behind them. `Position` of `CertificationStates` is
the caller: `ALLOWED_TRANSITIONS` has edges to `*_RUNNER_NOT_READY`, yet
`applyCertificationTransition` has no branch for such a target and refuses it, so
from `createInitialCertificationState` nothing can succeed. Callers, that is the
tests (`tests/ai/phaseA12B2C5HDeepSeekCertificationStateMachine.test.ts:603`, `:1004`,
`:1489`), write `currentState` into a copy of the snapshot, to the place where the
track stands or, after a failure, to the start of a new cycle.

## 3. The runs

| run | question | bounds |
|---|---|---|
| `AppointmentRaces` | do racing requests keep row, audit trail, times and answers consistent, with faults? Is an ended appointment left alone? | 1 appointment, 4 requests, 2 clock values, faults |
| `AppointmentWriteFailed` | is a request answered "write failed" unwritten? **No** | 3 requests, no faults |
| `GrowthDecisions` | do decisions racing with each other and with a policy change stay attributable, and rest on a stored policy? | 2 decisions, 1 policy change, limits 0..1, faults |
| `GrowthTerminal` | do terminal actions stay terminal? **No** | 2 decisions, no faults |
| `AiBudgetCaps` | by how much can overlapping requests exceed the limits, is a refusal justified, and does the ledger charge the call that answered? | 3 requests, 2 at a time, 3 days in two months, two priced candidates or an unpriced one, prompts of 2000 and 4000 tokens, faults |
| `AutomationCrashes` | are jobs verified once, completed with evidence, never lost, always settled? | 2 jobs, a queue of 1, 5 faults |
| `AutomationEperm` | and if EPERM may be transient? **No** | 2 jobs, 6 faults |
| `RunnerLockOneByOne` | do runners started one by one exclude each other? | 4 runners, each may die anywhere |
| `RunnerLockTakeover` | and when two start at once? **No** | 3 runners |
| `CertificationTransport` | is an authorization dispatched once, in time and within its budget, and does every request end? | 2 requests, 2 packages, 3 tasks, charges 0, 2, 3, 4 clock values |
| `L4Verifier` | is one inference live at a time, is a verdict about its candidate, and are slot, call and process let go? | 2 calls, 2 restarts |
| `CertificationStates` | does a certified state rest on its evidence, and is nothing granted twice? | 6 authorizations (one token in both windows, one key with two budgets and with another's token), 8 pieces of evidence |

*Why these bounds are enough for the cases that matter.* An ABA on an
appointment takes a booking, a request that is between its second read and its
batch, and two changes that move the status away and back: four requests. Rows
of different appointments share nothing but the audit table, so one appointment
is followed. The decisions on a growth action race in pairs. The caps need an
overlap of two, a predecessor that has spent, a candidate that fits and one that
does not, a midnight within a month and one that ends it. Losing the queue takes
a failed rename, a failed installation and an error in the next write, then a
verification before and after it; the five faults of `AutomationCrashes` leave
room for two such failures in a row. Lock takeover needs a dead owner and two
contenders. A replay takes two requests with one package, a second package keeps
them apart; three tasks are enough for a run that breaches its budget in the
middle, and the clock closes the off-peak window and opens it again. A late
answer needs one abandoned call and one more; the shutdown races need a container
that was started before. In `CertificationStates` two authorizations with one token, two
that differ in the budget only, one with the key of the first and the token of another,
two pieces of evidence with one fingerprint and one with an unclean run are what the
comparisons of the code tell apart, or fail to. What section 5 proves does not rest on these
bounds. `RunnerLock`, `CertificationTransport`, `L4Verifier` and `CertificationStates` run
with `CHECK_DEADLOCK FALSE`: every runner may have ended, every request been
answered, every restart been used, every authorization been consumed.

*Reductions.* Requests and jobs are interchangeable (`SYMMETRY`), in runs without
liveness only. `VIEW LiveState` of `AppointmentRaces` and of `AiBudgetCaps` forgets the
locals of a finished request that neither an action nor a property reads any more.
`AiBudgetCaps` also forgets what a failed call cost and which answer a request without a
row got: no action reads them and no property tells them apart.
Types are proved as part of the inductive invariants of section 5; only
`GrowthDecisions` has a type invariant among its runs.

Some readings that are easy to miss:

* `ConflictHasRival` speaks of the row version the *router* saw. The router keeps
  only the status, yet an ABA between its look and the repository's second read
  leads to no false conflict.
* `AnswersAreTrue` says nothing of `write_failed`: that answer leaves open
  whether the change is stored. That it may be stored although no call failed is
  the finding of `AppointmentWriteFailed`.
* `SpendWithinCap` and `DailyWithinLimit` allow what the note on concurrency in
  `worker/ai/budgetManager.ts` concedes: every invocation that overlaps may add its
  own projected maximum, or one request. `SpendWithinCap` allows one thing more,
  `Overrun`, what a run cost beyond its own projection. `worker/ai/budgetManager.ts:131`
  and `worker/ai/aiRouter.ts:367` call the projection a conservative maximum, but it
  takes every prompt for 2000 tokens (`budgetManager.ts:138`): **a longer prompt takes a
  month over its cap with one request and no overlap**. The run has such prompts
  (4000 tokens), so without the term `Overrun` TLC violates the property. They speak of
  the ledger: a provider answer that fails validation is paid and not recorded.
* `RefusalIsJustified` is the other direction: no false refusals.
* `ApprovalRestsOnAPolicy` does not say that the policy is still the current
  one; the code does not re-read it before the batch. A PATCH sends any set of limits,
  null among them, so that a business row and an organization row neither of which
  allows the action could be mixed to one that does.
* `AuditTimesAreOrdered` holds for one clock that all invocations read and that does not
  go back. Workers whose clocks disagree are not modelled; with them `created_at` can
  contradict the order of the changes.
* `OverspendIsOneCall` counts charges the run never learned of. The code compares
  recorded cost with the budget after each call, so one call is the overrun that
  remains; a failed call ends the run, otherwise it would be more. It takes the price
  that is recorded for what the provider charged.
* `SentInTime` asks for the expiry of the first call only: the code checks expiry
  before and after the reservation and after the credential, and between tasks
  only the pricing window.
* `ReplayRefusalNamesAnother` and the model give the transport's own reasons; the
  public answer maps a replay refusal to CANARY_AUTHORIZATION_REJECTED.
* A lost INSERT answer uses an authorization up without a dispatch. That is what
  `SingleUseAuthorization` promises and the ledger's comments intend: at most once,
  not exactly once.
* `VerdictIsForItsCandidate` does not follow from the check of the blinded identity:
  the worker copies that identity from the request of the connection, so a swapped
  completion would carry the right one.
* The worker does not notice that a caller gave up: the next candidate of the same
  controller may be refused WORKER_BUSY (`BusyMeansAbandoned`).
* `ShutdownEnds` has a third outcome, `Orphan`, which excuses one case: SIGTERM while
  `main` hashes the model file finds no runtime to signal; `main` then spawns one without looking at the flag
  (`scripts/fulgor/cloud/l4WorkerMain.ts:198`), and the container waits to be killed.
  No document promises otherwise, so this is listed as a hazard that no property
  forbids, not as a finding.
* A request that is delivered after its client aborted, and one on a connection kept open
  over the shutdown, are not modelled (`Accept` of `L4Verifier`).
* `CertifiedWasAuthorized` says what the code ensures, which is less than that the
  evidence is of *the* granted run. `applyCertificationTransition` looks the key (program,
  window, commit, nonce) and the token digest of the bound authorization up among the
  consumed ones, each on its own, and compares neither its budget nor its source tree
  with what was granted
  (`worker/ai/canary/deepSeekSuccessorCertificationStateMachine.ts:1340-1352`); the
  evidence is then compared with the bound authorization, not with the granted one. In
  the run `off1` is granted and the window is certified with `e1wide`, the evidence of a
  run under `off1wide`, whose budget is larger; or, after `off2`, with that of a run under
  `offmix`, the key of one and the token of the other.
* `CombinedIsCertified` means equal in the fields that `matchCertifiedEvidence` compares
  (origin, eligibility, window, candidate, commit, tree, nonce, budget, counts, cost and
  task identities). Scores, latencies and the model that answered may differ: `e1again`
  may be combined for `e1`.
* `GrantedOnce` speaks of one lineage of snapshots; from an older snapshot the same
  authorization is granted again. Across processes it is the replay ledger that
  refuses.
* `ActivateRouting` compares its evidence neither with the stored combined evidence
  nor with the consumed list; `CombinedIsCertified` is about what is stored.
* `ImplementsLedger` of `AutomationState` maps the queue to what `readState` would
  answer at this instant, between two renames as well.

## 4. Fairness and liveness

`AutomationState`: `EveryJobSettles`. It assumes `LiveSpec`: the controller's steps
go on (the poll loop of `runContinuousController` with its sleep between cycles),
and an operator starts a controller that ended: nothing in the repository restarts
it, so this is an assumption on the operator. The number of faults is finite.
Crashes and failing calls are not fair.

`CertificationTransport`: `EveryRequestEnds`, under weak fairness of each request's
next step. D1 answers or fails, the credential is a binding, and a provider call is
ended by the transport's 15 s abort timer, so what a request awaits comes. Nothing
in the code loops back.

`L4Verifier`: `SlotIsFreed`, `EverySendEnds`, `ShutdownEnds`. Fair are the timers the
code arms (the caller's deadline, the token deadline, the fetch's abort, the
inference timeout, and `requestTimeout` of 125 s on a request body that does not
end; once `server.close()` was called, that this timer is still enforced leans on the
connection being closed), the end of hashing a file, the exit of a runtime that was signalled, and the
exit of a process whose event loop is empty. Nothing is assumed of the network, the
token provider, the runtime's answers or the controller. Timers have no durations in
the model: any order in which they fire is checked.

For the appointment, growth and budget handlers nothing is claimed: no timeout
bounds a provider call of the gateway and a client need not retry.

## 5. The proofs

Each proof module has an inductive invariant (two of them a second, stronger one),
checked by TLC on small instances before it was proved, a lemma per action, and
theorems that follow.

`AppointmentLifecycle_proofs`. Assumptions: those of the module (the model values
are distinct; faults allowed or not). The audit INSERT recognises "its" transition
by `last_transition_id`, so `Inv` adds to `TypeOK` and `AuditReplaysRow` that no
row carries the id of a request whose batch is ahead (`NotYetCommitted`), that a
held transition was checked against the status it is held with
(`HeldTransitionChecked`), and that a row has a reason exactly when it is closed
(`ReasonFitsRow`, without which COALESCE could keep a reason the log does not
have). `EndedStaysEnded` follows because no allowed move leaves a terminal status
and the WHERE clause compares the status; `ImplementsLedger` because a batch
either changes row and log together or neither.

What racing requests are told needs a second invariant, `RaceInv`. `HeldVersion` says
what a request may conclude from the version it read: versions only grow, so a version
that is still the row's means that nobody wrote the row since, which is why a status
that differs, or a WHERE clause that does not match, means a version past the one looked
up (`ConflictHasRival`), and why the clock that the request read after the row is no
earlier than `updated_at` when its UPDATE matches (`AuditTimesAreOrdered`, with
`ClockAhead`). `OnRecord` follows each request's audit rows: none before its batch, one
after a batch that it knows of, never two; `AnswersAreTrue` and `NeverWrittenTwice`
follow. The proof first shows (`QuietKinds`) that a step that leaves the tables alone is
one of seven moves of a single request; a committed batch (`Commits`) puts every other
request that holds the row behind its version. TLC checked `RaceInv` on the instance of
`AppointmentRaces` (654,116 states).

`WriteFailedWhenAlone` bounds the finding of `AppointmentWriteFailed`: while no two
requests are between the second read and the read-back of one appointment at once
(`OneCommitting`, a hypothesis on the schedule) and no D1 call fails, that answer is never
given, because what a request is about to read back is what it wrote (`ReadsOwnWrite`).

`AutomationState_proofs`. Assumption: `~TransientEperm`, that is EPERM on the
first rename means that the destination exists, as the code supposes. `FilesOK`
says which of the two files holds the queue at each call, `Planned` that the state
about to be written is one ledger step from the readable one, so that installing
it is a step of `JobLedger` and every other call a stutter; `RunningOK` that at
most one job reads as RUNNING and where; `OnceOK` that an unclaimed job has not
been verified; `EvidenceOK` that completing follows publishing.

`RunnerLock_proofs`. Assumption: `OneByOne`, nobody is started while another
runner is acquiring. `TakeoverIsClear` says that a runner which took a lock for
stale has no holder to disturb; it fails without the assumption, as
`RunnerLockTakeover` shows. This is the operating rule under which the single
process of `AutomationState` is justified.

`CertificationTransport_proofs`. Assumptions: budgets, charges and times are
naturals. `Inv` adds to the properties that a request before its INSERT has no row
(`NoRowBeforeInsert`), that a classified answer agrees with the row
(`ReplyAgreesWithRow`), and that while a run goes on everything is recorded and
within budget, so the next charge is the only one that can exceed it. The
refinement maps rows to used authorizations and `Holds` to rights: an INSERT is
`Use`, a lost answer `Use` without a right, an ending request `Lapse`.

`L4Verifier_proofs`. `Inv` says that the slot is taken exactly while one handler is
active, that a wanted completion belongs to a handler that waits for it, that
calls are made one by one, and that a reply is about its own call. Without
`RuntimeServesHandlers` a late completion could reach the next handler.

`CertificationStates_proofs`. Assumptions: a key names its window, keys and digests
are told apart, bound evidence has its authorization's window. `ConsumedIsGranted`
(the list holds the tokens of the granted authorizations and nothing else) is what
makes membership in the list evidence of a grant, of a key by `KeyWasGranted` and of a
digest by `DigestWasGranted`; the two grants need not be one.

`GrowthActionApproval_proofs`. Assumption: `PolicyAssumption`, on what a policy and a
guardrail are. `Inv` adds to the properties that the status is the one the last
decision on record left (`StatusOnRecord`), that the audit trail lists the decisions in
the order of their updates (`DecisionsOnRecord`), that a policy row an approval
can read was stored by somebody (`StoredPolicies`), and that an approval on its way to the
batch passed such a policy and saw the action reviewable (`HeldApprovals`); from the last
two `ApprovalRestsOnAPolicy` follows although the policy may change in between.

`TerminalWhenAlone` bounds the finding of `GrowthTerminal` in the same way: while no two
decisions are between second read and batch at once (`OneHeld`), what a request is about
to write starts from the row as it is (`HeldCurrent`), so the audit rows are a chain of
allowed transitions (`ChainWhenAlone`) and a terminal action keeps its status. TLC checked
both invariants under the hypotheses (three decisions with faults, three requests without).

`AiBudgetGate_proofs`. Assumptions: finitely many requests, candidates and token limits
(those that the requests name), no provider twice in a list of candidates (`execute`
pushes each one at most once), natural prices and limits.
The daily check and the row that it should have counted are apart, so a count of rows is
not inductive: `DailyRoom` counts the completed rows of a day together with the requests
that passed that day's check and may still complete (`MayStillCount`). `RowOK` and
`CallsOK` tie each row to the calls of its request, from which
`CompletedRowPaysForItsCall` and `AnsweredIsRecorded` follow.

The monthly cap is a sum of money, and its invariant `SpendInv` has the same form:
`Committed(d)` gives each request the foreseen part of what its completed row cost in the
month of `d` (`Booked`, at most the projection its budget check used) or of what it may
still add to it (`Pending`: the projection of a call it was admitted to, or the foreseen
part of a row it is about to save), and `SpendRoom` bounds the sum over all requests by the
cap and one largest projection for each other invocation that overlaps. An admission adds
a projection that fitted under the cap next to the rows that were there; what those rows do
not show belongs to at most `MaxConcurrent - 1` others; every later step replaces a request's pending amount by no more. What a run cost beyond
its projection is not in that sum; `SpentWithinCommitted` adds it back, so `SpendBounded`
has no hypothesis on prompts and its bound has the term `Overrun`.
`CapKeptOneAtATime` is the case without overlap, and its formula carries the condition that
is left: a month *in which no run cost more than projected* is within its cap. When that
condition holds is a question of prompts and answers: `ProjectionCovers` says that no call
can cost more than was projected for it, `NothingOverruns` that the overruns are then zero,
and `WhenProjectionCovers` derives it from prompts of at most 2000 tokens and, for a request
without a token limit, answers within the output that is projected. The code assumes this
and does not enforce it, and the constants of `AiBudgetCaps` do not satisfy it.
A refusal is decided on the ledger, and rows are only added to it, which gives
`RefusalIsJustified`. TLC checked `SpendInv` on an instance with 4,936,582 states.

The library's induction theorem for finite sets has an operator as its parameter, which
the provers cannot instantiate. `Smallest` takes its place: a non-empty set of subsets of a
finite set has a smallest member, because strict inclusion is well founded. From it follow
`SetInduction`, stated for a *set* of sets (one that holds the empty set and, with each
set, that set and one element more), and that the functions which add up `f` over every
subset of `S` exist and agree (`AddsExists`, `AddsAgree`), hence the defining equation of
`SumFunctionOnSet` (`SumStep`) and the rules by which a sum grows and shrinks (`SumAdd`,
`SumRemove`, `SumMonotone`, `SumPlus`, `SumBound`).

Model-checked only: the liveness properties (`EveryJobSettles`, `EveryRequestEnds`,
`SlotIsFreed`, `EverySendEnds`, `ShutdownEnds`), because liveness and ENABLED are out of
the prover's reach. Every other property of the runs that pass, the
three refinements included, is a theorem. The properties of the runs that find a
violation are false; for each of the four a theorem states a condition under which it
holds: `~TransientEperm`, `OneByOne`, `OneHeld`, and `OneCommitting` without faults.

## 6. Findings, limits and plan

Four runs end in a violation; each is a disagreement between a comment, a
message or a test and what the code does, quoted in `PROJECT.json` under
`findings`:

1. a committed appointment change can be answered APPOINTMENT_WRITE_FAILED;
2. two racing decisions re-transition a terminal growth action;
3. a transient EPERM after a failed installation deletes the only copy of the
   job queue, and jobs are verified again;
4. two runners that judge the same lock stale both become active.

Noted and not counted: the comments that call a projection a conservative maximum
(`budgetManager.ts:131`, `aiRouter.ts:367`) do not hold for prompts of more than 2000
tokens (`Overrun` in `SpendWithinCap` is by how much); "Prove authorization was previously
consumed" (`deepSeekSuccessorCertificationStateMachine.ts:1339`) is proved of the key and of
the digest, not of the authorization (section 3); no code outside the tests calls
`BudgetManager.registerPricing`, so with an empty price list every request ends in
AI_PRICING_NOT_CONFIGURED (the model takes the price list as a constant); a
candidate without a model id is skipped like an unpriced one (candidates are
assumed to have one); concurrent policy edits lose updates; an interrupted lock
acquisition or release blocks every later runner until an operator intervenes;
the comment on `ALLOWED_TRANSITIONS` that a failed window is terminal unless a new
authorized cycle starts from NOT_READY describes an edge no code takes
(section 2, `Position`).

Not modelled, with the reason. Listing handlers and health checks only read.
Guards, redaction, detection and scoring are pure functions of one request. Trust
anchors and provenance slots validate constants. The client keeps no state that
others share. Memory stand-ins run in tests only; the heartbeat file is written for
a reader outside. The bounded canary runner, the evaluation harness, the corpus
programs and the orchestrator are single sequences in one process: no second actor,
no restart, nothing persisted that a later step relies on, so unit tests reach what
can go wrong there. They and the client are most of the repository's lines, which is
why the mapped share of the implementation is small and stays so.

What could be added, in the order of importance:

1. `ControllerPair`: `RunnerLock` composed with two processes over
   `AutomationState`'s file: what is lost when exclusion fails.
2. Refinement of `AiBudgetGate` to a ledger with a bounded overdraft.
3. Intelligence ingestion's writes and the corpus registry's history.
