# Ledgence: a TLA+ verification of task delivery and workflows

Ledgence runs programs for tasks that clients submit. An orchestrator keeps
tasks in PostgreSQL; workers open sessions, acquire tasks, renew a lease while
user code runs, and settle the outcome. Tasks reach workers by polling the store
(integrated delivery) or through an external broker that only carries hints.
Workflows are runs whose controller is itself a task, started again whenever
something it waits for has happened. This directory models these protocols in
TLA+, checks them with TLC on small instances and proves the main safety
properties with TLAPS for instances of any size. Paths below are relative to
`src/crates/ledgence-*`.

Contents: [inventory](#inventory) · [plan](#plan) ·
[modules](#modules-and-the-code) · [runs](#runs) · [fairness](#fairness) ·
[proofs](#proofs) · [what is assumed or left out](#assumptions-and-omissions).

## Inventory

The parts of the system, the state each keeps, and what makes it correct.
`PROJECT.json` lists all of them with their files and hazards.

| Part | State | Operations | Hard behaviour | Correct when |
|---|---|---|---|---|
| Task and attempt transitions (`orchestration-core`) | none; pure functions over rows | submit, open/extend session, acquire, renew, settle, confirm quiescence, cancel, expire | each decision updates two rows; off-by-one in retry budgets; caps of several deadlines | one owner per task; leases bounded; terminal rows frozen |
| Store transactions (`adapter-postgres`: storage, delivery, persistence) | tasks, attempts, worker sessions, consumer cursors, history | one transaction per command, `expire_batch` | interleaved, repeated and stale commands of any worker | every committed state satisfies the above |
| Recovery loop (`orchestrator/recovery.rs`) | none | scan and expire | must reach every abandoned attempt | attempts end, cancellations finish |
| Lease tracker (`orchestration-core/authority.rs`) | local deadline, sequence, stop state | apply a reply, observe time, check dispatch | late, reordered, repeated replies | never outlives the store's lease; never revives |
| Worker delivery driver (`worker-delivery`) | per consumer: permission, renewal command, frozen report, reservation | acquire, monitor, dispatch, execute, settle, confirm, release | monitor, consumer and shutdown run concurrently; every exchange may be lost or time out | user code runs only under recorded, unexpired permission; reservations return |
| Worker core (`worker-core`) | process pool, reservations, quarantine | prepare, start, invoke, retire | cleanup that cannot be confirmed | capacity is neither leaked nor used twice |
| Dispatch outbox and claims (`dispatch_intents.rs`, `dispatch_claim.rs`, `core/dispatch.rs`) | routes, dispatch intents with publication leases, claim receipts | activate route, lease, complete, claim | several publishers; stale completions; redelivered, late and lost records | an intent exists exactly for queued external work; every record resolves; queued work is claimed |
| Publication loop, broker source (`publication.rs`, `source.rs`) | batch in progress; selected record | publish, receive, claim, acknowledge | crash and deadline between the steps | see outbox |
| Queue concurrency | policies, occupancy, holds | claim gate, hold timeout, release | counters changed by many transactions | occupancy equals the live holds, never above the ceiling unless lowered |
| Governed task admission | resources, offers, start grants, token bucket | offer, start, expire, return | offer expiry racing start | `offered` and `started` equal the rows they count; capacity is not exceeded |
| Resource admission of workflow runs | the same resources; requests, parked runs, their timers | wait, offer, start, report, release | offer expiry and policy edits racing Start; lost grants; due times | a grant is charged and used once; a parked run is woken; capacity is offered |
| Run budgets | ledgers of grants | charge, deny | retried grants | each physical grant is charged once |
| Workflow runtime | runs, activations, waits, children, decisions | activate, decide, wake, cancel tree | wake-ups racing waits, owned subtrees | one activation at a time; no lost wake-up |
| Approvals, events, effects, provider operations | their ledgers, per workflow | request, decide, resolve | duplicated and contradictory evidence | decisions are immutable |
| Completion notifications | subscriptions, deliveries with leases | subscribe, lease, complete | subscription racing terminalization; stale outcomes | every subscription is notified; stale outcomes change nothing |
| Acquisition waits | registrations, epochs, permits | long poll, nominate, wake | lost and duplicated hints | no claimable task is slept through |
| Subprocess runtime (`adapter-subprocess`) | per session: the child, its group and directory, the resources to clean up, the actor, its channels, the caller | start, execute, close, drop; terminate: signal, reap, remove | callers drop what they wait for at any await; the actor may panic; two parties clean up under one mutex | nothing that exists is forgotten; what a caller is told is true; a process is reused only after a clean answer |
| Retention | markers on finished work | page-wise deletion | rows other parts still refer to | nothing referenced is deleted |
| Artifact cache (`adapter-artifact/cache.rs`) | a directory per unpacked program, its lock, an index with pins and bytes | look up, publish, evict, open | every file operation may fail; power loss between a rename and its sync | what has a digest's name is whole; pinned programs stay; the budget bounds what is on disk |
| Program publication (`cli/program_publish*`, `adapter-http/*/publication.rs`, `adapter-artifact/publish.rs`, `catalog.rs`) | receipts, blobs and releases, upload permits, the catalog row | publish, resume, upload, link, register | killed commands; uploads that outlive their client; other bytes for the same version; power loss | what is visible can be loaded; a receipt never says more than is so |
| Orchestrator process (`orchestrator`) | the thread of signals, the application's phase, the pool, the server and its requests, the loops with what readiness knows of them; in the database the schema, the bound instance and authority, activations | start in order, serve, supervise, drain, exit | signals, failures and stops at any point of start, service and drain; blocking operations that outlive their requests; restarts | what a client is told is true; the pool closes over nobody; recovery outlives requests; ready means progress; a process asked to stop exits |
| Access and operator audit (`adapter-access`, `adapter-http/server/{access,audit,routes}.rs`, `operator_audit.rs`) | the browser's cookie and what its pages show, requests with their credential, decisions with their owner, the ledger | sign in and out, authorize, call, decide, record, release | credentials that expire between any two steps by two clocks; answers lost after the commit; other tabs | no payload leaves unrecorded; decisions have one acceptance, by who was entitled; a rejection means that nothing happened |
| The HTTP client, MCP, SQS, telemetry, console pages, SDKs, migration, command lines | I/O only | | | not modelled |

How they interact: workers and clients call the service, which validates and
forwards to the store. A store transaction locks the rows it needs, reads the
database clock, calls one core transition and persists its whole result
(`persistence::apply`), including history and the dispatch intent. The
orchestrator's loops (recovery, publication, completion, retention) call store
transactions of their own. A worker's consumer and its renewal monitor share a
`Permission` behind a mutex; the runtime sees it as a `RunControl`. Broker
records carry only (task, generation); authority always comes from the claim.

## Plan

In order of importance; what is built is marked.

1. **Store.** `TaskTransitions` (pure operators), `TaskLifecycle` (transactions).
   *Built and proved.*
2. **Contract.** `TaskContract`: submitted, owned by at most one, decided once;
   `TaskLifecycle` implements it (`TaskRefinement`). *Checked with its fairness,
   safety part proved.*
3. **External delivery.** `DispatchOutbox`. *Built and proved.*
4. **Worker.** `LeaseTracker`, `WorkerDelivery`, which composes the store and
   the tracker with concurrent workers over an unreliable network; `ProcessPool`
   below it, and under it `SubprocessSession`. *Built; the worker and the session
   proved, the pool checked.*
5. **Capacity.** `QueueConcurrency`, `TaskAdmission`, `ResourceAdmission`,
   `FairSharing`. *Built; queue concurrency and task admission proved.*
6. **Finding and telling.** `AcquisitionWait`, `WakeHints`, `CompletionDelivery`.
   *Built.*
7. **Workflows.** `WorkflowRuntime`, `RunBudget`, `ExternalWait`,
   `ApprovedEffect`, `ProviderOperation`. *Built; run budgets and approved effects
   proved.*
8. **Programs.** `ArtifactCache`, `ProgramPublication`. *Built.*
9. **Around the store.** `OrchestratorProcess`, `OperatorAccess`. *Built, the
   process proved.*
10. **Open.** Proofs of the components that are only checked, completion delivery
   (`SubscriptionsSound`) first; the SQS adapter's visibility timeouts.

Every further module follows the shape of the present ones: constants with named
assumptions, one action per operation, invariants from named parts, no
`RECURSIVE` operator in a module that is proved about.

## Modules and the code

The map in `PROJECT.json` gives the lines of each definition. A helper that serves only
one operation has its lines in that operation's entry.

**TaskTransitions** has one operator for each transition of `orchestration-core`:
`Submitted`, `ClaimedTask`/`ClaimedAttempt` (acquire), `RenewedAttempt`,
`SettledAttempt`, `CancelledAttempt`, and for `finish`, which every ending goes
through, `FinishedTask`/`FinishedAttempt` with `MayRetry`. `Authority` is the
reply a worker gets. A report is reduced to success, retryable or permanent;
times are naturals; identities and timestamps nobody reads back are gone.

**TaskLifecycle** has the tables as variables (`tasks`, `attempts`, `sessions`,
`cursors`, and the clock `now`) and one action per store transaction. Each locks
its task row before it reads the clock and commits once, hence one atomic
action. Any command may arrive at any time; one whose guard fails is the code's
error or replay reply, which changes nothing. `SKIP LOCKED` means that an
acquisition may take any claimable task and may find none.

**LeaseTracker** is the worker's tracker as operators on a record: `ApplyAuthority`
charges a reply from its request's start less `SafetyMargin`; stopped stays
stopped.

**WorkerDelivery** extends both. `workers[slot]` is a consumer with its monitor:
stage, permission phase, tracker, renewal command and the exchange in flight,
frozen report. Store transactions now happen only when such a worker sent the
command (`ServeRenew`, `ServeSettle`, `ServeConfirm`, `Acquire`), any number of
times and at any later moment; replies reach the worker only while the exchange
is open. `Check` is the periodic check of monitor and consumer, `StopWorker`
shutdown and every fatal error.

**DispatchOutbox** stands on its own: the route, the delivery columns of a task,
its intent, publishers, uncertain completions (`late`) and sends (`wire`), the
broker, consumers. `delivered` is a history variable. Time is what remains until
each deadline, so no clock bound is needed and runs may go on for ever. A
publication's identity and epoch only change when its lease is taken or cleared,
so the lease token stands for them. `LeasePublications` takes any set of due
intents up to the batch limit; completions and deferrals are matched as the SQL
matches them. That two publishers never hold the same intent is *not* a property
of the code: a deferral clears a lease that is in use, and the completion of the
old one is then ignored.

**TaskContract** is what a client may rely on: a task is pending, running one
attempt, or decided; **TaskRefinement** maps the store's rows to it.

**QueueConcurrency** (`orchestration-core/queue.rs`, the queue triggers and
`adapter-postgres/queue*`) has the policy row, one hold per attempt, the columns of
attempts that the triggers read, and `works`, what the worker really does, which
no transaction can see. A worker learns from its claim, or from the replay of a lost
claim (`ReplayClaim`), whether it has a hold to close. An attempt whose start a budget
refused (`Deny`) holds nothing; when it is confirmed after the queue was enrolled
(`ConfirmDenied`) there is no hold, and the trigger lets exactly this change pass
(`ConfirmsDenial`). Time is what is left until each deadline.

**TaskAdmission** has the governed resource (policy, counters, rate credit), one
request per task generation and the worker's side of it. The token bucket keeps
its integer arithmetic and refills when time passes. **ResourceAdmission** is the
same resource asked for by workflow runs (`adapter-postgres/workflow/admission*`,
`workflow/provider/admission.rs`): a run parks with a request and a timer, a tick of
the scheduler offers capacity to the oldest one and resumes it, and the resumed
attempt's Start charges it, is denied, or finds the provider operation already
dispatched. `procs` is the program of each attempt, which asks once and may be slow;
`rows` the due time of the run's timer. **ResourceRow** has the arithmetic both use.
**FairSharing** is the
weighted round between groups of queues: rows in order of their request number,
and every offer finds capacity, so that only the choice is left.

**CompletionDelivery** has subscriptions, their activation with the target's
terminal transaction, delivery leases and the dispatchers' volatile schedules and
batches. **AcquisitionWait** is the coordinator behind long polls: registrations,
epochs (kept as whether one is current), turns and permits, probes.
**WakeHints** is what carries a change to another replica: publisher, channel,
listener.

**ProcessPool** (`worker-core/lib.rs`) takes a step from one await to the next.
Processes are named by the invocation that started them; permits and pending
settlements are derived from stages. **SubprocessSession** (`adapter-subprocess`) is
one child below the pool: what exists of it (`os`), the record of what must be cleaned
up (`owner`, with its mutex and the place in `terminate()`), the actor that supervises
it, the channels between actor and session, and the caller, who may drop any future it
waits on. Of a frame only matters whether it is the answer the actor waits for. `Judge`
is where an answer becomes a result, if the caller is still there and the run control
still holds.

**WorkflowRuntime** (`adapter-postgres/workflow*`, `orchestration-core/workflow.rs`)
has runs, activations, children and the obligations coordinators claim. A
transaction on a run takes the run's row first, so it is one step; children end
without the parent's lock, and that is where interleavings come from. A run is
named by its path of keys, an activation by the revision it decides.
`Program(w, r)` is the set of decisions the controller of run `w` may return. Why the
application of an obligation fails is left open (`ResolveFails`): a program that cannot
be resolved, a store that is unavailable, or a provider recovery that has to stop first,
which is `Quiet` in `ProviderOperation`.

**RunBudget** has the account, the members it counts, the stops and the ledger; a
refused delegation takes two steps as in the code, and the clock may step back.

**ExternalWait** has the waits for events, timers and reviews, their decisions,
and the wake-up rows coordinators apply. **ApprovedEffect** follows one occurrence
of a reviewed effect: claims that travel, lost answers, reports, observations,
assessments, and a run parked for them; `sent` records grants that reached a
program. **ProviderOperation** is one business operation shared by runs: its
single dispatch, probes, reports, recovery deadlines and assessments. A probe that ends
well has left a report or not (`EndProbe`), and both are followed.

**ArtifactCache** (`adapter-artifact/cache.rs`) has the directories below the root
(`slots`), each with the name it has and the names a power loss may leave it under,
the index, and the caller that holds the mutex (`job`), one file operation per step.
The order of touches stands for their clock. **ProgramPublication** is one version of
one program: the files of the store, the catalog row, the server's upload permits, and
for each receipt its file and the command that works on it.

**OrchestratorProcess** (`orchestrator/*`, `adapter-http/server.rs`) is one process and
the database it is started against again and again. `phase` is where the application
stands between connecting and the destruction of its runtime, with every early return of
`prepare_and_serve`; `outer` the runtime that receives signals. A request is accepted,
refused or admitted, runs a blocking part (`job`), then a transaction; its deadline may
pass at any of these, and the blocking part goes on. The loops begin batches, report
health and end. What the transactions and batches do is the business of the other
modules. **OperatorAccess** has the route table, with what each handler checks before and
after the service it calls (the two publication routes included; what an upload does is
ProgramPublication's), and follows requests from the credential to the answer.
Routes of the same policy and guards differ only by name; bodies are reduced to the
target and the command of a decision.

`MC*` modules instantiate the components. Some hold several instances: a variable
`scenario` is chosen in the initial state and never changes, one instance moves
and the variables of the others stay as they began; a property of one instance is
a property of its scenario's behaviours. `*Proofs` hold the theorems. Operators
marked *Mutant of* in the comments are faulty variants of the definition that
follows them, and are used nowhere: each property has one that breaks it.

## Runs

| Run | Instances | Checks |
|---|---|---|
| `tasks` | any client's commands on 1 task with 2 generations, 2 renewals, short sessions; and a worker's loops on the same store | `StoreSound`, `HistorySound`, `ImplementsFairContract`, `ReservationReturned` |
| `worker` | 2 consumers, 2 generations, immediate retry, lease 3, margin 2, lag 1, an attempt timeout longer than the lease | `WorkIsPermitted`, `ReportsAgree`, `NoRevival` |
| `outbox` | 1 task, 2 generations, 2 lease tokens, 1 uncertain completion; one life of the process, with a client | `OutboxSound`, `QueuedIsClaimed`; `ProcessEnds` |
| `queues` | 2 attempts in a queue that enrolls under a ceiling, a ceiling without grace or a pause; 1 attempt while the policy is replaced; 1 subscription with 2 generations, and a dispatcher with 2 destinations and room for 1 | `HoldsAccounted`, `ReleasesStand`, `HoldsDrain`; `DeliveriesSettle` |
| `admission` | 2 tasks under a rate and a pause; 1 task with a retry; 1 run through several activations with a policy edit, or with a provider operation under a rate; 2 competing runs | `BooksAgree`, `OccupancyGrows` |
| `sharing` | 3 queues in 3 groups, 5 sharings, 3 rows, 1 edit; 2 tasks for one slot | `SharingSound`; `AdmissionSound`, `WaitingIsServed` |
| `acquisition` | 2 requests of one queue, 1 repeated request, 2 replicas' hints | `TurnsSound`, `NothingSlipsThrough`, `TaskIsFound` |
| `runtime` | 2 submissions of one attempt with shutdown; 3 invocations by 2 scopes in 2 slots; 2 scopes and a reservation in 1 slot; 1 session with every fault of the child and of its threads | `ProcessesSound`, `SessionSound`, `RuntimeEnds` |
| `workflows` | join, fork and changing catalog; events and reviews; the account of a tree of 4 members and 3 calls; 1 subscription with 2 generations, 2 bindings and 2 dispatchers, or 2 subscriptions with 2 destinations | `RunsSound`, `StopIsFinal`; `WaitsSound`; `BudgetSound`, `LedgerStands`; `SubscriptionsSound` |
| `service` | 2 starts of the process with 6 command lines and 2 signals, or one client of each kind; every route for 3 principals, 2 pages of a browser, 2 decisions about one target, each with 1 tick of both clocks; 2 callers and 2 programs in a cache of 2 directories, reopened with another budget; 2 commands with different bytes for one version and a registration by hand | `ProcessSound`; `AccessSound`; `ProgramsSound` |
| `effects` | effects with 2 claims, older releases, reports, assessments; operations with conflicting evidence, probes, 2 rival runs, 2 waits | `EffectSound`, `JournalStands`; `OperationSound`, `WakeTellsNews` |
| `workflows_live` | an owned workflow, a wait, an assessed effect, an unanswered recovery | `WorkflowsEnd`, `OperationsEnd` |

What they show: whatever order commands, replies, timeouts, scans and restarts come
in, a task has one owner, the owner's user code has stopped before another can own
the task, what was reported or finished stays, the publication obligation follows
the queue exactly, books of capacity and budgets equal what they count, a run loses
no wake-up, an approved effect and a provider call are granted once, a program that
was published or cached is there after any loss of power, a process that stops takes
nobody's answer with it, operators see and decide only what their credentials allow
and leave a record of it, and nothing waits for ever under the fairness below. Each grouped invariant (`StoreSound`,
`OperationSound`, ...) is a conjunction of named parts, each with its own comment in
the component's module.

*Bounds.* `MaxTime`, `ClaimHorizon`, `MaxRenewals`, `MaxSequence` limit the clock,
the last submission or claim, the renewals of an attempt and the acquisitions of a
consumer; `MaxLate` and `Tokens` the outbox; `MaxRevisions`, `MaxEdits` what
operators change; `MaxHints`, `MaxChannel` the hints; `MaxEntries`, `MaxCalls`,
`MaxAssessments` the evidence; `MaxBatches`, `MaxStops` the batches and restarts of a
dispatcher. `MaxRevision` and `MaxTime` of the workflow modules
are also limits of the code (`u64::MAX`, the last timestamp) with the refusals it
makes there. Durations are small but keep the order the code's constants have: the
lease of `worker` is longer than the margin, and sessions in `tasks` are short
enough to cap leases. Two generations, of a task or of a delivery that an
operator retries, give every property that compares generations its case: an old owner,
report, record or outcome meeting a newer attempt. A pool is checked with one slot less
than the scopes or invocations that want one, so that processes are replaced and
requests find no slot. Two consumers, dispatchers, rivals or claims give every race two sides. The
theorems carry none of these limits.

*Symmetry and views.* Symmetric sets are interchangeable model values; runs with
liveness use none. The view of `worker` drops values that no action or property
reads any more; its module says which.

*Deadlock* is checked in `outbox` and `queues`. The others say `CHECK_DEADLOCK FALSE`
because their bounded clock, or a system in which everything asked for has ended,
really stops.

## Fairness

- Store: time passes (`Tick`) and the recovery loop keeps scanning (`Expire`,
  weak fairness). It is a loop without exit other than shutdown, and is restarted
  with the process. Nothing is assumed of workers.
- Worker: its retry loops (settlement, confirmation, release, dispatch or give
  up) take their next step, and the runtime ends user code once its control is
  invalid (`EndWork`, only then); retained cleanup finishes. No renewal is ever
  assumed to be sent, served or answered, and user code need not end by itself.
- Outbox: publishers and consumers keep polling (weak fairness), and the
  environment does not fail every time (strong fairness): a publication that is
  sent again and again is once stored, a record offered again and again once
  received, an acknowledgment once honoured, and a claim once not turned away by
  a full queue. Without the last, a queue that stays full would be a
  counterexample that says nothing about the outbox.
- Queues: time passes and the timeout scan, which runs with every recovery pass and
  whose cursor moves past contended holds, gets to every due hold. Completion:
  dispatchers poll, exchanges have deadlines.
- Admission: the scheduler's loop runs; a candidate it meets again and again is once
  taken (strong fairness), because it orders by priority and then by age.
- Acquisition: a call whose task can run on does so, fallback ticks come.
- Process pool: adapters return, controls have deadlines, drivers release cancelled
  reservations, shutdown runs. Session: a killed child dies, threads that can run on
  do, the actor's deadlines come. Nothing is assumed of the child's answers.
- Process: the application, the handlers (which have deadlines), blocking operations
  and batches that have begun take their next step. Nothing is assumed of signals,
  clients, or of loops that nobody asked to stop.
- Workflows: faults end at some time (`<>[][~Fault]_vars`); then tasks end, leases
  lapse, coordinators that poll take their steps, and an obligation they meet again
  and again is once claimed. A run waiting with a deadline sees time pass.

## Proofs

The `*Proofs` modules prove, for every value of the constants that satisfies the
named assumptions, what the runs check of their components. The theorems that
state a run's property are listed with it in `PROJECT.json`.

*Store* (in `WorkerDeliveryProofs`, first part). Assumptions: `TimingAssumption`, `RetryAssumption` (the retry limit is
below the generation limit, as submission validates) and `BoundsAssumption`.
`SingleOwner` alone is not inductive: an expiry or settlement of an attempt says
nothing of rows it does not mention, and a claim must know that the generation
it creates is unused. `Structure` adds `TypeOK` and `RowsConsistent`: absent
generations are blank, existing ones owned, and only an active task points at an
attempt. `Safety` joins to it

- `SessionsBounded`, `LeaseBounded`: leases never exceed the session they were
  granted under, and an extension only moves a session forward;
- `QueuedIsAssignable`, `SuccessIsFinal`: the retry decision of `finish` agrees
  with what acquisition checks and never follows an accepted success;
- `DispatchStarted`: an attempt whose last renewal asked for dispatch, and was
  granted it, has its start recorded, from which `DispatchIsRecorded` follows;
- `LiveHoldsCursor`: needs the Busy check and the other parts together.

Each action has an *effect* lemma (which rows it writes, and how) and a *fields*
lemma for the core transition it applies; a preservation lemma per invariant
part uses them. The action properties `TerminalFrozen`, `AttemptMonotone` and
`NothingStartsAfterCancel` follow from `Safety` and the same effect lemmas.

*Outbox.* Assumption: `OutboxAssumption`. The invariant `Inv` says what a task and
its intent know of each other, including when the intent becomes due
(`Obliged`); that every record that exists anywhere, in the broker, on the wire,
in a publisher's batch or a consumer's hands, is of an external task and no newer
than what that task could have published (`Issued`); that confirmations still
carried by publishers or late completions are of stored records; and
`RouteUniform`. `ClaimsResolve` follows from `Issued` and `Obliged`: a record of
the next generation meets the intent that will publish it again. The step that
needs care is `ClaimDispatch`, whose deferral may replace an intent that a
publisher has leased.

*Contract.* `ContractImplemented` in `WorkerDeliveryProofs`: initial states map to
initial states and every transaction to a step of `TaskContract` or to none. It
uses the invariant `Safety`, without which an expiry could decide a task twice. The
contract's fairness is checked by TLC only (`ImplementsFairContract`).

*Worker.* Assumptions: those of the store, `MarginAssumption` and `LagAssumption`
(`MaxLag < SafetyMargin`: a worker notices its own deadline in less than the margin).
`WorkIsPermitted` says that user code runs only while the store has the attempt
active under an unexpired lease. A worker knows only answers, each
of them old, so the inductive invariant `WInv` has three parts. `StoreInv`: the
store's `Safety`, and a lease the store granted is no longer than the configured one.
`Local`: what a worker's stages, phases and reports allow of each other. `Backed`: for
every deadline a tracker holds, every answer still on its way and every frozen
report, the row that justifies it: the store's lease reaches at least to the
tracker's deadline plus the margin until the row is finished, and a finished row
is finished for good. Renewals only lengthen leases, which keeps old answers
justified (`Covered`), and a repeated or late answer is charged from its own
request's start, so applying it is sound in any order (`Promised`). `DrivesTheStore`
shows that every step of the composed system is a step of the store or none, so the
theorems of `TaskLifecycle` hold for the workers' system too. `ReportsAgree` and
`NoRevival` come from the same invariant. The proof needs the bound on how late a
worker acts also for work it has prepared and not yet started: `MayStillRun` states
both cases, as the code checks its control in both.

*Queue concurrency.* Assumption: `QueueAssumption`. The counter of a policy is the
number of its open holds: the invariant `QInv` speaks of rows (which attempts
exist and which are live), holds (an open hold has its reason in its attempt's
row, and an attempt that was refused its start is live no more and never started) and
counters, and each transaction's change of the counter is matched with the
one hold it adds or removes (`FiniteSetTheorems`). `ReleasesStand` follows from what
each action may do to a released hold.

*Run budgets.* Assumption: `BudgetAssumption`. `BInv` relates the account, the
membership, the stops and the ledger: consumption is the number of charged entries
(`Counts`), members and stops are indexed by what was enrolled (`Indexed`,
`RefusingEnrolled`), a stop has its reason recorded (`ReasonsStand`, `Recorded`), and
what was refused stays refused. `LedgerStands` is the action property from the same
effect lemmas.

*Subprocess session.* Assumption: `SessionAssumption`. `SessionSound` is not inductive,
because what a caller learns at the end rests on what its parts knew before. `SInv`
adds `Ownership` (who holds the mutex is in `terminate()`, what is recorded as reaped or
removed is so, and the record stands while something is left) and `Conversation`:
invocations are numbered, and numbers only grow from the process over the actor and the
channel to the caller (`Ordered`); the process runs only what the actor waits for or
has given up on (`Running`); what each oneshot may hold (`Replied`); another
invocation's observations are left only where the process is not used again
(`Observed`). TLC checked both before the proof.

*Orchestrator process.* Assumption: `ProcessAssumption` (routes are not named like the
other loops, every serving command line runs the workflow and the recovery loop).
`ProcessSound` relates the end of a life to what was started long before, and is not
inductive. `PInv` says what the server, the pool and the stop may be in each phase
(`Ordered`), that an application without a failure has ended what it started before it
goes on (`Clean`), which loops exist and which of them were asked to stop
(`LoopsKept`), what readiness has been told of each (`Vouched`), where a request and
its blocking operation may be while the server and the pool are as they are
(`RequestsKept`), and that schema, binding and activations are in place before a route
is open (`Installed`). One lemma per action proves it part by part; TLC checked `PInv`
first. The action property `BindingStands` is proved without it, and needs only that
`Bind` refuses another instance.

*Approved effects.* Assumption: `EffectAssumption` (`None` is no identity,
output or row, attempts are numbered from 1, a history may begin only as the code can
leave one). `EffectSound` is not
inductive: that a provider is called at most once says nothing of who may still call,
and the summary kept with the evidence is an answer, not the reason for it. `EInv` adds

- `OneGrant`: a permission to dispatch belongs to the claim that made the grant, at
  most one is held, and it is used up by the dispatch;
- `Bound`: approval, journal and retained copy tell the same story, also after the run's
  rows are gone and only the copy is left;
- `Booked`, `Provenance`: reference, discrepancy, the assessment in force and its first
  contradiction follow from the entries. They are stated by least and greatest positions
  (`IsLeast`, `IsGreatest`), which an appended entry changes in a way that can be followed
  case by case, and only at the end shown to give `SummaryFollows`;
- `Parked`, `Acknowledged`, `Told`: a parked run is owed its wake, what was
  acknowledged stands, and what an activation was told is a prefix of the evidence.
  The last two rest on the evidence only growing (`Grown`).

One lemma per action proves the parts; what an appended claim, report or assessment does
to the books is proved once each (`BookedClaim`, `BookedReport`, `BookedAssessed`). TLC checked `EInv` first (1,470,414 states). The
action property `JournalStands` follows from the same invariant.

*Task admission.* Assumption: `AdmissionAssumption` (finitely many tasks, positive times,
a rate with a period has tokens). `AdmissionSound` compares counters, line, requests,
attempts and workers where somebody relies on it; a step also rests on what those rows
say of each other elsewhere. `AInv` adds

- to `Books`: `Backed`, that the bucket does not run over, so that a refill only adds, and
  `Epochs`, that no request is of a policy revision still to come, so that an edit,
  which sets the offers to zero, finds none to count;
- `Rows`: how the request, the attempt and the worker of *every* generation fit their
  task (`Fits`): up to the current one a request has an owner, the next one waits, is
  offered or is closed unclaimed as the task's state says (`NextFits`), the later ones
  do not exist; a request has a source exactly when its attempt has started;
- `Line`: the line is of what waits, each once.

What an operation does to a request and to the row is proved once, as `Moved`: the row
counts exactly the difference (`Booked`), every offer left keeps its token, and more
room is taken only by an offer the policy allows (`Within`). The token arithmetic is in
the lemmas about `Capacity`, `Converted` and `Least` (whose minima exist because the
order of the naturals is well-founded). An attempt can end in many ways, all of which
are an `Ending` of its request followed by `Finish`, `Deferred` or neither, so that
Start, Close, settlement, expiry, cancellation and the scheduler share the lemmas
`EndKeeps` and `PlainEnding`; steps of a queued task share `QueueStep`. The action
property `GrowthIsAdmitted`, which `OccupancyGrows` names for each scenario, follows
from `Within` and from `GrantIsCharged`. TLC checked `AInv` first, for 2 tasks under a
rate (694,534 states) and 1 task with a retry (376,604).

Only model-checked: the components without a proofs module, and all liveness
properties, since fairness and ENABLED are outside what TLAPS can reason about.
`AcquisitionWait` describes its loop by a RECURSIVE operator, which keeps it from the
provers. What recursive folds compute over data (rounds of `FairSharing`, sums of
evidence) is checked on small inputs.

## Assumptions and omissions

- The database clock does not run backwards where a module says nothing else
  (`RunBudget` and `ExternalWait` let it; for `ResourceAdmission` it matters: a parked
  run's timer row that was leased before a step back and applied after it would count
  as processed, `workflow/work.rs:190`, although the wait has not ended), and PostgreSQL's row locks make the
  transactions serializable as described.
- Worker and database clocks advance at the same rate, and a worker acts on its
  own deadline less than `SafetyMargin` late (`LagAssumption`). This is the
  assumption the margin in the code exists for; with the margin taken away (the
  mutant `FullRemaining`) `WorkIsPermitted` fails.
- Exclusive work is about user code the worker still supervises. A process whose
  cleanup is unconfirmed, or one left by a crashed worker, is outside it; the
  code reports the first and fences the results of both.
- A sync makes the names of its directory durable and a rename is atomic. A
  registration by hand may read a release between its link and its sync; if power is
  lost then, the catalog names an archive that can be loaded while the version can be
  published anew. `VisibleIsLoadable` therefore speaks of the archive, and only
  receipts, which wait for the sync, promise the release itself.
- The broker is at-least-once, unordered and may lose records. It never invents
  one.
- Left out of the modelled parts: columns of other components carried by the same
  transactions; poll plans over several routes; malformed broker records; row
  codecs, history contents, pacing and telemetry; sessions and principals
  where a refused request changes nothing; retention of waits and reviews; decisions
  from before the audit; the unwinding of a supervisor that panics itself.
- Not modelled at all: the parts so marked in `PROJECT.json`, with the reason.
