# Delegate in TLA+

Specifications of the control logic of Delegate (the repository this directory
accompanies), model-checked with TLC and, for the state-changing core, proved
with TLAPS.

Delegate runs a *public representative* of a person: outsiders talk to it on
Telegram or the web, it answers within a policy, asks its owner when the policy
says so, hands conversations over, sells credits, runs tools in an isolated
compute plane and delivers what they produced. Postgres (through Prisma, at READ
COMMITTED) is the business truth. Timers belong to a *workflow engine*: the
built-in local runner, or Temporal behind a transactional outbox.

The models keep the control of the code (every state change, guard, early
return, error path, and the order of awaited statements) and abstract data to
what the properties tell apart. `PROJECT.json` has, under `map`, the source lines
each definition stands for, and under `hazards` what is hard to test in this
code with the properties that cover it.

Contents: [inventory](#inventory), [modules](#modules-and-the-code),
[runs](#what-the-runs-check), [fairness](#fairness), [proofs](#what-is-proved),
[disagreements](#where-the-code-and-its-documents-disagree),
[limits](#what-is-not-modelled-and-why), [plan](#plan).

## Inventory

| Component | State it keeps | Operations | Correct when | Module |
|---|---|---|---|---|
| **Durable workflows, business side** (`workflow-runner/src/runner.ts`, `packages/workflows`, the enqueuing and resolving transactions of broker, bot and dashboard) | `WorkflowRun` rows; the approval or handoff each watches | enqueue with the subject, resolve by the owner (cancels active runs), expire or follow up when due | a resolved subject has no active run; a cancellation is final | WorkflowRuns |
| **Temporal engine** (`runner.ts`, `temporal-bridge.ts`, `temporal/`) | `WorkflowCommandOutbox` rows, the executions Temporal keeps, a dispatcher's memory | list, claim, dispatch, acknowledge, back off; timer, activity, retries | no intent is lost; claims are exclusive; an ended run never comes back | WorkflowOutbox, WorkflowLifecycle |
| **Local engine** (`runner.ts`) | the runs; a process's batch | list due rows, claim, process, fail | one runner per run, one action at most, no due run is left waiting | LocalRunner |
| **Compute broker** (`executions.ts`, `sessions.ts`, `leases.ts`, `approvals.ts`) | session with lease and container, executions, approvals | create and terminate a session, execute a tool, resolve an approval | nothing runs unapproved; a command runs once for each request that found its approval open, and for nobody else; approvals and executions agree | ComputeBroker, ExecutionGate |
| **Capability policy and its settings** (`packages/capability-policy`, `compute-broker/src/{policy,entitlements}.ts`, setup, overlays and governance in `packages/web-data`) | settings of several people, layered by precedence | evaluate, save in any order, approve later | the guardrail stands; what runs unapproved is inside the setup; what is approved is what was asked | CapabilityPolicy, ToolRequests |
| **Runtimes and storage** (`browser*.ts`, `native-browser.ts`, `mcp.ts`, `artifacts.ts`) | artifacts and objects, browser session and navigations, MCP health | run, loop, retry, store, record, charge, close | a run is charged for what it stored; the session is where the browser went last; every run ends | ToolRuns |
| **Billing and wallet** (`billing.ts`, `bot/src/runtime-store.ts`, `bot/src/index.ts`) | wallet, budgets, invoices, ledger | debit an execution; create, deliver, confirm an invoice | a payment counts once and is never forgotten; no credit out of nothing | Billing |
| **Telegram bot and conversation planning** (`apps/bot`, `packages/runtime`) | conversation, collector, free-reply count, handoffs, intakes | handle an update await by await | limits hold; one open handoff a reason; every update is handled | Conversations |
| **Deliverables** (`web-data/src/{deliverables,deliverable-bundles,artifacts}.ts`, public download route) | deliverables, archives, pins, downloads | save, pack, pin, download | references stay pinned; the public gets what was published; archives are current | Deliverables |
| **Dashboard panels and API routes** (`apps/web`) | React state, chains of awaits | edit, save, choose, refresh, switch | a panel shows its own representative's state; a message means what it says | DashboardPanels |
| **Public pages, model runtime, OpenViking client, registry, hooks** | caches, cookies | I/O | | not modelled |

How they interact. The broker and the bot *enqueue* a run in the transaction
that creates an approval or a handoff; the dashboard and the broker *cancel* runs
in the transaction that resolves it; the workflow runner *reads* rows or the
outbox and *writes* runs, approvals, events and, through an expiration, tool
executions; Temporal calls back into the runner's activity. Broker and bot both
write budgets and wallet. The dashboard reaches everything through API routes
that call `packages/web-data` or the broker. They share only Postgres rows,
object keys and docker names, and none holds a lock across an await outside a
transaction.

What is hard:

- two statements with an await in between and another process in the middle: a
  stale status is acted upon, an update is by id, absolute values are written;
- the outbox: a crash between Temporal's answer and its acknowledgement, leases
  that run out under a slow holder, an owner who cancels meanwhile;
- updates Telegram delivers again after a crash, replies sent before they are
  counted;
- settings saved by several people between a request and its approval;
- two runs in one browser session while the session is terminated;
- a bundle saved while it is packed, downloaded while it is saved;
- a chain of awaits in the browser that outlives the panel it started in.

## Modules and the code

```
WorkflowTypes ─┬─ WorkflowRuns ─┬─ WorkflowOutbox ─── WorkflowOutbox_proofs
               │                │        └ INSTANCE WorkflowLifecycle
               │                └─ LocalRunner ────── LocalRunner_proofs
               └─ WorkflowLifecycle (abstract)
CapabilityPolicy ── ToolRequests ─┬─ Tools_proofs
ToolRuns ─────────────────────────┘
ComputeBroker ── ComputeBroker_proofs          Billing ── Billing_proofs
  └ INSTANCE ExecutionGate (abstract)
Conversations ── Conversations_proofs          Deliverables ── Deliverables_proofs
DashboardPanels ── DashboardPanels_proofs
```

Each module with a specification has an `MC` module with its instances.

**WorkflowTypes** has the status vocabularies of the Prisma schema and the row a
new run is inserted with.

**WorkflowRuns** is what both engines share. `EnqueueRun` is the transaction of
`createApprovalRequestForExecution` and of `enqueueHandoffFollowUpWorkflowTx`; a
run's key is the subject it watches (dedupeKey). An owner's request is
`OwnerCheck` (status read before the transaction), `OwnerOpenTx` (subject
updated, `findMany` of active runs) and `OwnerCommit` (each found run updated *by
id*); the open transaction holds the subject row's lock. `processWorkflowRunById`
is one action per awaited statement. `effects` counts what a run did.

**WorkflowOutbox** is `runTemporalWorkflowCommandTick` by dispatchers, each with
the command it serves and what it read: `ListCommand`, `ClaimCommand` (the
compare-and-set on attemptCount), `LoadCommand`, then `SkipTerminal`, or
`StartExecution` / `ActivateRun` / `AckStart` / `LateStart`, or
`CancelExecution` / `CleanupAsCanceled`, and `MarkCommandFailed` on any throw.
Temporal is external: a workflow id starts once, timers survive, an activity is
attempted at most `MaximumAttempts` times, cancelling does not stop a running
attempt, an answer may be lost though the call took effect.

**WorkflowLifecycle** is the abstract specification: a status per run and the set
of intents owed to Temporal. Nothing is acknowledged before it took effect, a
cancellation is final, and every owed intent is delivered in the end.

**LocalRunner** is `runLocalWorkflowTick`: a worker of WorkflowRuns is a runner
process; it lists due QUEUED rows into `batch`, claims each by a conditional
update, processes it, and writes FAILED on a throw.

**ComputeBroker** has one session with its lease and container, the executions
asked of it, their approvals, and every request of `createComputeSession`,
`executeTool`, `resolveApproval`, `terminateComputeSession` as a process that
keeps the session row it read (`snap`). What the policy decides and how a command
ends are choices. An expiration arrives in two steps, as
`processApprovalExpiration` makes it. Three variables are history: `grants` and
`commands` count, for each request, the approvals it committed and the times it ran
the command; `crowd` holds the requests that had found an approval PENDING and had
not committed yet when it was decided first.

**ExecutionGate** is what the broker promises about an execution, without session,
lease, failures and the statements in between: what the policy allows is cleared
for the request that asked, what it refuses is held for good, what it is not sure
of is held and put before the owner. A request takes it up only while it is
undecided; it then refuses it, or clears itself to run it. A cleared request starts
the execution, carries its command out once and ends it, or lets go on the way. Two
requests that took it up together may both do so: the gate promises no more than
the code keeps. ComputeBroker's `Gate` maps it to the columns of the execution, to
the approvals that exist and are decided, and to where each request stands.

**CapabilityPolicy** is `evaluateCapabilityPolicy` as operators: profiles are
layered by precedence, a profile's matching rules by priority, and the first
managed profile with a word on the request decides before the representative's
own. A rule's patterns are the set of subjects they accept. The managed
guardrail, the owner's baseline and trusted-customer overlays and the
organization's overlays are written as the code's builders write them.

**ToolRequests** puts settings, overlays, governance, MCP binding and plan beside
the executions asked under them. `ExecuteTool` normalises the request as
`normalizeExecutionInput` does, evaluates it, applies the effective decision
(complex commands, network, files, binding, cost limit, credits) and writes a row;
an approval reconstructs the request *from that row* (`Reconstructed`), as
`resolveApproval` does. A broker call is one step here: ComputeBroker interleaves
its statements, this module decides their data.

**ToolRuns** is `runAllowedExecution` await by await for two executions of one
session: the lease and the RUNNING row, the session's update, then a command, a page, both native loops (OpenAI and Anthropic, with what
each reads out of the provider's answers), an MCP call with its binding's refusal (which counts no failure), its
retries and the binding's failure count; then storing artifacts (`Put`, `CreateRow`), the row's
end, the navigation (`Look`, `UpsertSession`, `UpsertNavigation`) and the charge,
while the session may be terminated and any statement may throw.

**Billing** has one conversation and its owner's wallet, and the two programs that
write both. `applyExecutionBilling` is one action per statement and computes
absolute values from what it read; `confirmInvoicePayment` increments the wallet
and writes the budget. The broker locks the conversation first, the bot the
wallet: `BreakDeadlock` is Postgres aborting one. The bot handles one update at a
time; an update is acknowledged after its handler returned, and comes again if
the bot died before.

**Conversations** is one private chat. `Read` loads the representative of the chat's
session, or the default one and its context where that read fails, and makes the plan
(`createConversationPlan`, `NextStep`); the writes of collectors, handoffs, deep
links and payments, the reply, and `recordOutboundReply` are further steps, so
that the process may die, or a call throw, between them. Telegram redelivers what
was not acknowledged; `bot.catch` ends the update of a handler that threw. The
owner decides handoffs, and follow-ups run, at any time. What an update's text
means to the classifier is part of the update. `freeAnswers` is history.

**Deliverables** runs several route handlers at once, statement by statement, over
deliverables, artifacts, archives in the object store and ledger entries. An
archive is its deliverable and the artifacts in it, which is what its cache key
says. A packaging preset offers the pinned artifacts in an order of their kind and
age; two that the order does not tell apart may stand either way round, so
`PresetItems` is the set of the lists it may offer. `served`, `published`, `torn`
and `raced` are history.

**DashboardPanels** is the page in the browser: one mounted panel, its drafts and
selections, its effects, and `flights`, the chains of awaits a click starts (the
request, what the route commits, the refresh's requests, the new state). A link
to another representative keeps the panel mounted and so keeps its chains; a
link to another view drops them. Each route is an operator over the
representative's stored state (`PatchSetup`, `PostNative`, ...). A setup save also
puts the owner's overlays back to their defaults and syncs the OpenViking resources,
which may succeed, fail (`failed` is stored, the save succeeds all the same) or not
be enabled; a sync the owner asks for that fails stores `failed` and is refused
(`SyncFails`). Each representative here has an owner of its own.

## What the runs check

Bounds are constants of the .cfg files. `MaxFaults` bounds throws, crashes,
rollbacks and premature timeouts of a behaviour.

| Run | Instance | Question |
|---|---|---|
| `outbox_races` | one approval, two owners, two dispatchers, a worker, one fault | intents kept, exclusive claims, resolved subjects, the two late writes after which a phase stays wrong (`PhaseGoesWrongOnlyLate`), the lifecycle's safety part (`KeepsLifecycle`) |
| `outbox_delivery` | one handoff, one owner, dispatcher, worker, one fault, fair | the whole lifecycle with its liveness (`ImplementsLifecycle`): every command is delivered |
| `local_runner` | two approvals, one owner, two runners, two faults, fair | exclusion, one action at most, and whatever was listed and not claimed is served |
| `compute_approvals` | one execution, two resolvers, one caller, one terminator, three containers, one fault | nothing runs unapproved, a command runs once for each request that held its approval, approvals and executions agree at rest; the whole implements `ExecutionGate` (`ImplementsGate`) |
| `tool_requests` | one execution, requests of every capability, all orders of two setups, overlays, governance and two bindings | the guardrail stands, unapproved runs stay inside, what runs is what was asked |
| `denied_request_runs` | the same | violation: see [below](#where-the-code-and-its-documents-disagree) |
| `tool_runs` | two interchangeable executions of every kind, two faults, one retry, loops of two steps | charged for what was stored, browser where it went last, only late runs reopen |
| `tool_runs_end` | one execution, two retries, loops of three, two faults, fair | every run is charged in the end |
| `billing_races` | two executions, a Pass and a sponsorship, two charges per invoice, with and without wallet and budget, one fault | what races cannot break: payments count once and are not forgotten, stars add up, no credit from nothing |
| `conversations` | two representatives, three updates of six kinds, collectors of two questions, one fault, two decisions, fair | free answers bounded, intakes in order, one handoff awaits, follow-ups, every update handled |
| `deliverables` | one deliverable, two artifacts, three handlers, one throw | pins, archives, publication, downloads |
| `panels` | two representatives, two moves, one edit, one disturbance | messages, quiet panels, rows and their representative |

Why the bounds are enough to be interesting:

- `outbox_races`: a run, its subject and its commands are independent of other
  runs', except that a process serves one at a time; two dispatchers and two
  owners give every pair of conflicting steps. Its safety is also proved for
  every number of each.
- `local_runner`: a batch of two is where a row changes between listing and claim;
  two faults let both processes die or throw. Both runs are approvals; the
  handoff's processing is in `outbox_delivery`, and exclusion is proved for both
  kinds.
- `compute_approvals`: two requests on one execution are what it takes to approve,
  or approve and reject, at once, with a termination and an expiration between their
  statements. That executions share a session changes nothing about any of them:
  the proofs are for any number of executions and requests.
- `tool_requests`: the two setups, bindings and overlays are chosen so that each
  guard decides some request; every save may come between a request and its
  approval.
- `tool_runs`: two runs are what it takes for recordings to overlap, two faults for
  a retry to fail and a statement after it to throw.
- `billing_races`: credits up to 3 make every pool run empty first, second or last;
  two charges are the least at which an invoice is paid twice.
- `conversations`: a limit of one reply and three updates pass the free window;
  collectors of two questions have a first and a last answer; one fault is a
  redelivery at any await.
- `deliverables`: three handlers are a save, a second save or a pin, and a download
  between them.
- `panels`: two moves are two chains at once, one disturbance a switch, a failure
  or a change by others in the middle of them.

Symmetry is used in runs without liveness properties only. Deadlock checking is
off where behaviours may come to rest: all requests served, all bounds used up.

Some properties speak of part of the behaviours, because the code promises
nothing of the rest. `PhaseGoesWrongOnlyLate` names the two writes after which an
ended run's phase may stay wrong (a failure marked, or a START skipped, after another
dispatcher had gone on), `RunsOnceForEachHolder` allows each request that had read
PENDING its run, `ApprovalAgreesAtRest` is about behaviours without faults, `ChargedMeansCredited`
excludes payments whose transaction failed, `OneAwaitingHandoff` and
`AwaitingIsFollowedUp` handoffs the owner reopened, `BrowserIsWhereItWentLast`
recordings that overlapped or were cut short, `ArchivesAreCurrent` saves that did
not run to their end, `QuietPanelsAreCurrent` chains that
overlapped, and the status of a sync (`StatusMayLag`).

Every property of a passing run has a mutant: a change of one mapped definition,
as a slip in the code would make it, under which the same run reports the
property violated. The mutated forms stand before the definitions they replace
and are marked "Mutant".

## Fairness

Weak fairness only, and none for owners, customers or faults.

- `WorkflowOutbox!Fairness`: a dispatcher's next step (`tickLoop` polls again
  however a tick ended), time (leases, backoff, due times), Temporal's timer, its
  scheduling of an activity and the timeout of an attempt nobody attends to, the
  commit of an open transaction.
- `LocalRunner!Fairness`: *some* runner process goes on, time passes, an open
  transaction ends. No single process needs to be alive.
- `Conversations!FairSpec`: the polling loop and a begun handler go on; both are one
  event loop, so it is one action.
- `ToolRuns!FairSpec`: each pending request is resumed, since every await of the
  runtimes has a timeout.

ComputeBroker, Billing, Deliverables and DashboardPanels state no liveness: a
request that dies is promised nothing, and nobody has to click.

## What is proved

For every value of the constants that the assumption of the module allows.

| Module | Theorem | Says |
|---|---|---|
| WorkflowOutbox_proofs | `InvariantHolds`, `TypeCorrect` | the inductive invariant; `TypeOK` |
| | `CancelIntentIsKept`, `StartIntentIsKept` | CANCEL rows exist exactly for canceled runs; no start is lost |
| | `ResolutionEndsTheRun` | a resolved subject has no active run |
| | `CancellationIsFinal`, `EndingIsFinal` | CANCELED stays; terminal stays terminal |
| | `PhaseGoesWrongLate` | an ended run's phase goes wrong for good only by a failure marked, or a START skipped, after another dispatcher had gone on |
| | `RowsAreWrittenOnce`, `ClaimsExclude` | acknowledged stays so, attempts never go back; two holders claimed at different attempts |
| | `ImplementsSafeLifecycle` | `Spec => Lifecycle!SafeSpec` |
| LocalRunner_proofs | `InvariantHolds`, `TypeCorrect`, `RunnersExclude`, `ActsOnce`, `CancellationIsFinal` | one runner a run, one action at most, CANCELED stays |
| ComputeBroker_proofs | `TypeCorrect`, `ApprovalComesFirst`, `RunsOnce` | types; a request runs what was asked about only after its own approval; at most once for each request that held the approval when it was decided |
| | `ApprovalsAgree` | without faults, at rest an approval and its execution tell the same story |
| | `BrokerImplementsGate` | `Spec => Gate!Spec`, with concurrent resolutions and faults |
| Billing_proofs | `InvariantHolds`, `TypeCorrect`, `PaymentsAreBookedOnce`, `NoPaymentIsForgotten`, `NothingIsCreated`, `ClosedStaysClosed` | no pool is negative, payments count once and are not forgotten, absolute writes create nothing, closed invoices stay closed |
| | `DebitsAreExhaustive` | `Debits` overdraws no pool, exceeds no charge, and meets one in part only by emptying all three |
| | `StarsAreTheirPayments` | the wallet's stars are the sum of the payments made |
| Tools_proofs, of ToolRequests | `GuardrailHolds`, `UnapprovedIsInside` | the guardrail's word stands, unapproved runs stay inside |
| | `RunIsTheRequest` | what runs is what was asked, for every request the bot or the dashboard sends |
| Conversations_proofs | `TypeCorrect`, `FreeWindowHolds`, `OneHandoffAwaits`, `EveryHandoffIsFollowedUp` | types; free answers up to the limit and the faults; handoffs |
| | `IntakesAnswerInOrder` | a submitted intake answers every question, each by a message of its own and in order, unless a crash lies between |
| Tools_proofs, of ToolRuns | `InvariantHolds`, `TypeCorrect` | the inductive invariant; `TypeOK` |
| | `RunsAreChargedForTheirStorage` | a charge is for exactly what was stored, retries included |
| | `BrowserFollowsNavigations` | the browser session is where the last navigation that landed left it |
| | `LateRunsReopen` | only a run that was under way reopens the browser of an ended session |
| Deliverables_proofs | `InvariantHolds`, `TypeCorrect` | the inductive invariant; `TypeOK` |
| | `ReferencesArePinned` | what a deliverable refers to stays pinned |
| | `ArchivesFollowTheirRows` | a bundle that was saved to the end has its own items in its archive, and the archive is in the store |
| | `ThePublicGetsWhatWasPublished` | the public is answered with what was offered while public |
| | `CountsAreBooked` | downloads counted and downloads in the ledger differ by no more than what is under way and what threw |
| DashboardPanels_proofs | `InvariantHolds`, `TypeCorrect` | the inductive invariant; `TypeOK` |
| | `MessagesMeanDone` | a message that something was saved is about something committed |
| | `QuietPanelsShowWhatIsStored` | a panel at rest shows what is stored for its representative, the status of a sync apart |
| | `RowsStay` | a click moves rows of nobody but the representative it was sent under |

No theorem has a hypothesis beyond its module's assumptions: they hold for any
number of processes, requests and faults.

The arguments, and why an invariant is needed:

- **Outbox.** None of the properties is inductive. `IInv` adds what each process
  remembers and why it may rely on it: `OwnersKnow` (a run found in an open
  transaction is not CANCELED yet; where none was found the run has ended),
  `OwnersExclude` (one open transaction per subject: the row lock), `WorkersKnow`,
  `JobsKnow` (before a dispatcher activates a run Temporal has it; it acknowledges
  a START only when the run is queued no more), `AttemptsBounded` and
  `AbsentRunsAreBlank`. `PhaseGoesWrongLate` is about `PhaseOwed`: where
  the phase of an ended run does not agree with its status, a command is open that
  will make it agree, and no dispatcher is past the point where it would still see
  that the run has ended. Every step keeps it but the two the property names, which
  takes what a dispatcher knows of its run (`DispatcherKnows`) and that an open
  command stays open until it is acknowledged. The refinement maps `status` to
  the status column and `owed` to the open commands.
- **Local runner.** `ClaimedOnce`: a row that is ABSENT or QUEUED was never
  claimed, and nothing turns a row QUEUED again; `WorkersKnow`: a process at work
  has the one claim.
- **Broker.** `CallsKnow`: a caller's execution is its own (`CallersExclude`) and
  nobody was asked about it; of what was put before the owner any number of
  resolvers may hold the approval, but each runs it once, after its own commit, and
  all of them are in the `crowd` of whoever decided first. The session and docker
  play no part. `ApprovalsAgree` adds `Owed`: the owner is asked only about what is
  blocked, and an approved execution that is still blocked has a resolver on its way
  to start it, unless some request died. For the refinement each statement of a
  request is one step of the gate for its execution, or none: one request's stage
  moves and the others' stay (`StagesMove`). What happens to the session, the lease
  and the container is no step.
- **Billing.** `BotKnows` (what the bot knows of the update it handles),
  `ChargesAreApproved`, and `ReadsAreBounded`: a write is at most what was read,
  what was read is at most what was issued, and `issued` only grows.
  `StarsAreTheirPayments` needs `WalletIsKnown`: what a payment found out about the
  wallet's row is still so when it commits, and a wallet without a row has no
  stars. Every other step leaves both sides alone, and a payment adds one invoice's
  stars to both; that adding at one invoice adds to the sum (`SumOfOneMore`) takes
  facts about `SumFunction`, which the library does not have. They are proved here
  from its definition, by a smallest counterexample among the subsets of a finite
  set (`LeastSubset`), where the library's induction would take an operator.
- **Tool requests.** The guardrail's is a fact of the stack: it has the highest
  precedence for a contact without a customer account, and managed profiles are
  asked before the representative's own. The other two have inductive invariants of
  the rows. `RunIsTheRequest` rests on
  `Expressible`: what the bot's parser and the dashboard send has only what the
  stored row can tell again (no body where a command or a page has none, a task
  for a native run). It is a lemma about `ParsedRequest` and `NativeRequest`.
- **Conversations.** `BotKnows`: nobody else counted replies since the running
  handler read the conversation, and a plan that gives a free answer was made
  inside the window. `AnswersAreCounted` balances answers against the stored count,
  the reply that is still to be counted (`Uncounted`) and the one that will not be
  because its conversation could not be read (`Unread`), which took a fault. The
  handoffs' properties are inductive by themselves. `IntakesAnswerInOrder` needs
  (`OrderInv`) that a stored collector has questions left and no answer later than
  the running message, and that a handler that advances or submits one holds the
  collector the conversation still has.
- **Tool runs.** What a run knows at each await (`RunKnows`): until its runtime
  throws, its result lists exactly the artifacts stored for it (`StoredAsListed`),
  and a remote call that did not fail has run its tool (`McpKnows`). Of the browser
  session, `BrowserKnown` says it is where the navigations left it or that a
  recording is halfway, with what that one read still true unless another came
  between; `SessionKnown` which runs an ended session still has to expect.
- **Deliverables.** Three facts of the rows and of the handlers together. `Pins`:
  what a row, or a save that is about to write one, takes is pinned, and an unpin
  that goes against one is counted in `raced`. `Packs`: a bundle that is not torn
  has its archive or the save that makes it, and whoever packs it packs what the
  row says now. `Offers`: what a public row offers, and what a settled public
  download is going to answer with, was published. Each action is shown to leave
  most of this as it is through one lemma (`AllKept`), from how a handler's locals
  follow each other. `CountsAreBooked` has an invariant of its own above `IInv`, `Books`:
  what the rows count beyond the ledger, less the recordings of which only the row
  is written and plus those of which only the entry is, is no more than the
  statements that threw, those whose other half is still to come put aside. The
  counts are compared as sets of units, so that one more download is one element
  more and no sum is needed.
- **Dashboard.** What a chain may count on although the panel around it goes on
  (`WellFormed`): it was asked for what its route can serve (`WellAsked`), once
  answered its operation is committed (`Known`, from which `MessageMeansDone`
  follows), what it has read are answers of the routes, and it refreshes parts of the panel it will
  be shown in (`Refreshes`), all of them except for the buttons of the setup view.
  `Quiet` is about panels over which nothing overlapped: a chain that has not been
  answered is the only one, what a chain has read is still stored, and each part
  is shown as it is stored or will be shown by a chain (`Awaited`). That a partial
  refresh is enough then takes that the setup's two forms are written by different
  routes (`OtherParts`), the status of the last sync apart: of a part that shows it
  only the rest is claimed, once a setup save or a failed sync has written it. `RowsStay` is a fact of the routes (`OutcomesAre`) and of
  what the panel puts into a request.

Only model-checked: everything with fairness (`ImplementsLifecycle`,
`WaitingRunsAreServed`, `EveryUpdateHandled`, `EveryRunIsCharged`), which needs
ENABLED.

## Where the code and its documents disagree

One disagreement is a run that expects a violation. `denied_request_runs`:
`resolveEffectiveDecision` answers "ask" for a command that is not simple before
it looks at the policy's decision (`executions.ts:1310`), and an approved request
is not evaluated again, so that a command the policy denies runs once approved;
`docs/delegate-architecture-decisions.md:70` says "`deny`: forbidden actions never
run".

Further differences the models have as behaviours, without a property that states
the contrary:

- The expiration acts on an approval read before its transaction and updates it by
  id (`runner.ts:590`): an owner's decision committed in between becomes EXPIRED,
  against "Manual resolution wins immediately"
  (`docs/temporal-native-workflow-rfc.md:394`).
- The follow-up event and the run's completion are two statements
  (`runner.ts:658`): a retried activity repeats the first, against "activity retry
  does not duplicate business mutation" (`:567` there).
- A dispatcher that lost its lease and then fails writes a retry phase over a run
  another one delivered (`runner.ts:448`, against `:253` there).
  `PhaseGoesWrongOnlyLate` has it as one of its two exceptions.
- After three failed attempts nothing tells Postgres (`temporal/workflows.ts:8`):
  the run stays RUNNING without an execution (against `:231` there).
- A local runner that dies after its claim leaves the run RUNNING, where no tick
  looks for it (`runner.ts:102`).
- Two dashboard requests that both read PENDING both approve
  (`executions.ts:302`), and the command runs twice; it runs for nobody else
  (`RunsOnceForEachHolder`).
- When recording the lease of a started container fails (`sessions.ts:213`), the
  session's termination does not release it, against "failed sessions clean up
  after themselves" (`docs/v2-isolated-compute-plane-plan.md:696`).
- Saving the representative's setup resets the owner's baseline and trusted
  overlays to their defaults (`representative-setup.ts:474`). It also syncs the
  OpenViking resources (`:526`), whose status the same view shows; the panel takes
  the answer's setup only (`dashboard-representative-setup.tsx:422`), so that the
  status it shows is the one before. The same is so after a sync that failed.
- The navigation of a native run is recorded with the task as its address, and a
  later one without a screenshot makes the next native run throw
  (`executions.ts`, `native-browser.ts`).
- While a bundle is packed again, its old archive can be served with the row that
  was read before (`deliverables.ts:343`): items that are owner-only by then
  included. `PublicGetsPublished` says what holds.

## What is not modelled, and why

- A database statement that throws is taken not to have committed; only calls to
  Temporal and Telegram may take effect and then throw. A COMMIT whose answer is
  lost is, for these models, a crash right after it.
- The engine a run is created for is fixed; a deployment that switches engines
  leaves the rows of the other one waiting.
- Billing's races do lose debits and credits, a customer may be charged twice for
  one invoice, and a payment whose transaction is the victim of a deadlock is not
  repeated. No document promises otherwise; the properties say what holds.
- Times, backoff lengths, payloads, wording, audit events other than the follow-up.
- Docker beyond which container runs under a session's name, provider prompts and
  images, HTTP clients, object storage beyond which keys exist, presentation.
- Conversations: the classifier (a choice), group chats beyond their gate, the
  contact's stage, callback queries that only answer. What a compute command is
  parsed into is in ToolRequests (`ParsedRequest`), its words are not.
- Deliverables: more than one deliverable at a time in the run, retention, the
  figures of insights, and whether a bundle is eligible for a customer's delivery,
  which is computed when it is read.
- Dashboard: creating a representative, sorting and filters, the lists' cap of 50
  artifacts, a preset's own message; an artifact's detail is read and shown in one
  step. The dashboard's save of an MCP binding also unlinks its skill pack
  (`dashboard-compute.tsx:1403`): nothing in the models reads that link.
- The public chat's cookie, which holds the visitor's count of free replies and the
  recent turns: two overlapping posts lose one's count. It is state of the
  visitor's browser.
- Model runtime, the OpenViking client, the skill registry's download client and the
  in-process hooks: I/O without state the modelled properties depend on.

## Plan

In order of what it would add:

1. The composition of ComputeBroker and Billing: a launch on credits that are gone
   when it is charged.
2. Session creation's idempotence, and the retention of artifacts.
