# Formal models of LCSP

LCSP assesses a repository against a legal portfolio. A *legal preparation* agent authors the
portfolio from a pinned corpus of law. An *agentic Root* (a LangGraph agent in `deepagents/`)
investigates the engineering rules of the portfolio, asks the customer what only the customer knows,
submits one decision per rule and writes the final report. The NestJS API (`apps/api`) owns every
durable fact; the agents reach it only through governed commands. Customers pay by bank transfer into
a prepaid wallet. A transactional outbox and RabbitMQ carry the messages between them.

This directory holds TLA+ models of those four parts (the assessment runtime, the outbox, billing, the
legal portfolio), the TLC instances that check them and the TLAPS proofs about them. Paths below are
relative to `src/`; `A` stands for `apps/api/src/modules/assessment/application`, `B` for
`apps/api/src/modules/billing`.

## 1. Inventory

| Part | State | Operations | Talks to |
| --- | --- | --- | --- |
| Contracts `packages/contracts/src/assessment/agentic-runtime.ts` | none (tables) | is a transition allowed with these verified guards | every handler |
| Lifecycle coordinator `A/services/assessment-lifecycle-coordinator.service.ts` | `Assessment.lifecycleState`, revision, blocker; event sequence | guarded transition, in the caller's transaction | outbox, audit |
| Runtime authority `A/services/assessment-runtime-authority.service.ts` | `AssessmentRuntime`: execution, lease, bound checkpoint; control turn | claim, authorize, heartbeat, finish | worker, coordinator |
| Runtime control `apps/api/src/platform/runtime-events/assessment-runtime-control.service.ts` | `AssessmentRuntimeTurn` | owner's Stop and Continue | outbox |
| Preparation `complete-repository-setup`, `assessment-runtime-preparation.service.ts` | pins of the case | pin snapshot and portfolio, become ACTIVE, first command | outbox |
| Human resolution `open-`, `answer-human-request`, `report-unresolvable-human-fact` | `AssessmentHumanRequest`, blocker | open or replay, answer, "I do not know", declare unresolvable | coordinator, outbox |
| Rule decisions `start-rule-investigation`, `submit-rule-decision`, `accept-assessment-fact`, `accept-assessment-evidence` | coverage, decision history, case revision | start, accept a fact, decide, invalidate | - |
| Completion gate and report `assessment-completion-gate.service.ts`, `request-assessment-finalization`, `submit-assessment-final-report` | `AssessmentArtifact` | inspect, enter FINALIZING, publish | object storage |
| Root worker `deepagents/assessment_root/` | LangGraph thread (PostgreSQL checkpoints), process memory | take a command, claim, run supersteps and tools, interrupt, settle | API, broker |
| Outbox and broker `apps/api/src/platform/outbox/`, `rabbitmq_consumer.py` | `OutboxMessage`, queues | enqueue, publish, retry, dead-letter, replay | all |
| Billing `B/` (`prisma-billing-payment-reconciliation.kernel.ts`, `prisma-billing-accounting.kernel.ts`, order and payment handlers), `delete-assessment.handler.ts` | `BillingOrder`, `SePayWebhookEvent`, `PaymentTransaction`, `CreditLedgerEntry`, `BillingWallet`, `BillingReservation` | accept a webhook, reconcile, mark processed; expire an order; resolve or reject a payment; release holds and delete | outbox |
| Legal portfolio: handlers of `legal-preparation`, `legal-portfolio-integrity.validator.ts`, `deepagents/legal_preparation/` | `LegalPreparationRun`, `LegalPortfolioVersion`, its activation record | start, claim, validate and submit, activate, fail; the runner that drives them | outbox, broker |
| Repository setup and archives, legacy migration, scan jobs, interview runtime, auth, GitHub, web, admin | their own tables | see `PROJECT.json` and section 8 | API |

What makes it hard:

* **Two durable stores.** The API's rows and the native thread are written by different
  transactions. A run may stop between the two writes of one logical step: a question is stored and
  its interrupt is not, an interrupt is stored and not settled.
* **Leases without a fence on the thread.** `LEASE_SECONDS` pass without a heartbeat (the client has
  one and the runner never calls it). A worker that lost its lease is refused by the API and still
  writes the thread.
* **Who continues an execution.** A claim either continues an interrupted, paused or stopping
  execution or replaces a finished or abandoned one.
* **An owner who acts at any time**, racing the run: Stop against a question, an answer with an old
  page, Continue.
* **Facts that invalidate verdicts**: every accepted fact and every answer advances the case
  revision and withdraws decisions that reasoned over the old one.
* **At-least-once commands** with idempotency keys derived from a checkpoint.
* **A broker outside the transaction.** A batch of the outbox is published message by message inside
  one database transaction; only the commit makes the rows' new states visible, and a failed commit
  publishes everything again. A lost connection returns deliveries whose handlers run on.
* **Different locks for one row.** The reconciliation of a transfer locks its payment and the account of
  the order it names, an administrator who settles a payment without an owner locks only that payment,
  expiry locks the account. The order's conditional update and the wallet's version are what is left between them.
* **Snapshots older than their lock.** A submission of a portfolio runs SERIALIZABLE and its first statement waits
  for the advisory lock, so what it reads afterwards may be out of date; validation is outside it altogether.
* **Check, then act by id.** Claim and fail of a preparation run, replay and discard of a dead letter
  read a status in one statement and change the row in another.
* **Constraints as the last guard.** A late claim or submission of a failed preparation run passes every condition of
  its handler and is turned away by a CHECK of the table; so is a packet the validator passes and the table of rules does not.

What makes each part correct: a claim follows the execution table and a lease speaks for one
execution; a Stop ends in a resumable pause; the assessment waits for the customer exactly while a
question is open and every settled question can be answered; a wake-up is never lost; accepted
decisions are current; what is published is complete, consistent and final. A paid order is credited
once and the wallet is always the sum of its ledger; an accepted webhook is settled; no credit is held
for a deleted assessment. At most one portfolio is active, it is sound against its corpus, and it stays until
another one replaces it. `PROJECT.json`
(`hazards`) lists, line by line, where the code could break these and which property looks there.

## 2. Modules

```
AgenticRuntime            tables of the contracts package
  AssessmentState         the rows of one assessment, lease check, transition, invalidation, setup
    RuntimeAuthority      claim, finish; Stop, Continue
    HumanResolution       open, answer, do not know, unresolvable
    RuleDecisions         start, fact, decision
    Finalization          gate, FINALIZING, report
      RootWorker          all four, driven by workers on a native thread; mishaps
        AssessmentRoot    owner + API + broker + workers: Next, fairness, properties
          DocumentedRecovery    promises of the documents the code does not keep
            MCAssessmentRoot    instances for TLC
          AssessmentRoot_proofs     type correctness
            AssessmentCase_proofs   safety of the case
              AssessmentExecution_proofs   lease, execution, turn, pause
                AssessmentThread_proofs    the worker's thread: settlements, wake-ups
                AssessmentJourney_proofs   guards, waiting rules, the refinement
AssessmentJourney         abstract specification: what the owner is promised

Billing                   orders, transfers, payments, ledger, wallet, holds (abstract: messages just arrive)
  Billing_proofs          safety of billing
  MCBilling               its instance
Outbox                    rows, polls, dead letters, the broker's queue
  PaymentPipeline         Billing's webhooks carried by Outbox to API processes: implements Billing
    PaymentPipeline_proofs     nothing published is lost or copied; the refinement
    MCPayments                 its instances

PortfolioIntegrity        the validator of a packet and what the activation can write
  LegalPortfolio          runs, workers, activation
    LegalPortfolio_proofs      soundness, the chain of activations, the refinement
    MCLegal                    its instance
PortfolioRegistry         abstract specification: the portfolio in force as a register
```

### State and actions against the code

* A **governed handler** locks the Assessment row and then the runtime row (`lockAssessmentAndRuntime`
  in the authority) and commits once, so it is *one action*, with the coordinator's transition, the
  invalidation of decisions and the outbox row it contains. A rejected request changes nothing and
  has no action. Because of this row lock the lifecycle revision, the event sequence and the audit
  rows add nothing the properties could tell apart; they are left out (section 8).
* `lease = [holder, live]`: the holder stands for the token; `live` is `leaseExpiresAt > now`. The
  authority accepts a command only from the holder of a live lease of a RUNNING execution.
* `turn` is the control turn of the current execution. Turns of replaced executions are never read
  again and are not kept.
* `requests[q]`: the idempotency key of a question is its content, so the content is the identity.
  `SUPERSEDED` and `CANCELLED` exist in the enum and nothing writes them.
* `decisions[r]` is the history of a rule, `coverage[r]` its resolution state; a decision carries the
  column `caseRevision` and the revision its packet claims (`basis`).
* `commands` counts `ROOT_REQUESTED` messages between enqueue and delivery: outbox, exchange and
  queue together. `resumeKeys` are the idempotency keys of the human resume already used.
* `native = [checkpoint, wait]`: a wait is stored at the checkpoint its superstep started from; a
  committed superstep makes a new checkpoint. Checkpoints advance in the model only where two runs or a
  wait can tell them apart (`Contested`), which keeps them finite; the API compares only the
  identities it was given at a wait.
* `worker[w]` follows `run_assessment_root`: *claimed* (before the thread is read), *resuming*
  (`Command(resume)`), *running* (tool calls, supersteps), *settling* (the call of `finish`).
  `StartRun` has one disjunct for each branch of the runner, in its order.
* **Mishaps** are actions with a common bound: `Crash` (the process is killed, the broker redelivers),
  `LeaseExpires`, `DuplicateCommand`, `LoseReply` (a question is stored and the tool sees a gateway
  error), `RepeatAnsweredQuestion` (the Root repeats an answered question word for word). `FailRun`,
  any exception of a run, is not a mishap: it is always possible.
* **Billing.** A *session* is a transaction in progress with the locks it holds and what it has read. A
  transaction that credits an order is two steps, the claim of the order's row with the read of the wallet
  (`ClaimByTransfer`, `ClaimByAdmin`) and the commit (`CommitTransfer`, `CommitResolve`), which the
  wallet's version may refuse; between them any other session may move. A transaction that credits nothing
  is one step. `Commits` keeps the session and frees its locks, because a delivery is several transactions: the
  payment is recorded in one and the event marked processed in another. `ledger` is the set of orders with an
  entry; `Projection` is `calculateBillingProjection`.
* **Outbox.** `batch[i][m]` is the fate of row *m* in the open poll of process *i*: *todo*, *sent*,
  *failed* or *out*; the rows change when `CommitPoll` commits. `Publish` has three outcomes: *confirmed*,
  *unconfirmed* (backpressure or a lost confirmation: the broker has or gets the message and the publisher
  counts a failure) and *refused*. An operator's `ReadDeadLetter` and the change that follows are two steps.
* **PaymentPipeline** conjoins actions of both: `Accept` is Billing's webhook with `Enqueue`, `Deliver` is
  Billing's `Receive` with one copy less in the queue. `subscribed` tells whether a process still consumes: `LoseConnection`
  ends that for good, because `consume` is called once per process.
* **Legal portfolio.** A worker's phase is where its thread of `runner.py` is; `snapshot` and `seen` are what its
  serializable transaction sees, and `Activates` needs them to be current (otherwise `ActivationConflicts`).
  The constraints of the migration are guards: `Storable` (a run has a failure
  reason exactly when it failed) decides with `Claimable` whether a claim's update goes through and with `Accepted` whether an
  activation does. What is refused is rolled back: `ActivationRefused` sends the agent back to authoring with an error, a
  refused claim makes the runner report CORPUS_UNAVAILABLE. The unique index that admits one active portfolio is not a guard of its own: with a current
  snapshot it never fires, and with an outdated one its error is among the outcomes of `ActivationConflicts`.
  `PortfolioIntegrity` writes the failures of `validateLegalPortfolioPacket` as a set (`Failures`) and separately says
  what it means for a packet to be `Sound` and `Writable` (the keys, references and the coverage CHECK of the tables). How far
  the first implies the others is proved and not assumed: it implies `Sound`, and `Writable` but for one case, a reason given
  for an assessable rule, which neither the schema nor the validator rejects and
  `LegalPortfolioRule_coverage_reason_check` does. The promise of `tools.py:80` (*when mechanically valid, activated
  automatically*) does not hold of such a packet. `Reasoned` in `MCLegal` is one.
* Definitions that begin with the comment *Faulty:* are plausible defects of the definition below
  them. The models never use them: each shows that a property notices the defect (section 4).

## 3. Properties

**The assessment runtime.** Safety (`AssessmentRoot`): `PublishedCase`, `AcceptedIsCurrent`, `WaitsForOpenQuestion`,
`RuleAwaitsQuestion`, `InterruptIsAnswerable`, `PausedIsResumable`, `PauseIsNeverRefused`,
`InterruptIsNeverRefused`, `AnsweredWaitIsResumed`, `LeaseNamesExecution`, `TurnMirrorsExecution`, and one type invariant.
Action properties: `GuardsAreTrue` (handlers hand guards to the coordinator as verified and the
coordinator believes them; they are true), `LegalExecution` (the authority writes execution states
without consulting their table; it follows it), `NoWakeUpLost`, `PublishedIsFrozen`.
Liveness: `StopSettles`, `ContinueRuns`, `AnswerRuns`.

Refinement: `KeepsJourney` says that `AssessmentRoot` implements `AssessmentJourney`, a specification
without executions, leases, checkpoints or messages. The mapping reads the phase off the lifecycle
(WAITING_FOR_HUMAN and BLOCKED are both *asking*), the open and answered questions off `requests`
and the verdicts off `coverage`. A decision that survives a fact, or a pause that loses a verdict,
breaks it.

**Billing.** `CreditedOnce` (credited, in the ledger and matched by exactly one payment of the right price are one
thing), `WalletIsProjection`, `ProcessedIsRecorded`, `NoStrandedHold`, `SettledIsFinal`.

**The payment pipeline.** `BillingSpec` as a property: behind the outbox every behaviour is one of Billing's, so
Billing's properties hold there too. `PublishedIsInFlight` (a published message is queued, handled or
done), `CopiesNeedFaults` (without a fault nothing is sent twice), `TransferSettles` (an accepted transfer is processed, its
message is a dead letter, or no process consumes any more).

**The legal portfolio.** `ActivationsAreAChain`, `ActivatedIsSound`, `ActiveIsKept`, `AnswerIsTheRecord` (what the
API answered about a packet is what it recorded, whoever submitted it), `FailedIsFinal` (a run that failed stays
failed, whoever still acts on an older reading of it), `RunSettles`.

Refinement: `KeepsRegistry` says that `LegalPortfolio` implements `PortfolioRegistry`. An assessment pins the portfolio
in force with a `findFirst` that has no order (`assessment-runtime-preparation.service.ts:111`) and keeps it when it is
superseded. The registry says what that takes: one register, written once per activation with a sound packet; a portfolio
gets its successor in the step that ends its reign, and never another; a run's verdict and packet never change. The rows hold
links to *predecessors*; the mapping reads the successor off them (`Successors`) and the register off the row states.

## 4. Runs

`CHECK_DEADLOCK FALSE` throughout: a published assessment, one whose run failed with no command left, a
settled transfer or a finished preparation really stops.

| Run | Instance | What it shows |
| --- | --- | --- |
| `root_case` | 1 worker, 2 rules with a question each, 1 "I do not know", case revision 2, 2 decisions a rule, 1 control, no mishaps; 357 320 states | consistency of the case and the owner's view over every order of decisions, facts, answers, unresolvable questions, Stop and publication |
| `root_runtime` | 2 symmetric workers, 1 rule with 2 questions, case revision 1, 1 decision, 2 controls, 2 mishaps; 507 336 states up to symmetry | the contest of two workers, the lease, the binding of questions, pause and continuation |
| `root_liveness` | 2 workers, 1 rule with 2 questions, 2 controls, no mishaps; 7 953 states | Stop, Continue and the last answer take effect |
| `billing` | 1 customer, 2 orders, 2 symmetric transfers of 5 kinds (exact, wrong amount, no code, two codes, outgoing), 1 hold, a consumer, an administrator, a deletion, 1 rejection; 1.8 million states | money and credit agree in every interleaving of the transactions, each of which may roll back |
| `payments` | 1 order, 2 transfers that pay it, 2 API processes, 1 operator, batches of 2, 2 attempts, 2 faults; 261 733 states | the pipeline implements Billing, loses no published message, copies none without a fault and settles transfers |
| `legal` | 2 runs pinned to the later of 2 corpora, 2 workers, 5 drafts (exact, sound through a parent provision, quoting the earlier text, leaving out a provision, exact with a reason for an assessable rule), 2 attempts, 1 fault; 185 434 states | activation under competing, repeated, refused and late submissions is one write of a register; failed runs stay failed and every run settles |
| `crash_not_reclaimed`, `question_unanswerable`, `wait_not_resumed`, `stop_forgotten`, `wake_up_lost` | `MCAssessmentRoot`, 1 or 2 workers | one violated promise each (section 6) |
| `consumer_lost` | `MCPayments`, 1 process, 1 transfer, 1 fault | an interrupted delivery that is not repeated (section 6) |

The bounds. Two workers are enough for a holder and one that lost its lease; two mishaps give a
crash followed by an expiry, or an expiry followed by a duplicate, which is how a second worker gets in
(an instance with three mishaps, 3.8 million states, agreed). Two controls are a Stop and its
Continue. Two questions about one rule make "the last question of the rule" differ from "the last
question"; two rules with one each make it differ the other way. `MaxCaseRevision` bounds only the
facts the Root accepts by itself; answers advance the revision beyond it, so decisions are invalidated both
ways. `MaxDecisions = 2` gives supersession and a decision after an invalidation.

In `billing` two orders of one customer make two credits of one wallet, and two transfers make a duplicate; one
administrator and one consumer already hold different locks (two administrators are beyond TLC's time and
covered by the proof). In `payments` two processes make two polls and two handlers, two faults a dead letter or a lost
connection with a crash; holds, administrators and expiry are absent because they touch neither message nor
queue. `CopiesNeedFaults` is checked for one operator: several who decide on one dead letter from outdated readings
can add a copy each, which Billing absorbs; section 5 proves it for any number whose readings are not outdated. In `legal` the two runs give a predecessor and a successor, two workers of
one run arise by a delivery timeout, and `MaxAttempts = 2` has both a retry and the last attempt. One fault
is enough for a run to fail under a worker that still has it, so late claims and submissions are refused in the instance.

Each property has a mutant in `PROJECT.json`: with the *Faulty* form in place of the definition, the
same run reports the property violated. For instance the completion gate without its rule check breaks `PublishedCase`, a
turn that keeps its state in a claim breaks `TurnMirrorsExecution`, a claim that ignores a safe pause breaks
`ContinueRuns`, a wallet written without its version breaks `WalletIsProjection`, a poll that does not skip locked rows
breaks `CopiesNeedFaults`, an activation that trusts the lock alone (neither serializable isolation nor the index that admits
one active portfolio: either would refuse the write) breaks `ActivationsAreAChain`, a claim that clears the reason it finds
breaks `FailedIsFinal`.

### Fairness

`Fairness` is weak and only about live workers: some worker takes or refuses a waiting command; a run
that has started reads its thread, commits, raises its interrupts, observes a Stop before the next model
call (`RootRuntimeControl.before_model`), ends and settles. `EndRun` is fair because
`run_assessment_root` caps the graph at `recursion_limit=200`: a run cannot call tools for ever. The
customer's answers, the owner's controls, every choice of the agent (tool calls) and every mishap are
*not* fair. Liveness is checked without mishaps: with a crash it fails, and section 6 says how.

In `PaymentPipeline` the poll timer and the broker's deliveries are weakly fair per process, with the commits of a handler
that has started; customers, operators and faults are not, and `TransferSettles` therefore excepts
dead letters and a system that no process consumes for. In `LegalPortfolio` each worker's thread is weakly fair:
a delivery is taken, and a thread that has started goes on. `Resign` is strongly fair: an agent whose submissions are
refused again and again comes back to authoring each time, and `runner.py` gives it 150 steps (`recursion_limit`), after which it ends without a
submission; TLC refutes `RunSettles` without that. Errors and timeouts are not
fair, and `RunSettles` excepts a run whose failure could not be reported, because the runner swallows that error and
acknowledges the command.

## 5. Proofs

| Theorem | Says |
| --- | --- |
| `TypeOKAlways` | every row, the thread and every worker stay well typed |
| `PublishedCaseAlways` | a case in FINALIZING or COMPLETE is decided over the case as it is, without open questions; the report names those decisions |
| `AcceptedIsCurrentAlways` | an accepted decision is its rule's last and current; RESOLVED iff there is one |
| `WaitsForOpenQuestionAlways` | waiting or blocked iff a question is open |
| `PublishedIsFrozenAlways` | no step changes a published case |
| `TurnMirrorsExecutionAlways`, `LegalExecutionAlways` | the turn and the execution agree; every change of the execution is in the contracts' table |
| `PausedIsResumableAlways`, `InterruptIsAnswerableAlways` | a pause can be continued; at an interrupt every open question can be answered |
| `LeaseNamesExecutionAlways` | a lease is good for one execution |
| `PauseIsNeverRefusedAlways` | who observed a Stop and is listened to can settle the pause |
| `OneRunAtATime`, `NoWakeUpLostWhileLeasesLast` | *if leases outlast their runs*: one run at a time works on the thread; no wake-up is lost |
| `InterruptIsNeverRefusedUndisturbed`, `SettlementIsAccepted` | *in an undisturbed run*: an interrupt is never refused; nor is any settlement |
| `CommandsAreDue`, `AnsweredWaitIsResumedOnTime` | *if commands come on time*: the Root is asked for once for each reason; an answered question is resumed at the checkpoint it waits at |
| `MishapFreeSystem` | with `MaxMishaps = 0`, `NoWakeUpLost`, `InterruptIsNeverRefused` and `AnsweredWaitIsResumed` without a hypothesis on the behaviour |
| `RuleAwaitsQuestionAlways`, `GuardsAreTrueAlways` | a rule waits iff its question is open; the guards handed to the coordinator are true |
| `JourneyKept` | `AssessmentRoot` implements `AssessmentJourney` |
| `OrdersCreditedOnce`, `WalletsAreProjections`, `ProcessedEventsRecorded`, `HoldsNotStranded`, `SettledForGood`, `BillingTypeCorrect` | the properties of Billing, all of them |
| `PipelineImplementsBilling` | `PaymentPipeline` implements `Billing` |
| `NoPublishedMessageLost`, `PipelineTypeCorrect`, `PipelineCreditsOnce` | of the pipeline; the last follows from the refinement and Billing's theorems |
| `FreshReplaysCopyNothing`, `OneOperatorCopiesNothing` | every copy of a message beyond the first is paid by a fault, *if operators replay what still is a dead letter*; with one operator they do |
| `ValidIsSoundAndNearlyWritable` | a packet without failures is sound, and can be written exactly when no assessable rule gives a reason |
| `ChainOfActivations`, `SoundActivation`, `OneVerdict`, `ActivePortfolioKept`, `FailedRunStaysFailed`, `LegalTypeCorrect` | the safety properties of the legal portfolio, all of them |
| `PortfolioKeepsRegistry` | `LegalPortfolio` implements `PortfolioRegistry` |

### The assessment runtime

They hold for every non-empty set of rules and workers, every set of questions, every bound, and so any
number of mishaps. The assumptions are the named ASSUMEs of `AssessmentState`: `None` is not a rule,
a question, a worker or a report, and `RuleOf` maps questions to rules. TLC evaluates them in every run.

The argument. `AssessmentRoot_proofs` first shows that every step of the system is, on the database, a
`DatabaseStep`: a handler with arguments of the right type, a command that comes or goes, a lease that
ends, or nothing (`StepOfDatabase`). From then on an invariant of the rows is proved handler by
handler and never mentions the worker. `TypeInv` adds to the types that a settling worker reports an
outcome, without which `finish` could write the state "NONE".

`AssessmentCase_proofs` proves `CaseInv == TypeInv /\ WaitingInv /\ AcceptedIsCurrent /\ PublishedCase`.
Waiting and publication are not inductive by themselves:

* *Waiting* needs `BlockerNamesBlock` (BLOCKED iff there is a blocker, and it is a question that was
  asked), or an answer could leave BLOCKED by a question that never existed; and `PauseAgrees` (the
  execution is PAUSED iff the assessment is), because answers are admitted for a PAUSED execution and
  must then find no open question.
* *Accepted decisions* are inductive together with the types: an invalidation reaches every accepted
  decision (`NothingSurvivesARevision`) because, by the invariant, all of them carry the current
  revision and are therefore older than the next.
* *Publication* needs both of the others: the gate establishes it, and the lifecycle guard of every handler keeps the
  rules, the questions and the report from moving afterwards. A second question cannot be opened in
  FINALIZING (`CreateHumanRequest` asks for ACTIVE, WAITING_FOR_HUMAN or a human blocker), and an
  answer needs an open question.

`AssessmentExecution_proofs` adds `ExecutionInv`: the turn mirrors the execution, a lease is held exactly
while an execution runs, a pause is bound to a checkpoint, and at an interrupt the open questions and
the runtime row are bound to the same one. `InterruptIsAnswerable` needs the last part, which is inductive
only because no question can be opened while nothing runs.

`AssessmentThread_proofs` first follows a worker from its observation of a Stop to its settlement. The
property alone is not inductive: the worker may settle a Stop whose interrupt a *killed* worker left on the thread, so
`StopInv` has to speak of the thread: a stored Stop of the current execution is the turn's while nothing was ever bound
(`StopWaitStands`), and a claim that expects no checkpoint finds exactly such a thread (`FreshClaim`).

Three properties of the assessment do not hold of every behaviour, and their theorems say of which they do.

* `LeasesLast`: no lease expires while its holder runs. The code does not ensure this (the worker never renews its lease),
  and `wake_up_lost` shows that `NoWakeUpLost` needs it; crashes, lost replies, repeated questions and duplicates may happen as
  often as they like. Under it `ThreadInv` is inductive: whoever runs is listened to (`SoleRun`), so a claim finds
  nobody running; it builds on the latest checkpoint, and an interrupt it reports is stored there (`RunOnThread`); hence
  an interrupted execution is bound to the checkpoint the thread is at (`InterruptOnThread`). Resume keys name
  checkpoints of the past, and one that names the present checkpoint leaves no question open (`KeysArePast`):
  the key of the last answer is therefore new and its command is sent. A second run on one thread breaks every one of these.
* `Undisturbed`: no lease expires, no reply is lost and no answered question is asked again; workers may be killed and
  commands delivered twice as often as they like. A lost reply or a repeated question makes the set of questions a run has
  asked differ from the open ones, and TLC finds the property violated with either alone; it is also violated with an expiry
  and a second command (a duplicate, or that of a killed worker), where a run is outlived while it leaves a question open.
  A killed run leaves one open too, but nobody is told to go on for it while its lease lasts (`KillKnowsQuestions`).
  `QuestionInv` says that a run knows its questions: none is open before its supersteps, the
  waiting tools of a superstep are exactly the open ones, none of them is bound before the settlement, and a human
  blocker is one of them.
* `OnTime`: no lease expires and no command is delivered twice, except that of a killed worker; replies may be lost and
  questions repeated. `wait_not_resumed` shows what an expiry after a kill does to `AnsweredWaitIsResumed`, and a duplicate alone
  violates it too (a resumed run fails before it commits, and the duplicate starts another execution). `DueInv` says
  why a command is there: unless a killed worker still holds the lease, the execution is QUEUED, INTERRUPTED with no
  question open, or PAUSED with a Continue, the command is the only one and nobody runs. A claim therefore goes on with the
  bound execution, and the bound checkpoint is the one the thread waits at (`InterruptOnThread`, `PauseOnThread`).

`MishapFreeIsUndisturbed` and `MishapFreeIsOnTime` show that the instances without mishaps meet all three hypotheses.

`AssessmentJourney_proofs` adds `RuleAwaitsQuestion` and shows, handler by handler, that each database step
is a step of `AssessmentJourney` under the mapping or leaves the owner's view alone. An answer is the hard case: it invalidates
decisions, closes a question and may send a rule back to investigation, and must do to the verdicts what the journey's answer does.

### Billing and the pipeline

`IInv` of `Billing_proofs` says for every session what the transaction knows of rows it has not locked: a claimed
order is still eligible (`CreditInv`), the balances it will write are right *if* the wallet still has the version
read, an administrator's payment is the one read if its version is; and that one order has one claim
and one transfer one reconciler (`OneClaim`, `OneReconciler`). One lemma per action (`...Keeps`) needs only that
action and `RowsKept`, the relation of the rows between two states that leaves other sessions' knowledge true.
Assumptions: `BillingAssumption` (types of the constants; the kinds of sessions are disjoint; finite
sets of orders and holds).

`PaymentPipeline_proofs`: a step of the pipeline is a step of Billing or a stutter provided that what is delivered was
reported, so `OutboxInv` says that every row, batch, queued copy and operator's decision is about a reported transfer. `InFlight` is
stable (only a handler takes a message off the queue, and whoever loses it puts it back), so a row
marked published by a poll that commits late still is in flight. `PipelineAssumption` adds that transfers and processes
are finitely many.

The count of copies: `CopyInv` bounds the *load* of a message, the copies queued or handled plus the processes
that lost their connection and run on. Such a process ends at its next acknowledgement and takes its open poll with it, which
publishes again at no further fault, so it has to be counted from the moment the connection is lost. A row that may be published
(again) has one copy less to spare (`Publishable`). Replaying a row that no longer is a dead letter makes it publishable for
nothing: `replay` reads the status in one statement and changes the row in another
(`outbox.repository.ts:351`), so the hypothesis `FreshReplays` is about the operators and not about the code. With one operator
nothing moves the dead letter between reading and decision (`ReadingStands`).

### The legal portfolio

The invariant says of a worker's packet what its phase implies (validated packets are `Checked`) and of its
snapshot that the rows it shows still exist with the same packet and predecessor (`Kept`); with
`SnapshotIsCurrent` at the commit, the new portfolio names the one active portfolio as its predecessor.

The type of a run is the set of rows its table can hold, so type correctness is the statement that claim, failure and
activation never leave a row the CHECK forbids. It needs `Storable` at the two updates that keep the reason they find
(`StoredByActivation`) and, for a failure, that a worker about to report one has a reason. `FailedRunStaysFailed` follows: a
failed run has a reason, nothing clears it, and with it no row but a failed one is storable.

For the refinement two facts are added. A row that was not decided is blank (`Blank`), so no link and no packet
exists before the decision. By the chain nothing names the active portfolio as its predecessor, so the activation
adds the one successor it gets (`ActivationIsPublication`) and changes no other; a rejection is invisible to
readers (`RejectionIsRejection`), and every other step leaves the rows alone (`PortfolioChanges`).

### Only model-checked

The five liveness properties (`StopSettles`, `ContinueRuns`, `AnswerRuns`, `TransferSettles`, `RunSettles`): liveness
under fairness and ENABLED are beyond the prover. Every other property a passing run checks is stated by a theorem.

## 6. Where the documents and the code disagree

Each is a run TLC finds violated, on the smallest instance that shows it. "Handoff" is
`docs/architecture/LCSP_AGENTIC_MIGRATION_HANDOFF.md`, "manifest" is
`reports/architecture-freeze-migration-manifest.md`.

* **A crashed run is not reclaimed** (`CrashedRunIsReclaimed`). `docs/implementation/queue-implementation.md:69`:
  "| Worker crash | Yes | Resume from checkpoint |". The command of a killed worker is redelivered at once,
  meets the dead worker's live lease, and `boundary.py:88` acknowledges it as SKIPPED. Nothing asks
  for the Root when the lease ends.
* **A question nobody can answer** (`QuestionBecomesAnswerable`). Handoff:789: "authorized answer updates
  Case/Evidence and resumes identical server thread". A run that fails between the API's write and the
  native interrupt is settled FAILED with the assessment WAITING_FOR_HUMAN; the question has no
  checkpoint, so answers are rejected, and no claim is admitted.
* **An answered interrupt is not resumed after a crash** (`AnsweredWaitIsResumed`). Manifest:446:
  "Kill/restart worker during investigation and during HITL; the same checkpoint/thread and accepted
  domain state resume idempotently." After a crash just behind the resuming claim the next claim
  replaces the execution and names no checkpoint (`assessment-runtime-authority.service.ts:237`), so
  the worker fails with "human resume lacks server checkpoint authorization". Where no lease expires and no command is
  duplicated the promise is kept (`root_case`), and that is proved (section 5).
* **A Stop that meets a question is forgotten** (`StopIsNotForgotten`). Manifest:447: "Stop persists
  `PAUSED` and execution pause". The interrupt's settlement completes the turn with the Stop in it, and after the
  answer the assessment runs on.
* **A wake-up is swallowed** (`NoWakeUpLost`). The resume command is keyed by the bound checkpoint
  (`answer-human-request.handler.ts:346`). When a lease expires and two runs write one thread, a
  later wait can be bound to a checkpoint whose key was used before; the last answer then makes the
  assessment ACTIVE without a command. Without mishaps the property holds (`root_case`), and while leases outlast their runs it is proved (section 5).

* **A consumer that does not come back** (`InterruptedDeliveryIsRepeated`). `docs/implementation/queue-implementation.md:68`:
  "| Queue delivery interruption | Yes | Re-deliver idempotently |". When the connection closes, `rabbitmq.client.ts`
  forgets its channel "so a future operation can reconnect cleanly" and the next publication does; but `consume` was called
  once, when the module started, so the broker keeps the returned delivery and this process never takes it.

## 7. What is left

Sections 2 to 5 are done. In this order, what could follow:

1. The Root commands of `AssessmentRoot` carried by `Outbox` in place of the counter `commands`, as
   `PaymentPipeline` does for webhooks.
2. `RepositorySetup`: connections, credentials and their versions, pinned snapshots and the archive cache. Rotating a
   credential advances its current version while existing connections keep the old one, and connecting again returns the
   stale connection; later retrieval then fails as invalid credential.
3. `LifecycleLog`: the coordinator's revision compare-and-set, the event sequence and the replay by
   idempotency key, if a caller without the row locks ever appears.
4. `CopiesNeedFaults` for operators who decide from outdated readings, with a bound that counts those decisions.
5. `LegacyMigration`: the cutover from the old pipeline (cancel its messages, archive rows and reports, give every open
   assessment a new runtime, validate), each phase in batches that a crash may cut and a second call repeats. The property
   would be that no assessment is lost, started twice or overwritten when the live system writes between two batches.

## 8. Not modelled, and why

* Evidence acceptance appends rows that no modelled guard reads. Pins, portfolio text, packet criteria, report
  narratives and object storage are data no property here distinguishes; the handlers' checks on them
  can only reject.
* `acknowledge` of the runtime control service is not called for the Root boundary; `heartbeat` has no
  caller in the worker.
* Waiting for a portfolio or a snapshot before ACTIVE, FAILED, CANCELLED and the other edges of the lifecycle table that
  no handler of the agentic runtime takes: the table has them, the actions do not.
* A retryable error of `claim` or `finish` that makes the broker redeliver is the same as `Crash` or
  `DuplicateCommand`.
* **Lifecycle log.** Every caller of the coordinator holds the rows of the assessment and of its runtime, so revision, event
  and audit row move with the transition they belong to.
* **Scan jobs** are retired: the outbox refuses their event types (`isRetiredOutboxEventType`) and no module registers
  `scan.controller.ts`. So are the **interview runtime** and the pipeline continuation
  (`RetiredLegacyRouteMiddleware`); they are the largest files of the API, and what is left of them is read-only.
* **Repository setup and archives**, and the **legacy migration**: see section 7. An operator runs the migration once, from the
  command line; it ends where the model begins.
* **In billing**: the creation of wallets and of reservations (nothing in the code reserves credit any more; holds exist from the
  start), exports, listings, the time limit of an interactive transaction other than as a rollback, collisions of the hash
  behind an advisory lock (two names with one lock only wait more).
* **In the outbox**: the hold on targeted reanalysis (retired traffic); CANCELLED, which nothing writes; topology other than the
  one queue of a message.
* **In the legal portfolio**: texts, titles and criteria of a packet; a model error is represented by NO_SUBMISSION; registering a
  corpus index is one step, and only the indexes of corpora that runs are pinned to are registered.
* Authentication, GitHub, web, translations and administration are stateless or beside the four parts (see `PROJECT.json`).

## 9. Running

`tlc -config RootRuntime.cfg MCAssessmentRoot.tla` checks an instance; the module of each `.cfg` is in `PROJECT.json`
(the assessment instances take half a minute at most, `billing`, `payments` and `legal` about two minutes).
`tlapm Billing_proofs.tla`, and likewise for the other modules whose names end in `_proofs`, checks the proofs.
