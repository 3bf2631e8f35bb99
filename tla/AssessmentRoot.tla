--------------------------- MODULE AssessmentRoot ---------------------------
(***************************************************************************)
(* One assessment as a whole: the owner, the API's governed handlers, the   *)
(* broker and the Root workers, and what has to hold of them.              *)
(***************************************************************************)
EXTENDS RootWorker

TypeOK == DatabaseTypeOK /\ WorkerTypeOK

Init == DatabaseInit /\ WorkerInit

SetUp == CompleteRepositorySetup /\ UNCHANGED workerVars

Stop == controls < MaxControls /\ RequestStop /\ UNCHANGED workerVars

Continue == controls < MaxControls /\ RequestResume /\ UNCHANGED workerVars

Answer ==
  /\ \E q \in Questions, known \in 0..caseRevision :
       \E knownRequest \in 0..requests[q].revision :
         AnswerHumanRequest(q, knownRequest, known)
  /\ UNCHANGED workerVars

AnswerUnknown ==
  /\ \E q \in Questions, known \in 0..caseRevision :
       \E knownRequest \in 0..requests[q].revision :
         DoesNotKnow(q, knownRequest, known)
  /\ UNCHANGED workerVars

OwnerStep == SetUp \/ Stop \/ Continue \/ Answer \/ AnswerUnknown

ToolCall(w) ==
  \/ CallStartInvestigation(w)
  \/ CallAcceptFact(w)
  \/ CallSubmitDecision(w)
  \/ CallOpenHumanRequest(w)
  \/ CallReportUnresolvable(w)
  \/ CallRequestFinalization(w)
  \/ CallSubmitFinalReport(w)

RunStep(w) ==
  \/ StartRun(w)
  \/ AbandonRun(w)
  \/ CommitResumed(w)
  \/ CommitSuperstep(w)
  \/ ObserveStop(w)
  \/ PersistHumanWait(w)
  \/ EndRun(w)
  \/ FailRun(w)
  \/ Settle(w)

WorkerStep(w) == TakeCommand(w) \/ SkipCommand(w) \/ ToolCall(w) \/ RunStep(w)

MishapStep ==
  \/ \E w \in Workers : LoseReply(w) \/ RepeatAnsweredQuestion(w) \/ Crash(w)
  \/ LeaseExpires
  \/ DuplicateCommand

Next == OwnerStep \/ (\E w \in Workers : WorkerStep(w)) \/ MishapStep

Spec == Init /\ [][Next]_vars

(* A live worker keeps taking commands and keeps its run moving.  A run     *)
(* ends because run_assessment_root limits the graph's recursion.  The      *)
(* customer and the agent's choices are not fair.                           *)
RunFairness(w) ==
  /\ WF_vars(StartRun(w) \/ AbandonRun(w))
  /\ WF_vars(CommitResumed(w))
  /\ WF_vars(CommitSuperstep(w))
  /\ WF_vars(PersistHumanWait(w))
  /\ WF_vars(ObserveStop(w))
  /\ WF_vars(EndRun(w))
  /\ WF_vars(Settle(w))

Fairness ==
  /\ WF_vars(\E w \in Workers : TakeCommand(w) \/ SkipCommand(w))
  /\ \A w \in Workers : RunFairness(w)

FairSpec == Spec /\ Fairness

-----------------------------------------------------------------------------
(* Safety.                                                                 *)

(* A case that is being finalized or was published has no open question,    *)
(* and each of its rules is decided over the case as it is; the report is   *)
(* there once the assessment is COMPLETE and only then, and names exactly   *)
(* those decisions (completion gate, final report).                         *)
PublishedCase ==
  /\ lifecycle \in {"FINALIZING", "COMPLETE"} =>
       OpenQuestions = {} /\ \A r \in Rules : RuleIsDecided(r)
  /\ report # None <=> lifecycle = "COMPLETE"
  /\ report # None =>
       /\ report.caseRevision = caseRevision
       /\ \A r \in Rules : report.basis[r] = Len(decisions[r])

(* A rule has at most one accepted decision, the last one submitted, and it *)
(* reasoned over the current case; a rule counts as RESOLVED exactly while  *)
(* it has one (submit, supersede, and the three ways to invalidate).        *)
AcceptedIsCurrent ==
  \A r \in Rules :
    /\ \A i \in AcceptedIndices(r) :
         /\ i = Len(decisions[r])
         /\ decisions[r][i].caseRevision = caseRevision
         /\ decisions[r][i].basis = caseRevision
    /\ coverage[r] = "RESOLVED" <=> AcceptedIndices(r) # {}

(* The lifecycle waits for the customer exactly while a question is open:   *)
(* the last answer always releases it, and nothing else does.               *)
WaitsForOpenQuestion ==
  lifecycle \in {"WAITING_FOR_HUMAN", "BLOCKED"} <=> OpenQuestions # {}

(* A rule awaits input exactly while a question about it is open.          *)
RuleAwaitsQuestion ==
  \A r \in Rules :
    coverage[r] = "WAITING_FOR_INPUT" <=>
      \E q \in OpenQuestions : RuleOf[q] = r

(* Once an interrupt is settled, every open question can be answered: each  *)
(* is bound to the checkpoint the thread is bound to.                       *)
InterruptIsAnswerable ==
  execution.state = "INTERRUPTED" => \A q \in OpenQuestions : Answerable(q)

(* A paused assessment can be continued: the Stop was acknowledged at a     *)
(* bound checkpoint, by the execution that is paused, with no question open. *)
PausedIsResumable ==
  lifecycle = "PAUSED" =>
    /\ ResumeIsValid
    /\ turn.state \in {"STOPPED", "RESUME_REQUESTED"}
    /\ lease = NoLease

(* A worker that still holds its lease when it settles a pause is never     *)
(* refused: the API did not leave ACTIVE between the Stop it observed and   *)
(* the settlement (get-root-control shows a control only while ACTIVE).     *)
PauseIsNeverRefused ==
  \A w \in Workers :
    /\ worker[w].phase = "settling"
    /\ worker[w].settlement.outcome = "PAUSED"
    /\ Authorized(w)
    => PauseIsValid(worker[w].settlement)

(* Where no lease expires, no reply is lost and no question is repeated, a  *)
(* worker that holds its lease when it settles an interrupt is never        *)
(* refused either.                                                         *)
InterruptIsNeverRefused ==
  \A w \in Workers :
    /\ worker[w].phase = "settling"
    /\ worker[w].settlement.outcome = "INTERRUPTED"
    /\ Authorized(w)
    => InterruptIsValid(worker[w].settlement)

(* A worker that takes over an answered interrupt may resume it: its claim  *)
(* names the checkpoint the interrupt waits at.  It needs commands that     *)
(* come on time: after a crash right behind the resuming claim an expiry    *)
(* leads to a new execution, whose claim names none.                       *)
AnsweredWaitIsResumed ==
  \A w \in Workers :
    /\ worker[w].phase = "claimed" /\ Authorized(w)
    /\ native.wait.kind = "HUMAN"
    /\ \A q \in native.wait.questions : requests[q].status = "RESOLVED"
    => worker[w].expected = native.checkpoint

(* A lease authorizes the execution it was issued for: a worker that lost   *)
(* its lease never acts on the execution that followed.                     *)
LeaseNamesExecution ==
  \A w \in Workers :
    worker[w].phase # "idle" /\ Authorized(w) => worker[w].exec = execution.id

(* The control turn tells the truth about the execution: it can be stopped  *)
(* exactly while it runs and continued exactly while it is paused.          *)
TurnMirrorsExecution ==
  CASE execution.state = "QUEUED"  -> turn.state = "NONE"
    [] execution.state = "RUNNING" ->
         turn.state \in {"RUNNING", "STOP_REQUESTED"}
    [] execution.state = "PAUSED"  ->
         turn.state \in {"STOPPED", "RESUME_REQUESTED"}
    [] OTHER -> turn.state = "COMPLETED"

-----------------------------------------------------------------------------
(* Action properties.                                                      *)

(* What each lifecycle guard claims of the state a transition leads to.     *)
(* Handlers pass guards as verified; the coordinator does not look at them. *)
GuardHolds(guard) ==
  CASE guard = "ALL_CHECKPOINT_BLOCKERS_RESOLVED" -> OpenQuestions = {}
    [] guard = OpenMaterial -> OpenQuestions # {}
    [] guard = Unobtainable -> blocker \in OpenQuestions
    [] guard = SafePause -> execution.state = "PAUSED" /\ bound # 0
    [] guard = GatePassed -> \A r \in Rules : RuleIsDecided(r)
    [] guard = Persisted -> report # None
    [] OTHER -> TRUE

(* Every lifecycle change is an edge of the table and the guards of that    *)
(* edge are true when its transaction commits; a human blocker is left only *)
(* when its own question is resolved.                                       *)
GuardsAreTrue ==
  [][lifecycle' # lifecycle =>
       \E edge \in LifecycleTransitions :
         /\ edge[1] = lifecycle /\ edge[2] = lifecycle'
         /\ \A guard \in edge[3] : GuardHolds(guard)'
         /\ NewInput \in edge[3] => requests'[blocker].status = "RESOLVED"]_vars

(* The runtime authority writes execution states without consulting their   *)
(* table: what it writes follows the table all the same, a new execution    *)
(* starts as QUEUED, and only a finished or abandoned one is replaced.      *)
LegalExecution ==
  [][execution' # execution =>
       IF execution'.id = execution.id
       THEN <<execution.state, execution'.state>> \in ExecutionTransitions
       ELSE /\ execution'.id = execution.id + 1
            /\ execution'.state = "RUNNING"
            /\ execution.state \notin {"INTERRUPTED", "PAUSED"}
            /\ execution.state = "RUNNING" => ~lease.live]_vars

(* Becoming ACTIVE is never silent: the transaction also asks for the Root, *)
(* or is itself the Root's claim.  In particular the idempotency key of the *)
(* human resume never swallows a wake-up that is still needed.              *)
NoWakeUpLost ==
  [][lifecycle # "ACTIVE" /\ lifecycle' = "ACTIVE" =>
       commands' > commands \/ execution'.state = "RUNNING"]_vars

(* A published assessment is frozen: no late worker, answer or control      *)
(* changes its case, its questions or its report.                           *)
PublishedIsFrozen ==
  [][lifecycle = "COMPLETE" =>
       UNCHANGED <<lifecycle, blocker, caseRows, requests, report>>]_vars

-----------------------------------------------------------------------------
(* Liveness, under Fairness and without mishaps.                           *)

(* A Stop is answered: its turn stops at a checkpoint, or completes first.  *)
StopSettles ==
  turn.state = "STOP_REQUESTED" ~> turn.state \in {"STOPPED", "COMPLETED"}

(* A continued assessment runs again.                                      *)
ContinueRuns ==
  turn.state = "RESUME_REQUESTED" ~> execution.state = "RUNNING"

(* The last answer sets the interrupted execution running again.           *)
AnswerRuns ==
  lifecycle = "ACTIVE" /\ execution.state = "INTERRUPTED"
    ~> execution.state = "RUNNING"

-----------------------------------------------------------------------------
(* The owner's view of the assessment.                                     *)
JourneyPhase ==
  CASE lifecycle = "PREPARING"  -> "preparing"
    [] lifecycle = "ACTIVE"     -> "investigating"
    [] lifecycle \in {"WAITING_FOR_HUMAN", "BLOCKED"} -> "asking"
    [] lifecycle = "PAUSED"     -> "paused"
    [] lifecycle = "FINALIZING" -> "closing"
    [] lifecycle = "COMPLETE"   -> "published"
    [] OTHER -> "none"

Journey == INSTANCE AssessmentJourney WITH
  phase    <- JourneyPhase,
  open     <- OpenQuestions,
  answered <- {q \in Questions : requests[q].status = "RESOLVED"},
  decided  <- {r \in Rules : coverage[r] = "RESOLVED"}

(* Every step of the system is a step the owner was promised, or one that   *)
(* the owner cannot see.                                                   *)
KeepsJourney == Journey!Spec
=============================================================================
