------------------------ MODULE AssessmentRoot_proofs ------------------------
(***************************************************************************)
(* Type correctness of AssessmentRoot for every value of the constants.     *)
(*                                                                         *)
(* The worker's actions wrap the API's handlers.  DatabaseStep lists what a *)
(* step of the system may do to PostgreSQL, handler by handler, without the *)
(* workers; an invariant of the database is then proved handler by handler. *)
(***************************************************************************)
EXTENDS AssessmentRoot, TLAPS

(* The claim together with the command it consumes.                        *)
ClaimStep(w) ==
  /\ ClaimRoot(w)
  /\ commands > 0 /\ commands' = commands - 1
  /\ UNCHANGED resumeKeys

(* Commands that come and go without a handler: skipped, duplicated,        *)
(* redelivered.                                                            *)
CommandStep ==
  /\ commands' = commands + 1 \/ (commands > 0 /\ commands' = commands - 1)
  /\ UNCHANGED <<assessmentRow, runtimeRow, turnRow, caseRows, requests,
                 report, resumeKeys>>

LeaseStep ==
  /\ lease.live
  /\ lease' = [lease EXCEPT !.live = FALSE]
  /\ UNCHANGED <<assessmentRow, execution, bound, turnRow, caseRows, requests,
                 report, outboxRows>>

SettleStep(w, settlement) ==
  settlement.outcome # "NONE" /\ FinishExecution(w, settlement)

OwnerDatabaseStep ==
  \/ CompleteRepositorySetup
  \/ RequestStop
  \/ RequestResume
  \/ \E q \in Questions, known \in Nat, shown \in Nat :
       \/ AnswerHumanRequest(q, shown, known)
       \/ DoesNotKnow(q, shown, known)

RuntimeDatabaseStep ==
  \/ CommandStep
  \/ LeaseStep
  \/ \E w \in Workers : ClaimStep(w)
  \/ \E w \in Workers, settlement \in Settlement : SettleStep(w, settlement)

RootDatabaseStep ==
  \E w \in Workers :
    \/ \E r \in Rules : StartRuleInvestigation(w, r)
    \/ \E known \in Nat : AcceptFact(w, known)
    \/ \E r \in Rules, packet \in Nat, known \in Nat :
         SubmitRuleDecision(w, r, packet, known)
    \/ \E q \in Questions, known \in Nat :
         Authorized(w) /\ CreateHumanRequest(q, known)
    \/ \E q \in Questions, known \in Nat, shown \in Nat :
         ReportUnresolvableHumanFact(w, q, shown, known)
    \/ RequestFinalization(w)
    \/ SubmitFinalReport(w)

DatabaseStep ==
  \/ UNCHANGED database
  \/ OwnerDatabaseStep
  \/ RuntimeDatabaseStep
  \/ RootDatabaseStep

(* A worker that settles has an outcome to report.                         *)
SettlesAnOutcome ==
  \A w \in Workers :
    worker[w].phase = "settling" => worker[w].settlement.outcome # "NONE"

TypeInv == TypeOK /\ SettlesAnOutcome

-----------------------------------------------------------------------------
(* Every step of the system is one of these on the database.               *)
LEMMA StepOfDatabase == TypeInv /\ [Next]_vars => DatabaseStep
<1> SUFFICES ASSUME TypeInv, [Next]_vars PROVE DatabaseStep
  OBVIOUS
<1> USE DEF TypeInv, TypeOK
<1>1. CASE UNCHANGED vars
  BY <1>1 DEF vars, DatabaseStep
<1>2. CASE OwnerStep
  <2>1. \A q \in Questions : 0..requests[q].revision \subseteq Nat
    BY DEF DatabaseTypeOK, HumanRequest
  <2>2. 0..caseRevision \subseteq Nat
    BY DEF DatabaseTypeOK
  <2> QED
    BY <1>2, <2>1, <2>2 DEF OwnerStep, SetUp, Stop, Continue, Answer, AnswerUnknown,
       DatabaseStep, OwnerDatabaseStep
<1>3. CASE MishapStep
  <2>1. 0..caseRevision \subseteq Nat
    BY DEF DatabaseTypeOK
  <2>2. ASSUME NEW w \in Workers, LoseReply(w) PROVE RootDatabaseStep
    BY <2>1, <2>2 DEF LoseReply, RootDatabaseStep
  <2>3. ASSUME NEW w \in Workers, RepeatAnsweredQuestion(w)
        PROVE UNCHANGED database
    BY <2>3 DEF RepeatAnsweredQuestion, OpenHumanRequest, CreateHumanRequest,
       ReplayHumanRequest
  <2>4. ASSUME NEW w \in Workers, Crash(w) PROVE CommandStep
    BY <2>4 DEF Crash, CommandStep
  <2>5. CASE LeaseExpires
    BY <2>5 DEF LeaseExpires, LeaseStep, DatabaseStep, RuntimeDatabaseStep
  <2>6. CASE DuplicateCommand
    BY <2>6 DEF DuplicateCommand, CommandStep, DatabaseStep,
       RuntimeDatabaseStep
  <2> QED
    BY <1>3, <2>2, <2>3, <2>4, <2>5, <2>6
    DEF MishapStep, DatabaseStep, RuntimeDatabaseStep
<1>4. ASSUME NEW w \in Workers, ToolCall(w) PROVE DatabaseStep
  <2>1. 0..caseRevision \subseteq Nat
    BY DEF DatabaseTypeOK
  <2>2. \A q \in Questions : 0..requests[q].revision \subseteq Nat
    BY DEF DatabaseTypeOK, HumanRequest
  <2>3. \A r \in Rules : 0..Len(decisions[r]) \subseteq Nat
    OBVIOUS
  <2>4. CASE CallStartInvestigation(w)
    BY <2>4 DEF CallStartInvestigation, DatabaseStep, RootDatabaseStep
  <2>5. CASE CallAcceptFact(w)
    BY <2>5, <2>1 DEF CallAcceptFact, DatabaseStep, RootDatabaseStep
  <2>6. CASE CallSubmitDecision(w)
    BY <2>6, <2>1, <2>3 DEF CallSubmitDecision, DatabaseStep,
       RootDatabaseStep
  <2>7. CASE CallOpenHumanRequest(w)
    BY <2>7, <2>1 DEF CallOpenHumanRequest, OpenHumanRequest,
       ReplayHumanRequest, DatabaseStep, RootDatabaseStep
  <2>8. CASE CallReportUnresolvable(w)
    <3>1. worker[w].asked \subseteq Questions
      BY DEF WorkerTypeOK, WorkerState
    <3> QED
      BY <2>8, <2>1, <2>2, <3>1 DEF CallReportUnresolvable, DatabaseStep,
         RootDatabaseStep
  <2>9. CASE CallRequestFinalization(w)
    BY <2>9 DEF CallRequestFinalization, DatabaseStep, RootDatabaseStep
  <2>10. CASE CallSubmitFinalReport(w)
    BY <2>10 DEF CallSubmitFinalReport, DatabaseStep, RootDatabaseStep
  <2> QED
    BY <1>4, <2>4, <2>5, <2>6, <2>7, <2>8, <2>9, <2>10 DEF ToolCall
<1>5. ASSUME NEW w \in Workers, RunStep(w) PROVE DatabaseStep
  <2>1. CASE Settle(w)
    <3>1. worker[w].settlement \in Settlement
      BY DEF WorkerTypeOK, WorkerState
    <3>2. worker[w].settlement.outcome # "NONE"
      BY <2>1 DEF Settle, SettlesAnOutcome
    <3> QED
      BY <2>1, <3>1, <3>2 DEF Settle, DatabaseStep, RuntimeDatabaseStep,
         SettleStep
  <2>2. CASE StartRun(w)
    BY <2>2 DEF StartRun, DatabaseStep
  <2>3. CASE AbandonRun(w) \/ CommitResumed(w) \/ CommitSuperstep(w)
    BY <2>3 DEF AbandonRun, CommitResumed, CommitSuperstep, DatabaseStep
  <2>4. CASE ObserveStop(w) \/ PersistHumanWait(w) \/ EndRun(w) \/ FailRun(w)
    BY <2>4 DEF ObserveStop, PersistHumanWait, EndRun, FailRun, DatabaseStep
  <2> QED
    BY <1>5, <2>1, <2>2, <2>3, <2>4 DEF RunStep
<1>6. ASSUME NEW w \in Workers, TakeCommand(w) \/ SkipCommand(w)
      PROVE DatabaseStep
  BY <1>6 DEF TakeCommand, SkipCommand, ClaimStep, CommandStep, DatabaseStep,
     RuntimeDatabaseStep
<1> QED
  BY <1>1, <1>2, <1>3, <1>4, <1>5, <1>6 DEF Next, WorkerStep

-----------------------------------------------------------------------------
(* The histories: invalidating, superseding and reopening change states of  *)
(* records and neither add nor remove any.                                 *)
LEMMA HistoryType ==
  ASSUME NEW history \in Seq(DecisionRecord), NEW revision \in Nat
  PROVE  /\ Invalidated(history, revision) \in Seq(DecisionRecord)
         /\ Len(Invalidated(history, revision)) = Len(history)
         /\ Superseded(history) \in Seq(DecisionRecord)
         /\ Len(Superseded(history)) = Len(history)
         /\ Reopened(history) \in Seq(DecisionRecord)
         /\ Len(Reopened(history)) = Len(history)
<1>1. DOMAIN history = 1..Len(history) /\ Len(history) \in Nat
  OBVIOUS
<1>2. \A i \in 1..Len(history) : history[i] \in DecisionRecord
  OBVIOUS
<1>3. \A i \in 1..Len(history) :
        /\ Invalidated(history, revision)[i] \in DecisionRecord
        /\ Superseded(history)[i] \in DecisionRecord
        /\ Reopened(history)[i] \in DecisionRecord
  BY <1>1, <1>2 DEF Invalidated, Superseded, Reopened, DecisionRecord
<1>4. /\ Invalidated(history, revision) \in [1..Len(history) -> DecisionRecord]
      /\ Superseded(history) \in [1..Len(history) -> DecisionRecord]
      /\ Reopened(history) \in [1..Len(history) -> DecisionRecord]
  BY <1>1, <1>3 DEF Invalidated, Superseded, Reopened
<1> QED
  BY <1>1, <1>4

(* The rows keep their types through every step.                           *)
LEMMA DatabaseTyped == DatabaseTypeOK /\ DatabaseStep => DatabaseTypeOK'
<1> SUFFICES ASSUME DatabaseTypeOK, DatabaseStep PROVE DatabaseTypeOK'
  OBVIOUS
<1> USE DEF database, assessmentRow, runtimeRow, turnRow, caseRows, outboxRows,
            Transition
<1>1. CASE UNCHANGED database
  BY <1>1 DEF DatabaseTypeOK
<1>2. CASE OwnerDatabaseStep
  <2>1. CASE CompleteRepositorySetup
    BY <2>1 DEF CompleteRepositorySetup, DatabaseTypeOK, LifecycleStates
  <2>2. CASE RequestStop
    BY <2>2 DEF RequestStop, DatabaseTypeOK, TurnStates
  <2>3. CASE RequestResume
    BY <2>3 DEF RequestResume, DatabaseTypeOK, TurnStates
  <2>4. ASSUME NEW q \in Questions, NEW known \in Nat, NEW shown \in Nat,
               AnswerHumanRequest(q, shown, known)
        PROVE  DatabaseTypeOK'
    <3>1. CoverageAnswered(q) \in [Rules -> ResolutionStates]
      BY QuestionsAssumption
      DEF CoverageAnswered, CoverageAfterInvalidation, DatabaseTypeOK,
          ResolutionStates
    <3>2. DecisionsAfterInvalidation(caseRevision + 1)
            \in [Rules -> Seq(DecisionRecord)]
      BY HistoryType DEF DecisionsAfterInvalidation, DatabaseTypeOK
    <3>4. commands' \in Nat /\ resumeKeys' \in SUBSET Nat
      <4>1. bound \in Nat /\ commands \in Nat /\ resumeKeys \in SUBSET Nat
        BY DEF DatabaseTypeOK
      <4>2. CASE ResumesRoot(q)
        <5>1. EnqueueResume(bound)
          BY <2>4, <4>2 DEF AnswerHumanRequest
        <5>2. commands' \in Nat
          BY <4>1, <5>1 DEF EnqueueResume
        <5>3. resumeKeys' \in SUBSET Nat
          BY <4>1, <5>1 DEF EnqueueResume
        <5> QED
          BY <5>2, <5>3
      <4>3. CASE ~ResumesRoot(q)
        BY <2>4, <4>1, <4>3 DEF AnswerHumanRequest
      <4> QED
        BY <4>2, <4>3
    <3>5. lifecycle' \in LifecycleStates /\ blocker' \in Questions \cup {None}
      BY <2>4 DEF AnswerHumanRequest, DatabaseTypeOK, LifecycleStates
    <3>3. RequestsAnswered(q) \in [Questions -> HumanRequest]
      <4>1. requests[q] \in HumanRequest
        BY DEF DatabaseTypeOK
      <4>2. [status |-> "RESOLVED", checkpoint |-> requests[q].checkpoint,
             revision |-> requests[q].revision + 1] \in HumanRequest
        BY <4>1 DEF HumanRequest
      <4> QED
        BY <4>2 DEF RequestsAnswered, DatabaseTypeOK
    <3> QED
      BY <2>4, <3>1, <3>2, <3>3, <3>4, <3>5
      DEF AnswerHumanRequest, DatabaseTypeOK
  <2>5. ASSUME NEW q \in Questions, NEW known \in Nat, NEW shown \in Nat,
               DoesNotKnow(q, shown, known)
        PROVE  DatabaseTypeOK'
    <3>1. requests[q] \in HumanRequest
      BY DEF DatabaseTypeOK
    <3>2. [requests[q] EXCEPT !.revision = @ + 1] \in HumanRequest
      BY <3>1 DEF HumanRequest
    <3> QED
      BY <2>5, <3>2 DEF DoesNotKnow, DatabaseTypeOK
  <2> QED
    BY <1>2, <2>1, <2>2, <2>3, <2>4, <2>5 DEF OwnerDatabaseStep
<1>3. CASE RuntimeDatabaseStep
  <2>1. CASE CommandStep
    BY <2>1 DEF CommandStep, DatabaseTypeOK
  <2>2. CASE LeaseStep
    BY <2>2 DEF LeaseStep, DatabaseTypeOK
  <2>3. ASSUME NEW w \in Workers, ClaimStep(w) PROVE DatabaseTypeOK'
    <3>1. execution' \in [id : Nat, state : ExecutionStates]
      BY <2>3 DEF ClaimStep, ClaimRoot, ClaimedExecution, DatabaseTypeOK,
         ExecutionStates
    <3>2. /\ lease' \in [holder : Workers \cup {None}, live : BOOLEAN]
          /\ turn' \in [state : TurnStates, request : Nat]
      BY <2>3 DEF ClaimStep, ClaimRoot, ClaimedTurn, DatabaseTypeOK,
         TurnStates
    <3>3. commands' \in Nat
      BY <2>3 DEF ClaimStep, DatabaseTypeOK
    <3> QED
      BY <2>3, <3>1, <3>2, <3>3
      DEF ClaimStep, ClaimRoot, DatabaseTypeOK, LifecycleStates
  <2>4. ASSUME NEW w \in Workers, NEW settlement \in Settlement,
               SettleStep(w, settlement)
        PROVE  DatabaseTypeOK'
    <3>1. execution' \in [id : Nat, state : ExecutionStates]
      BY <2>4 DEF SettleStep, FinishExecution, Settlement, DatabaseTypeOK,
         ExecutionStates
    <3>2. /\ lease' \in [holder : Workers \cup {None}, live : BOOLEAN]
          /\ bound' \in Nat
          /\ turn' \in [state : TurnStates, request : Nat]
      BY <2>4 DEF SettleStep, FinishExecution, Settlement, DatabaseTypeOK,
         NoLease, BindingAfter, TurnAfter, TurnStates
    <3>3. requests' \in [Questions -> HumanRequest]
      BY <2>4 DEF SettleStep, FinishExecution, Settlement, DatabaseTypeOK,
         HumanRequest
    <3> QED
      BY <2>4, <3>1, <3>2, <3>3
      DEF SettleStep, FinishExecution, DatabaseTypeOK, LifecycleStates
  <2> QED
    BY <1>3, <2>1, <2>2, <2>3, <2>4 DEF RuntimeDatabaseStep
<1>4. CASE RootDatabaseStep
  <2> PICK w \in Workers : RootDatabaseStep!(w)
    BY <1>4 DEF RootDatabaseStep
  <2>1. ASSUME NEW r \in Rules, StartRuleInvestigation(w, r)
        PROVE  DatabaseTypeOK'
    BY <2>1 DEF StartRuleInvestigation, DatabaseTypeOK, ResolutionStates
  <2>2. ASSUME NEW known \in Nat, AcceptFact(w, known) PROVE DatabaseTypeOK'
    <3>1. CoverageAfterInvalidation(caseRevision + 1)
            \in [Rules -> ResolutionStates]
      BY DEF CoverageAfterInvalidation, DatabaseTypeOK, ResolutionStates
    <3>2. DecisionsAfterInvalidation(caseRevision + 1)
            \in [Rules -> Seq(DecisionRecord)]
      BY HistoryType DEF DecisionsAfterInvalidation, DatabaseTypeOK
    <3> QED
      BY <2>2, <3>1, <3>2 DEF AcceptFact, DatabaseTypeOK
  <2>3. ASSUME NEW r \in Rules, NEW packet \in Nat, NEW known \in Nat,
               SubmitRuleDecision(w, r, packet, known)
        PROVE  DatabaseTypeOK'
    <3>1. Superseded(decisions[r]) \in Seq(DecisionRecord)
      BY HistoryType DEF DatabaseTypeOK
    <3>2. [caseRevision |-> caseRevision, basis |-> packet,
           state |-> "ACCEPTED"] \in DecisionRecord
      BY DEF DecisionRecord, DatabaseTypeOK
    <3> QED
      BY <2>3, <3>1, <3>2
      DEF SubmitRuleDecision, DatabaseTypeOK, ResolutionStates
  <2>4. ASSUME NEW q \in Questions, NEW known \in Nat,
               CreateHumanRequest(q, known)
        PROVE  DatabaseTypeOK'
    <3>1. DecisionsReopened(RuleOf[q]) \in [Rules -> Seq(DecisionRecord)]
      <4>1. decisions[RuleOf[q]] \in Seq(DecisionRecord)
        BY QuestionsAssumption DEF DatabaseTypeOK
      <4>2. Reopened(decisions[RuleOf[q]]) \in Seq(DecisionRecord)
        BY <4>1, HistoryType DEF DatabaseTypeOK
      <4> QED
        BY <4>2 DEF DecisionsReopened, DatabaseTypeOK
    <3>2. CoverageAwaiting(RuleOf[q]) \in [Rules -> ResolutionStates]
      BY QuestionsAssumption
      DEF CoverageAwaiting, DatabaseTypeOK, ResolutionStates
    <3>3. requests' \in [Questions -> HumanRequest]
      BY <2>4 DEF CreateHumanRequest, HumanRequest, DatabaseTypeOK
    <3> QED
      BY <2>4, <3>1, <3>2, <3>3
      DEF CreateHumanRequest, DatabaseTypeOK, LifecycleStates
  <2>5. ASSUME NEW q \in Questions, NEW known \in Nat, NEW shown \in Nat,
               ReportUnresolvableHumanFact(w, q, shown, known)
        PROVE  DatabaseTypeOK'
    BY <2>5 DEF ReportUnresolvableHumanFact, DatabaseTypeOK, LifecycleStates
  <2>6. CASE RequestFinalization(w)
    BY <2>6 DEF RequestFinalization, DatabaseTypeOK, LifecycleStates
  <2>7. CASE SubmitFinalReport(w)
    BY <2>7 DEF SubmitFinalReport, FinalReport, DatabaseTypeOK,
       LifecycleStates
  <2> QED
    BY <2>1, <2>2, <2>3, <2>4, <2>5, <2>6, <2>7
<1> QED
  BY <1>1, <1>2, <1>3, <1>4 DEF DatabaseStep

-----------------------------------------------------------------------------
(* The two ways a run changes keep its type.                               *)
LEMMA RunMoves ==
  ASSUME WorkerTypeOK, NEW w \in Workers,
         NEW phase \in {"resuming", "running"}, NEW base \in Nat,
         NEW asked \in SUBSET Questions, GoesOn(w, phase, base, asked)
  PROVE  worker' \in [Workers -> WorkerState]
<1>1. worker[w] \in WorkerState
  BY DEF WorkerTypeOK
<1>2. Unsettled \in Settlement
  BY DEF Unsettled, Settlement
<1>3. [phase |-> phase, exec |-> worker[w].exec,
       expected |-> worker[w].expected, base |-> base, asked |-> asked,
       settlement |-> Unsettled] \in WorkerState
  BY <1>1, <1>2 DEF WorkerState
<1> QED
  BY <1>3 DEF GoesOn, WorkerTypeOK

(* A run that moves to its settlement keeps the workers' type.             *)
LEMMA RunSettles ==
  ASSUME WorkerTypeOK, NEW w \in Workers, NEW settlement \in Settlement,
         Settling(w, settlement)
  PROVE  worker' \in [Workers -> WorkerState]
<1>1. worker[w] \in WorkerState
  BY DEF WorkerTypeOK
<1>2. [phase |-> "settling", exec |-> worker[w].exec,
       expected |-> worker[w].expected, base |-> worker[w].base,
       asked |-> worker[w].asked, settlement |-> settlement] \in WorkerState
  BY <1>1 DEF WorkerState
<1> QED
  BY <1>2 DEF Settling, WorkerTypeOK

(* What the workers report is a settlement with an outcome.                *)
LEMMA SettlementTypes ==
  /\ \A state \in {"SUCCEEDED", "FAILED"} :
       Outcome(state) \in Settlement /\ Outcome(state).outcome # "NONE"
  /\ \A checkpoint \in Nat, control \in Nat :
       /\ Paused(checkpoint, control) \in Settlement
       /\ Paused(checkpoint, control).outcome # "NONE"
  /\ \A checkpoint \in Nat, questions \in SUBSET Questions :
       /\ Interrupted(checkpoint, questions) \in Settlement
       /\ Interrupted(checkpoint, questions).outcome # "NONE"
BY DEF Outcome, Unsettled, Paused, Interrupted, Settlement

(* The workers, the thread and the outcomes keep their types.              *)
LEMMA WorkersTyped ==
  TypeInv /\ [Next]_vars => WorkerTypeOK' /\ SettlesAnOutcome'
<1> SUFFICES ASSUME TypeInv, [Next]_vars
             PROVE  WorkerTypeOK' /\ SettlesAnOutcome'
  OBVIOUS
<1> USE DEF TypeInv, TypeOK
<1>a. /\ native.checkpoint \in Nat
      /\ native.wait \in Wait
      /\ NoWait \in Wait
      /\ \A w \in Workers : worker[w] \in WorkerState
  BY DEF WorkerTypeOK, Wait, NoWait
<1>b. \A w \in Workers, settlement \in Settlement :
        Settling(w, settlement) /\ settlement.outcome # "NONE" =>
          worker' \in [Workers -> WorkerState] /\ SettlesAnOutcome'
  <2> TAKE w \in Workers, settlement \in Settlement
  <2> HAVE Settling(w, settlement) /\ settlement.outcome # "NONE"
  <2>1. worker' \in [Workers -> WorkerState]
    BY RunSettles
  <2>2. \A other \in Workers :
          worker'[other] = IF other = w
                           THEN [phase |-> "settling", exec |-> worker[w].exec,
                                 expected |-> worker[w].expected,
                                 base |-> worker[w].base,
                                 asked |-> worker[w].asked,
                                 settlement |-> settlement]
                           ELSE worker[other]
    BY DEF Settling, WorkerTypeOK
  <2> QED
    BY <2>1, <2>2 DEF SettlesAnOutcome
<1>c. \A w \in Workers, base \in Nat, asked \in SUBSET Questions,
         phase \in {"resuming", "running"} :
        GoesOn(w, phase, base, asked) =>
          worker' \in [Workers -> WorkerState] /\ SettlesAnOutcome'
  <2> TAKE w \in Workers, base \in Nat, asked \in SUBSET Questions,
           phase \in {"resuming", "running"}
  <2> HAVE GoesOn(w, phase, base, asked)
  <2>1. worker' \in [Workers -> WorkerState]
    BY RunMoves
  <2>2. \A other \in Workers :
          /\ other = w => worker'[other].phase = phase
          /\ other # w => worker'[other] = worker[other]
    BY DEF GoesOn, WorkerTypeOK
  <2> QED
    BY <2>1, <2>2 DEF SettlesAnOutcome
<1>d. Idle \in WorkerState
  BY DEF Idle, WorkerState, Unsettled, Settlement
<1>e. ASSUME NEW w \in Workers, worker' = [worker EXCEPT ![w] = Idle]
      PROVE  worker' \in [Workers -> WorkerState] /\ SettlesAnOutcome'
  BY <1>d, <1>e DEF WorkerTypeOK, SettlesAnOutcome, Idle
<1>f. OpenQuestions \in SUBSET Questions
  BY DEF OpenQuestions
<1>1. CASE UNCHANGED workerVars
  BY <1>1 DEF workerVars, WorkerTypeOK, SettlesAnOutcome
<1>2. ASSUME NEW w \in Workers, TakeCommand(w)
      PROVE  WorkerTypeOK' /\ SettlesAnOutcome'
  <2>1. ClaimedExecution \in Nat /\ ClaimedCheckpoint \in Nat
    BY DEF ClaimedExecution, ClaimedCheckpoint, DatabaseTypeOK
  <2>2. [phase |-> "claimed", exec |-> ClaimedExecution,
         expected |-> ClaimedCheckpoint, base |-> 0, asked |-> {},
         settlement |-> Unsettled] \in WorkerState
    BY <2>1 DEF WorkerState, Unsettled, Settlement
  <2>3. worker' \in [Workers -> WorkerState] /\ SettlesAnOutcome'
    BY <1>2, <2>2 DEF TakeCommand, WorkerTypeOK, SettlesAnOutcome
  <2> QED
    BY <1>2, <2>3 DEF TakeCommand, WorkerTypeOK
<1>3. ASSUME NEW w \in Workers, StartRun(w)
      PROVE  WorkerTypeOK' /\ SettlesAnOutcome'
  <2> DEFINE Ok == worker' \in [Workers -> WorkerState] /\ SettlesAnOutcome'
  <2>1. native' \in [checkpoint : Nat, wait : Wait] /\ mishaps' \in Nat
    BY <1>3, <1>a DEF StartRun, WorkerTypeOK
  <2>2. native'.checkpoint \in Nat
    BY <2>1
  <2>3. ASSUME NEW state \in {"SUCCEEDED", "FAILED"},
               Settling(w, Outcome(state))
        PROVE  Ok
    BY <2>3, <1>b, SettlementTypes
  <2>4. ASSUME Settling(w, Paused(native.checkpoint, native.wait.control))
        PROVE  Ok
    <3>1. native.wait.control \in Nat
      BY <1>a DEF Wait
    <3> QED
      BY <2>4, <3>1, <1>a, <1>b, SettlementTypes
  <2>5. ASSUME Settling(w, Interrupted(native.checkpoint,
                                       native.wait.questions))
        PROVE  Ok
    <3>1. native.wait.questions \in SUBSET Questions
      BY <1>a DEF Wait
    <3> QED
      BY <2>5, <3>1, <1>a, <1>b, SettlementTypes
  <2>6. ASSUME GoesOn(w, "resuming", native.checkpoint, {}) PROVE Ok
    BY <2>6, <1>a, <1>c
  <2>7. ASSUME NEW replayed \in {{}, OpenQuestions},
               GoesOn(w, "running", native'.checkpoint, replayed)
        PROVE  Ok
    BY <2>7, <2>2, <1>c, <1>f
  <2>8. Ok
    BY <1>3, <2>3, <2>4, <2>5, <2>6, <2>7 DEF StartRun
  <2> QED
    BY <2>1, <2>8 DEF WorkerTypeOK
<1>4. ASSUME NEW w \in Workers, CommitResumed(w) \/ CommitSuperstep(w)
      PROVE  WorkerTypeOK' /\ SettlesAnOutcome'
  <2>1. GoesOn(w, "running", native.checkpoint + 1, {})
    BY <1>4 DEF CommitResumed, CommitSuperstep, ThreadAdvances
  <2>2. worker' \in [Workers -> WorkerState] /\ SettlesAnOutcome'
    BY <2>1, <1>a, <1>c
  <2>3. native' \in [checkpoint : Nat, wait : Wait] /\ mishaps' \in Nat
    BY <1>4, <1>a DEF CommitResumed, CommitSuperstep, ThreadAdvances,
       WorkerTypeOK
  <2> QED
    BY <2>2, <2>3 DEF WorkerTypeOK
<1>5. ASSUME NEW w \in Workers, ObserveStop(w) \/ PersistHumanWait(w)
      PROVE  WorkerTypeOK' /\ SettlesAnOutcome'
  <2>1. worker[w].asked \in SUBSET Questions /\ worker[w].exec \in Nat
    BY <1>a DEF WorkerState
  <2>2. turn.request \in Nat
    BY DEF DatabaseTypeOK
  <2>3. worker' \in [Workers -> WorkerState] /\ SettlesAnOutcome'
    BY <1>5, <1>a, <1>b, <2>1, <2>2, SettlementTypes
    DEF ObserveStop, PersistHumanWait
  <2>4. \E wait \in Wait : Store(w, wait)
    BY <1>5, <2>1, <2>2 DEF ObserveStop, PersistHumanWait, Wait
  <2>5. native' \in [checkpoint : Nat, wait : Wait]
    BY <2>4, <1>a DEF Store, WorkerTypeOK
  <2> QED
    BY <1>5, <2>3, <2>5 DEF ObserveStop, PersistHumanWait, WorkerTypeOK
<1>6. ASSUME NEW w \in Workers, EndRun(w) \/ FailRun(w)
      PROVE  WorkerTypeOK' /\ SettlesAnOutcome'
  <2>1. \E state \in {"SUCCEEDED", "FAILED"} : Settling(w, Outcome(state))
    BY <1>6 DEF EndRun, FailRun
  <2>2. worker' \in [Workers -> WorkerState] /\ SettlesAnOutcome'
    BY <2>1, <1>b, SettlementTypes
  <2> QED
    BY <1>6, <2>2 DEF EndRun, FailRun, WorkerTypeOK
<1>7. ASSUME NEW w \in Workers, AbandonRun(w) \/ Settle(w) \/ Crash(w)
      PROVE  WorkerTypeOK' /\ SettlesAnOutcome'
  <2>1. worker' = [worker EXCEPT ![w] = Idle]
    BY <1>7 DEF AbandonRun, Settle, Crash
  <2>2. worker' \in [Workers -> WorkerState] /\ SettlesAnOutcome'
    BY <2>1, <1>e
  <2> QED
    BY <1>7, <2>2 DEF AbandonRun, Settle, Crash, Mishap, WorkerTypeOK
<1>8. ASSUME NEW w \in Workers,
             CallOpenHumanRequest(w) \/ RepeatAnsweredQuestion(w)
      PROVE  WorkerTypeOK' /\ SettlesAnOutcome'
  <2>1. PICK q \in Questions :
          worker' = [worker EXCEPT ![w].asked = @ \cup {q}]
    BY <1>8 DEF CallOpenHumanRequest, RepeatAnsweredQuestion
  <2>2. [worker[w] EXCEPT !.asked = @ \cup {q}] \in WorkerState
    BY <1>a DEF WorkerState
  <2>3. worker' \in [Workers -> WorkerState]
    BY <2>1, <2>2 DEF WorkerTypeOK
  <2>4. \A other \in Workers :
          /\ worker'[other].phase = worker[other].phase
          /\ worker'[other].settlement = worker[other].settlement
    BY <2>1, <1>a DEF WorkerTypeOK, WorkerState
  <2>5. SettlesAnOutcome'
    BY <2>4 DEF SettlesAnOutcome
  <2> QED
    BY <1>8, <2>3, <2>5
    DEF CallOpenHumanRequest, RepeatAnsweredQuestion, Mishap, WorkerTypeOK
<1>9. CASE LeaseExpires \/ DuplicateCommand \/ \E w \in Workers : LoseReply(w)
  BY <1>9 DEF LeaseExpires, DuplicateCommand, LoseReply, Mishap, WorkerTypeOK,
     SettlesAnOutcome
<1>10. CASE OwnerStep
  BY <1>1, <1>10 DEF OwnerStep, SetUp, Stop, Continue, Answer, AnswerUnknown
<1>11. ASSUME NEW w \in Workers, WorkerStep(w)
       PROVE  WorkerTypeOK' /\ SettlesAnOutcome'
  <2>1. CASE ToolCall(w)
    BY <1>1, <1>8, <2>1
    DEF ToolCall, CallStartInvestigation, CallAcceptFact, CallSubmitDecision,
        CallReportUnresolvable, CallRequestFinalization, CallSubmitFinalReport
  <2>2. CASE RunStep(w)
    BY <1>3, <1>4, <1>5, <1>6, <1>7, <2>2 DEF RunStep
  <2>3. CASE SkipCommand(w)
    BY <1>1, <2>3 DEF SkipCommand
  <2> QED
    BY <1>2, <1>11, <2>1, <2>2, <2>3 DEF WorkerStep
<1>12. CASE MishapStep
  BY <1>7, <1>8, <1>9, <1>12 DEF MishapStep
<1> QED
  BY <1>1, <1>10, <1>11, <1>12 DEF Next, vars, workerVars

-----------------------------------------------------------------------------
(* The created assessment and its idle workers are well typed.             *)
LEMMA TypeInvInit == Init => TypeInv
<1> SUFFICES ASSUME Init PROVE TypeInv
  OBVIOUS
<1>1. DatabaseTypeOK
  BY DEF Init, DatabaseInit, DatabaseTypeOK, NoLease, LifecycleStates,
     ExecutionStates, ResolutionStates, TurnStates, HumanRequest
<1>2. WorkerTypeOK /\ SettlesAnOutcome
  BY DEF Init, WorkerInit, WorkerTypeOK, SettlesAnOutcome, NoWait, Wait, Idle,
     WorkerState, Unsettled, Settlement
<1> QED
  BY <1>1, <1>2 DEF TypeInv, TypeOK

(* Every step keeps the types.                                             *)
LEMMA TypeInvNext == TypeInv /\ [Next]_vars => TypeInv'
BY StepOfDatabase, DatabaseTyped, WorkersTyped DEF TypeInv, TypeOK

(* Every row, the native thread and every worker hold a value of their type *)
(* in every reachable state, and a worker that settles reports an outcome.  *)
THEOREM TypeCorrect == Spec => []TypeInv
<1>1. Init => TypeInv
  BY TypeInvInit
<1>2. TypeInv /\ [Next]_vars => TypeInv'
  BY TypeInvNext
<1> QED
  BY <1>1, <1>2, PTL DEF Spec

(* The type invariant the runs check: every column of the schema, the native*)
(* thread and every worker hold a value of their type, whatever happens.   *)
THEOREM TypeOKAlways == Spec => []TypeOK
<1>1. TypeInv => TypeOK
  BY DEF TypeInv
<1> QED
  BY <1>1, TypeCorrect, PTL
=============================================================================
