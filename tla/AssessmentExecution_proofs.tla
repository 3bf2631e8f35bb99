---------------------- MODULE AssessmentExecution_proofs ----------------------
(***************************************************************************)
(* Who runs the Root, and how it is stopped and continued, for every number *)
(* of workers, questions, controls and mishaps: the lease, the execution,   *)
(* its control turn and the lifecycle never contradict each other.          *)
(***************************************************************************)
EXTENDS AssessmentCase_proofs

(* A lease is there exactly while an execution runs, and the first claim    *)
(* ends QUEUED for good.                                                   *)
LeaseAgrees ==
  /\ execution.state = "RUNNING" <=> lease.holder # None
  /\ lease.live => lease.holder # None
  /\ execution.state = "QUEUED" <=> execution.id = 0

(* A pause is bound to a checkpoint.                                       *)
PauseIsBound == execution.state = "PAUSED" => bound # 0

(* An interrupt is bound to a checkpoint and so are all open questions.    *)
InterruptIsBound ==
  execution.state = "INTERRUPTED" =>
    /\ bound # 0
    /\ \A q \in OpenQuestions : requests[q].checkpoint = bound

ExecutionInv ==
  /\ TurnMirrorsExecution
  /\ LeaseAgrees
  /\ PauseIsBound
  /\ InterruptIsBound

RunInv == CaseInv /\ ExecutionInv

-----------------------------------------------------------------------------
(* A handler that leaves the execution, the turn, the lease and the binding *)
(* alone, and asks questions only while an execution runs.                  *)
LEMMA ExecutionUntouched ==
  ASSUME ExecutionInv, UNCHANGED <<runtimeRow, turn>>,
         \/ execution.state # "INTERRUPTED"
         \/ /\ OpenQuestions' \subseteq OpenQuestions
            /\ \A q \in OpenQuestions' :
                 requests'[q].checkpoint = requests[q].checkpoint
  PROVE  ExecutionInv'
BY DEF ExecutionInv, TurnMirrorsExecution, LeaseAgrees, PauseIsBound,
   InterruptIsBound, runtimeRow

(* The claim: whichever execution it continues or starts, it runs.         *)
LEMMA ClaimRuns ==
  ASSUME DatabaseTypeOK, ExecutionInv, NEW w \in Workers, ClaimRoot(w)
  PROVE  /\ execution'.state = "RUNNING"
         /\ execution'.id # 0
         /\ turn'.state \in {"RUNNING", "STOP_REQUESTED"}
         /\ lease' = [holder |-> w, live |-> TRUE]
         /\ RecoveringStop => execution.state = "RUNNING"
         /\ execution.state = "RUNNING" => ~lease.live
<1>1. execution.id \in Nat /\ turn \in [state : TurnStates, request : Nat]
  BY DEF DatabaseTypeOK
<1>2. RecoveringStop => execution.state = "RUNNING"
  BY DEF RecoveringStop, ExecutionInv, TurnMirrorsExecution
<1>3. execution'.state = "RUNNING" /\ execution'.id # 0
  BY <1>1 DEF ClaimRoot, ClaimedExecution, ResumesSameExecution
<1>4. turn'.state \in {"RUNNING", "STOP_REQUESTED"}
  BY <1>1 DEF ClaimRoot, ClaimedTurn
<1>5. execution.state = "RUNNING" => ~lease.live
  BY DEF ClaimRoot, Claimable, LeaseHeld, ExecutionInv, LeaseAgrees
<1> QED
  BY <1>2, <1>3, <1>4, <1>5 DEF ClaimRoot

(* Lease, execution, turn and binding stay in step.                        *)
LEMMA ExecutionNext ==
  DatabaseTypeOK /\ WaitingInv /\ ExecutionInv /\ DatabaseStep
    => ExecutionInv'
<1> SUFFICES ASSUME DatabaseTypeOK, WaitingInv, ExecutionInv, DatabaseStep
             PROVE  ExecutionInv'
  OBVIOUS
<1>a. /\ turn \in [state : TurnStates, request : Nat]
      /\ execution \in [id : Nat, state : ExecutionStates]
      /\ lease \in [holder : Workers \cup {None}, live : BOOLEAN]
  BY DEF DatabaseTypeOK
<1>b. None \notin Workers
  BY WorkersAssumption
<1>1. CASE UNCHANGED database \/ CompleteRepositorySetup \/ CommandStep
  BY <1>1, ExecutionUntouched
  DEF database, CompleteRepositorySetup, CommandStep, runtimeRow, turnRow,
      OpenQuestions
<1>2. CASE RequestStop
  <2>1. /\ turn'.state = "STOP_REQUESTED" /\ turn.state = "RUNNING"
        /\ UNCHANGED <<runtimeRow, requests>>
    BY <1>2 DEF RequestStop
  <2>2. execution.state = "RUNNING"
    BY <2>1 DEF ExecutionInv, TurnMirrorsExecution
  <2> QED
    BY <2>1, <2>2 DEF ExecutionInv, TurnMirrorsExecution, LeaseAgrees,
       PauseIsBound, InterruptIsBound, runtimeRow, OpenQuestions
<1>3. CASE RequestResume
  <2>1. /\ turn'.state = "RESUME_REQUESTED" /\ execution.state = "PAUSED"
        /\ UNCHANGED <<runtimeRow, requests>>
    BY <1>3 DEF RequestResume, ResumeIsValid
  <2> QED
    BY <2>1 DEF ExecutionInv, TurnMirrorsExecution, LeaseAgrees,
       PauseIsBound, InterruptIsBound, runtimeRow, OpenQuestions
<1>4. ASSUME NEW q \in Questions, NEW known \in Nat, NEW shown \in Nat,
             AnswerHumanRequest(q, shown, known)
      PROVE  ExecutionInv'
  <2>1. /\ OpenQuestions' = OpenQuestions \ {q}
        /\ \A other \in Questions \ {q} : requests'[other] = requests[other]
    BY <1>4, OpenAfterAnswered
  <2>2. UNCHANGED <<runtimeRow, turn>>
    BY <1>4 DEF AnswerHumanRequest, turnRow
  <2>3. \A other \in OpenQuestions' : other \in Questions \ {q}
    BY <2>1 DEF OpenQuestions
  <2> QED
    BY <2>1, <2>2, <2>3, ExecutionUntouched
<1>5. ASSUME NEW q \in Questions, NEW known \in Nat, NEW shown \in Nat,
             DoesNotKnow(q, shown, known)
      PROVE  ExecutionInv'
  <2>1. OpenQuestions' = OpenQuestions
    BY <1>5, StatusAfterUnknown DEF OpenQuestions
  <2>2. UNCHANGED <<runtimeRow, turn>>
    BY <1>5 DEF DoesNotKnow, turnRow
  <2>3. \A other \in Questions :
          requests'[other].checkpoint = requests[other].checkpoint
    BY <1>5 DEF DoesNotKnow, DatabaseTypeOK, HumanRequest
  <2> QED
    BY <2>1, <2>2, <2>3, ExecutionUntouched DEF OpenQuestions
<1>6. CASE LeaseStep
  <2>1. lease'.holder = lease.holder /\ ~lease'.live /\ lease.live
    BY <1>6, <1>a DEF LeaseStep
  <2>2. UNCHANGED <<execution, bound, turn, requests>>
    BY <1>6 DEF LeaseStep, turnRow
  <2> QED
    BY <2>1, <2>2 DEF ExecutionInv, TurnMirrorsExecution, LeaseAgrees,
       PauseIsBound, InterruptIsBound, OpenQuestions
<1>7. ASSUME NEW w \in Workers, ClaimStep(w) PROVE ExecutionInv'
  <2>1. /\ execution'.state = "RUNNING"
        /\ execution'.id # 0
        /\ turn'.state \in {"RUNNING", "STOP_REQUESTED"}
        /\ lease' = [holder |-> w, live |-> TRUE]
    BY <1>7, ClaimRuns DEF ClaimStep
  <2> QED
    BY <1>b, <2>1 DEF ExecutionInv, TurnMirrorsExecution, LeaseAgrees,
       PauseIsBound, InterruptIsBound
<1>8. ASSUME NEW w \in Workers, NEW settlement \in Settlement,
             SettleStep(w, settlement)
      PROVE  ExecutionInv'
  <2>1. /\ settlement.outcome
             \in {"INTERRUPTED", "PAUSED", "SUCCEEDED", "FAILED"}
        /\ execution' = [execution EXCEPT !.state = settlement.outcome]
        /\ lease' = NoLease
        /\ turn' = TurnAfter(settlement)
        /\ bound' = BindingAfter(settlement)
        /\ execution.id # 0
    BY <1>8 DEF SettleStep, FinishExecution, SettlementAccepted, Authorized,
       Settlement
  <2>2. execution'.state = settlement.outcome /\ execution'.id # 0
    BY <1>a, <2>1
  <2>3. TurnMirrorsExecution'
    <3>1. turn'.state = IF settlement.outcome = "PAUSED" THEN "STOPPED"
                        ELSE "COMPLETED"
      BY <1>a, <2>1 DEF TurnAfter
    <3> QED
      BY <2>1, <2>2, <3>1 DEF TurnMirrorsExecution
  <2>4. LeaseAgrees'
    BY <2>1, <2>2 DEF LeaseAgrees, NoLease
  <2>5. PauseIsBound'
    BY <1>8, <2>1, <2>2 DEF PauseIsBound, BindingAfter, SettleStep,
       FinishExecution, SettlementAccepted, PauseIsValid
  <2>6. InterruptIsBound'
    <3> SUFFICES ASSUME settlement.outcome = "INTERRUPTED"
                 PROVE  /\ bound' # 0
                        /\ \A q \in OpenQuestions' :
                             requests'[q].checkpoint = bound'
      BY <2>2 DEF InterruptIsBound
    <3>1. settlement.checkpoint # 0 /\ bound' = settlement.checkpoint
      BY <1>8, <2>1 DEF BindingAfter, SettleStep, FinishExecution,
         SettlementAccepted, InterruptIsValid
    <3>2. OpenQuestions' = OpenQuestions
      BY <1>8, StatusAfterSettlement DEF SettleStep, OpenQuestions
    <3>3. \A q \in OpenQuestions :
            requests'[q].checkpoint = settlement.checkpoint
      BY <1>8 DEF SettleStep, FinishExecution, OpenQuestions, DatabaseTypeOK,
         HumanRequest
    <3> QED
      BY <3>1, <3>2, <3>3
  <2> QED
    BY <2>3, <2>4, <2>5, <2>6 DEF ExecutionInv
<1>9. CASE RootDatabaseStep
  <2>1. PICK w \in Workers : RootDatabaseStep!(w)
    BY <1>9 DEF RootDatabaseStep
  <2>2. UNCHANGED <<runtimeRow, turn>>
    BY <2>1 DEF StartRuleInvestigation, AcceptFact, SubmitRuleDecision,
       CreateHumanRequest, ReportUnresolvableHumanFact, RequestFinalization,
       SubmitFinalReport, turnRow
  <2>3. execution.state # "INTERRUPTED"
    BY <2>1 DEF StartRuleInvestigation, AcceptFact, SubmitRuleDecision,
       Governed, ReportUnresolvableHumanFact, RequestFinalization,
       SubmitFinalReport, Authorized
  <2> QED
    BY <2>2, <2>3, ExecutionUntouched
<1> QED
  BY <1>1, <1>2, <1>3, <1>4, <1>5, <1>6, <1>7, <1>8, <1>9
  DEF DatabaseStep, OwnerDatabaseStep, RuntimeDatabaseStep

(* The created assessment satisfies the invariant.                         *)
LEMMA RunInvInit == Init => RunInv
<1> SUFFICES ASSUME Init PROVE RunInv
  OBVIOUS
<1>1. ExecutionInv
  BY DEF Init, DatabaseInit, NoLease, ExecutionInv, TurnMirrorsExecution,
     LeaseAgrees, PauseIsBound, InterruptIsBound
<1> QED
  BY <1>1, CaseInvInit DEF RunInv

(* Every step keeps it.                                                    *)
LEMMA RunInvNext == RunInv /\ [Next]_vars => RunInv'
<1> SUFFICES ASSUME RunInv, [Next]_vars PROVE RunInv'
  OBVIOUS
<1>1. DatabaseTypeOK /\ WaitingInv /\ DatabaseStep
  BY StepOfDatabase DEF RunInv, CaseInv, TypeInv, TypeOK
<1> QED
  BY <1>1, CaseInvNext, ExecutionNext DEF RunInv

(* The inductive invariant behind the theorems below.                      *)
THEOREM RunCorrect == Spec => []RunInv
<1>1. Init => RunInv
  BY RunInvInit
<1>2. RunInv /\ [Next]_vars => RunInv'
  BY RunInvNext
<1> QED
  BY <1>1, <1>2, PTL DEF Spec

(* The control turn always tells the truth about the execution it belongs   *)
(* to, although no transaction reads the one before it writes the other.    *)
THEOREM TurnMirrorsExecutionAlways == Spec => []TurnMirrorsExecution
<1>1. RunInv => TurnMirrorsExecution
  BY DEF RunInv, ExecutionInv
<1> QED
  BY <1>1, RunCorrect, PTL

(* Whoever paused an assessment can continue it: it has a bound checkpoint, *)
(* no open question, no lease and a turn that waits for the Continue.       *)
THEOREM PausedIsResumableAlways == Spec => []PausedIsResumable
<1>1. RunInv => PausedIsResumable
  <2> SUFFICES ASSUME RunInv, lifecycle = "PAUSED"
               PROVE  /\ ResumeIsValid
                      /\ turn.state \in {"STOPPED", "RESUME_REQUESTED"}
                      /\ lease = NoLease
    BY DEF PausedIsResumable
  <2>1. execution.state = "PAUSED" /\ OpenQuestions = {}
    BY DEF RunInv, CaseInv, WaitingInv, PauseAgrees, WaitsForOpenQuestion
  <2>2. bound # 0 /\ turn.state \in {"STOPPED", "RESUME_REQUESTED"}
    BY <2>1 DEF RunInv, ExecutionInv, PauseIsBound, TurnMirrorsExecution
  <2>3. lease.holder = None /\ lease.live = FALSE
    BY <2>1 DEF RunInv, ExecutionInv, LeaseAgrees, CaseInv, TypeInv, TypeOK,
       DatabaseTypeOK
  <2>4. lease = NoLease
    BY <2>3 DEF RunInv, CaseInv, TypeInv, TypeOK, DatabaseTypeOK, NoLease
  <2> QED
    BY <2>1, <2>2, <2>4 DEF ResumeIsValid
<1> QED
  BY <1>1, RunCorrect, PTL

(* Once an interrupt is settled, each of its open questions can be answered *)
(* until it is: nothing rebinds the thread or the question in between.      *)
THEOREM InterruptIsAnswerableAlways == Spec => []InterruptIsAnswerable
<1>1. RunInv => InterruptIsAnswerable
  BY DEF RunInv, ExecutionInv, InterruptIsBound, InterruptIsAnswerable,
     Answerable, OpenQuestions
<1> QED
  BY <1>1, RunCorrect, PTL

-----------------------------------------------------------------------------
(* What a step of the system does to the execution.                        *)
LEMMA ExecutionStep ==
  ASSUME RunInv, [Next]_vars, execution' # execution
  PROVE  IF execution'.id = execution.id
         THEN <<execution.state, execution'.state>> \in ExecutionTransitions
         ELSE /\ execution'.id = execution.id + 1
              /\ execution'.state = "RUNNING"
              /\ execution.state \notin {"INTERRUPTED", "PAUSED"}
              /\ execution.state = "RUNNING" => ~lease.live
<1> USE DEF runtimeRow
<1>1. DatabaseTypeOK /\ DatabaseStep /\ ExecutionInv
  BY StepOfDatabase DEF RunInv, CaseInv, TypeInv, TypeOK
<1>2. execution \in [id : Nat, state : ExecutionStates]
  BY <1>1 DEF DatabaseTypeOK
<1>3. ASSUME NEW w \in Workers, ClaimRoot(w)
      PROVE  IF execution'.id = execution.id
             THEN <<execution.state, execution'.state>>
                    \in ExecutionTransitions
             ELSE /\ execution'.id = execution.id + 1
                  /\ execution'.state = "RUNNING"
                  /\ execution.state \notin {"INTERRUPTED", "PAUSED"}
                  /\ execution.state = "RUNNING" => ~lease.live
  <2>1. /\ RecoveringStop => execution.state = "RUNNING"
        /\ execution.state = "RUNNING" => ~lease.live
    BY <1>1, <1>3, ClaimRuns
  <2>2. execution' = [id |-> ClaimedExecution, state |-> "RUNNING"]
    BY <1>3 DEF ClaimRoot
  <2>3. CASE ResumesSameExecution
    <3>1. execution'.id = execution.id /\ execution'.state = "RUNNING"
      BY <2>2, <2>3 DEF ClaimedExecution
    <3>2. execution.state # "RUNNING"
      BY <1>2, <2>2, <2>3 DEF ClaimedExecution
    <3>3. execution.state \in {"INTERRUPTED", "PAUSED"}
      BY <2>1, <2>3, <3>2 DEF ResumesSameExecution
    <3> QED
      BY <3>1, <3>3 DEF ExecutionTransitions
  <2>4. CASE ~ResumesSameExecution
    <3>1. execution'.id = execution.id + 1 /\ execution'.state = "RUNNING"
      BY <2>2, <2>4 DEF ClaimedExecution
    <3>2. execution.state \in {"INTERRUPTED", "PAUSED"} => execution.id # 0
      BY <1>1 DEF ExecutionInv, LeaseAgrees
    <3>3. execution.state \notin {"INTERRUPTED", "PAUSED"}
      BY <2>4, <3>2 DEF ResumesSameExecution
    <3>4. execution'.id # execution.id
      BY <1>2, <3>1
    <3> QED
      BY <2>1, <3>1, <3>3, <3>4
  <2> QED
    BY <2>3, <2>4
<1>4. ASSUME NEW w \in Workers, NEW settlement \in Settlement,
             SettleStep(w, settlement)
      PROVE  /\ execution'.id = execution.id
             /\ <<execution.state, execution'.state>> \in ExecutionTransitions
  <2>1. /\ settlement.outcome
             \in {"INTERRUPTED", "PAUSED", "SUCCEEDED", "FAILED"}
        /\ execution' = [execution EXCEPT !.state = settlement.outcome]
        /\ execution.state = "RUNNING"
    BY <1>4 DEF SettleStep, FinishExecution, SettlementAccepted, Authorized,
       Settlement
  <2>2. execution'.id = execution.id /\ execution'.state = settlement.outcome
    BY <1>2, <2>1
  <2> QED
    BY <2>1, <2>2 DEF ExecutionTransitions
<1>5. ~OwnerDatabaseStep
  BY DEF OwnerDatabaseStep, CompleteRepositorySetup, RequestStop,
     RequestResume, AnswerHumanRequest, DoesNotKnow
<1>6. ~RootDatabaseStep
  BY DEF RootDatabaseStep, StartRuleInvestigation, AcceptFact,
     SubmitRuleDecision, CreateHumanRequest, ReportUnresolvableHumanFact,
     RequestFinalization, SubmitFinalReport
<1>7. ~CommandStep /\ ~LeaseStep /\ ~UNCHANGED database
  BY DEF CommandStep, LeaseStep, database
<1>8. \/ \E w \in Workers : ClaimRoot(w)
      \/ \E w \in Workers, settlement \in Settlement :
           SettleStep(w, settlement)
  BY <1>1, <1>5, <1>6, <1>7
  DEF DatabaseStep, RuntimeDatabaseStep, ClaimStep
<1> QED
  BY <1>3, <1>4, <1>8

(* The runtime authority never consults the execution table, and follows it *)
(* all the same: an interrupted or paused execution is continued and never  *)
(* replaced, and a running one is replaced only when its lease is over.     *)
THEOREM LegalExecutionAlways == Spec => LegalExecution
<1>1. RunInv /\ [Next]_vars =>
        [execution' # execution =>
           IF execution'.id = execution.id
           THEN <<execution.state, execution'.state>> \in ExecutionTransitions
           ELSE /\ execution'.id = execution.id + 1
                /\ execution'.state = "RUNNING"
                /\ execution.state \notin {"INTERRUPTED", "PAUSED"}
                /\ execution.state = "RUNNING" => ~lease.live]_vars
  BY ExecutionStep
<1> QED
  BY <1>1, RunCorrect, PTL DEF Spec, LegalExecution

-----------------------------------------------------------------------------
(* Apart from the claim no step gives a lease, starts an execution or puts  *)
(* a worker to work.                                                       *)
LEMMA OnlyClaimsStart ==
  ASSUME TypeInv, [Next]_vars
  PROVE  \/ \E w \in Workers : TakeCommand(w)
         \/ /\ UNCHANGED <<lease, execution>> \/ lease'.live = FALSE
            /\ \A w \in Workers :
                 worker'[w].phase # "idle" =>
                   /\ worker[w].phase # "idle"
                   /\ worker'[w].exec = worker[w].exec
<1> DEFINE SameLease == UNCHANGED <<lease, execution>> \/ lease'.live = FALSE
           SameRuns == \A w \in Workers :
                         worker'[w].phase # "idle" =>
                           /\ worker[w].phase # "idle"
                           /\ worker'[w].exec = worker[w].exec
<1> USE DEF database, runtimeRow
<1>a. worker \in [Workers -> WorkerState]
  BY DEF TypeInv, TypeOK, WorkerTypeOK
<1>b. UNCHANGED worker => SameRuns
  OBVIOUS
<1>c. \A w \in Workers : \A settlement :
        Settling(w, settlement) /\ worker[w].phase # "idle" => SameRuns
  BY <1>a DEF Settling
<1>d. \A w \in Workers : \A phase, base, asked :
        GoesOn(w, phase, base, asked) /\ worker[w].phase # "idle" => SameRuns
  BY <1>a DEF GoesOn
<1>e. \A w \in Workers : worker' = [worker EXCEPT ![w] = Idle] => SameRuns
  BY <1>a DEF Idle
<1>f. \A w \in Workers, q \in Questions :
        /\ worker[w].phase = "running"
        /\ worker' = [worker EXCEPT ![w].asked = @ \cup {q}]
        => SameRuns
  BY <1>a DEF WorkerState
<1> HIDE DEF SameRuns
<1>1. CASE UNCHANGED vars
  BY <1>1, <1>b DEF vars, workerVars, SameRuns
<1>2. CASE OwnerStep
  <2>1. UNCHANGED worker
    BY <1>2 DEF OwnerStep, SetUp, Stop, Continue, Answer, AnswerUnknown,
       workerVars
  <2>2. UNCHANGED <<lease, execution>>
    BY <1>2 DEF OwnerStep, SetUp, Stop, Continue, Answer, AnswerUnknown,
       CompleteRepositorySetup, RequestStop, RequestResume,
       AnswerHumanRequest, DoesNotKnow
  <2> QED
    BY <2>1, <2>2, <1>b DEF SameRuns
<1>3. CASE MishapStep
  <2>1. ASSUME NEW w \in Workers, LoseReply(w) PROVE SameLease /\ SameRuns
    <3>1. UNCHANGED <<lease, execution, worker>>
      BY <2>1 DEF LoseReply, CreateHumanRequest
    <3> QED
      BY <3>1, <1>b
  <2>2. ASSUME NEW w \in Workers, RepeatAnsweredQuestion(w)
        PROVE  SameLease /\ SameRuns
    <3>1. UNCHANGED <<lease, execution>>
      BY <2>2 DEF RepeatAnsweredQuestion, OpenHumanRequest,
         CreateHumanRequest, ReplayHumanRequest
    <3>2. SameRuns
      BY <2>2, <1>f DEF RepeatAnsweredQuestion, Running
    <3> QED
      BY <3>1, <3>2
  <2>3. ASSUME NEW w \in Workers, Crash(w) PROVE SameLease /\ SameRuns
    BY <2>3, <1>e DEF Crash
  <2>4. CASE LeaseExpires
    <3>1. UNCHANGED worker /\ lease' = [lease EXCEPT !.live = FALSE]
      BY <2>4 DEF LeaseExpires
    <3>2. lease \in [holder : Workers \cup {None}, live : BOOLEAN]
      BY DEF TypeInv, TypeOK, DatabaseTypeOK
    <3>3. lease'.live = FALSE
      BY <3>1, <3>2
    <3> QED
      BY <3>1, <3>3, <1>b
  <2>5. CASE DuplicateCommand
    BY <2>5, <1>b DEF DuplicateCommand
  <2> QED
    BY <1>3, <2>1, <2>2, <2>3, <2>4, <2>5 DEF MishapStep, SameRuns
<1>4. ASSUME NEW w \in Workers, ToolCall(w) PROVE SameLease /\ SameRuns
  <2>1. CASE CallOpenHumanRequest(w)
    <3>1. UNCHANGED <<lease, execution>>
      BY <2>1 DEF CallOpenHumanRequest, OpenHumanRequest,
         CreateHumanRequest, ReplayHumanRequest
    <3>2. SameRuns
      BY <2>1, <1>f DEF CallOpenHumanRequest, Running
    <3> QED
      BY <3>1, <3>2
  <2>2. CASE ~CallOpenHumanRequest(w)
    <3>1. UNCHANGED worker
      BY <1>4, <2>2 DEF ToolCall, CallStartInvestigation, CallAcceptFact,
         CallSubmitDecision, CallReportUnresolvable,
         CallRequestFinalization, CallSubmitFinalReport, workerVars
    <3>2. UNCHANGED <<lease, execution>>
      BY <1>4, <2>2 DEF ToolCall, CallStartInvestigation, CallAcceptFact,
         CallSubmitDecision, CallReportUnresolvable,
         CallRequestFinalization, CallSubmitFinalReport,
         StartRuleInvestigation, AcceptFact, SubmitRuleDecision,
         ReportUnresolvableHumanFact, RequestFinalization, SubmitFinalReport
    <3> QED
      BY <3>1, <3>2, <1>b
  <2> QED
    BY <2>1, <2>2
<1>5. ASSUME NEW w \in Workers, RunStep(w) PROVE SameLease /\ SameRuns
  <2>1. CASE StartRun(w)
    BY <2>1, <1>c, <1>d DEF StartRun
  <2>2. CASE AbandonRun(w)
    BY <2>2, <1>e DEF AbandonRun
  <2>3. CASE CommitResumed(w) \/ CommitSuperstep(w)
    BY <2>3, <1>d DEF CommitResumed, CommitSuperstep, ThreadAdvances
  <2>4. CASE ObserveStop(w) \/ PersistHumanWait(w) \/ EndRun(w) \/ FailRun(w)
    BY <2>4, <1>c DEF ObserveStop, PersistHumanWait, EndRun, FailRun, Running
  <2>5. CASE Settle(w)
    <3>1. SameLease
      BY <2>5 DEF Settle, FinishExecution, NoLease
    <3> QED
      BY <2>5, <3>1, <1>e DEF Settle
  <2> QED
    BY <1>5, <2>1, <2>2, <2>3, <2>4, <2>5 DEF RunStep
<1>6. ASSUME NEW w \in Workers, SkipCommand(w) PROVE SameLease /\ SameRuns
  BY <1>6, <1>b DEF SkipCommand, workerVars
<1> QED
  BY <1>1, <1>2, <1>3, <1>4, <1>5, <1>6 DEF Next, WorkerStep, SameRuns

(* A lease authorizes the execution it was issued for: a worker that lost   *)
(* its lease never acts on the execution that followed.                     *)
LEMMA LeaseNamesNext ==
  ASSUME TypeInv, LeaseNamesExecution, [Next]_vars
  PROVE  LeaseNamesExecution'
<1>1. worker \in [Workers -> WorkerState]
  BY DEF TypeInv, TypeOK, WorkerTypeOK
<1>2. ASSUME NEW w \in Workers, TakeCommand(w) PROVE LeaseNamesExecution'
  <2>1. lease'.holder = w /\ execution'.id = ClaimedExecution
    BY <1>2 DEF TakeCommand, ClaimRoot
  <2>2. worker'[w].exec = ClaimedExecution
    BY <1>1, <1>2 DEF TakeCommand
  <2> QED
    BY <2>1, <2>2 DEF LeaseNamesExecution, Authorized
<1>3. CASE /\ UNCHANGED <<lease, execution>> \/ lease'.live = FALSE
           /\ \A w \in Workers :
                worker'[w].phase # "idle" =>
                  /\ worker[w].phase # "idle"
                  /\ worker'[w].exec = worker[w].exec
  BY <1>3 DEF LeaseNamesExecution, Authorized
<1> QED
  BY <1>2, <1>3, OnlyClaimsStart

(* However leases expire and commands are repeated, the only worker the API *)
(* listens to is the one that runs the current execution.                   *)
THEOREM LeaseNamesExecutionAlways == Spec => []LeaseNamesExecution
<1>1. Init => TypeInv /\ LeaseNamesExecution
  BY TypeInvInit DEF Init, WorkerInit, Idle, LeaseNamesExecution
<1>2. /\ TypeInv /\ LeaseNamesExecution /\ [Next]_vars
      => TypeInv' /\ LeaseNamesExecution'
  BY TypeInvNext, LeaseNamesNext
<1> QED
  BY <1>1, <1>2, PTL DEF Spec
=============================================================================
