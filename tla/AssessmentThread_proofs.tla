------------------------ MODULE AssessmentThread_proofs ------------------------
(***************************************************************************)
(* The worker, its native thread and the settlement of what it did there.   *)
(*                                                                         *)
(* First, a Stop that a worker observed is always settled: whatever the     *)
(* owner, the other workers and the mishaps do between the observation and  *)
(* the settlement, a worker that still holds its lease is not refused.  It  *)
(* may settle a Stop it saw itself, or one whose interrupt a killed worker  *)
(* left on the thread; the second case needs the invariant to speak of the  *)
(* thread.                                                                 *)
(*                                                                         *)
(* Then facts that do not hold of every behaviour, under hypotheses on the  *)
(* behaviour: while leases last (LeasesLast) one run at a time works on the *)
(* thread and no wake-up is lost; in a run that nothing disturbs            *)
(* (Undisturbed) no settlement is refused; and where commands come on time  *)
(* (OnTime) an answered question is resumed where it waits.                *)
(***************************************************************************)
EXTENDS AssessmentExecution_proofs

(* The Stop is still the turn's, and the assessment can still be paused.    *)
StopIsRecorded(control) ==
  /\ turn.state = "STOP_REQUESTED"
  /\ turn.request = control
  /\ lifecycle = "ACTIVE"

(* The thread holds the interrupt of a Stop of the current execution.       *)
StopWait == native.wait.kind = "STOP" /\ native.wait.exec = execution.id

SettlesPause(w) ==
  worker[w].phase = "settling" /\ worker[w].settlement.outcome = "PAUSED"

(* Whoever works on the thread, waits on it or reports a pause of it has    *)
(* made a checkpoint.                                                      *)
ThreadStarted ==
  /\ native.wait # NoWait => native.checkpoint # 0
  /\ \A w \in Workers :
       /\ worker[w].phase \in {"resuming", "running"} => native.checkpoint # 0
       /\ SettlesPause(w) => worker[w].settlement.checkpoint # 0

ExpectationIsBound ==
  \A w \in Workers :
    worker[w].phase # "idle" /\ worker[w].expected # 0 => bound # 0

WaitIsPast == native.wait.exec <= execution.id

(* While nothing was ever bound, a stored Stop is the turn's, and no worker *)
(* that is listened to runs past it.                                       *)
StopWaitStands ==
  StopWait /\ bound = 0 /\ execution.state = "RUNNING" =>
    /\ StopIsRecorded(native.wait.control)
    /\ \A w \in Workers : Authorized(w) => worker[w].phase # "running"

(* A claim that expects no checkpoint and finds its own execution's Stop is *)
(* the claim of an unbound thread.                                         *)
FreshClaim ==
  \A w \in Workers :
    /\ worker[w].phase = "claimed" /\ worker[w].expected = 0
    /\ Authorized(w) /\ StopWait
    => bound = 0

PauseStands ==
  \A w \in Workers :
    SettlesPause(w) /\ Authorized(w)
      => StopIsRecorded(worker[w].settlement.control)

StopInv ==
  /\ ThreadStarted /\ ExpectationIsBound /\ WaitIsPast
  /\ StopWaitStands /\ FreshClaim /\ PauseStands

-----------------------------------------------------------------------------
(* One worker at most holds the lease.                                     *)
LEMMA OneAuthorized ==
  ASSUME NEW v \in Workers, NEW w \in Workers, Authorized(v), Authorized(w)
  PROVE  v = w
BY DEF Authorized

(* A step that leaves thread, execution and binding alone, gives no lease   *)
(* and at most ends runs.  Either it keeps a recorded Stop, or a running    *)
(* worker made it, and then no Stop is waited for.                          *)
LEMMA StopFrame ==
  ASSUME StopInv, UNCHANGED <<native, execution, bound>>,
         \A w \in Workers : Authorized(w)' => Authorized(w),
         \A w \in Workers :
           worker'[w].phase # "idle" =>
             /\ worker'[w].phase = worker[w].phase
             /\ worker'[w].expected = worker[w].expected
             /\ worker'[w].settlement = worker[w].settlement,
         \/ turn.state = "STOP_REQUESTED" /\ lifecycle = "ACTIVE"
              => UNCHANGED <<turn, lifecycle>>
         \/ \E w \in Workers : worker[w].phase = "running" /\ Authorized(w)
  PROVE  StopInv'
<1>1. ThreadStarted'
  BY DEF StopInv, ThreadStarted, SettlesPause
<1>2. ExpectationIsBound' /\ WaitIsPast'
  BY DEF StopInv, ExpectationIsBound, WaitIsPast
<1>3. StopWaitStands'
  BY DEF StopInv, StopWaitStands, StopWait, StopIsRecorded
<1>4. FreshClaim'
  BY DEF StopInv, FreshClaim, StopWait
<1>5. PauseStands'
  <2> SUFFICES ASSUME NEW w \in Workers, SettlesPause(w)', Authorized(w)'
               PROVE  StopIsRecorded(worker[w].settlement.control)'
    BY DEF PauseStands
  <2>1. SettlesPause(w) /\ Authorized(w)
    BY DEF SettlesPause
  <2>2. \A v \in Workers : Authorized(v) => worker[v].phase # "running"
    BY <2>1, OneAuthorized DEF SettlesPause
  <2>3. StopIsRecorded(worker[w].settlement.control)
    BY <2>1 DEF StopInv, PauseStands
  <2>4. worker'[w].settlement = worker[w].settlement
    BY DEF SettlesPause
  <2> QED
    BY <2>2, <2>3, <2>4 DEF StopIsRecorded
<1> QED
  BY <1>1, <1>2, <1>3, <1>4, <1>5 DEF StopInv

(* A step of one run on the thread, without the database.                  *)
LEMMA RunFrame ==
  ASSUME StopInv, WorkerTypeOK, UNCHANGED database, NEW w \in Workers, NEW run,
         worker' = [worker EXCEPT ![w] = run],
         worker[w].phase # "idle", run.expected = worker[w].expected,
         run.phase \in {"resuming", "running", "settling"},
         native'.wait # NoWait \/ native.checkpoint # 0
           \/ run.phase \in {"resuming", "running"}
           => native'.checkpoint # 0,
         run.phase = "settling" /\ run.settlement.outcome = "PAUSED" =>
           /\ run.settlement.checkpoint # 0
           /\ Authorized(w) => StopIsRecorded(run.settlement.control),
         native'.wait.exec <= execution.id,
         run.phase = "running" => native'.wait.kind # "STOP",
         \/ native'.wait = native.wait
         \/ native'.wait.kind # "STOP"
         \/ /\ Authorized(w) /\ run.phase = "settling"
            /\ StopIsRecorded(native'.wait.control)
  PROVE  StopInv'
<1> USE DEF database, assessmentRow, runtimeRow, turnRow
<1>1. /\ worker'[w] = run
      /\ \A v \in Workers \ {w} : worker'[v] = worker[v]
  BY DEF WorkerTypeOK
<1>2. \A v \in Workers : Authorized(v)' = Authorized(v)
  BY DEF Authorized
<1>3. \A control : StopIsRecorded(control)' = StopIsRecorded(control)
  BY DEF StopIsRecorded
<1>4. ThreadStarted'
  BY <1>1 DEF StopInv, ThreadStarted, SettlesPause
<1>5. ExpectationIsBound' /\ WaitIsPast'
  BY <1>1 DEF StopInv, ExpectationIsBound, WaitIsPast
<1>6. PauseStands'
  BY <1>1, <1>2, <1>3 DEF StopInv, PauseStands, SettlesPause
<1>7. FreshClaim'
  <2> SUFFICES ASSUME NEW v \in Workers, worker'[v].phase = "claimed",
                      worker'[v].expected = 0, Authorized(v), StopWait'
               PROVE  bound = 0
    BY <1>2 DEF FreshClaim
  <2>1. v # w /\ worker'[v] = worker[v]
    BY <1>1
  <2>2. ~Authorized(w)
    BY <2>1, OneAuthorized
  <2>3. StopWait
    BY <2>2 DEF StopWait
  <2> QED
    BY <2>1, <2>3 DEF StopInv, FreshClaim
<1>8. StopWaitStands'
  <2> SUFFICES ASSUME StopWait', bound = 0, execution.state = "RUNNING"
               PROVE  /\ StopIsRecorded(native'.wait.control)
                      /\ \A v \in Workers :
                           Authorized(v) => worker'[v].phase # "running"
    BY <1>2, <1>3 DEF StopWaitStands, StopIsRecorded
  <2>1. CASE native'.wait = native.wait
    <3>1. StopWait
      BY <2>1 DEF StopWait
    <3>2. run.phase # "running"
      BY DEF StopWait
    <3> QED
      BY <1>1, <2>1, <3>1, <3>2 DEF StopInv, StopWaitStands
  <2>2. CASE /\ Authorized(w) /\ run.phase = "settling"
             /\ StopIsRecorded(native'.wait.control)
    BY <1>1, <2>2, OneAuthorized
  <2> QED
    BY <2>1, <2>2 DEF StopWait
<1> QED
  BY <1>4, <1>5, <1>6, <1>7, <1>8 DEF StopInv

-----------------------------------------------------------------------------
(* The claim: a recovered Stop is still recorded; anything else that finds  *)
(* a stored Stop has a bound thread or a new execution.                     *)
LEMMA ClaimKeepsStop ==
  ASSUME RunInv, StopInv, NEW w \in Workers, TakeCommand(w)
  PROVE  StopInv'
<1> USE DEF assessmentRow
<1>1. /\ DatabaseTypeOK /\ ExecutionInv /\ WorkerTypeOK
      /\ turn \in [state : TurnStates, request : Nat]
      /\ execution.id \in Nat /\ native.wait.exec \in Nat
  BY DEF RunInv, CaseInv, TypeInv, TypeOK, DatabaseTypeOK, WorkerTypeOK, Wait
<1>2. /\ UNCHANGED <<native, bound>>
      /\ execution' = [id |-> ClaimedExecution, state |-> "RUNNING"]
      /\ lease'.holder = w
      /\ turn' = ClaimedTurn
      /\ worker'[w] = [phase |-> "claimed", exec |-> ClaimedExecution,
                       expected |-> ClaimedCheckpoint, base |-> 0,
                       asked |-> {}, settlement |-> Unsettled]
      /\ \A v \in Workers \ {w} : worker'[v] = worker[v]
  BY <1>1 DEF TakeCommand, ClaimRoot, WorkerTypeOK
<1>3. \A v \in Workers : Authorized(v)' => v = w
  BY <1>2 DEF Authorized
<1>4. ThreadStarted'
  BY <1>2 DEF StopInv, ThreadStarted, SettlesPause
<1>5. ExpectationIsBound'
  BY <1>2 DEF StopInv, ExpectationIsBound, ClaimedCheckpoint
<1>6. WaitIsPast'
  BY <1>1, <1>2 DEF StopInv, WaitIsPast, ClaimedExecution
<1>7. StopWait' => ResumesSameExecution /\ StopWait
  BY <1>1, <1>2 DEF StopInv, WaitIsPast, StopWait, ClaimedExecution
<1>8. FreshClaim'
  BY <1>2, <1>3, <1>7 DEF FreshClaim, ClaimedCheckpoint
<1>9. PauseStands'
  BY <1>2, <1>3 DEF PauseStands, SettlesPause
<1>10. StopWaitStands'
  <2> SUFFICES ASSUME StopWait', bound = 0
               PROVE  /\ StopIsRecorded(native.wait.control)'
                      /\ \A v \in Workers :
                           Authorized(v)' => worker'[v].phase # "running"
    BY <1>2 DEF StopWaitStands
  <2>1. execution.state \notin {"INTERRUPTED", "PAUSED"}
    BY <1>1 DEF ExecutionInv, PauseIsBound, InterruptIsBound
  <2>2. RecoveringStop /\ ResumesSameExecution
    BY <1>7, <2>1 DEF ResumesSameExecution
  <2>3. execution.state = "RUNNING"
    BY <1>1, <2>2, ClaimRuns DEF TakeCommand
  <2>4. StopIsRecorded(native.wait.control)
    BY <1>7, <2>3 DEF StopInv, StopWaitStands
  <2>5. turn'.state = "STOP_REQUESTED" /\ turn'.request = turn.request
    BY <1>1, <1>2, <2>2 DEF ClaimedTurn
  <2>6. UNCHANGED lifecycle
    BY <2>4 DEF TakeCommand, ClaimRoot, SafePauseResume, StopIsRecorded
  <2>7. StopIsRecorded(native.wait.control)'
    BY <1>2, <2>4, <2>5, <2>6 DEF StopIsRecorded
  <2> QED
    BY <1>2, <1>3, <2>7
<1> QED
  BY <1>4, <1>5, <1>6, <1>8, <1>9, <1>10 DEF StopInv

(* The settlement ends the execution, and a binding is never lost.          *)
LEMMA SettleKeepsStop ==
  ASSUME RunInv, StopInv, NEW w \in Workers, Settle(w)
  PROVE  StopInv'
<1>1. /\ DatabaseTypeOK /\ WorkerTypeOK
      /\ worker[w].settlement \in Settlement
      /\ worker[w].settlement.outcome # "NONE"
  BY DEF RunInv, CaseInv, TypeInv, TypeOK, WorkerTypeOK, WorkerState,
     SettlesAnOutcome, Settle
<1>2. /\ UNCHANGED native
      /\ worker'[w].phase = "idle"
      /\ \A v \in Workers \ {w} : worker'[v] = worker[v]
  BY <1>1 DEF Settle, WorkerTypeOK, Idle
<1>3. CASE FinishExecution(w, worker[w].settlement)
  <2>1. execution'.id = execution.id /\ execution'.state # "RUNNING"
    BY <1>1, <1>3 DEF FinishExecution, DatabaseTypeOK, Settlement
  <2>2. bound # 0 => bound' # 0
    BY <1>3 DEF FinishExecution, BindingAfter
  <2>3. \A v \in Workers : ~Authorized(v)'
    BY <2>1 DEF Authorized
  <2>4. ThreadStarted' /\ ExpectationIsBound' /\ WaitIsPast'
    BY <1>2, <2>1, <2>2 DEF StopInv, ThreadStarted, ExpectationIsBound,
       WaitIsPast, SettlesPause
  <2>5. StopWaitStands' /\ FreshClaim' /\ PauseStands'
    BY <2>1, <2>3 DEF StopWaitStands, FreshClaim, PauseStands
  <2> QED
    BY <2>4, <2>5 DEF StopInv
<1>4. CASE UNCHANGED database
  BY <1>2, <1>4, StopFrame DEF database, assessmentRow, runtimeRow, turnRow,
     Authorized
<1> QED
  BY <1>3, <1>4 DEF Settle

(* What a run does on the thread.                                          *)
LEMMA RunKeepsStop ==
  ASSUME RunInv, LeaseNamesExecution, StopInv, NEW w \in Workers,
         \/ StartRun(w) \/ CommitResumed(w) \/ CommitSuperstep(w)
         \/ ObserveStop(w) \/ PersistHumanWait(w) \/ EndRun(w) \/ FailRun(w)
  PROVE  StopInv'
<1>1. /\ WorkerTypeOK /\ UNCHANGED database
      /\ execution.id \in Nat
      /\ native \in [checkpoint : Nat, wait : Wait]
      /\ native.wait.exec <= execution.id
  BY DEF RunInv, CaseInv, TypeInv, TypeOK, DatabaseTypeOK, WorkerTypeOK,
     StopInv, WaitIsPast, StartRun, CommitResumed, CommitSuperstep,
     ObserveStop, PersistHumanWait, EndRun, FailRun
<1>2. ASSUME NEW state \in {"SUCCEEDED", "FAILED"},
             Settling(w, Outcome(state)), UNCHANGED native,
             worker[w].phase # "idle"
      PROVE  StopInv'
  BY <1>1, <1>2, RunFrame
  DEF Settling, Outcome, Unsettled, StopInv, ThreadStarted
<1>3. ASSUME NEW base, NEW asked, GoesOn(w, "resuming", base, asked),
             UNCHANGED native, native.wait # NoWait, worker[w].phase # "idle"
      PROVE  StopInv'
  BY <1>1, <1>3, RunFrame DEF GoesOn, StopInv, ThreadStarted
<1>4. ASSUME NEW base, NEW asked, GoesOn(w, "running", base, asked),
             native'.checkpoint # 0, native'.wait.kind # "STOP",
             native'.wait.exec <= execution.id, worker[w].phase # "idle"
      PROVE  StopInv'
  BY <1>1, <1>4, RunFrame DEF GoesOn
<1>5. CASE StartRun(w)
  <2>1. /\ worker[w].phase = "claimed" /\ Authorized(w)
        /\ worker[w].exec = execution.id /\ execution.state = "RUNNING"
    BY <1>5 DEF StartRun, LeaseNamesExecution, Authorized
  <2>2. ASSUME native.wait.kind = "STOP", worker[w].expected = 0,
               native.wait.exec = worker[w].exec, UNCHANGED native,
               Settling(w, Paused(native.checkpoint, native.wait.control))
        PROVE  StopInv'
    <3>1. StopWait /\ bound = 0
      BY <2>1, <2>2 DEF StopInv, FreshClaim, StopWait
    <3>2. StopIsRecorded(native.wait.control)
      BY <2>1, <3>1 DEF StopInv, StopWaitStands
    <3>3. native.checkpoint # 0
      BY <2>2 DEF StopInv, ThreadStarted, NoWait
    <3> QED
      BY <1>1, <2>1, <2>2, <3>2, <3>3, RunFrame DEF Settling, Paused
  <2>3. ASSUME UNCHANGED native,
               Settling(w, Interrupted(native.checkpoint,
                                       native.wait.questions))
        PROVE  StopInv'
    BY <1>1, <2>1, <2>3, RunFrame
    DEF Settling, Interrupted, StopInv, ThreadStarted
  <2>4. ASSUME native.wait.kind # "NONE", UNCHANGED native,
               GoesOn(w, "resuming", native.checkpoint, {})
        PROVE  StopInv'
    BY <1>3, <2>1, <2>4 DEF NoWait
  <2>5. ASSUME native.wait.kind = "NONE",
               native' = IF native.checkpoint = 0
                         THEN [native EXCEPT !.checkpoint = 1] ELSE native,
               NEW asked, GoesOn(w, "running", native'.checkpoint, asked)
        PROVE  StopInv'
    <3>1. native'.wait = native.wait /\ native'.checkpoint # 0
      BY <1>1, <2>5
    <3> QED
      BY <1>1, <1>4, <2>1, <2>5, <3>1
  <2> QED
    BY <1>2, <1>5, <2>1, <2>2, <2>3, <2>4, <2>5 DEF StartRun
<1>6. CASE CommitResumed(w) \/ CommitSuperstep(w)
  <2>1. /\ native' = [checkpoint |-> native.checkpoint + 1, wait |-> NoWait]
        /\ GoesOn(w, "running", native.checkpoint + 1, {})
        /\ worker[w].phase # "idle"
    BY <1>6 DEF CommitResumed, CommitSuperstep, ThreadAdvances
  <2>2. /\ native'.checkpoint # 0 /\ native'.wait.kind # "STOP"
        /\ native'.wait.exec <= execution.id
    BY <1>1, <2>1 DEF NoWait
  <2> QED
    BY <1>4, <2>1, <2>2
<1>7. CASE ObserveStop(w)
  <2>1. /\ Authorized(w) /\ StopIsRecorded(turn.request)
        /\ execution.id = worker[w].exec
        /\ worker[w].phase = "running"
        /\ Settling(w, Paused(native.checkpoint, turn.request))
    BY <1>7 DEF ObserveStop, ObservesControl, StopIsRecorded, Running
  <2>2. native.checkpoint # 0
    BY <2>1 DEF StopInv, ThreadStarted
  <2>3. /\ native'.checkpoint = native.checkpoint
        /\ \/ native'.wait = native.wait
           \/ native'.wait = [kind |-> "STOP", control |-> turn.request,
                              exec |-> worker[w].exec, questions |-> {}]
    BY <1>1, <1>7 DEF ObserveStop, Store
  <2>4. native'.wait.exec <= execution.id
    BY <1>1, <2>1, <2>3
  <2>5. \/ native'.wait = native.wait
        \/ StopIsRecorded(native'.wait.control)
    BY <2>1, <2>3
  <2> QED
    BY <1>1, <2>1, <2>2, <2>3, <2>4, <2>5, RunFrame DEF Settling, Paused
<1>8. CASE PersistHumanWait(w)
  <2>1. /\ worker[w].phase = "running"
        /\ Settling(w, Interrupted(native.checkpoint, worker[w].asked))
    BY <1>8 DEF PersistHumanWait, Running
  <2>2. native.checkpoint # 0
    BY <2>1 DEF StopInv, ThreadStarted
  <2>3. /\ native'.checkpoint = native.checkpoint
        /\ \/ native'.wait = native.wait
           \/ native'.wait = [kind |-> "HUMAN", control |-> 0, exec |-> 0,
                              questions |-> worker[w].asked]
    BY <1>1, <1>8 DEF PersistHumanWait, Store
  <2>4. native'.wait.exec <= execution.id
    BY <1>1, <2>3
  <2>5. native'.wait = native.wait \/ native'.wait.kind # "STOP"
    BY <2>3
  <2> QED
    BY <1>1, <2>1, <2>2, <2>3, <2>4, <2>5, RunFrame
    DEF Settling, Interrupted
<1>9. CASE EndRun(w) \/ FailRun(w)
  BY <1>2, <1>9 DEF EndRun, FailRun, Running
<1> QED
  BY <1>5, <1>6, <1>7, <1>8, <1>9

(* A governed command leaves thread, execution and binding alone; who gives *)
(* it runs and is authorized, or it is the replay of a stored question.     *)
LEMMA CommandKeepsStop ==
  ASSUME RunInv, StopInv, NEW w \in Workers,
         ToolCall(w) \/ LoseReply(w) \/ RepeatAnsweredQuestion(w)
  PROVE  StopInv'
<1>1. WorkerTypeOK
  BY DEF RunInv, CaseInv, TypeInv, TypeOK
<1>2. worker[w].phase = "running" /\ Authorized(w)
  BY DEF ToolCall, LoseReply, RepeatAnsweredQuestion,
     CallStartInvestigation, CallAcceptFact, CallSubmitDecision,
     CallOpenHumanRequest, CallReportUnresolvable, CallRequestFinalization,
     CallSubmitFinalReport, Running, StartRuleInvestigation, AcceptFact,
     SubmitRuleDecision, Governed, OpenHumanRequest,
     ReportUnresolvableHumanFact, RequestFinalization, SubmitFinalReport
<1>3. UNCHANGED <<native, runtimeRow>>
  <2>1. CASE ToolCall(w)
    BY <2>1 DEF ToolCall, CallStartInvestigation, CallAcceptFact,
       CallSubmitDecision, CallOpenHumanRequest, CallReportUnresolvable,
       CallRequestFinalization, CallSubmitFinalReport, workerVars, database,
       StartRuleInvestigation, AcceptFact, SubmitRuleDecision,
       OpenHumanRequest, CreateHumanRequest, ReplayHumanRequest,
       ReportUnresolvableHumanFact, RequestFinalization, SubmitFinalReport
  <2>2. CASE LoseReply(w) \/ RepeatAnsweredQuestion(w)
    BY <2>2 DEF LoseReply, RepeatAnsweredQuestion, database,
       OpenHumanRequest, CreateHumanRequest, ReplayHumanRequest
  <2> QED
    BY <2>1, <2>2
<1>4. \A v \in Workers :
        /\ worker'[v].phase = worker[v].phase
        /\ worker'[v].expected = worker[v].expected
        /\ worker'[v].settlement = worker[v].settlement
  <2>1. \/ UNCHANGED worker
        \/ \E q \in Questions :
             worker' = [worker EXCEPT ![w].asked = @ \cup {q}]
    BY DEF ToolCall, LoseReply, RepeatAnsweredQuestion,
       CallStartInvestigation, CallAcceptFact, CallSubmitDecision,
       CallOpenHumanRequest, CallReportUnresolvable,
       CallRequestFinalization, CallSubmitFinalReport, workerVars
  <2> QED
    BY <1>1, <2>1 DEF WorkerTypeOK, WorkerState
<1> QED
  BY <1>2, <1>3, <1>4, StopFrame DEF runtimeRow, Authorized

(* The owner, the broker, the clock and the killer of processes.            *)
LEMMA OthersKeepStop ==
  ASSUME RunInv, StopInv,
         \/ OwnerStep \/ LeaseExpires \/ DuplicateCommand
         \/ \E w \in Workers : SkipCommand(w) \/ AbandonRun(w) \/ Crash(w)
  PROVE  StopInv'
<1> USE DEF database, assessmentRow, runtimeRow, turnRow
<1>1. /\ WorkerTypeOK
      /\ lease \in [holder : Workers \cup {None}, live : BOOLEAN]
  BY DEF RunInv, CaseInv, TypeInv, TypeOK, DatabaseTypeOK
<1>2. CASE OwnerStep
  <2>1. UNCHANGED <<native, worker, execution, lease, bound>>
    BY <1>2 DEF OwnerStep, SetUp, Stop, Continue, Answer, AnswerUnknown,
       CompleteRepositorySetup, RequestStop, RequestResume,
       AnswerHumanRequest, DoesNotKnow, workerVars
  <2>2. turn.state = "STOP_REQUESTED" /\ lifecycle = "ACTIVE" =>
          UNCHANGED <<turn, lifecycle>>
    BY <1>2 DEF OwnerStep, SetUp, Stop, Continue, Answer, AnswerUnknown,
       CompleteRepositorySetup, RequestStop, RequestResume,
       AnswerHumanRequest, DoesNotKnow, ResumesRoot, ResolvesHumanBlocker,
       HumanBlocked
  <2> QED
    BY <2>1, <2>2, StopFrame DEF Authorized
<1>3. CASE LeaseExpires
  <2>1. /\ UNCHANGED <<native, worker, execution, bound, turn, lifecycle>>
        /\ lease' = [lease EXCEPT !.live = FALSE]
    BY <1>3 DEF LeaseExpires
  <2>2. \A w \in Workers : ~Authorized(w)'
    BY <1>1, <2>1 DEF Authorized
  <2> QED
    BY <2>1, <2>2, StopFrame
<1>4. CASE DuplicateCommand \/ \E w \in Workers : SkipCommand(w)
  BY <1>4, StopFrame DEF DuplicateCommand, SkipCommand, workerVars,
     Authorized
<1>5. ASSUME NEW w \in Workers, AbandonRun(w) \/ Crash(w) PROVE StopInv'
  <2>1. /\ UNCHANGED <<native, execution, lease, bound, turn, lifecycle>>
        /\ worker' = [worker EXCEPT ![w] = Idle]
    BY <1>5 DEF AbandonRun, Crash
  <2>2. \A v \in Workers :
          worker'[v].phase # "idle" => worker'[v] = worker[v]
    BY <1>1, <2>1 DEF WorkerTypeOK, Idle
  <2> QED
    BY <2>1, <2>2, StopFrame DEF Authorized
<1> QED
  BY <1>2, <1>3, <1>4, <1>5

-----------------------------------------------------------------------------
PauseInv == RunInv /\ LeaseNamesExecution /\ StopInv

(* The inductive invariant behind the theorem below.                       *)
THEOREM StopCorrect == Spec => []PauseInv
<1>1. Init => PauseInv
  <2> SUFFICES ASSUME Init PROVE PauseInv
    OBVIOUS
  <2>1. LeaseNamesExecution
    BY DEF Init, WorkerInit, Idle, LeaseNamesExecution
  <2>2. ThreadStarted /\ ExpectationIsBound /\ WaitIsPast
    BY DEF Init, DatabaseInit, WorkerInit, Idle, NoWait, ThreadStarted,
       ExpectationIsBound, WaitIsPast, SettlesPause
  <2>3. StopWaitStands /\ FreshClaim /\ PauseStands
    BY DEF Init, DatabaseInit, WorkerInit, Idle, NoWait, StopWaitStands,
       StopWait, FreshClaim, PauseStands, SettlesPause
  <2> QED
    BY <2>1, <2>2, <2>3, RunInvInit DEF PauseInv, StopInv
<1>2. PauseInv /\ [Next]_vars => PauseInv'
  <2> SUFFICES ASSUME PauseInv, [Next]_vars PROVE PauseInv'
    OBVIOUS
  <2>1. RunInv' /\ LeaseNamesExecution'
    BY RunInvNext, LeaseNamesNext DEF PauseInv, RunInv, CaseInv
  <2>2. CASE UNCHANGED vars
    BY <2>1, <2>2, StopFrame DEF PauseInv, vars, workerVars, database,
       assessmentRow, runtimeRow, turnRow, Authorized
  <2>3. CASE OwnerStep
    BY <2>1, <2>3, OthersKeepStop DEF PauseInv
  <2>4. CASE MishapStep
    BY <2>1, <2>4, OthersKeepStop, CommandKeepsStop DEF PauseInv, MishapStep
  <2>5. ASSUME NEW w \in Workers, WorkerStep(w) PROVE StopInv'
    BY <2>5, ClaimKeepsStop, SettleKeepsStop, RunKeepsStop,
       CommandKeepsStop, OthersKeepStop
    DEF PauseInv, WorkerStep, RunStep
  <2> QED
    BY <2>1, <2>2, <2>3, <2>4, <2>5 DEF PauseInv, Next
<1> QED
  BY <1>1, <1>2, PTL DEF Spec

(* A worker that still holds its lease when it settles a pause is never     *)
(* refused, whether it observed the Stop itself or found it on the thread   *)
(* of a killed worker.                                                     *)
THEOREM PauseIsNeverRefusedAlways == Spec => []PauseIsNeverRefused
<1>1. PauseInv => PauseIsNeverRefused
  BY DEF PauseInv, StopInv, ThreadStarted, PauseStands, SettlesPause,
     StopIsRecorded, PauseIsNeverRefused, PauseIsValid
<1> QED
  BY <1>1, StopCorrect, PTL

-----------------------------------------------------------------------------
(* A lease that lasts.  The worker does not renew its lease: a run that     *)
(* outlives it goes on writing the thread beside its successor.  Where      *)
(* every lease outlasts the run it was issued for, one run at a time works  *)
(* on the thread, whatever else goes wrong.                                 *)
HolderRuns == \E w \in Workers : worker[w].phase # "idle" /\ lease.holder = w

LeasesLast == [][LeaseExpires => ~HolderRuns]_vars

(* Whoever runs is the one the API listens to.                             *)
SoleRun == \A w \in Workers : worker[w].phase # "idle" => Authorized(w)

(* The run builds on the thread's latest checkpoint, and what it reports as *)
(* an interrupt is stored there.                                           *)
RunOnThread ==
  \A w \in Workers :
    /\ worker[w].phase \in {"resuming", "running"}
         => worker[w].base = native.checkpoint
    /\ worker[w].phase = "running" => native.wait.kind = "NONE"
    /\ worker[w].phase = "settling"
         /\ worker[w].settlement.outcome = "INTERRUPTED"
       => /\ worker[w].settlement.checkpoint = native.checkpoint
          /\ native.wait.kind = "HUMAN"

(* An interrupted execution is bound to the checkpoint its thread waits at. *)
InterruptOnThread ==
  execution.state = "INTERRUPTED" =>
    bound = native.checkpoint /\ native.wait.kind = "HUMAN"

(* A human resume is asked for once for each checkpoint, and the thread     *)
(* stays where it was asked for only as long as nobody ran since.           *)
KeysArePast ==
  /\ \A key \in resumeKeys : key <= native.checkpoint
  /\ native.checkpoint \in resumeKeys =>
       native.wait.kind = "HUMAN" /\ OpenQuestions = {}

ThreadInv == SoleRun /\ RunOnThread /\ InterruptOnThread /\ KeysArePast

-----------------------------------------------------------------------------
(* A step that leaves the thread, the runtime row and the resume keys       *)
(* alone, and at most ends runs or opens questions while no wait is there.  *)
LEMMA ThreadFrame ==
  ASSUME ThreadInv, UNCHANGED <<native, runtimeRow, resumeKeys>>,
         \A w \in Workers :
           worker'[w].phase # "idle" =>
             /\ worker'[w].phase = worker[w].phase
             /\ worker'[w].base = worker[w].base
             /\ worker'[w].settlement = worker[w].settlement,
         OpenQuestions' \subseteq OpenQuestions \/ native.wait.kind = "NONE"
  PROVE  ThreadInv'
<1> USE DEF runtimeRow
<1>1. SoleRun'
  BY DEF ThreadInv, SoleRun, Authorized
<1>2. RunOnThread'
  BY DEF ThreadInv, RunOnThread
<1>3. InterruptOnThread'
  BY DEF ThreadInv, InterruptOnThread
<1>4. KeysArePast'
  BY DEF ThreadInv, KeysArePast
<1> QED
  BY <1>1, <1>2, <1>3, <1>4 DEF ThreadInv

(* A step of the one run on the thread, without the database.              *)
LEMMA OneRunFrame ==
  ASSUME RunInv, ThreadInv, UNCHANGED database, NEW w \in Workers, NEW run,
         worker' = [worker EXCEPT ![w] = run], worker[w].phase # "idle",
         run.phase \in {"resuming", "running", "settling"},
         run.phase \in {"resuming", "running"}
           => run.base = native'.checkpoint,
         run.phase = "running" => native'.wait.kind = "NONE",
         run.phase = "settling" /\ run.settlement.outcome = "INTERRUPTED" =>
           /\ run.settlement.checkpoint = native'.checkpoint
           /\ native'.wait.kind = "HUMAN",
         \/ UNCHANGED native
         \/ /\ native'.checkpoint = native.checkpoint
            /\ native.wait.kind = "NONE"
         \/ native'.checkpoint = native.checkpoint + 1
  PROVE  ThreadInv'
<1> USE DEF database, assessmentRow, runtimeRow, turnRow, outboxRows
<1>1. /\ worker'[w] = run
      /\ \A v \in Workers \ {w} : worker'[v] = worker[v]
      /\ native.checkpoint \in Nat /\ resumeKeys \in SUBSET Nat
  BY DEF RunInv, CaseInv, TypeInv, TypeOK, DatabaseTypeOK, WorkerTypeOK
<1>2. \A v \in Workers : Authorized(v)' = Authorized(v)
  BY DEF Authorized
<1>3. Authorized(w) /\ \A v \in Workers \ {w} : worker[v].phase = "idle"
  BY OneAuthorized DEF ThreadInv, SoleRun
<1>4. SoleRun'
  BY <1>1, <1>2, <1>3 DEF SoleRun
<1>5. RunOnThread'
  BY <1>1, <1>3 DEF RunOnThread
<1>6. InterruptOnThread'
  BY <1>3 DEF InterruptOnThread, Authorized
<1>7. KeysArePast'
  <2>1. OpenQuestions' = OpenQuestions
    BY DEF OpenQuestions
  <2>2. CASE UNCHANGED native
    BY <2>1, <2>2 DEF ThreadInv, KeysArePast
  <2>3. CASE /\ native'.checkpoint = native.checkpoint
             /\ native.wait.kind = "NONE"
    BY <2>3 DEF ThreadInv, KeysArePast
  <2>4. CASE native'.checkpoint = native.checkpoint + 1
    <3>1. \A key \in resumeKeys :
            key <= native'.checkpoint /\ key # native'.checkpoint
      BY <1>1, <2>4 DEF ThreadInv, KeysArePast
    <3> QED
      BY <3>1 DEF KeysArePast
  <2> QED
    BY <2>2, <2>3, <2>4
<1> QED
  BY <1>4, <1>5, <1>6, <1>7 DEF ThreadInv

(* Who claims finds nobody running.                                        *)
LEMMA ClaimKeepsThread ==
  ASSUME RunInv, ThreadInv, NEW w \in Workers, TakeCommand(w)
  PROVE  ThreadInv'
<1>1. DatabaseTypeOK /\ ExecutionInv /\ WorkerTypeOK
  BY DEF RunInv, CaseInv, TypeInv, TypeOK
<1>2. \A v \in Workers : worker[v].phase = "idle"
  BY WorkersAssumption DEF ThreadInv, SoleRun, Authorized, TakeCommand,
     ClaimRoot, Claimable, LeaseHeld
<1>3. /\ UNCHANGED <<native, bound, requests, resumeKeys>>
      /\ worker'[w].phase = "claimed"
      /\ \A v \in Workers \ {w} : worker'[v] = worker[v]
  BY <1>1 DEF TakeCommand, ClaimRoot, WorkerTypeOK
<1>4. /\ execution'.state = "RUNNING" /\ execution'.id # 0
      /\ lease' = [holder |-> w, live |-> TRUE]
  BY <1>1, ClaimRuns DEF TakeCommand
<1>5. Authorized(w)'
  BY <1>4 DEF Authorized
<1>6. SoleRun' /\ RunOnThread'
  BY <1>2, <1>3, <1>5 DEF SoleRun, RunOnThread
<1>7. InterruptOnThread' /\ KeysArePast'
  BY <1>3, <1>4 DEF ThreadInv, InterruptOnThread, KeysArePast, OpenQuestions
<1> QED
  BY <1>6, <1>7 DEF ThreadInv

(* The settlement ends the only run; an interrupt binds the checkpoint the  *)
(* thread waits at.                                                        *)
LEMMA SettleKeepsThread ==
  ASSUME RunInv, ThreadInv, NEW w \in Workers, Settle(w)
  PROVE  ThreadInv'
<1>1. /\ DatabaseTypeOK /\ WorkerTypeOK
      /\ worker[w].settlement \in Settlement
      /\ native.checkpoint \in Nat
  BY DEF RunInv, CaseInv, TypeInv, TypeOK, WorkerTypeOK, WorkerState
<1>2. /\ UNCHANGED native
      /\ \A v \in Workers : worker'[v].phase = "idle"
  BY <1>1, OneAuthorized DEF ThreadInv, SoleRun, Settle, WorkerTypeOK, Idle
<1>3. CASE FinishExecution(w, worker[w].settlement)
  <2>1. /\ execution' = [execution EXCEPT
                           !.state = worker[w].settlement.outcome]
        /\ UNCHANGED resumeKeys
        /\ bound' = BindingAfter(worker[w].settlement)
    BY <1>3 DEF FinishExecution, outboxRows
  <2>2. OpenQuestions' = OpenQuestions
    BY <1>1, <1>3, StatusAfterSettlement DEF OpenQuestions
  <2>3. InterruptOnThread'
    <3> SUFFICES ASSUME worker[w].settlement.outcome = "INTERRUPTED"
                 PROVE  bound' = native.checkpoint /\ native.wait.kind = "HUMAN"
      BY <1>1, <1>2, <2>1 DEF InterruptOnThread, DatabaseTypeOK
    <3>1. /\ worker[w].settlement.checkpoint = native.checkpoint
          /\ native.wait.kind = "HUMAN"
      BY DEF ThreadInv, RunOnThread, Settle
    <3>2. worker[w].settlement.checkpoint # 0
      BY <1>3 DEF FinishExecution, SettlementAccepted, InterruptIsValid
    <3> QED
      BY <2>1, <3>1, <3>2 DEF BindingAfter
  <2> QED
    BY <1>2, <2>1, <2>2, <2>3
    DEF ThreadInv, SoleRun, RunOnThread, KeysArePast
<1>4. CASE UNCHANGED database
  BY <1>2, <1>4, ThreadFrame DEF database, outboxRows, OpenQuestions
<1> QED
  BY <1>3, <1>4 DEF Settle

(* What the run does on the thread.                                        *)
LEMMA RunKeepsThread ==
  ASSUME RunInv, ThreadInv, NEW w \in Workers,
         \/ StartRun(w) \/ CommitResumed(w) \/ CommitSuperstep(w)
         \/ ObserveStop(w) \/ PersistHumanWait(w) \/ EndRun(w) \/ FailRun(w)
  PROVE  ThreadInv'
<1>1. /\ UNCHANGED database
      /\ native \in [checkpoint : Nat, wait : Wait]
      /\ worker[w].phase # "idle"
  BY DEF RunInv, CaseInv, TypeInv, TypeOK, WorkerTypeOK, StartRun,
     CommitResumed, CommitSuperstep, ObserveStop, PersistHumanWait, EndRun,
     FailRun, Running
<1>2. ASSUME NEW settlement, Settling(w, settlement),
             settlement.outcome = "INTERRUPTED" =>
               /\ settlement.checkpoint = native'.checkpoint
               /\ native'.wait.kind = "HUMAN",
             \/ UNCHANGED native
             \/ /\ native'.checkpoint = native.checkpoint
                /\ native.wait.kind = "NONE"
      PROVE  ThreadInv'
  BY <1>1, <1>2, OneRunFrame DEF Settling
<1>3. ASSUME NEW state \in {"SUCCEEDED", "FAILED"},
             Settling(w, Outcome(state)), UNCHANGED native
      PROVE  ThreadInv'
  BY <1>2, <1>3 DEF Outcome, Unsettled
<1>4. ASSUME NEW phase \in {"resuming", "running"}, NEW base, NEW asked,
             GoesOn(w, phase, base, asked),
             base = native'.checkpoint,
             phase = "running" => native'.wait.kind = "NONE",
             \/ UNCHANGED native
             \/ native'.checkpoint = native.checkpoint + 1
      PROVE  ThreadInv'
  BY <1>1, <1>4, OneRunFrame DEF GoesOn
<1>5. CASE StartRun(w)
  <2>1. ASSUME UNCHANGED native,
               Settling(w, Paused(native.checkpoint, native.wait.control))
        PROVE  ThreadInv'
    BY <1>2, <2>1 DEF Paused
  <2>2. ASSUME native.wait.kind = "HUMAN", UNCHANGED native,
               Settling(w, Interrupted(native.checkpoint,
                                       native.wait.questions))
        PROVE  ThreadInv'
    BY <1>2, <2>2 DEF Interrupted
  <2>3. ASSUME UNCHANGED native,
               GoesOn(w, "resuming", native.checkpoint, {})
        PROVE  ThreadInv'
    BY <1>4, <2>3
  <2>4. ASSUME native.wait.kind = "NONE",
               native' = IF native.checkpoint = 0
                         THEN [native EXCEPT !.checkpoint = 1] ELSE native,
               NEW asked, GoesOn(w, "running", native'.checkpoint, asked)
        PROVE  ThreadInv'
    <3>1. native'.wait.kind = "NONE"
      BY <1>1, <2>4
    <3>2. \/ UNCHANGED native
          \/ native'.checkpoint = native.checkpoint + 1
      BY <1>1, <2>4
    <3> QED
      BY <1>4, <2>4, <3>1, <3>2
  <2> QED
    BY <1>3, <1>5, <2>1, <2>2, <2>3, <2>4 DEF StartRun
<1>6. CASE CommitResumed(w) \/ CommitSuperstep(w)
  <2>1. /\ native' = [checkpoint |-> native.checkpoint + 1, wait |-> NoWait]
        /\ GoesOn(w, "running", native.checkpoint + 1, {})
    BY <1>6 DEF CommitResumed, CommitSuperstep, ThreadAdvances
  <2>2. /\ native'.checkpoint = native.checkpoint + 1
        /\ native'.wait.kind = "NONE"
    BY <2>1 DEF NoWait
  <2> QED
    BY <1>4, <2>1, <2>2
<1>7. CASE ObserveStop(w)
  <2>1. /\ native'.checkpoint = native.checkpoint
        /\ native.wait.kind = "NONE"
    BY <1>1, <1>7 DEF ObserveStop, Store, Running, ThreadInv, RunOnThread
  <2>2. Settling(w, Paused(native.checkpoint, turn.request))
    BY <1>7 DEF ObserveStop
  <2> QED
    BY <1>2, <2>1, <2>2 DEF Paused
<1>8. CASE PersistHumanWait(w)
  <2>1. /\ worker[w].base = native.checkpoint
        /\ native.wait.kind = "NONE"
    BY <1>8 DEF PersistHumanWait, Running, ThreadInv, RunOnThread
  <2>2. /\ native'.checkpoint = native.checkpoint
        /\ native'.wait.kind = "HUMAN"
    BY <1>1, <1>8, <2>1 DEF PersistHumanWait, Store
  <2>3. Settling(w, Interrupted(native.checkpoint, worker[w].asked))
    BY <1>8 DEF PersistHumanWait
  <2> QED
    BY <1>2, <2>1, <2>2, <2>3 DEF Interrupted
<1>9. CASE EndRun(w) \/ FailRun(w)
  BY <1>3, <1>9 DEF EndRun, FailRun
<1> QED
  BY <1>5, <1>6, <1>7, <1>8, <1>9

(* A governed command of the run: questions are opened while the thread     *)
(* waits for nothing.                                                      *)
LEMMA CommandKeepsThread ==
  ASSUME RunInv, ThreadInv, NEW w \in Workers,
         ToolCall(w) \/ LoseReply(w) \/ RepeatAnsweredQuestion(w)
  PROVE  ThreadInv'
<1>1. WorkerTypeOK
  BY DEF RunInv, CaseInv, TypeInv, TypeOK
<1>2. worker[w].phase = "running"
  BY DEF ToolCall, LoseReply, RepeatAnsweredQuestion,
     CallStartInvestigation, CallAcceptFact, CallSubmitDecision,
     CallOpenHumanRequest, CallReportUnresolvable, CallRequestFinalization,
     CallSubmitFinalReport, Running
<1>3. native.wait.kind = "NONE"
  BY <1>2 DEF ThreadInv, RunOnThread
<1>4. UNCHANGED <<native, runtimeRow, resumeKeys>>
  <2>1. CASE ToolCall(w)
    BY <2>1 DEF ToolCall, CallStartInvestigation, CallAcceptFact,
       CallSubmitDecision, CallOpenHumanRequest, CallReportUnresolvable,
       CallRequestFinalization, CallSubmitFinalReport, workerVars, database,
       outboxRows,
       StartRuleInvestigation, AcceptFact, SubmitRuleDecision,
       OpenHumanRequest, CreateHumanRequest, ReplayHumanRequest,
       ReportUnresolvableHumanFact, RequestFinalization, SubmitFinalReport
  <2>2. CASE LoseReply(w) \/ RepeatAnsweredQuestion(w)
    BY <2>2 DEF LoseReply, RepeatAnsweredQuestion, database, outboxRows,
       OpenHumanRequest, CreateHumanRequest, ReplayHumanRequest
  <2> QED
    BY <2>1, <2>2
<1>5. \A v \in Workers :
        /\ worker'[v].phase = worker[v].phase
        /\ worker'[v].base = worker[v].base
        /\ worker'[v].settlement = worker[v].settlement
  <2>1. \/ UNCHANGED worker
        \/ \E q \in Questions :
             worker' = [worker EXCEPT ![w].asked = @ \cup {q}]
    BY DEF ToolCall, LoseReply, RepeatAnsweredQuestion,
       CallStartInvestigation, CallAcceptFact, CallSubmitDecision,
       CallOpenHumanRequest, CallReportUnresolvable,
       CallRequestFinalization, CallSubmitFinalReport, workerVars
  <2> QED
    BY <1>1, <2>1 DEF WorkerTypeOK, WorkerState
<1> QED
  BY <1>3, <1>4, <1>5, ThreadFrame

(* The owner's answer takes its resume key while the thread waits at it.    *)
LEMMA OwnerKeepsThread ==
  ASSUME RunInv, ThreadInv, OwnerStep
  PROVE  ThreadInv'
<1>1. /\ DatabaseTypeOK
      /\ UNCHANGED <<native, runtimeRow, worker>>
  BY DEF RunInv, CaseInv, TypeInv, TypeOK, OwnerStep, SetUp, Stop, Continue,
     Answer, AnswerUnknown, CompleteRepositorySetup, RequestStop,
     RequestResume, AnswerHumanRequest, DoesNotKnow, workerVars
<1>2. CASE SetUp \/ Stop \/ Continue
  BY <1>1, <1>2, ThreadFrame DEF SetUp, Stop, Continue,
     CompleteRepositorySetup, RequestStop, RequestResume, outboxRows,
     OpenQuestions
<1>3. ASSUME NEW q \in Questions, NEW known \in Nat, NEW shown \in Nat,
             DoesNotKnow(q, shown, known)
      PROVE  ThreadInv'
  <2>1. OpenQuestions' = OpenQuestions
    BY <1>1, <1>3, StatusAfterUnknown DEF OpenQuestions
  <2>2. UNCHANGED resumeKeys
    BY <1>3 DEF DoesNotKnow, outboxRows
  <2> QED
    BY <1>1, <2>1, <2>2, ThreadFrame
<1>4. ASSUME NEW q \in Questions, NEW known \in Nat, NEW shown \in Nat,
             AnswerHumanRequest(q, shown, known)
      PROVE  ThreadInv'
  <2>1. OpenQuestions' = OpenQuestions \ {q}
    BY <1>1, <1>4, OpenAfterAnswered
  <2>2. CASE UNCHANGED resumeKeys
    BY <1>1, <2>1, <2>2, ThreadFrame
  <2>3. CASE ResumesRoot(q) /\ resumeKeys' = resumeKeys \cup {bound}
    <3>1. OpenQuestions' = {}
      BY <2>1, <2>3 DEF ResumesRoot, OpenAfterAnswer
    <3>2. bound = native.checkpoint /\ native.wait.kind = "HUMAN"
      BY <2>3 DEF ThreadInv, InterruptOnThread, ResumesRoot
    <3>3. native.checkpoint \in Nat /\ resumeKeys \in SUBSET Nat
      BY DEF RunInv, CaseInv, TypeInv, TypeOK, DatabaseTypeOK, WorkerTypeOK
    <3>4. KeysArePast'
      BY <1>1, <2>3, <3>1, <3>2, <3>3 DEF ThreadInv, KeysArePast
    <3> QED
      BY <1>1, <3>4 DEF ThreadInv, SoleRun, RunOnThread, InterruptOnThread,
         Authorized, runtimeRow
  <2> QED
    BY <1>4, <2>2, <2>3 DEF AnswerHumanRequest, EnqueueResume, outboxRows
<1>5. /\ 0..caseRevision \subseteq Nat
      /\ \A q \in Questions : 0..requests[q].revision \subseteq Nat
  BY <1>1 DEF DatabaseTypeOK, HumanRequest
<1> QED
  BY <1>2, <1>3, <1>4, <1>5 DEF OwnerStep, Answer, AnswerUnknown

(* The broker, the killer of processes, and a lease nobody runs under.      *)
LEMMA OthersKeepThread ==
  ASSUME RunInv, ThreadInv,
         \/ LeaseExpires /\ ~HolderRuns
         \/ DuplicateCommand
         \/ \E w \in Workers : SkipCommand(w) \/ AbandonRun(w) \/ Crash(w)
  PROVE  ThreadInv'
<1>1. WorkerTypeOK
  BY DEF RunInv, CaseInv, TypeInv, TypeOK
<1>2. CASE LeaseExpires /\ ~HolderRuns
  <2>1. \A w \in Workers : worker[w].phase = "idle"
    BY <1>2 DEF ThreadInv, SoleRun, Authorized, HolderRuns
  <2>2. UNCHANGED <<native, worker, execution, bound, resumeKeys, requests>>
    BY <1>2 DEF LeaseExpires, outboxRows
  <2> QED
    BY <2>1, <2>2 DEF ThreadInv, SoleRun, RunOnThread, InterruptOnThread,
       KeysArePast, OpenQuestions
<1>3. CASE DuplicateCommand \/ \E w \in Workers : SkipCommand(w)
  BY <1>3, ThreadFrame DEF DuplicateCommand, SkipCommand, workerVars,
     OpenQuestions
<1>4. ASSUME NEW w \in Workers, AbandonRun(w) \/ Crash(w) PROVE ThreadInv'
  <2>1. /\ UNCHANGED <<native, runtimeRow, resumeKeys, requests>>
        /\ worker' = [worker EXCEPT ![w] = Idle]
    BY <1>4 DEF AbandonRun, Crash, database, outboxRows
  <2>2. \A v \in Workers :
          worker'[v].phase # "idle" => worker'[v] = worker[v]
    BY <1>1, <2>1 DEF WorkerTypeOK, Idle
  <2> QED
    BY <2>1, <2>2, ThreadFrame DEF OpenQuestions
<1> QED
  BY <1>2, <1>3, <1>4

-----------------------------------------------------------------------------
(* At the start nothing runs, waits or was resumed.                         *)
LEMMA ThreadInvInit == Init => ThreadInv
BY DEF Init, DatabaseInit, WorkerInit, Idle, NoWait, NoLease, ThreadInv,
   SoleRun, RunOnThread, InterruptOnThread, KeysArePast

(* Every step but the expiry of a lease somebody runs under keeps one run   *)
(* on the thread.                                                          *)
LEMMA ThreadInvNext ==
  ASSUME RunInv, ThreadInv, [Next]_vars, LeaseExpires => ~HolderRuns
  PROVE  ThreadInv'
<1>1. CASE UNCHANGED vars
  BY <1>1, ThreadFrame DEF vars, workerVars, database, outboxRows,
     OpenQuestions
<1>2. CASE OwnerStep
  BY <1>2, OwnerKeepsThread
<1>3. CASE MishapStep
  BY <1>3, OthersKeepThread, CommandKeepsThread DEF MishapStep
<1>4. ASSUME NEW w \in Workers, WorkerStep(w) PROVE ThreadInv'
  BY <1>4, ClaimKeepsThread, SettleKeepsThread, RunKeepsThread,
     CommandKeepsThread, OthersKeepThread
  DEF WorkerStep, RunStep
<1> QED
  BY <1>1, <1>2, <1>3, <1>4 DEF Next

(* Where every lease outlasts its run, whoever runs is listened to, builds   *)
(* on the thread's latest checkpoint, and what it stored there is what the  *)
(* API has bound or is about to bind: claims do not overlap runs.           *)
THEOREM OneRunAtATime == Spec /\ LeasesLast => [](RunInv /\ ThreadInv)
<1>1. Init => RunInv /\ ThreadInv
  BY RunInvInit, ThreadInvInit
<1>2. ASSUME RunInv, ThreadInv, [Next]_vars,
             [LeaseExpires => ~HolderRuns]_vars
      PROVE  RunInv' /\ ThreadInv'
  <2>1. RunInv'
    BY <1>2, RunInvNext
  <2>2. CASE UNCHANGED vars
    BY <1>2, <2>1, <2>2, ThreadFrame
    DEF vars, workerVars, database, outboxRows, OpenQuestions
  <2>3. CASE LeaseExpires => ~HolderRuns
    BY <1>2, <2>1, <2>3, ThreadInvNext
  <2> QED
    BY <1>2, <2>2, <2>3
<1> QED
  BY <1>1, <1>2, PTL DEF Spec, LeasesLast

(* Becoming ACTIVE is never silent where leases outlast their runs: the     *)
(* idempotency key of the human resume never swallows a wake-up that is     *)
(* still needed, whoever crashes, whatever is lost, repeated or delivered   *)
(* twice.                                                                  *)
THEOREM NoWakeUpLostWhileLeasesLast == Spec /\ LeasesLast => NoWakeUpLost
<1>1. ASSUME RunInv, ThreadInv, [Next]_vars
      PROVE  [lifecycle # "ACTIVE" /\ lifecycle' = "ACTIVE" =>
                commands' > commands \/ execution'.state = "RUNNING"]_vars
  <2> SUFFICES ASSUME Next, lifecycle # "ACTIVE", lifecycle' = "ACTIVE"
               PROVE  commands' > commands \/ execution'.state = "RUNNING"
    BY <1>1
  <2>1. commands \in Nat
    BY <1>1 DEF RunInv, CaseInv, TypeInv, TypeOK, DatabaseTypeOK
  <2>2. CASE OwnerStep
    <3>1. CASE SetUp \/ Stop \/ Continue \/ AnswerUnknown
      BY <2>1, <3>1 DEF SetUp, Stop, Continue, AnswerUnknown,
         CompleteRepositorySetup, RequestStop, RequestResume, DoesNotKnow,
         assessmentRow
    <3>2. ASSUME NEW q \in Questions, NEW known, NEW shown,
                 AnswerHumanRequest(q, shown, known)
          PROVE  commands' > commands
      <4>1. ResumesRoot(q) /\ EnqueueResume(bound)
        BY <3>2 DEF AnswerHumanRequest, assessmentRow
      <4>2. OpenQuestions # {} /\ bound = native.checkpoint
        BY <1>1, <3>2, <4>1 DEF AnswerHumanRequest, Answerable,
           OpenQuestions, ResumesRoot, ThreadInv, InterruptOnThread
      <4>3. bound \notin resumeKeys
        BY <1>1, <4>2 DEF ThreadInv, KeysArePast
      <4> QED
        BY <2>1, <4>1, <4>3 DEF EnqueueResume
    <3> QED
      BY <2>2, <3>1, <3>2 DEF OwnerStep, Answer
  <2>3. CASE MishapStep
    BY <2>3 DEF MishapStep, LoseReply, RepeatAnsweredQuestion, Crash,
       LeaseExpires, DuplicateCommand, OpenHumanRequest, CreateHumanRequest,
       ReplayHumanRequest, Transition, assessmentRow, database
  <2>4. ASSUME NEW w \in Workers, WorkerStep(w)
        PROVE  execution'.state = "RUNNING"
    <3>1. CASE TakeCommand(w)
      BY <3>1 DEF TakeCommand, ClaimRoot
    <3>2. CASE SkipCommand(w)
      BY <3>2 DEF SkipCommand, assessmentRow
    <3>3. CASE ToolCall(w)
      BY <3>3 DEF ToolCall, CallStartInvestigation, CallAcceptFact,
         CallSubmitDecision, CallOpenHumanRequest, CallReportUnresolvable,
         CallRequestFinalization, CallSubmitFinalReport, database,
         assessmentRow, StartRuleInvestigation, AcceptFact,
         SubmitRuleDecision, OpenHumanRequest, CreateHumanRequest,
         ReplayHumanRequest, ReportUnresolvableHumanFact,
         RequestFinalization, SubmitFinalReport, Transition
    <3>4. CASE RunStep(w)
      BY <3>4 DEF RunStep, StartRun, AbandonRun, CommitResumed,
         CommitSuperstep, ObserveStop, PersistHumanWait, EndRun, FailRun,
         Settle, FinishExecution, Transition, database, assessmentRow
    <3> QED
      BY <2>4, <3>1, <3>2, <3>3, <3>4 DEF WorkerStep
  <2> QED
    BY <2>2, <2>3, <2>4 DEF Next
<1> QED
  BY <1>1, OneRunAtATime, PTL DEF Spec, NoWakeUpLost

-----------------------------------------------------------------------------
(* A run undisturbed: its lease does not expire, every reply arrives and an *)
(* answered question is not asked again.  Workers may still be killed, and  *)
(* commands delivered twice.                                               *)
Disturbance ==
  \/ LeaseExpires
  \/ \E w \in Workers : LoseReply(w) \/ RepeatAnsweredQuestion(w)

Undisturbed == [][~Disturbance]_vars

(* An execution that runs holds a live lease.                              *)
RunsUnderLease == execution.state = "RUNNING" => lease.live

(* The run knows every open question: none is open before its supersteps,   *)
(* and the tools of the superstep wait for exactly the open ones.           *)
RunKnowsQuestions ==
  \A w \in Workers :
    /\ worker[w].phase \in {"claimed", "resuming"} => OpenQuestions = {}
    /\ worker[w].phase = "running" => worker[w].asked = OpenQuestions
    /\ worker[w].phase = "settling"
         /\ worker[w].settlement.outcome = "INTERRUPTED"
       => /\ worker[w].settlement.questions = OpenQuestions
          /\ OpenQuestions # {}
          /\ worker[w].settlement.checkpoint # 0
    /\ worker[w].phase # "idle" =>
         \A q \in OpenQuestions : requests[q].checkpoint = 0

(* While it runs, a human blocker is one of the open questions.            *)
BlockerIsOpen ==
  lifecycle = "BLOCKED" /\ execution.state = "RUNNING"
    => blocker \in OpenQuestions

QuestionInv == RunsUnderLease /\ RunKnowsQuestions /\ BlockerIsOpen

CalmInv == PauseInv /\ ThreadInv /\ QuestionInv

-----------------------------------------------------------------------------
(* A step that leaves execution, lease, questions and runs alone, and       *)
(* blocks nothing.                                                         *)
LEMMA QuestionFrame ==
  ASSUME QuestionInv, UNCHANGED <<execution, lease, requests, worker>>,
         UNCHANGED assessmentRow \/ lifecycle' # "BLOCKED"
  PROVE  QuestionInv'
<1>1. OpenQuestions' = OpenQuestions
  BY DEF OpenQuestions
<1>2. RunsUnderLease'
  BY DEF QuestionInv, RunsUnderLease
<1>3. RunKnowsQuestions'
  BY <1>1 DEF QuestionInv, RunKnowsQuestions
<1>4. BlockerIsOpen'
  BY <1>1 DEF QuestionInv, BlockerIsOpen, assessmentRow
<1> QED
  BY <1>2, <1>3, <1>4 DEF QuestionInv

(* The claim is made with no question open.                                *)
LEMMA ClaimKnowsQuestions ==
  ASSUME CalmInv, NEW w \in Workers, TakeCommand(w)
  PROVE  QuestionInv'
<1>1. /\ DatabaseTypeOK /\ ExecutionInv /\ WaitingInv /\ WorkerTypeOK
      /\ RunsUnderLease
  BY DEF CalmInv, PauseInv, RunInv, CaseInv, TypeInv, TypeOK, QuestionInv
<1>2. \A v \in Workers : worker[v].phase = "idle"
  BY WorkersAssumption DEF CalmInv, ThreadInv, SoleRun, Authorized,
     TakeCommand, ClaimRoot, Claimable, LeaseHeld
<1>3. /\ UNCHANGED requests
      /\ worker'[w].phase = "claimed"
      /\ \A v \in Workers \ {w} : worker'[v] = worker[v]
  BY <1>1 DEF TakeCommand, ClaimRoot, WorkerTypeOK
<1>4. lease'.live
  BY DEF TakeCommand, ClaimRoot
<1>5. ~RecoveringHumanInterrupt
  BY <1>1 DEF RecoveringHumanInterrupt, RunsUnderLease
<1>6. OpenQuestions = {} /\ lifecycle' = "ACTIVE"
  BY <1>1, <1>5 DEF TakeCommand, ClaimRoot, Claimable, WaitingInv,
     WaitsForOpenQuestion, Transition, assessmentRow, SafePauseResume
<1>7. OpenQuestions' = {}
  BY <1>3, <1>6 DEF OpenQuestions
<1> QED
  BY <1>2, <1>3, <1>4, <1>6, <1>7
  DEF QuestionInv, RunsUnderLease, RunKnowsQuestions, BlockerIsOpen

(* After the settlement nobody runs.                                       *)
LEMMA SettleKnowsQuestions ==
  ASSUME CalmInv, NEW w \in Workers, Settle(w)
  PROVE  QuestionInv'
<1>1. /\ DatabaseTypeOK /\ WorkerTypeOK
      /\ worker[w].settlement \in Settlement
      /\ worker[w].settlement.outcome # "NONE"
  BY DEF CalmInv, PauseInv, RunInv, CaseInv, TypeInv, TypeOK, WorkerTypeOK,
     WorkerState, SettlesAnOutcome, Settle
<1>2. \A v \in Workers : worker'[v].phase = "idle"
  BY <1>1, OneAuthorized DEF CalmInv, ThreadInv, SoleRun, Settle,
     WorkerTypeOK, Idle
<1>3. RunKnowsQuestions'
  BY <1>2 DEF RunKnowsQuestions
<1>4. CASE FinishExecution(w, worker[w].settlement)
  <2>1. execution'.state # "RUNNING"
    BY <1>1, <1>4 DEF FinishExecution, DatabaseTypeOK, Settlement
  <2> QED
    BY <1>3, <2>1 DEF QuestionInv, RunsUnderLease, BlockerIsOpen
<1>5. CASE UNCHANGED database
  BY <1>3, <1>5 DEF CalmInv, QuestionInv, RunsUnderLease, BlockerIsOpen,
     database, assessmentRow, runtimeRow, OpenQuestions
<1> QED
  BY <1>4, <1>5 DEF Settle

(* The run moves without the database.                                     *)
LEMMA RunKnowsItsQuestions ==
  ASSUME CalmInv, NEW w \in Workers,
         \/ StartRun(w) \/ CommitResumed(w) \/ CommitSuperstep(w)
         \/ ObserveStop(w) \/ PersistHumanWait(w) \/ EndRun(w) \/ FailRun(w)
  PROVE  QuestionInv'
<1>1. /\ UNCHANGED database
      /\ worker[w].phase # "idle"
      /\ WorkerTypeOK
  BY DEF CalmInv, PauseInv, RunInv, CaseInv, TypeInv, TypeOK, StartRun,
     CommitResumed, CommitSuperstep, ObserveStop, PersistHumanWait, EndRun,
     FailRun, Running
<1>2. ASSUME NEW run, worker' = [worker EXCEPT ![w] = run],
             run.phase \in {"resuming", "running", "settling"},
             run.phase = "resuming" => OpenQuestions = {},
             run.phase = "running" => run.asked = OpenQuestions,
             run.phase = "settling"
               /\ run.settlement.outcome = "INTERRUPTED"
             => /\ run.settlement.questions = OpenQuestions
                /\ OpenQuestions # {}
                /\ run.settlement.checkpoint # 0
      PROVE  QuestionInv'
  <2>1. /\ worker'[w] = run
        /\ \A v \in Workers \ {w} : worker'[v] = worker[v]
    BY <1>1, <1>2 DEF WorkerTypeOK
  <2>2. OpenQuestions' = OpenQuestions /\ UNCHANGED requests
    BY <1>1 DEF database, OpenQuestions
  <2>3. RunKnowsQuestions'
    BY <1>1, <1>2, <2>1, <2>2 DEF CalmInv, QuestionInv, RunKnowsQuestions
  <2> QED
    BY <1>1, <2>2, <2>3 DEF CalmInv, QuestionInv, RunsUnderLease,
       BlockerIsOpen, database, assessmentRow, runtimeRow
<1>3. ASSUME NEW settlement, Settling(w, settlement),
             settlement.outcome # "INTERRUPTED"
      PROVE  QuestionInv'
  BY <1>2, <1>3 DEF Settling
<1>4. ASSUME NEW phase \in {"resuming", "running"}, NEW base,
             GoesOn(w, phase, base, {}), OpenQuestions = {}
      PROVE  QuestionInv'
  BY <1>2, <1>4 DEF GoesOn
<1>5. CASE StartRun(w)
  <2>1. OpenQuestions = {}
    BY <1>5 DEF StartRun, CalmInv, QuestionInv, RunKnowsQuestions
  <2> QED
    BY <1>3, <1>4, <1>5, <2>1
    DEF StartRun, Outcome, Unsettled, Paused
<1>6. CASE CommitResumed(w) \/ CommitSuperstep(w)
  <2>1. OpenQuestions = {}
    BY <1>6 DEF CommitResumed, CommitSuperstep, CalmInv, QuestionInv,
       RunKnowsQuestions
  <2> QED
    BY <1>4, <1>6, <2>1 DEF CommitResumed, CommitSuperstep, ThreadAdvances
<1>7. CASE PersistHumanWait(w)
  <2>1. worker[w].asked = OpenQuestions /\ OpenQuestions # {}
    BY <1>7 DEF PersistHumanWait, Running, CalmInv, QuestionInv,
       RunKnowsQuestions
  <2>2. native.checkpoint # 0
    BY <1>7 DEF PersistHumanWait, Running, CalmInv, PauseInv, StopInv,
       ThreadStarted
  <2>3. Settling(w, Interrupted(native.checkpoint, worker[w].asked))
    BY <1>7 DEF PersistHumanWait
  <2> QED
    BY <1>2, <2>1, <2>2, <2>3 DEF Settling, Interrupted
<1>8. CASE ObserveStop(w) \/ EndRun(w) \/ FailRun(w)
  BY <1>3, <1>8 DEF ObserveStop, EndRun, FailRun, Outcome, Unsettled, Paused
<1> QED
  BY <1>5, <1>6, <1>7, <1>8

(* The commands of the run: a tool that opens a question waits for it.      *)
LEMMA CommandKnowsQuestions ==
  ASSUME CalmInv, NEW w \in Workers, ToolCall(w)
  PROVE  QuestionInv'
<1>1. /\ DatabaseTypeOK /\ WorkerTypeOK
      /\ worker[w].phase = "running" /\ Authorized(w)
  BY DEF CalmInv, PauseInv, RunInv, CaseInv, TypeInv, TypeOK, ToolCall,
     CallStartInvestigation, CallAcceptFact, CallSubmitDecision,
     CallOpenHumanRequest, CallReportUnresolvable, CallRequestFinalization,
     CallSubmitFinalReport, Running, StartRuleInvestigation, AcceptFact,
     SubmitRuleDecision, Governed, OpenHumanRequest,
     ReportUnresolvableHumanFact, RequestFinalization, SubmitFinalReport
<1>2. CASE \/ CallStartInvestigation(w) \/ CallAcceptFact(w)
           \/ CallSubmitDecision(w) \/ CallRequestFinalization(w)
           \/ CallSubmitFinalReport(w)
  BY <1>2, QuestionFrame DEF CalmInv, CallStartInvestigation,
     CallAcceptFact, CallSubmitDecision, CallRequestFinalization,
     CallSubmitFinalReport, StartRuleInvestigation, AcceptFact,
     SubmitRuleDecision, RequestFinalization, SubmitFinalReport,
     Transition, workerVars, runtimeRow
<1>3. CASE CallReportUnresolvable(w)
  <2>1. /\ UNCHANGED <<execution, lease, requests, worker>>
        /\ \/ UNCHANGED assessmentRow
           \/ blocker' \in OpenQuestions
    BY <1>1, <1>3 DEF CallReportUnresolvable, ReportUnresolvableHumanFact,
       Transition, workerVars, runtimeRow, OpenQuestions, WorkerTypeOK,
       WorkerState
  <2>2. CASE UNCHANGED assessmentRow
    BY <2>1, <2>2, QuestionFrame DEF CalmInv
  <2>3. CASE blocker' \in OpenQuestions
    BY <2>1, <2>3 DEF CalmInv, QuestionInv, RunsUnderLease,
       RunKnowsQuestions, BlockerIsOpen, OpenQuestions
  <2> QED
    BY <2>1, <2>2, <2>3
<1>4. CASE CallOpenHumanRequest(w)
  <2>1. PICK q \in Questions, known \in 0..caseRevision :
          /\ q \notin worker[w].asked
          /\ requests[q].status # "RESOLVED"
          /\ OpenHumanRequest(w, q, known)
          /\ worker' = [worker EXCEPT ![w].asked = @ \cup {q}]
    BY <1>4 DEF CallOpenHumanRequest
  <2>2. known \in Nat
    BY <1>1 DEF DatabaseTypeOK
  <2>3. /\ worker[w].asked = OpenQuestions
        /\ \A open \in OpenQuestions : requests[open].checkpoint = 0
    BY <1>1 DEF CalmInv, QuestionInv, RunKnowsQuestions
  <2>4. CreateHumanRequest(q, known)
    BY <1>1, <2>1, <2>3 DEF OpenHumanRequest, ReplayHumanRequest,
       OpenQuestions, DatabaseTypeOK, HumanRequest
  <2>5. /\ OpenQuestions' = OpenQuestions \cup {q}
        /\ \A open \in OpenQuestions' : requests'[open].checkpoint = 0
    <3>1. OpenQuestions' = OpenQuestions \cup {q}
      BY <1>1, <2>2, <2>4, OpenAfterCreate
    <3>2. /\ requests'[q].checkpoint = 0
          /\ \A other \in Questions \ {q} : requests'[other] = requests[other]
      BY <1>1, <2>4 DEF CreateHumanRequest, DatabaseTypeOK
    <3> QED
      BY <2>3, <3>1, <3>2 DEF OpenQuestions
  <2>6. /\ worker'[w].phase = "running"
        /\ worker'[w].asked = OpenQuestions'
        /\ \A v \in Workers \ {w} : worker'[v] = worker[v]
    BY <1>1, <2>1, <2>3, <2>5 DEF WorkerTypeOK, WorkerState
  <2>7. \A v \in Workers \ {w} : worker[v].phase = "idle"
    BY <1>1, OneAuthorized DEF CalmInv, ThreadInv, SoleRun
  <2>8. RunKnowsQuestions'
    BY <2>5, <2>6, <2>7 DEF RunKnowsQuestions
  <2>9. RunsUnderLease' /\ BlockerIsOpen'
    BY <2>4, <2>5 DEF CalmInv, QuestionInv, RunsUnderLease, BlockerIsOpen,
       CreateHumanRequest, Transition, runtimeRow, assessmentRow
  <2> QED
    BY <2>8, <2>9 DEF QuestionInv
<1> QED
  BY <1>2, <1>3, <1>4 DEF ToolCall

(* The owner answers only while nothing runs.                              *)
LEMMA OwnerKnowsQuestions ==
  ASSUME CalmInv, OwnerStep
  PROVE  QuestionInv'
<1>1. CASE SetUp \/ Stop \/ Continue
  BY <1>1, QuestionFrame DEF CalmInv, SetUp, Stop, Continue,
     CompleteRepositorySetup, RequestStop, RequestResume, Transition,
     workerVars, runtimeRow
<1>2. CASE Answer \/ AnswerUnknown
  <2>1. /\ execution.state # "RUNNING"
        /\ UNCHANGED <<execution, worker>>
    BY <1>2 DEF Answer, AnswerUnknown, AnswerHumanRequest, DoesNotKnow,
       Answerable, runtimeRow, workerVars
  <2>2. \A w \in Workers : worker[w].phase = "idle"
    BY <2>1 DEF CalmInv, ThreadInv, SoleRun, Authorized
  <2> QED
    BY <2>1, <2>2 DEF QuestionInv, RunsUnderLease, RunKnowsQuestions,
       BlockerIsOpen
<1> QED
  BY <1>1, <1>2 DEF OwnerStep

(* A killed worker forgets its questions; nobody is told to go on for it    *)
(* while its lease lasts.                                                  *)
LEMMA KillKnowsQuestions ==
  ASSUME CalmInv, NEW w \in Workers, Crash(w)
  PROVE  QuestionInv'
<1>1. /\ UNCHANGED <<assessmentRow, runtimeRow, requests>>
      /\ worker' = [worker EXCEPT ![w] = Idle]
      /\ WorkerTypeOK
  BY DEF Crash, CalmInv, PauseInv, RunInv, CaseInv, TypeInv, TypeOK
<1>2. OpenQuestions' = OpenQuestions
  BY <1>1 DEF OpenQuestions
<1>3. \A v \in Workers : worker'[v].phase # "idle" => worker'[v] = worker[v]
  BY <1>1 DEF WorkerTypeOK, Idle
<1>4. RunKnowsQuestions'
  BY <1>1, <1>2, <1>3 DEF CalmInv, QuestionInv, RunKnowsQuestions
<1> QED
  BY <1>1, <1>2, <1>4 DEF CalmInv, QuestionInv, RunsUnderLease, BlockerIsOpen,
     assessmentRow, runtimeRow

-----------------------------------------------------------------------------
(* Every step but a disturbance keeps the run aware of its questions.       *)
LEMMA CalmInvNext ==
  ASSUME CalmInv, [Next]_vars, ~Disturbance
  PROVE  QuestionInv'
<1>1. CASE UNCHANGED vars \/ DuplicateCommand
  BY <1>1, QuestionFrame DEF CalmInv, vars, workerVars, database, runtimeRow,
     DuplicateCommand
<1>2. CASE OwnerStep
  BY <1>2, OwnerKnowsQuestions
<1>3. ASSUME NEW w \in Workers, Crash(w) PROVE QuestionInv'
  BY <1>3, KillKnowsQuestions
<1>4. ASSUME NEW w \in Workers, WorkerStep(w) PROVE QuestionInv'
  <2>1. CASE SkipCommand(w)
    BY <2>1, QuestionFrame DEF CalmInv, SkipCommand, workerVars, runtimeRow
  <2>2. ~AbandonRun(w)
    BY DEF CalmInv, ThreadInv, SoleRun, AbandonRun
  <2> QED
    BY <1>4, <2>1, <2>2, ClaimKnowsQuestions, SettleKnowsQuestions,
       RunKnowsItsQuestions, CommandKnowsQuestions
    DEF WorkerStep, RunStep
<1> QED
  BY <1>1, <1>2, <1>3, <1>4 DEF Next, MishapStep, Disturbance

(* An undisturbed run is one whose lease lasts.                             *)
LEMMA UndisturbedLeasesLast == Spec /\ Undisturbed => LeasesLast
<1>1. [~Disturbance]_vars => [LeaseExpires => ~HolderRuns]_vars
  BY DEF Disturbance
<1> QED
  BY <1>1, PTL DEF Undisturbed, LeasesLast

(* Without mishaps every run is undisturbed: the hypotheses above are those *)
(* of an instance that allows no mishap.                                   *)
LEMMA MishapFreeIsUndisturbed ==
  ASSUME MaxMishaps = 0
  PROVE  Spec => Undisturbed
<1>1. PauseInv /\ [Next]_vars => [~Disturbance]_vars
  <2> SUFFICES ASSUME PauseInv, Disturbance PROVE FALSE
    OBVIOUS
  <2>1. mishaps \in Nat
    BY DEF PauseInv, RunInv, CaseInv, TypeInv, TypeOK, WorkerTypeOK
  <2> QED
    BY <2>1 DEF Disturbance, LoseReply, RepeatAnsweredQuestion,
       LeaseExpires, Mishap
<1> QED
  BY <1>1, StopCorrect, PTL DEF Spec, Undisturbed

(* The inductive invariant behind the two theorems below.                   *)
THEOREM CalmCorrect == Spec /\ Undisturbed => []CalmInv
<1>1. Init => QuestionInv
  BY DEF Init, DatabaseInit, WorkerInit, Idle, QuestionInv, RunsUnderLease,
     RunKnowsQuestions, BlockerIsOpen
<1>2. Spec /\ Undisturbed => LeasesLast
  BY UndisturbedLeasesLast
<1>3. ASSUME CalmInv, [Next]_vars, [~Disturbance]_vars
      PROVE  QuestionInv'
  <2>1. CASE UNCHANGED vars
    BY <1>3, <2>1, QuestionFrame DEF CalmInv, vars, workerVars, database,
       runtimeRow
  <2>2. CASE ~Disturbance
    BY <1>3, <2>2, CalmInvNext
  <2> QED
    BY <1>3, <2>1, <2>2
<1>4. Spec /\ LeasesLast => [](PauseInv /\ ThreadInv)
  BY StopCorrect, OneRunAtATime, PTL
<1>5. PauseInv /\ ThreadInv /\ QuestionInv <=> CalmInv
  BY DEF CalmInv
<1> QED
  BY <1>1, <1>2, <1>3, <1>4, <1>5, PTL DEF Spec, Undisturbed

(* Without an expiry, a lost reply or a repeated question an interrupt is   *)
(* never refused, whoever is killed and whatever is delivered twice.        *)
THEOREM InterruptIsNeverRefusedUndisturbed ==
  Spec /\ Undisturbed => []InterruptIsNeverRefused
<1>1. CalmInv => InterruptIsNeverRefused
  <2> SUFFICES ASSUME CalmInv, NEW w \in Workers,
                      worker[w].phase = "settling",
                      worker[w].settlement.outcome = "INTERRUPTED"
               PROVE  InterruptIsValid(worker[w].settlement)
    BY DEF InterruptIsNeverRefused
  <2>1. /\ worker[w].settlement.checkpoint # 0
        /\ OpenQuestions # {}
        /\ worker[w].settlement.questions = OpenQuestions
        /\ \A q \in OpenQuestions : requests[q].checkpoint = 0
    BY DEF CalmInv, QuestionInv, RunKnowsQuestions
  <2>2. \/ lifecycle = "WAITING_FOR_HUMAN"
        \/ HumanBlocked /\ blocker \in OpenQuestions
    BY <2>1 DEF CalmInv, PauseInv, RunInv, CaseInv, WaitingInv,
       WaitsForOpenQuestion, BlockerNamesBlock, ThreadInv, SoleRun,
       Authorized, QuestionInv, BlockerIsOpen, HumanBlocked
  <2> QED
    BY <2>1, <2>2 DEF InterruptIsValid
<1> QED
  BY <1>1, CalmCorrect, PTL

(* In such a run no settlement is refused at all: whatever the owner does   *)
(* meanwhile, the outcome the worker reports is the one that is stored.     *)
THEOREM SettlementIsAccepted ==
  Spec /\ Undisturbed =>
    [](\A w \in Workers :
         worker[w].phase = "settling"
           => SettlementAccepted(w, worker[w].settlement))
<1>1. ASSUME CalmInv, PauseIsNeverRefused, InterruptIsNeverRefused,
             NEW w \in Workers, worker[w].phase = "settling"
      PROVE  SettlementAccepted(w, worker[w].settlement)
  BY <1>1 DEF CalmInv, ThreadInv, SoleRun, PauseIsNeverRefused,
     InterruptIsNeverRefused, SettlementAccepted
<1>2. CalmInv /\ PauseIsNeverRefused /\ InterruptIsNeverRefused =>
        \A w \in Workers :
          worker[w].phase = "settling"
            => SettlementAccepted(w, worker[w].settlement)
  BY <1>1
<1> QED
  BY <1>2, CalmCorrect, PauseIsNeverRefusedAlways,
     InterruptIsNeverRefusedUndisturbed, PTL

-----------------------------------------------------------------------------
(* Commands delivered on time: no lease expires, and the broker repeats a   *)
(* command only for a worker that was killed.                              *)
OnTime == [][~(LeaseExpires \/ DuplicateCommand)]_vars

(* Whoever runs has taken the only command.                                *)
RunTookCommand ==
  \A w \in Workers : worker[w].phase # "idle" => commands = 0

(* Before the repository is set up nothing was claimed, and before the      *)
(* first claim nothing waits on the thread.                                *)
NothingClaimedYet ==
  /\ lifecycle = "PREPARING" => execution.state = "QUEUED" /\ commands = 0
  /\ execution.state = "QUEUED" => native.wait.kind = "NONE"

(* Unless a killed worker still holds the lease, a command is there because *)
(* the assessment was set up, its last question answered, or its owner      *)
(* wants to continue; it is the only one.                                  *)
CommandIsDue ==
  commands > 0 /\ execution.state # "RUNNING" =>
    /\ commands = 1
    /\ \/ execution.state = "QUEUED"
       \/ execution.state = "INTERRUPTED" /\ OpenQuestions = {}
       \/ execution.state = "PAUSED" /\ turn.state = "RESUME_REQUESTED"

(* A pause waits on the thread, from the moment it is reported.             *)
PauseOnThread ==
  /\ \A w \in Workers : SettlesPause(w) => native.wait.kind = "STOP"
  /\ execution.state = "PAUSED" => native.wait.kind = "STOP"

(* A claim that finds a question waiting on the thread names its checkpoint. *)
ClaimsAtWait ==
  \A w \in Workers :
    worker[w].phase = "claimed" /\ native.wait.kind = "HUMAN"
      => worker[w].expected = native.checkpoint

DueInv ==
  /\ RunsUnderLease /\ RunTookCommand /\ NothingClaimedYet
  /\ CommandIsDue /\ PauseOnThread /\ ClaimsAtWait

OnTimeInv == RunInv /\ ThreadInv /\ DueInv

-----------------------------------------------------------------------------
(* The claim takes the command that was due, at the checkpoint the thread   *)
(* waits at.                                                               *)
LEMMA ClaimIsDue ==
  ASSUME OnTimeInv, NEW w \in Workers, TakeCommand(w)
  PROVE  DueInv'
<1>1. /\ DatabaseTypeOK /\ ExecutionInv /\ WorkerTypeOK /\ RunsUnderLease
      /\ NothingClaimedYet /\ CommandIsDue /\ PauseOnThread
      /\ InterruptOnThread /\ SoleRun
  BY DEF OnTimeInv, RunInv, CaseInv, TypeInv, TypeOK, DueInv, ThreadInv
<1>2. execution.state # "RUNNING"
  BY <1>1 DEF TakeCommand, ClaimRoot, Claimable, LeaseHeld, ExecutionInv,
     LeaseAgrees, RunsUnderLease
<1>3. \A v \in Workers : worker[v].phase = "idle"
  BY <1>1, <1>2 DEF SoleRun, Authorized
<1>4. /\ commands = 1
      /\ execution.state \in {"QUEUED", "INTERRUPTED", "PAUSED"}
  BY <1>1, <1>2 DEF CommandIsDue, TakeCommand
<1>5. /\ UNCHANGED native
      /\ commands' = 0
      /\ execution'.state = "RUNNING" /\ lease'.live
      /\ lifecycle' # "PREPARING"
  BY <1>1, <1>4 DEF TakeCommand, ClaimRoot, Claimable, Transition,
     RecoveringHumanInterrupt, SafePauseResume, HumanBlocked, assessmentRow
<1>6. /\ worker'[w].phase = "claimed"
      /\ worker'[w].expected = ClaimedCheckpoint
      /\ \A v \in Workers \ {w} : worker'[v] = worker[v]
  BY <1>1 DEF TakeCommand, WorkerTypeOK
<1>7. native.wait.kind = "HUMAN" => ClaimedCheckpoint = native.checkpoint
  BY <1>1, <1>4 DEF NothingClaimedYet, PauseOnThread, InterruptOnThread,
     ClaimedCheckpoint, ResumesSameExecution, ExecutionInv, LeaseAgrees
<1>8. PauseOnThread' /\ ClaimsAtWait'
  BY <1>3, <1>5, <1>6, <1>7 DEF PauseOnThread, ClaimsAtWait, SettlesPause
<1> QED
  BY <1>5, <1>8 DEF DueInv, RunsUnderLease, RunTookCommand,
     NothingClaimedYet, CommandIsDue

(* After a settlement nobody runs and no command is there.                  *)
LEMMA SettlementLeavesNone ==
  ASSUME OnTimeInv, NEW w \in Workers, Settle(w)
  PROVE  DueInv'
<1>1. /\ DatabaseTypeOK /\ WorkerTypeOK /\ DueInv /\ SoleRun
      /\ worker[w].settlement \in Settlement
      /\ worker[w].settlement.outcome # "NONE"
  BY DEF OnTimeInv, RunInv, CaseInv, TypeInv, TypeOK, WorkerTypeOK,
     WorkerState, SettlesAnOutcome, Settle, ThreadInv
<1>2. /\ UNCHANGED native
      /\ \A v \in Workers : worker'[v].phase = "idle"
  BY <1>1, OneAuthorized DEF SoleRun, Settle, WorkerTypeOK, Idle
<1>3. commands = 0 /\ execution.state = "RUNNING"
  BY <1>1 DEF DueInv, RunTookCommand, SoleRun, Authorized, Settle
<1>4. CASE FinishExecution(w, worker[w].settlement)
  <2>1. /\ execution'.state = worker[w].settlement.outcome
        /\ execution'.state \notin {"RUNNING", "QUEUED"}
        /\ commands' = 0
        /\ lifecycle' # "PREPARING"
    BY <1>1, <1>3, <1>4 DEF FinishExecution, DatabaseTypeOK, Settlement,
       outboxRows, assessmentRow, Transition, DueInv, NothingClaimedYet
  <2>2. PauseOnThread'
    BY <1>1, <1>2, <2>1 DEF DueInv, PauseOnThread, SettlesPause, Settle
  <2> QED
    BY <1>2, <2>1, <2>2 DEF DueInv, RunsUnderLease, RunTookCommand,
       NothingClaimedYet, CommandIsDue, ClaimsAtWait
<1>5. CASE UNCHANGED database
  BY <1>1, <1>2, <1>3, <1>5 DEF DueInv, RunsUnderLease, RunTookCommand,
     NothingClaimedYet, CommandIsDue, PauseOnThread, ClaimsAtWait,
     SettlesPause, database, assessmentRow, runtimeRow, outboxRows
<1> QED
  BY <1>4, <1>5 DEF Settle

(* A run moves on the thread: no command is there, and it reports a pause   *)
(* only where it stored one.                                               *)
LEMMA RunIsDue ==
  ASSUME OnTimeInv, NEW w \in Workers,
         \/ StartRun(w) \/ CommitResumed(w) \/ CommitSuperstep(w)
         \/ ObserveStop(w) \/ PersistHumanWait(w) \/ EndRun(w) \/ FailRun(w)
  PROVE  DueInv'
<1>1. /\ WorkerTypeOK /\ DueInv /\ SoleRun /\ RunOnThread
      /\ UNCHANGED database
      /\ worker[w].phase # "idle"
  BY DEF OnTimeInv, RunInv, CaseInv, TypeInv, TypeOK, ThreadInv, StartRun,
     CommitResumed, CommitSuperstep, ObserveStop, PersistHumanWait, EndRun,
     FailRun, Running
<1>2. /\ commands = 0 /\ execution.state = "RUNNING"
      /\ \A v \in Workers \ {w} : worker[v].phase = "idle"
  BY <1>1, OneAuthorized DEF DueInv, RunTookCommand, SoleRun, Authorized
<1>3. \A v \in Workers \ {w} : worker'[v] = worker[v]
  BY <1>1 DEF StartRun, CommitResumed, CommitSuperstep, ObserveStop,
     PersistHumanWait, EndRun, FailRun, Settling, GoesOn, ThreadAdvances,
     WorkerTypeOK
<1>4. /\ worker'[w].phase # "claimed"
      /\ SettlesPause(w)' => native'.wait.kind = "STOP"
  <2>1. ASSUME NEW settlement, Settling(w, settlement),
               settlement.outcome = "PAUSED" => native'.wait.kind = "STOP"
        PROVE  /\ worker'[w].phase # "claimed"
               /\ SettlesPause(w)' => native'.wait.kind = "STOP"
    BY <1>1, <2>1 DEF Settling, SettlesPause, WorkerTypeOK
  <2>2. ASSUME NEW phase \in {"resuming", "running"}, NEW base, NEW asked,
               GoesOn(w, phase, base, asked)
        PROVE  /\ worker'[w].phase # "claimed"
               /\ SettlesPause(w)' => native'.wait.kind = "STOP"
    BY <1>1, <2>2 DEF GoesOn, SettlesPause, WorkerTypeOK
  <2>3. CASE StartRun(w)
    BY <2>1, <2>2, <2>3 DEF StartRun, Outcome, Unsettled, Paused, Interrupted
  <2>4. CASE CommitResumed(w) \/ CommitSuperstep(w)
    BY <2>2, <2>4 DEF CommitResumed, CommitSuperstep, ThreadAdvances
  <2>5. CASE ObserveStop(w)
    BY <1>1, <2>1, <2>5 DEF ObserveStop, Running, RunOnThread, Store,
       WorkerTypeOK, Wait
  <2>6. CASE PersistHumanWait(w) \/ EndRun(w) \/ FailRun(w)
    BY <2>1, <2>6 DEF PersistHumanWait, EndRun, FailRun, Outcome, Unsettled,
       Interrupted
  <2> QED
    BY <2>3, <2>4, <2>5, <2>6
<1>5. PauseOnThread' /\ ClaimsAtWait'
  BY <1>1, <1>2, <1>3, <1>4 DEF PauseOnThread, ClaimsAtWait, SettlesPause,
     database, runtimeRow
<1> QED
  BY <1>1, <1>2, <1>5 DEF DueInv, RunsUnderLease, RunTookCommand,
     NothingClaimedYet, CommandIsDue, database, assessmentRow, runtimeRow,
     outboxRows

(* A governed command of the run asks for nobody.                          *)
LEMMA ToolsAskForNobody ==
  ASSUME OnTimeInv, NEW w \in Workers,
         ToolCall(w) \/ LoseReply(w) \/ RepeatAnsweredQuestion(w)
  PROVE  DueInv'
<1>1. /\ WorkerTypeOK /\ DueInv /\ SoleRun
      /\ worker[w].phase # "idle"
  BY DEF OnTimeInv, RunInv, CaseInv, TypeInv, TypeOK, ThreadInv, ToolCall,
     LoseReply, RepeatAnsweredQuestion, CallStartInvestigation,
     CallAcceptFact, CallSubmitDecision, CallOpenHumanRequest,
     CallReportUnresolvable, CallRequestFinalization, CallSubmitFinalReport,
     Running
<1>2. /\ commands = 0 /\ execution.state = "RUNNING"
      /\ lifecycle # "PREPARING"
  BY <1>1 DEF DueInv, RunTookCommand, NothingClaimedYet, SoleRun, Authorized
<1>3. /\ UNCHANGED <<native, runtimeRow, commands>>
      /\ lifecycle' # "PREPARING"
  <2>1. CASE ToolCall(w)
    BY <1>2, <2>1 DEF ToolCall, CallStartInvestigation, CallAcceptFact,
       CallSubmitDecision, CallOpenHumanRequest, CallReportUnresolvable,
       CallRequestFinalization, CallSubmitFinalReport, workerVars, database,
       outboxRows, assessmentRow, Transition,
       StartRuleInvestigation, AcceptFact, SubmitRuleDecision,
       OpenHumanRequest, CreateHumanRequest, ReplayHumanRequest,
       ReportUnresolvableHumanFact, RequestFinalization, SubmitFinalReport
  <2>2. CASE LoseReply(w) \/ RepeatAnsweredQuestion(w)
    BY <1>2, <2>2 DEF LoseReply, RepeatAnsweredQuestion, database,
       outboxRows, assessmentRow, Transition,
       OpenHumanRequest, CreateHumanRequest, ReplayHumanRequest
  <2> QED
    BY <2>1, <2>2
<1>4. \A v \in Workers :
        /\ worker'[v].phase = worker[v].phase
        /\ worker'[v].expected = worker[v].expected
        /\ worker'[v].settlement = worker[v].settlement
  <2>1. \/ UNCHANGED worker
        \/ \E q \in Questions :
             worker' = [worker EXCEPT ![w].asked = @ \cup {q}]
    BY DEF ToolCall, LoseReply, RepeatAnsweredQuestion,
       CallStartInvestigation, CallAcceptFact, CallSubmitDecision,
       CallOpenHumanRequest, CallReportUnresolvable,
       CallRequestFinalization, CallSubmitFinalReport, workerVars
  <2> QED
    BY <1>1, <2>1 DEF WorkerTypeOK, WorkerState
<1> QED
  BY <1>1, <1>2, <1>3, <1>4 DEF DueInv, RunsUnderLease, RunTookCommand,
     NothingClaimedYet, CommandIsDue, PauseOnThread, ClaimsAtWait,
     SettlesPause, runtimeRow

(* The owner asks for the Root only where no command is there yet.          *)
LEMMA OwnerAsksOnce ==
  ASSUME OnTimeInv, OwnerStep
  PROVE  DueInv'
<1>1. /\ DatabaseTypeOK /\ ExecutionInv /\ DueInv /\ SoleRun
      /\ UNCHANGED <<native, runtimeRow, worker>>
  BY DEF OnTimeInv, RunInv, CaseInv, TypeInv, TypeOK, ThreadInv, OwnerStep,
     SetUp, Stop, Continue, Answer, AnswerUnknown, CompleteRepositorySetup,
     RequestStop, RequestResume, AnswerHumanRequest, DoesNotKnow, workerVars
<1>2. RunsUnderLease' /\ PauseOnThread' /\ ClaimsAtWait'
  BY <1>1 DEF DueInv, RunsUnderLease, PauseOnThread, ClaimsAtWait,
     SettlesPause, runtimeRow
<1>3. SUFFICES RunTookCommand' /\ NothingClaimedYet' /\ CommandIsDue'
  BY <1>2 DEF DueInv
<1>4. commands \in Nat
      /\ (execution.state # "RUNNING" =>
            \A w \in Workers : worker[w].phase = "idle")
  BY <1>1 DEF DatabaseTypeOK, SoleRun, Authorized
<1>5. CASE SetUp
  BY <1>1, <1>4, <1>5 DEF SetUp, CompleteRepositorySetup, Transition, DueInv,
     RunTookCommand, NothingClaimedYet, CommandIsDue, runtimeRow
<1>6. CASE Stop
  <2>1. /\ execution.state \notin {"PAUSED", "QUEUED"}
        /\ UNCHANGED <<assessmentRow, commands, requests>>
    BY <1>1, <1>6 DEF Stop, RequestStop, ExecutionInv, TurnMirrorsExecution,
       outboxRows
  <2> QED
    BY <1>1, <2>1 DEF DueInv, RunTookCommand, NothingClaimedYet,
       CommandIsDue, OpenQuestions, runtimeRow, assessmentRow
<1>7. CASE Continue
  BY <1>1, <1>4, <1>7 DEF Continue, RequestResume, ResumeIsValid, DueInv,
     RunTookCommand, NothingClaimedYet, CommandIsDue, runtimeRow,
     assessmentRow
<1>8. ASSUME NEW q \in Questions, NEW known \in Nat, NEW shown \in Nat,
             DoesNotKnow(q, shown, known)
      PROVE  RunTookCommand' /\ NothingClaimedYet' /\ CommandIsDue'
  <2>1. OpenQuestions' = OpenQuestions
    BY <1>1, <1>8, StatusAfterUnknown DEF OpenQuestions
  <2> QED
    BY <1>1, <1>8, <2>1 DEF DoesNotKnow, DueInv, RunTookCommand,
       NothingClaimedYet, CommandIsDue, runtimeRow, turnRow, outboxRows,
       assessmentRow
<1>9. ASSUME NEW q \in Questions, NEW known \in Nat, NEW shown \in Nat,
             AnswerHumanRequest(q, shown, known)
      PROVE  RunTookCommand' /\ NothingClaimedYet' /\ CommandIsDue'
  <2>1. OpenQuestions' = OpenQuestions \ {q}
    BY <1>1, <1>9, OpenAfterAnswered
  <2>2. /\ q \in OpenQuestions
        /\ UNCHANGED turn
    BY <1>9 DEF AnswerHumanRequest, Answerable, OpenQuestions, turnRow
  <2>3. CASE ResumesRoot(q) /\ EnqueueResume(bound) /\ lifecycle' = "ACTIVE"
    <3>1. OpenQuestions' = {} /\ execution.state = "INTERRUPTED"
      BY <2>1, <2>3 DEF ResumesRoot, OpenAfterAnswer
    <3>2. commands = 0
      BY <1>1, <1>4, <2>2, <3>1 DEF DueInv, CommandIsDue
    <3>3. commands' \in {0, 1}
      BY <2>3, <3>2 DEF EnqueueResume
    <3> QED
      BY <1>1, <1>4, <2>3, <3>1, <3>3 DEF RunTookCommand,
         NothingClaimedYet, CommandIsDue, runtimeRow
  <2>4. CASE UNCHANGED <<assessmentRow, outboxRows>>
    BY <1>1, <2>1, <2>2, <2>4 DEF DueInv, RunTookCommand,
       NothingClaimedYet, CommandIsDue, runtimeRow, assessmentRow, outboxRows
  <2> QED
    BY <1>9, <2>3, <2>4 DEF AnswerHumanRequest, Transition
<1>10. /\ 0..caseRevision \subseteq Nat
       /\ \A q \in Questions : 0..requests[q].revision \subseteq Nat
  BY <1>1 DEF DatabaseTypeOK, HumanRequest
<1> QED
  BY <1>5, <1>6, <1>7, <1>8, <1>9, <1>10 DEF OwnerStep, Answer, AnswerUnknown

(* A skipped command is gone; one of a killed worker is there again, and    *)
(* meets that worker's lease.                                              *)
LEMMA BrokerIsDue ==
  ASSUME OnTimeInv, NEW w \in Workers,
         SkipCommand(w) \/ AbandonRun(w) \/ Crash(w)
  PROVE  DueInv'
<1>1. /\ DatabaseTypeOK /\ WorkerTypeOK /\ DueInv /\ SoleRun
  BY DEF OnTimeInv, RunInv, CaseInv, TypeInv, TypeOK, ThreadInv
<1>2. CASE SkipCommand(w)
  <2>1. /\ UNCHANGED <<assessmentRow, runtimeRow, turnRow, requests, native,
                       worker>>
        /\ commands > 0 /\ commands \in Nat /\ commands' = commands - 1
    BY <1>1, <1>2 DEF SkipCommand, workerVars, DatabaseTypeOK
  <2>2. \A v \in Workers : worker[v].phase = "idle"
    BY <1>1, <2>1 DEF DueInv, RunTookCommand
  <2> QED
    BY <1>1, <2>1, <2>2 DEF DueInv, RunsUnderLease, RunTookCommand,
       NothingClaimedYet, CommandIsDue, PauseOnThread, ClaimsAtWait,
       SettlesPause, OpenQuestions, runtimeRow, turnRow, assessmentRow
<1>3. CASE AbandonRun(w)
  BY <1>1, <1>3 DEF AbandonRun, SoleRun
<1>4. CASE Crash(w)
  <2>1. /\ UNCHANGED <<assessmentRow, runtimeRow, turnRow, native>>
        /\ execution.state = "RUNNING"
    BY <1>1, <1>4 DEF Crash, SoleRun, Authorized
  <2>2. \A v \in Workers : worker'[v].phase = "idle"
    BY <1>1, <1>4, OneAuthorized DEF Crash, SoleRun, WorkerTypeOK, Idle
  <2> QED
    BY <1>1, <2>1, <2>2 DEF DueInv, RunsUnderLease, RunTookCommand,
       NothingClaimedYet, CommandIsDue, PauseOnThread, ClaimsAtWait,
       SettlesPause, runtimeRow, assessmentRow
<1> QED
  BY <1>2, <1>3, <1>4

LEMMA DueInvInit == Init => DueInv
BY DEF Init, DatabaseInit, WorkerInit, Idle, NoWait, NoLease, DueInv,
   RunsUnderLease, RunTookCommand, NothingClaimedYet, CommandIsDue,
   PauseOnThread, ClaimsAtWait, SettlesPause

LEMMA DueInvNext ==
  ASSUME OnTimeInv, [Next]_vars, ~(LeaseExpires \/ DuplicateCommand)
  PROVE  DueInv'
<1>1. CASE UNCHANGED vars
  BY <1>1 DEF OnTimeInv, vars, workerVars, database, assessmentRow,
     runtimeRow, turnRow, outboxRows, DueInv, RunsUnderLease,
     RunTookCommand, NothingClaimedYet, CommandIsDue, PauseOnThread,
     ClaimsAtWait, SettlesPause, OpenQuestions
<1>2. CASE OwnerStep
  BY <1>2, OwnerAsksOnce
<1>3. CASE MishapStep
  BY <1>3, ToolsAskForNobody, BrokerIsDue DEF MishapStep
<1>4. ASSUME NEW w \in Workers, WorkerStep(w) PROVE DueInv'
  BY <1>4, ClaimIsDue, SettlementLeavesNone, RunIsDue, ToolsAskForNobody,
     BrokerIsDue DEF WorkerStep, RunStep
<1> QED
  BY <1>1, <1>2, <1>3, <1>4 DEF Next

(* Where commands come on time, the Root is asked for once for each reason: *)
(* a command that finds the assessment at rest is the only one, nobody runs *)
(* it yet, and it was set up, answered or continued since the last run.     *)
THEOREM CommandsAreDue == Spec /\ OnTime => []OnTimeInv
<1>1. Init => DueInv
  BY DueInvInit
<1>2. ASSUME RunInv, ThreadInv, DueInv, [Next]_vars,
             [~(LeaseExpires \/ DuplicateCommand)]_vars
      PROVE  DueInv'
  <2>1. CASE UNCHANGED vars
    BY <1>2, <2>1 DEF vars, workerVars, database, assessmentRow,
       runtimeRow, turnRow, outboxRows, DueInv, RunsUnderLease,
       RunTookCommand, NothingClaimedYet, CommandIsDue, PauseOnThread,
       ClaimsAtWait, SettlesPause, OpenQuestions
  <2>2. CASE ~(LeaseExpires \/ DuplicateCommand)
    BY <1>2, <2>2, DueInvNext DEF OnTimeInv
  <2> QED
    BY <1>2, <2>1, <2>2
<1>3. [~(LeaseExpires \/ DuplicateCommand)]_vars
        => [LeaseExpires => ~HolderRuns]_vars
  OBVIOUS
<1>4. OnTime => LeasesLast
  BY <1>3, PTL DEF OnTime, LeasesLast
<1>5. Spec /\ LeasesLast => [](RunInv /\ ThreadInv)
  BY OneRunAtATime
<1>6. RunInv /\ ThreadInv /\ DueInv <=> OnTimeInv
  BY DEF OnTimeInv
<1> QED
  BY <1>1, <1>2, <1>4, <1>5, <1>6, PTL DEF Spec, OnTime

(* What the documents promise of an answered question holds where commands  *)
(* come on time: whoever claims the execution resumes the question at the   *)
(* checkpoint it waits at, even if the worker that asked it was killed.     *)
THEOREM AnsweredWaitIsResumedOnTime == Spec /\ OnTime => []AnsweredWaitIsResumed
<1>1. OnTimeInv => AnsweredWaitIsResumed
  BY DEF OnTimeInv, DueInv, ClaimsAtWait, AnsweredWaitIsResumed
<1> QED
  BY <1>1, CommandsAreDue, PTL

-----------------------------------------------------------------------------
(* Without mishaps commands come on time.                                  *)
LEMMA MishapFreeIsOnTime ==
  ASSUME MaxMishaps = 0
  PROVE  Spec => OnTime
<1>1. PauseInv /\ [Next]_vars => [~(LeaseExpires \/ DuplicateCommand)]_vars
  <2> SUFFICES ASSUME PauseInv, LeaseExpires \/ DuplicateCommand PROVE FALSE
    OBVIOUS
  <2>1. mishaps \in Nat
    BY DEF PauseInv, RunInv, CaseInv, TypeInv, TypeOK, WorkerTypeOK
  <2> QED
    BY <2>1 DEF LeaseExpires, DuplicateCommand, Mishap
<1> QED
  BY <1>1, StopCorrect, PTL DEF Spec, OnTime

(* So without mishaps every wake-up is delivered, every settlement stored   *)
(* and every answered question resumed where it waits, for any number of    *)
(* workers, rules, questions and controls.                                 *)
THEOREM MishapFreeSystem ==
  ASSUME MaxMishaps = 0
  PROVE  Spec => /\ NoWakeUpLost
                 /\ []InterruptIsNeverRefused
                 /\ []AnsweredWaitIsResumed
<1>1. Spec => Undisturbed
  BY MishapFreeIsUndisturbed
<1>2. Spec => OnTime
  BY MishapFreeIsOnTime
<1> QED
  BY <1>1, <1>2, UndisturbedLeasesLast, NoWakeUpLostWhileLeasesLast,
     InterruptIsNeverRefusedUndisturbed, AnsweredWaitIsResumedOnTime, PTL
=============================================================================
