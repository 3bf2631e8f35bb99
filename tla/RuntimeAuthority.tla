-------------------------- MODULE RuntimeAuthority --------------------------
(***************************************************************************)
(* Who may run the Root of an assessment (AssessmentRuntimeAuthority) and   *)
(* how its owner stops and continues it (AssessmentRuntimeControlService).  *)
(***************************************************************************)
EXTENDS AssessmentState

LeaseHeld == lease.holder # None /\ lease.live /\ execution.state = "RUNNING"

(* A worker died between opening a question and settling its interrupt.    *)
RecoveringHumanInterrupt ==
  /\ \/ lifecycle = "WAITING_FOR_HUMAN"
     \/ HumanBlocked /\ blocker \in OpenQuestions
  /\ execution.state = "RUNNING"
  /\ lease.holder # None /\ ~lease.live

SafePauseResume ==
  /\ lifecycle = "PAUSED"
  /\ execution.state = "PAUSED"
  /\ bound # 0
  /\ turn.state = "RESUME_REQUESTED"

(* Faulty: any lifecycle may be claimed.                                   *)
ClaimableWhenFree == ~LeaseHeld

(* Faulty: a safe pause cannot be claimed.                                 *)
ClaimableUnlessPaused ==
  /\ lifecycle = "ACTIVE" \/ RecoveringHumanInterrupt
  /\ ~LeaseHeld

(* The conditions under which claimRoot does not throw.                    *)
Claimable ==
  /\ lifecycle = "ACTIVE" \/ RecoveringHumanInterrupt \/ SafePauseResume
  /\ ~LeaseHeld
  /\ SafePauseResume => OpenQuestions = {}

RecoveringStop == execution.id # 0 /\ turn.state = "STOP_REQUESTED"

(* Faulty: a paused execution is replaced.                                 *)
ResumesInterruptOnly ==
  execution.id # 0 /\ (execution.state = "INTERRUPTED" \/ RecoveringStop)

(* Faulty: an interrupted execution is replaced.                           *)
ResumesPauseOnly ==
  execution.id # 0 /\ (execution.state = "PAUSED" \/ RecoveringStop)

(* An interrupt, a safe pause or an unacknowledged Stop continues the same  *)
(* execution; anything else starts a new one on the same thread.            *)
ResumesSameExecution ==
  /\ execution.id # 0
  /\ execution.state \in {"INTERRUPTED", "PAUSED"} \/ RecoveringStop

ClaimedExecution ==
  IF ResumesSameExecution THEN execution.id ELSE execution.id + 1

(* Faulty: no checkpoint is represented as null.                           *)
ClaimedCheckpointOrNull == IF ResumesSameExecution THEN bound ELSE None

(* resumeCheckpointId of the claim, 0 for none.                            *)
ClaimedCheckpoint == IF ResumesSameExecution THEN bound ELSE 0

(* Faulty: the turn of a resumed execution keeps its state.                *)
TurnKept ==
  IF ResumesSameExecution THEN turn ELSE [state |-> "RUNNING", request |-> 0]

(* The claimed execution's turn: a Stop that waits stays, everything else   *)
(* runs.                                                                   *)
ClaimedTurn ==
  IF ResumesSameExecution
  THEN [turn EXCEPT !.state = IF RecoveringStop THEN "STOP_REQUESTED"
                              ELSE "RUNNING"]
  ELSE [state |-> "RUNNING", request |-> 0]

ClaimRoot(w) ==
  /\ Claimable
  /\ execution' = [id |-> ClaimedExecution, state |-> "RUNNING"]
  /\ lease' = [holder |-> w, live |-> TRUE]
  /\ turn' = ClaimedTurn
  /\ IF SafePauseResume
     THEN Transition("ACTIVE", ReadyToRun, None)
     ELSE UNCHANGED assessmentRow
  /\ UNCHANGED <<bound, controls, caseRows, requests, report>>

(* The checks finishExecution makes before it settles an execution.  The    *)
(* settlement is what the worker reports: the execution state it reached,   *)
(* its native checkpoint, and the questions or the Stop it waits for.       *)
PauseIsValid(settlement) ==
  /\ settlement.checkpoint # 0
  /\ turn.state = "STOP_REQUESTED"
  /\ turn.request = settlement.control
  /\ lifecycle = "ACTIVE"

InterruptIsValid(settlement) ==
  /\ settlement.checkpoint # 0
  /\ OpenQuestions # {}
  /\ settlement.questions = OpenQuestions
  /\ \/ lifecycle = "WAITING_FOR_HUMAN"
     \/ HumanBlocked /\ blocker \in settlement.questions
  /\ \A q \in OpenQuestions :
       requests[q].checkpoint \in {0, settlement.checkpoint}

SettlementAccepted(w, settlement) ==
  /\ Authorized(w)
  /\ settlement.outcome = "PAUSED" => PauseIsValid(settlement)
  /\ settlement.outcome = "INTERRUPTED" => InterruptIsValid(settlement)

(* Faulty: the binding is written once.                                    *)
FirstBinding(settlement) == IF bound # 0 THEN bound ELSE settlement.checkpoint

(* The checkpoint the runtime is bound to after a settlement.              *)
BindingAfter(settlement) ==
  IF settlement.checkpoint # 0 THEN settlement.checkpoint ELSE bound

(* Faulty: only an acknowledged Stop closes the turn.                      *)
TurnLeftOpen(settlement) ==
  IF settlement.outcome = "PAUSED" THEN [turn EXCEPT !.state = "STOPPED"]
  ELSE turn

TurnAfter(settlement) ==
  [turn EXCEPT !.state = IF settlement.outcome = "PAUSED" THEN "STOPPED"
                         ELSE "COMPLETED"]

(* The settlement's writes: an interrupt binds the open questions to its    *)
(* checkpoint, and a pause acknowledges the Stop and pauses the assessment. *)
FinishExecution(w, settlement) ==
  /\ SettlementAccepted(w, settlement)
  /\ execution' = [execution EXCEPT !.state = settlement.outcome]
  /\ lease' = NoLease
  /\ bound' = BindingAfter(settlement)
  /\ turn' = TurnAfter(settlement)
  /\ requests' = IF settlement.outcome = "INTERRUPTED"
                 THEN [q \in Questions |->
                         IF q \in OpenQuestions
                         THEN [requests[q] EXCEPT
                                 !.checkpoint = settlement.checkpoint]
                         ELSE requests[q]]
                 ELSE requests
  /\ IF settlement.outcome = "PAUSED"
     THEN Transition("PAUSED", {SafePause}, None)
     ELSE UNCHANGED assessmentRow
  /\ UNCHANGED <<controls, caseRows, report, outboxRows>>

-----------------------------------------------------------------------------
(* The owner's Stop.  It does not look at the lifecycle: the worker decides *)
(* at its next native boundary whether it can still observe it.             *)
RequestStop ==
  /\ execution.id # 0
  /\ turn.state = "RUNNING"
  /\ turn' = [state |-> "STOP_REQUESTED", request |-> controls + 1]
  /\ controls' = controls + 1
  /\ UNCHANGED <<assessmentRow, runtimeRow, caseRows, requests, report,
                 outboxRows>>

(* The owner's Continue: only a paused assessment with a bound checkpoint   *)
(* and no open question; the Root is asked for by an ordinary command.      *)
ResumeIsValid ==
  /\ lifecycle = "PAUSED"
  /\ execution.state = "PAUSED"
  /\ bound # 0
  /\ OpenQuestions = {}

RequestResume ==
  /\ turn.state = "STOPPED"
  /\ ResumeIsValid
  /\ turn' = [state |-> "RESUME_REQUESTED", request |-> controls + 1]
  /\ controls' = controls + 1
  /\ commands' = commands + 1
  /\ UNCHANGED <<assessmentRow, runtimeRow, caseRows, requests, report,
                 resumeKeys>>
=============================================================================
