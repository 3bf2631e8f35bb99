----------------------------- MODULE RootWorker -----------------------------
(***************************************************************************)
(* The deepagents workers: they take ROOT_REQUESTED commands from the       *)
(* broker, claim the execution, drive the Root agent on the assessment's    *)
(* native LangGraph thread and settle the execution.                       *)
(*                                                                         *)
(* The native thread is durable and is not locked: a worker that lost its   *)
(* lease can still write it.  A checkpoint identity names a point of the    *)
(* thread; a wait (interrupt) is stored at the checkpoint its superstep     *)
(* started from, and a committed superstep makes a new checkpoint.          *)
(***************************************************************************)
EXTENDS RuntimeAuthority, HumanResolution, RuleDecisions, Finalization

CONSTANTS
  MaxControls,   \* bound on the owner's Stop and Continue requests
  MaxMishaps     \* bound on crashes, expiries, lost replies and duplicates

VARIABLES
  native,    \* the LangGraph thread: latest checkpoint and its pending wait
  worker,    \* what each worker process is doing
  mishaps    \* mishaps so far

workerVars == <<native, worker, mishaps>>
vars == <<database, workerVars>>

NoWait == [kind |-> "NONE", control |-> 0, exec |-> 0, questions |-> {}]

Wait ==
  [kind : {"NONE", "STOP", "HUMAN"}, control : Nat, exec : Nat,
   questions : SUBSET Questions]

Settlement ==
  [outcome : {"NONE", "INTERRUPTED", "PAUSED", "SUCCEEDED", "FAILED"},
   checkpoint : Nat, questions : SUBSET Questions, control : Nat]

Unsettled ==
  [outcome |-> "NONE", checkpoint |-> 0, questions |-> {}, control |-> 0]

(* The phases of run_assessment_root; expected is resumeCheckpointId, base  *)
(* the checkpoint the run's graph loop builds on, asked the questions whose *)
(* tools wait in the current superstep.                                     *)
WorkerState ==
  [phase : {"idle", "claimed", "resuming", "running", "settling"},
   exec : Nat, expected : Nat, base : Nat, asked : SUBSET Questions,
   settlement : Settlement]

Idle ==
  [phase |-> "idle", exec |-> 0, expected |-> 0, base |-> 0, asked |-> {},
   settlement |-> Unsettled]

WorkerTypeOK ==
  /\ native \in [checkpoint : Nat, wait : Wait]
  /\ worker \in [Workers -> WorkerState]
  /\ mishaps \in Nat

WorkerInit ==
  /\ native = [checkpoint |-> 0, wait |-> NoWait]
  /\ worker = [w \in Workers |-> Idle]
  /\ mishaps = 0

Mishap == mishaps < MaxMishaps /\ mishaps' = mishaps + 1

-----------------------------------------------------------------------------
(* A command is delivered and the claim granted.                           *)
TakeCommand(w) ==
  /\ worker[w].phase = "idle"
  /\ commands > 0
  /\ ClaimRoot(w)
  /\ commands' = commands - 1
  /\ worker' = [worker EXCEPT
                  ![w] = [phase |-> "claimed", exec |-> ClaimedExecution,
                          expected |-> ClaimedCheckpoint, base |-> 0,
                          asked |-> {}, settlement |-> Unsettled]]
  /\ UNCHANGED <<resumeKeys, native, mishaps>>

(* The claim is refused: the command is SKIPPED or dropped, and acknowledged. *)
SkipCommand(w) ==
  /\ worker[w].phase = "idle"
  /\ commands > 0
  /\ ~Claimable
  /\ commands' = commands - 1
  /\ UNCHANGED <<assessmentRow, runtimeRow, turnRow, caseRows, requests,
                 report, resumeKeys, workerVars>>

(* The run goes on from the checkpoint base.                               *)
GoesOn(w, phase, base, asked) ==
  worker' = [worker EXCEPT
               ![w] = [phase |-> phase, exec |-> @.exec,
                       expected |-> @.expected, base |-> base,
                       asked |-> asked, settlement |-> Unsettled]]

(* The run moves to its settlement.                                        *)
Settling(w, settlement) ==
  worker' = [worker EXCEPT
               ![w] = [phase |-> "settling", exec |-> @.exec,
                       expected |-> @.expected, base |-> @.base,
                       asked |-> @.asked, settlement |-> settlement]]

Outcome(state) == [Unsettled EXCEPT !.outcome = state]

Paused(checkpoint, control) ==
  [outcome |-> "PAUSED", checkpoint |-> checkpoint, questions |-> {},
   control |-> control]

(* Faulty: only one of the waiting questions is reported.                  *)
InterruptedByOne(checkpoint, questions) ==
  [outcome |-> "INTERRUPTED", checkpoint |-> checkpoint,
   questions |-> {CHOOSE q \in questions : TRUE}, control |-> 0]

Interrupted(checkpoint, questions) ==
  [outcome |-> "INTERRUPTED", checkpoint |-> checkpoint,
   questions |-> questions, control |-> 0]

(* What a claimed run does with the thread it finds, in the order of the    *)
(* tests of run_assessment_root.                                            *)
StartRun(w) ==
  LET run      == worker[w]
      wait     == native.wait
      mismatch == run.expected # 0 /\ native.checkpoint # run.expected
      stopWait == wait.kind = "STOP" /\ run.expected = 0
      humanWait == wait.kind # "NONE" /\ OpenQuestions # {}
  IN
  /\ run.phase = "claimed"
  /\ Authorized(w)
  /\ \/ /\ mismatch
        /\ Settling(w, Outcome("FAILED"))
        /\ UNCHANGED native
     \/ /\ ~mismatch /\ stopWait
        /\ IF wait.exec = run.exec
           THEN Settling(w, Paused(native.checkpoint, wait.control))
           ELSE Settling(w, Outcome("FAILED"))
        /\ UNCHANGED native
     \/ /\ ~mismatch /\ ~stopWait /\ humanWait
        /\ IF wait.kind = "HUMAN"
           THEN Settling(w, Interrupted(native.checkpoint, wait.questions))
           ELSE Settling(w, Outcome("FAILED"))
        /\ UNCHANGED native
     \/ /\ ~mismatch /\ ~stopWait /\ ~humanWait /\ wait.kind # "NONE"
        /\ IF run.expected = 0
           THEN Settling(w, Outcome("FAILED"))
           ELSE GoesOn(w, "resuming", native.checkpoint, {})
        /\ UNCHANGED native
     \/ /\ ~mismatch /\ wait.kind = "NONE"
        /\ native' = IF native.checkpoint = 0
                     THEN [native EXCEPT !.checkpoint = 1] ELSE native
        \* a killed worker's pending superstep asks its questions again
        /\ \E replayed \in {{}, OpenQuestions} :
             GoesOn(w, "running", native'.checkpoint, replayed)
  /\ UNCHANGED <<database, mishaps>>

(* The lease is lost before the context was read: the error leaves the run, *)
(* nothing is settled, and the command is dropped.                          *)
AbandonRun(w) ==
  /\ worker[w].phase = "claimed"
  /\ ~Authorized(w)
  /\ worker' = [worker EXCEPT ![w] = Idle]
  /\ UNCHANGED <<database, native, mishaps>>

(* The thread gets a new checkpoint, without a wait, from w's loop.        *)
ThreadAdvances(w) ==
  /\ native' = [checkpoint |-> native.checkpoint + 1, wait |-> NoWait]
  /\ GoesOn(w, "running", native.checkpoint + 1, {})

(* Command(resume) runs the waiting superstep again; its interrupts return, *)
(* and it commits.                                                          *)
CommitResumed(w) ==
  /\ worker[w].phase = "resuming"
  /\ ThreadAdvances(w)
  /\ UNCHANGED <<database, mishaps>>

(* An ordinary superstep commits.  It is a step of its own only while       *)
(* another run builds on the same checkpoint or left its wait there:        *)
(* elsewhere the checkpoint's identity is not looked at before a wait.      *)
Contested(w) ==
  \/ native.wait # NoWait
  \/ \E other \in Workers \ {w} :
       /\ worker[other].phase \in {"resuming", "running"}
       /\ worker[other].base = native.checkpoint

CommitSuperstep(w) ==
  /\ worker[w].phase = "running"
  /\ worker[w].asked = {}
  /\ worker[w].base = native.checkpoint
  /\ Contested(w)
  /\ ThreadAdvances(w)
  /\ UNCHANGED <<database, mishaps>>

-----------------------------------------------------------------------------
(* The governed tools of the Root.  A rejected call changes nothing.       *)
Running(w) == worker[w].phase = "running"

CallStartInvestigation(w) ==
  /\ Running(w)
  /\ \E r \in Rules : StartRuleInvestigation(w, r)
  /\ UNCHANGED workerVars

CallAcceptFact(w) ==
  /\ Running(w)
  /\ \E known \in 0..caseRevision : AcceptFact(w, known)
  /\ UNCHANGED workerVars

CallSubmitDecision(w) ==
  /\ Running(w)
  /\ \E r \in Rules, packet \in 0..caseRevision :
       \E known \in 0..Len(decisions[r]) :
         SubmitRuleDecision(w, r, packet, known)
  /\ UNCHANGED workerVars

(* The tool writes the question and then raises its native interrupt.      *)
CallOpenHumanRequest(w) ==
  /\ Running(w)
  /\ \E q \in Questions, known \in 0..caseRevision :
       /\ q \notin worker[w].asked
       /\ requests[q].status # "RESOLVED"
       /\ OpenHumanRequest(w, q, known)
       /\ worker' = [worker EXCEPT ![w].asked = @ \cup {q}]
  /\ UNCHANGED <<native, mishaps>>

(* A gateway error hides a write that was made: the tool reports a failure  *)
(* and raises no interrupt.                                                 *)
LoseReply(w) ==
  /\ Running(w)
  /\ Mishap
  /\ \E q \in Questions, known \in 0..caseRevision :
       /\ Authorized(w)
       /\ CreateHumanRequest(q, known)
  /\ UNCHANGED <<native, worker>>

(* The Root asks an answered question again, word for word: the API replays *)
(* the resolved request and the tool waits for it.                          *)
RepeatAnsweredQuestion(w) ==
  /\ Running(w)
  /\ Mishap
  /\ \E q \in Questions, known \in 0..caseRevision :
       /\ requests[q].status = "RESOLVED"
       /\ OpenHumanRequest(w, q, known)
       /\ worker' = [worker EXCEPT ![w].asked = @ \cup {q}]
  /\ UNCHANGED native

(* report_human_fact_unresolvable: a question of this superstep is reported *)
(* before its interrupt is raised.                                          *)
CallReportUnresolvable(w) ==
  /\ Running(w)
  /\ \E q \in worker[w].asked, known \in 0..caseRevision :
       \E knownRequest \in 0..requests[q].revision :
         ReportUnresolvableHumanFact(w, q, knownRequest, known)
  /\ UNCHANGED workerVars

CallRequestFinalization(w) ==
  Running(w) /\ RequestFinalization(w) /\ UNCHANGED workerVars

CallSubmitFinalReport(w) ==
  Running(w) /\ SubmitFinalReport(w) /\ UNCHANGED workerVars

-----------------------------------------------------------------------------
(* Faulty: the control is shown in every lifecycle state.                  *)
ObservesAnyControl(w) == Authorized(w)

(* get_root_control: a worker with a valid lease sees the turn's control    *)
(* only while the assessment is ACTIVE.                                     *)
ObservesControl(w) == Authorized(w) /\ lifecycle = "ACTIVE"

(* A wait is stored at the checkpoint its superstep started from: a run     *)
(* whose thread was advanced by another writes where nobody looks.          *)
Store(w, wait) ==
  native' = IF worker[w].base = native.checkpoint
            THEN [native EXCEPT !.wait = wait] ELSE native

(* before_model: the Stop of this execution interrupts the graph.          *)
ObserveStop(w) ==
  /\ Running(w)
  /\ worker[w].asked = {}
  /\ ObservesControl(w)
  /\ turn.state = "STOP_REQUESTED"
  /\ execution.id = worker[w].exec
  /\ Store(w, [kind |-> "STOP", control |-> turn.request,
               exec |-> worker[w].exec, questions |-> {}])
  /\ Settling(w, Paused(native.checkpoint, turn.request))
  /\ UNCHANGED <<database, mishaps>>

(* The superstep ends with waiting tools: their interrupts are persisted.  *)
PersistHumanWait(w) ==
  /\ Running(w)
  /\ worker[w].asked # {}
  /\ Store(w, [kind |-> "HUMAN", control |-> 0, exec |-> 0,
               questions |-> worker[w].asked])
  /\ Settling(w, Interrupted(native.checkpoint, worker[w].asked))
  /\ UNCHANGED <<database, mishaps>>

(* The graph ends.  Open questions without an interrupt, or a context that  *)
(* can no longer be read, fail the run.                                     *)
EndRun(w) ==
  /\ Running(w)
  /\ worker[w].asked = {}
  /\ worker[w].base = native.checkpoint => native.wait = NoWait
  /\ Settling(w, IF Authorized(w) /\ OpenQuestions = {}
                 THEN Outcome("SUCCEEDED") ELSE Outcome("FAILED"))
  /\ UNCHANGED <<database, native, mishaps>>

(* Any exception of the run: the model, the sandbox, the transport.        *)
FailRun(w) ==
  /\ worker[w].phase \in {"claimed", "resuming", "running"}
  /\ worker[w].phase = "claimed" => Authorized(w)
  /\ Settling(w, Outcome("FAILED"))
  /\ UNCHANGED <<database, native, mishaps>>

(* finish: the API settles the execution, or refuses and the error drops    *)
(* the command.  Either way the worker is done with it.                     *)
Settle(w) ==
  /\ worker[w].phase = "settling"
  /\ \/ FinishExecution(w, worker[w].settlement)
     \/ ~SettlementAccepted(w, worker[w].settlement) /\ UNCHANGED database
  /\ worker' = [worker EXCEPT ![w] = Idle]
  /\ UNCHANGED <<native, mishaps>>

-----------------------------------------------------------------------------
(* A killed worker loses its run; the broker delivers its unacknowledged    *)
(* command again.                                                           *)
Crash(w) ==
  /\ worker[w].phase # "idle"
  /\ Mishap
  /\ worker' = [worker EXCEPT ![w] = Idle]
  /\ commands' = commands + 1
  /\ UNCHANGED <<assessmentRow, runtimeRow, turnRow, caseRows, requests,
                 report, resumeKeys, native>>

(* LEASE_SECONDS pass: the worker never renews its lease.                  *)
LeaseExpires ==
  /\ lease.live
  /\ Mishap
  /\ lease' = [lease EXCEPT !.live = FALSE]
  /\ UNCHANGED <<assessmentRow, execution, bound, turnRow, caseRows, requests,
                 report, outboxRows, native, worker>>

(* The outbox and the broker deliver at least once.                        *)
DuplicateCommand ==
  /\ execution.id # 0
  /\ Mishap
  /\ commands' = commands + 1
  /\ UNCHANGED <<assessmentRow, runtimeRow, turnRow, caseRows, requests,
                 report, resumeKeys, native, worker>>
=============================================================================
