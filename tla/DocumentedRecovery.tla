------------------------- MODULE DocumentedRecovery -------------------------
(***************************************************************************)
(* What the repository's documents promise about failure and recovery and   *)
(* the code does not keep.  Each statement is checked by a run of its own   *)
(* and TLC finds it violated; the README quotes the documents.             *)
(***************************************************************************)
EXTENDS AssessmentRoot

AllIdle == \A w \in Workers : worker[w].phase = "idle"

(* A crashed run is taken over: an ACTIVE assessment whose RUNNING execution *)
(* lost its lease, with no worker on it, is claimed again.  The redelivered *)
(* command meets the dead worker's live lease and is acknowledged as        *)
(* SKIPPED, and nothing asks for the Root when the lease runs out.          *)
CrashedRunIsReclaimed ==
  /\ lifecycle = "ACTIVE" /\ execution.state = "RUNNING"
  /\ ~lease.live /\ AllIdle
  ~> ~AllIdle

(* A question that was put to the customer can be answered.  A run that     *)
(* fails between the API's write and the native interrupt leaves it open,   *)
(* bound to no checkpoint, in an assessment no worker can claim.            *)
QuestionBecomesAnswerable ==
  \A q \in Questions :
    requests[q].status = "OPEN" ~>
      Answerable(q) \/ requests[q].status = "RESOLVED"

(* An accepted Stop is not forgotten: it pauses the execution or the        *)
(* execution ends.  A Stop that meets a question is closed by the           *)
(* interrupt's settlement, and the answer sets the assessment running.      *)
StopIsNotForgotten ==
  [][turn.state = "STOP_REQUESTED" /\ turn'.state # "STOP_REQUESTED" =>
       \/ turn'.state = "STOPPED"
       \/ execution'.state \in {"SUCCEEDED", "FAILED"}]_vars
=============================================================================
