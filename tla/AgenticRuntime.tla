--------------------------- MODULE AgenticRuntime ---------------------------
(***************************************************************************)
(* The state machines of the agentic assessment runtime as the contracts   *)
(* package fixes them (packages/contracts/src/assessment/agentic-runtime). *)
(* Three machines describe one assessment: its lifecycle, the execution of *)
(* its Root agent, and the resolution of each engineering rule.            *)
(*                                                                         *)
(* Every lifecycle edge carries the guards a handler has to have verified. *)
(* The revision compare-and-set guard, which every edge shares, is the     *)
(* coordinator's own check and is not repeated here.                       *)
(***************************************************************************)

LifecycleStates ==
  {"CREATED", "PREPARING", "ACTIVE", "WAITING_FOR_HUMAN",
   "WAITING_FOR_REQUIRED_INPUT", "PAUSED", "FINALIZING", "COMPLETE",
   "BLOCKED", "FAILED", "CANCELLED"}

ExecutionStates ==
  {"QUEUED", "RUNNING", "INTERRUPTED", "PAUSED", "SUCCEEDED", "FAILED",
   "CANCELLED"}

ResolutionStates ==
  {"PENDING", "INVESTIGATING", "WAITING_FOR_INPUT", "RESOLVED", "INVALIDATED"}

-----------------------------------------------------------------------------
(* The guards an edge into ACTIVE always needs.                            *)
ReadyToRun ==
  {"PINNED_RUNTIME_INPUTS_READY", "ALL_CHECKPOINT_BLOCKERS_RESOLVED",
   "SAME_ASSESSMENT_ROOT_THREAD"}

OpenMaterial == "OPEN_MATERIAL_HUMAN_REQUEST"
Outstanding  == "OUTSTANDING_REQUIRED_INPUT"
SameThread   == "SAME_ASSESSMENT_ROOT_THREAD"
SafePause    == "EXPLICIT_SAFE_PAUSE"
GatePassed   == "COMPLETION_GATE_ZERO_BLOCKERS"
Persisted    == "ARTIFACT_PERSISTED_AND_VALIDATED"
Unobtainable == "DEPENDENCY_PERMANENTLY_UNOBTAINABLE"
NewInput     == "EXPLICIT_NEW_RESOLVABLE_INPUT_ACCEPTED"
Unrecoverable == "UNRECOVERABLE_RUNTIME_FAILURE"
Retry        == "GOVERNED_RETRY"
Cancel       == "EXPLICIT_CANCELLATION_BEFORE_PUBLICATION"

Working == {"CREATED", "PREPARING", "ACTIVE", "FINALIZING"}
Live    == LifecycleStates \ {"COMPLETE", "CANCELLED"}

(* The lifecycle table: an edge is its two ends and the guards it demands. *)
LifecycleTransitions ==
  {<<"CREATED", "PREPARING", {}>>}
  \cup {<<from, "ACTIVE", ReadyToRun>> :
          from \in {"PREPARING", "WAITING_FOR_HUMAN",
                    "WAITING_FOR_REQUIRED_INPUT", "PAUSED"}}
  \cup {<<"BLOCKED", "ACTIVE", ReadyToRun \cup {NewInput}>>,
        <<"FAILED", "ACTIVE", ReadyToRun \cup {Retry}>>}
  \cup {<<from, "WAITING_FOR_HUMAN", {OpenMaterial}>> :
          from \in {"ACTIVE", "WAITING_FOR_REQUIRED_INPUT"}}
  \cup {<<from, "WAITING_FOR_REQUIRED_INPUT", {Outstanding}>> :
          from \in {"PREPARING", "ACTIVE", "WAITING_FOR_HUMAN"}}
  \cup {<<"PAUSED", "WAITING_FOR_HUMAN", {OpenMaterial, SameThread}>>,
        <<"PAUSED", "WAITING_FOR_REQUIRED_INPUT", {Outstanding, SameThread}>>}
  \cup {<<from, "PAUSED", {SafePause}>> :
          from \in {"ACTIVE", "WAITING_FOR_HUMAN",
                    "WAITING_FOR_REQUIRED_INPUT"}}
  \cup {<<from, "BLOCKED", {Unobtainable}>> :
          from \in {"PREPARING", "ACTIVE", "WAITING_FOR_HUMAN",
                    "WAITING_FOR_REQUIRED_INPUT"}}
  \cup {<<"ACTIVE", "FINALIZING", {GatePassed}>>,
        <<"FINALIZING", "COMPLETE", {Persisted}>>}
  \cup {<<from, "FAILED", {Unrecoverable}>> : from \in Working}
  \cup {<<from, "CANCELLED", {Cancel}>> : from \in Live}

(* isAgenticRuntimeTransitionAllowed for the lifecycle: the edge exists and *)
(* every guard it demands is among the verified ones.                       *)
LifecycleAllows(from, to, verified) ==
  \E edge \in LifecycleTransitions :
    edge[1] = from /\ edge[2] = to /\ edge[3] \subseteq verified

(* The execution table, without its guards: the runtime authority verifies *)
(* them itself.                                                            *)
ExecutionTransitions ==
  ({"QUEUED"} \X {"RUNNING", "FAILED", "CANCELLED"})
  \cup ({"RUNNING"} \X {"INTERRUPTED", "PAUSED", "SUCCEEDED", "FAILED",
                        "CANCELLED"})
  \cup ({"INTERRUPTED"} \X {"RUNNING", "PAUSED", "FAILED", "CANCELLED"})
  \cup ({"PAUSED"} \X {"RUNNING", "FAILED", "CANCELLED"})
=============================================================================
