---------------------------- MODULE Finalization ----------------------------
(***************************************************************************)
(* The mechanical Completion Gate, the entry into FINALIZING and the        *)
(* publication of the final report.                                        *)
(***************************************************************************)
EXTENDS AssessmentState

AcceptedIndices(r) ==
  {i \in DOMAIN decisions[r] : decisions[r][i].state = "ACCEPTED"}

(* One accepted decision, the current one of its coverage, that reasoned    *)
(* over the case as it is.                                                  *)
RuleIsDecided(r) ==
  /\ coverage[r] = "RESOLVED"
  /\ AcceptedIndices(r) = {Len(decisions[r])}
  /\ LET current == decisions[r][Len(decisions[r])]
     IN  current.caseRevision = caseRevision /\ current.basis = caseRevision

(* Faulty: undecided rules do not block.                                   *)
GateIgnoresRules ==
  /\ lifecycle \in {"ACTIVE", "FINALIZING"}
  /\ blocker = None
  /\ execution.state = "RUNNING" /\ execution.id # 0
  /\ OpenQuestions = {}
  /\ report = None

(* inspectInTx finds no blocker.  The pins it also inspects are immutable   *)
(* in the modelled states and are abstracted.                               *)
GateHasNoBlocker ==
  /\ lifecycle \in {"ACTIVE", "FINALIZING"}
  /\ blocker = None
  /\ execution.state = "RUNNING" /\ execution.id # 0
  /\ OpenQuestions = {}
  /\ report = None
  /\ \A r \in Rules : RuleIsDecided(r)

RequestFinalization(w) ==
  /\ Authorized(w)
  /\ lifecycle = "ACTIVE"
  /\ GateHasNoBlocker
  /\ Transition("FINALIZING", {GatePassed}, None)
  /\ UNCHANGED <<runtimeRow, turnRow, caseRows, requests, report, outboxRows>>

(* The gate is inspected again, the artifact is written and the assessment  *)
(* completes, in one transaction.  A later submission only replays it.      *)
SubmitFinalReport(w) ==
  /\ Authorized(w)
  /\ report = None
  /\ lifecycle = "FINALIZING"
  /\ GateHasNoBlocker
  /\ report' = [caseRevision |-> caseRevision,
                basis |-> [r \in Rules |-> Len(decisions[r])]]
  /\ Transition("COMPLETE", {Persisted}, None)
  /\ UNCHANGED <<runtimeRow, turnRow, caseRows, requests, outboxRows>>
=============================================================================
