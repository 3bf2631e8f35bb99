---------------------------- MODULE RuleDecisions ----------------------------
(***************************************************************************)
(* What the Root records about the rules: investigations, accepted facts    *)
(* and decisions.  Every command needs a valid lease and an ACTIVE          *)
(* assessment.                                                              *)
(***************************************************************************)
EXTENDS AssessmentState

CONSTANTS
  MaxCaseRevision,   \* bound on the facts the Root accepts
  MaxDecisions       \* bound on the decision records of one rule

(* Faulty: the lease is enough.                                            *)
GovernedByLease(w) == Authorized(w)

Governed(w) == Authorized(w) /\ lifecycle = "ACTIVE"

StartRuleInvestigation(w, r) ==
  /\ Governed(w)
  /\ coverage[r] \notin {"INVESTIGATING", "RESOLVED"}
  /\ coverage' = [coverage EXCEPT ![r] = "INVESTIGATING"]
  /\ UNCHANGED <<assessmentRow, runtimeRow, turnRow, caseRevision, decisions,
                 requests, report, outboxRows>>

(* An accepted fact advances the case revision, which invalidates every     *)
(* decision that reasoned over an earlier one.                              *)
AcceptFact(w, known) ==
  /\ Governed(w)
  /\ IsCurrentRevision(known)
  /\ caseRevision < MaxCaseRevision
  /\ caseRevision' = caseRevision + 1
  /\ coverage' = CoverageAfterInvalidation(caseRevision + 1)
  /\ decisions' = DecisionsAfterInvalidation(caseRevision + 1)
  /\ UNCHANGED <<assessmentRow, runtimeRow, turnRow, requests, report,
                 outboxRows>>

(* validateRuleDecision on the packet's case revision.  The references,     *)
(* pins and criteria it also validates are abstracted.                      *)
PacketIsValid(packetRevision) == packetRevision = caseRevision

(* The latest decision, if accepted, is superseded by the new one.         *)
Superseded(history) ==
  [i \in DOMAIN history |->
     IF i = Len(history) /\ history[i].state = "ACCEPTED"
     THEN [history[i] EXCEPT !.state = "SUPERSEDED"]
     ELSE history[i]]

(* A packet is accepted when it reasoned over the current case and the      *)
(* worker knew the latest decision of the rule.                             *)
SubmitRuleDecision(w, r, packetRevision, knownDecision) ==
  /\ Governed(w)
  /\ PacketIsValid(packetRevision)
  /\ knownDecision = Len(decisions[r])
  /\ Len(decisions[r]) < MaxDecisions
  /\ decisions' = [decisions EXCEPT
                     ![r] = Append(Superseded(@),
                                   [caseRevision |-> caseRevision,
                                    basis |-> packetRevision,
                                    state |-> "ACCEPTED"])]
  /\ coverage' = [coverage EXCEPT ![r] = "RESOLVED"]
  /\ UNCHANGED <<assessmentRow, runtimeRow, turnRow, caseRevision, requests,
                 report, outboxRows>>
=============================================================================
