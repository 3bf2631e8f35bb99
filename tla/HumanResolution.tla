--------------------------- MODULE HumanResolution ---------------------------
(***************************************************************************)
(* Questions to the customer: the Root opens them, may declare one of them  *)
(* unresolvable, and the owner answers them.                               *)
(***************************************************************************)
EXTENDS AssessmentState

CONSTANT MaxUnknowns   \* bound on the "does not know" answers to one question

(* moveCoverageToWaiting, after a RESOLVED rule was sent back: the walk of  *)
(* the resolution table ends in WAITING_FOR_INPUT from every state.         *)
CoverageAwaiting(r) == [coverage EXCEPT ![r] = "WAITING_FOR_INPUT"]

(* An accepted packet of a rule that gets a new material question stays in  *)
(* the history as INVALIDATED.                                             *)
Reopened(history) ==
  [i \in DOMAIN history |->
     IF history[i].state = "ACCEPTED"
     THEN [history[i] EXCEPT !.state = "INVALIDATED"]
     ELSE history[i]]

DecisionsReopened(r) ==
  IF coverage[r] = "RESOLVED"
  THEN [decisions EXCEPT ![r] = Reopened(@)]
  ELSE decisions

(* A new question.  The first one takes the assessment from ACTIVE to       *)
(* WAITING_FOR_HUMAN; further ones join it there, or in a human blocker.    *)
CreateHumanRequest(q, known) ==
  /\ requests[q].status = "NONE"
  /\ lifecycle \in {"ACTIVE", "WAITING_FOR_HUMAN"} \/ HumanBlocked
  /\ IsCurrentRevision(known)
  /\ decisions' = DecisionsReopened(RuleOf[q])
  /\ requests' = [requests EXCEPT
                    ![q] = [status |-> "OPEN", checkpoint |-> 0,
                            revision |-> 0]]
  /\ coverage' = CoverageAwaiting(RuleOf[q])
  /\ IF lifecycle = "ACTIVE"
     THEN Transition("WAITING_FOR_HUMAN", {OpenMaterial}, None)
     ELSE UNCHANGED assessmentRow
  /\ UNCHANGED <<runtimeRow, turnRow, caseRevision, report, outboxRows>>

(* The same content again: the stored request is replied as it is, whatever *)
(* its status and whatever the lifecycle.                                   *)
ReplayHumanRequest(q) ==
  /\ requests[q].status # "NONE"
  /\ UNCHANGED database

OpenHumanRequest(w, q, known) ==
  /\ Authorized(w)
  /\ CreateHumanRequest(q, known) \/ ReplayHumanRequest(q)

-----------------------------------------------------------------------------
(* The checks of AnswerHumanRequest: an open question that a settled        *)
(* interrupt bound to the thread's current checkpoint, and the revisions    *)
(* the owner's page showed.                                                 *)
Answerable(q) ==
  /\ requests[q].status = "OPEN"
  /\ requests[q].checkpoint # 0
  /\ requests[q].checkpoint = bound
  /\ execution.state \in {"INTERRUPTED", "PAUSED"}

ShownRevisions(q, knownRequest, known) ==
  /\ requests[q].revision = knownRequest
  /\ IsCurrentRevision(known)

RequestsAnswered(q) ==
  [requests EXCEPT ![q] = [status     |-> "RESOLVED",
                           checkpoint |-> @.checkpoint,
                           revision   |-> @.revision + 1]]

OpenAfterAnswer(q) == OpenQuestions \ {q}

(* Faulty: every answer sends its rule back to investigation.              *)
CoverageAnsweredEarly(q) ==
  [CoverageAfterInvalidation(caseRevision + 1) EXCEPT
     ![RuleOf[q]] = "INVESTIGATING"]

(* The last open question of a rule sends it back to investigation.        *)
CoverageAnswered(q) ==
  LET base == CoverageAfterInvalidation(caseRevision + 1)
      r    == RuleOf[q]
  IN  IF /\ \A other \in OpenAfterAnswer(q) : RuleOf[other] # r
         /\ base[r] = "WAITING_FOR_INPUT"
      THEN [base EXCEPT ![r] = "INVESTIGATING"]
      ELSE base

(* The blocker's own question is resolved once q is.                       *)
ResolvesHumanBlocker(q) ==
  HumanBlocked /\ (blocker = q \/ requests[blocker].status = "RESOLVED")

(* Faulty: the first answer resumes the Root.                              *)
ResumesAfterAnyAnswer(q) ==
  /\ lifecycle = "WAITING_FOR_HUMAN" \/ ResolvesHumanBlocker(q)
  /\ execution.state = "INTERRUPTED"

(* Faulty: a human blocker is not left when its question is answered.      *)
ResumesUnlessBlocked(q) ==
  /\ OpenAfterAnswer(q) = {}
  /\ lifecycle = "WAITING_FOR_HUMAN"
  /\ execution.state = "INTERRUPTED"

(* The answer that leaves no question open resumes the Root.               *)
ResumesRoot(q) ==
  /\ OpenAfterAnswer(q) = {}
  /\ lifecycle = "WAITING_FOR_HUMAN" \/ ResolvesHumanBlocker(q)
  /\ execution.state = "INTERRUPTED"

VerifiedByAnswer(q) ==
  IF ResolvesHumanBlocker(q) THEN ReadyToRun \cup {NewInput} ELSE ReadyToRun

(* Faulty: the idempotency key names the assessment, not the checkpoint.   *)
EnqueueResumeOnce(checkpoint) ==
  /\ resumeKeys' = resumeKeys \cup {checkpoint}
  /\ commands' = IF resumeKeys # {} THEN commands ELSE commands + 1

(* The outbox row of the resume is created once for each checkpoint: the    *)
(* idempotency key makes a second enqueue update nothing.                   *)
EnqueueResume(checkpoint) ==
  /\ resumeKeys' = resumeKeys \cup {checkpoint}
  /\ commands' = IF checkpoint \in resumeKeys THEN commands ELSE commands + 1

(* A substantive answer advances the case, records the fact, and after the  *)
(* last question of the checkpoint makes the assessment ACTIVE and asks for *)
(* the Root on the same thread.                                             *)
AnswerHumanRequest(q, knownRequest, known) ==
  /\ Answerable(q)
  /\ ShownRevisions(q, knownRequest, known)
  /\ caseRevision' = caseRevision + 1
  /\ decisions' = DecisionsAfterInvalidation(caseRevision + 1)
  /\ requests' = RequestsAnswered(q)
  /\ coverage' = CoverageAnswered(q)
  /\ IF ResumesRoot(q)
     THEN Transition("ACTIVE", VerifiedByAnswer(q), None)
          /\ EnqueueResume(bound)
     ELSE UNCHANGED <<assessmentRow, outboxRows>>
  /\ UNCHANGED <<runtimeRow, turnRow, report>>

(* "I do not know" is recorded and leaves the question open.               *)
DoesNotKnow(q, knownRequest, known) ==
  /\ Answerable(q)
  /\ ShownRevisions(q, knownRequest, known)
  /\ requests[q].revision < MaxUnknowns
  /\ requests' = [requests EXCEPT ![q].revision = @ + 1]
  /\ UNCHANGED <<assessmentRow, runtimeRow, turnRow, caseRows, report,
                 outboxRows>>

(* The Root proves a material fact unobtainable.  The first such question   *)
(* becomes the blocker; a later one is only audited.                        *)
ReportUnresolvableHumanFact(w, q, knownRequest, known) ==
  /\ Authorized(w)
  /\ requests[q].status = "OPEN"
  /\ ShownRevisions(q, knownRequest, known)
  /\ \/ /\ lifecycle = "WAITING_FOR_HUMAN"
        /\ Transition("BLOCKED", {Unobtainable}, q)
     \/ /\ HumanBlocked
        /\ UNCHANGED assessmentRow
  /\ UNCHANGED <<runtimeRow, turnRow, caseRows, requests, report, outboxRows>>
=============================================================================
