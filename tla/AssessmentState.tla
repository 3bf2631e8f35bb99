--------------------------- MODULE AssessmentState ---------------------------
(***************************************************************************)
(* What PostgreSQL holds about one assessment, and the operators that every *)
(* governed handler of the API shares.                                     *)
(*                                                                         *)
(* A governed handler is one transaction that first locks the Assessment   *)
(* row (FOR UPDATE) and then the AssessmentRuntime row.  Handlers of one   *)
(* assessment are therefore serial, and each is one action.                *)
(***************************************************************************)
EXTENDS Integers, Sequences, AgenticRuntime

CONSTANTS
  Rules,       \* engineering rules of the pinned legal portfolio
  Questions,   \* contents of human requests; the content is the identity
  RuleOf,      \* the rule a question is about
  Workers,     \* Root worker processes
  None         \* the absence of a value

ASSUME RulesAssumption == Rules # {} /\ None \notin Rules
ASSUME QuestionsAssumption ==
  None \notin Questions /\ RuleOf \in [Questions -> Rules]
ASSUME WorkersAssumption == Workers # {} /\ None \notin Workers

(* The final report: the case revision and the latest decision of each rule *)
(* it was written from.                                                    *)
FinalReport == [caseRevision : Nat, basis : [Rules -> Nat]]

ASSUME ReportAssumption == None \notin FinalReport

VARIABLES
  lifecycle,     \* Assessment.lifecycleState
  blocker,       \* Assessment.blockerReference: the question declared unresolvable
  execution,     \* AssessmentRuntime.currentExecutionId and executionState
  lease,         \* AssessmentRuntime.leaseToken and leaseExpiresAt
  bound,         \* AssessmentRuntime.checkpointId, 0 before the first binding
  turn,          \* AssessmentRuntimeTurn of the current execution
  controls,      \* control requests made so far (their identities)
  caseRevision,  \* AssessmentCase.caseRevision
  coverage,      \* AssessmentDecisionCoverage.resolutionState of each rule
  decisions,     \* AssessmentRuleDecision rows of each rule, oldest first
  requests,      \* AssessmentHumanRequest of each question
  report,        \* AssessmentArtifact FINAL_REPORT
  commands,      \* ROOT_REQUESTED messages not yet taken by a worker
  resumeKeys     \* idempotency keys "human-resume:<checkpoint>" already used

assessmentRow == <<lifecycle, blocker>>
runtimeRow    == <<execution, lease, bound>>
turnRow       == <<turn, controls>>
caseRows      == <<caseRevision, coverage, decisions>>
outboxRows    == <<commands, resumeKeys>>
database      == <<assessmentRow, runtimeRow, turnRow, caseRows, requests,
                   report, outboxRows>>

TurnStates ==
  {"NONE", "RUNNING", "STOP_REQUESTED", "STOPPED", "RESUME_REQUESTED",
   "COMPLETED"}

(* caseRevision is the column the handler stamps, basis the revision the    *)
(* stored packet says it reasoned over.                                     *)
DecisionRecord ==
  [caseRevision : Nat, basis : Nat,
   state : {"ACCEPTED", "SUPERSEDED", "INVALIDATED"}]

HumanRequest ==
  [status : {"NONE", "OPEN", "RESOLVED"}, checkpoint : Nat, revision : Nat]

(* Every column holds a value of its type.                                 *)
DatabaseTypeOK ==
  /\ lifecycle \in LifecycleStates
  /\ blocker \in Questions \cup {None}
  /\ execution \in [id : Nat, state : ExecutionStates]
  /\ lease \in [holder : Workers \cup {None}, live : BOOLEAN]
  /\ bound \in Nat
  /\ turn \in [state : TurnStates, request : Nat]
  /\ controls \in Nat
  /\ caseRevision \in Nat
  /\ coverage \in [Rules -> ResolutionStates]
  /\ decisions \in [Rules -> Seq(DecisionRecord)]
  /\ requests \in [Questions -> HumanRequest]
  /\ report \in FinalReport \cup {None}
  /\ commands \in Nat
  /\ resumeKeys \in SUBSET Nat

NoLease == [holder |-> None, live |-> FALSE]

(* The rows CreateAssessment and the case creation leave behind: the create *)
(* transaction ends with CREATED -> PREPARING, so CREATED is never visible. *)
DatabaseInit ==
  /\ lifecycle = "PREPARING"
  /\ blocker = None
  /\ execution = [id |-> 0, state |-> "QUEUED"]
  /\ lease = NoLease
  /\ bound = 0
  /\ turn = [state |-> "NONE", request |-> 0]
  /\ controls = 0
  /\ caseRevision = 0
  /\ coverage = [r \in Rules |-> "PENDING"]
  /\ decisions = [r \in Rules |-> <<>>]
  /\ requests = [q \in Questions |->
                   [status |-> "NONE", checkpoint |-> 0, revision |-> 0]]
  /\ report = None
  /\ commands = 0
  /\ resumeKeys = {}

-----------------------------------------------------------------------------
OpenQuestions == {q \in Questions : requests[q].status = "OPEN"}

(* BLOCKED by a HUMAN_FACT_UNRESOLVABLE blocker.                           *)
HumanBlocked == lifecycle = "BLOCKED" /\ blocker # None

(* transitionWithGuards: the edge has to be in the table with its guards    *)
(* verified, a blocker accompanies BLOCKED and only BLOCKED, and the stored *)
(* blocker is replaced.  A rejected transition rolls its transaction back.  *)
Transition(to, verified, reason) ==
  /\ LifecycleAllows(lifecycle, to, verified)
  /\ to = "BLOCKED" <=> reason # None
  /\ lifecycle' = to
  /\ blocker' = reason

(* Faulty: the caller's token is not compared with the stored one.         *)
AuthorizedByAnyToken(w) ==
  lease.live /\ execution.state = "RUNNING" /\ execution.id # 0

(* authorizeInTx: the caller's lease token is the stored one, it has not    *)
(* expired, and an execution is RUNNING.                                    *)
Authorized(w) ==
  /\ lease.holder = w
  /\ lease.live
  /\ execution.state = "RUNNING"
  /\ execution.id # 0

(* The revision compare-and-set of the commands that change the case.      *)
IsCurrentRevision(known) == known = caseRevision

(* Faulty: a decision over the previous revision counts as current.        *)
IsStaleByTwo(decision, revision) ==
  decision.state = "ACCEPTED" /\ decision.caseRevision + 1 < revision

(* invalidateCaseRevisionInTx: accepted decisions that reasoned over an     *)
(* older case revision are invalidated, and so is the coverage they gave.   *)
IsStale(decision, revision) ==
  decision.state = "ACCEPTED" /\ decision.caseRevision < revision

Invalidated(history, revision) ==
  [i \in DOMAIN history |->
     IF IsStale(history[i], revision)
     THEN [history[i] EXCEPT !.state = "INVALIDATED"]
     ELSE history[i]]

LosesDecision(r, revision) ==
  \E i \in DOMAIN decisions[r] : IsStale(decisions[r][i], revision)

(* Faulty: the decisions are invalidated and their coverage is not.        *)
CoverageKept(revision) == coverage

CoverageAfterInvalidation(revision) ==
  [r \in Rules |-> IF LosesDecision(r, revision) THEN "INVALIDATED"
                   ELSE coverage[r]]

DecisionsAfterInvalidation(revision) ==
  [r \in Rules |-> Invalidated(decisions[r], revision)]

(* prepareInTx, run by CompleteRepositorySetup once the snapshot and the    *)
(* portfolio are pinned: the assessment becomes ACTIVE and the first Root   *)
(* command is enqueued.                                                     *)
CompleteRepositorySetup ==
  /\ lifecycle = "PREPARING"
  /\ Transition("ACTIVE", ReadyToRun, None)
  /\ commands' = commands + 1
  /\ UNCHANGED <<runtimeRow, turnRow, caseRows, requests, report, resumeKeys>>
=============================================================================
