----------------------- MODULE AssessmentJourney_proofs -----------------------
(***************************************************************************)
(* The assessment keeps what AssessmentJourney promises its owner: every    *)
(* step of the system is a step of the journey or invisible to the owner.   *)
(* On the way: a rule waits exactly while a question about it is open, and  *)
(* the guards the handlers vouch for are true.                             *)
(***************************************************************************)
EXTENDS AssessmentExecution_proofs

(* What an answer leaves of a rule's coverage.                             *)
LEMMA CoverageAfterAnAnswer ==
  ASSUME DatabaseTypeOK, AcceptedIsCurrent, RuleAwaitsQuestion,
         NEW q \in Questions, q \in OpenQuestions, NEW r \in Rules
  PROVE  CoverageAnswered(q)[r] = "WAITING_FOR_INPUT" <=>
           \E other \in OpenQuestions \ {q} : RuleOf[other] = r
<1> DEFINE base == CoverageAfterInvalidation(caseRevision + 1)
<1>1. \A rule \in Rules :
        base[rule] = "WAITING_FOR_INPUT" <=>
          coverage[rule] = "WAITING_FOR_INPUT"
  <2> SUFFICES ASSUME NEW rule \in Rules, coverage[rule] = "WAITING_FOR_INPUT"
               PROVE  ~LosesDecision(rule, caseRevision + 1)
    BY DEF CoverageAfterInvalidation
  <2> QED
    BY DEF LosesDecision, IsStale, AcceptedIsCurrent, AcceptedIndices
<1>2. RuleOf[q] \in Rules
  BY QuestionsAssumption
<1>3. base \in [Rules -> ResolutionStates]
  BY DEF CoverageAfterInvalidation, DatabaseTypeOK, ResolutionStates
<1>4. CoverageAnswered(q)[r] =
        IF /\ r = RuleOf[q]
           /\ \A other \in OpenQuestions \ {q} : RuleOf[other] # r
           /\ base[r] = "WAITING_FOR_INPUT"
        THEN "INVESTIGATING" ELSE base[r]
  BY <1>2, <1>3 DEF CoverageAnswered, OpenAfterAnswer
<1>5. base[r] = "WAITING_FOR_INPUT" <=>
        \E other \in OpenQuestions : RuleOf[other] = r
  BY <1>1 DEF RuleAwaitsQuestion
<1> HIDE DEF base
<1> QED
  BY <1>4, <1>5

(* A rule waits exactly while a question about it is open.                 *)
LEMMA AwaitsNext ==
  /\ DatabaseTypeOK /\ WaitingInv /\ AcceptedIsCurrent /\ RuleAwaitsQuestion
  /\ DatabaseStep
  => RuleAwaitsQuestion'
<1> SUFFICES ASSUME DatabaseTypeOK, WaitingInv, AcceptedIsCurrent,
                    RuleAwaitsQuestion, DatabaseStep
             PROVE  RuleAwaitsQuestion'
  OBVIOUS
<1> USE DEF caseRows
<1>a. coverage \in [Rules -> ResolutionStates]
  BY DEF DatabaseTypeOK
<1>1. CASE UNCHANGED coverage /\ OpenQuestions' = OpenQuestions
  BY <1>1 DEF RuleAwaitsQuestion
<1>2. ASSUME NEW q \in Questions, NEW known \in Nat, NEW shown \in Nat,
             AnswerHumanRequest(q, shown, known)
      PROVE  RuleAwaitsQuestion'
  <2>1. OpenQuestions' = OpenQuestions \ {q} /\ q \in OpenQuestions
    BY <1>2, OpenAfterAnswered
    DEF AnswerHumanRequest, Answerable, OpenQuestions
  <2>2. coverage' = CoverageAnswered(q)
    BY <1>2 DEF AnswerHumanRequest
  <2> QED
    BY <2>1, <2>2, CoverageAfterAnAnswer DEF RuleAwaitsQuestion
<1>3. ASSUME NEW q \in Questions, NEW known \in Nat, NEW shown \in Nat,
             DoesNotKnow(q, shown, known)
      PROVE  RuleAwaitsQuestion'
  BY <1>1, <1>3, StatusAfterUnknown DEF DoesNotKnow, OpenQuestions
<1>4. ASSUME NEW w \in Workers, NEW settlement \in Settlement,
             SettleStep(w, settlement)
      PROVE  RuleAwaitsQuestion'
  BY <1>1, <1>4, StatusAfterSettlement
  DEF SettleStep, FinishExecution, OpenQuestions
<1>5. ASSUME NEW w \in Workers,
             \/ \E r \in Rules : StartRuleInvestigation(w, r)
             \/ \E known \in Nat : AcceptFact(w, known)
             \/ \E r \in Rules, packet \in Nat, known \in Nat :
                  SubmitRuleDecision(w, r, packet, known)
      PROVE  RuleAwaitsQuestion'
  <2>1. lifecycle = "ACTIVE" /\ UNCHANGED requests
    BY <1>5 DEF StartRuleInvestigation, AcceptFact, SubmitRuleDecision,
       Governed
  <2>2. OpenQuestions = {} /\ OpenQuestions' = {}
    BY <2>1 DEF WaitingInv, WaitsForOpenQuestion, OpenQuestions
  <2>3. \A r \in Rules : coverage[r] # "WAITING_FOR_INPUT"
    BY <2>2 DEF RuleAwaitsQuestion
  <2>4. \A r \in Rules : coverage'[r] # "WAITING_FOR_INPUT"
    BY <1>5, <1>a, <2>3
    DEF StartRuleInvestigation, AcceptFact, SubmitRuleDecision,
        CoverageAfterInvalidation
  <2> QED
    BY <2>2, <2>4 DEF RuleAwaitsQuestion
<1>6. ASSUME NEW w \in Workers, NEW q \in Questions, NEW known \in Nat,
             CreateHumanRequest(q, known)
      PROVE  RuleAwaitsQuestion'
  <2>1. OpenQuestions' = OpenQuestions \cup {q}
    BY <1>6, OpenAfterCreate
  <2>2. coverage' = [coverage EXCEPT ![RuleOf[q]] = "WAITING_FOR_INPUT"]
    BY <1>6 DEF CreateHumanRequest, CoverageAwaiting
  <2>3. RuleOf[q] \in Rules
    BY QuestionsAssumption
  <2> QED
    BY <1>a, <2>1, <2>2, <2>3 DEF RuleAwaitsQuestion
<1>7. CASE \/ UNCHANGED database \/ CompleteRepositorySetup \/ RequestStop
           \/ RequestResume \/ CommandStep \/ LeaseStep
           \/ \E w \in Workers : ClaimStep(w)
  BY <1>1, <1>7 DEF database, CompleteRepositorySetup, RequestStop,
     RequestResume, CommandStep, LeaseStep, ClaimStep, ClaimRoot,
     OpenQuestions
<1>8. ASSUME NEW w \in Workers, NEW q \in Questions, NEW known \in Nat,
             NEW shown \in Nat,
             \/ ReportUnresolvableHumanFact(w, q, shown, known)
             \/ RequestFinalization(w) \/ SubmitFinalReport(w)
      PROVE  RuleAwaitsQuestion'
  BY <1>1, <1>8 DEF ReportUnresolvableHumanFact, RequestFinalization,
     SubmitFinalReport, OpenQuestions
<1>9. ASSUME NEW w \in Workers, RequestFinalization(w) \/ SubmitFinalReport(w)
      PROVE  RuleAwaitsQuestion'
  BY <1>1, <1>9 DEF RequestFinalization, SubmitFinalReport, OpenQuestions
<1> QED
  BY <1>2, <1>3, <1>4, <1>5, <1>6, <1>7, <1>8, <1>9
  DEF DatabaseStep, OwnerDatabaseStep, RuntimeDatabaseStep, RootDatabaseStep

JourneyInv == RunInv /\ RuleAwaitsQuestion

(* The invariant of the rows and the questions about them.                 *)
THEOREM JourneyCorrect == Spec => []JourneyInv
<1>1. Init => JourneyInv
  BY RunInvInit DEF Init, DatabaseInit, JourneyInv, RuleAwaitsQuestion,
     OpenQuestions
<1>2. JourneyInv /\ [Next]_vars => JourneyInv'
  <2> SUFFICES ASSUME JourneyInv, [Next]_vars PROVE JourneyInv'
    OBVIOUS
  <2>1. /\ DatabaseTypeOK /\ WaitingInv /\ AcceptedIsCurrent
        /\ DatabaseStep
    BY StepOfDatabase DEF JourneyInv, RunInv, CaseInv, TypeInv, TypeOK
  <2> QED
    BY <2>1, RunInvNext, AwaitsNext DEF JourneyInv
<1> QED
  BY <1>1, <1>2, PTL DEF Spec

(* A rule awaits input exactly while a question about it is open: the last  *)
(* answer about a rule, and no other, sends it back to investigation.       *)
THEOREM RuleAwaitsQuestionAlways == Spec => []RuleAwaitsQuestion
<1>1. JourneyInv => RuleAwaitsQuestion
  BY DEF JourneyInv
<1> QED
  BY <1>1, JourneyCorrect, PTL

-----------------------------------------------------------------------------
(* An edge of the table whose verified guards are true.                    *)
SoundEdge ==
  \E edge \in LifecycleTransitions :
    /\ edge[1] = lifecycle /\ edge[2] = lifecycle'
    /\ \A guard \in edge[3] : GuardHolds(guard)'
    /\ NewInput \in edge[3] => requests'[blocker].status = "RESOLVED"

(* A transition is sound when every guard its handler vouches for is true.  *)
LEMMA VerifiedIsSound ==
  ASSUME NEW to, NEW verified, NEW reason,
         Transition(to, verified, reason),
         \A guard \in verified : GuardHolds(guard)',
         NewInput \in verified => requests'[blocker].status = "RESOLVED"
  PROVE  SoundEdge
BY DEF Transition, LifecycleAllows, SoundEdge

(* Becoming ACTIVE: no question is open.                                   *)
LEMMA ReadyIsTrue ==
  ASSUME OpenQuestions' = {}
  PROVE  /\ \A guard \in ReadyToRun : GuardHolds(guard)'
         /\ NewInput \notin ReadyToRun
         /\ GuardHolds(NewInput)'
BY DEF ReadyToRun, GuardHolds, OpenMaterial, Unobtainable, SafePause,
   GatePassed, Persisted, NewInput

(* Every step that changes the lifecycle takes a sound edge.               *)
LEMMA LifecycleStep ==
  ASSUME JourneyInv, [Next]_vars, lifecycle' # lifecycle
  PROVE  SoundEdge
<1>1. DatabaseTypeOK /\ DatabaseStep /\ WaitingInv
  BY StepOfDatabase DEF JourneyInv, RunInv, CaseInv, TypeInv, TypeOK
<1>2. CASE CompleteRepositorySetup
  <2>1. Transition("ACTIVE", ReadyToRun, None)
    BY <1>2 DEF CompleteRepositorySetup
  <2>2. OpenQuestions' = {}
    BY <1>1, <1>2 DEF CompleteRepositorySetup, WaitingInv,
       WaitsForOpenQuestion, OpenQuestions
  <2> QED
    BY <2>1, <2>2, ReadyIsTrue, VerifiedIsSound
<1>3. ASSUME NEW q \in Questions, NEW known \in Nat, NEW shown \in Nat,
             AnswerHumanRequest(q, shown, known)
      PROVE  SoundEdge
  <2>1. ResumesRoot(q) /\ Transition("ACTIVE", VerifiedByAnswer(q), None)
    BY <1>3 DEF AnswerHumanRequest, assessmentRow
  <2>2. /\ OpenQuestions' = OpenQuestions \ {q}
        /\ requests'[q].status = "RESOLVED"
        /\ \A other \in Questions \ {q} : requests'[other] = requests[other]
    BY <1>1, <1>3, OpenAfterAnswered
  <2>3. OpenQuestions' = {}
    BY <2>1, <2>2 DEF ResumesRoot, OpenAfterAnswer
  <2>4. ResolvesHumanBlocker(q) => requests'[blocker].status = "RESOLVED"
    BY <1>1, <2>2 DEF ResolvesHumanBlocker, HumanBlocked, DatabaseTypeOK
  <2>5. \A guard \in VerifiedByAnswer(q) : GuardHolds(guard)'
    BY <2>3, ReadyIsTrue DEF VerifiedByAnswer
  <2>6. NewInput \in VerifiedByAnswer(q) => ResolvesHumanBlocker(q)
    BY <2>3, ReadyIsTrue DEF VerifiedByAnswer
  <2> QED
    BY <2>1, <2>4, <2>5, <2>6, VerifiedIsSound
<1>4. ASSUME NEW w \in Workers, ClaimRoot(w) PROVE SoundEdge
  <2>1. SafePauseResume /\ Transition("ACTIVE", ReadyToRun, None)
    BY <1>4 DEF ClaimRoot, assessmentRow
  <2>2. OpenQuestions' = {}
    BY <1>4, <2>1 DEF ClaimRoot, Claimable, OpenQuestions
  <2> QED
    BY <2>1, <2>2, ReadyIsTrue, VerifiedIsSound
<1>5. ASSUME NEW w \in Workers, NEW settlement \in Settlement,
             SettleStep(w, settlement)
      PROVE  SoundEdge
  <2>1. /\ settlement.outcome = "PAUSED"
        /\ Transition("PAUSED", {SafePause}, None)
    BY <1>5 DEF SettleStep, FinishExecution, assessmentRow
  <2>2. execution'.state = "PAUSED" /\ bound' # 0
    BY <1>1, <1>5, <2>1 DEF SettleStep, FinishExecution, SettlementAccepted,
       PauseIsValid, BindingAfter, DatabaseTypeOK
  <2>3. /\ \A guard \in {SafePause} : GuardHolds(guard)'
        /\ NewInput \notin {SafePause}
    BY <2>2 DEF GuardHolds, OpenMaterial, Unobtainable, SafePause,
       GatePassed, Persisted, NewInput
  <2> QED
    BY <2>1, <2>3, VerifiedIsSound
<1>6. ASSUME NEW w \in Workers, NEW q \in Questions, NEW known \in Nat,
             CreateHumanRequest(q, known)
      PROVE  SoundEdge
  <2>1. Transition("WAITING_FOR_HUMAN", {OpenMaterial}, None)
    BY <1>6 DEF CreateHumanRequest, assessmentRow
  <2>2. OpenQuestions' # {}
    BY <1>1, <1>6, OpenAfterCreate
  <2>3. /\ \A guard \in {OpenMaterial} : GuardHolds(guard)'
        /\ NewInput \notin {OpenMaterial}
    BY <2>2 DEF GuardHolds, OpenMaterial, Unobtainable, SafePause,
       GatePassed, Persisted, NewInput
  <2> QED
    BY <2>1, <2>3, VerifiedIsSound
<1>7. ASSUME NEW w \in Workers, NEW q \in Questions, NEW known \in Nat,
             NEW shown \in Nat,
             ReportUnresolvableHumanFact(w, q, shown, known)
      PROVE  SoundEdge
  <2>1. Transition("BLOCKED", {Unobtainable}, q)
    BY <1>7 DEF ReportUnresolvableHumanFact, assessmentRow
  <2>2. blocker' = q /\ q \in OpenQuestions'
    BY <1>7, <2>1 DEF ReportUnresolvableHumanFact, Transition, OpenQuestions
  <2>3. /\ \A guard \in {Unobtainable} : GuardHolds(guard)'
        /\ NewInput \notin {Unobtainable}
    BY <2>2 DEF GuardHolds, OpenMaterial, Unobtainable, SafePause,
       GatePassed, Persisted, NewInput
  <2> QED
    BY <2>1, <2>3, VerifiedIsSound
<1>8. ASSUME NEW w \in Workers, RequestFinalization(w) PROVE SoundEdge
  <2>1. Transition("FINALIZING", {GatePassed}, None)
    BY <1>8 DEF RequestFinalization
  <2>2. \A r \in Rules : RuleIsDecided(r)'
    BY <1>8 DEF RequestFinalization, GateHasNoBlocker, RuleIsDecided,
       AcceptedIndices, caseRows
  <2>3. /\ \A guard \in {GatePassed} : GuardHolds(guard)'
        /\ NewInput \notin {GatePassed}
    BY <2>2 DEF GuardHolds, OpenMaterial, Unobtainable, SafePause,
       GatePassed, Persisted, NewInput
  <2> QED
    BY <2>1, <2>3, VerifiedIsSound
<1>9. ASSUME NEW w \in Workers, SubmitFinalReport(w) PROVE SoundEdge
  <2>1. Transition("COMPLETE", {Persisted}, None)
    BY <1>9 DEF SubmitFinalReport
  <2>2. report' # None
    <3>1. report' \in FinalReport
      BY <1>1, <1>9 DEF SubmitFinalReport, FinalReport, DatabaseTypeOK
    <3> QED
      BY <3>1, ReportAssumption
  <2>3. /\ \A guard \in {Persisted} : GuardHolds(guard)'
        /\ NewInput \notin {Persisted}
    BY <2>2 DEF GuardHolds, OpenMaterial, Unobtainable, SafePause,
       GatePassed, Persisted, NewInput
  <2> QED
    BY <2>1, <2>3, VerifiedIsSound
<1>10. /\ ~UNCHANGED database /\ ~RequestStop /\ ~RequestResume
       /\ ~CommandStep /\ ~LeaseStep
       /\ \A q \in Questions, known \in Nat, shown \in Nat :
            ~DoesNotKnow(q, shown, known)
       /\ \A w \in Workers, r \in Rules : ~StartRuleInvestigation(w, r)
       /\ \A w \in Workers, known \in Nat : ~AcceptFact(w, known)
       /\ \A w \in Workers, r \in Rules, packet \in Nat, known \in Nat :
            ~SubmitRuleDecision(w, r, packet, known)
  BY DEF database, assessmentRow, RequestStop, RequestResume, CommandStep,
     LeaseStep, DoesNotKnow, StartRuleInvestigation, AcceptFact,
     SubmitRuleDecision
<1> QED
  BY <1>1, <1>2, <1>3, <1>4, <1>5, <1>6, <1>7, <1>8, <1>9, <1>10
  DEF DatabaseStep, OwnerDatabaseStep, RuntimeDatabaseStep,
      RootDatabaseStep, ClaimStep

(* The coordinator believes its callers: every guard a handler vouches for  *)
(* when it moves the lifecycle is true in the state it commits, and a human *)
(* blocker is only left with its own question resolved.                     *)
THEOREM GuardsAreTrueAlways == Spec => GuardsAreTrue
<1>1. JourneyInv /\ [Next]_vars =>
        [lifecycle' # lifecycle =>
           \E edge \in LifecycleTransitions :
             /\ edge[1] = lifecycle /\ edge[2] = lifecycle'
             /\ \A guard \in edge[3] : GuardHolds(guard)'
             /\ NewInput \in edge[3] =>
                  requests'[blocker].status = "RESOLVED"]_vars
  BY LifecycleStep DEF SoundEdge
<1> QED
  BY <1>1, JourneyCorrect, PTL DEF Spec, GuardsAreTrue

-----------------------------------------------------------------------------
(* The owner's view in terms of the rows.                                  *)
Answered == {q \in Questions : requests[q].status = "RESOLVED"}
Decided  == {r \in Rules : coverage[r] = "RESOLVED"}

(* A step the owner cannot see.                                            *)
LEMMA Unseen ==
  ASSUME JourneyPhase' = JourneyPhase, OpenQuestions' = OpenQuestions,
         Answered' = Answered, Decided' = Decided
  PROVE  [Journey!Next]_(Journey!journey)
BY DEF Journey!journey, Answered, Decided

(* The phase of each lifecycle state.                                      *)
LEMMA PhaseOf ==
  /\ lifecycle = "PREPARING" <=> JourneyPhase = "preparing"
  /\ lifecycle = "ACTIVE" <=> JourneyPhase = "investigating"
  /\ lifecycle \in {"WAITING_FOR_HUMAN", "BLOCKED"} <=> JourneyPhase = "asking"
  /\ lifecycle = "PAUSED" <=> JourneyPhase = "paused"
  /\ lifecycle = "FINALIZING" <=> JourneyPhase = "closing"
  /\ lifecycle = "COMPLETE" <=> JourneyPhase = "published"
BY DEF JourneyPhase

(* Rows that stay leave the owner's view as it is.                         *)
LEMMA SameRows ==
  /\ UNCHANGED lifecycle => JourneyPhase' = JourneyPhase
  /\ UNCHANGED requests =>
       OpenQuestions' = OpenQuestions /\ Answered' = Answered
  /\ UNCHANGED coverage => Decided' = Decided
BY DEF JourneyPhase, OpenQuestions, Answered, Decided

(* A new fact leaves no rule decided.                                      *)
LEMMA FactUndecides ==
  ASSUME DatabaseTypeOK, AcceptedIsCurrent,
         \/ coverage' = CoverageAfterInvalidation(caseRevision + 1)
         \/ \E q \in Questions : coverage' = CoverageAnswered(q)
  PROVE  Decided' = {}
<1>1. \A r \in Rules :
        CoverageAfterInvalidation(caseRevision + 1)[r] # "RESOLVED"
  BY NothingSurvivesARevision
<1>2. \A q \in Questions, r \in Rules :
        CoverageAnswered(q)[r] \in
          {CoverageAfterInvalidation(caseRevision + 1)[r], "INVESTIGATING"}
  BY DEF CoverageAnswered, CoverageAfterInvalidation
<1> QED
  BY <1>1, <1>2 DEF Decided

(* The owner's own steps: setting up, answering, stopping, continuing.      *)
LEMMA OwnerStepJourney ==
  ASSUME JourneyInv, JourneyInv', OwnerDatabaseStep
  PROVE  [Journey!Next]_(Journey!journey)
<1> USE DEF Transition, assessmentRow, caseRows
<1>1. /\ DatabaseTypeOK /\ AcceptedIsCurrent /\ WaitsForOpenQuestion
      /\ WaitsForOpenQuestion'
  BY DEF JourneyInv, RunInv, CaseInv, TypeInv, TypeOK, WaitingInv
<1>2. CASE CompleteRepositorySetup
  <2>1. JourneyPhase = "preparing" /\ JourneyPhase' = "investigating"
    BY <1>2 DEF CompleteRepositorySetup, JourneyPhase
  <2>2. UNCHANGED <<OpenQuestions, Answered, Decided>>
    BY <1>2, SameRows DEF CompleteRepositorySetup
  <2>3. Journey!Begin
    BY <2>1, <2>2 DEF Journey!Begin, Answered, Decided
  <2> QED
    BY <2>3 DEF Journey!Next
<1>3. CASE RequestStop \/ RequestResume
  BY <1>3, SameRows, Unseen DEF RequestStop, RequestResume
<1>4. ASSUME NEW q \in Questions, NEW known \in Nat, NEW shown \in Nat,
             AnswerHumanRequest(q, shown, known)
      PROVE  [Journey!Next]_(Journey!journey)
  <2>1. /\ OpenQuestions' = OpenQuestions \ {q}
        /\ requests'[q].status = "RESOLVED"
        /\ \A other \in Questions \ {q} : requests'[other] = requests[other]
    BY <1>1, <1>4, OpenAfterAnswered
  <2>2. q \in OpenQuestions
    BY <1>4 DEF AnswerHumanRequest, Answerable, OpenQuestions
  <2>3. Answered' = Answered \cup {q}
    BY <2>1 DEF Answered
  <2>4. Decided' = {}
    BY <1>1, <1>4, FactUndecides DEF AnswerHumanRequest
  <2>5. lifecycle \in {"WAITING_FOR_HUMAN", "BLOCKED"}
    BY <1>1, <2>2 DEF WaitsForOpenQuestion
  <2>6. lifecycle' \in {lifecycle, "ACTIVE"}
    BY <1>4 DEF AnswerHumanRequest
  <2>7. lifecycle' = "ACTIVE" <=> OpenQuestions' = {}
    BY <1>1, <2>5, <2>6 DEF WaitsForOpenQuestion
  <2>8. /\ JourneyPhase = "asking"
        /\ JourneyPhase' =
             IF OpenQuestions' = {} THEN "investigating" ELSE "asking"
    BY <2>5, <2>6, <2>7 DEF JourneyPhase
  <2>9. Journey!Answer(q)
    BY <2>1, <2>2, <2>3, <2>4, <2>8 DEF Journey!Answer, Answered, Decided
  <2> QED
    BY <2>9 DEF Journey!Next
<1>5. ASSUME NEW q \in Questions, NEW known \in Nat, NEW shown \in Nat,
             DoesNotKnow(q, shown, known)
      PROVE  [Journey!Next]_(Journey!journey)
  <2>1. UNCHANGED <<OpenQuestions, Answered>>
    BY <1>1, <1>5, StatusAfterUnknown DEF OpenQuestions, Answered
  <2> QED
    BY <1>5, <2>1, SameRows, Unseen DEF DoesNotKnow
<1> QED
  BY <1>2, <1>3, <1>4, <1>5 DEF OwnerDatabaseStep

(* Commands, leases, claims and settlements: the owner sees a pause and its *)
(* end.                                                                    *)
LEMMA RuntimeStepJourney ==
  ASSUME JourneyInv, RuntimeDatabaseStep
  PROVE  [Journey!Next]_(Journey!journey)
<1> USE DEF Transition, assessmentRow, caseRows
<1>1. DatabaseTypeOK
  BY DEF JourneyInv, RunInv, CaseInv, TypeInv, TypeOK
<1>2. CASE CommandStep \/ LeaseStep
  BY <1>2, SameRows, Unseen DEF CommandStep, LeaseStep
<1>3. ASSUME NEW w \in Workers, ClaimRoot(w)
      PROVE  [Journey!Next]_(Journey!journey)
  <2>1. UNCHANGED <<OpenQuestions, Answered, Decided>>
    BY <1>3, SameRows DEF ClaimRoot
  <2>2. CASE SafePauseResume
    <3>1. JourneyPhase = "paused" /\ JourneyPhase' = "investigating"
      BY <1>3, <2>2 DEF ClaimRoot, SafePauseResume, JourneyPhase
    <3>2. Journey!Continue
      BY <2>1, <3>1 DEF Journey!Continue, Answered, Decided
    <3> QED
      BY <3>2 DEF Journey!Next
  <2>3. CASE ~SafePauseResume
    BY <1>3, <2>1, <2>3, SameRows, Unseen DEF ClaimRoot
  <2> QED
    BY <2>2, <2>3
<1>4. ASSUME NEW w \in Workers, NEW settlement \in Settlement,
             SettleStep(w, settlement)
      PROVE  [Journey!Next]_(Journey!journey)
  <2>1. UNCHANGED <<OpenQuestions, Answered>>
    BY <1>1, <1>4, StatusAfterSettlement
    DEF SettleStep, OpenQuestions, Answered
  <2>2. UNCHANGED Decided
    BY <1>4, SameRows DEF SettleStep, FinishExecution
  <2>3. CASE settlement.outcome = "PAUSED"
    <3>1. JourneyPhase = "investigating" /\ JourneyPhase' = "paused"
      BY <1>4, <2>3 DEF SettleStep, FinishExecution, SettlementAccepted,
         PauseIsValid, JourneyPhase
    <3>2. Journey!Pause
      BY <2>1, <2>2, <3>1 DEF Journey!Pause, Answered, Decided
    <3> QED
      BY <3>2 DEF Journey!Next
  <2>4. CASE settlement.outcome # "PAUSED"
    BY <1>4, <2>1, <2>2, <2>4, SameRows, Unseen
    DEF SettleStep, FinishExecution
  <2> QED
    BY <2>3, <2>4
<1> QED
  BY <1>2, <1>3, <1>4 DEF RuntimeDatabaseStep, ClaimStep

(* The Root's commands: investigating, asking, closing and publishing.      *)
LEMMA RootStepJourney ==
  ASSUME JourneyInv, RootDatabaseStep
  PROVE  [Journey!Next]_(Journey!journey)
<1> USE DEF Transition, assessmentRow, caseRows
<1>1. /\ DatabaseTypeOK /\ AcceptedIsCurrent /\ PublishedCase
      /\ coverage \in [Rules -> ResolutionStates]
  BY DEF JourneyInv, RunInv, CaseInv, TypeInv, TypeOK, DatabaseTypeOK
<1>2. ASSUME NEW w \in Workers, NEW r \in Rules, StartRuleInvestigation(w, r)
      PROVE  [Journey!Next]_(Journey!journey)
  <2>1. UNCHANGED Decided
    BY <1>1, <1>2 DEF StartRuleInvestigation, Decided
  <2> QED
    BY <1>2, <2>1, SameRows, Unseen DEF StartRuleInvestigation
<1>3. ASSUME NEW w \in Workers, NEW known \in Nat, AcceptFact(w, known)
      PROVE  [Journey!Next]_(Journey!journey)
  <2>1. Decided' = {}
    BY <1>1, <1>3, FactUndecides DEF AcceptFact
  <2>2. JourneyPhase = "investigating"
    BY <1>3 DEF AcceptFact, Governed, JourneyPhase
  <2>3. UNCHANGED <<JourneyPhase, OpenQuestions, Answered>>
    BY <1>3, SameRows DEF AcceptFact
  <2>4. Journey!Learn
    BY <2>1, <2>2, <2>3 DEF Journey!Learn, Answered, Decided
  <2> QED
    BY <2>4 DEF Journey!Next
<1>4. ASSUME NEW w \in Workers, NEW r \in Rules, NEW packet \in Nat,
             NEW known \in Nat, SubmitRuleDecision(w, r, packet, known)
      PROVE  [Journey!Next]_(Journey!journey)
  <2>1. Decided' = Decided \cup {r}
    BY <1>1, <1>4 DEF SubmitRuleDecision, Decided
  <2>2. JourneyPhase = "investigating"
    BY <1>4 DEF SubmitRuleDecision, Governed, JourneyPhase
  <2>3. UNCHANGED <<JourneyPhase, OpenQuestions, Answered>>
    BY <1>4, SameRows DEF SubmitRuleDecision
  <2>4. Journey!Decide(r)
    BY <2>1, <2>2, <2>3 DEF Journey!Decide, Answered, Decided
  <2> QED
    BY <2>4 DEF Journey!Next
<1>5. ASSUME NEW w \in Workers, NEW q \in Questions, NEW known \in Nat,
             CreateHumanRequest(q, known)
      PROVE  [Journey!Next]_(Journey!journey)
  <2>1. OpenQuestions' = OpenQuestions \cup {q}
    BY <1>1, <1>5, OpenAfterCreate
  <2>2. q \notin OpenQuestions /\ q \notin Answered
    BY <1>5 DEF CreateHumanRequest, OpenQuestions, Answered
  <2>3. Answered' = Answered
    BY <1>1, <1>5 DEF CreateHumanRequest, Answered, DatabaseTypeOK
  <2>4. Decided' = Decided \ {RuleOf[q]}
    BY <1>1, <1>5, QuestionsAssumption
    DEF CreateHumanRequest, CoverageAwaiting, Decided
  <2>5. /\ JourneyPhase \in {"investigating", "asking"}
        /\ JourneyPhase' = "asking"
    BY <1>5 DEF CreateHumanRequest, HumanBlocked, JourneyPhase
  <2>6. Journey!Ask(q)
    BY <2>1, <2>2, <2>3, <2>4, <2>5 DEF Journey!Ask, Answered, Decided
  <2> QED
    BY <2>6 DEF Journey!Next
<1>6. ASSUME NEW w \in Workers, NEW q \in Questions, NEW known \in Nat,
             NEW shown \in Nat,
             ReportUnresolvableHumanFact(w, q, shown, known)
      PROVE  [Journey!Next]_(Journey!journey)
  <2>1. UNCHANGED JourneyPhase
    BY <1>6 DEF ReportUnresolvableHumanFact, JourneyPhase
  <2> QED
    BY <1>6, <2>1, SameRows, Unseen DEF ReportUnresolvableHumanFact
<1>7. ASSUME NEW w \in Workers, RequestFinalization(w)
      PROVE  [Journey!Next]_(Journey!journey)
  <2>1. JourneyPhase = "investigating" /\ JourneyPhase' = "closing"
    BY <1>7 DEF RequestFinalization, JourneyPhase
  <2>2. Decided = Rules
    BY <1>7 DEF RequestFinalization, GateHasNoBlocker, RuleIsDecided, Decided
  <2>3. UNCHANGED <<OpenQuestions, Answered, Decided>>
    BY <1>7, SameRows DEF RequestFinalization
  <2>4. Journey!Close
    BY <2>1, <2>2, <2>3 DEF Journey!Close, Answered, Decided
  <2> QED
    BY <2>4 DEF Journey!Next
<1>8. ASSUME NEW w \in Workers, SubmitFinalReport(w)
      PROVE  [Journey!Next]_(Journey!journey)
  <2>1. JourneyPhase = "closing" /\ JourneyPhase' = "published"
    BY <1>8 DEF SubmitFinalReport, JourneyPhase
  <2>2. UNCHANGED <<OpenQuestions, Answered, Decided>>
    BY <1>8, SameRows DEF SubmitFinalReport
  <2>3. Journey!Publish
    BY <2>1, <2>2 DEF Journey!Publish, Answered, Decided
  <2> QED
    BY <2>3 DEF Journey!Next
<1> QED
  BY <1>2, <1>3, <1>4, <1>5, <1>6, <1>7, <1>8 DEF RootDatabaseStep

(* Every step of the system is a step of the journey or invisible.         *)
LEMMA StepOfJourney ==
  ASSUME JourneyInv, JourneyInv', [Next]_vars
  PROVE  [Journey!Next]_(Journey!journey)
<1>1. DatabaseStep
  BY StepOfDatabase DEF JourneyInv, RunInv, CaseInv
<1>2. CASE UNCHANGED database
  BY <1>2, SameRows, Unseen DEF database, assessmentRow, caseRows
<1> QED
  BY <1>1, <1>2, OwnerStepJourney, RuntimeStepJourney, RootStepJourney
  DEF DatabaseStep

(* The runtime - handlers, leases, claims, checkpoints, commands, crashes   *)
(* and all - implements what the assessment promises its owner.             *)
THEOREM JourneyKept == Spec => KeepsJourney
<1>1. Init => Journey!Init
  BY DEF Init, DatabaseInit, Journey!Init, JourneyPhase, OpenQuestions
<1>2. JourneyInv /\ JourneyInv' /\ [Next]_vars
        => [Journey!Next]_(Journey!journey)
  BY StepOfJourney
<1> QED
  BY <1>1, <1>2, JourneyCorrect, PTL DEF Spec, KeepsJourney, Journey!Spec
=============================================================================
