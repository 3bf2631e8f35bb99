------------------------ MODULE AssessmentCase_proofs ------------------------
(***************************************************************************)
(* The safety of one assessment's case, for every set of rules, questions   *)
(* and workers, with any number of mishaps: what is accepted is current,    *)
(* the assessment waits exactly while a question is open, and what is       *)
(* published is complete and stays as it is.                               *)
(*                                                                         *)
(* Each invariant is proved of the database alone, one handler at a time.   *)
(***************************************************************************)
EXTENDS AssessmentRoot_proofs

(* BLOCKED and only BLOCKED has a blocker, and the blocker is a question     *)
(* that was asked.                                                         *)
BlockerNamesBlock ==
  /\ lifecycle = "BLOCKED" <=> blocker # None
  /\ blocker # None => requests[blocker].status # "NONE"

(* The execution is paused exactly while the assessment is.                *)
PauseAgrees == execution.state = "PAUSED" <=> lifecycle = "PAUSED"

WaitingInv == WaitsForOpenQuestion /\ BlockerNamesBlock /\ PauseAgrees

CaseInv == TypeInv /\ WaitingInv /\ AcceptedIsCurrent /\ PublishedCase

-----------------------------------------------------------------------------
(* What the handlers do to the open questions.                             *)
LEMMA OpenAfterCreate ==
  ASSUME DatabaseTypeOK, NEW q \in Questions, NEW known \in Nat,
         CreateHumanRequest(q, known)
  PROVE  /\ OpenQuestions' = OpenQuestions \cup {q}
         /\ \A other \in Questions :
              requests[other].status # "NONE" =>
                requests'[other].status # "NONE"
BY DEF CreateHumanRequest, OpenQuestions, DatabaseTypeOK, HumanRequest

(* An answer closes its own question and touches no other.                 *)
LEMMA OpenAfterAnswered ==
  ASSUME DatabaseTypeOK, NEW q \in Questions, NEW known \in Nat,
         NEW shown \in Nat, AnswerHumanRequest(q, shown, known)
  PROVE  /\ OpenQuestions' = OpenQuestions \ {q}
         /\ requests'[q].status = "RESOLVED"
         /\ \A other \in Questions \ {q} : requests'[other] = requests[other]
BY DEF AnswerHumanRequest, RequestsAnswered, OpenQuestions, DatabaseTypeOK

(* "I do not know" leaves every question as open as it was.                *)
LEMMA StatusAfterUnknown ==
  ASSUME DatabaseTypeOK, NEW q \in Questions, NEW known \in Nat,
         NEW shown \in Nat, DoesNotKnow(q, shown, known)
  PROVE  \A other \in Questions : requests'[other].status = requests[other].status
BY DEF DoesNotKnow, DatabaseTypeOK, HumanRequest

(* Binding the questions to a checkpoint leaves their status alone.        *)
LEMMA StatusAfterSettlement ==
  ASSUME DatabaseTypeOK, NEW w \in Workers, NEW settlement \in Settlement,
         FinishExecution(w, settlement)
  PROVE  \A other \in Questions : requests'[other].status = requests[other].status
BY DEF FinishExecution, DatabaseTypeOK, HumanRequest

-----------------------------------------------------------------------------
(* The assessment waits exactly while a question is open.                  *)
LEMMA WaitingNext ==
  DatabaseTypeOK /\ WaitingInv /\ DatabaseStep => WaitingInv'
<1> SUFFICES ASSUME DatabaseTypeOK, WaitingInv, DatabaseStep PROVE WaitingInv'
  OBVIOUS
<1> USE DEF assessmentRow, runtimeRow, turnRow, caseRows, outboxRows,
            Transition
<1>a. None \notin Questions
  BY QuestionsAssumption
<1>b. blocker \in Questions \cup {None}
  BY DEF DatabaseTypeOK
<1>1. CASE UNCHANGED database
  BY <1>1 DEF database, WaitingInv, WaitsForOpenQuestion, BlockerNamesBlock,
     PauseAgrees, OpenQuestions
<1>2. CASE CompleteRepositorySetup \/ RequestStop \/ RequestResume
  BY <1>2 DEF CompleteRepositorySetup, RequestStop, RequestResume, WaitingInv,
     WaitsForOpenQuestion, BlockerNamesBlock, PauseAgrees, OpenQuestions
<1>3. ASSUME NEW q \in Questions, NEW known \in Nat, NEW shown \in Nat,
             AnswerHumanRequest(q, shown, known)
      PROVE  WaitingInv'
  <2>1. /\ OpenQuestions' = OpenQuestions \ {q}
        /\ requests'[q].status = "RESOLVED"
        /\ \A other \in Questions \ {q} : requests'[other] = requests[other]
    BY <1>3, OpenAfterAnswered
  <2>2. q \in OpenQuestions /\ execution.state \in {"INTERRUPTED", "PAUSED"}
    BY <1>3 DEF AnswerHumanRequest, Answerable, OpenQuestions
  <2>3. lifecycle \in {"WAITING_FOR_HUMAN", "BLOCKED"}
    BY <2>2 DEF WaitingInv, WaitsForOpenQuestion
  <2>4. execution.state = "INTERRUPTED"
    BY <2>2, <2>3 DEF WaitingInv, PauseAgrees
  <2>5. UNCHANGED execution
    BY <1>3 DEF AnswerHumanRequest
  <2>6. CASE OpenQuestions \ {q} = {}
    <3>1. HumanBlocked => ResolvesHumanBlocker(q)
      <4> SUFFICES ASSUME HumanBlocked, blocker # q
                   PROVE  requests[blocker].status = "RESOLVED"
        BY DEF ResolvesHumanBlocker
      <4>1. blocker \in Questions /\ blocker \notin OpenQuestions
        BY <1>b, <2>6 DEF HumanBlocked
      <4>2. requests[blocker].status \in {"NONE", "OPEN", "RESOLVED"}
        BY <4>1 DEF DatabaseTypeOK, HumanRequest
      <4> QED
        BY <4>1, <4>2
        DEF HumanBlocked, WaitingInv, BlockerNamesBlock, OpenQuestions
    <3>2. ResumesRoot(q)
      BY <2>3, <2>4, <2>6, <3>1
      DEF ResumesRoot, OpenAfterAnswer, HumanBlocked, WaitingInv,
          BlockerNamesBlock
    <3>3. lifecycle' = "ACTIVE" /\ blocker' = None
      BY <1>3, <3>2 DEF AnswerHumanRequest
    <3> QED
      BY <2>1, <2>4, <2>5, <2>6, <3>3
      DEF WaitingInv, WaitsForOpenQuestion, BlockerNamesBlock, PauseAgrees
  <2>7. CASE OpenQuestions \ {q} # {}
    <3>1. UNCHANGED <<lifecycle, blocker>>
      BY <1>3, <2>7 DEF AnswerHumanRequest, ResumesRoot, OpenAfterAnswer
    <3>2. BlockerNamesBlock'
      BY <1>b, <2>1, <3>1 DEF WaitingInv, BlockerNamesBlock
    <3> QED
      BY <2>1, <2>3, <2>5, <2>7, <3>1, <3>2
      DEF WaitingInv, WaitsForOpenQuestion, PauseAgrees
  <2> QED
    BY <2>6, <2>7
<1>4. ASSUME NEW q \in Questions, NEW known \in Nat, NEW shown \in Nat,
             DoesNotKnow(q, shown, known)
      PROVE  WaitingInv'
  <2>1. \A other \in Questions : requests'[other].status = requests[other].status
    BY <1>4, StatusAfterUnknown
  <2>2. OpenQuestions' = OpenQuestions
    BY <2>1 DEF OpenQuestions
  <2>3. UNCHANGED <<lifecycle, blocker, execution>>
    BY <1>4 DEF DoesNotKnow
  <2> QED
    BY <1>b, <2>1, <2>2, <2>3
    DEF WaitingInv, WaitsForOpenQuestion, BlockerNamesBlock, PauseAgrees
<1>5. CASE CommandStep \/ LeaseStep
  BY <1>5 DEF CommandStep, LeaseStep, WaitingInv, WaitsForOpenQuestion,
     BlockerNamesBlock, PauseAgrees, OpenQuestions
<1>6. ASSUME NEW w \in Workers, ClaimStep(w) PROVE WaitingInv'
  <2>1. UNCHANGED requests /\ execution'.state = "RUNNING"
    BY <1>6 DEF ClaimStep, ClaimRoot
  <2>2. OpenQuestions' = OpenQuestions
    BY <2>1 DEF OpenQuestions
  <2>3. CASE SafePauseResume
    BY <1>6, <2>1, <2>2, <2>3
    DEF ClaimStep, ClaimRoot, SafePauseResume, WaitingInv,
        WaitsForOpenQuestion, BlockerNamesBlock, PauseAgrees
  <2>4. CASE ~SafePauseResume
    <3>1. UNCHANGED <<lifecycle, blocker>>
      BY <1>6, <2>4 DEF ClaimStep, ClaimRoot
    <3>2. lifecycle # "PAUSED"
      BY <1>6, <2>4 DEF ClaimStep, ClaimRoot, Claimable,
         RecoveringHumanInterrupt, HumanBlocked
    <3> QED
      BY <2>1, <2>2, <3>1, <3>2
      DEF WaitingInv, WaitsForOpenQuestion, BlockerNamesBlock, PauseAgrees
  <2> QED
    BY <2>3, <2>4
<1>7. ASSUME NEW w \in Workers, NEW settlement \in Settlement,
             SettleStep(w, settlement)
      PROVE  WaitingInv'
  <2>1. \A other \in Questions : requests'[other].status = requests[other].status
    BY <1>7, StatusAfterSettlement DEF SettleStep
  <2>2. OpenQuestions' = OpenQuestions
    BY <2>1 DEF OpenQuestions
  <2>3. execution'.state = settlement.outcome
    BY <1>7 DEF SettleStep, FinishExecution, DatabaseTypeOK
  <2>4. CASE settlement.outcome = "PAUSED"
    BY <1>7, <2>2, <2>3, <2>4
    DEF SettleStep, FinishExecution, SettlementAccepted, PauseIsValid,
        WaitingInv, WaitsForOpenQuestion, BlockerNamesBlock, PauseAgrees
  <2>5. CASE settlement.outcome # "PAUSED"
    <3>1. UNCHANGED <<lifecycle, blocker>> /\ execution.state = "RUNNING"
      BY <1>7, <2>5 DEF SettleStep, FinishExecution, SettlementAccepted,
         Authorized
    <3> QED
      BY <1>b, <2>1, <2>2, <2>3, <2>5, <3>1
      DEF WaitingInv, WaitsForOpenQuestion, BlockerNamesBlock, PauseAgrees
  <2> QED
    BY <2>4, <2>5
<1>8. ASSUME NEW w \in Workers,
             \/ \E r \in Rules : StartRuleInvestigation(w, r)
             \/ \E known \in Nat : AcceptFact(w, known)
             \/ \E r \in Rules, packet \in Nat, known \in Nat :
                  SubmitRuleDecision(w, r, packet, known)
      PROVE  WaitingInv'
  BY <1>8 DEF StartRuleInvestigation, AcceptFact, SubmitRuleDecision,
     WaitingInv, WaitsForOpenQuestion, BlockerNamesBlock, PauseAgrees,
     OpenQuestions
<1>9. ASSUME NEW w \in Workers, NEW q \in Questions, NEW known \in Nat,
             Authorized(w), CreateHumanRequest(q, known)
      PROVE  WaitingInv'
  <2>1. /\ OpenQuestions' = OpenQuestions \cup {q}
        /\ \A other \in Questions :
             requests[other].status # "NONE" =>
               requests'[other].status # "NONE"
    BY <1>9, OpenAfterCreate
  <2>2. UNCHANGED execution /\ execution.state = "RUNNING"
    BY <1>9 DEF CreateHumanRequest, Authorized
  <2>3. CASE lifecycle = "ACTIVE"
    <3>1. lifecycle' = "WAITING_FOR_HUMAN" /\ blocker' = None
      BY <1>9, <2>3 DEF CreateHumanRequest
    <3> QED
      BY <2>1, <2>2, <3>1
      DEF WaitingInv, WaitsForOpenQuestion, BlockerNamesBlock, PauseAgrees
  <2>4. CASE lifecycle # "ACTIVE"
    <3>1. UNCHANGED <<lifecycle, blocker>>
      BY <1>9, <2>4 DEF CreateHumanRequest
    <3>2. lifecycle \in {"WAITING_FOR_HUMAN", "BLOCKED"}
      BY <1>9, <2>4 DEF CreateHumanRequest, HumanBlocked
    <3> QED
      BY <1>b, <2>1, <2>2, <3>1, <3>2
      DEF WaitingInv, WaitsForOpenQuestion, BlockerNamesBlock, PauseAgrees
  <2> QED
    BY <2>3, <2>4
<1>10. ASSUME NEW w \in Workers, NEW q \in Questions, NEW known \in Nat,
              NEW shown \in Nat,
              ReportUnresolvableHumanFact(w, q, shown, known)
       PROVE  WaitingInv'
  BY <1>a, <1>10 DEF ReportUnresolvableHumanFact, WaitingInv,
     WaitsForOpenQuestion, BlockerNamesBlock, PauseAgrees, OpenQuestions
<1>11. ASSUME NEW w \in Workers,
              RequestFinalization(w) \/ SubmitFinalReport(w)
       PROVE  WaitingInv'
  BY <1>11 DEF RequestFinalization, SubmitFinalReport, WaitingInv,
     WaitsForOpenQuestion, BlockerNamesBlock, PauseAgrees, OpenQuestions
<1> QED
  BY <1>1, <1>2, <1>3, <1>4, <1>5, <1>6, <1>7, <1>8, <1>9, <1>10, <1>11
  DEF DatabaseStep, OwnerDatabaseStep, RuntimeDatabaseStep, RootDatabaseStep

-----------------------------------------------------------------------------
(* One rule's part of AcceptedIsCurrent, over any values of its columns.    *)
RuleAgrees(history, state, revision) ==
  /\ \A i \in DOMAIN history :
       history[i].state = "ACCEPTED" =>
         /\ i = Len(history)
         /\ history[i].caseRevision = revision
         /\ history[i].basis = revision
  /\ state = "RESOLVED" <=>
       \E i \in DOMAIN history : history[i].state = "ACCEPTED"

(* AcceptedIsCurrent, one rule at a time.                                  *)
LEMMA AcceptedByRule ==
  AcceptedIsCurrent <=>
    \A r \in Rules : RuleAgrees(decisions[r], coverage[r], caseRevision)
BY DEF AcceptedIsCurrent, RuleAgrees, AcceptedIndices

(* A new revision invalidates every accepted decision.                     *)
LEMMA NothingSurvivesARevision ==
  ASSUME DatabaseTypeOK, AcceptedIsCurrent, NEW r \in Rules
  PROVE  /\ \A i \in DOMAIN DecisionsAfterInvalidation(caseRevision + 1)[r] :
              DecisionsAfterInvalidation(caseRevision + 1)[r][i].state
                # "ACCEPTED"
         /\ CoverageAfterInvalidation(caseRevision + 1)[r] # "RESOLVED"
<1> DEFINE h == decisions[r]
<1>1. h \in Seq(DecisionRecord) /\ caseRevision \in Nat
  BY DEF DatabaseTypeOK
<1>2. DOMAIN h = 1..Len(h)
  BY <1>1
<1>3. \A i \in DOMAIN h : h[i] \in DecisionRecord
  BY <1>1
<1>4. \A i \in DOMAIN h :
        h[i].state = "ACCEPTED" => IsStale(h[i], caseRevision + 1)
  BY <1>1 DEF IsStale, AcceptedIsCurrent, AcceptedIndices
<1>5. DecisionsAfterInvalidation(caseRevision + 1)[r]
        = Invalidated(h, caseRevision + 1)
  BY DEF DecisionsAfterInvalidation
<1>6. \A i \in DOMAIN h :
        Invalidated(h, caseRevision + 1)[i].state # "ACCEPTED"
  BY <1>3, <1>4 DEF Invalidated, IsStale, DecisionRecord
<1>7. DOMAIN Invalidated(h, caseRevision + 1) = DOMAIN h
  BY DEF Invalidated
<1>8. CoverageAfterInvalidation(caseRevision + 1)[r] # "RESOLVED"
  <2>1. CASE coverage[r] = "RESOLVED"
    BY <1>4, <2>1 DEF CoverageAfterInvalidation, LosesDecision,
       AcceptedIsCurrent, AcceptedIndices
  <2>2. CASE coverage[r] # "RESOLVED"
    BY <2>2 DEF CoverageAfterInvalidation
  <2> QED
    BY <2>1, <2>2
<1> QED
  BY <1>5, <1>6, <1>7, <1>8

(* What is accepted is current.                                            *)
LEMMA AcceptedNext ==
  DatabaseTypeOK /\ AcceptedIsCurrent /\ DatabaseStep => AcceptedIsCurrent'
<1> SUFFICES ASSUME DatabaseTypeOK, AcceptedIsCurrent, DatabaseStep
             PROVE  AcceptedIsCurrent'
  OBVIOUS
<1> USE DEF caseRows
<1>a. \A r \in Rules : RuleAgrees(decisions[r], coverage[r], caseRevision)
  BY AcceptedByRule
<1>b. /\ decisions \in [Rules -> Seq(DecisionRecord)]
      /\ coverage \in [Rules -> ResolutionStates]
      /\ caseRevision \in Nat
  BY DEF DatabaseTypeOK
<1>c. ASSUME \A r \in Rules :
               RuleAgrees(decisions'[r], coverage'[r], caseRevision')
      PROVE  AcceptedIsCurrent'
  BY <1>c DEF AcceptedIsCurrent, RuleAgrees, AcceptedIndices
<1>1. CASE UNCHANGED caseRows
  BY <1>1 DEF AcceptedIsCurrent, AcceptedIndices
<1>2. ASSUME NEW q \in Questions, NEW known \in Nat, NEW shown \in Nat,
             AnswerHumanRequest(q, shown, known)
      PROVE  AcceptedIsCurrent'
  <2> SUFFICES ASSUME NEW r \in Rules
               PROVE  RuleAgrees(decisions'[r], coverage'[r], caseRevision')
    BY <1>c
  <2>1. decisions' = DecisionsAfterInvalidation(caseRevision + 1)
    BY <1>2 DEF AnswerHumanRequest
  <2>2. coverage' = CoverageAnswered(q)
    BY <1>2 DEF AnswerHumanRequest
  <2>3. CoverageAnswered(q)[r] \in
          {CoverageAfterInvalidation(caseRevision + 1)[r], "INVESTIGATING"}
    BY DEF CoverageAnswered, CoverageAfterInvalidation
  <2> QED
    BY <2>1, <2>2, <2>3, NothingSurvivesARevision DEF RuleAgrees
<1>3. ASSUME NEW w \in Workers, NEW known \in Nat, AcceptFact(w, known)
      PROVE  AcceptedIsCurrent'
  <2> SUFFICES ASSUME NEW r \in Rules
               PROVE  RuleAgrees(decisions'[r], coverage'[r], caseRevision')
    BY <1>c
  <2>1. /\ decisions' = DecisionsAfterInvalidation(caseRevision + 1)
        /\ coverage' = CoverageAfterInvalidation(caseRevision + 1)
    BY <1>3 DEF AcceptFact
  <2> QED
    BY <2>1, NothingSurvivesARevision DEF RuleAgrees
<1>4. ASSUME NEW w \in Workers, NEW r \in Rules, StartRuleInvestigation(w, r)
      PROVE  AcceptedIsCurrent'
  <2>1. /\ coverage[r] # "RESOLVED"
        /\ coverage' = [coverage EXCEPT ![r] = "INVESTIGATING"]
        /\ UNCHANGED <<decisions, caseRevision>>
    BY <1>4 DEF StartRuleInvestigation
  <2> QED
    BY <1>a, <1>b, <1>c, <2>1 DEF RuleAgrees
<1>5. ASSUME NEW w \in Workers, NEW r \in Rules, NEW packet \in Nat,
             NEW known \in Nat, SubmitRuleDecision(w, r, packet, known)
      PROVE  AcceptedIsCurrent'
  <2> DEFINE h == decisions[r]
             new == [caseRevision |-> caseRevision, basis |-> packet,
                     state |-> "ACCEPTED"]
  <2>1. /\ decisions' = [decisions EXCEPT ![r] = Append(Superseded(h), new)]
        /\ coverage' = [coverage EXCEPT ![r] = "RESOLVED"]
        /\ caseRevision' = caseRevision
        /\ packet = caseRevision
    BY <1>5 DEF SubmitRuleDecision, PacketIsValid
  <2>2. /\ h \in Seq(DecisionRecord)
        /\ Superseded(h) \in Seq(DecisionRecord)
        /\ Len(Superseded(h)) = Len(h)
    BY <1>b, HistoryType
  <2>3. new \in DecisionRecord
    BY <1>b DEF DecisionRecord
  <2>4. \A i \in 1..Len(h) : Superseded(h)[i].state # "ACCEPTED"
    <3>1. \A i \in 1..Len(h) : h[i] \in DecisionRecord /\ i \in DOMAIN h
      BY <2>2
    <3>2. \A i \in 1..Len(h) : h[i].state = "ACCEPTED" => i = Len(h)
      BY <1>a, <3>1 DEF RuleAgrees
    <3> QED
      BY <3>1, <3>2 DEF Superseded, DecisionRecord
  <2> DEFINE after == Append(Superseded(h), new)
  <2>5. /\ Len(after) = Len(h) + 1
        /\ DOMAIN after = 1..(Len(h) + 1)
        /\ after[Len(h) + 1] = new
        /\ \A i \in 1..Len(h) : after[i] = Superseded(h)[i]
    BY <2>2, <2>3
  <2>6. Len(h) \in Nat
    BY <2>2
  <2> HIDE DEF h
  <2>7. RuleAgrees(after, "RESOLVED", caseRevision)
    <3>1. \A i \in DOMAIN after :
            after[i].state = "ACCEPTED" => i = Len(h) + 1
      BY <2>4, <2>5, <2>6
    <3>2. Len(h) + 1 \in DOMAIN after
      BY <2>5, <2>6
    <3> HIDE DEF after
    <3> QED
      BY <2>1, <2>5, <3>1, <3>2 DEF RuleAgrees
  <2> HIDE DEF after
  <2>8. decisions'[r] = after /\ coverage'[r] = "RESOLVED"
    BY <1>b, <2>1 DEF after
  <2>9. \A other \in Rules \ {r} :
          decisions'[other] = decisions[other] /\ coverage'[other] = coverage[other]
    BY <1>b, <2>1
  <2> QED
    BY <1>a, <1>c, <2>1, <2>7, <2>8, <2>9
<1>6. ASSUME NEW w \in Workers, NEW q \in Questions, NEW known \in Nat,
             CreateHumanRequest(q, known)
      PROVE  AcceptedIsCurrent'
  <2> DEFINE r == RuleOf[q]
  <2>0. r \in Rules
    BY QuestionsAssumption
  <2>1. /\ decisions' = DecisionsReopened(r)
        /\ coverage' = [coverage EXCEPT ![r] = "WAITING_FOR_INPUT"]
        /\ caseRevision' = caseRevision
    BY <1>6 DEF CreateHumanRequest, CoverageAwaiting
  <2>2. \A other \in Rules \ {r} :
          decisions'[other] = decisions[other] /\ coverage'[other] = coverage[other]
    BY <1>b, <2>1 DEF DecisionsReopened
  <2>3. coverage'[r] = "WAITING_FOR_INPUT"
    BY <1>b, <2>0, <2>1
  <2>4. \A i \in DOMAIN decisions'[r] : decisions'[r][i].state # "ACCEPTED"
    <3>1. CASE coverage[r] = "RESOLVED"
      <4>1. decisions'[r] = Reopened(decisions[r])
        BY <1>b, <2>0, <2>1, <3>1 DEF DecisionsReopened
      <4>2. \A i \in DOMAIN decisions[r] : decisions[r][i] \in DecisionRecord
        BY <1>b, <2>0
      <4> QED
        BY <4>1, <4>2 DEF Reopened, DecisionRecord
    <3>2. CASE coverage[r] # "RESOLVED"
      BY <1>a, <2>0, <2>1, <3>2 DEF DecisionsReopened, RuleAgrees
    <3> QED
      BY <3>1, <3>2
  <2> HIDE DEF r
  <2>5. RuleAgrees(decisions'[r], coverage'[r], caseRevision')
    BY <2>3, <2>4 DEF RuleAgrees
  <2> QED
    BY <1>a, <1>c, <2>0, <2>1, <2>2, <2>5
<1>7. CASE UNCHANGED database \/ RuntimeDatabaseStep
  BY <1>1, <1>7 DEF database, RuntimeDatabaseStep, CommandStep, LeaseStep,
     ClaimStep, ClaimRoot, SettleStep, FinishExecution
<1>8. CASE OwnerDatabaseStep
  BY <1>1, <1>2, <1>8 DEF OwnerDatabaseStep, CompleteRepositorySetup,
     RequestStop, RequestResume, DoesNotKnow
<1>9. CASE RootDatabaseStep
  BY <1>1, <1>3, <1>4, <1>5, <1>6, <1>9 DEF RootDatabaseStep,
     ReportUnresolvableHumanFact, RequestFinalization, SubmitFinalReport
<1> QED
  BY <1>7, <1>8, <1>9 DEF DatabaseStep

-----------------------------------------------------------------------------
(* A step that changes nothing the publication speaks of.                  *)
LEMMA PublishedUntouched ==
  ASSUME PublishedCase, UNCHANGED <<caseRows, report>>,
         OpenQuestions' = OpenQuestions,
         \/ UNCHANGED lifecycle
         \/ /\ lifecycle # "COMPLETE"
            /\ lifecycle' \notin {"FINALIZING", "COMPLETE"}
  PROVE  PublishedCase'
BY DEF PublishedCase, RuleIsDecided, AcceptedIndices, caseRows

(* A step before finalization that stays before it.                        *)
LEMMA NotYetFinalizing ==
  ASSUME PublishedCase, UNCHANGED report,
         lifecycle # "COMPLETE",
         lifecycle' \notin {"FINALIZING", "COMPLETE"}
  PROVE  PublishedCase'
BY DEF PublishedCase

(* What is published is complete.                                          *)
LEMMA PublishedNext ==
  DatabaseTypeOK /\ WaitingInv /\ PublishedCase /\ DatabaseStep
    => PublishedCase'
<1> SUFFICES ASSUME DatabaseTypeOK, WaitingInv, PublishedCase, DatabaseStep
             PROVE  PublishedCase'
  OBVIOUS
<1> USE DEF assessmentRow, Transition
<1>1. CASE UNCHANGED database
  BY <1>1, PublishedUntouched DEF database, OpenQuestions
<1>2. CASE CompleteRepositorySetup \/ RequestStop \/ RequestResume
  BY <1>2, PublishedUntouched
  DEF CompleteRepositorySetup, RequestStop, RequestResume, OpenQuestions
<1>3. ASSUME NEW q \in Questions, NEW known \in Nat, NEW shown \in Nat,
             AnswerHumanRequest(q, shown, known)
      PROVE  PublishedCase'
  <2>1. lifecycle \in {"WAITING_FOR_HUMAN", "BLOCKED"}
    BY <1>3 DEF AnswerHumanRequest, Answerable, OpenQuestions, WaitingInv,
       WaitsForOpenQuestion
  <2>2. lifecycle' \in {lifecycle, "ACTIVE"} /\ UNCHANGED report
    BY <1>3 DEF AnswerHumanRequest
  <2> QED
    BY <2>1, <2>2, NotYetFinalizing
<1>4. ASSUME NEW q \in Questions, NEW known \in Nat, NEW shown \in Nat,
             DoesNotKnow(q, shown, known)
      PROVE  PublishedCase'
  <2>1. OpenQuestions' = OpenQuestions
    BY <1>4, StatusAfterUnknown DEF OpenQuestions
  <2> QED
    BY <1>4, <2>1, PublishedUntouched DEF DoesNotKnow
<1>5. CASE CommandStep \/ LeaseStep
  BY <1>5, PublishedUntouched DEF CommandStep, LeaseStep, OpenQuestions
<1>6. ASSUME NEW w \in Workers, ClaimStep(w) PROVE PublishedCase'
  BY <1>6, PublishedUntouched
  DEF ClaimStep, ClaimRoot, SafePauseResume, OpenQuestions
<1>7. ASSUME NEW w \in Workers, NEW settlement \in Settlement,
             SettleStep(w, settlement)
      PROVE  PublishedCase'
  <2>1. OpenQuestions' = OpenQuestions
    BY <1>7, StatusAfterSettlement DEF SettleStep, OpenQuestions
  <2> QED
    BY <1>7, <2>1, PublishedUntouched
    DEF SettleStep, FinishExecution, SettlementAccepted, PauseIsValid
<1>8. ASSUME NEW w \in Workers,
             \/ \E r \in Rules : StartRuleInvestigation(w, r)
             \/ \E known \in Nat : AcceptFact(w, known)
             \/ \E r \in Rules, packet \in Nat, known \in Nat :
                  SubmitRuleDecision(w, r, packet, known)
      PROVE  PublishedCase'
  BY <1>8, NotYetFinalizing
  DEF StartRuleInvestigation, AcceptFact, SubmitRuleDecision, Governed
<1>9. ASSUME NEW w \in Workers, NEW q \in Questions, NEW known \in Nat,
             CreateHumanRequest(q, known)
      PROVE  PublishedCase'
  BY <1>9, NotYetFinalizing DEF CreateHumanRequest, HumanBlocked
<1>10. ASSUME NEW w \in Workers, NEW q \in Questions, NEW known \in Nat,
              NEW shown \in Nat,
              ReportUnresolvableHumanFact(w, q, shown, known)
       PROVE  PublishedCase'
  BY <1>10, NotYetFinalizing DEF ReportUnresolvableHumanFact, HumanBlocked
<1>11. ASSUME NEW w \in Workers, RequestFinalization(w) PROVE PublishedCase'
  BY <1>11 DEF RequestFinalization, GateHasNoBlocker, PublishedCase,
     OpenQuestions, RuleIsDecided, AcceptedIndices, caseRows
<1>12. ASSUME NEW w \in Workers, SubmitFinalReport(w) PROVE PublishedCase'
  <2>1. /\ OpenQuestions' = {}
        /\ \A r \in Rules : RuleIsDecided(r)'
    BY <1>12 DEF SubmitFinalReport, GateHasNoBlocker, OpenQuestions,
       RuleIsDecided, AcceptedIndices, caseRows
  <2>2. /\ lifecycle' = "COMPLETE"
        /\ report' = [caseRevision |-> caseRevision,
                      basis |-> [r \in Rules |-> Len(decisions[r])]]
        /\ UNCHANGED <<caseRevision, decisions>>
    BY <1>12 DEF SubmitFinalReport, caseRows
  <2>3. report' # None
    <3>1. report' \in FinalReport
      BY <2>2 DEF FinalReport, DatabaseTypeOK
    <3> QED
      BY <3>1, ReportAssumption
  <2> QED
    BY <2>1, <2>2, <2>3 DEF PublishedCase
<1> QED
  BY <1>1, <1>2, <1>3, <1>4, <1>5, <1>6, <1>7, <1>8, <1>9, <1>10, <1>11, <1>12
  DEF DatabaseStep, OwnerDatabaseStep, RuntimeDatabaseStep, RootDatabaseStep

-----------------------------------------------------------------------------
(* The created assessment satisfies the invariant.                         *)
LEMMA CaseInvInit == Init => CaseInv
<1> SUFFICES ASSUME Init PROVE CaseInv
  OBVIOUS
<1>1. TypeInv
  BY TypeInvInit
<1>2. WaitingInv
  BY DEF Init, DatabaseInit, WaitingInv, WaitsForOpenQuestion,
     BlockerNamesBlock, PauseAgrees, OpenQuestions
<1>3. AcceptedIsCurrent
  BY DEF Init, DatabaseInit, AcceptedIsCurrent, AcceptedIndices
<1>4. PublishedCase
  BY DEF Init, DatabaseInit, PublishedCase
<1> QED
  BY <1>1, <1>2, <1>3, <1>4 DEF CaseInv

(* Every step keeps it.                                                    *)
LEMMA CaseInvNext == CaseInv /\ [Next]_vars => CaseInv'
<1> SUFFICES ASSUME CaseInv, [Next]_vars PROVE CaseInv'
  OBVIOUS
<1>1. DatabaseTypeOK /\ DatabaseStep
  BY StepOfDatabase DEF CaseInv, TypeInv, TypeOK
<1> QED
  BY <1>1, TypeInvNext, WaitingNext, AcceptedNext, PublishedNext DEF CaseInv

(* The inductive invariant behind the theorems below.                      *)
THEOREM CaseCorrect == Spec => []CaseInv
<1>1. Init => CaseInv
  BY CaseInvInit
<1>2. CaseInv /\ [Next]_vars => CaseInv'
  BY CaseInvNext
<1> QED
  BY <1>1, <1>2, PTL DEF Spec

(* A case that is being finalized or was published is decided in full, over *)
(* the case as it is, with no question open, and its report names exactly   *)
(* those decisions - whatever crashes, expires or is delivered twice.       *)
THEOREM PublishedCaseAlways == Spec => []PublishedCase
<1>1. CaseInv => PublishedCase
  BY DEF CaseInv
<1> QED
  BY <1>1, CaseCorrect, PTL

(* Every accepted decision is the last of its rule and reasoned over the    *)
(* current case, and a rule is RESOLVED exactly while it has one.           *)
THEOREM AcceptedIsCurrentAlways == Spec => []AcceptedIsCurrent
<1>1. CaseInv => AcceptedIsCurrent
  BY DEF CaseInv
<1> QED
  BY <1>1, CaseCorrect, PTL

(* The assessment waits for the customer exactly while a question is open:  *)
(* the last answer always releases it.                                     *)
THEOREM WaitsForOpenQuestionAlways == Spec => []WaitsForOpenQuestion
<1>1. CaseInv => WaitsForOpenQuestion
  BY DEF CaseInv, WaitingInv
<1> QED
  BY <1>1, CaseCorrect, PTL

(* No step changes a published case, its questions or its report.          *)
LEMMA FrozenStep ==
  ASSUME CaseInv, [Next]_vars, lifecycle = "COMPLETE"
  PROVE  UNCHANGED <<lifecycle, blocker, caseRows, requests, report>>
<1> USE DEF assessmentRow, Transition
<1>1. DatabaseTypeOK /\ DatabaseStep
  BY StepOfDatabase DEF CaseInv, TypeInv, TypeOK
<1>2. OpenQuestions = {}
  BY DEF CaseInv, PublishedCase
<1>3. CASE UNCHANGED database
  BY <1>3 DEF database
<1>4. CASE OwnerDatabaseStep
  <2>1. ~CompleteRepositorySetup
    BY DEF CompleteRepositorySetup
  <2>2. \A q \in Questions, known \in Nat, shown \in Nat :
          ~AnswerHumanRequest(q, shown, known) /\ ~DoesNotKnow(q, shown, known)
    BY <1>2 DEF AnswerHumanRequest, DoesNotKnow, Answerable, OpenQuestions
  <2> QED
    BY <1>4, <2>1, <2>2 DEF OwnerDatabaseStep, RequestStop, RequestResume
<1>5. CASE RuntimeDatabaseStep
  <2>1. \A w \in Workers : ~ClaimStep(w)
    BY DEF ClaimStep, ClaimRoot, Claimable, RecoveringHumanInterrupt,
       HumanBlocked, SafePauseResume
  <2>2. ASSUME NEW w \in Workers, NEW settlement \in Settlement,
               SettleStep(w, settlement)
        PROVE  UNCHANGED <<lifecycle, blocker, caseRows, requests, report>>
    <3>1. settlement.outcome \notin {"PAUSED", "INTERRUPTED"}
      BY <1>2, <2>2 DEF SettleStep, FinishExecution, SettlementAccepted,
         PauseIsValid, InterruptIsValid
    <3> QED
      BY <2>2, <3>1 DEF SettleStep, FinishExecution
  <2> QED
    BY <1>5, <2>1, <2>2 DEF RuntimeDatabaseStep, CommandStep, LeaseStep
<1>6. CASE RootDatabaseStep
  <2>1. \A w \in Workers :
          /\ ~Governed(w)
          /\ ~RequestFinalization(w) /\ ~SubmitFinalReport(w)
          /\ \A q \in Questions, known \in Nat : ~CreateHumanRequest(q, known)
          /\ \A q \in Questions, known \in Nat, shown \in Nat :
               ~ReportUnresolvableHumanFact(w, q, shown, known)
    BY DEF Governed, RequestFinalization, SubmitFinalReport,
       CreateHumanRequest, HumanBlocked, ReportUnresolvableHumanFact
  <2> QED
    BY <1>6, <2>1 DEF RootDatabaseStep, StartRuleInvestigation, AcceptFact,
       SubmitRuleDecision
<1> QED
  BY <1>1, <1>3, <1>4, <1>5, <1>6 DEF DatabaseStep

(* A published assessment is frozen: a worker that still holds its lease, a *)
(* late answer or an owner's control changes nothing of it.                 *)
THEOREM PublishedIsFrozenAlways == Spec => PublishedIsFrozen
<1>1. CaseInv /\ [Next]_vars =>
        [lifecycle = "COMPLETE" =>
           UNCHANGED <<lifecycle, blocker, caseRows, requests, report>>]_vars
  BY FrozenStep
<1> QED
  BY <1>1, CaseCorrect, PTL DEF Spec, PublishedIsFrozen
=============================================================================
