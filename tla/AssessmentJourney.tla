-------------------------- MODULE AssessmentJourney --------------------------
(***************************************************************************)
(* What an assessment promises its owner, without executions, leases,       *)
(* checkpoints or messages: questions are asked once and answered once,     *)
(* every new fact puts the verdicts in doubt, and what is published is a    *)
(* complete set of verdicts with no question left open.                     *)
(***************************************************************************)
CONSTANTS Rules, Questions, RuleOf

VARIABLES
  phase,      \* where the owner sees the assessment
  open,       \* questions waiting for an answer
  answered,   \* questions answered
  decided     \* rules with a verdict

journey == <<phase, open, answered, decided>>

Init ==
  /\ phase = "preparing"
  /\ open = {} /\ answered = {} /\ decided = {}

Begin ==
  /\ phase = "preparing"
  /\ phase' = "investigating"
  /\ UNCHANGED <<open, answered, decided>>

Decide(r) ==
  /\ phase = "investigating"
  /\ decided' = decided \cup {r}
  /\ UNCHANGED <<phase, open, answered>>

(* A new fact: no verdict over the old case survives it.                   *)
Learn ==
  /\ phase = "investigating"
  /\ decided' = {}
  /\ UNCHANGED <<phase, open, answered>>

(* A question reopens the rule it is about.                                *)
Ask(q) ==
  /\ phase \in {"investigating", "asking"}
  /\ q \notin open \cup answered
  /\ phase' = "asking"
  /\ open' = open \cup {q}
  /\ decided' = decided \ {RuleOf[q]}
  /\ UNCHANGED answered

(* An answer is a new fact, and the last one resumes the investigation.    *)
Answer(q) ==
  /\ phase = "asking"
  /\ q \in open
  /\ open' = open \ {q}
  /\ answered' = answered \cup {q}
  /\ decided' = {}
  /\ phase' = IF open' = {} THEN "investigating" ELSE "asking"

Pause ==
  /\ phase = "investigating"
  /\ phase' = "paused"
  /\ UNCHANGED <<open, answered, decided>>

Continue ==
  /\ phase = "paused"
  /\ phase' = "investigating"
  /\ UNCHANGED <<open, answered, decided>>

Close ==
  /\ phase = "investigating"
  /\ decided = Rules
  /\ phase' = "closing"
  /\ UNCHANGED <<open, answered, decided>>

Publish ==
  /\ phase = "closing"
  /\ phase' = "published"
  /\ UNCHANGED <<open, answered, decided>>

Next ==
  \/ Begin \/ Learn \/ Pause \/ Continue \/ Close \/ Publish
  \/ \E r \in Rules : Decide(r)
  \/ \E q \in Questions : Ask(q) \/ Answer(q)

Spec == Init /\ [][Next]_journey
=============================================================================
