-------------------------- MODULE MCAssessmentRoot --------------------------
(***************************************************************************)
(* Small instances of AssessmentRoot for TLC.                              *)
(***************************************************************************)
EXTENDS DocumentedRecovery, TLC

CONSTANTS r1, r2, q1, q2, w1, w2

(* The two questions are about different rules, or about the same one.     *)
QuestionPerRule == (q1 :> r1) @@ (q2 :> r2)
BothAboutOne == (q1 :> r1) @@ (q2 :> r1)
OneQuestion == (q1 :> r1)

WorkerSymmetry == Permutations({w1, w2})
=============================================================================
