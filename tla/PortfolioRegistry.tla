-------------------------- MODULE PortfolioRegistry --------------------------
(***************************************************************************)
(* What an assessment relies on when it pins the portfolio in force with an *)
(* unordered findFirst (assessment-runtime-preparation.service.ts) and keeps *)
(* it after it was superseded, without workers, transactions, locks or      *)
(* snapshots: there is one register.  Only a worthy packet is put into it;  *)
(* the portfolio it takes the place of gets its only successor in the same  *)
(* step; and what was decided about a preparation run is never changed.     *)
(***************************************************************************)
CONSTANTS
  Runs, Packets, None,
  Worthy    \* the packets that may be put in force, with their runs

VARIABLES
  current,    \* the run whose portfolio is in force, if there is one
  content,    \* the packet a run was decided with, if it was
  successor,  \* the run whose portfolio took a portfolio's place
  rejected    \* runs decided against

registry == <<current, content, successor, rejected>>

Init ==
  /\ current = None
  /\ content = [r \in Runs |-> None]
  /\ successor = [r \in Runs |-> None]
  /\ rejected = {}

(* A run is decided once, with one packet.                                  *)
Decide(r, p) ==
  /\ content[r] = None
  /\ content' = [content EXCEPT ![r] = p]

Publish(r, p) ==
  /\ <<r, p>> \in Worthy
  /\ current' = r
  /\ successor' = [s \in Runs |-> IF s = current THEN r ELSE successor[s]]
  /\ UNCHANGED rejected

Reject(r) ==
  /\ rejected' = rejected \cup {r}
  /\ UNCHANGED <<current, successor>>

Next ==
  \E r \in Runs, p \in Packets : Decide(r, p) /\ (Publish(r, p) \/ Reject(r))

Spec == Init /\ [][Next]_registry
=============================================================================
