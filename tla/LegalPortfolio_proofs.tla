------------------------ MODULE LegalPortfolio_proofs ------------------------
(***************************************************************************)
(* What the validation of a packet guarantees, and the safety properties of *)
(* LegalPortfolio, for every value of the constants.                        *)
(***************************************************************************)
EXTENDS LegalPortfolio, TLAPS

-----------------------------------------------------------------------------
(* A packet without failures has none of the flaws.                        *)
LEMMA NoFlaw ==
  ASSUME NEW p, NEW c, NEW I, Failures(p, c, I) = {}
  PROVE  /\ c \in I
         /\ Distinct(p.rules) /\ Distinct(p.relations)
         /\ Distinct(p.engineering)
         /\ \A x \in Cited(p) :
              x.at \in Present(c) /\ ~Stale(x, c) /\ x.at \notin Repealed[c]
         /\ Linked(p) \subseteq Ids(p.rules)
         /\ \A row \in Rows(p.relations) :
              {row.from, row.to} \subseteq Ids(p.rules) \cup {NoRule}
         /\ \A row \in Rows(p.rules) :
              IF row.assessable THEN row.id \in Linked(p) ELSE row.reason
         /\ \A k \in Leaves(c) : Covered(k, p, c)
<1>1. c \in I
  BY Zenon DEF Failures, Flaw
<1>2. Distinct(p.rules) /\ Distinct(p.relations)
  BY Zenon DEF Failures, Flaw
<1>3. Distinct(p.engineering)
  BY Zenon DEF Failures, Flaw
<1>4. \A x \in Cited(p) : x.at \in Present(c)
  BY Zenon DEF Failures, Flaw
<1>5. \A x \in Cited(p) : ~Stale(x, c)
  BY Zenon DEF Failures, Flaw
<1>6. \A x \in Cited(p) :
        ~(x.at \in Present(c) \cap Repealed[c] /\ ~Stale(x, c))
  BY Zenon DEF Failures, Flaw
<1>7. Linked(p) \subseteq Ids(p.rules)
  BY Zenon DEF Failures, Flaw
<1>8. \A row \in Rows(p.relations) :
        {row.from, row.to} \subseteq Ids(p.rules) \cup {NoRule}
  BY Zenon DEF Failures, Flaw
<1>9. \A row \in Rows(p.rules) : row.assessable \/ row.reason
  BY Zenon DEF Failures, Flaw
<1>10. \A row \in Rows(p.rules) : row.assessable => row.id \in Linked(p)
  BY Zenon DEF Failures, Flaw
<1>11. \A k \in Leaves(c) : Covered(k, p, c)
  BY Zenon DEF Failures, Flaw
<1> QED
  BY <1>1, <1>2, <1>3, <1>4, <1>5, <1>6, <1>7, <1>8, <1>9, <1>10, <1>11

-----------------------------------------------------------------------------
(* What is known of a packet whose validation found no failure.            *)
Checked(p, c) == c \in indexed /\ Sound(p, c)

(* A packet that passes the validation is sound against its corpus, and a   *)
(* reason given for an assessable rule is the one thing that can keep its   *)
(* rows from being written: every row finds the rows it refers to, keys are *)
(* unique, and the rest of the check on reasons is a failure's code         *)
(* (validateLegalPortfolioPacket, writeChildren).                           *)
THEOREM ValidIsSoundAndNearlyWritable ==
  ASSUME NEW p \in Packet, NEW c \in Corpora, NEW I, Failures(p, c, I) = {}
  PROVE  /\ Sound(p, c)
         /\ Writable(p, c) <=>
              \A row \in Rows(p.rules) : row.assessable => ~row.reason
<1> USE NoFlaw
<1>1. \A x \in Cited(p) : Clean(x, c)
  BY DEF Clean, InForce, Stale
<1>2. \A x \in Cited(p) : x.at \in Resolved(p, c)
  BY <1>1 DEF Resolved
<1>3. \A x \in Cited(p) : x.at \notin Repealed[c] /\ Content[c][x.at] = x.hash
  BY <1>1 DEF Clean, InForce
<1>4. \A k \in Leaves(c) : \E x \in Cited(p) : x.at = k \/ x.at \in Above[k]
  BY DEF Covered, Resolved
<1>5. \A row \in Rows(p.rules) :
        IF row.assessable
        THEN \E e \in Rows(p.engineering) : row.id \in e.rules
        ELSE row.reason
  BY DEF Linked
<1>6. \A row \in Rows(p.engineering) : row.rules \subseteq Ids(p.rules)
  BY DEF Linked
<1>7. \A row \in Rows(p.relations) :
        row.from \in Ids(p.rules) /\ row.to \in Ids(p.rules) \cup {NoRule}
  <2>1. p.relations \in Seq(Relation)
    BY DEF Packet
  <2>2. \A row \in Rows(p.relations) : row \in Relation
    BY <2>1 DEF Rows
  <2>3. \A row \in Rows(p.relations) : row.from # NoRule
    BY <2>2, IntegrityAssumption DEF Relation
  <2>4. \A row \in Rows(p.relations) :
          {row.from, row.to} \subseteq Ids(p.rules) \cup {NoRule}
    OBVIOUS
  <2> QED
    BY <2>3, <2>4
<1>8. ReasonsMatchCoverage(p) <=>
        \A row \in Rows(p.rules) : row.assessable => ~row.reason
  <2>1. p.rules \in Seq(LegalRule)
    BY DEF Packet
  <2>2. \A row \in Rows(p.rules) : row \in LegalRule
    BY <2>1 DEF Rows
  <2>3. \A row \in Rows(p.rules) :
          row.assessable \in BOOLEAN /\ row.reason \in BOOLEAN
    BY <2>2 DEF LegalRule
  <2> QED
    BY <2>3 DEF ReasonsMatchCoverage
<1> QED
  BY <1>2, <1>3, <1>4, <1>5, <1>6, <1>7, <1>8 DEF Sound, Writable

-----------------------------------------------------------------------------
(* The inductive invariant.  A worker's packet is known by the phase it is  *)
(* in; a snapshot may be old, but the rows it shows are still there.        *)
Kept(old, new) ==
  \A r \in Runs :
    old[r].state # "none" =>
      /\ new[r].state # "none"
      /\ new[r].packet = old[r].packet
      /\ new[r].previous = old[r].previous
      /\ new[r].state = "INVALID" <=> old[r].state = "INVALID"

WorkerInv(w) ==
  LET k == worker[w] IN
  /\ k.phase # "idle" => k.run \in Runs
  /\ k.phase \in {"resigning", "failing"} => k.reason # "none"
  /\ k.phase \in {"validated", "committing", "answered"} => k.packet \in Packets
  /\ k.phase = "validated" => k.attempt < MaxAttempts
  /\ k.phase \in {"validated", "committing"} /\ k.valid =>
       Checked(k.packet, CorpusOf[k.run])
  /\ k.phase = "committing" => Kept(k.snapshot, portfolio)
  /\ k.phase = "answered" =>
       /\ portfolio[k.run].state # "none"
       /\ portfolio[k.run].packet = k.packet
       /\ Valid(k.run) <=> k.valid

RowInv(r) ==
  /\ portfolio[r].state # "none" => portfolio[r].packet \in Packets
  /\ Valid(r) => Checked(portfolio[r].packet, CorpusOf[r])

SomeActive == (\E r \in Runs : Valid(r)) => ActiveIn(portfolio) # {}

IInv ==
  /\ TypeOK
  /\ \A w \in Workers : WorkerInv(w)
  /\ \A r \in Runs : RowInv(r)
  /\ ActivationsAreAChain
  /\ SomeActive

LEMMA Initially == Init => IInv
<1> SUFFICES ASSUME Init PROVE IInv
  OBVIOUS
<1> USE DEF Init, Idle, Nothing, NoPortfolio, Unread
<1>1. TypeOK
  <2>1. NoPortfolio \in Portfolio /\ Unread \in Run
    BY DEF Portfolio, Run, Row, RunStates, Reasons
  <2>2. Idle \in Worker
    BY <2>1, LegalAssumption DEF Worker, Reasons
  <2> QED
    BY <2>1, <2>2, LegalAssumption DEF TypeOK
<1>2. \A w \in Workers : WorkerInv(w)
  BY DEF WorkerInv
<1>3. \A r \in Runs : ~Valid(r) /\ portfolio[r].state = "none"
                      /\ portfolio[r].previous \notin Runs
  BY LegalAssumption DEF Valid
<1> QED
  BY <1>1, <1>2, <1>3 DEF IInv, RowInv, ActivationsAreAChain, SomeActive

-----------------------------------------------------------------------------
(* A step changes the portfolio only where a worker activates.             *)
Publishes(w) ==
  /\ worker[w].phase = "committing"
  /\ worker[w].snapshot[worker[w].run].state = "none"
  /\ SnapshotIsCurrent(w)
  /\ portfolio' = Published(w)

LEMMA PortfolioChanges ==
  ASSUME [Next]_vars
  PROVE  UNCHANGED portfolio \/ \E w \in Workers : Publishes(w)
<1>1. CASE UNCHANGED vars
  BY <1>1 DEF vars
<1>2. ASSUME NEW w \in Workers, Activate(w)
      PROVE UNCHANGED portfolio \/ Publishes(w)
  BY <1>2 DEF Activate, Activates, Publishes
<1>3. ASSUME NEW w \in Workers, Works(w) \/ Errs(w)
      PROVE UNCHANGED portfolio \/ Publishes(w)
  BY <1>2, <1>3 DEF Works, Errs, Deliver, ClaimRun, Resign, ReadForFailure,
     RecordFailure, Submit, BeginActivation, ActivationRefused,
     ActivationConflicts, Finish,
     ClaimFails, FailureIsLost, AnswerIsLost, Timeout
<1> QED
  BY <1>1, <1>3 DEF Next, RegisterIndex, Start

(* What a publication does to the rows, said without CHOOSE.               *)
LEMMA Publication ==
  ASSUME IInv, NEW w \in Workers, Publishes(w)
  PROVE  LET k == worker[w] IN
         /\ k.run \in Runs /\ k.packet \in Packets
         /\ portfolio[k.run].state = "none"
         /\ portfolio' \in [Runs -> Portfolio]
         /\ portfolio'[k.run].packet = k.packet
         /\ ~k.valid =>
              /\ portfolio'[k.run].state = "INVALID"
              /\ portfolio'[k.run].previous = None
              /\ \A r \in Runs \ {k.run} : portfolio'[r] = portfolio[r]
         /\ k.valid =>
              /\ portfolio'[k.run].state = "ACTIVE"
              /\ \/ /\ portfolio'[k.run].previous = None
                    /\ ActiveIn(portfolio) = {}
                 \/ /\ portfolio'[k.run].previous \in Runs
                    /\ ActiveIn(portfolio) = {portfolio'[k.run].previous}
              /\ \A r \in Runs \ {k.run} :
                   portfolio'[r] =
                     IF portfolio[r].state = "ACTIVE"
                     THEN [portfolio[r] EXCEPT !.state = "SUPERSEDED"]
                     ELSE portfolio[r]
<1> DEFINE k == worker[w]
           old == Superseded(k.snapshot, k.valid)
<1>1. k \in Worker /\ WorkerInv(w) /\ k.phase = "committing"
  BY DEF IInv, TypeOK, Publishes
<1>2. k.run \in Runs /\ k.packet \in Packets /\ k.valid \in BOOLEAN
  BY <1>1 DEF WorkerInv, Worker
<1>3. k.snapshot = portfolio /\ portfolio[k.run].state = "none"
  BY DEF Publishes, SnapshotIsCurrent
<1>4. old = IF k.valid THEN ActiveIn(portfolio) ELSE {}
  BY <1>3 DEF Superseded
<1>5. old \subseteq Runs /\ k.run \notin old
  BY <1>3, <1>4 DEF ActiveIn
<1>6. \A r, s \in old : r = s
  BY <1>4 DEF ActiveIn, IInv, ActivationsAreAChain
<1>7. PICK previous \in Runs \cup {None} :
        /\ previous = IF old = {} THEN None ELSE CHOOSE r \in old : TRUE
        /\ old = {} => previous = None
        /\ old # {} => previous \in Runs /\ old = {previous}
  BY <1>5, <1>6
<1>8. portfolio' =
        [r \in Runs |->
           IF r = k.run
           THEN [state |-> IF k.valid THEN "ACTIVE" ELSE "INVALID",
                 packet |-> k.packet, previous |-> previous]
           ELSE IF r \in old THEN [portfolio[r] EXCEPT !.state = "SUPERSEDED"]
           ELSE portfolio[r]]
  BY <1>7 DEF Publishes, Published, TheOne
<1>9. portfolio \in [Runs -> Portfolio]
  BY DEF IInv, TypeOK
<1>10. portfolio' \in [Runs -> Portfolio]
  BY <1>2, <1>8, <1>9 DEF Portfolio
<1>11. /\ portfolio'[k.run].packet = k.packet
       /\ portfolio'[k.run].state = IF k.valid THEN "ACTIVE" ELSE "INVALID"
       /\ portfolio'[k.run].previous = previous
  BY <1>2, <1>8
<1>12. \A r \in Runs \ {k.run} :
         portfolio'[r] =
           IF r \in old THEN [portfolio[r] EXCEPT !.state = "SUPERSEDED"]
           ELSE portfolio[r]
  BY <1>8
<1>13. CASE k.valid
  BY <1>2, <1>3, <1>4, <1>7, <1>10, <1>11, <1>12, <1>13 DEF ActiveIn
<1>14. CASE ~k.valid
  BY <1>2, <1>3, <1>4, <1>7, <1>10, <1>11, <1>12, <1>14
<1> QED
  BY <1>2, <1>13, <1>14

(* The rows that exist stay, with their packet, their predecessor and their *)
(* verdict.                                                                *)
LEMMA RowsStay ==
  ASSUME IInv, [Next]_vars
  PROVE  Kept(portfolio, portfolio')
<1>1. CASE UNCHANGED portfolio
  BY <1>1 DEF Kept
<1>2. ASSUME NEW w \in Workers, Publishes(w)
      PROVE Kept(portfolio, portfolio')
  <2> SUFFICES ASSUME NEW r \in Runs, portfolio[r].state # "none"
               PROVE /\ portfolio'[r].state # "none"
                     /\ portfolio'[r].packet = portfolio[r].packet
                     /\ portfolio'[r].previous = portfolio[r].previous
                     /\ portfolio'[r].state = "INVALID" <=>
                          portfolio[r].state = "INVALID"
    BY DEF Kept
  <2>1. portfolio[r] \in Portfolio /\ worker[w].valid \in BOOLEAN
    BY DEF IInv, TypeOK, Worker
  <2>2. r # worker[w].run
    BY <1>2, Publication
  <2>3. \/ portfolio'[r] = portfolio[r]
        \/ /\ portfolio[r].state = "ACTIVE"
           /\ portfolio'[r] = [portfolio[r] EXCEPT !.state = "SUPERSEDED"]
    <3>1. CASE worker[w].valid
      BY <3>1, <1>2, <2>2, Publication
    <3>2. CASE ~worker[w].valid
      BY <3>2, <1>2, <2>2, Publication
    <3> QED
      BY <3>1, <3>2, <2>1
  <2> QED
    BY <2>1, <2>3 DEF Portfolio
<1> QED
  BY <1>1, <1>2, PortfolioChanges

-----------------------------------------------------------------------------
(* Indexes only grow, so what was checked stays checked.                   *)
LEMMA IndexesStay ==
  ASSUME [Next]_vars
  PROVE  indexed \subseteq indexed'
BY DEF Next, vars, RegisterIndex, Start, Works, Errs, Deliver, ClaimRun,
   Resign, ReadForFailure, RecordFailure, Submit, BeginActivation, Activate,
   ActivationRefused, ActivationConflicts, Finish, ClaimFails,
   FailureIsLost, AnswerIsLost, Timeout

(* A worker that does not move keeps what is known of it.                  *)
LEMMA OthersKeep ==
  ASSUME IInv, [Next]_vars, NEW w \in Workers, worker'[w] = worker[w]
  PROVE  WorkerInv(w)'
<1> DEFINE k == worker[w]
<1>1. WorkerInv(w) /\ k \in Worker /\ portfolio \in [Runs -> Portfolio]
  BY DEF IInv, TypeOK
<1>2. Kept(portfolio, portfolio') /\ indexed \subseteq indexed'
  BY RowsStay, IndexesStay
<1>3. \A p, c : Checked(p, c) => Checked(p, c)'
  BY <1>2 DEF Checked
<1>4. Kept(k.snapshot, portfolio) => Kept(k.snapshot, portfolio')
  BY <1>2 DEF Kept
<1>5. k.phase = "answered" =>
        /\ portfolio'[k.run].state # "none"
        /\ portfolio'[k.run].packet = k.packet
        /\ Valid(k.run)' <=> k.valid
  <2> SUFFICES ASSUME k.phase = "answered"
               PROVE /\ portfolio'[k.run].state # "none"
                     /\ portfolio'[k.run].packet = k.packet
                     /\ Valid(k.run)' <=> k.valid
    OBVIOUS
  <2>1. k.run \in Runs /\ portfolio[k.run].state # "none"
    BY <1>1 DEF WorkerInv
  <2>2. /\ portfolio'[k.run].state # "none"
        /\ portfolio'[k.run].packet = portfolio[k.run].packet
        /\ portfolio'[k.run].state = "INVALID" <=>
             portfolio[k.run].state = "INVALID"
    BY <1>2, <2>1 DEF Kept
  <2>3. portfolio' \in [Runs -> Portfolio]
    BY <1>1, PortfolioChanges, Publication
  <2>4. /\ Valid(k.run) <=> portfolio[k.run].state # "INVALID"
        /\ Valid(k.run)' <=> portfolio'[k.run].state # "INVALID"
    BY <1>1, <2>1, <2>2, <2>3 DEF Valid, Portfolio
  <2> QED
    BY <1>1, <2>2, <2>4 DEF WorkerInv
<1> QED
  BY <1>1, <1>3, <1>4, <1>5 DEF WorkerInv

-----------------------------------------------------------------------------
(* The worker that moves.  A fresh record knows its phase and its run.      *)
Moves(w) ==
  /\ worker' = [worker EXCEPT ![w] = worker'[w]]
  /\ worker'[w] \in Worker
  /\ WorkerInv(w)'

LEMMA IdleType == Idle \in Worker /\ NoPortfolio \in Portfolio /\ Unread \in Run
<1>1. NoPortfolio \in Portfolio /\ Unread \in Run
  BY DEF NoPortfolio, Portfolio, Unread, Run, Row, RunStates, Reasons
<1> QED
  BY <1>1, LegalAssumption DEF Idle, Worker, Nothing, Reasons

(* Phases before a packet is chosen, and after the answer was given: all    *)
(* that is known is the run.                                               *)
LEMMA PlainMove ==
  ASSUME TypeOK, NEW w \in Workers, NEW k \in Worker,
         worker' = [worker EXCEPT ![w] = k],
         k.phase \in {"idle", "claiming", "authoring", "resigning", "failing",
                      "done"},
         k.phase # "idle" => k.run \in Runs,
         k.phase \in {"resigning", "failing"} => k.reason # "none"
  PROVE  Moves(w)
<1>1. worker'[w] = k
  BY DEF TypeOK
<1> QED
  BY <1>1 DEF Moves, WorkerInv

LEMMA ClaimMoves ==
  ASSUME IInv, NEW w \in Workers,
         Deliver(w) \/ ClaimRun(w) \/ ClaimFails(w) \/ Resign(w)
         \/ ReadForFailure(w) \/ RecordFailure(w) \/ FailureIsLost(w)
  PROVE  Moves(w)
<1> DEFINE k == worker[w]
<1>1. k \in Worker /\ WorkerInv(w) /\ TypeOK
  BY DEF IInv, TypeOK
<1>2. \A r \in Runs : run[r] \in Run /\ (portfolio[r].state # "none") \in BOOLEAN
  BY <1>1 DEF TypeOK
<1>3. ASSUME NEW r \in Runs, Reads(w, r, "claiming") PROVE Moves(w)
  BY <1>1, <1>2, <1>3, IdleType, PlainMove DEF Reads, Worker, Idle
<1>4. ASSUME NEW r \in Runs, k.reason # "none", Reads(w, r, "failing")
      PROVE Moves(w)
  BY <1>1, <1>2, <1>4, IdleType, PlainMove DEF Reads, Worker, Idle
<1>5. ASSUME k.phase # "idle", NEW reason \in Reasons \ {"none"},
             Resigns(w, reason)
      PROVE Moves(w)
  BY <1>1, <1>5, IdleType, PlainMove DEF Resigns, Worker, Idle, WorkerInv
<1>6. ASSUME k.phase # "idle", Authors(w) PROVE Moves(w)
  BY <1>1, <1>6, IdleType, PlainMove DEF Authors, Worker, Idle, WorkerInv
<1>7. ASSUME k.phase # "idle", Ends(w) PROVE Moves(w)
  BY <1>1, <1>7, IdleType, PlainMove DEF Ends, Worker, Idle, WorkerInv
<1>8. {"CORPUS_UNAVAILABLE", "NO_SUBMISSION"} \subseteq Reasons \ {"none"}
  BY DEF Reasons
<1>9. CASE Deliver(w)
  BY <1>3, <1>9 DEF Deliver
<1>10. CASE ClaimRun(w)
  BY <1>5, <1>6, <1>8, <1>10 DEF ClaimRun
<1>11. CASE ClaimFails(w) \/ Resign(w)
  BY <1>5, <1>8, <1>11 DEF ClaimFails, Resign
<1>12. CASE ReadForFailure(w)
  BY <1>1, <1>4, <1>12 DEF ReadForFailure, WorkerInv
<1>13. CASE RecordFailure(w) \/ FailureIsLost(w)
  BY <1>7, <1>13 DEF RecordFailure, FailureIsLost
<1> QED
  BY <1>9, <1>10, <1>11, <1>12, <1>13

(* A replayed answer is the verdict of the row found.                      *)
LEMMA ReplayMoves ==
  ASSUME IInv, NEW w \in Workers, NEW row \in Portfolio, NEW p \in Packets,
         worker[w].run \in Runs, worker[w].phase # "idle",
         row.state # "none",
         portfolio[worker[w].run].state # "none",
         portfolio[worker[w].run].packet = row.packet,
         portfolio[worker[w].run].state = "INVALID" <=> row.state = "INVALID",
         UNCHANGED portfolio,
         Replays(w, row, p)
  PROVE  Moves(w)
<1>1. worker \in [Workers -> Worker] /\ portfolio \in [Runs -> Portfolio] /\ TypeOK
  BY DEF IInv, TypeOK
<1>2. CASE SameRequest(row, p)
  <2> DEFINE k == [Idle EXCEPT !.phase = "answered", !.run = worker[w].run,
                               !.packet = p, !.valid = row.state # "INVALID"]
  <2>1. k \in Worker
    BY IdleType DEF Worker
  <2>2. worker' = [worker EXCEPT ![w] = k] /\ worker'[w] = k
    BY <1>1, <1>2 DEF Replays, Answers
  <2>3. k.phase = "answered" /\ k.run = worker[w].run /\ k.packet = p
        /\ k.valid = (row.state # "INVALID")
    BY DEF Idle
  <2>4. portfolio[worker[w].run].state \in {"ACTIVE", "SUPERSEDED"} <=>
          row.state # "INVALID"
    BY <1>1 DEF Portfolio
  <2> QED
    BY <1>2, <2>1, <2>2, <2>3, <2>4 DEF Moves, WorkerInv, SameRequest, Valid
<1>3. CASE ~SameRequest(row, p)
  BY <1>1, <1>3, IdleType, PlainMove DEF Replays, Authors, Worker, Idle
<1> QED
  BY <1>2, <1>3

LEMMA SubmitMoves ==
  ASSUME IInv, NEW w \in Workers, NEW p \in Packets, Submit(w, p)
  PROVE  Moves(w)
<1> DEFINE r == worker[w].run
<1>1. /\ worker \in [Workers -> Worker] /\ portfolio \in [Runs -> Portfolio]
      /\ WorkerInv(w) /\ r \in Runs /\ TypeOK /\ UNCHANGED <<portfolio, indexed>>
  BY DEF IInv, TypeOK, Submit, WorkerInv
<1>2. CASE portfolio[r].state # "none"
  <2>1. portfolio[r] \in Portfolio /\ Replays(w, portfolio[r], p)
        /\ worker[w].phase # "idle"
    BY <1>1, <1>2 DEF Submit
  <2> QED
    BY <1>1, <1>2, <2>1, ReplayMoves
<1>3. CASE portfolio[r].state = "none"
  <2> DEFINE valid == Failures(p, CorpusOf[r], indexed) = {}
             k == [Idle EXCEPT !.phase = "validated", !.run = r, !.packet = p,
                               !.valid = valid, !.attempt = 0]
  <2>1. k \in Worker
    <3>1. 0 \in 0..MaxAttempts /\ valid \in BOOLEAN
      BY LegalAssumption
    <3> HIDE DEF valid
    <3> QED
      BY <1>1, <3>1, IdleType DEF Worker
  <2>2. worker' = [worker EXCEPT ![w] = k] /\ worker'[w] = k
    BY <1>1, <1>3 DEF Submit, Validates
  <2>3. k.phase = "validated" /\ k.run = r /\ k.packet = p /\ k.valid = valid
        /\ k.attempt = 0
    BY DEF Idle
  <2>4. valid => Checked(p, CorpusOf[r])
    <3>1. p \in Packet /\ CorpusOf[r] \in Corpora
      BY <1>1, LegalAssumption
    <3>2. valid => CorpusOf[r] \in indexed
      BY NoFlaw
    <3> QED
      BY <1>1, <3>1, <3>2, ValidIsSoundAndNearlyWritable DEF Checked
  <2>5. 0 < MaxAttempts
    BY LegalAssumption
  <2>6. WorkerInv(w)'
    <3> HIDE DEF k, valid
    <3> QED
      BY <1>1, <2>2, <2>3, <2>4, <2>5 DEF WorkerInv, Checked
  <2> QED
    BY <2>1, <2>2, <2>6 DEF Moves
<1> QED
  BY <1>2, <1>3

LEMMA BeginMoves ==
  ASSUME IInv, NEW w \in Workers, BeginActivation(w)
  PROVE  Moves(w)
<1> DEFINE k == [worker[w] EXCEPT !.phase = "committing", !.attempt = @ + 1,
                                  !.snapshot = portfolio,
                                  !.seen = run[worker[w].run]]
<1>1. /\ worker \in [Workers -> Worker] /\ portfolio \in [Runs -> Portfolio]
      /\ WorkerInv(w) /\ worker[w] \in Worker /\ worker[w].phase = "validated"
      /\ worker[w].run \in Runs /\ run \in [Runs -> Run]
      /\ UNCHANGED <<portfolio, indexed>>
  BY DEF IInv, TypeOK, BeginActivation, WorkerInv
<1>2. worker[w].attempt + 1 \in 0..MaxAttempts
  BY <1>1, LegalAssumption DEF WorkerInv, Worker
<1>3. k \in Worker
  BY <1>1, <1>2 DEF Worker
<1>4. worker' = [worker EXCEPT ![w] = k] /\ worker'[w] = k
  BY <1>1 DEF BeginActivation
<1>5. /\ k.phase = "committing" /\ k.run = worker[w].run
      /\ k.packet = worker[w].packet /\ k.valid = worker[w].valid
      /\ k.snapshot = portfolio
  BY <1>1 DEF Worker
<1>6. WorkerInv(w)'
  <2> HIDE DEF k
  <2> QED
    BY <1>1, <1>4, <1>5 DEF WorkerInv, Checked, Kept
<1> QED
  BY <1>3, <1>4, <1>6 DEF Moves

LEMMA ActivateMoves ==
  ASSUME IInv, NEW w \in Workers, Activate(w)
  PROVE  Moves(w)
<1> DEFINE r == worker[w].run
           row == worker[w].snapshot[r]
<1>1. /\ worker \in [Workers -> Worker] /\ portfolio \in [Runs -> Portfolio]
      /\ WorkerInv(w) /\ worker[w] \in Worker /\ worker[w].phase = "committing"
      /\ r \in Runs /\ worker[w].packet \in Packets /\ TypeOK
      /\ row \in Portfolio
  <2>1. worker \in [Workers -> Worker] /\ portfolio \in [Runs -> Portfolio]
        /\ WorkerInv(w) /\ worker[w].phase = "committing" /\ TypeOK
    BY DEF IInv, TypeOK, Activate
  <2> QED
    BY <2>1 DEF WorkerInv, Worker
<1>2. CASE row.state # "none"
  <2>1. Replays(w, row, worker[w].packet) /\ UNCHANGED portfolio
    BY <1>2 DEF Activate
  <2>2. /\ portfolio[r].state # "none" /\ portfolio[r].packet = row.packet
        /\ portfolio[r].state = "INVALID" <=> row.state = "INVALID"
    BY <1>1, <1>2 DEF WorkerInv, Kept
  <2> QED
    BY <1>1, <1>2, <2>1, <2>2, ReplayMoves
<1>3. CASE row.state = "none"
  <2> DEFINE k == [Idle EXCEPT !.phase = "answered", !.run = r,
                               !.packet = worker[w].packet,
                               !.valid = worker[w].valid]
  <2>1. worker' = [worker EXCEPT ![w] = k] /\ worker'[w] = k
    BY <1>1, <1>3 DEF Activate, Answers
  <2>2. k \in Worker
    BY <1>1, IdleType DEF Worker
  <2>3. /\ k.phase = "answered" /\ k.run = r /\ k.packet = worker[w].packet
        /\ k.valid = worker[w].valid
    BY DEF Idle
  <2>4. Publishes(w)
    BY <1>1, <1>3 DEF Activate, Activates, Publishes
  <2>5. /\ portfolio'[r].packet = worker[w].packet
        /\ portfolio'[r].state = IF worker[w].valid THEN "ACTIVE" ELSE "INVALID"
    BY <1>1, <2>4, Publication DEF Worker
  <2>6. WorkerInv(w)'
    <3> HIDE DEF k
    <3> QED
      BY <1>1, <2>1, <2>3, <2>5 DEF WorkerInv, Valid
  <2> QED
    BY <2>1, <2>2, <2>6 DEF Moves
<1> QED
  BY <1>2, <1>3

LEMMA ConflictMoves ==
  ASSUME IInv, NEW w \in Workers, ActivationRefused(w) \/ ActivationConflicts(w)
  PROVE  Moves(w)
<1>1. /\ worker \in [Workers -> Worker] /\ worker[w] \in Worker /\ WorkerInv(w)
      /\ TypeOK /\ worker[w].phase = "committing" /\ worker[w].run \in Runs
      /\ UNCHANGED <<portfolio, indexed>>
  BY DEF IInv, TypeOK, ActivationRefused, ActivationConflicts, WorkerInv
<1>2. CASE Authors(w)
  BY <1>1, <1>2, IdleType, PlainMove DEF Authors, Worker, Idle
<1>3. CASE /\ Retries(worker[w].attempt)
           /\ Validates(w, worker[w].packet, worker[w].valid, worker[w].attempt)
  <2> DEFINE k == [Idle EXCEPT !.phase = "validated", !.run = worker[w].run,
                               !.packet = worker[w].packet,
                               !.valid = worker[w].valid,
                               !.attempt = worker[w].attempt]
  <2>1. worker' = [worker EXCEPT ![w] = k] /\ worker'[w] = k
    BY <1>1, <1>3 DEF Validates
  <2>2. k \in Worker
    BY <1>1, IdleType DEF Worker
  <2>3. /\ k.phase = "validated" /\ k.run = worker[w].run
        /\ k.packet = worker[w].packet /\ k.valid = worker[w].valid
        /\ k.attempt = worker[w].attempt
    BY DEF Idle
  <2>4. WorkerInv(w)'
    <3> HIDE DEF k
    <3> QED
      BY <1>1, <1>3, <2>1, <2>3 DEF WorkerInv, Checked, Retries
  <2> QED
    BY <2>1, <2>2, <2>4 DEF Moves
<1> QED
  BY <1>2, <1>3 DEF ActivationRefused, ActivationConflicts

LEMMA EndMoves ==
  ASSUME IInv, NEW w \in Workers, Finish(w) \/ AnswerIsLost(w) \/ Timeout(w)
  PROVE  Moves(w)
<1>1. /\ worker \in [Workers -> Worker] /\ worker[w] \in Worker /\ WorkerInv(w)
      /\ TypeOK /\ UNCHANGED <<portfolio, indexed>>
  BY DEF IInv, TypeOK, Finish, AnswerIsLost, Timeout
<1>2. CASE worker' = [worker EXCEPT ![w] = Idle]
  BY <1>1, <1>2, IdleType, PlainMove DEF Idle
<1>3. CASE AnswerIsLost(w)
  BY <1>1, <1>3, IdleType, PlainMove DEF AnswerIsLost, Authors, Worker, Idle,
     WorkerInv
<1>4. CASE UNCHANGED worker
  BY <1>1, <1>4 DEF Moves, WorkerInv, Checked, Kept, Valid
<1> QED
  BY <1>2, <1>3, <1>4 DEF Finish, Timeout

LEMMA WorkerMoves ==
  ASSUME IInv, NEW w \in Workers, Works(w) \/ Errs(w)
  PROVE  Moves(w)
BY ClaimMoves, SubmitMoves, BeginMoves, ActivateMoves, ConflictMoves, EndMoves
DEF Works, Errs

-----------------------------------------------------------------------------
(* Every step keeps the invariant, one conjunct at a time.                 *)
LEMMA WorkersStep ==
  ASSUME IInv, [Next]_vars
  PROVE  /\ worker' \in [Workers -> Worker]
         /\ \A w \in Workers : WorkerInv(w)'
<1>1. worker \in [Workers -> Worker] /\ \A w \in Workers : WorkerInv(w)
  BY DEF IInv, TypeOK
<1>2. CASE UNCHANGED worker
  BY <1>1, <1>2, OthersKeep
<1>3. ASSUME NEW w \in Workers, Works(w) \/ Errs(w)
      PROVE /\ worker' \in [Workers -> Worker]
            /\ \A v \in Workers : WorkerInv(v)'
  <2>1. Moves(w)
    BY <1>3, WorkerMoves
  <2>2. worker' \in [Workers -> Worker]
    BY <1>1, <2>1 DEF Moves
  <2>3. \A v \in Workers \ {w} : worker'[v] = worker[v]
    BY <1>1, <2>1 DEF Moves
  <2> QED
    BY <2>1, <2>2, <2>3, OthersKeep DEF Moves
<1> QED
  BY <1>2, <1>3 DEF Next, vars, RegisterIndex, Start

(* What an activation writes to the run is a row the table can hold.        *)
LEMMA StoredByActivation ==
  ASSUME TypeOK, NEW w \in Workers, worker[w].run \in Runs, Activates(w)
  PROVE  RunAfter(run[worker[w].run], worker[w].valid) \in Run
<1> DEFINE row == run[worker[w].run]
<1>1. row \in Run /\ worker[w].valid \in BOOLEAN
  BY DEF TypeOK, Worker
<1>2. Storable(RunAfter(row, worker[w].valid))
  BY DEF Activates, Accepted, SnapshotIsCurrent
<1>3. RunAfter(row, worker[w].valid) \in Row
  BY <1>1 DEF RunAfter, Run, Row, RunStates, Reasons
<1> QED
  BY <1>2, <1>3 DEF Storable, Run

LEMMA TypeStep ==
  ASSUME IInv, [Next]_vars
  PROVE  TypeOK'
<1>1. TypeOK /\ \A w \in Workers : WorkerInv(w)
  BY DEF IInv
<1>2. worker' \in [Workers -> Worker]
  BY WorkersStep
<1>3. portfolio' \in [Runs -> Portfolio]
  BY <1>1, PortfolioChanges, Publication DEF TypeOK
<1>4. "QUEUED" \in RunStates /\ "RUNNING" \in RunStates
      /\ "SUCCEEDED" \in RunStates /\ "FAILED" \in RunStates
      /\ "PORTFOLIO_VALIDATION_FAILED" \in Reasons
  BY DEF RunStates, Reasons
<1>5. ASSUME NEW w \in Workers, worker[w].phase # "idle"
      PROVE worker[w].run \in Runs /\ worker[w].reason \in Reasons
            /\ worker[w].seen \in Run
            /\ command[worker[w].run] + 1 \in Nat
  BY <1>1, <1>5 DEF TypeOK, WorkerInv, Worker
<1>6. Fault => faults' \in 0..MaxFaults
  BY <1>1, LegalAssumption DEF Fault, TypeOK
<1>7. ASSUME NEW w \in Workers, Activate(w) PROVE run' \in [Runs -> Run]
  BY <1>1, <1>7, StoredByActivation DEF Activate, Activates, TypeOK, WorkerInv
<1>8. ASSUME NEW w \in Workers, Works(w) PROVE TypeOK'
  <2>1. /\ run' \in [Runs -> Run] /\ command' \in [Runs -> Nat]
        /\ indexed' \subseteq Corpora /\ unreported' \subseteq Runs
        /\ faults' \in 0..MaxFaults
    <3>1. CASE Deliver(w)
      BY <1>1, <3>1 DEF Deliver, TypeOK
    <3>2. CASE ClaimRun(w)
      <4>1. run[worker[w].run] \in Run
        BY <1>1, <3>2 DEF ClaimRun, TypeOK, WorkerInv
      <4>2. Claimable(w) => Claimed(run[worker[w].run], worker[w].seen) \in Run
        BY <1>4, <4>1 DEF Claimable, Claimed, Storable, Run, Row
      <4> QED
        BY <1>1, <3>2, <4>2 DEF ClaimRun, TypeOK
    <3>3. CASE RecordFailure(w)
      <4>1. [state |-> "FAILED", reason |-> worker[w].reason] \in Run
        BY <1>1, <1>4, <1>5, <3>3 DEF RecordFailure, WorkerInv, Run, Row
      <4> QED
        BY <1>1, <3>3, <4>1 DEF RecordFailure, TypeOK
    <3>4. CASE Activate(w)
      BY <1>1, <1>7, <3>4 DEF Activate, TypeOK
    <3>5. CASE UNCHANGED <<run, command, indexed, unreported, faults>>
      BY <1>1, <3>5 DEF TypeOK
    <3> QED
      BY <1>8, <3>1, <3>2, <3>3, <3>4, <3>5
      DEF Works, Resign, ReadForFailure, Submit, BeginActivation,
          ActivationRefused, ActivationConflicts, Finish
  <2> QED
    BY <1>2, <1>3, <2>1 DEF TypeOK
<1>9. ASSUME NEW w \in Workers, Errs(w) PROVE TypeOK'
  <2>1. /\ run' \in [Runs -> Run] /\ command' \in [Runs -> Nat]
        /\ indexed' \subseteq Corpora /\ unreported' \subseteq Runs
        /\ faults' \in 0..MaxFaults
    BY <1>1, <1>5, <1>6, <1>9 DEF Errs, ClaimFails, FailureIsLost,
       AnswerIsLost, Timeout, TypeOK
  <2> QED
    BY <1>2, <1>3, <2>1 DEF TypeOK
<1>10. ASSUME NEW r \in Runs, Start(r) PROVE TypeOK'
  <2>1. [run[r] EXCEPT !.state = "QUEUED"] \in Run
    BY <1>1, <1>4, <1>10 DEF Start, TypeOK, Run, Row
  <2> QED
    BY <1>1, <1>10, <2>1 DEF Start, TypeOK
<1>11. ASSUME NEW r \in Runs, RegisterIndex(CorpusOf[r]) PROVE TypeOK'
  BY <1>1, <1>11, LegalAssumption DEF RegisterIndex, TypeOK
<1>12. CASE UNCHANGED vars
  BY <1>1, <1>12 DEF vars, TypeOK
<1> QED
  BY <1>8, <1>9, <1>10, <1>11, <1>12 DEF Next

LEMMA RowsStep ==
  ASSUME IInv, [Next]_vars
  PROVE  \A r \in Runs : RowInv(r)'
<1>1. indexed \subseteq indexed' /\ \A r \in Runs : RowInv(r)
  BY IndexesStay DEF IInv
<1>2. \A p, c : Checked(p, c) => Checked(p, c)'
  BY <1>1 DEF Checked
<1>3. CASE UNCHANGED portfolio
  BY <1>1, <1>2, <1>3 DEF RowInv, Valid
<1>4. ASSUME NEW w \in Workers, Publishes(w), NEW r \in Runs
      PROVE RowInv(r)'
  <2> DEFINE k == worker[w]
  <2>1. WorkerInv(w) /\ k \in Worker /\ k.phase = "committing"
        /\ portfolio \in [Runs -> Portfolio]
    BY <1>4 DEF IInv, TypeOK, Publishes
  <2>2. CASE r = k.run /\ k.valid
    <3>1. Checked(k.packet, CorpusOf[k.run])
      BY <2>1, <2>2 DEF WorkerInv
    <3>2. portfolio'[r].packet = k.packet /\ k.packet \in Packets
      BY <1>4, <2>2, Publication
    <3> QED
      BY <1>2, <2>2, <3>1, <3>2 DEF RowInv
  <2>3. CASE r = k.run /\ ~k.valid
    <3>1. portfolio'[r].packet = k.packet /\ k.packet \in Packets
          /\ portfolio'[r].state = "INVALID"
      BY <1>4, <2>3, Publication
    <3> QED
      BY <3>1 DEF RowInv, Valid
  <2>4. CASE r # k.run
    <3>1. \/ portfolio'[r] = portfolio[r]
          \/ /\ portfolio[r].state = "ACTIVE"
             /\ portfolio'[r] = [portfolio[r] EXCEPT !.state = "SUPERSEDED"]
      <4>1. k.valid \in BOOLEAN
        BY <2>1 DEF Worker
      <4>2. CASE k.valid
        BY <1>4, <2>4, <4>2, Publication
      <4>3. CASE ~k.valid
        BY <1>4, <2>4, <4>3, Publication
      <4> QED
        BY <4>1, <4>2, <4>3
    <3>2. portfolio'[r].packet = portfolio[r].packet
          /\ (portfolio'[r].state # "none" => portfolio[r].state # "none")
          /\ (Valid(r)' => Valid(r))
      BY <2>1, <3>1 DEF Portfolio, Valid
    <3> QED
      BY <1>1, <1>2, <3>2 DEF RowInv
  <2> QED
    BY <2>2, <2>3, <2>4 DEF Worker
<1> QED
  BY <1>3, <1>4, PortfolioChanges

(* The new portfolio replaces the one that was active, and that one only.   *)
LEMMA ChainStep ==
  ASSUME IInv, [Next]_vars
  PROVE  /\ ActivationsAreAChain' /\ SomeActive'
         /\ ActiveIn(portfolio) # {} => ActiveIn(portfolio') # {}
<1>1. ActivationsAreAChain /\ SomeActive /\ portfolio \in [Runs -> Portfolio]
  BY DEF IInv, TypeOK
<1>2. CASE UNCHANGED portfolio
  BY <1>1, <1>2 DEF ActivationsAreAChain, SomeActive, Valid, ActiveIn
<1>3. ASSUME NEW w \in Workers, Publishes(w)
      PROVE /\ ActivationsAreAChain' /\ SomeActive'
            /\ ActiveIn(portfolio) # {} => ActiveIn(portfolio') # {}
  <2> PICK new \in Runs : new = worker[w].run
    BY <1>3, Publication
  <2>1. portfolio[new].state = "none" /\ portfolio' \in [Runs -> Portfolio]
    BY <1>3, Publication
  <2>2. worker[w].valid \in BOOLEAN
    BY DEF IInv, TypeOK, Worker
  <2>3. \A s \in Runs : portfolio[s].previous # new
    BY <1>1, <2>1 DEF ActivationsAreAChain
  <2>4. CASE ~worker[w].valid
    <3>1. /\ portfolio'[new].state = "INVALID"
          /\ portfolio'[new].previous = None
          /\ \A r \in Runs \ {new} : portfolio'[r] = portfolio[r]
      BY <1>3, <2>4, Publication
    <3>2. \A r \in Runs : /\ Valid(r)' <=> Valid(r)
                          /\ Valid(r) => portfolio'[r] = portfolio[r]
                          /\ portfolio'[r].state = "ACTIVE" <=>
                               portfolio[r].state = "ACTIVE"
      BY <2>1, <3>1 DEF Valid
    <3>3. ActiveIn(portfolio') = ActiveIn(portfolio)
      BY <3>2 DEF ActiveIn
    <3>4. \A r, s \in Runs : portfolio'[s].previous = r =>
            portfolio[s].previous = r /\ r # new
      BY <2>3, <3>1, LegalAssumption
    <3>5. ActivationsAreAChain'
      BY <1>1, <3>1, <3>2, <3>4 DEF ActivationsAreAChain, Valid
    <3> QED
      BY <1>1, <3>2, <3>3, <3>5 DEF SomeActive
  <2>5. CASE worker[w].valid
    <3>1. /\ portfolio'[new].state = "ACTIVE"
          /\ \/ /\ portfolio'[new].previous = None
                /\ ActiveIn(portfolio) = {}
             \/ /\ portfolio'[new].previous \in Runs
                /\ ActiveIn(portfolio) = {portfolio'[new].previous}
          /\ \A r \in Runs \ {new} :
               portfolio'[r] =
                 IF portfolio[r].state = "ACTIVE"
                 THEN [portfolio[r] EXCEPT !.state = "SUPERSEDED"]
                 ELSE portfolio[r]
      BY <1>3, <2>5, Publication
    <3>2. \A r \in Runs \ {new} :
            /\ portfolio'[r].previous = portfolio[r].previous
            /\ portfolio'[r].state # "ACTIVE"
            /\ Valid(r)' <=> Valid(r)
            /\ portfolio[r].state \in {"ACTIVE", "SUPERSEDED"} =>
                 portfolio'[r].state = "SUPERSEDED"
      BY <1>1, <3>1 DEF Portfolio, Valid
    <3>3. \A s \in Runs \ {new} :
            Valid(s) => portfolio[s].previous # portfolio'[new].previous
      <4>1. CASE ActiveIn(portfolio) = {}
        BY <1>1, <4>1 DEF SomeActive
      <4>2. CASE ActiveIn(portfolio) = {portfolio'[new].previous}
        BY <1>1, <4>2 DEF ActivationsAreAChain, ActiveIn
      <4> QED
        BY <3>1, <4>1, <4>2
    <3>4. \A r \in Runs : portfolio'[new].previous = r =>
            r # new /\ portfolio'[r].state = "SUPERSEDED"
      BY <2>1, <3>1, <3>2, LegalAssumption DEF ActiveIn
    <3>5. \A r, s \in Runs : s # new /\ portfolio'[s].previous = r =>
            r # new /\ portfolio'[r].state = "SUPERSEDED"
      BY <1>1, <2>3, <3>2 DEF ActivationsAreAChain
    <3>6. ASSUME NEW r \in Runs, NEW s \in Runs, Valid(r)', Valid(s)',
                 portfolio'[r].previous = portfolio'[s].previous
          PROVE r = s
      BY <1>1, <3>2, <3>3, <3>6 DEF ActivationsAreAChain
    <3>7. ActivationsAreAChain'
      BY <3>1, <3>2, <3>4, <3>5, <3>6 DEF ActivationsAreAChain
    <3> QED
      BY <3>1, <3>7 DEF SomeActive, ActiveIn
  <2> QED
    BY <2>2, <2>4, <2>5
<1> QED
  BY <1>2, <1>3, PortfolioChanges

LEMMA InvariantStep == IInv /\ [Next]_vars => IInv'
BY WorkersStep, TypeStep, RowsStep, ChainStep DEF IInv

LEMMA Invariant == Spec => []IInv
<1> QED
  BY Initially, InvariantStep, PTL DEF Spec

-----------------------------------------------------------------------------
(* Every variable keeps its type.                                          *)
THEOREM LegalTypeCorrect == Spec => []TypeOK
<1>1. IInv => TypeOK
  BY DEF IInv
<1> QED
  BY <1>1, Invariant, PTL

(* Activations form a chain and at most one portfolio is active, for any    *)
(* number of runs and of workers that submit at once                       *)
(* (LegalPortfolioActivation.commit).                                      *)
THEOREM ChainOfActivations == Spec => []ActivationsAreAChain
<1>1. IInv => ActivationsAreAChain
  BY DEF IInv
<1> QED
  BY <1>1, Invariant, PTL

(* What is active is sound against its corpus, however late it is activated *)
(* after its validation (SubmitLegalPortfolioHandler).                      *)
THEOREM SoundActivation == Spec => []ActivatedIsSound
<1>1. IInv => ActivatedIsSound
  BY DEF IInv, RowInv, Checked, ActivatedIsSound
<1> QED
  BY <1>1, Invariant, PTL

(* The answer a worker got is the run's one verdict (findReplay).           *)
THEOREM OneVerdict == Spec => []AnswerIsTheRecord
<1>1. IInv => AnswerIsTheRecord
  BY DEF IInv, WorkerInv, AnswerIsTheRecord
<1> QED
  BY <1>1, Invariant, PTL

(* The assessments never lose their active portfolio to a failed            *)
(* submission (commit).                                                    *)
THEOREM ActivePortfolioKept == Spec => ActiveIsKept
<1>1. IInv /\ [Next]_vars =>
        [ActiveIn(portfolio) # {} => ActiveIn(portfolio') # {}]_vars
  BY ChainStep
<1> QED
  BY <1>1, Invariant, PTL DEF Spec, ActiveIsKept

(* Whoever still holds an older reading of a run, its failure is not undone *)
(* (ClaimLegalPreparationHandler, LegalPortfolioActivation.commit).         *)
THEOREM FailedRunStaysFailed == Spec => FailedIsFinal
<1>1. ASSUME IInv, [Next]_vars, NEW r \in Runs, run[r].state = "FAILED"
      PROVE  run'[r].state = "FAILED"
  <2>1. run \in [Runs -> Run] /\ run[r] \in Row /\ run[r].reason # "none"
    BY <1>1 DEF IInv, TypeOK, Run
  <2>2. ASSUME NEW w \in Workers, ClaimRun(w) PROVE run'[r].state = "FAILED"
    <3>1. worker[w].run = r /\ Claimable(w) =>
            Claimed(run[r], worker[w].seen) = run[r]
      BY <2>1 DEF Claimable, Claimed, Storable, Row
    <3> QED
      BY <1>1, <2>1, <2>2, <3>1 DEF ClaimRun
  <2>3. ASSUME NEW w \in Workers, RecordFailure(w)
        PROVE  run'[r].state = "FAILED"
    BY <1>1, <2>1, <2>3 DEF RecordFailure
  <2>4. ASSUME NEW w \in Workers, Activate(w) PROVE run'[r].state = "FAILED"
    <3>1. worker[w].run = r /\ Activates(w) =>
            RunAfter(run[r], worker[w].valid).state = "FAILED"
      BY <2>1 DEF Activates, Accepted, SnapshotIsCurrent, RunAfter, Storable, Row
    <3> QED
      BY <1>1, <2>1, <2>4, <3>1 DEF Activate, Activates
  <2>5. ASSUME NEW w \in Workers, Works(w) \/ Errs(w)
        PROVE  run'[r].state = "FAILED"
    BY <1>1, <2>2, <2>3, <2>4, <2>5 DEF Works, Errs, Deliver, Resign,
       ReadForFailure, Submit, BeginActivation, ActivationRefused,
       ActivationConflicts, Finish, ClaimFails, FailureIsLost, AnswerIsLost,
       Timeout
  <2>6. ASSUME NEW s \in Runs, Start(s) PROVE run'[r].state = "FAILED"
    BY <1>1, <2>1, <2>6 DEF Start
  <2> QED
    BY <1>1, <2>5, <2>6 DEF Next, vars, RegisterIndex
<1>2. IInv /\ [Next]_vars =>
        [\A r \in Runs : run[r].state = "FAILED" => run'[r].state = "FAILED"]_vars
  BY <1>1
<1> QED
  BY <1>2, Invariant, PTL DEF Spec, FailedIsFinal

-----------------------------------------------------------------------------
(* The register.  Where nothing was decided the row is blank, so a link     *)
(* names the portfolio it replaced and a packet is one that was decided.    *)
Blank == \A r \in Runs : portfolio[r].state = "none" => portfolio[r] = NoPortfolio

LEMMA BlankStep ==
  ASSUME IInv, Blank, [Next]_vars
  PROVE  Blank'
<1>1. CASE UNCHANGED portfolio
  BY <1>1 DEF Blank
<1>2. ASSUME NEW w \in Workers, Publishes(w), NEW r \in Runs,
             portfolio'[r].state = "none"
      PROVE  portfolio'[r] = NoPortfolio
  <2>1. worker[w].valid \in BOOLEAN /\ portfolio \in [Runs -> Portfolio]
    BY DEF IInv, TypeOK, Worker
  <2>2. portfolio'[worker[w].run].state # "none"
    BY <1>2, <2>1, Publication
  <2>3. \/ portfolio'[r] = portfolio[r]
        \/ portfolio'[r] = [portfolio[r] EXCEPT !.state = "SUPERSEDED"]
    <3>1. CASE worker[w].valid
      BY <1>2, <2>2, <3>1, Publication
    <3>2. CASE ~worker[w].valid
      BY <1>2, <2>2, <3>2, Publication
    <3> QED
      BY <2>1, <3>1, <3>2
  <2>4. portfolio'[r] = portfolio[r]
    BY <1>2, <2>1, <2>3 DEF Portfolio
  <2> QED
    BY <1>2, <2>4 DEF Blank
<1> QED
  BY <1>1, <1>2, PortfolioChanges DEF Blank

LEMMA TheOneOf ==
  /\ TheOne({}) = None
  /\ \A x : TheOne({x}) = x
BY DEF TheOne

(* Before anything is decided the register is empty.                        *)
LEMMA RegistryInit == Init => Registry!Init
<1> SUFFICES ASSUME Init PROVE Registry!Init
  OBVIOUS
<1>1. \A r \in Runs : portfolio[r] = NoPortfolio
  BY DEF Init, Nothing
<1>2. ActiveIn(portfolio) = {} /\ \A r \in Runs : Successors(r) = {}
  BY <1>1, LegalAssumption DEF ActiveIn, Successors, NoPortfolio
<1>3. [r \in Runs |-> TheOne(Successors(r))] = [r \in Runs |-> None]
  BY <1>2, TheOneOf
<1>4. [r \in Runs |-> portfolio[r].packet] = [r \in Runs |-> None]
  BY <1>1 DEF NoPortfolio
<1>5. {r \in Runs : portfolio[r].state = "INVALID"} = {}
  BY <1>1 DEF NoPortfolio
<1> QED
  BY <1>2, <1>3, <1>4, <1>5, TheOneOf DEF Registry!Init, InForceNow

(* A packet that failed leaves the register as it was.                     *)
LEMMA RejectionIsRejection ==
  ASSUME IInv, Blank, NEW w \in Workers, Publishes(w), ~worker[w].valid,
         NEW new \in Runs, new = worker[w].run
  PROVE  Registry!Reject(new)
<1>1. /\ new \in Runs
      /\ portfolio[new] = NoPortfolio
      /\ portfolio'[new].state = "INVALID"
      /\ portfolio'[new].previous = None
      /\ \A r \in Runs \ {new} : portfolio'[r] = portfolio[r]
  BY Publication DEF Blank
<1>2. ActiveIn(portfolio') = ActiveIn(portfolio)
  BY <1>1 DEF ActiveIn, NoPortfolio
<1>3. \A r \in Runs : Successors(r)' = Successors(r)
  BY <1>1 DEF Successors, NoPortfolio
<1>4. [r \in Runs |-> TheOne(Successors(r))]' =
        [r \in Runs |-> TheOne(Successors(r))]
  <2>1. ASSUME NEW r \in Runs
        PROVE  TheOne(Successors(r))' = TheOne(Successors(r))
    <3>1. Successors(r)' = Successors(r)
      BY <1>3
    <3> QED
      BY <3>1 DEF TheOne
  <2> QED
    BY <2>1
<1>5. InForceNow' = InForceNow
  BY <1>2 DEF InForceNow, TheOne
<1>6. {r \in Runs : portfolio[r].state = "INVALID"}' =
        {r \in Runs : portfolio[r].state = "INVALID"} \cup {new}
  BY <1>1
<1> QED
  BY <1>4, <1>5, <1>6 DEF Registry!Reject

(* A packet that passed is put in force, and what was in force learns so.   *)
LEMMA ActivationIsPublication ==
  ASSUME IInv, Blank, NEW w \in Workers, Publishes(w), worker[w].valid,
         NEW new \in Runs, new = worker[w].run,
         NEW packet \in Packets, packet = worker[w].packet
  PROVE  Registry!Publish(new, packet)
<1>1. /\ new \in Runs /\ packet \in Packets
      /\ portfolio[new] = NoPortfolio
      /\ portfolio'[new].state = "ACTIVE"
      /\ portfolio \in [Runs -> Portfolio]
  BY Publication DEF Blank, IInv, TypeOK
<1>2. \/ /\ portfolio'[new].previous = None
         /\ ActiveIn(portfolio) = {}
      \/ /\ portfolio'[new].previous \in Runs
         /\ ActiveIn(portfolio) = {portfolio'[new].previous}
  BY Publication
<1>3. \A r \in Runs \ {new} :
        portfolio'[r] = IF portfolio[r].state = "ACTIVE"
                        THEN [portfolio[r] EXCEPT !.state = "SUPERSEDED"]
                        ELSE portfolio[r]
  BY Publication
<1>4. \A r \in Runs \ {new} :
        /\ portfolio'[r].previous = portfolio[r].previous
        /\ portfolio'[r].state # "ACTIVE"
        /\ portfolio'[r].state = "INVALID" <=> portfolio[r].state = "INVALID"
  BY <1>1, <1>3 DEF Portfolio
<1>5. portfolio'[new].previous = InForceNow
  BY <1>2, TheOneOf DEF InForceNow
<1>6. <<new, packet>> \in Worthy
  <2>1. Checked(packet, CorpusOf[new])
    BY DEF IInv, WorkerInv, Publishes
  <2> QED
    BY <1>1, <2>1 DEF Worthy, Checked
<1>7. InForceNow' = new
  <2>1. ActiveIn(portfolio') = {new}
    BY <1>1, <1>4 DEF ActiveIn
  <2> QED
    BY <2>1, TheOneOf DEF InForceNow, TheOne
<1>8. ASSUME NEW s \in Runs
      PROVE  TheOne(Successors(s))' =
               IF s = InForceNow THEN new ELSE TheOne(Successors(s))
  <2>1. CASE s = InForceNow
    <3>1. portfolio[s].state = "ACTIVE"
      BY <1>2, <1>5, <2>1, LegalAssumption DEF ActiveIn
    <3>2. \A x \in Runs : portfolio[x].previous # s
      BY <3>1 DEF IInv, ActivationsAreAChain
    <3>3. Successors(s)' = {new}
      BY <1>1, <1>4, <1>5, <2>1, <3>2 DEF Successors
    <3> QED
      BY <2>1, <3>3, TheOneOf DEF TheOne
  <2>2. CASE s # InForceNow
    <3>1. Successors(s)' = Successors(s)
      BY <1>1, <1>4, <1>5, <2>2, LegalAssumption DEF Successors, NoPortfolio
    <3> QED
      BY <2>2, <3>1 DEF TheOne
  <2> QED
    BY <2>1, <2>2
<1>9. {r \in Runs : portfolio[r].state = "INVALID"}' =
        {r \in Runs : portfolio[r].state = "INVALID"}
  BY <1>1, <1>4 DEF NoPortfolio
<1>10. [s \in Runs |-> TheOne(Successors(s))]' =
         [s \in Runs |->
            IF s = InForceNow THEN new
            ELSE [r \in Runs |-> TheOne(Successors(r))][s]]
  BY <1>8
<1> QED
  BY <1>6, <1>7, <1>9, <1>10 DEF Registry!Publish

(* Either way the run is decided now, and was not before.                   *)
LEMMA PublicationDecides ==
  ASSUME IInv, Blank, NEW w \in Workers, Publishes(w),
         NEW new \in Runs, new = worker[w].run,
         NEW packet \in Packets, packet = worker[w].packet
  PROVE  Registry!Decide(new, packet)
<1>1. /\ new \in Runs
      /\ portfolio[new] = NoPortfolio
      /\ portfolio'[new].packet = packet
      /\ portfolio \in [Runs -> Portfolio]
      /\ worker[w].valid \in BOOLEAN
  BY Publication DEF Blank, IInv, TypeOK, Worker
<1>2. \A r \in Runs \ {new} : portfolio'[r].packet = portfolio[r].packet
  <2>1. CASE worker[w].valid
    <3>1. \A r \in Runs \ {new} :
            portfolio'[r] = IF portfolio[r].state = "ACTIVE"
                            THEN [portfolio[r] EXCEPT !.state = "SUPERSEDED"]
                            ELSE portfolio[r]
      BY <2>1, Publication
    <3> QED
      BY <1>1, <3>1 DEF Portfolio
  <2>2. CASE ~worker[w].valid
    BY <2>2, Publication
  <2> QED
    BY <1>1, <2>1, <2>2
<1>3. [r \in Runs |-> portfolio[r].packet]' =
        [[r \in Runs |-> portfolio[r].packet]
           EXCEPT ![new] = packet]
  BY <1>1, <1>2
<1>4. [r \in Runs |-> portfolio[r].packet][new] = None
  BY <1>1 DEF NoPortfolio
<1> QED
  BY <1>3, <1>4 DEF Registry!Decide

(* Every step of the system is a step of the register or invisible to it.   *)
LEMMA RegistryStep ==
  ASSUME IInv, Blank, [Next]_vars
  PROVE  [Registry!Next]_(Registry!registry)
<1>1. CASE UNCHANGED portfolio
  <2>1. UNCHANGED <<InForceNow, [r \in Runs |-> portfolio[r].packet],
                    [r \in Runs |-> TheOne(Successors(r))],
                    {r \in Runs : portfolio[r].state = "INVALID"}>>
    BY <1>1 DEF InForceNow, TheOne, ActiveIn, Successors
  <2> QED
    BY <2>1 DEF Registry!registry
<1>2. ASSUME NEW w \in Workers, Publishes(w)
      PROVE  Registry!Next
  <2>1. worker[w].valid \in BOOLEAN
    BY DEF IInv, TypeOK, Worker
  <2>2. PICK new \in Runs, packet \in Packets :
          new = worker[w].run /\ packet = worker[w].packet
    BY <1>2, Publication
  <2>3. Registry!Decide(new, packet)
    BY <1>2, <2>2, PublicationDecides
  <2>4. CASE worker[w].valid
    BY <1>2, <2>2, <2>3, <2>4, ActivationIsPublication DEF Registry!Next
  <2>5. CASE ~worker[w].valid
    BY <1>2, <2>2, <2>3, <2>5, RejectionIsRejection DEF Registry!Next
  <2> QED
    BY <2>1, <2>4, <2>5
<1> QED
  BY <1>1, <1>2, PortfolioChanges

(* The legal portfolio is a register: for any number of workers, retries and *)
(* conflicting transactions a reader sees each activation as one write of a *)
(* worthy packet, each portfolio replaced once, each run decided once       *)
(* (LegalPortfolioActivation.commit).                                      *)
THEOREM PortfolioKeepsRegistry == Spec => KeepsRegistry
<1>1. Init => Blank
  BY DEF Init, Nothing, Blank
<1>2. IInv /\ Blank /\ [Next]_vars => Blank'
  BY BlankStep
<1>3. IInv /\ Blank /\ [Next]_vars => [Registry!Next]_(Registry!registry)
  BY RegistryStep
<1> QED
  BY <1>1, <1>2, <1>3, Invariant, RegistryInit, PTL
  DEF Spec, KeepsRegistry, Registry!Spec
=============================================================================
