--------------------------- MODULE LegalPortfolio ---------------------------
(***************************************************************************)
(* The legal portfolio: a preparation run is requested for a pinned corpus, *)
(* a worker claims it, authors a packet and submits it, and the submission  *)
(* is validated and activated in one serializable transaction.              *)
(*                                                                         *)
(* Claim and failure read the run and later change it by its identity       *)
(* alone.  A submission takes its snapshot with its first statement, the    *)
(* attempt to get the advisory lock, so the snapshot may be older than what *)
(* it finds once it has the lock.                                          *)
(***************************************************************************)
EXTENDS PortfolioIntegrity, Naturals

CONSTANTS
  None,
  Runs,           \* preparation runs, each with its own idempotency key
  CorpusOf,       \* the corpus a run is pinned to
  Packets,        \* what an agent can author
  Workers,        \* agent runtime threads
  MaxAttempts,    \* MAX_TRANSACTION_ATTEMPTS
  MaxFaults       \* bound on lost calls, crashes and timeouts

ASSUME LegalAssumption ==
  /\ CorpusOf \in [Runs -> Corpora]
  /\ Packets \subseteq Packet
  /\ None \notin Packets \cup Runs
  /\ MaxAttempts \in Nat \ {0}
  /\ MaxFaults \in Nat

VARIABLES
  run,         \* LegalPreparationRun
  portfolio,   \* LegalPortfolioVersion and its activation record, per run
  indexed,     \* corpora with a valid retrieval index
  command,     \* copies of each run's command in the queue
  worker,      \* what each worker is doing
  unreported,  \* runs whose failure could not be reported
  faults

vars == <<run, portfolio, indexed, command, worker, unreported, faults>>

RunStates == {"none", "QUEUED", "RUNNING", "SUCCEEDED", "FAILED"}

Reasons ==
  {"none", "CORPUS_UNAVAILABLE", "NO_SUBMISSION", "PORTFOLIO_VALIDATION_FAILED"}

Row == [state : RunStates, reason : Reasons]

(* Faulty: the table takes a run in any state with any reason.              *)
StorableWhatever(row) == TRUE

(* LegalPreparationRun_failure_reason_check: a run has a reason exactly when *)
(* it failed.                                                              *)
Storable(row) == row.state = "FAILED" <=> row.reason # "none"

(* The runs the table can hold.                                            *)
Run == {row \in Row : row.state = "FAILED" <=> row.reason # "none"}

Portfolio ==
  [state : {"none", "ACTIVE", "SUPERSEDED", "INVALID"},
   packet : Packets \cup {None},
   previous : Runs \cup {None}]

NoPortfolio == [state |-> "none", packet |-> None, previous |-> None]

(* "claiming" and "failing" have read the run; "resigning" is about to.      *)
(* "validated" has a packet to commit, "committing" a snapshot, "answered"  *)
(* the result of the submission.                                           *)
Worker ==
  [phase : {"idle", "claiming", "authoring", "validated", "committing",
            "answered", "resigning", "failing", "done"},
   run : Runs \cup {None},
   seen : Run,                      \* the run as it was read
   consumed : BOOLEAN,              \* whether it had a portfolio
   reason : Reasons,
   packet : Packets \cup {None},
   valid : BOOLEAN,                 \* the verdict of the validation
   attempt : 0..MaxAttempts,
   snapshot : [Runs -> Portfolio]]

Unread == [state |-> "none", reason |-> "none"]

Nothing == [r \in Runs |-> NoPortfolio]

Idle ==
  [phase |-> "idle", run |-> None, seen |-> Unread, consumed |-> FALSE,
   reason |-> "none", packet |-> None, valid |-> FALSE, attempt |-> 0,
   snapshot |-> Nothing]

TypeOK ==
  /\ run \in [Runs -> Run]
  /\ portfolio \in [Runs -> Portfolio]
  /\ indexed \subseteq Corpora
  /\ command \in [Runs -> Nat]
  /\ worker \in [Workers -> Worker]
  /\ unreported \subseteq Runs
  /\ faults \in 0..MaxFaults

Init ==
  /\ run = [r \in Runs |-> Unread]
  /\ portfolio = Nothing
  /\ indexed = {}
  /\ command = [r \in Runs |-> 0]
  /\ worker = [w \in Workers |-> Idle]
  /\ unreported = {}
  /\ faults = 0

Fault == faults < MaxFaults /\ faults' = faults + 1

(* The worker goes on authoring: the tool told the agent about an error.    *)
Authors(w) ==
  worker' = [worker EXCEPT ![w] = [Idle EXCEPT !.phase = "authoring",
                                               !.run = worker[w].run]]

-----------------------------------------------------------------------------
(* Only the indexes of corpora that runs are pinned to are read.            *)
RegisterIndex(c) ==
  /\ c \notin indexed
  /\ indexed' = indexed \cup {c}
  /\ UNCHANGED <<run, portfolio, command, worker, unreported, faults>>

(* A repeated request is answered with the run that exists.                *)
Start(r) ==
  /\ run[r].state = "none"
  /\ run' = [run EXCEPT ![r].state = "QUEUED"]
  /\ command' = [command EXCEPT ![r] = @ + 1]
  /\ UNCHANGED <<portfolio, indexed, worker, unreported, faults>>

-----------------------------------------------------------------------------
(* Claim.                                                                  *)
Reads(w, r, phase) ==
  worker' = [worker EXCEPT ![w] = [Idle EXCEPT
                !.phase = phase, !.run = r, !.reason = worker[w].reason,
                !.seen = run[r], !.consumed = portfolio[r].state # "none"]]

Deliver(w) ==
  /\ worker[w].phase = "idle"
  /\ \E r \in Runs :
       /\ command[r] > 0
       /\ command' = [command EXCEPT ![r] = @ - 1]
       /\ Reads(w, r, "claiming")
  /\ UNCHANGED <<run, portfolio, indexed, unreported, faults>>

(* Faulty: a run in progress cannot be failed.                              *)
OpenUntilClaimed(w) ==
  worker[w].seen.state = "QUEUED" /\ ~worker[w].consumed

Open(w) ==
  worker[w].seen.state \in {"QUEUED", "RUNNING"} /\ ~worker[w].consumed

Resigns(w, reason) ==
  worker' = [worker EXCEPT ![w] = [Idle EXCEPT !.phase = "resigning",
                !.run = worker[w].run, !.reason = reason]]

(* Faulty: a claim clears the reason it finds.                             *)
ClaimedAfresh(row, seen) ==
  IF seen.state = "QUEUED" THEN [state |-> "RUNNING", reason |-> "none"] ELSE row

(* The row after the claim of a run that was read as seen: a reason that is *)
(* there by now is not cleared.                                            *)
Claimed(row, seen) ==
  IF seen.state = "QUEUED" THEN [row EXCEPT !.state = "RUNNING"] ELSE row

(* The run was open, and its row can still be changed: a run that failed    *)
(* since it was read cannot become a running one.                           *)
Claimable(w) ==
  /\ worker[w].seen.state \in {"QUEUED", "RUNNING"} /\ ~worker[w].consumed
  /\ Storable(Claimed(run[worker[w].run], worker[w].seen))

ClaimRun(w) ==
  /\ worker[w].phase = "claiming"
  /\ \/ /\ Claimable(w)
        /\ run' = [run EXCEPT ![worker[w].run] = Claimed(@, worker[w].seen)]
        /\ Authors(w)
     \/ ~Claimable(w) /\ Resigns(w, "CORPUS_UNAVAILABLE") /\ UNCHANGED run
  /\ UNCHANGED <<portfolio, indexed, command, unreported, faults>>

(* Every attempt of the claim's call failed before it reached the API.      *)
ClaimFails(w) ==
  /\ Fault
  /\ worker[w].phase = "claiming"
  /\ Resigns(w, "CORPUS_UNAVAILABLE")
  /\ UNCHANGED <<run, portfolio, indexed, command, unreported>>

-----------------------------------------------------------------------------
(* Failure: the agent ends, or errs, without a submission.                 *)
Resign(w) ==
  /\ worker[w].phase = "authoring"
  /\ Resigns(w, "NO_SUBMISSION")
  /\ UNCHANGED <<run, portfolio, indexed, command, unreported, faults>>

Ends(w) ==
  worker' = [worker EXCEPT ![w] = [Idle EXCEPT !.phase = "done",
                !.run = worker[w].run]]

ReadForFailure(w) ==
  /\ worker[w].phase = "resigning"
  /\ Reads(w, worker[w].run, "failing")
  /\ UNCHANGED <<run, portfolio, indexed, command, unreported, faults>>

RecordFailure(w) ==
  /\ worker[w].phase = "failing"
  /\ run' = IF Open(w)
            THEN [run EXCEPT ![worker[w].run] =
                    [state |-> "FAILED", reason |-> worker[w].reason]]
            ELSE run
  /\ Ends(w)
  /\ UNCHANGED <<portfolio, indexed, command, unreported, faults>>

(* The runner swallows the error of the failure's call.                    *)
FailureIsLost(w) ==
  /\ Fault
  /\ worker[w].phase = "resigning"
  /\ unreported' = unreported \cup {worker[w].run}
  /\ Ends(w)
  /\ UNCHANGED <<run, portfolio, indexed, command>>

-----------------------------------------------------------------------------
(* Submission.                                                             *)
(* Faulty: a consumed run answers whatever packet is submitted.             *)
SameWhateverDigest(row, p) == TRUE

SameRequest(row, p) == row.packet = p

Answers(w, p, valid) ==
  worker' = [worker EXCEPT ![w] = [Idle EXCEPT !.phase = "answered",
                !.run = worker[w].run, !.packet = p, !.valid = valid]]

(* findReplay, for a run whose portfolio is found.                         *)
Replays(w, row, p) ==
  IF SameRequest(row, p) THEN Answers(w, p, row.state # "INVALID")
  ELSE Authors(w)

(* A packet and its verdict, to be committed.                              *)
Validates(w, p, valid, attempt) ==
  worker' = [worker EXCEPT ![w] = [Idle EXCEPT !.phase = "validated",
                !.run = worker[w].run, !.packet = p, !.valid = valid,
                !.attempt = attempt]]

(* The packet is validated outside of any transaction.                     *)
Submit(w, p) ==
  LET r == worker[w].run IN
  /\ worker[w].phase = "authoring"
  /\ IF portfolio[r].state # "none"
     THEN Replays(w, portfolio[r], p)
     ELSE Validates(w, p, Failures(p, CorpusOf[r], indexed) = {}, 0)
  /\ UNCHANGED <<run, portfolio, indexed, command, unreported, faults>>

(* A transaction begins: it sees what is committed now, whenever the lock   *)
(* will be free.                                                           *)
BeginActivation(w) ==
  /\ worker[w].phase = "validated"
  /\ worker' = [worker EXCEPT ![w].phase = "committing",
                              ![w].attempt = @ + 1,
                              ![w].snapshot = portfolio,
                              ![w].seen = run[worker[w].run]]
  /\ UNCHANGED <<run, portfolio, indexed, command, unreported, faults>>

(* Faulty: the lock alone orders activations.  There is no serializable     *)
(* isolation, and no index that admits one active portfolio: either of them *)
(* would refuse the write.                                                 *)
SnapshotWhatever(w) == TRUE

(* Nothing the transaction reads or writes was committed since it began.    *)
SnapshotIsCurrent(w) ==
  worker[w].snapshot = portfolio /\ worker[w].seen = run[worker[w].run]

ActiveIn(rows) == {r \in Runs : rows[r].state = "ACTIVE"}

(* Faulty: a packet that failed validation supersedes all the same.         *)
SupersededAnyway(rows, valid) == ActiveIn(rows)

Superseded(rows, valid) == IF valid THEN ActiveIn(rows) ELSE {}

(* The one element of a set that has at most one.                          *)
TheOne(S) == IF S = {} THEN None ELSE CHOOSE r \in S : TRUE

Published(w) ==
  LET rows == worker[w].snapshot
      old  == Superseded(rows, worker[w].valid)
      new  == [state    |-> IF worker[w].valid THEN "ACTIVE" ELSE "INVALID",
               packet   |-> worker[w].packet,
               previous |-> TheOne(old)]
  IN [r \in Runs |->
        IF r = worker[w].run THEN new
        ELSE IF r \in old THEN [portfolio[r] EXCEPT !.state = "SUPERSEDED"]
        ELSE portfolio[r]]

(* The reason of an earlier failure is not cleared by a success, so the     *)
(* table refuses the success of a run that failed meanwhile.               *)
RunAfter(row, valid) ==
  IF valid THEN [row EXCEPT !.state = "SUCCEEDED"]
  ELSE [state |-> "FAILED", reason |-> "PORTFOLIO_VALIDATION_FAILED"]

(* The tables take what the activation writes.                             *)
Accepted(w) ==
  /\ worker[w].valid => Writable(worker[w].packet, CorpusOf[worker[w].run])
  /\ Storable(RunAfter(worker[w].seen, worker[w].valid))

Activates(w) ==
  /\ SnapshotIsCurrent(w)
  /\ Accepted(w)
  /\ portfolio' = Published(w)
  /\ run' = [run EXCEPT ![worker[w].run] = RunAfter(@, worker[w].valid)]

Activate(w) ==
  LET row == worker[w].snapshot[worker[w].run] IN
  /\ worker[w].phase = "committing"
  /\ IF row.state # "none"
     THEN Replays(w, row, worker[w].packet) /\ UNCHANGED <<run, portfolio>>
     ELSE Activates(w) /\ Answers(w, worker[w].packet, worker[w].valid)
  /\ UNCHANGED <<indexed, command, unreported, faults>>

(* A violated constraint is not retried: everything is rolled back, and the *)
(* agent is told about an error.                                           *)
ActivationRefused(w) ==
  /\ worker[w].phase = "committing"
  /\ worker[w].snapshot[worker[w].run].state = "none"
  /\ ~Accepted(w)
  /\ Authors(w)
  /\ UNCHANGED <<run, portfolio, indexed, command, unreported, faults>>

Retries(attempt) == attempt < MaxAttempts

(* A serialization failure is retried; the last one, and the violation of   *)
(* the index that admits one active portfolio, are errors of the call.      *)
ActivationConflicts(w) ==
  /\ worker[w].phase = "committing"
  /\ worker[w].snapshot[worker[w].run].state = "none"
  /\ ~SnapshotIsCurrent(w)
  /\ \/ /\ Retries(worker[w].attempt)
        /\ Validates(w, worker[w].packet, worker[w].valid, worker[w].attempt)
     \/ Authors(w)
  /\ UNCHANGED <<run, portfolio, indexed, command, unreported, faults>>

(* The answer of a submission that was committed is lost.                  *)
AnswerIsLost(w) ==
  /\ Fault
  /\ worker[w].phase = "answered"
  /\ Authors(w)
  /\ UNCHANGED <<run, portfolio, indexed, command, unreported>>

-----------------------------------------------------------------------------
(* The runner returns and the command is acknowledged.                     *)
Finish(w) ==
  /\ worker[w].phase \in {"answered", "done"}
  /\ worker' = [worker EXCEPT ![w] = Idle]
  /\ UNCHANGED <<run, portfolio, indexed, command, unreported, faults>>

(* The delivery's timer sends the command to a retry queue and leaves the   *)
(* thread running; a crash returns the command and ends the thread.         *)
Timeout(w) ==
  /\ Fault
  /\ worker[w].phase # "idle"
  /\ command' = [command EXCEPT ![worker[w].run] = @ + 1]
  /\ worker' = worker \/ worker' = [worker EXCEPT ![w] = Idle]
  /\ UNCHANGED <<run, portfolio, indexed, unreported>>

Works(w) ==
  \/ Deliver(w) \/ ClaimRun(w)
  \/ Resign(w) \/ ReadForFailure(w) \/ RecordFailure(w)
  \/ \E p \in Packets : Submit(w, p)
  \/ BeginActivation(w)
  \/ Activate(w) \/ ActivationRefused(w) \/ ActivationConflicts(w)
  \/ Finish(w)

Errs(w) ==
  ClaimFails(w) \/ FailureIsLost(w) \/ AnswerIsLost(w) \/ Timeout(w)

Next ==
  \/ \E r \in Runs : RegisterIndex(CorpusOf[r])
  \/ \E r \in Runs : Start(r)
  \/ \E w \in Workers : Works(w) \/ Errs(w)

Spec == Init /\ [][Next]_vars

(* The consumer's threads go on by themselves, and an agent has a limited   *)
(* number of steps (recursion_limit): one whose submissions are refused     *)
(* again and again comes to its end.                                       *)
Fairness == \A w \in Workers : WF_vars(Works(w)) /\ SF_vars(Resign(w))

FairSpec == Spec /\ Fairness

-----------------------------------------------------------------------------
Valid(r) == portfolio[r].state \in {"ACTIVE", "SUPERSEDED"}

(* Activations follow one another: at most one portfolio is active, it is   *)
(* the one no other replaced, each other valid one was replaced by exactly  *)
(* one, and only the first replaced none (acquireLegalPortfolioActivation-   *)
(* Lock, commit).  Two workers, of one run or of two, may activate at once.  *)
ActivationsAreAChain ==
  \A r, s \in Runs :
    /\ Valid(r) /\ Valid(s) /\ portfolio[r].previous = portfolio[s].previous
         => r = s
    /\ portfolio[r].state = "ACTIVE" => portfolio[s].previous # r
    /\ portfolio[s].previous = r => portfolio[r].state = "SUPERSEDED"
    /\ portfolio[r].state = "ACTIVE" /\ portfolio[s].state = "ACTIVE" => r = s

(* A submission that fails its validation never takes down the portfolio    *)
(* assessments read: once one is active, one is active.                     *)
ActiveIsKept ==
  [][ActiveIn(portfolio) # {} => ActiveIn(portfolio') # {}]_vars

(* Whatever was activated is sound against the corpus its run is pinned to, *)
(* although it was validated before and outside of the transaction.         *)
ActivatedIsSound ==
  \A r \in Runs :
    Valid(r) => Sound(portfolio[r].packet, CorpusOf[r]) /\ CorpusOf[r] \in indexed

(* A run has one verdict: what a worker was told about its packet is what   *)
(* is recorded, however many workers had the run (findReplay).              *)
AnswerIsTheRecord ==
  \A w \in Workers :
    worker[w].phase = "answered" =>
      /\ portfolio[worker[w].run].packet = worker[w].packet
      /\ Valid(worker[w].run) <=> worker[w].valid

(* A run that failed stays failed.  A claim and a submission that read it    *)
(* before, by other workers or after the command came back, write to it by  *)
(* its identity alone; only the table's check turns them away               *)
(* (ClaimLegalPreparationHandler, LegalPortfolioActivation.commit).         *)
FailedIsFinal ==
  [][\A r \in Runs : run[r].state = "FAILED" => run'[r].state = "FAILED"]_vars

(* A requested run fails or leaves a portfolio, unless the report of its    *)
(* failure was lost.                                                       *)
RunSettles ==
  \A r \in Runs :
    run[r].state = "QUEUED" ~>
      \/ run[r].state = "FAILED"
      \/ portfolio[r].state # "none"
      \/ r \in unreported

-----------------------------------------------------------------------------
(* The register behind the rows.  The rows name predecessors; the register  *)
(* holds the portfolio in force and what took an older one's place.         *)
InForceNow == TheOne(ActiveIn(portfolio))

Successors(r) == {s \in Runs : portfolio[s].previous = r}

(* The packets that may be put in force for a run.                          *)
Worthy == {x \in Runs \X Packets : Sound(x[2], CorpusOf[x[1]])}

Registry == INSTANCE PortfolioRegistry WITH
  current   <- InForceNow,
  content   <- [r \in Runs |-> portfolio[r].packet],
  successor <- [r \in Runs |-> TheOne(Successors(r))],
  rejected  <- {r \in Runs : portfolio[r].state = "INVALID"}

(* Requests, claims, failures, validations, conflicts and retries are       *)
(* invisible to a reader; an activation is one write of a register, however *)
(* many workers submit at once (LegalPortfolioActivation.commit).           *)
KeepsRegistry == Registry!Spec
=============================================================================
