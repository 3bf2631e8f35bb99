------------------------------- MODULE Outbox -------------------------------
(***************************************************************************)
(* The transactional outbox: rows of OutboxMessage written in the           *)
(* transaction of a domain change, relayed to the broker by the poller of   *)
(* each API instance, parked as dead letters when every attempt failed, and *)
(* replayed or discarded by operators.                                     *)
(*                                                                         *)
(* A poll is one database transaction: it locks a batch, publishes message  *)
(* by message, and only its commit makes the new states of the rows         *)
(* visible.  The broker is not part of that transaction.                    *)
(***************************************************************************)
EXTENDS Naturals, FiniteSets

CONSTANTS
  Messages,     \* the messages a run can enqueue
  Instances,    \* API processes, each with its poller
  Operators,    \* administrators at the dead letter endpoints
  BatchSize,    \* outbox.batchSize
  MaxAttempts   \* outbox.maxAttempts

VARIABLES
  message,    \* the row of each message
  batch,      \* per instance: the rows its open poll holds, and their fate
  queue,      \* copies of each message waiting in the consumer's queue
  operator    \* what an operator decided about the dead letter it has read

(* "absent" before the enqueue, "discarded" after the row was deleted.      *)
Statuses == {"absent", "PENDING", "PUBLISHED", "FAILED", "DLQ", "discarded"}

(* A failed row has attempts left, a dead letter has used them up.          *)
MessageRow ==
  {row \in [status : Statuses, attempts : 0..MaxAttempts, createdAt : Nat] :
     /\ row.status \in {"PENDING", "FAILED", "PUBLISHED"} =>
          row.attempts < MaxAttempts
     /\ row.status = "DLQ" => row.attempts = MaxAttempts}

Fates == {"out", "todo", "sent", "failed"}

Decisions == [does : {"nothing"}] \cup
             [does : {"replay", "discard"}, on : Messages]

Undecided == [does |-> "nothing"]

OutboxTypeOK ==
  /\ message \in [Messages -> MessageRow]
  /\ batch \in [Instances -> [Messages -> Fates]]
  /\ queue \in [Messages -> Nat]
  /\ operator \in [Operators -> Decisions]

OutboxInit ==
  /\ message = [m \in Messages |->
                  [status |-> "absent", attempts |-> 0, createdAt |-> 0]]
  /\ batch = [i \in Instances |-> [m \in Messages |-> "out"]]
  /\ queue = [m \in Messages |-> 0]
  /\ operator = [o \in Operators |-> Undecided]

-----------------------------------------------------------------------------
(* The upsert by deterministic identity: a second enqueue changes nothing.  *)
Enqueue(m) ==
  message' =
    IF message[m].status \in {"absent", "discarded"}
    THEN [message EXCEPT
            ![m] = [status |-> "PENDING", attempts |-> 0,
                    createdAt |-> 1 + Cardinality(
                      {n \in Messages : message[n].status # "absent"})]]
    ELSE message

(* FOR UPDATE: the rows some poll holds.                                   *)
Locked(m) == \E i \in Instances : batch[i][m] # "out"

Polling(i) == \E m \in Messages : batch[i][m] # "out"

Todo(i) == {m \in Messages : batch[i][m] = "todo"}

(* Faulty: the rows another instance holds are not skipped.                *)
EligibleUnlocked ==
  {m \in Messages : message[m].status \in {"PENDING", "FAILED"}}

(* Faulty: a failed row is never due again.                                *)
EligibleOnce ==
  {m \in Messages : message[m].status = "PENDING" /\ ~Locked(m)}

(* The rows the query can return: SKIP LOCKED leaves out held rows.        *)
Eligible ==
  {m \in Messages : /\ message[m].status \in {"PENDING", "FAILED"}
                    /\ ~Locked(m)}

(* ORDER BY createdAt LIMIT batchSize.                                     *)
Oldest(rows) ==
  {m \in rows :
     Cardinality({n \in rows : message[n].createdAt < message[m].createdAt})
       < BatchSize}

(* A poll begins.  The backoff of a failed row may or may not have elapsed. *)
Poll(i) ==
  /\ ~Polling(i)
  /\ \E due \in SUBSET Eligible :
       /\ due # {}
       /\ {m \in Eligible : message[m].status = "PENDING"} \subseteq due
       /\ batch' = [batch EXCEPT
                      ![i] = [m \in Messages |->
                                IF m \in Oldest(due) THEN "todo" ELSE "out"]]
  /\ UNCHANGED <<message, queue, operator>>

(* The next message of the batch is handed to the broker.  "confirmed": the *)
(* broker has it.  "unconfirmed": it has it, or will get it from the write  *)
(* buffer, but the publisher sees backpressure or a lost confirmation.      *)
(* "refused": it never gets it (no connection, no queue for the route).     *)
Publish(i, outcome) ==
  /\ \E m \in Todo(i) :
       /\ \A n \in Todo(i) : message[m].createdAt <= message[n].createdAt
       /\ batch' = [batch EXCEPT
                      ![i][m] = IF outcome = "confirmed" THEN "sent"
                                                         ELSE "failed"]
       /\ queue' = IF outcome = "refused" THEN queue
                                          ELSE [queue EXCEPT ![m] = @ + 1]
  /\ UNCHANGED <<message, operator>>

(* Faulty: one attempt too many before a row becomes a dead letter.         *)
RelayedOnceMore(row, fate) ==
  CASE fate = "sent"   -> [row EXCEPT !.status = "PUBLISHED"]
    [] fate = "failed" ->
         [row EXCEPT
            !.status = IF row.attempts >= MaxAttempts THEN "DLQ" ELSE "FAILED",
            !.attempts = row.attempts + 1]
    [] OTHER           -> row

(* markPublished and markFailure, as the commit makes them visible.        *)
Relayed(row, fate) ==
  CASE fate = "sent"   -> [row EXCEPT !.status = "PUBLISHED"]
    [] fate = "failed" ->
         [row EXCEPT
            !.status = IF row.attempts + 1 >= MaxAttempts THEN "DLQ" ELSE "FAILED",
            !.attempts = row.attempts + 1]
    [] OTHER           -> row

EndPoll(i) == batch' = [batch EXCEPT ![i] = [m \in Messages |-> "out"]]

CommitPoll(i) ==
  /\ Polling(i)
  /\ Todo(i) = {}
  /\ message' = [m \in Messages |-> Relayed(message[m], batch[i][m])]
  /\ EndPoll(i)
  /\ UNCHANGED <<queue, operator>>

(* The transaction is lost (its time limit, the connection, the process):   *)
(* what was published stays published, the rows stay as they were.          *)
RollBackPoll(i) ==
  /\ Polling(i)
  /\ EndPoll(i)
  /\ UNCHANGED <<message, queue, operator>>

-----------------------------------------------------------------------------
(* The dead letter endpoints read the row, check that it is a dead letter,  *)
(* and change it by identity in a later statement.  A message of a payment  *)
(* is never an unsafe replay target.                                       *)
ReadDeadLetter(o, m, decision) ==
  /\ operator[o] = Undecided
  /\ message[m].status = "DLQ"
  /\ operator' = [operator EXCEPT ![o] = [does |-> decision, on |-> m]]
  /\ UNCHANGED <<message, batch, queue>>

Exists(m) == message[m].status \notin {"absent", "discarded"}

(* The statement waits for a poll that holds the row; without a row it      *)
(* fails.                                                                  *)
ReplayDeadLetter(o) ==
  /\ operator[o].does = "replay"
  /\ ~Locked(operator[o].on)
  /\ message' = IF Exists(operator[o].on)
                THEN [message EXCEPT ![operator[o].on].status = "PENDING",
                                     ![operator[o].on].attempts = 0]
                ELSE message
  /\ operator' = [operator EXCEPT ![o] = Undecided]
  /\ UNCHANGED <<batch, queue>>

DiscardDeadLetter(o) ==
  /\ operator[o].does = "discard"
  /\ ~Locked(operator[o].on)
  /\ message' = [message EXCEPT ![operator[o].on].status = "discarded"]
  /\ operator' = [operator EXCEPT ![o] = Undecided]
  /\ UNCHANGED <<batch, queue>>
=============================================================================
