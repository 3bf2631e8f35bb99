-------------------------- MODULE PaymentPipeline ---------------------------
(***************************************************************************)
(* From a SePay webhook to the wallet: the webhook and its outbox message   *)
(* are written together, the outbox relays the message, an API process      *)
(* consumes it and reconciles the transfer, while operators work on the     *)
(* dead letters.  Expiry, administrators and deletion touch neither message *)
(* nor queue, and are left to Billing.                                      *)
(*                                                                         *)
(* An API process polls the outbox and consumes the queue over one broker   *)
(* connection.  Losing the connection gives an unacknowledged message back  *)
(* to the queue although its handler runs on; the next poll reconnects the  *)
(* publisher, but the queue is only consumed again after a restart.  A      *)
(* process that finds no broker when it starts is one that loses it at once.*)
(***************************************************************************)
EXTENDS Billing

CONSTANTS Operators, BatchSize, MaxAttempts,
          MaxFaults   \* bound on failed publications, crashes, lost links

ASSUME PipelineAssumption ==
  /\ BatchSize \in Nat \ {0}
  /\ MaxAttempts \in Nat \ {0}
  /\ MaxFaults \in Nat
  /\ IsFiniteSet(Transfers)
  /\ IsFiniteSet(Consumers)

VARIABLES
  message, batch, queue, operator,  \* the outbox
  subscribed,                       \* whether a process consumes the queue
  faults                            \* faults so far

INSTANCE Outbox WITH Messages <- Transfers, Instances <- Consumers

pipelineVars == <<message, batch, queue, operator, subscribed, faults>>
vars == <<billingVars, pipelineVars>>

TypeOK ==
  /\ BillingTypeOK
  /\ OutboxTypeOK
  /\ subscribed \in [Consumers -> BOOLEAN]
  /\ faults \in 0..MaxFaults

Init ==
  /\ BillingInit
  /\ OutboxInit
  /\ subscribed = [c \in Consumers |-> TRUE]
  /\ faults = 0

Fault == faults < MaxFaults /\ faults' = faults + 1

-----------------------------------------------------------------------------
(* The outside world.  Transfers are named in the order they are reported.  *)
Unreported == {t \in Transfers : webhook[t] = NoEvent}

(* Faulty: the message is enqueued outside the transaction of its event.    *)
AcceptMessageOnly(t) ==
  /\ Enqueue(t)
  /\ UNCHANGED <<billingVars, batch, queue, operator, subscribed, faults>>

Accept(t) ==
  /\ AcceptWebhook(t)
  /\ Enqueue(t)
  /\ UNCHANGED <<batch, queue, operator, subscribed, faults>>

CustomerStep ==
  /\ \E o \in Orders : CreateOrder(o)
  /\ UNCHANGED pipelineVars

OperatorStep(o) ==
  /\ \/ \E t \in Transfers, decision \in {"replay", "discard"} :
          ReadDeadLetter(o, t, decision)
     \/ ReplayDeadLetter(o)
     \/ DiscardDeadLetter(o)
  /\ UNCHANGED <<billingVars, subscribed, faults>>

-----------------------------------------------------------------------------
(* The poller.                                                             *)
PollStep(c) ==
  /\ Poll(c) \/ Publish(c, "confirmed") \/ CommitPoll(c)
  /\ UNCHANGED <<billingVars, subscribed, faults>>

PollFails(c) ==
  /\ Fault
  /\ \/ Publish(c, "unconfirmed")
     \/ Publish(c, "refused")
     \/ RollBackPoll(c)
  /\ UNCHANGED <<billingVars, subscribed>>

-----------------------------------------------------------------------------
(* The consumer.                                                           *)
Handling(c) == session[c].phase # "idle"

(* The broker has given the message to c and waits for its answer.         *)
Unacknowledged(c) == Handling(c) /\ subscribed[c]

(* Faulty: a message given back is dropped.                                *)
NotRequeued(c) == queue

Requeued(c) ==
  IF Unacknowledged(c) THEN [queue EXCEPT ![session[c].transfer] = @ + 1] ELSE queue

Deliver(c) ==
  /\ subscribed[c]
  /\ \E t \in Transfers :
       /\ queue[t] > 0
       /\ queue' = [queue EXCEPT ![t] = @ - 1]
       /\ Receive(c, t)
  /\ UNCHANGED <<message, batch, operator, subscribed, faults>>

HandlerStep(c) ==
  /\ ConsumerTransaction(c)
  /\ UNCHANGED pipelineVars

(* The process ends and is started again: its open transactions roll back,  *)
(* an unacknowledged message returns to the queue, and it subscribes.       *)
Restarts(c, returned) ==
  /\ RollBack(c)
  /\ EndPoll(c)
  /\ queue' = returned
  /\ subscribed' = [subscribed EXCEPT ![c] = TRUE]
  /\ UNCHANGED <<message, operator>>

(* The handler is done.  Acknowledging on a closed channel throws, and so   *)
(* does the negative acknowledgement of that error: the process ends.       *)
Acknowledge(c) ==
  /\ session[c].phase = "processed"
  /\ \/ /\ subscribed[c]
        /\ RollBack(c)
        /\ UNCHANGED <<message, batch, queue, operator>>
        /\ UNCHANGED subscribed
     \/ /\ ~subscribed[c]
        /\ Restarts(c, queue)
  /\ UNCHANGED faults

(* A transaction of the handler fails, or finds the wallet changed: the      *)
(* message is given back.                                                  *)
HandlerErrs(c) ==
  /\ Fault
  /\ Unacknowledged(c)
  /\ RollBack(c)
  /\ queue' = Requeued(c)
  /\ UNCHANGED <<message, batch, operator, subscribed>>

Crash(c) ==
  /\ Fault
  /\ Restarts(c, Requeued(c))

LoseConnection(c) ==
  /\ Fault
  /\ subscribed[c]
  /\ subscribed' = [subscribed EXCEPT ![c] = FALSE]
  /\ queue' = Requeued(c)
  /\ UNCHANGED <<billingVars, message, batch, operator>>

ConsumerStep(c) ==
  Deliver(c) \/ HandlerStep(c) \/ Acknowledge(c)

ConsumerFault(c) == HandlerErrs(c) \/ Crash(c) \/ LoseConnection(c)

Next ==
  \/ Unreported # {} /\ Accept(CHOOSE t \in Unreported : TRUE)
  \/ CustomerStep
  \/ \E o \in Operators : OperatorStep(o)
  \/ \E c \in Consumers :
       PollStep(c) \/ PollFails(c) \/ ConsumerStep(c) \/ ConsumerFault(c)

Spec == Init /\ [][Next]_vars

(* The poll timer and the broker's deliveries keep every process going; no   *)
(* person is fair: dead letters may wait for ever.                         *)
Fairness ==
  \A c \in Consumers : WF_vars(PollStep(c)) /\ WF_vars(ConsumerStep(c))

FairSpec == Spec /\ Fairness

-----------------------------------------------------------------------------
Processed(t) == webhook[t] # NoEvent /\ webhook[t].processed

(* A message marked as published is in the queue, in a handler or done: no  *)
(* accepted transfer is forgotten between the outbox and the consumer       *)
(* (OutboxPublisherService.poll, handleConsumedMessage).                   *)
PublishedIsInFlight ==
  \A t \in Transfers :
    message[t].status = "PUBLISHED" =>
      \/ queue[t] > 0
      \/ Processed(t)
      \/ \E c \in Consumers : Handling(c) /\ session[c].transfer = t

(* Without a fault a message is on its way at most once, whichever process  *)
(* polls (FOR UPDATE SKIP LOCKED); every further copy is paid by a fault.   *)
(* This is for one operator: each further one that decides on a dead letter *)
(* from an outdated reading may add a copy.                                *)
Handlers(t) ==
  {c \in Consumers : Unacknowledged(c) /\ session[c].transfer = t}

CopiesNeedFaults ==
  \A t \in Transfers : queue[t] + Cardinality(Handlers(t)) <= 1 + faults

(* What is left of a transfer that the pipeline does not settle by itself.  *)
Parked(t) == message[t].status \in {"DLQ", "discarded"}

NobodyConsumes == \A c \in Consumers : ~subscribed[c]

(* An accepted transfer is reconciled, unless its message became a dead     *)
(* letter or every process lost its subscription.                          *)
TransferSettles ==
  \A t \in Transfers :
    webhook[t] # NoEvent ~>
      (Processed(t) \/ Parked(t) \/ NobodyConsumes)

(* What the queue's document promises of an interrupted delivery: it is     *)
(* delivered again.  RabbitMqClient forgets a lost connection so that a     *)
(* later publication opens a new one; SePayReconciliationConsumer calls     *)
(* consume once, when its module starts.                                   *)
InterruptedDeliveryIsRepeated ==
  \A t \in Transfers : queue[t] > 0 ~> Processed(t)
=============================================================================
