----------------------- MODULE PaymentPipeline_proofs ------------------------
(***************************************************************************)
(* The payment pipeline for any number of API processes, operators and      *)
(* transfers: it implements Billing, so every property proved of Billing    *)
(* holds of it, no published message is lost, and none is sent twice        *)
(* without a fault as long as operators replay what still is a dead letter. *)
(***************************************************************************)
EXTENDS PaymentPipeline, Billing_proofs

-----------------------------------------------------------------------------
Reported(t) == webhook[t] # NoEvent

InFlight(t) ==
  queue[t] > 0 \/ Processed(t) \/ \E c \in Consumers : c \in Handlers(t)

MessageInv(t) ==
  /\ message[t].status # "absent" \/ queue[t] > 0 => Reported(t)
  /\ message[t].status = "PUBLISHED" => InFlight(t)

(* A row of a batch is still due, and no other poll holds it.              *)
BatchInv(c) ==
  \A t \in Transfers : batch[c][t] # "out" =>
    /\ message[t].status \in {"PENDING", "FAILED"}
    /\ batch[c][t] = "sent" => InFlight(t)
    /\ \A d \in Consumers : batch[d][t] # "out" => c = d

OperatorInv(o) ==
  operator[o] # Undecided => Reported(operator[o].on)

HandlerInv(c) ==
  /\ session[c].phase = "idle" => session[c] = IdleSession
  /\ session[c].phase = "processed" => Processed(session[c].transfer)

OutboxInv ==
  /\ \A t \in Transfers : MessageInv(t)
  /\ \A c \in Consumers : BatchInv(c)
  /\ \A o \in Operators : OperatorInv(o)

PipelineInv ==
  /\ IInv
  /\ TypeOK
  /\ OutboxInv
  /\ \A c \in Consumers : HandlerInv(c)

-----------------------------------------------------------------------------
LEMMA PipelineInit == Init => PipelineInv
<1> SUFFICES ASSUME Init PROVE PipelineInv
  OBVIOUS
<1>1. IInv /\ BillingTypeOK
  BY Initially DEF Init, IInv
<1>2. OutboxTypeOK
  BY PipelineAssumption
  DEF Init, OutboxInit, OutboxTypeOK, MessageRow, Statuses, Fates, Decisions,
      Undecided
<1>3. TypeOK
  BY <1>1, <1>2, PipelineAssumption DEF TypeOK, Init
<1>4. OutboxInv
  BY DEF OutboxInv, MessageInv, BatchInv, OperatorInv, Init, OutboxInit
<1>5. \A c \in Consumers : HandlerInv(c)
  BY DEF Init, BillingInit, HandlerInv, IdleSession, Sessions
<1> QED
  BY <1>1, <1>3, <1>4, <1>5 DEF PipelineInv

-----------------------------------------------------------------------------
(* A consumer's transaction keeps the message it handles.                  *)
LEMMA TransactionHandles ==
  ASSUME BillingTypeOK, NEW c \in Consumers, ConsumerTransaction(c),
         ConsumerInv(c)
  PROVE  /\ session'[c].phase \notin {"idle"}
         /\ session[c].phase # "idle"
         /\ session'[c].transfer = session[c].transfer
         /\ session'[c].phase = "processed" => webhook'[session[c].transfer].processed
         /\ \A x \in Sessions \ {c} : session'[x] = session[x]
         /\ \A t \in Transfers :
              /\ Reported(t) => Reported(t)'
              /\ Processed(t) => Processed(t)'
<1>1. c \in Sessions /\ session \in [Sessions -> Session]
  BY DEF Sessions, BillingTypeOK
<1>2. webhook \in [Transfers -> Event \cup {NoEvent}]
  BY DEF BillingTypeOK
<1>3. ASSUME NEW p, p # "idle", p # "processed", session[c].phase # "idle",
             Commits(c, p), UNCHANGED webhook
      PROVE  /\ session'[c].phase # "idle" /\ session'[c].phase # "processed"
             /\ session[c].phase # "idle"
             /\ session'[c].transfer = session[c].transfer
             /\ \A x \in Sessions \ {c} : session'[x] = session[x]
  BY <1>1, <1>3 DEF Commits, IdleSession
<1>4. ASSUME UNCHANGED webhook
      PROVE  \A t \in Transfers :
               /\ Reported(t) => Reported(t)'
               /\ Processed(t) => Processed(t)'
  BY <1>4 DEF Reported, Processed
<1>5. CASE BeginReconcile(c)
  <2>1. session[c].phase # "idle" /\ UNCHANGED webhook
    BY <1>5 DEF BeginReconcile
  <2>2. CASE Commits(c, "recorded")
    BY <1>3, <1>4, <2>1, <2>2
  <2>3. CASE \E o \in Orders : session' =
               [session EXCEPT ![c].phase = "reconciling",
                               ![c].order = o,
                               ![c].status = Target(o, webhook[session[c].transfer].kind.amount),
                               ![c].account = Owner[o]]
    BY <1>1, <1>4, <2>1, <2>3 DEF Session
  <2> QED
    BY <1>5, <2>2, <2>3, Zenon DEF BeginReconcile
<1>6. CASE MoveOrder(c)
  BY <1>1, <1>3, <1>4, <1>6 DEF MoveOrder
<1>7. CASE ClaimByTransfer(c)
  BY <1>1, <1>3, <1>4, <1>7 DEF ClaimByTransfer, ClaimOrder, Session
<1>8. CASE CommitTransfer(c)
  BY <1>1, <1>3, <1>4, <1>8 DEF CommitTransfer
<1>9. CASE MarkProcessed(c)
  <2> DEFINE t == session[c].transfer
  <2>1. t \in Transfers /\ webhook[t] \in Event /\ session[c].phase # "idle"
    BY <1>9 DEF ConsumerInv, MarkProcessed, Markable
  <2>2. /\ session'[c].phase = "processed"
        /\ session'[c].transfer = t
        /\ \A x \in Sessions \ {c} : session'[x] = session[x]
    BY <1>1, <1>9 DEF MarkProcessed, Goes, Session
  <2>3. /\ webhook'[t].processed
        /\ webhook'[t].accepted
        /\ \A x \in Transfers \ {t} : webhook'[x] = webhook[x]
    BY <1>2, <1>9, <2>1 DEF MarkProcessed, Event
  <2>4. \A x \in Transfers :
          (Reported(x) => Reported(x)') /\ (Processed(x) => Processed(x)')
    BY <2>3 DEF Reported, Processed, NoEvent
  <2> QED
    BY <2>1, <2>2, <2>3, <2>4
<1> QED
  BY <1>5, <1>6, <1>7, <1>8, <1>9 DEF ConsumerTransaction

(* What the invariant gives of one consumer.                               *)
LEMMA ConsumerFacts ==
  ASSUME PipelineInv, NEW c \in Consumers
  PROVE  /\ c \in Sessions
         /\ BillingTypeOK /\ session \in [Sessions -> Session]
         /\ ConsumerInv(c) /\ HandlerInv(c)
         /\ Handling(c) => session[c].transfer \in Transfers
                           /\ Reported(session[c].transfer)
<1>1. c \in Sessions
  BY DEF Sessions
<1>2. BillingTypeOK /\ session \in [Sessions -> Session] /\ ConsumerInv(c)
  BY <1>1 DEF PipelineInv, IInv, BillingTypeOK, SessionInv
<1> QED
  BY <1>1, <1>2, EventIsNotNone DEF PipelineInv, ConsumerInv, Handling, Reported

(* The process's transactions end, nothing else of Billing changes.        *)
LEMMA RollBackFrees ==
  ASSUME PipelineInv, NEW c \in Consumers, RollBack(c)
  PROVE  /\ session'[c] = IdleSession
         /\ \A x \in Sessions \ {c} : session'[x] = session[x]
         /\ UNCHANGED webhook
         /\ [BillingNext]_billingVars
<1>1. /\ session'[c] = IdleSession
      /\ \A x \in Sessions \ {c} : session'[x] = session[x]
      /\ UNCHANGED webhook
  BY ConsumerFacts DEF RollBack, EndSession
<1>2. CASE session[c].phase = "idle"
  <2>1. session[c] = IdleSession
    BY <1>2 DEF PipelineInv, HandlerInv
  <2>2. session' = session
    BY <2>1, ConsumerFacts DEF RollBack, EndSession
  <2> QED
    BY <1>1, <2>2 DEF RollBack, billingVars
<1>3. CASE session[c].phase # "idle"
  BY <1>1, <1>3, ConsumerFacts DEF BillingNext
<1> QED
  BY <1>2, <1>3

LEMMA BillingStep == PipelineInv /\ [Next]_vars => [BillingNext]_billingVars
<1> SUFFICES ASSUME PipelineInv, [Next]_vars PROVE [BillingNext]_billingVars
  OBVIOUS
<1>1. ASSUME NEW t \in Transfers, Accept(t) PROVE BillingNext
  BY <1>1 DEF Accept, BillingNext
<1>2. CASE CustomerStep
  BY <1>2 DEF CustomerStep, BillingNext, CustomerTransaction
<1>3. ASSUME NEW o \in Operators, OperatorStep(o) PROVE UNCHANGED billingVars
  BY <1>3 DEF OperatorStep
<1>4. ASSUME NEW c \in Consumers, PollStep(c) \/ PollFails(c)
      PROVE  UNCHANGED billingVars
  BY <1>4 DEF PollStep, PollFails
<1>5. ASSUME NEW c \in Consumers, ConsumerStep(c) PROVE [BillingNext]_billingVars
  <2>1. CASE Deliver(c)
    <3>1. PICK t \in Transfers : queue[t] > 0 /\ Receive(c, t)
      BY <2>1 DEF Deliver
    <3>2. webhook[t] # NoEvent
      BY <3>1 DEF PipelineInv, OutboxInv, MessageInv, Reported
    <3> QED
      BY <3>1, <3>2 DEF BillingNext
  <2>2. CASE HandlerStep(c)
    BY <2>2 DEF HandlerStep, BillingNext
  <2>3. CASE Acknowledge(c)
    BY <2>3, RollBackFrees DEF Acknowledge, Restarts
  <2> QED
    BY <1>5, <2>1, <2>2, <2>3 DEF ConsumerStep
<1>6. ASSUME NEW c \in Consumers, ConsumerFault(c) PROVE [BillingNext]_billingVars
  BY <1>6, RollBackFrees
  DEF ConsumerFault, HandlerErrs, Crash, Restarts, LoseConnection
<1>7. ASSUME Unreported # {} /\ Accept(CHOOSE t \in Unreported : TRUE)
      PROVE  BillingNext
  <2>1. (CHOOSE t \in Unreported : TRUE) \in Transfers
    BY <1>7 DEF Unreported
  <2> QED
    BY <1>1, <1>7, <2>1
<1>8. UNCHANGED vars => UNCHANGED billingVars
  BY DEF vars
<1> QED
  BY <1>2, <1>3, <1>4, <1>5, <1>6, <1>7, <1>8 DEF Next

-----------------------------------------------------------------------------
(* What has been reported stays reported, and what is in flight stays so    *)
(* until it is processed: only its handler takes a message off the queue,   *)
(* and whoever loses its handler puts it back.                             *)
Kept(t) ==
  /\ Reported(t) => Reported(t)'
  /\ InFlight(t) => InFlight(t)'

LEMMA KeptIfQueued ==
  ASSUME NEW t \in Transfers, queue \in [Transfers -> Nat],
         queue' \in [Transfers -> Nat], queue'[t] >= queue[t],
         UNCHANGED <<webhook, session, subscribed>>
  PROVE  Kept(t)
<1>1. queue[t] > 0 => queue'[t] > 0
  OBVIOUS
<1>2. UNCHANGED <<Processed(t), Handlers(t), Reported(t)>>
  BY DEF Processed, Handlers, Unacknowledged, Handling, Reported
<1> QED
  BY <1>1, <1>2 DEF Kept, InFlight

(* A process that no longer handles its message as the broker sees it.     *)
LEMMA KeptIfRequeued ==
  ASSUME PipelineInv, NEW c \in Consumers, UNCHANGED webhook,
         \/ queue' = Requeued(c)
         \/ queue' = queue /\ Processed(session[c].transfer)
         \/ queue' = queue /\ ~Unacknowledged(c),
         \A d \in Consumers \ {c} :
           session'[d] = session[d] /\ subscribed'[d] = subscribed[d]
  PROVE  /\ \A t \in Transfers : Kept(t)
         /\ queue' \in [Transfers -> Nat]
         /\ \A t \in Transfers :
              queue'[t] > 0 => queue[t] > 0 \/ Reported(t)
<1>1. queue \in [Transfers -> Nat]
  BY DEF PipelineInv, TypeOK, OutboxTypeOK
<1>2. Unacknowledged(c) =>
        session[c].transfer \in Transfers /\ Reported(session[c].transfer)
  BY ConsumerFacts DEF Unacknowledged
<1>3. /\ queue' \in [Transfers -> Nat]
      /\ \A t \in Transfers : queue[t] > 0 => queue'[t] > 0
      /\ \A t \in Transfers : queue'[t] > 0 => queue[t] > 0 \/ Reported(t)
  BY <1>1, <1>2 DEF Requeued
<1>4. ASSUME NEW t \in Transfers, c \in Handlers(t)
      PROVE  queue'[t] > 0 \/ Processed(t)'
  BY <1>1, <1>2, <1>4 DEF Handlers, Requeued, Processed
<1>5. ASSUME NEW t \in Transfers, NEW d \in Consumers \ {c}, d \in Handlers(t)
      PROVE  d \in Handlers(t)'
  BY <1>5 DEF Handlers, Unacknowledged, Handling
<1>6. ASSUME NEW t \in Transfers
      PROVE  (Processed(t) => Processed(t)') /\ (Reported(t) => Reported(t)')
  BY DEF Processed, Reported
<1> QED
  BY <1>3, <1>4, <1>5, <1>6 DEF Kept, InFlight

LEMMA TransactionKeeps ==
  ASSUME PipelineInv, NEW c \in Consumers, ConsumerTransaction(c),
         UNCHANGED <<queue, subscribed>>
  PROVE  /\ \A t \in Transfers : Kept(t)
         /\ \A d \in Consumers : HandlerInv(d)'
<1>1. /\ session'[c].phase # "idle"
      /\ session[c].phase # "idle"
      /\ session'[c].transfer = session[c].transfer
      /\ session'[c].phase = "processed" => webhook'[session[c].transfer].processed
      /\ \A x \in Sessions \ {c} : session'[x] = session[x]
      /\ \A t \in Transfers :
           (Reported(t) => Reported(t)') /\ (Processed(t) => Processed(t)')
  BY ConsumerFacts, TransactionHandles
<1>2. \A t \in Transfers : \A d \in Consumers : d \in Handlers(t) => d \in Handlers(t)'
  BY <1>1, ConsumerFacts DEF Handlers, Unacknowledged, Handling
<1>3. \A t \in Transfers : Kept(t)
  BY <1>1, <1>2 DEF Kept, InFlight
<1>4. HandlerInv(c)'
  <2>1. session[c].transfer \in Transfers /\ Reported(session[c].transfer)
    BY <1>1, ConsumerFacts DEF Handling
  <2> QED
    BY <1>1, <2>1 DEF HandlerInv, Processed, Reported
<1>5. ASSUME NEW d \in Consumers \ {c} PROVE HandlerInv(d)'
  <2>1. session'[d] = session[d] /\ HandlerInv(d)
    BY <1>1, ConsumerFacts
  <2>2. session[d].phase = "processed" => session[d].transfer \in Transfers
    BY ConsumerFacts DEF Handling
  <2> QED
    BY <1>1, <2>1, <2>2 DEF HandlerInv
<1> QED
  BY <1>3, <1>4, <1>5

(* A handler's state depends on nothing but its session and its transfer.   *)
LEMMA HandlersKept ==
  ASSUME PipelineInv,
         \A t \in Transfers : Processed(t) => Processed(t)',
         \A c \in Consumers :
           \/ session'[c] = session[c]
           \/ session'[c] = IdleSession
           \/ session'[c].phase = "delivered"
  PROVE  \A c \in Consumers : HandlerInv(c)'
<1> SUFFICES ASSUME NEW c \in Consumers PROVE HandlerInv(c)'
  OBVIOUS
<1>1. HandlerInv(c) /\ (session[c].phase = "processed" =>
                          session[c].transfer \in Transfers)
  BY ConsumerFacts DEF Handling
<1> QED
  BY <1>1 DEF HandlerInv, IdleSession

(* A step that leaves the rows alone, or empties a batch.                  *)
LEMMA RowsAlone ==
  ASSUME PipelineInv, UNCHANGED <<message, operator>>,
         \/ UNCHANGED batch
         \/ \E c \in Consumers : EndPoll(c),
         \A t \in Transfers : Kept(t),
         queue' \in [Transfers -> Nat],
         \A t \in Transfers : queue'[t] > 0 => queue[t] > 0 \/ Reported(t)
  PROVE  OutboxTypeOK' /\ OutboxInv'
<1>1. OutboxTypeOK /\ OutboxInv
  BY DEF PipelineInv, TypeOK
<1>2. /\ batch' \in [Consumers -> [Transfers -> Fates]]
      /\ \A c \in Consumers : \A t \in Transfers :
           batch'[c][t] = batch[c][t] \/ batch'[c][t] = "out"
  BY <1>1 DEF OutboxTypeOK, EndPoll, Fates
<1>3. OutboxTypeOK'
  BY <1>1, <1>2 DEF OutboxTypeOK
<1>4. ASSUME NEW t \in Transfers PROVE MessageInv(t)'
  BY <1>1 DEF OutboxInv, MessageInv, Kept
<1>5. ASSUME NEW c \in Consumers PROVE BatchInv(c)'
  BY <1>1, <1>2 DEF OutboxInv, BatchInv, Kept
<1>6. ASSUME NEW o \in Operators PROVE OperatorInv(o)'
  BY <1>1 DEF OutboxInv, OutboxTypeOK, OperatorInv, Decisions, Undecided, Kept
<1> QED
  BY <1>3, <1>4, <1>5, <1>6 DEF OutboxInv

-----------------------------------------------------------------------------
(* The steps of the outbox.                                                *)
LEMMA EnqueueKeeps ==
  ASSUME PipelineInv, NEW t \in Transfers, Enqueue(t), Reported(t)',
         \A x \in Transfers : Kept(x),
         UNCHANGED <<batch, queue, operator>>
  PROVE  OutboxTypeOK' /\ OutboxInv'
<1>1. OutboxTypeOK /\ OutboxInv
  BY DEF PipelineInv, TypeOK
<1>2. \A x \in Transfers : Cardinality({n \in Transfers : message[n].status # "absent"}) \in Nat
  BY PipelineAssumption, FS_Subset, FS_CardinalityType
<1>3. /\ message' \in [Transfers -> MessageRow]
      /\ \A x \in Transfers \ {t} : message'[x] = message[x]
      /\ \/ message'[t] = message[t]
         \/ /\ message[t].status \in {"absent", "discarded"}
            /\ message'[t].status = "PENDING"
  BY <1>1, <1>2, PipelineAssumption
  DEF OutboxTypeOK, Enqueue, MessageRow, Statuses
<1>4. OutboxTypeOK'
  BY <1>1, <1>3 DEF OutboxTypeOK
<1>5. ASSUME NEW x \in Transfers PROVE MessageInv(x)'
  BY <1>1, <1>3 DEF OutboxInv, MessageInv, Kept
<1>6. ASSUME NEW c \in Consumers PROVE BatchInv(c)'
  BY <1>1, <1>3 DEF OutboxInv, BatchInv, Kept
<1>7. ASSUME NEW o \in Operators PROVE OperatorInv(o)'
  BY <1>1 DEF OutboxInv, OutboxTypeOK, OperatorInv, Decisions, Undecided, Kept
<1> QED
  BY <1>4, <1>5, <1>6, <1>7 DEF OutboxInv

LEMMA OperatorKeeps ==
  ASSUME PipelineInv, NEW o \in Operators, OperatorStep(o)
  PROVE  OutboxTypeOK' /\ OutboxInv'
<1>1. OutboxTypeOK /\ OutboxInv
  BY DEF PipelineInv, TypeOK
<1>2. UNCHANGED <<webhook, session, subscribed, queue, batch>>
  BY DEF OperatorStep, ReadDeadLetter, ReplayDeadLetter, DiscardDeadLetter,
         billingVars
<1>3. \A t \in Transfers : Kept(t)
  BY <1>1, <1>2, KeptIfQueued DEF OutboxTypeOK
<1>4. \A t \in Transfers : UNCHANGED <<Reported(t), InFlight(t)>>
  BY <1>2 DEF Reported, InFlight, Processed, Handlers, Unacknowledged, Handling
<1>5. /\ operator' \in [Operators -> Decisions]
      /\ \A x \in Operators : OperatorInv(x)'
  <2>1. ASSUME NEW t \in Transfers, NEW decision \in {"replay", "discard"},
               ReadDeadLetter(o, t, decision)
        PROVE  <1>5!1 /\ <1>5!2
    <3>1. Reported(t)
      BY <1>1, <2>1 DEF OutboxInv, MessageInv, ReadDeadLetter
    <3> QED
      BY <1>1, <1>4, <2>1, <3>1
      DEF OutboxInv, OutboxTypeOK, OperatorInv, ReadDeadLetter, Decisions, Undecided
  <2>2. ASSUME operator' = [operator EXCEPT ![o] = Undecided]
        PROVE  <1>5!1 /\ <1>5!2
    BY <1>1, <1>4, <2>2
    DEF OutboxInv, OutboxTypeOK, OperatorInv, Decisions, Undecided
  <2> QED
    BY <2>1, <2>2 DEF OperatorStep, ReplayDeadLetter, DiscardDeadLetter
<1>6. /\ message' \in [Transfers -> MessageRow]
      /\ \A t \in Transfers :
           \/ message'[t] = message[t]
           \/ /\ \A c \in Consumers : batch[c][t] = "out"
              /\ message'[t].status \in {"PENDING", "discarded"}
              /\ Reported(t)
  <2> DEFINE t == operator[o].on
  <2>1. ASSUME operator[o].does \in {"replay", "discard"}
        PROVE  t \in Transfers /\ Reported(t)
    BY <1>1, <2>1
    DEF OutboxInv, OutboxTypeOK, OperatorInv, Decisions, Undecided
  <2>2. CASE ReplayDeadLetter(o)
    BY <1>1, <2>1, <2>2, PipelineAssumption
    DEF ReplayDeadLetter, OutboxTypeOK, MessageRow, Statuses, Locked
  <2>3. CASE DiscardDeadLetter(o)
    BY <1>1, <2>1, <2>3
    DEF DiscardDeadLetter, OutboxTypeOK, MessageRow, Statuses, Locked
  <2>4. CASE UNCHANGED message
    BY <1>1, <2>4 DEF OutboxTypeOK
  <2> QED
    BY <2>2, <2>3, <2>4 DEF OperatorStep, ReadDeadLetter
<1>7. OutboxTypeOK'
  BY <1>1, <1>2, <1>5, <1>6 DEF OutboxTypeOK
<1>8. ASSUME NEW t \in Transfers PROVE MessageInv(t)'
  BY <1>1, <1>2, <1>4, <1>6 DEF OutboxInv, MessageInv
<1>9. ASSUME NEW c \in Consumers PROVE BatchInv(c)'
  BY <1>1, <1>2, <1>4, <1>6 DEF OutboxInv, BatchInv
<1> QED
  BY <1>5, <1>7, <1>8, <1>9 DEF OutboxInv

LEMMA PollKeeps ==
  ASSUME PipelineInv, NEW c \in Consumers, Poll(c), UNCHANGED billingVars,
         UNCHANGED subscribed
  PROVE  OutboxTypeOK' /\ OutboxInv'
<1>1. OutboxTypeOK /\ OutboxInv
  BY DEF PipelineInv, TypeOK
<1>2. \A t \in Transfers : UNCHANGED <<Reported(t), InFlight(t)>>
  BY DEF Poll, billingVars, Reported, InFlight, Processed, Handlers,
         Unacknowledged, Handling
<1>3. /\ batch' \in [Consumers -> [Transfers -> Fates]]
      /\ \A d \in Consumers \ {c} : batch'[d] = batch[d]
      /\ \A t \in Transfers :
           batch'[c][t] = "out" \/ (t \in Eligible /\ batch'[c][t] = "todo")
  <2>1. PICK due \in SUBSET Eligible :
          batch' = [batch EXCEPT
                      ![c] = [m \in Transfers |->
                                IF m \in Oldest(due) THEN "todo" ELSE "out"]]
    BY DEF Poll
  <2>2. Oldest(due) \subseteq Eligible
    BY DEF Oldest
  <2> QED
    BY <1>1, <2>1, <2>2 DEF OutboxTypeOK, Fates
<1>4. OutboxTypeOK'
  BY <1>1, <1>3 DEF OutboxTypeOK, Poll
<1>5. ASSUME NEW t \in Transfers PROVE MessageInv(t)'
  BY <1>1, <1>2 DEF OutboxInv, MessageInv, Poll
<1>6. ASSUME NEW d \in Consumers PROVE BatchInv(d)'
  <2>1. UNCHANGED message
    BY DEF Poll
  <2>2. \A t \in Eligible : message[t].status \in {"PENDING", "FAILED"}
                           /\ \A x \in Consumers : batch[x][t] = "out"
    BY DEF Eligible, Locked
  <2> QED
    BY <1>1, <1>2, <1>3, <2>1, <2>2 DEF OutboxInv, BatchInv
<1>7. ASSUME NEW o \in Operators PROVE OperatorInv(o)'
  BY <1>1, <1>2 DEF OutboxInv, OutboxTypeOK, OperatorInv, Decisions, Undecided, Poll
<1> QED
  BY <1>4, <1>5, <1>6, <1>7 DEF OutboxInv

LEMMA PublishKeeps ==
  ASSUME PipelineInv, NEW c \in Consumers,
         NEW outcome \in {"confirmed", "unconfirmed", "refused"},
         Publish(c, outcome), UNCHANGED billingVars, UNCHANGED subscribed
  PROVE  OutboxTypeOK' /\ OutboxInv' /\ \A t \in Transfers : Kept(t)
<1>1. OutboxTypeOK /\ OutboxInv
  BY DEF PipelineInv, TypeOK
<1>2. PICK m \in Todo(c) :
        /\ batch' = [batch EXCEPT
                       ![c][m] = IF outcome = "confirmed" THEN "sent" ELSE "failed"]
        /\ queue' = IF outcome = "refused" THEN queue
                                           ELSE [queue EXCEPT ![m] = @ + 1]
  BY DEF Publish
<1>3. m \in Transfers /\ batch[c][m] = "todo"
  BY DEF Todo
<1>4. /\ queue' \in [Transfers -> Nat]
      /\ \A t \in Transfers : queue'[t] >= queue[t]
      /\ \A t \in Transfers \ {m} : queue'[t] = queue[t]
      /\ outcome = "confirmed" => queue'[m] > 0
  BY <1>1, <1>2, <1>3 DEF OutboxTypeOK
<1>5. \A t \in Transfers : Kept(t)
  BY <1>1, <1>4, KeptIfQueued DEF OutboxTypeOK, billingVars
<1>6. /\ batch' \in [Consumers -> [Transfers -> Fates]]
      /\ batch'[c][m] \in {"sent", "failed"}
      /\ batch'[c][m] = "sent" => outcome = "confirmed"
      /\ \A d \in Consumers : \A t \in Transfers :
           d # c \/ t # m => batch'[d][t] = batch[d][t]
  BY <1>1, <1>2, <1>3 DEF OutboxTypeOK, Fates
<1>7. Reported(m)
  BY <1>1, <1>3 DEF OutboxInv, BatchInv, MessageInv
<1>8. OutboxTypeOK'
  BY <1>1, <1>4, <1>6 DEF OutboxTypeOK, Publish
<1>9. ASSUME NEW t \in Transfers PROVE MessageInv(t)'
  BY <1>1, <1>4, <1>5, <1>7 DEF OutboxInv, MessageInv, Kept, Publish
<1>10. ASSUME NEW d \in Consumers PROVE BatchInv(d)'
  <2>1. UNCHANGED message
    BY DEF Publish
  <2>2. outcome = "confirmed" => InFlight(m)'
    BY <1>4 DEF InFlight
  <2>3. ASSUME NEW t \in Transfers, batch'[d][t] # "out"
        PROVE  batch[d][t] # "out"
    BY <1>3, <1>6, <2>3
  <2>4. \A t \in Transfers : \A x \in Consumers :
          batch'[x][t] # "out" => batch[x][t] # "out"
    BY <1>3, <1>6
  <2>5. ASSUME NEW t \in Transfers, batch'[d][t] # "out"
        PROVE  /\ message'[t].status \in {"PENDING", "FAILED"}
               /\ \A x \in Consumers : batch'[x][t] # "out" => d = x
    BY <1>1, <2>1, <2>3, <2>4, <2>5 DEF OutboxInv, BatchInv
  <2>6. ASSUME NEW t \in Transfers, batch'[d][t] = "sent"
        PROVE  InFlight(t)'
    <3>1. CASE d = c /\ t = m
      BY <1>6, <2>2, <2>6, <3>1
    <3>2. CASE d # c \/ t # m
      <4>1. batch[d][t] = "sent"
        BY <1>6, <2>6, <3>2
      <4> QED
        BY <1>1, <1>5, <4>1 DEF OutboxInv, BatchInv, Kept
    <3> QED
      BY <3>1, <3>2
  <2> QED
    BY <2>5, <2>6 DEF BatchInv
<1>11. ASSUME NEW o \in Operators PROVE OperatorInv(o)'
  BY <1>1, <1>5
  DEF OutboxInv, OutboxTypeOK, OperatorInv, Decisions, Undecided, Kept, Publish
<1> QED
  BY <1>5, <1>8, <1>9, <1>10, <1>11 DEF OutboxInv

LEMMA CommitPollKeeps ==
  ASSUME PipelineInv, NEW c \in Consumers, CommitPoll(c), UNCHANGED billingVars,
         UNCHANGED subscribed
  PROVE  OutboxTypeOK' /\ OutboxInv'
<1>1. OutboxTypeOK /\ OutboxInv
  BY DEF PipelineInv, TypeOK
<1>2. \A t \in Transfers : UNCHANGED <<Reported(t), InFlight(t)>>
  BY DEF CommitPoll, billingVars, Reported, InFlight, Processed, Handlers,
         Unacknowledged, Handling
<1>3. /\ batch' \in [Consumers -> [Transfers -> Fates]]
      /\ \A t \in Transfers : batch'[c][t] = "out"
      /\ \A d \in Consumers \ {c} : batch'[d] = batch[d]
  BY <1>1 DEF CommitPoll, EndPoll, OutboxTypeOK, Fates
<1>4. ASSUME NEW t \in Transfers
      PROVE  /\ message'[t] \in MessageRow
             /\ batch[c][t] = "out" => message'[t] = message[t]
             /\ message'[t].status = "absent" => message[t].status = "absent"
             /\ message'[t].status = "PUBLISHED" =>
                  message[t].status = "PUBLISHED" \/ batch[c][t] = "sent"
  <2>1. /\ message'[t] = Relayed(message[t], batch[c][t])
        /\ message[t] \in MessageRow
        /\ batch[c][t] \in Fates
        /\ batch[c][t] # "out" => message[t].status \in {"PENDING", "FAILED"}
    BY <1>1 DEF CommitPoll, OutboxTypeOK, OutboxInv, BatchInv
  <2>2. CASE batch[c][t] = "failed"
    <3>1. message'[t] =
            [message[t] EXCEPT
               !.status = IF message[t].attempts + 1 >= MaxAttempts
                          THEN "DLQ" ELSE "FAILED",
               !.attempts = message[t].attempts + 1]
      BY <2>1, <2>2 DEF Relayed
    <3>2. /\ message[t].attempts \in Nat
          /\ message[t].attempts < MaxAttempts
          /\ message[t].createdAt \in Nat
      BY <2>1, <2>2 DEF MessageRow
    <3> DEFINE row == message'[t]
    <3>3. /\ row = [status |-> row.status, attempts |-> row.attempts,
                    createdAt |-> row.createdAt]
          /\ row.attempts = message[t].attempts + 1
          /\ row.createdAt = message[t].createdAt
          /\ row.status = IF message[t].attempts + 1 >= MaxAttempts
                          THEN "DLQ" ELSE "FAILED"
      BY <2>1, <3>1 DEF MessageRow
    <3>4. /\ row.attempts \in 0..MaxAttempts
          /\ row.status \in {"DLQ", "FAILED"}
          /\ row.status = "FAILED" => row.attempts < MaxAttempts
          /\ row.status = "DLQ" => row.attempts = MaxAttempts
      BY <3>2, <3>3, PipelineAssumption
    <3>5. row \in [status : Statuses, attempts : 0..MaxAttempts, createdAt : Nat]
      BY <3>2, <3>3, <3>4 DEF Statuses
    <3>6. row \in MessageRow
      BY <3>4, <3>5 DEF MessageRow
    <3> QED
      BY <2>2, <3>4, <3>6
  <2>3. CASE batch[c][t] = "sent"
    BY <2>1, <2>3, PipelineAssumption DEF Relayed, MessageRow, Statuses
  <2>4. CASE batch[c][t] \in {"out", "todo"}
    BY <2>1, <2>4 DEF Relayed
  <2> QED
    BY <2>1, <2>2, <2>3, <2>4 DEF Fates
<1>5. OutboxTypeOK'
  BY <1>1, <1>3, <1>4 DEF OutboxTypeOK, CommitPoll
<1>6. ASSUME NEW t \in Transfers PROVE MessageInv(t)'
  BY <1>1, <1>2, <1>4 DEF OutboxInv, MessageInv, BatchInv, CommitPoll
<1>7. ASSUME NEW d \in Consumers PROVE BatchInv(d)'
  <2>1. ASSUME NEW t \in Transfers, batch'[d][t] # "out"
        PROVE  d # c /\ batch'[d][t] = batch[d][t] /\ batch[c][t] = "out"
    BY <1>1, <1>3, <2>1 DEF OutboxInv, BatchInv
  <2>2. ASSUME NEW t \in Transfers, NEW x \in Consumers, batch'[x][t] # "out"
        PROVE  batch[x][t] # "out"
    BY <1>3, <2>2
  <2> QED
    BY <1>1, <1>2, <1>4, <2>1, <2>2 DEF OutboxInv, BatchInv
<1>8. ASSUME NEW o \in Operators PROVE OperatorInv(o)'
  BY <1>1, <1>2
  DEF OutboxInv, OutboxTypeOK, OperatorInv, Decisions, Undecided, CommitPoll
<1> QED
  BY <1>5, <1>6, <1>7, <1>8 DEF OutboxInv

-----------------------------------------------------------------------------
LEMMA PipelineStep == PipelineInv /\ [Next]_vars => PipelineInv'
<1> SUFFICES ASSUME PipelineInv, [Next]_vars PROVE PipelineInv'
  OBVIOUS
<1>1. IInv' /\ BillingTypeOK'
  BY BillingStep, InvariantStep DEF PipelineInv, IInv
<1>2. /\ OutboxTypeOK
      /\ queue \in [Transfers -> Nat]
      /\ subscribed \in [Consumers -> BOOLEAN]
      /\ faults \in 0..MaxFaults
  BY DEF PipelineInv, TypeOK, OutboxTypeOK
<1> DEFINE Good == /\ OutboxTypeOK' /\ OutboxInv'
                   /\ \A c \in Consumers : HandlerInv(c)'
                   /\ subscribed' \in [Consumers -> BOOLEAN]
                   /\ faults' \in 0..MaxFaults
<1>3. Fault => faults' \in 0..MaxFaults
  BY <1>2, PipelineAssumption DEF Fault
<1>4. ASSUME UNCHANGED <<queue, webhook, session, subscribed>>
      PROVE  \A t \in Transfers : Kept(t)
  BY <1>2, <1>4, KeptIfQueued
<1>5. ASSUME UNCHANGED <<webhook, session>>
      PROVE  \A c \in Consumers : HandlerInv(c)'
  BY <1>5, HandlersKept DEF Processed
<1>6. ASSUME NEW t \in Transfers, Accept(t), webhook[t] = NoEvent PROVE Good
  <2>1. /\ webhook'[t] # NoEvent
        /\ \A x \in Transfers \ {t} : webhook'[x] = webhook[x]
        /\ UNCHANGED <<session, queue, subscribed, batch, operator, faults>>
    BY <1>6 DEF Accept, AcceptWebhook, NoEvent, PipelineInv, TypeOK, BillingTypeOK
  <2>2. \A x \in Transfers : /\ Processed(x) => Processed(x)'
                             /\ Reported(x) => Reported(x)'
    BY <1>6, <2>1 DEF Processed, Reported
  <2>3. \A x \in Transfers : Kept(x)
    BY <2>1, <2>2 DEF Kept, InFlight, Handlers, Unacknowledged, Handling
  <2>4. OutboxTypeOK' /\ OutboxInv'
    BY <1>6, <2>1, <2>3, EnqueueKeeps DEF Accept, Reported
  <2>5. \A c \in Consumers : HandlerInv(c)'
    BY <2>1, <2>2, HandlersKept
  <2> QED
    BY <1>2, <2>1, <2>4, <2>5
<1>7. ASSUME CustomerStep \/ UNCHANGED vars PROVE Good
  <2>1. UNCHANGED <<webhook, session, queue, subscribed, batch, operator, faults,
                    message>>
    BY <1>7 DEF CustomerStep, CreateOrder, pipelineVars, vars, billingVars
  <2> QED
    BY <1>2, <1>4, <1>5, <2>1, RowsAlone
<1>8. ASSUME NEW o \in Operators, OperatorStep(o) PROVE Good
  <2>1. UNCHANGED <<webhook, session, subscribed, faults>>
    BY <1>8 DEF OperatorStep, billingVars
  <2> QED
    BY <1>2, <1>5, <1>8, <2>1, OperatorKeeps
<1>9. ASSUME NEW c \in Consumers, PollStep(c) \/ PollFails(c) PROVE Good
  <2>1. /\ UNCHANGED billingVars
        /\ UNCHANGED subscribed
        /\ UNCHANGED <<webhook, session>>
        /\ faults' \in 0..MaxFaults
    BY <1>2, <1>3, <1>9 DEF PollStep, PollFails, billingVars
  <2>2. CASE RollBackPoll(c)
    BY <1>2, <1>4, <1>5, <2>1, <2>2, RowsAlone DEF RollBackPoll
  <2> QED
    BY <1>2, <1>5, <1>9, <2>1, <2>2, PollKeeps, PublishKeeps, CommitPollKeeps
    DEF PollStep, PollFails
<1>10. ASSUME NEW c \in Consumers, Deliver(c) PROVE Good
  <2>1. PICK t \in Transfers :
          /\ queue[t] > 0
          /\ queue' = [queue EXCEPT ![t] = @ - 1]
          /\ Receive(c, t)
    BY <1>10 DEF Deliver
  <2>2. /\ session'[c].phase = "delivered" /\ session'[c].transfer = t
        /\ \A x \in Sessions \ {c} : session'[x] = session[x]
        /\ session[c].phase = "idle"
        /\ UNCHANGED <<webhook, message, batch, operator, subscribed, faults>>
        /\ subscribed[c]
    BY <1>10, <2>1, ConsumerFacts DEF Deliver, Receive, Session
  <2>3. /\ queue' \in [Transfers -> Nat]
        /\ \A x \in Transfers : queue'[x] > 0 => queue[x] > 0
        /\ \A x \in Transfers \ {t} : queue'[x] = queue[x]
    BY <1>2, <2>1
  <2>4. \A x \in Transfers : \A d \in Consumers :
          d \in Handlers(x) => d \in Handlers(x)'
    BY <2>2, ConsumerFacts DEF Handlers, Unacknowledged, Handling
  <2>5. c \in Handlers(t)'
    BY <2>2 DEF Handlers, Unacknowledged, Handling
  <2>6. \A x \in Transfers : Kept(x)
    BY <2>2, <2>3, <2>4, <2>5 DEF Kept, InFlight, Processed, Reported
  <2>7. \A d \in Consumers : HandlerInv(d)'
    BY <2>2, HandlersKept, ConsumerFacts DEF Processed
  <2> QED
    BY <1>2, <2>2, <2>3, <2>6, <2>7, RowsAlone
<1>11. ASSUME NEW c \in Consumers, HandlerStep(c) PROVE Good
  <2>1. ConsumerTransaction(c) /\ UNCHANGED pipelineVars
    BY <1>11 DEF HandlerStep
  <2>2. UNCHANGED <<message, batch, queue, operator, subscribed, faults>>
    BY <2>1 DEF pipelineVars
  <2> QED
    BY <1>2, <2>1, <2>2, TransactionKeeps, RowsAlone
<1>12. ASSUME NEW c \in Consumers, RollBack(c),
              \/ queue' = Requeued(c)
              \/ queue' = queue /\ session[c].phase = "processed",
              UNCHANGED batch \/ EndPoll(c),
              UNCHANGED <<message, operator>>,
              UNCHANGED subscribed \/
                subscribed' = [subscribed EXCEPT ![c] = TRUE],
              UNCHANGED faults \/ Fault
       PROVE  Good
  <2>1. /\ session'[c] = IdleSession
        /\ \A x \in Sessions \ {c} : session'[x] = session[x]
        /\ UNCHANGED webhook
    BY <1>12, RollBackFrees
  <2>2. /\ subscribed' \in [Consumers -> BOOLEAN]
        /\ \A d \in Consumers \ {c} : subscribed'[d] = subscribed[d]
    BY <1>2, <1>12
  <2>3. \A d \in Consumers \ {c} : session'[d] = session[d]
    BY <2>1, ConsumerFacts
  <2>4. session[c].phase = "processed" => Processed(session[c].transfer)
    BY ConsumerFacts DEF HandlerInv
  <2>5. /\ \A t \in Transfers : Kept(t)
        /\ queue' \in [Transfers -> Nat]
        /\ \A t \in Transfers : queue'[t] > 0 => queue[t] > 0 \/ Reported(t)
    BY <1>12, <2>1, <2>2, <2>3, <2>4, KeptIfRequeued
  <2>6. \A d \in Consumers : HandlerInv(d)'
    BY <2>1, <2>3, HandlersKept DEF Processed
  <2> QED
    BY <1>2, <1>3, <1>12, <2>2, <2>5, <2>6, RowsAlone
<1>13. ASSUME NEW c \in Consumers, LoseConnection(c) PROVE Good
  <2>1. /\ queue' = Requeued(c)
        /\ subscribed' \in [Consumers -> BOOLEAN]
        /\ \A d \in Consumers \ {c} : subscribed'[d] = subscribed[d]
        /\ faults' \in 0..MaxFaults
        /\ UNCHANGED <<webhook, session, message, batch, operator>>
    BY <1>2, <1>3, <1>13 DEF LoseConnection, billingVars
  <2>2. /\ \A t \in Transfers : Kept(t)
        /\ queue' \in [Transfers -> Nat]
        /\ \A t \in Transfers : queue'[t] > 0 => queue[t] > 0 \/ Reported(t)
    BY <2>1, KeptIfRequeued
  <2> QED
    BY <1>5, <2>1, <2>2, RowsAlone
<1>14. ASSUME NEW c \in Consumers, ConsumerStep(c) \/ ConsumerFault(c) PROVE Good
  <2>1. CASE Acknowledge(c)
    BY <1>12, <2>1 DEF Acknowledge, Restarts
  <2>2. CASE HandlerErrs(c)
    BY <1>12, <2>2 DEF HandlerErrs
  <2>3. CASE Crash(c)
    BY <1>12, <2>3 DEF Crash, Restarts
  <2> QED
    BY <1>10, <1>11, <1>13, <1>14, <2>1, <2>2, <2>3 DEF ConsumerStep, ConsumerFault
<1>15. ASSUME Unreported # {}, Accept(CHOOSE t \in Unreported : TRUE) PROVE Good
  <2>1. (CHOOSE t \in Unreported : TRUE) \in Unreported
    BY <1>15
  <2> QED
    BY <1>6, <1>15, <2>1 DEF Unreported
<1>16. Good
  BY <1>7, <1>8, <1>9, <1>14, <1>15 DEF Next
<1> QED
  BY <1>1, <1>16 DEF PipelineInv, TypeOK

LEMMA PipelineInvariant == Spec => []PipelineInv
<1>1. PipelineInv /\ [Next]_vars => PipelineInv'
  BY PipelineStep
<1> QED
  BY <1>1, PipelineInit, PTL DEF Spec

-----------------------------------------------------------------------------
(* The rows, queues and decisions of the outbox and the transactions of the *)
(* desk keep their types, with any number of processes and operators.       *)
THEOREM PipelineTypeCorrect == Spec => []TypeOK
<1>1. PipelineInv => TypeOK
  BY DEF PipelineInv
<1> QED
  BY <1>1, PipelineInvariant, PTL

(* A message marked as published is in the queue, in a handler or done,     *)
(* whatever polls overlap, fail, crash or lose their connection             *)
(* (OutboxPublisherService.poll, handleConsumedMessage).                   *)
THEOREM NoPublishedMessageLost == Spec => []PublishedIsInFlight
<1>1. PipelineInv => PublishedIsInFlight
  <2> SUFFICES ASSUME PipelineInv, NEW t \in Transfers,
                      message[t].status = "PUBLISHED"
               PROVE  \/ queue[t] > 0
                      \/ Processed(t)
                      \/ \E c \in Consumers :
                           Handling(c) /\ session[c].transfer = t
    BY DEF PublishedIsInFlight
  <2> QED
    BY DEF PipelineInv, OutboxInv, MessageInv, InFlight, Handlers, Unacknowledged
<1> QED
  BY <1>1, PipelineInvariant, PTL

(* The pipeline implements the desk: behind the outbox and the broker, a    *)
(* delivery that is repeated, interrupted or out of order is one of the     *)
(* deliveries Billing allows.                                              *)
THEOREM PipelineImplementsBilling == Spec => BillingSpec
<1>1. Init => BillingInit
  BY DEF Init
<1>2. PipelineInv /\ [Next]_vars => [BillingNext]_billingVars
  BY BillingStep
<1> QED
  BY <1>1, <1>2, PipelineInvariant, PTL DEF Spec, BillingSpec

(* So no order is credited twice however often its webhook is delivered     *)
(* (ReconcileSepayWebhookHandler, reconcilePayment).                       *)
THEOREM PipelineCreditsOnce == Spec => [](CreditedOnce /\ WalletIsProjection)
BY PipelineImplementsBilling, OrdersCreditedOnce, WalletsAreProjections, PTL

-----------------------------------------------------------------------------
(* Copies of a message.  A replay is fresh when the row is still the dead   *)
(* letter its operator has read: ReplayDeadLetter itself does not look.     *)
FreshReplays ==
  [][\A o \in Operators :
       ReplayDeadLetter(o) => message[operator[o].on].status = "DLQ"]_vars

(* Processes whose lost connection has not yet ended them: each has a       *)
(* second poll to undo at no further fault.                                *)
Unsubscribed == {c \in Consumers : ~subscribed[c]}

Copies(t) == queue[t] + Cardinality(Handlers(t))

Load(t) == Copies(t) + Cardinality(Unsubscribed)

(* A row that will be published (again), or may be.                        *)
Publishable(t) ==
  /\ message[t].status \in {"absent", "PENDING", "FAILED", "DLQ"}
  /\ \A c \in Consumers : batch[c][t] # "sent"

CopyInv(t) ==
  /\ Load(t) <= 1 + faults
  /\ Publishable(t) => Load(t) <= faults

CopiesInv == \A t \in Transfers : CopyInv(t)

-----------------------------------------------------------------------------
(* What is counted here is finite, and so are the counts.                   *)
LEMMA FiniteLoad ==
  ASSUME PipelineInv, NEW t \in Transfers
  PROVE  /\ IsFiniteSet(Handlers(t)) /\ IsFiniteSet(Unsubscribed)
         /\ Cardinality(Handlers(t)) \in Nat /\ Cardinality(Unsubscribed) \in Nat
         /\ queue[t] \in Nat /\ faults \in Nat
<1>1. Handlers(t) \subseteq Consumers /\ Unsubscribed \subseteq Consumers
  BY DEF Handlers, Unsubscribed
<1>2. /\ IsFiniteSet(Handlers(t)) /\ IsFiniteSet(Unsubscribed)
      /\ Cardinality(Handlers(t)) \in Nat /\ Cardinality(Unsubscribed) \in Nat
  BY <1>1, PipelineAssumption, FS_Subset, FS_CardinalityType
<1>3. queue[t] \in Nat /\ faults \in Nat
  BY PipelineAssumption DEF PipelineInv, TypeOK, OutboxTypeOK
<1> QED
  BY <1>2, <1>3

(* The same of the next state.                                             *)
LEMMA FiniteLoadNext ==
  ASSUME PipelineInv', NEW t \in Transfers
  PROVE  /\ Cardinality(Handlers(t)') \in Nat
         /\ Cardinality(Unsubscribed') \in Nat
         /\ queue'[t] \in Nat /\ faults' \in Nat
<1>1. Handlers(t)' \subseteq Consumers /\ Unsubscribed' \subseteq Consumers
  BY DEF Handlers, Unsubscribed
<1>2. /\ Cardinality(Handlers(t)') \in Nat
      /\ Cardinality(Unsubscribed') \in Nat
  BY <1>1, PipelineAssumption, FS_Subset, FS_CardinalityType
<1>3. queue'[t] \in Nat /\ faults' \in Nat
  BY PipelineAssumption DEF PipelineInv, TypeOK, OutboxTypeOK
<1> QED
  BY <1>2, <1>3

(* How many are left without one of them.                                  *)
LEMMA CardinalityWithout ==
  ASSUME NEW S, NEW x, IsFiniteSet(S), Cardinality(S) \in Nat
  PROVE  Cardinality(S \ {x}) = Cardinality(S) - (IF x \in S THEN 1 ELSE 0)
<1>1. Cardinality(S \ {x}) =
        IF x \in S THEN Cardinality(S) - 1 ELSE Cardinality(S)
  BY FS_RemoveElement
<1> QED
  BY <1>1

(* A step that changes neither copies nor faults and makes no row           *)
(* publishable.                                                            *)
LEMMA CopiesAlone ==
  ASSUME PipelineInv, CopiesInv, UNCHANGED <<queue, subscribed, faults>>,
         \A c \in Consumers :
           /\ session'[c].phase = "idle" <=> session[c].phase = "idle"
           /\ session'[c].transfer = session[c].transfer,
         \A t \in Transfers : Publishable(t)' => Publishable(t)
  PROVE  CopiesInv'
<1> SUFFICES ASSUME NEW t \in Transfers PROVE CopyInv(t)'
  BY DEF CopiesInv
<1>1. UNCHANGED <<Handlers(t), Unsubscribed>>
  BY DEF Handlers, Unacknowledged, Handling, Unsubscribed
<1>2. UNCHANGED <<Load(t), faults>>
  BY <1>1 DEF Load, Copies
<1> QED
  BY <1>2 DEF CopiesInv, CopyInv

(* A fault pays for what a lost poll may publish again.                    *)
LEMMA FaultPays ==
  ASSUME PipelineInv, PipelineInv', CopiesInv,
         \A t \in Transfers : Load(t)' + faults + 1 <= Load(t) + faults'
  PROVE  CopiesInv'
<1> SUFFICES ASSUME NEW t \in Transfers PROVE CopyInv(t)'
  BY DEF CopiesInv
<1>1. Load(t) \in Nat /\ Load(t)' \in Nat /\ faults \in Nat /\ faults' \in Nat
  BY FiniteLoad, FiniteLoadNext DEF Load, Copies
<1> QED
  BY <1>1 DEF CopiesInv, CopyInv

-----------------------------------------------------------------------------
(* c's session ends: its unacknowledged message leaves the handlers, and is *)
(* given back or settled.                                                  *)
LEMMA HandlerEnds ==
  ASSUME PipelineInv, PipelineInv', NEW c \in Consumers, RollBack(c),
         queue' = Requeued(c) \/ queue' = queue,
         \A d \in Consumers \ {c} : subscribed'[d] = subscribed[d],
         NEW t \in Transfers
  PROVE  Copies(t)' <= Copies(t)
<1>1. /\ session'[c] = IdleSession
      /\ \A d \in Consumers \ {c} : session'[d] = session[d]
  BY RollBackFrees, ConsumerFacts
<1>2. Handlers(t)' = Handlers(t) \ {c}
  BY <1>1 DEF Handlers, Unacknowledged, Handling, IdleSession
<1>3. queue \in [Transfers -> Nat]
  BY DEF PipelineInv, TypeOK, OutboxTypeOK
<1>4. queue'[t] <= queue[t] + (IF c \in Handlers(t) THEN 1 ELSE 0)
  BY <1>3, ConsumerFacts DEF Requeued, Handlers, Unacknowledged
<1>5. Cardinality(Handlers(t)') =
        Cardinality(Handlers(t)) - (IF c \in Handlers(t) THEN 1 ELSE 0)
  <2>1. Cardinality(Handlers(t) \ {c}) =
          Cardinality(Handlers(t)) - (IF c \in Handlers(t) THEN 1 ELSE 0)
    BY FiniteLoad, CardinalityWithout
  <2> QED
    BY <1>2, <2>1
<1> QED
  BY <1>4, <1>5, FiniteLoad, FiniteLoadNext DEF Copies

(* The process subscribes again, or was subscribed.                        *)
LEMMA Resubscribed ==
  ASSUME PipelineInv, PipelineInv', NEW c \in Consumers,
         subscribed' = [subscribed EXCEPT ![c] = TRUE],
         NEW t \in Transfers
  PROVE  Cardinality(Unsubscribed)' =
           Cardinality(Unsubscribed) - (IF subscribed[c] THEN 0 ELSE 1)
<1>1. subscribed \in [Consumers -> BOOLEAN]
  BY DEF PipelineInv, TypeOK
<1>2. Unsubscribed' = Unsubscribed \ {c}
  BY <1>1 DEF Unsubscribed
<1>3. Cardinality(Unsubscribed \ {c}) =
        Cardinality(Unsubscribed) - (IF c \in Unsubscribed THEN 1 ELSE 0)
  BY FiniteLoad, CardinalityWithout
<1> QED
  BY <1>2, <1>3 DEF Unsubscribed

-----------------------------------------------------------------------------
(* A delivery moves a copy from the queue to its handler.                   *)
LEMMA DeliverCopies ==
  ASSUME PipelineInv, PipelineInv', CopiesInv, NEW c \in Consumers, Deliver(c)
  PROVE  CopiesInv'
<1>1. PICK m \in Transfers :
        /\ queue[m] > 0
        /\ queue' = [queue EXCEPT ![m] = @ - 1]
        /\ Receive(c, m)
  BY DEF Deliver
<1>2. /\ session'[c].phase = "delivered" /\ session'[c].transfer = m
      /\ \A d \in Consumers \ {c} : session'[d] = session[d]
      /\ session[c].phase = "idle"
      /\ subscribed[c]
      /\ UNCHANGED <<message, batch, subscribed, faults>>
  BY <1>1, ConsumerFacts DEF Deliver, Receive, Session
<1>3. queue \in [Transfers -> Nat]
  BY DEF PipelineInv, TypeOK, OutboxTypeOK
<1> SUFFICES ASSUME NEW t \in Transfers PROVE CopyInv(t)'
  BY DEF CopiesInv
<1>4. Copies(t)' = Copies(t)
  <2>1. CASE t = m
    <3>1. /\ Handlers(t)' = Handlers(t) \cup {c} /\ c \notin Handlers(t)
      BY <1>2, <2>1 DEF Handlers, Unacknowledged, Handling
    <3>2. Cardinality(Handlers(t)') = Cardinality(Handlers(t)) + 1
      BY <3>1, FiniteLoad, FiniteLoadNext, FS_AddElement
    <3> QED
      BY <1>1, <1>3, <2>1, <3>2, FiniteLoad, FiniteLoadNext DEF Copies
  <2>2. CASE t # m
    <3>1. Handlers(t)' = Handlers(t)
      BY <1>2, <2>2 DEF Handlers, Unacknowledged, Handling
    <3> QED
      BY <1>1, <1>3, <2>2, <3>1 DEF Copies
  <2> QED
    BY <2>1, <2>2
<1>5. UNCHANGED <<Unsubscribed, faults, Publishable(t)>>
  BY <1>2 DEF Unsubscribed, Publishable
<1> QED
  BY <1>4, <1>5 DEF CopiesInv, CopyInv, Load

(* Only a publishable row is published; the copy that makes it published    *)
(* is its one free copy, any other is paid by the fault that caused it.     *)
LEMMA PublishCopies ==
  ASSUME PipelineInv, PipelineInv', CopiesInv, NEW c \in Consumers,
         NEW outcome \in {"confirmed", "unconfirmed", "refused"},
         Publish(c, outcome), UNCHANGED <<billingVars, subscribed>>,
         faults' = IF outcome = "confirmed" THEN faults ELSE faults + 1
  PROVE  CopiesInv'
<1>1. PICK m \in Todo(c) :
        /\ batch' = [batch EXCEPT
                       ![c][m] = IF outcome = "confirmed" THEN "sent" ELSE "failed"]
        /\ queue' = IF outcome = "refused" THEN queue
                                           ELSE [queue EXCEPT ![m] = @ + 1]
  BY DEF Publish
<1>2. /\ m \in Transfers /\ batch[c][m] = "todo"
      /\ OutboxTypeOK /\ OutboxInv
  BY DEF Todo, PipelineInv, TypeOK
<1>3. UNCHANGED message
  BY DEF Publish
<1>4. \A t \in Transfers : UNCHANGED <<Handlers(t), Unsubscribed>>
  BY DEF Handlers, Unacknowledged, Handling, Unsubscribed, billingVars
<1>5. \A t \in Transfers \ {m} : Publishable(t)' => Publishable(t)
  BY <1>1, <1>2, <1>3 DEF Publishable, OutboxTypeOK
<1>6. Publishable(m)
  BY <1>2 DEF OutboxInv, BatchInv, Publishable
<1>7. outcome = "confirmed" => ~Publishable(m)'
  BY <1>1, <1>2 DEF Publishable, OutboxTypeOK
<1>8. \A t \in Transfers : queue'[t] <= queue[t] + (IF t = m THEN 1 ELSE 0)
  BY <1>1, <1>2 DEF OutboxTypeOK
<1> SUFFICES ASSUME NEW t \in Transfers PROVE CopyInv(t)'
  BY DEF CopiesInv
<1>9. /\ Load(t)' <= Load(t) + (IF t = m THEN 1 ELSE 0)
      /\ Load(t) \in Nat /\ Load(t)' \in Nat /\ faults \in Nat
  BY <1>4, <1>8, FiniteLoad, FiniteLoadNext DEF Load, Copies
<1>10. CopyInv(t)
  BY DEF CopiesInv
<1>11. CASE t = m
  BY <1>6, <1>7, <1>9, <1>10, <1>11 DEF CopyInv
<1>12. CASE t # m
  BY <1>5, <1>9, <1>10, <1>12 DEF CopyInv
<1> QED
  BY <1>11, <1>12

(* The commit settles a published row, and no other becomes publishable.    *)
LEMMA CommitPollCopies ==
  ASSUME PipelineInv, CopiesInv, NEW c \in Consumers, CommitPoll(c),
         UNCHANGED <<billingVars, subscribed, faults>>
  PROVE  CopiesInv'
<1>1. OutboxTypeOK /\ OutboxInv
  BY DEF PipelineInv, TypeOK
<1>2. UNCHANGED <<session, queue>>
  BY DEF CommitPoll, billingVars
<1>3. ASSUME NEW t \in Transfers, Publishable(t)' PROVE Publishable(t)
  <2>1. /\ message'[t] = Relayed(message[t], batch[c][t])
        /\ message[t] \in MessageRow
        /\ batch[c][t] \in Fates
        /\ \A d \in Consumers \ {c} : batch'[d] = batch[d]
    BY <1>1 DEF CommitPoll, EndPoll, OutboxTypeOK
  <2>2. batch[c][t] # "sent"
    BY <1>3, <2>1 DEF Relayed, Publishable, MessageRow
  <2>3. \A d \in Consumers : batch[d][t] # "sent"
    BY <1>3, <2>1, <2>2 DEF Publishable
  <2>4. message[t].status \in {"absent", "PENDING", "FAILED", "DLQ"}
    <3>1. CASE batch[c][t] = "failed"
      BY <1>1, <3>1 DEF OutboxInv, BatchInv
    <3>2. CASE batch[c][t] \in {"out", "todo"}
      BY <1>3, <2>1, <3>2 DEF Relayed, Publishable
    <3> QED
      BY <2>1, <2>2, <3>1, <3>2 DEF Fates
  <2> QED
    BY <2>3, <2>4 DEF Publishable
<1> QED
  BY <1>2, <1>3, CopiesAlone

(* An operator whose reading still stands only moves a dead letter, which   *)
(* could be published again before.                                        *)
LEMMA OperatorCopies ==
  ASSUME PipelineInv, CopiesInv, NEW o \in Operators, OperatorStep(o),
         ReplayDeadLetter(o) => message[operator[o].on].status = "DLQ"
  PROVE  CopiesInv'
<1>1. OutboxTypeOK /\ OutboxInv
  BY DEF PipelineInv, TypeOK
<1>2. UNCHANGED <<session, queue, batch, subscribed, faults>>
  BY DEF OperatorStep, ReadDeadLetter, ReplayDeadLetter, DiscardDeadLetter,
         billingVars
<1>3. ASSUME NEW t \in Transfers
      PROVE  \/ message'[t].status = message[t].status
             \/ message'[t].status = "discarded"
             \/ message[t].status = "DLQ"
  <2>1. ASSUME operator[o].does \in {"replay", "discard"}
        PROVE  operator[o].on \in Transfers
    BY <1>1, <2>1 DEF OutboxTypeOK, Decisions
  <2>2. CASE ReplayDeadLetter(o)
    BY <1>1, <2>1, <2>2 DEF ReplayDeadLetter, OutboxTypeOK, MessageRow
  <2>3. CASE DiscardDeadLetter(o)
    BY <1>1, <2>1, <2>3 DEF DiscardDeadLetter, OutboxTypeOK, MessageRow
  <2>4. CASE UNCHANGED message
    BY <2>4
  <2> QED
    BY <2>2, <2>3, <2>4 DEF OperatorStep, ReadDeadLetter
<1>4. \A t \in Transfers : Publishable(t)' => Publishable(t)
  BY <1>2, <1>3 DEF Publishable
<1> QED
  BY <1>2, <1>4, CopiesAlone

-----------------------------------------------------------------------------
(* What ends a handler or a process: an error, a crash, a lost connection,  *)
(* the acknowledgement.                                                    *)
LEMMA FaultCopies ==
  ASSUME PipelineInv, PipelineInv', CopiesInv, NEW c \in Consumers,
         ConsumerFault(c)
  PROVE  CopiesInv'
<1>1. faults' = faults + 1
  BY DEF ConsumerFault, HandlerErrs, Crash, LoseConnection, Fault
<1>2. CASE HandlerErrs(c)
  <2>1. \A t \in Transfers : Load(t)' <= Load(t)
    <3> SUFFICES ASSUME NEW t \in Transfers PROVE Load(t)' <= Load(t)
      OBVIOUS
    <3>1. Unsubscribed' = Unsubscribed /\ Copies(t)' <= Copies(t)
      BY <1>2, HandlerEnds DEF HandlerErrs, Unsubscribed
    <3> QED
      BY <3>1, FiniteLoad, FiniteLoadNext DEF Load, Copies
  <2> QED
    BY <1>1, <2>1, FaultPays, FiniteLoad, FiniteLoadNext DEF Load, Copies
<1>3. CASE Crash(c)
  <2>1. \A t \in Transfers : Load(t)' <= Load(t)
    <3> SUFFICES ASSUME NEW t \in Transfers PROVE Load(t)' <= Load(t)
      OBVIOUS
    <3>1. subscribed' = [subscribed EXCEPT ![c] = TRUE]
      BY <1>3 DEF Crash, Restarts
    <3>2. Copies(t)' <= Copies(t)
      BY <1>3, <3>1, HandlerEnds DEF Crash, Restarts, PipelineInv, TypeOK
    <3>3. Cardinality(Unsubscribed)' <= Cardinality(Unsubscribed)
      <4>1. Cardinality(Unsubscribed)' =
              Cardinality(Unsubscribed) - (IF subscribed[c] THEN 0 ELSE 1)
        BY <3>1, Resubscribed
      <4> QED
        BY <4>1, FiniteLoad
    <3> QED
      BY <3>2, <3>3, FiniteLoad, FiniteLoadNext DEF Load, Copies
  <2> QED
    BY <1>1, <2>1, FaultPays, FiniteLoad, FiniteLoadNext DEF Load, Copies
<1>4. CASE LoseConnection(c)
  <2>1. /\ subscribed[c]
        /\ subscribed' = [subscribed EXCEPT ![c] = FALSE]
        /\ subscribed \in [Consumers -> BOOLEAN]
        /\ queue' = Requeued(c)
        /\ queue \in [Transfers -> Nat]
        /\ UNCHANGED <<session, message, batch>>
    BY <1>4 DEF LoseConnection, billingVars, PipelineInv, TypeOK, OutboxTypeOK
  <2>2. Unsubscribed' = Unsubscribed \cup {c} /\ c \notin Unsubscribed
    BY <2>1 DEF Unsubscribed
  <2> SUFFICES ASSUME NEW t \in Transfers PROVE CopyInv(t)'
    BY DEF CopiesInv
  <2>3. Cardinality(Unsubscribed)' = Cardinality(Unsubscribed) + 1
    BY <2>2, FiniteLoad, FiniteLoadNext, FS_AddElement
  <2>4. Handlers(t)' = Handlers(t) \ {c}
    BY <2>1 DEF Handlers, Unacknowledged, Handling
  <2>5. Cardinality(Handlers(t)') =
          Cardinality(Handlers(t)) - (IF c \in Handlers(t) THEN 1 ELSE 0)
    <3>1. Cardinality(Handlers(t) \ {c}) =
            Cardinality(Handlers(t)) - (IF c \in Handlers(t) THEN 1 ELSE 0)
      BY FiniteLoad, CardinalityWithout
    <3> QED
      BY <2>4, <3>1
  <2>6. queue'[t] = queue[t] + (IF c \in Handlers(t) THEN 1 ELSE 0)
    BY <2>1, ConsumerFacts DEF Requeued, Handlers, Unacknowledged
  <2>7. Load(t)' = Load(t) + 1
    BY <2>3, <2>5, <2>6, FiniteLoad, FiniteLoadNext DEF Load, Copies
  <2>8. Publishable(t)' => Publishable(t)
    BY <2>1 DEF Publishable
  <2> QED
    BY <1>1, <2>7, <2>8, FiniteLoad, FiniteLoadNext DEF CopiesInv, CopyInv, Load, Copies
<1> QED
  BY <1>2, <1>3, <1>4 DEF ConsumerFault

(* An acknowledgement takes a copy away; without its connection the process *)
(* ends instead, and its open poll is paid by having been counted.          *)
LEMMA AcknowledgeCopies ==
  ASSUME PipelineInv, PipelineInv', CopiesInv, NEW c \in Consumers,
         Acknowledge(c)
  PROVE  CopiesInv'
<1>1. UNCHANGED faults /\ RollBack(c) /\ queue' = queue
  BY DEF Acknowledge, Restarts
<1>2. CASE subscribed[c]
  <2>1. UNCHANGED <<message, batch, subscribed>>
    BY <1>2 DEF Acknowledge
  <2> SUFFICES ASSUME NEW t \in Transfers PROVE CopyInv(t)'
    BY DEF CopiesInv
  <2>2. Copies(t)' <= Copies(t) /\ Unsubscribed' = Unsubscribed
    BY <1>1, <2>1, HandlerEnds DEF Unsubscribed
  <2>3. Publishable(t)' = Publishable(t)
    BY <2>1 DEF Publishable
  <2> QED
    BY <1>1, <2>2, <2>3, FiniteLoad, FiniteLoadNext DEF CopiesInv, CopyInv, Load, Copies
<1>3. CASE ~subscribed[c]
  <2>1. subscribed' = [subscribed EXCEPT ![c] = TRUE]
    BY <1>3 DEF Acknowledge, Restarts
  <2>2. \A t \in Transfers : Load(t)' + 1 <= Load(t)
    <3> SUFFICES ASSUME NEW t \in Transfers PROVE Load(t)' + 1 <= Load(t)
      OBVIOUS
    <3>1. Copies(t)' <= Copies(t)
      BY <1>1, <2>1, HandlerEnds DEF PipelineInv, TypeOK
    <3>2. Cardinality(Unsubscribed)' = Cardinality(Unsubscribed) - 1
      BY <1>3, <2>1, Resubscribed
    <3> QED
      BY <3>1, <3>2, FiniteLoad, FiniteLoadNext DEF Load, Copies
  <2> QED
    BY <1>1, <2>2, FaultPays, FiniteLoad, FiniteLoadNext DEF Load, Copies
<1> QED
  BY <1>2, <1>3

-----------------------------------------------------------------------------
(* At the start nothing is on its way.                                     *)
LEMMA CopiesInit == Init => CopiesInv
<1> SUFFICES ASSUME Init, NEW t \in Transfers PROVE CopyInv(t)
  BY DEF CopiesInv
<1>1. Handlers(t) = {} /\ Unsubscribed = {}
  BY DEF Init, BillingInit, Handlers, Unacknowledged, Handling, Sessions,
     IdleSession, Unsubscribed
<1> QED
  BY <1>1, FS_EmptySet DEF Init, OutboxInit, CopyInv, Load, Copies

(* No step makes a copy nobody paid for, if replays are fresh.              *)
LEMMA CopiesStep ==
  ASSUME PipelineInv, PipelineInv', CopiesInv, [Next]_vars,
         \A o \in Operators :
           ReplayDeadLetter(o) => message[operator[o].on].status = "DLQ"
  PROVE  CopiesInv'
<1>1. OutboxTypeOK /\ OutboxInv
  BY DEF PipelineInv, TypeOK
<1>2. CASE CustomerStep \/ UNCHANGED vars
  <2>1. UNCHANGED <<session, queue, subscribed, batch, message, faults>>
    BY <1>2 DEF CustomerStep, CreateOrder, pipelineVars, vars, billingVars
  <2> QED
    BY <2>1, CopiesAlone DEF Publishable
<1>3. ASSUME NEW t \in Transfers, Accept(t), webhook[t] = NoEvent
      PROVE  CopiesInv'
  <2>1. UNCHANGED <<session, queue, subscribed, batch, faults>>
    BY <1>3 DEF Accept, AcceptWebhook
  <2>2. message[t].status = "absent"
    BY <1>1, <1>3 DEF OutboxInv, MessageInv, Reported
  <2>3. /\ \A x \in Transfers \ {t} : message'[x] = message[x]
        /\ \A c \in Consumers : batch[c][t] = "out"
    BY <1>1, <1>3, <2>2 DEF Accept, Enqueue, OutboxTypeOK, OutboxInv, BatchInv
  <2>4. \A x \in Transfers : Publishable(x)' => Publishable(x)
    BY <2>1, <2>2, <2>3 DEF Publishable
  <2> QED
    BY <2>1, <2>4, CopiesAlone
<1>4. ASSUME NEW o \in Operators, OperatorStep(o) PROVE CopiesInv'
  BY <1>4, OperatorCopies
<1>5. ASSUME NEW c \in Consumers, PollStep(c) PROVE CopiesInv'
  <2>1. UNCHANGED <<billingVars, subscribed, faults>>
    BY <1>5 DEF PollStep
  <2>2. CASE Poll(c)
    <3>1. UNCHANGED <<session, queue, message>>
      BY <2>1, <2>2 DEF Poll, billingVars
    <3>2. ASSUME NEW t \in Transfers, Publishable(t)' PROVE Publishable(t)
      <4>1. batch[c][t] = "out" /\ \A d \in Consumers \ {c} : batch'[d] = batch[d]
        BY <1>1, <2>2 DEF Poll, Polling, OutboxTypeOK
      <4> QED
        BY <3>1, <3>2, <4>1 DEF Publishable
    <3> QED
      BY <2>1, <3>1, <3>2, CopiesAlone
  <2>3. CASE Publish(c, "confirmed")
    BY <2>1, <2>3, PublishCopies
  <2>4. CASE CommitPoll(c)
    BY <2>1, <2>4, CommitPollCopies
  <2> QED
    BY <1>5, <2>2, <2>3, <2>4 DEF PollStep
<1>6. ASSUME NEW c \in Consumers, PollFails(c) PROVE CopiesInv'
  <2>1. UNCHANGED <<billingVars, subscribed>> /\ faults' = faults + 1
    BY <1>6 DEF PollFails, Fault
  <2>2. CASE Publish(c, "unconfirmed") \/ Publish(c, "refused")
    BY <2>1, <2>2, PublishCopies
  <2>3. CASE RollBackPoll(c)
    <3>1. \A t \in Transfers : Load(t)' = Load(t)
      BY <2>1, <2>3 DEF RollBackPoll, Load, Copies, Handlers, Unacknowledged,
         Handling, Unsubscribed, billingVars
    <3> QED
      BY <2>1, <3>1, FaultPays, FiniteLoad, FiniteLoadNext DEF Load, Copies
  <2> QED
    BY <1>6, <2>2, <2>3 DEF PollFails
<1>7. ASSUME NEW c \in Consumers, HandlerStep(c) PROVE CopiesInv'
  <2>1. ConsumerTransaction(c) /\ UNCHANGED pipelineVars
    BY <1>7 DEF HandlerStep
  <2>2. /\ session'[c].phase # "idle"
        /\ session[c].phase # "idle"
        /\ session'[c].transfer = session[c].transfer
        /\ \A x \in Sessions \ {c} : session'[x] = session[x]
    BY <2>1, ConsumerFacts, TransactionHandles
  <2>3. UNCHANGED <<queue, subscribed, faults, message, batch>>
    BY <2>1 DEF pipelineVars
  <2> QED
    BY <2>2, <2>3, CopiesAlone, ConsumerFacts DEF Publishable
<1>8. ASSUME Unreported # {}, Accept(CHOOSE t \in Unreported : TRUE)
      PROVE  CopiesInv'
  <2>1. (CHOOSE t \in Unreported : TRUE) \in Unreported
    BY <1>8
  <2> QED
    BY <1>3, <1>8, <2>1 DEF Unreported
<1> QED
  BY <1>2, <1>4, <1>5, <1>6, <1>7, <1>8, DeliverCopies, AcknowledgeCopies,
     FaultCopies
  DEF Next, ConsumerStep

(* However many processes poll and consume, a message is on its way at most *)
(* once, and every further copy is paid by a fault, as long as operators    *)
(* replay what still is a dead letter.                                     *)
THEOREM FreshReplaysCopyNothing == Spec /\ FreshReplays => []CopiesNeedFaults
<1>1. ASSUME PipelineInv, PipelineInv', CopiesInv, [Next]_vars,
             [\A o \in Operators :
                ReplayDeadLetter(o) => message[operator[o].on].status = "DLQ"]_vars
      PROVE  CopiesInv'
  <2>1. CASE UNCHANGED vars
    <3>1. UNCHANGED <<session, queue, subscribed, batch, message, faults>>
      BY <2>1 DEF vars, billingVars, pipelineVars
    <3> QED
      BY <1>1, <3>1, CopiesAlone DEF Publishable
  <2> QED
    BY <1>1, <2>1, CopiesStep
<1>2. PipelineInv /\ CopiesInv => CopiesNeedFaults
  BY FiniteLoad, FiniteLoadNext DEF CopiesInv, CopyInv, CopiesNeedFaults, Load, Copies
<1> QED
  BY <1>1, <1>2, CopiesInit, PipelineInvariant, PTL DEF Spec, FreshReplays

(* One operator never decides from an outdated reading: between the reading *)
(* and the decision nothing else moves a dead letter.                      *)
ReadingStands ==
  \A o \in Operators :
    operator[o] # Undecided => message[operator[o].on].status = "DLQ"

(* Between the one operator's reading and decision the dead letter stays.   *)
LEMMA ReadingStandsStep ==
  ASSUME \A o, p \in Operators : o = p,
         PipelineInv, ReadingStands, [Next]_vars
  PROVE  ReadingStands'
<1>1. OutboxTypeOK /\ OutboxInv
  BY DEF PipelineInv, TypeOK
<1> SUFFICES ASSUME NEW o \in Operators, operator'[o] # Undecided
             PROVE  message'[operator'[o].on].status = "DLQ"
  BY DEF ReadingStands
<1>2. ASSUME operator'[o] = operator[o]
      PROVE  /\ operator[o].on \in Transfers
             /\ message[operator[o].on].status = "DLQ"
             /\ Reported(operator[o].on)
             /\ \A c \in Consumers : batch[c][operator[o].on] = "out"
  BY <1>1, <1>2
  DEF ReadingStands, OutboxTypeOK, Decisions, Undecided, OutboxInv,
      OperatorInv, BatchInv
<1>3. CASE UNCHANGED <<message, operator>>
  BY <1>2, <1>3
<1>4. CASE OperatorStep(o)
  <2>1. ~ReplayDeadLetter(o) /\ ~DiscardDeadLetter(o)
    BY <1>1 DEF ReplayDeadLetter, DiscardDeadLetter, OutboxTypeOK
  <2>2. PICK t \in Transfers, decision \in {"replay", "discard"} :
          ReadDeadLetter(o, t, decision)
    BY <1>4, <2>1 DEF OperatorStep
  <2> QED
    BY <1>1, <2>2 DEF ReadDeadLetter, OutboxTypeOK
<1>5. ASSUME NEW t \in Transfers, Accept(t), webhook[t] = NoEvent
      PROVE  message'[operator'[o].on].status = "DLQ"
  <2>1. UNCHANGED operator /\ ~Reported(t)
    BY <1>5 DEF Accept, Reported
  <2>2. operator[o].on # t
    BY <1>2, <2>1
  <2> QED
    BY <1>1, <1>2, <1>5, <2>1, <2>2 DEF Accept, Enqueue, OutboxTypeOK
<1>6. ASSUME NEW c \in Consumers, CommitPoll(c)
      PROVE  message'[operator'[o].on].status = "DLQ"
  BY <1>2, <1>6 DEF CommitPoll, Relayed
<1>7. CASE Unreported # {} /\ Accept(CHOOSE t \in Unreported : TRUE)
  <2>1. (CHOOSE t \in Unreported : TRUE) \in Unreported
    BY <1>7
  <2> QED
    BY <1>5, <1>7, <2>1 DEF Unreported
<1>8. ASSUME NEW c \in Consumers,
             PollStep(c) \/ PollFails(c) \/ ConsumerStep(c) \/ ConsumerFault(c)
      PROVE  UNCHANGED <<message, operator>> \/ CommitPoll(c)
  BY <1>8
  DEF PollStep, Poll, Publish, PollFails, RollBackPoll, ConsumerStep, Deliver,
      HandlerStep, Acknowledge, Restarts, ConsumerFault, HandlerErrs, Crash,
      LoseConnection, pipelineVars
<1>9. CASE CustomerStep \/ UNCHANGED vars
  BY <1>3, <1>9 DEF CustomerStep, vars, pipelineVars
<1> QED
  BY <1>3, <1>4, <1>6, <1>7, <1>8, <1>9 DEF Next

(* So with one operator every further copy of a message is paid by a fault. *)
THEOREM OneOperatorCopiesNothing ==
  ASSUME \A o, p \in Operators : o = p
  PROVE  Spec => []CopiesNeedFaults
<1>1. Init => ReadingStands
  BY DEF Init, OutboxInit, ReadingStands
<1>2. PipelineInv /\ ReadingStands /\ [Next]_vars => ReadingStands'
  BY ReadingStandsStep
<1>3. PipelineInv /\ ReadingStands =>
        \A o \in Operators :
          ReplayDeadLetter(o) => message[operator[o].on].status = "DLQ"
  BY DEF ReadingStands, ReplayDeadLetter, Undecided
<1>4. PipelineInv /\ ReadingStands =>
        [\A o \in Operators :
           ReplayDeadLetter(o) => message[operator[o].on].status = "DLQ"]_vars
  BY <1>3
<1>5. Spec => FreshReplays
  BY <1>1, <1>2, <1>4, PipelineInvariant, PTL DEF Spec, FreshReplays
<1> QED
  BY <1>5, FreshReplaysCopyNothing, PTL
=============================================================================
