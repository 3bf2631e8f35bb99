------------------------------ MODULE Billing -------------------------------
(***************************************************************************)
(* Prepaid billing: orders, the bank transfers SePay reports, the payments  *)
(* they become, the credit ledger, the wallet that caches its sum, and the  *)
(* credit still held by old reservations.                                  *)
(*                                                                         *)
(* Every operation is a database transaction that starts with an advisory   *)
(* lock.  The lock is the account of the order's owner, except where an     *)
(* operator settles a transfer without an owner: that transaction holds     *)
(* only a lock named after the payment, so the wallet's version and the     *)
(* order's row are what keep it apart from the others.  A transaction that  *)
(* credits an order is therefore two steps: it claims the row of the order  *)
(* and reads the wallet, and it commits if the wallet is still the one read.*)
(***************************************************************************)
EXTENDS Integers, FiniteSets, FiniteSetsExt

CONSTANTS
  None,
  Users, Orders, Transfers, Holds,
  Owner,          \* the user of an order
  Price,          \* the amount an order asks for
  Credits,        \* the credit an order buys
  Tenant,         \* the owner of the assessment and of its holds
  Held,           \* the credit a reservation holds
  Opening,        \* per user: what the ledger sums to at the start
  TransferKinds,  \* what a webhook can report
  Consumers,      \* API processes that consume accepted webhooks
  Admins,         \* administrators who resolve or reject payments
  Deleters,       \* requests that delete the assessment
  MaxRejections   \* bound on the rejections of one payment

ASSUME BillingAssumption ==
  /\ Owner \in [Orders -> Users]
  /\ Price \in [Orders -> Nat]
  /\ Credits \in [Orders -> Nat]
  /\ Tenant \in Users
  /\ Held \in [Holds -> Nat]
  /\ Opening \in [Users -> Nat]
  /\ TransferKinds \subseteq [codes : SUBSET Orders, amount : Nat,
                              direction : {"IN", "OUT", "UNKNOWN"}]
  /\ None \notin Users \cup Orders \cup Transfers \cup Holds
  /\ Consumers \cap Admins = {}
  /\ Consumers \cap Deleters = {}
  /\ Admins \cap Deleters = {}
  /\ MaxRejections \in Nat
  /\ IsFiniteSet(Orders)
  /\ IsFiniteSet(Holds)

VARIABLES
  order,      \* BillingOrder
  webhook,    \* SePayWebhookEvent
  payment,    \* PaymentTransaction, one per provider transaction
  ledger,     \* orders with a CreditLedgerEntry (unique by idempotency key)
  hold,       \* BillingReservation
  wallet,     \* BillingWallet
  assessment, \* whether the assessment exists
  session     \* what each transaction in progress has locked and read

billingVars ==
  <<order, webhook, payment, ledger, hold, wallet, assessment, session>>

Sessions == Consumers \cup Admins \cup Deleters

OrderStatuses ==
  {"none", "PENDING_PAYMENT", "PENDING_RECONCILIATION", "EXPIRED", "CREDITED"}

PaymentStatuses ==
  {"none", "MATCHED", "UNMATCHED", "AMOUNT_MISMATCH", "DUPLICATE", "REJECTED",
   "NEEDS_REVIEW"}

(* No event, or what the event reports and whether it was processed.        *)
NoEvent == [accepted |-> FALSE]
Event == [accepted : {TRUE}, kind : TransferKinds, processed : BOOLEAN]

Payment ==
  [status : PaymentStatuses, order : Orders \cup {None},
   user : Users \cup {None}, version : Nat]

NoPayment == [status |-> "none", order |-> None, user |-> None, version |-> 0]

(* calculateBillingProjection: the ledger's sum less what is still held.    *)
CreditSum(orders) == MapThenSumSet(LAMBDA o : Credits[o], orders)

LedgerSum(u, entries) ==
  Opening[u] + CreditSum({o \in entries : Owner[o] = u})

HoldSum(holds) == MapThenSumSet(LAMBDA h : Held[h], holds)

HeldSum(u, reserved) == IF u = Tenant THEN HoldSum(reserved) ELSE 0

Projection(u, entries, reserved) ==
  [available |-> LedgerSum(u, entries) - HeldSum(u, reserved),
   reserved  |-> HeldSum(u, reserved)]

(* The balances a ledger and a set of reservations may have.               *)
NoBalances == [available |-> 0, reserved |-> 0]

Balances ==
  {NoBalances} \cup {Projection(u, entries, reserved) :
                       u \in Users, entries \in SUBSET Orders,
                       reserved \in SUBSET Holds}

(* Phases.  Consumer: "delivered", "reconciling" (locks held, about to      *)
(* change the order), "crediting", "recorded", "processed".  Administrator: *)
(* "deciding" (has read the payment), "resolving", "crediting".  Deletion:  *)
(* "deleting", "releasing".                                                *)
Session ==
  [phase : {"idle", "delivered", "reconciling", "crediting", "recorded",
            "processed", "deciding", "resolving", "deleting", "releasing"},
   transfer : Transfers \cup {None},
   order : Orders \cup {None},
   status : OrderStatuses,         \* the order's: read, or to be reached
   hold : Holds \cup {None},       \* the reservation being released
   account : Users \cup {None},    \* the advisory lock of an account it holds
   read : Payment,                 \* the payment an administrator has read
   version : Nat,                  \* the wallet's version read
   projection : Balances,          \* the balances it is going to write
   holds : SUBSET Holds]           \* reservations still to release

IdleSession ==
  [phase |-> "idle", transfer |-> None, order |-> None, status |-> "none",
   hold |-> None, account |-> None, read |-> NoPayment, version |-> 0,
   projection |-> NoBalances, holds |-> {}]

BillingTypeOK ==
  /\ order \in [Orders -> [status : OrderStatuses, overdue : BOOLEAN]]
  /\ webhook \in [Transfers -> Event \cup {NoEvent}]
  /\ payment \in [Transfers -> Payment]
  /\ ledger \subseteq Orders
  /\ hold \in [Holds -> [status : {"RESERVED", "RELEASED"}, linked : BOOLEAN]]
  /\ wallet \in [Users -> [balances : Balances, version : Nat]]
  /\ assessment \in {"present", "deleted"}
  /\ session \in [Sessions -> Session]

Reserved == {h \in Holds : hold[h].status = "RESERVED"}

BillingInit ==
  /\ order = [o \in Orders |-> [status |-> "none", overdue |-> FALSE]]
  /\ webhook = [t \in Transfers |-> NoEvent]
  /\ payment = [t \in Transfers |-> NoPayment]
  /\ ledger = {}
  /\ hold = [h \in Holds |-> [status |-> "RESERVED", linked |-> TRUE]]
  /\ wallet = [u \in Users |-> [balances |-> Projection(u, {}, Holds),
                                version |-> 0]]
  /\ assessment = "present"
  /\ session = [s \in Sessions |-> IdleSession]

-----------------------------------------------------------------------------
(* Locks.                                                                  *)
AccountFree(u) == \A s \in Sessions : session[s].account # u

(* Faulty: nothing but the account's lock keeps two claims apart.          *)
RowUnguarded(o) == TRUE

(* The row of an order is held by the transaction that claimed it.         *)
RowFree(o) ==
  \A s \in Sessions : session[s].phase = "crediting" => session[s].order # o

(* `payment:provider:transaction`, held while a consumer reconciles.       *)
TransferFree(t) ==
  \A s \in Consumers :
    session[s].phase \in {"reconciling", "crediting"} =>
      session[s].transfer # t

(* `billing-payment:id`, held instead of an account that is not known.     *)
PaymentFree(t) ==
  \A s \in Admins :
    session[s].phase \in {"resolving", "crediting"} =>
      session[s].transfer # t \/ session[s].account # None

Goes(s, phase) == session' = [session EXCEPT ![s].phase = phase]

EndSession(s) == session' = [session EXCEPT ![s] = IdleSession]

(* The transaction is over; the session goes on without its locks.         *)
Commits(s, phase) ==
  session' = [session EXCEPT
                ![s] = [IdleSession EXCEPT !.phase = phase,
                                           !.transfer = session[s].transfer]]

-----------------------------------------------------------------------------
(* Customer and time.                                                      *)
CreateOrder(o) ==
  /\ order[o].status = "none"
  /\ AccountFree(Owner[o])
  /\ order' = [order EXCEPT ![o].status = "PENDING_PAYMENT"]
  /\ UNCHANGED <<webhook, payment, ledger, hold, wallet, assessment, session>>

PassExpiry(o) ==
  /\ order[o].status = "PENDING_PAYMENT"
  /\ order' = [order EXCEPT ![o].overdue = TRUE]
  /\ UNCHANGED <<webhook, payment, ledger, hold, wallet, assessment, session>>

(* Reading an order or a list of orders expires the overdue ones.          *)
ExpireOrder(o) ==
  /\ order[o] = [status |-> "PENDING_PAYMENT", overdue |-> TRUE]
  /\ AccountFree(Owner[o])
  /\ RowFree(o)
  /\ order' = [order EXCEPT ![o].status = "EXPIRED"]
  /\ UNCHANGED <<webhook, payment, ledger, hold, wallet, assessment, session>>

(* SePay reports a transfer; a report seen before is answered as duplicate. *)
(* A payer can only name payment codes that were issued.                   *)
AcceptWebhook(t) ==
  /\ webhook[t] = NoEvent
  /\ \E kind \in TransferKinds :
       /\ \A o \in kind.codes : order[o].status # "none"
       /\ webhook' = [webhook EXCEPT
                        ![t] = [accepted |-> TRUE, kind |-> kind,
                                processed |-> FALSE]]
  /\ UNCHANGED <<order, payment, ledger, hold, wallet, assessment, session>>

-----------------------------------------------------------------------------
(* Reconciliation of an accepted webhook by a consumer.                    *)
Receive(c, t) ==
  /\ session[c].phase = "idle"
  /\ session' = [session EXCEPT ![c].phase = "delivered", ![c].transfer = t]
  /\ UNCHANGED <<order, webhook, payment, ledger, hold, wallet, assessment>>

Files(t, status, o) ==
  payment' = [payment EXCEPT
                ![t] = [status |-> status, order |-> o, version |-> 0,
                        user |-> IF o = None THEN None ELSE Owner[o]]]

(* Faulty: the order takes the status of the payment.                      *)
TargetNamedAsPayment(o, amount) ==
  CASE order[o].overdue    -> "NEEDS_REVIEW"
    [] amount # Price[o] /\ ~order[o].overdue -> "AMOUNT_MISMATCH"
    [] OTHER               -> "CREDITED"

(* What a transfer does to the pending order it names.                     *)
Target(o, amount) ==
  CASE order[o].overdue    -> "EXPIRED"
    [] amount # Price[o] /\ ~order[o].overdue -> "PENDING_RECONCILIATION"
    [] OTHER               -> "CREDITED"

(* The transfer is recorded at once, unless it names one pending order.    *)
BeginReconcile(c) ==
  LET t    == session[c].transfer
      kind == webhook[t].kind
      Record(status, o) == Files(t, status, o) /\ Commits(c, "recorded")
  IN
  /\ session[c].phase = "delivered"
  /\ TransferFree(t)
  /\ \/ /\ payment[t].status # "none"
        /\ Commits(c, "recorded")
        /\ UNCHANGED payment
     \/ /\ payment[t].status = "none"
        /\ kind.direction # "IN"
        /\ Record("NEEDS_REVIEW", None)
     \/ /\ payment[t].status = "none"
        /\ kind.direction = "IN"
        /\ kind.codes = {}
        /\ Record("UNMATCHED", None)
     \/ /\ payment[t].status = "none"
        /\ kind.direction = "IN"
        /\ Cardinality(kind.codes) > 1
        /\ Record("NEEDS_REVIEW", None)
     \/ \E o \in Orders :
          /\ payment[t].status = "none"
          /\ kind.direction = "IN"
          /\ kind.codes = {o}
          /\ AccountFree(Owner[o])
          /\ IF order[o].status = "PENDING_PAYMENT"
             THEN /\ session' = [session EXCEPT
                                   ![c].phase = "reconciling",
                                   ![c].order = o,
                                   ![c].status = Target(o, kind.amount),
                                   ![c].account = Owner[o]]
                  /\ UNCHANGED payment
             ELSE Record(IF order[o].status = "CREDITED" THEN "DUPLICATE"
                                                         ELSE "NEEDS_REVIEW", o)
  /\ UNCHANGED <<order, webhook, ledger, hold, wallet, assessment>>

(* Faulty: the order is moved by its identity alone.                        *)
MovableById(o) == TRUE

Movable(o) == order[o].status = "PENDING_PAYMENT"

(* An overdue order expires and a wrong amount parks it, unless another     *)
(* transaction moved it while this one waited for its row.                 *)
MoveOrder(c) ==
  LET o == session[c].order IN
  /\ session[c].phase = "reconciling"
  /\ session[c].status # "CREDITED"
  /\ RowFree(o)
  /\ order' = IF Movable(o)
              THEN [order EXCEPT ![o].status = session[c].status] ELSE order
  /\ Files(session[c].transfer,
           IF session[c].status = "EXPIRED" THEN "NEEDS_REVIEW"
                                            ELSE "AMOUNT_MISMATCH", o)
  /\ Commits(c, "recorded")
  /\ UNCHANGED <<webhook, ledger, hold, wallet, assessment>>

(* The transaction claims the order's row and reads the wallet.            *)
ClaimOrder(s) ==
  LET o == session[s].order IN
  session' = [session EXCEPT
                ![s].phase = "crediting",
                ![s].version = wallet[Owner[o]].version,
                ![s].projection =
                  Projection(Owner[o], ledger \cup {o}, Reserved)]

(* A transfer that lost its order to an operator is looked up again by the  *)
(* webhook's own code field, which may be empty.                           *)
ClaimByTransfer(c) ==
  LET o == session[c].order IN
  /\ session[c].phase = "reconciling"
  /\ session[c].status = "CREDITED"
  /\ RowFree(o)
  /\ \/ /\ Movable(o)
        /\ ClaimOrder(c)
        /\ UNCHANGED payment
     \/ /\ ~Movable(o)
        /\ \E status \in {"DUPLICATE", "NEEDS_REVIEW"} :
             /\ status = "DUPLICATE" => order[o].status = "CREDITED"
             /\ Files(session[c].transfer, status, o)
        /\ Commits(c, "recorded")
  /\ UNCHANGED <<order, webhook, ledger, hold, wallet, assessment>>

(* Faulty: the wallet is written without its version.                      *)
WalletWhateverVersion(u, version) == TRUE

(* compareAndSetProjection.                                                *)
WalletIs(u, version) == wallet[u].version = version

(* An entry that exists is returned as it is; a new one must leave the      *)
(* balance non-negative and find the wallet at the version read.           *)
CanCredit(s) ==
  \/ session[s].order \in ledger
  \/ /\ session[s].projection.available >= 0
     /\ WalletIs(Owner[session[s].order], session[s].version)

WriteWallet(s, u) ==
  wallet' = [wallet EXCEPT
               ![u] = [balances |-> session[s].projection,
                       version |-> @.version + 1]]

CreditOrder(s) ==
  LET o == session[s].order IN
  /\ order' = [order EXCEPT ![o].status = "CREDITED"]
  /\ ledger' = ledger \cup {o}
  /\ IF o \in ledger THEN UNCHANGED wallet ELSE WriteWallet(s, Owner[o])

CommitTransfer(c) ==
  /\ session[c].phase = "crediting"
  /\ c \in Consumers
  /\ CanCredit(c)
  /\ CreditOrder(c)
  /\ Files(session[c].transfer, "MATCHED", session[c].order)
  /\ Commits(c, "recorded")
  /\ UNCHANGED <<webhook, hold, assessment>>

(* Faulty: the event is marked before its payment is recorded.             *)
MarkableOnceDelivered == {"delivered", "recorded"}

Markable == {"recorded"}

MarkProcessed(c) ==
  /\ session[c].phase \in Markable
  /\ webhook' = [webhook EXCEPT ![session[c].transfer].processed = TRUE]
  /\ Goes(c, "processed")
  /\ UNCHANGED <<order, payment, ledger, hold, wallet, assessment>>

(* The transaction rolls back and its locks are free.                      *)
RollBack(s) ==
  /\ EndSession(s)
  /\ UNCHANGED <<order, webhook, payment, ledger, hold, wallet, assessment>>

-----------------------------------------------------------------------------
(* Administrators.                                                         *)
ReadPayment(a, t) ==
  /\ session[a].phase = "idle"
  /\ payment[t].status # "none"
  /\ session' = [session EXCEPT ![a].phase = "deciding", ![a].transfer = t,
                                ![a].read = payment[t]]
  /\ UNCHANGED <<order, webhook, payment, ledger, hold, wallet, assessment>>

(* The lock is the account of the payment's user, if the payment has one.  *)
DecisionLockFree(a) ==
  IF session[a].read.user = None THEN PaymentFree(session[a].transfer)
                                 ELSE AccountFree(session[a].read.user)

(* The payment is the one read, and neither matched nor a duplicate.       *)
StillUndecided(a) ==
  LET p == payment[session[a].transfer] IN
  /\ p.version = session[a].read.version
  /\ p.status \notin {"MATCHED", "DUPLICATE"}

EligibleStatuses == {"PENDING_PAYMENT", "PENDING_RECONCILIATION", "EXPIRED"}

Resolvable(t, o) ==
  /\ payment[t].order \in {None, o}
  /\ payment[t].user \in {None, Owner[o]}
  /\ order[o].status \in EligibleStatuses
  /\ webhook[t].kind.amount = Price[o]

BeginResolve(a) ==
  /\ session[a].phase = "deciding"
  /\ DecisionLockFree(a)
  /\ \E o \in Orders :
       IF StillUndecided(a) /\ Resolvable(session[a].transfer, o)
       THEN session' = [session EXCEPT ![a].phase = "resolving",
                                       ![a].order = o,
                                       ![a].status = order[o].status,
                                       ![a].account = session[a].read.user]
       ELSE EndSession(a)
  /\ UNCHANGED <<order, webhook, payment, ledger, hold, wallet, assessment>>

ClaimByAdmin(a) ==
  LET o == session[a].order IN
  /\ session[a].phase = "resolving"
  /\ RowFree(o)
  /\ IF order[o].status = session[a].status THEN ClaimOrder(a) ELSE EndSession(a)
  /\ UNCHANGED <<order, webhook, payment, ledger, hold, wallet, assessment>>

CommitResolve(a) ==
  LET t == session[a].transfer
      o == session[a].order
  IN
  /\ session[a].phase = "crediting"
  /\ a \in Admins
  /\ CanCredit(a)
  /\ payment[t].version = session[a].read.version
  /\ CreditOrder(a)
  /\ payment' = [payment EXCEPT
                   ![t] = [status |-> "MATCHED", order |-> o,
                           user |-> Owner[o], version |-> @.version + 1]]
  /\ EndSession(a)
  /\ UNCHANGED <<webhook, hold, assessment>>

Reject(a) ==
  LET t == session[a].transfer IN
  /\ session[a].phase = "deciding"
  /\ DecisionLockFree(a)
  /\ payment[t].version < MaxRejections
  /\ payment' = IF StillUndecided(a) /\ payment[t].status = session[a].read.status
                THEN [payment EXCEPT ![t].status = "REJECTED",
                                     ![t].version = @ + 1]
                ELSE payment
  /\ EndSession(a)
  /\ UNCHANGED <<order, webhook, ledger, hold, wallet, assessment>>

-----------------------------------------------------------------------------
(* Deletion of the assessment: its holds are released one transaction at a  *)
(* time, and a last one detaches the records and deletes the row.          *)
RequestDeletion(d) ==
  /\ session[d].phase = "idle"
  /\ assessment = "present"
  /\ session' = [session EXCEPT
                   ![d].phase = "deleting",
                   ![d].holds = {h \in Reserved : hold[h].linked}]
  /\ UNCHANGED <<order, webhook, payment, ledger, hold, wallet, assessment>>

BeginRelease(d) ==
  /\ session[d].phase = "deleting"
  /\ AccountFree(Tenant)
  /\ \E h \in session[d].holds :
       CASE ~hold[h].linked -> EndSession(d)
         [] hold[h].linked /\ hold[h].status = "RELEASED" ->
              session' = [session EXCEPT ![d].holds = @ \ {h}]
         [] OTHER ->
              session' = [session EXCEPT
                            ![d].phase = "releasing",
                            ![d].hold = h,
                            ![d].account = Tenant,
                            ![d].version = wallet[Tenant].version,
                            ![d].projection =
                              Projection(Tenant, ledger, Reserved \ {h})]
  /\ UNCHANGED <<order, webhook, payment, ledger, hold, wallet, assessment>>

CommitRelease(d) ==
  LET h == session[d].hold IN
  /\ session[d].phase = "releasing"
  /\ WalletIs(Tenant, session[d].version)
  /\ hold' = [hold EXCEPT ![h].status = "RELEASED"]
  /\ WriteWallet(d, Tenant)
  /\ session' = [session EXCEPT
                   ![d] = [IdleSession EXCEPT
                             !.phase = "deleting",
                             !.holds = session[d].holds \ {h}]]
  /\ UNCHANGED <<order, webhook, payment, ledger, assessment>>

(* Faulty: the assessment goes although holds are left.                    *)
AnyHolds(holds) == TRUE

AllReleased(holds) == holds = {}

FinishDeletion(d) ==
  /\ session[d].phase = "deleting"
  /\ AllReleased(session[d].holds)
  /\ assessment = "present"
  /\ assessment' = "deleted"
  /\ hold' = [h \in Holds |-> [hold[h] EXCEPT !.linked = FALSE]]
  /\ EndSession(d)
  /\ UNCHANGED <<order, webhook, payment, ledger, wallet>>

-----------------------------------------------------------------------------
(* The desk by itself: an accepted webhook reaches a consumer any number of *)
(* times, and every transaction may roll back at any moment.               *)
ConsumerTransaction(c) ==
  BeginReconcile(c) \/ MoveOrder(c) \/ ClaimByTransfer(c) \/ CommitTransfer(c)
  \/ MarkProcessed(c)

AdminTransaction(a) ==
  BeginResolve(a) \/ ClaimByAdmin(a) \/ CommitResolve(a) \/ Reject(a)

DeletionTransaction(d) ==
  BeginRelease(d) \/ CommitRelease(d) \/ FinishDeletion(d)

CustomerTransaction ==
  \E o \in Orders : CreateOrder(o) \/ PassExpiry(o) \/ ExpireOrder(o)

BillingNext ==
  \/ CustomerTransaction
  \/ \E t \in Transfers : AcceptWebhook(t)
  \/ \E c \in Consumers, t \in Transfers : webhook[t] # NoEvent /\ Receive(c, t)
  \/ \E c \in Consumers : ConsumerTransaction(c)
  \/ \E a \in Admins, t \in Transfers : ReadPayment(a, t)
  \/ \E a \in Admins : AdminTransaction(a)
  \/ \E d \in Deleters : RequestDeletion(d) \/ DeletionTransaction(d)
  \/ \E s \in Sessions : session[s].phase # "idle" /\ RollBack(s)

BillingSpec == BillingInit /\ [][BillingNext]_billingVars

-----------------------------------------------------------------------------
Matched(o) ==
  {t \in Transfers : payment[t].status = "MATCHED" /\ payment[t].order = o}

(* An order is credited, has its ledger entry and has exactly one matched   *)
(* payment of its price together: consumers and administrators settle the   *)
(* same order under different locks (reconcilePayment,                     *)
(* ResolveBillingPaymentHandler).                                          *)
CreditedOnce ==
  \A o \in Orders :
    /\ order[o].status = "CREDITED" <=> o \in ledger
    /\ o \in ledger <=> Matched(o) # {}
    /\ Cardinality(Matched(o)) <= 1
    /\ \A t \in Matched(o) :
         payment[t].user = Owner[o] /\ webhook[t].kind.amount = Price[o]

(* The wallet is the projection of ledger and reservations after every      *)
(* commit, although a settlement without the account's lock can run beside  *)
(* another one or beside the release of a hold (append, releaseReservation).*)
WalletIsProjection ==
  \A u \in Users : wallet[u].balances = Projection(u, ledger, Reserved)

(* A processed event has its payment: the mark is a transaction after the   *)
(* one that records it (reconcileAcceptedWebhook).                         *)
ProcessedIsRecorded ==
  \A t \in Transfers :
    webhook[t] # NoEvent /\ webhook[t].processed => payment[t].status # "none"

(* Credit is not held for an assessment that is gone: the holds are         *)
(* released before and outside of the transaction that deletes it           *)
(* (DeleteAssessmentHandler).                                              *)
NoStrandedHold ==
  \A h \in Holds :
    hold[h].status = "RESERVED" => hold[h].linked /\ assessment = "present"

(* A matched or duplicate payment is never decided again, and a credited    *)
(* order stays credited (resolve, reject, expire).                         *)
SettledIsFinal ==
  [][/\ \A t \in Transfers :
          payment[t].status \in {"MATCHED", "DUPLICATE"} =>
            payment'[t] = payment[t]
     /\ \A o \in Orders :
          order[o].status = "CREDITED" => order'[o].status = "CREDITED"]_billingVars
=============================================================================
