--------------------------- MODULE Billing_proofs ---------------------------
(***************************************************************************)
(* The safety properties of Billing for any number of users, orders,        *)
(* transfers, reservations, API processes, administrators and deletions.    *)
(***************************************************************************)
EXTENDS Billing, FiniteSetTheorems, TLAPS

-----------------------------------------------------------------------------
(* The inductive invariant: one part for the rows, and for a session what   *)
(* the transaction in progress knows of the rows it will write.            *)
OrderInv(o) ==
  /\ order[o].status = "CREDITED" <=> o \in ledger
  /\ o \in ledger <=> Matched(o) # {}
  /\ \A t1, t2 \in Matched(o) : t1 = t2
  /\ \A t \in Matched(o) :
       payment[t].user = Owner[o] /\ webhook[t].kind.amount = Price[o]

TransferInv(t) ==
  /\ payment[t].status # "none" => webhook[t] \in Event
  /\ webhook[t] # NoEvent /\ webhook[t].processed => payment[t].status # "none"

ConsumerInv(c) ==
  LET k == session[c] IN
  /\ k.phase \in {"idle", "delivered", "reconciling", "crediting", "recorded",
                  "processed"}
  /\ k.phase # "idle" => k.transfer \in Transfers /\ webhook[k.transfer] \in Event
  /\ k.phase \in {"recorded", "processed"} => payment[k.transfer].status # "none"
  /\ k.phase \in {"reconciling", "crediting"} =>
       /\ k.order \in Orders
       /\ payment[k.transfer].status = "none"
       /\ k.status \in {"EXPIRED", "PENDING_RECONCILIATION", "CREDITED"}
       /\ k.status = "CREDITED" =>
            webhook[k.transfer].kind.amount = Price[k.order]
  /\ k.phase = "crediting" => k.status = "CREDITED"

AdminInv(a) ==
  LET k == session[a] IN
  /\ k.phase \in {"idle", "deciding", "resolving", "crediting"}
  /\ k.phase # "idle" =>
       /\ k.transfer \in Transfers
       /\ payment[k.transfer].status # "none"
       /\ payment[k.transfer].version >= k.read.version
       /\ payment[k.transfer].version = k.read.version =>
            payment[k.transfer] = k.read
  /\ k.phase \in {"resolving", "crediting"} =>
       /\ k.order \in Orders
       /\ k.status \in EligibleStatuses
       /\ k.read.status \notin {"MATCHED", "DUPLICATE"}
       /\ webhook[k.transfer].kind.amount = Price[k.order]

DeleterInv(d) ==
  LET k == session[d] IN
  /\ k.phase \in {"idle", "deleting", "releasing"}
  /\ k.phase # "idle" => Reserved \subseteq k.holds
  /\ k.phase = "releasing" =>
       /\ k.hold \in Holds
       /\ k.version <= wallet[Tenant].version
       /\ k.version = wallet[Tenant].version =>
            k.projection = Projection(Tenant, ledger, Reserved \ {k.hold})

(* What a transaction that has claimed an order knows of it and the wallet. *)
CreditInv(s) ==
  LET k == session[s] IN
  k.phase = "crediting" =>
    /\ k.order \in Orders
    /\ order[k.order].status \in EligibleStatuses
    /\ k.version <= wallet[Owner[k.order]].version
    /\ k.version = wallet[Owner[k.order]].version =>
         k.projection = Projection(Owner[k.order], ledger \cup {k.order}, Reserved)

OneClaim ==
  \A s1, s2 \in Sessions :
    /\ session[s1].phase = "crediting" /\ session[s2].phase = "crediting"
    /\ session[s1].order = session[s2].order
    => s1 = s2

OneReconciler ==
  \A c1, c2 \in Consumers :
    /\ session[c1].phase \in {"reconciling", "crediting"}
    /\ session[c2].phase \in {"reconciling", "crediting"}
    /\ session[c1].transfer = session[c2].transfer
    => c1 = c2

SessionInv(s) ==
  /\ s \in Consumers => ConsumerInv(s)
  /\ s \in Admins => AdminInv(s)
  /\ s \in Deleters => DeleterInv(s)
  /\ CreditInv(s)

IInv ==
  /\ BillingTypeOK
  /\ \A o \in Orders : OrderInv(o)
  /\ \A t \in Transfers : TransferInv(t)
  /\ \A s \in Sessions : SessionInv(s)
  /\ OneClaim
  /\ OneReconciler
  /\ WalletIsProjection
  /\ NoStrandedHold

-----------------------------------------------------------------------------
(* The balances of a user see only the user's orders and, of the tenant,    *)
(* the reservations.                                                       *)
LEMMA SameProjection ==
  ASSUME NEW u, NEW e1, NEW e2, NEW r1, NEW r2,
         {o \in e1 : Owner[o] = u} = {o \in e2 : Owner[o] = u},
         u = Tenant => r1 = r2
  PROVE  Projection(u, e1, r1) = Projection(u, e2, r2)
<1>1. LedgerSum(u, e1) = LedgerSum(u, e2)
  BY DEF LedgerSum
<1>2. HeldSum(u, r1) = HeldSum(u, r2)
  BY DEF HeldSum
<1> QED
  BY <1>1, <1>2 DEF Projection

LEMMA ProjectionType ==
  ASSUME NEW u \in Users, NEW e \in SUBSET Orders, NEW r \in SUBSET Holds
  PROVE  Projection(u, e, r) \in Balances
BY DEF Balances

LEMMA Initially == BillingInit => IInv
<1> SUFFICES ASSUME BillingInit PROVE IInv
  OBVIOUS
<1> USE DEF BillingInit
<1>1. BillingTypeOK
  <2>1. NoPayment \in Payment
    BY DEF NoPayment, Payment, PaymentStatuses
  <2>2. IdleSession \in Session
    BY <2>1 DEF IdleSession, Session, OrderStatuses, Balances
  <2>3. \A u \in Users : Projection(u, {}, Holds) \in Balances
    BY DEF Balances
  <2> QED
    BY <2>1, <2>2, <2>3 DEF BillingTypeOK, OrderStatuses, Event
<1>2. \A t \in Transfers : payment[t].status = "none" /\ webhook[t] = NoEvent
  BY DEF NoPayment
<1>3. \A s \in Sessions : session[s].phase = "idle"
  BY DEF IdleSession
<1>4. Reserved = Holds
  BY DEF Reserved
<1> QED
  <2>1. \A o \in Orders : Matched(o) = {}
    BY <1>2 DEF Matched
  <2>2. \A o \in Orders : OrderInv(o)
    BY <2>1 DEF OrderInv
  <2>3. \A t \in Transfers : TransferInv(t)
    BY <1>2 DEF TransferInv
  <2>4. \A s \in Sessions : SessionInv(s)
    BY <1>3 DEF SessionInv, ConsumerInv, AdminInv, DeleterInv, CreditInv, Sessions
  <2>5. OneClaim /\ OneReconciler
    BY <1>3 DEF OneClaim, OneReconciler, Sessions
  <2>6. WalletIsProjection /\ NoStrandedHold
    BY <1>4 DEF WalletIsProjection, NoStrandedHold
  <2> QED
    BY <1>1, <2>2, <2>3, <2>4, <2>5, <2>6 DEF IInv

-----------------------------------------------------------------------------
(* What a step may do to the rows without disturbing the transactions that  *)
(* have read them.                                                         *)
RowsKept ==
  /\ \A t \in Transfers :
       webhook[t] \in Event =>
         webhook'[t] \in Event /\ webhook'[t].kind = webhook[t].kind
  /\ \A t \in Transfers :
       payment[t].status # "none" =>
         \/ payment'[t] = payment[t]
         \/ /\ payment'[t].status # "none"
            /\ payment'[t].version > payment[t].version
  /\ Reserved' \subseteq Reserved
  /\ \A u \in Users :
       \/ wallet'[u].version > wallet[u].version
       \/ /\ wallet'[u] = wallet[u]
          /\ {o \in ledger' : Owner[o] = u} = {o \in ledger : Owner[o] = u}
          /\ u = Tenant => Reserved' = Reserved
  /\ \A c \in Consumers :
       session[c].phase \in {"reconciling", "crediting"}
       /\ session'[c] = session[c]
       => payment'[session[c].transfer] = payment[session[c].transfer]
  /\ \A s \in Sessions :
       session[s].phase = "crediting" /\ session'[s] = session[s]
       => order'[session[s].order].status \in EligibleStatuses

LEMMA Roles ==
  ASSUME NEW s \in Sessions
  PROVE  /\ s \in Consumers => s \notin Admins /\ s \notin Deleters
         /\ s \in Admins => s \notin Consumers /\ s \notin Deleters
         /\ s \in Deleters => s \notin Consumers /\ s \notin Admins
BY BillingAssumption DEF Sessions

(* A session that takes no step keeps what it knows.                       *)
LEMMA OthersKept ==
  ASSUME IInv, RowsKept, BillingTypeOK', NEW x \in Sessions,
         session'[x] = session[x]
  PROVE  SessionInv(x)'
<1> DEFINE k == session[x]
<1>1. SessionInv(x) /\ k \in Session
  BY DEF IInv, BillingTypeOK
<1>2. x \in Consumers => ConsumerInv(x)'
  <2> SUFFICES ASSUME x \in Consumers PROVE ConsumerInv(x)'
    OBVIOUS
  <2>1. ConsumerInv(x)
    BY <1>1 DEF SessionInv
  <2> QED
    BY <2>1 DEF ConsumerInv, RowsKept
<1>3. x \in Admins => AdminInv(x)'
  <2> SUFFICES ASSUME x \in Admins PROVE AdminInv(x)'
    OBVIOUS
  <2>1. AdminInv(x)
    BY <1>1 DEF SessionInv
  <2>2. \A t \in Transfers : payment[t].status # "none" => webhook[t] \in Event
    BY DEF IInv, TransferInv
  <2>3. \A t \in Transfers :
          payment[t].version \in Nat /\ payment'[t].version \in Nat
    BY DEF IInv, BillingTypeOK, Payment
  <2>4. k.read.version \in Nat
    BY <1>1 DEF Session, Payment
  <2> QED
    BY <2>1, <2>2, <2>3, <2>4 DEF AdminInv, RowsKept
<1>4. \A u \in Users : wallet[u].version \in Nat /\ wallet'[u].version \in Nat
  BY DEF IInv, BillingTypeOK
<1>5. x \in Deleters => DeleterInv(x)'
  <2> SUFFICES ASSUME x \in Deleters PROVE DeleterInv(x)'
    OBVIOUS
  <2>1. DeleterInv(x)
    BY <1>1 DEF SessionInv
  <2>2. k.version \in Nat /\ Tenant \in Users
    BY <1>1, BillingAssumption DEF Session
  <2>3. Reserved' \subseteq Reserved
    BY DEF RowsKept
  <2>4. ASSUME k.phase = "releasing", k.version = wallet'[Tenant].version
        PROVE  k.projection = Projection(Tenant, ledger', Reserved' \ {k.hold})
    <3>1. wallet'[Tenant] = wallet[Tenant] /\ Reserved' = Reserved
          /\ {o \in ledger' : Owner[o] = Tenant} = {o \in ledger : Owner[o] = Tenant}
      BY <1>4, <2>1, <2>2, <2>4 DEF RowsKept, DeleterInv
    <3>2. k.projection = Projection(Tenant, ledger, Reserved \ {k.hold})
      BY <2>1, <2>4, <3>1 DEF DeleterInv
    <3>3. Projection(Tenant, ledger', Reserved' \ {k.hold})
            = Projection(Tenant, ledger, Reserved \ {k.hold})
      BY <3>1, SameProjection
    <3> QED
      BY <3>2, <3>3
  <2>5. k.phase = "releasing" => k.version <= wallet'[Tenant].version
    BY <1>4, <2>1, <2>2 DEF RowsKept, DeleterInv
  <2>6. /\ k.phase \in {"idle", "deleting", "releasing"}
        /\ k.phase # "idle" => Reserved' \subseteq k.holds
        /\ k.phase = "releasing" => k.hold \in Holds
    BY <2>1, <2>3 DEF DeleterInv
  <2> QED
    BY <2>4, <2>5, <2>6 DEF DeleterInv
<1>6. CreditInv(x)'
  <2> SUFFICES ASSUME k.phase = "crediting"
               PROVE  CreditInv(x)'
    BY DEF CreditInv
  <2> DEFINE o == k.order
             u == Owner[o]
  <2>1. CreditInv(x)
    BY <1>1 DEF SessionInv
  <2>2. o \in Orders /\ u \in Users /\ k.version \in Nat
    BY <1>1, <2>1, BillingAssumption DEF CreditInv, Session
  <2>3. order'[o].status \in EligibleStatuses
    BY DEF RowsKept
  <2>4. k.version <= wallet'[u].version
    BY <1>4, <2>1, <2>2 DEF CreditInv, RowsKept
  <2>5. ASSUME k.version = wallet'[u].version
        PROVE  k.projection = Projection(u, ledger' \cup {o}, Reserved')
    <3>1. /\ wallet'[u] = wallet[u]
          /\ u = Tenant => Reserved' = Reserved
          /\ {z \in ledger' : Owner[z] = u} = {z \in ledger : Owner[z] = u}
      BY <1>4, <2>1, <2>2, <2>5 DEF RowsKept, CreditInv
    <3>2. k.projection = Projection(u, ledger \cup {o}, Reserved)
      BY <2>1, <2>5, <3>1 DEF CreditInv
    <3>3. {z \in ledger' \cup {o} : Owner[z] = u}
            = {z \in ledger \cup {o} : Owner[z] = u}
      BY <3>1
    <3>4. Projection(u, ledger' \cup {o}, Reserved')
            = Projection(u, ledger \cup {o}, Reserved)
      BY <3>1, <3>3, SameProjection
    <3> QED
      BY <3>2, <3>4
  <2> QED
    BY <2>2, <2>3, <2>4, <2>5 DEF CreditInv
<1> QED
  BY <1>2, <1>3, <1>5, <1>6 DEF SessionInv

(* A session that claims neither an order nor a transfer, or one that is    *)
(* free, keeps the claims apart.                                           *)
LEMMA ClaimsKept ==
  ASSUME OneClaim, OneReconciler, NEW s \in Sessions,
         \A x \in Sessions : x # s => session'[x] = session[x],
         session'[s].phase = "crediting" =>
           RowFree(session'[s].order),
         s \in Consumers /\ session'[s].phase \in {"reconciling", "crediting"} =>
           /\ session'[s].transfer = session[s].transfer
           /\ \/ session[s].phase \in {"reconciling", "crediting"}
              \/ TransferFree(session[s].transfer)
  PROVE  OneClaim' /\ OneReconciler'
<1>1. OneClaim'
  BY DEF OneClaim, RowFree
<1>2. OneReconciler'
  BY DEF OneReconciler, TransferFree, Sessions
<1> QED
  BY <1>1, <1>2

(* A step of one session that writes no row.                               *)
LEMMA SessionStep ==
  ASSUME IInv, UNCHANGED <<order, webhook, payment, ledger, hold, wallet, assessment>>,
         NEW s \in Sessions, session' \in [Sessions -> Session],
         \A x \in Sessions : x # s => session'[x] = session[x],
         SessionInv(s)', OneClaim', OneReconciler'
  PROVE  IInv'
<1>1. BillingTypeOK'
  BY DEF IInv, BillingTypeOK
<1>2. Reserved' = Reserved /\ \A o \in Orders : Matched(o)' = Matched(o)
  BY DEF Reserved, Matched
<1>3. RowsKept
  <2>1. \A x \in Sessions : session[x].phase = "crediting" =>
          order[session[x].order].status \in EligibleStatuses
    BY DEF IInv, SessionInv, CreditInv
  <2> QED
    BY <1>2, <2>1 DEF RowsKept
<1>4. \A x \in Sessions : SessionInv(x)'
  <2>1. \A x \in Sessions : x # s => SessionInv(x)'
    BY <1>1, <1>3, OthersKept
  <2> QED
    BY <2>1
<1>5. \A o \in Orders : OrderInv(o)'
  BY <1>2 DEF IInv, OrderInv
<1>6. \A t \in Transfers : TransferInv(t)'
  BY DEF IInv, TransferInv
<1>7. WalletIsProjection' /\ NoStrandedHold'
  BY <1>2 DEF IInv, WalletIsProjection, NoStrandedHold
<1> QED
  BY <1>1, <1>4, <1>5, <1>6, <1>7 DEF IInv

LEMMA Idle ==
  ASSUME IInv, NEW s \in Sessions, session'[s].phase = "idle"
  PROVE  SessionInv(s)'
BY DEF SessionInv, ConsumerInv, AdminInv, DeleterInv, CreditInv

(* The updates of a session the actions use.                               *)
LEMMA OneSession ==
  ASSUME BillingTypeOK, NEW s \in Sessions, NEW k \in Session,
         session' = [session EXCEPT ![s] = k]
  PROVE  /\ session' \in [Sessions -> Session]
         /\ session'[s] = k
         /\ \A x \in Sessions : x # s => session'[x] = session[x]
BY DEF BillingTypeOK

LEMMA IdleType == IdleSession \in Session
<1>1. NoPayment \in Payment
  BY DEF NoPayment, Payment, PaymentStatuses
<1> QED
  BY <1>1 DEF IdleSession, Session, OrderStatuses, Balances

-----------------------------------------------------------------------------
(* Steps of one session that write no row.                                 *)
LEMMA RollBackKeeps ==
  ASSUME IInv, NEW s \in Sessions, RollBack(s)
  PROVE  IInv'
<1>1. /\ session' \in [Sessions -> Session]
      /\ session'[s] = IdleSession
      /\ \A x \in Sessions : x # s => session'[x] = session[x]
  BY OneSession, IdleType DEF RollBack, EndSession, IInv
<1>2. SessionInv(s)'
  BY <1>1, Idle DEF IdleSession
<1>3. OneClaim' /\ OneReconciler'
  BY <1>1, ClaimsKept DEF IInv, IdleSession
<1> QED
  BY <1>1, <1>2, <1>3, SessionStep DEF RollBack

LEMMA ReceiveKeeps ==
  ASSUME IInv, NEW c \in Consumers, NEW t \in Transfers,
         webhook[t] # NoEvent, Receive(c, t)
  PROVE  IInv'
<1> DEFINE k == [session[c] EXCEPT !.phase = "delivered", !.transfer = t]
<1>1. c \in Sessions /\ session[c] \in Session
  BY DEF Sessions, IInv, BillingTypeOK
<1>2. k \in Session
  BY <1>1 DEF Session
<1>3. session' = [session EXCEPT ![c] = k]
  BY <1>1 DEF Receive, IInv, BillingTypeOK
<1>4. /\ session' \in [Sessions -> Session]
      /\ session'[c] = k
      /\ \A x \in Sessions : x # c => session'[x] = session[x]
  BY <1>1, <1>2, <1>3, OneSession DEF IInv
<1>5. session'[c].phase = "delivered" /\ session'[c].transfer = t
  BY <1>1, <1>4 DEF Session
<1>6. SessionInv(c)'
  <2>1. ConsumerInv(c)'
    BY <1>5 DEF ConsumerInv, Receive, IInv, BillingTypeOK
  <2>2. CreditInv(c)'
    BY <1>5 DEF CreditInv
  <2> QED
    BY <1>1, <2>1, <2>2, Roles DEF SessionInv
<1>7. OneClaim' /\ OneReconciler'
  BY <1>1, <1>4, <1>5, ClaimsKept DEF IInv
<1> QED
  BY <1>1, <1>4, <1>6, <1>7, SessionStep DEF Receive

LEMMA ReadPaymentKeeps ==
  ASSUME IInv, NEW a \in Admins, NEW t \in Transfers, ReadPayment(a, t)
  PROVE  IInv'
<1> DEFINE k == [session[a] EXCEPT !.phase = "deciding", !.transfer = t,
                                   !.read = payment[t]]
<1>1. a \in Sessions /\ session[a] \in Session /\ payment[t] \in Payment
  BY DEF Sessions, IInv, BillingTypeOK
<1>2. k \in Session
  BY <1>1 DEF Session
<1>3. session' = [session EXCEPT ![a] = k]
  BY <1>1 DEF ReadPayment, IInv, BillingTypeOK
<1>4. /\ session' \in [Sessions -> Session]
      /\ session'[a] = k
      /\ \A x \in Sessions : x # a => session'[x] = session[x]
  BY <1>1, <1>2, <1>3, OneSession DEF IInv
<1>5. /\ session'[a].phase = "deciding" /\ session'[a].transfer = t
      /\ session'[a].read = payment[t]
  BY <1>1, <1>4 DEF Session
<1>6. SessionInv(a)'
  <2>1. AdminInv(a)'
    BY <1>1, <1>5 DEF AdminInv, ReadPayment, Payment
  <2>2. CreditInv(a)'
    BY <1>5 DEF CreditInv
  <2> QED
    BY <1>1, <2>1, <2>2, Roles DEF SessionInv
<1>7. OneClaim' /\ OneReconciler'
  BY <1>1, <1>4, <1>5, ClaimsKept DEF IInv
<1> QED
  BY <1>1, <1>4, <1>6, <1>7, SessionStep DEF ReadPayment

LEMMA BeginResolveKeeps ==
  ASSUME IInv, NEW a \in Admins, BeginResolve(a)
  PROVE  IInv'
<1>1. a \in Sessions /\ session[a] \in Session
  BY DEF Sessions, IInv, BillingTypeOK
<1>2. CASE EndSession(a)
  BY <1>1, <1>2, RollBackKeeps DEF RollBack, BeginResolve
<1>3. CASE ~EndSession(a)
  <2>1. PICK o \in Orders :
          /\ StillUndecided(a) /\ Resolvable(session[a].transfer, o)
          /\ session' = [session EXCEPT ![a].phase = "resolving",
                                        ![a].order = o,
                                        ![a].status = order[o].status,
                                        ![a].account = session[a].read.user]
    BY <1>3 DEF BeginResolve
  <2> DEFINE k == [session[a] EXCEPT !.phase = "resolving", !.order = o,
                                     !.status = order[o].status,
                                     !.account = session[a].read.user]
  <2>2. order[o].status \in OrderStatuses
        /\ session[a].read.user \in Users \cup {None}
    BY <1>1 DEF IInv, BillingTypeOK, Session, Payment
  <2>3. k \in Session
    BY <1>1, <2>2 DEF Session
  <2>4. session' = [session EXCEPT ![a] = k]
    BY <1>1, <2>1 DEF IInv, BillingTypeOK
  <2>5. /\ session' \in [Sessions -> Session]
        /\ session'[a] = k
        /\ \A x \in Sessions : x # a => session'[x] = session[x]
    BY <1>1, <2>3, <2>4, OneSession DEF IInv
  <2>6. /\ session'[a].phase = "resolving" /\ session'[a].order = o
        /\ session'[a].status = order[o].status
        /\ session'[a].transfer = session[a].transfer
        /\ session'[a].read = session[a].read
    BY <1>1, <2>5 DEF Session
  <2>7. SessionInv(a)'
    <3>1. AdminInv(a) /\ session[a].phase = "deciding"
      BY <1>1 DEF IInv, SessionInv, BeginResolve
    <3>2. AdminInv(a)'
      BY <2>1, <2>6, <3>1
      DEF AdminInv, BeginResolve, StillUndecided, Resolvable
    <3>3. CreditInv(a)'
      BY <2>6 DEF CreditInv
    <3> QED
      BY <1>1, <3>2, <3>3, Roles DEF SessionInv
  <2>8. OneClaim' /\ OneReconciler'
    BY <1>1, <2>5, <2>6, ClaimsKept, Roles DEF IInv
  <2> QED
    BY <1>1, <2>5, <2>7, <2>8, SessionStep DEF BeginResolve
<1> QED
  BY <1>2, <1>3

(* Claiming an order: what is read of the wallet is true when it is read.   *)
LEMMA ClaimKeeps ==
  ASSUME IInv, NEW s \in Consumers \cup Admins,
         s \in Consumers =>
           session[s].phase = "reconciling" /\ session[s].status = "CREDITED",
         s \in Admins => session[s].phase = "resolving",
         order[session[s].order].status \in EligibleStatuses,
         RowFree(session[s].order), ClaimOrder(s),
         UNCHANGED <<order, webhook, payment, ledger, hold, wallet, assessment>>
  PROVE  IInv'
<1> DEFINE o == session[s].order
           k == [session[s] EXCEPT
                   !.phase = "crediting",
                   !.version = wallet[Owner[o]].version,
                   !.projection = Projection(Owner[o], ledger \cup {o}, Reserved)]
<1>1. s \in Sessions /\ session[s] \in Session
  BY DEF Sessions, IInv, BillingTypeOK
<1>2. o \in Orders /\ Owner[o] \in Users
  BY <1>1, BillingAssumption
  DEF IInv, SessionInv, ConsumerInv, AdminInv
<1>3. Projection(Owner[o], ledger \cup {o}, Reserved) \in Balances
  <2>1. ledger \cup {o} \subseteq Orders /\ Reserved \subseteq Holds
    BY <1>2 DEF Reserved, IInv, BillingTypeOK
  <2> QED
    BY <1>2, <2>1, ProjectionType
<1>4. wallet[Owner[o]].version \in Nat
  BY <1>2 DEF IInv, BillingTypeOK
<1>5. k \in Session
  BY <1>1, <1>3, <1>4 DEF Session
<1>6. session' = [session EXCEPT ![s] = k]
  BY <1>1 DEF ClaimOrder, IInv, BillingTypeOK
<1>7. /\ session' \in [Sessions -> Session]
      /\ session'[s] = k
      /\ \A x \in Sessions : x # s => session'[x] = session[x]
  BY <1>1, <1>5, <1>6, OneSession DEF IInv
<1>8. /\ session'[s].phase = "crediting" /\ session'[s].order = o
      /\ session'[s].status = session[s].status
      /\ session'[s].transfer = session[s].transfer
      /\ session'[s].read = session[s].read
      /\ session'[s].version = wallet[Owner[o]].version
      /\ session'[s].projection =
           Projection(Owner[o], ledger \cup {o}, Reserved)
  BY <1>1, <1>7 DEF Session
<1>9. SessionInv(s)'
  <2>1. s \in Consumers => ConsumerInv(s)'
    BY <1>1, <1>8 DEF IInv, SessionInv, ConsumerInv
  <2>2. s \in Admins => AdminInv(s)'
    BY <1>1, <1>8 DEF IInv, SessionInv, AdminInv
  <2>3. CreditInv(s)'
    <3>1. Reserved' = Reserved
      BY DEF Reserved
    <3> QED
      BY <1>2, <1>4, <1>8, <3>1 DEF CreditInv
  <2> QED
    BY <1>1, <2>1, <2>2, <2>3, Roles DEF SessionInv
<1>10. OneClaim' /\ OneReconciler'
  BY <1>1, <1>7, <1>8, ClaimsKept DEF IInv
<1> QED
  BY <1>1, <1>7, <1>9, <1>10, SessionStep

LEMMA ClaimByAdminKeeps ==
  ASSUME IInv, NEW a \in Admins, ClaimByAdmin(a)
  PROVE  IInv'
<1>1. a \in Sessions
  BY DEF Sessions
<1>2. CASE EndSession(a)
  BY <1>1, <1>2, RollBackKeeps DEF RollBack, ClaimByAdmin
<1>3. CASE ~EndSession(a)
  <2>1. ClaimOrder(a) /\ order[session[a].order].status = session[a].status
    BY <1>3 DEF ClaimByAdmin
  <2>2. session[a].status \in EligibleStatuses
    BY <1>1 DEF IInv, SessionInv, AdminInv, ClaimByAdmin
  <2> QED
    BY <1>1, <2>1, <2>2, Roles, ClaimKeeps DEF ClaimByAdmin
<1> QED
  BY <1>2, <1>3

LEMMA RequestDeletionKeeps ==
  ASSUME IInv, NEW d \in Deleters, RequestDeletion(d)
  PROVE  IInv'
<1> DEFINE k == [session[d] EXCEPT !.phase = "deleting",
                                   !.holds = {h \in Reserved : hold[h].linked}]
<1>1. d \in Sessions /\ session[d] \in Session
  BY DEF Sessions, IInv, BillingTypeOK
<1>2. k \in Session
  BY <1>1 DEF Session, Reserved
<1>3. session' = [session EXCEPT ![d] = k]
  BY <1>1 DEF RequestDeletion, IInv, BillingTypeOK
<1>4. /\ session' \in [Sessions -> Session]
      /\ session'[d] = k
      /\ \A x \in Sessions : x # d => session'[x] = session[x]
  BY <1>1, <1>2, <1>3, OneSession DEF IInv
<1>5. session'[d].phase = "deleting"
      /\ session'[d].holds = {h \in Reserved : hold[h].linked}
  BY <1>1, <1>4 DEF Session
<1>6. SessionInv(d)'
  <2>1. Reserved' = {h \in Reserved : hold[h].linked}
    BY DEF RequestDeletion, Reserved, IInv, NoStrandedHold
  <2>2. DeleterInv(d)'
    BY <1>5, <2>1 DEF DeleterInv
  <2>3. CreditInv(d)'
    BY <1>5 DEF CreditInv
  <2> QED
    BY <1>1, <2>2, <2>3, Roles DEF SessionInv
<1>7. OneClaim' /\ OneReconciler'
  BY <1>1, <1>4, <1>5, ClaimsKept DEF IInv
<1> QED
  BY <1>1, <1>4, <1>6, <1>7, SessionStep DEF RequestDeletion

(* A reservation that is to be released is skipped, or claimed together     *)
(* with the wallet.                                                        *)
LEMMA BeginReleaseKeeps ==
  ASSUME IInv, NEW d \in Deleters, BeginRelease(d)
  PROVE  IInv'
<1>1. d \in Sessions /\ session[d] \in Session /\ session[d].phase = "deleting"
  BY DEF Sessions, IInv, BillingTypeOK, BeginRelease
<1>2. DeleterInv(d)
  BY <1>1 DEF IInv, SessionInv
<1>3. PICK h \in session[d].holds :
        \/ EndSession(d)
        \/ /\ hold[h].status = "RELEASED"
           /\ session' = [session EXCEPT ![d].holds = @ \ {h}]
        \/ session' = [session EXCEPT
                         ![d].phase = "releasing",
                         ![d].hold = h,
                         ![d].account = Tenant,
                         ![d].version = wallet[Tenant].version,
                         ![d].projection =
                           Projection(Tenant, ledger, Reserved \ {h})]
  BY DEF BeginRelease
<1>4. h \in Holds /\ Tenant \in Users /\ wallet[Tenant].version \in Nat
  BY <1>1, BillingAssumption DEF Session, IInv, BillingTypeOK
<1>5. Projection(Tenant, ledger, Reserved \ {h}) \in Balances
  <2>1. ledger \subseteq Orders /\ Reserved \ {h} \subseteq Holds
    BY DEF Reserved, IInv, BillingTypeOK
  <2> QED
    BY <1>4, <2>1, ProjectionType
<1> DEFINE skipped == [session[d] EXCEPT !.holds = @ \ {h}]
           claimed == [session[d] EXCEPT
                         !.phase = "releasing", !.hold = h,
                         !.account = Tenant, !.version = wallet[Tenant].version,
                         !.projection =
                           Projection(Tenant, ledger, Reserved \ {h})]
<1>6. CASE EndSession(d)
  BY <1>1, <1>6, RollBackKeeps DEF RollBack, BeginRelease
<1>7. ASSUME NEW k \in Session, session' = [session EXCEPT ![d] = k],
             k.phase \in {"deleting", "releasing"}, DeleterInv(d)'
      PROVE  IInv'
  <2>1. /\ session' \in [Sessions -> Session]
        /\ session'[d] = k
        /\ \A x \in Sessions : x # d => session'[x] = session[x]
    BY <1>1, <1>7, OneSession DEF IInv
  <2>2. SessionInv(d)'
    BY <1>1, <1>7, <2>1, Roles DEF SessionInv, CreditInv
  <2>3. OneClaim' /\ OneReconciler'
    BY <1>1, <1>7, <2>1, ClaimsKept DEF IInv
  <2> QED
    BY <1>1, <2>1, <2>2, <2>3, SessionStep DEF BeginRelease
<1>8. Reserved' = Reserved
  BY DEF Reserved, BeginRelease
<1>9. CASE /\ hold[h].status = "RELEASED"
           /\ session' = [session EXCEPT ![d].holds = @ \ {h}]
  <2>1. skipped \in Session
    BY <1>1 DEF Session
  <2>2. session' = [session EXCEPT ![d] = skipped]
    BY <1>1, <1>9 DEF IInv, BillingTypeOK
  <2>3. /\ session'[d].phase = "deleting"
        /\ session'[d].holds = session[d].holds \ {h}
        /\ skipped.phase = "deleting"
    BY <1>1, <2>1, <2>2 DEF Session, IInv, BillingTypeOK
  <2>4. h \notin Reserved
    BY <1>9 DEF Reserved
  <2>5. DeleterInv(d)'
    BY <1>1, <1>2, <1>8, <2>3, <2>4 DEF DeleterInv
  <2> QED
    BY <1>7, <2>1, <2>2, <2>3, <2>5
<1>10. CASE session' = [session EXCEPT
                          ![d].phase = "releasing",
                          ![d].hold = h,
                          ![d].account = Tenant,
                          ![d].version = wallet[Tenant].version,
                          ![d].projection =
                            Projection(Tenant, ledger, Reserved \ {h})]
  <2>1. claimed \in Session
    BY <1>1, <1>4, <1>5 DEF Session
  <2>2. session' = [session EXCEPT ![d] = claimed]
    BY <1>1, <1>10 DEF IInv, BillingTypeOK
  <2>3. /\ session'[d].phase = "releasing" /\ session'[d].hold = h
        /\ session'[d].holds = session[d].holds
        /\ session'[d].version = wallet[Tenant].version
        /\ session'[d].projection = Projection(Tenant, ledger, Reserved \ {h})
        /\ claimed.phase = "releasing"
    BY <1>1, <2>1, <2>2 DEF Session, IInv, BillingTypeOK
  <2>4. DeleterInv(d)'
    BY <1>1, <1>2, <1>4, <1>8, <2>3 DEF DeleterInv, BeginRelease
  <2> QED
    BY <1>7, <2>1, <2>2, <2>3, <2>4
<1> QED
  BY <1>3, <1>6, <1>9, <1>10

-----------------------------------------------------------------------------
(* Steps that write rows.                                                  *)
LEMMA Assemble ==
  ASSUME IInv, RowsKept, BillingTypeOK', OneClaim', OneReconciler',
         \A x \in Sessions : session'[x] = session[x] \/ SessionInv(x)',
         \A o \in Orders : OrderInv(o)',
         \A t \in Transfers : TransferInv(t)',
         WalletIsProjection', NoStrandedHold'
  PROVE  IInv'
<1>1. \A x \in Sessions : SessionInv(x)'
  BY OthersKept
<1> QED
  BY <1>1 DEF IInv

LEMMA EventIsNotNone == NoEvent \notin Event
BY DEF NoEvent, Event

LEMMA CustomerKeeps ==
  ASSUME IInv, NEW o \in Orders,
         CreateOrder(o) \/ PassExpiry(o) \/ ExpireOrder(o)
  PROVE  IInv'
<1>1. UNCHANGED <<webhook, payment, ledger, hold, wallet, assessment, session>>
  BY DEF CreateOrder, PassExpiry, ExpireOrder
<1>2. /\ order' \in [Orders -> [status : OrderStatuses, overdue : BOOLEAN]]
      /\ \A x \in Orders :
           \/ order'[x] = order[x]
           \/ /\ order[x].status \in {"none", "PENDING_PAYMENT"}
              /\ order'[x].status \in {"PENDING_PAYMENT", "EXPIRED"}
  <2> DEFINE Row == [status : OrderStatuses, overdue : BOOLEAN]
  <2>1. order \in [Orders -> Row] /\ order[o] \in Row
    BY DEF IInv, BillingTypeOK
  <2>2. PICK row \in Row :
          /\ order' = [order EXCEPT ![o] = row]
          /\ order[o].status \in {"none", "PENDING_PAYMENT"}
          /\ row.status \in {"PENDING_PAYMENT", "EXPIRED"}
    <3>1. CASE CreateOrder(o)
      <4> DEFINE row == [order[o] EXCEPT !.status = "PENDING_PAYMENT"]
      <4>1. row \in Row /\ row.status = "PENDING_PAYMENT"
        BY <2>1 DEF OrderStatuses
      <4> QED
        BY <2>1, <3>1, <4>1 DEF CreateOrder
    <3>2. CASE PassExpiry(o)
      <4> DEFINE row == [order[o] EXCEPT !.overdue = TRUE]
      <4>1. row \in Row /\ row.status = order[o].status
        BY <2>1
      <4> QED
        BY <2>1, <3>2, <4>1 DEF PassExpiry
    <3>3. CASE ExpireOrder(o)
      <4> DEFINE row == [order[o] EXCEPT !.status = "EXPIRED"]
      <4>1. row \in Row /\ row.status = "EXPIRED"
        BY <2>1 DEF OrderStatuses
      <4>2. order' = [order EXCEPT ![o] = row]
            /\ order[o].status = "PENDING_PAYMENT"
        BY <2>1, <3>3 DEF ExpireOrder
      <4> HIDE DEF row
      <4> QED
        BY <4>1, <4>2
    <3> QED
      BY <3>1, <3>2, <3>3
  <2>3. order'[o] = row /\ \A x \in Orders : x # o => order'[x] = order[x]
    BY <2>1, <2>2
  <2> QED
    BY <2>1, <2>2, <2>3
<1>3. BillingTypeOK'
  BY <1>1, <1>2 DEF IInv, BillingTypeOK
<1>4. Reserved' = Reserved /\ \A x \in Orders : Matched(x)' = Matched(x)
  BY <1>1 DEF Reserved, Matched
<1>5. RowsKept
  <2>1. \A s \in Sessions : session[s].phase = "crediting" =>
          /\ session[s].order \in Orders
          /\ order[session[s].order].status \in EligibleStatuses
    BY DEF IInv, SessionInv, CreditInv
  <2>2. \A s \in Sessions : session[s].phase = "crediting" =>
          order'[session[s].order].status \in EligibleStatuses
    BY <1>2, <2>1 DEF EligibleStatuses
  <2> QED
    BY <1>1, <1>4, <2>2 DEF RowsKept
<1>6. OneClaim' /\ OneReconciler'
  BY <1>1 DEF IInv, OneClaim, OneReconciler
<1>7. \A x \in Orders : OrderInv(x)'
  BY <1>1, <1>2, <1>4 DEF IInv, OrderInv
<1>8. \A t \in Transfers : TransferInv(t)'
  BY <1>1 DEF IInv, TransferInv
<1>9. WalletIsProjection' /\ NoStrandedHold'
  BY <1>1, <1>4 DEF IInv, WalletIsProjection, NoStrandedHold
<1> QED
  BY <1>1, <1>3, <1>5, <1>6, <1>7, <1>8, <1>9, Assemble

LEMMA AcceptKeeps ==
  ASSUME IInv, NEW t \in Transfers, AcceptWebhook(t)
  PROVE  IInv'
<1>1. /\ UNCHANGED <<order, payment, ledger, hold, wallet, assessment, session>>
      /\ webhook[t] = NoEvent
  BY DEF AcceptWebhook
<1>2. webhook' \in [Transfers -> Event \cup {NoEvent}]
      /\ ~webhook'[t].processed
      /\ \A x \in Transfers : x # t => webhook'[x] = webhook[x]
  <2>1. PICK kind \in TransferKinds :
          webhook' = [webhook EXCEPT
                        ![t] = [accepted |-> TRUE, kind |-> kind,
                                processed |-> FALSE]]
    BY DEF AcceptWebhook
  <2>2. webhook \in [Transfers -> Event \cup {NoEvent}]
    BY DEF IInv, BillingTypeOK
  <2> DEFINE e == [accepted |-> TRUE, kind |-> kind, processed |-> FALSE]
  <2>3. e \in Event /\ ~e.processed
    BY DEF Event
  <2> HIDE DEF e
  <2> QED
    BY <2>1, <2>2, <2>3 DEF e
<1>3. BillingTypeOK'
  BY <1>1, <1>2 DEF IInv, BillingTypeOK
<1>4. Reserved' = Reserved /\ \A x \in Orders : Matched(x)' = Matched(x)
  BY <1>1 DEF Reserved, Matched
<1>5. RowsKept
  <2>1. \A s \in Sessions : session[s].phase = "crediting" =>
          order[session[s].order].status \in EligibleStatuses
    BY DEF IInv, SessionInv, CreditInv
  <2> QED
    BY <1>1, <1>2, <1>4, <2>1, EventIsNotNone DEF RowsKept
<1>6. OneClaim' /\ OneReconciler'
  BY <1>1 DEF IInv, OneClaim, OneReconciler
<1>7. payment[t].status = "none"
  BY <1>1, EventIsNotNone DEF IInv, TransferInv
<1>8. \A x \in Orders : OrderInv(x)'
  <2>1. \A x \in Orders : t \notin Matched(x)
    BY <1>7 DEF Matched
  <2>2. \A x \in Orders : \A y \in Matched(x) : webhook'[y] = webhook[y]
    BY <1>2, <2>1 DEF Matched
  <2> QED
    BY <1>1, <1>4, <2>2 DEF IInv, OrderInv
<1>9. \A x \in Transfers : TransferInv(x)'
  BY <1>1, <1>2, <1>7 DEF IInv, TransferInv
<1>10. WalletIsProjection' /\ NoStrandedHold'
  BY <1>1, <1>4 DEF IInv, WalletIsProjection, NoStrandedHold
<1> QED
  BY <1>1, <1>3, <1>5, <1>6, <1>8, <1>9, <1>10, Assemble

(* The end of a consumer's transaction.                                    *)
LEMMA CommitsType ==
  ASSUME BillingTypeOK, NEW c \in Consumers, Commits(c, "recorded")
  PROVE  /\ c \in Sessions
         /\ session' \in [Sessions -> Session]
         /\ session'[c].phase = "recorded"
         /\ session'[c].transfer = session[c].transfer
         /\ \A x \in Sessions : x # c => session'[x] = session[x]
<1> DEFINE k == [IdleSession EXCEPT !.phase = "recorded",
                                    !.transfer = session[c].transfer]
<1>1. c \in Sessions /\ session[c] \in Session
  BY DEF Sessions, BillingTypeOK
<1>2. session[c].transfer \in Transfers \cup {None}
  BY <1>1 DEF Session
<1>3. k \in Session
  BY <1>2, IdleType DEF Session
<1>4. /\ session' \in [Sessions -> Session]
      /\ session'[c] = k
      /\ \A x \in Sessions : x # c => session'[x] = session[x]
  BY <1>1, <1>3, OneSession DEF Commits
<1>5. k.phase = "recorded" /\ k.transfer = session[c].transfer
  BY IdleType DEF Session
<1> QED
  BY <1>1, <1>4, <1>5

(* Recording a transfer that settles nothing.                              *)
LEMMA FilesKeeps ==
  ASSUME IInv, NEW c \in Consumers,
         session[c].phase \in {"delivered", "reconciling"},
         session[c].phase = "delivered" => TransferFree(session[c].transfer),
         payment[session[c].transfer].status = "none",
         NEW status \in {"NEEDS_REVIEW", "UNMATCHED", "DUPLICATE",
                         "AMOUNT_MISMATCH"},
         NEW o \in Orders \cup {None},
         Files(session[c].transfer, status, o), Commits(c, "recorded"),
         order' \in [Orders -> [status : OrderStatuses, overdue : BOOLEAN]],
         \A x \in Orders :
           \/ order'[x] = order[x]
           \/ /\ order[x].status = "PENDING_PAYMENT"
              /\ order'[x].status \in {"EXPIRED", "PENDING_RECONCILIATION"},
         UNCHANGED <<webhook, ledger, hold, wallet, assessment>>
  PROVE  IInv'
<1> DEFINE t == session[c].transfer
<1>1. /\ c \in Sessions
      /\ session' \in [Sessions -> Session]
      /\ session'[c].phase = "recorded" /\ session'[c].transfer = t
      /\ \A x \in Sessions : x # c => session'[x] = session[x]
  BY CommitsType DEF IInv
<1>2. ConsumerInv(c) /\ t \in Transfers /\ webhook[t] \in Event
  BY <1>1 DEF IInv, SessionInv, ConsumerInv
<1> DEFINE p == [status |-> status, order |-> o, version |-> 0,
                 user |-> IF o = None THEN None ELSE Owner[o]]
<1>3. p \in Payment
  BY BillingAssumption DEF Payment, PaymentStatuses
<1>4. payment' = [payment EXCEPT ![t] = p] /\ payment \in [Transfers -> Payment]
  BY DEF Files, IInv, BillingTypeOK
<1>5. payment'[t] = p /\ \A x \in Transfers : x # t => payment'[x] = payment[x]
  BY <1>2, <1>4
<1>6. BillingTypeOK'
  BY <1>1, <1>3, <1>4 DEF IInv, BillingTypeOK
<1>7. Reserved' = Reserved
  BY DEF Reserved
<1>8. \A x \in Orders : Matched(x)' = Matched(x)
  BY <1>5 DEF Matched
<1>9. RowsKept
  <2>1. \A s \in Sessions : session[s].phase = "crediting" =>
          order'[session[s].order].status \in EligibleStatuses
    BY DEF IInv, SessionInv, CreditInv, EligibleStatuses
  <2>2. \A x \in Consumers :
          session[x].phase \in {"reconciling", "crediting"} /\ x # c
          => session[x].transfer # t /\ session[x].transfer \in Transfers
    <3>1. \A x \in Consumers : x \in Sessions /\ ConsumerInv(x)
      BY DEF IInv, SessionInv, Sessions
    <3> QED
      BY <3>1 DEF IInv, OneReconciler, TransferFree, ConsumerInv
  <2>3. \A x \in Consumers :
          session[x].phase \in {"reconciling", "crediting"}
          /\ session'[x] = session[x]
          => payment'[session[x].transfer] = payment[session[x].transfer]
    BY <1>1, <1>5, <2>2
  <2>4. \A x \in Transfers :
          payment[x].status # "none" => payment'[x] = payment[x]
    BY <1>5
  <2> QED
    BY <1>7, <2>1, <2>3, <2>4 DEF RowsKept
<1>10. OneClaim' /\ OneReconciler'
  BY <1>1, ClaimsKept DEF IInv
<1>11. SessionInv(c)'
  <2>1. ConsumerInv(c)'
    BY <1>1, <1>2, <1>5 DEF ConsumerInv
  <2>2. CreditInv(c)'
    BY <1>1 DEF CreditInv
  <2> QED
    BY <1>1, <2>1, <2>2, Roles DEF SessionInv
<1>12. \A x \in Orders : OrderInv(x)'
  <2>1. \A x \in Orders : \A y \in Matched(x) : y # t /\ y \in Transfers
    BY DEF Matched
  <2>2. \A x \in Orders : \A y \in Matched(x) : payment'[y] = payment[y]
    BY <1>5, <2>1
  <2>3. \A x \in Orders :
          order'[x].status = "CREDITED" <=> order[x].status = "CREDITED"
    OBVIOUS
  <2> QED
    BY <1>8, <2>2, <2>3 DEF IInv, OrderInv
<1>13. \A x \in Transfers : TransferInv(x)'
  BY <1>2, <1>5 DEF IInv, TransferInv
<1>14. WalletIsProjection' /\ NoStrandedHold'
  BY <1>7 DEF IInv, WalletIsProjection, NoStrandedHold
<1> QED
  BY <1>1, <1>6, <1>9, <1>10, <1>11, <1>12, <1>13, <1>14, Assemble

LEMMA BeginReconcileKeeps ==
  ASSUME IInv, NEW c \in Consumers, BeginReconcile(c)
  PROVE  IInv'
<1> DEFINE t    == session[c].transfer
           kind == webhook[t].kind
<1>1. c \in Sessions /\ session[c] \in Session /\ session[c].phase = "delivered"
  BY DEF Sessions, IInv, BillingTypeOK, BeginReconcile
<1>2. ConsumerInv(c) /\ t \in Transfers /\ webhook[t] \in Event
  BY <1>1 DEF IInv, SessionInv, ConsumerInv
<1>3. UNCHANGED <<order, webhook, ledger, hold, wallet, assessment>>
      /\ TransferFree(t)
  BY DEF BeginReconcile
<1>4. CASE payment[t].status # "none"
  <2>1. Commits(c, "recorded") /\ UNCHANGED payment
    BY <1>4 DEF BeginReconcile
  <2>2. /\ session' \in [Sessions -> Session]
        /\ session'[c].phase = "recorded" /\ session'[c].transfer = t
        /\ \A x \in Sessions : x # c => session'[x] = session[x]
    BY <2>1, CommitsType DEF IInv
  <2>3. SessionInv(c)'
    <3>1. ConsumerInv(c)'
      BY <1>2, <1>3, <1>4, <2>1, <2>2 DEF ConsumerInv
    <3> QED
      BY <1>1, <2>2, <3>1, Roles DEF SessionInv, CreditInv
  <2>4. OneClaim' /\ OneReconciler'
    BY <1>1, <2>2, ClaimsKept DEF IInv
  <2> QED
    BY <1>1, <1>3, <2>1, <2>2, <2>3, <2>4, SessionStep
<1>5. CASE payment[t].status = "none"
  <2>1. order' \in [Orders -> [status : OrderStatuses, overdue : BOOLEAN]]
    BY <1>3 DEF IInv, BillingTypeOK
  <2>2. ASSUME NEW status \in {"NEEDS_REVIEW", "UNMATCHED", "DUPLICATE"},
               NEW o \in Orders \cup {None},
               Files(t, status, o), Commits(c, "recorded")
        PROVE  IInv'
    BY <1>1, <1>3, <1>5, <2>1, <2>2, FilesKeeps
  <2>3. ASSUME NEW o \in Orders, kind.direction = "IN", kind.codes = {o},
               order[o].status = "PENDING_PAYMENT", UNCHANGED payment,
               session' = [session EXCEPT
                             ![c].phase = "reconciling",
                             ![c].order = o,
                             ![c].status = Target(o, kind.amount),
                             ![c].account = Owner[o]]
        PROVE  IInv'
    <3> DEFINE k == [session[c] EXCEPT
                       !.phase = "reconciling", !.order = o,
                       !.status = Target(o, kind.amount), !.account = Owner[o]]
    <3>1. /\ Target(o, kind.amount)
               \in {"EXPIRED", "PENDING_RECONCILIATION", "CREDITED"}
          /\ Target(o, kind.amount) = "CREDITED" => kind.amount = Price[o]
      BY DEF Target, IInv, BillingTypeOK
    <3>2. Owner[o] \in Users
      BY BillingAssumption
    <3>3. k \in Session
      BY <1>1, <3>1, <3>2 DEF Session, OrderStatuses
    <3>4. session' = [session EXCEPT ![c] = k]
      BY <1>1, <2>3 DEF IInv, BillingTypeOK
    <3>5. /\ session' \in [Sessions -> Session]
          /\ session'[c] = k
          /\ \A x \in Sessions : x # c => session'[x] = session[x]
      BY <1>1, <3>3, <3>4, OneSession DEF IInv
    <3>6. /\ session'[c].phase = "reconciling" /\ session'[c].order = o
          /\ session'[c].transfer = t
          /\ session'[c].status = Target(o, kind.amount)
      BY <1>1, <3>5 DEF Session
    <3>7. SessionInv(c)'
      <4>1. ConsumerInv(c)'
        BY <1>2, <1>3, <1>5, <2>3, <3>1, <3>6 DEF ConsumerInv
      <4> QED
        BY <1>1, <3>6, <4>1, Roles DEF SessionInv, CreditInv
    <3>8. OneClaim' /\ OneReconciler'
      BY <1>1, <1>3, <3>5, <3>6, ClaimsKept DEF IInv
    <3> QED
      BY <1>1, <1>3, <2>3, <3>5, <3>7, <3>8, SessionStep
  <2>4. \/ \E status \in {"NEEDS_REVIEW", "UNMATCHED", "DUPLICATE"} :
             \E o \in Orders \cup {None} :
               Files(t, status, o) /\ Commits(c, "recorded")
        \/ \E o \in Orders :
             /\ kind.direction = "IN" /\ kind.codes = {o}
             /\ order[o].status = "PENDING_PAYMENT" /\ UNCHANGED payment
             /\ session' = [session EXCEPT
                              ![c].phase = "reconciling",
                              ![c].order = o,
                              ![c].status = Target(o, kind.amount),
                              ![c].account = Owner[o]]
    BY <1>5, Zenon DEF BeginReconcile
  <2> QED
    BY <2>2, <2>3, <2>4
<1> QED
  BY <1>4, <1>5

LEMMA MoveOrderKeeps ==
  ASSUME IInv, NEW c \in Consumers, MoveOrder(c)
  PROVE  IInv'
<1> DEFINE o == session[c].order
<1>1. c \in Sessions /\ session[c].phase = "reconciling"
  BY DEF Sessions, MoveOrder
<1>2. /\ o \in Orders /\ payment[session[c].transfer].status = "none"
      /\ session[c].status \in {"EXPIRED", "PENDING_RECONCILIATION"}
  BY <1>1 DEF IInv, SessionInv, ConsumerInv, MoveOrder
<1>3. order \in [Orders -> [status : OrderStatuses, overdue : BOOLEAN]]
  BY DEF IInv, BillingTypeOK
<1>4. /\ order' \in [Orders -> [status : OrderStatuses, overdue : BOOLEAN]]
      /\ \A x \in Orders :
           \/ order'[x] = order[x]
           \/ /\ order[x].status = "PENDING_PAYMENT"
              /\ order'[x].status \in {"EXPIRED", "PENDING_RECONCILIATION"}
  <2>1. CASE Movable(o)
    <3> DEFINE row == [order[o] EXCEPT !.status = session[c].status]
    <3>1. row \in [status : OrderStatuses, overdue : BOOLEAN]
          /\ row.status = session[c].status
      BY <1>2, <1>3 DEF OrderStatuses
    <3>2. order' = [order EXCEPT ![o] = row]
          /\ order[o].status = "PENDING_PAYMENT"
      BY <1>2, <1>3, <2>1 DEF MoveOrder, Movable
    <3> HIDE DEF row
    <3> QED
      BY <1>2, <1>3, <3>1, <3>2
  <2>2. CASE ~Movable(o)
    BY <1>3, <2>2 DEF MoveOrder
  <2> QED
    BY <2>1, <2>2
<1>5. PICK status \in {"NEEDS_REVIEW", "AMOUNT_MISMATCH"} :
        Files(session[c].transfer, status, o)
  BY DEF MoveOrder
<1>6. Commits(c, "recorded")
      /\ UNCHANGED <<webhook, ledger, hold, wallet, assessment>>
  BY DEF MoveOrder
<1> QED
  BY <1>1, <1>2, <1>4, <1>5, <1>6, FilesKeeps

LEMMA ClaimByTransferKeeps ==
  ASSUME IInv, NEW c \in Consumers, ClaimByTransfer(c)
  PROVE  IInv'
<1> DEFINE o == session[c].order
<1>1. /\ c \in Sessions /\ session[c].phase = "reconciling"
      /\ session[c].status = "CREDITED" /\ RowFree(o)
      /\ UNCHANGED <<order, webhook, ledger, hold, wallet, assessment>>
  BY DEF Sessions, ClaimByTransfer
<1>2. o \in Orders /\ payment[session[c].transfer].status = "none"
  BY <1>1 DEF IInv, SessionInv, ConsumerInv
<1>3. CASE Movable(o) /\ ClaimOrder(c) /\ UNCHANGED payment
  BY <1>1, <1>3, Roles, ClaimKeeps DEF Movable, EligibleStatuses
<1>4. CASE /\ Commits(c, "recorded")
           /\ \E status \in {"DUPLICATE", "NEEDS_REVIEW"} :
                Files(session[c].transfer, status, o)
  <2>1. order' \in [Orders -> [status : OrderStatuses, overdue : BOOLEAN]]
    BY <1>1 DEF IInv, BillingTypeOK
  <2> QED
    BY <1>1, <1>2, <1>4, <2>1, FilesKeeps
<1> QED
  BY <1>3, <1>4 DEF ClaimByTransfer

(* The credit: the order, the ledger, the wallet and the matched payment    *)
(* change together, for a consumer and for an administrator.               *)
LEMMA CreditKeeps ==
  ASSUME IInv, NEW s \in Consumers \cup Admins, session[s].phase = "crediting",
         CanCredit(s), CreditOrder(s),
         NEW t \in Transfers, NEW p \in Payment,
         payment' = [payment EXCEPT ![t] = p],
         p.status = "MATCHED", p.order = session[s].order,
         p.user = Owner[session[s].order],
         payment[t].status # "MATCHED",
         payment[t].status # "none" => p.version > payment[t].version,
         webhook[t] \in Event,
         webhook[t].kind.amount = Price[session[s].order],
         \A x \in Consumers :
           x # s /\ session[x].phase \in {"reconciling", "crediting"}
           => session[x].transfer # t,
         session' \in [Sessions -> Session],
         \A x \in Sessions : x # s => session'[x] = session[x],
         session'[s].phase \notin {"crediting", "reconciling"},
         SessionInv(s)',
         UNCHANGED <<webhook, hold, assessment>>
  PROVE  IInv'
<1> DEFINE o == session[s].order
           u == Owner[o]
<1>1. s \in Sessions /\ session[s] \in Session /\ CreditInv(s)
  BY DEF Sessions, IInv, BillingTypeOK, SessionInv
<1>2. o \in Orders /\ u \in Users /\ order[o].status \in EligibleStatuses
  BY <1>1, BillingAssumption DEF CreditInv
<1>3. o \notin ledger
  BY <1>2 DEF IInv, OrderInv, EligibleStatuses
<1>4. /\ order \in [Orders -> [status : OrderStatuses, overdue : BOOLEAN]]
      /\ payment \in [Transfers -> Payment] /\ ledger \subseteq Orders
      /\ wallet \in [Users -> [balances : Balances, version : Nat]]
  BY DEF IInv, BillingTypeOK
<1>5. /\ order' = [order EXCEPT ![o].status = "CREDITED"]
      /\ ledger' = ledger \cup {o}
      /\ wallet' = [wallet EXCEPT
                      ![u] = [balances |-> session[s].projection,
                              version |-> wallet[u].version + 1]]
  BY <1>2, <1>3, <1>4 DEF CreditOrder, WriteWallet
<1>6. session[s].projection = Projection(u, ledger', Reserved)
  BY <1>1, <1>3, <1>5 DEF CanCredit, WalletIs, CreditInv
<1>7. session[s].projection \in Balances
  BY <1>1 DEF Session
<1>8. /\ order' \in [Orders -> [status : OrderStatuses, overdue : BOOLEAN]]
      /\ order'[o].status = "CREDITED"
      /\ \A x \in Orders : x # o => order'[x] = order[x]
  <2> DEFINE row == [order[o] EXCEPT !.status = "CREDITED"]
  <2>1. row \in [status : OrderStatuses, overdue : BOOLEAN]
        /\ row.status = "CREDITED"
    BY <1>2, <1>4 DEF OrderStatuses
  <2>2. order' = [order EXCEPT ![o] = row]
    BY <1>2, <1>4, <1>5
  <2> HIDE DEF row
  <2> QED
    BY <1>2, <1>4, <2>1, <2>2
<1>9. /\ wallet' \in [Users -> [balances : Balances, version : Nat]]
      /\ wallet'[u].balances = session[s].projection
      /\ wallet'[u].version > wallet[u].version
      /\ \A x \in Users : x # u => wallet'[x] = wallet[x]
  <2> DEFINE row == [balances |-> session[s].projection,
                     version |-> wallet[u].version + 1]
  <2>1. wallet[u].version \in Nat
    BY <1>2, <1>4
  <2>2. row \in [balances : Balances, version : Nat]
        /\ row.balances = session[s].projection
        /\ row.version > wallet[u].version
    BY <1>7, <2>1
  <2> HIDE DEF row
  <2>3. wallet' = [wallet EXCEPT ![u] = row]
    BY <1>5 DEF row
  <2> QED
    BY <1>2, <1>4, <2>2, <2>3
<1>10. /\ payment' \in [Transfers -> Payment] /\ payment'[t] = p
       /\ \A x \in Transfers : x # t => payment'[x] = payment[x]
  BY <1>4
<1>11. BillingTypeOK'
  BY <1>4, <1>5, <1>8, <1>9, <1>10, <1>2 DEF IInv, BillingTypeOK
<1>12. Reserved' = Reserved
  BY DEF Reserved
<1>13. RowsKept
  <2>1. \A x \in Users :
          \/ wallet'[x].version > wallet[x].version
          \/ /\ wallet'[x] = wallet[x]
             /\ {z \in ledger' : Owner[z] = x} = {z \in ledger : Owner[z] = x}
    BY <1>5, <1>9
  <2>2. \A x \in Sessions :
          session[x].phase = "crediting" /\ session'[x] = session[x]
          => order'[session[x].order].status \in EligibleStatuses
    <3>1. \A x \in Sessions : session[x].phase = "crediting" =>
            /\ session[x].order \in Orders
            /\ order[session[x].order].status \in EligibleStatuses
            /\ x # s => session[x].order # o
      BY <1>1 DEF IInv, SessionInv, CreditInv, OneClaim
    <3> QED
      BY <1>1, <1>8, <3>1
  <2>3. \A x \in Consumers :
          session[x].phase \in {"reconciling", "crediting"}
          /\ session'[x] = session[x]
          => payment'[session[x].transfer] = payment[session[x].transfer]
    <3>1. \A x \in Consumers :
            session[x].phase \in {"reconciling", "crediting"}
            => session[x].transfer \in Transfers
      BY DEF IInv, SessionInv, ConsumerInv, Sessions
    <3> QED
      BY <1>1, <1>10, <3>1
  <2>4. \A x \in Transfers :
          payment[x].status # "none" =>
            \/ payment'[x] = payment[x]
            \/ /\ payment'[x].status # "none"
               /\ payment'[x].version > payment[x].version
    BY <1>10
  <2> QED
    BY <1>12, <2>1, <2>2, <2>3, <2>4 DEF RowsKept
<1>14. OneClaim' /\ OneReconciler'
  BY <1>1, ClaimsKept DEF IInv
<1>15. \A x \in Orders : OrderInv(x)'
  <2>1. \A x \in Orders : OrderInv(x) /\ t \notin Matched(x)
    BY DEF IInv, Matched
  <2>2. Matched(o) = {}
    BY <1>2, <1>3, <2>1 DEF OrderInv
  <2>3. ASSUME NEW x \in Orders, x = o
        PROVE  OrderInv(x)'
    <3>1. \A y \in Transfers : y # t =>
            ~(payment[y].status = "MATCHED" /\ payment[y].order = x)
      BY <2>2, <2>3 DEF Matched
    <3>2. Matched(x)' = {t}
      BY <1>10, <2>3, <3>1 DEF Matched
    <3> QED
      BY <1>5, <1>8, <1>10, <2>3, <3>2 DEF OrderInv
  <2>4. ASSUME NEW x \in Orders, x # o
        PROVE  OrderInv(x)'
    <3>1. Matched(x)' = Matched(x)
      BY <1>10, <2>1, <2>4 DEF Matched
    <3>2. \A y \in Matched(x) : payment'[y] = payment[y]
      BY <1>10, <2>1 DEF Matched
    <3> QED
      BY <1>5, <1>8, <2>1, <2>4, <3>1, <3>2 DEF OrderInv
  <2> QED
    BY <2>3, <2>4
<1>16. \A x \in Transfers : TransferInv(x)'
  BY <1>10 DEF IInv, TransferInv
<1>17. WalletIsProjection'
  <2>1. wallet'[u].balances = Projection(u, ledger', Reserved')
    BY <1>6, <1>9, <1>12
  <2>2. ASSUME NEW x \in Users, x # u
        PROVE  wallet'[x].balances = Projection(x, ledger', Reserved')
    <3>1. wallet[x].balances = Projection(x, ledger, Reserved)
      BY DEF IInv, WalletIsProjection
    <3>2. {z \in ledger' : Owner[z] = x} = {z \in ledger : Owner[z] = x}
      BY <1>5, <2>2
    <3>3. Projection(x, ledger', Reserved') = Projection(x, ledger, Reserved)
      BY <1>12, <3>2, SameProjection
    <3> QED
      BY <1>9, <2>2, <3>1, <3>3
  <2> QED
    BY <2>1, <2>2 DEF WalletIsProjection
<1>18. NoStrandedHold'
  BY DEF IInv, NoStrandedHold
<1> QED
  BY <1>1, <1>11, <1>13, <1>14, <1>15, <1>16, <1>17, <1>18, Assemble

LEMMA CommitTransferKeeps ==
  ASSUME IInv, NEW c \in Consumers, CommitTransfer(c)
  PROVE  IInv'
<1> DEFINE t == session[c].transfer
           o == session[c].order
           p == [status |-> "MATCHED", order |-> o, version |-> 0,
                 user |-> IF o = None THEN None ELSE Owner[o]]
<1>1. /\ session[c].phase = "crediting" /\ CanCredit(c) /\ CreditOrder(c)
      /\ Files(t, "MATCHED", o) /\ Commits(c, "recorded")
      /\ UNCHANGED <<webhook, hold, assessment>>
  BY DEF CommitTransfer
<1>2. /\ c \in Sessions
      /\ session' \in [Sessions -> Session]
      /\ session'[c].phase = "recorded" /\ session'[c].transfer = t
      /\ \A x \in Sessions : x # c => session'[x] = session[x]
  BY <1>1, CommitsType DEF IInv
<1>3. ConsumerInv(c)
  BY <1>2 DEF IInv, SessionInv
<1>4. /\ t \in Transfers /\ o \in Orders /\ payment[t].status = "none"
      /\ webhook[t] \in Event /\ webhook[t].kind.amount = Price[o]
  BY <1>1, <1>3 DEF ConsumerInv
<1>5. o # None /\ Owner[o] \in Users
  BY <1>4, BillingAssumption
<1>6. p \in Payment /\ p.user = Owner[o]
  BY <1>4, <1>5 DEF Payment, PaymentStatuses
<1>7. payment' = [payment EXCEPT ![t] = p]
  BY <1>1 DEF Files
<1>8. payment'[t].status # "none"
  BY <1>4, <1>7 DEF IInv, BillingTypeOK
<1>9. SessionInv(c)'
  <2>1. ConsumerInv(c)'
    BY <1>1, <1>2, <1>4, <1>8 DEF ConsumerInv
  <2> QED
    BY <1>2, <2>1, Roles DEF SessionInv, CreditInv
<1>10. \A x \in Consumers :
         x # c /\ session[x].phase \in {"reconciling", "crediting"}
         => session[x].transfer # t
  BY <1>1 DEF IInv, OneReconciler
<1>11. p.status = "MATCHED" /\ p.order = o
  OBVIOUS
<1> HIDE DEF p
<1> QED
  BY <1>1, <1>2, <1>4, <1>6, <1>7, <1>9, <1>10, <1>11, CreditKeeps

LEMMA CommitResolveKeeps ==
  ASSUME IInv, NEW a \in Admins, CommitResolve(a)
  PROVE  IInv'
<1> DEFINE t == session[a].transfer
           o == session[a].order
           p == [status |-> "MATCHED", order |-> o,
                 user |-> Owner[o], version |-> payment[t].version + 1]
<1>1. /\ session[a].phase = "crediting" /\ CanCredit(a) /\ CreditOrder(a)
      /\ payment[t].version = session[a].read.version
      /\ EndSession(a)
      /\ UNCHANGED <<webhook, hold, assessment>>
  BY DEF CommitResolve
<1>2. a \in Sessions /\ AdminInv(a)
  BY DEF Sessions, IInv, SessionInv
<1>3. /\ session' \in [Sessions -> Session]
      /\ session'[a] = IdleSession
      /\ \A x \in Sessions : x # a => session'[x] = session[x]
  BY <1>1, <1>2, OneSession, IdleType DEF EndSession, IInv
<1>4. session'[a].phase = "idle"
  BY <1>3 DEF IdleSession
<1>5. /\ t \in Transfers /\ o \in Orders
      /\ payment[t].status \notin {"none", "MATCHED"}
      /\ webhook[t].kind.amount = Price[o]
  BY <1>1, <1>2 DEF AdminInv
<1>6. webhook[t] \in Event
  BY <1>5 DEF IInv, TransferInv
<1>7. payment[t].version \in Nat /\ Owner[o] \in Users
  BY <1>5, BillingAssumption DEF IInv, BillingTypeOK, Payment
<1>8. p \in Payment /\ p.version > payment[t].version
  BY <1>5, <1>7 DEF Payment, PaymentStatuses
<1>9. payment' = [payment EXCEPT ![t] = p]
  BY <1>5 DEF CommitResolve, IInv, BillingTypeOK
<1>10. SessionInv(a)'
  BY <1>2, <1>4, Idle
<1>11. \A x \in Consumers :
         session[x].phase \in {"reconciling", "crediting"}
         => session[x].transfer # t
  BY <1>5 DEF IInv, SessionInv, ConsumerInv, Sessions
<1>12. p.status = "MATCHED" /\ p.order = o /\ p.user = Owner[o]
  OBVIOUS
<1> HIDE DEF p
<1> QED
  BY <1>1, <1>3, <1>4, <1>5, <1>6, <1>8, <1>9, <1>10, <1>11, <1>12, CreditKeeps

LEMMA MarkProcessedKeeps ==
  ASSUME IInv, NEW c \in Consumers, MarkProcessed(c)
  PROVE  IInv'
<1> DEFINE t == session[c].transfer
           k == [session[c] EXCEPT !.phase = "processed"]
<1>1. /\ c \in Sessions /\ session[c] \in Session
      /\ session[c].phase = "recorded" /\ ConsumerInv(c)
      /\ UNCHANGED <<order, payment, ledger, hold, wallet, assessment>>
  BY DEF Sessions, IInv, BillingTypeOK, SessionInv, MarkProcessed, Markable
<1>2. t \in Transfers /\ webhook[t] \in Event /\ payment[t].status # "none"
  BY <1>1 DEF ConsumerInv
<1>3. /\ session' \in [Sessions -> Session]
      /\ session'[c] = k
      /\ \A x \in Sessions : x # c => session'[x] = session[x]
  <2>1. k \in Session
    BY <1>1 DEF Session
  <2>2. session' = [session EXCEPT ![c] = k]
    BY <1>1 DEF MarkProcessed, Goes, IInv, BillingTypeOK
  <2> QED
    BY <1>1, <2>1, <2>2, OneSession DEF IInv
<1>4. session'[c].phase = "processed" /\ session'[c].transfer = t
  BY <1>1, <1>3 DEF Session
<1>5. /\ webhook' \in [Transfers -> Event \cup {NoEvent}]
      /\ webhook'[t] \in Event /\ webhook'[t].kind = webhook[t].kind
      /\ \A x \in Transfers : x # t => webhook'[x] = webhook[x]
  <2> DEFINE e == [webhook[t] EXCEPT !.processed = TRUE]
  <2>1. e \in Event /\ e.kind = webhook[t].kind
    BY <1>2 DEF Event
  <2>2. webhook \in [Transfers -> Event \cup {NoEvent}]
    BY DEF IInv, BillingTypeOK
  <2>3. webhook' = [webhook EXCEPT ![t] = e]
    BY <1>2, <2>2 DEF MarkProcessed
  <2> HIDE DEF e
  <2> QED
    BY <1>2, <2>1, <2>2, <2>3
<1>6. BillingTypeOK'
  BY <1>1, <1>3, <1>5 DEF IInv, BillingTypeOK
<1>7. Reserved' = Reserved /\ \A x \in Orders : Matched(x)' = Matched(x)
  BY <1>1 DEF Reserved, Matched
<1>8. RowsKept
  <2>1. \A s \in Sessions : session[s].phase = "crediting" =>
          order[session[s].order].status \in EligibleStatuses
    BY DEF IInv, SessionInv, CreditInv
  <2> QED
    BY <1>1, <1>5, <1>7, <2>1 DEF RowsKept
<1>9. OneClaim' /\ OneReconciler'
  BY <1>1, <1>3, <1>4, ClaimsKept DEF IInv
<1>10. SessionInv(c)'
  <2>1. ConsumerInv(c)'
    BY <1>1, <1>2, <1>4, <1>5 DEF ConsumerInv
  <2> QED
    BY <1>1, <1>4, <2>1, Roles DEF SessionInv, CreditInv
<1>11. \A x \in Orders : OrderInv(x)'
  <2>1. \A y \in Transfers : webhook[y] \in Event =>
          webhook'[y].kind = webhook[y].kind
    BY <1>5
  <2>2. \A x \in Orders : \A y \in Matched(x) :
          webhook'[y].kind = webhook[y].kind
    BY <2>1 DEF Matched, IInv, TransferInv
  <2> QED
    BY <1>1, <1>7, <2>2 DEF IInv, OrderInv
<1>12. \A x \in Transfers : TransferInv(x)'
  BY <1>1, <1>2, <1>5 DEF IInv, TransferInv
<1>13. WalletIsProjection' /\ NoStrandedHold'
  BY <1>1, <1>7 DEF IInv, WalletIsProjection, NoStrandedHold
<1> QED
  BY <1>3, <1>6, <1>8, <1>9, <1>10, <1>11, <1>12, <1>13, Assemble

LEMMA RejectKeeps ==
  ASSUME IInv, NEW a \in Admins, Reject(a)
  PROVE  IInv'
<1> DEFINE t == session[a].transfer
<1>1. /\ a \in Sessions /\ session[a].phase = "deciding" /\ AdminInv(a)
      /\ EndSession(a)
      /\ UNCHANGED <<order, webhook, ledger, hold, wallet, assessment>>
  BY DEF Sessions, IInv, SessionInv, Reject
<1>2. t \in Transfers /\ payment[t].status # "none"
  BY <1>1 DEF AdminInv
<1>3. CASE UNCHANGED payment
  BY <1>1, <1>3, RollBackKeeps DEF RollBack
<1>4. CASE /\ StillUndecided(a)
           /\ payment' = [payment EXCEPT ![t].status = "REJECTED",
                                         ![t].version = @ + 1]
  <2>1. payment \in [Transfers -> Payment] /\ payment[t] \in Payment
        /\ payment[t].status # "MATCHED"
    BY <1>2, <1>4 DEF IInv, BillingTypeOK, StillUndecided
  <2> DEFINE p == [payment[t] EXCEPT !.status = "REJECTED",
                                     !.version = @ + 1]
  <2>2. p \in Payment /\ p.status = "REJECTED" /\ p.version > payment[t].version
    <3>1. payment[t].version \in Nat
      BY <2>1 DEF Payment
    <3>2. p.status = "REJECTED" /\ p.version = payment[t].version + 1
      BY <2>1 DEF Payment
    <3>3. "REJECTED" \in PaymentStatuses /\ payment[t].version + 1 \in Nat
      BY <3>1 DEF PaymentStatuses
    <3>4. \A q \in Payment, s \in PaymentStatuses, n \in Nat :
            [q EXCEPT !.status = s, !.version = n] \in Payment
      BY DEF Payment
    <3>5. p \in Payment
      BY <2>1, <3>3, <3>4, Zenon
    <3> QED
      BY <3>1, <3>2, <3>5
  <2>3. payment' = [payment EXCEPT ![t] = p]
    BY <1>2, <1>4, <2>1
  <2> HIDE DEF p
  <2>4. /\ payment' \in [Transfers -> Payment] /\ payment'[t] = p
        /\ \A x \in Transfers : x # t => payment'[x] = payment[x]
    BY <1>2, <2>1, <2>2, <2>3
  <2>5. /\ session' \in [Sessions -> Session]
        /\ session'[a] = IdleSession
        /\ \A x \in Sessions : x # a => session'[x] = session[x]
    BY <1>1, OneSession, IdleType DEF EndSession, IInv
  <2>6. session'[a].phase = "idle" /\ SessionInv(a)'
    BY <1>1, <2>5, Idle DEF IdleSession
  <2>7. BillingTypeOK'
    BY <1>1, <2>4, <2>5 DEF IInv, BillingTypeOK
  <2>8. Reserved' = Reserved
    BY <1>1 DEF Reserved
  <2>9. \A x \in Orders : t \notin Matched(x) /\ Matched(x)' = Matched(x)
    BY <2>1, <2>2, <2>4 DEF Matched
  <2>10. RowsKept
    <3>1. \A s \in Sessions : session[s].phase = "crediting" =>
            order[session[s].order].status \in EligibleStatuses
      BY DEF IInv, SessionInv, CreditInv
    <3>2. \A x \in Consumers :
            session[x].phase \in {"reconciling", "crediting"}
            => payment'[session[x].transfer] = payment[session[x].transfer]
      <4>1. \A x \in Consumers :
              session[x].phase \in {"reconciling", "crediting"}
              => /\ session[x].transfer \in Transfers
                 /\ session[x].transfer # t
        BY <1>2 DEF IInv, SessionInv, ConsumerInv, Sessions
      <4> QED
        BY <2>4, <4>1
    <3> QED
      BY <1>1, <2>2, <2>4, <2>8, <3>1, <3>2 DEF RowsKept
  <2>11. OneClaim' /\ OneReconciler'
    BY <1>1, <2>5, <2>6, ClaimsKept DEF IInv
  <2>12. \A x \in Orders : OrderInv(x)'
    <3>1. \A x \in Orders : \A y \in Matched(x) : payment'[y] = payment[y]
      BY <2>4, <2>9 DEF Matched
    <3> QED
      BY <1>1, <2>9, <3>1 DEF IInv, OrderInv
  <2>13. \A x \in Transfers : TransferInv(x)'
    BY <1>1, <1>2, <2>2, <2>4 DEF IInv, TransferInv
  <2>14. WalletIsProjection' /\ NoStrandedHold'
    BY <1>1, <2>8 DEF IInv, WalletIsProjection, NoStrandedHold
  <2> QED
    BY <2>5, <2>6, <2>7, <2>10, <2>11, <2>12, <2>13, <2>14, Assemble
<1> QED
  BY <1>3, <1>4 DEF Reject

LEMMA CommitReleaseKeeps ==
  ASSUME IInv, NEW d \in Deleters, CommitRelease(d)
  PROVE  IInv'
<1> DEFINE h == session[d].hold
           rest == session[d].holds \ {h}
<1>1. /\ d \in Sessions /\ session[d] \in Session
      /\ session[d].phase = "releasing" /\ DeleterInv(d)
      /\ UNCHANGED <<order, webhook, payment, ledger, assessment>>
  BY DEF Sessions, IInv, BillingTypeOK, SessionInv, CommitRelease
<1>2. /\ h \in Holds /\ Tenant \in Users
      /\ session[d].projection = Projection(Tenant, ledger, Reserved \ {h})
  BY <1>1, BillingAssumption DEF DeleterInv, CommitRelease, WalletIs
<1>3. /\ hold' \in [Holds -> [status : {"RESERVED", "RELEASED"},
                              linked : BOOLEAN]]
      /\ hold'[h].status = "RELEASED" /\ hold'[h].linked = hold[h].linked
      /\ \A x \in Holds : x # h => hold'[x] = hold[x]
  BY <1>2 DEF CommitRelease, IInv, BillingTypeOK
<1>4. Reserved' = Reserved \ {h}
  BY <1>3 DEF Reserved
<1>5. /\ wallet' \in [Users -> [balances : Balances, version : Nat]]
      /\ wallet'[Tenant].balances = session[d].projection
      /\ wallet'[Tenant].version > wallet[Tenant].version
      /\ \A x \in Users : x # Tenant => wallet'[x] = wallet[x]
  <2>1. wallet \in [Users -> [balances : Balances, version : Nat]]
        /\ wallet[Tenant].version \in Nat
    BY <1>2 DEF IInv, BillingTypeOK
  <2> DEFINE row == [balances |-> session[d].projection,
                     version |-> wallet[Tenant].version + 1]
  <2>2. row \in [balances : Balances, version : Nat]
        /\ row.balances = session[d].projection
        /\ row.version > wallet[Tenant].version
    BY <1>1, <2>1 DEF Session
  <2>3. wallet' = [wallet EXCEPT ![Tenant] = row]
    BY <1>2, <2>1 DEF CommitRelease, WriteWallet
  <2> HIDE DEF row
  <2> QED
    BY <1>2, <2>1, <2>2, <2>3
<1>6. /\ session' \in [Sessions -> Session]
      /\ session'[d].phase = "deleting" /\ session'[d].holds = rest
      /\ \A x \in Sessions : x # d => session'[x] = session[x]
  <2> DEFINE k == [IdleSession EXCEPT !.phase = "deleting", !.holds = rest]
  <2>1. k \in Session /\ k.phase = "deleting" /\ k.holds = rest
    BY <1>1, IdleType DEF Session
  <2>2. session' = [session EXCEPT ![d] = k]
    BY DEF CommitRelease
  <2> HIDE DEF k
  <2>3. /\ session' \in [Sessions -> Session]
        /\ session'[d] = k
        /\ \A x \in Sessions : x # d => session'[x] = session[x]
    BY <1>1, <2>1, <2>2, OneSession DEF IInv
  <2> QED
    BY <2>1, <2>3
<1>7. BillingTypeOK'
  BY <1>1, <1>3, <1>5, <1>6 DEF IInv, BillingTypeOK
<1>8. RowsKept
  <2>1. \A s \in Sessions : session[s].phase = "crediting" =>
          order[session[s].order].status \in EligibleStatuses
    BY DEF IInv, SessionInv, CreditInv
  <2> QED
    BY <1>1, <1>4, <1>5, <2>1 DEF RowsKept
<1>9. OneClaim' /\ OneReconciler'
  BY <1>1, <1>6, ClaimsKept, Roles DEF IInv
<1>10. SessionInv(d)'
  <2>1. DeleterInv(d)'
    BY <1>1, <1>4, <1>6 DEF DeleterInv
  <2> QED
    BY <1>1, <1>6, <2>1, Roles DEF SessionInv, CreditInv
<1>11. \A x \in Orders : OrderInv(x)'
  <2>1. \A x \in Orders : Matched(x)' = Matched(x)
    BY <1>1 DEF Matched
  <2> QED
    BY <1>1, <2>1 DEF IInv, OrderInv
<1>12. \A x \in Transfers : TransferInv(x)'
  BY <1>1 DEF IInv, TransferInv
<1>13. WalletIsProjection'
  <2>1. ASSUME NEW u \in Users
        PROVE  wallet'[u].balances = Projection(u, ledger', Reserved')
    <3>1. CASE u = Tenant
      BY <1>1, <1>2, <1>4, <1>5, <3>1
    <3>2. CASE u # Tenant
      <4>1. wallet'[u].balances = Projection(u, ledger, Reserved)
        BY <1>5, <3>2 DEF IInv, WalletIsProjection
      <4>2. Projection(u, ledger', Reserved') = Projection(u, ledger, Reserved)
        BY <1>1, <3>2, SameProjection
      <4> QED
        BY <4>1, <4>2
    <3> QED
      BY <3>1, <3>2
  <2> QED
    BY <2>1 DEF WalletIsProjection
<1>14. NoStrandedHold'
  BY <1>1, <1>2, <1>3 DEF IInv, NoStrandedHold
<1> QED
  BY <1>6, <1>7, <1>8, <1>9, <1>10, <1>11, <1>12, <1>13, <1>14, Assemble

LEMMA FinishDeletionKeeps ==
  ASSUME IInv, NEW d \in Deleters, FinishDeletion(d)
  PROVE  IInv'
<1>1. /\ d \in Sessions /\ DeleterInv(d) /\ EndSession(d)
      /\ assessment' = "deleted"
      /\ UNCHANGED <<order, webhook, payment, ledger, wallet>>
  BY DEF Sessions, IInv, SessionInv, FinishDeletion
<1>2. Reserved = {}
  BY <1>1 DEF DeleterInv, FinishDeletion, AllReleased
<1>3. /\ hold' \in [Holds -> [status : {"RESERVED", "RELEASED"},
                              linked : BOOLEAN]]
      /\ \A h \in Holds : hold'[h].status = hold[h].status
  BY DEF FinishDeletion, IInv, BillingTypeOK
<1>4. Reserved' = Reserved
  BY <1>3 DEF Reserved
<1>5. /\ session' \in [Sessions -> Session]
      /\ session'[d] = IdleSession
      /\ \A x \in Sessions : x # d => session'[x] = session[x]
  BY <1>1, OneSession, IdleType DEF EndSession, IInv
<1>6. session'[d].phase = "idle" /\ SessionInv(d)'
  BY <1>1, <1>5, Idle DEF IdleSession
<1>7. BillingTypeOK'
  BY <1>1, <1>3, <1>5 DEF IInv, BillingTypeOK
<1>8. RowsKept
  <2>1. \A s \in Sessions : session[s].phase = "crediting" =>
          order[session[s].order].status \in EligibleStatuses
    BY DEF IInv, SessionInv, CreditInv
  <2> QED
    BY <1>1, <1>4, <2>1 DEF RowsKept
<1>9. OneClaim' /\ OneReconciler'
  BY <1>1, <1>5, <1>6, ClaimsKept DEF IInv
<1>10. \A x \in Orders : OrderInv(x)'
  <2>1. \A x \in Orders : Matched(x)' = Matched(x)
    BY <1>1 DEF Matched
  <2> QED
    BY <1>1, <2>1 DEF IInv, OrderInv
<1>11. \A x \in Transfers : TransferInv(x)'
  BY <1>1 DEF IInv, TransferInv
<1>12. WalletIsProjection' /\ NoStrandedHold'
  <2>1. WalletIsProjection'
    BY <1>1, <1>4 DEF IInv, WalletIsProjection
  <2>2. NoStrandedHold'
    BY <1>2, <1>4 DEF Reserved, NoStrandedHold
  <2> QED
    BY <2>1, <2>2
<1> QED
  BY <1>5, <1>6, <1>7, <1>8, <1>9, <1>10, <1>11, <1>12, Assemble

-----------------------------------------------------------------------------
LEMMA StutterKeeps ==
  ASSUME IInv, UNCHANGED billingVars
  PROVE  IInv'
<1> USE DEF billingVars
<1>1. BillingTypeOK'
  BY DEF IInv, BillingTypeOK
<1>2. Reserved' = Reserved /\ \A o \in Orders : Matched(o)' = Matched(o)
  BY DEF Reserved, Matched
<1>3. \A o \in Orders : OrderInv(o)'
  BY <1>2 DEF IInv, OrderInv
<1>4. \A t \in Transfers : TransferInv(t)'
  BY DEF IInv, TransferInv
<1>5. OneClaim' /\ OneReconciler'
  BY DEF IInv, OneClaim, OneReconciler
<1>6. WalletIsProjection' /\ NoStrandedHold'
  BY <1>2 DEF IInv, WalletIsProjection, NoStrandedHold
<1>7. RowsKept
  <2>1. \A s \in Sessions : session[s].phase = "crediting" =>
          order[session[s].order].status \in EligibleStatuses
    BY DEF IInv, SessionInv, CreditInv
  <2> QED
    BY <1>2, <2>1 DEF RowsKept
<1> QED
  BY <1>1, <1>3, <1>4, <1>5, <1>6, <1>7, Assemble

LEMMA InvariantStep == IInv /\ [BillingNext]_billingVars => IInv'
<1> SUFFICES ASSUME IInv, [BillingNext]_billingVars PROVE IInv'
  OBVIOUS
<1>1. CASE UNCHANGED billingVars
  BY <1>1, StutterKeeps
<1>2. CASE CustomerTransaction
  BY <1>2, CustomerKeeps DEF CustomerTransaction
<1>3. ASSUME NEW t \in Transfers, AcceptWebhook(t) PROVE IInv'
  BY <1>3, AcceptKeeps
<1>4. ASSUME NEW c \in Consumers, NEW t \in Transfers,
             webhook[t] # NoEvent, Receive(c, t)
      PROVE  IInv'
  BY <1>4, ReceiveKeeps
<1>5. ASSUME NEW c \in Consumers, ConsumerTransaction(c) PROVE IInv'
  BY <1>5, BeginReconcileKeeps, MoveOrderKeeps, ClaimByTransferKeeps,
     CommitTransferKeeps, MarkProcessedKeeps DEF ConsumerTransaction
<1>6. ASSUME NEW a \in Admins, NEW t \in Transfers, ReadPayment(a, t) PROVE IInv'
  BY <1>6, ReadPaymentKeeps
<1>7. ASSUME NEW a \in Admins, AdminTransaction(a) PROVE IInv'
  BY <1>7, BeginResolveKeeps, ClaimByAdminKeeps, CommitResolveKeeps,
     RejectKeeps DEF AdminTransaction
<1>8. ASSUME NEW d \in Deleters, RequestDeletion(d) \/ DeletionTransaction(d)
      PROVE  IInv'
  BY <1>8, RequestDeletionKeeps, BeginReleaseKeeps, CommitReleaseKeeps,
     FinishDeletionKeeps DEF DeletionTransaction
<1>9. ASSUME NEW s \in Sessions, RollBack(s) PROVE IInv'
  BY <1>9, RollBackKeeps
<1> QED
  BY <1>1, <1>2, <1>3, <1>4, <1>5, <1>6, <1>7, <1>8, <1>9 DEF BillingNext

LEMMA Invariant == BillingSpec => []IInv
BY Initially, InvariantStep, PTL DEF BillingSpec

-----------------------------------------------------------------------------
(* Every variable keeps its type; the balances of a wallet are always those *)
(* of some ledger and some reservations.                                   *)
THEOREM BillingTypeCorrect == BillingSpec => []BillingTypeOK
<1>1. IInv => BillingTypeOK
  BY DEF IInv
<1> QED
  BY <1>1, Invariant, PTL

(* An order is credited once, with its ledger entry and its one matched     *)
(* payment, however many consumers and administrators settle transfers at   *)
(* the same time (reconcilePayment, ResolveBillingPaymentHandler).          *)
THEOREM OrdersCreditedOnce == BillingSpec => []CreditedOnce
<1>1. IInv => CreditedOnce
  <2> SUFFICES ASSUME IInv, NEW o \in Orders
               PROVE  /\ OrderInv(o)
                      /\ Cardinality(Matched(o)) <= 1
    BY DEF CreditedOnce, OrderInv
  <2>1. OrderInv(o)
    BY DEF IInv
  <2>2. Matched(o) = {} \/ \E t : Matched(o) = {t}
    BY <2>1 DEF OrderInv
  <2> QED
    BY <2>1, <2>2, FS_EmptySet, FS_Singleton
<1> QED
  BY <1>1, Invariant, PTL

(* No commit leaves a wallet that is not the projection of the ledger and   *)
(* the reservations, for any number of concurrent settlements and releases  *)
(* (append, releaseReservation, compareAndSetProjection).                   *)
THEOREM WalletsAreProjections == BillingSpec => []WalletIsProjection
<1>1. IInv => WalletIsProjection
  BY DEF IInv
<1> QED
  BY <1>1, Invariant, PTL

(* A processed event has its payment (reconcileAcceptedWebhook).            *)
THEOREM ProcessedEventsRecorded == BillingSpec => []ProcessedIsRecorded
<1>1. IInv => ProcessedIsRecorded
  BY DEF IInv, TransferInv, ProcessedIsRecorded
<1> QED
  BY <1>1, Invariant, PTL

(* No reservation survives the assessment it was made for, whoever deletes  *)
(* it and however often (DeleteAssessmentHandler).                          *)
THEOREM HoldsNotStranded == BillingSpec => []NoStrandedHold
<1>1. IInv => NoStrandedHold
  BY DEF IInv
<1> QED
  BY <1>1, Invariant, PTL

-----------------------------------------------------------------------------
Final ==
  /\ \A t \in Transfers :
       payment[t].status \in {"MATCHED", "DUPLICATE"} => payment'[t] = payment[t]
  /\ \A o \in Orders :
       order[o].status = "CREDITED" => order'[o].status = "CREDITED"

LEMMA FinalIfOpen ==
  ASSUME BillingTypeOK,
         \/ UNCHANGED payment
         \/ \E t \in Transfers : \E p :
              /\ payment' = [payment EXCEPT ![t] = p]
              /\ payment[t].status \notin {"MATCHED", "DUPLICATE"},
         \/ UNCHANGED order
         \/ \E o \in Orders : \E row :
              /\ order' = [order EXCEPT ![o] = row]
              /\ order[o].status # "CREDITED" \/ row.status = "CREDITED"
  PROVE  Final
BY DEF Final, BillingTypeOK

LEMMA FinalStep == IInv /\ [BillingNext]_billingVars => [Final]_billingVars
<1> SUFFICES ASSUME IInv, BillingNext PROVE Final
  OBVIOUS
<1>1. /\ BillingTypeOK
      /\ order \in [Orders -> [status : OrderStatuses, overdue : BOOLEAN]]
      /\ payment \in [Transfers -> Payment]
  BY DEF IInv, BillingTypeOK
<1>2. CASE UNCHANGED <<payment, order>>
  BY <1>2 DEF Final
<1>3. ASSUME NEW o \in Orders,
             CreateOrder(o) \/ PassExpiry(o) \/ ExpireOrder(o)
      PROVE  Final
  BY <1>1, <1>3 DEF Final, CreateOrder, PassExpiry, ExpireOrder
<1>4. ASSUME NEW c \in Consumers, ConsumerTransaction(c) PROVE Final
  <2> DEFINE t == session[c].transfer
             o == session[c].order
  <2>1. c \in Sessions /\ ConsumerInv(c)
    BY DEF Sessions, IInv, SessionInv
  <2>2. ASSUME UNCHANGED order, t \in Transfers, payment[t].status = "none",
               NEW s, NEW x, Files(t, s, x)
        PROVE  Final
    BY <1>1, <2>2, FinalIfOpen, Zenon DEF Files
  <2>3. CASE BeginReconcile(c)
    <3>1. t \in Transfers /\ UNCHANGED order
      BY <2>1, <2>3 DEF ConsumerInv, BeginReconcile
    <3>2. \/ UNCHANGED payment
          \/ payment[t].status = "none" /\ \E s, x : Files(t, s, x)
      BY <2>3, Zenon DEF BeginReconcile
    <3> QED
      BY <1>2, <2>2, <3>1, <3>2
  <2>4. CASE MoveOrder(c)
    <3>1. t \in Transfers /\ o \in Orders /\ payment[t].status = "none"
      BY <2>1, <2>4 DEF ConsumerInv, MoveOrder
    <3>2. \A x \in Transfers : x # t => payment'[x] = payment[x]
      BY <1>1, <2>4 DEF MoveOrder, Files
    <3>3. \A x \in Orders :
            order'[x] = order[x] \/ order[x].status = "PENDING_PAYMENT"
      BY <1>1, <2>4, <3>1 DEF MoveOrder, Movable
    <3> QED
      BY <3>1, <3>2, <3>3 DEF Final
  <2>5. CASE ClaimByTransfer(c)
    <3>1. UNCHANGED order /\ t \in Transfers /\ payment[t].status = "none"
      BY <2>1, <2>5 DEF ConsumerInv, ClaimByTransfer
    <3>2. UNCHANGED payment \/ \E s, x : Files(t, s, x)
      BY <2>5 DEF ClaimByTransfer
    <3> QED
      BY <1>2, <2>2, <3>1, <3>2
  <2>6. CASE CommitTransfer(c)
    <3>1. t \in Transfers /\ o \in Orders /\ payment[t].status = "none"
      BY <2>1, <2>6 DEF ConsumerInv, CommitTransfer
    <3>2. \A x \in Transfers : x # t => payment'[x] = payment[x]
      BY <1>1, <2>6 DEF CommitTransfer, Files
    <3>3. \A x \in Orders :
            order[x].status = "CREDITED" => order'[x].status = "CREDITED"
      BY <1>1, <2>6 DEF CommitTransfer, CreditOrder
    <3> QED
      BY <3>1, <3>2, <3>3 DEF Final
  <2>7. CASE MarkProcessed(c)
    BY <1>2, <2>7 DEF MarkProcessed
  <2> QED
    BY <1>4, <2>3, <2>4, <2>5, <2>6, <2>7 DEF ConsumerTransaction
<1>5. ASSUME NEW a \in Admins, AdminTransaction(a) PROVE Final
  <2> DEFINE t == session[a].transfer
  <2>1. a \in Sessions /\ AdminInv(a)
    BY DEF Sessions, IInv, SessionInv
  <2>2. CASE BeginResolve(a) \/ ClaimByAdmin(a)
    BY <1>2, <2>2 DEF BeginResolve, ClaimByAdmin
  <2>3. CASE CommitResolve(a)
    <3>1. t \in Transfers /\ payment[t].status \notin {"MATCHED", "DUPLICATE"}
      BY <2>1, <2>3 DEF AdminInv, CommitResolve
    <3>2. \A x \in Transfers : x # t => payment'[x] = payment[x]
      BY <1>1, <2>3 DEF CommitResolve
    <3>3. \A x \in Orders :
            order[x].status = "CREDITED" => order'[x].status = "CREDITED"
      BY <1>1, <2>3 DEF CommitResolve, CreditOrder
    <3> QED
      BY <3>1, <3>2, <3>3 DEF Final
  <2>4. CASE Reject(a)
    <3>1. UNCHANGED order
      BY <2>4 DEF Reject
    <3>2. CASE StillUndecided(a)
      <4>1. payment[t].status \notin {"MATCHED", "DUPLICATE"}
        BY <3>2 DEF StillUndecided
      <4>2. \A x \in Transfers : x # t => payment'[x] = payment[x]
        BY <1>1, <2>4 DEF Reject
      <4> QED
        BY <3>1, <4>1, <4>2 DEF Final
    <3>3. CASE ~StillUndecided(a)
      BY <1>2, <2>4, <3>1, <3>3 DEF Reject
    <3> QED
      BY <3>2, <3>3
  <2> QED
    BY <1>5, <2>2, <2>3, <2>4 DEF AdminTransaction
<1>6. ASSUME NEW d \in Deleters, RequestDeletion(d) \/ DeletionTransaction(d)
      PROVE  UNCHANGED <<payment, order>>
  BY <1>6 DEF RequestDeletion, DeletionTransaction, BeginRelease, CommitRelease,
              FinishDeletion
<1>7. ASSUME NEW t \in Transfers, AcceptWebhook(t)
      PROVE  UNCHANGED <<payment, order>>
  BY <1>7 DEF AcceptWebhook
<1>8. ASSUME NEW c, NEW t, Receive(c, t) \/ ReadPayment(c, t) \/ RollBack(c)
      PROVE  UNCHANGED <<payment, order>>
  BY <1>8 DEF Receive, ReadPayment, RollBack
<1> QED
  BY <1>2, <1>3, <1>4, <1>5, <1>6, <1>7, <1>8 DEF BillingNext, CustomerTransaction

(* A matched or duplicate payment is never decided again, and a credited    *)
(* order stays credited (resolve, reject, expire).                         *)
THEOREM SettledForGood == BillingSpec => SettledIsFinal
<1>1. IInv /\ [BillingNext]_billingVars =>
        [/\ \A t \in Transfers :
              payment[t].status \in {"MATCHED", "DUPLICATE"} =>
                payment'[t] = payment[t]
         /\ \A o \in Orders :
              order[o].status = "CREDITED" => order'[o].status = "CREDITED"]_billingVars
  BY FinalStep DEF Final
<1> QED
  BY <1>1, Invariant, PTL DEF BillingSpec, SettledIsFinal
=============================================================================
