----------------------------- MODULE MCBilling ------------------------------
(***************************************************************************)
(* A small instance of Billing for TLC.                                    *)
(***************************************************************************)
EXTENDS Billing, TLC

CONSTANTS u1, o1, o2, t1, t2, h1, c1, a1, d1

OwnerOf == [o \in Orders |-> u1]
PriceOf == [o \in Orders |-> 1]
CreditsOf == [o \in Orders |-> IF o = o1 THEN 2 ELSE 3]
HeldCredit == [h \in Holds |-> 1]
OpeningCredit == [u \in Users |-> 1]

Transfer(codes, amount, direction) ==
  [codes |-> codes, amount |-> amount, direction |-> direction]

(* The order's price, no code, another amount, two codes, an outgoing one.  *)
Kinds ==
  {Transfer({o1}, 1, "IN"), Transfer({}, 1, "IN"), Transfer({o1}, 2, "IN"),
   Transfer({o1, o2}, 1, "IN"), Transfer({}, 1, "OUT")}

TransferSymmetry == Permutations(Transfers)
=============================================================================
