----------------------------- MODULE MCPayments -----------------------------
(***************************************************************************)
(* Small instances of PaymentPipeline for TLC: one order, every transfer    *)
(* names it and brings its price.                                          *)
(***************************************************************************)
EXTENDS PaymentPipeline

CONSTANTS u1, o1, t1, t2, c1, c2, op1

OwnerOf == [o \in Orders |-> u1]
PriceOf == [o \in Orders |-> 1]
CreditsOf == [o \in Orders |-> 2]
HeldCredit == [h \in Holds |-> 1]
OpeningCredit == [u \in Users |-> 0]

ExactTransfer == {[codes |-> {o1}, amount |-> 1, direction |-> "IN"]}
=============================================================================
