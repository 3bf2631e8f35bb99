------------------------------ MODULE MCLegal -------------------------------
(***************************************************************************)
(* A small instance of LegalPortfolio for TLC: two runs for one corpus, two *)
(* workers, and the packets two agents could author.  Provision k2 lies     *)
(* under k1, k3 stands alone, k4 is repealed, and another corpus has        *)
(* another text of k2.                                                     *)
(***************************************************************************)
EXTENDS LegalPortfolio, TLC

CONSTANTS r1, r2, w1, w2, k1, k2, k3, k4, x1, x2, earlier, later, rule, criterion, link

ContentOf == later :> (k1 :> x1 @@ k2 :> x1 @@ k3 :> x1 @@ k4 :> x1) @@
             earlier :> (k1 :> x1 @@ k2 :> x2 @@ k3 :> Absent @@ k4 :> x1)
RepealedIn == later :> {k4} @@ earlier :> {}
AboveOf == k1 :> {} @@ k2 :> {k1} @@ k3 :> {} @@ k4 :> {}
Pinned == [r \in Runs |-> later]

Authored(cites, linked, relations) ==
  [rules       |-> <<[id |-> rule, cites |-> cites, assessable |-> TRUE,
                      reason |-> FALSE]>>,
   engineering |-> <<[id |-> criterion, cites |-> cites, rules |-> linked,
                      repeats |-> FALSE]>>,
   relations   |-> relations]

Quote(k, x) == [at |-> k, hash |-> x]

(* Exact; reaching k2 through k1; quoting the old text; leaving out k3; and  *)
(* exact, but giving a reason for a rule that is assessable.                 *)
Exact == Authored({Quote(k2, x1), Quote(k3, x1)}, {rule}, <<>>)
Wider == Authored({Quote(k3, x1)}, {rule},
                  <<[id |-> link, cites |-> {Quote(k1, x1)},
                     from |-> rule, to |-> NoRule]>>)
Outdated == Authored({Quote(k3, x1), Quote(k2, x2)}, {rule}, <<>>)
Partial == Authored({Quote(k2, x1)}, {rule}, <<>>)

Reasoned == [Exact EXCEPT !.rules[1].reason = TRUE]

Drafts == {Exact, Wider, Outdated, Partial, Reasoned}
=============================================================================
