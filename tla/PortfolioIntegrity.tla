------------------------- MODULE PortfolioIntegrity -------------------------
(***************************************************************************)
(* The mechanical validation of a legal portfolio packet against the corpus *)
(* it is pinned to (validateLegalPortfolioPacket), and what the activation  *)
(* needs to write the packet's rows (writeChildren).                        *)
(*                                                                         *)
(* A claim cites a provision with the hash of its text.  Texts, titles and  *)
(* criteria are left out; a failure is its code.                            *)
(***************************************************************************)
EXTENDS Sequences, FiniteSets

CONSTANTS
  Corpora, Provisions, Hashes,
  RuleIds, EngineeringIds, RelationIds,
  Absent,    \* no hash: the provision is not in the corpus
  NoRule,    \* no rule: the relation points at a provision
  Content,   \* per corpus: the hash of each provision
  Repealed,  \* per corpus: the provisions without effect
  Above      \* the provisions a provision's locator lies under

ASSUME IntegrityAssumption ==
  /\ Content \in [Corpora -> [Provisions -> Hashes \cup {Absent}]]
  /\ Repealed \in [Corpora -> SUBSET Provisions]
  /\ Above \in [Provisions -> SUBSET Provisions]
  /\ Absent \notin Hashes
  /\ NoRule \notin RuleIds

Claim == [at : Provisions, hash : Hashes]

LegalRule ==
  [id : RuleIds, cites : SUBSET Claim,
   assessable : BOOLEAN, reason : BOOLEAN]  \* reason: one is given

EngineeringRule ==
  [id : EngineeringIds, cites : SUBSET Claim,
   rules : SUBSET RuleIds, repeats : BOOLEAN]  \* repeats: a criterion's id

Relation ==
  [id : RelationIds, cites : SUBSET Claim,
   from : RuleIds, to : RuleIds \cup {NoRule}]

Packet ==
  [rules : Seq(LegalRule), engineering : Seq(EngineeringRule),
   relations : Seq(Relation)]

Rows(list) == {list[i] : i \in DOMAIN list}

Ids(list) == {row.id : row \in Rows(list)}

Distinct(list) == \A i, j \in DOMAIN list : list[i].id = list[j].id => i = j

-----------------------------------------------------------------------------
(* Source claims.                                                          *)
Cited(p) ==
  UNION {row.cites :
           row \in Rows(p.rules) \cup Rows(p.engineering) \cup Rows(p.relations)}

Present(c) == {k \in Provisions : Content[c][k] # Absent}

InForce(c) == Present(c) \ Repealed[c]

Clean(claim, c) ==
  claim.at \in InForce(c) /\ Content[c][claim.at] = claim.hash

Stale(claim, c) ==
  claim.at \in Present(c) /\ Content[c][claim.at] # claim.hash

(* The claim quotes the provision as another corpus has it.                *)
Foreign(claim, c) ==
  \E d \in Corpora \ {c} : Content[d][claim.at] = claim.hash

Resolved(p, c) == {claim.at : claim \in {x \in Cited(p) : Clean(x, c)}}

(* Faulty: one clean claim covers every provision.                         *)
CoveredByAny(k, p, c) == Resolved(p, c) # {}

(* A clean claim reaches the provision itself or one it lies under.         *)
Covered(k, p, c) == Resolved(p, c) \cap ({k} \cup Above[k]) # {}

(* A leaf has no provision of the corpus under it, repealed ones included.  *)
Leaves(c) == {k \in InForce(c) : \A j \in Present(c) : k \notin Above[j]}

Linked(p) == UNION {row.rules : row \in Rows(p.engineering)}

-----------------------------------------------------------------------------
Flaw(code, condition) == {x \in {code} : condition}

Failures(p, c, indexed) ==
  UNION {
    Flaw("RETRIEVAL_INDEX_NOT_VALID", c \notin indexed),
    Flaw("EMPTY_PORTFOLIO", Len(p.rules) = 0 \/ Len(p.engineering) = 0),
    Flaw("DUPLICATE_RULE_ID", ~Distinct(p.rules) \/ ~Distinct(p.relations)),
    Flaw("DUPLICATE_ENGINEERING_RULE_ID",
         \/ ~Distinct(p.engineering)
         \/ \E row \in Rows(p.engineering) : row.repeats),
    Flaw("UNRESOLVED_SOURCE_REFERENCE",
         \E x \in Cited(p) : x.at \notin Present(c)),
    Flaw("STALE_SOURCE_HASH", \E x \in Cited(p) : Stale(x, c)),
    Flaw("REPEALED_SOURCE_REFERENCE",
         \E x \in Cited(p) :
           x.at \in Present(c) \cap Repealed[c] /\ ~Stale(x, c)),
    Flaw("MIXED_CORPUS_VERSION",
         /\ \E x \in Cited(p) : Stale(x, c) /\ Foreign(x, c)
         /\ \E x \in Cited(p) : Clean(x, c)),
    Flaw("ORPHAN_ENGINEERING_RULE", ~(Linked(p) \subseteq Ids(p.rules))),
    Flaw("ORPHAN_CONTEXT_RELATION",
         \E row \in Rows(p.relations) :
           ~({row.from, row.to} \subseteq Ids(p.rules) \cup {NoRule})),
    Flaw("NON_ASSESSABLE_REASON_REQUIRED",
         \E row \in Rows(p.rules) : ~row.assessable /\ ~row.reason),
    Flaw("INCOMPLETE_RULE_COVERAGE",
         \E row \in Rows(p.rules) : row.assessable /\ row.id \notin Linked(p)),
    Flaw("INCOMPLETE_SOURCE_COVERAGE",
         \E k \in Leaves(c) : ~Covered(k, p, c)) }

(* LegalPortfolioRule_coverage_reason_check: a reason is given for the rules *)
(* that are not assessable, and for no other.  The validation asks for the   *)
(* first half only.                                                        *)
ReasonsMatchCoverage(p) ==
  \A row \in Rows(p.rules) : row.reason <=> ~row.assessable

(* Every row writeChildren refers to exists, the keys of its inserts are    *)
(* unique within the portfolio, and the table takes every rule.             *)
Writable(p, c) ==
  /\ \A x \in Cited(p) : x.at \in Resolved(p, c)
  /\ \A row \in Rows(p.engineering) : row.rules \subseteq Ids(p.rules)
  /\ \A row \in Rows(p.relations) :
       row.from \in Ids(p.rules) /\ row.to \in Ids(p.rules) \cup {NoRule}
  /\ Distinct(p.rules) /\ Distinct(p.engineering) /\ Distinct(p.relations)
  /\ ReasonsMatchCoverage(p)

(* What a reader of an active portfolio relies on: each claim quotes the     *)
(* pinned corpus and nothing repealed, each provision that must be examined *)
(* is reached by a claim, each rule is examined or says why it is not.      *)
Sound(p, c) ==
  /\ \A x \in Cited(p) :
       x.at \notin Repealed[c] /\ Content[c][x.at] = x.hash
  /\ \A k \in Leaves(c) : \E x \in Cited(p) : x.at = k \/ x.at \in Above[k]
  /\ \A row \in Rows(p.rules) :
       IF row.assessable
       THEN \E e \in Rows(p.engineering) : row.id \in e.rules
       ELSE row.reason
=============================================================================
