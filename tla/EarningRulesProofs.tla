------------------------- MODULE EarningRulesProofs -------------------------
(* For every set of rules, types and instants: one rule prices an event, the  *)
(* same however late it is asked for, and the overlap check of the code is    *)
(* exact.                                                                     *)
EXTENDS EarningRules, TLAPS

USE InstantsAreOrdered, NoEndIsNoInstant

(* Two windows that both cover an instant overlap, in windowsOverlap's sense. *)
LEMMA SharedInstant ==
  ASSUME NEW r \in RuleRow, NEW s \in RuleRow, NEW i \in Instants,
         Covers(r, i), Covers(s, i)
  PROVE  windowsOverlap(r, s)
<1>1. /\ r.from \in Int /\ s.from \in Int /\ i \in Int
      /\ r.to # NoEnd => r.to \in Int
      /\ s.to # NoEnd => s.to \in Int
  BY DEF RuleRow
<1> QED BY <1>1 DEF Covers, EndsAfter, windowsOverlap

(* Two windows that overlap, in that sense, share the instant the later one   *)
(* starts at: the comparison is exact.                                        *)
LEMMA OverlapIsShared ==
  ASSUME NEW r \in RuleRow, NEW s \in RuleRow, EndsAfter(r, r.from), EndsAfter(s, s.from),
         windowsOverlap(r, s)
  PROVE  \E i \in Instants : Covers(r, i) /\ Covers(s, i)
<1>1. /\ r.from \in Instants /\ s.from \in Instants
      /\ r.from \in Int /\ s.from \in Int
      /\ r.to # NoEnd => r.to \in Int
      /\ s.to # NoEnd => s.to \in Int
  BY DEF RuleRow
<1>2. CASE r.from <= s.from
  <2>1. Covers(r, s.from) /\ Covers(s, s.from)
    BY <1>1, <1>2 DEF Covers, EndsAfter, windowsOverlap
  <2> QED BY <1>1, <2>1
<1>3. CASE s.from <= r.from
  <2>1. Covers(r, r.from) /\ Covers(s, r.from)
    BY <1>1, <1>3 DEF Covers, EndsAfter, windowsOverlap
  <2> QED BY <1>1, <2>1
<1> QED BY <1>1, <1>2, <1>3

(* Adding a rule the constraints accept, and superseding one, keep the active *)
(* rules of a type apart; pricing an event adds a rule that covers it.        *)
LEMMA RulesNextInvariant == RulesIInv /\ [RulesNext]_rulesVars => RulesIInv'
<1> SUFFICES ASSUME RulesIInv, [RulesNext]_rulesVars PROVE RulesIInv'
  OBVIOUS
<1> USE DEF RulesIInv
<1>1. ASSUME NEW r \in RuleRow, AddRule(r) PROVE RulesIInv'
  <2>1. rules' = rules \cup {r} /\ EndsAfter(r, r.from) /\ resolved' = resolved
    BY <1>1 DEF AddRule
  <2>2. RulesTypeOK' BY <2>1 DEF RulesTypeOK
  <2>3. ASSUME NEW s \in rules, r.active, s.active, r.type = s.type
        PROVE  Window(r) \cap Window(s) = {} /\ Window(s) \cap Window(r) = {}
    BY <1>1, <2>3 DEF AddRule
  <2>4. ActiveRulesApart' BY <2>1, <2>3 DEF ActiveRulesApart
  <2>5. ResolvedCover' BY <2>1 DEF ResolvedCover
  <2> QED BY <2>2, <2>4, <2>5
<1>2. ASSUME NEW r \in rules, Supersede(r) PROVE RulesIInv'
  <2> DEFINE q == [r EXCEPT !.active = FALSE]
  <2>1. rules' = (rules \ {r}) \cup {q} /\ resolved' = resolved BY <1>2 DEF Supersede
  <2>2. r \in RuleRow /\ EndsAfter(r, r.from) BY DEF RulesTypeOK
  <2>3. q \in RuleRow /\ ~ q.active /\ q.from = r.from /\ q.to = r.to
    BY <2>2 DEF RuleRow
  <2> HIDE DEF q
  <2>4. RulesTypeOK' BY <2>1, <2>2, <2>3 DEF RulesTypeOK, EndsAfter
  <2>5. ActiveRulesApart' BY <2>1, <2>3 DEF ActiveRulesApart
  <2>6. ResolvedCover' BY <2>1 DEF ResolvedCover
  <2> QED BY <2>4, <2>5, <2>6
<1>3. ASSUME NEW y \in Types, NEW i \in Instants, Price(y, i) PROVE RulesIInv'
  <2> DEFINE r == resolveRule(y, i)
             p == [type |-> y, occurredAt |-> i, rule |-> r]
  <2>1. rules' = rules /\ resolved' = resolved \cup {p} BY <1>3 DEF Price
  <2>2. r \in Pricing(y, i) BY <1>3 DEF Price, Unpriced, resolveRule
  <2>3. r.active /\ r.type = y /\ Covers(r, i) BY <2>2 DEF Pricing
  <2> HIDE DEF r
  <2>4. ResolvedCover' BY <2>1, <2>3 DEF ResolvedCover
  <2>5. RulesTypeOK' /\ ActiveRulesApart' BY <2>1 DEF RulesTypeOK, ActiveRulesApart
  <2> QED BY <2>4, <2>5
<1>4. CASE Tick \/ UNCHANGED rulesVars
  <2>1. rules' = rules /\ resolved' = resolved BY <1>4 DEF Tick, rulesVars
  <2> QED BY <2>1 DEF RulesTypeOK, ActiveRulesApart, ResolvedCover
<1> QED BY <1>1, <1>2, <1>3, <1>4 DEF RulesNext

(* The EXCLUDE constraint keeps active rules of a type apart, and what priced *)
(* an event covered it then.                                                  *)
THEOREM RulesInvariant == RulesSpec => []RulesIInv
<1>1. RulesInit => RulesIInv
  BY DEF RulesInit, RulesIInv, RulesTypeOK, ActiveRulesApart, ResolvedCover
<1> QED BY <1>1, RulesNextInvariant, PTL DEF RulesSpec

(* At most one rule prices an event: take: 1 in resolveRule is the shape of   *)
(* the result and not a tiebreak.                                             *)
THEOREM RulesPriceUnambiguously == RulesSpec => []PriceIsUnambiguous
<1>1. ASSUME RulesIInv PROVE PriceIsUnambiguous
  <2> SUFFICES ASSUME NEW y \in Types, NEW i \in Instants,
                      NEW r \in Pricing(y, i), NEW s \in Pricing(y, i), r # s
               PROVE  FALSE
    BY DEF PriceIsUnambiguous
  <2>1. /\ r \in rules /\ s \in rules /\ r.active /\ s.active /\ r.type = s.type
        /\ Covers(r, i) /\ Covers(s, i)
    BY DEF Pricing
  <2>2. i \in Window(r) \cap Window(s) BY <2>1 DEF Window
  <2> QED BY <1>1, <2>1, <2>2 DEF RulesIInv, ActiveRulesApart
<1> QED BY <1>1, RulesInvariant, PTL

(* The warning the operator tooling gives is exact: findOverlappingRules is   *)
(* empty exactly when no instant would be priced by two rules.                *)
THEOREM RulesEveryAmbiguityFound == RulesSpec => []FindsEveryAmbiguity
<1>1. ASSUME RulesIInv PROVE FindsEveryAmbiguity
  <2> DEFINE R == {[r EXCEPT !.active = TRUE] : r \in rules}
  <2>1. \A r \in R : r \in RuleRow /\ r.active /\ EndsAfter(r, r.from)
    BY <1>1 DEF RulesIInv, RulesTypeOK, RuleRow, EndsAfter
  <2> HIDE DEF R
  <2>2. ASSUME findOverlappingRules(R) = {},
               NEW y \in Types, NEW i \in Instants,
               NEW r \in {q \in R : q.type = y /\ Covers(q, i)},
               NEW s \in {q \in R : q.type = y /\ Covers(q, i)}, r # s
        PROVE  FALSE
    <3>1. windowsOverlap(r, s) BY <2>1, SharedInstant
    <3>2. <<r, s>> \in findOverlappingRules(R)
      BY <2>1, <2>2, <3>1 DEF findOverlappingRules
    <3> QED BY <2>2, <3>2
  <2>3. ASSUME \A y \in Types, i \in Instants :
                 \A r, s \in {q \in R : q.type = y /\ Covers(q, i)} : r = s,
               NEW pair \in findOverlappingRules(R)
        PROVE  FALSE
    <3>1. PICK r \in R, s \in R : pair = <<r, s>> BY <2>3 DEF findOverlappingRules
    <3>2. r # s /\ r.type = s.type /\ windowsOverlap(r, s)
      BY <2>3, <3>1 DEF findOverlappingRules
    <3>3. PICK i \in Instants : Covers(r, i) /\ Covers(s, i)
      BY <2>1, <3>2, OverlapIsShared
    <3>4. r.type \in Types BY <2>1 DEF RuleRow
    <3> QED BY <2>3, <3>2, <3>3, <3>4
  <2>4. findOverlappingRules(R) = {} <=>
          \A y \in Types, i \in Instants :
            \A r, s \in {q \in R : q.type = y /\ Covers(q, i)} : r = s
    BY <2>2, <2>3
  <2> QED BY <2>4 DEF FindsEveryAmbiguity, R
<1> QED BY <1>1, RulesInvariant, PTL

(* An event is priced by the rule that priced it before, unless a rule was    *)
(* superseded meanwhile: replays are worth what the first delivery was.       *)
THEOREM RulesPriceLate == RulesSpec => []LatePricesAgree
<1>1. ASSUME RulesIInv PROVE LatePricesAgree
  <2> SUFFICES ASSUME NEW p \in resolved, NEW q \in resolved,
                      p.type = q.type, p.occurredAt = q.occurredAt,
                      p.rule \in rules, q.rule \in rules, p.rule # q.rule
               PROVE  FALSE
    BY DEF LatePricesAgree
  <2>1. /\ p.occurredAt \in Instants
        /\ p.rule.active /\ q.rule.active /\ p.rule.type = q.rule.type
        /\ Covers(p.rule, p.occurredAt) /\ Covers(q.rule, p.occurredAt)
    BY <1>1 DEF RulesIInv, ResolvedCover
  <2>2. p.occurredAt \in Window(p.rule) \cap Window(q.rule) BY <2>1 DEF Window
  <2> QED BY <1>1, <2>1, <2>2 DEF RulesIInv, ActiveRulesApart
<1> QED BY <1>1, RulesInvariant, PTL

(* The constraint and the code's overlap check are one: rules the database    *)
(* has stored are never reported (windowsOverlap, the EXCLUDE constraint).    *)
THEOREM StoredRulesPass == RulesSpec => [](findOverlappingRules(rules) = {})
<1>1. ASSUME RulesIInv PROVE findOverlappingRules(rules) = {}
  <2> SUFFICES ASSUME NEW r \in rules, NEW s \in rules, r # s, r.active, s.active,
                      r.type = s.type, windowsOverlap(r, s)
               PROVE  FALSE
    BY DEF findOverlappingRules
  <2>1. /\ r \in RuleRow /\ EndsAfter(r, r.from) /\ s \in RuleRow /\ EndsAfter(s, s.from)
    BY <1>1 DEF RulesIInv, RulesTypeOK
  <2>2. PICK i \in Instants : Covers(r, i) /\ Covers(s, i) BY <2>1, OverlapIsShared
  <2>3. i \in Window(r) \cap Window(s) BY <2>2 DEF Window
  <2> QED BY <1>1, <2>3 DEF RulesIInv, ActiveRulesApart
<1> QED BY <1>1, RulesInvariant, PTL
=============================================================================
