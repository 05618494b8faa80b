---------------------------- MODULE EarningRules ----------------------------
(* modules/earning and the earning_rules table: which rule prices an event.   *)
(* A rule pays for its activity type from effectiveFrom up to, and not        *)
(* including, effectiveTo; the database refuses a rule that overlaps an       *)
(* active one of its type, and superseded rules are kept, inactive. An event  *)
(* is priced each time it is processed: at once, late, or again.              *)
EXTENDS Integers, FiniteSets

CONSTANTS RuleIds, Types, Instants, Prices,
          NoEnd      \* effectiveTo IS NULL: still current

ASSUME InstantsAreOrdered == Instants \subseteq Int
ASSUME NoEndIsNoInstant == NoEnd \notin Int
ASSUME PricesAreNumbers == Prices \subseteq Int

VARIABLES rules,     \* the rows of earning_rules
          now,       \* the clock
          resolved   \* what each call of resolveRule was asked, and answered

rulesVars == <<rules, now, resolved>>

RuleRow == [id : RuleIds, type : Types, points : Prices,
            from : Instants, to : Instants \cup {NoEnd}, active : BOOLEAN]

\* A null effectiveTo is infinity.
EndsAfter(r, i) == r.to # NoEnd => i < r.to
Covers(r, i) == r.from <= i /\ EndsAfter(r, i)
\* Seeded fault: one comparison instead of two.
oneSidedOverlap(r, s) == EndsAfter(s, r.from)

windowsOverlap(r, s) == EndsAfter(s, r.from) /\ EndsAfter(r, s.from)

\* The instants of tstzrange(effectiveFrom, effectiveTo, '[)').
Window(r) == {i \in Instants : Covers(r, i)}
\* Seeded fault: an event is worth what its activity is worth on receipt.
PricingOnReceipt(y, i) == {r \in rules : r.active /\ r.type = y /\ Covers(r, now)}

\* The active rules that price an event of type y that occurred at instant i.
Pricing(y, i) == {r \in rules : r.active /\ r.type = y /\ Covers(r, i)}
\* resolveRule: null when nothing matches.
Unpriced(y, i) == Pricing(y, i) = {}
resolveRule(y, i) == CHOOSE r \in Pricing(y, i) : TRUE

findOverlappingRules(R) ==
  {pair \in R \X R : LET r == pair[1]  s == pair[2] IN
                       /\ r # s /\ r.active /\ s.active
                       /\ r.type = s.type /\ windowsOverlap(r, s)}

RulesInit == rules = {} /\ now \in Instants /\ resolved = {}
\* Seeded fault: no EXCLUDE constraint.
AddUnchecked(r) ==
  /\ \A s \in rules : s.id # r.id
  /\ EndsAfter(r, r.from)
  /\ rules' = rules \cup {r} /\ UNCHANGED <<now, resolved>>

\* INSERT, under earning_rules_window_ordered and earning_rules_no_overlapping_windows.
AddRule(r) ==
  /\ \A s \in rules : s.id # r.id
  /\ EndsAfter(r, r.from)
  /\ r.active => \A s \in rules : s.active /\ s.type = r.type =>
                                   Window(r) \cap Window(s) = {}
  /\ rules' = rules \cup {r} /\ UNCHANGED <<now, resolved>>

\* Superseded: the row stays for the entries that refer to it.
Supersede(r) ==
  /\ r \in rules /\ r.active
  /\ rules' = (rules \ {r}) \cup {[r EXCEPT !.active = FALSE]}
  /\ UNCHANGED <<now, resolved>>

Tick == \E i \in Instants : now < i /\ now' = i /\ UNCHANGED <<rules, resolved>>

\* A delivery, a retry or a backfill prices an event that occurred at i.
Price(y, i) ==
  /\ i <= now /\ ~ Unpriced(y, i)
  /\ resolved' = resolved \cup {[type |-> y, occurredAt |-> i, rule |-> resolveRule(y, i)]}
  /\ UNCHANGED <<rules, now>>

RulesNext ==
  \/ \E r \in RuleRow : AddRule(r)
  \/ \E r \in rules : Supersede(r)
  \/ Tick
  \/ \E y \in Types, i \in Instants : Price(y, i)
RulesSpec == RulesInit /\ [][RulesNext]_rulesVars

-----------------------------------------------------------------------------
RulesTypeOK == rules \subseteq RuleRow /\ \A r \in rules : EndsAfter(r, r.from)

(* At most one rule can match: the price of an event does not depend on which *)
(* row the planner returns first (resolveRule; the EXCLUDE constraint).       *)
PriceIsUnambiguous ==
  \A y \in Types, i \in Instants : \A r, s \in Pricing(y, i) : r = s

(* However late an event is priced, and again by retries and backfills, after *)
(* other rules have come and gone and its window has ended, it gets the rule  *)
(* it got before, unless the one or the other has been superseded since       *)
(* (resolveRule prices by occurredAt, and a stored rule keeps its window).    *)
LatePricesAgree ==
  \A p, q \in resolved :
    /\ p.type = q.type /\ p.occurredAt = q.occurredAt
    /\ {p.rule, q.rule} \subseteq rules
    => p.rule = q.rule

(* findOverlappingRules, run over rules before they are stored, is empty      *)
(* exactly when no instant would have two prices (the half-open comparison in *)
(* windowsOverlap; here over every rule ever stored, as if all were active).  *)
FindsEveryAmbiguity ==
  LET R == {[r EXCEPT !.active = TRUE] : r \in rules} IN
  findOverlappingRules(R) = {} <=>
    \A y \in Types, i \in Instants :
      \A r, s \in {q \in R : q.type = y /\ Covers(q, i)} : r = s

\* The inductive invariant: what the EXCLUDE constraint maintains, and that a
\* rule that priced an event covers it.
ActiveRulesApart ==
  \A r, s \in rules : r # s /\ r.active /\ s.active /\ r.type = s.type =>
                       Window(r) \cap Window(s) = {}
ResolvedCover ==
  \A p \in resolved :
    /\ p.type \in Types /\ p.occurredAt \in Instants
    /\ p.rule.active /\ p.rule.type = p.type /\ Covers(p.rule, p.occurredAt)
RulesIInv == RulesTypeOK /\ ActiveRulesApart /\ ResolvedCover
=============================================================================
