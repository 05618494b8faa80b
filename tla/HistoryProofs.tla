---------------------------- MODULE HistoryProofs ----------------------------
(* Proofs about History, for any entries, amounts, page size, clock and ids:  *)
(* a list never shows an entry twice, read to its end it has all that was     *)
(* there, what it skips was stamped in the millisecond of an entry shown, and *)
(* the chart keeps its shape. Entries of one user are inserted and stamped    *)
(* under that user's balance lock, so their times are in the order they are   *)
(* inserted and committed in; and a page is what comes first of the rest.     *)
EXTENDS History, LedgerProofs

Live(i) == clog[rows[i].by] # "aborted"
SameUser(i, j) == rows[i].user = rows[j].user

\* Times are taken under the user's balance lock, ids are not used twice.
TimesFit ==
  /\ clock \in Nat /\ asked \in [Tx -> Nat] /\ \A t \in Tx : asked[t] <= clock
  /\ stamp \in Seq([at : Nat, id : Uuids]) /\ Len(stamp) = Len(rows)
  /\ \A i \in Ids : stamp[i].at <= clock
  /\ \A i, j \in Ids : i # j => stamp[i].id # stamp[j].id
StampedInOrder ==
  \A i, j \in Ids : SameUser(i, j) /\ Live(i) /\ Live(j) /\ i < j => stamp[i].at <= stamp[j].at
CommittedStampedFirst ==
  \A i, j \in Ids : SameUser(i, j) /\ IsCommitted(rows[i].by) /\ IsActive(rows[j].by) =>
    i < j /\ stamp[i].at <= stamp[j].at
AskedLast ==
  \A t \in Tx, i \in Ids :
    IsActive(t) /\ call[t].at = "claim" /\ rows[i].user = call[t].in.user /\ Live(i) =>
      stamp[i].at <= asked[t]
TimesIInv == TimesFit /\ StampedInOrder /\ CommittedStampedFirst /\ AskedLast

\* An entry that precedes one shown and is not shown.
Skipped(L, e, f) ==
  e \in Matching(view) \ L.shown /\ f \in L.shown /\ Precedes(view, e, f)
SkipsTies(L) ==
  \A e \in Matching(view), f \in L.shown : Skipped(L, e, f) =>
    IF view.order = "newest" THEN \A s \in L.shown : stamp[s].at <= stamp[e].at
    ELSE \E s \in L.shown : stamp[s].at = stamp[e].at
\* What was committed since the first page was read was appended after all that
\* was there, and is shown, newest first, only beside an entry of its millisecond.
BaseFirst(L) == \A b \in L.base, e \in Matching(view) \ L.base : b < e
LateTied(L) ==
  view.order = "newest" =>
    \A e \in L.shown \ L.base : \E s \in L.base \cap L.shown : stamp[s].at = stamp[e].at
\* What is shown of what was there is all that comes up to the next cursor.
ListFits(L) ==
  /\ L.shown \subseteq Matching(view) /\ L.base \subseteq Matching(view)
  /\ L.loaded = Cardinality(L.shown)
  /\ L.next \in Entries \cup {Start, End}
  /\ L.next = Start => L.shown = {}
  /\ L.next = End => L.base \subseteq L.shown
  /\ L.next \in Entries =>
       /\ L.next \in L.shown
       /\ \A f \in L.shown : f = L.next \/ Precedes(view, f, L.next)
       /\ \A e \in L.base : Precedes(view, e, L.next) => e \in L.shown
  /\ SkipsTies(L) /\ BaseFirst(L) /\ LateTied(L)

HistoryIInv == /\ LedgerIInv /\ TimesIInv /\ view.order \in {"newest", "oldest"}
               /\ ListFits(list) /\ ListFits(job.list)
               /\ job.busy => job.list.next # End
-----------------------------------------------------------------------------
(* Order.                                                                    *)

LEMMA IdTypes ==
  ASSUME LedgerIInv
  PROVE  /\ Ids = 1 .. Len(rows) /\ Len(rows) \in Nat /\ IsFiniteSet(Ids)
         /\ Entries \subseteq Ids /\ Start \notin Ids /\ End \notin Ids
         /\ \A i \in Ids : /\ rows[i] \in Row /\ rows[i].by \in Xids /\ rows[i].user \in Users
                           /\ rows[i].delta \in Int
<1>1. rows \in Seq(Row) /\ Len(rows) \in Nat /\ Ids = 1 .. Len(rows)
  BY DEF LedgerIInv, LedgerTypeOK, Ids
<1>2. IsFiniteSet(1 .. Len(rows))
  BY <1>1, FS_Interval
<1>3. \A i \in Ids : rows[i] \in Row
  BY <1>1
<1> QED BY <1>1, <1>2, <1>3 DEF Entries, Start, End, Row

LEMMA StampTypes ==
  ASSUME LedgerIInv, TimesFit, NEW i \in Ids
  PROVE  stamp[i].at \in Nat /\ stamp[i].id \in Int
<1> DEFINE S == [at : Nat, id : Uuids]
<1>1. stamp \in Seq(S) /\ i \in 1 .. Len(stamp)
  BY IdTypes DEF TimesFit
<1> HIDE DEF S
<1>2. stamp[i] \in S
  BY <1>1
<1> QED BY <1>2, UuidsCompare DEF S

LEMMA MatchingTypes ==
  ASSUME LedgerIInv, NEW v
  PROVE  Matching(v) \subseteq Entries /\ Matching(v) \subseteq Ids /\ IsFiniteSet(Matching(v))
<1>1. Matching(v) \subseteq Entries /\ Matching(v) \subseteq Ids
  BY IdTypes DEF Matching
<1> QED BY <1>1, IdTypes, FS_Subset

\* Entries are in one order, strictly.
LEMMA PrecedesOrders ==
  ASSUME LedgerIInv, TimesFit, NEW v
  PROVE  /\ \A e \in Ids : ~ Precedes(v, e, e)
         /\ \A e, f, g \in Ids : Precedes(v, e, f) /\ Precedes(v, f, g) => Precedes(v, e, g)
         /\ \A e, f \in Ids : e = f \/ Precedes(v, e, f) \/ Precedes(v, f, e)
<1>1. \A e \in Ids : ~ Older(e, e)
  BY StampTypes DEF Older
<1>2. \A e, f, g \in Ids : Older(e, f) /\ Older(f, g) => Older(e, g)
  BY StampTypes DEF Older
<1>3. \A e, f \in Ids : e = f \/ Older(e, f) \/ Older(f, e)
  BY StampTypes DEF Older, TimesFit
<1> QED BY <1>1, <1>2, <1>3 DEF Precedes

\* A finite set has a first member in any strict order on it.
LEMMA FirstOf ==
  ASSUME NEW S, IsFiniteSet(S), S # {}, NEW R, \A e \in S : <<e, e>> \notin R,
         \A e, f, g \in S : <<e, f>> \in R /\ <<f, g>> \in R => <<e, g>> \in R
  PROVE  \E e \in S : \A f \in S : <<f, e>> \notin R
<1> DEFINE before(e) == {f \in S : <<f, e>> \in R}
<1>1. \A e, f \in S : f \in before(e) <=> <<f, e>> \in R
  OBVIOUS
<1>2. \A e \in S : before(e) \subseteq S
  OBVIOUS
<1> HIDE DEF before
<1>3. ASSUME NEW e \in S
      PROVE  IsFiniteSet(before(e)) /\ Cardinality(before(e)) \in Nat
  BY <1>2, FS_Subset, FS_CardinalityType
<1> DEFINE ranks == {Cardinality(before(e)) : e \in S}
<1>4. ranks \subseteq Nat /\ ranks # {}
  BY <1>3
<1>5. \A e \in S : Cardinality(before(e)) \in ranks
  OBVIOUS
<1>6. \A n \in ranks : \E e \in S : n = Cardinality(before(e))
  OBVIOUS
<1> HIDE DEF ranks
<1>7. PICK n \in ranks : \A m \in ranks : ~ (m < n)
  BY <1>4, NatMinimum
<1>8. PICK e \in S : n = Cardinality(before(e))
  BY <1>6
<1>9. ASSUME NEW f \in S, <<f, e>> \in R PROVE FALSE
  <2>1. before(f) \subseteq before(e) /\ f \in before(e) /\ f \notin before(f)
    BY <1>1, <1>2, <1>9
  <2>2. Cardinality(before(f)) <= Cardinality(before(e))
        /\ Cardinality(before(f)) # Cardinality(before(e))
    BY <1>3, <2>1, FS_Subset
  <2> QED BY <1>3, <1>5, <1>7, <1>8, <2>2
<1> QED BY <1>9
-----------------------------------------------------------------------------
(* A page.                                                                   *)

LEMMA PageFits ==
  ASSUME LedgerIInv, TimesFit, NEW v, NEW cursor
  PROVE  /\ Page(v, cursor) \subseteq Rest(v, cursor) /\ Rest(v, cursor) \subseteq Matching(v)
         /\ IsFiniteSet(Page(v, cursor))
         /\ \A e \in Rest(v, cursor) \ Page(v, cursor), p \in Page(v, cursor) : Precedes(v, p, e)
         /\ Cursor(v, cursor) = End => Page(v, cursor) = Rest(v, cursor)
         /\ Cursor(v, cursor) # End =>
              /\ Cursor(v, cursor) \in Page(v, cursor)
              /\ \A f \in Page(v, cursor) :
                   f = Cursor(v, cursor) \/ Precedes(v, f, Cursor(v, cursor))
<1> DEFINE M == Rest(v, cursor)
           P == Page(v, cursor)
           before(e) == {f \in M : Precedes(v, f, e)}
<1>1. M \subseteq Matching(v) /\ M \subseteq Ids /\ IsFiniteSet(M) /\ M \subseteq Entries
  BY MatchingTypes, FS_Subset DEF Rest
<1>2. P = {e \in M : Cardinality(before(e)) < Limit} /\ Limit \in Nat \ {0}
  BY LimitIsPositive DEF Page
<1>3. P \subseteq M /\ IsFiniteSet(P)
  BY <1>1, <1>2, FS_Subset
<1>4. \A e \in M : /\ before(e) \subseteq M /\ IsFiniteSet(before(e))
                   /\ Cardinality(before(e)) \in Nat
  BY <1>1, FS_Subset, FS_CardinalityType
<1>0. /\ \A e, f \in M : f \in before(e) <=> Precedes(v, f, e)
      /\ \A e \in M : e \in P <=> Cardinality(before(e)) < Limit
  BY <1>2
<1> HIDE DEF M, before
<1>5. /\ \A e \in M : ~ Precedes(v, e, e)
      /\ \A e, f, g \in M : Precedes(v, e, f) /\ Precedes(v, f, g) => Precedes(v, e, g)
      /\ \A e, f \in M : e = f \/ Precedes(v, e, f) \/ Precedes(v, f, e)
  BY <1>1, PrecedesOrders
<1> HIDE DEF P
<1>6. ASSUME NEW e \in M \ P, NEW p \in P PROVE Precedes(v, p, e)
  <2> SUFFICES ASSUME Precedes(v, e, p) PROVE FALSE
    BY <1>3, <1>5, <1>6
  <2>1. before(e) \subseteq before(p)
    BY <1>0, <1>3, <1>4, <1>5
  <2>2. Cardinality(before(e)) <= Cardinality(before(p))
    BY <1>3, <1>4, <2>1, FS_Subset
  <2> QED BY <1>0, <1>2, <1>3, <1>4, <2>2
<1>7. ASSUME Cardinality(M) <= Limit PROVE P = M
  <2> SUFFICES ASSUME NEW e \in M PROVE Cardinality(before(e)) < Limit
    BY <1>0, <1>3
  <2>1. before(e) \subseteq M /\ before(e) # M
    BY <1>0, <1>4, <1>5
  <2>2. Cardinality(before(e)) <= Cardinality(M) /\ Cardinality(before(e)) # Cardinality(M)
    BY <1>1, <2>1, FS_Subset
  <2> QED BY <1>1, <1>2, <1>4, <1>7, <2>2, FS_CardinalityType
<1>8. ASSUME Cardinality(M) > Limit
      PROVE  \E e \in P : \A f \in P : f = e \/ Precedes(v, f, e)
  <2> DEFINE R == {x \in M \X M : Precedes(v, x[1], x[2])}
             Q == {x \in M \X M : Precedes(v, x[2], x[1])}
  <2>1. \A e, f \in M : /\ <<e, f>> \in R <=> Precedes(v, e, f)
                        /\ <<e, f>> \in Q <=> Precedes(v, f, e)
    OBVIOUS
  <2> HIDE DEF R, Q
  <2>2. M # {}
    <3>1. Cardinality({}) = 0
      BY FS_EmptySet
    <3> QED BY <1>2, <1>8, <3>1
  <2>3. PICK e \in M : \A f \in M : <<f, e>> \notin R
    <3>1. \A x \in M : <<x, x>> \notin R
      BY <1>5, <2>1
    <3>2. \A x, y, z \in M : <<x, y>> \in R /\ <<y, z>> \in R => <<x, z>> \in R
      BY <1>5, <2>1
    <3> QED BY <1>1, <2>2, <3>1, <3>2, FirstOf
  <2>4. P # {}
    <3>1. before(e) = {}
      BY <1>0, <1>4, <2>1, <2>3
    <3>2. Cardinality(before(e)) = 0
      BY <3>1, FS_EmptySet
    <3> QED BY <1>0, <1>2, <3>2
  <2>5. PICK l \in P : \A f \in P : <<f, l>> \notin Q
    <3>1. \A x \in P : <<x, x>> \notin Q
      BY <1>3, <1>5, <2>1
    <3>2. \A x, y, z \in P : <<x, y>> \in Q /\ <<y, z>> \in Q => <<x, z>> \in Q
      BY <1>3, <1>5, <2>1
    <3> QED BY <1>3, <2>4, <3>1, <3>2, FirstOf
  <2> QED BY <1>3, <1>5, <2>1, <2>5
<1>9. Cardinality(M) > Limit =>
        Last(v, P) \in P /\ \A f \in P : f = Last(v, P) \/ Precedes(v, f, Last(v, P))
  BY <1>8 DEF Last
<1>10. Cursor(v, cursor) = IF Cardinality(M) > Limit THEN Last(v, P) ELSE End
  BY DEF Cursor, M, P
<1>11. End \notin P /\ Cardinality(M) \in Nat
  BY <1>1, <1>3, IdTypes, FS_CardinalityType
<1> QED
  <2>1. CASE Cardinality(M) > Limit
    BY <1>1, <1>3, <1>6, <1>9, <1>10, <1>11, <2>1 DEF M, P
  <2>2. CASE ~ (Cardinality(M) > Limit)
    BY <1>1, <1>2, <1>3, <1>6, <1>7, <1>10, <1>11, <2>2 DEF M, P
  <2> QED BY <2>1, <2>2
-----------------------------------------------------------------------------
(* A list, one page longer.                                                  *)

LEMMA ExtendFits ==
  ASSUME LedgerIInv, TimesIInv, NEW L, ListFits(L), L.next # End
  PROVE  ListFits(Extended(view, L))
<1> USE DEF TimesIInv
<1> DEFINE P == Page(view, L.next)
           R == Rest(view, L.next)
           C == Cursor(view, L.next)
           M == Matching(view)
           N == Extended(view, L)
<1>1. /\ N.shown = L.shown \cup P /\ N.loaded = L.loaded + Cardinality(P) /\ N.next = C
      /\ N.base = IF L.next = Start THEN M ELSE L.base
  BY DEF Extended
<1>2. \A e : e \in R <=> e \in M /\ (L.next = Start \/ Precedes(view, L.next, e))
  BY DEF Rest, Beyond
<1>3. /\ P \subseteq R /\ R \subseteq M /\ IsFiniteSet(P)
      /\ \A e \in R \ P, p \in P : Precedes(view, p, e)
      /\ C = End => P = R
      /\ C # End => C \in P /\ \A f \in P : f = C \/ Precedes(view, f, C)
  BY PageFits
<1>4. /\ M \subseteq Entries /\ M \subseteq Ids /\ IsFiniteSet(M) /\ Start \notin M /\ End \notin M
      /\ Start # End /\ Entries \subseteq Ids
  BY MatchingTypes, IdTypes DEF Start, End
<1>5. /\ \A e \in Ids : ~ Precedes(view, e, e)
      /\ \A e, f, g \in Ids : Precedes(view, e, f) /\ Precedes(view, f, g) => Precedes(view, e, g)
      /\ \A e, f \in Ids : e = f \/ Precedes(view, e, f) \/ Precedes(view, f, e)
  BY PrecedesOrders
<1>6. /\ L.shown \subseteq M /\ L.base \subseteq M /\ L.loaded = Cardinality(L.shown)
      /\ L.next \in Entries \cup {Start} /\ L.next = Start => L.shown = {}
  BY DEF ListFits
<1>7. L.next # Start =>
        /\ L.next \in L.shown
        /\ \A f \in L.shown : f = L.next \/ Precedes(view, f, L.next)
        /\ \A e \in L.base : Precedes(view, e, L.next) => e \in L.shown
  BY <1>6 DEF ListFits
<1>8. \A e \in M, f \in L.shown : Skipped(L, e, f) =>
        IF view.order = "newest" THEN \A s \in L.shown : stamp[s].at <= stamp[e].at
        ELSE \E s \in L.shown : stamp[s].at = stamp[e].at
  BY DEF ListFits, SkipsTies
<1>9. \A e \in Ids : stamp[e].at \in Nat
  BY StampTypes
<1>10. \A e, f \in Ids : view.order = "newest" /\ Precedes(view, e, f) => stamp[f].at <= stamp[e].at
  BY <1>9 DEF Precedes, Older
<1>11. L.shown \cap P = {}
  BY <1>2, <1>3, <1>4, <1>5, <1>6, <1>7
<1>12. Cardinality(L.shown \cup P) = L.loaded + Cardinality(P)
  <2>1. IsFiniteSet(L.shown)
    BY <1>4, <1>6, FS_Subset
  <2>2. Cardinality(L.shown \cup P)
          = Cardinality(L.shown) + Cardinality(P) - Cardinality(L.shown \cap P)
    BY <1>3, <2>1, FS_Union
  <2>3. Cardinality(L.shown \cap P) = 0 /\ Cardinality(L.shown) \in Nat /\ Cardinality(P) \in Nat
    BY <1>3, <1>11, <2>1, FS_EmptySet, FS_CardinalityType
  <2> QED BY <1>6, <2>2, <2>3
<1> HIDE DEF P, R, C, M, N
<1>13. \A e \in N.base : e \in L.shown \/ e \in R
  BY <1>1, <1>2, <1>4, <1>5, <1>6, <1>7
<1>14. N.shown \subseteq M /\ N.base \subseteq M /\ N.loaded = Cardinality(N.shown)
  BY <1>1, <1>3, <1>6, <1>12
<1>15. N.next \in Entries \cup {End} /\ N.next # Start
  BY <1>1, <1>3, <1>4
<1>16. N.next = End => N.base \subseteq N.shown
  BY <1>1, <1>3, <1>13
<1>17. ASSUME N.next # End
       PROVE  /\ N.next \in N.shown
              /\ \A f \in N.shown : f = N.next \/ Precedes(view, f, N.next)
              /\ \A e \in N.base : Precedes(view, e, N.next) => e \in N.shown
  <2>1. C \in P /\ C \in R /\ C \in Ids /\ \A f \in P : f = C \/ Precedes(view, f, C)
    BY <1>1, <1>3, <1>4, <1>17
  <2>2. \A f \in L.shown : Precedes(view, f, C)
    BY <1>2, <1>4, <1>5, <1>6, <1>7, <2>1
  <2>3. \A e \in R : Precedes(view, e, C) => e \in P
    BY <1>3, <1>4, <1>5, <2>1
  <2> QED BY <1>1, <1>13, <2>1, <2>2, <2>3
<1>18. ASSUME NEW e \in M, NEW f \in N.shown, e \notin N.shown, Precedes(view, e, f)
       PROVE  IF view.order = "newest" THEN \A s \in N.shown : stamp[s].at <= stamp[e].at
              ELSE \E s \in N.shown : stamp[s].at = stamp[e].at
  <2>1. PICK g \in L.shown : Precedes(view, e, g)
    <3>1. CASE f \in L.shown
      BY <3>1, <1>18
    <3>2. CASE f \in P
      <4>1. e \notin R
        BY <1>1, <1>3, <1>4, <1>5, <1>18, <3>2
      <4>2. L.next \in L.shown /\ Precedes(view, e, L.next)
        BY <1>1, <1>2, <1>4, <1>5, <1>6, <1>7, <1>18, <4>1
      <4> QED BY <4>2
    <3> QED BY <1>1, <1>18, <3>1, <3>2
  <2>2. Skipped(L, e, g)
    BY <1>1, <1>18, <2>1 DEF Skipped, M
  <2>3. CASE view.order = "newest"
    <3>1. \A s \in L.shown : stamp[s].at <= stamp[e].at
      BY <1>8, <2>2, <2>3 DEF M
    <3>2. \A s \in P : stamp[s].at <= stamp[L.next].at /\ L.next \in L.shown
      BY <1>2, <1>3, <1>4, <1>6, <1>7, <1>10, <2>1, <2>3
    <3>3. \A s \in P : stamp[s].at <= stamp[e].at
      <4> SUFFICES ASSUME NEW s \in P PROVE stamp[s].at <= stamp[e].at
        OBVIOUS
      <4>1. stamp[s].at <= stamp[L.next].at /\ stamp[L.next].at <= stamp[e].at
        BY <3>1, <3>2
      <4>2. s \in Ids /\ L.next \in Ids /\ e \in Ids
        BY <1>3, <1>4, <1>6, <3>2
      <4> QED BY <1>9, <4>1, <4>2
    <3> QED BY <1>1, <2>3, <3>1, <3>3
  <2>4. CASE view.order # "newest"
    BY <1>1, <1>8, <2>2, <2>4 DEF M
  <2> QED BY <2>3, <2>4
<1>19. SkipsTies(N)
  BY <1>18 DEF SkipsTies, Skipped, M
<1>20. N.next \in Entries => N.next # End
  BY <1>4 , IdTypes
<1>21. BaseFirst(N)
  BY <1>1 DEF ListFits, BaseFirst, M
<1>22. LateTied(N)
  <2> SUFFICES ASSUME view.order = "newest", NEW e \in N.shown, e \notin N.base
               PROVE  \E s \in N.base \cap N.shown : stamp[s].at = stamp[e].at
    BY DEF LateTied
  <2>1. L.next # Start /\ N.base = L.base /\ L.next \in L.shown /\ L.shown \subseteq N.shown
    BY <1>1, <1>7, <1>14
  <2>2. \A f \in L.shown \ L.base : \E s \in L.base \cap L.shown : stamp[s].at = stamp[f].at
    BY DEF ListFits, LateTied
  <2>3. CASE e \in L.shown
    BY <2>1, <2>2, <2>3
  <2>4. CASE e \in P
    <3>1. e \in M /\ e \in Ids /\ L.next \in Ids /\ Precedes(view, L.next, e)
      BY <1>2, <1>3, <1>4, <1>6, <2>1, <2>4
    <3>2. stamp[e].at <= stamp[L.next].at
      BY <1>10, <3>1
    <3>3. PICK s \in L.base \cap L.shown : stamp[s].at = stamp[L.next].at
      BY <2>1, <2>2
    <3>4. s < e
      BY <2>1, <3>1, <3>3 DEF ListFits, BaseFirst, M
    <3>5. s \in Ids /\ Live(s) /\ Live(e) /\ SameUser(s, e)
      BY <1>4, <1>6, <3>1, <3>3 DEF M, Matching, Entries, Live, SameUser, IsCommitted
    <3>6. stamp[s].at <= stamp[e].at
      BY <3>1, <3>4, <3>5 DEF StampedInOrder
    <3> QED BY <1>9, <2>1, <3>1, <3>2, <3>3, <3>5, <3>6
  <2> QED BY <1>1, <2>3, <2>4
<1> QED BY <1>14, <1>15, <1>16, <1>17, <1>19, <1>20, <1>21, <1>22 DEF ListFits, M, N
-----------------------------------------------------------------------------
(* Appending entries.                                                        *)

\* A row is appended under the balance lock; a lock is what a claim waited for.
Inserts(t) == /\ t \in Tx /\ IsActive(t) /\ call[t].at = "claim"
              /\ clog' = clog /\ call'[t].at = "move"
              /\ \A s \in Tx \ {t} : call'[s] = call[s]
              /\ Len(rows') = Len(rows) + 1
              /\ \A i \in Ids : rows'[i] = rows[i]
              /\ rows'[Len(rows) + 1].user = call[t].in.user /\ rows'[Len(rows) + 1].by = t
Waited == \A t \in Tx : call'[t].at = "claim" => call[t].at = "lock" \/ call'[t] = call[t]

LEMMA LedgerCalls ==
  ASSUME LedgerIInv, LedgerNext
  PROVE  (\E t : Inserts(t)) \/ (rows' = rows /\ Waited)
<1>1. /\ rows \in Seq(Row) /\ call \in [Tx -> CallState]
  BY DEF LedgerIInv, LedgerTypeOK
<1>2. ASSUME NEW t \in Tx, Insert(t) PROVE Inserts(t)
  BY <1>1, <1>2 DEF Insert, Inserts, Ids
<1>4. ASSUME NEW t \in Tx, rows' = rows, call' = call PROVE Waited
  BY <1>4 DEF Waited
<1>5. ASSUME NEW t \in Tx, NEW u, LockAhead(t, u) PROVE rows' = rows /\ Waited
  BY <1>1, <1>5 DEF LockAhead, Waited
<1>6. ASSUME NEW t \in Tx, NEW in, AppendEntry(t, in) PROVE rows' = rows /\ Waited
  BY <1>1, <1>6 DEF AppendEntry, Waited
<1>7. ASSUME NEW t \in Tx, Lock(t) PROVE rows' = rows /\ Waited
  BY <1>1, <1>7 DEF Lock, Waited
<1>8. ASSUME NEW t \in Tx, Duplicate(t) PROVE rows' = rows /\ Waited
  <2>1. PICK i : call' = [call EXCEPT ![t] = [at |-> "done", made |-> @.made,
                                              id |-> i, duplicate |-> TRUE]]
    BY <1>8 DEF Duplicate
  <2> QED BY <1>1, <1>8, <2>1 DEF Duplicate, Waited
<1>9. ASSUME NEW t \in Tx, Move(t) PROVE rows' = rows /\ Waited
  BY <1>1, <1>9 DEF Move, Waited
<1>10. ASSUME NEW t \in Tx, Open(t) \/ Refuse(t) \/ Close(t) \/ Fail(t)
       PROVE  rows' = rows /\ Waited
  BY <1>4, <1>10 DEF Open, Refuse, Close, Fail
<1> QED
  BY <1>2, <1>5, <1>6, <1>7, <1>8, <1>9, <1>10
  DEF LedgerNext, ReverseEntry, AppendStep, Advance

\* What is there keeps its place.
LEMMA WriteGrows ==
  ASSUME LedgerIInv, TimesIInv, Write
  PROVE  /\ LedgerIInv' /\ Decided /\ Ids \subseteq Ids' /\ view' = view
         /\ clock' = clock /\ Len(stamp') = Len(rows')
         /\ stamp' \in Seq([at : Nat, id : Uuids])
         /\ \A i \in Ids : rows'[i] = rows[i] /\ stamp'[i] = stamp[i]
         /\ \A i \in Ids' \ Ids : \E t : Inserts(t) /\ i = Len(rows) + 1 /\ stamp'[i].at = asked[t]
                                      /\ \A e \in Ids : stamp'[i].id # stamp[e].id
<1> DEFINE S == [at : Nat, id : Uuids]
<1>1. LedgerIInv' /\ Decided /\ Grown
  BY NextInvariant, LedgerGrows DEF Write
<1>2. /\ Ids = 1 .. Len(rows) /\ Ids' = 1 .. Len(rows') /\ Len(rows) \in Nat
      /\ stamp \in Seq(S) /\ Len(stamp) = Len(rows) /\ asked \in [Tx -> Nat]
      /\ view' = view /\ clock' = clock
  BY IdTypes DEF TimesIInv, TimesFit, Write, readVars, Ids
<1>3. CASE rows' = rows
  BY <1>1, <1>2, <1>3 DEF Write, Stamped, Grown
<1>4. ASSUME rows' # rows, NEW t, Inserts(t)
      PROVE  \E n \in Uuids : /\ stamp' = Append(stamp, [at |-> asked[t], id |-> n])
                              /\ \A e \in Ids : stamp[e].id # n
  <2>1. Len(rows') = Len(rows) + 1 /\ rows'[Len(rows')].by = t
    BY <1>4 DEF Inserts
  <2> QED BY <1>4, <2>1 DEF Write, Stamped
<1>5. ASSUME rows' # rows, NEW t, Inserts(t)
      PROVE  /\ Len(stamp') = Len(rows') /\ stamp' \in Seq(S)
             /\ \A i \in Ids : stamp'[i] = stamp[i]
             /\ \A i \in Ids' \ Ids : i = Len(rows) + 1 /\ stamp'[i].at = asked[t]
                                      /\ \A e \in Ids : stamp'[i].id # stamp[e].id
  <2>1. PICK n \in Uuids : /\ stamp' = Append(stamp, [at |-> asked[t], id |-> n])
                           /\ \A e \in Ids : stamp[e].id # n
    BY <1>4, <1>5
  <2>2. [at |-> asked[t], id |-> n] \in S /\ Len(rows') = Len(rows) + 1
    BY <1>2, <1>5 DEF Inserts
  <2> HIDE DEF S
  <2> QED BY <1>2, <2>1, <2>2
<1>6. rows' # rows => \E t : Inserts(t)
  BY LedgerCalls DEF Write
<1> QED BY <1>1, <1>2, <1>3, <1>5, <1>6 DEF Grown

\* Whose call claims or writes for a user holds that user's balance row.
LEMMA OneWriter ==
  ASSUME LedgerIInv, NEW t \in Tx, IsActive(t), call[t].at = "claim", NEW u, u = call[t].in.user
  PROVE  /\ \A s \in Tx : IsActive(s) /\ call[s].at = "claim" /\ call[s].in.user = u => s = t
         /\ \A i \in Ids : IsActive(rows[i].by) /\ rows[i].user = u => rows[i].by = t
  BY DEF LedgerIInv, CallsUnderLock, EntriesUnderLock

LEMMA WriteKeepsTimes ==
  ASSUME LedgerIInv, TimesIInv, Write
  PROVE  TimesIInv'
<1>1. /\ LedgerIInv' /\ Decided /\ Ids \subseteq Ids' /\ clock' = clock
      /\ Len(stamp') = Len(rows') /\ stamp' \in Seq([at : Nat, id : Uuids])
      /\ \A i \in Ids : rows'[i] = rows[i] /\ stamp'[i] = stamp[i]
      /\ \A i \in Ids' \ Ids : \E t : Inserts(t) /\ i = Len(rows) + 1 /\ stamp'[i].at = asked[t]
                                   /\ \A e \in Ids : stamp'[i].id # stamp[e].id
  BY WriteGrows
<1>2. /\ Ids = 1 .. Len(rows) /\ Len(rows) \in Nat /\ \A i \in Ids : rows[i].by \in Xids
      /\ Ids' = 1 .. Len(rows')
  BY IdTypes DEF Ids
<1>3. /\ clock \in Nat /\ asked \in [Tx -> Nat] /\ \A t \in Tx : asked[t] <= clock
      /\ \A i \in Ids : stamp[i].at <= clock
      /\ \A i, j \in Ids : i # j => stamp[i].id # stamp[j].id
  BY DEF TimesIInv, TimesFit
<1>4. \A i \in Ids : stamp[i].at \in Nat
  BY StampTypes DEF TimesIInv
<1>5. asked' = [t \in Tx |-> IF call[t].at = "lock" /\ call'[t].at = "claim" THEN clock
                             ELSE asked[t]]
  BY DEF Write, Stamped
<1>6. /\ \A i \in Ids : clog[rows[i].by] # "new"
      /\ \A i \in Ids : IsActive(rows[i].by) => bal[rows[i].user].by = rows[i].by
      /\ \A t \in Tx : clog[t] = "new" => call[t].at # "claim"
      /\ clog[Setup] = "committed"
  BY DEF LedgerIInv, EntriesUnderLock, CallsUnderLock, NotCalled
<1>7. /\ asked' \in [Tx -> Nat] /\ \A t \in Tx : asked'[t] <= clock
  BY <1>3, <1>5
<1>8. (\A i \in Ids' : i \in Ids) \/ \E t : Inserts(t) /\ Ids' = Ids \cup {Len(rows) + 1}
  BY <1>1, <1>2 DEF Inserts
<1>9. CASE \A i \in Ids' : i \in Ids
  <2>1. Waited /\ rows' = rows
    <3>1. ~ \E t : Inserts(t)
      BY <1>2, <1>9 DEF Inserts
    <3> QED BY <3>1, LedgerCalls DEF Write
  <2>2. \A i \in Ids' : i \in Ids /\ stamp'[i] = stamp[i] /\ rows'[i] = rows[i]
    BY <1>1, <1>9
  <2>3. TimesFit'
    <3>1. \A i \in Ids' : stamp'[i].at <= clock
      BY <1>3, <2>2
    <3>2. \A i, j \in Ids' : i # j => stamp'[i].id # stamp'[j].id
      BY <1>3, <2>2
    <3> QED BY <1>1, <1>3, <1>7, <3>1, <3>2 DEF TimesFit
  <2>4. \A i \in Ids : clog'[rows[i].by] # "aborted" => Live(i)
    BY <1>1, <1>2 DEF Decided, Live
  <2>5. StampedInOrder'
    <3> SUFFICES ASSUME NEW i \in Ids', NEW j \in Ids', rows'[i].user = rows'[j].user,
                        clog'[rows'[i].by] # "aborted", clog'[rows'[j].by] # "aborted", i < j
                 PROVE  stamp'[i].at <= stamp'[j].at
      BY DEF StampedInOrder, SameUser, Live
    <3> QED BY <2>2, <2>4 DEF TimesIInv, StampedInOrder, SameUser
  <2>6. CommittedStampedFirst'
    <3> SUFFICES ASSUME NEW i \in Ids, NEW j \in Ids, rows[i].user = rows[j].user,
                        clog'[rows[i].by] = "committed", clog'[rows[j].by] = "active"
                 PROVE  i < j /\ stamp[i].at <= stamp[j].at
      BY <2>2 DEF CommittedStampedFirst, SameUser, IsCommitted, IsActive
    <3>1. IsActive(rows[j].by)
      BY <1>1, <1>2, <1>6 DEF Decided, IsActive
    <3>2. CASE IsCommitted(rows[i].by)
      BY <3>1, <3>2 DEF TimesIInv, CommittedStampedFirst, SameUser
    <3>3. CASE ~ IsCommitted(rows[i].by)
      <4>1. IsActive(rows[i].by)
        BY <1>1, <1>2, <1>6, <3>3 DEF Decided, IsActive, IsCommitted
      <4>2. rows[i].by = rows[j].by
        BY <1>6, <3>1, <4>1
      <4> QED BY <4>2
    <3> QED BY <3>2, <3>3
  <2>7. AskedLast'
    <3> SUFFICES ASSUME NEW t \in Tx, NEW i \in Ids, clog'[t] = "active", call'[t].at = "claim",
                        rows[i].user = call'[t].in.user, clog'[rows[i].by] # "aborted"
                 PROVE  stamp[i].at <= asked'[t]
      BY <2>2 DEF AskedLast, Live, IsActive
    <3>1. CASE call[t].at = "lock"
      BY <1>3, <1>5, <3>1
    <3>2. CASE call[t].at # "lock"
      <4>1. call'[t] = call[t] /\ asked'[t] = asked[t]
        BY <1>5, <2>1, <3>2 DEF Waited
      <4>2. IsActive(t)
        BY <1>1, <1>6, <4>1 DEF Decided, IsActive, Xids
      <4> QED BY <2>4, <4>1, <4>2 DEF TimesIInv, AskedLast
    <3> QED BY <3>1, <3>2
  <2> QED BY <2>3, <2>5, <2>6, <2>7 DEF TimesIInv
<1>10. ASSUME NEW t, Inserts(t), Ids' = Ids \cup {Len(rows) + 1} PROVE TimesIInv'
  <2> DEFINE n == Len(rows) + 1
  <2>1. /\ t \in Tx /\ IsActive(t) /\ call[t].at = "claim" /\ clog' = clog /\ call'[t].at = "move"
        /\ \A s \in Tx \ {t} : call'[s] = call[s]
        /\ rows'[n].user = call[t].in.user /\ rows'[n].by = t /\ n \notin Ids
    BY <1>2, <1>10 DEF Inserts
  <2>2. PICK s : /\ Inserts(s) /\ stamp'[n].at = asked[s]
                 /\ \A e \in Ids : stamp'[n].id # stamp[e].id
    BY <1>1, <1>10, <2>1
  <2>3. stamp'[n].at = asked[t] /\ asked[t] \in Nat /\ asked' = asked
    <3>1. s = t
      BY <1>10, <2>2 DEF Inserts
    <3>2. \A x \in Tx : ~ (call[x].at = "lock" /\ call'[x].at = "claim")
      BY <2>1
    <3> QED BY <1>3, <1>5, <2>1, <2>2, <3>1, <3>2
  <2>4. \A i \in Ids : rows[i].user = call[t].in.user /\ Live(i) => stamp[i].at <= asked[t]
    BY <2>1 DEF TimesIInv, AskedLast
  <2> HIDE DEF n
  <2>5. \A i \in Ids' : \/ i \in Ids /\ i # n /\ rows'[i] = rows[i] /\ stamp'[i] = stamp[i]
                        \/ i = n
    BY <1>1, <1>10, <2>1 DEF n
  <2>6. TimesFit'
    <3>1. \A i \in Ids' : stamp'[i].at <= clock
      BY <1>3, <2>1, <2>3, <2>5
    <3>2. \A i, j \in Ids' : i # j => stamp'[i].id # stamp'[j].id
      BY <1>3, <2>2, <2>5
    <3> QED BY <1>1, <1>3, <1>7, <3>1, <3>2 DEF TimesFit
  <2>7. StampedInOrder'
    <3> SUFFICES ASSUME NEW i \in Ids', NEW j \in Ids', rows'[i].user = rows'[j].user,
                        clog[rows'[i].by] # "aborted", clog[rows'[j].by] # "aborted", i < j
                 PROVE  stamp'[i].at <= stamp'[j].at
      BY <2>1 DEF StampedInOrder, SameUser, Live
    <3>1. i \in Ids
      BY <1>2, <1>10, <2>5 DEF n
    <3>2. CASE j \in Ids
      BY <2>5, <3>1, <3>2, <2>1 DEF TimesIInv, StampedInOrder, SameUser, Live
    <3>3. CASE j = n
      BY <2>1, <2>3, <2>4, <2>5, <3>1, <3>3 DEF Live
    <3> QED BY <2>5, <3>2, <3>3
  <2>8. CommittedStampedFirst'
    <3> SUFFICES ASSUME NEW i \in Ids', NEW j \in Ids', rows'[i].user = rows'[j].user,
                        clog[rows'[i].by] = "committed", clog[rows'[j].by] = "active"
                 PROVE  i < j /\ stamp'[i].at <= stamp'[j].at
      BY <2>1 DEF CommittedStampedFirst, SameUser, IsCommitted, IsActive
    <3>1. i \in Ids
      BY <2>1, <2>5 DEF IsActive
    <3>2. CASE j \in Ids
      BY <2>1, <2>5, <3>1, <3>2 DEF TimesIInv, CommittedStampedFirst, SameUser, IsCommitted, IsActive
    <3>3. CASE j = n
      <4>1. i < j
        BY <1>2, <3>1, <3>3 DEF n
      <4> QED BY <2>1, <2>3, <2>4, <2>5, <3>1, <3>3, <4>1 DEF Live
    <3> QED BY <2>5, <3>2, <3>3
  <2>9. AskedLast'
    <3> SUFFICES ASSUME NEW x \in Tx, NEW i \in Ids', clog[x] = "active", call'[x].at = "claim",
                        rows'[i].user = call'[x].in.user, clog[rows'[i].by] # "aborted"
                 PROVE  stamp'[i].at <= asked[x]
      BY <2>1, <2>3 DEF AskedLast, Live, IsActive
    <3>1. x # t /\ call'[x] = call[x] /\ IsActive(x)
      BY <2>1 DEF IsActive
    <3>2. call[x].in.user # call[t].in.user
      BY <2>1, <3>1, OneWriter
    <3>3. i \in Ids
      BY <2>1, <2>5, <3>1, <3>2
    <3> QED BY <2>1, <2>5, <3>1, <3>3 DEF TimesIInv, AskedLast, Live
  <2> QED BY <2>6, <2>7, <2>8, <2>9 DEF TimesIInv
<1> QED BY <1>8, <1>9, <1>10

LEMMA WriteKeepsList ==
  ASSUME LedgerIInv, TimesIInv, view.order \in {"newest", "oldest"}, Write, NEW L, ListFits(L)
  PROVE  ListFits(L)'
<1>1. /\ LedgerIInv' /\ Decided /\ Ids \subseteq Ids' /\ view' = view
      /\ \A i \in Ids : rows'[i] = rows[i] /\ stamp'[i] = stamp[i]
      /\ \A i \in Ids' \ Ids : \E t : Inserts(t) /\ i = Len(rows) + 1
  BY WriteGrows
<1>2. /\ Entries \subseteq Ids /\ Start \notin Ids /\ End \notin Ids
      /\ \A i \in Ids : rows[i].by \in Xids
  BY IdTypes
<1>3. Entries' \subseteq Ids' /\ Start \notin Ids' /\ End \notin Ids'
  BY <1>1, IdTypes DEF Start, End, Entries
<1>4. /\ Entries = {i \in Ids : clog[rows[i].by] = "committed"}
      /\ Entries' = {i \in Ids' : clog'[rows'[i].by] = "committed"}
  BY DEF Entries, IsCommitted
<1>5. Entries \subseteq Entries'
  BY <1>1, <1>2, <1>4 DEF Decided
<1>6. \A e \in Entries' \ Entries : e \in Ids /\ IsActive(rows[e].by)
  <2> SUFFICES ASSUME NEW e \in Entries', e \notin Entries PROVE e \in Ids /\ IsActive(rows[e].by)
    OBVIOUS
  <2>1. e \in Ids
    <3> SUFFICES ASSUME e \notin Ids PROVE FALSE
      OBVIOUS
    <3>1. PICK t : Inserts(t) /\ e = Len(rows) + 1
      BY <1>1, <1>3
    <3>2. rows'[e].by = t /\ clog'[t] = "active"
      BY <3>1 DEF Inserts, IsActive
    <3> QED BY <1>4, <3>2
  <2>2. clog[rows[e].by] # "new"
    BY <2>1 DEF LedgerIInv, EntriesUnderLock
  <2> QED BY <1>1, <1>2, <1>4, <2>1, <2>2 DEF Decided, IsActive
<1>7. \A e \in Ids : TypeOf(e)' = TypeOf(e)
  BY <1>1 DEF TypeOf
<1>8. \A e, f \in Ids : Precedes(view, e, f)' <=> Precedes(view, e, f)
  BY <1>1 DEF Precedes, Older
<1>9. /\ Matching(view) = {e \in Entries : rows[e].user = Reader /\ view.type \in {"ALL", TypeOf(e)}}
      /\ Matching(view)' = {e \in Entries' : rows'[e].user = Reader
                                          /\ view.type \in {"ALL", TypeOf(e)'}}
  BY <1>1 DEF Matching
<1>10. /\ Matching(view) \subseteq Matching(view)' /\ Matching(view)' \cap Entries \subseteq Matching(view)
       /\ Matching(view) \subseteq Entries
  BY <1>1, <1>2, <1>5, <1>7, <1>9
<1>11. \A e \in Matching(view)' : e \in Entries' /\ rows'[e].user = Reader
  BY <1>9
<1>12. \A e \in Matching(view) : e \in Entries /\ rows[e].user = Reader
  BY <1>9
<1>13. /\ L.shown \subseteq Matching(view) /\ L.base \subseteq Matching(view)
       /\ L.loaded = Cardinality(L.shown) /\ L.next \in Entries \cup {Start, End}
       /\ L.next = Start => L.shown = {}
       /\ L.next = End => L.base \subseteq L.shown
       /\ L.next \in Entries =>
            /\ L.next \in L.shown
            /\ \A f \in L.shown : f = L.next \/ Precedes(view, f, L.next)
            /\ \A e \in L.base : Precedes(view, e, L.next) => e \in L.shown
  BY DEF ListFits
<1>14. L.next \in Entries' => L.next \in Entries
  BY <1>3, <1>13 DEF Start, End
<1>15. L.next \in Entries' =>
            /\ L.next \in L.shown
            /\ \A f \in L.shown : f = L.next \/ Precedes(view, f, L.next)'
            /\ \A e \in L.base : Precedes(view, e, L.next)' => e \in L.shown
  BY <1>2, <1>8, <1>10, <1>13, <1>14
<1>16. ASSUME NEW e \in Matching(view)', NEW f \in L.shown, e \notin L.shown,
              Precedes(view, e, f)'
       PROVE  IF view.order = "newest" THEN \A s \in L.shown : stamp[s].at <= stamp[e].at
              ELSE \E s \in L.shown : stamp[s].at = stamp[e].at
  <2>1. CASE e \in Entries
    <3>1. e \in Matching(view) /\ Precedes(view, e, f)
      BY <1>2, <1>8, <1>10, <1>13, <1>16, <2>1
    <3>2. Skipped(L, e, f)
      BY <1>16, <3>1 DEF Skipped
    <3> QED BY <3>1, <3>2 DEF ListFits, SkipsTies
  <2>2. CASE e \notin Entries
    <3>1. e \in Ids /\ IsActive(rows[e].by) /\ rows[e].user = Reader
      BY <1>1, <1>6, <1>11, <2>2
    <3>2. \A s \in L.shown : s \in Ids /\ IsCommitted(rows[s].by) /\ rows[s].user = Reader
      BY <1>2, <1>12, <1>13 DEF Entries
    <3>3. \A s \in L.shown : stamp[s].at <= stamp[e].at
      BY <3>1, <3>2 DEF TimesIInv, CommittedStampedFirst, SameUser
    <3>4. view.order = "oldest" => stamp[e].at <= stamp[f].at
      <4>1. stamp[e].at \in Nat /\ stamp[f].at \in Nat /\ Precedes(view, e, f)
        BY <1>8, <1>16, <3>1, <3>2, StampTypes DEF TimesIInv
      <4> QED BY <4>1 DEF Precedes, Older
    <3>5. view.order = "oldest" => stamp[f].at = stamp[e].at
      <4>1. stamp[e].at \in Nat /\ stamp[f].at \in Nat
        BY <3>1, <3>2, StampTypes DEF TimesIInv
      <4> QED BY <3>3, <3>4, <4>1
    <3> QED BY <3>3, <3>5
  <2> QED BY <2>1, <2>2
<1>17. SkipsTies(L)'
  <2>1. \A s \in L.shown : stamp'[s] = stamp[s] /\ s \in Ids
    BY <1>1, <1>2, <1>10, <1>13
  <2>2. \A e \in Matching(view)' \ L.shown, f \in L.shown :
          Precedes(view, e, f)' => e \in Ids /\ stamp'[e] = stamp[e]
    BY <1>1, <1>2, <1>6, <1>11
  <2> QED BY <1>1, <1>16, <2>1, <2>2 DEF SkipsTies, Skipped
<1>18. BaseFirst(L)'
  <2> SUFFICES ASSUME NEW b \in L.base, NEW e \in Matching(view)', e \notin L.base PROVE b < e
    BY DEF BaseFirst
  <2>1. CASE e \in Entries
    BY <1>10, <2>1 DEF ListFits, BaseFirst
  <2>2. CASE e \notin Entries
    <3>1. e \in Ids /\ IsActive(rows[e].by) /\ rows[e].user = Reader
      BY <1>1, <1>6, <1>11, <2>2
    <3>2. b \in Ids /\ IsCommitted(rows[b].by) /\ rows[b].user = Reader
      BY <1>2, <1>12, <1>13 DEF Entries
    <3> QED BY <3>1, <3>2 DEF TimesIInv, CommittedStampedFirst, SameUser
  <2> QED BY <2>1, <2>2
<1>19. LateTied(L)'
  <2>1. \A s \in L.shown : stamp'[s] = stamp[s]
    BY <1>1, <1>2, <1>10, <1>13
  <2> QED BY <1>1, <2>1 DEF ListFits, LateTied
<1> QED
  <2>1. L.shown \subseteq Matching(view)' /\ L.base \subseteq Matching(view)'
    BY <1>10, <1>13
  <2>2. L.next \in Entries' \cup {Start, End}
    BY <1>5, <1>13
  <2> QED BY <1>1, <1>13, <1>15, <1>17, <1>18, <1>19, <2>1, <2>2 DEF ListFits, Start, End
-----------------------------------------------------------------------------
(* Everything else leaves the entries alone.                                 *)

LEMMA BlankFits == ListFits(Blank) /\ ListFits(Blank)'
<1>1. Cardinality({}) = 0
  BY FS_EmptySet
<1>2. Start \notin Entries /\ Start # End /\ Start \notin Entries'
  BY DEF Start, End, Entries, Ids
<1> QED BY <1>1, <1>2 DEF ListFits, Blank, SkipsTies, Skipped, BaseFirst, LateTied

LEMMA LedgerAtRest ==
  ASSUME LedgerIInv, TimesIInv, UNCHANGED <<ledgerVars, asked, stamp>>, clock' \in {clock, clock + 1}
  PROVE  /\ LedgerIInv' /\ TimesIInv'
         /\ \A L : view' = view /\ ListFits(L) => ListFits(L)'
<1>1. UNCHANGED <<clog, rows, bal, call>>
  BY DEF ledgerVars
<1>2. LedgerIInv'
  BY NextInvariant
<1>3. Ids' = Ids /\ Entries' = Entries
  BY <1>1 DEF Ids, Entries, IsCommitted
<1>4. TimesFit'
  <2>1. \A i \in Ids' : stamp'[i].at <= clock'
    BY <1>3, StampTypes DEF TimesIInv, TimesFit
  <2>2. clock' \in Nat /\ \A t \in Tx : asked'[t] <= clock'
    BY DEF TimesIInv, TimesFit
  <2>3. \A i, j \in Ids' : i # j => stamp'[i].id # stamp'[j].id
    BY <1>3 DEF TimesIInv, TimesFit
  <2> QED BY <1>1, <2>1, <2>2, <2>3 DEF TimesIInv, TimesFit
<1>5. (StampedInOrder /\ CommittedStampedFirst /\ AskedLast)'
  BY <1>1, <1>3
  DEF TimesIInv, StampedInOrder, CommittedStampedFirst, AskedLast, SameUser, Live, IsActive, IsCommitted
<1>6. ASSUME NEW L, view' = view, ListFits(L) PROVE ListFits(L)'
  <2>1. Matching(view)' = Matching(view)
    BY <1>1, <1>3, <1>6 DEF Matching, TypeOf
  <2>2. \A e, f : Precedes(view, e, f)' <=> Precedes(view, e, f)
    BY <1>6 DEF Precedes, Older
  <2> QED
    BY <1>1, <1>3, <1>6, <2>1, <2>2
    DEF ListFits, SkipsTies, Skipped, BaseFirst, LateTied, Start, End
<1> QED BY <1>2, <1>4, <1>5, <1>6 DEF TimesIInv
-----------------------------------------------------------------------------

LEMMA HistoryInitInvariant == HistoryInit => HistoryIInv
<1> SUFFICES ASSUME HistoryInit PROVE HistoryIInv
  OBVIOUS
<1>1. LedgerIInv /\ rows = Opening
  BY InitInvariant DEF HistoryInit, LedgerInit
<1>2. Ids = 1 .. Len(rows) /\ Len(rows) \in Nat /\ \A i \in Ids : rows[i].by = Setup
  BY <1>1, IdTypes, OpeningIsCommitted
<1>3. /\ stamp \in [1 .. Len(rows) -> [at : {0}, id : Uuids]]
      /\ \A e, f \in Ids : e # f => stamp[e].id # stamp[f].id
      /\ clock = 0 /\ asked = [t \in Tx |-> 0]
  BY <1>1, <1>2 DEF HistoryInit
<1>4. \A i \in Ids : stamp[i] \in [at : {0}, id : Uuids]
  BY <1>2, <1>3
<1>5. \A i \in Ids : stamp[i].at = 0 /\ stamp[i] \in [at : Nat, id : Uuids]
  BY <1>4
<1>6. stamp \in Seq([at : Nat, id : Uuids]) /\ Len(stamp) = Len(rows)
  <2> DEFINE S == [at : Nat, id : Uuids]
  <2>1. stamp \in [1 .. Len(rows) -> S]
    BY <1>2, <1>3, <1>5
  <2> HIDE DEF S
  <2>2. stamp \in Seq(S) /\ Len(stamp) = Len(rows)
    BY <1>2, <2>1
  <2> QED BY <2>2 DEF S
<1>7. TimesFit
  BY <1>3, <1>5, <1>6 DEF TimesFit
<1>8. clog = [x \in Xids |-> IF x = Setup THEN "committed" ELSE "new"]
  BY DEF HistoryInit, LedgerInit, PgInit
<1>9. ~ IsActive(Setup) /\ \A t \in Tx : ~ IsActive(t)
  BY <1>8 DEF IsActive, Xids
<1>10. StampedInOrder /\ CommittedStampedFirst /\ AskedLast
  BY <1>2, <1>5, <1>9 DEF StampedInOrder, CommittedStampedFirst, AskedLast
<1>11. /\ view.order = "newest" /\ list = Blank /\ job = Fetch(Blank, 1)
  BY DEF HistoryInit, Overview
<1> QED BY <1>1, <1>7, <1>10, <1>11, BlankFits
        DEF HistoryIInv, TimesIInv, Fetch, Blank, Start, End

LEMMA HistoryNextInvariant == HistoryIInv /\ [HistoryNext]_historyVars => HistoryIInv'
<1> SUFFICES ASSUME HistoryIInv, [HistoryNext]_historyVars PROVE HistoryIInv'
  OBVIOUS
<1> USE DEF HistoryIInv
<1>1. ASSUME NEW L, L = list', ListFits(L)' PROVE ListFits(list)'
  BY <1>1 DEF ListFits, SkipsTies, Skipped, BaseFirst, LateTied
<1>2. ASSUME NEW L, L = job'.list, ListFits(L)' PROVE ListFits(job.list)'
  BY <1>2 DEF ListFits, SkipsTies, Skipped, BaseFirst, LateTied
<1>3. CASE Write
  <2>1. LedgerIInv' /\ TimesIInv' /\ UNCHANGED readVars
    BY <1>3, WriteGrows, WriteKeepsTimes DEF Write
  <2>2. \A L : ListFits(L) => ListFits(L)'
    BY <1>3, WriteKeepsList
  <2>3. view' = view /\ list' = list /\ job' = job
    BY <2>1 DEF readVars
  <2>4. PICK L, K : L = list /\ K = job.list
    OBVIOUS
  <2>5. ListFits(L)' /\ ListFits(K)'
    BY <2>2, <2>4
  <2> QED BY <1>1, <1>2, <2>1, <2>3, <2>4, <2>5 DEF End
<1>4. CASE UNCHANGED historyVars \/ Tick
  <2>1. UNCHANGED <<ledgerVars, asked, stamp, readVars>> /\ clock' \in {clock, clock + 1}
    BY <1>4 DEF historyVars, timeVars, Tick
  <2>2. view' = view /\ list' = list /\ job' = job
    BY <2>1 DEF readVars
  <2>3. PICK L, K : L = list /\ K = job.list
    OBVIOUS
  <2>4. LedgerIInv' /\ TimesIInv' /\ ListFits(L)' /\ ListFits(K)'
    BY <2>1, <2>2, <2>3, LedgerAtRest
  <2> QED BY <1>1, <1>2, <2>2, <2>3, <2>4 DEF End
<1>5. ASSUME NEW v \in Views, Show(v) PROVE HistoryIInv'
  <2>1. LedgerIInv' /\ TimesIInv'
    BY <1>5, LedgerAtRest DEF Show, timeVars
  <2>2. view'.order \in {"newest", "oldest"}
    BY <1>5 DEF Show, Views
  <2>3. list' = Blank /\ job'.list = Blank
    BY <1>5 DEF Show, Fetch
  <2>4. PICK L : L = Blank
    OBVIOUS
  <2>5. ListFits(L)'
    BY <2>4, BlankFits
  <2>6. ListFits(list)' /\ ListFits(job.list)'
    BY <1>1, <1>2, <2>3, <2>4, <2>5
  <2> QED BY <2>1, <2>2, <2>3, <2>6 DEF Blank, Start, End
<1>6. CASE LoadMore \/ Refetch \/ ReadPage \/ FetchFails \/ RefreshBalance
  <2>1. UNCHANGED <<view, ledgerVars, timeVars>>
    BY <1>6 DEF LoadMore, Refetch, ReadPage, FetchFails, RefreshBalance
  <2>2. LedgerIInv' /\ TimesIInv' /\ \A L : ListFits(L) => ListFits(L)'
    BY <2>1, LedgerAtRest DEF timeVars
  <2>3. ReadPage => ListFits(Extended(view, job.list))
    BY ExtendFits DEF ReadPage, TimesIInv
  <2>4. /\ \/ list' = list
           \/ ListFits(Extended(view, job.list)) /\ list' = Extended(view, job.list)
        /\ \/ job'.list = list
           \/ job'.list = Blank
           \/ ListFits(Extended(view, job.list)) /\ job'.list = Extended(view, job.list)
           \/ job'.list = job.list
        /\ job'.busy => job'.list.next # End
    <3>1. CASE LoadMore
      BY <3>1 DEF LoadMore, Fetch
    <3>2. CASE Refetch
      BY <3>2 DEF Refetch, Fetch, Blank, Start, End
    <3>3. CASE ReadPage
      BY <2>3, <3>3 DEF ReadPage, Fetch, Idle
    <3>4. CASE FetchFails
      BY <3>4 DEF FetchFails, Idle
    <3>5. CASE RefreshBalance
      BY <3>5 DEF RefreshBalance
    <3> QED BY <1>6, <3>1, <3>2, <3>3, <3>4, <3>5
  <2>5. ListFits(Blank)
    BY BlankFits
  <2>6. PICK L, K : L = list' /\ K = job'.list
    OBVIOUS
  <2>7. ListFits(L) /\ ListFits(K)
    BY <2>4, <2>5, <2>6
  <2>8. ListFits(list)' /\ ListFits(job.list)'
    BY <1>1, <1>2, <2>2, <2>6, <2>7
  <2> QED BY <2>1, <2>2, <2>4, <2>8 DEF End
<1> QED BY <1>3, <1>4, <1>5, <1>6 DEF HistoryNext, Read
-----------------------------------------------------------------------------
(* The inductive invariant holds throughout every history, and with it what a *)
(* list shows and where its next page begins.                                 *)
THEOREM HistorySafe == HistorySpec => []HistoryIInv
BY HistoryInitInvariant, HistoryNextInvariant, PTL DEF HistorySpec

(* The pages joined in one list never repeat an entry, and hold only entries  *)
(* of that reader and filter, whatever is appended between two pages.         *)
THEOREM HistoryShowsNothingTwice == HistorySpec => []NothingTwice
<1>1. HistoryIInv => NothingTwice
  BY DEF HistoryIInv, ListFits, NothingTwice
<1> QED BY <1>1, HistorySafe, PTL

(* No page boundary drops an entry: a list read to its end has all that was   *)
(* there when it was begun, at any page size and with any ties.               *)
THEOREM HistoryReadsAllThatWasThere == HistorySpec => []ReadsAllThatWasThere
<1>1. HistoryIInv => ReadsAllThatWasThere
  BY DEF HistoryIInv, ListFits, ReadsAllThatWasThere
<1> QED BY <1>1, HistorySafe, PTL

(* What a list skips because it was committed behind the cursor shares its    *)
(* millisecond with an entry shown.                                           *)
THEOREM HistorySkipsOnlyTies == HistorySpec => []SkipsOnlyTies
<1>1. HistoryIInv => SkipsOnlyTies
  BY DEF HistoryIInv, ListFits, SkipsTies, Skipped, SkipsOnlyTies
<1> QED BY <1>1, HistorySafe, PTL

(* Reading the ledger changes nothing in it: a history with its times and     *)
(* lists hidden is a behaviour of the ledger.                                 *)
THEOREM HistoryIsALedger == HistorySpec => LedgerSpec
<1>1. HistoryInit => LedgerInit
  BY DEF HistoryInit
<1>2. [HistoryNext]_historyVars => [LedgerNext]_ledgerVars
  BY DEF HistoryNext, historyVars, Write, Tick, Read, Show, LoadMore, Refetch, ReadPage, FetchFails,
         RefreshBalance
<1> QED BY <1>1, <1>2, PTL DEF HistorySpec, LedgerSpec
-----------------------------------------------------------------------------
(* The chart.                                                                *)

\* s is the running sum of f, up to n.
Running(s, f, n) == /\ s \in [0 .. n -> Int] /\ s[0] = 0
                    /\ \A k \in 1 .. n : s[k] = s[k - 1] + f[k]
AmountsIn(rs, S) == [i \in 1 .. Len(rs) |-> IF i \in S THEN rs[i].delta ELSE 0]
Amounts(S) == AmountsIn(rows, S)
\* The balance on screen is what the entries it has seen add up to.
MeFits == me.known => me.seen \subseteq Matching(Overview) /\ me.balance = SumOver(me.seen)

LEMMA RunningExists ==
  ASSUME NEW n \in Nat, NEW f \in [1 .. n -> Int]
  PROVE  \E s : Running(s, f, n)
<1> DEFINE T == {k \in Nat : k <= n => \E s : Running(s, f, k)}
<1>1. 0 \in T
  <2>1. Running([k \in 0 .. 0 |-> 0], f, 0)
    BY DEF Running
  <2> QED BY <2>1
<1>2. ASSUME NEW k \in Nat, k \in T PROVE k + 1 \in T
  <2> SUFFICES ASSUME k + 1 <= n PROVE \E s : Running(s, f, k + 1)
    OBVIOUS
  <2>1. PICK s : Running(s, f, k)
    BY <1>2
  <2>2. f[k + 1] \in Int
    OBVIOUS
  <2> DEFINE z == [j \in 0 .. k + 1 |-> IF j = k + 1 THEN s[k] + f[k + 1] ELSE s[j]]
  <2>3. z \in [0 .. k + 1 -> Int] /\ z[0] = 0
    BY <2>1, <2>2 DEF Running
  <2>4. ASSUME NEW j \in 1 .. k + 1 PROVE z[j] = z[j - 1] + f[j]
    <3>1. CASE j = k + 1
      BY <3>1
    <3>2. CASE j \in 1 .. k
      BY <3>2, <2>1 DEF Running
    <3> QED BY <3>1, <3>2
  <2> HIDE DEF z
  <2> QED BY <2>3, <2>4 DEF Running
<1> HIDE DEF T
<1>3. Nat \subseteq T
  BY <1>1, <1>2, NatSetInduction
<1> QED BY <1>3 DEF T

\* SumIn is the last of any running sum.
LEMMA SumInIsRunning ==
  ASSUME NEW rs, NEW S, NEW N, N \in Nat, Len(rs) = N, NEW s, Running(s, AmountsIn(rs, S), N)
  PROVE  SumIn(rs, S) = s[N] /\ SumIn(rs, S) \in Int
<1> DEFINE Step(z) == [n \in 0 .. N |-> IF n = 0 THEN 0
                                        ELSE z[n - 1] + (IF n \in S THEN rs[n].delta ELSE 0)]
           c == CHOOSE z : z = Step(z)
<1>2. s \in [0 .. N -> Int] /\ s[0] = 0
      /\ \A k \in 1 .. N : s[k] = s[k - 1] + (IF k \in S THEN rs[k].delta ELSE 0)
  BY DEF Running, AmountsIn
<1>3. s = Step(s)
  BY <1>2
<1>4. c = Step(c)
  BY <1>3
<1>5. SumIn(rs, S) = c[N]
  BY DEF SumIn
<1> HIDE DEF c
<1>6. \A n \in 0 .. N : c[n] = IF n = 0 THEN 0
                               ELSE c[n - 1] + (IF n \in S THEN rs[n].delta ELSE 0)
  BY <1>4
<1> DEFINE T == {k \in Nat : k <= N => c[k] = s[k]}
<1>7. 0 \in T
  BY <1>2, <1>6
<1>8. ASSUME NEW k \in Nat, k \in T PROVE k + 1 \in T
  <2> SUFFICES ASSUME k + 1 <= N PROVE c[k + 1] = s[k + 1]
    OBVIOUS
  <2>1. k + 1 \in 1 .. N /\ k + 1 \in 0 .. N /\ (k + 1) - 1 = k /\ c[k] = s[k] /\ k + 1 # 0
    BY <1>8
  <2> QED BY <1>2, <1>6, <2>1
<1>9. N \in T
  <2> HIDE DEF T
  <2>1. Nat \subseteq T
    BY <1>7, <1>8, NatSetInduction
  <2> QED BY <2>1
<1>10. s[N] \in Int
  BY <1>2
<1> QED BY <1>5, <1>9, <1>10

LEMMA SumOverIsRunning ==
  ASSUME LedgerIInv, NEW S, NEW s, Running(s, Amounts(S), Len(rows))
  PROVE  SumOver(S) = s[Len(rows)] /\ SumOver(S) \in Int
<1>1. Len(rows) \in Nat
  BY IdTypes
<1> QED BY <1>1, SumInIsRunning DEF Amounts, SumOver

LEMMA AmountsRun ==
  ASSUME LedgerIInv, NEW S
  PROVE  \E s : Running(s, Amounts(S), Len(rows))
<1>1. Amounts(S) \in [1 .. Len(rows) -> Int] /\ Len(rows) \in Nat
  BY IdTypes DEF Amounts, AmountsIn
<1> QED BY <1>1, RunningExists

\* Entries appended afterwards do not change a sum over the ones there were.
LEMMA SumInKeeps ==
  ASSUME NEW rs, NEW zs, NEW M \in Nat, NEW N \in Nat, M <= N, Len(rs) = M, Len(zs) = N,
         \A i \in 1 .. M : zs[i] = rs[i], \A i \in 1 .. N : zs[i].delta \in Int,
         NEW S, S \subseteq 1 .. M
  PROVE  SumIn(zs, S) = SumIn(rs, S)
<1> DEFINE F == AmountsIn(zs, S)
<1>1. F \in [1 .. N -> Int]
  BY DEF AmountsIn
<1>2. \A k \in 1 .. M : k \in 1 .. N /\ F[k] = AmountsIn(rs, S)[k]
  BY DEF AmountsIn
<1>3. \A k \in 1 .. N : k > M => F[k] = 0
  BY DEF AmountsIn
<1> HIDE DEF F
<1>4. PICK z : Running(z, F, N)
  BY <1>1, RunningExists
<1>5. z \in [0 .. N -> Int] /\ z[0] = 0 /\ \A k \in 1 .. N : z[k] = z[k - 1] + F[k]
  BY <1>4 DEF Running
<1> DEFINE s == [k \in 0 .. M |-> z[k]]
<1>6. Running(s, AmountsIn(rs, S), M)
  BY <1>2, <1>5 DEF Running
<1>7. SumIn(rs, S) = s[M] /\ s[M] = z[M]
  BY <1>6, SumInIsRunning
<1>8. SumIn(zs, S) = z[N]
  BY <1>4, SumInIsRunning DEF F
<1> DEFINE T == {k \in Nat : M <= k /\ k <= N => z[k] = z[M]}
<1>9. 0 \in T
  OBVIOUS
<1>10. ASSUME NEW k \in Nat, k \in T PROVE k + 1 \in T
  <2> SUFFICES ASSUME M <= k + 1, k + 1 <= N, k + 1 # M PROVE z[k + 1] = z[M]
    OBVIOUS
  <2>1. M <= k /\ k <= N /\ k + 1 \in 1 .. N /\ k + 1 > M /\ (k + 1) - 1 = k /\ z[k] = z[M]
    BY <1>10
  <2>2. z[k] \in Int
    BY <1>5, <2>1
  <2>3. z[k + 1] = z[k] + F[k + 1]
    BY <1>5, <2>1
  <2>4. F[k + 1] = 0
    BY <1>3, <2>1
  <2> QED BY <2>1, <2>2, <2>3, <2>4
<1>11. N \in T
  <2> HIDE DEF T
  <2>1. Nat \subseteq T
    BY <1>9, <1>10, NatSetInduction
  <2> QED BY <2>1
<1> QED BY <1>7, <1>8, <1>11

\* What two disjoint sets of entries move adds up.
LEMMA SumOverAdds ==
  ASSUME LedgerIInv, NEW A, NEW B, A \cap B = {}
  PROVE  SumOver(A \cup B) = SumOver(A) + SumOver(B)
<1> DEFINE N == Len(rows)
<1>1. N \in Nat /\ Ids = 1 .. N /\ \A i \in 1 .. N : rows[i].delta \in Int
  BY IdTypes
<1>2. PICK s : Running(s, Amounts(A), N)
  BY AmountsRun
<1>3. PICK z : Running(z, Amounts(B), N)
  BY AmountsRun
<1> DEFINE w == [n \in 0 .. N |-> s[n] + z[n]]
<1>4. w \in [0 .. N -> Int] /\ w[0] = 0
  BY <1>1, <1>2, <1>3 DEF Running
<1>5. ASSUME NEW k \in 1 .. N PROVE w[k] = w[k - 1] + Amounts(A \cup B)[k]
  <2>1. k \in 0 .. N /\ k - 1 \in 0 .. N /\ k \in Ids
    BY <1>1
  <2>2. s[k - 1] \in Int /\ z[k - 1] \in Int
    BY <1>2, <1>3, <2>1 DEF Running
  <2>3. s[k] = s[k - 1] + Amounts(A)[k] /\ z[k] = z[k - 1] + Amounts(B)[k]
    BY <1>2, <1>3 DEF Running
  <2>4. /\ Amounts(A)[k] \in Int /\ Amounts(B)[k] \in Int
        /\ Amounts(A \cup B)[k] = Amounts(A)[k] + Amounts(B)[k]
    BY <1>1, <2>1 DEF Amounts, AmountsIn
  <2> QED BY <2>1, <2>2, <2>3, <2>4
<1>6. w[N] = s[N] + z[N]
  BY <1>1
<1> HIDE DEF w
<1>7. Running(w, Amounts(A \cup B), N)
  BY <1>4, <1>5 DEF Running
<1>8. SumOver(A \cup B) = w[N] /\ SumOver(A) = s[N] /\ SumOver(B) = z[N]
  BY <1>2, <1>3, <1>7, SumOverIsRunning
<1> QED BY <1>6, <1>8

\* What all of a user's entries move is that user's balance.
LEMMA SumOverIsBalance ==
  ASSUME LedgerIInv, NEW S, S = {i \in Entries : rows[i].user = Reader}
  PROVE  SumOver(S) = Balance(Reader)
<1>1. /\ Len(rows) \in Nat /\ Ids = 1 .. Len(rows) /\ rows \in Seq(Row)
      /\ \A i \in Ids : rows[i].by \in Xids
  BY IdTypes DEF LedgerIInv, LedgerTypeOK
<1>2. PICK s : Runs(s, rows, Reader, Committed, Len(rows))
  BY <1>1, RunsExists
<1>3. \A k \in 1 .. Len(rows) : Amounts(S)[k] = Part(rows[k], Reader, Committed)
  BY <1>1 DEF Amounts, AmountsIn, Part, Committed, Entries
<1>4. Running(s, Amounts(S), Len(rows))
  BY <1>2, <1>3 DEF Running, Runs
<1>5. SumOver(S) = s[Len(rows)] /\ Total(rows, Reader, Committed) = s[Len(rows)]
  BY <1>1, <1>2, <1>4, SumOverIsRunning, TotalIsRun
<1>6. Balance(Reader) = Total(rows, Reader, Committed)
  BY ReaderIsAUser DEF LedgerIInv, BalanceRowsAddUp, RowAddsUp, Balance, Latest
<1> QED BY <1>5, <1>6

\* Entries stay, with what they say.
LEMMA MatchingGrows ==
  ASSUME LedgerIInv, TimesIInv, Write, NEW v
  PROVE  Matching(v) \subseteq Matching(v)'
<1>1. Decided /\ Ids \subseteq Ids' /\ \A i \in Ids : rows'[i] = rows[i]
  BY WriteGrows
<1>2. Entries \subseteq Ids /\ \A i \in Ids : rows[i].by \in Xids
  BY IdTypes
<1>3. /\ Entries = {i \in Ids : clog[rows[i].by] = "committed"}
      /\ Entries' = {i \in Ids' : clog'[rows'[i].by] = "committed"}
  BY DEF Entries, IsCommitted
<1>4. Entries \subseteq Entries'
  BY <1>1, <1>2, <1>3 DEF Decided
<1>5. \A e \in Ids : TypeOf(e)' = TypeOf(e)
  BY <1>1 DEF TypeOf
<1> QED BY <1>1, <1>2, <1>4, <1>5 DEF Matching

\* The balance on screen goes on being what it was read as.
LEMMA MeInvariant == HistoryIInv /\ MeFits /\ [HistoryNext]_historyVars => MeFits'
<1> SUFFICES ASSUME HistoryIInv, MeFits, [HistoryNext]_historyVars PROVE MeFits'
  OBVIOUS
<1> USE DEF HistoryIInv
<1>1. CASE Write
  <2>1. /\ LedgerIInv' /\ Ids \subseteq Ids' /\ me' = me
        /\ \A i \in Ids : rows'[i] = rows[i]
    BY <1>1, WriteGrows DEF Write, readVars
  <2>2. /\ Ids = 1 .. Len(rows) /\ Ids' = 1 .. Len(rows')
        /\ Len(rows) \in Nat /\ Len(rows') \in Nat
    BY <2>1, IdTypes DEF LedgerIInv, LedgerTypeOK, Ids
  <2>3. \A i \in 1 .. Len(rows') : rows'[i].delta \in Int
    <3>1. rows' \in Seq(Row)
      BY <2>1 DEF LedgerIInv, LedgerTypeOK
    <3>2. \A i \in 1 .. Len(rows') : rows'[i] \in Row
      BY <3>1
    <3> QED BY <3>2 DEF Row
  <2>4. Len(rows) <= Len(rows')
    BY <2>1, <2>2
  <2>5. Matching(Overview) \subseteq 1 .. Len(rows)
    BY <2>2, MatchingTypes
  <2>6. ASSUME me.known PROVE SumIn(rows', me.seen) = SumIn(rows, me.seen)
    <3>1. me.seen \subseteq 1 .. Len(rows)
      BY <2>5, <2>6 DEF MeFits
    <3>2. PICK rs, zs, M, N : rs = rows /\ zs = rows' /\ M = Len(rs) /\ N = Len(zs)
      OBVIOUS
    <3>3. M \in Nat /\ N \in Nat /\ M <= N /\ me.seen \subseteq 1 .. M
      BY <2>2, <2>4, <3>1, <3>2
    <3>4. \A i \in 1 .. M : zs[i] = rs[i]
      BY <2>1, <2>2, <3>2
    <3>5. \A i \in 1 .. N : zs[i].delta \in Int
      BY <2>3, <3>2
    <3>6. SumIn(zs, me.seen) = SumIn(rs, me.seen)
      BY <3>2, <3>3, <3>4, <3>5, SumInKeeps
    <3> QED BY <3>2, <3>6
  <2>7. Matching(Overview) \subseteq Matching(Overview)'
    BY <1>1, MatchingGrows
  <2> QED BY <2>1, <2>6, <2>7 DEF MeFits, SumOver
<1>2. ASSUME UNCHANGED ledgerVars PROVE rows' = rows /\ Matching(Overview)' = Matching(Overview)
  BY <1>2 DEF ledgerVars, Matching, TypeOf, Entries, Ids, IsCommitted, Overview
<1>3. CASE RefreshBalance
  <2>1. UNCHANGED ledgerVars
    BY <1>3 DEF RefreshBalance
  <2>2. Matching(Overview) = {i \in Entries : rows[i].user = Reader}
    BY DEF Matching, Overview
  <2>3. SumOver(Matching(Overview)) = Balance(Reader)
    BY <2>2, SumOverIsBalance
  <2>4. me'.seen = Matching(Overview) /\ me'.balance = Balance(Reader)
    BY <1>3 DEF RefreshBalance
  <2> QED BY <1>2, <2>1, <2>3, <2>4 DEF MeFits, SumOver
<1>4. CASE UNCHANGED historyVars \/ Tick \/ LoadMore \/ Refetch \/ ReadPage \/ FetchFails
           \/ \E v \in Views : Show(v)
  <2>1. UNCHANGED <<me, ledgerVars>>
    BY <1>4 DEF historyVars, readVars, Tick, Show, LoadMore, Refetch, ReadPage, FetchFails
  <2> QED BY <1>2, <2>1 DEF MeFits, SumOver
<1> QED BY <1>1, <1>3, <1>4 DEF HistoryNext, Read

(* The balance a page shows is the sum of the entries that were committed     *)
(* when it was asked for, all of which still are (getMe).                     *)
THEOREM HistoryBalanceFits == HistorySpec => []MeFits
<1>1. HistoryInit => MeFits
  BY DEF HistoryInit, MeFits
<1> QED BY <1>1, MeInvariant, HistorySafe, PTL DEF HistorySpec

\* An entry alone in its millisecond was there when its list was begun, with all
\* that was appended before it; and what comes before it, newest first, is what
\* was appended after it.
LEMMA ShownBefore ==
  ASSUME HistoryIInv, Charted, NEW e \in list.shown, ~ Tied(e)
  PROVE  /\ {f \in Matching(Overview) : f <= e} = {f \in Listed : f <= e}
         /\ {f \in list.shown : Precedes(view, f, e)} = {f \in Listed : f > e}
<1>1. /\ list.base \subseteq Matching(view) /\ list.shown \subseteq Matching(view)
      /\ Matching(view) \subseteq Ids /\ Matching(view) \subseteq Entries /\ e \in Ids
      /\ Listed \subseteq Matching(view) /\ e \in Listed /\ view = Overview
  BY MatchingTypes DEF HistoryIInv, ListFits, Charted, Listed
<1>2. \A f \in Listed : IsCommitted(rows[f].by) /\ rows[f].user = Reader
  BY <1>1 DEF Matching, Entries
<1>3. \A f \in Ids : stamp[f].at \in Nat /\ f \in Nat
  BY StampTypes, IdTypes DEF HistoryIInv, TimesIInv
<1>4. \A f, g \in Listed : f < g => stamp[f].at <= stamp[g].at
  <2>1. \A f \in Listed : Live(f)
    BY <1>2 DEF Live, IsCommitted
  <2> QED BY <1>1, <1>2, <2>1 DEF HistoryIInv, TimesIInv, StampedInOrder, SameUser
<1>5. \A f \in Listed : f # e => stamp[f].at # stamp[e].at
  BY DEF Tied
<1>6. \A f \in Listed : Precedes(view, f, e) <=> f > e
  <2> SUFFICES ASSUME NEW f \in Listed PROVE Older(e, f) <=> f > e
    BY <1>1 DEF Precedes, Overview
  <2>1. f \in Ids /\ e \in Ids /\ e \in Listed
    BY <1>1
  <2>2. /\ f \in Nat /\ e \in Nat /\ stamp[f].at \in Nat /\ stamp[e].at \in Nat
        /\ stamp[f].id \in Int /\ stamp[e].id \in Int
    BY <1>3, <2>1, StampTypes DEF HistoryIInv, TimesIInv
  <2>3. CASE f = e
    BY <2>2, <2>3 DEF Older
  <2>4. CASE f > e
    <3>1. stamp[e].at <= stamp[f].at /\ stamp[f].at # stamp[e].at
      <4>1. e < f /\ f # e
        BY <2>2, <2>4
      <4> QED BY <1>4, <1>5, <2>1, <4>1
    <3> QED BY <2>2, <2>4, <3>1 DEF Older
  <2>5. CASE f < e
    <3>1. stamp[f].at <= stamp[e].at /\ stamp[f].at # stamp[e].at
      <4>1. f # e
        BY <2>2, <2>5
      <4> QED BY <1>4, <1>5, <2>1, <2>5, <4>1
    <3> QED BY <2>2, <2>5, <3>1 DEF Older
  <2>6. f = e \/ f > e \/ f < e
    BY <2>2
  <2> QED BY <2>3, <2>4, <2>5, <2>6
<1>7. e \in list.base
  <2>1. list.base \subseteq Listed
    BY DEF Listed
  <2> QED BY <1>1, <1>5, <2>1 DEF HistoryIInv, ListFits, LateTied, Overview
<1>8. ASSUME NEW f \in Matching(Overview), f <= e PROVE f \in Listed
  <2>1. ~ (e < f)
    BY <1>1, <1>3, <1>8
  <2>2. f \in list.base
    BY <1>1, <1>7, <1>8, <2>1 DEF HistoryIInv, ListFits, BaseFirst
  <2> QED BY <2>2 DEF Listed
<1>9. ASSUME NEW f \in Listed, Precedes(view, f, e) PROVE f \in list.shown
  <2> SUFFICES ASSUME f \in list.base PROVE f \in list.shown
    BY DEF Listed
  <2>1. list.next \in Entries \/ list.next = End
    BY DEF HistoryIInv, ListFits
  <2>2. CASE list.next = End
    BY <2>2 DEF HistoryIInv, ListFits
  <2>3. CASE list.next \in Entries
    <3>1. /\ list.next \in list.shown /\ (e = list.next \/ Precedes(view, e, list.next))
          /\ Precedes(view, f, list.next) => f \in list.shown
      BY <2>3 DEF HistoryIInv, ListFits
    <3>2. Precedes(view, e, list.next) => Precedes(view, f, list.next)
      <4>1. \A a, b, c \in Ids : Precedes(view, a, b) /\ Precedes(view, b, c) => Precedes(view, a, c)
        BY PrecedesOrders DEF HistoryIInv, TimesIInv
      <4> QED BY <1>1, <1>9, <3>1, <4>1
    <3> QED BY <1>9, <3>1, <3>2
  <2> QED BY <2>1, <2>2, <2>3
<1>10. list.shown \subseteq Listed
  BY DEF Listed
<1>11. {f \in Matching(Overview) : f <= e} = {f \in Listed : f <= e}
  BY <1>1, <1>8
<1>12. {f \in list.shown : Precedes(view, f, e)} = {f \in Listed : f > e}
  BY <1>6, <1>9, <1>10
<1> QED BY <1>11, <1>12

(* The chart draws, at every entry that shares its millisecond with no other, *)
(* the balance the user had once it was appended, off by what the balance or  *)
(* the list has seen and the other has not: the same at every entry, and      *)
(* nothing once both have seen the same ledger (buildSeries).                 *)
THEOREM HistoryChartKeepsItsShape == HistorySpec => []ChartKeepsItsShape
<1>1. ASSUME HistoryIInv, MeFits PROVE ChartKeepsItsShape
  <2> SUFFICES ASSUME Charted, NEW e \in list.shown, ~ Tied(e)
               PROVE  Drawn(e) = Had(e) + SumOver(me.seen \ Listed) - SumOver(Listed \ me.seen)
    BY DEF ChartKeepsItsShape
  <2> DEFINE A == {f \in Listed : f <= e}
             B == {f \in Listed : f > e}
             C == Listed \cap me.seen
             D == Listed \ me.seen
             E == me.seen \ Listed
  <2>1. LedgerIInv
    BY <1>1 DEF HistoryIInv
  <2>2. e \in Int /\ \A f \in Listed : f \in Int
    <3>1. Listed \subseteq Matching(view) /\ e \in Listed
      BY <1>1 DEF HistoryIInv, ListFits, Listed
    <3>2. Matching(view) \subseteq Ids /\ Ids \subseteq Int
      BY <2>1, MatchingTypes, IdTypes
    <3> QED BY <3>1, <3>2
  <2>3. /\ A \cap B = {} /\ A \cup B = Listed
        /\ C \cap D = {} /\ C \cup D = Listed /\ C \cap E = {} /\ C \cup E = me.seen
    BY <2>2
  <2>4. Drawn(e) = me.balance - SumOver(B) /\ Had(e) = SumOver(A)
    BY <1>1, ShownBefore DEF Drawn, Had
  <2>5. me.balance = SumOver(me.seen)
    BY <1>1 DEF MeFits, Charted
  <2> HIDE DEF A, B, C, D, E
  <2>6. /\ SumOver(Listed) = SumOver(A) + SumOver(B)
        /\ SumOver(Listed) = SumOver(C) + SumOver(D)
        /\ SumOver(me.seen) = SumOver(C) + SumOver(E)
    <3>1. SumOver(A \cup B) = SumOver(A) + SumOver(B)
      BY <2>1, <2>3, SumOverAdds
    <3>2. SumOver(C \cup D) = SumOver(C) + SumOver(D)
      BY <2>1, <2>3, SumOverAdds
    <3>3. SumOver(C \cup E) = SumOver(C) + SumOver(E)
      BY <2>1, <2>3, SumOverAdds
    <3> QED BY <2>3, <3>1, <3>2, <3>3
  <2>7. \A S : SumOver(S) \in Int
    BY <2>1, AmountsRun, SumOverIsRunning
  <2>8. Drawn(e) = Had(e) + SumOver(E) - SumOver(D)
    <3>1. /\ SumOver(A) \in Int /\ SumOver(B) \in Int /\ SumOver(C) \in Int
          /\ SumOver(D) \in Int /\ SumOver(E) \in Int
      BY <2>7
    <3>2. PICK a \in Int, b \in Int, c \in Int, d \in Int, x \in Int :
            /\ a = SumOver(A) /\ b = SumOver(B) /\ c = SumOver(C)
            /\ d = SumOver(D) /\ x = SumOver(E)
      BY <3>1
    <3>3. a + b = c + d /\ Drawn(e) = (c + x) - b /\ Had(e) = a
      BY <2>4, <2>5, <2>6, <3>2
    <3> QED BY <3>2, <3>3
  <2> QED BY <2>8 DEF D, E
<1> QED BY <1>1, HistorySafe, HistoryBalanceFits, PTL
=============================================================================
