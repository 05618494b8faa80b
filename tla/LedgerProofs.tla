---------------------------- MODULE LedgerProofs ----------------------------
(* The ledger's invariants, proved for every number of users, transactions    *)
(* and appends per transaction. The argument is the inductive invariant       *)
(* LedgerIInv of Ledger: the writer of a balance row is the only transaction  *)
(* with uncommitted entries for that user, so the two versions of the row are *)
(* the sums of the entries with and without that transaction's. The lemmas    *)
(* about sums rest on induction on the natural numbers, here in a form        *)
(* without operator parameters: a set that holds 0 and the successor of each  *)
(* number it holds, holds every number.                                       *)
EXTENDS LedgerRefinement, FiniteSetTheorems, TLAPS

(* Every set of natural numbers that is not empty has a least element.        *)
LEMMA NatMinimum ==
  ASSUME NEW T, T \subseteq Nat, T # {}
  PROVE  \E x \in T : \A y \in T : ~ (y < x)
<1> DEFINE U == {0 .. n : n \in T}
<1> DEFINE R == StrictSubsetOrdering(Nat)
<1>1. IsWellFoundedOn(R, FiniteSubsetsOf(Nat))
  BY FS_StrictSubsetOrderingWellFounded
<1>2. U \subseteq FiniteSubsetsOf(Nat)
  <2> SUFFICES ASSUME NEW n \in T PROVE 0 .. n \in FiniteSubsetsOf(Nat)
    OBVIOUS
  <2>1. n \in Int /\ 0 \in Int OBVIOUS
  <2>2. IsFiniteSet(0 .. n) BY ONLY <2>1, FS_Interval
  <2>3. 0 .. n \subseteq Nat OBVIOUS
  <2> QED BY <2>2, <2>3 DEF FiniteSubsetsOf
<1>3. U # {}
  OBVIOUS
<1>4. \E X \in U : \A Y \in U : ~ (<<Y, X>> \in R)
  <2> HIDE DEF U, R
  <2> QED BY <1>1, <1>2, <1>3, WFMin
<1>5. PICK x \in T : \A y \in T : ~ (<<0 .. y, 0 .. x>> \in R)
  BY <1>4
<1>6. ASSUME NEW y \in T, y < x PROVE <<0 .. y, 0 .. x>> \in R
  <2>1. 0 .. y \subseteq 0 .. x BY <1>6
  <2>2. 0 .. y # 0 .. x
    <3>1. x \in 0 .. x /\ x \notin 0 .. y BY <1>6
    <3> QED BY <3>1
  <2> QED BY <2>1, <2>2 DEF StrictSubsetOrdering
<1> QED BY <1>5, <1>6

(* Induction on the natural numbers, for a set of them.                       *)
THEOREM NatSetInduction ==
  ASSUME NEW S, 0 \in S, \A n \in Nat : n \in S => n + 1 \in S
  PROVE  Nat \subseteq S
<1> SUFFICES ASSUME Nat \ S # {} PROVE FALSE
  OBVIOUS
<1>1. PICK x \in Nat \ S : \A y \in Nat \ S : ~ (y < x)
  <2> DEFINE T == Nat \ S
  <2>1. T \subseteq Nat /\ T # {} OBVIOUS
  <2> HIDE DEF T
  <2>2. \E x \in T : \A y \in T : ~ (y < x) BY <2>1, NatMinimum
  <2> QED BY <2>2 DEF T
<1>2. x - 1 \in Nat /\ x - 1 < x BY <1>1
<1> QED BY <1>1, <1>2
-----------------------------------------------------------------------------

\* s is the running total of Part over rs, up to position k.
Runs(s, rs, u, X, k) ==
  /\ s \in [0 .. k -> Int] /\ s[0] = 0
  /\ \A n \in 1 .. k : s[n] = s[n - 1] + Part(rs[n], u, X)

(* Part of a row is an integer. *)
LEMMA PartType ==
  ASSUME NEW r \in Row, NEW u, NEW X PROVE Part(r, u, X) \in Int
BY DEF Part, Row

(* A running total exists up to every position of the ledger. *)
LEMMA RunsExists ==
  ASSUME NEW rs \in Seq(Row), NEW u, NEW X
  PROVE  \E s : Runs(s, rs, u, X, Len(rs))
<1> DEFINE S == {k \in Nat : k <= Len(rs) => \E s : Runs(s, rs, u, X, k)}
<1>1. 0 \in S
  <2>1. Runs([n \in 0 .. 0 |-> 0], rs, u, X, 0) BY DEF Runs
  <2> QED BY <2>1
<1>2. ASSUME NEW k \in Nat, k \in S PROVE k + 1 \in S
  <2> SUFFICES ASSUME k + 1 <= Len(rs)
               PROVE  \E s : Runs(s, rs, u, X, k + 1)
    OBVIOUS
  <2>1. PICK s : Runs(s, rs, u, X, k) BY <1>2
  <2>2. Part(rs[k + 1], u, X) \in Int BY PartType
  <2> DEFINE z == [n \in 0 .. k + 1 |->
                     IF n = k + 1 THEN s[k] + Part(rs[k + 1], u, X) ELSE s[n]]
  <2>3. z \in [0 .. k + 1 -> Int] /\ z[0] = 0 BY <2>1, <2>2 DEF Runs
  <2>4. ASSUME NEW n \in 1 .. k + 1 PROVE z[n] = z[n - 1] + Part(rs[n], u, X)
    <3>1. CASE n = k + 1 BY <3>1
    <3>2. CASE n \in 1 .. k BY <3>2, <2>1 DEF Runs
    <3> QED BY <3>1, <3>2
  <2> QED BY <2>3, <2>4 DEF Runs
<1> HIDE DEF S
<1>3. Nat \subseteq S BY <1>1, <1>2, NatSetInduction
<1>4. Len(rs) \in S BY <1>3
<1> QED BY <1>4 DEF S

(* Two running totals of the same rows agree. *)
LEMMA RunsUnique ==
  ASSUME NEW rs \in Seq(Row), NEW u, NEW X, NEW m \in Nat, m <= Len(rs),
         NEW s, NEW z, Runs(s, rs, u, X, m), Runs(z, rs, u, X, m)
  PROVE  s[m] = z[m]
<1> DEFINE S == {k \in Nat : k <= m => s[k] = z[k]}
<1>1. 0 \in S BY DEF Runs
<1>2. ASSUME NEW k \in Nat, k \in S PROVE k + 1 \in S
  <2> SUFFICES ASSUME k + 1 <= m PROVE s[k + 1] = z[k + 1] OBVIOUS
  <2>1. k + 1 \in 1 .. m /\ (k + 1) - 1 = k /\ s[k] = z[k] BY <1>2
  <2> QED BY <2>1 DEF Runs
<1> HIDE DEF S
<1>3. Nat \subseteq S BY <1>1, <1>2, NatSetInduction
<1>4. m \in S BY <1>3
<1> QED BY <1>4 DEF S

(* Total is the last value of any running total. *)
LEMMA TotalIsRun ==
  ASSUME NEW rs \in Seq(Row), NEW u, NEW X, NEW s, Runs(s, rs, u, X, Len(rs))
  PROVE  Total(rs, u, X) = s[Len(rs)] /\ Total(rs, u, X) \in Int
<1> DEFINE Step(z) == [n \in 0 .. Len(rs) |->
                         IF n = 0 THEN 0 ELSE z[n - 1] + Part(rs[n], u, X)]
<1> DEFINE c == CHOOSE z : z = Step(z)
<1>1. Len(rs) \in Nat OBVIOUS
<1>2. s = Step(s) BY <1>1 DEF Runs
<1>3. c = Step(c) BY <1>2
<1>4. Total(rs, u, X) = c[Len(rs)] BY DEF Total
<1> HIDE DEF c
<1>5. \A n \in 0 .. Len(rs) : c[n] = IF n = 0 THEN 0 ELSE c[n - 1] + Part(rs[n], u, X)
  BY <1>3
<1> DEFINE S == {k \in Nat : k <= Len(rs) => c[k] = s[k]}
<1>6. 0 \in S BY <1>1, <1>5 DEF Runs
<1>7. ASSUME NEW k \in Nat, k \in S PROVE k + 1 \in S
  <2> SUFFICES ASSUME k + 1 <= Len(rs) PROVE c[k + 1] = s[k + 1] OBVIOUS
  <2>1. k + 1 \in 1 .. Len(rs) /\ (k + 1) - 1 = k /\ c[k] = s[k] BY <1>1, <1>7
  <2>2. c[k + 1] = c[k] + Part(rs[k + 1], u, X) BY <2>1, <1>5
  <2> QED BY <2>1, <2>2 DEF Runs
<1>8. Len(rs) \in S
  <2> HIDE DEF S
  <2>1. Nat \subseteq S BY <1>6, <1>7, NatSetInduction
  <2> QED BY <2>1, <1>1
<1>9. s[Len(rs)] \in Int BY <1>1 DEF Runs
<1> QED BY <1>1, <1>4, <1>8, <1>9

(* The total is an integer. *)
LEMMA TotalType ==
  ASSUME NEW rs \in Seq(Row), NEW u, NEW X PROVE Total(rs, u, X) \in Int
BY RunsExists, TotalIsRun

(* An empty ledger sums to zero. *)
LEMMA TotalEmpty == \A u, X : Total(<< >>, u, X) = 0
<1> TAKE u, X
<1>1. << >> \in Seq(Row) /\ Len(<< >>) = 0 OBVIOUS
<1>2. Runs([n \in 0 .. 0 |-> 0], << >>, u, X, 0) BY DEF Runs
<1> QED BY <1>1, <1>2, TotalIsRun

(* Appending a row adds its part. *)
LEMMA TotalAppend ==
  ASSUME NEW rs \in Seq(Row), NEW r \in Row, NEW u, NEW X
  PROVE  Total(Append(rs, r), u, X) = Total(rs, u, X) + Part(r, u, X)
<1> DEFINE qs == Append(rs, r)
<1>1. /\ qs \in Seq(Row) /\ Len(rs) \in Nat /\ Len(qs) = Len(rs) + 1
      /\ qs[Len(rs) + 1] = r /\ \A n \in 1 .. Len(rs) : qs[n] = rs[n]
  OBVIOUS
<1> HIDE DEF qs
<1>2. PICK s : Runs(s, qs, u, X, Len(qs)) BY <1>1, RunsExists
<1>3. Total(qs, u, X) = s[Len(rs)] + Part(r, u, X)
  <2>1. Len(qs) \in 1 .. Len(qs) /\ Len(qs) - 1 = Len(rs) BY <1>1
  <2>2. s[Len(qs)] = s[Len(rs)] + Part(r, u, X) BY <1>1, <1>2, <2>1 DEF Runs
  <2> QED BY <1>1, <1>2, <2>2, TotalIsRun
<1>4. Total(rs, u, X) = s[Len(rs)]
  <2> DEFINE z == [n \in 0 .. Len(rs) |-> s[n]]
  <2>1. Runs(z, rs, u, X, Len(rs))
    <3>1. z \in [0 .. Len(rs) -> Int] /\ z[0] = 0 BY <1>1, <1>2 DEF Runs
    <3>2. ASSUME NEW n \in 1 .. Len(rs) PROVE z[n] = z[n - 1] + Part(rs[n], u, X)
      <4>1. n \in 1 .. Len(qs) /\ qs[n] = rs[n] /\ n \in 0 .. Len(rs) /\ n - 1 \in 0 .. Len(rs)
        BY <1>1
      <4>2. s[n] = s[n - 1] + Part(rs[n], u, X) BY <1>2, <4>1 DEF Runs
      <4> QED BY <4>1, <4>2
    <3> QED BY <3>1, <3>2 DEF Runs
  <2>2. z[Len(rs)] = s[Len(rs)] BY <1>1
  <2> HIDE DEF z
  <2> QED BY <2>1, <2>2, TotalIsRun
<1> QED BY <1>3, <1>4 DEF qs

(* Counting two disjoint sets of transactions adds their totals. *)
LEMMA TotalUnion ==
  ASSUME NEW rs \in Seq(Row), NEW u, NEW X, NEW Y, X \cap Y = {}
  PROVE  Total(rs, u, X \cup Y) = Total(rs, u, X) + Total(rs, u, Y)
<1>1. PICK s : Runs(s, rs, u, X, Len(rs)) BY RunsExists
<1>2. PICK z : Runs(z, rs, u, Y, Len(rs)) BY RunsExists
<1> DEFINE w == [n \in 0 .. Len(rs) |-> s[n] + z[n]]
<1>3. Len(rs) \in Nat OBVIOUS
<1>4. w \in [0 .. Len(rs) -> Int] /\ w[0] = 0 BY <1>1, <1>2, <1>3 DEF Runs
<1>5. ASSUME NEW n \in 1 .. Len(rs)
      PROVE  w[n] = w[n - 1] + Part(rs[n], u, X \cup Y)
  <2>1. n \in 0 .. Len(rs) /\ n - 1 \in 0 .. Len(rs) /\ rs[n] \in Row BY <1>3
  <2>2. Part(rs[n], u, X) \in Int /\ Part(rs[n], u, Y) \in Int BY <2>1, PartType
  <2>3. Part(rs[n], u, X \cup Y) = Part(rs[n], u, X) + Part(rs[n], u, Y)
    BY <2>1 DEF Part, Row
  <2>4. s[n] = s[n - 1] + Part(rs[n], u, X) /\ z[n] = z[n - 1] + Part(rs[n], u, Y)
    BY <1>1, <1>2 DEF Runs
  <2>5. s[n - 1] \in Int /\ z[n - 1] \in Int BY <1>1, <1>2, <2>1 DEF Runs
  <2> QED BY <2>1, <2>2, <2>3, <2>4, <2>5
<1>6. w[Len(rs)] = s[Len(rs)] + z[Len(rs)] BY <1>3
<1> HIDE DEF w
<1>7. Runs(w, rs, u, X \cup Y, Len(rs)) BY <1>4, <1>5 DEF Runs
<1> QED BY <1>1, <1>2, <1>6, <1>7, TotalIsRun

(* Transactions that wrote no row for u contribute nothing. *)
LEMMA TotalNone ==
  ASSUME NEW rs \in Seq(Row), NEW u, NEW X,
         \A n \in 1 .. Len(rs) : rs[n].user # u \/ rs[n].by \notin X
  PROVE  Total(rs, u, X) = 0
<1>1. Len(rs) \in Nat OBVIOUS
<1> DEFINE s == [n \in 0 .. Len(rs) |-> 0]
<1>2. Runs(s, rs, u, X, Len(rs)) BY <1>1 DEF Runs, Part
<1>3. s[Len(rs)] = 0 BY <1>1
<1> HIDE DEF s
<1> QED BY <1>2, <1>3, TotalIsRun

(* A transaction that wrote one row contributes that row. *)
OnlyRow(rs, t, i) == i \in 1 .. Len(rs) /\ \A n \in 1 .. Len(rs) : rs[n].by = t <=> n = i

LEMMA TotalSingle ==
  ASSUME NEW rs \in Seq(Row), NEW t, NEW i, OnlyRow(rs, t, i)
  PROVE  Total(rs, rs[i].user, {t}) = rs[i].delta
<1> DEFINE u == rs[i].user
           X == {t}
<1>1. Len(rs) \in Nat /\ i \in Nat /\ 1 <= i /\ i <= Len(rs) /\ rs[i].delta \in Int
  <2>1. i \in 1 .. Len(rs) BY DEF OnlyRow
  <2>2. rs[i] \in Row BY <2>1
  <2> QED BY <2>1, <2>2 DEF Row
<1> DEFINE s == [n \in 0 .. Len(rs) |-> IF n < i THEN 0 ELSE rs[i].delta]
<1>2. Runs(s, rs, u, X, Len(rs))
  <2>1. s \in [0 .. Len(rs) -> Int] /\ s[0] = 0 BY <1>1
  <2>2. ASSUME NEW n \in 1 .. Len(rs) PROVE s[n] = s[n - 1] + Part(rs[n], u, X)
    <3>1. n \in 0 .. Len(rs) /\ n - 1 \in 0 .. Len(rs) /\ n \in Nat BY <1>1
    <3>2. Part(rs[n], u, X) = IF n = i THEN rs[i].delta ELSE 0 BY DEF Part, OnlyRow
    <3>3. s[n] = (IF n < i THEN 0 ELSE rs[i].delta)
          /\ s[n - 1] = IF n - 1 < i THEN 0 ELSE rs[i].delta
      BY <3>1
    <3> QED BY <1>1, <3>1, <3>2, <3>3
  <2> QED BY <2>1, <2>2 DEF Runs
<1>3. s[Len(rs)] = rs[i].delta BY <1>1
<1> HIDE DEF s
<1> QED BY <1>2, <1>3, TotalIsRun

-----------------------------------------------------------------------------
USE SetupIsNotATx, DeltasAreNonZeroIntegers, NoEntryIsNoId, AppendsBound,
    EventKeysAreNotReversals DEF InCall, Advance

(* What is known of a call in each of its stages. *)
LEMMA CallTypes ==
  ASSUME LedgerTypeOK, NEW t \in Tx
  PROVE  /\ call[t].at \in {"idle", "ahead", "lock", "claim", "move", "done"}
         /\ call[t].made \in Nat
         /\ call[t].at \in {"lock", "claim", "move"} => call[t].in \in Input
         /\ call[t].at \in {"claim", "move"} => call[t].before \in Int
         /\ call[t].at = "move" => call[t].id \in Nat
<1>1. call[t] \in CallState BY DEF LedgerTypeOK
<1> QED BY <1>1 DEF CallState

(* What is known of an entry. *)
LEMMA RowTypes ==
  ASSUME LedgerTypeOK, NEW i \in Ids
  PROVE  /\ rows[i] \in Row /\ rows[i].by \in Xids
         /\ rows[i].user \in Users /\ rows[i].delta \in Int
<1>1. rows[i] \in Row BY DEF LedgerTypeOK, Ids
<1> QED BY <1>1 DEF Row, Xids

(* Writing a balance row, or locking it, leaves a well-typed row that t owns. *)
LEMMA LockedCell ==
  ASSUME LedgerTypeOK, NEW t \in Tx, NEW u \in Users
  PROVE  /\ Locked(t, bal[u]) \in Cell(Int)
         /\ Locked(t, bal[u]).by = t
         /\ Locked(t, bal[u]).now = View(t, bal[u])
         /\ \A v \in Int : Written(t, bal[u], v) \in Cell(Int)
BY DEF LedgerTypeOK, Locked, Written, View, Latest, Cell, Xids

(* The initial state satisfies the inductive invariant. *)
LEMMA InitInvariant == LedgerInit => LedgerIInv
<1> SUFFICES ASSUME LedgerInit PROVE LedgerIInv
  OBVIOUS
<1>1. Committed = {Setup} /\ clog[Setup] = "committed"
  BY DEF LedgerInit, PgInit, Committed, IsCommitted, Xids
<1>2. \A u \in Users : Total(Opening, u, {Setup}) \in Int BY OpeningIsCommitted, TotalType
<1>3. LedgerTypeOK
  <2>1. clog \in [Xids -> Fates] BY DEF LedgerInit, PgInit, Fates
  <2>2. rows \in Seq(Row) BY OpeningIsCommitted DEF LedgerInit
  <2>3. bal \in [Users -> Cell(Int)] BY <1>2 DEF LedgerInit, Loaded, Cell, Xids
  <2>4. call \in [Tx -> CallState] BY DEF LedgerInit, NotCalled, CallState
  <2> QED BY <2>1, <2>2, <2>3, <2>4 DEF LedgerTypeOK
<1>4. \A i \in Ids : /\ rows[i].by = Setup /\ rows[i].key = NoKey
                     /\ rows[i].reverses = NoEntry
  BY OpeningIsCommitted DEF LedgerInit, Ids
<1>5. BalanceRowsAddUp
  BY <1>1 DEF LedgerInit, Loaded, BalanceRowsAddUp, RowAddsUp, IsCommitted, IsActive
<1>6. EntriesUnderLock BY <1>1, <1>4 DEF EntriesUnderLock, IsActive
<1>7. OneLiveHolder BY <1>4 DEF OneLiveHolder
<1>8. CallsUnderLock /\ ReversalsSeen
  BY <1>4 DEF LedgerInit, NotCalled, PgInit, Xids, CallsUnderLock, ReversalsSeen,
              ReversesSeen, IsActive
<1>9. DebitsCovered BY <1>1 DEF LedgerInit, Loaded, DebitsCovered, IsActive
<1> QED BY <1>1, <1>3, <1>5, <1>6, <1>7, <1>8, <1>9 DEF LedgerIInv

(* Opening a transaction preserves the invariant: it has written nothing.     *)
LEMMA OpenStep ==
  ASSUME LedgerIInv, NEW t \in Tx, Open(t) PROVE LedgerIInv'
<1> USE DEF LedgerIInv
<1>1. /\ clog[t] = "new" /\ clog' = [clog EXCEPT ![t] = "active"]
      /\ UNCHANGED <<rows, bal, call>>
  BY DEF Open, Begin
<1>2. clog \in [Xids -> Fates] /\ t \in Xids /\ t # Setup
  BY DEF LedgerTypeOK, Xids
<1>3. \A x \in Xids : x # t => clog'[x] = clog[x]
  BY <1>1, <1>2
<1>4. clog'[t] = "active" /\ Committed' = Committed
  BY <1>1, <1>2 DEF Committed, IsCommitted, Xids
<1>5. \A u \in Users : bal[u].by \in Xids /\ bal[u].by # t
  BY <1>1 DEF BalanceRowsAddUp, RowAddsUp, LedgerTypeOK, Cell
<1>6. \A i \in Ids : rows[i] \in Row /\ rows[i].by \in Xids /\ rows[i].by # t
  BY <1>1, RowTypes DEF EntriesUnderLock
<1>7. LedgerTypeOK' /\ clog'[Setup] = "committed"
  BY <1>1, <1>2, <1>3 DEF LedgerTypeOK, Fates, Xids
<1>8. BalanceRowsAddUp'
  BY <1>1, <1>3, <1>4, <1>5 DEF BalanceRowsAddUp, RowAddsUp, IsCommitted, IsActive, Unmoved
<1>9. EntriesUnderLock'
  BY <1>1, <1>3, <1>6 DEF EntriesUnderLock, IsActive, Ids
<1>10. CallsUnderLock'
  <2>1. call[t] = NotCalled BY <1>1 DEF CallsUnderLock
  <2> QED BY <1>1, <1>2, <1>3, <1>4, <2>1 DEF CallsUnderLock, IsActive, NotCalled, Xids, Ids
<1>11. OneLiveHolder'
  BY <1>1, <1>3, <1>6 DEF OneLiveHolder, Ids
<1>12. ReversalsSeen'
  BY <1>1, <1>3, <1>6 DEF ReversalsSeen, ReversesSeen, SeenBy, IsCommitted, Ids
<1>13. DebitsCovered'
  BY <1>1, <1>3, <1>5 DEF DebitsCovered, IsActive, Ids
<1> QED BY <1>7, <1>8, <1>9, <1>10, <1>11, <1>12, <1>13

(* Rolling back preserves it: the versions the transaction replaced are back  *)
(* in force, and they are the sums of the other entries.                      *)
LEMMA AbortStep ==
  ASSUME LedgerIInv, NEW t \in Tx, Abort(t), UNCHANGED <<rows, bal, call>>
  PROVE  LedgerIInv'
<1> USE DEF LedgerIInv
<1>1. clog[t] = "active" /\ clog' = [clog EXCEPT ![t] = "aborted"]
  BY DEF Abort, IsActive
<1>2. clog \in [Xids -> Fates] /\ t \in Xids /\ t # Setup
  BY DEF LedgerTypeOK, Xids
<1>3. clog'[t] = "aborted" /\ \A x \in Xids : x # t => clog'[x] = clog[x]
  BY <1>1, <1>2
<1>4. Committed' = Committed
  BY <1>1, <1>2 DEF Committed, IsCommitted, Xids
<1>5. \A u \in Users : bal[u].by \in Xids
  BY DEF LedgerTypeOK, Cell
<1>6. \A i \in Ids : rows[i] \in Row /\ rows[i].by \in Xids
  BY RowTypes
<1>7. LedgerTypeOK' /\ clog'[Setup] = "committed"
  BY <1>1, <1>2, <1>3 DEF LedgerTypeOK, Fates, Xids
<1>8. BalanceRowsAddUp'
  BY <1>1, <1>3, <1>4, <1>5 DEF BalanceRowsAddUp, RowAddsUp, IsCommitted, IsActive, Unmoved
<1>9. EntriesUnderLock'
  BY <1>1, <1>3, <1>6 DEF EntriesUnderLock, IsActive, Ids
<1>10. CallsUnderLock'
  BY <1>1, <1>2, <1>3 DEF CallsUnderLock, IsActive, Xids, Ids
<1>11. OneLiveHolder'
  BY <1>1, <1>3, <1>6 DEF OneLiveHolder, Ids
<1>12. ReversalsSeen'
  <2>1. \A x \in Xids : clog[x] = "committed" => clog'[x] = "committed"
    BY <1>1, <1>2
  <2> QED BY <1>6, <2>1 DEF ReversalsSeen, ReversesSeen, SeenBy, IsCommitted, Ids
<1>13. DebitsCovered'
  BY <1>1, <1>3, <1>5 DEF DebitsCovered, IsActive, Ids
<1> QED BY <1>7, <1>8, <1>9, <1>10, <1>11, <1>12, <1>13

(* Committing preserves it: the new version of each balance row the           *)
(* transaction holds is the old sum plus the transaction's own entries.       *)
LEMMA CloseStep ==
  ASSUME LedgerIInv, NEW t \in Tx, Close(t) PROVE LedgerIInv'
<1> USE DEF LedgerIInv
<1>1. /\ call[t].at \notin {"lock", "claim", "move"}
      /\ clog[t] = "active" /\ clog' = [clog EXCEPT ![t] = "committed"]
      /\ UNCHANGED <<rows, bal, call>>
  BY DEF Close, Commit, IsActive
<1>2. clog \in [Xids -> Fates] /\ t \in Xids /\ t # Setup
  BY DEF LedgerTypeOK, Xids
<1>3. clog'[t] = "committed" /\ \A x \in Xids : x # t => clog'[x] = clog[x]
  BY <1>1, <1>2
<1>4. Committed' = Committed \cup {t} /\ Committed \cap {t} = {}
  BY <1>1, <1>2 DEF Committed, IsCommitted, Xids
<1>5. \A u \in Users : /\ bal[u] \in Cell(Int) /\ bal[u].by \in Xids
                       /\ bal[u].was \in Int /\ bal[u].now \in Int
  BY DEF LedgerTypeOK, Cell
<1>6. \A i \in Ids : rows[i] \in Row /\ rows[i].by \in Xids
  BY RowTypes
<1>7. LedgerTypeOK' /\ clog'[Setup] = "committed"
  BY <1>1, <1>2, <1>3 DEF LedgerTypeOK, Fates, Xids
<1>8. BalanceRowsAddUp'
  <2> SUFFICES ASSUME NEW u \in Users
               PROVE  /\ clog'[bal[u].by] # "new"
                      /\ clog'[bal[u].by] = "committed" =>
                           bal[u].now = Total(rows, u, Committed \cup {t})
                      /\ clog'[bal[u].by] # "committed" =>
                           bal[u].was = Total(rows, u, Committed \cup {t})
                      /\ clog'[bal[u].by] = "active" =>
                           bal[u].now + Unmoved(bal[u].by, u)'
                             = bal[u].was + Total(rows, u, {bal[u].by})
    BY <1>1, <1>4 DEF BalanceRowsAddUp, RowAddsUp, IsCommitted, IsActive
  <2>1. Total(rows, u, Committed \cup {t}) = Total(rows, u, Committed) + Total(rows, u, {t})
    BY <1>4, TotalUnion DEF LedgerTypeOK
  <2>2. Total(rows, u, Committed) \in Int /\ Total(rows, u, {t}) \in Int
    BY TotalType DEF LedgerTypeOK
  <2>3. CASE bal[u].by = t
    <3>1. Unmoved(t, u) = 0 BY <1>1 DEF Unmoved
    <3>2. bal[u].now + 0 = Total(rows, u, Committed) + Total(rows, u, {t})
      BY <1>1, <2>3, <3>1 DEF BalanceRowsAddUp, RowAddsUp, IsActive, IsCommitted
    <3> QED BY <1>3, <1>5, <2>1, <2>2, <2>3, <3>2
  <2>4. CASE bal[u].by # t
    <3>1. \A i \in 1 .. Len(rows) : rows[i].user # u \/ rows[i].by \notin {t}
      BY <1>1, <2>4 DEF EntriesUnderLock, IsActive, Ids
    <3>2. Total(rows, u, {t}) = 0 BY <3>1, TotalNone DEF LedgerTypeOK
    <3> QED BY <1>1, <1>3, <1>5, <2>1, <2>2, <2>4, <3>2
            DEF BalanceRowsAddUp, RowAddsUp, IsActive, IsCommitted, Unmoved
  <2> QED BY <2>3, <2>4
<1>9. EntriesUnderLock'
  BY <1>1, <1>3, <1>6 DEF EntriesUnderLock, IsActive, Ids
<1>10. CallsUnderLock'
  BY <1>1, <1>2, <1>3 DEF CallsUnderLock, IsActive, Xids, Ids
<1>11. OneLiveHolder'
  BY <1>1, <1>3, <1>6 DEF OneLiveHolder, Ids
<1>12. ReversalsSeen'
  <2>1. \A x \in Xids : clog[x] = "committed" => clog'[x] = "committed"
    BY <1>1, <1>2
  <2> QED BY <1>1, <1>6, <2>1 DEF ReversalsSeen, ReversesSeen, SeenBy, IsCommitted, Ids
<1>13. DebitsCovered'
  BY <1>1, <1>3, <1>5 DEF DebitsCovered, IsActive, Ids
<1> QED BY <1>7, <1>8, <1>9, <1>10, <1>11, <1>12, <1>13

(* Calling appendEntry preserves it, when the input reverses nothing or       *)
(* mirrors an entry the transaction sees.                                     *)
LEMMA AppendEntryStep ==
  ASSUME LedgerIInv, NEW t \in Tx, NEW in \in Input, ReversesSeen(in, t),
         AppendEntry(t, in)
  PROVE  LedgerIInv'
<1> USE DEF LedgerIInv
<1>1. /\ clog[t] = "active" /\ call[t].at \notin {"lock", "claim", "move"}
      /\ call' = [call EXCEPT ![t] = [at |-> "lock", made |-> call[t].made + 1, in |-> in]]
      /\ UNCHANGED <<clog, rows, bal>>
  BY DEF AppendEntry, IsActive
<1>2. /\ call \in [Tx -> CallState]
      /\ call'[t] = [at |-> "lock", made |-> call[t].made + 1, in |-> in]
      /\ \A x \in Tx : x # t => call'[x] = call[x]
  BY <1>1 DEF LedgerTypeOK
<1>3. \A u \in Users : \A x \in Tx : Unmoved(x, u)' = Unmoved(x, u)
  BY <1>1, <1>2 DEF Unmoved
<1>4. LedgerTypeOK'
  <2>1. call[t].made + 1 \in Nat BY CallTypes
  <2>2. call'[t] \in CallState BY <1>2, <2>1 DEF CallState
  <2>3. call' \in [Tx -> CallState] BY <1>1, <1>2, <2>2
  <2> QED BY <1>1, <2>3 DEF LedgerTypeOK
<1>5. BalanceRowsAddUp'
  <2>1. \A u \in Users : bal[u].by \in Xids BY DEF LedgerTypeOK, Cell
  <2>2. clog[Setup] = "committed" OBVIOUS
  <2> QED BY <1>1, <1>3, <2>1, <2>2
          DEF BalanceRowsAddUp, RowAddsUp, IsCommitted, IsActive, Committed, Xids
<1>6. EntriesUnderLock' /\ OneLiveHolder' /\ DebitsCovered'
  BY <1>1 DEF EntriesUnderLock, OneLiveHolder, DebitsCovered, IsActive, Ids
<1>7. CallsUnderLock'
  BY <1>1, <1>2 DEF CallsUnderLock, IsActive, Ids
<1>8. ReversalsSeen'
  BY <1>1, <1>2 DEF ReversalsSeen, ReversesSeen, SeenBy, IsCommitted, Ids
<1> QED BY <1>1, <1>4, <1>5, <1>6, <1>7, <1>8

(* Taking the lock of a balance row preserves it, whichever call takes it:    *)
(* the versions start out equal.                                              *)
LEMMA LockBalanceStep ==
  ASSUME LedgerIInv, NEW t \in Tx, NEW u \in Users, IsActive(t), LockBalance(t, u),
         clog' = clog, rows' = rows,
         NEW c \in CallState, call' = [call EXCEPT ![t] = c],
         call[t].at # "move", c.at # "move",
         InCall(t)' => InCall(t) /\ c.in = call[t].in,
         c.at = "claim" => c.in.user = u /\ c.before = View(t, bal[u])
  PROVE  LedgerIInv'
<1> USE DEF LedgerIInv
<1>1. /\ clog[t] = "active"
      /\ ~ (bal[u].by # t /\ clog[bal[u].by] = "active")
      /\ bal' = [bal EXCEPT ![u] = Locked(t, bal[u])]
      /\ UNCHANGED <<clog, rows>>
  BY DEF LockBalance, Waits, IsActive
<1>2. /\ bal \in [Users -> Cell(Int)] /\ call \in [Tx -> CallState]
  BY DEF LedgerTypeOK
<1>3. /\ bal'[u] \in Cell(Int) /\ bal'[u].by = t /\ bal'[u].now = View(t, bal[u])
      /\ bal'[u].now \in Int
      /\ \A v \in Users : v # u => bal'[v] = bal[v]
  <2>1. bal'[u] = Locked(t, bal[u]) BY <1>1, <1>2
  <2>2. Locked(t, bal[u]).now \in Int BY <1>2, LockedCell DEF Cell
  <2> QED BY <1>1, <1>2, <2>1, <2>2, LockedCell
<1>4. /\ call'[t] = c
      /\ \A x \in Tx : x # t => call'[x] = call[x]
  BY <1>1, <1>2
<1>5. \A x \in Tx : /\ call'[x].at = "move" <=> call[x].at = "move"
                    /\ call[x].at = "move" => call'[x] = call[x]
  BY <1>1, <1>4
<1>6. LedgerTypeOK'
  <2>2. call' \in [Tx -> CallState] BY <1>2
  <2>3. bal' \in [Users -> Cell(Int)] BY <1>1, <1>2, <1>3
  <2> QED BY <1>1, <2>2, <2>3 DEF LedgerTypeOK
<1>7. BalanceRowsAddUp'
  <2>0. Committed' = Committed BY <1>1 DEF Committed, IsCommitted
  <2>1. ASSUME NEW v \in Users, bal'[v] = bal[v] PROVE RowAddsUp(v)'
    <3>1. RowAddsUp(v) /\ bal[v].by \in Xids BY <1>2 DEF BalanceRowsAddUp, Cell
    <3>2. IsActive(bal[v].by) => bal[v].by \in Tx
      BY <3>1 DEF Xids, IsActive
    <3>3. Total(rows', v, Committed') = Total(rows, v, Committed) BY <1>1, <2>0
    <3>4. /\ clog[bal[v].by] # "new"
          /\ clog[bal[v].by] = "committed" => bal[v].now = Total(rows', v, Committed')
          /\ clog[bal[v].by] # "committed" => bal[v].was = Total(rows', v, Committed')
      BY <3>1, <3>3 DEF RowAddsUp, IsCommitted
    <3>5. clog[bal[v].by] = "active" =>
            bal[v].now + Unmoved(bal[v].by, v)' = bal[v].was + Total(rows', v, {bal[v].by})
      BY <1>1, <1>5, <2>1, <3>1, <3>2 DEF RowAddsUp, IsActive, Unmoved
    <3> QED BY <1>1, <2>1, <3>4, <3>5 DEF RowAddsUp, IsActive, IsCommitted, Unmoved
  <2>2. CASE bal[u].by = t
    <3>1. bal'[u] = bal[u] BY <1>1, <1>2, <2>2 DEF Locked
    <3> QED BY <1>3, <2>1, <3>1 DEF BalanceRowsAddUp
  <2>3. CASE bal[u].by # t
    <3> DEFINE L == Latest(bal[u])
    <3>1. bal'[u] = [was |-> L, now |-> L, by |-> t]
      BY <1>1, <1>2, <2>3 DEF Locked
    <3>2. L = Total(rows, u, Committed)
      BY <1>2 DEF BalanceRowsAddUp, RowAddsUp, Latest
    <3>3. L \in Int BY <3>2, TotalType DEF LedgerTypeOK
    <3>4. Total(rows, u, {t}) = 0
      <4>1. \A i \in 1 .. Len(rows) : rows[i].user # u \/ rows[i].by \notin {t}
        BY <1>1, <2>3 DEF EntriesUnderLock, IsActive, Ids
      <4> QED BY <4>1, TotalNone DEF LedgerTypeOK
    <3>5. call'[t].at # "move" BY <1>4
    <3> HIDE DEF L
    <3>6. RowAddsUp(u)'
      <4>1. bal'[u].was = Total(rows', u, Committed') BY <1>1, <2>0, <3>1, <3>2
      <4>2. bal'[u].now + 0 = bal'[u].was + Total(rows', u, {t})
        BY <1>1, <3>1, <3>3, <3>4
      <4>3. clog'[t] = "active" /\ bal'[u].by = t BY <1>1, <3>1
      <4>4. Unmoved(t, u)' = 0 BY <3>5 DEF Unmoved
      <4> QED BY <3>5, <4>1, <4>2, <4>3, <4>4
              DEF RowAddsUp, IsActive, IsCommitted, Unmoved
    <3> QED BY <1>3, <2>1, <3>6 DEF BalanceRowsAddUp
  <2> QED BY <2>2, <2>3
<1>8. EntriesUnderLock'
  BY <1>1, <1>3, RowTypes DEF EntriesUnderLock, IsActive, Ids
<1>9. CallsUnderLock'
  <2>1. ASSUME NEW x \in Tx, x # t, IsActive(x), call[x].at \in {"claim", "move"}
        PROVE  call[x].in.user \in Users /\ call[x].in.user # u
    <3>1. call[x].in \in Input BY <2>1, CallTypes
    <3>2. bal[call[x].in.user].by = x BY <2>1 DEF CallsUnderLock
    <3> QED BY <1>1, <2>1, <3>1, <3>2 DEF Input, IsActive
  <2> QED BY <1>1, <1>3, <1>4, <2>1 DEF CallsUnderLock, IsActive, Ids
<1>10. OneLiveHolder' BY <1>1 DEF OneLiveHolder, Ids
<1>11. ReversalsSeen'
  <2>1. \A x \in Tx : call'[x].at \in {"lock", "claim", "move"} =>
          call[x].at \in {"lock", "claim", "move"} /\ call'[x].in = call[x].in
    BY <1>1, <1>4
  <2> QED BY <1>1, <2>1 DEF ReversalsSeen, ReversesSeen, SeenBy, IsCommitted, Ids
<1>12. DebitsCovered'
  <2>1. CASE bal[u].by = t
    <3>1. bal'[u] = bal[u] BY <1>1, <1>2, <2>1 DEF Locked
    <3> QED BY <1>1, <1>3, <3>1 DEF DebitsCovered, IsActive, Ids
  <2>2. CASE bal[u].by # t
    <3>1. bal'[u].now = bal'[u].was BY <1>1, <1>2, <2>2 DEF Locked
    <3> QED BY <1>1, <1>3, <3>1 DEF DebitsCovered, IsActive, Ids
  <2> QED BY <2>1, <2>2
<1> QED BY <1>1, <1>6, <1>7, <1>8, <1>9, <1>10, <1>11, <1>12

(* appendEntry's own lock, and a lock taken ahead of it. *)
LEMMA LockStep ==
  ASSUME LedgerIInv, NEW t \in Tx, Lock(t) PROVE LedgerIInv'
<1> SUFFICES ASSUME NEW u, u = call[t].in.user,
                    NEW c, c = [at |-> "claim", made |-> call[t].made,
                                in |-> call[t].in, before |-> View(t, bal[u])]
             PROVE  LedgerIInv'
  OBVIOUS
<1>1. /\ IsActive(t) /\ call[t].at = "lock" /\ LockBalance(t, u)
      /\ call' = [call EXCEPT ![t] = c] /\ clog' = clog /\ rows' = rows
  BY DEF Lock
<1>2. call[t].in \in Input /\ call[t].made \in Nat /\ u \in Users
  <2>1. call[t].in \in Input /\ call[t].made \in Nat
    BY <1>1, CallTypes DEF LedgerIInv
  <2> QED BY <2>1 DEF Input
<1>3. View(t, bal[u]) \in Int BY <1>2, LockedCell DEF LedgerIInv, Cell
<1>4. c \in CallState BY <1>2, <1>3 DEF CallState
<1> QED BY <1>1, <1>2, <1>4, LockBalanceStep

LEMMA LockAheadStep ==
  ASSUME LedgerIInv, NEW t \in Tx, NEW u \in Users, LockAhead(t, u) PROVE LedgerIInv'
<1> SUFFICES ASSUME NEW c, c = [at |-> "ahead", made |-> call[t].made, user |-> u]
             PROVE  LedgerIInv'
  OBVIOUS
<1>1. /\ IsActive(t) /\ call[t].at = "idle" /\ LockBalance(t, u)
      /\ call' = [call EXCEPT ![t] = c] /\ clog' = clog /\ rows' = rows
  BY DEF LockAhead
<1>2. c \in CallState BY CallTypes DEF LedgerIInv, CallState
<1>3. ~ InCall(t)'
  <2>1. call'[t] = c BY <1>1 DEF LedgerIInv, LedgerTypeOK
  <2> QED BY <2>1
<1> QED BY <1>1, <1>2, <1>3, LockBalanceStep

(* A duplicate preserves it: nothing but the call changes.                    *)
LEMMA DuplicateStep ==
  ASSUME LedgerIInv, NEW t \in Tx, Duplicate(t) PROVE LedgerIInv'
<1> USE DEF LedgerIInv
<1>0. PICK id \in Ids :
        /\ IsActive(t) /\ call[t].at = "claim"
        /\ clog' = clog /\ rows' = rows /\ bal' = bal
        /\ call' = [call EXCEPT ![t] = [at |-> "done", made |-> call[t].made,
                                        id |-> id, duplicate |-> TRUE]]
  BY DEF Duplicate, Holders
<1>1. call[t].made \in Nat /\ id \in Nat /\ call \in [Tx -> CallState] /\ clog[t] = "active"
  BY <1>0, CallTypes DEF LedgerTypeOK, Ids, IsActive
<1>2. /\ call'[t] = [at |-> "done", made |-> call[t].made, id |-> id, duplicate |-> TRUE]
      /\ \A x \in Tx : x # t => call'[x] = call[x]
  BY <1>0, <1>1
<1>3. LedgerTypeOK'
  <2>1. call'[t] \in CallState BY <1>1, <1>2 DEF CallState
  <2>2. call' \in [Tx -> CallState] BY <1>0, <1>1, <1>2, <2>1
  <2> QED BY <1>0, <2>2 DEF LedgerTypeOK
<1>4. \A x \in Tx : \A u \in Users : Unmoved(x, u)' = Unmoved(x, u)
  BY <1>0, <1>2 DEF Unmoved
<1>5. BalanceRowsAddUp'
  <2>1. \A u \in Users : bal[u].by \in Xids BY DEF LedgerTypeOK, Cell
  <2> QED BY <1>0, <1>4, <2>1
          DEF BalanceRowsAddUp, RowAddsUp, IsCommitted, IsActive, Committed, Xids
<1>6. EntriesUnderLock' /\ OneLiveHolder' /\ DebitsCovered'
  BY <1>0 DEF EntriesUnderLock, OneLiveHolder, DebitsCovered, IsActive, Ids
<1>7. CallsUnderLock'
  BY <1>0, <1>1, <1>2 DEF CallsUnderLock, IsActive, Ids
<1>8. ReversalsSeen'
  <2>1. \A x \in Tx : call'[x].at \in {"lock", "claim", "move"} => call'[x] = call[x]
    BY <1>2
  <2>2. \A i \in Ids' : ReversesSeen(rows[i], rows[i].by)'
    BY <1>0 DEF ReversalsSeen, ReversesSeen, SeenBy, IsCommitted, Ids
  <2>3. ASSUME NEW x \in Tx, call'[x].at \in {"lock", "claim", "move"}
        PROVE  ReversesSeen(call[x].in, x)'
    <3>1. call'[x] = call[x] /\ ReversesSeen(call[x].in, x)
      BY <2>1, <2>3 DEF ReversalsSeen
    <3> QED BY <1>0, <3>1 DEF ReversesSeen, SeenBy, IsCommitted, Ids
  <2> QED BY <2>2, <2>3 DEF ReversalsSeen
<1> QED BY <1>0, <1>3, <1>5, <1>6, <1>7, <1>8

(* Inserting an entry under a free key preserves it: the row belongs to the   *)
(* holder of the user's balance row, and is counted as not yet moved.         *)
LEMMA InsertStep ==
  ASSUME LedgerIInv, NEW t \in Tx, Insert(t) PROVE LedgerIInv'
<1> USE DEF LedgerIInv
<1> SUFFICES ASSUME NEW in, NEW r, NEW n, in = call[t].in, n = Len(rows) + 1,
                    r = [user |-> in.user, delta |-> in.delta, key |-> in.key,
                         reverses |-> in.reverses, by |-> t]
             PROVE  LedgerIInv'
  OBVIOUS
<1>0. /\ IsActive(t) /\ call[t].at = "claim" /\ Holders(in.key) = {}
      /\ rows' = Append(rows, r) /\ clog' = clog /\ bal' = bal
      /\ call' = [call EXCEPT ![t] = [at |-> "move", made |-> call[t].made, in |-> in,
                                      before |-> call[t].before, id |-> n]]
  BY DEF Insert
<1>1. /\ call[t].made \in Nat /\ call \in [Tx -> CallState] /\ clog[t] = "active"
      /\ call[t].at = "claim" /\ in \in Input /\ call[t].before \in Int
      /\ clog \in [Xids -> Fates] /\ rows \in Seq(Row) /\ bal \in [Users -> Cell(Int)]
      /\ clog' = clog /\ bal' = bal
  BY <1>0, CallTypes DEF LedgerTypeOK, IsActive
<1>2. in.user \in Users /\ in.delta \in Int /\ r \in Row /\ r.by = t
      /\ r.user = in.user /\ r.delta = in.delta /\ r.key = in.key
      /\ r.reverses = in.reverses
  BY <1>1 DEF Input, Row, Xids
<1>3. /\ rows' \in Seq(Row) /\ Len(rows) \in Nat /\ Len(rows') = n /\ rows'[n] = r
      /\ Ids' = Ids \cup {n} /\ n \notin Ids /\ n \in Nat
      /\ \A i \in Ids : rows'[i] = rows[i]
  BY <1>0, <1>1, <1>2 DEF Ids
<1>4. /\ call'[t] = [at |-> "move", made |-> call[t].made, in |-> in,
                     before |-> call[t].before, id |-> n]
      /\ \A x \in Tx : x # t => call'[x] = call[x]
  BY <1>0, <1>1
<1>5. LedgerTypeOK'
  <2>1. call'[t] \in CallState BY <1>1, <1>3, <1>4 DEF CallState
  <2>2. call' \in [Tx -> CallState] BY <1>0, <1>1, <1>4, <2>1
  <2> QED BY <1>1, <1>3, <2>2 DEF LedgerTypeOK
<1>6. bal[in.user].by = t /\ call[t].before = bal[in.user].now
  BY <1>1 DEF CallsUnderLock, IsActive
<1>7. BalanceRowsAddUp'
  <2> SUFFICES ASSUME NEW u \in Users PROVE RowAddsUp(u)'
    BY DEF BalanceRowsAddUp
  <2>1. RowAddsUp(u) /\ bal[u] \in Cell(Int) /\ bal[u].by \in Xids
        /\ bal[u].was \in Int /\ bal[u].now \in Int
    BY <1>1 DEF BalanceRowsAddUp, Cell
  <2>2. \A X : Total(rows', u, X) = Total(rows, u, X) + Part(r, u, X)
    BY <1>0, <1>1, <1>2, TotalAppend
  <2>3. \A X : Total(rows, u, X) \in Int BY <1>1, TotalType
  <2>4. Committed' = Committed /\ t \notin Committed BY <1>1 DEF Committed, IsCommitted
  <2>5. Total(rows', u, Committed') = Total(rows, u, Committed)
    <3>1. Part(r, u, Committed) = 0 BY <1>2, <2>4 DEF Part
    <3> QED BY <2>2, <2>3, <2>4, <3>1
  <2>6. /\ clog[bal[u].by] # "new"
        /\ clog[bal[u].by] = "committed" => bal[u].now = Total(rows', u, Committed')
        /\ clog[bal[u].by] # "committed" => bal[u].was = Total(rows', u, Committed')
    BY <2>1, <2>5 DEF RowAddsUp, IsCommitted
  <2>7. ASSUME clog[bal[u].by] = "active"
        PROVE  bal[u].now + Unmoved(bal[u].by, u)' = bal[u].was + Total(rows', u, {bal[u].by})
    <3>1. bal[u].now + Unmoved(bal[u].by, u) = bal[u].was + Total(rows, u, {bal[u].by})
      BY <2>1, <2>7 DEF RowAddsUp, IsActive
    <3>2. bal[u].by \in Tx BY <2>1, <2>7 DEF Xids
    <3>3. CASE u = in.user
      <4>1. Unmoved(bal[u].by, u)' = in.delta BY <1>1, <1>4, <1>6, <3>3 DEF Unmoved
      <4>2. Unmoved(bal[u].by, u) = 0 BY <1>1, <1>6, <3>3 DEF Unmoved
      <4>3. Part(r, u, {bal[u].by}) = in.delta BY <1>2, <1>6, <3>3 DEF Part
      <4>4. Total(rows', u, {bal[u].by}) = Total(rows, u, {bal[u].by}) + in.delta
        BY <2>2, <4>3
      <4>5. Total(rows, u, {bal[u].by}) \in Int BY <2>3
      <4> QED BY ONLY <1>2, <2>1, <3>1, <4>1, <4>2, <4>4, <4>5
    <3>4. CASE u # in.user
      <4>1. Part(r, u, {bal[u].by}) = 0 BY <1>2, <3>4 DEF Part
      <4>2. Unmoved(bal[u].by, u)' = Unmoved(bal[u].by, u)
        BY <1>1, <1>4, <3>2, <3>4 DEF Unmoved
      <4> QED BY <2>1, <2>2, <2>3, <3>1, <4>1, <4>2
    <3> QED BY <3>3, <3>4
  <2> QED BY <1>1, <2>6, <2>7 DEF RowAddsUp, IsActive, IsCommitted, Unmoved
<1>8. EntriesUnderLock'
  <2>1. ASSUME NEW i \in Ids
        PROVE  /\ clog[rows'[i].by] # "new"
               /\ clog[rows'[i].by] = "active" => bal[rows'[i].user].by = rows'[i].by
    BY <1>3, <2>1 DEF EntriesUnderLock, IsActive
  <2>2. /\ clog[rows'[n].by] # "new" /\ bal[rows'[n].user].by = rows'[n].by
    BY <1>1, <1>2, <1>3, <1>6
  <2> QED BY <1>1, <1>3, <2>1, <2>2 DEF EntriesUnderLock, IsActive
<1>9. CallsUnderLock'
  <2>1. ASSUME NEW x \in Tx, x # t
        PROVE  /\ call'[x] = call[x]
               /\ call[x].at = "move" =>
                    call[x].id \in Ids' /\ rows'[call[x].id] = rows[call[x].id]
    BY <1>3, <1>4, <2>1 DEF CallsUnderLock
  <2> QED BY <1>1, <1>2, <1>3, <1>4, <1>6, <2>1 DEF CallsUnderLock, IsActive
<1>10. OneLiveHolder'
  <2>1. ASSUME NEW i \in Ids, r.key # NoKey, rows[i].key = r.key
        PROVE  clog[rows[i].by] = "aborted"
    <3>1. i \notin Holders(in.key) BY <1>0
    <3>2. rows[i].by \in Xids /\ clog[rows[i].by] # "new"
      BY RowTypes DEF EntriesUnderLock
    <3>3. clog[rows[i].by] \notin {"active", "committed"}
      BY <1>2, <2>1, <3>1 DEF Holders
    <3>4. clog[rows[i].by] \in Fates BY <1>1, <3>2
    <3> QED BY <3>2, <3>3, <3>4 DEF Fates
  <2>2. SUFFICES ASSUME NEW i \in Ids', NEW j \in Ids', i # j,
                        rows'[i].key # NoKey, rows'[i].key = rows'[j].key
                 PROVE  "aborted" \in {clog[rows'[i].by], clog[rows'[j].by]}
    BY <1>1 DEF OneLiveHolder
  <2>3. CASE i \in Ids /\ j \in Ids
    BY <1>3, <2>2, <2>3 DEF OneLiveHolder
  <2>4. CASE i \in Ids /\ j = n
    BY <1>3, <2>1, <2>2, <2>4
  <2>5. CASE i = n /\ j \in Ids
    BY <1>3, <2>1, <2>2, <2>5
  <2> QED BY <1>3, <2>2, <2>3, <2>4, <2>5
<1>11. ReversalsSeen'
  <2>1. ReversesSeen(in, t) /\ ReversesSeen(r, t)
    BY <1>1, <1>2 DEF ReversalsSeen, ReversesSeen
  <2>2. ASSUME NEW q, NEW x, ReversesSeen(q, x) PROVE ReversesSeen(q, x)'
    BY <1>1, <1>3, <2>2 DEF ReversesSeen, SeenBy, IsCommitted
  <2>3. ASSUME NEW i \in Ids' PROVE ReversesSeen(rows[i], rows[i].by)'
    <3> SUFFICES ASSUME NEW q, q = rows'[i] PROVE ReversesSeen(rows[i], rows[i].by)'
      OBVIOUS
    <3>1. ReversesSeen(q, q.by)
      BY <1>2, <1>3, <2>1 DEF ReversalsSeen
    <3>2. ReversesSeen(q, q.by)' BY <2>2, <3>1
    <3> QED BY <3>2 DEF ReversesSeen, SeenBy, IsCommitted
  <2>4. ASSUME NEW x \in Tx, call'[x].at \in {"lock", "claim", "move"}
        PROVE  ReversesSeen(call[x].in, x)'
    <3> SUFFICES ASSUME NEW q, q = call'[x].in PROVE ReversesSeen(call[x].in, x)'
      OBVIOUS
    <3>1. call[x].at \in {"lock", "claim", "move"} /\ q = call[x].in
      BY <1>1, <1>4, <2>4
    <3>2. ReversesSeen(q, x) BY <3>1 DEF ReversalsSeen
    <3>3. ReversesSeen(q, x)' BY <2>2, <3>2
    <3> QED BY <3>3 DEF ReversesSeen, SeenBy, IsCommitted
  <2> QED BY <2>3, <2>4 DEF ReversalsSeen
<1>12. DebitsCovered'
  <2>1. \A i \in Ids : i \in Ids' /\ rows'[i] = rows[i] BY <1>3
  <2> SUFFICES ASSUME NEW u \in Users, clog[bal[u].by] = "active"
               PROVE  \/ bal[u].now >= 0 \/ bal[u].now >= bal[u].was
                      \/ \E i \in Ids' : /\ rows'[i].by = bal[u].by /\ rows'[i].user = u
                                         /\ rows'[i].reverses # NoEntry
    BY <1>1 DEF DebitsCovered, IsActive
  <2> QED BY <2>1 DEF DebitsCovered, IsActive
<1> QED BY <1>1, <1>5, <1>7, <1>8, <1>9, <1>10, <1>11, <1>12

(* Moving the balance preserves it: the new version takes up the entry that   *)
(* was inserted and not yet moved.                                            *)
LEMMA MoveStep ==
  ASSUME LedgerIInv, NEW t \in Tx, Move(t) PROVE LedgerIInv'
<1> USE DEF LedgerIInv
<1> SUFFICES ASSUME NEW in, NEW v, in = call[t].in, v = call[t].before + in.delta
             PROVE  LedgerIInv'
  OBVIOUS
<1>0. /\ IsActive(t) /\ call[t].at = "move" /\ ~ Overdraws(t)
      /\ bal' = [bal EXCEPT ![in.user] = Written(t, bal[in.user], v)]
      /\ call' = [call EXCEPT ![t] = [at |-> "done", made |-> call[t].made,
                                      id |-> call[t].id, duplicate |-> FALSE]]
      /\ clog' = clog /\ rows' = rows
  BY DEF Move
<1>1. /\ call[t].made \in Nat /\ call[t].id \in Nat /\ call \in [Tx -> CallState]
      /\ in \in Input /\ call[t].before \in Int /\ clog[t] = "active"
      /\ bal \in [Users -> Cell(Int)]
  BY <1>0, CallTypes DEF LedgerTypeOK, IsActive
<1>2. in.user \in Users /\ in.delta \in Int /\ v \in Int
  BY <1>1 DEF Input
<1>3. bal[in.user].by = t /\ call[t].before = bal[in.user].now
  BY <1>0, <1>1 DEF CallsUnderLock, IsActive
<1>4. /\ bal'[in.user] = [was |-> bal[in.user].was, now |-> v, by |-> t]
      /\ bal'[in.user] \in Cell(Int)
      /\ \A u \in Users : u # in.user => bal'[u] = bal[u]
  BY <1>0, <1>1, <1>2, <1>3 DEF Written, Locked, Cell
<1>5. /\ call'[t] = [at |-> "done", made |-> call[t].made, id |-> call[t].id,
                     duplicate |-> FALSE]
      /\ \A x \in Tx : x # t => call'[x] = call[x]
  BY <1>0, <1>1
<1>6. LedgerTypeOK'
  <2>1. call'[t] \in CallState BY <1>1, <1>5 DEF CallState
  <2>2. call' \in [Tx -> CallState] BY <1>0, <1>1, <2>1
  <2>3. bal' \in [Users -> Cell(Int)] BY <1>0, <1>1, <1>4
  <2> QED BY <1>0, <2>2, <2>3 DEF LedgerTypeOK
<1>7. BalanceRowsAddUp'
  <2> SUFFICES ASSUME NEW u \in Users PROVE RowAddsUp(u)'
    BY DEF BalanceRowsAddUp
  <2>1. RowAddsUp(u) /\ bal[u].by \in Xids /\ bal[u].was \in Int /\ bal[u].now \in Int
    BY <1>1 DEF BalanceRowsAddUp, Cell
  <2>2. Total(rows', u, Committed') = Total(rows, u, Committed)
    BY <1>0 DEF Committed, IsCommitted
  <2>3. CASE u = in.user
    <3>1. Unmoved(t, u) = in.delta BY <1>0, <2>3 DEF Unmoved
    <3>2. Unmoved(t, u)' = 0 BY <1>5 DEF Unmoved
    <3>3. Total(rows', u, {t}) \in Int BY <1>0, TotalType DEF LedgerTypeOK
    <3>4. bal[u].now + in.delta = bal[u].was + Total(rows', u, {t})
      BY <1>0, <1>1, <1>3, <2>1, <2>3, <3>1 DEF RowAddsUp, IsActive
    <3>5. bal'[u].was = Total(rows', u, Committed')
      BY <1>1, <1>3, <1>4, <2>1, <2>2, <2>3 DEF RowAddsUp, IsCommitted
    <3>6. bal'[u].now + 0 = bal'[u].was + Total(rows', u, {t})
      BY <1>2, <1>3, <1>4, <2>1, <2>3, <3>3, <3>4
    <3>7. clog'[t] = "active" /\ bal'[u].by = t BY <1>0, <1>1, <1>4, <2>3
    <3> QED BY <3>2, <3>5, <3>6, <3>7 DEF RowAddsUp, IsActive, IsCommitted, Unmoved
  <2>4. CASE u # in.user
    <3>1. bal'[u] = bal[u] BY <1>4, <2>4
    <3>2. \A x \in Tx : Unmoved(x, u)' = Unmoved(x, u)
      BY <1>0, <1>5, <2>4 DEF Unmoved
    <3>3. /\ clog[bal[u].by] # "new"
          /\ clog[bal[u].by] = "committed" => bal[u].now = Total(rows', u, Committed')
          /\ clog[bal[u].by] # "committed" => bal[u].was = Total(rows', u, Committed')
      BY <2>1, <2>2 DEF RowAddsUp, IsCommitted
    <3>4. clog[bal[u].by] = "active" =>
            bal[u].now + Unmoved(bal[u].by, u)' = bal[u].was + Total(rows', u, {bal[u].by})
      BY <1>0, <1>5, <2>1, <2>4, <3>1 DEF RowAddsUp, IsActive, Unmoved, Xids
    <3> QED BY <1>0, <3>1, <3>3, <3>4 DEF RowAddsUp, IsActive, IsCommitted, Unmoved
  <2> QED BY <2>3, <2>4
<1>8. EntriesUnderLock'
  BY <1>0, <1>3, <1>4, RowTypes DEF EntriesUnderLock, IsActive, Ids
<1>9. CallsUnderLock'
  <2>1. ASSUME NEW x \in Tx, x # t, IsActive(x), call[x].at \in {"claim", "move"}
        PROVE  call[x].in.user \in Users /\ call[x].in.user # in.user
    <3>1. call[x].in \in Input BY <2>1, CallTypes
    <3>2. bal[call[x].in.user].by = x BY <2>1 DEF CallsUnderLock
    <3> QED BY <1>3, <2>1, <3>1, <3>2 DEF Input
  <2> QED BY <1>0, <1>1, <1>4, <1>5, <2>1 DEF CallsUnderLock, IsActive, Ids
<1>10. OneLiveHolder' BY <1>0 DEF OneLiveHolder, Ids
<1>11. ReversalsSeen'
  <2>1. \A x \in Tx : call'[x].at \in {"lock", "claim", "move"} => call'[x] = call[x]
    BY <1>5
  <2>2. \A i \in Ids' : ReversesSeen(rows[i], rows[i].by)'
    BY <1>0 DEF ReversalsSeen, ReversesSeen, SeenBy, IsCommitted, Ids
  <2>3. ASSUME NEW x \in Tx, call'[x].at \in {"lock", "claim", "move"}
        PROVE  ReversesSeen(call[x].in, x)'
    <3>1. call'[x] = call[x] /\ ReversesSeen(call[x].in, x)
      BY <2>1, <2>3 DEF ReversalsSeen
    <3> QED BY <1>0, <3>1 DEF ReversesSeen, SeenBy, IsCommitted, Ids
  <2> QED BY <2>2, <2>3 DEF ReversalsSeen
<1>12. DebitsCovered'
  <2>1. CASE in.reverses # NoEntry
    <3>1. LET i == call[t].id IN
          i \in Ids /\ rows[i].by = t /\ rows[i].user = in.user /\ rows[i].reverses # NoEntry
      BY <1>0, <2>1 DEF CallsUnderLock
    <3> QED BY <1>0, <1>4, <3>1 DEF DebitsCovered, IsActive, Ids
  <2>2. CASE in.reverses = NoEntry
    <3>1. v >= 0 \/ in.delta >= 0
      BY <1>0, <1>1, <1>2, <2>2 DEF Overdraws, Enforced
    <3>2. bal[in.user].now \in Int /\ bal[in.user].was \in Int BY <1>1, <1>2 DEF Cell
    <3>3. in.delta >= 0 => v >= bal[in.user].now BY <1>2, <1>3, <3>2
    <3>4. \/ v >= 0 \/ v >= bal[in.user].was
          \/ \E i \in Ids : rows[i].by = t /\ rows[i].user = in.user
                            /\ rows[i].reverses # NoEntry
      BY <1>1, <1>2, <1>3, <3>1, <3>2, <3>3 DEF DebitsCovered, IsActive
    <3> QED BY <1>0, <1>4, <3>4 DEF DebitsCovered, IsActive, Ids
  <2> QED BY <2>1, <2>2
<1> QED BY <1>0, <1>6, <1>7, <1>8, <1>9, <1>10, <1>11, <1>12

(* Every step of the ledger preserves the inductive invariant. *)
LEMMA NextInvariant == LedgerIInv /\ [LedgerNext]_ledgerVars => LedgerIInv'
<1> SUFFICES ASSUME LedgerIInv, [LedgerNext]_ledgerVars PROVE LedgerIInv'
  OBVIOUS
<1>1. CASE UNCHANGED ledgerVars
  <2>1. clog' = clog /\ rows' = rows /\ bal' = bal /\ call' = call
    BY <1>1 DEF ledgerVars
  <2>2. LedgerTypeOK' /\ clog'[Setup] = "committed" BY <2>1 DEF LedgerIInv, LedgerTypeOK
  <2>3. BalanceRowsAddUp'
    BY <2>1 DEF LedgerIInv, BalanceRowsAddUp, RowAddsUp, IsCommitted, IsActive, Unmoved, Committed
  <2>4. EntriesUnderLock' /\ CallsUnderLock' /\ OneLiveHolder' /\ DebitsCovered'
    BY <2>1 DEF LedgerIInv, EntriesUnderLock, CallsUnderLock, OneLiveHolder, DebitsCovered,
                IsActive, Ids
  <2>5. ReversalsSeen'
    BY <2>1 DEF LedgerIInv, ReversalsSeen, ReversesSeen, SeenBy, IsCommitted, Ids
  <2> QED BY <2>2, <2>3, <2>4, <2>5 DEF LedgerIInv
<1>2. ASSUME NEW t \in Tx, Open(t) PROVE LedgerIInv'
  BY <1>2, OpenStep
<1>8. ASSUME NEW t \in Tx, NEW u \in Users, LockAhead(t, u) PROVE LedgerIInv'
  BY <1>8, LockAheadStep
<1>3. ASSUME NEW t \in Tx, NEW u \in Users, NEW d \in Deltas,
             NEW k \in EventKeys \cup {NoKey},
             AppendEntry(t, [user |-> u, delta |-> d, key |-> k, reverses |-> NoEntry])
      PROVE  LedgerIInv'
  <2> DEFINE in == [user |-> u, delta |-> d, key |-> k, reverses |-> NoEntry]
  <2>1. in \in Input /\ ReversesSeen(in, t) BY DEF Input, ReversesSeen
  <2> HIDE DEF in
  <2>2. AppendEntry(t, in) BY <1>3 DEF in
  <2> QED BY <2>1, <2>2, AppendEntryStep
<1>4. ASSUME NEW t \in Tx, NEW i \in Ids, ReverseEntry(t, i) PROVE LedgerIInv'
  <2> DEFINE in == [user |-> rows[i].user, delta |-> -rows[i].delta,
                    key |-> ReversalKey(i), reverses |-> i]
  <2>1. rows[i] \in Row /\ i \in Nat /\ SeenBy(t, rows[i].by)
    BY <1>4, RowTypes DEF LedgerIInv, ReverseEntry, Ids
  <2>2. ReversalKey(i) \in {"reversal"} \X Nat BY <2>1 DEF ReversalKey
  <2>3. rows[i].user \in Users /\ rows[i].delta \in Int \ {0} BY <2>1 DEF Row
  <2>4. -rows[i].delta \in Int \ {0} BY <2>3
  <2>5. in \in Input BY <2>1, <2>2, <2>3, <2>4 DEF Input
  <2>6. ReversesSeen(in, t) BY <2>1 DEF ReversesSeen
  <2> HIDE DEF in
  <2>7. AppendEntry(t, in) BY <1>4 DEF ReverseEntry, in
  <2> QED BY <2>5, <2>6, <2>7, AppendEntryStep
<1>5. ASSUME NEW t \in Tx, AppendStep(t) PROVE LedgerIInv'
  <2>1. CASE Refuse(t) BY <2>1, AbortStep DEF Refuse
  <2> QED BY <1>5, <2>1, LockStep, InsertStep, DuplicateStep, MoveStep DEF AppendStep
<1>6. ASSUME NEW t \in Tx, Close(t) PROVE LedgerIInv'
  BY <1>6, CloseStep
<1>7. ASSUME NEW t \in Tx, Fail(t) PROVE LedgerIInv'
  BY <1>7, AbortStep DEF Fail
<1> QED BY <1>1, <1>2, <1>3, <1>4, <1>5, <1>6, <1>7, <1>8 DEF LedgerNext

\* The ledger only grows, and a transaction's fate is decided once.
Decided == \A x \in Xids : \/ clog'[x] = clog[x]
                           \/ clog[x] = "new" /\ clog'[x] = "active"
                           \/ clog[x] = "active" /\ clog'[x] \in {"committed", "aborted"}
Grown == \A i \in Ids : i \in Ids' /\ rows'[i] = rows[i]

LEMMA LedgerGrows ==
  ASSUME LedgerIInv, [LedgerNext]_ledgerVars
  PROVE  Decided /\ Grown
<1>1. clog \in [Xids -> Fates] /\ rows \in Seq(Row) /\ Ids = 1 .. Len(rows)
  BY DEF LedgerIInv, LedgerTypeOK, Ids
<1>2. CASE UNCHANGED <<clog, rows>>
  BY <1>2 DEF Decided, Grown, Ids
<1>3. ASSUME NEW t \in Tx, Begin(t) \/ Commit(t) \/ Abort(t), UNCHANGED rows
      PROVE  Decided /\ Grown
  BY <1>1, <1>3 DEF Begin, Commit, Abort, IsActive, Decided, Grown, Ids, Xids
<1>4. ASSUME NEW t \in Tx, Insert(t) PROVE Decided /\ Grown
  <2>1. PICK r : rows' = Append(rows, r) /\ UNCHANGED clog
    BY <1>4 DEF Insert
  <2>2. Ids' = 1 .. Len(rows) + 1 /\ \A i \in Ids : rows'[i] = rows[i]
    BY <1>1, <2>1 DEF Ids
  <2> QED BY <1>1, <2>1, <2>2 DEF Decided, Grown
<1> QED
  BY <1>2, <1>3, <1>4
  DEF LedgerNext, ledgerVars, Open, LockAhead, AppendEntry, ReverseEntry, AppendStep, Advance,
      Lock, Duplicate, Move, Refuse, Close, Fail

(* The inductive invariant holds throughout every behaviour of the ledger. *)
THEOREM LedgerInvariant == LedgerSpec => []LedgerIInv
BY InitInvariant, NextInvariant, PTL DEF LedgerSpec

(* The ledger's state keeps its types (the columns and the stages of an       *)
(* appendEntry call).                                                         *)
THEOREM LedgerTypes == LedgerSpec => []LedgerTypeOK
<1>1. LedgerIInv => LedgerTypeOK BY DEF LedgerIInv
<1> QED BY <1>1, LedgerInvariant, PTL

(* The cached balance is the sum of the committed entries in every state: no  *)
(* interleaving, duplicate, refusal or rollback of appendEntry makes          *)
(* reconcile() report a discrepancy.                                          *)
THEOREM LedgerReconciles == LedgerSpec => []ReconcileEmpty
<1>1. LedgerIInv => ReconcileEmpty
  BY DEF LedgerIInv, BalanceRowsAddUp, RowAddsUp, ReconcileEmpty, Balance, Latest
<1> QED BY <1>1, LedgerInvariant, PTL

(* A partner event, an operator's request and a reversal each move points at  *)
(* most once, whatever races and rollbacks their retries go through.          *)
THEOREM LedgerAppliesKeysOnce == LedgerSpec => []KeyAppliedOnce
<1>1. LedgerIInv => KeyAppliedOnce
  BY DEF LedgerIInv, OneLiveHolder, KeyAppliedOnce, Entries, IsCommitted
<1> QED BY <1>1, LedgerInvariant, PTL

(* A committed entry is cancelled at most once and exactly: a retried failure *)
(* handler cannot refund twice.                                               *)
THEOREM LedgerReversesOnce == LedgerSpec => []ReversalCancelsOnce
<1>1. ASSUME LedgerIInv PROVE ReversalCancelsOnce
  <2> SUFFICES ASSUME NEW i \in Entries, rows[i].reverses # NoEntry,
                      NEW o, o = rows[i].reverses
               PROVE  /\ o \in Entries
                      /\ rows[i].user = rows[o].user /\ rows[i].delta = -rows[o].delta
                      /\ \A j \in Entries \ {i} : rows[j].reverses # o
    BY DEF ReversalCancelsOnce
  <2>1. \A j \in Entries : j \in Ids /\ ReversesSeen(rows[j], rows[j].by)
                           /\ IsCommitted(rows[j].by)
    BY <1>1 DEF LedgerIInv, ReversalsSeen, Entries
  <2>2. /\ o \in Entries /\ rows[i].user = rows[o].user
        /\ rows[i].delta = -rows[o].delta /\ rows[i].key = ReversalKey(o)
    BY <2>1 DEF ReversesSeen, SeenBy, Entries
  <2>3. ASSUME NEW j \in Entries \ {i}, rows[j].reverses = o PROVE FALSE
    <3>1. rows[j].key = ReversalKey(o) BY <2>1, <2>3 DEF ReversesSeen
    <3>2. o \in Nat BY <2>2 DEF Entries, Ids
    <3>3. ReversalKey(o) \in {"reversal"} \X Nat BY <3>2 DEF ReversalKey
    <3>4. ReversalKey(o) # NoKey BY <3>3
    <3> QED BY <1>1, <2>1, <2>2, <2>3, <3>1, <3>4
            DEF LedgerIInv, OneLiveHolder, IsCommitted
  <2> QED BY <2>2, <2>3
<1> QED BY <1>1, LedgerInvariant, PTL

(* A commit leaves a balance below zero and below what it was only when it    *)
(* contains a reversal for that user: spends are always covered.              *)
THEOREM LedgerOnlyClawbackGoesNegative == LedgerSpec => OnlyClawbackGoesNegative
<1> DEFINE A == \A u \in Users :
                  Balance(u)' < 0 /\ Balance(u)' < Balance(u) =>
                    \E i \in Entries' \ Entries :
                       rows[i].user = u /\ rows[i].reverses # NoEntry
<1>1. ASSUME LedgerIInv, LedgerIInv', [LedgerNext]_ledgerVars PROVE [A]_ledgerVars
  <2> SUFFICES ASSUME NEW u \in Users, Balance(u)' < 0, Balance(u)' < Balance(u)
               PROVE  \E i \in Entries' \ Entries :
                         rows[i].user = u /\ rows[i].reverses # NoEntry
    OBVIOUS
  <2>1. /\ bal[u] \in Cell(Int) /\ bal[u].by \in Xids /\ clog \in [Xids -> Fates]
        /\ clog[bal[u].by] # "new"
    BY <1>1 DEF LedgerIInv, LedgerTypeOK, Cell, BalanceRowsAddUp, RowAddsUp
  <2>2. ASSUME NEW t \in Tx, Close(t), bal[u].by = t
        PROVE  \E i \in Entries' \ Entries :
                  rows[i].user = u /\ rows[i].reverses # NoEntry
    <3>1. /\ clog[t] = "active" /\ clog'[t] = "committed" /\ bal' = bal /\ rows' = rows
      BY <2>1, <2>2 DEF Close, Commit, IsActive
    <3>2. Balance(u)' = bal[u].now /\ Balance(u) = bal[u].was
      BY <2>2, <3>1 DEF Balance, Latest, IsCommitted
    <3>3. bal[u].now \in Int /\ bal[u].was \in Int BY <2>1 DEF Cell
    <3>4. PICK i \in Ids : rows[i].by = t /\ rows[i].user = u /\ rows[i].reverses # NoEntry
      BY <1>1, <2>2, <3>1, <3>2, <3>3 DEF LedgerIInv, DebitsCovered, IsActive
    <3>5. i \in Entries' \ Entries
      BY <3>1, <3>4 DEF Entries, Ids, IsCommitted
    <3> QED BY <3>4, <3>5
  <2>3. ASSUME Balance(u)' = Balance(u) PROVE FALSE
    <3>1. Balance(u) \in Int BY <2>1 DEF Balance, Latest, Cell
    <3> QED BY <2>3, <3>1
  <2>4. CASE UNCHANGED ledgerVars
    BY <2>3, <2>4 DEF ledgerVars, Balance, Latest, IsCommitted
  <2>5. ASSUME NEW t \in Tx, Close(t), bal[u].by # t PROVE FALSE
    <3>1. bal' = bal /\ clog'[bal[u].by] = clog[bal[u].by]
      BY <2>1, <2>5 DEF Close, Commit
    <3> QED BY <2>3, <3>1 DEF Balance, Latest, IsCommitted
  <2>6. ASSUME NEW t \in Tx, Abort(t), bal' = bal PROVE FALSE
    <3>1. IsCommitted(bal[u].by)' <=> IsCommitted(bal[u].by)
      BY <2>1, <2>6 DEF Abort, IsActive, IsCommitted
    <3> QED BY <2>3, <2>6, <3>1 DEF Balance, Latest, IsCommitted
  <2>7. ASSUME NEW t \in Tx, Open(t) PROVE FALSE
    <3>1. bal' = bal /\ clog'[bal[u].by] = clog[bal[u].by]
      BY <2>1, <2>7 DEF Open, Begin
    <3> QED BY <2>3, <3>1 DEF Balance, Latest, IsCommitted
  <2>8. ASSUME clog' = clog, bal' = bal PROVE FALSE
    BY <2>3, <2>8 DEF Balance, Latest, IsCommitted
  <2>9. ASSUME NEW t \in Tx, NEW x \in Users, LockBalance(t, x), IsActive(t), clog' = clog
        PROVE  FALSE
    <3>1. clog[t] = "active"
      BY <2>9 DEF IsActive
    <3>2. CASE bal'[u] = bal[u]
      BY <2>3, <2>9, <3>1, <3>2 DEF Balance, Latest, IsCommitted
    <3>3. CASE bal'[u] # bal[u]
      <4>1. bal'[u] = [was |-> Latest(bal[u]), now |-> Latest(bal[u]), by |-> t]
        BY <1>1, <2>9, <3>3 DEF LockBalance, Locked, LedgerIInv, LedgerTypeOK
      <4> QED BY <2>3, <2>9, <3>1, <4>1 DEF Balance, Latest, IsCommitted
    <3> QED BY <3>2, <3>3
  <2>11. ASSUME NEW t \in Tx, Lock(t) PROVE FALSE
    <3>1. call[t].in \in Input BY <1>1, <2>11, CallTypes DEF LedgerIInv, Lock
    <3> QED BY <2>9, <2>11, <3>1 DEF Lock, Input
  <2>10. ASSUME NEW t \in Tx, Move(t) PROVE FALSE
    <3> DEFINE v == call[t].in.user
    <3>1. clog' = clog /\ clog[t] = "active" /\ bal[v].by = t
      BY <1>1, <2>10 DEF Move, IsActive, LedgerIInv, CallsUnderLock
    <3>2. CASE u # v
      <4>1. bal'[u] = bal[u]
        BY <1>1, <2>10, <3>2 DEF Move, LedgerIInv, LedgerTypeOK
      <4> QED BY <2>3, <3>1, <4>1 DEF Balance, Latest, IsCommitted
    <3>3. CASE u = v
      <4>1. bal'[u].by = t /\ bal'[u].was = bal[u].was
        BY <1>1, <2>1, <2>10, <3>1, <3>3
        DEF Move, Written, Locked, LedgerIInv, LedgerTypeOK, Cell
      <4> QED BY <2>3, <3>1, <3>3, <4>1 DEF Balance, Latest, IsCommitted
    <3> QED BY <3>2, <3>3
  <2> QED
    BY <1>1, <2>2, <2>4, <2>5, <2>6, <2>7, <2>8, <2>9, <2>10, <2>11
    DEF LedgerNext, LockAhead, AppendEntry, ReverseEntry, AppendStep, Insert, Duplicate,
        Refuse, Fail
<1>2. OnlyClawbackGoesNegative <=> [][A]_ledgerVars BY DEF OnlyClawbackGoesNegative
<1> QED BY <1>1, <1>2, LedgerInvariant, PTL DEF LedgerSpec

(* With one append per transaction, locks are taken in order. *)
LEMMA LocksInOrderInvariant ==
  ASSUME AppendsPerTx = 1 PROVE LedgerSpec => []LocksInOrder
<1>1. LedgerInit => LocksInOrder
  <2> SUFFICES ASSUME LedgerInit PROVE LocksInOrder OBVIOUS
  <2>1. \A i \in Ids : rows[i].by = Setup
    BY OpeningIsCommitted DEF LedgerInit, Ids
  <2>2. \A u \in Users : bal[u].by = Setup BY DEF LedgerInit, Loaded
  <2>3. \A t \in Tx : call[t].at = "idle" /\ Setup # t BY DEF LedgerInit, NotCalled
  <2> QED BY <2>1, <2>2, <2>3 DEF LocksInOrder
<1>2. ASSUME LedgerIInv, LocksInOrder, [LedgerNext]_ledgerVars PROVE LocksInOrder'
  <2>1. call \in [Tx -> CallState] /\ bal \in [Users -> Cell(Int)] /\ rows \in Seq(Row)
    BY <1>2 DEF LedgerIInv, LedgerTypeOK
  <2>2. ASSUME call' = call, bal' = bal, rows' = rows PROVE LocksInOrder'
    BY <1>2, <2>2 DEF LocksInOrder, Ids
  <2>3. ASSUME NEW t \in Tx, NEW in, AppendEntry(t, in) PROVE LocksInOrder'
    <3>1. call[t].made \in Nat /\ call[t].made < 1 BY <1>2, <2>3, CallTypes DEF LedgerIInv, AppendEntry
    <3>2. /\ call[t].at \in {"idle", "ahead"} /\ bal' = bal /\ rows' = rows
          /\ call[t].at = "ahead" => in.user = call[t].user
      BY <1>2, <2>3, <3>1 DEF AppendEntry, LocksInOrder
    <3>3. /\ call'[t].at = "lock" /\ call'[t].made = call[t].made + 1
          /\ call'[t].in = in
          /\ \A x \in Tx : x # t => call'[x] = call[x]
      BY <2>1, <2>3 DEF AppendEntry
    <3> QED BY <1>2, <3>1, <3>2, <3>3 DEF LocksInOrder, Ids
  <2>4. ASSUME NEW t \in Tx, Lock(t) PROVE LocksInOrder'
    <3>1. /\ call[t].at = "lock" /\ call'[t].at = "claim" /\ call'[t].made = call[t].made
          /\ \A x \in Tx : x # t => call'[x] = call[x]
          /\ rows' = rows
      BY <2>1, <2>4 DEF Lock
    <3>2. \A u \in Users : bal'[u].by \in {bal[u].by, t}
      BY <2>1, <2>4 DEF Lock, LockBalance, Locked
    <3> QED BY <1>2, <3>1, <3>2 DEF LocksInOrder, Ids
  <2>7. ASSUME NEW t \in Tx, NEW v \in Users, LockAhead(t, v) PROVE LocksInOrder'
    <3>1. /\ call[t].at = "idle" /\ call'[t].at = "ahead" /\ call'[t].made = call[t].made
          /\ call'[t].user = v
          /\ \A x \in Tx : x # t => call'[x] = call[x]
          /\ rows' = rows
      BY <2>1, <2>7 DEF LockAhead
    <3>2. \A u \in Users : /\ bal'[u].by \in {bal[u].by, t}
                           /\ u # v => bal'[u] = bal[u]
      BY <2>1, <2>7 DEF LockAhead, LockBalance, Locked
    <3> QED BY <1>2, <3>1, <3>2 DEF LocksInOrder, Ids
  <2>5. ASSUME NEW t \in Tx, Insert(t) PROVE LocksInOrder'
    <3>1. /\ call[t].at = "claim" /\ call'[t].at = "move" /\ call'[t].made = call[t].made
          /\ \A x \in Tx : x # t => call'[x] = call[x]
          /\ bal' = bal
      BY <2>1, <2>5 DEF Insert
    <3>2. \A i \in Ids' : \/ i \in Ids /\ rows'[i] = rows[i]
                          \/ rows'[i].by = t
      BY <2>1, <2>5 DEF Insert, Ids
    <3> QED BY <1>2, <3>1, <3>2 DEF LocksInOrder
  <2>6. ASSUME NEW t \in Tx, Duplicate(t) \/ Move(t) PROVE LocksInOrder'
    <3>1. /\ call[t].at \in {"claim", "move"} /\ call'[t].at = "done"
          /\ call'[t].made = call[t].made
          /\ \A x \in Tx : x # t => call'[x] = call[x]
          /\ rows' = rows
      BY <2>1, <2>6 DEF Duplicate, Move
    <3>2. \A u \in Users : bal'[u].by \in {bal[u].by, t}
      <4>1. CASE Duplicate(t) BY <4>1 DEF Duplicate
      <4>2. CASE Move(t) BY <2>1, <4>2 DEF Move, Written, Locked
      <4> QED BY <2>6, <4>1, <4>2
    <3> QED BY <1>2, <3>1, <3>2 DEF LocksInOrder, Ids
  <2> QED
    BY <1>2, <2>2, <2>3, <2>4, <2>5, <2>6, <2>7
    DEF LedgerNext, ledgerVars, Open, Close, Fail, ReverseEntry, AppendStep, Refuse
<1> QED BY <1>1, <1>2, LedgerInvariant, PTL DEF LedgerSpec

(* When every transaction appends at most one entry, no set of transactions   *)
(* ever waits for itself: the balance lock comes first and the key last.      *)
THEOREM LedgerNeverDeadlocks ==
  ASSUME AppendsPerTx = 1 PROVE LedgerSpec => []NoDeadlock
<1>1. ASSUME LedgerIInv, LocksInOrder PROVE NoDeadlock
  <2> SUFFICES ASSUME NEW S \in SUBSET Tx, S # {},
                      \A t \in S : \E s \in S : WaitsFor(t, s)
               PROVE  FALSE
    BY DEF NoDeadlock
  <2>1. PICK t \in S : TRUE OBVIOUS
  <2>2. PICK s \in S : WaitsFor(t, s) OBVIOUS
  <2>3. PICK r \in S : WaitsFor(s, r) OBVIOUS
  <2>4. PICK q \in S : WaitsFor(r, q) OBVIOUS
  <2>5. ASSUME NEW x \in Tx, NEW y \in Tx, WaitsFor(x, y)
        PROVE  \/ \E u \in Users : bal[u].by = y
               \/ \E i \in Ids : rows[i].by = y
    <3>1. call[x].at \in {"lock", "claim"} BY <2>5 DEF WaitsFor
    <3>2. call[x].in \in Input BY <1>1, <3>1, CallTypes DEF LedgerIInv
    <3> QED BY <2>5, <3>2 DEF WaitsFor, Input, Holders
  <2>6. \A x \in Tx, y \in Tx : WaitsFor(x, y) => call[x].at \in {"lock", "claim"}
    BY DEF WaitsFor
  <2>9. ASSUME NEW x \in Tx, NEW y \in Tx, NEW z \in Tx, WaitsFor(x, y), WaitsFor(y, z)
        PROVE  call[y].at = "claim"
    <3>1. CASE call[y].at = "claim" BY <3>1
    <3>2. CASE call[y].at = "lock"
      <4>1. /\ call[x].in \in Input /\ call[x].at \in {"lock", "claim"}
            /\ call[y].in \in Input
        BY <1>1, <2>6, <2>9, CallTypes DEF LedgerIInv
      <4>2. \A i \in Ids : rows[i].by # y BY <1>1, <3>2 DEF LocksInOrder
      <4>3. \A u \in Users : bal[u].by = y => u = call[y].in.user
        BY <1>1, <3>2 DEF LocksInOrder
      <4>4. bal[call[y].in.user].by = z /\ z # y BY <2>9, <3>2 DEF WaitsFor
      <4>5. \E u \in Users : bal[u].by = y BY <2>5, <2>9, <4>2
      <4> QED BY <4>3, <4>4, <4>5
    <3> QED BY <2>6, <2>9, <3>1, <3>2
  <2>7. call[s].at = "claim" /\ call[r].at = "claim"
    BY <2>2, <2>3, <2>4, <2>9
  <2>8. \E i \in Ids : rows[i].by = r BY <2>3, <2>7 DEF WaitsFor, Holders
  <2> QED BY <1>1, <2>7, <2>8 DEF LocksInOrder
<1> QED BY <1>1, LocksInOrderInvariant, LedgerInvariant, PTL

-----------------------------------------------------------------------------
(* The ledger implements AtomicLedger.                                        *)
Records(rs, X) == {EntryRecord(rs, i) : i \in {n \in 1 .. Len(rs) : rs[n].by \in X}}

(* The last id of a set of entries is one of theirs, and no other is above.   *)
LEMMA LastId ==
  ASSUME NEW rs \in Seq(Row), NEW X, NEW L, L = Atomic!Last(Records(rs, X))
  PROVE  /\ L \in 0 .. Len(rs)
         /\ \A e \in Records(rs, X) : e.id <= L
<1> DEFINE E == Records(rs, X)
<1> DEFINE T == {n \in Nat : \A e \in E : e.id <= n}
<1>1. Len(rs) \in T /\ \A e \in E : e.id \in 1 .. Len(rs)
  BY DEF Records, EntryRecord
<1>2. PICK m \in T : \A n \in T : ~ (n < m)
  <2>1. T \subseteq Nat /\ T # {}
    BY <1>1
  <2> HIDE DEF T
  <2> QED BY <2>1, NatMinimum
<1>3. m \in {0} \cup {e.id : e \in E}
  <2> SUFFICES ASSUME m # 0, \A e \in E : e.id # m PROVE FALSE
    OBVIOUS
  <2>1. m - 1 \in T
    BY <1>1
  <2> QED BY <1>2, <2>1
<1>4. \E n \in {0} \cup {e.id : e \in E} : \A e \in E : e.id <= n
  BY <1>2, <1>3
<1>5. L \in {0} \cup {e.id : e \in E} /\ \A e \in E : e.id <= L
  <2> HIDE DEF E
  <2> QED BY <1>4 DEF Atomic!Last, E
<1>6. Len(rs) \in Nat
  OBVIOUS
<1> QED BY <1>1, <1>5, <1>6

(* What the entries of some transactions move is what SUM(delta) finds.       *)
LEMMA SumIsTotal ==
  ASSUME NEW rs \in Seq(Row), NEW X, NEW u
  PROVE  Atomic!Sum(Records(rs, X), u) = Total(rs, u, X)
<1> DEFINE E == Records(rs, X)
<1> DEFINE L == Atomic!Last(E)
<1>1. L \in 0 .. Len(rs) /\ \A e \in E : e.id <= L
  BY LastId
<1>2. \A n \in 1 .. Len(rs) : Atomic!Moved(E, u, n) = Part(rs[n], u, X)
  <2> SUFFICES ASSUME NEW n \in 1 .. Len(rs)
               PROVE  Atomic!Moved(E, u, n) = Part(rs[n], u, X)
    OBVIOUS
  <2>1. \A e \in E : e.id = n => e = EntryRecord(rs, n) /\ rs[n].by \in X
    BY DEF Records, EntryRecord
  <2>2. rs[n].by \in X => EntryRecord(rs, n) \in E /\ EntryRecord(rs, n).id = n
    BY DEF Records, EntryRecord
  <2>3. EntryRecord(rs, n).user = rs[n].user /\ EntryRecord(rs, n).delta = rs[n].delta
    BY DEF EntryRecord
  <2>4. CASE rs[n].user = u /\ rs[n].by \in X
    <3>1. (CHOOSE e \in E : e.id = n) = EntryRecord(rs, n)
      <4> HIDE DEF E
      <4> QED BY <2>1, <2>2, <2>4
    <3>2. \E e \in E : e.id = n /\ e.user = u
      BY <2>2, <2>3, <2>4
    <3> HIDE DEF E
    <3> QED BY <2>3, <2>4, <3>1, <3>2 DEF Atomic!Moved, Part
  <2>5. CASE ~ (rs[n].user = u /\ rs[n].by \in X)
    <3>1. ~ \E e \in E : e.id = n /\ e.user = u
      BY <2>1, <2>3, <2>5
    <3> HIDE DEF E
    <3> QED BY <2>5, <3>1 DEF Atomic!Moved, Part
  <2> QED BY <2>4, <2>5
<1>3. \A n \in 1 .. Len(rs) : n > L => Part(rs[n], u, X) = 0
  <2> SUFFICES ASSUME NEW n \in 1 .. Len(rs), n > L, rs[n].by \in X PROVE FALSE
    BY DEF Part
  <2>1. EntryRecord(rs, n) \in E /\ EntryRecord(rs, n).id = n
    BY DEF Records, EntryRecord
  <2> HIDE DEF E
  <2> QED BY <1>1, <2>1
<1> HIDE DEF E, L
<1>4. Len(rs) \in Nat /\ L \in Nat /\ L <= Len(rs)
  BY <1>1
<1>5. PICK s : Runs(s, rs, u, X, Len(rs))
  BY RunsExists
<1>6. s[Len(rs)] = s[L]
  <2> DEFINE S == {k \in Nat : L <= k /\ k <= Len(rs) => s[k] = s[L]}
  <2>1. 0 \in S
    BY <1>4
  <2>2. ASSUME NEW k \in Nat, k \in S PROVE k + 1 \in S
    <3> SUFFICES ASSUME L <= k + 1, k + 1 <= Len(rs) PROVE s[k + 1] = s[L]
      OBVIOUS
    <3>1. CASE L = k + 1
      BY <3>1
    <3>2. CASE L # k + 1
      <4>1. k + 1 \in 1 .. Len(rs) /\ (k + 1) - 1 = k /\ k \in 0 .. Len(rs) /\ k + 1 > L
        BY <1>4, <3>2
      <4>2. s[k] = s[L] /\ s[k] \in Int
        BY <1>4, <1>5, <2>2, <3>2, <4>1 DEF Runs
      <4>3. s[k + 1] = s[k] + Part(rs[k + 1], u, X) /\ Part(rs[k + 1], u, X) = 0
        BY <1>3, <1>5, <4>1 DEF Runs
      <4> QED BY <4>2, <4>3
    <3> QED BY <3>1, <3>2
  <2>3. Len(rs) \in S
    <3> HIDE DEF S
    <3>1. Nat \subseteq S
      BY <2>1, <2>2, NatSetInduction
    <3> QED BY <1>4, <3>1
  <2> QED BY <1>4, <2>3
<1>7. Atomic!Sum(E, u) = s[L]
  <2> DEFINE Step(z) == [n \in 0 .. L |-> IF n = 0 THEN 0 ELSE z[n - 1] + Atomic!Moved(E, u, n)]
  <2> DEFINE c == CHOOSE z : z = Step(z)
  <2> DEFINE w == [n \in 0 .. L |-> s[n]]
  <2>1. w = Step(w)
    <3>1. \A n \in 0 .. L : w[n] = IF n = 0 THEN 0 ELSE w[n - 1] + Atomic!Moved(E, u, n)
      <4> SUFFICES ASSUME NEW n \in 0 .. L
                   PROVE  w[n] = IF n = 0 THEN 0 ELSE w[n - 1] + Atomic!Moved(E, u, n)
        OBVIOUS
      <4>1. CASE n = 0
        BY <1>5, <4>1 DEF Runs
      <4>2. CASE n # 0
        <5>1. n \in 1 .. Len(rs) /\ n - 1 \in 0 .. L
          BY <1>4, <4>2
        <5>2. s[n] = s[n - 1] + Atomic!Moved(E, u, n)
          BY <1>2, <1>5, <5>1 DEF Runs
        <5> QED BY <4>2, <5>1, <5>2
      <4> QED BY <4>1, <4>2
    <3>2. w = [n \in 0 .. L |-> w[n]]
      OBVIOUS
    <3> HIDE DEF w
    <3> QED BY <3>1, <3>2
  <2>2. c = Step(c)
    <3> HIDE DEF Step, w
    <3> QED BY <2>1
  <2>3. Atomic!Sum(E, u) = c[L]
    BY DEF Atomic!Sum, L
  <2> HIDE DEF c
  <2>4. \A n \in 0 .. L : c[n] = IF n = 0 THEN 0 ELSE c[n - 1] + Atomic!Moved(E, u, n)
    BY <2>2
  <2>5. \A n \in 0 .. L : w[n] = IF n = 0 THEN 0 ELSE w[n - 1] + Atomic!Moved(E, u, n)
    BY <2>1
  <2>6. w[L] = s[L]
    BY <1>4
  <2> HIDE DEF w
  <2> DEFINE S == {k \in Nat : k <= L => c[k] = w[k]}
  <2>7. 0 \in S
    <3>1. 0 \in 0 .. L
      BY <1>4
    <3>2. c[0] = 0 /\ w[0] = 0
      <4> HIDE DEF Step, S
      <4> QED BY <2>4, <2>5, <3>1
    <3> HIDE DEF Step
    <3> QED BY <3>2
  <2>8. ASSUME NEW k \in Nat, k \in S PROVE k + 1 \in S
    <3> SUFFICES ASSUME k + 1 <= L PROVE c[k + 1] = w[k + 1]
      OBVIOUS
    <3>1. k + 1 \in 0 .. L /\ (k + 1) - 1 = k /\ k + 1 # 0 /\ c[k] = w[k]
      BY <1>4, <2>8
    <3> QED BY <2>4, <2>5, <3>1
  <2>9. L \in S
    <3> HIDE DEF S
    <3>1. Nat \subseteq S
      BY <2>7, <2>8, NatSetInduction
    <3> QED BY <1>4, <3>1
  <2> QED BY <2>3, <2>6, <2>9, <1>4
<1> QED BY <1>5, <1>6, <1>7, TotalIsRun DEF E

(* The book as the ledger's rows hold it.                                     *)
Book == {EntryRecord(rows, i) : i \in Entries}
Points == [u \in Users |-> Balance(u)]

LEMMA BookIsRecords ==
  /\ LedgerTypeOK => Book = Records(rows, Committed)
  /\ LedgerTypeOK' => Book' = Records(rows', Committed')
<1>1. ASSUME LedgerTypeOK PROVE Entries = {n \in 1 .. Len(rows) : rows[n].by \in Committed}
  <2>1. \A n \in 1 .. Len(rows) : rows[n] \in Row
    BY <1>1 DEF LedgerTypeOK
  <2> QED BY <2>1 DEF Entries, Committed, Ids, Row
<1>2. ASSUME LedgerTypeOK'
      PROVE  Entries' = {n \in 1 .. Len(rows') : rows'[n].by \in Committed'}
  <2>1. \A n \in 1 .. Len(rows') : rows'[n] \in Row
    BY <1>2 DEF LedgerTypeOK
  <2> QED BY <2>1 DEF Entries, Committed, Ids, Row
<1> QED BY <1>1, <1>2 DEF Book, Records, EntryRecord

LEMMA PointsAreTotals ==
  /\ LedgerIInv => Points = [u \in Users |-> Total(rows, u, Committed)]
  /\ LedgerIInv' => Points' = [u \in Users |-> Total(rows, u, Committed)']
<1>1. LedgerIInv => \A u \in Users : Balance(u) = Total(rows, u, Committed)
  BY DEF LedgerIInv, BalanceRowsAddUp, RowAddsUp, Balance, Latest
<1>2. LedgerIInv' => \A u \in Users : Balance(u)' = Total(rows, u, Committed)'
  BY DEF LedgerIInv, BalanceRowsAddUp, RowAddsUp, Balance, Latest
<1> QED BY <1>1, <1>2 DEF Points

(* A step commits nothing, or it is the commit of one transaction.            *)
LEMMA StepCommits ==
  ASSUME LedgerIInv, [LedgerNext]_ledgerVars
  PROVE  \/ /\ Committed' = Committed
            /\ rows' = rows \/ \E r \in Row : r.by \notin Committed /\ rows' = Append(rows, r)
         \/ \E t \in Tx \ Committed : Committed' = Committed \cup {t} /\ rows' = rows
<1> USE DEF LedgerIInv
<1>0. clog \in [Xids -> Fates] /\ Tx \subseteq Xids
  BY DEF LedgerTypeOK, Xids
<1>1. CASE UNCHANGED <<clog, rows>>
  BY <1>1 DEF Committed, IsCommitted
<1>2. ASSUME NEW t \in Tx, Open(t) \/ Abort(t), UNCHANGED rows PROVE Committed' = Committed
  BY <1>0, <1>2 DEF Open, Begin, Abort, IsActive, Committed, IsCommitted
<1>3. ASSUME NEW t \in Tx, Close(t)
      PROVE  t \notin Committed /\ Committed' = Committed \cup {t} /\ rows' = rows
  BY <1>0, <1>3 DEF Close, Commit, IsActive, Committed, IsCommitted
<1>4. ASSUME NEW t \in Tx, Insert(t)
      PROVE  /\ Committed' = Committed
             /\ \E r \in Row : r.by \notin Committed /\ rows' = Append(rows, r)
  <2> DEFINE in == call[t].in
  <2> DEFINE r == [user |-> in.user, delta |-> in.delta, key |-> in.key,
                   reverses |-> in.reverses, by |-> t]
  <2>1. in \in Input /\ clog[t] = "active"
    BY <1>4, CallTypes DEF Insert, IsActive
  <2>2. r \in Row /\ r.by \notin Committed
    BY <1>0, <2>1 DEF Input, Row, Committed, IsCommitted
  <2>3. UNCHANGED clog /\ rows' = Append(rows, r)
    BY <1>4 DEF Insert
  <2> QED BY <2>2, <2>3 DEF Committed, IsCommitted
<1> QED BY <1>1, <1>2, <1>3, <1>4
        DEF LedgerNext, ledgerVars, Open, LockAhead, AppendEntry, ReverseEntry, AppendStep, Lock,
            Duplicate, Move, Refuse, Fail

(* Unless it commits, a step is not seen: neither the book nor the points move. *)
LEMMA UnseenStep ==
  ASSUME LedgerIInv, LedgerIInv', Committed' = Committed,
         rows' = rows \/ \E r \in Row : r.by \notin Committed /\ rows' = Append(rows, r)
  PROVE  UNCHANGED <<Book, Points>>
<1>1. rows \in Seq(Row) /\ LedgerTypeOK /\ LedgerTypeOK'
  BY DEF LedgerIInv, LedgerTypeOK
<1>2. CASE rows' = rows
  BY <1>1, <1>2, BookIsRecords, PointsAreTotals
<1>3. ASSUME NEW r \in Row, r.by \notin Committed, rows' = Append(rows, r)
      PROVE  UNCHANGED <<Book, Points>>
  <2>1. /\ Len(rows') = Len(rows) + 1 /\ Len(rows) \in Nat /\ rows'[Len(rows) + 1] = r
        /\ \A i \in 1 .. Len(rows) : rows'[i] = rows[i]
    BY <1>1, <1>3
  <2>2. \A i \in 1 .. Len(rows) : EntryRecord(rows', i) = EntryRecord(rows, i)
    BY <2>1 DEF EntryRecord
  <2>3. {n \in 1 .. Len(rows') : rows'[n].by \in Committed}
          = {n \in 1 .. Len(rows) : rows[n].by \in Committed}
    BY <1>3, <2>1
  <2>4. Records(rows', Committed) = Records(rows, Committed)
    BY <2>2, <2>3 DEF Records
  <2>5. \A u : Total(rows', u, Committed) = Total(rows, u, Committed)
    <3> TAKE u
    <3>1. Total(rows, u, Committed) \in Int /\ Part(r, u, Committed) = 0
      BY <1>1, <1>3, TotalType DEF Part
    <3> QED BY <1>1, <1>3, <3>1, TotalAppend
  <2>6. Book' = Book
    BY <1>1, <2>4, BookIsRecords
  <2>7. Points' = Points
    BY <2>5, PointsAreTotals
  <2> QED BY <2>6, <2>7
<1> QED BY <1>2, <1>3

(* A commit posts the transaction's entries, all of them, or is not seen.     *)
LEMMA CommitPosts ==
  ASSUME LedgerIInv, LedgerIInv', KeyAppliedOnce', ReversalCancelsOnce',
         NEW t \in Tx \ Committed, Committed' = Committed \cup {t}, rows' = rows,
         \A u \in Users :
           Balance(u)' < 0 /\ Balance(u)' < Balance(u) =>
             \E i \in Entries' \ Entries : rows[i].user = u /\ rows[i].reverses # NoEntry
  PROVE  Atomic!Next \/ UNCHANGED <<Book, Points>>
<1>1. rows \in Seq(Row) /\ LedgerTypeOK /\ LedgerTypeOK'
  BY DEF LedgerIInv, LedgerTypeOK
<1>2. /\ Book = Records(rows, Committed) /\ Book' = Records(rows, Committed \cup {t})
      /\ \A i, j : EntryRecord(rows, i) = EntryRecord(rows, j) => i = j
  <2>1. \A i : EntryRecord(rows, i).id = i
    BY DEF EntryRecord
  <2> QED BY <1>1, <2>1, BookIsRecords
<1>3. Book \subseteq Book' /\ Book' \ Book = Records(rows, {t})
  BY <1>2 DEF Records
<1>4. Points' = [u \in Users |-> Points[u] + Atomic!Sum(Book' \ Book, u)]
  <2>1. \A u : Total(rows, u, Committed \cup {t}) = Total(rows, u, Committed) + Total(rows, u, {t})
    BY <1>1, TotalUnion
  <2>2. \A u : Atomic!Sum(Book' \ Book, u) = Total(rows, u, {t})
    BY <1>1, <1>3, SumIsTotal
  <2>3. Points' = [u \in Users |-> Total(rows, u, Committed \cup {t})]
    BY PointsAreTotals
  <2>4. \A u \in Users : Points[u] = Total(rows, u, Committed)
    BY PointsAreTotals
  <2>5. \A u \in Users : Total(rows, u, Committed \cup {t})
                          = Points[u] + Atomic!Sum(Book' \ Book, u)
    BY <2>1, <2>2, <2>4
  <2> QED BY <2>3, <2>5
<1>5. CASE Book' \ Book = {}
  <2>1. Records(rows, {t}) = {}
    BY <1>3, <1>5
  <2>2. \A n \in 1 .. Len(rows) : rows[n].by \notin {t}
    BY <2>1 DEF Records
  <2>3. \A u \in Users : Total(rows, u, {t}) = 0 /\ Total(rows, u, Committed) \in Int
    BY <1>1, <2>2, TotalNone, TotalType
  <2>4. \A u : Atomic!Sum(Book' \ Book, u) = Total(rows, u, {t})
    BY <1>1, <1>3, SumIsTotal
  <2>5. \A u \in Users : Points[u] + Atomic!Sum(Book' \ Book, u) = Points[u]
    <3>1. \A u \in Users : Points[u] = Total(rows, u, Committed)
      BY PointsAreTotals
    <3>2. SUFFICES ASSUME NEW u \in Users
                   PROVE  Points[u] + Atomic!Sum(Book' \ Book, u) = Points[u]
      OBVIOUS
    <3>3. Atomic!Sum(Book' \ Book, u) = 0 /\ Points[u] \in Int
      BY <2>3, <2>4, <3>1
    <3> QED BY <3>3
  <2>6. Points' = [u \in Users |-> Points[u]]
    BY <1>4, <2>5
  <2>7. Points = [u \in Users |-> Points[u]]
    BY DEF Points
  <2> QED BY <1>3, <1>5, <2>6, <2>7
<1>6. CASE Book' \ Book # {}
  <2>1. Book' = {EntryRecord(rows, i) : i \in Entries'} /\ Entries' \subseteq Nat
    BY DEF Book, Entries, IsCommitted, Ids, EntryRecord
  <2>2. Atomic!DistinctKeys(Book')
    <3> SUFFICES ASSUME NEW i \in Entries', NEW j \in Entries',
                        EntryRecord(rows, i) # EntryRecord(rows, j)
                 PROVE  /\ EntryRecord(rows, i).id # EntryRecord(rows, j).id
                        /\ \/ EntryRecord(rows, i).key = NoKey
                           \/ EntryRecord(rows, i).key # EntryRecord(rows, j).key
      BY <2>1 DEF Atomic!DistinctKeys
    <3> QED BY DEF KeyAppliedOnce, EntryRecord
  <2>3. \A e \in Book' : e.reverses # NoEntry => Atomic!Mirrors(e, Book')
    <3> SUFFICES ASSUME NEW i \in Entries', rows[i].reverses # NoEntry
                 PROVE  Atomic!Mirrors(EntryRecord(rows, i), Book')
      BY <2>1 DEF EntryRecord
    <3> DEFINE o == rows[i].reverses
    <3>1. /\ o \in Entries' /\ rows[i].user = rows[o].user /\ rows[i].delta = -rows[o].delta
          /\ \A j \in Entries' \ {i} : rows[j].reverses # o
      BY DEF ReversalCancelsOnce
    <3>2. EntryRecord(rows, o) \in Book'
      BY <2>1, <3>1
    <3>3. /\ EntryRecord(rows, i).reverses = EntryRecord(rows, o).id
          /\ EntryRecord(rows, i).user = EntryRecord(rows, o).user
          /\ EntryRecord(rows, i).delta = -EntryRecord(rows, o).delta
      BY <3>1 DEF EntryRecord
    <3>4. \A f \in Book' : f # EntryRecord(rows, i) => f.reverses # EntryRecord(rows, i).reverses
      BY <2>1, <3>1 DEF EntryRecord
    <3> HIDE DEF o
    <3> QED BY <3>2, <3>3, <3>4 DEF Atomic!Mirrors
  <2>4. \A u \in Users : Points'[u] < 0 /\ Points'[u] < Points[u] =>
                           \E e \in Book' \ Book : e.user = u /\ e.reverses # NoEntry
    <3> SUFFICES ASSUME NEW u \in Users, Points'[u] < 0, Points'[u] < Points[u]
                 PROVE  \E e \in Book' \ Book : e.user = u /\ e.reverses # NoEntry
      OBVIOUS
    <3>1. PICK i \in Entries' \ Entries : rows[i].user = u /\ rows[i].reverses # NoEntry
      BY DEF Points
    <3>2. EntryRecord(rows, i) \in Book' \ Book
      BY <1>2, <2>1, <3>1 DEF Book
    <3> QED BY <3>1, <3>2 DEF EntryRecord
  <2> QED BY <1>3, <1>4, <1>6, <2>2, <2>3, <2>4 DEF Atomic!Next, Atomic!Post, Book, Points
<1> QED BY <1>5, <1>6

(* What readers are promised (AtomicLedger): a transaction's entries and the  *)
(* balances they move appear together, in one step, or not at all. So the     *)
(* statements of appendEntry, its locks, its waits and its rollbacks, for     *)
(* any number of transactions at once, are a book extended a step at a time.  *)
THEOREM LedgerIsImplemented == LedgerSpec => LedgerIsAtomic
<1>1. LedgerInit => Atomic!Init
  <2> SUFFICES ASSUME LedgerInit PROVE Atomic!Init
    OBVIOUS
  <2>1. rows = Opening /\ Opening \in Seq(Row) /\ LedgerIInv
    BY OpeningIsCommitted, InitInvariant DEF LedgerInit
  <2>2. Committed = {Setup}
    BY DEF LedgerInit, PgInit, Committed, IsCommitted, Xids
  <2>3. Book = {EntryRecord(Opening, i) : i \in 1 .. Len(Opening)}
    <3>1. Book = Records(rows, Committed)
      BY <2>1, BookIsRecords DEF LedgerIInv
    <3> QED BY <2>1, <2>2, <3>1, OpeningIsCommitted DEF Records
  <2>4. \A u : Atomic!Sum(Book, u) = Total(rows, u, Committed)
    BY <2>1, BookIsRecords, SumIsTotal DEF LedgerIInv
  <2> QED BY <2>1, <2>3, <2>4, PointsAreTotals DEF Atomic!Init, Book, Points
<1> DEFINE A == \A u \in Users :
                  Balance(u)' < 0 /\ Balance(u)' < Balance(u) =>
                    \E i \in Entries' \ Entries :
                       rows[i].user = u /\ rows[i].reverses # NoEntry
<1>2. ASSUME LedgerIInv, LedgerIInv', KeyAppliedOnce', ReversalCancelsOnce',
             [LedgerNext]_ledgerVars, [A]_ledgerVars
      PROVE  Atomic!Next \/ UNCHANGED <<Book, Points>>
  <2>1. CASE /\ Committed' = Committed
             /\ rows' = rows \/ \E r \in Row : r.by \notin Committed /\ rows' = Append(rows, r)
    BY <1>2, <2>1, UnseenStep
  <2>2. ASSUME NEW t \in Tx \ Committed, Committed' = Committed \cup {t}, rows' = rows
        PROVE  Atomic!Next \/ UNCHANGED <<Book, Points>>
    <3>1. A
      <4>1. ~ UNCHANGED ledgerVars
        BY <2>2 DEF ledgerVars, Committed, IsCommitted
      <4> QED BY <1>2, <4>1
    <3> QED BY <1>2, <2>2, <3>1, CommitPosts
  <2> QED BY <1>2, <2>1, <2>2, StepCommits
<1>3. OnlyClawbackGoesNegative <=> [][A]_ledgerVars
  BY DEF OnlyClawbackGoesNegative
<1>4. (Atomic!Next \/ UNCHANGED <<Book, Points>>)
        => [Atomic!Next]_<<{EntryRecord(rows, i) : i \in Entries}, [u \in Users |-> Balance(u)]>>
  BY DEF Book, Points
<1> HIDE DEF A
<1> QED BY <1>1, <1>2, <1>3, <1>4, LedgerInvariant, LedgerAppliesKeysOnce, LedgerReversesOnce,
           LedgerOnlyClawbackGoesNegative, PTL
        DEF LedgerSpec, LedgerIsAtomic, Atomic!Spec
=============================================================================
