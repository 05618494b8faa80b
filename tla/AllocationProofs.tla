--------------------------- MODULE AllocationProofs ---------------------------
(* Proofs about Allocation, for any number of calls, users, keys and rewards: *)
(* a key allocates to a user once, the first attempt under it leaves the      *)
(* user's points where they were, and what redemptions and the ledger promise *)
(* holds while allocations run.                                               *)
EXTENDS Allocation, RedemptionProofs

Jobs == [at : {"new"}]
  \cup [at : {"next", "credit", "crediting", "redeem", "redeeming", "undo", "undoing", "done",
              "dead"},
        key : IdemKeys, reward : Rewards, left : SUBSET Users, user : Users, credit : Nat]
JobTypes == /\ job \in [Allocations -> Jobs]
            /\ outcome \in [Allocations -> [Users -> {"none", "ALLOCATED", "FAILED"}]]

\* Where a call is with the user it serves.
Serving(a, u, stages) == job[a].at \in stages /\ job[a].user = u

CreditId(r) == call[creditTx(r)].id
CreditOf(a, u) == [user |-> u, delta |-> Cost[job[a].reward],
                   key |-> AdminKey(job[a].key, u), reverses |-> NoEntry]
UndoOf(a, u) == LET i == CreditId(<<a, u>>) IN
                [user |-> rows[i].user, delta |-> -rows[i].delta,
                 key |-> ReversalKey(i), reverses |-> i]

\* Another call has credited, or tried to credit, the same user under the same key.
Contested(a, u) == \E b \in Allocations \ {a} : b \in Attempts(job[a].key, u)
IsCredit(i, k, u) == /\ i \in Ids /\ rows[i].key = AdminKey(k, u)
                     /\ \E b \in Allocations : rows[i].by = creditTx(<<b, u>>)

\* The credit is the call's own, or that of an earlier call under the key.
Credited(a, u) ==
  /\ IsCredit(CreditId(<<a, u>>), job[a].key, u)
  /\ \/ Wrote(creditTx(<<a, u>>), CreditOf(a, u))
     \/ Own(creditTx(<<a, u>>)) = {} /\ Contested(a, u)
Undid(a, u) == \/ Wrote(undoTx(<<a, u>>), UndoOf(a, u))
               \/ Own(undoTx(<<a, u>>)) = {} /\ Contested(a, u)

GrantFits(a, u) ==
  LET r == <<a, u>>  C == creditTx(r)  N == undoTx(r) IN
  /\ clog[C] # "new" => job[a].at # "new"
  /\ clog[C] = "active" => Serving(a, u, {"credit", "crediting"})
  /\ Serving(a, u, {"credit"}) => clog[C] = "active" /\ Own(C) = {} /\ call[C].at = "idle"
  /\ Serving(a, u, {"crediting"}) =>
       /\ clog[C] = "active"
       /\ Appending(C, CreditOf(a, u)) \/ (call[C].at = "done" /\ Credited(a, u))
  /\ clog[C] = "committed" => Credited(a, u)
  /\ Serving(a, u, {"redeem", "redeeming", "undo", "undoing"}) =>
       clog[C] = "committed" /\ job[a].credit = CreditId(r)
  /\ Pursued(r) => /\ clog[C] = "committed" /\ req[r].user = u
                   /\ req[r].key = job[a].key /\ req[r].reward = job[a].reward
  /\ clog[N] # "new" => req[r].at = "done" /\ answer[r].status \in {"refused", "error"}
  /\ clog[N] = "active" => Serving(a, u, {"undo", "undoing"})
  /\ Serving(a, u, {"undo"}) => clog[N] = "active" /\ Own(N) = {} /\ call[N].at = "idle"
  /\ Serving(a, u, {"undoing"}) =>
       /\ clog[N] = "active"
       /\ Appending(N, UndoOf(a, u)) \/ (call[N].at = "done" /\ Undid(a, u))
  /\ clog[N] = "committed" => Undid(a, u)
  /\ outcome[a][u] # "none" =>
       req[r].at = "done" /\ (answer[r].status \in {"refused", "error"} => clog[N] = "committed")

RowsOwned ==
  \A i \in Ids : \/ rows[i].by = Setup /\ rows[i].key = NoKey
                 \/ \E r \in Requests : rows[i].by \in TxsOf(r)
AllocationIInv == /\ RedemptionIInv /\ StockIInv /\ EntriesIInv /\ JobTypes /\ RowsOwned
                  /\ \A a \in Allocations, u \in Users : GrantFits(a, u)

USE SetupIsNotATx
-----------------------------------------------------------------------------
(* Transactions of grants, and the shapes of their state.                    *)

LEMMA GrantTypes ==
  ASSUME NEW a \in Allocations, NEW u \in Users, NEW r, r = <<a, u>>
  PROVE  /\ r \in Requests /\ creditTx(r) \in Tx /\ undoTx(r) \in Tx
         /\ creditTx(r) \in Xids /\ undoTx(r) \in Xids /\ creditTx(r) # undoTx(r)
         /\ creditTx(r) # Setup /\ undoTx(r) # Setup
<1>1. r \in Requests /\ creditTx(r) \in Tx /\ undoTx(r) \in Tx
  BY GrantsAreRequests DEF Grants
<1> QED BY <1>1 DEF Xids, creditTx, undoTx

\* No two transactions of grants are the same.
LEMMA TxsDiffer ==
  ASSUME NEW q, NEW r
  PROVE  /\ creditTx(r) \notin PhaseTxs(q) /\ undoTx(r) \notin PhaseTxs(q)
         /\ creditTx(r) # undoTx(q)
         /\ creditTx(r) = creditTx(q) => r = q
         /\ undoTx(r) = undoTx(q) => r = q
         /\ reserveTx(r) = reserveTx(q) => r = q
         /\ settleTx(r) = settleTx(q) => r = q
         /\ reserveTx(r) # settleTx(q)
BY DEF PhaseTxs, creditTx, undoTx, reserveTx, settleTx

LEMMA GrantOf ==
  ASSUME NEW r \in Requests
  PROVE  \E a \in Allocations, u \in Users : r = <<a, u>>
BY GrantsAreRequests DEF Grants

LEMMA JobFields ==
  ASSUME JobTypes, NEW a \in Allocations, job[a].at # "new"
  PROVE  /\ job[a].key \in IdemKeys /\ job[a].reward \in Rewards /\ job[a].user \in Users
         /\ job[a].credit \in Nat /\ Cost[job[a].reward] \in Nat \ {0}
         /\ Cost[job[a].reward] \in Deltas
         /\ \A u \in Users : AdminKey(job[a].key, u) \in EventKeys
<1>1. job[a] \in Jobs
  BY DEF JobTypes
<1>2. /\ job[a].key \in IdemKeys /\ job[a].reward \in Rewards /\ job[a].user \in Users
      /\ job[a].credit \in Nat
  BY <1>1 DEF Jobs
<1> QED BY <1>2, CostsArePositive, CreditsAreDeltas, AdminKeysAreEventKeys

JobStages == {"next", "credit", "crediting", "redeem", "redeeming", "undo", "undoing", "done",
              "dead"}

\* An UPDATE of a job that stays what it was asked to do.
LEMMA JobStep ==
  ASSUME JobTypes, NEW a \in Allocations, job[a].at # "new", NEW at \in JobStages, Step(a, at)
  PROVE  /\ job'[a].at = at /\ job'[a].key = job[a].key /\ job'[a].reward = job[a].reward
         /\ job'[a].user = job[a].user /\ job'[a].credit = job[a].credit
         /\ \A b \in Allocations \ {a} : job'[b] = job[b]
         /\ job' \in [Allocations -> Jobs]
<1>1. job \in [Allocations -> Jobs] /\ job[a] \in Jobs
  BY DEF JobTypes
<1>2. job' = [job EXCEPT ![a] = [job[a] EXCEPT !.at = at]]
  BY <1>1 DEF Step
<1>3. /\ job[a] \in [at : JobStages, key : IdemKeys, reward : Rewards, left : SUBSET Users,
                      user : Users, credit : Nat]
  BY <1>1 DEF Jobs, JobStages
<1>4. [job[a] EXCEPT !.at = at] \in Jobs
  BY <1>3 DEF Jobs, JobStages
<1> QED BY <1>1, <1>2, <1>3, <1>4

-----------------------------------------------------------------------------
(* What a step for one grant leaves alone.                                   *)

Serves == {"credit", "crediting", "redeem", "redeeming", "undo", "undoing"}
JobKept(b) == job[b].at # "new" => /\ job'[b].at # "new" /\ job'[b].key = job[b].key
                                   /\ job'[b].reward = job[b].reward

GrantStep(a, u) ==
  LET r == <<a, u>> IN
  /\ \E t \in TxsOf(r) : LedgerTouch(t)
  /\ \A x \in Xids \ TxsOf(r) : clog'[x] = clog[x]
  /\ \A q \in Requests \ {r} : req'[q] = req[q] /\ answer'[q] = answer[q]
  /\ \A b \in Allocations \ {a} : job'[b] = job[b]
  /\ job[a].at # "new" /\ JobKept(a)
  /\ \A v \in Users \ {u} : ~ Serving(a, v, Serves) /\ ~ Serving(a, v, Serves)'
  /\ \A b \in Allocations, v \in Users : <<b, v>> # r => outcome'[b][v] = outcome[b][v]

LEMMA ContestedStays ==
  ASSUME Decided, \A b \in Allocations : JobKept(b), NEW a \in Allocations, NEW u \in Users,
         job[a].at # "new", Contested(a, u)
  PROVE  Contested(a, u)'
<1>1. PICK b \in Allocations \ {a} : b \in Attempts(job[a].key, u)
  BY DEF Contested
<1>2. clog'[creditTx(<<b, u>>)] # "new"
  <2>1. creditTx(<<b, u>>) \in Xids
    BY GrantTypes
  <2> QED BY <1>1, <2>1 DEF Attempts, Decided
<1>3. b \in Attempts(job[a].key, u)'
  BY <1>1, <1>2 DEF Attempts, JobKept
<1> QED BY <1>1, <1>3 DEF Contested, JobKept

LEMMA IsCreditStays ==
  ASSUME Grown, NEW i, NEW k, NEW u, IsCredit(i, k, u) PROVE IsCredit(i, k, u)'
BY DEF Grown, IsCredit

\* What a transaction wrote stays written as long as its call stands.
LEMMA WroteStays ==
  ASSUME Grown, NEW t, NEW in, Wrote(t, in), call'[t] = call[t], Own(t)' = Own(t)
  PROVE  Wrote(t, in)'
BY DEF Grown, Wrote

LEMMA AppendingStays ==
  ASSUME Grown, NEW t, NEW in, Appending(t, in), call'[t] = call[t], Own(t)' = Own(t)
  PROVE  Appending(t, in)'
BY WroteStays DEF Appending

LEMMA CreditedStays ==
  ASSUME Decided, Grown, \A b \in Allocations : JobKept(b), NEW a \in Allocations,
         NEW u \in Users, job[a].at # "new", NEW C, C = creditTx(<<a, u>>),
         call'[C] = call[C], Own(C)' = Own(C), Credited(a, u)
  PROVE  Credited(a, u)'
<1>1. CreditOf(a, u)' = CreditOf(a, u) /\ job'[a].key = job[a].key
  BY DEF JobKept, CreditOf
<1>2. CreditId(<<a, u>>)' = CreditId(<<a, u>>)
  BY DEF CreditId
<1>3. IsCredit(CreditId(<<a, u>>), job[a].key, u)'
  <2> DEFINE i == CreditId(<<a, u>>)
             k == job[a].key
  <2>1. IsCredit(i, k, u)
    BY DEF Credited
  <2>2. PICK j, l : j = i /\ l = k
    OBVIOUS
  <2>3. IsCredit(j, l, u)'
    BY <2>1, <2>2, IsCreditStays
  <2> QED BY <1>1, <1>2, <2>2, <2>3 DEF IsCredit
<1>4. Wrote(C, CreditOf(a, u)) => Wrote(C, CreditOf(a, u))'
  <2>1. PICK in : in = CreditOf(a, u)
    OBVIOUS
  <2>2. Wrote(C, in) => Wrote(C, in)'
    BY WroteStays
  <2> QED BY <1>1, <2>1, <2>2 DEF Wrote
<1>5. Contested(a, u) => Contested(a, u)'
  BY ContestedStays
<1> QED BY <1>3, <1>4, <1>5 DEF Credited

\* A reversal stays that of the credit.
LEMMA UndidStays ==
  ASSUME Decided, Grown, \A b \in Allocations : JobKept(b), NEW a \in Allocations,
         NEW u \in Users, job[a].at # "new", NEW C, C = creditTx(<<a, u>>),
         call'[C] = call[C], CreditId(<<a, u>>) \in Ids, NEW N, N = undoTx(<<a, u>>),
         call'[N] = call[N], Own(N)' = Own(N)
  PROVE  /\ UndoOf(a, u)' = UndoOf(a, u)
         /\ Undid(a, u) => Undid(a, u)'
         /\ Appending(N, UndoOf(a, u)) => Appending(N, UndoOf(a, u))'
<1>1. UndoOf(a, u)' = UndoOf(a, u)
  <2>1. CreditId(<<a, u>>)' = CreditId(<<a, u>>)
    BY DEF CreditId
  <2> QED BY <2>1 DEF UndoOf, Grown
<1>2. PICK in : in = UndoOf(a, u)
  OBVIOUS
<1>3. Wrote(N, UndoOf(a, u)) => Wrote(N, UndoOf(a, u))'
  <2>1. Wrote(N, in) => Wrote(N, in)'
    BY WroteStays
  <2> QED BY <1>1, <1>2, <2>1 DEF Wrote
<1>4. Appending(N, UndoOf(a, u)) => Appending(N, UndoOf(a, u))'
  <2>1. Appending(N, in) => Appending(N, in)'
    BY AppendingStays
  <2> QED BY <1>1, <1>2, <2>1 DEF Appending, Wrote
<1>5. Contested(a, u) => Contested(a, u)'
  BY ContestedStays
<1> QED BY <1>1, <1>3, <1>4, <1>5 DEF Undid

\* A grant whose own transactions, request and report are left alone.
LEMMA FrameFits ==
  ASSUME Decided, Grown, \A b \in Allocations : JobKept(b), NEW a \in Allocations,
         NEW u \in Users, GrantFits(a, u), NEW r, r = <<a, u>>,
         NEW C, C = creditTx(r), NEW N, N = undoTx(r),
         call'[C] = call[C], Own(C)' = Own(C), clog'[C] = clog[C],
         call'[N] = call[N], Own(N)' = Own(N), clog'[N] = clog[N],
         req'[r] = req[r], answer'[r] = answer[r], outcome'[a][u] = outcome[a][u],
         \/ job'[a] = job[a]
         \/ job[a].at # "new" /\ ~ Serving(a, u, Serves) /\ ~ Serving(a, u, Serves)'
  PROVE  GrantFits(a, u)'
<1>1. CASE job[a].at = "new"
  <2>1. clog[C] = "new" /\ ~ Pursued(r) /\ clog[N] = "new" /\ outcome[a][u] = "none"
    BY <1>1 DEF GrantFits, Pursued
  <2>2. job'[a] = job[a]
    BY <1>1
  <2> QED BY <1>1, <2>1, <2>2 DEF GrantFits, Serving, Pursued
<1>2. CASE job[a].at # "new"
  <2>1. JobKept(a)
    OBVIOUS
  <2>2. Credited(a, u) => Credited(a, u)'
    BY <1>2, CreditedStays
  <2>3. Appending(C, CreditOf(a, u)) => Appending(C, CreditOf(a, u))'
    <3>1. PICK in : in = CreditOf(a, u) /\ in = CreditOf(a, u)'
      BY <1>2, <2>1 DEF CreditOf, JobKept
    <3>2. Appending(C, in) => Appending(C, in)'
      BY AppendingStays
    <3> QED BY <3>1, <3>2 DEF Appending, Wrote
  <2>4. clog[C] = "committed" =>
          /\ UndoOf(a, u)' = UndoOf(a, u)
          /\ Undid(a, u) => Undid(a, u)'
          /\ Appending(N, UndoOf(a, u)) => Appending(N, UndoOf(a, u))'
    <3> HAVE clog[C] = "committed"
    <3>1. CreditId(<<a, u>>) \in Ids
      BY DEF GrantFits, Credited, IsCredit
    <3> QED BY <1>2, <3>1, UndidStays
  <2>5. clog[N] # "new" => clog[C] = "committed"
    BY DEF GrantFits, Pursued
  <2>6. Pursued(r)' = Pursued(r) /\ CreditId(r)' = CreditId(r)
    BY DEF Pursued, CreditId
  <2>7. CASE job'[a] = job[a]
    <3>1. \A X : Serving(a, u, X)' = Serving(a, u, X)
      BY <2>7 DEF Serving
    <3>2. Serving(a, u, {"undoing"}) => clog[C] = "committed"
      BY DEF GrantFits, Serving
    <3>3. GrantFits(a, u)
      OBVIOUS
    <3> QED BY <2>2, <2>3, <2>4, <2>5, <2>6, <2>7, <3>1, <3>2, <3>3 DEF GrantFits
  <2>8. CASE ~ Serving(a, u, Serves) /\ ~ Serving(a, u, Serves)'
    <3>1. \A X \in SUBSET Serves : ~ Serving(a, u, X) /\ ~ Serving(a, u, X)'
      BY <2>8 DEF Serving
    <3>2. /\ {"credit", "crediting"} \in SUBSET Serves /\ {"credit"} \in SUBSET Serves
          /\ {"crediting"} \in SUBSET Serves /\ {"undo", "undoing"} \in SUBSET Serves
          /\ {"redeem", "redeeming", "undo", "undoing"} \in SUBSET Serves
          /\ {"undo"} \in SUBSET Serves /\ {"undoing"} \in SUBSET Serves
      BY DEF Serves
    <3> HIDE DEF Serves
    <3>3. GrantFits(a, u)
      OBVIOUS
    <3> QED BY <1>2, <2>1, <2>2, <2>4, <2>5, <2>6, <3>1, <3>2, <3>3 DEF GrantFits, JobKept
  <2> QED BY <2>7, <2>8
<1> QED BY <1>1, <1>2

LEMMA OtherGrants ==
  ASSUME AllocationIInv, Decided, Grown, NEW a \in Allocations, NEW u \in Users,
         GrantStep(a, u), NEW b \in Allocations, NEW v \in Users, <<b, v>> # <<a, u>>
  PROVE  GrantFits(b, v)'
<1>1. PICK r, q, C, N : r = <<a, u>> /\ q = <<b, v>> /\ C = creditTx(q) /\ N = undoTx(q)
  OBVIOUS
<1>2. C \notin TxsOf(r) /\ N \notin TxsOf(r) /\ C \in Xids /\ N \in Xids
  BY <1>1, TxsDiffer, GrantTypes DEF TxsOf, PhaseTxs
<1>3. \A c \in Allocations : JobKept(c)
  BY DEF GrantStep, JobKept
<1>4. PICK t \in TxsOf(r) : LedgerTouch(t)
  BY <1>1 DEF GrantStep
<1>5. call'[C] = call[C] /\ Own(C)' = Own(C) /\ call'[N] = call[N] /\ Own(N)' = Own(N)
  <2>1. C # t /\ N # t /\ C \in Tx /\ N \in Tx
    BY <1>1, <1>2, <1>4, GrantTypes
  <2> QED BY <1>4, <2>1, OwnKept DEF LedgerTouch
<1>6. clog'[C] = clog[C] /\ clog'[N] = clog[N]
  BY <1>1, <1>2 DEF GrantStep
<1>7. req'[q] = req[q] /\ answer'[q] = answer[q] /\ outcome'[b][v] = outcome[b][v]
  <2>1. q \in Requests \ {r}
    BY <1>1, GrantTypes
  <2> QED BY <1>1, <2>1 DEF GrantStep
<1>8. \/ job'[b] = job[b]
      \/ job[b].at # "new" /\ ~ Serving(b, v, Serves) /\ ~ Serving(b, v, Serves)'
  <2>1. CASE b # a
    BY <2>1 DEF GrantStep
  <2>2. CASE b = a
    <3>1. v \in Users \ {u}
      BY <2>2
    <3> QED BY <2>2, <3>1 DEF GrantStep
  <2> QED BY <2>1, <2>2
<1>9. GrantFits(b, v)
  BY DEF AllocationIInv
<1> QED BY <1>1, <1>3, <1>5, <1>6, <1>7, <1>8, <1>9, FrameFits

-----------------------------------------------------------------------------
(* Whoever has an entry in the books wrote the one it was asked for.         *)

Live(t) == clog[t] \in {"active", "committed"}

LEMMA LiveCredit ==
  ASSUME AllocationIInv, NEW a \in Allocations, NEW u \in Users, NEW C, C = creditTx(<<a, u>>),
         Live(C), Own(C) # {}
  PROVE  Wrote(C, CreditOf(a, u)) /\ job[a].at # "new"
<1>1. GrantFits(a, u)
  BY DEF AllocationIInv
<1>2. CASE clog[C] = "committed"
  BY <1>1, <1>2 DEF GrantFits, Credited
<1>3. CASE clog[C] = "active"
  <2>1. Serving(a, u, {"crediting"})
    BY <1>1, <1>3 DEF GrantFits, Serving
  <2> QED BY <1>1, <1>3, <2>1 DEF GrantFits, Credited, Appending
<1> QED BY <1>2, <1>3 DEF Live

LEMMA LiveUndo ==
  ASSUME AllocationIInv, NEW a \in Allocations, NEW u \in Users, NEW N, N = undoTx(<<a, u>>),
         Live(N), Own(N) # {}
  PROVE  Wrote(N, UndoOf(a, u))
<1>1. GrantFits(a, u)
  BY DEF AllocationIInv
<1>2. CASE clog[N] = "committed"
  BY <1>1, <1>2 DEF GrantFits, Undid
<1>3. CASE clog[N] = "active"
  <2>1. Serving(a, u, {"undoing"})
    BY <1>1, <1>3 DEF GrantFits, Serving
  <2> QED BY <1>1, <1>3, <2>1 DEF GrantFits, Undid, Appending
<1> QED BY <1>2, <1>3 DEF Live

LEMMA LiveDebit ==
  ASSUME AllocationIInv, NEW r \in Requests, Live(reserveTx(r)), Own(reserveTx(r)) # {}
  PROVE  Debited(r)
<1>1. EntryFits(r)
  BY DEF AllocationIInv, EntriesIInv
<1> QED BY <1>1 DEF EntryFits, Debiting, Debited, Appending, Live

LEMMA LiveRefund ==
  ASSUME AllocationIInv, NEW r \in Requests, Live(settleTx(r)), Own(settleTx(r)) # {}
  PROVE  Refunded(r) /\ Debited(r)
<1>1. EntryFits(r) /\ StageFits(r) /\ (Pursued(r) => req[r] \in Pursuits)
  BY ReqTypes DEF AllocationIInv, EntriesIInv, RedemptionIInv
<1>2. Debited(r)
  BY <1>1 DEF EntryFits, Live
<1>3. CASE clog[settleTx(r)] = "committed"
  BY <1>1, <1>2, <1>3 DEF EntryFits
<1>4. CASE clog[settleTx(r)] = "active"
  <2>1. req[r].at \in Settling
    BY <1>1, <1>4 DEF StageFits, Pursued, Pursuits, Working
  <2> QED BY <1>1, <1>2, <2>1 DEF EntryFits, Settling, Refunding, Refunded, Appending
<1> QED BY <1>3, <1>4 DEF Live

LEMMA AdminKeyIsIts ==
  ASSUME NEW k \in IdemKeys, NEW u \in Users
  PROVE  /\ AdminKey(k, u) \in EventKeys /\ AdminKey(k, u) # NoKey
         /\ \A i \in Nat : AdminKey(k, u) # ReversalKey(i)
         /\ \A l, v : AdminKey(l, v) = AdminKey(k, u) => l = k /\ v = u
<1>1. AdminKey(k, u) \in EventKeys
  BY AdminKeysAreEventKeys
<1>2. \A i \in Nat : ReversalKey(i) \in {"reversal"} \X Nat
  BY DEF ReversalKey
<1>3. \A l, v : AdminKey(l, v) = AdminKey(k, u) => l = k /\ v = u
  BY DEF AdminKey
<1> QED BY <1>1, <1>2, <1>3, EventKeysAreNotReversals

\* The transaction of an entry in the books, and what it wrote.
LEMMA LiveEntry ==
  ASSUME AllocationIInv, NEW j \in Ids, Live(rows[j].by), rows[j].key # NoKey
  PROVE  \E b \in Allocations, v \in Users :
           LET q == <<b, v>> IN
           \/ rows[j].by = creditTx(q) /\ Wrote(creditTx(q), CreditOf(b, v)) /\ job[b].at # "new"
           \/ rows[j].by = settleTx(q) /\ Refunded(q) /\ Debited(q)
           \/ rows[j].by = undoTx(q) /\ Wrote(undoTx(q), UndoOf(b, v))
<1>1. PICK q \in Requests : rows[j].by \in TxsOf(q)
  BY DEF AllocationIInv, RowsOwned
<1>2. PICK b \in Allocations, v \in Users : q = <<b, v>>
  BY GrantOf
<1>3. PICK t \in TxsOf(q) : rows[j].by = t /\ Live(t) /\ j \in Own(t)
  BY <1>1 DEF Own
<1>4. CASE t = creditTx(q)
  BY <1>2, <1>3, <1>4, LiveCredit
<1>5. CASE t = undoTx(q)
  BY <1>2, <1>3, <1>5, LiveUndo
<1>6. CASE t = settleTx(q)
  BY <1>2, <1>3, <1>6, LiveRefund
<1>7. CASE t = reserveTx(q)
  <2>1. Debited(q)
    BY <1>3, <1>7, LiveDebit
  <2>2. rows[j].key = NoKey
    BY <1>3, <1>7, <2>1 DEF Debited, Wrote, DebitOf
  <2> QED BY <2>2
<1> QED BY <1>3, <1>4, <1>5, <1>6, <1>7 DEF TxsOf

\* Only credits of calls with the key hold it.
LEMMA CreditHolder ==
  ASSUME AllocationIInv, NEW k \in IdemKeys, NEW u \in Users, NEW j \in Holders(AdminKey(k, u))
  PROVE  /\ IsCredit(j, k, u)
         /\ \E b \in Attempts(k, u) : rows[j].by = creditTx(<<b, u>>)
                                     /\ j \in Own(creditTx(<<b, u>>))
<1>1. j \in Ids /\ rows[j].key = AdminKey(k, u) /\ Live(rows[j].by) /\ rows[j].key # NoKey
  BY DEF Holders, Live
<1>2. PICK b \in Allocations, v \in Users :
           LET q == <<b, v>> IN
           \/ rows[j].by = creditTx(q) /\ Wrote(creditTx(q), CreditOf(b, v)) /\ job[b].at # "new"
           \/ rows[j].by = settleTx(q) /\ Refunded(q) /\ Debited(q)
           \/ rows[j].by = undoTx(q) /\ Wrote(undoTx(q), UndoOf(b, v))
  BY <1>1, LiveEntry
<1>3. PICK q : q = <<b, v>> /\ q \in Requests
  BY GrantTypes
<1>4. ASSUME NEW i \in Nat, rows[j].key = ReversalKey(i) PROVE FALSE
  BY <1>1, <1>4, AdminKeyIsIts
<1>5. CASE rows[j].by = settleTx(q) /\ Refunded(q) /\ Debited(q)
  <2>1. rows[j].key = ReversalKey(DebitId(q)) /\ DebitId(q) \in Nat
    BY <1>1, <1>5 DEF Refunded, Debited, Wrote, RefundOf, DebitId, Own, Ids
  <2> QED BY <1>4, <2>1
<1>6. CASE rows[j].by = undoTx(q) /\ Wrote(undoTx(q), UndoOf(b, v))
  <2>1. rows[j].key = ReversalKey(CreditId(q))
    BY <1>1, <1>3, <1>6 DEF Wrote, UndoOf, Own
  <2>2. clog[undoTx(q)] # "new" => clog[creditTx(q)] = "committed"
    BY <1>3 DEF AllocationIInv, GrantFits, Pursued
  <2>3. CreditId(q) \in Nat
    BY <1>1, <1>3, <1>6, <2>2 DEF Live, AllocationIInv, GrantFits, Credited, IsCredit, Ids
  <2> QED BY <1>4, <2>1, <2>3
<1>7. CASE rows[j].by = creditTx(q) /\ Wrote(creditTx(q), CreditOf(b, v)) /\ job[b].at # "new"
  <2>1. rows[j].key = AdminKey(job[b].key, v) /\ j \in Own(creditTx(q))
    BY <1>1, <1>7 DEF Wrote, CreditOf, Own
  <2>2. job[b].key = k /\ v = u
    BY <1>1, <2>1 DEF AdminKey
  <2>3. b \in Attempts(k, u)
    BY <1>1, <1>3, <1>7, <2>2 DEF Attempts, Live
  <2> QED BY <1>1, <1>3, <1>7, <2>1, <2>2, <2>3 DEF IsCredit
<1> QED BY <1>2, <1>3, <1>5, <1>6, <1>7

\* Only calls with the key of a credit reverse it.
LEMMA ReversalHolder ==
  ASSUME AllocationIInv, NEW k \in IdemKeys, NEW u \in Users, NEW i, IsCredit(i, k, u),
         NEW j \in Holders(ReversalKey(i))
  PROVE  \E c \in Attempts(k, u) : j \in Own(undoTx(<<c, u>>)) /\ CreditId(<<c, u>>) = i
<1>1. j \in Ids /\ rows[j].key = ReversalKey(i) /\ Live(rows[j].by) /\ rows[j].key # NoKey
      /\ i \in Ids /\ i \in Nat
  BY DEF Holders, Live, IsCredit, Ids
<1>2. PICK b \in Allocations, v \in Users :
           LET q == <<b, v>> IN
           \/ rows[j].by = creditTx(q) /\ Wrote(creditTx(q), CreditOf(b, v)) /\ job[b].at # "new"
           \/ rows[j].by = settleTx(q) /\ Refunded(q) /\ Debited(q)
           \/ rows[j].by = undoTx(q) /\ Wrote(undoTx(q), UndoOf(b, v))
  BY <1>1, LiveEntry
<1>3. PICK q : q = <<b, v>> /\ q \in Requests
  BY GrantTypes
<1>4. CASE rows[j].by = creditTx(q) /\ Wrote(creditTx(q), CreditOf(b, v)) /\ job[b].at # "new"
  <2>1. rows[j].key = AdminKey(job[b].key, v) /\ job[b].key \in IdemKeys
    BY <1>1, <1>4, JobFields DEF Wrote, CreditOf, Own, AllocationIInv
  <2> QED BY <1>1, <2>1, AdminKeyIsIts
<1>5. CASE rows[j].by = settleTx(q) /\ Refunded(q) /\ Debited(q)
  <2>1. rows[j].key = ReversalKey(DebitId(q)) /\ rows[DebitId(q)].by = reserveTx(q)
    BY <1>1, <1>5 DEF Refunded, Debited, Wrote, RefundOf, DebitId, Own, Ids
  <2>2. DebitId(q) = i
    BY <1>1, <2>1 DEF ReversalKey
  <2>3. reserveTx(q) \in PhaseTxs(q)
    BY DEF PhaseTxs
  <2> QED BY <2>1, <2>2, <2>3, TxsDiffer DEF IsCredit
<1>6. CASE rows[j].by = undoTx(q) /\ Wrote(undoTx(q), UndoOf(b, v))
  <2>1. rows[j].key = ReversalKey(CreditId(q)) /\ j \in Own(undoTx(q))
    BY <1>1, <1>3, <1>6 DEF Wrote, UndoOf, Own
  <2>2. CreditId(q) = i
    BY <1>1, <2>1 DEF ReversalKey
  <2>3. clog[undoTx(q)] # "new" => clog[creditTx(q)] = "committed"
    BY <1>3 DEF AllocationIInv, GrantFits, Pursued
  <2>4. clog[creditTx(q)] = "committed" /\ job[b].at # "new"
    BY <1>1, <1>3, <1>6, <2>3 DEF Live, AllocationIInv, GrantFits
  <2>5. IsCredit(i, job[b].key, v)
    BY <1>3, <2>2, <2>4 DEF AllocationIInv, GrantFits, Credited
  <2>6. job[b].key = k /\ v = u
    BY <2>5 DEF IsCredit, AdminKey
  <2>7. b \in Attempts(k, u)
    BY <1>3, <2>4, <2>6 DEF Attempts
  <2> QED BY <1>3, <2>1, <2>2, <2>6, <2>7
<1> QED BY <1>2, <1>3, <1>4, <1>5, <1>6

-----------------------------------------------------------------------------
(* Steps of transactions that no request of redeem() has opened.             *)

Aside(t) == /\ UNCHANGED ownVars
            /\ \A q \in Requests : t \notin PhaseTxs(q)
            /\ \A x \in Xids \ {t} : clog'[x] = clog[x]
            /\ clog'[t] = clog[t] \/ clog[t] \in {"new", "active"}

\* Nobody's row was written by such a transaction, or it was long ago.
LEMMA AsideWriter ==
  ASSUME NEW t, Aside(t), NEW x \in Xids, clog[x] # "new",
         IsActive(x) => \E q \in Requests : x \in PhaseTxs(q)
  PROVE  clog'[x] = clog[x]
BY DEF Aside, IsActive

LEMMA AsideSeen ==
  ASSUME RedemptionIInv, NEW t, Aside(t), NEW s \in Slots
  PROVE  redemptions'[s] = redemptions[s] /\ clog'[redemptions[s].by] = clog[redemptions[s].by]
<1>1. redemptions[s].by \in Xids
  BY DEF RedemptionIInv, RedemptionTypeOK, Slots, Cell
<1>2. RowFits(s) /\ UNCHANGED redemptions
  BY DEF RedemptionIInv, Aside, ownVars
<1>3. IsActive(redemptions[s].by) => \E q \in Requests : redemptions[s].by \in PhaseTxs(q)
  BY <1>2 DEF RowFits, Writing, PhaseTxs
<1> QED BY <1>1, <1>2, <1>3, AsideWriter DEF RowFits

LEMMA AsideSeenSame ==
  ASSUME RedemptionIInv, NEW t, Aside(t) PROVE SeenSame
BY AsideSeen DEF SeenSame, Seen, Latest, IsCommitted

LEMMA RedemptionAside ==
  ASSUME RedemptionIInv, NEW t, Aside(t), LedgerIInv'
  PROVE  RedemptionIInv'
<1>1. UNCHANGED <<redemptions, stock, offered, req, answer>>
  BY DEF Aside, ownVars
<1>2. RedemptionTypeOK' /\ StockTyped'
  BY <1>1 DEF RedemptionIInv, RedemptionTypeOK, StockTyped
<1>3. SeenSame
  BY AsideSeenSame
<1>4. ASSUME NEW r \in Requests PROVE StageFits(r)' /\ RequestFits(r)' /\ AnswerFits(r)'
  <2>1. StageFits(r) /\ RequestFits(r) /\ AnswerFits(r) /\ RedemptionTypeOK
    BY DEF RedemptionIInv
  <2>2. clog'[reserveTx(r)] = clog[reserveTx(r)] /\ clog'[settleTx(r)] = clog[settleTx(r)]
    BY TxTypes DEF Aside, PhaseTxs
  <2>3. StageFits(r)'
    BY <1>1, <2>1, <2>2 DEF StageFits
  <2>4. CASE ~ Pursued(r)
    <3>1. answer[r].status \notin {"refused", "RESERVED", "FULFILLED", "FAILED"}
      BY <2>1, <2>4 DEF AnswerFits, Pursued, RedemptionTypeOK
    <3> QED BY <1>1, <2>1, <2>3, <2>4, <3>1 DEF Pursued, RequestFits, AnswerFits
  <2>5. CASE Pursued(r)
    <3>1. Slot(r) \in Slots /\ Slot(r)' = Slot(r)
      BY <1>1, <2>1, <2>5, ReqTypes DEF Slot
    <3>2. Seen(Slot(r))' = Seen(Slot(r))
      <4>1. PICK s \in Slots : s = Slot(r) /\ s = Slot(r)'
        BY <3>1
      <4>2. Seen(s)' = Seen(s)
        BY <1>3 DEF SeenSame
      <4> QED BY <4>1, <4>2 DEF Seen
    <3>3. Pursued(r)' /\ (\A x : Mine(r, x)' = Mine(r, x)) /\ RowOf(r)' = RowOf(r)
      BY <1>1, <2>5, <3>1 DEF Pursued, Mine, RowOf
    <3>4. RequestFits(r)'
      BY <1>1, <2>1, <2>5, <3>2, <3>3 DEF RequestFits, Claimed, Released
    <3>5. AnswerFits(r)'
      BY <1>1, <2>1, <2>2, <3>2 DEF AnswerFits
    <3> QED BY <2>3, <3>4, <3>5
  <2> QED BY <2>4, <2>5
<1>5. ASSUME NEW s \in Slots PROVE RowFits(s)'
  <2>1. RowFits(s) /\ Seen(s)' = Seen(s)
    BY <1>3 DEF RedemptionIInv, SeenSame
  <2>2. redemptions'[s] = redemptions[s] /\ clog'[redemptions[s].by] = clog[redemptions[s].by]
    BY AsideSeen
  <2>3. Recorded(s)'
    <3> SUFFICES ASSUME Seen(s) # Absent PROVE Recorded(s)'
      BY <2>1 DEF Recorded
    <3>1. Recorded(s) /\ Seen(s).of \in Requests
      BY <2>1 DEF RowFits, Recorded
    <3>2. clog'[reserveTx(Seen(s).of)] = clog[reserveTx(Seen(s).of)]
      BY <3>1, TxTypes DEF Aside, PhaseTxs
    <3> QED BY <1>1, <2>1, <3>1, <3>2 DEF Recorded, Pursued, Slot
  <2>4. \A r : Writing(s, r) => Writing(s, r)'
    BY <1>1 DEF Writing, Pursued, Slot
  <2> QED BY <2>1, <2>2, <2>3, <2>4 DEF RowFits, IsActive
<1> QED BY <1>2, <1>4, <1>5 DEF RedemptionIInv

LEMMA StockAside ==
  ASSUME RedemptionIInv, StockIInv, NEW t, Aside(t) PROVE StockIInv'
<1>1. UNCHANGED <<redemptions, stock, req>>
  BY DEF Aside, ownVars
<1>2. \A w \in Rewards : Holding(w)' = Holding(w)
  BY AsideSeenSame, HoldingSame
<1>3. \A w, r : Holds(w, r)' = Holds(w, r)
  BY <1>1 DEF Holds, Held, Restored, Pursued
<1>4. ASSUME NEW w \in Limited PROVE StockAdds(w)'
  <2>1. StockAdds(w) /\ stock[w].by \in Xids
    BY LimitedStock DEF StockIInv
  <2>2. IsActive(stock[w].by) => \E q \in Requests : stock[w].by \in PhaseTxs(q)
    BY <2>1 DEF StockAdds, Holds, PhaseTxs
  <2>3. clog'[stock[w].by] = clog[stock[w].by]
    BY <2>1, <2>2, AsideWriter DEF StockAdds
  <2> QED BY <1>1, <1>2, <1>3, <2>1, <2>3 DEF StockAdds, Latest, IsCommitted, IsActive, Limited
<1>5. \A r \in Requests : UnitHeld(r)'
  BY <1>1, <1>3 DEF StockIInv, UnitHeld, Held, Restored
<1> QED BY <1>4, <1>5 DEF StockIInv

\* Such a transaction reverses no debit of a request.
LEMMA EntriesAside ==
  ASSUME RedemptionIInv, EntriesIInv, NEW t, Aside(t), LedgerTouch(t),
         \A i \in Ids' \ Ids : LET o == rows'[i].reverses IN
            o \in Ids' => o \in Ids /\ \A q \in Requests : rows[o].by # reserveTx(q)
  PROVE  EntriesIInv'
<1>1. LedgerIInv /\ SeenSame /\ UNCHANGED req
  BY AsideSeenSame DEF RedemptionIInv, Aside, ownVars
<1>2. ASSUME NEW q \in Requests PROVE EntryFits(q)'
  <2>1. /\ EntryFits(q) /\ t \notin PhaseTxs(q) /\ req'[q] = req[q]
        /\ \A x \in PhaseTxs(q) : clog'[x] = clog[x]
    BY <1>1, TxTypes DEF EntriesIInv, Aside, PhaseTxs
  <2>2. HasRecord(q)' = HasRecord(q) /\ StatusFits(q)' = StatusFits(q)
    BY <1>1, <2>1, SameRecord DEF PhaseTxs
  <2> QED BY <2>1, <2>2, EntriesUntouched
<1>3. DebitsAreOwn'
  <2> SUFFICES ASSUME NEW i \in Ids', NEW o, o = rows'[i].reverses, o \in Ids',
                      NEW q \in Requests, rows'[o].by = reserveTx(q)
               PROVE  \E p \in Requests : rows'[i].by \in PhaseTxs(p)
    BY DEF DebitsAreOwn
  <2>1. CASE i \in Ids
    <3>1. rows'[i] = rows[i] /\ o \in Ids /\ rows'[o] = rows[o]
      BY <1>1, <2>1, ReversesAnId, NoEntryIsNoId DEF LedgerTouch, Ids
    <3> QED BY <2>1, <3>1 DEF EntriesIInv, DebitsAreOwn
  <2>2. CASE i \notin Ids
    <3>1. o \in Ids /\ rows[o].by # reserveTx(q)
      BY <2>2
    <3> QED BY <3>1 DEF LedgerTouch
  <2> QED BY <2>1, <2>2
<1> QED BY <1>2, <1>3 DEF EntriesIInv

\* A step of a request is one of its own transactions.
LEMMA ServedTouch ==
  ASSUME RedemptionIInv, NEW r \in Requests,
         Serve(r) \/ Throw(r) \/ \E u \in Users, k \in IdemKeys, w \in Rewards : Arrive(r, u, k, w)
  PROVE  \E t \in PhaseTxs(r) : LedgerTouch(t)
<1>1. /\ call \in [Tx -> CallState] /\ rows \in Seq(Row)
      /\ reserveTx(r) \in PhaseTxs(r) /\ settleTx(r) \in PhaseTxs(r) /\ txOf(r) \in PhaseTxs(r)
      /\ reserveTx(r) \in Tx /\ settleTx(r) \in Tx /\ txOf(r) \in Tx
  BY TxTypes DEF RedemptionIInv, LedgerIInv, LedgerTypeOK, PhaseTxs, txOf
<1>2. CASE UNCHANGED <<rows, call>>
  BY <1>1, <1>2, NothingAppended
<1>3. ASSUME NEW t \in PhaseTxs(r), UNCHANGED rows, NEW c, call' = [call EXCEPT ![t] = c]
      PROVE  \E x \in PhaseTxs(r) : LedgerTouch(x)
  BY <1>1, <1>3 DEF LedgerTouch, Ids
<1>4. ASSUME NEW t \in PhaseTxs(r), Insert(t) PROVE LedgerTouch(t)
  <2>1. PICK row : rows' = Append(rows, row) /\ row.by = t
    BY <1>4 DEF Insert
  <2>2. \A x \in Tx \ {t} : call'[x] = call[x]
    BY <1>1, <1>4 DEF Insert
  <2>3. /\ Ids' = Ids \cup {Len(rows) + 1} /\ rows'[Len(rows) + 1] = row
        /\ \A i \in Ids : rows'[i] = rows[i]
    BY <1>1, <2>1 DEF Ids
  <2> QED BY <2>1, <2>2, <2>3 DEF LedgerTouch
<1>5. ASSUME NEW t \in PhaseTxs(r), Advance(t) PROVE \E x \in PhaseTxs(r) : LedgerTouch(x)
  <2>1. CASE Insert(t)
    BY <1>4, <2>1
  <2>2. CASE Lock(t) \/ Duplicate(t) \/ Move(t)
    <3>1. UNCHANGED rows /\ \E c : call' = [call EXCEPT ![t] = c]
      BY <2>2 DEF Lock, Duplicate, Move
    <3> QED BY <1>3, <3>1
  <2> QED BY <1>5, <2>1, <2>2 DEF Advance
<1>6. CASE \/ Lookup(r) \/ ReadReward(r) \/ Claim(r) \/ Conflict(r) \/ Await(r)
           \/ TakeStock(r) \/ Restock(r) \/ Fulfilled(r) \/ Confirm(r) \/ Release(r)
           \/ Unavailable(r) \/ OutOfStock(r) \/ Insufficient(r) \/ Throw(r)
           \/ Replay(r) \/ Reserved(r) \/ Settle(r) \/ Unfulfilled(r)
           \/ \E u \in Users, k \in IdemKeys, w \in Rewards : Arrive(r, u, k, w)
  BY <1>2, <1>6
  DEF Lookup, ReadReward, Claim, Conflict, Await, TakeStock, Restock, Fulfilled, Confirm,
      MarkFulfilled, ConfirmUnheard, CutOff, Release, Unavailable, OutOfStock, Insufficient,
      Throw, Replay, Reserved, Settle,
      Unfulfilled, Arrive, Open, Close, Fail, Refuse, ledgerVars
<1>7. CASE LockUser(r) \/ Debit(r) \/ Refund(r)
  <2>1. UNCHANGED rows /\ \E t \in PhaseTxs(r) : \E c : call' = [call EXCEPT ![t] = c]
    BY <1>1, <1>7 DEF LockUser, Debit, Refund, LockAhead, AppendEntry, ReverseEntry
  <2> QED BY <1>3, <2>1
<1>8. CASE LedgerWork(r)
  BY <1>1, <1>5, <1>8 DEF LedgerWork
<1> QED BY <1>6, <1>7, <1>8 DEF Serve

-----------------------------------------------------------------------------
(* What every step for a grant has in common.                                *)

LEMMA GrantInv ==
  ASSUME AllocationIInv, NEW a \in Allocations, NEW u \in Users, GrantStep(a, u), Decided, Grown,
         RedemptionIInv', StockIInv', EntriesIInv', JobTypes', GrantFits(a, u)'
  PROVE  AllocationIInv'
<1>1. \A b \in Allocations, v \in Users : GrantFits(b, v)'
  <2> TAKE b \in Allocations, v \in Users
  <2>1. CASE <<b, v>> = <<a, u>>
    <3>1. b = a /\ v = u
      BY <2>1
    <3> QED BY <3>1
  <2>2. CASE <<b, v>> # <<a, u>>
    BY <2>2, OtherGrants
  <2> QED BY <2>1, <2>2
<1>2. RowsOwned'
  <2> SUFFICES ASSUME NEW i \in Ids'
               PROVE  \/ rows'[i].by = Setup /\ rows'[i].key = NoKey
                      \/ \E r \in Requests : rows'[i].by \in TxsOf(r)
    BY DEF RowsOwned
  <2>1. PICK t \in TxsOf(<<a, u>>) : LedgerTouch(t)
    BY DEF GrantStep
  <2>2. CASE i \in Ids
    BY <2>2 DEF Grown, AllocationIInv, RowsOwned
  <2>3. CASE i \notin Ids
    BY <2>1, <2>3, GrantTypes DEF LedgerTouch
  <2> QED BY <2>2, <2>3
<1> QED BY <1>1, <1>2 DEF AllocationIInv

\* The credit and the reversal run outside the transactions of redeem().
LEMMA Outside ==
  ASSUME AllocationIInv, NEW r \in Requests, NEW t \in {creditTx(r), undoTx(r)},
         LedgerNext, UNCHANGED ownVars, LedgerTouch(t),
         \A x \in Xids \ {t} : clog'[x] = clog[x],
         \A i \in Ids' \ Ids : LET o == rows'[i].reverses IN
            o \in Ids' => o \in Ids /\ \A q \in Requests : rows[o].by # reserveTx(q)
  PROVE  RedemptionIInv' /\ StockIInv' /\ EntriesIInv' /\ Decided /\ Grown
<1>1. RedemptionIInv /\ StockIInv /\ EntriesIInv /\ LedgerIInv
  BY DEF AllocationIInv, RedemptionIInv
<1>2. LedgerIInv' /\ Decided /\ Grown
  BY <1>1, NextInvariant, LedgerGrows
<1>3. t \in Xids
  BY GrantOf, GrantTypes
<1>4. Aside(t)
  BY <1>2, <1>3, TxsDiffer DEF Aside, Decided
<1> QED BY <1>1, <1>2, <1>4, RedemptionAside, StockAside, EntriesAside

\* It begins, commits or is rolled back.
LEMMA OutsideFated ==
  ASSUME AllocationIInv, NEW r \in Requests, NEW t \in {creditTx(r), undoTx(r)},
         Open(t) \/ Close(t) \/ Fail(t), UNCHANGED ownVars
  PROVE  /\ RedemptionIInv' /\ StockIInv' /\ EntriesIInv' /\ Decided /\ Grown
         /\ LedgerTouch(t) /\ (\A x \in Xids \ {t} : clog'[x] = clog[x])
         /\ UNCHANGED <<rows, call>> /\ (\A x : Own(x)' = Own(x))
         /\ Open(t) => clog[t] = "new" /\ clog'[t] = "active"
         /\ Close(t) => clog[t] = "active" /\ clog'[t] = "committed"
         /\ Fail(t) => clog[t] = "active" /\ clog'[t] = "aborted"
<1>1. clog \in [Xids -> Fates] /\ t \in Xids /\ t \in Tx
  BY GrantOf, GrantTypes DEF AllocationIInv, RedemptionIInv, LedgerIInv, LedgerTypeOK
<1>2. LedgerNext /\ UNCHANGED <<rows, call>>
  BY <1>1 DEF LedgerNext, Open, Close, Fail
<1>3. /\ \A x \in Xids \ {t} : clog'[x] = clog[x]
      /\ Open(t) => clog[t] = "new" /\ clog'[t] = "active"
      /\ Close(t) => clog[t] = "active" /\ clog'[t] = "committed"
      /\ Fail(t) => clog[t] = "active" /\ clog'[t] = "aborted"
  BY <1>1 DEF Open, Close, Fail, Begin, Commit, Abort, IsActive
<1>4. LedgerTouch(t) /\ (\A x : Own(x)' = Own(x)) /\ Ids' = Ids
  BY <1>2, NothingAppended DEF Ids
<1> QED BY <1>2, <1>3, <1>4, Outside

\* It calls the ledger.
LEMMA OutsideAppend ==
  ASSUME AllocationIInv, NEW r \in Requests, NEW t \in {creditTx(r), undoTx(r)}, NEW in,
         AppendEntry(t, in), LedgerNext, UNCHANGED ownVars, Own(t) = {}
  PROVE  /\ RedemptionIInv' /\ StockIInv' /\ EntriesIInv' /\ Decided /\ Grown
         /\ LedgerTouch(t) /\ UNCHANGED <<clog, rows>> /\ (\A x : Own(x)' = Own(x))
         /\ Appending(t, in)'
<1>1. t \in Tx /\ call \in [Tx -> CallState]
  BY GrantOf, GrantTypes DEF AllocationIInv, RedemptionIInv, LedgerIInv, LedgerTypeOK
<1>2. /\ UNCHANGED <<clog, rows>> /\ call'[t].at = "lock" /\ call'[t].in = in
      /\ \A x \in Tx \ {t} : call'[x] = call[x]
  BY <1>1 DEF AppendEntry
<1>3. (\A x : Own(x)' = Own(x)) /\ Ids' = Ids
  BY <1>2 DEF Own, Ids
<1>4. LedgerTouch(t) /\ Appending(t, in)'
  BY <1>2, <1>3 DEF LedgerTouch, Appending
<1> QED BY <1>2, <1>3, <1>4, Outside

\* The ledger does its work.
LEMMA OutsideAdvance ==
  ASSUME AllocationIInv, NEW r \in Requests, NEW t \in {creditTx(r), undoTx(r)}, NEW in,
         Appending(t, in), Advance(t), UNCHANGED ownVars,
         \/ in.reverses = NoEntry
         \/ in.reverses \in Ids /\ \A q \in Requests : rows[in.reverses].by # reserveTx(q)
  PROVE  /\ RedemptionIInv' /\ StockIInv' /\ EntriesIInv' /\ Decided /\ Grown
         /\ LedgerTouch(t) /\ UNCHANGED clog /\ (\A x : x # t => Own(x)' = Own(x))
         /\ Appending(t, in)' \/ FoundTaken(t, in)
<1>1. t \in Tx /\ LedgerIInv
  BY GrantOf, GrantTypes DEF AllocationIInv, RedemptionIInv
<1>2. LedgerNext /\ UNCHANGED clog
  BY <1>1 DEF LedgerNext, AppendStep, Advance, Lock, Insert, Duplicate, Move
<1>3. LedgerTouch(t) /\ (Appending(t, in)' \/ FoundTaken(t, in))
  BY <1>1, AppendingAdvance
<1>4. \A x : x # t => Own(x)' = Own(x)
  BY <1>3, OwnKept
<1>5. ASSUME NEW i \in Ids' \ Ids
      PROVE  rows'[i].reverses = in.reverses
  <2>1. i \in Own(t)'
    BY <1>3 DEF LedgerTouch, Own
  <2>2. Appending(t, in)'
    BY <1>3 DEF FoundTaken, Ids
  <2> QED BY <2>1, <2>2 DEF Appending, Wrote
<1>6. NoEntry \notin Ids'
  BY NoEntryIsNoId DEF Ids
<1> QED BY <1>2, <1>3, <1>4, <1>5, <1>6, Outside

-----------------------------------------------------------------------------
(* Each action keeps the invariant.                                          *)

\* A transaction that has not begun has written nothing.
LEMMA NewTx ==
  ASSUME AllocationIInv, NEW t \in Tx, clog[t] = "new"
  PROVE  Own(t) = {} /\ call[t].at = "idle"
BY DEF AllocationIInv, RedemptionIInv, LedgerIInv, EntriesUnderLock, CallsUnderLock, Own, NotCalled

LEMMA NextUserInv ==
  ASSUME AllocationIInv, NEW a \in Allocations, NEW u \in Users, NextUser(a, u)
  PROVE  AllocationIInv'
<1>1. PICK r, C, N : r = <<a, u>> /\ C = creditTx(r) /\ N = undoTx(r)
  OBVIOUS
<1>2. /\ r \in Requests /\ C \in Tx /\ N \in Tx /\ C # N /\ N \in Xids /\ C \in TxsOf(r)
      /\ \A x \in Xids \ TxsOf(r) : x # C
  BY <1>1, GrantTypes DEF TxsOf
<1>3. GrantFits(a, u) /\ JobTypes /\ job[a].at = "next"
  BY DEF AllocationIInv, NextUser
<1>4. Open(C) /\ UNCHANGED <<outcome, ownVars>>
  BY <1>1 DEF NextUser
<1>5. /\ RedemptionIInv' /\ StockIInv' /\ EntriesIInv' /\ Decided /\ Grown
      /\ LedgerTouch(C) /\ (\A x \in Xids \ {C} : clog'[x] = clog[x])
      /\ UNCHANGED <<rows, call>> /\ (\A x : Own(x)' = Own(x))
      /\ clog[C] = "new" /\ clog'[C] = "active"
  BY <1>1, <1>2, <1>4, OutsideFated
<1>6. /\ job'[a].at = "credit" /\ job'[a].user = u /\ job'[a].key = job[a].key
      /\ job'[a].reward = job[a].reward /\ (\A b \in Allocations \ {a} : job'[b] = job[b])
      /\ job' \in [Allocations -> Jobs]
  <2>1. job \in [Allocations -> Jobs]
    BY <1>3 DEF JobTypes
  <2>2. job[a] \in [at : JobStages, key : IdemKeys, reward : Rewards, left : SUBSET Users,
                    user : Users, credit : Nat]
    BY <1>3, <2>1 DEF Jobs, JobStages
  <2>3. job' = [job EXCEPT ![a] = [job[a] EXCEPT !.at = "credit", !.user = u,
                                                 !.left = job[a].left \ {u}]]
    BY <2>1 DEF NextUser
  <2>4. [job[a] EXCEPT !.at = "credit", !.user = u, !.left = job[a].left \ {u}] \in Jobs
    BY <2>2 DEF Jobs
  <2> QED BY <2>1, <2>2, <2>3, <2>4
<1>7. JobTypes'
  BY <1>3, <1>4, <1>6 DEF JobTypes
<1>8. GrantStep(a, u)
  <2>1. \A v \in Users \ {u} : ~ Serving(a, v, Serves) /\ ~ Serving(a, v, Serves)'
    BY <1>3, <1>6 DEF Serving, Serves
  <2>2. \A x \in Xids \ TxsOf(r) : clog'[x] = clog[x]
    BY <1>2, <1>5
  <2> QED BY <1>1, <1>2, <1>3, <1>4, <1>5, <1>6, <2>1, <2>2 DEF GrantStep, JobKept, ownVars
<1>9. GrantFits(a, u)'
  <2>1. Own(C) = {} /\ call[C].at = "idle"
    BY <1>2, <1>5, NewTx
  <2>2. ~ Pursued(r) /\ clog[N] = "new" /\ outcome[a][u] = "none"
    BY <1>1, <1>3, <1>5 DEF GrantFits, Pursued
  <2>3. ~ Pursued(r)' /\ clog'[N] = "new" /\ outcome'[a][u] = "none"
    BY <1>2, <1>4, <1>5, <2>2 DEF ownVars, Pursued
  <2>4. Serving(a, u, {"credit", "crediting"})' /\ Serving(a, u, {"credit"})'
    BY <1>6 DEF Serving
  <2>5. /\ ~ Serving(a, u, {"crediting"})' /\ ~ Serving(a, u, {"undo"})'
        /\ ~ Serving(a, u, {"undoing"})' /\ ~ Serving(a, u, {"redeem", "redeeming", "undo", "undoing"})'
    BY <1>6 DEF Serving
  <2>6. Own(C)' = {} /\ call'[C].at = "idle"
    BY <1>5, <2>1
  <2> QED BY <1>1, <1>5, <1>6, <2>3, <2>4, <2>5, <2>6 DEF GrantFits
<1> QED BY <1>5, <1>7, <1>8, <1>9, GrantInv

LEMMA CreditUserInv ==
  ASSUME AllocationIInv, NEW a \in Allocations, CreditUser(a)
  PROVE  AllocationIInv'
<1>1. PICK u, r, C, N : u = job[a].user /\ r = <<a, u>> /\ C = creditTx(r) /\ N = undoTx(r)
  OBVIOUS
<1>2. /\ JobTypes /\ job[a].at = "credit" /\ u \in Users /\ job[a].key \in IdemKeys
      /\ Cost[job[a].reward] \in Deltas /\ AdminKey(job[a].key, u) \in EventKeys
  BY <1>1, JobFields DEF AllocationIInv, CreditUser
<1>3. /\ r \in Requests /\ C \in Tx /\ N \in Tx /\ C # N /\ N \in Xids /\ C \in TxsOf(r)
  BY <1>1, <1>2, GrantTypes DEF TxsOf
<1>4. GrantFits(a, u) /\ Serving(a, u, {"credit"})
  BY <1>1, <1>2 DEF AllocationIInv, Serving
<1>5. clog[C] = "active" /\ Own(C) = {}
  BY <1>1, <1>4 DEF GrantFits
<1>6. AppendEntry(C, CreditOf(a, u)) /\ UNCHANGED <<outcome, ownVars>> /\ Step(a, "crediting")
  BY <1>1 DEF CreditUser, Grant, CreditInput, CreditOf
<1>7. LedgerNext
  BY <1>2, <1>3, <1>6 DEF LedgerNext, CreditOf
<1>8. /\ RedemptionIInv' /\ StockIInv' /\ EntriesIInv' /\ Decided /\ Grown
      /\ LedgerTouch(C) /\ UNCHANGED <<clog, rows>> /\ (\A x : Own(x)' = Own(x))
      /\ Appending(C, CreditOf(a, u))'
  <2>1. PICK in : in = CreditOf(a, u)
    OBVIOUS
  <2>2. CreditOf(a, u)' = CreditOf(a, u)
    BY <1>2, <1>6, JobStep DEF CreditOf, JobStages
  <2>3. /\ RedemptionIInv' /\ StockIInv' /\ EntriesIInv' /\ Decided /\ Grown
        /\ LedgerTouch(C) /\ UNCHANGED <<clog, rows>> /\ (\A x : Own(x)' = Own(x))
        /\ Appending(C, in)'
    BY <1>1, <1>3, <1>5, <1>6, <1>7, <2>1, OutsideAppend
  <2> QED BY <2>1, <2>2, <2>3 DEF Appending, Wrote
<1>9. /\ job'[a].at = "crediting" /\ job'[a].user = u /\ job'[a].key = job[a].key
      /\ job'[a].reward = job[a].reward /\ (\A b \in Allocations \ {a} : job'[b] = job[b])
      /\ job' \in [Allocations -> Jobs]
  BY <1>1, <1>2, <1>6, JobStep DEF JobStages
<1>10. JobTypes'
  BY <1>2, <1>6, <1>9 DEF JobTypes
<1>11. GrantStep(a, u)
  <2>1. \A v \in Users \ {u} : ~ Serving(a, v, Serves) /\ ~ Serving(a, v, Serves)'
    BY <1>1, <1>9 DEF Serving
  <2> QED BY <1>1, <1>2, <1>3, <1>6, <1>8, <1>9, <2>1 DEF GrantStep, JobKept, ownVars
<1>12. GrantFits(a, u)'
  <2>1. ~ Pursued(r) /\ clog[N] = "new" /\ outcome[a][u] = "none"
    BY <1>1, <1>4, <1>5 DEF GrantFits, Pursued
  <2>2. ~ Pursued(r)' /\ clog'[N] = "new" /\ outcome'[a][u] = "none" /\ clog'[C] = "active"
    BY <1>5, <1>6, <1>8, <2>1 DEF ownVars, Pursued
  <2>3. Serving(a, u, {"credit", "crediting"})' /\ ~ Serving(a, u, {"credit"})'
    BY <1>9 DEF Serving
  <2>4. /\ ~ Serving(a, u, {"undo"})' /\ ~ Serving(a, u, {"undoing"})'
        /\ ~ Serving(a, u, {"redeem", "redeeming", "undo", "undoing"})'
    BY <1>9 DEF Serving
  <2> QED BY <1>1, <1>8, <1>9, <2>2, <2>3, <2>4 DEF GrantFits
<1> QED BY <1>2, <1>8, <1>10, <1>11, <1>12, GrantInv

\* A call goes on with the user it serves.
Moved(a, at) == /\ job'[a].at = at /\ job'[a].user = job[a].user /\ job'[a].key = job[a].key
                /\ job'[a].reward = job[a].reward /\ \A b \in Allocations \ {a} : job'[b] = job[b]
                /\ job' \in [Allocations -> Jobs]
Reported(a, status) == /\ outcome' = [outcome EXCEPT ![a][job[a].user] = status]
                       /\ status \in {"ALLOCATED", "FAILED"}

LEMMA ReportedOutcome ==
  ASSUME JobTypes, NEW a \in Allocations, NEW x, Reported(a, x), job[a].user \in Users
  PROVE  /\ outcome'[a][job[a].user] = x
         /\ \A b \in Allocations, v \in Users :
              <<b, v>> # <<a, job[a].user>> => outcome'[b][v] = outcome[b][v]
         /\ outcome' \in [Allocations -> [Users -> {"none", "ALLOCATED", "FAILED"}]]
BY DEF JobTypes, Reported

LEMMA MovedGrant ==
  ASSUME AllocationIInv, NEW a \in Allocations, job[a].at # "new", NEW at \in JobStages, Moved(a, at),
         NEW u, u = job[a].user, NEW r, r = <<a, u>>,
         UNCHANGED outcome \/ \E x : Reported(a, x),
         \E t \in TxsOf(r) : LedgerTouch(t),
         \A x \in Xids \ TxsOf(r) : clog'[x] = clog[x],
         \A q \in Requests \ {r} : req'[q] = req[q] /\ answer'[q] = answer[q]
  PROVE  GrantStep(a, u) /\ JobTypes'
<1>1. JobTypes /\ u \in Users
  BY JobFields DEF AllocationIInv
<1>2. /\ \A b \in Allocations, v \in Users : <<b, v>> # r => outcome'[b][v] = outcome[b][v]
      /\ outcome' \in [Allocations -> [Users -> {"none", "ALLOCATED", "FAILED"}]]
  <2>1. CASE UNCHANGED outcome
    BY <1>1, <2>1 DEF JobTypes
  <2>2. CASE \E x : Reported(a, x)
    BY <1>1, <2>2, ReportedOutcome
  <2> QED BY <2>1, <2>2
<1>3. JobTypes'
  BY <1>2 DEF JobTypes, Moved
<1>4. \A v \in Users \ {u} : ~ Serving(a, v, Serves) /\ ~ Serving(a, v, Serves)'
  BY DEF Serving, Moved
<1>5. job'[a].at # "new"
  BY DEF Moved, JobStages
<1> QED BY <1>2, <1>3, <1>4, <1>5 DEF GrantStep, JobKept, Moved

LEMMA StepMoves ==
  ASSUME AllocationIInv, NEW a \in Allocations, job[a].at # "new", NEW at \in JobStages, Step(a, at)
  PROVE  Moved(a, at)
BY JobStep DEF Moved, AllocationIInv

\* The ledger's own statements, for the credit and for its reversal.
LEMMA CreditingInv ==
  ASSUME AllocationIInv, NEW a \in Allocations, job[a].at = "crediting",
         Advance(creditTx(Grant(a))), UNCHANGED <<jobVars, ownVars>>
  PROVE  AllocationIInv'
<1>1. PICK u, r, C, N : u = job[a].user /\ r = <<a, u>> /\ C = creditTx(r) /\ N = undoTx(r)
  OBVIOUS
<1>2. JobTypes /\ u \in Users /\ job[a].key \in IdemKeys /\ job' = job /\ outcome' = outcome
  BY <1>1, JobFields DEF AllocationIInv, jobVars
<1>3. /\ r \in Requests /\ C \in Tx /\ N \in Tx /\ C # N /\ N \in Xids /\ C \in TxsOf(r)
  BY <1>1, <1>2, GrantTypes DEF TxsOf
<1>4. GrantFits(a, u) /\ Serving(a, u, {"crediting"})
  BY <1>1, <1>2 DEF AllocationIInv, Serving
<1>5. Advance(C) /\ UNCHANGED <<req, answer>> /\ UNCHANGED ownVars
  BY <1>1 DEF Grant, ownVars
<1>6. clog[C] = "active" /\ Appending(C, CreditOf(a, u))
  <2>1. call[C].at # "done"
    BY <1>5 DEF Advance, Lock, Insert, Duplicate, Move
  <2> QED BY <1>1, <1>4, <2>1 DEF GrantFits
<1>7. PICK in : in = CreditOf(a, u) /\ in = CreditOf(a, u)' /\ in.reverses = NoEntry
                /\ in.key = AdminKey(job[a].key, u)
  <2>1. CreditOf(a, u)' = CreditOf(a, u)
    BY <1>2 DEF CreditOf
  <2>2. /\ CreditOf(a, u).reverses = NoEntry
        /\ CreditOf(a, u).key = AdminKey(job[a].key, u)
    BY DEF CreditOf
  <2> QED BY <2>1, <2>2
<1>8. /\ RedemptionIInv' /\ StockIInv' /\ EntriesIInv' /\ Decided /\ Grown
      /\ LedgerTouch(C) /\ UNCHANGED clog /\ (\A x : x # C => Own(x)' = Own(x))
      /\ Appending(C, in)' \/ FoundTaken(C, in)
  BY <1>1, <1>3, <1>5, <1>6, <1>7, OutsideAdvance
<1>9. Moved(a, "crediting")
  BY <1>2, <1>1 DEF Moved, JobTypes
<1>10. GrantStep(a, u) /\ JobTypes'
  BY <1>1, <1>2, <1>3, <1>5, <1>8, <1>9, MovedGrant DEF JobStages
<1>11. FoundTaken(C, in) => call'[C].at = "done" /\ Credited(a, u)'
  <2> HAVE FoundTaken(C, in)
  <2>1. PICK j \in Holders(AdminKey(job[a].key, u)) : call'[C].id = j /\ call'[C].at = "done"
    BY <1>7 DEF FoundTaken
  <2>2. Own(C) = {} /\ Own(C)' = {} /\ UNCHANGED rows
    BY <1>6, <1>7 DEF FoundTaken, Appending, Own, Ids
  <2>3. PICK b \in Attempts(job[a].key, u) :
           rows[j].by = creditTx(<<b, u>>) /\ j \in Own(creditTx(<<b, u>>))
    BY <1>2, CreditHolder
  <2>4. b # a
    BY <1>1, <2>2, <2>3
  <2>5. IsCredit(j, job[a].key, u) /\ Contested(a, u)
    BY <1>2, <2>4, <2>3, CreditHolder DEF Contested, Attempts
  <2>6. Contested(a, u)'
    BY <1>10, <2>5, <1>2, <1>8, ContestedStays DEF JobKept
  <2>7. IsCredit(j, job[a].key, u)'
    BY <1>2, <2>5, <2>2 DEF IsCredit, Ids
  <2> QED BY <1>1, <2>1, <2>2, <2>6, <2>7 DEF Credited, CreditId, IsCredit
<1>12. GrantFits(a, u)'
  <2>1. ~ Pursued(r) /\ clog[N] = "new" /\ outcome[a][u] = "none"
    BY <1>1, <1>4, <1>6 DEF GrantFits, Pursued
  <2>2. ~ Pursued(r)' /\ clog'[N] = "new" /\ outcome'[a][u] = "none" /\ clog'[C] = "active"
    BY <1>2, <1>5, <1>6, <1>8, <2>1 DEF Pursued
  <2>3. Serving(a, u, {"credit", "crediting"})' /\ ~ Serving(a, u, {"credit"})'
    BY <1>1, <1>9 DEF Serving, Moved
  <2>4. /\ ~ Serving(a, u, {"undo"})' /\ ~ Serving(a, u, {"undoing"})'
        /\ ~ Serving(a, u, {"redeem", "redeeming", "undo", "undoing"})'
    BY <1>9 DEF Serving, Moved
  <2>5. Appending(C, CreditOf(a, u))' \/ (call'[C].at = "done" /\ Credited(a, u)')
    BY <1>7, <1>8, <1>11 DEF Appending, Wrote
  <2> QED BY <1>1, <1>9, <2>2, <2>3, <2>4, <2>5 DEF GrantFits, Moved
<1> QED BY <1>2, <1>8, <1>10, <1>12, GrantInv

LEMMA WroteIsCredited ==
  ASSUME NEW a \in Allocations, NEW u \in Users, NEW C, C = creditTx(<<a, u>>),
         Wrote(C, CreditOf(a, u))
  PROVE  Credited(a, u)
BY DEF Credited, IsCredit, Wrote, CreditOf, CreditId, Own

LEMMA CreditedUserInv ==
  ASSUME AllocationIInv, NEW a \in Allocations, CreditedUser(a)
  PROVE  AllocationIInv'
<1>1. PICK u, r, C, N : u = job[a].user /\ r = <<a, u>> /\ C = creditTx(r) /\ N = undoTx(r)
  OBVIOUS
<1>2. JobTypes /\ u \in Users /\ job[a].at = "crediting"
  BY <1>1, JobFields DEF AllocationIInv, CreditedUser
<1>3. /\ r \in Requests /\ C \in Tx /\ N \in Tx /\ C # N /\ N \in Xids /\ C \in TxsOf(r)
  BY <1>1, <1>2, GrantTypes DEF TxsOf
<1>4. GrantFits(a, u) /\ Serving(a, u, {"crediting"})
  BY <1>1, <1>2 DEF AllocationIInv, Serving
<1>5. /\ Close(C) /\ UNCHANGED <<outcome, ownVars>> /\ call[C].at = "done"
      /\ job' = [job EXCEPT ![a].at = "redeem", ![a].credit = call[C].id]
  BY <1>1 DEF CreditedUser, Grant
<1>6. /\ RedemptionIInv' /\ StockIInv' /\ EntriesIInv' /\ Decided /\ Grown
      /\ LedgerTouch(C) /\ (\A x \in Xids \ {C} : clog'[x] = clog[x])
      /\ UNCHANGED <<rows, call>> /\ (\A x : Own(x)' = Own(x))
      /\ clog[C] = "active" /\ clog'[C] = "committed"
  BY <1>1, <1>3, <1>5, OutsideFated
<1>7. Moved(a, "redeem") /\ job'[a].credit = call[C].id
  <2>1. job \in [Allocations -> Jobs] /\ call[C].id \in Nat
    BY <1>2, <1>3, <1>5 DEF JobTypes, AllocationIInv, RedemptionIInv, LedgerIInv, LedgerTypeOK,
                            CallState
  <2>2. job[a] \in [at : JobStages, key : IdemKeys, reward : Rewards, left : SUBSET Users,
                    user : Users, credit : Nat]
    BY <1>2, <2>1 DEF Jobs, JobStages
  <2>3. job' = [job EXCEPT ![a] = [job[a] EXCEPT !.at = "redeem", !.credit = call[C].id]]
    BY <1>5, <2>1
  <2>4. [job[a] EXCEPT !.at = "redeem", !.credit = call[C].id] \in Jobs
    BY <2>1, <2>2 DEF Jobs
  <2> QED BY <2>1, <2>2, <2>3, <2>4 DEF Moved
<1>8. GrantStep(a, u) /\ JobTypes'
  BY <1>1, <1>2, <1>3, <1>5, <1>6, <1>7, MovedGrant DEF JobStages, TxsOf, ownVars
<1>9. Credited(a, u)'
  <2>1. Wrote(C, CreditOf(a, u)) \/ Credited(a, u)
    <3>1. Appending(C, CreditOf(a, u)) \/ Credited(a, u)
      BY <1>1, <1>4 DEF GrantFits
    <3> QED BY <1>5, <3>1 DEF Appending
  <2>2. Credited(a, u)
    BY <1>1, <1>2, <2>1, WroteIsCredited
  <2>3. \A b \in Allocations : JobKept(b)
    BY <1>8 DEF GrantStep, JobKept
  <2> QED BY <1>1, <1>2, <1>6, <2>2, <2>3, CreditedStays
<1>10. GrantFits(a, u)'
  <2>1. ~ Pursued(r) /\ clog[N] = "new" /\ outcome[a][u] = "none"
    BY <1>1, <1>4, <1>6 DEF GrantFits, Pursued
  <2>2. ~ Pursued(r)' /\ clog'[N] = "new" /\ outcome'[a][u] = "none"
    BY <1>3, <1>5, <1>6, <2>1 DEF Pursued, ownVars
  <2>3. /\ ~ Serving(a, u, {"credit"})' /\ ~ Serving(a, u, {"crediting"})'
        /\ ~ Serving(a, u, {"undo"})' /\ ~ Serving(a, u, {"undoing"})'
    BY <1>7 DEF Serving, Moved
  <2>4. job'[a].credit = CreditId(r)' /\ job'[a].at # "new"
    BY <1>1, <1>6, <1>7 DEF CreditId, Moved
  <2> QED BY <1>1, <1>6, <1>9, <2>2, <2>3, <2>4 DEF GrantFits
<1> QED BY <1>2, <1>6, <1>8, <1>10, GrantInv

-----------------------------------------------------------------------------
(* The steps of redeem() itself.                                             *)

LEMMA Served ==
  ASSUME AllocationIInv, NEW a \in Allocations, NEW u \in Users, NEW r, r = <<a, u>>,
         Serve(r) \/ Throw(r) \/ \E v \in Users, k \in IdemKeys, w \in Rewards : Arrive(r, v, k, w)
  PROVE  /\ RedemptionIInv' /\ StockIInv' /\ EntriesIInv' /\ Decided /\ Grown /\ OthersKept(r)
         /\ \E t \in TxsOf(r) : LedgerTouch(t)
         /\ \A x \in Xids \ TxsOf(r) : clog'[x] = clog[x]
         /\ \A x \in {creditTx(r), undoTx(r)} :
              clog'[x] = clog[x] /\ call'[x] = call[x] /\ Own(x)' = Own(x)
<1>1. r \in Requests /\ creditTx(r) \in Tx /\ undoTx(r) \in Tx
  BY GrantTypes
<1>2. RedemptionIInv /\ StockIInv /\ EntriesIInv /\ LedgerIInv /\ RedemptionTypeOK
      /\ clog \in [Xids -> Fates]
  BY DEF AllocationIInv, RedemptionIInv, LedgerIInv, LedgerTypeOK
<1>3. RedemptionNext
  BY <1>1 DEF RedemptionNext
<1>4. RedemptionIInv' /\ StockIInv' /\ EntriesIInv'
  BY <1>2, <1>3, RedemptionNextInv, StockNextInv, EntriesNextInv
<1>5. Decided /\ Grown
  BY <1>2, <1>3, RedemptionStep, LedgerGrows
<1>6. OthersKept(r)
  BY <1>1, <1>2, OthersAlone
<1>7. PICK t \in PhaseTxs(r) : LedgerTouch(t)
  BY <1>1, <1>2, ServedTouch
<1>8. PhaseTxs(r) \subseteq TxsOf(r)
  BY DEF PhaseTxs, TxsOf
<1>9. ASSUME NEW x \in {creditTx(r), undoTx(r)}
      PROVE  clog'[x] = clog[x] /\ call'[x] = call[x] /\ Own(x)' = Own(x)
  <2>1. x \notin PhaseTxs(r) /\ x \in Tx /\ x \in Xids
    BY <1>1, TxsDiffer DEF Xids
  <2>2. x # t
    BY <1>7, <2>1
  <2> QED BY <1>6, <1>7, <2>1, <2>2, OwnKept DEF OthersKept, LedgerTouch
<1> QED BY <1>4, <1>5, <1>6, <1>7, <1>8, <1>9 DEF OthersKept

\* The redemption of a grant goes on: neither its credit nor a reversal is touched.
LEMMA RedeemedInv ==
  ASSUME AllocationIInv, NEW a \in Allocations, job[a].at \in {"redeem", "redeeming"},
         NEW u, u = job[a].user, NEW r, r = <<a, u>>,
         Serve(r) \/ Throw(r) \/ \E v \in Users, k \in IdemKeys, w \in Rewards : Arrive(r, v, k, w),
         NEW at \in {"redeeming", "dead"}, Moved(a, at), job'[a].credit = job[a].credit,
         UNCHANGED outcome, req[r].at # "done",
         req'[r].user = u /\ req'[r].key = job[a].key /\ req'[r].reward = job[a].reward
  PROVE  AllocationIInv'
<1>1. PICK C, N : C = creditTx(r) /\ N = undoTx(r)
  OBVIOUS
<1>2. u \in Users
  BY JobFields DEF AllocationIInv
<1>3. /\ RedemptionIInv' /\ StockIInv' /\ EntriesIInv' /\ Decided /\ Grown /\ OthersKept(r)
      /\ \E t \in TxsOf(r) : LedgerTouch(t)
      /\ \A x \in Xids \ TxsOf(r) : clog'[x] = clog[x]
      /\ \A x \in {C, N} : clog'[x] = clog[x] /\ call'[x] = call[x] /\ Own(x)' = Own(x)
  BY <1>1, <1>2, Served
<1>4. GrantFits(a, u) /\ Serving(a, u, {"redeem", "redeeming", "undo", "undoing"})
  BY <1>2 DEF AllocationIInv, Serving
<1>5. clog[C] = "committed" /\ job[a].credit = CreditId(r) /\ clog[N] = "new" /\ outcome[a][u] = "none"
      /\ Credited(a, u)
  BY <1>1, <1>4 DEF GrantFits
<1>6. GrantStep(a, u) /\ JobTypes'
  BY <1>3, MovedGrant DEF JobStages, OthersKept
<1>7. Credited(a, u)'
  <2>1. \A b \in Allocations : JobKept(b)
    BY <1>6 DEF GrantStep, JobKept
  <2> QED BY <1>1, <1>2, <1>3, <1>5, <2>1, CreditedStays
<1>8. GrantFits(a, u)'
  <2>1. clog'[C] = "committed" /\ clog'[N] = "new" /\ outcome'[a][u] = "none"
        /\ job'[a].credit = CreditId(r)' /\ job'[a].at # "new" /\ job'[a].key = job[a].key
        /\ job'[a].reward = job[a].reward
    BY <1>1, <1>3, <1>5 DEF CreditId, Moved
  <2>2. /\ ~ Serving(a, u, {"credit"})' /\ ~ Serving(a, u, {"crediting"})'
        /\ ~ Serving(a, u, {"undo"})' /\ ~ Serving(a, u, {"undoing"})'
    BY DEF Serving, Moved
  <2> QED BY <1>1, <1>7, <2>1, <2>2 DEF GrantFits
<1> QED BY <1>2, <1>3, <1>6, <1>8, GrantInv

LEMMA RedeemForInv ==
  ASSUME AllocationIInv, NEW a \in Allocations, RedeemFor(a)
  PROVE  AllocationIInv'
<1>1. PICK u, r, k, w : u = job[a].user /\ r = <<a, u>> /\ k = job[a].key /\ w = job[a].reward
  OBVIOUS
<1>2. /\ job[a].at = "redeem" /\ Arrive(r, u, k, w) /\ Step(a, "redeeming") /\ UNCHANGED outcome
  BY <1>1 DEF RedeemFor, Grant
<1>3. JobTypes /\ u \in Users /\ k \in IdemKeys /\ w \in Rewards /\ r \in Requests
  BY <1>1, <1>2, JobFields, GrantTypes DEF AllocationIInv
<1>4. Moved(a, "redeeming") /\ job'[a].credit = job[a].credit
  BY <1>2, <1>3, JobStep DEF Moved, JobStages
<1>5. req'[r].user = u /\ req'[r].key = k /\ req'[r].reward = w /\ req[r].at # "done"
  BY <1>2, <1>3, ArrivedRequest DEF AllocationIInv, Pursued
<1> QED BY <1>1, <1>2, <1>3, <1>4, <1>5, RedeemedInv

\* What a request asks for does not change while it is served.
LEMMA ServedFields ==
  ASSUME AllocationIInv, NEW a \in Allocations, job[a].at # "new", NEW u, u = job[a].user,
         NEW r, r = <<a, u>>, Serve(r) \/ Throw(r)
  PROVE  /\ req[r].at # "done"
         /\ req'[r].user = u /\ req'[r].key = job[a].key /\ req'[r].reward = job[a].reward
<1>1. u \in Users /\ r \in Requests
  BY JobFields, GrantTypes DEF AllocationIInv
<1>2. Pursued(r) /\ req[r].at # "done" /\ GoesOn(r)
  BY <1>1, RequestGoesOn DEF AllocationIInv
<1>3. GrantFits(a, u)
  BY <1>1 DEF AllocationIInv
<1> QED BY <1>2, <1>3 DEF GrantFits, GoesOn

LEMMA RedeemingInv ==
  ASSUME AllocationIInv, NEW a \in Allocations, Redeeming(a)
  PROVE  AllocationIInv'
<1>1. PICK u, r : u = job[a].user /\ r = <<a, u>>
  OBVIOUS
<1>2. /\ job[a].at = "redeeming" /\ (Serve(r) \/ Throw(r)) /\ job' = job /\ UNCHANGED outcome
  BY <1>1 DEF Redeeming, Grant, jobVars
<1>3. Moved(a, "redeeming") /\ job'[a].credit = job[a].credit
  BY <1>2 DEF Moved, AllocationIInv, JobTypes
<1>4. /\ req'[r].user = u /\ req'[r].key = job[a].key /\ req'[r].reward = job[a].reward
      /\ req[r].at # "done"
  BY <1>1, <1>2, ServedFields
<1> QED BY <1>1, <1>2, <1>3, <1>4, RedeemedInv

LEMMA AbandonedInv ==
  ASSUME AllocationIInv, NEW a \in Allocations, job[a].at = "redeeming", Throw(Grant(a)),
         Step(a, "dead"), UNCHANGED outcome
  PROVE  AllocationIInv'
<1>1. PICK u, r : u = job[a].user /\ r = <<a, u>> /\ r = Grant(a)
  BY DEF Grant
<1>2. Moved(a, "dead") /\ job'[a].credit = job[a].credit
  BY JobStep DEF Moved, JobStages, AllocationIInv
<1>3. /\ req'[r].user = u /\ req'[r].key = job[a].key /\ req'[r].reward = job[a].reward
      /\ req[r].at # "done"
  BY <1>1, ServedFields
<1> QED BY <1>1, <1>2, <1>3, RedeemedInv

-----------------------------------------------------------------------------
(* Steps of the call alone, and the reversal.                                *)

LEMMA StandingInv ==
  ASSUME AllocationIInv, NEW a \in Allocations, job[a].at \in {"next", "redeem", "redeeming"},
         NEW at \in {"next", "done", "dead"}, Step(a, at), UNCHANGED redemptionVars,
         \/ UNCHANGED outcome
         \/ /\ \E x : Reported(a, x)
            /\ req[Grant(a)].at = "done" /\ answer[Grant(a)].status \notin {"refused", "error"}
  PROVE  AllocationIInv'
<1>1. PICK u, r, C, N : u = job[a].user /\ r = <<a, u>> /\ C = creditTx(r) /\ N = undoTx(r)
                        /\ r = Grant(a)
  BY DEF Grant
<1>2. JobTypes /\ u \in Users /\ GrantFits(a, u)
  BY <1>1, JobFields DEF AllocationIInv
<1>3. UNCHANGED <<req, answer, clog, rows, call>> /\ UNCHANGED ownVars /\ UNCHANGED ledgerVars
  BY DEF redemptionVars, ownVars, ledgerVars
<1>4. RedemptionIInv' /\ StockIInv' /\ EntriesIInv' /\ Decided /\ Grown
  <2>1. [RedemptionNext]_redemptionVars /\ [LedgerNext]_ledgerVars
    BY <1>3
  <2> QED BY <2>1, RedemptionNextInv, StockNextInv, EntriesNextInv, LedgerGrows
          DEF AllocationIInv, RedemptionIInv
<1>5. (\A x : Own(x)' = Own(x)) /\ \A t : LedgerTouch(t)
  BY <1>3, NothingAppended
<1>6. Moved(a, at)
  BY StepMoves DEF JobStages
<1>7. GrantStep(a, u) /\ JobTypes'
  BY <1>1, <1>3, <1>5, <1>6, MovedGrant DEF JobStages, TxsOf
<1>8. GrantFits(a, u)'
  <2>1. \A b \in Allocations : JobKept(b)
    BY <1>7 DEF GrantStep, JobKept
  <2>2. Credited(a, u) => Credited(a, u)'
    BY <1>1, <1>2, <1>3, <1>4, <1>5, <2>1, CreditedStays
  <2>3. clog[N] # "new" => clog[C] = "committed"
    BY <1>1, <1>2 DEF GrantFits, Pursued
  <2>4. clog[C] = "committed" /\ Undid(a, u) => Undid(a, u)'
    <3> HAVE clog[C] = "committed" /\ Undid(a, u)
    <3>1. CreditId(<<a, u>>) \in Ids
      BY <1>1, <1>2 DEF GrantFits, Credited, IsCredit
    <3> QED BY <1>1, <1>2, <1>3, <1>4, <1>5, <2>1, <3>1, UndidStays
  <2>5. /\ ~ Serving(a, u, {"credit"})' /\ ~ Serving(a, u, {"crediting"})'
        /\ ~ Serving(a, u, {"undo"})' /\ ~ Serving(a, u, {"undoing"})'
        /\ ~ Serving(a, u, {"redeem", "redeeming", "undo", "undoing"})' /\ job'[a].at # "new"
    BY <1>6 DEF Serving, Moved
  <2>6. clog[C] # "active" /\ clog[N] # "active"
    BY <1>1, <1>2 DEF GrantFits, Serving
  <2>7. outcome'[a][u] # "none" =>
          req[r].at = "done" /\ (answer[r].status \in {"refused", "error"} => clog[N] = "committed")
    BY <1>1, <1>2 DEF GrantFits
  <2>8. Pursued(r)' = Pursued(r)
    BY <1>3 DEF Pursued
  <2>9. job'[a].key = job[a].key /\ job'[a].reward = job[a].reward
    BY <1>6 DEF Moved
  <2> QED BY <1>1, <1>2, <1>3, <2>2, <2>3, <2>4, <2>5, <2>6, <2>7, <2>8, <2>9 DEF GrantFits
<1> QED BY <1>2, <1>4, <1>7, <1>8, GrantInv

\* The credit's transaction is rolled back.
LEMMA CreditFailsInv ==
  ASSUME AllocationIInv, NEW a \in Allocations, job[a].at \in {"credit", "crediting"},
         Fail(creditTx(Grant(a))), UNCHANGED ownVars, Step(a, "dead"), UNCHANGED outcome
  PROVE  AllocationIInv'
<1>1. PICK u, r, C, N : u = job[a].user /\ r = <<a, u>> /\ C = creditTx(r) /\ N = undoTx(r)
  OBVIOUS
<1>2. JobTypes /\ u \in Users
  BY <1>1, JobFields DEF AllocationIInv
<1>3. /\ r \in Requests /\ C \in Tx /\ N \in Tx /\ C # N /\ N \in Xids /\ C \in TxsOf(r)
  BY <1>1, <1>2, GrantTypes DEF TxsOf
<1>4. GrantFits(a, u) /\ Serving(a, u, {"credit", "crediting"})
  BY <1>1, <1>2 DEF AllocationIInv, Serving
<1>5. Fail(C) /\ UNCHANGED <<req, answer>>
  BY <1>1 DEF Grant, ownVars
<1>6. /\ RedemptionIInv' /\ StockIInv' /\ EntriesIInv' /\ Decided /\ Grown
      /\ LedgerTouch(C) /\ (\A x \in Xids \ {C} : clog'[x] = clog[x])
      /\ clog[C] = "active" /\ clog'[C] = "aborted"
  BY <1>1, <1>3, <1>5, OutsideFated
<1>7. Moved(a, "dead")
  BY StepMoves DEF JobStages
<1>8. GrantStep(a, u) /\ JobTypes'
  BY <1>1, <1>3, <1>5, <1>6, <1>7, MovedGrant DEF JobStages
<1>9. GrantFits(a, u)'
  <2>1. ~ Pursued(r) /\ clog[N] = "new" /\ outcome[a][u] = "none"
    BY <1>1, <1>4, <1>6 DEF GrantFits, Pursued
  <2>2. ~ Pursued(r)' /\ clog'[N] = "new" /\ outcome'[a][u] = "none"
    BY <1>3, <1>5, <1>6, <2>1 DEF Pursued
  <2>3. /\ ~ Serving(a, u, {"credit"})' /\ ~ Serving(a, u, {"crediting"})'
        /\ ~ Serving(a, u, {"undo"})' /\ ~ Serving(a, u, {"undoing"})'
        /\ ~ Serving(a, u, {"redeem", "redeeming", "undo", "undoing"})' /\ job'[a].at # "new"
    BY <1>7 DEF Serving, Moved
  <2> QED BY <1>1, <1>6, <2>2, <2>3 DEF GrantFits
<1> QED BY <1>2, <1>6, <1>8, <1>9, GrantInv

\* Where the reversal stands, its grant is credited, refused and not reported.
LEMMA Reversing ==
  ASSUME AllocationIInv, NEW a \in Allocations, NEW u \in Users, u = job[a].user, NEW r, r = <<a, u>>,
         \/ job[a].at = "redeeming" /\ req[r].at = "done" /\ answer[r].status \in {"refused", "error"}
         \/ job[a].at \in {"undo", "undoing"}
  PROVE  /\ GrantFits(a, u) /\ clog[creditTx(r)] = "committed" /\ job[a].credit = CreditId(r)
         /\ Credited(a, u) /\ CreditId(r) \in Ids
         /\ req[r].at = "done" /\ answer[r].status \in {"refused", "error"} /\ Pursued(r)
         /\ clog[undoTx(r)] # "committed" => outcome[a][u] = "none"
         /\ job[a].at \in {"undo", "undoing"} => clog[undoTx(r)] = "active"
<1>1. GrantFits(a, u) /\ Serving(a, u, {"redeem", "redeeming", "undo", "undoing"})
  BY DEF AllocationIInv, Serving
<1>2. clog[creditTx(r)] = "committed" /\ job[a].credit = CreditId(r) /\ Credited(a, u)
  BY <1>1 DEF GrantFits
<1>3. job[a].at \in {"undo", "undoing"} => clog[undoTx(r)] = "active"
  BY <1>1 DEF GrantFits, Serving
<1>4. req[r].at = "done" /\ answer[r].status \in {"refused", "error"}
  BY <1>1, <1>3 DEF GrantFits
<1> QED BY <1>1, <1>2, <1>3, <1>4 DEF GrantFits, Credited, IsCredit, Pursued

\* A step of the reversal's transaction keeps what the grant is known for.
LEMMA ReversedFits ==
  ASSUME AllocationIInv, NEW a \in Allocations, NEW u \in Users, u = job[a].user, NEW r, r = <<a, u>>,
         \/ job[a].at = "redeeming" /\ req[r].at = "done" /\ answer[r].status \in {"refused", "error"}
         \/ job[a].at \in {"undo", "undoing"},
         Decided, Grown, GrantStep(a, u), NEW at \in {"undo", "undoing", "next", "dead"}, Moved(a, at),
         at \in {"undo", "undoing"} => job'[a].credit = job[a].credit,
         UNCHANGED <<req, answer>>,
         NEW C, C = creditTx(r), clog'[C] = clog[C], call'[C] = call[C], Own(C)' = Own(C),
         NEW N, N = undoTx(r), clog'[N] # "new",
         clog'[N] = "active" => at \in {"undo", "undoing"},
         at = "undo" => clog'[N] = "active" /\ Own(N)' = {} /\ call'[N].at = "idle",
         at = "undoing" => /\ clog'[N] = "active"
                           /\ Appending(N, UndoOf(a, u))' \/ (call'[N].at = "done" /\ Undid(a, u)'),
         clog'[N] = "committed" => Undid(a, u)',
         outcome'[a][u] # "none" => clog'[N] = "committed"
  PROVE  GrantFits(a, u)'
<1>1. /\ GrantFits(a, u) /\ clog[C] = "committed" /\ job[a].credit = CreditId(r)
      /\ Credited(a, u) /\ CreditId(r) \in Ids
      /\ req[r].at = "done" /\ answer[r].status \in {"refused", "error"} /\ Pursued(r)
  BY Reversing
<1>2. Credited(a, u)'
  <2>1. (\A b \in Allocations : JobKept(b)) /\ job[a].at # "new"
    BY DEF GrantStep, JobKept
  <2> QED BY <1>1, <2>1, CreditedStays
<1>3. CreditId(r)' = CreditId(r) /\ Pursued(r)'
  BY <1>1 DEF CreditId, Pursued
<1>4. /\ ~ Serving(a, u, {"credit"})' /\ ~ Serving(a, u, {"crediting"})'
      /\ Serving(a, u, {"undo"})' => at = "undo"
      /\ Serving(a, u, {"undoing"})' => at = "undoing"
      /\ Serving(a, u, {"redeem", "redeeming", "undo", "undoing"})' => at \in {"undo", "undoing"}
      /\ at \in {"undo", "undoing"} => Serving(a, u, {"undo", "undoing"})'
      /\ job'[a].at # "new" /\ job'[a].key = job[a].key /\ job'[a].reward = job[a].reward
  BY DEF Serving, Moved
<1>5. req'[r].user = u /\ req'[r].key = job[a].key /\ req'[r].reward = job[a].reward
  BY <1>1 DEF GrantFits
<1> QED BY <1>1, <1>2, <1>3, <1>4, <1>5 DEF GrantFits

LEMMA StartUndoInv ==
  ASSUME AllocationIInv, NEW a \in Allocations, StartUndo(a)
  PROVE  AllocationIInv'
<1>1. PICK u, r, C, N : u = job[a].user /\ r = <<a, u>> /\ C = creditTx(r) /\ N = undoTx(r)
  OBVIOUS
<1>2. /\ job[a].at = "redeeming" /\ req[r].at = "done" /\ answer[r].status \in {"refused", "error"}
      /\ Open(N) /\ Step(a, "undo") /\ UNCHANGED outcome /\ UNCHANGED ownVars
      /\ UNCHANGED <<req, answer>>
  BY <1>1 DEF StartUndo, Returned, Grant, ownVars
<1>3. JobTypes /\ u \in Users
  BY <1>1, <1>2, JobFields DEF AllocationIInv
<1>4. /\ r \in Requests /\ C \in Xids /\ N \in Tx /\ C # N /\ N \in TxsOf(r)
  BY <1>1, <1>3, GrantTypes DEF TxsOf
<1>5. /\ RedemptionIInv' /\ StockIInv' /\ EntriesIInv' /\ Decided /\ Grown
      /\ LedgerTouch(N) /\ (\A x \in Xids \ {N} : clog'[x] = clog[x])
      /\ UNCHANGED <<rows, call>> /\ (\A x : Own(x)' = Own(x))
      /\ clog[N] = "new" /\ clog'[N] = "active"
  BY <1>1, <1>2, <1>4, OutsideFated
<1>6. Moved(a, "undo") /\ job'[a].credit = job[a].credit
  BY <1>2, <1>3, JobStep DEF Moved, JobStages
<1>7. GrantStep(a, u) /\ JobTypes'
  BY <1>1, <1>2, <1>4, <1>5, <1>6, MovedGrant DEF JobStages
<1>8. Own(N)' = {} /\ call'[N].at = "idle"
  <2>1. Own(N) = {} /\ call[N].at = "idle"
    BY <1>4, <1>5, NewTx
  <2> QED BY <1>5, <2>1
<1>9. outcome'[a][u] = "none" /\ clog'[C] = clog[C] /\ call'[C] = call[C] /\ Own(C)' = Own(C)
  BY <1>1, <1>2, <1>3, <1>4, <1>5, Reversing
<1>10. GrantFits(a, u)'
  BY <1>1, <1>2, <1>3, <1>5, <1>6, <1>7, <1>8, <1>9, ReversedFits
<1> QED BY <1>3, <1>5, <1>7, <1>10, GrantInv

LEMMA UndoInv ==
  ASSUME AllocationIInv, NEW a \in Allocations, Undo(a)
  PROVE  AllocationIInv'
<1>1. PICK u, r, C, N : u = job[a].user /\ r = <<a, u>> /\ C = creditTx(r) /\ N = undoTx(r)
  OBVIOUS
<1>2. /\ job[a].at = "undo" /\ ReverseEntry(N, job[a].credit)
      /\ Step(a, "undoing") /\ UNCHANGED outcome /\ UNCHANGED ownVars /\ UNCHANGED <<req, answer>>
  BY <1>1 DEF Undo, Grant, ownVars
<1>3. JobTypes /\ u \in Users
  BY <1>1, <1>2, JobFields DEF AllocationIInv
<1>4. /\ r \in Requests /\ C \in Tx /\ N \in Tx /\ C # N /\ N \in TxsOf(r)
  BY <1>1, <1>3, GrantTypes DEF TxsOf
<1>5. /\ GrantFits(a, u) /\ job[a].credit = CreditId(r) /\ CreditId(r) \in Ids
      /\ outcome[a][u] = "none" /\ clog[N] = "active" /\ Own(N) = {}
  <2>1. Serving(a, u, {"undo"})
    BY <1>1, <1>2 DEF Serving
  <2>2. /\ GrantFits(a, u) /\ job[a].credit = CreditId(r) /\ CreditId(r) \in Ids
        /\ clog[N] = "active" /\ (clog[N] # "committed" => outcome[a][u] = "none")
    BY <1>1, <1>2, <1>3, Reversing
  <2>3. Own(N) = {}
    BY <1>1, <2>1, <2>2 DEF GrantFits
  <2> QED BY <2>2, <2>3
<1>6. PICK in : in = UndoOf(a, u)
  OBVIOUS
<1>7. AppendEntry(N, in) /\ LedgerNext
  <2>1. AppendEntry(N, in)
    BY <1>1, <1>2, <1>5, <1>6 DEF ReverseEntry, UndoOf
  <2> QED BY <1>2, <1>4, <1>5, <2>1 DEF LedgerNext
<1>8. /\ RedemptionIInv' /\ StockIInv' /\ EntriesIInv' /\ Decided /\ Grown
      /\ LedgerTouch(N) /\ UNCHANGED <<clog, rows>> /\ (\A x : Own(x)' = Own(x))
      /\ Appending(N, in)'
  BY <1>1, <1>2, <1>4, <1>5, <1>7, OutsideAppend
<1>9. Moved(a, "undoing") /\ job'[a].credit = job[a].credit
  BY <1>2, <1>3, JobStep DEF Moved, JobStages
<1>10. GrantStep(a, u) /\ JobTypes'
  BY <1>1, <1>2, <1>4, <1>8, <1>9, MovedGrant DEF JobStages
<1>11. call'[C] = call[C] /\ Own(C)' = Own(C) /\ clog'[C] = clog[C]
  BY <1>4, <1>8 DEF LedgerTouch
<1>12. Appending(N, UndoOf(a, u))'
  <2>1. UndoOf(a, u)' = UndoOf(a, u)
    BY <1>1, <1>8, <1>11 DEF UndoOf, CreditId
  <2> QED BY <1>6, <1>8, <2>1 DEF Appending, Wrote
<1>13. outcome'[a][u] = "none" /\ clog'[N] = "active"
  BY <1>2, <1>5, <1>8
<1>14. GrantFits(a, u)'
  BY <1>1, <1>2, <1>3, <1>8, <1>9, <1>10, <1>11, <1>12, <1>13, ReversedFits
<1> QED BY <1>3, <1>8, <1>10, <1>14, GrantInv

LEMMA UndoingInv ==
  ASSUME AllocationIInv, NEW a \in Allocations, job[a].at = "undoing",
         Advance(undoTx(Grant(a))), UNCHANGED <<jobVars, ownVars>>
  PROVE  AllocationIInv'
<1>1. PICK u, r, C, N : u = job[a].user /\ r = <<a, u>> /\ C = creditTx(r) /\ N = undoTx(r)
  OBVIOUS
<1>2. /\ JobTypes /\ u \in Users /\ job[a].key \in IdemKeys /\ job' = job /\ UNCHANGED outcome
      /\ UNCHANGED ownVars /\ UNCHANGED <<req, answer>> /\ Advance(N)
  BY <1>1, JobFields DEF AllocationIInv, jobVars, ownVars, Grant
<1>3. /\ r \in Requests /\ C \in Tx /\ N \in Tx /\ C # N /\ N \in TxsOf(r)
  BY <1>1, <1>2, GrantTypes DEF TxsOf
<1>4. /\ GrantFits(a, u) /\ CreditId(r) \in Ids /\ Credited(a, u) /\ job[a].credit = CreditId(r)
      /\ outcome[a][u] = "none" /\ clog[N] = "active" /\ Serving(a, u, {"undoing"})
  BY <1>1, <1>2, Reversing DEF Serving
<1>5. Appending(N, UndoOf(a, u))
  <2>1. call[N].at # "done"
    BY <1>2 DEF Advance, Lock, Insert, Duplicate, Move
  <2> QED BY <1>1, <1>4, <2>1 DEF GrantFits
<1>6. PICK in, i : in = UndoOf(a, u) /\ i = CreditId(r) /\ in.reverses = i /\ in.key = ReversalKey(i)
  <2>1. UndoOf(a, u).reverses = CreditId(r) /\ UndoOf(a, u).key = ReversalKey(CreditId(r))
    BY <1>1 DEF UndoOf
  <2> QED BY <2>1
<1>7. IsCredit(i, job[a].key, u)
  BY <1>1, <1>4, <1>6 DEF Credited
<1>8. in.reverses \in Ids /\ \A q \in Requests : rows[in.reverses].by # reserveTx(q)
  <2>1. \A q : reserveTx(q) \in PhaseTxs(q)
    BY DEF PhaseTxs
  <2> QED BY <1>6, <1>7, <2>1, TxsDiffer DEF IsCredit
<1>9. /\ RedemptionIInv' /\ StockIInv' /\ EntriesIInv' /\ Decided /\ Grown
      /\ LedgerTouch(N) /\ UNCHANGED clog /\ (\A x : x # N => Own(x)' = Own(x))
      /\ Appending(N, in)' \/ FoundTaken(N, in)
  BY <1>1, <1>2, <1>3, <1>5, <1>6, <1>8, OutsideAdvance
<1>10. Moved(a, "undoing") /\ job'[a].credit = job[a].credit
  BY <1>2, <1>1 DEF Moved, JobTypes
<1>11. GrantStep(a, u) /\ JobTypes'
  BY <1>1, <1>2, <1>3, <1>9, <1>10, MovedGrant DEF JobStages
<1>12. call'[C] = call[C] /\ Own(C)' = Own(C) /\ clog'[C] = clog[C]
  BY <1>3, <1>9 DEF LedgerTouch
<1>13. UndoOf(a, u)' = UndoOf(a, u)
  BY <1>1, <1>4, <1>9, <1>12 DEF UndoOf, CreditId, Grown
<1>14. FoundTaken(N, in) => call'[N].at = "done" /\ Undid(a, u)'
  <2> HAVE FoundTaken(N, in)
  <2>1. PICK j \in Holders(ReversalKey(i)) : call'[N].at = "done"
    BY <1>6 DEF FoundTaken
  <2>2. Own(N) = {} /\ Own(N)' = {}
    BY <1>5, <1>6 DEF FoundTaken, Appending, Own, Ids
  <2>3. PICK c \in Attempts(job[a].key, u) : j \in Own(undoTx(<<c, u>>))
    BY <1>2, <1>7, ReversalHolder
  <2>4. c # a
    BY <1>1, <2>2, <2>3
  <2>5. Contested(a, u)
    BY <2>3, <2>4 DEF Contested, Attempts
  <2>6. Contested(a, u)'
    BY <1>11, <2>5, <1>2, <1>9, ContestedStays DEF JobKept
  <2> QED BY <1>1, <2>1, <2>2, <2>6 DEF Undid
<1>15. Appending(N, UndoOf(a, u))' \/ (call'[N].at = "done" /\ Undid(a, u)')
  BY <1>6, <1>9, <1>13, <1>14 DEF Appending, Wrote
<1>16. outcome'[a][u] = "none" /\ clog'[N] = "active"
  BY <1>2, <1>4, <1>9
<1>17. GrantFits(a, u)'
  BY <1>1, <1>2, <1>9, <1>10, <1>11, <1>12, <1>15, <1>16, ReversedFits
<1> QED BY <1>2, <1>9, <1>11, <1>17, GrantInv

\* The reversal's transaction ends: the refusal is reported, or the call is left.
LEMMA UndoEndsInv ==
  ASSUME AllocationIInv, NEW a \in Allocations, job[a].at \in {"undo", "undoing"}, UNCHANGED ownVars,
         \/ Undone(a)
         \/ Fail(undoTx(Grant(a))) /\ Step(a, "dead") /\ UNCHANGED outcome
  PROVE  AllocationIInv'
<1>1. PICK u, r, C, N : u = job[a].user /\ r = <<a, u>> /\ C = creditTx(r) /\ N = undoTx(r)
                        /\ r = Grant(a)
  BY DEF Grant
<1>2. JobTypes /\ u \in Users /\ UNCHANGED <<req, answer>>
  BY <1>1, JobFields DEF AllocationIInv, ownVars
<1>3. /\ r \in Requests /\ C \in Xids /\ N \in Tx /\ C # N /\ N \in TxsOf(r)
  BY <1>1, <1>2, GrantTypes DEF TxsOf
<1>4. /\ GrantFits(a, u) /\ CreditId(r) \in Ids /\ outcome[a][u] = "none" /\ clog[N] = "active"
  BY <1>1, <1>2, Reversing
<1>5. Close(N) \/ Fail(N)
  BY <1>1 DEF Undone
<1>6. /\ RedemptionIInv' /\ StockIInv' /\ EntriesIInv' /\ Decided /\ Grown
      /\ LedgerTouch(N) /\ (\A x \in Xids \ {N} : clog'[x] = clog[x])
      /\ UNCHANGED <<rows, call>> /\ (\A x : Own(x)' = Own(x))
      /\ Close(N) => clog'[N] = "committed"
      /\ Fail(N) => clog'[N] = "aborted"
  BY <1>1, <1>3, <1>5, OutsideFated
<1>7. clog'[C] = clog[C] /\ call'[C] = call[C] /\ Own(C)' = Own(C)
  BY <1>3, <1>6
<1>8. CASE Undone(a)
  <2>1. /\ job[a].at = "undoing" /\ call[N].at = "done" /\ Close(N) /\ Step(a, "next")
        /\ Reported(a, "FAILED")
    BY <1>1, <1>8 DEF Undone, Report, Reported
  <2>2. Moved(a, "next")
    BY <2>1, StepMoves DEF JobStages
  <2>3. GrantStep(a, u) /\ JobTypes'
    BY <1>1, <1>2, <1>3, <1>6, <2>1, <2>2, MovedGrant DEF JobStages
  <2>4. Undid(a, u)
    <3>1. Serving(a, u, {"undoing"})
      BY <1>1, <2>1 DEF Serving
    <3>2. Appending(N, UndoOf(a, u)) \/ Undid(a, u)
      BY <1>1, <1>4, <3>1 DEF GrantFits
    <3> QED BY <1>1, <2>1, <3>2 DEF Appending, Undid
  <2>5. Undid(a, u)'
    <3>1. \A b \in Allocations : JobKept(b)
      BY <2>3 DEF GrantStep, JobKept
    <3> QED BY <1>1, <1>2, <1>4, <1>6, <1>7, <2>1, <2>4, <3>1, UndidStays
  <2>6. clog'[N] = "committed"
    BY <1>6, <2>1
  <2>7. GrantFits(a, u)'
    BY <1>1, <1>2, <1>6, <1>7, <2>1, <2>2, <2>3, <2>5, <2>6, ReversedFits
  <2> QED BY <1>2, <1>6, <2>3, <2>7, GrantInv
<1>9. CASE Fail(undoTx(Grant(a))) /\ Step(a, "dead") /\ UNCHANGED outcome
  <2>1. Moved(a, "dead")
    BY <1>9, StepMoves DEF JobStages
  <2>2. GrantStep(a, u) /\ JobTypes'
    BY <1>1, <1>2, <1>3, <1>6, <1>9, <2>1, MovedGrant DEF JobStages
  <2>3. clog'[N] = "aborted" /\ outcome'[a][u] = "none"
    BY <1>1, <1>4, <1>6, <1>9
  <2>4. GrantFits(a, u)'
    BY <1>1, <1>2, <1>6, <1>7, <2>1, <2>2, <2>3, ReversedFits
  <2> QED BY <1>2, <1>6, <2>2, <2>4, GrantInv
<1> QED BY <1>8, <1>9

\* A call arrives: no grant of it has begun.
LEMMA AllocateInv ==
  ASSUME AllocationIInv, NEW a \in Allocations, NEW k \in IdemKeys, NEW w \in Rewards,
         NEW U \in (SUBSET Users) \ {{}}, Allocate(a, k, w, U)
  PROVE  AllocationIInv'
<1>1. /\ job[a].at = "new" /\ UNCHANGED <<req, answer, clog, rows, call>> /\ UNCHANGED outcome
      /\ UNCHANGED redemptionVars /\ UNCHANGED ledgerVars /\ JobTypes
  BY DEF Allocate, redemptionVars, ownVars, ledgerVars, AllocationIInv
<1>2. RedemptionIInv' /\ StockIInv' /\ EntriesIInv' /\ Decided /\ Grown
  <2>1. [RedemptionNext]_redemptionVars /\ [LedgerNext]_ledgerVars
    BY <1>1
  <2> QED BY <2>1, RedemptionNextInv, StockNextInv, EntriesNextInv, LedgerGrows
          DEF AllocationIInv, RedemptionIInv
<1>3. \A x : Own(x)' = Own(x)
  BY <1>1, NothingAppended
<1>4. /\ job'[a].at = "next" /\ (\A b \in Allocations \ {a} : job'[b] = job[b])
      /\ job' \in [Allocations -> Jobs]
  <2> DEFINE new == [at |-> "next", key |-> k, reward |-> w, left |-> U,
                     user |-> CHOOSE u \in U : TRUE, credit |-> 0]
  <2>1. (CHOOSE u \in U : TRUE) \in Users
    OBVIOUS
  <2>2. new \in Jobs /\ new.at = "next"
    BY <2>1 DEF Jobs
  <2>3. job' = [job EXCEPT ![a] = new]
    BY DEF Allocate
  <2> HIDE DEF new
  <2> QED BY <1>1, <2>2, <2>3 DEF JobTypes
<1>5. JobTypes'
  BY <1>1, <1>4 DEF JobTypes
<1>6. RowsOwned'
  BY <1>1 DEF AllocationIInv, RowsOwned, Ids
<1>7. \A b \in Allocations : JobKept(b)
  BY <1>1, <1>4 DEF JobKept
<1>8. ASSUME NEW b \in Allocations, NEW v \in Users PROVE GrantFits(b, v)'
  <2>1. GrantFits(b, v)
    BY DEF AllocationIInv
  <2>2. CASE b # a
    <3>1. job'[b] = job[b]
      BY <1>4, <2>2
    <3> QED BY <1>1, <1>2, <1>3, <1>7, <2>1, <3>1, FrameFits
  <2>3. CASE b = a
    <3>1. /\ clog[creditTx(<<b, v>>)] = "new" /\ ~ Pursued(<<b, v>>)
          /\ clog[undoTx(<<b, v>>)] = "new" /\ outcome[b][v] = "none"
      BY <1>1, <2>1, <2>3 DEF GrantFits, Pursued
    <3>2. \A X : "next" \notin X => ~ Serving(b, v, X)'
      BY <1>4, <2>3 DEF Serving
    <3> QED BY <1>1, <3>1, <3>2 DEF GrantFits, Pursued
  <2> QED BY <2>2, <2>3
<1> QED BY <1>2, <1>5, <1>6, <1>8 DEF AllocationIInv

\* The catalogue changes, or nothing does.
LEMMA AllocationIdleInv ==
  ASSUME AllocationIInv, UNCHANGED jobVars,
         UNCHANGED redemptionVars \/ \E w \in Rewards : Deactivate(w)
  PROVE  AllocationIInv'
<1>1. UNCHANGED <<req, answer, clog, rows, call>> /\ UNCHANGED <<job, outcome>> /\ UNCHANGED ledgerVars
      /\ [RedemptionNext]_redemptionVars
  BY DEF Deactivate, redemptionVars, ownVars, ledgerVars, jobVars, RedemptionNext
<1>2. RedemptionIInv' /\ StockIInv' /\ EntriesIInv' /\ Decided /\ Grown
  BY <1>1, RedemptionNextInv, StockNextInv, EntriesNextInv, LedgerGrows
  DEF AllocationIInv, RedemptionIInv
<1>3. \A x : Own(x)' = Own(x)
  BY <1>1, NothingAppended
<1>4. JobTypes' /\ RowsOwned'
  BY <1>1 DEF AllocationIInv, JobTypes, RowsOwned, Ids
<1>5. \A b \in Allocations : JobKept(b)
  BY <1>1 DEF JobKept
<1>6. ASSUME NEW b \in Allocations, NEW v \in Users PROVE GrantFits(b, v)'
  <2>1. GrantFits(b, v) /\ job'[b] = job[b]
    BY <1>1 DEF AllocationIInv
  <2> QED BY <1>1, <1>2, <1>3, <1>5, <2>1, FrameFits
<1> QED BY <1>2, <1>4, <1>6 DEF AllocationIInv

LEMMA AllocationInitInv == AllocationInit => AllocationIInv
<1> SUFFICES ASSUME AllocationInit PROVE AllocationIInv
  OBVIOUS
<1>1. /\ RedemptionInit /\ \A a \in Allocations : job[a] = [at |-> "new"]
      /\ \A a \in Allocations, u \in Users : outcome[a][u] = "none"
  BY DEF AllocationInit
<1>2. RedemptionIInv /\ StockIInv /\ EntriesIInv
  BY <1>1, RedemptionInitInv, StockInitInv, EntriesInitInv
<1>3. JobTypes
  BY DEF AllocationInit, JobTypes, Jobs
<1>4. RowsOwned
  BY <1>1, OpeningIsCommitted DEF RedemptionInit, LedgerInit, RowsOwned, Ids
<1>5. ASSUME NEW a \in Allocations, NEW u \in Users PROVE GrantFits(a, u)
  <2>1. clog[creditTx(<<a, u>>)] = "new" /\ clog[undoTx(<<a, u>>)] = "new"
    BY <1>1, GrantTypes DEF RedemptionInit, LedgerInit, PgInit
  <2>2. ~ Pursued(<<a, u>>)
    BY <1>1, GrantTypes DEF RedemptionInit, Pursued
  <2>3. \A X : "new" \notin X => ~ Serving(a, u, X)
    BY <1>1 DEF Serving
  <2> QED BY <1>1, <2>1, <2>2, <2>3 DEF GrantFits
<1> QED BY <1>2, <1>3, <1>4, <1>5 DEF AllocationIInv

LEMMA GiveUpInv ==
  ASSUME AllocationIInv, NEW a \in Allocations, GiveUp(a)
  PROVE  AllocationIInv'
<1>1. Step(a, "dead") /\ UNCHANGED outcome
  BY DEF GiveUp
<1>2. CASE job[a].at \in {"credit", "crediting"} /\ Fail(creditTx(Grant(a))) /\ UNCHANGED ownVars
  BY <1>1, <1>2, CreditFailsInv
<1>3. CASE job[a].at \in {"undo", "undoing"} /\ Fail(undoTx(Grant(a))) /\ UNCHANGED ownVars
  BY <1>1, <1>3, UndoEndsInv
<1>4. CASE job[a].at = "redeeming" /\ Throw(Grant(a))
  BY <1>1, <1>4, AbandonedInv
<1>5. CASE (job[a].at \in {"next", "redeem"} \/ Returned(a)) /\ UNCHANGED redemptionVars
  <2>1. job[a].at \in {"next", "redeem", "redeeming"}
    BY <1>5 DEF Returned
  <2> QED BY <1>1, <1>5, <2>1, StandingInv
<1> QED BY <1>2, <1>3, <1>4, <1>5 DEF GiveUp

LEMMA AllocationNextInv == AllocationIInv /\ [AllocationNext]_allocationVars => AllocationIInv'
<1> SUFFICES ASSUME AllocationIInv, [AllocationNext]_allocationVars PROVE AllocationIInv'
  OBVIOUS
<1>1. CASE UNCHANGED allocationVars
  <2>1. UNCHANGED jobVars /\ UNCHANGED redemptionVars
    BY <1>1 DEF allocationVars
  <2> QED BY <2>1, AllocationIdleInv
<1>2. CASE (\E w \in Rewards : Deactivate(w)) /\ UNCHANGED jobVars
  BY <1>2, AllocationIdleInv
<1>3. ASSUME NEW a \in Allocations, Bookkeeping(a) PROVE AllocationIInv'
  <2>1. UNCHANGED <<jobVars, ownVars>>
    BY <1>3 DEF Bookkeeping
  <2> QED BY <1>3, <2>1, CreditingInv, UndoingInv DEF Bookkeeping
<1>4. ASSUME NEW a \in Allocations, ReportAnswer(a) PROVE AllocationIInv'
  <2>1. /\ job[a].at = "redeeming" /\ req[Grant(a)].at = "done"
        /\ answer[Grant(a)].status \notin {"refused", "error"} /\ Step(a, "next")
        /\ UNCHANGED redemptionVars /\ \E x : Reported(a, x)
    BY <1>4 DEF ReportAnswer, Returned, Report, Reported
  <2> QED BY <2>1, StandingInv
<1>5. ASSUME NEW a \in Allocations, Reply(a) PROVE AllocationIInv'
  BY <1>5, StandingInv DEF Reply
<1>6. ASSUME NEW a \in Allocations, Undone(a) PROVE AllocationIInv'
  BY <1>6, UndoEndsInv DEF Undone
<1>7. ASSUME NEW a \in Allocations,
             \/ \E u \in Users : NextUser(a, u)
             \/ CreditUser(a) \/ CreditedUser(a) \/ RedeemFor(a) \/ Redeeming(a)
             \/ StartUndo(a) \/ Undo(a) \/ GiveUp(a)
      PROVE  AllocationIInv'
  BY <1>7, NextUserInv, CreditUserInv, CreditedUserInv, RedeemForInv, RedeemingInv,
     StartUndoInv, UndoInv, GiveUpInv
<1> QED BY <1>1, <1>2, <1>3, <1>4, <1>5, <1>6, <1>7, AllocateInv DEF AllocationNext

\* Points move through the ledger's operations alone.
LEMMA AllocationStep ==
  AllocationIInv /\ [AllocationNext]_allocationVars => [LedgerNext]_ledgerVars
<1> SUFFICES ASSUME AllocationIInv, [AllocationNext]_allocationVars PROVE [LedgerNext]_ledgerVars
  OBVIOUS
<1>1. CASE UNCHANGED redemptionVars
  BY <1>1 DEF redemptionVars
<1>2. ASSUME NEW a \in Allocations, NEW u \in Users, NEW r, r = <<a, u>>,
             NEW t \in {creditTx(r), undoTx(r)}, Open(t) \/ Close(t) \/ Fail(t) \/ Advance(t)
      PROVE  LedgerNext
  <2>1. t \in Tx
    BY <1>2, GrantTypes
  <2> QED BY <1>2, <2>1 DEF LedgerNext, AppendStep
<1>3. ASSUME NEW a \in Allocations, job[a].at # "new", NEW t \in {creditTx(Grant(a)), undoTx(Grant(a))},
             Open(t) \/ Close(t) \/ Fail(t) \/ Advance(t)
      PROVE  LedgerNext
  <2>1. job[a].user \in Users
    BY <1>3, JobFields DEF AllocationIInv
  <2> QED BY <1>2, <1>3, <2>1 DEF Grant
<1>4. CASE RedemptionNext
  BY <1>4, RedemptionStep DEF AllocationIInv, RedemptionIInv
<1>5. ASSUME NEW a \in Allocations, job[a].at # "new", Serve(Grant(a)) \/ Throw(Grant(a))
      PROVE  [LedgerNext]_ledgerVars
  <2>1. Grant(a) \in Requests
    BY <1>5, JobFields, GrantTypes DEF AllocationIInv, Grant
  <2> QED BY <1>4, <1>5, <2>1 DEF RedemptionNext
<1>6. ASSUME NEW a \in Allocations, CreditUser(a) PROVE LedgerNext
  <2>1. /\ job[a].at # "new" /\ creditTx(Grant(a)) \in Tx /\ job[a].user \in Users
        /\ Cost[job[a].reward] \in Deltas /\ AdminKey(job[a].key, job[a].user) \in EventKeys
    BY <1>6, JobFields, GrantTypes DEF AllocationIInv, CreditUser, Grant
  <2> QED BY <1>6, <2>1 DEF CreditUser, CreditInput, LedgerNext
<1>7. ASSUME NEW a \in Allocations, Undo(a) PROVE LedgerNext
  <2>1. undoTx(Grant(a)) \in Tx
    BY <1>7, JobFields, GrantTypes DEF AllocationIInv, Undo, Grant
  <2> QED BY <1>7, <2>1 DEF Undo, ReverseEntry, LedgerNext
<1>8. ASSUME NEW a \in Allocations, RedeemFor(a) PROVE [LedgerNext]_ledgerVars
  <2>1. /\ Grant(a) \in Requests /\ job[a].user \in Users /\ job[a].key \in IdemKeys
        /\ job[a].reward \in Rewards
    BY <1>8, JobFields, GrantTypes DEF AllocationIInv, RedeemFor, Grant
  <2> QED BY <1>4, <1>8, <2>1 DEF RedeemFor, RedemptionNext
<1>9. ASSUME NEW a \in Allocations, NEW u \in Users, NextUser(a, u) PROVE LedgerNext
  BY <1>2, <1>9 DEF NextUser
<1>10. ASSUME NEW a \in Allocations,
              \/ Bookkeeping(a) \/ CreditedUser(a) \/ StartUndo(a) \/ Undone(a)
       PROVE  LedgerNext
  BY <1>3, <1>10 DEF Bookkeeping, CreditedUser, StartUndo, Undone, Returned
<1>11. ASSUME NEW a \in Allocations, Redeeming(a) PROVE [LedgerNext]_ledgerVars
  BY <1>5, <1>11 DEF Redeeming
<1>12. ASSUME NEW a \in Allocations, GiveUp(a) PROVE [LedgerNext]_ledgerVars
  BY <1>1, <1>3, <1>5, <1>12 DEF GiveUp
<1>13. ASSUME NEW a \in Allocations, ReportAnswer(a) \/ Reply(a) PROVE [LedgerNext]_ledgerVars
  BY <1>1, <1>13 DEF ReportAnswer, Reply
<1>14. ASSUME NEW a \in Allocations, NEW k, NEW w, NEW U, Allocate(a, k, w, U)
       PROVE  [LedgerNext]_ledgerVars
  BY <1>1, <1>14 DEF Allocate
<1>15. CASE \E w \in Rewards : Deactivate(w)
  BY <1>4, <1>15 DEF RedemptionNext
<1>16. CASE UNCHANGED allocationVars
  BY <1>1, <1>16 DEF allocationVars
<1> QED BY <1>6, <1>7, <1>8, <1>9, <1>10, <1>11, <1>12, <1>13, <1>14, <1>15, <1>16
        DEF AllocationNext
-----------------------------------------------------------------------------
(* Where each administrator's call is with a user, what its transactions have *)
(* written and what it reports agree in every state, however calls, their     *)
(* redemptions, their failures and crashes interleave (allocateReward).       *)
THEOREM AllocationSafe == AllocationSpec => []AllocationIInv
<1> QED BY AllocationInitInv, AllocationNextInv, PTL DEF AllocationSpec

(* Behind any number of allocations the ledger is the one Ledger specifies:   *)
(* credits, redemptions and reversals move points only as appendEntry and     *)
(* reverseEntry do.                                                           *)
THEOREM AllocationIsLedger == AllocationSpec => LedgerSpec
<1>1. AllocationInit => LedgerInit
  BY DEF AllocationInit, RedemptionInit
<1> QED BY AllocationSafe, <1>1, AllocationStep, PTL DEF AllocationSpec, LedgerSpec

(* What redemptions and the ledger promise holds while administrators         *)
(* allocate: points follow the record, stock is conserved, callers are told   *)
(* the truth, a replay wins, only a crash strands a redemption; the books     *)
(* reconcile, apply a key once and let only a clawback take a balance below   *)
(* zero (allocateReward calls redeem as the route does).                      *)
THEOREM AllocationKeepsPromises ==
  AllocationSpec => /\ []PointsFollowRedemptions /\ []StockConserved /\ []AnswersAreTrue
                    /\ []ReplayWins /\ []StrandedOnlyByCrash
                    /\ []ReconcileEmpty /\ []KeyAppliedOnce /\ []ReversalCancelsOnce
                    /\ OnlyClawbackGoesNegative /\ LedgerIsAtomic
<1>1. AllocationIInv => /\ PointsFollowRedemptions /\ StockConserved /\ AnswersAreTrue
                        /\ ReplayWins /\ StrandedOnlyByCrash
  BY PointsInv, ConservedInv, AnswersInv, ReplayInv, StrandedInv DEF AllocationIInv
<1> QED BY AllocationSafe, AllocationIsLedger, LedgerReconciles, LedgerAppliesKeysOnce,
           LedgerReversesOnce, LedgerOnlyClawbackGoesNegative, LedgerIsImplemented, <1>1, PTL

-----------------------------------------------------------------------------
LEMMA AtMostOne ==
  ASSUME NEW S, \A x, y \in S : x = y
  PROVE  Cardinality(S) <= 1
<1>1. CASE S = {}
  BY <1>1, FS_EmptySet
<1>2. ASSUME NEW x \in S PROVE Cardinality(S) <= 1
  <2>1. S = {x}
    BY <1>2
  <2>2. Cardinality({x}) = 1
    BY FS_Singleton
  <2> QED BY <2>1, <2>2
<1> QED BY <1>1, <1>2

\* Who holds a redemption readers see, and the call it was made for.
LEMMA SeenGrant ==
  ASSUME AllocationIInv, NEW s \in Slots, Seen(s) # Absent
  PROVE  \E b \in Allocations, v \in Users :
           /\ Seen(s).of = <<b, v>> /\ s = <<v, job[b].key>>
           /\ job[b].at # "new" /\ clog[creditTx(<<b, v>>)] = "committed"
<1>1. PICK q \in Requests : q = Seen(s).of /\ Pursued(q) /\ Slot(q) = s
  BY DEF AllocationIInv, RedemptionIInv, RowFits, Recorded
<1>2. PICK b \in Allocations, v \in Users : q = <<b, v>>
  BY GrantOf
<1>3. /\ clog[creditTx(q)] = "committed" /\ req[q].user = v /\ req[q].key = job[b].key
      /\ job[b].at # "new"
  BY <1>1, <1>2 DEF AllocationIInv, GrantFits
<1> QED BY <1>1, <1>2, <1>3 DEF Slot

\* A call that charged a user holds the redemption under its key.
LEMMA ChargedIsSeen ==
  ASSUME AllocationIInv, NEW a \in Allocations, NEW u \in Users, Debits(<<a, u>>) # {}
  PROVE  <<u, job[a].key>> \in Slots /\ Seen(<<u, job[a].key>>).of = <<a, u>>
<1>1. PICK r \in Requests : r = <<a, u>>
  BY GrantTypes
<1>2. clog[reserveTx(r)] = "committed" /\ Own(reserveTx(r)) # {}
  BY <1>1 DEF Debits, Entries, IsCommitted, Own
<1>3. HasRecord(r)
  BY <1>2 DEF AllocationIInv, EntriesIInv, EntryFits
<1>4. PICK s \in Slots : Seen(s) # Absent /\ Seen(s).of = r
  BY <1>3 DEF HasRecord
<1>5. s = <<u, job[a].key>>
  <2>1. PICK b \in Allocations, v \in Users : Seen(s).of = <<b, v>> /\ s = <<v, job[b].key>>
    BY <1>4, SeenGrant
  <2>2. b = a /\ v = u
    BY <1>1, <1>4, <2>1
  <2> QED BY <2>1, <2>2
<1> QED BY <1>1, <1>4, <1>5

LEMMA AllocatesInv == AllocationIInv => AllocatesOnce
<1> SUFFICES ASSUME AllocationIInv, NEW k \in IdemKeys, NEW u \in Users
             PROVE  /\ Cardinality(AdminCredits(k, u)) <= 1
                    /\ Cardinality({a \in Attempts(k, u) : Debits(<<a, u>>) # {}}) <= 1
  BY DEF AllocatesOnce
<1>1. ASSUME NEW i \in AdminCredits(k, u), NEW j \in AdminCredits(k, u) PROVE i = j
  <2>1. /\ i \in Ids /\ j \in Ids /\ rows[i].key = rows[j].key /\ rows[i].key # NoKey
        /\ clog[rows[i].by] = "committed" /\ clog[rows[j].by] = "committed"
    BY AdminKeyIsIts DEF AdminCredits, Entries, IsCommitted
  <2> QED BY <2>1 DEF AllocationIInv, RedemptionIInv, LedgerIInv, OneLiveHolder
<1>2. ASSUME NEW a \in Attempts(k, u), NEW b \in Attempts(k, u),
             Debits(<<a, u>>) # {}, Debits(<<b, u>>) # {}
      PROVE  a = b
  <2>1. Seen(<<u, k>>).of = <<a, u>> /\ Seen(<<u, k>>).of = <<b, u>>
    BY <1>2, ChargedIsSeen DEF Attempts
  <2> QED BY <2>1
<1>3. \A a, b \in {c \in Attempts(k, u) : Debits(<<c, u>>) # {}} : a = b
  BY <1>2
<1> QED BY <1>1, <1>3, AtMostOne

(* However many calls carry a key, whether they overlap, fail or crash, a     *)
(* user is credited once and charged once under it (AllocatesOnce; the        *)
(* idempotency keys of the credit and of the redemption).                     *)
THEOREM AllocationsGrantOnce == AllocationSpec => []AllocatesOnce
<1> QED BY AllocationSafe, AllocatesInv, PTL

-----------------------------------------------------------------------------
\* A transaction that wrote one entry adds up to it, and two of them to both.
LEMMA OneEntry ==
  ASSUME LedgerIInv, NEW u \in Users, NEW t, NEW in, Wrote(t, in), in.user = u
  PROVE  Total(rows, u, {t}) = in.delta
<1>1. PICK rs \in Seq(Row) : rs = rows
  BY DEF LedgerIInv, LedgerTypeOK
<1>2. PICK i \in Ids : Own(t) = {i} /\ rs[i].user = u /\ rs[i].delta = in.delta
  BY <1>1 DEF Wrote
<1>3. OnlyRow(rs, t, i)
  BY <1>1, <1>2 DEF OnlyRow, Own, Ids
<1>4. Total(rs, rs[i].user, {t}) = rs[i].delta
  BY <1>3, TotalSingle
<1> QED BY <1>1, <1>2, <1>4

LEMMA TwoEntries ==
  ASSUME LedgerIInv, NEW u \in Users, NEW s, NEW t, s # t, NEW in, NEW on,
         Wrote(s, in), Wrote(t, on), in.user = u, on.user = u
  PROVE  Total(rows, u, {s, t}) = in.delta + on.delta
<1>1. rows \in Seq(Row)
  BY DEF LedgerIInv, LedgerTypeOK
<1>2. Total(rows, u, {s}) = in.delta /\ Total(rows, u, {t}) = on.delta
  BY OneEntry
<1>3. {s} \cap {t} = {} /\ {s, t} = {s} \cup {t}
  OBVIOUS
<1> QED BY <1>1, <1>2, <1>3, TotalUnion

LEMMA NeutralInv == AllocationIInv => FirstAttemptIsNeutral
<1> SUFFICES ASSUME AllocationIInv, NEW a \in Allocations, NEW u \in Users,
                    outcome[a][u] # "none", Attempts(job[a].key, u) = {a},
                    answer[<<a, u>>].status \in {"FULFILLED", "refused"}
             PROVE  Net(a, u) = 0
  BY DEF FirstAttemptIsNeutral
<1>1. PICK r \in Requests : r = <<a, u>>
  BY GrantTypes
<1>2. PICK C, R, S, N : /\ C = creditTx(r) /\ R = reserveTx(r)
                        /\ S = settleTx(r) /\ N = undoTx(r)
  OBVIOUS
<1>3. GrantFits(a, u) /\ EntryFits(r) /\ AnswerFits(r) /\ LedgerIInv /\ JobTypes
  BY DEF AllocationIInv, EntriesIInv, RedemptionIInv
<1>4. C # R /\ C # N /\ {C, R, S, N} \subseteq Xids /\ TxsOf(r) = {C, R, S, N}
  BY <1>1, <1>2, GrantTypes, TxTypes, TxsDiffer DEF TxsOf, PhaseTxs
<1>5. req[r].at = "done" /\ Pursued(r)
  BY <1>1, <1>3 DEF GrantFits, Pursued
<1>6. /\ clog[C] = "committed" /\ req[r].user = u /\ req[r].key = job[a].key
      /\ req[r].reward = job[a].reward /\ job[a].at # "new" /\ Credited(a, u)
  BY <1>1, <1>2, <1>3, <1>5 DEF GrantFits
<1>7. Wrote(C, CreditOf(a, u))
  <2>1. ~ Contested(a, u)
    BY DEF Contested
  <2> QED BY <1>1, <1>2, <1>6, <2>1 DEF Credited
<1>8. PICK p \in Nat : p = Cost[job[a].reward]
  BY <1>3, <1>6, JobFields
<1>9. CreditOf(a, u).user = u /\ CreditOf(a, u).delta = p
  BY <1>8 DEF CreditOf
<1>10. p + (-p) = 0
  OBVIOUS
<1>11. CASE answer[r].status = "refused"
  <2>1. clog[R] = "aborted"
    BY <1>2, <1>3, <1>11 DEF AnswerFits
  <2>2. clog[S] = "new"
    <3>1. ~ HasRecord(r)
      BY <1>2, <2>1 DEF HasRecord, AllocationIInv, RedemptionIInv, RowFits, Recorded
    <3> QED BY <1>2, <1>3, <3>1 DEF EntryFits
  <2>3. clog[N] = "committed" /\ Wrote(N, UndoOf(a, u))
    <3>1. clog[N] = "committed" /\ Undid(a, u)
      BY <1>1, <1>2, <1>3, <1>11 DEF GrantFits
    <3>2. ~ Contested(a, u)
      BY DEF Contested
    <3> QED BY <1>1, <1>2, <3>1, <3>2 DEF Undid
  <2>4. UndoOf(a, u).user = u /\ UndoOf(a, u).delta = -p
    BY <1>1, <1>2, <1>7, <1>9 DEF Wrote, UndoOf, CreditId
  <2>5. Total(rows, u, {C, N}) = p + (-p)
    <3>1. PICK in, on : in = CreditOf(a, u) /\ on = UndoOf(a, u)
      OBVIOUS
    <3>2. Total(rows, u, {C, N}) = in.delta + on.delta
      BY <1>3, <1>4, <1>7, <1>9, <2>3, <2>4, <3>1, TwoEntries
    <3> QED BY <1>9, <2>4, <3>1, <3>2
  <2>6. TxsOf(r) \cap Committed = {C, N}
    BY <1>4, <1>6, <2>1, <2>2, <2>3 DEF Committed, IsCommitted
  <2> QED BY <1>1, <1>10, <2>5, <2>6 DEF Net
<1>12. CASE answer[r].status = "FULFILLED"
  <2>1. PICK s \in Slots : s = Slot(r) /\ s = <<u, job[a].key>>
    <3>1. job[a].key \in IdemKeys
      BY <1>3, <1>6, JobFields
    <3> QED BY <1>6, <3>1 DEF Slot, Slots
  <2>2. Seen(s) # Absent /\ Seen(s).status = "FULFILLED"
    BY <1>3, <1>12, <2>1 DEF AnswerFits, Agrees
  <2>3. Seen(s).of = r
    <3>1. PICK b \in Allocations, v \in Users :
            /\ Seen(s).of = <<b, v>> /\ s = <<v, job[b].key>>
            /\ job[b].at # "new" /\ clog[creditTx(<<b, v>>)] = "committed"
      BY <2>1, <2>2, SeenGrant
    <3>2. v = u /\ job[b].key = job[a].key
      BY <2>1, <3>1
    <3>3. b \in Attempts(job[a].key, u)
      BY <3>1, <3>2 DEF Attempts
    <3> QED BY <1>1, <3>1, <3>2, <3>3
  <2>4. HasRecord(r) /\ clog[R] = "committed"
    <3>1. Recorded(s)
      BY <2>1 DEF AllocationIInv, RedemptionIInv, RowFits
    <3> QED BY <1>2, <2>1, <2>2, <2>3, <3>1 DEF HasRecord, Recorded
  <2>5. Wrote(R, DebitOf(r)) /\ DebitOf(r).user = u /\ DebitOf(r).delta = -p
    BY <1>2, <1>3, <1>6, <1>8, <2>4 DEF EntryFits, Debited, DebitOf
  <2>6. clog[S] # "committed" /\ clog[N] # "committed"
    <3>1. clog[S] # "committed"
      BY <1>2, <1>3, <2>1, <2>2, <2>3 DEF EntryFits, StatusFits
    <3>2. clog[N] = "new"
      BY <1>1, <1>2, <1>3, <1>12 DEF GrantFits
    <3> QED BY <3>1, <3>2
  <2>7. Total(rows, u, {C, R}) = p + (-p)
    <3>1. PICK in, on : in = CreditOf(a, u) /\ on = DebitOf(r)
      OBVIOUS
    <3>2. Total(rows, u, {C, R}) = in.delta + on.delta
      BY <1>3, <1>4, <1>7, <1>9, <2>5, <3>1, TwoEntries
    <3> QED BY <1>9, <2>5, <3>1, <3>2
  <2>8. TxsOf(r) \cap Committed = {C, R}
    BY <1>4, <1>6, <2>4, <2>6 DEF Committed, IsCommitted
  <2> QED BY <1>1, <1>10, <2>7, <2>8 DEF Net
<1> QED BY <1>1, <1>11, <1>12

(* The first attempt under a key that redeem() fulfils or refuses leaves the  *)
(* user's points where they were: the credit is spent, or reversed, whatever  *)
(* other administrators and users do meanwhile (FirstAttemptIsNeutral).       *)
THEOREM FirstAttemptsAreNeutral == AllocationSpec => []FirstAttemptIsNeutral
<1> QED BY AllocationSafe, NeutralInv, PTL
=============================================================================
