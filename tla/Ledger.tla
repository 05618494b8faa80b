------------------------------- MODULE Ledger -------------------------------
(* modules/ledger/ledger.service.ts: the append-only points ledger and the    *)
(* cached balance that moves with it. appendEntry runs inside a transaction   *)
(* of its caller, one statement per action: lock the balance row, claim the   *)
(* entry's idempotency key, check, move the balance. Every other module       *)
(* drives its points through these actions.                                   *)
EXTENDS Postgres, Sequences

CONSTANTS Users,
          Deltas,          \* amounts callers append
          EventKeys,       \* (source, externalEventId) pairs callers use
          NoKey,           \* externalEventId IS NULL: never conflicts
          NoEntry,         \* reversesId of an entry that reverses nothing
          Opening,         \* the entries the ledger starts with, as seeded
          AppendsPerTx     \* bound: appendEntry calls in one transaction

ASSUME DeltasAreNonZeroIntegers == Deltas \subseteq Int \ {0}
ASSUME AppendsBound == AppendsPerTx \in Nat
ASSUME NoEntryIsNoId == NoEntry \notin Nat
ASSUME EventKeysAreNotReversals ==
  /\ NoKey \notin EventKeys
  /\ \A k \in EventKeys \cup {NoKey} : k \notin {"reversal"} \X Nat

VARIABLES rows,   \* point_transactions, in insertion order; an id is a position
          bal,    \* user_balances, a row per user (a missing row reads as 0)
          call    \* the appendEntry call each transaction is in

ledgerVars == <<clog, rows, bal, call>>

Ids == 1 .. Len(rows)
ReversalKey(i) == <<"reversal", i>>
Enforced(in) == in.reverses = NoEntry

Input == [user : Users, delta : Int \ {0},
          key : EventKeys \cup {NoKey} \cup ({"reversal"} \X Nat),
          reverses : Nat \cup {NoEntry}]
Row == [user : Users, delta : Int \ {0},
        key : EventKeys \cup {NoKey} \cup ({"reversal"} \X Nat),
        reverses : Nat \cup {NoEntry}, by : Xids]

ASSUME OpeningIsCommitted ==
  /\ Opening \in Seq(Row)
  /\ \A i \in 1 .. Len(Opening) : LET r == Opening[i] IN
       r.by = Setup /\ r.key = NoKey /\ r.reverses = NoEntry

NotCalled == [at |-> "idle", made |-> 0]

\* SUM(delta) over the entries of user u written by the transactions in X.
Part(r, u, X) == IF r.user = u /\ r.by \in X THEN r.delta ELSE 0
Total(rs, u, X) == LET sum[n \in 0 .. Len(rs)] ==
                         IF n = 0 THEN 0 ELSE sum[n - 1] + Part(rs[n], u, X)
                   IN  sum[Len(rs)]

LedgerInit == /\ PgInit
              /\ rows = Opening
              /\ bal = [u \in Users |-> Loaded(Total(Opening, u, {Setup}))]
              /\ call = [t \in Tx |-> NotCalled]

-----------------------------------------------------------------------------
InCall(t) == call[t].at \in {"lock", "claim", "move"}
\* Seeded fault: a caller locks one user's row ahead and appends for another.
AppendForAnyone(t, in) ==
  /\ IsActive(t) /\ ~ InCall(t) /\ call[t].made < AppendsPerTx
  /\ call' = [call EXCEPT ![t] = [at |-> "lock", made |-> @.made + 1, in |-> in]]
  /\ UNCHANGED <<clog, rows, bal>>

\* appendEntry is called; its first statement is lockBalance. A caller that
\* locked a balance row ahead appends for the same user.
AppendEntry(t, in) ==
  /\ IsActive(t) /\ ~ InCall(t)
  /\ call[t].at = "ahead" => in.user = call[t].user
  /\ call[t].made < AppendsPerTx
  /\ call' = [call EXCEPT ![t] = [at |-> "lock", made |-> @.made + 1, in |-> in]]
  /\ UNCHANGED <<clog, rows, bal>>
\* Seeded fault: the reversal carries no key of its own.
ReverseUnkeyed(t, i) ==
  /\ i \in Ids /\ SeenBy(t, rows[i].by)
  /\ AppendEntry(t, [user |-> rows[i].user, delta |-> -rows[i].delta,
                     key |-> NoKey, reverses |-> i])

\* reverseEntry: read the original, then append its mirror image.
ReverseEntry(t, i) ==
  /\ i \in Ids /\ SeenBy(t, rows[i].by)
  /\ AppendEntry(t, [user |-> rows[i].user, delta |-> -rows[i].delta,
                     key |-> ReversalKey(i), reverses |-> i])
\* Seeded fault: a plain SELECT of the balance row, without FOR UPDATE.
ReadBalance(t, u) == UNCHANGED bal

\* lockBalance: materialise the row if it is missing and take its lock.
LockBalance(t, u) ==
  /\ ~ Waits(t, bal[u])
  /\ bal' = [bal EXCEPT ![u] = Locked(t, @)]

\* A caller that must hold the balance row before its own locks: redemption.
LockAhead(t, u) ==
  /\ IsActive(t) /\ call[t].at = "idle"
  /\ LockBalance(t, u)
  /\ call' = [call EXCEPT ![t] = [at |-> "ahead", made |-> @.made, user |-> u]]
  /\ UNCHANGED <<clog, rows>>

Lock(t) ==
  LET u == call[t].in.user IN
  /\ IsActive(t) /\ call[t].at = "lock"
  /\ LockBalance(t, u)
  /\ call' = [call EXCEPT ![t] = [at |-> "claim", made |-> @.made, in |-> @.in,
                                  before |-> View(t, bal[u])]]
  /\ UNCHANGED <<clog, rows>>
\* Seeded fault: the claim looks the key up instead of relying on the index.
VisibleHolders(key) == {i \in Ids : /\ key # NoKey /\ rows[i].key = key
                                    /\ IsCommitted(rows[i].by)}

\* Entries other than rolled-back ones that hold the key: the unique index.
Holders(key) == {i \in Ids : /\ key # NoKey /\ rows[i].key = key
                             /\ clog[rows[i].by] \in {"active", "committed"}}
ClaimWaits(t) == \E i \in Holders(call[t].in.key) : Waits(t, rows[i])

\* INSERT ... ON CONFLICT DO NOTHING RETURNING id.
Insert(t) ==
  LET in == call[t].in IN
  /\ IsActive(t) /\ call[t].at = "claim" /\ Holders(in.key) = {}
  /\ rows' = Append(rows, [user |-> in.user, delta |-> in.delta, key |-> in.key,
                           reverses |-> in.reverses, by |-> t])
  /\ call' = [call EXCEPT ![t] = [at |-> "move", made |-> @.made, in |-> in,
                                  before |-> @.before, id |-> Len(rows) + 1]]
  /\ UNCHANGED <<clog, bal>>

\* The conflicting entry is committed, or this transaction's own.
Duplicate(t) ==
  /\ IsActive(t) /\ call[t].at = "claim" /\ ~ ClaimWaits(t)
  /\ \E i \in Holders(call[t].in.key) :
       call' = [call EXCEPT ![t] = [at |-> "done", made |-> @.made,
                                    id |-> i, duplicate |-> TRUE]]
  /\ UNCHANGED <<clog, rows, bal>>
\* Seeded fault: every append is exempt, as a reversal is.
NeverOverdraws(t) == FALSE

\* Only a debit can overdraw, and a reversal is never refused.
Overdraws(t) == LET c == call[t] IN
                Enforced(c.in) /\ c.in.delta < 0 /\ c.before + c.in.delta < 0

\* InsufficientPointsError, thrown through the caller's transaction.
Refuse(t) ==
  /\ call[t].at = "move" /\ Overdraws(t)
  /\ Abort(t)
  /\ UNCHANGED <<rows, bal, call>>
\* UPDATE user_balances SET balance = balanceAfter: the checked value.
Move(t) ==
  LET c == call[t] IN
  /\ IsActive(t) /\ c.at = "move" /\ ~ Overdraws(t)
  /\ bal' = [bal EXCEPT ![c.in.user] = Written(t, @, c.before + c.in.delta)]
  /\ call' = [call EXCEPT ![t] = [at |-> "done", made |-> c.made,
                                  id |-> c.id, duplicate |-> FALSE]]
  /\ UNCHANGED <<clog, rows>>

Advance(t) == Lock(t) \/ Insert(t) \/ Duplicate(t) \/ Move(t)
AppendStep(t) == Advance(t) \/ Refuse(t)

\* The caller's transaction around the calls.
Open(t) == Begin(t) /\ UNCHANGED <<rows, bal, call>>
Close(t) == ~ InCall(t) /\ Commit(t) /\ UNCHANGED <<rows, bal, call>>
Fail(t) == Abort(t) /\ UNCHANGED <<rows, bal, call>>

LedgerNext ==
  \E t \in Tx :
    \/ Open(t)
    \/ \E u \in Users : LockAhead(t, u)
    \/ \E u \in Users, d \in Deltas, k \in EventKeys \cup {NoKey} :
         AppendEntry(t, [user |-> u, delta |-> d, key |-> k, reverses |-> NoEntry])
    \/ \E i \in Ids : ReverseEntry(t, i)
    \/ AppendStep(t)
    \/ Close(t)
    \/ Fail(t)

LedgerSpec == LedgerInit /\ [][LedgerNext]_ledgerVars

-----------------------------------------------------------------------------
Committed == {t \in Xids : IsCommitted(t)}
Entries == {i \in Ids : IsCommitted(rows[i].by)}
Balance(u) == Latest(bal[u])

\* Types of the ledger's state.
CallState ==
  [at : {"idle"}, made : Nat]
    \cup [at : {"ahead"}, made : Nat, user : Users]
    \cup [at : {"lock"}, made : Nat, in : Input]
    \cup [at : {"claim"}, made : Nat, in : Input, before : Int]
    \cup [at : {"move"}, made : Nat, in : Input, before : Int, id : Nat]
    \cup [at : {"done"}, made : Nat, id : Nat, duplicate : BOOLEAN]

LedgerTypeOK == /\ clog \in [Xids -> Fates]
                /\ rows \in Seq(Row)
                /\ bal \in [Users -> Cell(Int)]
                /\ call \in [Tx -> CallState]

(* reconcile() is empty in every state a reader can observe: the cached       *)
(* balance equals the sum of the committed entries, whatever the transactions *)
(* in flight have written (reconcile, appendEntry).                           *)
ReconcileEmpty == \A u \in Users : Balance(u) = Total(rows, u, Committed)

(* An idempotency key is never credited twice, however calls with the same    *)
(* key interleave, commit and roll back (ON CONFLICT (source,                 *)
(* external_event_id), appendEntry).                                          *)
KeyAppliedOnce ==
  \A i, j \in Entries : i # j => \/ rows[i].key = NoKey
                                 \/ rows[i].key # rows[j].key

(* An entry is reversed at most once, by an entry of the same user that       *)
(* cancels it exactly, and the original is itself part of the ledger          *)
(* (reverseEntry; the unique index on reverses_id).                           *)
ReversalCancelsOnce ==
  \A i \in Entries :
    rows[i].reverses # NoEntry =>
      LET o == rows[i].reverses IN
      /\ o \in Entries
      /\ rows[i].user = rows[o].user /\ rows[i].delta = -rows[o].delta
      /\ \A j \in Entries \ {i} : rows[j].reverses # o

(* A spend never takes a balance below zero: when a commit lowers a balance   *)
(* to a negative value, the transaction wrote a reversal for that user (the   *)
(* refusal in appendEntry, and its exemption for clawbacks).                  *)
OnlyClawbackGoesNegative ==
  [][\A u \in Users :
       Balance(u)' < 0 /\ Balance(u)' < Balance(u) =>
         \E i \in Entries' \ Entries :
            rows[i].user = u /\ rows[i].reverses # NoEntry]_ledgerVars

(* Nobody waits on everybody: there is no set of transactions each of which   *)
(* waits for a row or a key another of them holds (the lock ordering comment  *)
(* of appendEntry).                                                           *)
WaitsFor(t, s) ==
  IsActive(t) /\ IsActive(s) /\ s # t /\
  \/ call[t].at = "lock" /\ bal[call[t].in.user].by = s
  \/ call[t].at = "claim" /\ \E i \in Holders(call[t].in.key) : rows[i].by = s
NoDeadlock ==
  \A S \in (SUBSET Tx) \ {{}} : \E t \in S : \A s \in S : ~ WaitsFor(t, s)

-----------------------------------------------------------------------------
(* The inductive invariant behind the properties above.                      *)

\* What a call has inserted and not yet moved.
Unmoved(t, u) == IF call[t].at = "move" /\ call[t].in.user = u
                 THEN call[t].in.delta ELSE 0

RowAddsUp(u) ==
  LET c == bal[u] IN
    /\ clog[c.by] # "new"
    /\ IsCommitted(c.by) => c.now = Total(rows, u, Committed)
    /\ ~ IsCommitted(c.by) => c.was = Total(rows, u, Committed)
    /\ IsActive(c.by) => c.now + Unmoved(c.by, u) = c.was + Total(rows, u, {c.by})
BalanceRowsAddUp == \A u \in Users : RowAddsUp(u)

\* Who has an uncommitted entry for a user holds that user's balance row.
EntriesUnderLock ==
  \A i \in Ids : /\ clog[rows[i].by] # "new"
                 /\ IsActive(rows[i].by) => bal[rows[i].user].by = rows[i].by

CallsUnderLock ==
  \A t \in Tx :
    /\ clog[t] = "new" => call[t] = NotCalled
    /\ IsActive(t) /\ call[t].at \in {"claim", "move"} =>
         LET u == call[t].in.user IN
         bal[u].by = t /\ call[t].before = bal[u].now
    /\ call[t].at = "move" =>
         LET i == call[t].id IN
         /\ i \in Ids /\ rows[i].by = t
         /\ rows[i].user = call[t].in.user /\ rows[i].reverses = call[t].in.reverses

OneLiveHolder ==
  \A i, j \in Ids :
    i # j /\ rows[i].key # NoKey /\ rows[i].key = rows[j].key =>
      "aborted" \in {clog[rows[i].by], clog[rows[j].by]}

\* r reverses an entry that r's transaction t saw.
ReversesSeen(r, t) ==
  LET o == r.reverses IN
  IF o = NoEntry THEN r.key \in EventKeys \cup {NoKey}
  ELSE /\ o \in Ids /\ SeenBy(t, rows[o].by) /\ r.key = ReversalKey(o)
       /\ r.user = rows[o].user /\ r.delta = -rows[o].delta
ReversalsSeen ==
  /\ \A i \in Ids : ReversesSeen(rows[i], rows[i].by)
  /\ \A t \in Tx : InCall(t) => ReversesSeen(call[t].in, t)

\* A balance row below zero and below where its writer found it was clawed back.
DebitsCovered ==
  \A u \in Users : LET c == bal[u] IN
    IsActive(c.by) => \/ c.now >= 0 \/ c.now >= c.was
                      \/ \E i \in Ids : /\ rows[i].by = c.by /\ rows[i].user = u
                                        /\ rows[i].reverses # NoEntry

LedgerIInv == /\ LedgerTypeOK /\ clog[Setup] = "committed"
              /\ BalanceRowsAddUp /\ EntriesUnderLock /\ CallsUnderLock
              /\ OneLiveHolder /\ ReversalsSeen /\ DebitsCovered

\* With one append per transaction, a call that waits holds no entry, and one
\* that waits for a balance row holds no other.
LocksInOrder ==
  \A t \in Tx :
    /\ call[t].made = 0 => call[t].at \in {"idle", "ahead"}
    /\ call[t].at \notin {"move", "done"} => \A i \in Ids : rows[i].by # t
    /\ call[t].at = "idle" => \A u \in Users : bal[u].by # t
    /\ call[t].at = "ahead" => \A u \in Users : bal[u].by = t => u = call[t].user
    /\ call[t].at = "lock" => \A u \in Users : bal[u].by = t => u = call[t].in.user
=============================================================================
