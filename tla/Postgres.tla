------------------------------ MODULE Postgres ------------------------------
(* What the services rely on PostgreSQL for (external code): transactions at  *)
(* READ COMMITTED, row locks held to the end of the transaction, unique       *)
(* indexes whose uncommitted holder makes a conflicting INSERT wait.          *)
(*                                                                            *)
(* A transaction is identified by a member of Tx and is used once, as an xid  *)
(* is. A row is a cell of two versions and the transaction that wrote the     *)
(* second one: whether a version is in force follows from that transaction's  *)
(* entry in clog alone, so COMMIT and ROLLBACK change clog and nothing else.  *)
EXTENDS Integers

CONSTANTS Tx,      \* transactions the services open
          Setup    \* the transaction that wrote the rows present from the start

ASSUME SetupIsNotATx == Setup \notin Tx

VARIABLE clog      \* the fate of each transaction

Fates == {"new", "active", "committed", "aborted"}
Xids == Tx \cup {Setup}

PgInit == clog = [x \in Xids |-> IF x = Setup THEN "committed" ELSE "new"]

IsActive(t) == clog[t] = "active"
IsCommitted(t) == clog[t] = "committed"
\* The transactions whose writes a reader in transaction t sees.
SeenBy(t, x) == IsCommitted(x) \/ x = t

Begin(t) == clog[t] = "new" /\ clog' = [clog EXCEPT ![t] = "active"]
Commit(t) == IsActive(t) /\ clog' = [clog EXCEPT ![t] = "committed"]
\* An exception in the callback, a timeout, a lost connection or a crash.
Abort(t) == IsActive(t) /\ clog' = [clog EXCEPT ![t] = "aborted"]

-----------------------------------------------------------------------------
Cell(V) == [was : V, now : V, by : Xids]
Loaded(v) == [was |-> v, now |-> v, by |-> Setup]

\* The version a plain SELECT returns, outside any transaction and inside t.
Latest(c) == IF IsCommitted(c.by) THEN c.now ELSE c.was
View(t, c) == IF c.by = t THEN c.now ELSE Latest(c)

\* A writer or a SELECT ... FOR UPDATE waits for another active writer.
Waits(t, c) == c.by # t /\ IsActive(c.by)
Locked(t, c) == IF c.by = t THEN c
                ELSE [was |-> Latest(c), now |-> Latest(c), by |-> t]
Written(t, c, v) == [Locked(t, c) EXCEPT !.now = v]
\* A single statement outside a transaction: written and committed at once.
Autocommitted(v) == Loaded(v)
=============================================================================
