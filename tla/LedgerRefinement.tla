-------------------------- MODULE LedgerRefinement --------------------------
(* The ledger, statement by statement, implements AtomicLedger.              *)
EXTENDS Ledger

EntryRecord(rs, i) == [id |-> i, user |-> rs[i].user, delta |-> rs[i].delta,
                       key |-> rs[i].key, reverses |-> rs[i].reverses]
Atomic == INSTANCE AtomicLedger WITH book <- {EntryRecord(rows, i) : i \in Entries},
                                     Seeded <- {EntryRecord(Opening, i) : i \in 1 .. Len(Opening)},
                                     points <- [u \in Users |-> Balance(u)]

(* Committed entries and balances move together in one step, are never        *)
(* changed or withdrawn, apply a key once, reverse exactly and overdraw only  *)
(* by reversal (appendEntry and reverseEntry inside a transaction).           *)
LedgerIsAtomic == Atomic!Spec
=============================================================================
