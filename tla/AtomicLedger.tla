---------------------------- MODULE AtomicLedger ----------------------------
(* What the ledger promises its readers: a transaction's entries and the      *)
(* balances they move appear together, in one step, or not at all. There are  *)
(* no locks, no statements and no rollbacks here: Ledger implements this.     *)
EXTENDS Integers

CONSTANTS Users, NoKey, NoEntry,
          Seeded    \* the entries the book opens with

VARIABLES book,    \* the entries a reader sees
          points   \* each user's balance

\* What the entries of E move for user u, added up in the order of their ids.
Last(E) == CHOOSE n \in {0} \cup {e.id : e \in E} : \A e \in E : e.id <= n
Moved(E, u, n) == IF \E e \in E : e.id = n /\ e.user = u
                  THEN (CHOOSE e \in E : e.id = n).delta ELSE 0
Sum(E, u) == LET sum[n \in 0 .. Last(E)] ==
                   IF n = 0 THEN 0 ELSE sum[n - 1] + Moved(E, u, n)
             IN  sum[Last(E)]

Init == book = Seeded /\ points = [u \in Users |-> Sum(Seeded, u)]

DistinctKeys(B) ==
  \A e, f \in B : e # f => e.id # f.id /\ (e.key = NoKey \/ e.key # f.key)

\* A reversal mirrors an entry of the book, which no other entry reverses.
Mirrors(e, B) ==
  /\ \E o \in B : e.reverses = o.id /\ e.user = o.user /\ e.delta = -o.delta
  /\ \A f \in B : f # e => f.reverses # e.reverses

Post(E) ==
  /\ E # {} /\ book' = book \cup E
  /\ DistinctKeys(book')
  /\ \A e \in E : e.reverses # NoEntry => Mirrors(e, book')
  /\ points' = [u \in Users |-> points[u] + Sum(E, u)]
  \* a spend is covered by what the user has: only a clawback goes below zero
  /\ \A u \in Users : points'[u] < 0 /\ points'[u] < points[u] =>
                        \E e \in E : e.user = u /\ e.reverses # NoEntry

Next == book \subseteq book' /\ Post(book' \ book)

Spec == Init /\ [][Next]_<<book, points>>
=============================================================================
