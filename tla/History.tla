------------------------------- MODULE History -------------------------------
(* Reading the ledger: listTransactions cuts a user's entries into pages by   *)
(* (createdAt, id), and the activity and overview pages of the web app load   *)
(* them one after the other while entries go on being appended. The ledger    *)
(* here is Ledger, with the time each entry is stamped with.                  *)
EXTENDS Ledger, FiniteSets

CONSTANTS Reader,        \* whose history is read
          Limit,         \* entries per page
          Allocating,    \* the transactions that are credits of allocateReward
          Uuids,         \* ids, as they compare
          Filters,       \* bound: the type filters tried
          Horizon        \* bound: the last millisecond

ASSUME ReaderIsAUser == Reader \in Users
ASSUME LimitIsPositive == Limit \in Nat \ {0}
ASSUME UuidsCompare == Uuids \subseteq Int

VARIABLES clock,     \* of the API process, in milliseconds
          asked,     \* when each transaction's last balance lock was granted
          stamp,     \* created_at and id of each entry
          view,      \* the order and the type filter on screen: the query key
          list,      \* the list on screen
          job,       \* the fetch in flight
          me         \* the balance on screen, if any: a query of its own

timeVars == <<clock, asked, stamp>>
readVars == <<view, list, job, me>>
historyVars == <<ledgerVars, timeVars, readVars>>

-----------------------------------------------------------------------------
(* The ledger, with its clock.                                               *)

\* Seeded fault: the time is taken as the append begins, before the lock.
StampedUnlocked ==
  /\ asked' = [t \in Tx |-> IF call[t].at # "lock" /\ call'[t].at = "lock" THEN clock
                            ELSE asked[t]]
  /\ IF rows' = rows THEN UNCHANGED stamp
     ELSE \E i \in Uuids : /\ \A e \in Ids : stamp[e].id # i
                           /\ stamp' = Append(stamp, [at |-> asked[rows'[Len(rows')].by],
                                                      id |-> i])

\* createdAt ?? new Date(): read once the balance row is locked, before the INSERT
\* is sent. randomUUID: any id not in use.
Stamped ==
  /\ asked' = [t \in Tx |-> IF call[t].at = "lock" /\ call'[t].at = "claim" THEN clock
                            ELSE asked[t]]
  /\ IF rows' = rows THEN UNCHANGED stamp
     ELSE \E i \in Uuids : /\ \A e \in Ids : stamp[e].id # i
                           /\ stamp' = Append(stamp, [at |-> asked[rows'[Len(rows')].by],
                                                      id |-> i])

Write == LedgerNext /\ Stamped /\ UNCHANGED <<clock, readVars>>

Tick == clock < Horizon /\ clock' = clock + 1 /\ UNCHANGED <<ledgerVars, asked, stamp, readVars>>

-----------------------------------------------------------------------------
(* listTransactions.                                                         *)

TypeOf(e) == IF rows[e].reverses # NoEntry THEN "REVERSAL"
             ELSE IF rows[e].delta < 0 THEN "REDEEM"
             ELSE IF rows[e].by \in Allocating THEN "ADJUSTMENT" ELSE "EARN"

Older(e, f) == \/ stamp[e].at < stamp[f].at
               \/ stamp[e].at = stamp[f].at /\ stamp[e].id < stamp[f].id
\* e comes before f on screen; the comparison flips with the order.
Precedes(v, e, f) == IF v.order = "oldest" THEN Older(e, f) ELSE Older(f, e)

Start == 0      \* no cursor: from the beginning (entries count from 1)
End == -1       \* nextCursor is null
\* Seeded fault: the entry under the cursor is read again.
FromCursor(v, cursor, e) == cursor = Start \/ e = cursor \/ Precedes(v, cursor, e)

\* Seeded fault: the cursor is compared by its time alone.
BeyondByTime(v, cursor, e) ==
  cursor = Start \/ (Precedes(v, cursor, e) /\ stamp[e].at # stamp[cursor].at)

\* beyondCursor: strictly past the entry the cursor names.
Beyond(v, cursor, e) == cursor = Start \/ Precedes(v, cursor, e)

Matching(v) == {e \in Entries : rows[e].user = Reader /\ v.type \in {"ALL", TypeOf(e)}}
Rest(v, cursor) == {e \in Matching(v) : Beyond(v, cursor, e)}
\* The first Limit of them.
Page(v, cursor) ==
  {e \in Rest(v, cursor) : Cardinality({f \in Rest(v, cursor) : Precedes(v, f, e)}) < Limit}
Last(v, items) == CHOOSE e \in items : \A f \in items : f = e \/ Precedes(v, f, e)
\* One more than asked for was taken, to see whether there is one.
Cursor(v, cursor) == IF Cardinality(Rest(v, cursor)) > Limit THEN Last(v, Page(v, cursor)) ELSE End

\* The activity page's default view and the overview page's only one.
Overview == [order |-> "newest", type |-> "ALL"]

-----------------------------------------------------------------------------
(* The list on screen: an infinite query. "base" is what matched when its     *)
(* first page was read.                                                       *)

Blank == [shown |-> {}, loaded |-> 0, next |-> Start, pages |-> 0, base |-> {}]
Idle == [busy |-> FALSE, list |-> Blank, left |-> 0]
Fetch(l, n) == [busy |-> TRUE, list |-> l, left |-> n]

\* One page more.
Extended(v, l) ==
  [shown |-> l.shown \cup Page(v, l.next),
   loaded |-> l.loaded + Cardinality(Page(v, l.next)),
   next |-> Cursor(v, l.next),
   pages |-> l.pages + 1,
   base |-> IF l.next = Start THEN Matching(v) ELSE l.base]
\* Seeded fault: the filters are not part of the query key.
ShowKeeping(v) ==
  /\ v # view /\ view' = v /\ job' = Idle
  /\ UNCHANGED <<list, me, ledgerVars, timeVars>>

\* Another order or filter is another list. (One that was left is cached: coming
\* back to it is as not having left.)
Show(v) ==
  /\ v # view /\ view' = v
  /\ list' = Blank /\ job' = Fetch(Blank, 1)
  /\ UNCHANGED <<me, ledgerVars, timeVars>>

\* fetchNextPage: a refetch in flight is given up for it.
LoadMore ==
  /\ list.next \notin {Start, End}
  /\ ~ (job.busy /\ job.list = list)
  /\ job' = Fetch(list, 1)
  /\ UNCHANGED <<view, list, me, ledgerVars, timeVars>>

\* On focus, or when something invalidates the list: as many pages again, from
\* the first one.
Refetch ==
  /\ ~ job.busy \/ list.pages > 0
  /\ job' = Fetch(Blank, IF list.pages = 0 THEN 1 ELSE list.pages)
  /\ UNCHANGED <<view, list, me, ledgerVars, timeVars>>

\* A page is read. The list changes once the last one asked for is there.
ReadPage ==
  LET l == Extended(view, job.list) IN
  /\ job.busy
  /\ IF job.left > 1 /\ l.next # End
     THEN job' = Fetch(l, job.left - 1) /\ UNCHANGED list
     ELSE job' = Idle /\ list' = l
  /\ UNCHANGED <<view, me, ledgerVars, timeVars>>

\* After its one retry.
FetchFails == job.busy /\ job' = Idle /\ UNCHANGED <<view, list, me, ledgerVars, timeVars>>

\* fetchMe, on its own schedule: neither with the list nor in any order with it.
\* "seen" is what the balance it answers with adds up.
RefreshBalance ==
  /\ me' = [known |-> TRUE, balance |-> Balance(Reader), seen |-> Matching(Overview)]
  /\ UNCHANGED <<view, list, job, ledgerVars, timeVars>>

Views == [order : {"newest", "oldest"}, type : Filters]

HistoryInit ==
  /\ LedgerInit
  /\ clock = 0 /\ asked = [t \in Tx |-> 0]
  /\ stamp \in {s \in [1 .. Len(Opening) -> [at : {0}, id : Uuids]] :
                  \A e, f \in 1 .. Len(Opening) : e # f => s[e].id # s[f].id}
  /\ view = Overview /\ list = Blank /\ job = Fetch(Blank, 1)
  /\ me = [known |-> FALSE, balance |-> 0, seen |-> {}]

Read == (\E v \in Views : Show(v)) \/ LoadMore \/ Refetch \/ ReadPage \/ FetchFails \/ RefreshBalance

HistoryNext == Write \/ Tick \/ Read

HistorySpec == HistoryInit /\ [][HistoryNext]_historyVars

-----------------------------------------------------------------------------
(* A list read to its end shows everything that was there when its first page *)
(* was read, whatever is appended meanwhile and however many entries share a  *)
(* millisecond: no page boundary drops an entry (listTransactions).           *)
ReadsAllThatWasThere == list.next = End => list.base \subseteq list.shown

(* No entry is on screen twice, and only entries of the ledger are.           *)
NothingTwice == /\ list.loaded = Cardinality(list.shown)
                /\ list.shown \subseteq Matching(view)

(* An entry that appears behind what has been read, where no further page     *)
(* will show it, was stamped in the millisecond of an entry shown; reading    *)
(* newest first, it is as new as any of them. Times are taken under the       *)
(* user's balance lock, so entries are stamped in the order they commit.      *)
SkipsOnlyTies ==
  \A e \in Matching(view) \ list.shown, f \in list.shown :
    Precedes(view, e, f) =>
      IF view.order = "newest" THEN \A s \in list.shown : stamp[s].at <= stamp[e].at
      ELSE \E s \in list.shown : stamp[s].at = stamp[e].at

SumIn(rs, S) == LET sum[n \in 0 .. Len(rs)] ==
                      IF n = 0 THEN 0 ELSE sum[n - 1] + (IF n \in S THEN rs[n].delta ELSE 0)
                IN  sum[Len(rs)]
SumOver(S) == SumIn(rows, S)
\* Seeded fault: the walk subtracts an entry before it draws it.
DrawnBefore(e) == me.balance - SumOver({f \in list.shown : f = e \/ Precedes(view, f, e)})

\* buildSeries: the balance drawn at an entry, and the one the user had after it.
Drawn(e) == me.balance - SumOver({f \in list.shown : Precedes(view, f, e)})
Had(e) == SumOver({f \in Matching(Overview) : f <= e})

Charted == me.known /\ view = Overview
Listed == list.base \cup list.shown
Tied(e) == \E f \in Listed \ {e} : stamp[f].at = stamp[e].at

(* The chart has the right shape however the balance and the list were        *)
(* fetched: at every entry that shares its millisecond with no other it is    *)
(* off from the balance the user had by one amount, that of the entries which *)
(* one of the two has seen and the other has not. So the balance drawn is     *)
(* right once both have seen the same ledger (buildSeries, OverviewPage).     *)
ChartKeepsItsShape ==
  Charted => \A e \in list.shown :
    Tied(e) \/ Drawn(e) = Had(e) + SumOver(me.seen \ Listed) - SumOver(Listed \ me.seen)

=============================================================================
