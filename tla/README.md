# Verification of the rewards service

TLA+ models of `packages/api` (points ledger and its history, redemption, webhook
ingestion, backfill, earning rules, reward allocation, accounts and sessions,
catalogue) and of `packages/web` (redeem dialog, shell and sign-in form, activity
pages, reward administration page), the TLC runs that check them, and TLAPS
proofs of the safety properties that hold of each. `PROJECT.json` ties every definition to the lines it
models, every run to its properties and every property to a seeded fault that
breaks it.

## 1. The system

A partner posts signed events; the API stores each delivery, prices it by the
rule in force when the event happened, and credits points. A user spends points
on rewards. Everything shared is in PostgreSQL: the API keeps no state of its
own between requests. All transactions are `READ COMMITTED` (Prisma's default),
so correctness rests on row locks, unique indexes and the order of statements.

| Component | State it keeps | Operations | Hard part | What makes it correct |
|---|---|---|---|---|
| Points ledger (`ledger.service.ts`) | `point_transactions` (append-only), `user_balances` (cache) | `appendEntry`, `reverseEntry`, `lockBalance`, `reconcile`, `listTransactions` | interleaved appends; uncommitted holders of a key; lock order | the cache equals the sum; a key counts once; a reversal is exact and single; a spend never overdraws; no deadlock |
| Redemption (`redemption.service.ts`, `redemption.routes.ts`, `fulfillment.ts`) | `redemptions`, `rewards.stock` | `redeem`: reserve, fulfil, confirm or compensate; replay | two phases with a crash between them; equal keys at once; last unit | points, stock, record and answer agree; a replay wins; every request is answered |
| Webhook ingestion (`webhook.routes.ts`, `webhook.service.ts`) | `webhook_deliveries` | capture, process (verdict or credit), mark failed, answer | duplicate and overlapping posts; lost COMMIT answers | PROCESSED means credited once; evidence is kept; answers are true |
| Backfill (`backfillUnmatched`) | the same table | find parked, claim, replay | stale candidate list; several locks in one transaction | claims are exclusive and invisible to others |
| Earning rules (`earning.service.ts`, `rule.service.ts`, the `EXCLUDE` constraint) | `earning_rules` | add, supersede, `resolveRule`, `findOverlappingRules` | half-open and open-ended windows; events priced late or again | at most one price, and the same however late |
| Allocation (`allocation.service.ts`) | none: ledger and redemption | credit each user, redeem for them, reverse on failure | each half may fail alone; retries under the same key | one gift per key; neutral for the balance |
| Redeem dialog (`RewardsPage.tsx`, `RedeemDialog.tsx`, `redemption-copy.ts`) | key, open dialog, mutation state | open, confirm, cancel, Escape, redraw, report | clicks before the redraw, keys dropped in flight, lost requests and answers | one purchase per dialog held; what is said of an answer is so, and without one nothing is lost |
| Ledger history (`listTransactions`, `ActivityPage.tsx`, `BalanceSparkline.tsx`) | the pages an infinite query has loaded; the balance of another query | read a page, load the next one, change order or filter, refetch | paging while entries commit; entries of one millisecond; list and balance fetched apart | a list read to its end has all that was there, nothing twice; the chart has the right shape |
| Accounts and sessions (`auth.service.ts`, `auth.routes.ts`, `plugins/auth.ts`) | `users`, `sessions` | `register`, `login`, `logout`, `resolveSession` on every request | check-then-insert; a COMMIT that is lost after the cookie was set; expiry beside sign-out | one account per address; answers are true; an ended session stays ended |
| Shell and sign-in form (`App.tsx`, `SignIn.tsx`) | cookie jar, query cache, queries in flight | sign in, register, sign out, refetch, redeem | answers that arrive after a sign-out; a cache cleared by a 401 | nothing of a session is shown once it was left |
| Catalogue and administration page (`reward.service.ts`, `RewardAdmin.tsx`) | `rewards`; the cached list of them | create a reward, macro, allocate, list | a cached list that is stale when used; the loser of a race | one reward per SKU; the macro allocates its own reward; answers are true |
| Server and plugins, webhook signature, seed and reconcile commands, developer panel, drawing of pages | none of their own | see `components` in `PROJECT.json` | | not modelled, or where their state is (section 7) |

Interactions: redemption, ingestion, backfill and allocation move points only by
calling `appendEntry` and `reverseEntry` with *their* transaction, so their locks
and the ledger's are held together. Allocation calls `redeem()` between two
transactions of its own. The dialog reaches `redeem()` over HTTP. Every request passes the
session's `preHandler` first; the shell reaches the routes of accounts, and the
administration page those that create and allocate a reward, over HTTP.

## 2. Modules

```
Postgres          transactions, row versions, row locks (external code)
  Ledger          the ledger, one statement per action
    LedgerRefinement --> AtomicLedger   what readers are promised
    LedgerProofs  lemmas and theorems about all three
    History       readers of the ledger, page by page; HistoryProofs
    Redemption    requests in two phases
      Allocation  administrators, over redeem(); AllocationProofs
      Shop        browsers, over redeem(); RedemptionProofs, with Redemption
    Webhook       deliveries and their credits
      Backfill    backfills beside posts; WebhookProofs, with Webhook
  Accounts        register, login, logout, the preHandler
    Shell         browsers, over Accounts; ShellProofs, with Accounts
  Console         administration pages and the catalogue; ConsoleProofs
EarningRules      EarningRulesProofs
MC*               instances for TLC
```

**Postgres.** A transaction is identified by a member of `Tx` and used once, as a
transaction id is; `clog` gives its fate. A row is a *cell*: its last committed
version, the version being written and the writer. COMMIT and ROLLBACK change
`clog` and nothing else, and a reader decides which version it sees from the
writer's fate (`Latest`, `View`). `Waits` is the row lock. These definitions
are external: they model what the services rely on the database for.

**Ledger.** `rows` is `point_transactions` in insertion order (an id is a
position; rows of aborted transactions stay in the sequence and are visible to
nobody), `bal` is `user_balances`, `call[t]` the place of transaction `t` inside
`appendEntry`: `lock` (the `SELECT ... FOR UPDATE` of `lockBalance`), `claim`
(`INSERT ... ON CONFLICT DO NOTHING`: waits for an uncommitted holder of the key,
then inserts or returns the holder as a duplicate), the overdraft check (`Refuse`
throws, which ends the transaction), `move` (the balance upsert). `reverseEntry`
reads the original and calls `appendEntry` with the opposite amount and the key
`("reversal", id)`. `LockAhead` is a caller that takes the balance before its own
rows, as `redeem` does. `Close` and `Fail` are COMMIT and everything that is not:
an exception, a timeout, a deadlock victim, a lost connection, a crash.

**AtomicLedger** has neither locks nor statements: a book of entries and balances,
extended in one step. `LedgerRefinement` maps the committed entries and
`Latest` balances to it; `LedgerIsAtomic` says that the ledger implements it.

**Redemption.** `req[r]` is the request and its stage. Phase 1, in
`reserveTx(r)`: look the key up (a hit is answered as a replay), read the reward,
claim the key, lock the balance, take a unit of stock (a conditional UPDATE),
debit through `appendEntry`, commit. Phase 2: fulfil with no transaction open,
then `Confirm` (an autocommitted UPDATE), or compensate in `settleTx(r)` with
conditional `FAILED`, reversal and restock. `Throw` cuts a request off at any
statement: statement timeout, rollback, crash; or lets a `Confirm` through whose answer
is lost (`ConfirmUnheard`). `req[r].late` and `.found` record
what the request saw, for the properties.

**Webhook.** A post is captured in one transaction (a second body under the
same event id is ignored), checked for a terminal status, processed in another
(parse, denormalise, freshness, user, rule, credit, mark) and answered; a throw
sets the delivery FAILED outside of it. A post may be cut off anywhere (`Throw`,
which the handler catches, also after a COMMIT that succeeded; `Die`, which
nobody catches). `WorldTurns` lets users and rules come into being and events age
from too early through fresh to too old. What a body contains is a function of
the event id (`UserOf`, `TypeOf`), and whether it parses a Boolean of the post.

**Backfill.** One transaction reads the parked deliveries that match its filter,
oldest first claims each with a conditional UPDATE and runs `ProcessDelivery` of
Webhook. `run[b].todo` is what it has listed and not yet reached, `run[b].event` what it
is replaying.

**EarningRules.** Rules with half-open, possibly open-ended windows over integer
instants. `AddRule` is the INSERT under the EXCLUDE constraint, which compares the ranges
of instants (`Window`), and under the CHECK that a window ends after it starts;
`findOverlappingRules` and `windowsOverlap` are the pure functions of the seed
check, which compare the ends instead, and are compared with the definition "no
instant has two prices". `Tick` is the clock; `Price` prices an event when it is processed, at
once or late, by the rules of then and the instant it occurred, and `resolved` is what it
answered.

**Allocation.** `job[a]` is the loop of `allocateReward`; its redemption for a
user is the Redemption request `<<a, u>>`. Any throw of the credit or of
the reversal leaves the loop, as does a crash.

**Shop.** `page` is the state of `RewardsPage`, the dialog it has open and the key in the
ref, and changes at once; `drawn` is what React has drawn of it, the page, `isPending` and
whether the `<dialog>` element is hidden, and is what the user clicks on. `Redraw` brings the
second up to the first, in one render or in two. So a click may find the key gone, and is
then sent under a fresh UUID (`OnConfirm`); Cancel and Escape work until `isPending` is
drawn, with the request in flight (`Cancel`, `Hide`); and an answer closes whichever
dialog is open by then (`Settled`). `latest` is the mutation whose state the page shows,
`minted` the UUIDs made so far, `sent` what each click sent, from which dialog, and
whether the page still held that dialog (`held`).

**History** adds a clock to the ledger. `stamp[i]` is `createdAt` and the random id
of entry `i`; `createdAt` is the API's clock once the balance row is locked
(`asked`), before the INSERT is sent, so entries of one user are stamped in the
order they commit, except that several share a millisecond and are then
listed by id. `Allocating` names the transactions that are credits of an allocation, which
the type filter tells from others as `ADJUSTMENT`. `view` is the order and the filter on screen, `list` the pages
loaded, each from a cursor, and `job` the fetch in flight: the first page, a next
page, or a refetch, which reads again every page there was, each from where
the one before it ended. `me` is the balance on screen, of a query of its own
(`RefreshBalance`), with what it has seen of the ledger. `Drawn` is the chart: that balance
walked back over the list, entry by entry.

**Accounts.** `users` has a row for each member and each call that may register one,
`sessions` a row under each token. `call[c]` is a register, a login or a logout with
what it carries and where it is. The `preHandler` resolves the token shown and
deletes an expired session on the way past (`Resolve`); each route then opens one
transaction, and puts the cookie on the reply when the session row is written, that
is before the COMMIT. A row the unique index refuses ends the call with a 500, as
nobody translates the constraint's error; a COMMIT may be lost either way
(`Throw`). `Tick` is the clock.

**Shell** lets browsers make those calls. Each page has a cookie `jar`, a `cache` (the
session and the balance last fetched, and whether the form shows), the two queries
and the redemption in flight (`fetch`), the calls it still listens for (`awaited`) and, for the
properties, the tokens it was told it has left (`farewell`). Of TanStack Query it
uses what the library documents: `clear` drops the data and forgets
what is in flight, `invalidateQueries` marks data stale and fetches again,
a fetch in flight is joined by whoever asks again, a query with no data is pending. The
redemption is here for its answer: a success invalidates everything (`RedeemSettled`), and a
401 clears the cache (`RedeemRefused`). The sign-out does so too (`Clear`), but it draws the
shell again, which then asks for the session; the 401 draws the rewards page only, and
until something else draws the shell (`Redraw`) it shows what it showed, without queries
behind it (`live`).

**Console** is the administration page over the catalogue. `sku` is the row each
transaction inserted, `create` and `served` the two calls of a press, `press` where
its `mutationFn` stands, `list` the cached catalogue (fresh for ten seconds) and
`fetch` the query in flight. A macro looks its SKU up in the cached list, creates the
reward if it is not there, searches the list again after a 409 (from the cache
while that is fresh, otherwise from the fetch it starts or joins) and allocates
what it found; the form creates; the chooser allocates. `listRewards` filters on `active`,
which drops nothing here, as no code deactivates a reward.

## 3. Runs

`CHECK_DEADLOCK FALSE` throughout: transactions, requests, posts, calls and presses are
used once, so every behaviour ends when they are used up. That nobody is stuck before
that is said by properties: `NoDeadlock`, `EveryRequestAnswered`,
`EveryPostAnswered`, `EveryPressSettles`.

| Run | Instance | Shows |
|---|---|---|
| `ledger` | 3 transactions, 2 users, amounts +2 and -2, a partner key, an opening balance | all ledger invariants, the inductive invariant of the proofs, refinement of `AtomicLedger` |
| `redemption` | 2 requests, 2 users, 2 keys, a reward with one unit left and one with two; fair | points, stock, record and answer agree; a reservation is stranded only by a crash; every request is answered |
| `webhook` | 2 posts of one event, valid or not, one user, one rule; fair | PROCESSED is credited once; answers are true; every post is answered |
| `webhook_mark` | the same | *violated*: credited and marked can come apart |
| `backfill` | 2 backfills, 1 post, a parked and a failed delivery | only what is parked is replayed; PROCESSED is credited once |
| `rules` | 3 rules, 2 types, 3 instants, 1 price | prices are unique, and the same however late; the overlap check is exact |
| `allocation` | 2 calls, 1 user, 2 keys, 1 unit, an empty ledger | a key is granted once; the first attempt is neutral |
| `allocation_retry` | 2 calls, 1 user with points of her own | *violated*: an ALLOCATED reward may have been paid for |
| `shop` | 1 browser, 2 requests, 3 keys, points for 2 purchases, 2 unlimited rewards | one purchase per dialog the page holds; what is said of points holds, or what is gone is on record |
| `shell` | 1 browser, 2 calls, a member, one more address typed in two ways, sessions of 1 instant, 2 instants | one account per address; answers are true; a sign-out is immediate, final, and leaves nothing on screen |
| `history` | 2 transactions that are allocations, pages of 2, 2 opening entries, 2 milliseconds, both orders, all types or adjustments | what is read to the end is complete, without repetition, and skips only ties; the chart has the right shape |
| `console` | 2 consoles, 2 presses, one preset whose SKU can be typed in two ways, another reward; fair | one reward per SKU; a macro gives its own reward; answers are true; a refreshed list has what was added; every press settles |

**Why the bounds are enough.** Every conflict in this code is between two
transactions over one row, key or unit: two of each actor produce every pair, and
the third transaction of `ledger` produces a reversal of an entry one of the
other two is still writing, or a key whose first holder rolled back. Balances and prices are
chosen so that one spend is affordable and two are not; stock so that
one unit is contended, and two units let a compensation meet another
request for the same reward; the unlimited rewards of `shop` take the other branch. `Withdrawn` names the rewards
that may leave the catalogue during a run: the one with a single unit in
`redemption` and in the allocation runs, none in `shop`, whose properties do not tell refusals apart. Two keys make
"same key" and "different keys" both happen. `AppendsPerTx` is 1 wherever the
code makes one append per transaction and 2 in Backfill, which makes one for each
candidate. In `allocation` the ledger starts empty, so a redemption under a key
whose credit was reversed is refused for want of points. Three instants hold
windows that touch, nest, coincide and stay open, and an event that is priced after its window has ended; one price is enough, as rules are told apart by their rows. In `history` up to four entries
share two milliseconds with four ids, so two pages of two, a page that is cut between entries of one
millisecond, and a page that grows while the next one is loaded all happen; `Filters`
names the filters tried, and one of them leaves entries out. In `shop` three keys give one dialog,
the fresh UUID of a late click and one more dialog, or three dialogs; the second reward lets a click on
another card replace a dialog. In `shell` two
calls make every pair of a registration, a sign-in and a sign-out, with the same
address typed in two ways, and a `Lifetime` within the `Horizon` lets
a session expire while a call or a fetch is under way. In `console` two presses meet on one SKU from
one console or two; `Typed` is the form's spelling of the preset's SKU.

Symmetry is declared over interchangeable transactions, requests, backfills, calls and
keys, and only in runs without a liveness property.

### Fairness

Only liveness needs it. `WF(Serve(r))` says that a request whose next
statement can run does run it: an `async` handler continues when its promise
settles, and PostgreSQL grants a lock when the holder ends. Weak fairness is
enough because a waiting statement stays enabled once the row is free, or
another waiter takes it and ends in turn (requests are finite). A press of the
administration page adds the browser: its calls and the list query are answered or
fail, which `fetch` of a browser guarantees, and the page goes on when they do. Nothing is
assumed of `Throw`, `Die`, `WorldTurns`, `Deactivate`, `Tick`, `Ages`, of losses, of refetches or
of the arrival of requests: timeouts and crashes may happen and need not, so liveness
does not lean on them.

## 4. Findings

Each is a run whose property quotes a comment or document and is violated by
what the code does; the details, with both places, are in `PROJECT.json`.

- `webhook_mark` — `webhook.routes.ts:198` writes FAILED by id, whatever the
  status is by then. After a COMMIT whose answer was lost, or when an overlapping
  post fails after another one succeeded, a credited delivery is FAILED. A
  retry finds a duplicate and repairs it; no points are credited twice
  (`ProcessedIsCredited` holds).
- `allocation_retry` — `redeem()` may throw after its reservation committed. The
  credit is reversed, the reservation stands, and a retry under the same key
  reports ALLOCATED for a reward that the user paid for.

Observed while modelling, without a run of their own:

- Once an answer has dropped the key, a click on the dialog that is still drawn is sent under
  a fresh UUID (`RewardsPage.tsx:65`) and buys a second time; the comment on the key (`:46-49`)
  is about exactly the two purchases of "a user clicking twice". Shop does this
  (`OnConfirm`, second disjunct). `HeldDialogBuysOnce` is the part that holds; without
  `sent[r].held` in it TLC finds two purchases of one dialog, of two clicks.
- `redemption-copy.ts:18` says "No points have been taken" whenever no answer came; the request
  may have been served, or may yet be (`LoseAnswer`), and the key is dropped with it, so trying again is
  another purchase. The last clause of `WhatIsToldHolds` is what holds then: what is gone bought
  once, and the redemption is on record.
- The balance the chart walks back from is fetched apart from the list (`OverviewPage.tsx:17`), and
  a failed redemption invalidates the balance only (`RewardsPage.tsx:88`). One may have seen an
  entry that the other has not, and then every point is off by it; `BalanceSparkline.tsx:32-38`
  says the two "can never disagree". `ChartKeepsItsShape` is the part that holds.
- `ledger.service.ts:49-51` says a caller may catch `InsufficientPointsError` and
  keep using its transaction. The error is thrown after the INSERT, so a caller
  that did so would commit an entry that moved no balance. No caller does.
- A replay that arrives between the phases is answered RESERVED while the original
  is answered FULFILLED or FAILED; `README.md:202` and `redemption.routes.ts:53-54` of the
  repository speak of an identical body. `AnswersAreTrue` is the part that holds.
- A parked delivery whose event has passed the age limit is REJECTED when replayed,
  while `webhook.service.ts:420-422` speaks of replaying months later.
- The retry loop of `claimIdempotencyKey` for a holder that rolled back is never
  needed: the INSERT waits for the holder, so a conflict always finds a row.
- The comment of `appendEntry` (`ledger.service.ts:231-233`) says the balance is the first
  lock any flow acquires, so that there is "no cycle to deadlock on". A backfill keeps the balance of one
  candidate while it claims the next delivery (`webhook.service.ts:472`), and a post
  locks its delivery before the balance. PostgreSQL breaks the cycle by aborting one
  of the two, which is `Die` or `Throw` here.
- `allocateReward` credits and then redeems; a redemption answered FAILED has refunded
  the points, and the credit is not reversed (`allocation.service.ts:122`), though the same
  function undoes it when `redeem()` throws (`:129-131`).
- A session whose expiry the session query discovers leaves the cache in place; a sign-out
  clears it, and so does a redemption that is answered 401. The next user of
  the browser is shown the previous balance until the first fetch
  arrives; `App.tsx:49-53` speaks of this for sign-out.
- The 401 of a redemption clears the cache (`RewardsPage.tsx:80`) without drawing the shell
  again, whose queries are then gone: it goes on showing the session that ended until
  another route, the theme or "Sign out" draws it. A 401 that comes after a sign-out does the same to the
  sign-in form, or to the "Loading" before it.
- An event priced again after its rule was superseded would be unpriced, or priced by the
  successor, and `earning_rules` says superseded rules are kept for the entries that refer to them. No
  code supersedes a rule; the seed only creates (`seed.ts:84`).
- "Your session has been ended" is told in `onSettled` (`App.tsx:56`), also when the call failed
  and the session lives. `NothingOutlivesSignOut` is about answered sign-outs.
- A sign-in that is answered while a cookie-less fetch of the session is in flight joins that
  fetch, which says 401: the form stays although the user is signed in.
- `RewardAdmin.tsx:27-29` finds a macro's reward in a list that may be ten
  seconds old; after a 409 the list comes from the cache while that is fresh (`:128-134`), and a fresh list without the
  reward ends in "Could not find or create".
- The key of an allocation is minted inside the `mutationFn` (`RewardAdmin.tsx:112-116`),
  so a retry after a lost answer allocates again.
- The loser of a race in `createReward` (`reward.service.ts:55-57`) and in `register` is told 500, not
  the conflict that the later of two sequential calls is told.
- `BalanceSparkline.tsx:40-43`: entries of one millisecond are listed by their random ids, so a chart
  may draw steps in an order in which they did not happen; its ends are right.

## 5. What is proved

Nothing is assumed finite.

**Ledger.** Assumed: `Setup` is not a transaction of `Tx`; amounts are non-zero integers;
`NoEntry` is not an id; event keys differ from `NoKey` and from reversal keys;
the opening entries are committed, without keys or reversals; `AppendsPerTx` is a
natural number. `LedgerProofs` begins with the sums over the ledger, and induction over
a set of naturals in place of the library's operator-valued form. `ReconcileEmpty` is not inductive: it says
nothing of the transactions in flight. `LedgerIInv` strengthens it:

- `BalanceRowsAddUp`: of the two versions of a balance row, the committed one is the
  sum of the committed entries, and the one being written differs from it by the
  writer's own entries, short of the one it has inserted and not yet moved;
- `EntriesUnderLock`: whoever has an uncommitted entry for a user holds that user's
  balance row, so only one transaction's entries separate the two versions and
  its COMMIT or ROLLBACK makes one of them right;
- `CallsUnderLock`: between the lock and the move a call still holds the row, and
  the balance it read is the row's;
- `OneLiveHolder`: of two entries with a key, one is aborted; this gives
  `KeyAppliedOnce`;
- `ReversalsSeen`: an entry or call that reverses saw the original, carries its key
  and its opposite; with `OneLiveHolder` this gives `ReversalCancelsOnce`;
- `DebitsCovered`: a row below zero and below its committed version has a reversal by
  its writer; this gives `OnlyClawbackGoesNegative`.

`NextInvariant` has one lemma per action. Before it stands that the recursive sum is the last value of the only sequence of partial sums, and from it what appending an
entry and adding a transaction to the committed ones do to it. The
theorems then read each property off the invariant.

`LedgerIsImplemented` is the refinement of `AtomicLedger`: only a COMMIT of a transaction
that wrote an entry changes what readers see, and it is one `Post` of the
book; every other step is a stutter. The two keep their sums differently, one over a
sequence with the aborted rows in it, the other over a set of entries; both are the last value of
the same running sums, which are unique. The invariant supplies what `Post` asks for:
the key is new, the original of a reversal is in the book, a balance falls below zero by a
reversal only.

`LedgerNeverDeadlocks` assumes `AppendsPerTx = 1`: `LocksInOrder` says that a call
waiting for a balance row holds nothing, and one waiting for a key holds only its
balance row, so a circle would need a holder of an entry that waits, and holders
of entries do not. With more appends the claim is false: see the backfill in
section 4.

The other modules change the ledger by its own actions only (`Open`, `AppendEntry`,
`ReverseEntry`, `LockAhead`, `Advance`, `Refuse`, `Close`, `Fail`), and the theorems reach
them that way; for History, Redemption, Shop, Allocation, Webhook and Backfill that is itself a
theorem, so what is proved of the ledger holds of each, the refinement included.

**Redemption** (`RedemptionProofs`). Assumed, beside what Ledger assumes: the two
transactions of every request are in `Tx` (`RequestsRunTransactions`; that they are
distinct follows from their names), prices are positive and their opposites are amounts
callers append (`CostsArePositive`, `DebitsAreDeltas`), stock is a count or unlimited
(`StockIsACount`), and `Absent` is no row (`AbsentIsNoRow`). Three invariants, each
inductive given the ones before it:

- `RedemptionIInv`: the stage of a request fixes the fate of its two transactions
  (`StageFits`) and what the row of its key holds (`RequestFits`: claimed but not visible,
  RESERVED, or FAILED but not yet committed); a visible row names a pursued request whose
  reservation committed (`Recorded`), and whoever is writing a row is at a stage that
  writes (`Writing`), so a row in the hands of one request is not touched by another;
  what a caller was told agrees with what is now visible (`AnswerFits`). A status leaves
  RESERVED once and never comes back, so a step of one request keeps what the
  others rest on (`SeenKept`, `OthersFit`). `OnlyCrashesStrand`, `ReplaysWin` and `AnswersHold` are
  read off it.
- `StockIInv`: of a limited reward, the committed count and the number of visible
  redemptions that are not FAILED add up; an uncommitted count is one off, in the
  direction of the request whose transaction has the row, and that unit becomes visible
  or is dropped with the redemption in one COMMIT or ROLLBACK. It gives `StockIsConserved`.
- `EntriesIInv`: a request's reservation writes the entry it asked for and no other, and
  its compensation the exact reversal of that entry; the record says FAILED
  exactly when the compensation committed (`StatusFits`). `NoReversalYet` is the heart: the
  reversal's key is free when it is claimed, because entries that reverse are
  written by compensations only, each of its own request's debit. It gives
  `PointsFollow`.

`RedemptionIsLedger` maps every step to one of Ledger's or a stutter, so
`ReconcileEmpty`, `KeyAppliedOnce`, `ReversalCancelsOnce` and `OnlyClawbackGoesNegative` hold
behind any number of requests (`RedemptionKeepsLedgerPromises`).

**Shop** (in `RedemptionProofs`). Assumed, beside what Redemption assumes: the owner of a browser is a user (`BrowsersHaveOwners`). `ShopIsRedemption` makes a step
of a browser one of Redemption's or a stutter. `ShopIInv` adds to `RedemptionIInv` that a
key is minted by one page and the key a page holds is one of its own (`KeysFit`), that a request carries
a key of its page, which is the dialog's when the page still held the dialog, and is pursued
for the page's owner, under that key and for the reward clicked (`SentFits`), and that what a user was told is the answer the request got
(`ToldFits`, `Answered`). `HeldDialogsBuyOnce` follows because a user and a key have one slot in
the redemptions, so the requests under a key have at most one reservation between them; `ToldIsTrue`
because a status leaves RESERVED once, and because who paid has the redemption. The first does not speak of
a click on a dialog the page has let go of, which may buy again (section 4).

**Allocation** (`AllocationProofs`). Assumed, beside what Redemption assumes: the redemption of each
call and user is a request and its credit and reversal transactions are in `Tx` (`GrantsAreRequests`), the credits are amounts callers append
(`CreditsAreDeltas`), and the credit's key is an event key (`AdminKeysAreEventKeys`; that users and keys
have different ones follows from their form). `AllocationIInv` joins the three
invariants of Redemption with `GrantFits(a, u)`: at each stage of the call, what its credit, its redemption and its
reversal have written. `AllocatesOnce` speaks of all calls under a key together, and none of them knows
of the others. What separates them is `Contested`: another call has credited the same user
under the same key, or is about to, and that is the only case in which a credit or a reversal may
turn out a duplicate and the call writes nothing itself. So the credits under a key
are one entry by `OneLiveHolder`, and the charges one by the single slot of the redemption.
An attempt that is the first under its key is not contested, so
its entries are its own, and credit and debit, or credit and reversal, add
up to zero (`FirstAttemptsAreNeutral`). `AllocationKeepsPromises` repeats
what is proved of redemptions and of the ledger.

**Webhook** (`WebhookProofs`). Assumed, beside what Ledger assumes: the two
transactions of every post are in `Tx` (`PostsRunTransactions`), events name users and types
(`EventsNameUsersAndTypes`), a rule pays a positive amount that callers append (`RulesPay`),
and `Absent` is no row (`AbsentIsNoRow`). `ProcessedIsCredited` says nothing of the versions
being written; `WebhookIInv` strengthens it:

- `RowFits`: every version of a delivery's row keeps the body first put on file, and a
  version marked PROCESSED, seen or only being written, has an entry of its event that
  its writer sees (`Paid`), so the COMMIT that shows the mark shows the credit;
- `CreditFits`: every entry of an event, rolled back ones too, has the user and amount the
  event calls for, and the event's delivery is on file, well-formed, and of a known user
  and a priced type;
- `WorkFits`: by each stage, `processDelivery` has established what it checked before it, and
  its call of `appendEntry` is for the event's credit or has found it (`CallFits`);
- `PostFits`: a post that captured a delivery has its row (`Holding`) until its COMMIT, and
  what the partner was told agrees with what is on file.

What these say of an event, once so, stays so (`EventStays`: rows keep their body, users
and rules are not forgotten, the ledger only grows), so the step of one post preserves what
the others rest on (`TouchInv`), and each action has only its own post to look after. With
`OneLiveHolder` of the ledger the theorems are read off it: `ProcessedMeansCredited`,
`PartnersAreToldTheTruth`, and that Webhook implements Ledger (`WebhookKeepsLedgerPromises`).

**Backfill** (in `WebhookProofs`). Assumed, beside what Webhook assumes: the transaction of each
backfill is in `Tx` (`BackfillsRunTransactions`; that no post runs it follows from its name), and the deliveries stored at the start are not
PROCESSED (`NothingStoredIsCredited`). `BackfillIInv` is `WebhookIInv` with `RunFits`:
a backfill's transaction is open while it works, what it has listed is on file and not among the rows
it has written, and the row it is replaying is in its hands with UNMATCHED as its committed version (`RunAt`).
One transaction now credits several deliveries, and what `WebhookIInv` says of an
event is said per row and not per transaction, so a backfill's step touches it as a
post's does. The last clause gives `ReplaysWhatIsParked`: a row has one writer, and
others see what was committed.

**History** (`HistoryProofs`). Assumed, beside what Ledger assumes: the reader is a user, a page has
at least one entry, and ids are numbers, which compare (`ReaderIsAUser`, `LimitIsPositive`,
`UuidsCompare`). `HistoryIInv` has two parts over `LedgerIInv`. `TimesIInv` says that times are
taken under the balance lock: entries of one user are stamped in the order of the ledger
(`StampedInOrder`), what is committed is stamped no later than what is not
(`CommittedStampedFirst`), and whoever has asked the clock has the latest time
(`AskedLast`). So an entry that commits later is listed as later, but for entries
of the same millisecond. `ListFits` says that, of what was there when the list
was begun, it shows all that comes up to the next cursor, and has skipped ties only
(`SkipsTies`). The list theorems follow when there is no next cursor.
`HistoryBalanceFits` has it from `BalanceRowsAddUp` that the balance on screen is the sum of the
entries it has seen, all still there. `HistoryChartKeepsItsShape` subtracts from it the entries
listed before the one drawn, which are those later in the ledger unless they tie, and is left with what
only one of balance and list has seen.

**Earning rules** (`EarningRulesProofs`). Assumed: instants and prices are integers, and "no end" is
no instant. `RulesIInv` says active rules of a type share no instant (`ActiveRulesApart`), and that
the rule that priced an event was active and covered it (`ResolvedCover`). `PriceIsUnambiguous` is
read off the first; `LatePricesAgree` needs both, as two rules that priced one event share its
instant and cannot both be in the table. The lemmas `SharedInstant` and `OverlapIsShared` show that
the comparison of ends in `windowsOverlap` holds exactly when some instant is in both windows (the
later start). So `findOverlappingRules` finds every ambiguity, and what the
constraint lets in it never reports (`StoredRulesPass`): the two definitions of overlap, in SQL and
in TypeScript, are one.

**Accounts** (in `ShellProofs`). Assumed: `Stored`, that is `normaliseEmail`, is
idempotent; members differ and their addresses are stored ones; names of members, calls
and "none" differ. `AccountsIInv` adds to the types that a call is where its
transaction is (`CallsFollow`, `TokensFollow`), that emails are stored normalised, that of
two rows with one address one is aborted (`IndexIsUnique`, what the unique index
enforces against committed rows and waits for on uncommitted ones), and that only a
logout or an expiry ends a session (`OthersEndSessions`, `LogoutsFollow`). It gives
`AddressesAreUnique`, `LogoutRevokes` and the action property `EndedForGood`. `AnswersIInv` adds
what a call holds between finding something out and saying it: the account a sign-in found, the cookie
that is on the reply once the session row is written, the row that a 409 met. `AccountAnswersHold` is read off it.

**Shell** (`ShellProofs`). Every step of a browser is a step of Accounts or leaves it
alone (`ShellIsAccounts`), so `AccountsIInv` and the four theorems hold of Shell
(`ShellKeepsAccounts`). `ShellIInv` adds that a jar and a fetch carry a token
some call of this page was given (`CookiesAreOwn`), that a call is answered once
(`AnsweredOnce`), and that once a page was told it has left a session, neither its jar, its
cache nor a query it still listens to has that token (`LeftBehind`), of which
`SignOutIsFinal` is a part.

**Console** (`ConsoleProofs`). Assumed: normalising a SKU is idempotent and the
presets are normalised. `ConsoleIInv` says where a creation's transaction is when its call
is (`CreationsFollow`), that SKUs are stored normalised and the index is unique, that every listed reward is on
file (`ListsAreOnFile`), and that a press holds what it has found (`PressesFollow`).
Rewards are never removed, so what a list or a press has seen stays true; the four
theorems follow.

## 6. What is only model-checked

Liveness under fairness: `EveryRequestAnswered` of Redemption, `EveryPostAnswered` of Webhook and
`EveryPressSettles` of Console. The prover has no rule for ENABLED, on which weak
fairness rests. The two properties that are violated are shown by their
counterexamples. `NoDeadlock` is proved for one append per transaction, which is
every caller but the backfill (section 4). Every other property of a run is a
theorem of section 5.

## 7. What is abstracted, and what is not modelled

Amounts, prices and ages are small integers or flags; a name, key or body is a
model value. Wording, logging, metrics, rate limits, JSON validation and HTTP
headers are left out. Prices of rewards are constant, as no code changes them.
Plain reads that decide nothing (`listUsers`, the listings of deliveries) change
nothing and are left out. A statement timeout, a deadlock abort and a crash have the same
effect on the database and are one action. `Fulfilled` and `Unfulfilled` are a free
choice: the fulfilment in the repository is a stand-in that may answer either. An id
skipped by a sequence after a rollback is a row nobody sees. A password is right
or wrong. A browser of Shell is one tab: two tabs share a cookie jar, which
Shell does not say. Nor does it, or Console, have the click that lands before a
disabled button is drawn, which is in Shop. TanStack Query holds a request back while
the browser is offline; none of the three says so: a request of Shop may arrive at any time, and
`EveryPressSettles` is about a browser that is online.

Not modelled:

- *Webhook signature*: an HMAC and a tolerance, with no state; a post of Webhook is one that
  passed it.
- *Server, plugins and shutdown*: configuration, rate limits, health probes, error rendering. What
  a shutdown cuts off is the crash that every module allows at every statement; its own order
  (close, disconnect, or exit after twenty seconds) relates no two pieces of state.
- *Seed and reconcile commands*: run alone and sequential; what they seed is `Opening`
  and `AddRule`, what they check is `ReconcileEmpty` and `findOverlappingRules`.
- *Rest of the web app* (developer panel, themes, toasts, tables): draws what was fetched.

## 8. Plan

Done: Postgres and Ledger, AtomicLedger, Redemption, Webhook, Backfill,
EarningRules, Allocation, Shop, Accounts, Shell, History and Console, with the proofs of their safety
properties and of the refinements.

Left: the hazards without a property. The circle of a backfill and a post is a deadlock that
PostgreSQL breaks; what could be stated is that a backfill of one candidate never
takes part in one, which is `LedgerNeverDeadlocks` with the rows of deliveries added. A parked
delivery that grows too old, and the balance shown after a session expired, are things the
code allows.

## 9. Running it

`tlc -config MCLedger.cfg MCLedger.tla` checks a run; `tlapm LedgerProofs.tla`
checks the proofs of a module. The longest runs take up to three minutes with two workers.
