----------------------------- MODULE Redemption -----------------------------
(* modules/redemption/redemption.service.ts: a request spends points on a     *)
(* reward in two phases. The first, in one transaction, claims the            *)
(* idempotency key, holds a unit of stock and debits the points; then, with   *)
(* no transaction open, the reward is fulfilled; the second records the       *)
(* outcome, or gives points and stock back in a transaction of its own.       *)
EXTENDS Ledger, FiniteSets

CONSTANTS Requests, IdemKeys, Rewards,
          Cost, InitialStock,
          Withdrawn,     \* bound: the rewards that may be taken off the catalogue
          Unlimited,     \* stock IS NULL
          Absent         \* no redemption row

reserveTx(r) == <<r, "reserve">>
settleTx(r) == <<r, "settle">>

ASSUME RequestsRunTransactions == \A r \in Requests : {reserveTx(r), settleTx(r)} \subseteq Tx
ASSUME CostsArePositive == \A w \in Rewards : Cost[w] \in Nat \ {0}
ASSUME DebitsAreDeltas == \A w \in Rewards : -Cost[w] \in Deltas
ASSUME WithdrawnAreRewards == Withdrawn \subseteq Rewards
ASSUME StockIsACount == \A w \in Rewards : InitialStock[w] \in Nat \cup {Unlimited}

VARIABLES redemptions,  \* the row, if any, under each (user, idempotency key)
          stock,        \* rewards.stock
          offered,      \* rewards with active = true
          req,          \* the request each redeem call serves, and where it is
          answer        \* what its caller was told

ownVars == <<redemptions, stock, offered, req, answer>>
redemptionVars == <<ownVars, ledgerVars>>

\* Stages of the first phase, in its transaction, and of the second.
Reserving == {"lookup", "reward", "claim", "await", "replay", "lock", "stock", "debit", "debiting"}
Settling == {"release", "refund", "refunding", "settled"}
Working == Reserving \cup Settling \cup {"fulfil", "confirm"}
txOf(r) == IF req[r].at \in Reserving THEN reserveTx(r) ELSE settleTx(r)

Slot(r) == <<req[r].user, req[r].key>>
RowOf(r) == redemptions[Slot(r)]
Unanswered == [status |-> "none", of |-> Absent]

RedemptionInit ==
  /\ LedgerInit
  /\ redemptions = [s \in Users \X IdemKeys |-> Loaded(Absent)]
  /\ stock = [w \in Rewards |-> Loaded(InitialStock[w])]
  /\ offered = Rewards
  /\ req = [r \in Requests |-> [at |-> "new"]]
  /\ answer = [r \in Requests |-> Unanswered]

Goto(r, at) == req' = [req EXCEPT ![r].at = at]
Answer(r, status, of) == /\ Goto(r, "done")
                         /\ answer' = [answer EXCEPT ![r] = [status |-> status, of |-> of]]

-----------------------------------------------------------------------------
(* Phase 1: reserve.                                                         *)

\* POST /redemptions opens the transaction. late: the key's work is already done.
Arrive(r, u, k, w) ==
  /\ req[r].at = "new" /\ Open(reserveTx(r))
  /\ req' = [req EXCEPT ![r] = [at |-> "lookup", user |-> u, key |-> k, reward |-> w,
                                late |-> Latest(redemptions[<<u, k>>]) # Absent,
                                found |-> Absent]]
  /\ UNCHANGED <<redemptions, stock, offered, answer>>
\* Seeded fault: the catalogue is consulted before the key.
LookupLater(r) ==
  /\ req[r].at = "lookup" /\ Goto(r, "reward")
  /\ UNCHANGED <<redemptions, stock, offered, answer, ledgerVars>>

\* findRedemptionByKey: a replay wins over everything, including the catalogue.
Lookup(r) ==
  /\ req[r].at = "lookup"
  /\ LET row == View(reserveTx(r), RowOf(r)) IN
     IF row = Absent THEN Goto(r, "reward")
     ELSE req' = [req EXCEPT ![r].at = "replay", ![r].found = row]
  /\ UNCHANGED <<redemptions, stock, offered, answer, ledgerVars>>

ReadReward(r) ==
  /\ req[r].at = "reward" /\ req[r].reward \in offered
  /\ Goto(r, "claim")
  /\ UNCHANGED <<redemptions, stock, offered, answer, ledgerVars>>

Unavailable(r) ==
  /\ req[r].at = "reward" /\ req[r].reward \notin offered
  /\ Fail(reserveTx(r)) /\ Answer(r, "refused", Absent)
  /\ UNCHANGED <<redemptions, stock, offered>>
\* Seeded fault: an upsert, which overwrites whoever holds the key.
ClaimOver(r) ==
  /\ req[r].at = "claim" /\ ~ Waits(reserveTx(r), RowOf(r))
  /\ redemptions' = [redemptions EXCEPT ![Slot(r)] =
       Written(reserveTx(r), @, [of |-> r, status |-> "RESERVED", reward |-> req[r].reward])]
  /\ Goto(r, "lock")
  /\ UNCHANGED <<stock, offered, answer, ledgerVars>>

\* INSERT ... ON CONFLICT (user_id, idempotency_key) DO NOTHING.
Claim(r) ==
  /\ req[r].at = "claim" /\ ~ Waits(reserveTx(r), RowOf(r))
  /\ Latest(RowOf(r)) = Absent
  /\ redemptions' = [redemptions EXCEPT ![Slot(r)] =
       Written(reserveTx(r), @, [of |-> r, status |-> "RESERVED", reward |-> req[r].reward])]
  /\ Goto(r, "lock")
  /\ UNCHANGED <<stock, offered, answer, ledgerVars>>

Conflict(r) ==
  /\ req[r].at = "claim" /\ ~ Waits(reserveTx(r), RowOf(r))
  /\ Latest(RowOf(r)) # Absent
  /\ Goto(r, "await")
  /\ UNCHANGED <<redemptions, stock, offered, answer, ledgerVars>>

\* SELECT ... FOR UPDATE of the row the claim conflicted with.
Await(r) ==
  /\ req[r].at = "await" /\ ~ Waits(reserveTx(r), RowOf(r))
  /\ redemptions' = [redemptions EXCEPT ![Slot(r)] = Locked(reserveTx(r), @)]
  /\ req' = [req EXCEPT ![r].at = "replay", ![r].found = Latest(RowOf(r))]
  /\ UNCHANGED <<stock, offered, answer, ledgerVars>>

\* toReplayOutcome: the row as it was read, and the transaction ends.
Replay(r) ==
  /\ req[r].at = "replay" /\ Close(reserveTx(r))
  /\ Answer(r, req[r].found.status, req[r].found.of)
  /\ UNCHANGED <<redemptions, stock, offered>>
\* Seeded fault: the balance row is left to appendEntry, after the stock.
LockLater(r) ==
  /\ req[r].at = "lock" /\ Goto(r, "stock")
  /\ UNCHANGED <<redemptions, stock, offered, answer, ledgerVars>>

LockUser(r) ==
  /\ req[r].at = "lock" /\ LockAhead(reserveTx(r), req[r].user)
  /\ Goto(r, "stock")
  /\ UNCHANGED <<redemptions, stock, offered, answer>>
\* Seeded fault: stock is decremented without AND stock > 0.
TakeAnyStock(r) ==
  LET w == req[r].reward  t == reserveTx(r) IN
  /\ req[r].at = "stock" /\ InitialStock[w] # Unlimited /\ ~ Waits(t, stock[w])
  /\ stock' = [stock EXCEPT ![w] = Written(t, @, View(t, @) - 1)]
  /\ Goto(r, "debit")
  /\ UNCHANGED <<redemptions, offered, answer, ledgerVars>>

\* UPDATE rewards SET stock = stock - 1 WHERE stock > 0, unless unlimited.
TakeStock(r) ==
  LET w == req[r].reward  t == reserveTx(r) IN
  /\ req[r].at = "stock"
  /\ \/ InitialStock[w] = Unlimited /\ UNCHANGED stock
     \/ /\ InitialStock[w] # Unlimited
        /\ ~ Waits(t, stock[w]) /\ View(t, stock[w]) > 0
        /\ stock' = [stock EXCEPT ![w] = Written(t, @, View(t, @) - 1)]
  /\ Goto(r, "debit")
  /\ UNCHANGED <<redemptions, offered, answer, ledgerVars>>
\* Seeded fault: the refusal is returned, not thrown, and the claim commits.
RefuseAndCommit(r) ==
  LET w == req[r].reward  t == reserveTx(r) IN
  /\ req[r].at = "stock" /\ InitialStock[w] # Unlimited
  /\ View(t, stock[w]) = 0
  /\ Close(t) /\ Answer(r, "refused", Absent)
  /\ UNCHANGED <<redemptions, stock, offered>>

\* No unit in the version the UPDATE sees: it matches no row, and waits for none.
OutOfStock(r) ==
  LET w == req[r].reward  t == reserveTx(r) IN
  /\ req[r].at = "stock" /\ InitialStock[w] # Unlimited
  /\ View(t, stock[w]) = 0
  /\ Fail(t) /\ Answer(r, "refused", Absent)
  /\ UNCHANGED <<redemptions, stock, offered>>

Debit(r) ==
  /\ req[r].at = "debit"
  /\ AppendEntry(reserveTx(r), [user |-> req[r].user, delta |-> -Cost[req[r].reward],
                                key |-> NoKey, reverses |-> NoEntry])
  /\ Goto(r, "debiting")
  /\ UNCHANGED <<redemptions, stock, offered, answer>>

\* The ledger's own statements, in either phase.
LedgerWork(r) ==
  /\ req[r].at \in {"debiting", "refunding"} /\ Advance(txOf(r))
  /\ UNCHANGED ownVars

Insufficient(r) ==
  /\ req[r].at = "debiting" /\ Refuse(reserveTx(r))
  /\ Answer(r, "refused", Absent)
  /\ UNCHANGED <<redemptions, stock, offered>>

Reserved(r) ==
  /\ req[r].at = "debiting" /\ call[reserveTx(r)].at = "done" /\ Close(reserveTx(r))
  /\ Goto(r, "fulfil")
  /\ UNCHANGED <<redemptions, stock, offered, answer>>

-----------------------------------------------------------------------------
(* Phase 2: the provider's verdict, outside any transaction.                 *)

Fulfilled(r) ==
  /\ req[r].at = "fulfil" /\ Goto(r, "confirm")
  /\ UNCHANGED <<redemptions, stock, offered, answer, ledgerVars>>

\* UPDATE redemptions SET status = 'FULFILLED' WHERE id, by itself.
MarkFulfilled(r) ==
  /\ req[r].at = "confirm" /\ ~ IsActive(RowOf(r).by)
  /\ redemptions' = [redemptions EXCEPT ![Slot(r)] =
                       Autocommitted([Latest(@) EXCEPT !.status = "FULFILLED"])]
  /\ UNCHANGED <<stock, offered, ledgerVars>>

Confirm(r) == MarkFulfilled(r) /\ Answer(r, "FULFILLED", r)

Unfulfilled(r) ==
  /\ req[r].at = "fulfil" /\ Open(settleTx(r))
  /\ Goto(r, "release")
  /\ UNCHANGED <<redemptions, stock, offered, answer>>
\* Seeded fault: compensation finds nothing to release.
ReleaseNothing(r) ==
  /\ req[r].at = "release" /\ Goto(r, "settled")
  /\ UNCHANGED <<redemptions, stock, offered, answer, ledgerVars>>

\* compensate: only who moves the row out of RESERVED gives anything back.
Release(r) ==
  LET t == settleTx(r)  row == View(t, RowOf(r)) IN
  /\ req[r].at = "release" /\ ~ Waits(t, RowOf(r))
  /\ IF row.status = "RESERVED"
     THEN /\ Goto(r, "refund")
          /\ redemptions' = [redemptions EXCEPT ![Slot(r)] =
                               Written(t, @, [row EXCEPT !.status = "FAILED"])]
     ELSE Goto(r, "settled") /\ UNCHANGED redemptions
  /\ UNCHANGED <<stock, offered, answer, ledgerVars>>
\* Seeded fault: the points come back as a credit, not as a reversal.
RefundAsCredit(r) ==
  /\ req[r].at = "refund"
  /\ AppendEntry(settleTx(r), [user |-> req[r].user, delta |-> Cost[req[r].reward],
                               key |-> NoKey, reverses |-> NoEntry])
  /\ Goto(r, "refunding")
  /\ UNCHANGED <<redemptions, stock, offered, answer>>

Refund(r) ==
  /\ req[r].at = "refund" /\ ReverseEntry(settleTx(r), call[reserveTx(r)].id)
  /\ Goto(r, "refunding")
  /\ UNCHANGED <<redemptions, stock, offered, answer>>
\* Seeded fault: the unit of stock is not given back.
KeepStock(r) ==
  /\ req[r].at = "refunding" /\ call[settleTx(r)].at = "done"
  /\ Goto(r, "settled")
  /\ UNCHANGED <<redemptions, stock, offered, answer, ledgerVars>>

\* UPDATE rewards SET stock = stock + 1 WHERE stock IS NOT NULL.
Restock(r) ==
  LET w == req[r].reward  t == settleTx(r) IN
  /\ req[r].at = "refunding" /\ call[t].at = "done"
  /\ \/ InitialStock[w] = Unlimited /\ UNCHANGED stock
     \/ /\ InitialStock[w] # Unlimited /\ ~ Waits(t, stock[w])
        /\ stock' = [stock EXCEPT ![w] = Written(t, @, View(t, @) + 1)]
  /\ Goto(r, "settled")
  /\ UNCHANGED <<redemptions, offered, answer, ledgerVars>>

Settle(r) ==
  /\ req[r].at = "settled" /\ Close(settleTx(r))
  /\ Answer(r, "FAILED", r)
  /\ UNCHANGED <<redemptions, stock, offered>>

-----------------------------------------------------------------------------
\* A timeout, a lost connection or a crash: the open transaction, if there is
\* one, is rolled back (or the COMMIT's answer is lost) and nobody carries on.
CutOff(r) ==
  /\ req[r].at \in Working
  /\ \/ req[r].at \in {"fulfil", "confirm"} /\ UNCHANGED ledgerVars
     \/ req[r].at \notin {"fulfil", "confirm"} /\ Fail(txOf(r))
     \/ req[r].at = "settled" /\ Close(settleTx(r))
  /\ Answer(r, "error", Absent)
  /\ UNCHANGED <<redemptions, stock, offered>>

\* The UPDATE that fulfils is done, and the answer to it is lost.
ConfirmUnheard(r) == MarkFulfilled(r) /\ Answer(r, "error", Absent)

Throw(r) == CutOff(r) \/ ConfirmUnheard(r)

Deactivate(w) ==
  /\ w \in offered \cap Withdrawn /\ offered' = offered \ {w}
  /\ UNCHANGED <<redemptions, stock, req, answer, ledgerVars>>

\* Every statement of request r that the code goes on to by itself.
Serve(r) ==
  \/ Lookup(r) \/ ReadReward(r) \/ Unavailable(r) \/ Claim(r) \/ Conflict(r) \/ Await(r)
  \/ Replay(r) \/ LockUser(r) \/ TakeStock(r) \/ OutOfStock(r) \/ Debit(r)
  \/ LedgerWork(r) \/ Insufficient(r) \/ Reserved(r)
  \/ Fulfilled(r) \/ Confirm(r) \/ Unfulfilled(r)
  \/ Release(r) \/ Refund(r) \/ Restock(r) \/ Settle(r)

RedemptionNext ==
  \/ \E r \in Requests :
       \/ \E u \in Users, k \in IdemKeys, w \in Rewards : Arrive(r, u, k, w)
       \/ Serve(r)
       \/ Throw(r)
  \/ \E w \in Rewards : Deactivate(w)

RedemptionSpec == RedemptionInit /\ [][RedemptionNext]_redemptionVars
FairRedemptionSpec == RedemptionSpec /\ \A r \in Requests : WF_redemptionVars(Serve(r))
-----------------------------------------------------------------------------
Redeemed == [of : Requests, status : {"RESERVED", "FULFILLED", "FAILED"}, reward : Rewards]
ASSUME AbsentIsNoRow == Absent \notin Redeemed

RedemptionTypeOK ==
  /\ redemptions \in [Users \X IdemKeys -> Cell(Redeemed \cup {Absent})]
  /\ stock \in [Rewards -> Cell(Nat \cup {Unlimited})]
  /\ offered \subseteq Rewards
  /\ req \in [Requests ->
       [at : {"new"}] \cup
       [at : Working \cup {"done"}, user : Users, key : IdemKeys, reward : Rewards,
        late : BOOLEAN, found : Redeemed \cup {Absent}]]
  /\ answer \in [Requests ->
       [status : {"none", "refused", "error", "RESERVED", "FULFILLED", "FAILED"},
        of : Requests \cup {Absent}]]

\* The redemptions a reader sees, and the entries a request committed.
Redemptions == {s \in Users \X IdemKeys : Latest(redemptions[s]) # Absent}
Seen(s) == Latest(redemptions[s])
Debits(r) == {i \in Entries : rows[i].by = reserveTx(r)}
Refunds(r) == {i \in Entries : rows[i].by = settleTx(r)}

(* Points follow the record of the redemption: each visible redemption has    *)
(* one debit of its price and, exactly when it FAILED, one reversal of that   *)
(* debit; a request without a redemption of its own has moved no points       *)
(* (reserve claims the key before it debits, compensate reverses with the     *)
(* status it sets).                                                           *)
PointsFollowRedemptions ==
  /\ \A s \in Redemptions : LET red == Seen(s) IN
       \E i \in Debits(red.of) :
         /\ Debits(red.of) = {i}
         /\ rows[i].user = s[1] /\ rows[i].delta = -Cost[red.reward]
         /\ IF red.status = "FAILED"
            THEN \E j \in Entries : Refunds(red.of) = {j} /\ rows[j].reverses = i
            ELSE Refunds(red.of) = {}
  /\ \A r \in Requests :
       (\A s \in Redemptions : Seen(s).of # r) => Debits(r) \cup Refunds(r) = {}

(* Stock is conserved: what is left of a limited reward and what its          *)
(* redemptions hold are what there was, so the last unit is never sold twice  *)
(* and a refused or failed redemption keeps none (UPDATE ... WHERE stock > 0, *)
(* compensate).                                                               *)
StockConserved ==
  \A w \in Rewards :
    IF InitialStock[w] = Unlimited THEN Latest(stock[w]) = Unlimited
    ELSE /\ Latest(stock[w]) >= 0
         /\ Latest(stock[w]) + Cardinality({s \in Redemptions : /\ Seen(s).reward = w
                                                               /\ Seen(s).status # "FAILED"})
              = InitialStock[w]

(* What a caller is told is so: a refusal means nothing of the request is in  *)
(* the books, a success or failure is that of the redemption under the        *)
(* caller's own key, and a replayed RESERVED is of that redemption too        *)
(* (redeem, toReplayOutcome).                                                 *)
AnswersAreTrue ==
  \A r \in Requests : LET told == answer[r] IN
    /\ told.status = "refused" => \A s \in Redemptions : Seen(s).of # r
    /\ told.status \in {"RESERVED", "FULFILLED", "FAILED"} =>
         Slot(r) \in Redemptions /\ Seen(Slot(r)).of = told.of
    /\ told.status \in {"FULFILLED", "FAILED"} => Seen(Slot(r)).status = told.status

(* A replay wins over everything, including the catalogue: a request that     *)
(* arrives when its key's redemption exists is never refused, whatever has    *)
(* become of the reward, the stock and the points since (the order of the     *)
(* lookups in reserve).                                                       *)
ReplayWins ==
  \A r \in Requests :
    req[r].at = "done" /\ req[r].late =>
      /\ answer[r].status # "refused"
      /\ \A s \in Redemptions : Seen(s).of # r

(* A redemption is left RESERVED only by a request still at work or one that  *)
(* was cut off: every other path settles it (redeem; a sweeper for the cut    *)
(* off ones is documented as missing).                                        *)
StrandedOnlyByCrash ==
  \A s \in Redemptions : Seen(s).status = "RESERVED" =>
    LET r == Seen(s).of IN req[r].at \in Working \/ answer[r].status = "error"

(* Every redemption request is answered, as long as its statements keep       *)
(* running: no request waits forever for a row or a key (redeem).             *)
EveryRequestAnswered ==
  \A r \in Requests : req[r].at # "new" ~> req[r].at = "done"
=============================================================================
