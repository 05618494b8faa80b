--------------------------- MODULE RedemptionProofs ---------------------------
(* Proofs about Redemption and Shop, for any number of users, requests, keys, *)
(* rewards and browsers: redemption uses the ledger as Ledger specifies, its  *)
(* record agrees with what its request did and what callers were told. Of the *)
(* shop: the clicks on a dialog that the page still holds buy at most once,   *)
(* and what a user is told of points spent, returned or untouched is so.      *)
EXTENDS Shop, LedgerProofs, FiniteSetTheorems

Pursued(r) == req[r].at # "new"
Slots == Users \X IdemKeys
Mine(r, status) == [of |-> r, status |-> status, reward |-> req[r].reward]

\* Between the claim of the key and the COMMIT of the reservation.
Claiming == {"lock", "stock", "debit", "debiting"}
Claimed(r) == RowOf(r) = [was |-> Absent, now |-> Mine(r, "RESERVED"), by |-> reserveTx(r)]
\* Between the change of status and the COMMIT of the compensation.
Undoing == {"refund", "refunding", "settled"}
Released(r) == RowOf(r) = [was |-> Mine(r, "RESERVED"), now |-> Mine(r, "FAILED"),
                           by |-> settleTx(r)]

\* Where a request is, what its transactions have done.
StageFits(r) ==
  LET R == clog[reserveTx(r)]  S == clog[settleTx(r)]  at == req[r].at IN
  /\ at = "new" => R = "new" /\ S = "new"
  /\ at \in Reserving => R = "active" /\ S = "new"
  /\ at \in {"fulfil", "confirm"} => R = "committed" /\ S = "new"
  /\ at \in Settling => R = "committed" /\ S = "active"
  /\ at = "done" => R \notin {"new", "active"} /\ S # "active"

\* A redemption that readers see is its request's own, and committed.
Recorded(s) ==
  LET row == Seen(s)  r == row.of IN
  row # Absent =>
    /\ r \in Requests /\ Pursued(r) /\ Slot(r) = s /\ row.reward = req[r].reward
    /\ clog[reserveTx(r)] = "committed"
    /\ row.status = "RESERVED" => req[r].at \in {"fulfil", "confirm"} \cup Settling
                                  \/ answer[r].status = "error"

\* Whoever is writing a row is claiming, replaying or releasing it.
Writing(s, r) ==
  /\ Pursued(r) /\ Slot(r) = s
  /\ \/ redemptions[s].by = reserveTx(r) /\ req[r].at \in Claiming
     \/ redemptions[s].by = settleTx(r) /\ req[r].at \in Undoing
     \/ /\ redemptions[s].by = reserveTx(r) /\ req[r].at = "replay"
        /\ redemptions[s].now = redemptions[s].was

RowFits(s) ==
  /\ clog[redemptions[s].by] # "new"
  /\ Recorded(s)
  /\ IsActive(redemptions[s].by) => \E r \in Requests : Writing(s, r)

\* The record is of that redemption, and has that status once it is settled.
Agrees(row, of, status) ==
  row # Absent /\ row.of = of /\ (status # "RESERVED" => row.status = status)

\* What a request has found and written, against the record.
RequestFits(r) ==
  LET at == req[r].at  row == Seen(Slot(r)) IN
  Pursued(r) =>
    /\ at \in Claiming => Claimed(r)
    /\ at \in {"fulfil", "confirm", "release"} => row = Mine(r, "RESERVED")
    /\ at \in Undoing => Released(r)
    /\ at = "await" => row # Absent
    /\ at = "replay" => req[r].found # Absent
                        /\ Agrees(row, req[r].found.of, req[r].found.status)
    /\ req[r].late => /\ row # Absent /\ row.of # r /\ at \in {"lookup", "replay", "done"}
                      /\ answer[r].status # "refused"

\* What its caller was told.
AnswerFits(r) ==
  /\ answer[r].status # "none" => req[r].at = "done"
  /\ answer[r].status = "refused" => clog[reserveTx(r)] = "aborted"
  /\ answer[r].status \in {"RESERVED", "FULFILLED", "FAILED"} =>
       Agrees(Seen(Slot(r)), answer[r].of, answer[r].status)

\* An unlimited reward has no count, and no other loses its own.
StockTyped == \A w \in Rewards : IF InitialStock[w] = Unlimited THEN stock[w] = Loaded(Unlimited)
                                 ELSE stock[w] \in Cell(Nat)

RedemptionIInv ==
  /\ LedgerIInv
  /\ RedemptionTypeOK
  /\ StockTyped
  /\ \A r \in Requests : StageFits(r) /\ RequestFits(r) /\ AnswerFits(r)
  /\ \A s \in Slots : RowFits(s)

USE SetupIsNotATx
-----------------------------------------------------------------------------
(* Transactions of requests, and the shapes of their state.                  *)

LEMMA TxTypes ==
  ASSUME NEW r \in Requests
  PROVE  /\ reserveTx(r) \in Tx /\ settleTx(r) \in Tx
         /\ reserveTx(r) \in Xids /\ settleTx(r) \in Xids
         /\ reserveTx(r) # Setup /\ settleTx(r) # Setup
         /\ \A q \in Requests : /\ reserveTx(r) # settleTx(q)
                                /\ reserveTx(r) = reserveTx(q) => r = q
                                /\ settleTx(r) = settleTx(q) => r = q
<1>1. reserveTx(r) \in Tx /\ settleTx(r) \in Tx
  BY RequestsRunTransactions
<1> QED BY <1>1 DEF Xids, reserveTx, settleTx

Pursuits == [at : Working \cup {"done"}, user : Users, key : IdemKeys, reward : Rewards,
             late : BOOLEAN, found : Redeemed \cup {Absent}]

LEMMA ReqTypes ==
  ASSUME RedemptionTypeOK, NEW r \in Requests, Pursued(r)
  PROVE  /\ req[r] \in Pursuits
         /\ req[r].user \in Users /\ req[r].key \in IdemKeys /\ req[r].reward \in Rewards
         /\ Slot(r) \in Slots
         /\ RowOf(r) \in Cell(Redeemed \cup {Absent})
<1>1. req[r] \in Pursuits
  BY DEF RedemptionTypeOK, Pursued, Pursuits
<1>2. req[r].user \in Users /\ req[r].key \in IdemKeys /\ req[r].reward \in Rewards
  BY <1>1 DEF Pursuits
<1>3. Slot(r) \in Slots
  BY <1>2 DEF Slot, Slots
<1> QED BY <1>1, <1>2, <1>3 DEF RedemptionTypeOK, RowOf, Slots

-----------------------------------------------------------------------------
(* Every step is one of the ledger's, or leaves the ledger alone.            *)

LEMMA RequestStep ==
  ASSUME RedemptionTypeOK, NEW r \in Requests, Serve(r) \/ Throw(r)
  PROVE  LedgerNext \/ UNCHANGED ledgerVars
<1> DEFINE R == reserveTx(r)
           S == settleTx(r)
<1>1. R \in Tx /\ S \in Tx /\ txOf(r) \in Tx
  BY TxTypes DEF txOf
<1>2. CASE \E t \in {R, S} : Open(t) \/ Close(t) \/ Fail(t) \/ Refuse(t) \/ Advance(t)
  BY <1>1, <1>2 DEF LedgerNext, AppendStep
<1>3. CASE LockUser(r)
  <2>1. req[r].user \in Users
    BY <1>3, ReqTypes DEF LockUser, Pursued
  <2> QED BY <1>1, <1>3, <2>1 DEF LockUser, LedgerNext
<1>4. CASE Debit(r)
  <2>1. req[r].user \in Users /\ -Cost[req[r].reward] \in Deltas
    BY <1>4, ReqTypes, DebitsAreDeltas DEF Debit, Pursued
  <2> QED BY <1>1, <1>4, <2>1 DEF Debit, LedgerNext
<1>5. CASE Refund(r)
  BY <1>1, <1>5 DEF Refund, LedgerNext, ReverseEntry
<1>6. CASE UNCHANGED ledgerVars
  BY <1>6
<1>7. CASE Serve(r)
  <2>1. LedgerWork(r) => \E t \in {R, S} : Advance(t)
    BY DEF LedgerWork, txOf
  <2> HIDE DEF R, S
  <2> QED
    BY <1>2, <1>3, <1>4, <1>5, <1>6, <1>7, <2>1
    DEF Serve, Lookup, ReadReward, Unavailable, Claim, Conflict, Await, Replay, TakeStock,
        OutOfStock, Insufficient, Reserved, Fulfilled, Confirm, MarkFulfilled, Unfulfilled,
        Release, Restock, Settle, R, S
<1>8. CASE Throw(r)
  <2>1. txOf(r) \in {R, S}
    BY DEF txOf
  <2> HIDE DEF R
  <2> QED BY <1>2, <1>6, <1>8, <2>1 DEF Throw, CutOff, ConfirmUnheard, MarkFulfilled, S
<1> QED BY <1>7, <1>8

LEMMA RedemptionStep ==
  ASSUME RedemptionTypeOK, [RedemptionNext]_redemptionVars
  PROVE  [LedgerNext]_ledgerVars
<1>1. CASE UNCHANGED redemptionVars
  BY <1>1 DEF redemptionVars
<1>2. ASSUME NEW r \in Requests, NEW u \in Users, NEW k \in IdemKeys, NEW w \in Rewards,
             Arrive(r, u, k, w)
      PROVE  LedgerNext
  BY <1>2, TxTypes DEF Arrive, LedgerNext
<1>3. ASSUME NEW w \in Rewards, Deactivate(w) PROVE UNCHANGED ledgerVars
  BY <1>3 DEF Deactivate
<1> QED BY <1>1, <1>2, <1>3, RequestStep DEF RedemptionNext

-----------------------------------------------------------------------------
(* What a step of request r does to the record, and to nobody else's part of  *)
(* it: this is all that the invariant of other requests and rows rests on.    *)

PhaseTxs(r) == {reserveTx(r), settleTx(r)}
OthersKept(r) ==
  /\ \A q \in Requests \ {r} : req'[q] = req[q] /\ answer'[q] = answer[q]
  /\ \A x \in Xids \ PhaseTxs(r) : clog'[x] = clog[x]

\* What readers see of a row changes only for the redemption of r, and only
\* when it appears or leaves RESERVED.
SeenKept(r, s) ==
  \/ Seen(s)' = Seen(s)
  \/ /\ Seen(s)' # Absent /\ Seen(s)'.of = r
     /\ Seen(s) # Absent => Seen(s).of = r /\ Seen(s).status = "RESERVED"

RowKept(r, s) ==
  /\ SeenKept(r, s)
  /\ Seen(s)' # Absent /\ Seen(s)'.of = r => Recorded(s)'
  /\ IsActive(redemptions[s].by) /\ redemptions[s].by \notin PhaseTxs(r)
       => redemptions'[s] = redemptions[s]
  /\ \/ redemptions'[s] = redemptions[s] /\ redemptions[s].by \notin PhaseTxs(r)
     \/ redemptions'[s].by = Setup
     \/ /\ redemptions'[s].by \in PhaseTxs(r) /\ clog'[redemptions'[s].by] # "new"
        /\ IsActive(redemptions[s].by)' => Writing(s, r)'

\* What readers see: nothing new, or the redemption of r has gone from old to new.
SeenSame == \A s \in Slots : Seen(s)' = Seen(s)
SeenAs(r, old, new) ==
  \E own \in Slots : /\ own = Slot(r) /\ Seen(own) = old /\ Seen(own)' = new
                     /\ \A s \in Slots \ {own} : Seen(s)' = Seen(s)

Touches(r) == OthersKept(r) /\ \A s \in Slots : RowKept(r, s)

LEMMA OthersFit ==
  ASSUME RedemptionIInv, NEW r \in Requests, Touches(r), NEW q \in Requests \ {r}
  PROVE  StageFits(q)' /\ RequestFits(q)' /\ AnswerFits(q)'
<1>1. /\ req'[q] = req[q] /\ answer'[q] = answer[q]
      /\ clog'[reserveTx(q)] = clog[reserveTx(q)] /\ clog'[settleTx(q)] = clog[settleTx(q)]
  BY TxTypes DEF Touches, OthersKept, PhaseTxs
<1>2. StageFits(q) /\ RequestFits(q) /\ AnswerFits(q)
  BY DEF RedemptionIInv
<1>3. StageFits(q)'
  BY <1>1, <1>2 DEF StageFits
<1>4. CASE ~ Pursued(q)
  BY <1>1, <1>2, <1>3, <1>4 DEF Pursued, RequestFits, AnswerFits
<1>5. CASE Pursued(q)
  <2>1. PICK s \in Slots : /\ Slot(q) = s /\ Slot(q)' = s
                           /\ RowOf(q) = redemptions[s] /\ RowOf(q)' = redemptions'[s]
    BY <1>1, <1>5, ReqTypes DEF Slot, RowOf, RedemptionIInv
  <2>2. RowKept(r, s)
    BY <2>1 DEF Touches
  <2>3. SeenKept(r, s) /\ Pursued(q)' /\ (\A x : Mine(q, x)' = Mine(q, x))
    BY <1>1, <1>5, <2>2 DEF RowKept, Pursued, Mine
  <2>4. reserveTx(q) \notin PhaseTxs(r) /\ settleTx(q) \notin PhaseTxs(r)
    BY TxTypes DEF PhaseTxs
  <2>5. RowOf(q).by \in PhaseTxs(q) /\ IsActive(RowOf(q).by) => RowOf(q)' = RowOf(q)
    BY <2>1, <2>2, <2>4 DEF RowKept, PhaseTxs
  <2>6. req[q].at \in Claiming => Claimed(q)'
    BY <1>1, <1>2, <1>5, <2>3, <2>5
    DEF RequestFits, StageFits, Claimed, Claiming, Reserving, IsActive, PhaseTxs
  <2>7. req[q].at \in Undoing => Released(q)'
    BY <1>1, <1>2, <1>5, <2>3, <2>5
    DEF RequestFits, StageFits, Released, Undoing, Settling, IsActive, PhaseTxs
  <2>8. req[q].at \in {"fulfil", "confirm", "release"} => Seen(Slot(q))' = Mine(q, "RESERVED")'
    <3> HAVE req[q].at \in {"fulfil", "confirm", "release"}
    <3>1. Seen(s) = Mine(q, "RESERVED")
      BY <1>2, <1>5, <2>1 DEF RequestFits
    <3>2. Mine(q, "RESERVED") # Absent /\ Mine(q, "RESERVED").of # r
      BY <1>5, ReqTypes, AbsentIsNoRow DEF Mine, Redeemed, RedemptionIInv
    <3> QED BY <2>1, <2>3, <3>1, <3>2 DEF SeenKept, Seen
  <2>9. ASSUME NEW of, NEW x, Agrees(Seen(s), of, x) PROVE Agrees(Seen(s)', of, x)
    BY <2>3, <2>9 DEF SeenKept, Agrees
  <2>10. Seen(Slot(q))' = Seen(s)'
    BY <2>1 DEF Seen
  <2>11. RequestFits(q)'
    <3>1. req[q].at = "await" => Seen(Slot(q))' # Absent
      BY <1>2, <1>5, <2>1, <2>3 DEF RequestFits, SeenKept
    <3>2. req[q].at = "replay" => /\ req[q].found # Absent
                                  /\ Agrees(Seen(s)', req[q].found.of, req[q].found.status)
      BY <1>2, <1>5, <2>1, <2>9 DEF RequestFits
    <3>3. req[q].late => /\ Seen(s)' # Absent /\ Seen(s)'.of # q
                         /\ req[q].at \in {"lookup", "replay", "done"}
                         /\ answer[q].status # "refused"
      BY <1>2, <1>5, <2>1, <2>3 DEF RequestFits, SeenKept
    <3> QED BY <1>1, <2>10, <2>6, <2>7, <2>8, <3>1, <3>2, <3>3 DEF RequestFits, Agrees
  <2>12. AnswerFits(q)'
    <3>1. answer[q].status \in {"RESERVED", "FULFILLED", "FAILED"} =>
            Agrees(Seen(s)', answer[q].of, answer[q].status)
      BY <1>2, <2>1, <2>9 DEF AnswerFits
    <3> QED BY <1>1, <1>2, <2>10, <3>1 DEF AnswerFits, Agrees
  <2> QED BY <1>3, <2>11, <2>12
<1> QED BY <1>3, <1>4, <1>5

LEMMA RowsFit ==
  ASSUME RedemptionIInv, NEW r \in Requests, Touches(r), clog'[Setup] = "committed",
         NEW s \in Slots
  PROVE  RowFits(s)'
<1>1. RowFits(s) /\ RowKept(r, s)
  BY DEF RedemptionIInv, Touches
<1>2. ASSUME NEW q \in Requests \ {r}
      PROVE  /\ req'[q] = req[q] /\ answer'[q] = answer[q]
             /\ clog'[reserveTx(q)] = clog[reserveTx(q)]
             /\ clog'[settleTx(q)] = clog[settleTx(q)]
  BY <1>2, TxTypes DEF Touches, OthersKept, PhaseTxs
<1>3. Recorded(s)'
  <2>1. CASE Seen(s)' = Seen(s) /\ Seen(s) # Absent /\ Seen(s).of # r
    <3>1. Recorded(s) /\ Seen(s).of \in Requests \ {r}
      BY <1>1, <2>1 DEF RowFits, Recorded
    <3> QED BY <1>2, <2>1, <3>1 DEF Recorded, Pursued, Slot
  <2>2. CASE Seen(s)' = Absent
    BY <2>2 DEF Recorded
  <2>3. CASE Seen(s)' # Absent /\ Seen(s)'.of = r
    BY <1>1, <2>3 DEF RowKept
  <2> QED BY <1>1, <2>1, <2>2, <2>3 DEF RowKept, SeenKept
<1>4. CASE redemptions'[s] = redemptions[s] /\ redemptions[s].by \notin PhaseTxs(r)
  <2> DEFINE x == redemptions[s].by
  <2>1. CASE IsActive(x)
    <3>1. PICK q \in Requests : Writing(s, q)
      BY <1>1, <2>1 DEF RowFits
    <3>2. x \in PhaseTxs(q)
      BY <3>1 DEF Writing, PhaseTxs
    <3>3. q # r
      BY <1>4, <3>2
    <3>4. Writing(s, q)' /\ clog'[x] # "new"
      BY <1>1, <1>2, <1>4, <3>1, <3>2, <3>3 DEF Writing, Pursued, Slot, RowFits, PhaseTxs
    <3> QED BY <1>3, <1>4, <3>4 DEF RowFits
  <2>2. CASE ~ IsActive(x)
    <3>1. x \in Xids \ PhaseTxs(r)
      BY <1>4 DEF RedemptionIInv, RedemptionTypeOK, Slots, Cell
    <3>2. clog'[x] = clog[x]
      BY <3>1 DEF Touches, OthersKept
    <3> QED BY <1>1, <1>3, <1>4, <2>2, <3>2 DEF RowFits, IsActive
  <2> QED BY <2>1, <2>2
<1>5. CASE redemptions'[s].by = Setup
  BY <1>3, <1>5 DEF RowFits, IsActive
<1>6. CASE /\ redemptions'[s].by \in PhaseTxs(r) /\ clog'[redemptions'[s].by] # "new"
           /\ IsActive(redemptions[s].by)' => Writing(s, r)'
  BY <1>3, <1>6 DEF RowFits
<1> QED BY <1>1, <1>4, <1>5, <1>6 DEF RowKept

LEMMA TouchInv ==
  ASSUME RedemptionIInv, NEW r \in Requests, Touches(r),
         LedgerIInv', RedemptionTypeOK', StockTyped',
         StageFits(r)', RequestFits(r)', AnswerFits(r)'
  PROVE  RedemptionIInv'
<1>1. clog'[Setup] = "committed"
  BY DEF LedgerIInv
<1>2. \A q \in Requests : StageFits(q)' /\ RequestFits(q)' /\ AnswerFits(q)'
  BY OthersFit
<1>3. \A s \in Slots : RowFits(s)'
  BY <1>1, RowsFit
<1> QED BY <1>2, <1>3 DEF RedemptionIInv

\* A request that moves on keeps what it asked for.
LEMMA MovedReq ==
  ASSUME RedemptionTypeOK, NEW r \in Requests, Pursued(r), NEW a,
         req' = [req EXCEPT ![r].at = a]
  PROVE  /\ req'[r].at = a /\ req'[r].user = req[r].user /\ req'[r].key = req[r].key
         /\ req'[r].reward = req[r].reward /\ req'[r].late = req[r].late
         /\ req'[r].found = req[r].found
         /\ \A q \in Requests \ {r} : req'[q] = req[q]
         /\ a \in Working \cup {"done"} => req'[r] \in Pursuits
<1>1. req[r] \in Pursuits /\ DOMAIN req = Requests
  BY ReqTypes DEF RedemptionTypeOK
<1> QED BY <1>1 DEF Pursuits

\* What the request asks for is the same after the step.
SameRequest(r) == /\ Pursued(r)'
                  /\ Slot(r)' = Slot(r) /\ req'[r].reward = req[r].reward
                  /\ req'[r].late = req[r].late

LEMMA MovedIsSame ==
  ASSUME RedemptionTypeOK, NEW r \in Requests, Pursued(r), NEW a \in Working \cup {"done"},
         req' = [req EXCEPT ![r].at = a]
  PROVE  SameRequest(r)
BY MovedReq DEF SameRequest, Pursued, Slot, Working, Reserving, Settling

\* An active writer of a row is the request that is writing it.
LEMMA WriterIsOwn ==
  ASSUME RedemptionIInv, NEW r \in Requests, NEW s \in Slots,
         IsActive(redemptions[s].by), redemptions[s].by \in PhaseTxs(r)
  PROVE  Writing(s, r)
<1>1. PICK q \in Requests : Writing(s, q)
  BY DEF RedemptionIInv, RowFits
<1>2. q = r
  BY <1>1, TxTypes DEF Writing, PhaseTxs
<1> QED BY <1>1, <1>2

-----------------------------------------------------------------------------
(* Steps that write no redemption.                                           *)

\* The rows keep their fit if readers see what they saw, the redemption of r
\* stays accounted for, and r goes on holding what it held, or has let go.
LEMMA UnwrittenRow ==
  ASSUME RedemptionIInv, NEW r \in Requests, NEW s \in Slots, UNCHANGED redemptions,
         SeenKept(r, s),
         Seen(s)' # Absent /\ Seen(s)'.of = r => Recorded(s)',
         redemptions[s].by \in PhaseTxs(r) =>
           /\ clog'[redemptions[s].by] # "new"
           /\ IsActive(redemptions[s].by)' => Writing(s, r)'
  PROVE  RowKept(r, s)
BY DEF RowKept

LEMMA QuietStep ==
  ASSUME RedemptionIInv, NEW r \in Requests, Pursued(r), NEW a,
         UNCHANGED <<redemptions, answer, clog>>, req' = [req EXCEPT ![r].at = a],
         \/ req[r].at \in {"lookup", "reward"} /\ a \in {"reward", "claim"} /\ ~ req[r].late
         \/ req[r].at = "claim" /\ a = "await" /\ Seen(Slot(r)) # Absent
         \/ req[r].at \in Claiming /\ a \in Claiming
         \/ req[r].at = "fulfil" /\ a = "confirm"
         \/ req[r].at \in Undoing /\ a \in Undoing
  PROVE  Touches(r) /\ StageFits(r)' /\ RequestFits(r)' /\ AnswerFits(r)'
<1>1. /\ req'[r].at = a /\ SameRequest(r) /\ a \in Working /\ req[r].at \in Working
      /\ \A q \in Requests \ {r} : req'[q] = req[q]
  BY MovedReq, MovedIsSame
  DEF RedemptionIInv, Claiming, Undoing, Working, Reserving, Settling
<1>2. StageFits(r) /\ RequestFits(r) /\ AnswerFits(r)
  BY DEF RedemptionIInv
<1>3. StageFits(r)'
  BY <1>1, <1>2 DEF StageFits, Claiming, Undoing, Reserving, Settling
<1>4. AnswerFits(r)'
  BY <1>1, <1>2 DEF AnswerFits, Working, Reserving, Settling
<1>5. \A s : Seen(s)' = Seen(s)
  BY DEF Seen, Latest, IsCommitted
<1>6. RequestFits(r)'
  <2>1. RowOf(r)' = RowOf(r) /\ (\A x : Mine(r, x)' = Mine(r, x)) /\ Seen(Slot(r))' = Seen(Slot(r))
    BY <1>1 DEF RowOf, SameRequest, Mine, Seen, Latest, IsCommitted
  <2>2. Pursued(r)' /\ req'[r].late = req[r].late
    BY <1>1 DEF SameRequest
  <2> QED
    BY <1>1, <1>2, <2>1, <2>2
    DEF RequestFits, Claimed, Released, Claiming, Undoing
<1>7. ASSUME NEW s \in Slots PROVE RowKept(r, s)
  <2>1. SeenKept(r, s)
    BY <1>5 DEF SeenKept
  <2>2. Seen(s)' # Absent /\ Seen(s)'.of = r => Recorded(s)'
    <3> SUFFICES ASSUME Seen(s) # Absent, Seen(s).of = r PROVE Recorded(s)'
      BY <1>5
    <3>1. Recorded(s)
      BY DEF RedemptionIInv, RowFits
    <3>2. clog[reserveTx(r)] = "committed" /\ answer[r].status # "error"
      BY <1>1, <1>2, <3>1 DEF Recorded, AnswerFits, Working, Reserving, Settling
    <3>3. a \in {"fulfil", "confirm"} \cup Settling
      BY <1>1, <1>2, <3>2 DEF StageFits, Reserving, Claiming, Undoing, Settling
    <3> QED BY <1>1, <1>5, <3>1, <3>2, <3>3 DEF Recorded, SameRequest
  <2>3. ASSUME redemptions[s].by \in PhaseTxs(r)
        PROVE  /\ clog'[redemptions[s].by] # "new"
               /\ IsActive(redemptions[s].by)' => Writing(s, r)'
    <3>1. clog'[redemptions[s].by] # "new"
      BY DEF RedemptionIInv, RowFits
    <3>2. ASSUME IsActive(redemptions[s].by)' PROVE Writing(s, r)'
      <4>1. Writing(s, r)
        BY <2>3, <3>2, WriterIsOwn DEF IsActive
      <4> QED BY <1>1, <4>1 DEF Writing, SameRequest, Claiming, Undoing
    <3> QED BY <3>1, <3>2
  <2> QED BY <2>1, <2>2, <2>3, UnwrittenRow
<1>8. Touches(r)
  BY <1>1, <1>7 DEF Touches, OthersKept
<1> QED BY <1>3, <1>4, <1>6, <1>8

\* An UPDATE of req and of answer as a request ends.
LEMMA EndedReq ==
  ASSUME RedemptionTypeOK, NEW r \in Requests, Pursued(r), NEW x, NEW of, Answer(r, x, of)
  PROVE  /\ req'[r].at = "done" /\ SameRequest(r) /\ req'[r] \in Pursuits
         /\ \A q \in Requests \ {r} : req'[q] = req[q] /\ answer'[q] = answer[q]
         /\ answer'[r] = [status |-> x, of |-> of]
<1>1. req' = [req EXCEPT ![r].at = "done"]
  BY DEF Answer, Goto
<1>2. answer' = [answer EXCEPT ![r] = [status |-> x, of |-> of]] /\ DOMAIN answer = Requests
  BY DEF Answer, RedemptionTypeOK
<1> QED BY <1>1, <1>2, MovedReq, MovedIsSame

\* A row written by an active transaction still shows what it showed when that
\* transaction is rolled back.
LEMMA AbortedSeen ==
  ASSUME clog \in [Xids -> Fates], NEW t, Abort(t), UNCHANGED redemptions, NEW s,
         redemptions[s].by \in Xids
  PROVE  Seen(s)' = Seen(s)
BY DEF Abort, Seen, Latest, IsCommitted, IsActive

\* What is cut off or refused leaves the record as it was.
LEMMA DropStep ==
  ASSUME RedemptionIInv, NEW r \in Requests, UNCHANGED redemptions,
         NEW x \in {"refused", "error"}, Answer(r, x, Absent),
         \/ /\ req[r].at \in Working \ {"fulfil", "confirm"} /\ Abort(txOf(r))
            /\ x = "refused" => req[r].at \in {"reward", "stock", "debiting"}
         \/ req[r].at \in {"fulfil", "confirm"} /\ UNCHANGED clog /\ x = "error"
  PROVE  Touches(r) /\ StageFits(r)' /\ RequestFits(r)' /\ AnswerFits(r)'
<1>1. Pursued(r) /\ req[r].at \in Working
  BY DEF Pursued, Working, Reserving, Settling
<1>2. /\ req'[r].at = "done" /\ SameRequest(r)
      /\ \A q \in Requests \ {r} : req'[q] = req[q] /\ answer'[q] = answer[q]
      /\ answer'[r] = [status |-> x, of |-> Absent]
  BY <1>1, EndedReq DEF RedemptionIInv
<1>3. StageFits(r) /\ RequestFits(r) /\ AnswerFits(r)
  BY DEF RedemptionIInv
<1>4. clog \in [Xids -> Fates]
  BY DEF RedemptionIInv, LedgerIInv, LedgerTypeOK
<1>5. txOf(r) \in PhaseTxs(r)
  BY DEF txOf, PhaseTxs
<1>6. \A y \in Xids \ PhaseTxs(r) : clog'[y] = clog[y]
  BY <1>4, <1>5 DEF Abort
<1>7. ASSUME NEW s \in Slots PROVE redemptions[s].by \in Xids /\ Seen(s)' = Seen(s)
  <2>1. redemptions[s].by \in Xids
    BY DEF RedemptionIInv, RedemptionTypeOK, Slots, Cell
  <2>2. CASE UNCHANGED clog
    BY <2>1, <2>2 DEF Seen, Latest, IsCommitted
  <2>3. CASE Abort(txOf(r))
    BY <1>4, <2>1, <2>3, AbortedSeen
  <2> QED BY <2>2, <2>3
<1>8. /\ clog'[reserveTx(r)] \notin {"new", "active"} /\ clog'[settleTx(r)] # "active"
      /\ x = "refused" => clog'[reserveTx(r)] = "aborted"
      /\ clog[reserveTx(r)] = "active" => clog[settleTx(r)] = "new"
  BY <1>1, <1>3, <1>4, TxTypes
  DEF StageFits, Abort, IsActive, txOf, Working, Reserving, Settling
<1>9. StageFits(r)'
  BY <1>2, <1>8 DEF StageFits, Reserving, Settling
<1>10. AnswerFits(r)'
  BY <1>2, <1>8 DEF AnswerFits
<1>11. RequestFits(r)'
  <2>1. Seen(Slot(r))' = Seen(Slot(r))
    <3>1. PICK s \in Slots : Slot(r) = s /\ Slot(r)' = s
      BY <1>1, <1>2, ReqTypes DEF RedemptionIInv, SameRequest
    <3> QED BY <1>7, <3>1 DEF Seen
  <2>2. x = "refused" => ~ req[r].late
    BY <1>1, <1>3 DEF RequestFits
  <2> QED
    BY <1>1, <1>2, <1>3, <2>1, <2>2
    DEF RequestFits, SameRequest, Claiming, Undoing
<1>12. ASSUME NEW s \in Slots PROVE RowKept(r, s)
  <2>1. SeenKept(r, s)
    BY <1>7 DEF SeenKept
  <2>2. Seen(s)' # Absent /\ Seen(s)'.of = r => Recorded(s)'
    <3> SUFFICES ASSUME Seen(s) # Absent, Seen(s).of = r PROVE Recorded(s)'
      BY <1>7
    <3>1. Recorded(s)
      BY DEF RedemptionIInv, RowFits
    <3>2. clog[reserveTx(r)] = "committed"
      BY <3>1 DEF Recorded
    <3>3. x = "error" /\ clog'[reserveTx(r)] = "committed"
      BY <1>3, <1>4, <3>2, TxTypes DEF StageFits, Abort, IsActive, Reserving
    <3> QED BY <1>2, <1>7, <3>1, <3>3 DEF Recorded, SameRequest
  <2>3. ASSUME redemptions[s].by \in PhaseTxs(r)
        PROVE  /\ clog'[redemptions[s].by] # "new" /\ ~ IsActive(redemptions[s].by)'
    <3>1. clog[redemptions[s].by] # "new"
      BY DEF RedemptionIInv, RowFits
    <3> QED BY <1>4, <1>7, <1>8, <2>3, <3>1 DEF PhaseTxs, IsActive, Abort
  <2> QED BY <2>1, <2>2, <2>3, UnwrittenRow
<1>13. Touches(r)
  BY <1>2, <1>6, <1>12 DEF Touches, OthersKept
<1> QED BY <1>9, <1>10, <1>11, <1>13

\* A transaction that begins has written nothing.
LEMMA BegunSeen ==
  ASSUME RedemptionIInv, NEW t \in Xids, Begin(t), UNCHANGED redemptions, NEW s \in Slots
  PROVE  /\ Seen(s)' = Seen(s) /\ redemptions[s].by # t
         /\ redemptions[s].by \in Xids /\ clog'[redemptions[s].by] = clog[redemptions[s].by]
<1>1. redemptions[s].by \in Xids /\ clog[redemptions[s].by] # "new"
  BY DEF RedemptionIInv, RedemptionTypeOK, Slots, Cell, RowFits
<1>2. clog \in [Xids -> Fates]
  BY DEF RedemptionIInv, LedgerIInv, LedgerTypeOK
<1> QED BY <1>1, <1>2 DEF Begin, Seen, Latest, IsCommitted

LEMMA ArriveStep ==
  ASSUME RedemptionIInv, NEW r \in Requests, NEW u \in Users, NEW k \in IdemKeys,
         NEW w \in Rewards, Arrive(r, u, k, w)
  PROVE  /\ Touches(r) /\ StageFits(r)' /\ RequestFits(r)' /\ AnswerFits(r)'
         /\ req'[r] \in Pursuits
<1> DEFINE late == Latest(redemptions[<<u, k>>]) # Absent
<1>1. /\ req[r].at = "new" /\ Begin(reserveTx(r)) /\ UNCHANGED <<redemptions, answer>>
      /\ req' = [req EXCEPT ![r] = [at |-> "lookup", user |-> u, key |-> k, reward |-> w,
                                    late |-> late, found |-> Absent]]
  BY DEF Arrive, Open
<1>2. DOMAIN req = Requests /\ clog \in [Xids -> Fates]
  BY DEF RedemptionIInv, RedemptionTypeOK, LedgerIInv, LedgerTypeOK
<1>3. /\ req'[r] = [at |-> "lookup", user |-> u, key |-> k, reward |-> w,
                    late |-> late, found |-> Absent]
      /\ \A q \in Requests \ {r} : req'[q] = req[q]
  BY <1>1, <1>2
<1>4. StageFits(r) /\ AnswerFits(r) /\ answer[r].status = "none"
  BY <1>1 DEF RedemptionIInv, AnswerFits
<1>5. /\ clog'[reserveTx(r)] = "active" /\ clog'[settleTx(r)] = "new"
      /\ \A y \in Xids \ PhaseTxs(r) : clog'[y] = clog[y]
  BY <1>1, <1>2, <1>4, TxTypes DEF StageFits, Begin, PhaseTxs
<1>6. req'[r] \in Pursuits
  BY <1>3 DEF Pursuits, Working, Reserving
<1>7. StageFits(r)' /\ AnswerFits(r)'
  BY <1>1, <1>3, <1>4, <1>5 DEF StageFits, AnswerFits, Settling
<1>8. ASSUME NEW s \in Slots
      PROVE  /\ Seen(s)' = Seen(s) /\ redemptions[s].by \notin PhaseTxs(r)
             /\ Seen(s) # Absent => Seen(s).of # r
  <2>1. redemptions[s].by # reserveTx(r) /\ Seen(s)' = Seen(s)
    BY <1>1, TxTypes, BegunSeen
  <2>2. clog[redemptions[s].by] # "new" /\ Recorded(s)
    BY DEF RedemptionIInv, RowFits
  <2>3. clog[settleTx(r)] = "new"
    BY <1>1, <1>4 DEF StageFits
  <2> QED BY <1>1, <2>1, <2>2, <2>3 DEF PhaseTxs, Recorded, Pursued
<1>9. RequestFits(r)'
  <2>1. PICK s \in Slots : s = <<u, k>>
    BY DEF Slots
  <2>2. Slot(r)' = s
    BY <1>3, <2>1 DEF Slot
  <2>3. late => Seen(s)' # Absent /\ Seen(s)'.of # r
    BY <1>8, <2>1 DEF Seen
  <2>4. Seen(Slot(r))' = Seen(s)'
    BY <2>2 DEF Seen
  <2>5. req'[r].late => late
    <3>1. \A b : [at |-> "lookup", user |-> u, key |-> k, reward |-> w,
                  late |-> b, found |-> Absent].late = b
      OBVIOUS
    <3>2. req'[r].late = late
      BY <1>3, <3>1
    <3> HIDE DEF late
    <3> QED BY <3>2, Zenon
  <2>6. req'[r].at = "lookup" /\ answer'[r].status # "refused"
    BY <1>1, <1>3, <1>4
  <2> HIDE DEF late
  <2> QED BY <2>3, <2>4, <2>5, <2>6 DEF RequestFits, Claiming, Undoing
<1>10. \A s \in Slots : RowKept(r, s)
  BY <1>1, <1>8 DEF RowKept, SeenKept
<1>11. Touches(r)
  BY <1>1, <1>3, <1>5, <1>10 DEF Touches, OthersKept
<1> QED BY <1>6, <1>7, <1>9, <1>11

LEMMA UnfulfilledStep ==
  ASSUME RedemptionIInv, NEW r \in Requests, Unfulfilled(r)
  PROVE  Touches(r) /\ StageFits(r)' /\ RequestFits(r)' /\ AnswerFits(r)'
<1>1. /\ req[r].at = "fulfil" /\ Begin(settleTx(r)) /\ UNCHANGED <<redemptions, answer>>
      /\ req' = [req EXCEPT ![r].at = "release"]
  BY DEF Unfulfilled, Open, Goto
<1>2. Pursued(r) /\ "release" \in Working
  BY <1>1 DEF Pursued, Working, Settling
<1>3. /\ req'[r].at = "release" /\ SameRequest(r)
      /\ \A q \in Requests \ {r} : req'[q] = req[q]
  BY <1>1, <1>2, MovedReq, MovedIsSame DEF RedemptionIInv
<1>4. StageFits(r) /\ RequestFits(r) /\ AnswerFits(r) /\ clog \in [Xids -> Fates]
  BY DEF RedemptionIInv, LedgerIInv, LedgerTypeOK
<1>5. /\ clog'[reserveTx(r)] = "committed" /\ clog'[settleTx(r)] = "active"
      /\ \A y \in Xids \ PhaseTxs(r) : clog'[y] = clog[y]
  BY <1>1, <1>4, TxTypes DEF StageFits, Begin, PhaseTxs
<1>6. StageFits(r)' /\ AnswerFits(r)'
  BY <1>1, <1>3, <1>4, <1>5 DEF StageFits, AnswerFits, Reserving, Settling
<1>7. \A s \in Slots : /\ Seen(s)' = Seen(s) /\ redemptions[s].by # settleTx(r)
  BY <1>1, TxTypes, BegunSeen
<1>8. PICK sl \in Slots : Slot(r) = sl /\ Slot(r)' = sl
  BY <1>2, <1>3, ReqTypes DEF RedemptionIInv, SameRequest
<1>9. RequestFits(r)'
  <2>1. Seen(sl) = Mine(r, "RESERVED") /\ ~ req[r].late
    BY <1>1, <1>2, <1>4, <1>8 DEF RequestFits
  <2>2. Seen(Slot(r))' = Mine(r, "RESERVED")'
    BY <1>3, <1>7, <1>8, <2>1 DEF Seen, Mine, SameRequest
  <2> QED BY <1>3, <2>1, <2>2 DEF RequestFits, SameRequest, Claiming, Undoing
<1>10. ASSUME NEW s \in Slots PROVE RowKept(r, s)
  <2>1. Seen(s)' # Absent /\ Seen(s)'.of = r => Recorded(s)'
    <3> SUFFICES ASSUME Seen(s) # Absent, Seen(s).of = r PROVE Recorded(s)'
      BY <1>7
    <3>1. Recorded(s)
      BY DEF RedemptionIInv, RowFits
    <3> QED BY <1>3, <1>5, <1>7, <3>1 DEF Recorded, SameRequest, Settling
  <2>2. redemptions[s].by \in PhaseTxs(r) =>
          clog'[redemptions[s].by] # "new" /\ ~ IsActive(redemptions[s].by)'
    BY <1>1, <1>5, <1>7 DEF PhaseTxs, IsActive
  <2> QED BY <1>1, <1>7, <2>1, <2>2, UnwrittenRow DEF SeenKept
<1>11. Touches(r)
  BY <1>1, <1>3, <1>5, <1>10 DEF Touches, OthersKept
<1> QED BY <1>6, <1>9, <1>11

-----------------------------------------------------------------------------
(* COMMIT.                                                                   *)

LEMMA CommittedRow ==
  ASSUME RedemptionIInv, NEW r \in Requests, NEW t \in PhaseTxs(r), Commit(t),
         UNCHANGED redemptions, NEW s \in Slots
  PROVE  /\ redemptions[s].by # t => Seen(s)' = Seen(s)
         /\ redemptions[s].by = t => /\ Seen(s) = redemptions[s].was
                                     /\ Seen(s)' = redemptions[s].now
                                     /\ Writing(s, r)
         /\ t = reserveTx(r) => redemptions[s].by # settleTx(r)
         /\ clog'[redemptions[s].by] # "new"
         /\ redemptions[s].by \in PhaseTxs(r) => clog'[redemptions[s].by] # "active"
         /\ \A y \in Xids \ PhaseTxs(r) : clog'[y] = clog[y]
<1>1. redemptions[s].by \in Xids /\ clog[redemptions[s].by] # "new"
  BY DEF RedemptionIInv, RedemptionTypeOK, Slots, Cell, RowFits
<1>2. clog \in [Xids -> Fates] /\ StageFits(r)
  BY DEF RedemptionIInv, LedgerIInv, LedgerTypeOK
<1>3. t \in Xids /\ clog[t] = "active" /\ clog' = [clog EXCEPT ![t] = "committed"]
  BY TxTypes DEF Commit, IsActive, PhaseTxs
<1>4. redemptions[s].by # t => Seen(s)' = Seen(s)
  BY <1>1, <1>2, <1>3 DEF Seen, Latest, IsCommitted
<1>5. redemptions[s].by = t => /\ Seen(s) = redemptions[s].was
                               /\ Seen(s)' = redemptions[s].now
                               /\ Writing(s, r)
  BY <1>2, <1>3, WriterIsOwn DEF Seen, Latest, IsCommitted, IsActive
<1>6. /\ t = reserveTx(r) => clog[settleTx(r)] = "new"
      /\ t = settleTx(r) => clog[reserveTx(r)] = "committed"
  BY <1>3, TxTypes
  DEF StageFits, RedemptionIInv, RedemptionTypeOK, Working, Reserving, Settling
<1>7. /\ clog'[redemptions[s].by] # "new"
      /\ redemptions[s].by \in PhaseTxs(r) => clog'[redemptions[s].by] # "active"
  BY <1>1, <1>2, <1>3, <1>6 DEF PhaseTxs
<1> QED BY <1>1, <1>2, <1>3, <1>4, <1>5, <1>6, <1>7 DEF PhaseTxs

\* The two rows of a redemption, as records.
LEMMA MineTypes ==
  ASSUME RedemptionTypeOK, NEW r \in Requests, Pursued(r)
  PROVE  \A x \in {"RESERVED", "FULFILLED", "FAILED"} :
           /\ Mine(r, x) \in Redeemed /\ Mine(r, x) # Absent
           /\ Mine(r, x).of = r /\ Mine(r, x).status = x /\ Mine(r, x).reward = req[r].reward
BY ReqTypes, AbsentIsNoRow DEF Mine, Redeemed

LEMMA ReplayStep ==
  ASSUME RedemptionIInv, NEW r \in Requests, Replay(r)
  PROVE  /\ Touches(r) /\ StageFits(r)' /\ RequestFits(r)' /\ AnswerFits(r)'
         /\ SeenSame
<1> DEFINE R == reserveTx(r)
<1>1. /\ req[r].at = "replay" /\ Commit(R) /\ UNCHANGED redemptions
      /\ Answer(r, req[r].found.status, req[r].found.of)
  BY DEF Replay, Close
<1>2. Pursued(r)
  BY <1>1 DEF Pursued
<1>3. /\ req'[r].at = "done" /\ SameRequest(r)
      /\ \A q \in Requests \ {r} : req'[q] = req[q] /\ answer'[q] = answer[q]
      /\ answer'[r] = [status |-> req[r].found.status, of |-> req[r].found.of]
  BY <1>1, <1>2, EndedReq DEF RedemptionIInv
<1>4. StageFits(r) /\ RequestFits(r) /\ clog \in [Xids -> Fates]
  BY DEF RedemptionIInv, LedgerIInv, LedgerTypeOK
<1>5. clog[R] = "active" /\ clog'[R] = "committed" /\ clog'[settleTx(r)] = "new"
  BY <1>1, <1>4, TxTypes DEF StageFits, Commit, IsActive, Reserving
<1>6. StageFits(r)'
  BY <1>3, <1>5 DEF StageFits, Reserving, Settling
<1>7. req[r].found \in Redeemed /\ req[r].found.status \in {"RESERVED", "FULFILLED", "FAILED"}
  BY <1>1, <1>2, <1>4, ReqTypes DEF RequestFits, RedemptionIInv, Pursuits, Redeemed
<1>8. PICK sl \in Slots : Slot(r) = sl /\ Slot(r)' = sl
  BY <1>2, <1>3, ReqTypes DEF RedemptionIInv, SameRequest
<1>9. ASSUME NEW s \in Slots
      PROVE  Seen(s)' = Seen(s) /\ (Seen(s) # Absent => Seen(s).of # r)
  <2>1. Seen(s)' = Seen(s)
    BY <1>1, CommittedRow DEF PhaseTxs, Writing, Claiming
  <2>2. Recorded(s)
    BY DEF RedemptionIInv, RowFits
  <2> QED BY <1>5, <2>1, <2>2 DEF Recorded
<1>10. AnswerFits(r)'
  <2>1. Agrees(Seen(sl), req[r].found.of, req[r].found.status)
    BY <1>1, <1>2, <1>4, <1>8 DEF RequestFits
  <2>2. Seen(Slot(r))' = Seen(sl)
    BY <1>8, <1>9 DEF Seen
  <2> QED BY <1>3, <1>7, <2>1, <2>2 DEF AnswerFits
<1>11. RequestFits(r)'
  <2>1. Seen(Slot(r))' = Seen(Slot(r))
    BY <1>8, <1>9 DEF Seen
  <2> QED BY <1>2, <1>3, <1>4, <1>7, <2>1 DEF RequestFits, SameRequest, Claiming, Undoing
<1>12. \A s \in Slots : RowKept(r, s)
  <2> SUFFICES ASSUME NEW s \in Slots PROVE RowKept(r, s)
    OBVIOUS
  <2>1. redemptions[s].by \in PhaseTxs(r) =>
          clog'[redemptions[s].by] # "new" /\ ~ IsActive(redemptions[s].by)'
    BY <1>1, CommittedRow DEF PhaseTxs, IsActive
  <2> QED BY <1>1, <1>9, <2>1, UnwrittenRow DEF SeenKept
<1>13. Touches(r)
  <2>1. \A y \in Xids \ PhaseTxs(r) : clog'[y] = clog[y]
    BY <1>1, <1>4 DEF Commit, PhaseTxs
  <2> QED BY <1>3, <1>12, <2>1 DEF Touches, OthersKept
<1>14. SeenSame
  BY <1>9 DEF SeenSame
<1> QED BY <1>6, <1>10, <1>11, <1>13, <1>14

LEMMA ReservedStep ==
  ASSUME RedemptionIInv, NEW r \in Requests, Reserved(r)
  PROVE  /\ Touches(r) /\ StageFits(r)' /\ RequestFits(r)' /\ AnswerFits(r)'
         /\ SeenAs(r, Absent, Mine(r, "RESERVED"))
<1> DEFINE R == reserveTx(r)
<1>1. /\ req[r].at = "debiting" /\ Commit(R) /\ UNCHANGED <<redemptions, answer>>
      /\ req' = [req EXCEPT ![r].at = "fulfil"]
  BY DEF Reserved, Close, Goto
<1>2. Pursued(r) /\ "fulfil" \in Working
  BY <1>1 DEF Pursued, Working
<1>3. /\ req'[r].at = "fulfil" /\ SameRequest(r)
      /\ \A q \in Requests \ {r} : req'[q] = req[q]
  BY <1>1, <1>2, MovedReq, MovedIsSame DEF RedemptionIInv
<1>4. /\ StageFits(r) /\ RequestFits(r) /\ AnswerFits(r) /\ clog \in [Xids -> Fates]
      /\ RedemptionTypeOK
  BY DEF RedemptionIInv, LedgerIInv, LedgerTypeOK
<1>5. clog[R] = "active" /\ clog'[R] = "committed" /\ clog'[settleTx(r)] = "new"
  BY <1>1, <1>4, TxTypes DEF StageFits, Commit, IsActive, Reserving
<1>6. StageFits(r)' /\ AnswerFits(r)'
  BY <1>1, <1>3, <1>4, <1>5 DEF StageFits, AnswerFits, Reserving, Settling
<1>8. PICK sl \in Slots : /\ Slot(r) = sl /\ Slot(r)' = sl
                          /\ redemptions[sl].was = Absent
                          /\ redemptions[sl].now = Mine(r, "RESERVED") /\ redemptions[sl].by = R
  <2>1. Claimed(r)
    BY <1>1, <1>2, <1>4 DEF RequestFits, Claiming
  <2> QED BY <1>2, <1>3, <2>1, ReqTypes DEF RedemptionIInv, SameRequest, Claimed, RowOf
<1>9. Seen(sl) = Absent /\ Seen(sl)' = Mine(r, "RESERVED") /\ Mine(r, "RESERVED")' = Mine(r, "RESERVED")
  BY <1>1, <1>3, <1>8, CommittedRow DEF PhaseTxs, Mine, SameRequest
<1>10. ASSUME NEW s \in Slots, s # sl
       PROVE  Seen(s)' = Seen(s) /\ (Seen(s) # Absent => Seen(s).of # r)
  <2>1. redemptions[s].by # R
    BY <1>1, <1>8, <1>10, CommittedRow DEF PhaseTxs, Writing
  <2>2. Seen(s)' = Seen(s) /\ Recorded(s)
    BY <1>1, <2>1, CommittedRow DEF PhaseTxs, RedemptionIInv, RowFits
  <2> QED BY <1>5, <2>2 DEF Recorded
<1>11. RequestFits(r)'
  <2>1. Seen(Slot(r))' = Mine(r, "RESERVED")' /\ ~ req[r].late
    <3>1. Seen(Slot(r))' = Seen(sl)'
      BY <1>8 DEF Seen
    <3> QED BY <1>1, <1>2, <1>4, <1>9, <3>1 DEF RequestFits
  <2> QED BY <1>3, <2>1 DEF RequestFits, SameRequest, Claiming, Undoing
<1>12. ASSUME NEW s \in Slots PROVE RowKept(r, s)
  <2>1. redemptions[s].by \in PhaseTxs(r) =>
          clog'[redemptions[s].by] # "new" /\ ~ IsActive(redemptions[s].by)'
    BY <1>1, CommittedRow DEF PhaseTxs, IsActive
  <2>2. SeenKept(r, s) /\ (Seen(s)' # Absent /\ Seen(s)'.of = r => Recorded(s)')
    <3>1. CASE s = sl
      BY <1>2, <1>3, <1>4, <1>5, <1>8, <1>9, <3>1, MineTypes
      DEF SeenKept, Recorded, SameRequest
    <3>2. CASE s # sl
      BY <1>10, <3>2 DEF SeenKept
    <3> QED BY <3>1, <3>2
  <2> QED BY <1>1, <2>1, <2>2, UnwrittenRow
<1>13. Touches(r)
  <2>1. \A y \in Xids \ PhaseTxs(r) : clog'[y] = clog[y]
    BY <1>1, <1>4 DEF Commit, PhaseTxs
  <2> QED BY <1>1, <1>3, <1>12, <2>1 DEF Touches, OthersKept
<1>14. SeenAs(r, Absent, Mine(r, "RESERVED"))
  BY <1>8, <1>9, <1>10 DEF SeenAs
<1> QED BY <1>6, <1>11, <1>13, <1>14

\* The compensation commits, whether or not its answer gets through.
LEMMA SettledStep ==
  ASSUME RedemptionIInv, NEW r \in Requests, req[r].at = "settled", Commit(settleTx(r)),
         UNCHANGED redemptions, NEW x, NEW of, Answer(r, x, of),
         <<x, of>> \in {<<"FAILED", r>>, <<"error", Absent>>}
  PROVE  /\ Touches(r) /\ StageFits(r)' /\ RequestFits(r)' /\ AnswerFits(r)'
         /\ SeenAs(r, Mine(r, "RESERVED"), Mine(r, "FAILED"))
<1> DEFINE S == settleTx(r)
<1>2. Pursued(r)
  BY DEF Pursued
<1>3. /\ req'[r].at = "done" /\ SameRequest(r)
      /\ \A q \in Requests \ {r} : req'[q] = req[q] /\ answer'[q] = answer[q]
      /\ answer'[r] = [status |-> x, of |-> of]
  BY <1>2, EndedReq DEF RedemptionIInv
<1>4. StageFits(r) /\ RequestFits(r) /\ clog \in [Xids -> Fates] /\ RedemptionTypeOK
  BY DEF RedemptionIInv, LedgerIInv, LedgerTypeOK
<1>5. clog'[reserveTx(r)] = "committed" /\ clog'[S] = "committed"
  BY <1>4, TxTypes DEF StageFits, Commit, IsActive, Settling
<1>6. StageFits(r)'
  BY <1>3, <1>5 DEF StageFits, Reserving, Settling
<1>8. PICK sl \in Slots : /\ Slot(r) = sl /\ Slot(r)' = sl
                          /\ redemptions[sl].was = Mine(r, "RESERVED")
                          /\ redemptions[sl].now = Mine(r, "FAILED") /\ redemptions[sl].by = S
  <2>1. Released(r)
    BY <1>2, <1>4 DEF RequestFits, Undoing
  <2> QED BY <1>2, <1>3, <2>1, ReqTypes DEF RedemptionIInv, SameRequest, Released, RowOf
<1>9. Seen(sl) = Mine(r, "RESERVED") /\ Seen(sl)' = Mine(r, "FAILED")
  BY <1>8, CommittedRow DEF PhaseTxs
<1>10. ASSUME NEW s \in Slots, s # sl
       PROVE  Seen(s)' = Seen(s) /\ (Seen(s) # Absent => Seen(s).of # r)
  <2>1. redemptions[s].by # S
    BY <1>8, <1>10, CommittedRow DEF PhaseTxs, Writing
  <2>2. Seen(s)' = Seen(s) /\ Recorded(s)
    BY <2>1, CommittedRow DEF PhaseTxs, RedemptionIInv, RowFits
  <2> QED BY <1>8, <1>10, <2>2 DEF Recorded
<1>11. RequestFits(r)' /\ AnswerFits(r)'
  <2>1. Seen(Slot(r))' = Mine(r, "FAILED") /\ ~ req[r].late
    <3>1. Seen(Slot(r))' = Seen(sl)'
      BY <1>8 DEF Seen
    <3> QED BY <1>2, <1>4, <1>9, <3>1 DEF RequestFits
  <2>2. RequestFits(r)'
    BY <1>3, <2>1 DEF RequestFits, SameRequest, Claiming, Undoing
  <2>3. AnswerFits(r)'
    BY <1>2, <1>3, <1>4, <2>1, MineTypes DEF AnswerFits, Agrees
  <2> QED BY <2>2, <2>3
<1>12. ASSUME NEW s \in Slots PROVE RowKept(r, s)
  <2>1. redemptions[s].by \in PhaseTxs(r) =>
          clog'[redemptions[s].by] # "new" /\ ~ IsActive(redemptions[s].by)'
    BY CommittedRow DEF PhaseTxs, IsActive
  <2>2. SeenKept(r, s) /\ (Seen(s)' # Absent /\ Seen(s)'.of = r => Recorded(s)')
    <3>1. CASE s = sl
      BY <1>2, <1>3, <1>4, <1>5, <1>8, <1>9, <3>1, MineTypes
      DEF SeenKept, Recorded, SameRequest
    <3>2. CASE s # sl
      BY <1>10, <3>2 DEF SeenKept
    <3> QED BY <3>1, <3>2
  <2> QED BY <2>1, <2>2, UnwrittenRow
<1>13. Touches(r)
  <2>1. \A y \in Xids \ PhaseTxs(r) : clog'[y] = clog[y]
    BY <1>4 DEF Commit, PhaseTxs
  <2> QED BY <1>3, <1>12, <2>1 DEF Touches, OthersKept
<1>14. SeenAs(r, Mine(r, "RESERVED"), Mine(r, "FAILED"))
  BY <1>8, <1>9, <1>10 DEF SeenAs
<1> QED BY <1>6, <1>11, <1>13, <1>14

-----------------------------------------------------------------------------
(* Statements that write a redemption, or find one.                          *)

\* Before its claim, and before its release, a request's transaction has
\* written no redemption.
LEMMA NotYetWritten ==
  ASSUME RedemptionIInv, NEW r \in Requests, NEW s \in Slots,
         req[r].at \in {"lookup", "reward", "claim", "await", "release"}
  PROVE  /\ redemptions[s].by # txOf(r) /\ IsActive(txOf(r)) /\ txOf(r) \in PhaseTxs(r)
         /\ View(txOf(r), redemptions[s]) = Seen(s)
<1>1. StageFits(r)
  BY DEF RedemptionIInv
<1>2. IsActive(txOf(r)) /\ txOf(r) \in PhaseTxs(r)
  BY <1>1 DEF StageFits, txOf, PhaseTxs, Reserving, Settling, IsActive
<1>3. redemptions[s].by # txOf(r)
  BY <1>1, <1>2, WriterIsOwn DEF Writing, Claiming, Undoing
<1> QED BY <1>2, <1>3 DEF View, Seen

RedemptionCells == Cell(Redeemed \cup {Absent})

\* Writing a row under its lock is seen by nobody, and disturbs no writer.
LEMMA WrittenRows ==
  ASSUME RedemptionIInv, NEW r \in Requests, NEW sl \in Slots,
         NEW new \in RedemptionCells,
         req[r].at \in {"claim", "await", "release"},
         ~ Waits(txOf(r), redemptions[sl]), UNCHANGED clog,
         redemptions' = [redemptions EXCEPT ![sl] = new],
         new.by = txOf(r), new.was = Seen(sl)
  PROVE  /\ redemptions'[sl] = new /\ redemptions' \in [Slots -> RedemptionCells]
         /\ \A s \in Slots : Seen(s)' = Seen(s)
         /\ \A s \in Slots \ {sl} : redemptions'[s] = redemptions[s]
         /\ ~ (IsActive(redemptions[sl].by) /\ redemptions[sl].by \notin PhaseTxs(r))
<1>1. redemptions \in [Slots -> RedemptionCells]
  BY DEF RedemptionIInv, RedemptionTypeOK, Slots, RedemptionCells
<1>2. redemptions[sl].by # txOf(r) /\ IsActive(txOf(r)) /\ txOf(r) \in PhaseTxs(r)
  BY NotYetWritten
<1>3. /\ redemptions'[sl] = new /\ redemptions' \in [Slots -> RedemptionCells]
      /\ \A s \in Slots \ {sl} : redemptions'[s] = redemptions[s]
  BY <1>1
<1>4. Seen(sl)' = Seen(sl)
  BY <1>2, <1>3 DEF Seen, Latest, IsCommitted, IsActive
<1>5. \A s \in Slots \ {sl} : Seen(s)' = Seen(s)
  BY <1>3 DEF Seen, Latest, IsCommitted
<1> QED BY <1>2, <1>3, <1>4, <1>5 DEF Waits

\* A request that is still reserving has no redemption to be seen.
LEMMA ReservingUnseen ==
  ASSUME RedemptionIInv, NEW r \in Requests, NEW s \in Slots, req[r].at \in Reserving,
         Seen(s) # Absent
  PROVE  Seen(s).of # r
BY DEF RedemptionIInv, RowFits, Recorded, StageFits

LEMMA ClaimStep ==
  ASSUME RedemptionIInv, NEW r \in Requests, Claim(r)
  PROVE  /\ Touches(r) /\ StageFits(r)' /\ RequestFits(r)' /\ AnswerFits(r)'
         /\ redemptions' \in [Slots -> RedemptionCells] /\ SeenSame
<1> DEFINE R == reserveTx(r)
           new == [was |-> Absent, now |-> Mine(r, "RESERVED"), by |-> R]
<1>1. /\ req[r].at = "claim" /\ ~ Waits(R, RowOf(r)) /\ Latest(RowOf(r)) = Absent
      /\ redemptions' = [redemptions EXCEPT ![Slot(r)] = Written(R, @, Mine(r, "RESERVED"))]
      /\ req' = [req EXCEPT ![r].at = "lock"] /\ UNCHANGED <<answer, clog>>
  BY DEF Claim, Goto, Mine, ledgerVars
<1>2. Pursued(r) /\ "lock" \in Working /\ req[r].at \in Reserving /\ txOf(r) = R
  BY <1>1 DEF Pursued, Working, Reserving, txOf
<1>3. /\ req'[r].at = "lock" /\ SameRequest(r)
      /\ \A q \in Requests \ {r} : req'[q] = req[q]
  BY <1>1, <1>2, MovedReq, MovedIsSame DEF RedemptionIInv
<1>4. StageFits(r) /\ RequestFits(r) /\ AnswerFits(r)
  BY DEF RedemptionIInv
<1>5. PICK sl \in Slots : Slot(r) = sl /\ Slot(r)' = sl /\ RowOf(r) = redemptions[sl]
  BY <1>2, <1>3, ReqTypes DEF RedemptionIInv, SameRequest, RowOf
<1>6. redemptions' = [redemptions EXCEPT ![sl] = new]
  <2>1. redemptions[sl].by # R /\ DOMAIN redemptions = Slots
    BY <1>1, <1>2, NotYetWritten DEF RedemptionIInv, RedemptionTypeOK, Slots
  <2>2. Written(R, redemptions[sl], Mine(r, "RESERVED")) = new
    BY <1>1, <1>5, <2>1 DEF Written, Locked
  <2> QED BY <1>1, <1>5, <2>1, <2>2
<1>7. new.by = R /\ new.was = Seen(sl) /\ new \in RedemptionCells
  <2>1. Mine(r, "RESERVED") \in Redeemed /\ R \in Xids
    BY <1>2, MineTypes, TxTypes DEF RedemptionIInv
  <2> QED BY <1>1, <1>5, <2>1 DEF Seen, RedemptionCells, Cell
<1> HIDE DEF new
<1>8. /\ redemptions'[sl] = new /\ redemptions' \in [Slots -> RedemptionCells]
      /\ \A s \in Slots : Seen(s)' = Seen(s)
      /\ \A s \in Slots \ {sl} : redemptions'[s] = redemptions[s]
      /\ ~ (IsActive(redemptions[sl].by) /\ redemptions[sl].by \notin PhaseTxs(r))
  <2>1. /\ req[r].at \in {"claim", "await", "release"} /\ UNCHANGED clog
        /\ ~ Waits(txOf(r), redemptions[sl]) /\ new.by = txOf(r)
    BY <1>1, <1>2, <1>5, <1>6, <1>7
  <2> QED BY <2>1, <1>6, <1>7, WrittenRows
<1>9. StageFits(r)' /\ AnswerFits(r)'
  BY <1>1, <1>3, <1>4 DEF StageFits, AnswerFits, Reserving, Settling
<1>10. RequestFits(r)'
  <2>1. Claimed(r)'
    BY <1>3, <1>5, <1>8 DEF Claimed, RowOf, SameRequest, Mine, new
  <2> QED BY <1>1, <1>2, <1>3, <1>4, <2>1 DEF RequestFits, SameRequest, Claiming, Undoing
<1>11. ASSUME NEW s \in Slots PROVE RowKept(r, s)
  <2>1. Seen(s)' = Seen(s) /\ (Seen(s) # Absent => Seen(s).of # r)
    BY <1>2, <1>8, ReservingUnseen
  <2>2. CASE s = sl
    <3>1. Writing(s, r)' /\ redemptions'[s].by = R
      BY <1>3, <1>5, <1>7, <1>8, <2>2 DEF Writing, SameRequest, Claiming
    <3>2. clog'[R] # "new" /\ R \in PhaseTxs(r)
      BY <1>1, <1>2, <1>4 DEF StageFits, PhaseTxs
    <3> QED BY <1>8, <2>1, <2>2, <3>1, <3>2 DEF RowKept, SeenKept
  <2>3. CASE s # sl
    <3>1. redemptions[s].by \notin PhaseTxs(r) \/ ~ IsActive(redemptions[s].by)
      BY <1>1, <1>5, <2>3, WriterIsOwn DEF Writing
    <3>2. clog[redemptions[s].by] # "new"
      BY DEF RedemptionIInv, RowFits
    <3> QED BY <1>1, <1>8, <2>1, <2>3, <3>1, <3>2 DEF RowKept, SeenKept, IsActive
  <2> QED BY <2>2, <2>3
<1>12. Touches(r)
  BY <1>1, <1>3, <1>11 DEF Touches, OthersKept
<1>13. SeenSame
  BY <1>8 DEF SeenSame
<1> QED BY <1>8, <1>9, <1>10, <1>12, <1>13

LEMMA AwaitStep ==
  ASSUME RedemptionIInv, NEW r \in Requests, Await(r)
  PROVE  /\ Touches(r) /\ StageFits(r)' /\ RequestFits(r)' /\ AnswerFits(r)'
         /\ req'[r] \in Pursuits /\ redemptions' \in [Slots -> RedemptionCells] /\ SeenSame
<1> DEFINE R == reserveTx(r)
           new == [was |-> Latest(RowOf(r)), now |-> Latest(RowOf(r)), by |-> R]
<1>1. /\ req[r].at = "await" /\ ~ Waits(R, RowOf(r))
      /\ redemptions' = [redemptions EXCEPT ![Slot(r)] = Locked(R, @)]
      /\ req' = [req EXCEPT ![r].at = "replay", ![r].found = Latest(RowOf(r))]
      /\ UNCHANGED <<answer, clog>>
  BY DEF Await, ledgerVars
<1>2. Pursued(r) /\ req[r].at \in Reserving /\ txOf(r) = R
  BY <1>1 DEF Pursued, Reserving, txOf
<1>3. /\ req[r] \in Pursuits /\ DOMAIN req = Requests /\ Latest(RowOf(r)) \in Redeemed \cup {Absent}
  BY <1>2, ReqTypes DEF RedemptionIInv, RedemptionTypeOK, Cell, Latest
<1>4. /\ req'[r].at = "replay" /\ req'[r].found = Latest(RowOf(r)) /\ req'[r] \in Pursuits
      /\ SameRequest(r)
      /\ \A q \in Requests \ {r} : req'[q] = req[q]
  BY <1>1, <1>3 DEF Pursuits, SameRequest, Pursued, Slot, Working, Reserving
<1>5. StageFits(r) /\ RequestFits(r) /\ AnswerFits(r)
  BY DEF RedemptionIInv
<1>6. PICK sl \in Slots : Slot(r) = sl /\ Slot(r)' = sl /\ RowOf(r) = redemptions[sl]
  BY <1>2, <1>4, ReqTypes DEF RedemptionIInv, SameRequest, RowOf
<1>7. redemptions' = [redemptions EXCEPT ![sl] = new]
  <2>1. redemptions[sl].by # R /\ DOMAIN redemptions = Slots
    BY <1>1, <1>2, NotYetWritten DEF RedemptionIInv, RedemptionTypeOK, Slots
  <2> QED BY <1>1, <1>6, <2>1 DEF Locked
<1>8. new.by = R /\ new.was = Seen(sl) /\ new.now = new.was /\ new \in RedemptionCells
  BY <1>3, <1>6, TxTypes DEF Seen, RedemptionCells, Cell
<1> HIDE DEF new
<1>9. /\ redemptions'[sl] = new /\ redemptions' \in [Slots -> RedemptionCells]
      /\ \A s \in Slots : Seen(s)' = Seen(s)
      /\ \A s \in Slots \ {sl} : redemptions'[s] = redemptions[s]
      /\ ~ (IsActive(redemptions[sl].by) /\ redemptions[sl].by \notin PhaseTxs(r))
  <2>1. /\ req[r].at \in {"claim", "await", "release"} /\ UNCHANGED clog
        /\ ~ Waits(txOf(r), redemptions[sl]) /\ new.by = txOf(r)
    BY <1>1, <1>2, <1>6, <1>7, <1>8
  <2> QED BY <2>1, <1>7, <1>8, WrittenRows
<1>10. StageFits(r)' /\ AnswerFits(r)'
  BY <1>1, <1>4, <1>5 DEF StageFits, AnswerFits, Reserving, Settling
<1>11. RequestFits(r)'
  <2>1. Seen(Slot(r))' = Latest(RowOf(r)) /\ Latest(RowOf(r)) # Absent /\ ~ req[r].late
    <3>1. Seen(Slot(r))' = Seen(sl)'
      BY <1>6 DEF Seen
    <3>2. Seen(sl) = Latest(RowOf(r)) /\ Seen(Slot(r)) = Seen(sl)
      BY <1>6 DEF Seen
    <3> QED BY <1>1, <1>2, <1>5, <1>9, <3>1, <3>2 DEF RequestFits
  <2> QED BY <1>4, <2>1 DEF RequestFits, SameRequest, Agrees, Claiming, Undoing
<1>12. ASSUME NEW s \in Slots PROVE RowKept(r, s)
  <2>1. Seen(s)' = Seen(s) /\ (Seen(s) # Absent => Seen(s).of # r)
    BY <1>2, <1>9, ReservingUnseen
  <2>2. CASE s = sl
    <3>1. Writing(s, r)' /\ redemptions'[s].by = R
      BY <1>4, <1>6, <1>8, <1>9, <2>2 DEF Writing, SameRequest
    <3>2. clog'[R] # "new" /\ R \in PhaseTxs(r)
      BY <1>1, <1>2, <1>5 DEF StageFits, PhaseTxs
    <3> QED BY <1>9, <2>1, <2>2, <3>1, <3>2 DEF RowKept, SeenKept
  <2>3. CASE s # sl
    <3>1. redemptions[s].by \notin PhaseTxs(r) \/ ~ IsActive(redemptions[s].by)
      BY <1>1, <1>6, <2>3, WriterIsOwn DEF Writing
    <3>2. clog[redemptions[s].by] # "new"
      BY DEF RedemptionIInv, RowFits
    <3> QED BY <1>1, <1>9, <2>1, <2>3, <3>1, <3>2 DEF RowKept, SeenKept, IsActive
  <2> QED BY <2>2, <2>3
<1>13. Touches(r)
  BY <1>1, <1>4, <1>12 DEF Touches, OthersKept
<1>14. SeenSame
  BY <1>9 DEF SeenSame
<1> QED BY <1>4, <1>9, <1>10, <1>11, <1>13, <1>14

\* The lookup finds the redemption under its key.
LEMMA FoundStep ==
  ASSUME RedemptionIInv, NEW r \in Requests, Lookup(r), Seen(Slot(r)) # Absent
  PROVE  /\ Touches(r) /\ StageFits(r)' /\ RequestFits(r)' /\ AnswerFits(r)'
         /\ req'[r] \in Pursuits
<1>1. req[r].at = "lookup" /\ UNCHANGED <<redemptions, answer, clog>>
  BY DEF Lookup, ledgerVars
<1>2. Pursued(r) /\ req[r].at \in Reserving /\ txOf(r) = reserveTx(r)
  BY <1>1 DEF Pursued, Reserving, txOf
<1>3. PICK sl \in Slots : Slot(r) = sl /\ RowOf(r) = redemptions[sl]
  BY <1>2, ReqTypes DEF RedemptionIInv, RowOf
<1>4. req' = [req EXCEPT ![r].at = "replay", ![r].found = Seen(sl)]
  <2>1. View(reserveTx(r), RowOf(r)) = Seen(sl)
    BY <1>1, <1>2, <1>3, NotYetWritten
  <2> QED BY <1>3, <2>1 DEF Lookup
<1>5. /\ req[r] \in Pursuits /\ DOMAIN req = Requests /\ Seen(sl) \in Redeemed \cup {Absent}
  BY <1>2, <1>3, ReqTypes DEF RedemptionIInv, RedemptionTypeOK, Cell, Latest, Seen
<1>6. /\ req'[r].at = "replay" /\ req'[r].found = Seen(sl) /\ req'[r] \in Pursuits
      /\ SameRequest(r) /\ Slot(r)' = sl
      /\ \A q \in Requests \ {r} : req'[q] = req[q]
  BY <1>3, <1>4, <1>5 DEF Pursuits, SameRequest, Pursued, Slot, Working, Reserving
<1>7. StageFits(r) /\ RequestFits(r) /\ AnswerFits(r)
  BY DEF RedemptionIInv
<1>8. StageFits(r)' /\ AnswerFits(r)'
  BY <1>1, <1>6, <1>7 DEF StageFits, AnswerFits, Reserving, Settling
<1>9. \A s \in Slots : Seen(s)' = Seen(s)
  BY <1>1 DEF Seen, Latest, IsCommitted
<1>10. RequestFits(r)'
  <2>1. Seen(Slot(r))' = Seen(sl) /\ Seen(sl) # Absent /\ Seen(Slot(r)) = Seen(sl)
    BY <1>3, <1>6, <1>9 DEF Seen
  <2>2. req[r].late => Seen(sl).of # r /\ answer[r].status # "refused"
    BY <1>2, <1>7, <2>1 DEF RequestFits
  <2> QED BY <1>1, <1>6, <2>1, <2>2 DEF RequestFits, SameRequest, Agrees, Claiming, Undoing
<1>11. ASSUME NEW s \in Slots PROVE RowKept(r, s)
  <2>1. Seen(s) # Absent => Seen(s).of # r
    BY <1>2, ReservingUnseen
  <2>2. redemptions[s].by \notin PhaseTxs(r) \/ ~ IsActive(redemptions[s].by)
    BY <1>1, WriterIsOwn DEF Writing, Claiming, Undoing
  <2>3. clog[redemptions[s].by] # "new"
    BY DEF RedemptionIInv, RowFits
  <2> QED BY <1>1, <1>9, <2>1, <2>2, <2>3 DEF RowKept, SeenKept, IsActive
<1>12. Touches(r)
  BY <1>1, <1>6, <1>11 DEF Touches, OthersKept
<1> QED BY <1>6, <1>8, <1>10, <1>12

\* The compensation finds the redemption RESERVED: nobody else settles it.
LEMMA ReleaseStep ==
  ASSUME RedemptionIInv, NEW r \in Requests, Release(r)
  PROVE  /\ Touches(r) /\ StageFits(r)' /\ RequestFits(r)' /\ AnswerFits(r)'
         /\ req' = [req EXCEPT ![r].at = "refund"] /\ redemptions' \in [Slots -> RedemptionCells] /\ SeenSame
<1> DEFINE S == settleTx(r)
           new == [was |-> Mine(r, "RESERVED"), now |-> Mine(r, "FAILED"), by |-> S]
<1>1. req[r].at = "release" /\ ~ Waits(S, RowOf(r)) /\ UNCHANGED <<answer, clog>>
  BY DEF Release, ledgerVars
<1>2. Pursued(r) /\ "refund" \in Working /\ txOf(r) = S
  BY <1>1 DEF Pursued, Working, Settling, Reserving, txOf
<1>3. PICK sl \in Slots : Slot(r) = sl /\ RowOf(r) = redemptions[sl]
  BY <1>2, ReqTypes DEF RedemptionIInv, RowOf
<1>4. StageFits(r) /\ RequestFits(r) /\ AnswerFits(r)
  BY DEF RedemptionIInv
<1>5. Seen(sl) = Mine(r, "RESERVED") /\ View(S, RowOf(r)) = Mine(r, "RESERVED")
      /\ redemptions[sl].by # S
  <2>1. Seen(sl) = Mine(r, "RESERVED")
    BY <1>1, <1>2, <1>3, <1>4 DEF RequestFits
  <2> QED BY <1>1, <1>2, <1>3, <2>1, NotYetWritten
<1>6. Mine(r, "RESERVED").status = "RESERVED" /\ Mine(r, "RESERVED").of = r
      /\ [Mine(r, "RESERVED") EXCEPT !.status = "FAILED"] = Mine(r, "FAILED")
  BY DEF Mine
<1>7. /\ req' = [req EXCEPT ![r].at = "refund"]
      /\ redemptions' = [redemptions EXCEPT ![sl] = Written(S, redemptions[sl], Mine(r, "FAILED"))]
  BY <1>3, <1>5, <1>6 DEF Release, Goto
<1>8. redemptions' = [redemptions EXCEPT ![sl] = new]
  <2>1. Written(S, redemptions[sl], Mine(r, "FAILED")) = new
    BY <1>5 DEF Written, Locked, Seen
  <2> QED BY <1>7, <2>1
<1>9. new.by = S /\ new.was = Seen(sl) /\ new \in RedemptionCells
  <2>1. Mine(r, "RESERVED") \in Redeemed /\ Mine(r, "FAILED") \in Redeemed /\ S \in Xids
    BY <1>2, MineTypes, TxTypes DEF RedemptionIInv
  <2> QED BY <1>5, <2>1 DEF RedemptionCells, Cell
<1>10. /\ req'[r].at = "refund" /\ SameRequest(r)
       /\ \A q \in Requests \ {r} : req'[q] = req[q]
  BY <1>2, <1>7, MovedReq, MovedIsSame DEF RedemptionIInv
<1> HIDE DEF new
<1>11. /\ redemptions'[sl] = new /\ redemptions' \in [Slots -> RedemptionCells]
       /\ \A s \in Slots : Seen(s)' = Seen(s)
       /\ \A s \in Slots \ {sl} : redemptions'[s] = redemptions[s]
       /\ ~ (IsActive(redemptions[sl].by) /\ redemptions[sl].by \notin PhaseTxs(r))
  <2>1. /\ req[r].at \in {"claim", "await", "release"} /\ UNCHANGED clog
        /\ ~ Waits(txOf(r), redemptions[sl]) /\ new.by = txOf(r)
    BY <1>1, <1>2, <1>3, <1>9
  <2> QED BY <2>1, <1>8, <1>9, WrittenRows
<1>12. StageFits(r)' /\ AnswerFits(r)'
  BY <1>1, <1>4, <1>10 DEF StageFits, AnswerFits, Reserving, Settling
<1>13. RequestFits(r)'
  <2>1. Released(r)' /\ ~ req[r].late
    <3>1. ~ req[r].late
      BY <1>1, <1>2, <1>4 DEF RequestFits
    <3> QED BY <1>3, <1>10, <1>11, <3>1 DEF Released, RowOf, SameRequest, Mine, new
  <2> QED BY <1>10, <2>1 DEF RequestFits, SameRequest, Claiming, Undoing
<1>14. ASSUME NEW s \in Slots PROVE RowKept(r, s)
  <2>1. Seen(s) # Absent /\ Seen(s).of = r => Recorded(s)'
    <3> SUFFICES ASSUME Seen(s) # Absent, Seen(s).of = r PROVE Recorded(s)'
      OBVIOUS
    <3>1. Recorded(s)
      BY DEF RedemptionIInv, RowFits
    <3> QED BY <1>1, <1>10, <1>11, <3>1 DEF Recorded, SameRequest, Settling
  <2>2. CASE s = sl
    <3>1. Writing(s, r)' /\ redemptions'[s].by = S
      BY <1>3, <1>9, <1>10, <1>11, <2>2 DEF Writing, SameRequest, Undoing
    <3>2. clog'[S] # "new" /\ S \in PhaseTxs(r)
      BY <1>1, <1>4 DEF StageFits, PhaseTxs, Settling
    <3> QED BY <1>11, <2>1, <2>2, <3>1, <3>2 DEF RowKept, SeenKept
  <2>3. CASE s # sl
    <3>1. redemptions[s].by \notin PhaseTxs(r) \/ ~ IsActive(redemptions[s].by)
      BY <1>1, <1>3, <2>3, WriterIsOwn DEF Writing
    <3>2. clog[redemptions[s].by] # "new"
      BY DEF RedemptionIInv, RowFits
    <3> QED BY <1>1, <1>11, <2>1, <2>3, <3>1, <3>2 DEF RowKept, SeenKept, IsActive
  <2> QED BY <2>2, <2>3
<1>15. Touches(r)
  BY <1>1, <1>10, <1>14 DEF Touches, OthersKept
<1>16. SeenSame
  BY <1>11 DEF SeenSame
<1> QED BY <1>7, <1>11, <1>12, <1>13, <1>15, <1>16

LEMMA ConfirmStep ==
  ASSUME RedemptionIInv, NEW r \in Requests, Confirm(r) \/ ConfirmUnheard(r)
  PROVE  /\ Touches(r) /\ StageFits(r)' /\ RequestFits(r)' /\ AnswerFits(r)'
         /\ redemptions' \in [Slots -> RedemptionCells]
         /\ SeenAs(r, Mine(r, "RESERVED"), Mine(r, "FULFILLED"))
<1> DEFINE new == Loaded(Mine(r, "FULFILLED"))
<1>1. /\ req[r].at = "confirm" /\ ~ IsActive(RowOf(r).by) /\ UNCHANGED clog
      /\ MarkFulfilled(r)
  BY DEF Confirm, ConfirmUnheard, MarkFulfilled, ledgerVars
<1>1a. PICK x, of : /\ Answer(r, x, of)
                    /\ (x = "FULFILLED" /\ of = r) \/ (x = "error" /\ of = Absent)
  BY DEF Confirm, ConfirmUnheard
<1>2. Pursued(r)
  BY <1>1 DEF Pursued
<1>3. /\ req'[r].at = "done" /\ SameRequest(r)
      /\ \A q \in Requests \ {r} : req'[q] = req[q] /\ answer'[q] = answer[q]
      /\ answer'[r] = [status |-> x, of |-> of]
  BY <1>2, <1>1a, EndedReq DEF RedemptionIInv
<1>4. StageFits(r) /\ RequestFits(r) /\ clog[Setup] = "committed" /\ RedemptionTypeOK
  BY DEF RedemptionIInv, LedgerIInv
<1>5. PICK sl \in Slots : Slot(r) = sl /\ Slot(r)' = sl /\ RowOf(r) = redemptions[sl]
  BY <1>2, <1>3, ReqTypes DEF RedemptionIInv, RowOf, SameRequest
<1>6. Seen(sl) = Mine(r, "RESERVED") /\ Latest(RowOf(r)) = Mine(r, "RESERVED")
  <2>1. Seen(sl) = Mine(r, "RESERVED")
    BY <1>1, <1>2, <1>4, <1>5 DEF RequestFits
  <2> QED BY <1>5, <2>1 DEF Seen
<1>7. redemptions' = [redemptions EXCEPT ![sl] = new] /\ DOMAIN redemptions = Slots
  <2>1. [Mine(r, "RESERVED") EXCEPT !.status = "FULFILLED"] = Mine(r, "FULFILLED")
    BY DEF Mine
  <2> QED
    BY <1>1, <1>4, <1>5, <1>6, <2>1 DEF MarkFulfilled, Autocommitted, RedemptionTypeOK, Slots, RowOf
<1>8. /\ redemptions'[sl] = new /\ \A s \in Slots \ {sl} : redemptions'[s] = redemptions[s]
  BY <1>7
<1>9. /\ Seen(sl)' = Mine(r, "FULFILLED") /\ \A s \in Slots \ {sl} : Seen(s)' = Seen(s)
  BY <1>1, <1>4, <1>8 DEF Seen, Latest, IsCommitted, Loaded
<1>10. StageFits(r)'
  BY <1>1, <1>3, <1>4 DEF StageFits, Reserving, Settling
<1>11. /\ Mine(r, "FULFILLED") # Absent /\ Mine(r, "FULFILLED").of = r
       /\ Mine(r, "FULFILLED").status = "FULFILLED"
       /\ Mine(r, "FULFILLED").reward = req[r].reward
       /\ Mine(r, "RESERVED") # Absent /\ Mine(r, "RESERVED").of = r
       /\ Mine(r, "RESERVED").status = "RESERVED"
  BY <1>2, <1>4, MineTypes
<1>12. RequestFits(r)' /\ AnswerFits(r)'
  <2>1. Seen(Slot(r))' = Mine(r, "FULFILLED") /\ ~ req[r].late
    <3>1. Seen(Slot(r))' = Seen(sl)'
      BY <1>5 DEF Seen
    <3> QED BY <1>1, <1>2, <1>4, <1>9, <3>1 DEF RequestFits
  <2>2. RequestFits(r)'
    BY <1>3, <2>1 DEF RequestFits, SameRequest, Claiming, Undoing
  <2>3. AnswerFits(r)'
    BY <1>3, <1>11, <1>1a, <2>1 DEF AnswerFits, Agrees
  <2> QED BY <2>2, <2>3
<1>13. ASSUME NEW s \in Slots PROVE RowKept(r, s)
  <2>1. Recorded(s)
    BY DEF RedemptionIInv, RowFits
  <2>2. CASE s = sl
    <3>1. Recorded(s)'
      BY <1>1, <1>3, <1>4, <1>5, <1>9, <1>11, <2>2 DEF Recorded, SameRequest, StageFits
    <3>2. redemptions'[s].by = Setup
      BY <1>8, <2>2 DEF Loaded
    <3> QED BY <1>1, <1>5, <1>6, <1>9, <1>11, <2>2, <3>1, <3>2 DEF RowKept, SeenKept
  <2>3. CASE s # sl
    <3>1. Seen(s) # Absent => Seen(s).of # r
      BY <1>5, <2>1, <2>3 DEF Recorded
    <3>2. redemptions[s].by \notin PhaseTxs(r) \/ ~ IsActive(redemptions[s].by)
      BY <1>1, <1>4, TxTypes DEF StageFits, PhaseTxs, IsActive
    <3>3. clog[redemptions[s].by] # "new"
      BY DEF RedemptionIInv, RowFits
    <3> QED BY <1>1, <1>8, <1>9, <2>3, <3>1, <3>2, <3>3 DEF RowKept, SeenKept, IsActive
  <2> QED BY <2>2, <2>3
<1>14. Touches(r)
  BY <1>1, <1>3, <1>13 DEF Touches, OthersKept
<1>15. redemptions' \in [Slots -> RedemptionCells]
  <2>1. redemptions \in [Slots -> RedemptionCells]
    BY <1>4 DEF RedemptionTypeOK, Slots, RedemptionCells
  <2>2. new \in RedemptionCells
    BY <1>2, <1>4, MineTypes DEF Loaded, RedemptionCells, Cell, Xids
  <2> QED BY <1>7, <2>1, <2>2
<1>16. SeenAs(r, Mine(r, "RESERVED"), Mine(r, "FULFILLED"))
  BY <1>5, <1>6, <1>9 DEF SeenAs
<1> QED BY <1>10, <1>12, <1>14, <1>15, <1>16

-----------------------------------------------------------------------------
(* The shapes of the state, and the steps together.                          *)

ReqStates == [at : {"new"}] \cup Pursuits
Answers == [status : {"none", "refused", "error", "RESERVED", "FULFILLED", "FAILED"},
            of : Requests \cup {Absent}]
StockFits == stock \in [Rewards -> Cell(Nat \cup {Unlimited})] /\ StockTyped

LEMMA TypesSplit ==
  RedemptionTypeOK <=> /\ redemptions \in [Slots -> RedemptionCells]
                       /\ stock \in [Rewards -> Cell(Nat \cup {Unlimited})]
                       /\ offered \subseteq Rewards
                       /\ req \in [Requests -> ReqStates]
                       /\ answer \in [Requests -> Answers]
BY DEF RedemptionTypeOK, Slots, RedemptionCells, ReqStates, Pursuits, Answers

LEMMA MovedTypes ==
  ASSUME RedemptionTypeOK, NEW r \in Requests, Pursued(r), NEW a \in Working \cup {"done"},
         req' = [req EXCEPT ![r].at = a]
  PROVE  req' \in [Requests -> ReqStates]
<1>1. req[r] \in Pursuits /\ req \in [Requests -> ReqStates]
  BY ReqTypes, TypesSplit
<1>2. [req[r] EXCEPT !.at = a] \in Pursuits
  BY <1>1 DEF Pursuits
<1> QED BY <1>1, <1>2 DEF ReqStates

\* A step of request r that is not about stock, or keeps its shape.
LEMMA StepInv ==
  ASSUME RedemptionIInv, LedgerIInv', NEW r \in Requests,
         Touches(r), StageFits(r)', RequestFits(r)', AnswerFits(r)',
         StockFits' \/ UNCHANGED stock, UNCHANGED offered,
         redemptions' \in [Slots -> RedemptionCells] \/ UNCHANGED redemptions,
         req' \in [Requests -> ReqStates],
         answer' \in [Requests -> Answers] \/ UNCHANGED answer
  PROVE  RedemptionIInv'
<1>1. RedemptionTypeOK /\ StockTyped
  BY DEF RedemptionIInv
<1>2. StockFits'
  BY <1>1, TypesSplit DEF StockFits, StockTyped
<1>3. StockTyped' /\ stock' \in [Rewards -> Cell(Nat \cup {Unlimited})]
  BY <1>2 DEF StockFits
<1>4. RedemptionTypeOK'
  <2>1. /\ redemptions \in [Slots -> RedemptionCells] /\ offered \subseteq Rewards
        /\ answer \in [Requests -> Answers]
    BY <1>1, TypesSplit
  <2>2. /\ redemptions' \in [Slots -> RedemptionCells] /\ offered' \subseteq Rewards
        /\ answer' \in [Requests -> Answers] /\ req' \in [Requests -> ReqStates]
    BY <2>1
  <2> QED BY <1>3, <2>2 DEF RedemptionTypeOK, Slots, RedemptionCells, ReqStates, Pursuits, Answers
<1> QED BY <1>3, <1>4, TouchInv

LEMMA QuietInv ==
  ASSUME RedemptionIInv, LedgerIInv', NEW r \in Requests, NEW a,
         UNCHANGED <<redemptions, offered, answer, clog>>, req' = [req EXCEPT ![r].at = a],
         StockFits' \/ UNCHANGED stock,
         \/ req[r].at \in {"lookup", "reward"} /\ a \in {"reward", "claim"} /\ ~ req[r].late
         \/ req[r].at = "claim" /\ a = "await" /\ Seen(Slot(r)) # Absent
         \/ req[r].at \in Claiming /\ a \in Claiming
         \/ req[r].at = "fulfil" /\ a = "confirm"
         \/ req[r].at \in Undoing /\ a \in Undoing
  PROVE  RedemptionIInv'
<1>1. Pursued(r) /\ a \in Working \cup {"done"}
  BY DEF Pursued, Claiming, Undoing, Working, Reserving, Settling
<1>2. req' \in [Requests -> ReqStates]
  BY <1>1, MovedTypes DEF RedemptionIInv
<1>3. Touches(r) /\ StageFits(r)' /\ RequestFits(r)' /\ AnswerFits(r)'
  BY <1>1, QuietStep
<1> QED BY <1>2, <1>3, StepInv

LEMMA EndInv ==
  ASSUME RedemptionIInv, LedgerIInv', NEW r \in Requests, Pursued(r),
         Touches(r), StageFits(r)', RequestFits(r)', AnswerFits(r)', NEW x, NEW of,
         [status |-> x, of |-> of] \in Answers, Answer(r, x, of), UNCHANGED <<stock, offered>>,
         redemptions' \in [Slots -> RedemptionCells] \/ UNCHANGED redemptions
  PROVE  RedemptionIInv'
<1>1. req' \in [Requests -> ReqStates]
  BY MovedTypes DEF Answer, Goto, RedemptionIInv
<1>2. answer' \in [Requests -> Answers]
  BY TypesSplit DEF Answer, RedemptionIInv
<1> QED BY <1>1, <1>2, StepInv

-----------------------------------------------------------------------------
(* Stock: a hold takes from a count that is not zero, and a return adds.     *)

LEMMA StockWritten ==
  ASSUME StockFits, NEW w \in Rewards, InitialStock[w] # Unlimited, NEW t \in Xids,
         NEW v \in Nat, stock' = [stock EXCEPT ![w] = Written(t, stock[w], v)]
  PROVE  StockFits'
<1>1. stock[w] \in Cell(Nat) /\ stock \in [Rewards -> Cell(Nat \cup {Unlimited})]
  BY DEF StockFits, StockTyped
<1>2. Written(t, stock[w], v) \in Cell(Nat)
  BY <1>1 DEF Written, Locked, Latest, Cell
<1>3. Written(t, stock[w], v) \in Cell(Nat \cup {Unlimited})
  BY <1>2 DEF Cell
<1>4. stock' \in [Rewards -> Cell(Nat \cup {Unlimited})]
  BY <1>1, <1>3
<1>5. stock'[w] \in Cell(Nat) /\ \A x \in Rewards \ {w} : stock'[x] = stock[x]
  BY <1>1, <1>2
<1>6. StockTyped'
  BY <1>5 DEF StockFits, StockTyped
<1> QED BY <1>4, <1>6 DEF StockFits

LEMMA StockStep ==
  ASSUME RedemptionIInv, NEW r \in Requests, Pursued(r), TakeStock(r) \/ Restock(r)
  PROVE  StockFits' \/ UNCHANGED stock
<1>1. StockFits
  BY TypesSplit DEF RedemptionIInv, StockFits
<1>2. PICK w \in Rewards : w = req[r].reward
  BY ReqTypes DEF RedemptionIInv
<1>3. CASE TakeStock(r) /\ InitialStock[w] # Unlimited
  <2>1. PICK t \in Xids : t = reserveTx(r)
    BY TxTypes
  <2>2. stock[w] \in Cell(Nat)
    BY <1>1, <1>3 DEF StockFits, StockTyped
  <2>3. PICK v : v = View(t, stock[w]) - 1
    OBVIOUS
  <2>4. /\ View(t, stock[w]) > 0
        /\ stock' = [stock EXCEPT ![w] = Written(t, stock[w], v)]
    BY <1>2, <1>3, <2>1, <2>3 DEF TakeStock
  <2>5. v \in Nat
    BY <2>2, <2>3, <2>4 DEF View, Latest, Cell
  <2> QED BY <1>1, <1>3, <2>4, <2>5, StockWritten
<1>4. CASE Restock(r) /\ InitialStock[w] # Unlimited
  <2>1. PICK t \in Xids : t = settleTx(r)
    BY TxTypes
  <2>2. stock[w] \in Cell(Nat)
    BY <1>1, <1>4 DEF StockFits, StockTyped
  <2>3. PICK v : v = View(t, stock[w]) + 1
    OBVIOUS
  <2>4. stock' = [stock EXCEPT ![w] = Written(t, stock[w], v)]
    BY <1>2, <1>4, <2>1, <2>3 DEF Restock
  <2>5. v \in Nat
    BY <2>2, <2>3 DEF View, Latest, Cell
  <2> QED BY <1>1, <1>4, <2>4, <2>5, StockWritten
<1> QED BY <1>2, <1>3, <1>4 DEF TakeStock, Restock

-----------------------------------------------------------------------------
(* Each step keeps the invariant.                                            *)

\* A statement that moves the request on and writes no redemption.
LEMMA MoveInv ==
  ASSUME RedemptionIInv, LedgerIInv', NEW r \in Requests,
         \/ Lookup(r) /\ Seen(Slot(r)) = Absent
         \/ ReadReward(r) \/ Conflict(r) \/ LockUser(r) \/ TakeStock(r) \/ Debit(r)
         \/ LedgerWork(r) \/ Fulfilled(r) \/ Refund(r) \/ Restock(r)
  PROVE  RedemptionIInv'
<1>1. req[r].at \in Working /\ Pursued(r)
  BY DEF Lookup, ReadReward, Conflict, LockUser, TakeStock, Debit, LedgerWork, Fulfilled,
         Refund, Restock, Working, Reserving, Settling, Pursued
<1>2. req[r].late => Seen(Slot(r)) # Absent /\ req[r].at \in {"lookup", "replay", "done"}
  BY <1>1 DEF RedemptionIInv, RequestFits
<1>3. CASE Lookup(r) /\ Seen(Slot(r)) = Absent
  <2>1. PICK sl \in Slots : Slot(r) = sl /\ RowOf(r) = redemptions[sl]
    BY <1>1, ReqTypes DEF RedemptionIInv, RowOf
  <2>2. req[r].at = "lookup" /\ txOf(r) = reserveTx(r)
        /\ UNCHANGED <<redemptions, stock, offered, answer, clog>>
    BY <1>3 DEF Lookup, ledgerVars, txOf, Reserving
  <2>3. View(reserveTx(r), RowOf(r)) = Absent
    BY <1>3, <2>1, <2>2, NotYetWritten
  <2>4. req' = [req EXCEPT ![r].at = "reward"]
    BY <1>3, <2>3 DEF Lookup, Goto
  <2> QED BY <1>2, <1>3, <2>2, <2>4, QuietInv
<1>4. CASE ReadReward(r)
  <2>1. /\ req[r].at = "reward" /\ req' = [req EXCEPT ![r].at = "claim"]
        /\ UNCHANGED <<redemptions, stock, offered, answer, clog>>
    BY <1>4 DEF ReadReward, Goto, ledgerVars
  <2> QED BY <1>2, <2>1, QuietInv
<1>5. CASE Conflict(r)
  <2>1. /\ req[r].at = "claim" /\ req' = [req EXCEPT ![r].at = "await"]
        /\ UNCHANGED <<redemptions, stock, offered, answer, clog>>
        /\ Seen(Slot(r)) # Absent
    BY <1>5 DEF Conflict, Goto, ledgerVars, Seen, RowOf
  <2> QED BY <2>1, QuietInv
<1>6. CASE LockUser(r)
  <2>1. /\ req[r].at = "lock" /\ req' = [req EXCEPT ![r].at = "stock"]
        /\ UNCHANGED <<redemptions, stock, offered, answer, clog>>
    BY <1>6 DEF LockUser, Goto, LockAhead
  <2> QED BY <2>1, QuietInv DEF Claiming
<1>7. CASE TakeStock(r)
  <2>1. /\ req[r].at = "stock" /\ req' = [req EXCEPT ![r].at = "debit"]
        /\ UNCHANGED <<redemptions, offered, answer, clog>>
    BY <1>7 DEF TakeStock, Goto, ledgerVars
  <2> QED BY <1>1, <1>7, <2>1, StockStep, QuietInv DEF Claiming
<1>8. CASE Debit(r)
  <2>1. /\ req[r].at = "debit" /\ req' = [req EXCEPT ![r].at = "debiting"]
        /\ UNCHANGED <<redemptions, stock, offered, answer, clog>>
    BY <1>8 DEF Debit, Goto, AppendEntry
  <2> QED BY <2>1, QuietInv DEF Claiming
<1>9. CASE LedgerWork(r)
  <2>1. /\ req[r].at \in {"debiting", "refunding"} /\ UNCHANGED req
        /\ UNCHANGED <<redemptions, stock, offered, answer, clog>>
    BY <1>9 DEF LedgerWork, ownVars, Advance, Lock, Insert, Duplicate, Move
  <2>2. PICK a : a = req[r].at
    OBVIOUS
  <2>3. req' = [req EXCEPT ![r].at = a]
    <3>1. req[r] \in Pursuits /\ req \in [Requests -> ReqStates]
      BY <1>1, ReqTypes, TypesSplit DEF RedemptionIInv
    <3>2. [req[r] EXCEPT !.at = a] = req[r]
      BY <2>2, <3>1 DEF Pursuits
    <3> QED BY <2>1, <3>1, <3>2
  <2> QED BY <2>1, <2>2, <2>3, QuietInv DEF Claiming, Undoing
<1>10. CASE Fulfilled(r)
  <2>1. /\ req[r].at = "fulfil" /\ req' = [req EXCEPT ![r].at = "confirm"]
        /\ UNCHANGED <<redemptions, stock, offered, answer, clog>>
    BY <1>10 DEF Fulfilled, Goto, ledgerVars
  <2> QED BY <2>1, QuietInv
<1>11. CASE Refund(r)
  <2>1. /\ req[r].at = "refund" /\ req' = [req EXCEPT ![r].at = "refunding"]
        /\ UNCHANGED <<redemptions, stock, offered, answer, clog>>
    BY <1>11 DEF Refund, Goto, ReverseEntry, AppendEntry
  <2> QED BY <2>1, QuietInv DEF Undoing
<1>12. CASE Restock(r)
  <2>1. /\ req[r].at = "refunding" /\ req' = [req EXCEPT ![r].at = "settled"]
        /\ UNCHANGED <<redemptions, offered, answer, clog>>
    BY <1>12 DEF Restock, Goto, ledgerVars
  <2> QED BY <1>1, <1>12, <2>1, StockStep, QuietInv DEF Undoing
<1> QED BY <1>3, <1>4, <1>5, <1>6, <1>7, <1>8, <1>9, <1>10, <1>11, <1>12

\* A request is refused, or cut off.
LEMMA DropInv ==
  ASSUME RedemptionIInv, LedgerIInv', NEW r \in Requests,
         Unavailable(r) \/ OutOfStock(r) \/ Insufficient(r) \/ CutOff(r)
  PROVE  RedemptionIInv'
<1>1. req[r].at \in Working /\ Pursued(r) /\ UNCHANGED <<redemptions, stock, offered>>
  BY DEF Unavailable, OutOfStock, Insufficient, CutOff, Working, Reserving, Pursued, Settling
<1>2. ASSUME NEW x \in {"refused", "error"}
      PROVE  [status |-> x, of |-> Absent] \in Answers
  BY DEF Answers
<1>3. CASE Unavailable(r) \/ OutOfStock(r) \/ Insufficient(r)
  <2>1. /\ req[r].at \in {"reward", "stock", "debiting"}
        /\ Abort(reserveTx(r)) /\ Answer(r, "refused", Absent)
    BY <1>3 DEF Unavailable, OutOfStock, Insufficient, Fail, Refuse
  <2>2. txOf(r) = reserveTx(r) /\ req[r].at \in Working \ {"fulfil", "confirm"}
    BY <2>1 DEF txOf, Working, Reserving
  <2>3. Touches(r) /\ StageFits(r)' /\ RequestFits(r)' /\ AnswerFits(r)'
    BY <1>1, <2>1, <2>2, DropStep
  <2> QED BY <1>1, <1>2, <2>1, <2>3, EndInv
<1>4. CASE CutOff(r)
  <2>1. Answer(r, "error", Absent)
    BY <1>4 DEF CutOff
  <2>2. CASE req[r].at = "settled" /\ Close(settleTx(r))
    <3>1. Touches(r) /\ StageFits(r)' /\ RequestFits(r)' /\ AnswerFits(r)'
      BY <1>1, <2>1, <2>2, SettledStep DEF Close
    <3> QED BY <1>1, <1>2, <2>1, <3>1, EndInv
  <2>3. CASE ~ (req[r].at = "settled" /\ Close(settleTx(r)))
    <3>1. \/ req[r].at \in Working \ {"fulfil", "confirm"} /\ Abort(txOf(r))
          \/ req[r].at \in {"fulfil", "confirm"} /\ UNCHANGED clog
      BY <1>1, <1>4, <2>3 DEF CutOff, Fail, ledgerVars
    <3>2. Touches(r) /\ StageFits(r)' /\ RequestFits(r)' /\ AnswerFits(r)'
      BY <1>1, <2>1, <3>1, DropStep
    <3> QED BY <1>1, <1>2, <2>1, <3>2, EndInv
  <2> QED BY <2>2, <2>3
<1> QED BY <1>3, <1>4

\* The other statements: they find or write a redemption, or end a transaction.
LEMMA RecordInv ==
  ASSUME RedemptionIInv, LedgerIInv', NEW r \in Requests,
         \/ Lookup(r) /\ Seen(Slot(r)) # Absent
         \/ Claim(r) \/ Await(r) \/ Replay(r) \/ Reserved(r)
         \/ Confirm(r) \/ ConfirmUnheard(r) \/ Unfulfilled(r) \/ Release(r) \/ Settle(r)
  PROVE  RedemptionIInv'
<1>1. req[r].at \in Working /\ Pursued(r) /\ UNCHANGED <<stock, offered>>
  BY DEF Lookup, Claim, Await, Replay, Reserved, Confirm, ConfirmUnheard, MarkFulfilled,
         Unfulfilled, Release, Settle, Working, Reserving, Settling, Pursued
<1>2. RedemptionTypeOK /\ req \in [Requests -> ReqStates]
  BY TypesSplit DEF RedemptionIInv
<1>3. CASE Lookup(r) /\ Seen(Slot(r)) # Absent
  <2>1. req' \in [Requests -> ReqStates] /\ UNCHANGED <<redemptions, answer>>
    <3>1. /\ req'[r] \in Pursuits /\ UNCHANGED <<redemptions, answer>>
          /\ req' = [req EXCEPT ![r] = req'[r]]
      BY <1>2, <1>3, FoundStep DEF Lookup, Goto
    <3> QED BY <1>2, <3>1 DEF ReqStates
  <2> QED BY <1>1, <1>3, <2>1, FoundStep, StepInv
<1>4. CASE Await(r)
  <2>1. req' \in [Requests -> ReqStates] /\ UNCHANGED answer
    <3>1. req'[r] \in Pursuits
      BY <1>4, AwaitStep
    <3>2. UNCHANGED answer
      BY <1>4 DEF Await
    <3>3. req' = [req EXCEPT ![r] = req'[r]]
      <4>1. req' = [req EXCEPT ![r] = [req[r] EXCEPT !.at = "replay",
                                                     !.found = Latest(RowOf(r))]]
        BY <1>2, <1>4 DEF Await
      <4> QED BY <1>2, <4>1
    <3> QED BY <1>2, <3>1, <3>2, <3>3 DEF ReqStates
  <2> QED BY <1>1, <1>4, <2>1, AwaitStep, StepInv
<1>5. CASE Claim(r) \/ Reserved(r) \/ Unfulfilled(r) \/ Release(r)
  <2>1. PICK a \in {"lock", "fulfil", "release", "refund"} : req' = [req EXCEPT ![r].at = a]
    BY <1>5, ReleaseStep DEF Claim, Reserved, Unfulfilled, Goto
  <2>2. req' \in [Requests -> ReqStates]
    BY <1>1, <1>2, <2>1, MovedTypes DEF Working, Reserving, Settling
  <2>3. UNCHANGED answer /\ (redemptions' \in [Slots -> RedemptionCells] \/ UNCHANGED redemptions)
    BY <1>5, ClaimStep, ReleaseStep DEF Claim, Reserved, Unfulfilled, Release
  <2>4. Touches(r) /\ StageFits(r)' /\ RequestFits(r)' /\ AnswerFits(r)'
    BY <1>5, ClaimStep, ReservedStep, UnfulfilledStep, ReleaseStep
  <2> QED BY <1>1, <2>2, <2>3, <2>4, StepInv
<1>6. CASE Replay(r)
  <2>1. UNCHANGED redemptions /\ req[r].at = "replay"
    BY <1>6 DEF Replay
  <2>2. PICK row \in Redeemed : row = req[r].found
    BY <1>1, <1>2, <2>1, ReqTypes DEF RedemptionIInv, RequestFits, Pursuits
  <2>3. [status |-> row.status, of |-> row.of] \in Answers
    BY DEF Redeemed, Answers
  <2>4. Answer(r, row.status, row.of)
    BY <1>6, <2>2 DEF Replay
  <2> QED BY <1>1, <1>6, <2>1, <2>3, <2>4, ReplayStep, EndInv
<1>7. CASE Confirm(r) \/ ConfirmUnheard(r)
  <2>1. \E x, of : Answer(r, x, of) /\ [status |-> x, of |-> of] \in Answers
    BY <1>7 DEF Confirm, ConfirmUnheard, Answers
  <2> QED BY <1>1, <1>7, <2>1, ConfirmStep, EndInv
<1>8. CASE Settle(r)
  <2>1. /\ req[r].at = "settled" /\ Commit(settleTx(r)) /\ UNCHANGED redemptions
        /\ Answer(r, "FAILED", r) /\ [status |-> "FAILED", of |-> r] \in Answers
    BY <1>8 DEF Settle, Close, Answers
  <2>2. Touches(r) /\ StageFits(r)' /\ RequestFits(r)' /\ AnswerFits(r)'
    BY <2>1, SettledStep
  <2> QED BY <1>1, <2>1, <2>2, EndInv
<1> QED BY <1>3, <1>4, <1>5, <1>6, <1>7, <1>8

LEMMA ArriveInv ==
  ASSUME RedemptionIInv, LedgerIInv', NEW r \in Requests, NEW u \in Users,
         NEW k \in IdemKeys, NEW w \in Rewards, Arrive(r, u, k, w)
  PROVE  RedemptionIInv'
<1>1. req \in [Requests -> ReqStates]
  BY TypesSplit DEF RedemptionIInv
<1>2. /\ req'[r] \in Pursuits /\ req' = [req EXCEPT ![r] = req'[r]]
      /\ UNCHANGED <<redemptions, stock, offered, answer>>
  BY <1>1, ArriveStep DEF Arrive
<1>3. req' \in [Requests -> ReqStates]
  BY <1>1, <1>2 DEF ReqStates
<1> QED BY <1>2, <1>3, ArriveStep, StepInv

\* Stock and catalogue apart, nothing moves: the invariant does not mention them.
LEMMA IdleInv ==
  ASSUME RedemptionIInv, LedgerIInv', UNCHANGED <<redemptions, stock, req, answer, clog>>,
         offered' \subseteq Rewards
  PROVE  RedemptionIInv'
<1>1. RedemptionTypeOK' /\ StockTyped'
  BY DEF RedemptionIInv, RedemptionTypeOK, StockTyped, Cell
<1>2. ASSUME NEW s \in Slots PROVE RowFits(s)'
  <2>1. RowFits(s)
    BY DEF RedemptionIInv
  <2> QED BY <2>1 DEF RowFits, Recorded, Seen, Latest, IsCommitted, IsActive, Writing,
                      Pursued, Slot
<1>3. ASSUME NEW r \in Requests PROVE StageFits(r)' /\ RequestFits(r)' /\ AnswerFits(r)'
  <2>1. StageFits(r) /\ RequestFits(r) /\ AnswerFits(r)
    BY DEF RedemptionIInv
  <2>2. StageFits(r)'
    BY <2>1 DEF StageFits
  <2>3. RequestFits(r)'
    BY <2>1 DEF RequestFits, Pursued, Claimed, Released, RowOf, Slot, Mine, Agrees, Seen,
                Latest, IsCommitted
  <2>4. AnswerFits(r)'
    BY <2>1 DEF AnswerFits, Agrees, Seen, Slot, Latest, IsCommitted
  <2> QED BY <2>2, <2>3, <2>4
<1> QED BY <1>1, <1>2, <1>3 DEF RedemptionIInv

LEMMA RedemptionInitInv == RedemptionInit => RedemptionIInv
<1> SUFFICES ASSUME RedemptionInit PROVE RedemptionIInv
  OBVIOUS
<1>1. /\ redemptions = [s \in Slots |-> Loaded(Absent)]
      /\ stock = [w \in Rewards |-> Loaded(InitialStock[w])] /\ offered = Rewards
      /\ req = [r \in Requests |-> [at |-> "new"]]
      /\ answer = [r \in Requests |-> Unanswered]
  BY DEF RedemptionInit, Slots
<1>2. LedgerIInv
  BY InitInvariant DEF RedemptionInit
<1>3. clog = [x \in Xids |-> IF x = Setup THEN "committed" ELSE "new"]
  BY DEF RedemptionInit, LedgerInit, PgInit
<1>4. RedemptionTypeOK
  <2>1. redemptions \in [Slots -> RedemptionCells]
    BY <1>1 DEF Loaded, RedemptionCells, Cell, Xids
  <2>2. stock \in [Rewards -> Cell(Nat \cup {Unlimited})]
    BY <1>1, StockIsACount DEF Loaded, Cell, Xids
  <2>3. req \in [Requests -> ReqStates] /\ answer \in [Requests -> Answers]
    BY <1>1 DEF ReqStates, Answers, Unanswered
  <2> QED BY <1>1, <2>1, <2>2, <2>3, TypesSplit
<1>5. StockTyped
  BY <1>1, StockIsACount DEF StockTyped, Loaded, Cell, Xids
<1>6. ASSUME NEW r \in Requests PROVE StageFits(r) /\ RequestFits(r) /\ AnswerFits(r)
  BY <1>1, <1>3, <1>6, TxTypes
  DEF StageFits, RequestFits, AnswerFits, Pursued, Unanswered, Reserving, Settling
<1>7. ASSUME NEW s \in Slots PROVE RowFits(s)
  <2>1. redemptions[s] = Loaded(Absent) /\ clog[Setup] = "committed"
    BY <1>1, <1>3 DEF Xids
  <2> QED BY <2>1 DEF RowFits, Recorded, Seen, Latest, IsCommitted, IsActive, Loaded
<1> QED BY <1>2, <1>4, <1>5, <1>6, <1>7 DEF RedemptionIInv

LEMMA RedemptionNextInv == RedemptionIInv /\ [RedemptionNext]_redemptionVars => RedemptionIInv'
<1> SUFFICES ASSUME RedemptionIInv, [RedemptionNext]_redemptionVars PROVE RedemptionIInv'
  OBVIOUS
<1>1. LedgerIInv'
  BY RedemptionStep, NextInvariant DEF RedemptionIInv
<1>2. CASE UNCHANGED redemptionVars
  <2>1. /\ UNCHANGED <<redemptions, stock, req, answer, clog>>
        /\ offered' \subseteq Rewards
    BY <1>2 DEF redemptionVars, ownVars, ledgerVars, RedemptionIInv, RedemptionTypeOK
  <2> QED BY <1>1, <2>1, IdleInv
<1>3. ASSUME NEW r \in Requests, Serve(r) \/ Throw(r) PROVE RedemptionIInv'
  <2>1. CASE Lookup(r)
    BY <1>1, <2>1, MoveInv, RecordInv
  <2>2. CASE \/ ReadReward(r) \/ Conflict(r) \/ LockUser(r) \/ TakeStock(r) \/ Debit(r)
             \/ LedgerWork(r) \/ Fulfilled(r) \/ Refund(r) \/ Restock(r)
    BY <1>1, <2>2, MoveInv
  <2>3. CASE Unavailable(r) \/ OutOfStock(r) \/ Insufficient(r) \/ CutOff(r)
    BY <1>1, <2>3, DropInv
  <2>4. CASE \/ Claim(r) \/ Await(r) \/ Replay(r) \/ Reserved(r) \/ Confirm(r)
             \/ ConfirmUnheard(r) \/ Unfulfilled(r) \/ Release(r) \/ Settle(r)
    BY <1>1, <2>4, RecordInv
  <2> QED BY <1>3, <2>1, <2>2, <2>3, <2>4 DEF Serve, Throw
<1>4. ASSUME NEW r \in Requests, NEW u \in Users, NEW k \in IdemKeys, NEW w \in Rewards,
             Arrive(r, u, k, w)
      PROVE  RedemptionIInv'
  BY <1>1, <1>4, ArriveInv
<1>5. ASSUME NEW w \in Rewards, Deactivate(w) PROVE RedemptionIInv'
  <2>1. /\ UNCHANGED <<redemptions, stock, req, answer, clog>>
        /\ offered' \subseteq Rewards
    BY <1>5 DEF Deactivate, ledgerVars, RedemptionIInv, RedemptionTypeOK
  <2> QED BY <1>1, <2>1, IdleInv
<1> QED BY <1>2, <1>3, <1>4, <1>5 DEF RedemptionNext

-----------------------------------------------------------------------------
(* Stock. What is left of a reward and what its redemptions hold add up; a    *)
(* unit that has been taken or returned and not yet committed is that of the  *)
(* request whose transaction has the row of the reward.                       *)

Limited == {w \in Rewards : InitialStock[w] # Unlimited}
Holding(w) == {s \in Slots : /\ Seen(s) # Absent /\ Seen(s).reward = w
                             /\ Seen(s).status # "FAILED"}

\* The stages at which the transaction of r has taken a unit, or returned it.
Held(r) == req[r].at \in {"debit", "debiting"}
Restored(r) == req[r].at = "settled"
Holds(w, r) ==
  /\ Pursued(r) /\ req[r].reward = w
  /\ \/ Held(r) /\ stock[w].by = reserveTx(r) /\ stock[w].now = stock[w].was - 1
     \/ Restored(r) /\ stock[w].by = settleTx(r) /\ stock[w].now = stock[w].was + 1

StockAdds(w) ==
  /\ clog[stock[w].by] # "new"
  /\ IsFiniteSet(Holding(w))
  /\ Latest(stock[w]) + Cardinality(Holding(w)) = InitialStock[w]
  /\ IsActive(stock[w].by) => \E r \in Requests : Holds(w, r)
UnitHeld(r) == (Held(r) \/ Restored(r)) /\ req[r].reward \in Limited => Holds(req[r].reward, r)
StockIInv == /\ \A w \in Limited : StockAdds(w)
             /\ \A r \in Requests : UnitHeld(r)

LEMMA LimitedStock ==
  ASSUME RedemptionIInv, NEW w \in Limited
  PROVE  /\ stock[w] \in Cell(Nat) /\ stock[w].by \in Xids /\ Latest(stock[w]) \in Nat
         /\ InitialStock[w] \in Nat /\ stock \in [Rewards -> Cell(Nat \cup {Unlimited})]
<1>1. stock[w] \in Cell(Nat)
  BY DEF RedemptionIInv, StockTyped, Limited
<1>2. stock \in [Rewards -> Cell(Nat \cup {Unlimited})]
  BY TypesSplit DEF RedemptionIInv
<1> QED BY <1>1, <1>2, StockIsACount DEF Limited, Cell, Latest

\* The one who holds a unit is the writer of the row.
LEMMA HolderIsOwn ==
  ASSUME StockIInv, NEW r \in Requests, NEW w \in Limited, IsActive(stock[w].by),
         stock[w].by \in PhaseTxs(r)
  PROVE  Holds(w, r)
<1>1. PICK q \in Requests : Holds(w, q)
  BY DEF StockIInv, StockAdds
<1> QED BY <1>1, TxTypes DEF Holds, PhaseTxs

\* A step of r that keeps the rows of stock: it is enough to look at the rows that
\* the transactions of r wrote.
LEMMA StockKept ==
  ASSUME RedemptionIInv, StockIInv, NEW r \in Requests, OthersKept(r), UNCHANGED stock,
         UnitHeld(r)',
         \A w \in Limited : /\ Holding(w)' = Holding(w)
                            /\ stock[w].by \in PhaseTxs(r) =>
                                 /\ clog'[stock[w].by] # "new"
                                 /\ Latest(stock[w])' = Latest(stock[w])
                                 /\ IsActive(stock[w].by)' => Holds(w, r)'
  PROVE  StockIInv'
<1>1. ASSUME NEW q \in Requests \ {r}
      PROVE  /\ req'[q] = req[q]
             /\ UnitHeld(q)' /\ \A w \in Limited : Holds(w, q)' = Holds(w, q)
  <2>1. req'[q] = req[q] /\ UnitHeld(q)
    BY DEF OthersKept, StockIInv
  <2> QED BY <2>1 DEF UnitHeld, Holds, Held, Restored, Pursued
<1>2. ASSUME NEW w \in Limited PROVE StockAdds(w)'
  <2>1. StockAdds(w) /\ stock[w].by \in Xids /\ Holding(w)' = Holding(w)
    BY LimitedStock DEF StockIInv
  <2>2. CASE stock[w].by \in PhaseTxs(r)
    BY <2>1, <2>2 DEF StockAdds
  <2>3. CASE stock[w].by \notin PhaseTxs(r)
    <3>1. clog'[stock[w].by] = clog[stock[w].by]
      BY <2>1, <2>3 DEF OthersKept
    <3>2. Latest(stock[w])' = Latest(stock[w])
      BY <3>1 DEF Latest, IsCommitted
    <3>3. ASSUME IsActive(stock[w].by)' PROVE \E q \in Requests : Holds(w, q)'
      <4>1. PICK q \in Requests : Holds(w, q)
        BY <2>1, <3>1, <3>3 DEF StockAdds, IsActive
      <4>2. q # r
        BY <2>3, <4>1 DEF Holds, PhaseTxs
      <4> QED BY <1>1, <4>1, <4>2
    <3> QED BY <2>1, <3>1, <3>2, <3>3 DEF StockAdds
  <2> QED BY <2>2, <2>3
<1> QED BY <1>1, <1>2 DEF StockIInv

LEMMA HoldingSame ==
  ASSUME SeenSame PROVE \A w \in Rewards : Holding(w)' = Holding(w)
BY DEF SeenSame, Holding

\* No transaction changes its fate, and no stock is taken or returned.
LEMMA StockQuiet ==
  ASSUME RedemptionIInv, StockIInv, NEW r \in Requests, OthersKept(r),
         UNCHANGED <<stock, clog>>, \A w \in Rewards : Holding(w)' = Holding(w),
         \/ req[r].at \in {"debit", "debiting"} /\ req'[r].at = "debiting" /\ SameRequest(r)
         \/ /\ req[r].at \notin {"debit", "debiting", "settled"}
            /\ \/ req'[r].at \notin {"debit", "debiting", "settled"}
               \/ SameRequest(r) /\ req[r].reward \notin Limited
         \/ UNCHANGED req
  PROVE  StockIInv'
<1>1. UnitHeld(r)
  BY DEF StockIInv
<1>2. UnitHeld(r)'
  BY <1>1 DEF UnitHeld, Holds, Held, Restored, Pursued, SameRequest
<1>3. ASSUME NEW w \in Limited, stock[w].by \in PhaseTxs(r)
      PROVE  /\ clog'[stock[w].by] # "new" /\ Latest(stock[w])' = Latest(stock[w])
             /\ IsActive(stock[w].by)' => Holds(w, r)'
  <2>1. clog[stock[w].by] # "new" /\ (IsActive(stock[w].by) => Holds(w, r))
    BY <1>3, HolderIsOwn DEF StockIInv, StockAdds
  <2>2. Holds(w, r) => Holds(w, r)'
    BY DEF Holds, Held, Restored, Pursued, SameRequest
  <2> QED BY <2>1, <2>2 DEF Latest, IsCommitted, IsActive
<1>4. \A w \in Limited : Holding(w)' = Holding(w)
  BY DEF Limited
<1> QED BY <1>2, <1>3, <1>4, StockKept

\* A transaction begins, is rolled back, or commits a replay.
LEMMA StockFated ==
  ASSUME RedemptionIInv, StockIInv, NEW r \in Requests, OthersKept(r), UNCHANGED stock,
         SeenSame, ~ Held(r)', ~ Restored(r)', NEW t \in PhaseTxs(r),
         \/ Begin(t) /\ ~ Held(r) /\ ~ Restored(r)
         \/ Abort(t) /\ (Held(r) => t = reserveTx(r)) /\ (Restored(r) => t = settleTx(r))
         \/ Commit(t) /\ ~ Held(r) /\ ~ Restored(r)
  PROVE  StockIInv'
<1>1. clog \in [Xids -> Fates] /\ t \in Xids
  BY TxTypes DEF RedemptionIInv, LedgerIInv, LedgerTypeOK, PhaseTxs
<1>2. ASSUME NEW w \in Limited, stock[w].by \in PhaseTxs(r)
      PROVE  /\ clog'[stock[w].by] # "new" /\ Latest(stock[w])' = Latest(stock[w])
             /\ ~ IsActive(stock[w].by)'
  <2>1. clog[stock[w].by] # "new" /\ (IsActive(stock[w].by) => Holds(w, r))
    BY <1>2, HolderIsOwn DEF StockIInv, StockAdds
  <2>2. stock[w].by \in Xids
    BY LimitedStock
  <2>3. IsActive(stock[w].by) => Abort(t) /\ stock[w].by = t
    BY <2>1 DEF Holds
  <2>4. CASE stock[w].by = t
    BY <1>1, <2>1, <2>3, <2>4 DEF Begin, Abort, Commit, Latest, IsCommitted, IsActive
  <2>5. CASE stock[w].by # t
    <3>1. clog'[stock[w].by] = clog[stock[w].by]
      BY <1>1, <2>2, <2>5 DEF Begin, Abort, Commit
    <3> QED BY <2>1, <2>3, <2>5, <3>1 DEF Latest, IsCommitted, IsActive
  <2> QED BY <2>4, <2>5
<1>3. \A w \in Limited : Holding(w)' = Holding(w)
  BY HoldingSame DEF Limited
<1>4. UnitHeld(r)'
  BY DEF UnitHeld
<1> QED BY <1>2, <1>3, <1>4, StockKept

\* A unit is taken, or returned: one row of stock is written under its lock.
LEMMA StockMoved ==
  ASSUME RedemptionIInv, StockIInv, NEW r \in Requests, OthersKept(r), UNCHANGED clog,
         SeenSame, SameRequest(r), Pursued(r), ~ Held(r), ~ Restored(r), StageFits(r)',
         NEW t, NEW w \in Limited, w = req[r].reward, NEW d \in {-1, 1},
         \/ t = reserveTx(r) /\ d = -1 /\ Held(r)'
         \/ t = settleTx(r) /\ d = 1 /\ Restored(r)',
         ~ Waits(t, stock[w]),
         stock' = [stock EXCEPT ![w] = Written(t, stock[w], View(t, stock[w]) + d)]
  PROVE  StockIInv'
<1>1. /\ stock[w] \in Cell(Nat) /\ stock \in [Rewards -> Cell(Nat \cup {Unlimited})]
      /\ w \in Rewards /\ t \in PhaseTxs(r) /\ Latest(stock[w]) \in Nat
  BY LimitedStock DEF Limited, PhaseTxs
<1>2. ASSUME NEW x \in Limited, stock[x].by \in PhaseTxs(r) PROVE ~ IsActive(stock[x].by)
  <2>1. IsActive(stock[x].by) => Holds(x, r)
    BY <1>2, HolderIsOwn
  <2> QED BY <2>1 DEF Holds
<1>3. IsActive(t)
  BY DEF StageFits, Held, Restored, Reserving, Settling, IsActive
<1>4. stock[w].by # t /\ ~ IsActive(stock[w].by)
  BY <1>1, <1>2, <1>3 DEF Waits
<1>5. /\ stock'[w].by = t /\ stock'[w].was = Latest(stock[w])
      /\ stock'[w].now = Latest(stock[w]) + d
      /\ \A x \in Limited \ {w} : stock'[x] = stock[x]
  BY <1>1, <1>4 DEF Written, Locked, View, Limited
<1>6. \A x \in Limited : Holding(x)' = Holding(x)
  BY HoldingSame DEF Limited
<1>7. Holds(w, r)' /\ UnitHeld(r)'
  <2>1. stock'[w].now = stock'[w].was + d
    BY <1>5
  <2>2. Holds(w, r)'
    BY <1>1, <1>5, <2>1 DEF Holds, SameRequest
  <2> QED BY <2>2 DEF UnitHeld, SameRequest
<1>8. StockAdds(w)'
  <2>1. Latest(stock[w])' = Latest(stock[w])
    BY <1>3, <1>5 DEF Latest, IsCommitted, IsActive
  <2> QED BY <1>3, <1>5, <1>6, <1>7, <2>1 DEF StockIInv, StockAdds, IsActive
<1>9. ASSUME NEW q \in Requests \ {r}
      PROVE  /\ req'[q] = req[q]
             /\ \A x \in Limited \ {w} : Holds(x, q)' = Holds(x, q)
             /\ ~ Holds(w, q)
  <2>1. req'[q] = req[q] /\ StageFits(q)
    BY DEF OthersKept, RedemptionIInv
  <2>2. ~ Holds(w, q)
    BY <1>4, <2>1 DEF Holds, StageFits, Held, Restored, Reserving, Settling, IsActive
  <2> QED BY <1>5, <2>1, <2>2 DEF Holds, Held, Restored, Pursued
<1>10. ASSUME NEW x \in Limited \ {w} PROVE StockAdds(x)'
  <2>1. StockAdds(x) /\ stock'[x] = stock[x] /\ ~ Holds(x, r)
    BY <1>5 DEF StockIInv, Holds
  <2>2. ASSUME IsActive(stock[x].by) PROVE \E q \in Requests : Holds(x, q)'
    <3>1. PICK q \in Requests : Holds(x, q)
      BY <2>1, <2>2 DEF StockAdds
    <3> QED BY <1>9, <2>1, <3>1
  <2> QED BY <1>6, <2>1, <2>2 DEF StockAdds, Latest, IsCommitted, IsActive
<1>11. ASSUME NEW q \in Requests \ {r} PROVE UnitHeld(q)'
  <2>1. UnitHeld(q)
    BY DEF StockIInv
  <2> QED BY <1>9, <2>1 DEF UnitHeld, Held, Restored
<1> QED BY <1>7, <1>8, <1>10, <1>11 DEF StockIInv

\* The redemption of r appears, is settled, or fails, as r's transaction commits.
LEMMA StockCommitted ==
  ASSUME RedemptionIInv, StockIInv, NEW r \in Requests, OthersKept(r), UNCHANGED stock,
         Pursued(r), SameRequest(r), ~ Held(r)', ~ Restored(r)', NEW t,
         \/ /\ SeenAs(r, Absent, Mine(r, "RESERVED"))
            /\ Held(r) /\ t = reserveTx(r) /\ Commit(t)
         \/ /\ SeenAs(r, Mine(r, "RESERVED"), Mine(r, "FAILED"))
            /\ Restored(r) /\ t = settleTx(r) /\ Commit(t)
  PROVE  StockIInv'
<1>1. clog \in [Xids -> Fates] /\ t \in Xids /\ t \in PhaseTxs(r) /\ RedemptionTypeOK
  BY TxTypes DEF RedemptionIInv, LedgerIInv, LedgerTypeOK, PhaseTxs
<1>2. /\ clog[t] = "active" /\ clog'[t] = "committed"
      /\ \A x \in Xids \ {t} : clog'[x] = clog[x]
  BY <1>1 DEF Commit, IsActive
<1>3. UnitHeld(r)'
  BY DEF UnitHeld
<1>4. PICK own \in Slots :
        /\ \A s \in Slots \ {own} : Seen(s)' = Seen(s)
        /\ \/ Seen(own) = Absent /\ Seen(own)' = Mine(r, "RESERVED") /\ Held(r)
           \/ Seen(own) = Mine(r, "RESERVED") /\ Seen(own)' = Mine(r, "FAILED") /\ Restored(r)
  BY DEF SeenAs
<1>5. /\ Mine(r, "RESERVED") # Absent /\ Mine(r, "RESERVED").reward = req[r].reward
      /\ Mine(r, "RESERVED").status = "RESERVED"
      /\ Mine(r, "FAILED").status = "FAILED" /\ Mine(r, "FAILED").reward = req[r].reward
  BY <1>1, MineTypes
<1>6. ASSUME NEW w \in Limited, w # req[r].reward PROVE Holding(w)' = Holding(w)
  BY <1>4, <1>5, <1>6 DEF Holding
<1>7. ASSUME NEW w \in Limited, stock[w].by = t PROVE w = req[r].reward
  BY <1>1, <1>2, <1>7, HolderIsOwn DEF Holds, IsActive
<1>8. ASSUME NEW w \in Limited, w # req[r].reward PROVE StockAdds(w)'
  <2>1. StockAdds(w) /\ stock[w].by \in Xids \ {t}
    BY <1>7, <1>8, LimitedStock DEF StockIInv
  <2>2. ASSUME IsActive(stock[w].by)' PROVE \E q \in Requests : Holds(w, q)'
    <3>1. PICK q \in Requests : Holds(w, q)
      BY <1>2, <2>1, <2>2 DEF StockAdds, IsActive
    <3>2. q # r
      BY <1>8, <3>1 DEF Holds
    <3> QED BY <3>1, <3>2 DEF OthersKept, Holds, Pursued, Held, Restored
  <2> QED BY <1>2, <1>6, <1>8, <2>1, <2>2 DEF StockAdds, Latest, IsCommitted, IsActive
<1>9. ASSUME NEW w \in Limited, w = req[r].reward PROVE StockAdds(w)'
  <2>1. StockAdds(w) /\ Holds(w, r)
    BY <1>4, <1>9 DEF StockIInv, UnitHeld
  <2>2. stock[w].by = t
    BY <2>1, TxTypes DEF Holds, Held, Restored
  <2>3. /\ Latest(stock[w]) = stock[w].was /\ Latest(stock[w])' = stock[w].now
        /\ clog'[stock[w].by] # "new" /\ ~ IsActive(stock[w].by)'
    BY <1>2, <2>2 DEF Latest, IsCommitted, IsActive
  <2>4. stock[w].was \in Nat /\ stock[w].now \in Nat /\ InitialStock[w] \in Nat
    BY LimitedStock DEF Cell
  <2>5. Cardinality(Holding(w)) \in Nat /\ IsFiniteSet(Holding(w))
    BY <2>1, FS_CardinalityType DEF StockAdds
  <2>6. CASE Held(r)
    <3>1. own \notin Holding(w) /\ Holding(w)' = Holding(w) \cup {own}
      BY <1>4, <1>5, <1>9, <2>6 DEF Holding, Held, Restored
    <3>2. IsFiniteSet(Holding(w)') /\ Cardinality(Holding(w)') = Cardinality(Holding(w)) + 1
      BY <2>5, <3>1, FS_AddElement
    <3>3. stock[w].now = stock[w].was - 1
      BY <2>1, <2>6 DEF Holds, Held, Restored
    <3> QED BY <2>1, <2>3, <2>4, <2>5, <3>2, <3>3 DEF StockAdds
  <2>7. CASE Restored(r)
    <3>1. own \in Holding(w) /\ Holding(w)' = Holding(w) \ {own}
      BY <1>4, <1>5, <1>9, <2>7 DEF Holding, Held, Restored
    <3>2. IsFiniteSet(Holding(w)') /\ Cardinality(Holding(w)') = Cardinality(Holding(w)) - 1
      BY <2>5, <3>1, FS_RemoveElement
    <3>3. stock[w].now = stock[w].was + 1
      BY <2>1, <2>7 DEF Holds, Held, Restored
    <3> QED BY <2>1, <2>3, <2>4, <2>5, <3>2, <3>3 DEF StockAdds
  <2> QED BY <1>4, <2>6, <2>7
<1>10. ASSUME NEW q \in Requests \ {r} PROVE UnitHeld(q)'
  <2>1. UnitHeld(q) /\ req'[q] = req[q]
    BY DEF StockIInv, OthersKept
  <2> QED BY <2>1 DEF UnitHeld, Holds, Pursued, Held, Restored
<1> QED BY <1>3, <1>8, <1>9, <1>10 DEF StockIInv

\* A step of r leaves the requests and the transactions of others alone.
LEMMA OthersAlone ==
  ASSUME RedemptionTypeOK, clog \in [Xids -> Fates], NEW r \in Requests,
         Serve(r) \/ Throw(r) \/ \E u \in Users, k \in IdemKeys, w \in Rewards : Arrive(r, u, k, w)
  PROVE  OthersKept(r)
<1>1. /\ DOMAIN req = Requests /\ DOMAIN answer = Requests
      /\ reserveTx(r) \in PhaseTxs(r) /\ settleTx(r) \in PhaseTxs(r) /\ txOf(r) \in PhaseTxs(r)
  BY DEF RedemptionTypeOK, PhaseTxs, txOf
<1>2. CASE \E u \in Users, k \in IdemKeys, w \in Rewards : Arrive(r, u, k, w)
  BY <1>1, <1>2 DEF Arrive, Open, Begin, OthersKept
<1>3. CASE Lookup(r) \/ ReadReward(r) \/ Claim(r) \/ Conflict(r) \/ Await(r)
  BY <1>1, <1>3 DEF Lookup, ReadReward, Claim, Conflict, Await, Goto, ledgerVars, OthersKept
<1>4. CASE Unavailable(r) \/ OutOfStock(r) \/ Insufficient(r) \/ Throw(r)
  BY <1>1, <1>4 DEF Unavailable, OutOfStock, Insufficient, Throw, CutOff, ConfirmUnheard,
                    MarkFulfilled, Fail, Refuse, Abort, Close, Commit, Answer, Goto, ledgerVars,
                    OthersKept
<1>5. CASE Replay(r) \/ Reserved(r) \/ Settle(r) \/ Unfulfilled(r)
  BY <1>1, <1>5 DEF Replay, Reserved, Settle, Unfulfilled, Close, Commit, Open, Begin,
                    Answer, Goto, OthersKept
<1>6. CASE LockUser(r) \/ Debit(r) \/ LedgerWork(r) \/ Refund(r)
  BY <1>1, <1>6 DEF LockUser, Debit, LedgerWork, Refund, LockAhead, AppendEntry, ReverseEntry,
                    Advance, Lock, Insert, Duplicate, Move, Goto, ownVars, OthersKept
<1>7. CASE TakeStock(r) \/ Restock(r) \/ Fulfilled(r) \/ Confirm(r) \/ Release(r)
  BY <1>1, <1>7 DEF TakeStock, Restock, Fulfilled, Confirm, MarkFulfilled, Release, Answer, Goto,
                    ledgerVars, OthersKept
<1> QED BY <1>2, <1>3, <1>4, <1>5, <1>6, <1>7 DEF Serve

LEMMA NothingSeen ==
  UNCHANGED <<redemptions, clog>> => SeenSame
BY DEF SeenSame, Seen, Latest, IsCommitted

\* Steps at the start or the end of a transaction that readers do not notice.
LEMMA FatedSeen ==
  ASSUME RedemptionIInv, NEW t \in Xids, Begin(t) \/ Abort(t), UNCHANGED redemptions
  PROVE  SeenSame
<1>1. ASSUME NEW s \in Slots PROVE redemptions[s].by \in Xids
  BY DEF RedemptionIInv, RedemptionTypeOK, Slots, Cell
<1> QED BY <1>1, BegunSeen, AbortedSeen DEF SeenSame, RedemptionIInv, LedgerIInv, LedgerTypeOK

LEMMA StockServed ==
  ASSUME RedemptionIInv, RedemptionIInv', StockIInv, NEW r \in Requests,
         Serve(r) \/ Throw(r) \/ \E u \in Users, k \in IdemKeys, w \in Rewards : Arrive(r, u, k, w)
  PROVE  StockIInv'
<1>1. /\ OthersKept(r) /\ RedemptionTypeOK /\ StageFits(r)'
      /\ reserveTx(r) \in PhaseTxs(r) /\ settleTx(r) \in PhaseTxs(r)
      /\ reserveTx(r) \in Xids /\ settleTx(r) \in Xids
      /\ DOMAIN req = Requests /\ txOf(r) \in {reserveTx(r), settleTx(r)}
      /\ req[r].at # "new" => req[r] \in Pursuits
  BY OthersAlone, TxTypes, ReqTypes
  DEF RedemptionIInv, RedemptionTypeOK, LedgerIInv, LedgerTypeOK, PhaseTxs, txOf, Pursued
<1>2. ASSUME NEW a \in Working \cup {"done"}, req' = [req EXCEPT ![r].at = a], Pursued(r)
      PROVE  req'[r].at = a /\ SameRequest(r)
  BY <1>1, <1>2, MovedReq, MovedIsSame
<1>3. CASE Lookup(r) \/ ReadReward(r) \/ Conflict(r) \/ LockUser(r) \/ Fulfilled(r) \/ Refund(r)
  <2>1. /\ UNCHANGED <<redemptions, stock, clog>> /\ req[r].at \notin {"debit", "debiting", "settled"}
        /\ req'[r].at \notin {"debit", "debiting", "settled"}
    BY <1>1, <1>3 DEF Lookup, ReadReward, Conflict, LockUser, Fulfilled, Refund, LockAhead,
                      ReverseEntry, AppendEntry, Goto, ledgerVars, Pursuits
  <2> QED BY <1>1, <2>1, NothingSeen, HoldingSame, StockQuiet
<1>4. CASE Claim(r) \/ Await(r) \/ Release(r)
  <2>1. /\ UNCHANGED <<stock, clog>> /\ req[r].at \notin {"debit", "debiting", "settled"}
        /\ req'[r].at \notin {"debit", "debiting", "settled"}
    BY <1>1, <1>4, ReleaseStep DEF Claim, Await, Release, Goto, ledgerVars, Pursuits
  <2>2. SeenSame
    BY <1>4, ClaimStep, AwaitStep, ReleaseStep
  <2> QED BY <1>1, <2>1, <2>2, HoldingSame, StockQuiet
<1>5. CASE Debit(r)
  <2>1. /\ UNCHANGED <<redemptions, stock, clog>> /\ req[r].at = "debit" /\ Pursued(r)
        /\ req' = [req EXCEPT ![r].at = "debiting"] /\ "debiting" \in Working
    BY <1>5 DEF Debit, AppendEntry, Goto, Pursued, Working, Reserving
  <2> QED BY <1>1, <1>2, <2>1, NothingSeen, HoldingSame, StockQuiet
<1>6. CASE LedgerWork(r)
  <2>1. UNCHANGED <<redemptions, stock, clog, req>>
    BY <1>6 DEF LedgerWork, Advance, Lock, Insert, Duplicate, Move, ownVars
  <2> QED BY <1>1, <2>1, NothingSeen, HoldingSame, StockQuiet
<1>7. CASE Confirm(r) \/ ConfirmUnheard(r)
  <2>1. /\ UNCHANGED <<stock, clog>> /\ req[r].at = "confirm" /\ req'[r].at = "done" /\ Pursued(r)
    <3>1. MarkFulfilled(r) /\ Goto(r, "done")
      BY <1>7 DEF Confirm, ConfirmUnheard, Answer
    <3> QED BY <1>1, <3>1 DEF MarkFulfilled, Goto, ledgerVars, Pursued
  <2>2. PICK own \in Slots : /\ Seen(own) = Mine(r, "RESERVED")
                             /\ Seen(own)' = Mine(r, "FULFILLED")
                             /\ \A s \in Slots \ {own} : Seen(s)' = Seen(s)
    BY <1>7, ConfirmStep DEF SeenAs
  <2>3. \A w \in Rewards : Holding(w)' = Holding(w)
    BY <1>1, <2>1, <2>2, MineTypes DEF Holding
  <2> QED BY <1>1, <2>1, <2>3, StockQuiet
<1>8. CASE Replay(r)
  <2>1. /\ UNCHANGED stock /\ req[r].at = "replay" /\ req'[r].at = "done"
        /\ Commit(reserveTx(r))
    BY <1>1, <1>8 DEF Replay, Close, Answer, Goto
  <2> QED BY <1>1, <1>8, <2>1, ReplayStep, StockFated DEF Held, Restored
<1>9. CASE Unfulfilled(r) \/ \E u \in Users, k \in IdemKeys, w \in Rewards : Arrive(r, u, k, w)
  <2>1. PICK t \in {reserveTx(r), settleTx(r)} : Begin(t)
    BY <1>9 DEF Unfulfilled, Arrive, Open
  <2>2. /\ UNCHANGED <<redemptions, stock>> /\ req[r].at \in {"new", "fulfil"}
        /\ req'[r].at \in {"lookup", "release"}
    <3>1. CASE Unfulfilled(r)
      BY <1>1, <3>1 DEF Unfulfilled, Goto, Pursuits
    <3>2. CASE \E u \in Users, k \in IdemKeys, w \in Rewards : Arrive(r, u, k, w)
      BY <1>1, <3>2 DEF Arrive
    <3> QED BY <1>9, <3>1, <3>2
  <2>3. SeenSame
    BY <1>1, <2>1, <2>2, FatedSeen
  <2> QED BY <1>1, <2>1, <2>2, <2>3, StockFated DEF Held, Restored
<1>10. CASE Reserved(r)
  <2>1. /\ UNCHANGED stock /\ req[r].at = "debiting" /\ Pursued(r) /\ Commit(reserveTx(r))
        /\ req' = [req EXCEPT ![r].at = "fulfil"] /\ "fulfil" \in Working
    BY <1>10 DEF Reserved, Close, Goto, Pursued, Working
  <2>2. SeenAs(r, Absent, Mine(r, "RESERVED"))
    BY <1>10, ReservedStep
  <2>3. req'[r].at = "fulfil" /\ SameRequest(r)
    BY <1>2, <2>1
  <2>4. Held(r) /\ ~ Held(r)' /\ ~ Restored(r)'
    BY <2>1, <2>3 DEF Held, Restored
  <2> QED BY <1>1, <2>1, <2>2, <2>3, <2>4, StockCommitted
<1>11. ASSUME Commit(settleTx(r)), req[r].at = "settled", UNCHANGED <<redemptions, stock>>,
              NEW x, NEW of, Answer(r, x, of),
              <<x, of>> \in {<<"FAILED", r>>, <<"error", Absent>>}
       PROVE  StockIInv'
  <2>1. SeenAs(r, Mine(r, "RESERVED"), Mine(r, "FAILED"))
    BY <1>11, SettledStep
  <2>2. Pursued(r) /\ req' = [req EXCEPT ![r].at = "done"]
    BY <1>11 DEF Pursued, Answer, Goto
  <2>3. req'[r].at = "done" /\ SameRequest(r)
    BY <1>2, <2>2
  <2>4. Restored(r) /\ ~ Held(r)' /\ ~ Restored(r)'
    BY <1>11, <2>3 DEF Held, Restored
  <2> QED BY <1>1, <1>11, <2>1, <2>2, <2>3, <2>4, StockCommitted
<1>12. CASE Settle(r)
  BY <1>11, <1>12 DEF Settle, Close
<1>13. ASSUME Abort(txOf(r)), req[r].at \in Working, req'[r].at = "done",
              UNCHANGED <<redemptions, stock>>
       PROVE  StockIInv'
  <2>1. SeenSame
    BY <1>1, <1>13, FatedSeen
  <2>2. /\ Held(r) => txOf(r) = reserveTx(r)
        /\ Restored(r) => txOf(r) = settleTx(r)
        /\ txOf(r) \in PhaseTxs(r) /\ ~ Held(r)' /\ ~ Restored(r)'
    BY <1>1, <1>13 DEF txOf, Held, Restored, Reserving
  <2> QED BY <1>1, <1>13, <2>1, <2>2, StockFated
<1>14. CASE Unavailable(r) \/ OutOfStock(r) \/ Insufficient(r)
  <2>1. /\ Abort(reserveTx(r)) /\ UNCHANGED <<redemptions, stock>> /\ req'[r].at = "done"
        /\ req[r].at \in {"reward", "stock", "debiting"}
    BY <1>1, <1>14 DEF Unavailable, OutOfStock, Insufficient, Fail, Refuse, Answer, Goto,
                       Pursuits
  <2>2. req[r].at \in Working /\ txOf(r) = reserveTx(r)
    BY <2>1 DEF Working, Reserving, txOf
  <2> QED BY <1>13, <2>1, <2>2
<1>15. CASE CutOff(r)
  <2>1. /\ req[r].at \in Working /\ Answer(r, "error", Absent) /\ req'[r].at = "done"
        /\ UNCHANGED <<redemptions, stock>>
    BY <1>1, <1>15 DEF CutOff, Answer, Goto
  <2>2. CASE req[r].at \in {"fulfil", "confirm"} /\ UNCHANGED ledgerVars
    <3>1. UNCHANGED clog
      BY <2>2 DEF ledgerVars
    <3> QED BY <1>1, <2>1, <2>2, <3>1, NothingSeen, HoldingSame, StockQuiet
  <2>3. CASE Fail(txOf(r))
    BY <1>13, <2>1, <2>3 DEF Fail
  <2>4. CASE req[r].at = "settled" /\ Close(settleTx(r))
    BY <1>11, <2>1, <2>4 DEF Close
  <2> QED BY <1>15, <2>2, <2>3, <2>4 DEF CutOff
<1>16. ASSUME NEW t, NEW d \in {-1, 1}, NEW a \in {"debit", "settled"}, NEW w \in Rewards,
              w = req[r].reward, UNCHANGED <<redemptions, clog>>, Pursued(r),
              req[r].at \in {"stock", "refunding"}, req' = [req EXCEPT ![r].at = a],
              \/ t = reserveTx(r) /\ d = -1 /\ a = "debit"
              \/ t = settleTx(r) /\ d = 1 /\ a = "settled",
              IF w \in Limited
              THEN /\ ~ Waits(t, stock[w])
                   /\ stock' = [stock EXCEPT ![w] = Written(t, stock[w], View(t, stock[w]) + d)]
              ELSE UNCHANGED stock
       PROVE  StockIInv'
  <2>1. req'[r].at = a /\ SameRequest(r) /\ SeenSame
    BY <1>2, <1>16, NothingSeen DEF Working, Reserving, Settling
  <2>2. ~ Held(r) /\ ~ Restored(r) /\ (a = "debit" => Held(r)') /\ (a = "settled" => Restored(r)')
    BY <1>16, <2>1 DEF Held, Restored
  <2>3. CASE w \in Limited
    BY <1>1, <1>16, <2>1, <2>2, <2>3, StockMoved
  <2>4. CASE w \notin Limited
    BY <1>1, <1>16, <2>1, <2>4, HoldingSame, StockQuiet
  <2> QED BY <2>3, <2>4
<1>17. CASE TakeStock(r)
  <2>1. Pursued(r) /\ req[r].at = "stock" /\ UNCHANGED <<redemptions, clog>>
        /\ req' = [req EXCEPT ![r].at = "debit"]
    BY <1>17 DEF TakeStock, Goto, ledgerVars, Pursued
  <2>2. PICK w \in Rewards : w = req[r].reward
    BY <1>1, <2>1, ReqTypes
  <2>3. CASE w \in Limited
    <3>1. /\ ~ Waits(reserveTx(r), stock[w])
          /\ stock' = [stock EXCEPT ![w] = Written(reserveTx(r), stock[w],
                                                   View(reserveTx(r), stock[w]) - 1)]
      BY <1>17, <2>2, <2>3 DEF TakeStock, Limited
    <3>2. View(reserveTx(r), stock[w]) - 1 = View(reserveTx(r), stock[w]) + (-1)
      BY <2>3, LimitedStock DEF View, Cell
    <3> QED BY <1>16, <2>1, <2>2, <2>3, <3>1, <3>2
  <2>4. CASE w \notin Limited
    <3>1. UNCHANGED stock
      BY <1>17, <2>2, <2>4 DEF TakeStock, Limited
    <3> QED BY <1>16, <2>1, <2>2, <2>4, <3>1
  <2> QED BY <2>3, <2>4
<1>18. CASE Restock(r)
  <2>1. Pursued(r) /\ req[r].at = "refunding" /\ UNCHANGED <<redemptions, clog>>
        /\ req' = [req EXCEPT ![r].at = "settled"]
    BY <1>18 DEF Restock, Goto, ledgerVars, Pursued
  <2>2. PICK w \in Rewards : w = req[r].reward
    BY <1>1, <2>1, ReqTypes
  <2>3. CASE w \in Limited
    <3>1. /\ ~ Waits(settleTx(r), stock[w])
          /\ stock' = [stock EXCEPT ![w] = Written(settleTx(r), stock[w],
                                                   View(settleTx(r), stock[w]) + 1)]
      BY <1>18, <2>2, <2>3 DEF Restock, Limited
    <3> QED BY <1>16, <2>1, <2>2, <2>3, <3>1
  <2>4. CASE w \notin Limited
    <3>1. UNCHANGED stock
      BY <1>18, <2>2, <2>4 DEF Restock, Limited
    <3> QED BY <1>16, <2>1, <2>2, <2>4, <3>1
  <2> QED BY <2>3, <2>4
<1> QED BY <1>3, <1>4, <1>5, <1>6, <1>7, <1>8, <1>9, <1>10, <1>12, <1>14, <1>15, <1>17, <1>18
        DEF Serve, Throw

LEMMA StockInitInv == RedemptionInit => StockIInv
<1> SUFFICES ASSUME RedemptionInit PROVE StockIInv
  OBVIOUS
<1>1. /\ \A s \in Slots : redemptions[s] = Loaded(Absent)
      /\ \A w \in Rewards : stock[w] = Loaded(InitialStock[w])
      /\ \A r \in Requests : req[r].at = "new"
  BY DEF RedemptionInit, Slots
<1>2. clog[Setup] = "committed"
  BY DEF RedemptionInit, LedgerInit, PgInit, Xids
<1>3. ASSUME NEW w \in Limited PROVE StockAdds(w)
  <2>1. InitialStock[w] \in Nat /\ stock[w] = Loaded(InitialStock[w])
    BY <1>1, StockIsACount DEF Limited
  <2>2. \A s \in Slots : Seen(s) = Absent
    BY <1>1 DEF Seen, Latest, Loaded
  <2>3. Holding(w) = {}
    BY <2>2 DEF Holding
  <2>4. IsFiniteSet(Holding(w)) /\ Cardinality(Holding(w)) = 0
    BY <2>3, FS_EmptySet
  <2> QED BY <1>2, <2>1, <2>4 DEF StockAdds, Latest, IsActive, Loaded
<1>4. \A r \in Requests : UnitHeld(r)
  BY <1>1 DEF UnitHeld, Held, Restored
<1> QED BY <1>3, <1>4 DEF StockIInv

\* Nothing that stock rests on moves.
LEMMA StockIdle ==
  ASSUME StockIInv, UNCHANGED <<redemptions, stock, req, clog>>
  PROVE  StockIInv'
<1>1. \A w \in Rewards : Holding(w)' = Holding(w)
  BY NothingSeen, HoldingSame
<1> QED BY <1>1 DEF StockIInv, StockAdds, UnitHeld, Holds, Held, Restored, Pursued, Latest,
                    IsCommitted, IsActive, Limited

LEMMA StockNextInv ==
  RedemptionIInv /\ StockIInv /\ [RedemptionNext]_redemptionVars => StockIInv'
<1> SUFFICES ASSUME RedemptionIInv, StockIInv, [RedemptionNext]_redemptionVars PROVE StockIInv'
  OBVIOUS
<1>1. RedemptionIInv'
  BY RedemptionNextInv
<1>2. CASE UNCHANGED redemptionVars \/ \E w \in Rewards : Deactivate(w)
  <2>1. UNCHANGED <<redemptions, stock, req, clog>>
    BY <1>2 DEF redemptionVars, ownVars, ledgerVars, Deactivate
  <2> QED BY <2>1, StockIdle
<1>3. ASSUME NEW r \in Requests,
             \/ Serve(r) \/ Throw(r)
             \/ \E u \in Users, k \in IdemKeys, w \in Rewards : Arrive(r, u, k, w)
      PROVE  StockIInv'
  BY <1>1, <1>3, StockServed
<1> QED BY <1>2, <1>3 DEF RedemptionNext

-----------------------------------------------------------------------------
(* Points. A request writes one entry with its reservation and one with its   *)
(* compensation, and the record says which of them are in force.              *)

Own(t) == {i \in Ids : rows[i].by = t}
DebitId(r) == call[reserveTx(r)].id
DebitOf(r) == [user |-> req[r].user, delta |-> -Cost[req[r].reward],
               key |-> NoKey, reverses |-> NoEntry]
RefundOf(r) == [user |-> req[r].user, delta |-> Cost[req[r].reward],
                key |-> ReversalKey(DebitId(r)), reverses |-> DebitId(r)]

\* The one entry of transaction t is the one it was asked for.
Wrote(t, in) == LET i == call[t].id IN
  /\ i \in Ids /\ Own(t) = {i}
  /\ rows[i].user = in.user /\ rows[i].delta = in.delta
  /\ rows[i].key = in.key /\ rows[i].reverses = in.reverses
Appending(t, in) ==
  /\ call[t].at \in {"lock", "claim", "move", "done"}
  /\ call[t].at \in {"lock", "claim"} => call[t].in = in /\ Own(t) = {}
  /\ call[t].at \in {"move", "done"} => Wrote(t, in)

Debiting(r) == Appending(reserveTx(r), DebitOf(r))
Debited(r) == Wrote(reserveTx(r), DebitOf(r))
Refunding(r) == Appending(settleTx(r), RefundOf(r))
Refunded(r) == Wrote(settleTx(r), RefundOf(r))

HasRecord(r) == \E s \in Slots : Seen(s) # Absent /\ Seen(s).of = r
StatusFits(r) ==
  \A s \in Slots : Seen(s) # Absent /\ Seen(s).of = r =>
    (Seen(s).status = "FAILED" <=> clog[settleTx(r)] = "committed")

EntryFits(r) ==
  LET R == reserveTx(r)  S == settleTx(r)  at == req[r].at IN
  /\ clog[R] \in {"new", "active"} /\ at # "debiting" =>
       Own(R) = {} /\ call[R].at \in {"idle", "ahead"}
  /\ at = "debiting" => Debiting(r)
  /\ clog[R] = "committed" => IF HasRecord(r) THEN Debited(r) ELSE Own(R) = {}
  /\ clog[S] # "new" => HasRecord(r) /\ clog[R] = "committed"
  /\ clog[S] = "new" \/ at \in {"release", "refund"} => Own(S) = {} /\ call[S].at = "idle"
  /\ at = "refunding" => Refunding(r)
  /\ at = "settled" \/ clog[S] = "committed" => Refunded(r)
  /\ StatusFits(r)

\* Only the transactions of requests reverse what a request debits.
DebitsAreOwn ==
  \A i \in Ids : LET o == rows[i].reverses IN
    o \in Ids /\ (\E q \in Requests : rows[o].by = reserveTx(q)) =>
      \E r \in Requests : rows[i].by \in PhaseTxs(r)
EntriesIInv == DebitsAreOwn /\ \A r \in Requests : EntryFits(r)

\* Transaction t is the only one whose call moves, and what is appended is its own.
LedgerTouch(t) ==
  /\ \A x \in Tx \ {t} : call'[x] = call[x]
  /\ \A i \in Ids : i \in Ids' /\ rows'[i] = rows[i]
  /\ \A i \in Ids' \ Ids : rows'[i].by = t

LEMMA OwnKept ==
  ASSUME NEW t, LedgerTouch(t), NEW x, x # t
  PROVE  Own(x)' = Own(x)
BY DEF LedgerTouch, Own

LEMMA NothingAppended ==
  ASSUME NEW t, UNCHANGED <<rows, call>>
  PROVE  LedgerTouch(t) /\ \A x : Own(x)' = Own(x)
BY DEF LedgerTouch, Ids, Own

\* What readers see of other requests.
LEMMA OtherRecords ==
  ASSUME NEW r \in Requests, \A s \in Slots : SeenKept(r, s), NEW q \in Requests \ {r},
         clog'[settleTx(q)] = clog[settleTx(q)]
  PROVE  HasRecord(q)' = HasRecord(q) /\ (StatusFits(q) => StatusFits(q)')
<1>1. ASSUME NEW s \in Slots
      PROVE  (Seen(s)' # Absent /\ Seen(s)'.of = q) <=> (Seen(s) # Absent /\ Seen(s).of = q)
  BY DEF SeenKept
<1>2. ASSUME NEW s \in Slots, Seen(s)' # Absent, Seen(s)'.of = q PROVE Seen(s)' = Seen(s)
  BY <1>2 DEF SeenKept
<1>3. HasRecord(q)' = HasRecord(q)
  BY <1>1 DEF HasRecord
<1>4. ASSUME StatusFits(q) PROVE StatusFits(q)'
  BY <1>1, <1>2, <1>4 DEF StatusFits
<1> QED BY <1>3, <1>4

\* A step of a transaction that is not q's.
LEMMA EntriesUntouched ==
  ASSUME NEW q \in Requests, EntryFits(q), NEW t, LedgerTouch(t), t \notin PhaseTxs(q),
         req'[q] = req[q], \A x \in PhaseTxs(q) : clog'[x] = clog[x],
         HasRecord(q)' = HasRecord(q), StatusFits(q) => StatusFits(q)'
  PROVE  EntryFits(q)'
<1>1. PICK R \in Tx, S \in Tx : R = reserveTx(q) /\ S = settleTx(q) /\ R # t /\ S # t
  BY TxTypes DEF PhaseTxs
<1>2. EntryFits(q) /\ req'[q] = req[q] /\ clog'[R] = clog[R] /\ clog'[S] = clog[S]
  BY <1>1 DEF PhaseTxs
<1>3. /\ call'[R] = call[R] /\ call'[S] = call[S] /\ Own(R)' = Own(R) /\ Own(S)' = Own(S)
      /\ \A i \in Ids : i \in Ids' /\ rows'[i] = rows[i]
  BY <1>1, OwnKept DEF LedgerTouch
<1>4. HasRecord(q)' = HasRecord(q) /\ (StatusFits(q) => StatusFits(q)')
  OBVIOUS
<1>5. (Debited(q) => Debited(q)') /\ (Refunded(q) => Refunded(q)')
  BY <1>1, <1>2, <1>3 DEF Debited, Refunded, Wrote, DebitOf, RefundOf, DebitId
<1>6. (Debiting(q) => Debiting(q)') /\ (Refunding(q) => Refunding(q)')
  BY <1>1, <1>2, <1>3
  DEF Debiting, Refunding, Appending, Wrote, DebitOf, RefundOf, DebitId
<1> QED BY <1>1, <1>2, <1>3, <1>4, <1>5, <1>6 DEF EntryFits

LEMMA EntriesOfOthers ==
  ASSUME EntriesIInv, NEW r \in Requests, OthersKept(r), \A s \in Slots : SeenKept(r, s),
         NEW t \in PhaseTxs(r), LedgerTouch(t), NEW q \in Requests \ {r}
  PROVE  EntryFits(q)'
<1>1. t \notin PhaseTxs(q)
  BY TxTypes DEF PhaseTxs
<1>2. EntryFits(q) /\ req'[q] = req[q] /\ \A x \in PhaseTxs(q) : clog'[x] = clog[x]
  BY TxTypes DEF EntriesIInv, OthersKept, PhaseTxs
<1>3. HasRecord(q)' = HasRecord(q) /\ (StatusFits(q) => StatusFits(q)')
  BY <1>2, OtherRecords DEF PhaseTxs
<1> QED BY <1>1, <1>2, <1>3, EntriesUntouched

LEMMA ReversesAnId ==
  ASSUME LedgerIInv, NEW i \in Ids
  PROVE  rows[i].reverses = NoEntry \/ rows[i].reverses \in Ids
BY DEF LedgerIInv, ReversalsSeen, ReversesSeen

LEMMA EntriesKept ==
  ASSUME LedgerIInv, EntriesIInv, NEW r \in Requests, OthersKept(r), \A s \in Slots : SeenKept(r, s),
         NEW t \in PhaseTxs(r), LedgerTouch(t), EntryFits(r)'
  PROVE  EntriesIInv'
<1>1. \A q \in Requests \ {r} : EntryFits(q)'
  BY EntriesOfOthers
<1>2. DebitsAreOwn'
  <2> SUFFICES ASSUME NEW i \in Ids', NEW o, o = rows'[i].reverses, o \in Ids',
                      NEW q \in Requests, rows'[o].by = reserveTx(q)
               PROVE  \E p \in Requests : rows'[i].by \in PhaseTxs(p)
    BY DEF DebitsAreOwn
  <2>1. CASE i \in Ids
    <3>1. rows'[i] = rows[i] /\ o \in Ids /\ rows'[o] = rows[o]
      BY <2>1, ReversesAnId, NoEntryIsNoId DEF LedgerTouch, Ids
    <3> QED BY <2>1, <3>1 DEF EntriesIInv, DebitsAreOwn
  <2>2. CASE i \notin Ids
    BY <2>2 DEF LedgerTouch
  <2> QED BY <2>1, <2>2
<1> QED BY <1>1, <1>2 DEF EntriesIInv

\* A step of r that moves no points: what r wrote is what it wrote before.
LEMMA EntriesQuiet ==
  ASSUME NEW r \in Requests, UNCHANGED <<rows, call>>,
         req'[r].user = req[r].user, req'[r].reward = req[r].reward
  PROVE  /\ Own(reserveTx(r))' = Own(reserveTx(r)) /\ Own(settleTx(r))' = Own(settleTx(r))
         /\ Debited(r)' = Debited(r) /\ Refunded(r)' = Refunded(r)
<1>1. \A t : Own(t)' = Own(t)
  BY NothingAppended
<1>2. Debited(r)' = Debited(r)
  BY <1>1 DEF Debited, Wrote, DebitOf, Ids
<1>3. Refunded(r)' = Refunded(r)
  BY <1>1 DEF Refunded, Wrote, RefundOf, DebitId, Ids
<1> QED BY <1>1, <1>2, <1>3

\* What readers see, before and after.
LEMMA SeenKeepsAll ==
  ASSUME RedemptionTypeOK, NEW r \in Requests, Pursued(r),
         \/ SeenSame \/ SeenAs(r, Absent, Mine(r, "RESERVED"))
         \/ SeenAs(r, Mine(r, "RESERVED"), Mine(r, "FULFILLED"))
         \/ SeenAs(r, Mine(r, "RESERVED"), Mine(r, "FAILED"))
  PROVE  \A s \in Slots : SeenKept(r, s)
BY MineTypes DEF SeenSame, SeenAs, SeenKept

LEMMA SameRecord ==
  ASSUME SeenSame, NEW r \in Requests
  PROVE  /\ HasRecord(r)' = HasRecord(r)
         /\ (clog'[settleTx(r)] = "committed" <=> clog[settleTx(r)] = "committed")
              => StatusFits(r)' = StatusFits(r)
BY DEF SeenSame, HasRecord, StatusFits

LEMMA RecordIsCommitted ==
  ASSUME RedemptionIInv, NEW r \in Requests, HasRecord(r)
  PROVE  clog[reserveTx(r)] = "committed" /\ Pursued(r)
BY DEF RedemptionIInv, RowFits, Recorded, HasRecord

\* The record of r has just become that of its slot.
LEMMA NewRecord ==
  ASSUME RedemptionIInv', NEW r \in Requests, Pursued(r), RedemptionTypeOK,
         NEW old, NEW x \in {"RESERVED", "FULFILLED", "FAILED"},
         SeenAs(r, old, Mine(r, x)), SameRequest(r),
         clog'[settleTx(r)] = "committed" <=> x = "FAILED"
  PROVE  HasRecord(r)' /\ StatusFits(r)'
<1>1. PICK own \in Slots : own = Slot(r) /\ Seen(own)' = Mine(r, x)
  BY DEF SeenAs
<1>2. Seen(own)' # Absent /\ Seen(own)'.of = r /\ Seen(own)'.status = x
  BY <1>1, MineTypes
<1>3. \A s \in Slots : Seen(s)' # Absent /\ Seen(s)'.of = r => s = own
  BY <1>1 DEF RedemptionIInv, RowFits, Recorded, SameRequest
<1>4. HasRecord(r)'
  BY <1>2 DEF HasRecord
<1>5. StatusFits(r)'
  BY <1>2, <1>3 DEF StatusFits
<1> QED BY <1>4, <1>5

-----------------------------------------------------------------------------
(* The ledger's own statements append what was asked for, once.              *)

\* Transaction t found the key of what it was asked for taken, and wrote nothing.
FoundTaken(t, in) ==
  /\ call[t].at = "claim" /\ call'[t].at = "done" /\ call'[t].id \in Holders(in.key)
  /\ UNCHANGED rows

LEMMA AppendingAdvance ==
  ASSUME LedgerIInv, NEW t \in Tx, NEW in, Appending(t, in), Advance(t)
  PROVE  LedgerTouch(t) /\ (Appending(t, in)' \/ FoundTaken(t, in))
<1>1. /\ rows \in Seq(Row) /\ call \in [Tx -> CallState] /\ Ids = 1 .. Len(rows)
      /\ Len(rows) \in Nat
  BY DEF LedgerIInv, LedgerTypeOK, Ids
<1>2. CASE Lock(t)
  <2>1. UNCHANGED rows /\ call[t].at = "lock" /\ call[t].in = in /\ Own(t) = {}
    BY <1>2 DEF Lock, Appending
  <2>2. call'[t].at = "claim" /\ call'[t].in = in /\ \A x \in Tx \ {t} : call'[x] = call[x]
    BY <1>1, <1>2, <2>1 DEF Lock
  <2> QED BY <2>1, <2>2 DEF Appending, LedgerTouch, Own, Ids
<1>3. CASE Insert(t)
  <2> DEFINE n == Len(rows) + 1
             row == [user |-> in.user, delta |-> in.delta, key |-> in.key,
                     reverses |-> in.reverses, by |-> t]
  <2>1. call[t].at = "claim" /\ call[t].in = in /\ Own(t) = {}
    BY <1>3 DEF Insert, Appending
  <2>2. /\ rows' = Append(rows, row) /\ call'[t].at = "move" /\ call'[t].id = n
        /\ \A x \in Tx \ {t} : call'[x] = call[x]
    BY <1>1, <1>3, <2>1 DEF Insert
  <2>3. /\ Ids' = Ids \cup {n} /\ rows'[n] = row /\ n \notin Ids
        /\ \A i \in Ids : rows'[i] = rows[i]
    BY <1>1, <2>2 DEF Ids
  <2>4. Own(t)' = {n}
    BY <2>1, <2>3 DEF Own
  <2>5. /\ rows'[n].by = t /\ rows'[n].user = in.user /\ rows'[n].delta = in.delta
        /\ rows'[n].key = in.key /\ rows'[n].reverses = in.reverses
    BY <2>3
  <2> HIDE DEF n, row
  <2>6. Wrote(t, in)'
    BY <2>2, <2>3, <2>4, <2>5 DEF Wrote
  <2>7. LedgerTouch(t)
    BY <2>2, <2>3, <2>5 DEF LedgerTouch
  <2> QED BY <2>2, <2>6, <2>7 DEF Appending
<1>4. CASE Duplicate(t)
  <2>1. /\ call[t].at = "claim" /\ call[t].in = in /\ UNCHANGED rows
        /\ \E i \in Holders(in.key) :
             call' = [call EXCEPT ![t] = [at |-> "done", made |-> @.made,
                                          id |-> i, duplicate |-> TRUE]]
    BY <1>4 DEF Duplicate, Appending
  <2>2. FoundTaken(t, in) /\ \A x \in Tx \ {t} : call'[x] = call[x]
    BY <1>1, <2>1 DEF FoundTaken
  <2> QED BY <2>1, <2>2 DEF LedgerTouch, Ids
<1>5. CASE Move(t)
  <2>1. UNCHANGED rows /\ call[t].at = "move" /\ Wrote(t, in)
    BY <1>5 DEF Move, Appending
  <2>2. /\ call'[t].at = "done" /\ call'[t].id = call[t].id
        /\ \A x \in Tx \ {t} : call'[x] = call[x]
    BY <1>1, <1>5, <2>1 DEF Move
  <2> QED BY <2>1, <2>2 DEF Appending, Wrote, LedgerTouch, Own, Ids
<1> QED BY <1>2, <1>3, <1>4, <1>5 DEF Advance

\* A debit is reversed by its own request or by nobody.
LEMMA NoReversalYet ==
  ASSUME RedemptionIInv, EntriesIInv, NEW r \in Requests, req[r].at = "refunding",
         call[settleTx(r)].at = "claim"
  PROVE  Holders(ReversalKey(DebitId(r))) = {}
<1>1. /\ LedgerIInv /\ \A q \in Requests : EntryFits(q) /\ StageFits(q)
      /\ \A q \in Requests : Pursued(q) => req[q] \in Pursuits
  BY ReqTypes DEF RedemptionIInv, EntriesIInv
<1>2. ASSUME NEW q \in Requests, clog[settleTx(q)] # "new"
      PROVE  DebitId(q) \in Ids /\ rows[DebitId(q)].by = reserveTx(q)
  <2>1. Debited(q)
    BY <1>1, <1>2 DEF EntryFits
  <2> QED BY <2>1 DEF Debited, Wrote, DebitId, Own
<1>3. clog[settleTx(r)] = "active" /\ Own(settleTx(r)) = {}
  <2>1. Refunding(r)
    BY <1>1 DEF EntryFits
  <2> QED BY <1>1, <2>1 DEF StageFits, Settling, Refunding, Appending
<1> SUFFICES ASSUME NEW j \in Holders(ReversalKey(DebitId(r))) PROVE FALSE
  OBVIOUS
<1>4. /\ j \in Ids /\ rows[j].key = ReversalKey(DebitId(r)) /\ DebitId(r) \in Ids
      /\ clog[rows[j].by] \in {"active", "committed"}
  BY <1>2, <1>3 DEF Holders
<1>5. rows[j].reverses = DebitId(r)
  <2>1. ReversesSeen(rows[j], rows[j].by) /\ DebitId(r) \in Nat
    BY <1>1, <1>4 DEF LedgerIInv, ReversalsSeen, Ids
  <2>2. ReversalKey(DebitId(r)) \notin EventKeys \cup {NoKey}
    BY <2>1, EventKeysAreNotReversals DEF ReversalKey
  <2> QED BY <1>4, <2>1, <2>2 DEF ReversesSeen, ReversalKey
<1>6. DebitId(r) # NoEntry
  BY <1>4, NoEntryIsNoId DEF Ids
<1>7. PICK q \in Requests : rows[j].by \in PhaseTxs(q)
  BY <1>2, <1>3, <1>4, <1>5 DEF EntriesIInv, DebitsAreOwn
<1>8. CASE rows[j].by = reserveTx(q)
  <2>1. j \in Own(reserveTx(q))
    BY <1>4, <1>8 DEF Own
  <2>2. (Debiting(q) /\ Own(reserveTx(q)) # {}) \/ Debited(q)
    BY <1>1, <1>4, <1>8, <2>1 DEF EntryFits
  <2>3. Debited(q)
    BY <2>2 DEF Debiting, Debited, Appending
  <2> QED BY <1>5, <1>6, <2>1, <2>3 DEF Debited, Wrote, DebitOf
<1>9. CASE rows[j].by = settleTx(q)
  <2>1. j \in Own(settleTx(q))
    BY <1>4, <1>9 DEF Own
  <2>2. Refunding(q) \/ Refunded(q)
    <3>1. CASE clog[settleTx(q)] = "committed"
      BY <1>1, <3>1 DEF EntryFits
    <3>2. CASE clog[settleTx(q)] = "active"
      <4>1. req[q].at \in Settling
        BY <1>1, <3>2 DEF StageFits, Pursued, Pursuits, Working
      <4> QED BY <1>1, <2>1, <4>1 DEF EntryFits, Settling
    <3> QED BY <1>4, <1>9, <3>1, <3>2
  <2>3. Refunded(q)
    BY <2>1, <2>2 DEF Refunding, Refunded, Appending
  <2>4. rows[j].reverses = DebitId(q)
    BY <2>1, <2>3 DEF Refunded, Wrote, RefundOf
  <2>5. rows[DebitId(r)].by = reserveTx(q)
    BY <1>2, <1>4, <1>5, <1>9, <2>4
  <2>6. q = r
    BY <1>2, <1>3, <2>5, TxTypes
  <2> QED BY <1>3, <2>1, <2>6
<1> QED BY <1>7, <1>8, <1>9 DEF PhaseTxs

-----------------------------------------------------------------------------
(* Each step of a request keeps what its entries say.                        *)

\* A step that moves no points, begins and ends nothing.
LEMMA UnmovedFit ==
  ASSUME EntriesIInv, NEW r \in Requests, UNCHANGED <<rows, call, clog>>,
         req'[r].user = req[r].user, req'[r].reward = req[r].reward,
         req[r].at # "debiting", req'[r].at \notin {"debiting", "refunding", "settled"},
         req'[r].at \in {"release", "refund"} => req[r].at \in {"release", "refund"},
         HasRecord(r)' = HasRecord(r), StatusFits(r)'
  PROVE  EntryFits(r)'
BY EntriesQuiet DEF EntriesIInv, EntryFits

LEMMA EntriesServed ==
  ASSUME RedemptionIInv, RedemptionIInv', EntriesIInv, NEW r \in Requests,
         Serve(r) \/ Throw(r) \/ \E u \in Users, k \in IdemKeys, w \in Rewards : Arrive(r, u, k, w)
  PROVE  EntriesIInv'
<1> DEFINE R == reserveTx(r)
           S == settleTx(r)
           Quiet == UNCHANGED <<rows, call>> /\ SeenSame
<1>1. /\ OthersKept(r) /\ RedemptionTypeOK /\ StageFits(r) /\ StageFits(r)' /\ EntryFits(r)
      /\ R \in PhaseTxs(r) /\ S \in PhaseTxs(r) /\ R \in Tx /\ S \in Tx /\ R # S
      /\ DOMAIN req = Requests /\ txOf(r) \in {R, S} /\ LedgerIInv
      /\ clog \in [Xids -> Fates] /\ R \in Xids /\ S \in Xids
      /\ req[r].at # "new" => Pursued(r) /\ req[r] \in Pursuits
  BY OthersAlone, TxTypes, ReqTypes
  DEF RedemptionIInv, RedemptionTypeOK, LedgerIInv, LedgerTypeOK, PhaseTxs, txOf, Pursued,
      EntriesIInv
<1>2. ASSUME NEW a \in Working \cup {"done"}, req' = [req EXCEPT ![r].at = a], Pursued(r)
      PROVE  /\ req'[r].at = a /\ SameRequest(r)
             /\ req'[r].user = req[r].user /\ req'[r].reward = req[r].reward
  BY <1>1, <1>2, MovedReq, MovedIsSame
<1>3. ASSUME SeenSame, NEW t \in PhaseTxs(r), LedgerTouch(t), EntryFits(r)' PROVE EntriesIInv'
  BY <1>1, <1>3, EntriesKept DEF SeenSame, SeenKept
<1>4. ASSUME UNCHANGED <<rows, call>>, \A s \in Slots : SeenKept(r, s), EntryFits(r)'
      PROVE  EntriesIInv'
  BY <1>1, <1>4, NothingAppended, EntriesKept
<1>5. ASSUME NEW a \in Working \cup {"done"}, UNCHANGED <<rows, call, clog>>, SeenSame,
             req'[r].at = a, req'[r].user = req[r].user, req'[r].reward = req[r].reward,
             req[r].at # "debiting", a \notin {"debiting", "refunding", "settled"},
             a \in {"release", "refund"} => req[r].at \in {"release", "refund"}
      PROVE  EntriesIInv'
  <2>1. HasRecord(r)' = HasRecord(r) /\ StatusFits(r)'
    BY <1>1, <1>5, SameRecord DEF EntryFits
  <2>2. EntryFits(r)'
    BY <1>5, <2>1, UnmovedFit
  <2> QED BY <1>3, <1>1, <1>5, <2>2, NothingAppended
<1>6. CASE Lookup(r) \/ Await(r)
  <2>1. /\ UNCHANGED <<rows, call, clog>> /\ SeenSame /\ req[r].at \in {"lookup", "await"}
        /\ req'[r].at \in {"reward", "replay"}
        /\ req'[r].user = req[r].user /\ req'[r].reward = req[r].reward
    BY <1>1, <1>6, AwaitStep, NothingSeen DEF Lookup, Await, Goto, ledgerVars, Pursuits
  <2> QED BY <1>5, <2>1 DEF Working, Reserving
<1>7. CASE \/ ReadReward(r) \/ Claim(r) \/ Conflict(r) \/ TakeStock(r) \/ Fulfilled(r)
           \/ Release(r)
  <2>1. PICK a \in {"claim", "lock", "await", "debit", "confirm", "refund"} :
          /\ UNCHANGED <<rows, call, clog>> /\ req' = [req EXCEPT ![r].at = a]
          /\ a = "refund" => req[r].at = "release"
          /\ req[r].at \in {"reward", "claim", "stock", "fulfil", "release"}
    BY <1>7, ReleaseStep
    DEF ReadReward, Claim, Conflict, TakeStock, Fulfilled, Release, Goto, ledgerVars
  <2>2. SeenSame
    BY <1>7, <2>1, ClaimStep, ReleaseStep, NothingSeen
    DEF ReadReward, Conflict, TakeStock, Fulfilled
  <2>3. Pursued(r) /\ a \in Working
    BY <2>1 DEF Pursued, Working, Reserving, Settling
  <2> QED BY <1>2, <1>5, <2>1, <2>2, <2>3
<1>8. CASE Confirm(r) \/ ConfirmUnheard(r)
  <2>1. /\ UNCHANGED <<rows, call, clog>> /\ req[r].at = "confirm" /\ Pursued(r)
        /\ req' = [req EXCEPT ![r].at = "done"]
    BY <1>8 DEF Confirm, ConfirmUnheard, MarkFulfilled, Answer, Goto, ledgerVars, Pursued
  <2>2. SeenAs(r, Mine(r, "RESERVED"), Mine(r, "FULFILLED"))
    BY <1>8, ConfirmStep
  <2>3. clog[S] = "new" /\ clog[R] = "committed"
    BY <1>1, <2>1 DEF StageFits
  <2>4. /\ req'[r].at = "done" /\ SameRequest(r)
        /\ req'[r].user = req[r].user /\ req'[r].reward = req[r].reward
    BY <1>2, <2>1
  <2>5. HasRecord(r)' /\ StatusFits(r)'
    BY <1>1, <2>1, <2>2, <2>3, <2>4, NewRecord
  <2>6. HasRecord(r)
    BY <1>1, <2>1, <2>2, MineTypes DEF SeenAs, HasRecord
  <2>7. EntryFits(r)'
    BY <2>1, <2>4, <2>5, <2>6, UnmovedFit
  <2> QED BY <1>1, <1>4, <2>1, <2>2, <2>7, SeenKeepsAll
<1>9. ASSUME NEW t \in {R, S}, Abort(t), UNCHANGED <<rows, call, redemptions>>, Pursued(r),
             req' = [req EXCEPT ![r].at = "done"]
      PROVE  EntriesIInv'
  <2>1. SeenSame
    BY <1>1, <1>9, FatedSeen
  <2>2. /\ clog'[t] = "aborted" /\ clog[t] = "active"
        /\ t = R => clog'[S] = clog[S]
        /\ t = S => clog'[R] = clog[R]
    BY <1>1, <1>9 DEF Abort, IsActive
  <2>3. /\ req'[r].at = "done" /\ req'[r].user = req[r].user /\ req'[r].reward = req[r].reward
    BY <1>2, <1>9
  <2>4. HasRecord(r)' = HasRecord(r) /\ StatusFits(r)'
    BY <1>1, <2>1, <2>2, SameRecord DEF EntryFits
  <2>5. t = R => ~ HasRecord(r)
    BY <2>2, RecordIsCommitted
  <2>6. EntryFits(r)'
    BY <1>1, <1>9, <2>2, <2>3, <2>4, <2>5, EntriesQuiet DEF EntryFits
  <2> QED BY <1>1, <1>3, <1>9, <2>1, <2>6, NothingAppended
<1>10. ASSUME NEW t \in {R, S}, Begin(t), UNCHANGED <<rows, call, redemptions>>,
              \/ t = R /\ req[r].at = "new" /\ req'[r].at = "lookup"
              \/ /\ t = S /\ req[r].at = "fulfil" /\ req' = [req EXCEPT ![r].at = "release"]
       PROVE  EntriesIInv'
  <2>1. SeenSame
    BY <1>1, <1>10, FatedSeen
  <2>2. /\ clog'[t] = "active" /\ clog[t] = "new"
        /\ t = R => clog'[S] = clog[S]
        /\ t = S => clog'[R] = clog[R]
    BY <1>1, <1>10 DEF Begin
  <2>3. HasRecord(r)' = HasRecord(r) /\ StatusFits(r)'
    BY <1>1, <2>1, <2>2, SameRecord DEF EntryFits
  <2>4. /\ Own(R)' = Own(R) /\ Own(S)' = Own(S)
        /\ t = S => req'[r].at = "release" /\ Debited(r)' = Debited(r)
    <3>1. CASE t = R
      BY <1>1, <1>10, <3>1, NothingAppended
    <3>2. CASE t = S
      <4>1. Pursued(r) /\ "release" \in Working
        BY <1>1, <1>10, <3>2 DEF Pursued, Working, Settling
      <4> QED BY <1>1, <1>2, <1>10, <3>2, <4>1, EntriesQuiet
    <3> QED BY <3>1, <3>2
  <2>5. CASE t = R
    <3>1. clog[R] = "new" /\ clog[S] = "new"
      BY <1>1, <1>10, <2>2, <2>5 DEF StageFits
    <3>2. EntryFits(r)'
      BY <1>1, <1>10, <2>2, <2>3, <2>4, <2>5, <3>1 DEF EntryFits
    <3> QED BY <1>1, <1>3, <1>10, <2>1, <3>2, NothingAppended
  <2>6. CASE t = S
    <3>1. clog[R] = "committed" /\ Pursued(r)
      BY <1>1, <1>10, <2>6 DEF StageFits
    <3>2. HasRecord(r)
      <4>1. Seen(Slot(r)) = Mine(r, "RESERVED") /\ Slot(r) \in Slots
        BY <1>1, <1>10, <2>6, <3>1, ReqTypes DEF RedemptionIInv, RequestFits
      <4> QED BY <1>1, <3>1, <4>1, MineTypes DEF HasRecord
    <3>3. EntryFits(r)'
      BY <1>1, <1>10, <2>2, <2>3, <2>4, <2>6, <3>1, <3>2 DEF EntryFits
    <3> QED BY <1>1, <1>3, <1>10, <2>1, <3>3, NothingAppended
  <2> QED BY <2>5, <2>6
<1>11. CASE Unfulfilled(r) \/ \E u \in Users, k \in IdemKeys, w \in Rewards : Arrive(r, u, k, w)
  <2>1. CASE Unfulfilled(r)
    BY <1>10, <2>1 DEF Unfulfilled, Open, Goto
  <2>2. CASE \E u \in Users, k \in IdemKeys, w \in Rewards : Arrive(r, u, k, w)
    <3>1. /\ Begin(R) /\ UNCHANGED <<rows, call, redemptions>> /\ req[r].at = "new"
          /\ req'[r].at = "lookup"
      BY <1>1, <2>2 DEF Arrive, Open
    <3> QED BY <1>10, <3>1
  <2> QED BY <1>11, <2>1, <2>2
<1>12. CASE Unavailable(r) \/ OutOfStock(r) \/ Insufficient(r)
  <2>1. /\ Abort(R) /\ UNCHANGED <<rows, call, redemptions>> /\ Pursued(r)
        /\ req' = [req EXCEPT ![r].at = "done"]
    BY <1>12 DEF Unavailable, OutOfStock, Insufficient, Fail, Refuse, Answer, Goto, Pursued
  <2> QED BY <1>9, <2>1
<1>13. CASE Replay(r)
  <2>1. /\ UNCHANGED <<rows, call>> /\ req[r].at = "replay" /\ Pursued(r)
        /\ req' = [req EXCEPT ![r].at = "done"] /\ Commit(R)
    BY <1>13 DEF Replay, Close, Answer, Goto, Pursued
  <2>2. SeenSame
    BY <1>13, ReplayStep
  <2>3. req'[r].at = "done" /\ req'[r].user = req[r].user /\ req'[r].reward = req[r].reward
    BY <1>2, <2>1
  <2>4. clog[R] = "active" /\ clog'[R] = "committed" /\ clog[S] = "new" /\ clog'[S] = "new"
    BY <1>1, <2>1 DEF Commit, IsActive, StageFits, Reserving
  <2>5. HasRecord(r)' = HasRecord(r) /\ StatusFits(r)' /\ ~ HasRecord(r)
    BY <1>1, <2>2, <2>4, SameRecord, RecordIsCommitted DEF EntryFits
  <2>6. EntryFits(r)'
    BY <1>1, <2>1, <2>3, <2>4, <2>5, EntriesQuiet DEF EntryFits
  <2> QED BY <1>1, <1>3, <2>1, <2>2, <2>6, NothingAppended
<1>14. CASE Reserved(r)
  <2>1. /\ UNCHANGED <<rows, call>> /\ req[r].at = "debiting" /\ call[R].at = "done"
        /\ req' = [req EXCEPT ![r].at = "fulfil"] /\ Commit(R) /\ Pursued(r)
    BY <1>14 DEF Reserved, Close, Goto, Pursued
  <2>2. SeenAs(r, Absent, Mine(r, "RESERVED"))
    BY <1>14, ReservedStep
  <2>3. /\ req'[r].at = "fulfil" /\ SameRequest(r)
        /\ req'[r].user = req[r].user /\ req'[r].reward = req[r].reward
    BY <1>2, <2>1 DEF Working
  <2>4. clog'[R] = "committed" /\ clog'[S] = "new" /\ clog[S] = "new"
    BY <1>1, <2>1 DEF Commit, IsActive, StageFits, Reserving
  <2>5. HasRecord(r)' /\ StatusFits(r)'
    BY <1>1, <2>1, <2>2, <2>3, <2>4, NewRecord
  <2>6. Debited(r)
    BY <1>1, <2>1 DEF EntryFits, Debiting, Appending, Debited
  <2>7. EntryFits(r)'
    BY <1>1, <2>1, <2>3, <2>4, <2>5, <2>6, EntriesQuiet DEF EntryFits
  <2> QED BY <1>1, <1>4, <2>1, <2>2, <2>7, SeenKeepsAll
<1>15. ASSUME Commit(S), req[r].at = "settled", UNCHANGED <<rows, call, redemptions>>,
              NEW x, NEW of, Answer(r, x, of),
              <<x, of>> \in {<<"FAILED", r>>, <<"error", Absent>>}
       PROVE  EntriesIInv'
  <2>1. SeenAs(r, Mine(r, "RESERVED"), Mine(r, "FAILED"))
    BY <1>15, SettledStep
  <2>2. Pursued(r) /\ req' = [req EXCEPT ![r].at = "done"]
    BY <1>15 DEF Pursued, Answer, Goto
  <2>3. /\ req'[r].at = "done" /\ SameRequest(r)
        /\ req'[r].user = req[r].user /\ req'[r].reward = req[r].reward
    BY <1>2, <2>2
  <2>4. /\ clog'[S] = "committed" /\ clog[S] = "active"
        /\ clog'[R] = "committed" /\ clog[R] = "committed"
    BY <1>1, <1>15 DEF Commit, IsActive, StageFits, Settling
  <2>5. HasRecord(r)' /\ StatusFits(r)'
    BY <1>1, <2>1, <2>2, <2>3, <2>4, NewRecord
  <2>6. EntryFits(r)'
    BY <1>1, <1>15, <2>3, <2>4, <2>5, EntriesQuiet DEF EntryFits
  <2> QED BY <1>1, <1>4, <1>15, <2>1, <2>2, <2>6, SeenKeepsAll
<1>16. CASE Settle(r)
  BY <1>15, <1>16 DEF Settle, Close
<1>17. CASE CutOff(r)
  <2>1. /\ req[r].at \in Working /\ Answer(r, "error", Absent) /\ Pursued(r)
        /\ UNCHANGED redemptions /\ req' = [req EXCEPT ![r].at = "done"]
    BY <1>17 DEF CutOff, Answer, Goto, Pursued, Working, Reserving, Settling
  <2>2. CASE req[r].at \in {"fulfil", "confirm"} /\ UNCHANGED ledgerVars
    <3>1. UNCHANGED <<rows, call, clog>> /\ SeenSame
      BY <2>1, <2>2, NothingSeen DEF ledgerVars
    <3> QED BY <1>2, <1>5, <2>1, <2>2, <3>1
  <2>3. CASE Fail(txOf(r))
    BY <1>1, <1>9, <2>1, <2>3 DEF Fail
  <2>4. CASE req[r].at = "settled" /\ Close(settleTx(r))
    BY <1>15, <2>1, <2>4 DEF Close
  <2> QED BY <1>17, <2>2, <2>3, <2>4 DEF CutOff
<1>18. CASE LockUser(r) \/ Debit(r)
  <2>1. /\ UNCHANGED <<rows, clog, redemptions>> /\ req[r].at \in {"lock", "debit"} /\ Pursued(r)
        /\ \A x \in Tx \ {R} : call'[x] = call[x]
    BY <1>1, <1>18
    DEF LockUser, Debit, LockAhead, AppendEntry, Pursued, LedgerIInv, LedgerTypeOK
  <2>2. LedgerTouch(R) /\ SeenSame /\ (\A t : Own(t)' = Own(t))
    BY <2>1, NothingSeen DEF LedgerTouch, Own, Ids
  <2>3. clog[R] = "active" /\ clog[S] = "new" /\ Own(R) = {} /\ Own(S) = {} /\ call[S].at = "idle"
    BY <1>1, <2>1 DEF StageFits, Reserving, EntryFits
  <2>4. HasRecord(r)' = HasRecord(r) /\ StatusFits(r)'
    BY <1>1, <2>1, <2>2, SameRecord DEF EntryFits
  <2>5. CASE LockUser(r)
    <3>1. /\ req' = [req EXCEPT ![r].at = "stock"] /\ "stock" \in Working
          /\ call' = [call EXCEPT ![R] = [at |-> "ahead", made |-> @.made, user |-> req[r].user]]
      BY <2>5 DEF LockUser, LockAhead, Goto, Working, Reserving
    <3>2. req'[r].at = "stock" /\ call'[R].at = "ahead"
      BY <1>1, <1>2, <2>1, <3>1 DEF LedgerIInv, LedgerTypeOK
    <3> QED BY <1>1, <1>3, <2>1, <2>2, <2>3, <2>4, <3>2 DEF EntryFits
  <2>6. CASE Debit(r)
    <3>1. req' = [req EXCEPT ![r].at = "debiting"] /\ "debiting" \in Working
      BY <2>6 DEF Debit, Goto, Working, Reserving
    <3>2. /\ req'[r].at = "debiting" /\ req'[r].user = req[r].user
          /\ req'[r].reward = req[r].reward
      BY <1>2, <2>1, <3>1
    <3>3. PICK in : in = DebitOf(r) /\ in = DebitOf(r)'
      BY <3>2 DEF DebitOf
    <3>4. call' = [call EXCEPT ![R] = [at |-> "lock", made |-> @.made + 1, in |-> in]]
      BY <2>6, <3>3 DEF Debit, AppendEntry, DebitOf
    <3>5. call'[R].at = "lock" /\ call'[R].in = in
      BY <1>1, <3>4 DEF LedgerIInv, LedgerTypeOK
    <3>6. Debiting(r)'
      BY <2>2, <2>3, <3>3, <3>5 DEF Debiting, Appending
    <3> QED BY <1>1, <1>3, <2>1, <2>2, <2>3, <2>4, <3>2, <3>6 DEF EntryFits
  <2> QED BY <1>18, <2>5, <2>6
<1>19. CASE Refund(r)
  <2>1. /\ UNCHANGED <<rows, clog, redemptions>> /\ req[r].at = "refund" /\ Pursued(r)
        /\ req' = [req EXCEPT ![r].at = "refunding"] /\ "refunding" \in Working
        /\ \A x \in Tx \ {S} : call'[x] = call[x]
    BY <1>1, <1>19 DEF Refund, ReverseEntry, AppendEntry, Goto, Pursued, Working, Settling
  <2>2. LedgerTouch(S) /\ SeenSame /\ (\A t : Own(t)' = Own(t))
    BY <2>1, NothingSeen DEF LedgerTouch, Own, Ids
  <2>3. /\ clog[R] = "committed" /\ clog[S] = "active" /\ HasRecord(r) /\ Debited(r)
        /\ Own(S) = {}
    BY <1>1, <2>1 DEF StageFits, Settling, EntryFits
  <2>4. HasRecord(r)' = HasRecord(r) /\ StatusFits(r)'
    BY <1>1, <2>1, <2>2, SameRecord DEF EntryFits
  <2>5. /\ req'[r].at = "refunding" /\ req'[r].user = req[r].user
        /\ req'[r].reward = req[r].reward
    BY <1>2, <2>1
  <2>6. PICK i \in Ids : /\ i = DebitId(r) /\ i = DebitId(r)' /\ rows[i].user = req[r].user
                         /\ -rows[i].delta = Cost[req[r].reward]
    <3>1. /\ DebitId(r) \in Ids /\ rows[DebitId(r)].user = req[r].user
          /\ rows[DebitId(r)].delta = -Cost[req[r].reward]
      BY <2>3 DEF Debited, Wrote, DebitOf, DebitId
    <3>2. DebitId(r)' = DebitId(r)
      BY <1>1, <2>1 DEF DebitId
    <3>3. Cost[req[r].reward] \in Nat
      BY <1>1, <2>1, ReqTypes, CostsArePositive
    <3> QED BY <3>1, <3>2, <3>3
  <2>7. PICK in : in = RefundOf(r) /\ in = RefundOf(r)'
    BY <2>5, <2>6 DEF RefundOf
  <2>8. call' = [call EXCEPT ![S] = [at |-> "lock", made |-> @.made + 1, in |-> in]]
    BY <1>19, <2>6, <2>7 DEF Refund, ReverseEntry, AppendEntry, RefundOf, DebitId
  <2>9. call'[S].at = "lock" /\ call'[S].in = in
    BY <1>1, <2>8 DEF LedgerIInv, LedgerTypeOK
  <2>10. Refunding(r)'
    BY <2>2, <2>3, <2>7, <2>9 DEF Refunding, Appending
  <2>11. Debited(r)'
    BY <1>1, <2>1, <2>2, <2>3, <2>5 DEF Debited, Wrote, DebitOf, Ids
  <2>12. EntryFits(r)'
    BY <1>1, <2>1, <2>2, <2>3, <2>4, <2>5, <2>10, <2>11 DEF EntryFits
  <2> QED BY <1>1, <1>3, <2>2, <2>12
<1>20. CASE Restock(r)
  <2>1. /\ UNCHANGED <<rows, call, clog, redemptions>> /\ req[r].at = "refunding"
        /\ call[S].at = "done" /\ Pursued(r) /\ req' = [req EXCEPT ![r].at = "settled"]
        /\ "settled" \in Working
    BY <1>20 DEF Restock, Goto, ledgerVars, Pursued, Working, Settling
  <2>2. SeenSame
    BY <2>1, NothingSeen
  <2>3. /\ req'[r].at = "settled" /\ req'[r].user = req[r].user
        /\ req'[r].reward = req[r].reward
    BY <1>2, <2>1
  <2>4. Refunded(r) /\ clog[S] = "active" /\ clog[R] = "committed"
    BY <1>1, <2>1 DEF EntryFits, Refunding, Refunded, Appending, StageFits, Settling
  <2>5. HasRecord(r)' = HasRecord(r) /\ StatusFits(r)'
    BY <1>1, <2>1, <2>2, SameRecord DEF EntryFits
  <2>6. EntryFits(r)'
    BY <1>1, <2>1, <2>3, <2>4, <2>5, EntriesQuiet DEF EntryFits
  <2> QED BY <1>1, <1>3, <2>1, <2>2, <2>6, NothingAppended
<1>21. CASE LedgerWork(r)
  <2>1. /\ UNCHANGED <<redemptions, req, clog>> /\ req[r].at \in {"debiting", "refunding"}
        /\ Advance(txOf(r)) /\ Pursued(r)
    BY <1>21 DEF LedgerWork, Advance, Lock, Insert, Duplicate, Move, ownVars, Pursued
  <2>2. SeenSame
    BY <2>1, NothingSeen
  <2>3. HasRecord(r)' = HasRecord(r) /\ StatusFits(r)'
    BY <1>1, <2>1, <2>2, SameRecord DEF EntryFits
  <2>4. CASE req[r].at = "debiting"
    <3>1. txOf(r) = R /\ Debiting(r) /\ clog[R] = "active" /\ clog[S] = "new"
      BY <1>1, <2>4 DEF txOf, Reserving, EntryFits, StageFits
    <3>2. PICK in : in = DebitOf(r) /\ in = DebitOf(r)'
      BY <2>1 DEF DebitOf
    <3>3. Appending(R, in)' /\ LedgerTouch(R)
      BY <1>1, <2>1, <3>1, <3>2, AppendingAdvance DEF Debiting, DebitOf, FoundTaken, Holders
    <3>4. Debiting(r)'
      BY <3>2, <3>3 DEF Debiting, Appending, Wrote
    <3>5. Own(S)' = Own(S) /\ call'[S] = call[S]
      BY <1>1, <3>3, OwnKept DEF LedgerTouch
    <3>6. EntryFits(r)'
      BY <1>1, <2>1, <2>3, <2>4, <3>1, <3>4, <3>5 DEF EntryFits
    <3> QED BY <1>1, <1>3, <2>2, <3>3, <3>6
  <2>5. CASE req[r].at = "refunding"
    <3>1. /\ txOf(r) = S /\ Refunding(r) /\ clog[S] = "active" /\ clog[R] = "committed"
          /\ HasRecord(r) /\ Debited(r)
      BY <1>1, <2>5 DEF txOf, Reserving, EntryFits, StageFits, Settling
    <3>2. PICK in : in = RefundOf(r)
      OBVIOUS
    <3>3. call[S].at = "claim" => Holders(in.key) = {}
      BY <2>5, <3>2, NoReversalYet DEF RefundOf
    <3>4. Appending(S, in)' /\ LedgerTouch(S)
      BY <1>1, <2>1, <3>1, <3>2, <3>3, AppendingAdvance DEF Refunding, FoundTaken
    <3>5. Own(R)' = Own(R) /\ call'[R] = call[R] /\ \A i \in Ids : i \in Ids' /\ rows'[i] = rows[i]
      BY <1>1, <3>4, OwnKept DEF LedgerTouch
    <3>6. RefundOf(r)' = in
      BY <2>1, <3>2, <3>5 DEF RefundOf, DebitId
    <3>7. Refunding(r)'
      BY <3>4, <3>6 DEF Refunding, Appending, Wrote
    <3>8. Debited(r)'
      BY <2>1, <3>1, <3>5 DEF Debited, Wrote, DebitOf
    <3>9. EntryFits(r)'
      BY <1>1, <2>1, <2>3, <2>5, <3>1, <3>5, <3>7, <3>8 DEF EntryFits
    <3> QED BY <1>1, <1>3, <2>2, <3>4, <3>9
  <2> QED BY <2>1, <2>4, <2>5
<1> QED BY <1>6, <1>7, <1>8, <1>11, <1>12, <1>13, <1>14, <1>16, <1>17, <1>18, <1>19, <1>20, <1>21
        DEF Serve, Throw

LEMMA EntriesInitInv == RedemptionInit => EntriesIInv
<1> SUFFICES ASSUME RedemptionInit PROVE EntriesIInv
  OBVIOUS
<1>1. /\ rows = Opening /\ \A r \in Requests : req[r].at = "new"
      /\ \A x \in Tx : clog[x] = "new" /\ call[x].at = "idle"
  BY DEF RedemptionInit, LedgerInit, PgInit, Xids, NotCalled
<1>2. \A i \in Ids : rows[i].by = Setup /\ rows[i].reverses = NoEntry
  BY <1>1, OpeningIsCommitted DEF Ids
<1>3. ASSUME NEW r \in Requests PROVE EntryFits(r)
  <2>1. Own(reserveTx(r)) = {} /\ Own(settleTx(r)) = {}
    BY <1>2, TxTypes DEF Own
  <2>2. clog[reserveTx(r)] = "new" /\ clog[settleTx(r)] = "new" /\ ~ HasRecord(r)
    BY <1>1, TxTypes, RedemptionInitInv, RecordIsCommitted
  <2>3. StatusFits(r)
    BY <2>2 DEF StatusFits, HasRecord
  <2> QED BY <1>1, <2>1, <2>2, <2>3, TxTypes DEF EntryFits
<1> QED BY <1>2, <1>3, NoEntryIsNoId DEF EntriesIInv, DebitsAreOwn, Ids

LEMMA EntriesNextInv ==
  RedemptionIInv /\ EntriesIInv /\ [RedemptionNext]_redemptionVars => EntriesIInv'
<1> SUFFICES ASSUME RedemptionIInv, EntriesIInv, [RedemptionNext]_redemptionVars
             PROVE  EntriesIInv'
  OBVIOUS
<1>1. RedemptionIInv'
  BY RedemptionNextInv
<1>2. CASE UNCHANGED redemptionVars \/ \E w \in Rewards : Deactivate(w)
  <2>1. UNCHANGED <<redemptions, req, clog, rows, call>> /\ SeenSame
    BY <1>2, NothingSeen DEF redemptionVars, ownVars, ledgerVars, Deactivate
  <2>2. ASSUME NEW r \in Requests PROVE EntryFits(r)'
    <3>1. HasRecord(r)' = HasRecord(r) /\ StatusFits(r)' = StatusFits(r)
      BY <2>1, SameRecord
    <3> QED BY <2>1, <3>1, EntriesQuiet
            DEF EntriesIInv, EntryFits, Debiting, Refunding, Appending, Wrote, DebitOf, RefundOf,
                DebitId, Own, Ids
  <2> QED BY <2>1, <2>2 DEF EntriesIInv, DebitsAreOwn, Ids
<1>3. ASSUME NEW r \in Requests,
             \/ Serve(r) \/ Throw(r)
             \/ \E u \in Users, k \in IdemKeys, w \in Rewards : Arrive(r, u, k, w)
      PROVE  EntriesIInv'
  BY <1>1, <1>3, EntriesServed
<1> QED BY <1>2, <1>3 DEF RedemptionNext
-----------------------------------------------------------------------------
(* The record of a redemption, its request and what callers were told agree   *)
(* in every state, however requests for one key and their failures interleave *)
(* (redeem, reserve, compensate).                                             *)
THEOREM RedemptionSafe == RedemptionSpec => []RedemptionIInv
<1> QED BY RedemptionInitInv, RedemptionNextInv, PTL DEF RedemptionSpec

(* Behind any number of redemption requests the ledger is the one Ledger      *)
(* specifies: reserve and compensate move points only as appendEntry and      *)
(* reverseEntry do.                                                           *)
THEOREM RedemptionIsLedger == RedemptionSpec => LedgerSpec
<1>1. RedemptionInit => LedgerInit
  BY DEF RedemptionInit
<1>2. RedemptionIInv /\ [RedemptionNext]_redemptionVars => [LedgerNext]_ledgerVars
  BY RedemptionStep DEF RedemptionIInv
<1> QED BY RedemptionSafe, <1>1, <1>2, PTL DEF RedemptionSpec, LedgerSpec

(* So redemptions never make reconcile() report a discrepancy, never apply a  *)
(* key or a refund twice, never take a balance below zero by a spend, and     *)
(* show readers no half of a transaction.                                     *)
THEOREM RedemptionKeepsLedgerPromises ==
  RedemptionSpec => /\ []ReconcileEmpty /\ []KeyAppliedOnce /\ []ReversalCancelsOnce
                    /\ OnlyClawbackGoesNegative /\ LedgerIsAtomic
<1> QED BY RedemptionIsLedger, LedgerReconciles, LedgerAppliesKeysOnce, LedgerReversesOnce,
           LedgerOnlyClawbackGoesNegative, LedgerIsImplemented, PTL

LEMMA StrandedInv == RedemptionIInv => StrandedOnlyByCrash
<1> SUFFICES ASSUME RedemptionIInv PROVE StrandedOnlyByCrash
  OBVIOUS
<1> SUFFICES ASSUME NEW s \in Redemptions, Seen(s).status = "RESERVED", NEW r, r = Seen(s).of
             PROVE  req[r].at \in Working \/ answer[r].status = "error"
  BY DEF StrandedOnlyByCrash
<1>1. Seen(s) # Absent /\ Recorded(s)
  BY DEF Redemptions, Slots, Seen, RedemptionIInv, RowFits
<1> QED BY <1>1 DEF Recorded, Working

(* A redemption is left RESERVED only by a request at work or one cut off.    *)
THEOREM OnlyCrashesStrand == RedemptionSpec => []StrandedOnlyByCrash
<1> QED BY RedemptionSafe, StrandedInv, PTL

LEMMA ReplayInv == RedemptionIInv => ReplayWins
<1> SUFFICES ASSUME RedemptionIInv PROVE ReplayWins
  OBVIOUS
<1> SUFFICES ASSUME NEW r \in Requests, req[r].at = "done", req[r].late
             PROVE  /\ answer[r].status # "refused"
                    /\ \A s \in Redemptions : Seen(s).of # r
  BY DEF ReplayWins
<1>1. Pursued(r) /\ RequestFits(r) /\ RedemptionTypeOK
  BY DEF Pursued, RedemptionIInv
<1>2. answer[r].status # "refused" /\ Slot(r) \in Slots /\ Seen(Slot(r)).of # r
  BY <1>1, ReqTypes DEF RequestFits
<1>3. ASSUME NEW s \in Redemptions PROVE Seen(s).of # r
  <2>1. s \in Slots /\ Seen(s) # Absent /\ Recorded(s)
    BY DEF Redemptions, Slots, Seen, RedemptionIInv, RowFits
  <2> QED BY <1>2, <2>1 DEF Recorded
<1> QED BY <1>2, <1>3

(* A request whose key is already taken when it arrives is never refused, and *)
(* never makes a redemption of its own.                                       *)
THEOREM ReplaysWin == RedemptionSpec => []ReplayWins
<1> QED BY RedemptionSafe, ReplayInv, PTL

LEMMA AnswersInv == RedemptionIInv => AnswersAreTrue
<1> SUFFICES ASSUME RedemptionIInv PROVE AnswersAreTrue
  OBVIOUS
<1>1. ASSUME NEW r \in Requests, answer[r].status = "refused", NEW s \in Redemptions
      PROVE  Seen(s).of # r
  <2>1. s \in Slots /\ Seen(s) # Absent /\ Recorded(s)
    BY DEF Redemptions, Slots, Seen, RedemptionIInv, RowFits
  <2>2. clog[reserveTx(r)] = "aborted"
    BY <1>1 DEF RedemptionIInv, AnswerFits
  <2> QED BY <2>1, <2>2 DEF Recorded
<1>2. ASSUME NEW r \in Requests, answer[r].status \in {"RESERVED", "FULFILLED", "FAILED"}
      PROVE  /\ Slot(r) \in Redemptions /\ Seen(Slot(r)).of = answer[r].of
             /\ answer[r].status # "RESERVED" => Seen(Slot(r)).status = answer[r].status
  <2>1. AnswerFits(r) /\ RedemptionTypeOK /\ Pursued(r)
    BY <1>2 DEF RedemptionIInv, AnswerFits, Pursued
  <2>2. Slot(r) \in Slots /\ Agrees(Seen(Slot(r)), answer[r].of, answer[r].status)
    BY <1>2, <2>1, ReqTypes DEF AnswerFits
  <2> QED BY <1>2, <2>2 DEF Agrees, Redemptions, Slots, Seen
<1> QED BY <1>1, <1>2 DEF AnswersAreTrue

(* What a caller is told of its redemption is so, and what it was refused is  *)
(* not in the books.                                                          *)
THEOREM AnswersHold == RedemptionSpec => []AnswersAreTrue
<1> QED BY RedemptionSafe, AnswersInv, PTL

LEMMA ConservedInv == RedemptionIInv /\ StockIInv => StockConserved
<1> SUFFICES ASSUME RedemptionIInv, StockIInv PROVE StockConserved
  OBVIOUS
<1>1. ASSUME NEW w \in Rewards, InitialStock[w] = Unlimited
      PROVE  Latest(stock[w]) = Unlimited
  BY <1>1 DEF RedemptionIInv, StockTyped, Loaded, Latest
<1>2. ASSUME NEW w \in Rewards, InitialStock[w] # Unlimited
      PROVE  /\ Latest(stock[w]) >= 0
             /\ Latest(stock[w]) + Cardinality(Holding(w)) = InitialStock[w]
             /\ Holding(w) = {s \in Redemptions : /\ Seen(s).reward = w
                                                 /\ Seen(s).status # "FAILED"}
  <2>1. w \in Limited
    BY <1>2 DEF Limited
  <2>2. Holding(w) = {s \in Redemptions : Seen(s).reward = w /\ Seen(s).status # "FAILED"}
    BY DEF Holding, Redemptions, Slots, Seen
  <2>3. Latest(stock[w]) \in Nat
    BY <2>1, LimitedStock
  <2>4. Latest(stock[w]) + Cardinality(Holding(w)) = InitialStock[w]
    BY <2>1 DEF StockIInv, StockAdds
  <2> QED BY <2>2, <2>3, <2>4
<1> QED BY <1>1, <1>2 DEF StockConserved

(* What is left of a limited reward and what its redemptions hold are what    *)
(* there was, in every state that a reader can see: the last unit is never    *)
(* sold twice, and a failure or a refusal keeps none.                         *)
THEOREM StockIsConserved == RedemptionSpec => []StockConserved
<1>1. RedemptionSpec => []StockIInv
  BY RedemptionSafe, StockInitInv, StockNextInv, PTL DEF RedemptionSpec
<1> QED BY RedemptionSafe, <1>1, ConservedInv, PTL

LEMMA PointsInv == RedemptionIInv /\ EntriesIInv => PointsFollowRedemptions
<1> SUFFICES ASSUME RedemptionIInv, EntriesIInv PROVE PointsFollowRedemptions
  OBVIOUS
<1>1. ASSUME NEW r \in Requests
      PROVE  /\ clog[reserveTx(r)] = "committed" => Debits(r) = Own(reserveTx(r))
             /\ clog[reserveTx(r)] # "committed" => Debits(r) = {}
             /\ clog[settleTx(r)] = "committed" => Refunds(r) = Own(settleTx(r))
             /\ clog[settleTx(r)] # "committed" => Refunds(r) = {}
  BY DEF Debits, Refunds, Own, Entries, IsCommitted
<1>2. ASSUME NEW s \in Redemptions
      PROVE  LET red == Seen(s) IN
             \E i \in Debits(red.of) :
               /\ Debits(red.of) = {i}
               /\ rows[i].user = s[1] /\ rows[i].delta = -Cost[red.reward]
               /\ IF red.status = "FAILED"
                  THEN \E j \in Entries : Refunds(red.of) = {j} /\ rows[j].reverses = i
                  ELSE Refunds(red.of) = {}
  <2>1. s \in Slots /\ Seen(s) # Absent /\ Recorded(s)
    BY DEF Redemptions, Slots, Seen, RedemptionIInv, RowFits
  <2>2. PICK r \in Requests :
          /\ r = Seen(s).of /\ Slot(r) = s /\ Seen(s).reward = req[r].reward
          /\ clog[reserveTx(r)] = "committed"
    BY <2>1 DEF Recorded
  <2>3. EntryFits(r) /\ HasRecord(r)
    BY <2>1, <2>2 DEF EntriesIInv, HasRecord
  <2>4. Debited(r)
    BY <2>2, <2>3 DEF EntryFits
  <2>5. PICK i : i = call[reserveTx(r)].id
    OBVIOUS
  <2>6. /\ Debits(r) = {i} /\ rows[i].user = s[1] /\ rows[i].delta = -Cost[Seen(s).reward]
    BY <1>1, <2>2, <2>4, <2>5 DEF Debited, Wrote, DebitOf, Slot
  <2>7. CASE Seen(s).status = "FAILED"
    <3>1. clog[settleTx(r)] = "committed" /\ Refunded(r)
      BY <2>1, <2>2, <2>3, <2>7 DEF EntryFits, StatusFits
    <3>2. PICK j : j = call[settleTx(r)].id
      OBVIOUS
    <3>3. Refunds(r) = {j} /\ rows[j].reverses = i
      BY <1>1, <2>5, <3>1, <3>2 DEF Refunded, Wrote, RefundOf, DebitId
    <3>4. j \in Entries
      BY <3>3 DEF Refunds
    <3> QED BY <2>2, <2>6, <2>7, <3>3, <3>4
  <2>8. CASE Seen(s).status # "FAILED"
    <3>1. clog[settleTx(r)] # "committed"
      BY <2>1, <2>2, <2>3, <2>8 DEF EntryFits, StatusFits
    <3> QED BY <1>1, <2>2, <2>6, <2>8, <3>1
  <2> QED BY <2>7, <2>8
<1>3. ASSUME NEW r \in Requests, \A s \in Redemptions : Seen(s).of # r
      PROVE  Debits(r) \cup Refunds(r) = {}
  <2>1. ~ HasRecord(r) /\ EntryFits(r)
    BY <1>3 DEF EntriesIInv, HasRecord, Redemptions, Slots, Seen
  <2>2. /\ clog[reserveTx(r)] = "committed" => Own(reserveTx(r)) = {}
        /\ clog[settleTx(r)] = "new"
    BY <2>1 DEF EntryFits
  <2> QED BY <1>1, <2>2
<1> QED BY <1>2, <1>3 DEF PointsFollowRedemptions

(* Each redemption that readers see has one debit of its price and, exactly   *)
(* when it FAILED, one reversal of that debit; a request without a redemption *)
(* has moved no points.                                                       *)
THEOREM PointsFollow == RedemptionSpec => []PointsFollowRedemptions
<1>1. RedemptionSpec => []EntriesIInv
  BY RedemptionSafe, EntriesInitInv, EntriesNextInv, PTL DEF RedemptionSpec
<1> QED BY RedemptionSafe, <1>1, PointsInv, PTL

-----------------------------------------------------------------------------
(* The redeem dialog. A page sends nothing but keys it minted itself, the     *)
(* clicks on a dialog it still holds carry that dialog's, and what was told   *)
(* is what was answered.                                                      *)

Dialogs == [at : {"open"}, key : IdemKeys, reward : Rewards]
Pages == [at : {"closed"}] \cup Dialogs
Clicks == [at : {"sent"}, by : Browsers, from : IdemKeys, key : IdemKeys, reward : Rewards,
           held : BOOLEAN]
Outcomes == {"nothing", "spent", "returned", "reserved", "untouched", "failed", "unreachable",
             "expired"}
ShopTypes ==
  /\ page \in [Browsers -> Pages]
  /\ drawn \in [Browsers -> [page : Pages, pending : BOOLEAN, hidden : BOOLEAN]]
  /\ minted \in [Browsers -> SUBSET IdemKeys]
  /\ sent \in [Requests -> [at : {"unsent"}] \cup Clicks]
  /\ told \in [Requests -> Outcomes]
KeysFit ==
  /\ \A b \in Browsers : page[b].at = "open" => page[b].key \in minted[b]
  /\ \A b, c \in Browsers : \A k \in minted[b] : k \in minted[c] => b = c
SentFits(r) ==
  IF sent[r].at = "sent"
  THEN /\ sent[r].key \in minted[sent[r].by]
       /\ sent[r].held => sent[r].key = sent[r].from
       /\ Pursued(r) => /\ req[r].user = OwnerOf[sent[r].by] /\ req[r].key = sent[r].key
                        /\ req[r].reward = sent[r].reward
  ELSE ~ Pursued(r) /\ told[r] = "nothing"
ToldFits(r) ==
  /\ told[r] = "spent" => Pursued(r) /\ answer[r].status = "FULFILLED"
  /\ told[r] = "returned" => Pursued(r) /\ answer[r].status = "FAILED"
  /\ told[r] = "untouched" => answer[r].status = "refused"
Answered(r) == req[r].at = "done" => answer[r].status # "none"
ShopIInv == /\ RedemptionIInv /\ ShopTypes /\ KeysFit
            /\ \A r \in Requests : SentFits(r) /\ ToldFits(r) /\ Answered(r)

\* A request goes on as the one it is, and its answer stands.
GoesOn(r) == /\ Pursued(r)' /\ req'[r].user = req[r].user /\ req'[r].key = req[r].key
             /\ req'[r].reward = req[r].reward
             /\ req[r].at = "done" => req'[r].at = "done" /\ answer'[r] = answer[r]

LEMMA RequestGoesOn ==
  ASSUME RedemptionIInv, NEW r \in Requests, Serve(r) \/ Throw(r)
  PROVE  Pursued(r) /\ req[r].at # "done" /\ GoesOn(r) /\ Answered(r)'
<1>1. RedemptionTypeOK /\ RequestFits(r) /\ AnswerFits(r)
  BY DEF RedemptionIInv
<1>2. Pursued(r) /\ req[r].at # "done"
  BY DEF Serve, Throw, Lookup, ReadReward, Unavailable, Claim, Conflict, Await, Replay, LockUser,
         TakeStock, OutOfStock, Debit, LedgerWork, Insufficient, Reserved, Fulfilled, Confirm,
         CutOff, ConfirmUnheard, MarkFulfilled, Unfulfilled, Release, Refund, Restock, Settle,
         Pursued, Working, Reserving, Settling
<1>3. req[r] \in Pursuits
  BY <1>1, <1>2, ReqTypes
<1>4. ASSUME NEW a, Goto(r, a), a \in Working PROVE GoesOn(r) /\ Answered(r)'
  <2>1. req' = [req EXCEPT ![r].at = a] /\ a # "new" /\ a # "done"
    BY <1>4 DEF Goto, Working, Reserving, Settling
  <2> QED BY <1>1, <1>2, <2>1, MovedReq DEF GoesOn, Pursued, Answered
<1>5. ASSUME NEW x, NEW of, Answer(r, x, of), x # "none" PROVE GoesOn(r) /\ Answered(r)'
  <2>1. Goto(r, "done") /\ req' = [req EXCEPT ![r].at = "done"]
    BY <1>5 DEF Answer, Goto
  <2>2. answer'[r].status = x
    <3>1. answer' = [answer EXCEPT ![r] = [status |-> x, of |-> of]] /\ DOMAIN answer = Requests
      BY <1>1, <1>5 DEF Answer, RedemptionTypeOK
    <3> QED BY <3>1
  <2> QED BY <1>1, <1>2, <1>5, <2>1, <2>2, MovedReq DEF GoesOn, Pursued, Answered
<1>6. ASSUME NEW f, req' = [req EXCEPT ![r].at = "replay", ![r].found = f]
      PROVE  GoesOn(r) /\ Answered(r)'
  <2>1. req'[r] = [req[r] EXCEPT !.at = "replay", !.found = f]
    BY <1>1, <1>6 DEF RedemptionTypeOK
  <2> QED BY <1>2, <1>3, <2>1 DEF GoesOn, Pursued, Answered, Pursuits
<1>7. ASSUME UNCHANGED req PROVE GoesOn(r) /\ Answered(r)'
  BY <1>2, <1>7 DEF GoesOn, Pursued, Answered
<1>8. CASE Lookup(r) \/ Await(r)
  BY <1>2, <1>4, <1>6, <1>8 DEF Lookup, Await, Working, Reserving
<1>9. CASE \/ ReadReward(r) \/ Claim(r) \/ Conflict(r) \/ LockUser(r) \/ TakeStock(r) \/ Debit(r)
           \/ Reserved(r) \/ Fulfilled(r) \/ Unfulfilled(r) \/ Release(r) \/ Refund(r)
           \/ Restock(r)
  BY <1>2, <1>4, <1>9 DEF ReadReward, Claim, Conflict, LockUser, TakeStock, Debit, Reserved, Fulfilled,
                    Unfulfilled, Release, Refund, Restock, Working, Reserving, Settling
<1>10. CASE LedgerWork(r)
  BY <1>2, <1>7, <1>10 DEF LedgerWork, ownVars
<1>11. CASE \/ Unavailable(r) \/ OutOfStock(r) \/ Insufficient(r) \/ Confirm(r) \/ Settle(r)
            \/ Throw(r)
  BY <1>2, <1>5, <1>11 DEF Unavailable, OutOfStock, Insufficient, Confirm, Settle, Throw, CutOff,
                            ConfirmUnheard
<1>12. CASE Replay(r)
  <2>1. req[r].at = "replay" /\ req[r].found # Absent
    BY <1>1, <1>2, <1>12 DEF Replay, RequestFits
  <2>2. req[r].found.status # "none"
    BY <1>3, <2>1 DEF Pursuits, Redeemed
  <2> QED BY <1>2, <1>5, <1>12, <2>2 DEF Replay
<1> QED BY <1>2, <1>8, <1>9, <1>10, <1>11, <1>12 DEF Serve

LEMMA ArrivedRequest ==
  ASSUME RedemptionIInv, NEW r \in Requests, NEW u, NEW k, NEW w, Arrive(r, u, k, w)
  PROVE  /\ ~ Pursued(r) /\ Pursued(r)' /\ req'[r].user = u /\ req'[r].key = k
         /\ req'[r].reward = w /\ req'[r].at # "done" /\ answer' = answer
         /\ \A q \in Requests \ {r} : req'[q] = req[q]
<1>1. req \in [Requests -> [at : {"new"}] \cup Pursuits]
  BY DEF RedemptionIInv, RedemptionTypeOK, Pursuits
<1> QED BY <1>1 DEF Arrive, Pursued

\* What the server does leaves what was sent and answered as it was.
LEMMA ServerGoesOn ==
  ASSUME RedemptionIInv, Server, \A r \in Requests : Answered(r)
  PROVE  \A r \in Requests : /\ Pursued(r)' <=> Pursued(r)
                             /\ Pursued(r) => GoesOn(r)
                             /\ Answered(r)'
<1>1. ASSUME NEW w \in Rewards, Deactivate(w), NEW r \in Requests
      PROVE  (Pursued(r)' <=> Pursued(r)) /\ (Pursued(r) => GoesOn(r)) /\ Answered(r)'
  BY <1>1 DEF Deactivate, Pursued, GoesOn, Answered
<1>2. ASSUME NEW q \in Requests, Serve(q) \/ Throw(q), NEW r \in Requests
      PROVE  (Pursued(r)' <=> Pursued(r)) /\ (Pursued(r) => GoesOn(r)) /\ Answered(r)'
  <2>1. CASE r = q
    BY <1>2, <2>1, RequestGoesOn DEF GoesOn
  <2>2. CASE r # q
    <3>1. OthersKept(q)
      BY <1>2, OthersAlone DEF RedemptionIInv, LedgerIInv, LedgerTypeOK
    <3> QED BY <2>2, <3>1 DEF OthersKept, Pursued, GoesOn, Answered
  <2> QED BY <2>1, <2>2
<1> QED BY <1>1, <1>2 DEF Server

LEMMA ClickTypes ==
  ASSUME ShopTypes, NEW r \in Requests, sent[r].at = "sent"
  PROVE  /\ sent[r].by \in Browsers /\ sent[r].from \in IdemKeys /\ sent[r].key \in IdemKeys
         /\ sent[r].reward \in Rewards
BY DEF ShopTypes, Clicks

\* A step of a shop is one of its redemptions, or leaves them alone.
LEMMA ShopStep == ShopTypes /\ [ShopNext]_allVars => [RedemptionNext]_redemptionVars
<1> SUFFICES ASSUME ShopTypes, [ShopNext]_allVars PROVE [RedemptionNext]_redemptionVars
  OBVIOUS
<1>1. CASE UNCHANGED allVars
  BY <1>1 DEF allVars
<1>2. ASSUME NEW r \in Requests, Deliver(r) PROVE RedemptionNext
  <2>1. /\ OwnerOf[sent[r].by] \in Users /\ sent[r].key \in IdemKeys /\ sent[r].reward \in Rewards
    BY <1>2, BrowsersHaveOwners, ClickTypes DEF Deliver
  <2> QED BY <1>2, <2>1 DEF Deliver, RedemptionNext
<1>3. CASE Server
  BY <1>3 DEF Server, RedemptionNext
<1>4. ASSUME NEW b \in Browsers,
             \/ \E w \in Rewards : OpenDialog(b, w)
             \/ \E r \in Requests : OnConfirm(b, r)
             \/ Cancel(b) \/ Hide(b) \/ Redraw(b)
      PROVE  UNCHANGED redemptionVars
  BY <1>4 DEF OpenDialog, OnConfirm, Send, Cancel, Hide, Redraw
<1>5. ASSUME NEW r, Respond(r) \/ LoseAnswer(r) \/ Expire(r) PROVE UNCHANGED redemptionVars
  BY <1>5 DEF Respond, LoseAnswer, Expire, Settled
<1> QED BY <1>1, <1>2, <1>3, <1>4, <1>5 DEF ShopNext

LEMMA IdleRequests ==
  ASSUME ShopIInv, UNCHANGED redemptionVars
  PROVE  RedemptionIInv' /\ UNCHANGED <<req, answer>>
<1>1. RedemptionIInv /\ [RedemptionNext]_redemptionVars
  BY DEF ShopIInv
<1>2. RedemptionIInv'
  BY <1>1, RedemptionNextInv
<1> QED BY <1>2 DEF redemptionVars, ownVars

\* A new key belongs to its page alone, and pages lose none.
LEMMA MintedKey ==
  ASSUME ShopTypes, KeysFit, NEW b \in Browsers, NEW k \in IdemKeys, Mint(b, k)
  PROVE  /\ minted' \in [Browsers -> SUBSET IdemKeys] /\ k \in minted'[b]
         /\ \A c \in Browsers : minted[c] \subseteq minted'[c]
         /\ \A c, d \in Browsers : \A j \in minted'[c] : j \in minted'[d] => c = d
<1>1. \A c \in Browsers : k \notin minted[c]
  BY DEF Mint
<1>2. minted' = [minted EXCEPT ![b] = @ \cup {k}] /\ minted \in [Browsers -> SUBSET IdemKeys]
  BY DEF Mint, ShopTypes
<1>3. \A c \in Browsers : minted'[c] = IF c = b THEN minted[b] \cup {k} ELSE minted[c]
  BY <1>2
<1>4. \A c, d \in Browsers : \A j \in minted'[c] : j \in minted'[d] => c = d
  BY <1>1, <1>3 DEF KeysFit
<1> QED BY <1>2, <1>3, <1>4

LEMMA DrawnTypes ==
  ASSUME ShopTypes, NEW b \in Browsers, NEW p \in Pages, NEW x \in BOOLEAN, NEW y \in BOOLEAN,
         Draw(b, p, x, y)
  PROVE  drawn' \in [Browsers -> [page : Pages, pending : BOOLEAN, hidden : BOOLEAN]]
BY DEF Draw, ShopTypes

\* Nothing is sent, delivered or told.
LEMMA ScreenInv ==
  ASSUME ShopIInv, ShopTypes', KeysFit', UNCHANGED <<sent, told, redemptionVars>>,
         \A b \in Browsers : minted[b] \subseteq minted'[b]
  PROVE  ShopIInv'
<1>1. RedemptionIInv' /\ UNCHANGED <<req, answer>>
  BY IdleRequests
<1>2. ASSUME NEW r \in Requests PROVE SentFits(r)' /\ ToldFits(r)' /\ Answered(r)'
  <2>1. SentFits(r) /\ ToldFits(r) /\ Answered(r) /\ (sent[r].at = "sent" => sent[r].by \in Browsers)
    BY ClickTypes DEF ShopIInv
  <2> QED BY <1>1, <2>1 DEF SentFits, ToldFits, Answered, Pursued
<1> QED BY <1>1, <1>2 DEF ShopIInv

LEMMA OpenedInv ==
  ASSUME ShopIInv, NEW b \in Browsers, NEW w \in Rewards, OpenDialog(b, w)
  PROVE  ShopIInv'
<1>1. ShopTypes /\ KeysFit
  BY DEF ShopIInv
<1>2. PICK k \in IdemKeys, p \in Pages, x \in BOOLEAN, y \in BOOLEAN :
        /\ p.at = "open" /\ p.key = k
        /\ Mint(b, k) /\ page' = [page EXCEPT ![b] = p] /\ Draw(b, p, x, y)
  <2>1. ASSUME NEW k \in IdemKeys PROVE [at |-> "open", key |-> k, reward |-> w] \in Pages
    BY DEF Pages, Dialogs
  <2> QED BY <2>1 DEF OpenDialog, IsPending
<1>3. UNCHANGED <<sent, told, redemptionVars>>
  BY DEF OpenDialog
<1>4. /\ minted' \in [Browsers -> SUBSET IdemKeys] /\ k \in minted'[b]
      /\ \A c \in Browsers : minted[c] \subseteq minted'[c]
      /\ \A c, d \in Browsers : \A j \in minted'[c] : j \in minted'[d] => c = d
  BY <1>1, <1>2, MintedKey
<1>5. ShopTypes'
  <2>1. drawn' \in [Browsers -> [page : Pages, pending : BOOLEAN, hidden : BOOLEAN]]
    BY <1>1, <1>2, DrawnTypes
  <2> QED BY <1>1, <1>2, <1>3, <1>4, <2>1 DEF ShopTypes
<1>6. KeysFit'
  <2>1. \A c \in Browsers : page'[c] = IF c = b THEN p ELSE page[c]
    BY <1>1, <1>2 DEF ShopTypes
  <2> QED BY <1>1, <1>2, <1>4, <2>1 DEF KeysFit
<1> QED BY <1>3, <1>4, <1>5, <1>6, ScreenInv

\* Closing and drawing: no page gets a key.
LEMMA DrawnInv ==
  ASSUME ShopIInv, NEW b \in Browsers, Cancel(b) \/ Hide(b) \/ Redraw(b)
  PROVE  ShopIInv'
<1>1. ShopTypes /\ KeysFit /\ Closed \in Pages /\ page[b] \in Pages /\ drawn[b].page \in Pages
      /\ drawn[b].hidden \in BOOLEAN
  BY DEF ShopIInv, ShopTypes, Closed, Pages
<1>2. UNCHANGED <<minted, sent, told, redemptionVars>>
  BY DEF Cancel, Hide, Redraw
<1>3. \E p \in Pages, x \in BOOLEAN, y \in BOOLEAN : Draw(b, p, x, y)
  BY <1>1 DEF Cancel, Hide, Redraw, IsPending
<1>4. /\ page' \in [Browsers -> Pages]
      /\ \A c \in Browsers : page'[c] = Closed \/ page'[c] = page[c]
  BY <1>1 DEF Cancel, Hide, Redraw, ShopTypes
<1>5. ShopTypes'
  BY <1>1, <1>2, <1>3, <1>4, DrawnTypes DEF ShopTypes
<1>6. KeysFit'
  BY <1>1, <1>2, <1>4 DEF KeysFit, Closed
<1> QED BY <1>2, <1>5, <1>6, ScreenInv

\* A click is sent under a key of its page: the dialog's while the page holds it.
LEMMA ConfirmedInv ==
  ASSUME ShopIInv, NEW b \in Browsers, NEW r \in Requests, OnConfirm(b, r)
  PROVE  ShopIInv'
<1>1. ShopTypes /\ KeysFit /\ SentFits(r) /\ RedemptionIInv' /\ UNCHANGED <<req, answer>>
  BY IdleRequests DEF ShopIInv, OnConfirm, Send
<1>2. drawn[b].page \in Dialogs /\ page[b] \in Pages
  BY <1>1 DEF OnConfirm, IsClickable, ShopTypes, Pages
<1>3. PICK k \in IdemKeys :
        /\ Send(b, r, k)
        /\ \/ page[b].at = "open" /\ k = page[b].key /\ UNCHANGED minted
           \/ page[b].at = "closed" /\ Mint(b, k)
  BY <1>2 DEF OnConfirm, Pages, Dialogs
<1>4. /\ minted' \in [Browsers -> SUBSET IdemKeys] /\ k \in minted'[b]
      /\ \A c \in Browsers : minted[c] \subseteq minted'[c]
      /\ \A c, d \in Browsers : \A j \in minted'[c] : j \in minted'[d] => c = d
  <2>1. CASE UNCHANGED minted /\ k = page[b].key /\ page[b].at = "open"
    BY <1>1, <2>1 DEF ShopTypes, KeysFit
  <2>2. CASE Mint(b, k)
    BY <1>1, <2>2, MintedKey
  <2> QED BY <1>3, <2>1, <2>2
<1>5. PICK c : c = [at |-> "sent", by |-> b, from |-> drawn[b].page.key, key |-> k,
                    reward |-> drawn[b].page.reward, held |-> page[b] = drawn[b].page]
  OBVIOUS
<1>6. /\ sent[r] = Unsent /\ sent' = [sent EXCEPT ![r] = c] /\ UNCHANGED <<page, drawn, told>>
  BY <1>3, <1>5 DEF Send
<1>7. /\ c \in Clicks /\ c.at = "sent" /\ c.by = b /\ c.key = k
      /\ c.held => c.key = c.from
  <2>1. drawn[b].page.key \in IdemKeys /\ drawn[b].page.reward \in Rewards
        /\ drawn[b].page.at = "open"
    BY <1>2 DEF Dialogs
  <2>2. c.held => k = page[b].key
    BY <1>3, <1>5, <2>1
  <2> QED BY <1>5, <2>1, <2>2 DEF Clicks
<1>8. ShopTypes'
  BY <1>1, <1>4, <1>6, <1>7 DEF ShopTypes
<1>9. KeysFit'
  BY <1>1, <1>4, <1>6 DEF KeysFit
<1>10. sent'[r] = c /\ \A q \in Requests \ {r} : sent'[q] = sent[q]
  BY <1>1, <1>6 DEF ShopTypes
<1>11. ASSUME NEW q \in Requests PROVE SentFits(q)' /\ ToldFits(q)' /\ Answered(q)'
  <2>1. SentFits(q) /\ ToldFits(q) /\ Answered(q) /\ (sent[q].at = "sent" => sent[q].by \in Browsers)
    BY ClickTypes DEF ShopIInv
  <2>2. ToldFits(q)' /\ Answered(q)'
    BY <1>1, <1>6, <2>1 DEF ToldFits, Answered, Pursued
  <2>3. CASE q = r
    <3>1. ~ Pursued(r)
      BY <1>1, <1>6 DEF SentFits, Unsent
    <3>2. SentFits(r)'
      BY <1>1, <1>4, <1>7, <1>10, <3>1 DEF SentFits, Pursued
    <3> QED BY <2>2, <2>3, <3>2
  <2>4. CASE q # r
    <3>1. SentFits(q)'
      BY <1>1, <1>4, <1>6, <1>10, <2>1, <2>4 DEF SentFits, Pursued
    <3> QED BY <2>2, <3>1
  <2> QED BY <2>3, <2>4
<1> QED BY <1>1, <1>8, <1>9, <1>11 DEF ShopIInv

LEMMA DeliveredInv ==
  ASSUME ShopIInv, NEW r \in Requests, Deliver(r)
  PROVE  ShopIInv'
<1>1. /\ RedemptionIInv /\ ShopTypes /\ KeysFit /\ UNCHANGED <<page, drawn, minted, sent, told>>
      /\ sent[r].at = "sent" /\ Arrive(r, OwnerOf[sent[r].by], sent[r].key, sent[r].reward)
  BY DEF ShopIInv, Deliver, shopVars
<1>2. /\ ~ Pursued(r) /\ Pursued(r)' /\ req'[r].user = OwnerOf[sent[r].by]
      /\ req'[r].key = sent[r].key /\ req'[r].reward = sent[r].reward
      /\ req'[r].at # "done" /\ answer' = answer
      /\ \A q \in Requests \ {r} : req'[q] = req[q]
  BY <1>1, ArrivedRequest
<1>3. ShopTypes' /\ KeysFit'
  BY <1>1 DEF ShopTypes, KeysFit
<1>4. ASSUME NEW q \in Requests PROVE SentFits(q)' /\ ToldFits(q)' /\ Answered(q)'
  <2>1. SentFits(q) /\ ToldFits(q) /\ Answered(q)
    BY DEF ShopIInv
  <2>2. CASE q = r
    BY <1>1, <1>2, <2>1, <2>2 DEF SentFits, ToldFits, Answered
  <2>3. CASE q # r
    BY <1>1, <1>2, <2>1, <2>3 DEF SentFits, ToldFits, Answered, Pursued
  <2> QED BY <2>2, <2>3
<1>5. RedemptionIInv'
  <2>1. [RedemptionNext]_redemptionVars
    BY <1>1, ShopStep DEF ShopNext
  <2> QED BY <1>1, <2>1, RedemptionNextInv
<1> QED BY <1>3, <1>4, <1>5 DEF ShopIInv

\* The toast says of the answer what the answer says.
LEMMA RespondInv ==
  ASSUME ShopIInv, NEW r \in Requests, Respond(r) \/ LoseAnswer(r) \/ Expire(r)
  PROVE  ShopIInv'
<1>1. PICK x : /\ Settled(r, x)
               /\ \/ x = Copy(answer[r].status) /\ req[r].at = "done"
                  \/ x \in {"unreachable", "expired"}
  BY DEF Respond, LoseAnswer, Expire
<1>2. /\ ShopTypes /\ KeysFit /\ RedemptionIInv' /\ UNCHANGED <<req, answer, drawn, minted, sent>>
      /\ sent[r].at = "sent" /\ told' = [told EXCEPT ![r] = x]
      /\ page' = [page EXCEPT ![sent[r].by] = Closed]
  BY <1>1, IdleRequests DEF ShopIInv, Settled, IsUnsettled
<1>3. /\ x \in Outcomes
      /\ x = "spent" => Pursued(r) /\ answer[r].status = "FULFILLED"
      /\ x = "returned" => Pursued(r) /\ answer[r].status = "FAILED"
      /\ x = "untouched" => answer[r].status = "refused"
  <2>1. CASE x = Copy(answer[r].status) /\ req[r].at = "done"
    <3>1. /\ answer[r].status \in {"refused", "error", "RESERVED", "FULFILLED", "FAILED"}
          /\ Pursued(r)
      BY <2>1 DEF ShopIInv, Answered, RedemptionIInv, RedemptionTypeOK, Pursued
    <3> QED BY <2>1, <3>1 DEF Copy, Outcomes
  <2>2. CASE x \in {"unreachable", "expired"}
    BY <2>2 DEF Outcomes
  <2> QED BY <1>1, <2>1, <2>2
<1>4. /\ page' \in [Browsers -> Pages]
      /\ \A c \in Browsers : page'[c] = Closed \/ page'[c] = page[c]
  BY <1>2 DEF ShopTypes, Closed, Pages
<1>5. ShopTypes'
  BY <1>2, <1>3, <1>4 DEF ShopTypes
<1>6. KeysFit'
  BY <1>2, <1>4 DEF KeysFit, Closed
<1>7. ASSUME NEW q \in Requests PROVE SentFits(q)' /\ ToldFits(q)' /\ Answered(q)'
  <2>1. SentFits(q) /\ ToldFits(q) /\ Answered(q) /\ told'[q] = IF q = r THEN x ELSE told[q]
    BY <1>2 DEF ShopIInv, ShopTypes
  <2> QED BY <1>2, <1>3, <2>1 DEF SentFits, ToldFits, Answered, Pursued
<1> QED BY <1>2, <1>5, <1>6, <1>7 DEF ShopIInv

LEMMA ServerInv ==
  ASSUME ShopIInv, Server
  PROVE  ShopIInv'
<1>1. /\ RedemptionIInv /\ ShopTypes /\ KeysFit /\ UNCHANGED <<page, drawn, minted, sent, told>>
      /\ \A r \in Requests : Answered(r)
  BY DEF ShopIInv, Server, shopVars
<1>2. RedemptionIInv'
  <2>1. [RedemptionNext]_redemptionVars
    BY DEF Server, RedemptionNext
  <2> QED BY <1>1, <2>1, RedemptionNextInv
<1>3. ShopTypes' /\ KeysFit'
  BY <1>1 DEF ShopTypes, KeysFit
<1>4. ASSUME NEW r \in Requests PROVE SentFits(r)' /\ ToldFits(r)' /\ Answered(r)'
  <2>1. SentFits(r) /\ ToldFits(r) /\ AnswerFits(r)
    BY <1>1 DEF ShopIInv, RedemptionIInv
  <2>2. (Pursued(r)' <=> Pursued(r)) /\ (Pursued(r) => GoesOn(r)) /\ Answered(r)'
    BY <1>1, ServerGoesOn
  <2>3. SentFits(r)'
    BY <1>1, <2>1, <2>2 DEF SentFits, GoesOn
  <2>4. told[r] \in {"spent", "returned", "untouched"} => answer'[r] = answer[r]
    <3>1. told[r] \in {"spent", "returned", "untouched"} => req[r].at = "done"
      BY <2>1 DEF ToldFits, AnswerFits
    <3> QED BY <2>2, <3>1 DEF GoesOn, Pursued
  <2>5. ToldFits(r)'
    BY <1>1, <2>1, <2>2, <2>4 DEF ToldFits
  <2> QED BY <2>2, <2>3, <2>5
<1> QED BY <1>2, <1>3, <1>4 DEF ShopIInv

LEMMA ShopInitInv == ShopInit => ShopIInv
<1> SUFFICES ASSUME ShopInit PROVE ShopIInv
  OBVIOUS
<1>1. RedemptionIInv
  BY RedemptionInitInv DEF ShopInit
<1>2. ShopTypes
  BY DEF ShopInit, ShopTypes, Pages, Closed, Unsent, Outcomes
<1>3. ASSUME NEW r \in Requests PROVE SentFits(r) /\ ToldFits(r) /\ Answered(r)
  BY DEF ShopInit, RedemptionInit, Pursued, SentFits, ToldFits, Answered, Unsent
<1>4. KeysFit
  BY DEF ShopInit, KeysFit, Closed
<1> QED BY <1>1, <1>2, <1>3, <1>4 DEF ShopIInv

LEMMA ShopNextInv == ShopIInv /\ [ShopNext]_allVars => ShopIInv'
<1> SUFFICES ASSUME ShopIInv, [ShopNext]_allVars PROVE ShopIInv'
  OBVIOUS
<1>1. CASE UNCHANGED allVars
  <2>1. /\ UNCHANGED <<sent, told, redemptionVars>> /\ UNCHANGED <<page, drawn, minted>>
        /\ ShopTypes /\ KeysFit
    BY <1>1 DEF allVars, shopVars, ShopIInv
  <2>2. ShopTypes' /\ KeysFit'
    BY <2>1 DEF ShopTypes, KeysFit
  <2> QED BY <2>1, <2>2, ScreenInv
<1>2. CASE ShopNext
  BY <1>2, OpenedInv, ConfirmedInv, DrawnInv, DeliveredInv, RespondInv, ServerInv DEF ShopNext
<1> QED BY <1>1, <1>2

(* A page sends nothing but keys that it minted and no other page has, a      *)
(* click on a dialog that the page still holds carries that dialog's key, and *)
(* what was told of a request is the answer it got (RewardsPage).             *)
THEOREM ShopSafe == ShopSpec => []ShopIInv
<1> QED BY ShopInitInv, ShopNextInv, PTL DEF ShopSpec

(* Whatever its dialogs do, the shop puts to the server only what Redemption  *)
(* allows, so what is proved of redemptions holds behind it.                  *)
THEOREM ShopIsRedemption == ShopSpec => RedemptionSpec
<1>1. ShopInit => RedemptionInit
  BY DEF ShopInit
<1>2. ShopIInv /\ [ShopNext]_allVars => [RedemptionNext]_redemptionVars
  BY ShopStep DEF ShopIInv
<1> QED BY ShopSafe, <1>1, <1>2, PTL DEF ShopSpec, RedemptionSpec

\* Whoever moved points has the redemption of its key.
LEMMA DebitIsSeen ==
  ASSUME ShopIInv, PointsFollowRedemptions, NEW r \in Requests, Debits(r) \cup Refunds(r) # {}
  PROVE  /\ Pursued(r) /\ Slot(r) \in Redemptions /\ Seen(Slot(r)).of = r
         /\ Bought(r) => Seen(Slot(r)).status # "FAILED"
<1>1. PICK s \in Redemptions : Seen(s).of = r
  BY DEF PointsFollowRedemptions
<1>2. Slot(r) = s /\ Pursued(r)
  BY <1>1 DEF Redemptions, Slots, Seen, ShopIInv, RedemptionIInv, RowFits, Recorded
<1>3. Bought(r) => Seen(s).status # "FAILED"
  BY <1>1 DEF PointsFollowRedemptions, Bought
<1> QED BY <1>1, <1>2, <1>3

\* Requests carry one key exactly when they ask for one redemption.
LEMMA OneSlot ==
  ASSUME ShopIInv, NEW q \in Requests, NEW r \in Requests, Pursued(q), Pursued(r)
  PROVE  sent[q].key = sent[r].key <=> Slot(q) = Slot(r)
<1>1. /\ sent[q].at = "sent" /\ sent[r].at = "sent" /\ SentFits(q) /\ SentFits(r)
      /\ sent[q].by \in Browsers /\ sent[r].by \in Browsers /\ KeysFit
  BY ClickTypes DEF ShopIInv, SentFits
<1>2. /\ Slot(q) = <<OwnerOf[sent[q].by], sent[q].key>>
      /\ Slot(r) = <<OwnerOf[sent[r].by], sent[r].key>>
  BY <1>1 DEF SentFits, Slot
<1>3. sent[q].key = sent[r].key => sent[q].by = sent[r].by
  BY <1>1 DEF SentFits, KeysFit
<1> QED BY <1>2, <1>3

LEMMA OneBuyPerKey ==
  ASSUME ShopIInv, PointsFollowRedemptions, NEW k, NEW rs \in SUBSET Carrying(k)
  PROVE  BuyOnce(rs)
<1> DEFINE S == {r \in rs : Bought(r)}
<1>1. ASSUME NEW q \in S, NEW r \in S PROVE q = r
  <2>1. q \in Requests /\ r \in Requests /\ Bought(q) /\ Bought(r) /\ sent[q].key = sent[r].key
    BY DEF Carrying
  <2>2. Debits(q) \cup Refunds(q) # {} /\ Debits(r) \cup Refunds(r) # {}
    BY <2>1 DEF Bought
  <2>3. Pursued(q) /\ Pursued(r) /\ Seen(Slot(q)).of = q /\ Seen(Slot(r)).of = r
    BY <2>1, <2>2, DebitIsSeen
  <2> QED BY <2>1, <2>3, OneSlot
<1>2. CASE S = {}
  BY <1>2, FS_EmptySet DEF BuyOnce
<1>3. ASSUME NEW r \in S PROVE Cardinality(S) <= 1
  <2>1. S = {r}
    BY <1>1, <1>3
  <2>2. Cardinality({r}) = 1
    BY FS_Singleton
  <2> QED BY <2>1, <2>2
<1> QED BY <1>2, <1>3 DEF BuyOnce

(* All the clicks on a dialog that the page still holds buy at most once      *)
(* together, for any number of pages, requests and keys (HeldDialogBuysOnce;  *)
(* they carry the key minted when it opened, and the server has one           *)
(* redemption per user and key).                                              *)
THEOREM HeldDialogsBuyOnce == ShopSpec => []HeldDialogBuysOnce
<1>1. ASSUME ShopIInv, PointsFollowRedemptions PROVE HeldDialogBuysOnce
  <2> SUFFICES ASSUME NEW k \in IdemKeys PROVE BuyOnce({r \in ClicksOf(k) : sent[r].held})
    BY DEF HeldDialogBuysOnce
  <2>1. {r \in ClicksOf(k) : sent[r].held} \in SUBSET Carrying(k)
    BY <1>1 DEF ClicksOf, Carrying, ShopIInv, SentFits
  <2> QED BY <1>1, <2>1, OneBuyPerKey
<1> QED BY ShopSafe, ShopIsRedemption, PointsFollow, <1>1, PTL

(* What a user is told of the points of a request stays true                  *)
(* (WhatIsToldHolds), whatever the other requests under its key have done     *)
(* since (describeRedemptionOutcome, describeRedemptionError); and when what  *)
(* is told may be false, for want of an answer, points that are gone bought   *)
(* one redemption, which is on record.                                        *)
THEOREM ToldIsTrue == ShopSpec => []WhatIsToldHolds
<1>1. ASSUME ShopIInv, PointsFollowRedemptions, AnswersAreTrue PROVE WhatIsToldHolds
  <2> SUFFICES ASSUME NEW r \in Requests, NEW rs, rs = Carrying(sent[r].key)
               PROVE  /\ told[r] = "spent" => \E q \in rs : Bought(q) /\ BuyOnce(rs)
                      /\ told[r] = "returned" => /\ \E q \in rs : Refunds(q) # {}
                                                 /\ \A q \in rs : ~ Bought(q)
                      /\ told[r] = "untouched" => Debits(r) = {}
                      /\ BuyOnce(rs) /\ \A q \in rs : Bought(q) => OnRecord(q)
    BY DEF WhatIsToldHolds
  <2>1. ToldFits(r)
    BY <1>1 DEF ShopIInv
  <2>2. ASSUME Pursued(r), answer[r].status \in {"FULFILLED", "FAILED"}
        PROVE  \E q \in rs : /\ Slot(r) \in Redemptions /\ Seen(Slot(r)).of = q
                             /\ Seen(Slot(r)).status = answer[r].status
    <3>1. /\ Slot(r) \in Redemptions /\ Seen(Slot(r)).status = answer[r].status
      BY <1>1, <2>2 DEF AnswersAreTrue
    <3>2. PICK q : q = Seen(Slot(r)).of
      OBVIOUS
    <3>3. q \in Requests /\ Pursued(q) /\ Slot(q) = Slot(r)
      BY <1>1, <3>1, <3>2 DEF Redemptions, Slots, Seen, ShopIInv, RedemptionIInv, RowFits, Recorded
    <3>4. sent[q].key = sent[r].key
      BY <1>1, <2>2, <3>3, OneSlot
    <3>5. sent[q].at = "sent"
      BY <1>1, <3>3 DEF ShopIInv, SentFits
    <3> QED BY <3>1, <3>2, <3>3, <3>4, <3>5 DEF Carrying
  <2>3. ASSUME told[r] = "spent" PROVE \E q \in rs : Bought(q) /\ BuyOnce(rs)
    <3>1. PICK q \in rs : /\ Slot(r) \in Redemptions /\ Seen(Slot(r)).of = q
                          /\ Seen(Slot(r)).status = "FULFILLED"
      BY <2>1, <2>2, <2>3 DEF ToldFits
    <3>2. Bought(q)
      BY <1>1, <3>1 DEF PointsFollowRedemptions, Bought
    <3>3. BuyOnce(rs)
      BY <1>1, OneBuyPerKey
    <3> QED BY <3>2, <3>3
  <2>4. ASSUME told[r] = "returned"
        PROVE  (\E q \in rs : Refunds(q) # {}) /\ \A q \in rs : ~ Bought(q)
    <3>1. Pursued(r) /\ answer[r].status = "FAILED"
      BY <2>1, <2>4 DEF ToldFits
    <3>2. PICK q \in rs : /\ Slot(r) \in Redemptions /\ Seen(Slot(r)).of = q
                          /\ Seen(Slot(r)).status = "FAILED"
      BY <2>2, <3>1
    <3>3. Refunds(q) # {}
      BY <1>1, <3>2 DEF PointsFollowRedemptions
    <3>4. ASSUME NEW p \in rs, Bought(p) PROVE FALSE
      <4>1. p \in Requests /\ sent[p].key = sent[r].key /\ Debits(p) \cup Refunds(p) # {}
        BY <3>4 DEF Carrying, Bought
      <4>2. Pursued(p) /\ Seen(Slot(p)).status # "FAILED"
        BY <1>1, <3>4, <4>1, DebitIsSeen
      <4>3. Slot(p) = Slot(r)
        BY <1>1, <3>1, <4>1, <4>2, OneSlot
      <4> QED BY <3>2, <4>2, <4>3
    <3> QED BY <3>3, <3>4
  <2>5. ASSUME told[r] = "untouched" PROVE Debits(r) = {}
    BY <1>1, <2>1, <2>5 DEF ToldFits, AnswersAreTrue, PointsFollowRedemptions
  <2>6. ASSUME NEW q \in rs, Bought(q) PROVE OnRecord(q)
    <3>1. q \in Requests /\ sent[q].at = "sent" /\ SentFits(q) /\ Debits(q) \cup Refunds(q) # {}
      BY <1>1, <2>6 DEF Carrying, Bought, ShopIInv
    <3>2. /\ Pursued(q) /\ Slot(q) \in Redemptions /\ Seen(Slot(q)).of = q
          /\ Seen(Slot(q)).status # "FAILED"
      BY <1>1, <2>6, <3>1, DebitIsSeen
    <3>3. Slot(q) = <<OwnerOf[sent[q].by], sent[q].key>>
      BY <3>1, <3>2 DEF SentFits, Slot
    <3>4. Seen(Slot(q)).reward = sent[q].reward
      <4>1. Recorded(Slot(q)) /\ Seen(Slot(q)) # Absent
        BY <1>1, <3>2 DEF ShopIInv, RedemptionIInv, RowFits, Slots, Redemptions, Seen
      <4> QED BY <3>1, <3>2, <4>1 DEF Recorded, SentFits
    <3> QED BY <3>2, <3>3, <3>4 DEF OnRecord
  <2>7. BuyOnce(rs)
    BY <1>1, OneBuyPerKey
  <2> QED BY <2>3, <2>4, <2>5, <2>6, <2>7
<1> QED BY ShopSafe, ShopIsRedemption, PointsFollow, AnswersHold, <1>1, PTL
=============================================================================
