---------------------------- MODULE WebhookProofs ----------------------------
(* Proofs about Webhook and Backfill, for any number of posts, backfills,     *)
(* events, users and rules: they use the ledger as Ledger specifies, a        *)
(* delivery marked PROCESSED has been credited, points come only from         *)
(* deliveries on file, what a partner was told stays true, and a backfill     *)
(* replays only what is parked.                                               *)
EXTENDS Backfill, LedgerProofs

TxsOf(p) == {captureTx(p), processTx(p)}
CreditOf(e) == [user |-> UserOf[e], delta |-> Worth[TypeOf[e]], key |-> e,
                reverses |-> NoEntry]

\* Facts about an event that, once they hold, hold for good.
Filed(e) == Latest(deliveries[e]) # Absent
Sound(e) == Filed(e) /\ Latest(deliveries[e]).valid = TRUE
Begun(e) == age[e] # "early"
Proper(e) == Sound(e) /\ Begun(e) /\ UserOf[e] \in known /\ TypeOf[e] \in priced
\* An entry of the event that transaction x sees.
Paid(x, e) == \E i \in Ids : rows[i].key = e /\ SeenBy(x, rows[i].by)

RowFits(e) == LET c == deliveries[e] IN
  /\ clog[c.by] # "new"
  /\ c.was # Absent => c.now # Absent /\ c.now.valid = c.was.valid
  /\ Filed(e) /\ Latest(c).status = "PROCESSED" => Paid(Setup, e)
  /\ IsActive(c.by) /\ c.now # Absent /\ c.now.status = "PROCESSED" => Paid(c.by, e)

CreditFits(i) ==
  \A e \in Events : rows[i].key = e =>
    /\ rows[i].user = UserOf[e] /\ rows[i].delta = Worth[TypeOf[e]]
    /\ Proper(e)

\* The call of transaction t appends the event's credit, or finds it appended.
Wrote(t, e) == LET i == call[t].id IN
  i \in Ids /\ rows[i].key = e /\ SeenBy(t, rows[i].by)
CallFits(t, e) ==
  /\ call[t].at \in {"lock", "claim", "move", "done"}
  /\ call[t].at \in {"lock", "claim", "move"} => call[t].in = CreditOf(e)
  /\ call[t].at \in {"move", "done"} => Wrote(t, e)

\* What processDelivery has checked by each of its stages.
WorkAt(t, e) ==
  /\ Filed(e)
  /\ work[t].at \in {"note", "user", "rule", "credit"} => Sound(e)
  /\ work[t].at \in {"user", "rule", "credit"} => Begun(e)
  /\ work[t].at \in {"rule", "credit"} => UserOf[e] \in known
  /\ work[t].at = "credit" => TypeOf[e] \in priced /\ CallFits(t, e)
  /\ work[t].at \in {"mark", "done"} /\ work[t].verdict = "PROCESSED" => Paid(t, e)
WorkFits(t) ==
  \A e \in Events : work[t].at # "idle" /\ work[t].event = e => WorkAt(t, e)

\* Transaction t has the delivery's row, and its version of it is a row.
Holding(t, e) == deliveries[e].by = t /\ deliveries[e].now # Absent
PostAt(p, e) ==
  /\ post[p].at \in {"capture", "captured"} => IsActive(captureTx(p))
  /\ post[p].at = "capture" => post[p].seen = "RECEIVED"
  /\ post[p].at = "captured" =>
       /\ Holding(captureTx(p), e)
       /\ post[p].seen = "PROCESSED" => Paid(Setup, e)
  /\ post[p].at \in {"process", "processing", "failing"} => Filed(e)
  /\ post[p].at = "processing" =>
       work[processTx(p)].at # "idle" /\ work[processTx(p)].event = e
  /\ answer[p] \in Terminal => Filed(e)
  /\ answer[p] = "PROCESSED" => Paid(Setup, e)
PostFits(p) ==
  /\ post[p].at = "new" => answer[p] = "none"
  /\ \A e \in Events : post[p].at # "new" /\ post[p].event = e => PostAt(p, e)

Work == [at : {"idle"}]
  \cup [at : {"parse", "note", "user", "rule", "credit"}, event : Events]
  \cup [at : {"mark", "done"}, event : Events, verdict : Terminal]
PostStages == {"capture", "captured", "process", "processing", "failing", "done"}
Post == [at : {"new"}]
  \cup [at : PostStages, event : Events, valid : BOOLEAN, seen : Statuses]
WebhookTypeOK ==
  /\ deliveries \in [Events -> Cell(Delivery \cup {Absent})] /\ received \in Nat
  /\ known \subseteq Users /\ priced \subseteq Types
  /\ age \in [Events -> {"early", "fresh", "old"}]
  /\ work \in [Tx -> Work] /\ post \in [Posts -> Post]
  /\ answer \in [Posts -> {"none", "error"} \cup Terminal]

WebhookIInv ==
  /\ LedgerIInv /\ WebhookTypeOK
  /\ \A e \in Events : RowFits(e)
  /\ \A i \in Ids : CreditFits(i)
  /\ \A t \in Tx : WorkFits(t)
  /\ \A p \in Posts : PostFits(p)

USE SetupIsNotATx
-----------------------------------------------------------------------------
(* Transactions of posts, and the shapes of their state.                      *)

LEMMA TxTypes ==
  ASSUME NEW p \in Posts
  PROVE  /\ captureTx(p) \in Tx /\ processTx(p) \in Tx
         /\ captureTx(p) \in Xids /\ processTx(p) \in Xids
         /\ captureTx(p) # Setup /\ processTx(p) # Setup
         /\ \A q \in Posts : /\ captureTx(p) # processTx(q)
                             /\ captureTx(p) = captureTx(q) => p = q
                             /\ processTx(p) = processTx(q) => p = q
<1>1. captureTx(p) \in Tx /\ processTx(p) \in Tx
  BY PostsRunTransactions
<1> QED BY <1>1 DEF Xids, captureTx, processTx

LEMMA TxsOfPost ==
  ASSUME NEW p \in Posts
  PROVE  /\ TxsOf(p) \in SUBSET Tx /\ {p} \in SUBSET Posts
         /\ \A q \in Posts \ {p} : captureTx(q) \notin TxsOf(p) /\ processTx(q) # processTx(p)
BY TxTypes DEF TxsOf

LEMMA WorkTypes ==
  ASSUME WebhookTypeOK, NEW t \in Tx, work[t].at # "idle"
  PROVE  /\ work[t] \in Work /\ work[t].event \in Events
         /\ work[t].at \in {"mark", "done"} => work[t].verdict \in Terminal
<1>1. work[t] \in Work
  BY DEF WebhookTypeOK
<1> QED BY <1>1 DEF Work

LEMMA PostTypes ==
  ASSUME WebhookTypeOK, NEW p \in Posts, post[p].at # "new"
  PROVE  /\ post[p] \in Post /\ post[p].event \in Events
         /\ post[p].seen \in Statuses /\ post[p].valid \in BOOLEAN
<1>1. post[p] \in Post
  BY DEF WebhookTypeOK
<1> QED BY <1>1 DEF Post

LEMMA DeliveryTypes ==
  ASSUME WebhookTypeOK, NEW e \in Events
  PROVE  /\ deliveries[e] \in Cell(Delivery \cup {Absent})
         /\ deliveries[e].by \in Xids
         /\ deliveries[e].was \in Delivery \cup {Absent}
         /\ deliveries[e].now \in Delivery \cup {Absent}
         /\ Latest(deliveries[e]) \in Delivery \cup {Absent}
<1>1. deliveries[e] \in Cell(Delivery \cup {Absent})
  BY DEF WebhookTypeOK
<1> QED BY <1>1 DEF Cell, Latest

LEMMA PaidStays ==
  ASSUME Decided, Grown, NEW x \in Xids, NEW e, Paid(x, e), LedgerTypeOK
  PROVE  Paid(x, e)'
<1>1. PICK i \in Ids : rows[i].key = e /\ SeenBy(x, rows[i].by)
  BY DEF Paid
<1>2. i \in Ids' /\ rows'[i] = rows[i] /\ rows[i].by \in Xids
  BY RowTypes DEF Grown
<1>3. SeenBy(x, rows[i].by)'
  BY <1>1, <1>2 DEF Decided, SeenBy, IsCommitted
<1> QED BY <1>1, <1>2, <1>3 DEF Paid

\* What x wrote or saw, everybody sees once x has committed.
LEMMA PaidCommitted ==
  ASSUME NEW x, NEW e, Paid(x, e), IsCommitted(x)
  PROVE  Paid(Setup, e)
BY DEF Paid, SeenBy
-----------------------------------------------------------------------------
(* What a step does to the deliveries from the transactions in X, and to the  *)
(* part of nobody else: this is all that the others' invariant rests on.      *)

RowWritten(e, t, v) ==
  /\ IsActive(t) /\ ~ Waits(t, deliveries[e])
  /\ deliveries'[e] = Written(t, deliveries[e], v)
  /\ LET was == Locked(t, deliveries[e]).was IN was # Absent => v.valid = was.valid
  /\ v.status = "PROCESSED" => Paid(t, e)
RowFailed(e) ==
  /\ ~ IsActive(deliveries[e].by) /\ Filed(e)
  /\ deliveries'[e] = Autocommitted([Latest(deliveries[e]) EXCEPT !.status = "FAILED"])
RowStep(X, e) ==
  \/ deliveries'[e] = deliveries[e]
  \/ UNCHANGED clog /\ \E t \in X, v \in Delivery : RowWritten(e, t, v)
  \/ UNCHANGED clog /\ RowFailed(e)

\* What is known of an event remains known.
EventStays(e) ==
  /\ Filed(e) => Filed(e)'
  /\ Sound(e) => Sound(e)'
  /\ Begun(e) => Begun(e)'
  /\ UserOf[e] \in known => UserOf[e] \in known'
  /\ TypeOf[e] \in priced => TypeOf[e] \in priced'
  /\ \A x \in Xids : Paid(x, e) => Paid(x, e)'

LEMMA RowKept ==
  ASSUME LedgerIInv, LedgerIInv', WebhookTypeOK, Decided, Grown,
         NEW e \in Events, RowFits(e), deliveries'[e] = deliveries[e]
  PROVE  RowFits(e)' /\ (Filed(e) => Filed(e)') /\ (Sound(e) => Sound(e)')
<1>1. PICK c : c = deliveries[e]
  OBVIOUS
<1>2. deliveries'[e] = c /\ c.by \in Xids
  BY <1>1, DeliveryTypes
<1>3. clog[Setup] = "committed" /\ clog'[Setup] = "committed" /\ Setup \in Xids
  BY DEF LedgerIInv, Xids
<1>4. /\ clog[c.by] # "new" /\ clog'[c.by] # "new"
      /\ \/ clog'[c.by] = clog[c.by]
         \/ clog[c.by] = "active" /\ clog'[c.by] \in {"committed", "aborted"}
  BY <1>1, <1>2 DEF RowFits, Decided
<1>5. c.was # Absent => c.now # Absent /\ c.now.valid = c.was.valid
  BY <1>1 DEF RowFits
<1>6. Filed(e) => Filed(e)'
  BY <1>1, <1>2, <1>4, <1>5 DEF Filed, Latest, IsCommitted
<1>7. Sound(e) => Sound(e)'
  BY <1>1, <1>2, <1>4, <1>5, <1>6 DEF Sound, Filed, Latest, IsCommitted
<1>8. \A x \in Xids : Paid(x, e) => Paid(x, e)'
  BY PaidStays DEF LedgerIInv
<1>9. IsActive(c.by) /\ c.now # Absent /\ c.now.status = "PROCESSED" => Paid(c.by, e)
  BY <1>1 DEF RowFits
<1>10. ASSUME Filed(e)', Latest(c)'.status = "PROCESSED" PROVE Paid(Setup, e)'
  <2>1. CASE Latest(c)' = Latest(c)
    <3>1. Filed(e) /\ Latest(deliveries[e]).status = "PROCESSED"
      BY <1>1, <1>2, <1>10, <2>1 DEF Filed
    <3> QED BY <1>3, <1>8, <3>1 DEF RowFits
  <2>2. CASE Latest(c)' # Latest(c)
    <3>1. clog[c.by] = "active" /\ clog'[c.by] = "committed" /\ Latest(c)' = c.now
      BY <1>4, <2>2 DEF Latest, IsCommitted
    <3>2. Paid(c.by, e)
      BY <1>2, <1>9, <1>10, <3>1 DEF IsActive, Filed
    <3>3. Paid(c.by, e)'
      BY <1>2, <1>8, <3>2
    <3> QED BY <3>1, <3>3 DEF Paid, SeenBy, IsCommitted
  <2> QED BY <2>1, <2>2
<1>11. IsActive(c.by)' => IsActive(c.by)
  BY <1>4 DEF IsActive
<1>12. IsActive(c.by)' /\ c.now # Absent /\ c.now.status = "PROCESSED" => Paid(c.by, e)'
  BY <1>2, <1>8, <1>9, <1>11
<1> QED BY <1>2, <1>4, <1>5, <1>6, <1>7, <1>10, <1>12 DEF RowFits

LEMMA RowRewritten ==
  ASSUME LedgerIInv, LedgerIInv', WebhookTypeOK, Decided, Grown,
         NEW e \in Events, RowFits(e), UNCHANGED clog,
         NEW t \in Tx, NEW v \in Delivery, RowWritten(e, t, v)
  PROVE  RowFits(e)' /\ (Filed(e) => Filed(e)') /\ (Sound(e) => Sound(e)')
<1>1. PICK c, d : c = deliveries[e] /\ d = deliveries'[e]
  OBVIOUS
<1>2. c \in Cell(Delivery \cup {Absent}) /\ t \in Xids
  BY <1>1, DeliveryTypes DEF Xids
<1>3. IsActive(t) /\ d = Written(t, c, v) /\ v # Absent
  BY <1>1, AbsentIsNoRow DEF RowWritten
<1>4. PICK was : was = Locked(t, c).was
  OBVIOUS
<1>5. d = [was |-> was, now |-> v, by |-> t]
  BY <1>2, <1>3, <1>4 DEF Written, Locked, Cell
<1>6. was = Latest(c)
  BY <1>2, <1>3, <1>4 DEF Locked, Latest, IsCommitted, IsActive
<1>7. was # Absent => v.valid = was.valid
  BY <1>1, <1>4 DEF RowWritten
<1>8. Latest(d)' = was
  BY <1>3, <1>5 DEF Latest, IsCommitted, IsActive
<1>9. (Filed(e) => Filed(e)') /\ (Sound(e) => Sound(e)')
  BY <1>1, <1>6, <1>8 DEF Filed, Sound
<1>10. \A x \in Xids : Paid(x, e) => Paid(x, e)'
  BY PaidStays DEF LedgerIInv
<1>11. Filed(e)' /\ Latest(d)'.status = "PROCESSED" => Paid(Setup, e)'
  <2>1. Setup \in Xids
    BY DEF Xids
  <2> QED BY <1>1, <1>6, <1>8, <1>10, <2>1 DEF RowFits, Filed
<1>12. v.status = "PROCESSED" => Paid(t, e)'
  BY <1>2, <1>10 DEF RowWritten
<1>13. clog'[t] # "new" /\ d.by = t /\ d.was = was /\ d.now = v
  BY <1>3, <1>5 DEF IsActive
<1> QED BY <1>1, <1>3, <1>7, <1>9, <1>11, <1>12, <1>13 DEF RowFits

LEMMA RowGivenUp ==
  ASSUME LedgerIInv, LedgerIInv', WebhookTypeOK, NEW e \in Events, RowFailed(e)
  PROVE  RowFits(e)' /\ Filed(e)' /\ (Sound(e) => Sound(e)')
<1>1. PICK v : v = Latest(deliveries[e])
  OBVIOUS
<1>2. v \in Delivery
  BY <1>1, DeliveryTypes DEF RowFailed, Filed
<1>3. PICK w : w = [v EXCEPT !.status = "FAILED"]
  OBVIOUS
<1>4. /\ w.valid = v.valid /\ w.status = "FAILED" /\ w # Absent
      /\ deliveries'[e] = [was |-> w, now |-> w, by |-> Setup]
  <2>1. w \in Delivery /\ w.valid = v.valid /\ w.status = "FAILED"
    BY <1>2, <1>3 DEF Delivery, Statuses
  <2>2. deliveries'[e] = Autocommitted(w)
    BY <1>1, <1>3 DEF RowFailed
  <2> QED BY <2>1, <2>2, AbsentIsNoRow DEF Autocommitted, Loaded
<1>5. clog'[Setup] = "committed"
  BY DEF LedgerIInv
<1>6. Latest(deliveries[e])' = w
  BY <1>4 DEF Latest
<1>7. deliveries'[e].by = Setup /\ deliveries'[e].now = w /\ deliveries'[e].was = w
  BY <1>4
<1> QED BY <1>1, <1>4, <1>5, <1>6, <1>7 DEF RowFits, Filed, Sound, IsActive

LEMMA RowsFit ==
  ASSUME LedgerIInv, LedgerIInv', WebhookTypeOK, Decided, Grown, NEW X \in SUBSET Tx,
         NEW e \in Events, RowFits(e), RowStep(X, e)
  PROVE  RowFits(e)' /\ (Filed(e) => Filed(e)') /\ (Sound(e) => Sound(e)')
BY RowKept, RowRewritten, RowGivenUp DEF RowStep

\* Delivery rows that other transactions hold stay theirs.
LEMMA HoldingStays ==
  ASSUME NEW X \in SUBSET Tx, NEW x \in Tx \ X, NEW e \in Events, RowStep(X, e),
         IsActive(x), deliveries[e].by = x
  PROVE  deliveries'[e] = deliveries[e]
<1>1. \A t \in X : Waits(t, deliveries[e])
  BY DEF Waits
<1> QED BY <1>1 DEF RowStep, RowWritten, RowFailed

LEMMA WorkStays ==
  ASSUME LedgerIInv, WebhookTypeOK, Decided, Grown, \A e \in Events : EventStays(e),
         NEW t \in Tx, WorkFits(t), work'[t] = work[t], call'[t] = call[t]
  PROVE  WorkFits(t)'
<1> SUFFICES ASSUME NEW e \in Events, work[t].at # "idle", work[t].event = e
             PROVE  WorkAt(t, e)'
  BY DEF WorkFits
<1>1. WorkAt(t, e) /\ EventStays(e) /\ t \in Xids
  BY DEF WorkFits, Xids
<1>2. CallFits(t, e) => CallFits(t, e)'
  <2> SUFFICES ASSUME Wrote(t, e) PROVE Wrote(t, e)'
    BY DEF CallFits
  <2>1. PICK i : i = call[t].id
    OBVIOUS
  <2>2. i \in Ids /\ rows[i].key = e /\ SeenBy(t, rows[i].by)
    BY <2>1 DEF Wrote
  <2>3. i \in Ids' /\ rows'[i] = rows[i] /\ rows[i].by \in Xids
    BY <2>2, RowTypes DEF Grown, LedgerIInv
  <2>4. SeenBy(t, rows[i].by)'
    BY <2>2, <2>3 DEF Decided, SeenBy, IsCommitted
  <2> QED BY <2>1, <2>2, <2>3, <2>4 DEF Wrote
<1> QED BY <1>1, <1>2 DEF WorkAt, EventStays

LEMMA PostStays ==
  ASSUME WebhookTypeOK, \A e \in Events : EventStays(e),
         NEW p \in Posts, PostFits(p), post'[p] = post[p], answer'[p] = answer[p],
         post[p].at = "processing" => /\ work'[processTx(p)].at # "idle"
                                      /\ work'[processTx(p)].event = post[p].event,
         IsActive(captureTx(p)) =>
           /\ IsActive(captureTx(p))'
           /\ \A e \in Events : Holding(captureTx(p), e) => Holding(captureTx(p), e)'
  PROVE  PostFits(p)'
<1> SUFFICES ASSUME NEW e \in Events, post[p].at # "new", post[p].event = e
             PROVE  PostAt(p, e)'
  BY DEF PostFits
<1>1. PostAt(p, e) /\ EventStays(e) /\ Setup \in Xids
  BY DEF PostFits, Xids
<1>2. PICK t, x : t = captureTx(p) /\ x = processTx(p)
  OBVIOUS
<1>3. Paid(Setup, e) => Paid(Setup, e)'
  BY <1>1 DEF EventStays
<1>4. /\ post[p].at \in {"capture", "captured"} => IsActive(t)'
      /\ post[p].at = "captured" => Holding(t, e)'
  BY <1>1, <1>2 DEF PostAt
<1>5. post[p].at = "processing" => work'[x].at # "idle" /\ work'[x].event = e
  BY <1>2
<1> QED BY <1>1, <1>2, <1>3, <1>4, <1>5 DEF PostAt, EventStays

\* Transactions other than those in X, and rows they hold, are left alone.
Outside(X) ==
  /\ \A t \in Tx \ X : work'[t] = work[t] /\ clog'[t] = clog[t]
  /\ \A e \in Events : RowStep(X, e)
\* And so are the world, posts other than those in P, and calls but x's.
Touches(P, X, x) ==
  /\ UNCHANGED world /\ Outside(X)
  /\ \A q \in Posts \ P : post'[q] = post[q] /\ answer'[q] = answer[q]
  /\ \A t \in Tx \ {x} : work'[t] = work[t] /\ call'[t] = call[t]
KeepsEvent(t) == work'[t].at # "idle" /\ work'[t].event = work[t].event

LEMMA EventsStay ==
  ASSUME WebhookIInv, LedgerIInv', [LedgerNext]_ledgerVars, NEW P, NEW X \in SUBSET Tx,
         NEW x, Touches(P, X, x)
  PROVE  \A e \in Events : RowFits(e)' /\ EventStays(e)
<1> SUFFICES ASSUME NEW e \in Events PROVE RowFits(e)' /\ EventStays(e)
  OBVIOUS
<1>1. LedgerIInv /\ LedgerTypeOK /\ WebhookTypeOK /\ RowFits(e) /\ Decided /\ Grown
  BY LedgerGrows DEF WebhookIInv, LedgerIInv
<1>2. RowFits(e)' /\ (Filed(e) => Filed(e)') /\ (Sound(e) => Sound(e)')
  BY <1>1, RowsFit DEF Touches, Outside
<1>3. \A y \in Xids : Paid(y, e) => Paid(y, e)'
  BY <1>1, PaidStays
<1>4. known' = known /\ priced' = priced /\ age' = age
  BY DEF Touches, world
<1> QED BY <1>2, <1>3, <1>4 DEF EventStays, Begun

LEMMA CreditsStay ==
  ASSUME WebhookIInv, \A e \in Events : EventStays(e), Grown,
         \A i \in Ids' \ Ids : CreditFits(i)'
  PROVE  \A i \in Ids' : CreditFits(i)'
<1> SUFFICES ASSUME NEW i \in Ids, NEW e \in Events, rows[i].key = e
             PROVE  /\ rows[i].user = UserOf[e] /\ rows[i].delta = Worth[TypeOf[e]]
                    /\ Proper(e)'
  BY DEF CreditFits, Grown
<1>1. CreditFits(i) /\ EventStays(e)
  BY DEF WebhookIInv
<1> QED BY <1>1 DEF CreditFits, Proper, EventStays

LEMMA TouchInv ==
  ASSUME WebhookIInv, LedgerIInv', [LedgerNext]_ledgerVars, WebhookTypeOK',
         NEW P \in SUBSET Posts, NEW X \in SUBSET Tx, NEW x \in Tx, Touches(P, X, x),
         WorkFits(x)', \A p \in P : PostFits(p)',
         \A q \in Posts \ P : captureTx(q) \notin X /\ (processTx(q) # x \/ KeepsEvent(x)),
         \A i \in Ids' \ Ids : CreditFits(i)'
  PROVE  WebhookIInv'
<1>1. Decided /\ Grown /\ LedgerIInv /\ WebhookTypeOK
  BY LedgerGrows DEF WebhookIInv
<1>2. \A e \in Events : RowFits(e)' /\ EventStays(e)
  BY EventsStay
<1>3. \A i \in Ids' : CreditFits(i)'
  BY <1>1, <1>2, CreditsStay
<1>4. ASSUME NEW t \in Tx PROVE WorkFits(t)'
  <2>1. CASE t = x
    BY <2>1
  <2>2. CASE t # x
    <3>1. work'[t] = work[t] /\ call'[t] = call[t] /\ WorkFits(t)
      BY <2>2 DEF Touches, WebhookIInv
    <3> QED BY <1>1, <1>2, <3>1, WorkStays
  <2> QED BY <2>1, <2>2
<1>5. ASSUME NEW q \in Posts \ P PROVE PostFits(q)'
  <2>1. PICK t \in Tx, y \in Tx : t = captureTx(q) /\ y = processTx(q)
    BY TxTypes
  <2>2. t \notin X /\ (y # x \/ KeepsEvent(x))
    BY <2>1
  <2>3. post'[q] = post[q] /\ answer'[q] = answer[q] /\ clog'[t] = clog[t]
    BY <2>2 DEF Touches, Outside
  <2>4. PostFits(q)
    BY DEF WebhookIInv
  <2>5. IsActive(t) => IsActive(t)'
    BY <2>3 DEF IsActive
  <2>6. post[q].at = "processing" => work'[y].at # "idle" /\ work'[y].event = post[q].event
    <3>1. post[q].at = "processing" => work[y].at # "idle" /\ work[y].event = post[q].event
      BY <1>1, <2>1, <2>4, PostTypes DEF PostFits, PostAt
    <3>2. y = x \/ work'[y] = work[y]
      BY DEF Touches
    <3> QED BY <2>2, <3>1, <3>2 DEF KeepsEvent
  <2>7. \A e \in Events : IsActive(t) /\ Holding(t, e) => Holding(t, e)'
    BY <2>1, <2>2, HoldingStays DEF Touches, Outside, Holding
  <2> QED BY <1>1, <1>2, <2>1, <2>3, <2>4, <2>5, <2>6, <2>7, PostStays
<1> QED BY <1>2, <1>3, <1>4, <1>5 DEF WebhookIInv

\* Users and rules come, and events grow old: nothing known is unlearnt.
LEMMA WorldInv ==
  ASSUME WebhookIInv, WorldTurns
  PROVE  WebhookIInv'
<1>1. UNCHANGED <<deliveries, received, work, post, answer, ledgerVars>>
  BY DEF WorldTurns, routeVars
<1>2. UNCHANGED <<clog, rows, bal, call>>
  BY <1>1 DEF ledgerVars
<1>3. LedgerIInv /\ LedgerIInv' /\ WebhookTypeOK /\ Decided /\ Grown
  <2>1. [LedgerNext]_ledgerVars
    BY <1>1
  <2> QED BY <2>1, NextInvariant, LedgerGrows DEF WebhookIInv
<1>4. WebhookTypeOK' /\ known \subseteq known' /\ priced \subseteq priced'
  BY <1>1, <1>3 DEF WorldTurns, WebhookTypeOK
<1>5. \A e \in Events : Begun(e) => Begun(e)'
  BY <1>3 DEF WorldTurns, WebhookTypeOK, Begun
<1>6. \A e \in Events : RowFits(e)' /\ EventStays(e)
  BY <1>1, <1>2, <1>4, <1>5
  DEF WebhookIInv, RowFits, EventStays, Filed, Sound, Latest, Paid, SeenBy, IsCommitted,
      IsActive, Ids
<1>7. \A i \in Ids' : CreditFits(i)'
  BY <1>2, <1>3, <1>6, CreditsStay DEF Ids
<1>8. \A t \in Tx : WorkFits(t)'
  BY <1>1, <1>2, <1>3, <1>6, WorkStays DEF WebhookIInv
<1>9. ASSUME NEW p \in Posts PROVE PostFits(p)'
  <2>1. PICK t, x : t = captureTx(p) /\ x = processTx(p)
    OBVIOUS
  <2>2. PostFits(p) /\ (IsActive(t)' <=> IsActive(t))
    BY <1>2 DEF WebhookIInv, IsActive
  <2>3. \A e \in Events : Holding(t, e)' <=> Holding(t, e)
    BY <1>1 DEF Holding
  <2>4. post[p].at = "processing" => work'[x].at # "idle" /\ work'[x].event = post[p].event
    BY <1>1, <1>3, <2>1, <2>2, PostTypes DEF PostFits, PostAt
  <2> QED BY <1>1, <1>3, <1>6, <2>1, <2>2, <2>3, <2>4, PostStays
<1> QED BY <1>3, <1>4, <1>6, <1>7, <1>8, <1>9 DEF WebhookIInv
-----------------------------------------------------------------------------
(* Every step is one of the ledger's, or leaves the ledger alone.            *)

LEMMA ProcessStep ==
  ASSUME WebhookTypeOK, NEW t \in Tx, ProcessDelivery(t)
  PROVE  LedgerNext \/ UNCHANGED ledgerVars
<1>1. CASE UNCHANGED ledgerVars
  BY <1>1
<1>2. CASE Advance(t)
  BY <1>2 DEF LedgerNext, AppendStep
<1>3. CASE FindRule(t)
  <2>1. PICK e : e = work[t].event
    OBVIOUS
  <2>2. e \in EventKeys /\ UserOf[e] \in Users /\ Worth[TypeOf[e]] \in Deltas
    BY <1>3, <2>1, WorkTypes, EventsNameUsersAndTypes, RulesPay DEF FindRule, Events
  <2>3. AppendEntry(t, [user |-> UserOf[e], delta |-> Worth[TypeOf[e]], key |-> e,
                        reverses |-> NoEntry])
    BY <1>3, <2>1 DEF FindRule
  <2> QED BY <2>2, <2>3 DEF LedgerNext
<1> QED
  BY <1>1, <1>2, <1>3
  DEF ProcessDelivery, Parse, Note, FindUser, FindNoRule, Credit, Credited, Mark

LEMMA WebhookStep ==
  ASSUME WebhookTypeOK, [WebhookNext]_webhookVars
  PROVE  [LedgerNext]_ledgerVars
<1>1. CASE UNCHANGED webhookVars
  BY <1>1 DEF webhookVars
<1>2. CASE WorldTurns
  BY <1>2 DEF WorldTurns
<1>3. ASSUME NEW p \in Posts,
             \/ \E e \in Events, v \in BOOLEAN : Receive(p, e, v)
             \/ Serve(p) \/ Throw(p) \/ Die(p)
      PROVE  LedgerNext \/ UNCHANGED ledgerVars
  <2>1. PICK c \in Tx, x \in Tx : c = captureTx(p) /\ x = processTx(p)
    BY TxTypes
  <2>2. CASE \E t \in {c, x} : Open(t) \/ Close(t) \/ Fail(t)
    BY <2>2 DEF LedgerNext
  <2>3. CASE ProcessDelivery(x)
    BY <2>3, ProcessStep
  <2>4. CASE UNCHANGED ledgerVars
    BY <2>4
  <2> QED
    BY <1>3, <2>1, <2>2, <2>3, <2>4
    DEF Receive, Serve, Throw, Die, Capture, CaptureAgain, Captured, Process, Processing,
        Processed, SetFailed
<1> QED BY <1>1, <1>2, <1>3 DEF WebhookNext, RouteNext

-----------------------------------------------------------------------------
(* Writes of a delivery's row.                                               *)

\* Once a delivery is on file, every version of its row has the body on file.
LEMMA ViewIsOnFile ==
  ASSUME WebhookIInv, NEW t \in Tx, IsActive(t), NEW e \in Events, Filed(e)
  PROVE  /\ View(t, deliveries[e]) \in Delivery
         /\ View(t, deliveries[e]).valid = Latest(deliveries[e]).valid
         /\ View(t, deliveries[e]).status = "PROCESSED" => Paid(t, e)
<1>1. PICK c : c = deliveries[e]
  OBVIOUS
<1>2. RowFits(e) /\ WebhookTypeOK /\ clog[Setup] = "committed"
  BY DEF WebhookIInv, LedgerIInv
<1>3. CASE c.by = t
  <2>1. View(t, c) = c.now /\ Latest(c) = c.was
    BY <1>3 DEF View, Latest, IsActive, IsCommitted
  <2> QED BY <1>1, <1>2, <1>3, <2>1, DeliveryTypes DEF RowFits, Filed
<1>4. CASE c.by # t
  <2>1. View(t, c) = Latest(c)
    BY <1>4 DEF View
  <2>2. Paid(Setup, e) => Paid(t, e)
    BY <1>2 DEF Paid, SeenBy, IsCommitted
  <2> QED BY <1>1, <1>2, <2>1, <2>2, DeliveryTypes DEF RowFits, Filed
<1> QED BY <1>3, <1>4

LEMMA Rewritten ==
  ASSUME WebhookTypeOK, NEW t \in Tx, IsActive(t), NEW e \in Events,
         ~ Waits(t, deliveries[e]), NEW v \in Delivery,
         Filed(e) => v.valid = Latest(deliveries[e]).valid,
         v.status = "PROCESSED" => Paid(t, e),
         deliveries' = [deliveries EXCEPT ![e] = Written(t, @, v)]
  PROVE  /\ RowWritten(e, t, v) /\ deliveries' \in [Events -> Cell(Delivery \cup {Absent})]
         /\ \A f \in Events \ {e} : deliveries'[f] = deliveries[f]
         /\ deliveries'[e].by = t /\ deliveries'[e].now = v
<1>1. PICK c : c = deliveries[e]
  OBVIOUS
<1>2. c \in Cell(Delivery \cup {Absent}) /\ t \in Xids
  BY <1>1, DeliveryTypes DEF Xids
<1>3. deliveries'[e] = Written(t, c, v) /\ \A f \in Events \ {e} : deliveries'[f] = deliveries[f]
  BY <1>1 DEF WebhookTypeOK
<1>4. PICK was : was = Locked(t, c).was
  OBVIOUS
<1>5. was = Latest(c) /\ was \in Delivery \cup {Absent}
  BY <1>1, <1>2, <1>4, DeliveryTypes DEF Locked, Latest, IsCommitted, IsActive
<1>6. deliveries'[e] = [was |-> was, now |-> v, by |-> t]
  BY <1>2, <1>3, <1>4 DEF Written, Locked, Cell
<1>7. deliveries'[e] \in Cell(Delivery \cup {Absent})
  BY <1>2, <1>5, <1>6 DEF Cell
<1>8. deliveries' \in [Events -> Cell(Delivery \cup {Absent})]
  BY <1>7 DEF WebhookTypeOK
<1>9. RowWritten(e, t, v)
  BY <1>1, <1>3, <1>4, <1>5 DEF RowWritten, Filed
<1> QED BY <1>3, <1>6, <1>8, <1>9

\* A lock writes the version the transaction sees.
LEMMA LockedIsWritten ==
  ASSUME WebhookTypeOK, NEW t \in Tx, NEW e \in Events
  PROVE  Locked(t, deliveries[e]) = Written(t, deliveries[e], View(t, deliveries[e]))
<1>1. PICK c : c = deliveries[e]
  OBVIOUS
<1>2. c \in Cell(Delivery \cup {Absent})
  BY <1>1, DeliveryTypes
<1>3. PICK d : d = Locked(t, c)
  OBVIOUS
<1>4. d = [was |-> d.was, now |-> View(t, c), by |-> d.by]
  BY <1>2, <1>3 DEF Locked, View, Cell
<1>5. [d EXCEPT !.now = View(t, c)] = d
  BY <1>4
<1> QED BY <1>1, <1>3, <1>5 DEF Written
-----------------------------------------------------------------------------
(* processDelivery.                                                          *)

\* What work w may say of event e in transaction t.
Grounded(w, t, e) ==
  /\ w.at # "idle" /\ w.event = e /\ Filed(e)
  /\ w.at \in {"note", "user", "rule", "credit"} => Sound(e)
  /\ w.at \in {"user", "rule", "credit"} => Begun(e)
  /\ w.at \in {"rule", "credit"} => UserOf[e] \in known
  /\ w.at = "credit" => TypeOf[e] \in priced
  /\ w.at \in {"mark", "done"} /\ w.verdict = "PROCESSED" => Paid(t, e)

\* A transaction that may run processDelivery: none that captures deliveries.
Worker(t) == t \in Tx /\ \A q \in Posts : captureTx(q) # t

LEMMA WorkInv ==
  ASSUME WebhookIInv, LedgerIInv', [LedgerNext]_ledgerVars, NEW t \in Tx, Worker(t),
         NEW e \in Events, work[t].event = e,
         UNCHANGED <<world, routeVars, clog>>, received' = received,
         deliveries' \in [Events -> Cell(Delivery \cup {Absent})],
         \A f \in Events : RowStep({t}, f),
         \A x \in Tx \ {t} : call'[x] = call[x],
         NEW w \in Work, work' = [work EXCEPT ![t] = w], Grounded(w, t, e),
         w.at = "credit" => CallFits(t, e)',
         \A i \in Ids' \ Ids : /\ rows'[i].key = e /\ rows'[i].user = UserOf[e]
                               /\ rows'[i].delta = Worth[TypeOf[e]] /\ Proper(e)
  PROVE  WebhookIInv' /\ Outside({t}) /\ KeepsEvent(t)
<1>1. WebhookTypeOK
  BY DEF WebhookIInv
<1>2. work'[t] = w /\ \A x \in Tx \ {t} : work'[x] = work[x]
  BY <1>1 DEF WebhookTypeOK
<1>3. Outside({t}) /\ Touches({}, {t}, t)
  BY <1>2 DEF Outside, Touches, routeVars
<1>4. EventStays(e) /\ t \in Xids
  BY <1>3, EventsStay DEF Xids
<1>5. WebhookTypeOK'
  BY <1>1 DEF WebhookTypeOK, world, routeVars
<1>6. WorkAt(t, e)'
  BY <1>2, <1>4 DEF WorkAt, Grounded, EventStays
<1>7. KeepsEvent(t)
  BY <1>2 DEF KeepsEvent, Grounded
<1>8. WorkFits(t)'
  BY <1>6, <1>7 DEF WorkFits, KeepsEvent
<1>9. \A i \in Ids' \ Ids : CreditFits(i)'
  <2> SUFFICES ASSUME NEW i \in Ids' \ Ids PROVE CreditFits(i)'
    OBVIOUS
  <2>1. Proper(e)'
    BY <1>4 DEF Proper, EventStays
  <2> QED BY <2>1 DEF CreditFits
<1>10. \A q \in Posts : captureTx(q) \notin {t}
  BY DEF Worker
<1> QED BY <1>3, <1>5, <1>7, <1>8, <1>9, <1>10, TouchInv

\* A stage that touches neither the deliveries nor the ledger.
LEMMA QuietWork ==
  ASSUME WebhookIInv, NEW t \in Tx, Worker(t), NEW e \in Events, work[t].event = e,
         Untouched, UNCHANGED <<routeVars, ledgerVars>>,
         NEW w \in Work, work' = [work EXCEPT ![t] = w], Grounded(w, t, e), w.at # "credit"
  PROVE  WebhookIInv' /\ Outside({t}) /\ KeepsEvent(t)
<1>1. [LedgerNext]_ledgerVars /\ LedgerIInv /\ WebhookTypeOK
  BY DEF WebhookIInv
<1>2. LedgerIInv'
  BY <1>1, NextInvariant
<1>3. UNCHANGED <<clog, rows, call, deliveries, received, world>>
  BY DEF ledgerVars, Untouched
<1>4. deliveries' \in [Events -> Cell(Delivery \cup {Absent})] /\ Ids' = Ids
  BY <1>1, <1>3 DEF WebhookTypeOK, Ids
<1>5. \A f \in Events : RowStep({t}, f)
  BY <1>3 DEF RowStep
<1> QED BY <1>1, <1>2, <1>3, <1>4, <1>5, WorkInv

\* Where the stage of a transaction at work leaves it.
LEMMA Staged ==
  ASSUME WebhookTypeOK, NEW t \in Tx, NEW e \in Events, work[t].at # "idle", work[t].event = e
  PROVE  /\ \A a \in {"note", "user", "rule", "credit"} :
              work[t].at \in {"parse", "note", "user", "rule", "credit"} /\ Proceed(t, a) =>
                \E w \in Work : /\ w.at = a /\ w.event = e
                                /\ work' = [work EXCEPT ![t] = w]
         /\ work[t].at = "mark" /\ Proceed(t, "done") =>
              \E w \in Work : /\ w.at = "done" /\ w.event = e /\ w.verdict = work[t].verdict
                              /\ work' = [work EXCEPT ![t] = w]
         /\ \A s \in Terminal : Verdict(t, s) =>
              \E w \in Work : /\ w.at = "mark" /\ w.event = e /\ w.verdict = s
                              /\ work' = [work EXCEPT ![t] = w]
<1>1. work[t] \in Work /\ work \in [Tx -> Work]
  BY DEF WebhookTypeOK
<1>2. ASSUME NEW a \in {"note", "user", "rule", "credit"},
             work[t].at \in {"parse", "note", "user", "rule", "credit"}, Proceed(t, a)
      PROVE  \E w \in Work : /\ w.at = a /\ w.event = e
                             /\ work' = [work EXCEPT ![t] = w]
  <2>1. work[t] = [at |-> work[t].at, event |-> e]
    BY <1>1, <1>2 DEF Work
  <2>2. [work[t] EXCEPT !.at = a] = [at |-> a, event |-> e]
    BY <2>1
  <2>3. work' = [work EXCEPT ![t] = [at |-> a, event |-> e]]
    BY <1>2, <2>2 DEF Proceed
  <2>4. [at |-> a, event |-> e] \in Work
    BY DEF Work
  <2> QED BY <2>3, <2>4
<1>3. ASSUME work[t].at = "mark", Proceed(t, "done")
      PROVE  \E w \in Work : /\ w.at = "done" /\ w.event = e /\ w.verdict = work[t].verdict
                             /\ work' = [work EXCEPT ![t] = w]
  <2> DEFINE z == [at |-> "done", event |-> e, verdict |-> work[t].verdict]
  <2>1. /\ work[t] = [at |-> "mark", event |-> e, verdict |-> work[t].verdict]
        /\ work[t].verdict \in Terminal
    BY <1>1, <1>3 DEF Work
  <2>2. [work[t] EXCEPT !.at = "done"] = z
    BY <2>1
  <2>3. work' = [work EXCEPT ![t] = z]
    BY <1>3, <2>2 DEF Proceed
  <2>4. z \in Work /\ z.at = "done" /\ z.event = e /\ z.verdict = work[t].verdict
    BY <2>1 DEF Work
  <2> HIDE DEF z
  <2> QED BY <2>3, <2>4
<1>4. ASSUME NEW s \in Terminal, Verdict(t, s)
      PROVE  \E w \in Work : /\ w.at = "mark" /\ w.event = e /\ w.verdict = s
                             /\ work' = [work EXCEPT ![t] = w]
  <2>1. work' = [work EXCEPT ![t] = [at |-> "mark", event |-> e, verdict |-> s]]
    BY <1>1, <1>4 DEF Verdict
  <2>2. [at |-> "mark", event |-> e, verdict |-> s] \in Work
    BY DEF Work
  <2> QED BY <2>1, <2>2
<1> QED BY <1>2, <1>3, <1>4

\* appendEntry, called with the event's credit, leaves one entry of the event.
LEMMA CreditAdvance ==
  ASSUME LedgerIInv, NEW t \in Tx, NEW e \in Events, CallFits(t, e), Advance(t)
  PROVE  /\ CallFits(t, e)' /\ UNCHANGED clog
         /\ \A x \in Tx \ {t} : call'[x] = call[x]
         /\ \A i \in Ids' \ Ids : /\ rows'[i].key = e /\ rows'[i].user = UserOf[e]
                                  /\ rows'[i].delta = Worth[TypeOf[e]]
<1>1. /\ rows \in Seq(Row) /\ call \in [Tx -> CallState] /\ Ids = 1 .. Len(rows)
      /\ Len(rows) \in Nat
  BY DEF LedgerIInv, LedgerTypeOK, Ids
<1>2. PICK in : in = CreditOf(e)
  OBVIOUS
<1>3. in.key = e /\ in.user = UserOf[e] /\ in.delta = Worth[TypeOf[e]]
  BY <1>2 DEF CreditOf
<1>4. call[t].at \in {"lock", "claim", "move"} => call[t].in = in
  BY <1>2 DEF CallFits
<1>5. CASE Lock(t)
  <2>1. UNCHANGED <<rows, clog>> /\ call[t].at = "lock" /\ call[t].in = in
    BY <1>4, <1>5 DEF Lock
  <2>2. call'[t].at = "claim" /\ call'[t].in = in /\ \A x \in Tx \ {t} : call'[x] = call[x]
    BY <1>1, <1>5, <2>1 DEF Lock
  <2> QED BY <1>2, <2>1, <2>2 DEF CallFits, Ids
<1>6. CASE Insert(t)
  <2> DEFINE n == Len(rows) + 1
             row == [user |-> in.user, delta |-> in.delta, key |-> in.key,
                     reverses |-> in.reverses, by |-> t]
  <2>1. call[t].at = "claim" /\ call[t].in = in
    BY <1>4, <1>6 DEF Insert
  <2>2. /\ rows' = Append(rows, row) /\ UNCHANGED clog
        /\ call'[t].at = "move" /\ call'[t].in = in /\ call'[t].id = n
        /\ \A x \in Tx \ {t} : call'[x] = call[x]
    BY <1>1, <1>6, <2>1 DEF Insert
  <2>3. Ids' = Ids \cup {n} /\ rows'[n] = row
    BY <1>1, <2>2 DEF Ids
  <2>4. /\ rows'[n].by = t /\ rows'[n].key = e /\ rows'[n].user = UserOf[e]
        /\ rows'[n].delta = Worth[TypeOf[e]]
    BY <1>3, <2>3
  <2> HIDE DEF n, row
  <2>5. Wrote(t, e)'
    BY <2>2, <2>3, <2>4 DEF Wrote, SeenBy
  <2> QED BY <1>2, <2>2, <2>3, <2>4, <2>5 DEF CallFits
<1>7. CASE Duplicate(t)
  <2>1. call[t].at = "claim" /\ call[t].in = in /\ UNCHANGED <<rows, clog>>
    BY <1>4, <1>7 DEF Duplicate
  <2>2. PICK i \in Holders(e) :
          call' = [call EXCEPT ![t] = [at |-> "done", made |-> call[t].made,
                                       id |-> i, duplicate |-> TRUE]]
    BY <1>3, <1>7, <2>1 DEF Duplicate
  <2>3. i \in Ids /\ rows[i].key = e /\ SeenBy(t, rows[i].by)
    BY <1>3, <1>7, <2>1 DEF Duplicate, ClaimWaits, Holders, Waits, SeenBy, IsActive, IsCommitted
  <2>4. call'[t].at = "done" /\ call'[t].id = i /\ \A x \in Tx \ {t} : call'[x] = call[x]
    BY <1>1, <2>2
  <2>5. Wrote(t, e)'
    BY <2>1, <2>3, <2>4 DEF Wrote, Ids, SeenBy, IsCommitted
  <2> QED BY <2>1, <2>4, <2>5 DEF CallFits, Ids
<1>8. CASE Move(t)
  <2>1. UNCHANGED <<rows, clog>> /\ call[t].at = "move" /\ Wrote(t, e)
    BY <1>8 DEF Move, CallFits
  <2>2. /\ call'[t].at = "done" /\ call'[t].id = call[t].id
        /\ \A x \in Tx \ {t} : call'[x] = call[x]
    BY <1>1, <1>8, <2>1 DEF Move
  <2>3. Wrote(t, e)'
    BY <2>1, <2>2 DEF Wrote, Ids, SeenBy, IsCommitted
  <2> QED BY <2>1, <2>2, <2>3 DEF CallFits, Ids
<1> QED BY <1>5, <1>6, <1>7, <1>8 DEF Advance

LEMMA ProcessInv ==
  ASSUME WebhookIInv, NEW t \in Tx, Worker(t), work[t].at # "idle", ProcessDelivery(t),
         UNCHANGED routeVars
  PROVE  WebhookIInv' /\ Outside({t}) /\ KeepsEvent(t)
<1>1. /\ WebhookTypeOK /\ LedgerIInv /\ WorkFits(t)
      /\ \A e \in Events : RowFits(e)
  BY DEF WebhookIInv
<1>2. IsActive(t)
  BY DEF ProcessDelivery
<1>3. PICK e \in Events : work[t].event = e
  BY <1>1, WorkTypes
<1>4. WorkAt(t, e)
  BY <1>1, <1>3 DEF WorkFits
<1>5. [LedgerNext]_ledgerVars /\ LedgerIInv'
  BY <1>1, ProcessStep, NextInvariant
<1>6. View(t, deliveries[e]) \in Delivery
      /\ View(t, deliveries[e]).valid = Latest(deliveries[e]).valid
      /\ (View(t, deliveries[e]).status = "PROCESSED" => Paid(t, e))
  BY <1>2, <1>4, ViewIsOnFile DEF WorkAt
<1>7. ASSUME Untouched, UNCHANGED ledgerVars, NEW w \in Work,
             work' = [work EXCEPT ![t] = w], Grounded(w, t, e), w.at # "credit"
      PROVE  WebhookIInv' /\ Outside({t}) /\ KeepsEvent(t)
  BY <1>3, <1>7, QuietWork
<1>8. CASE Parse(t)
  <2>1. CASE View(t, deliveries[e]).valid
    <3>1. Sound(e)
      <4>1. Latest(deliveries[e]).valid = TRUE
        BY <1>6, <2>1 DEF Delivery
      <4> QED BY <1>4, <4>1 DEF Sound, WorkAt
    <3>2. PICK w \in Work : w.at = "note" /\ w.event = e /\ work' = [work EXCEPT ![t] = w]
      BY <1>1, <1>3, <1>8, <2>1, Staged DEF Parse
    <3>3. Grounded(w, t, e)
      BY <1>4, <3>1, <3>2 DEF Grounded, WorkAt
    <3> QED BY <1>7, <1>8, <3>2, <3>3 DEF Parse
  <2>2. CASE ~ View(t, deliveries[e]).valid
    <3>1. PICK w \in Work : /\ w.at = "mark" /\ w.event = e /\ w.verdict = "REJECTED"
                            /\ work' = [work EXCEPT ![t] = w]
      BY <1>1, <1>3, <1>8, <2>2, Staged DEF Parse, Terminal
    <3>2. Grounded(w, t, e)
      BY <1>4, <3>1 DEF Grounded, WorkAt
    <3> QED BY <1>7, <1>8, <3>1, <3>2 DEF Parse
  <2> QED BY <2>1, <2>2
<1>9. CASE FindUser(t)
  <2>1. CASE UserOf[e] \in known
    <3>1. PICK w \in Work : w.at = "rule" /\ w.event = e /\ work' = [work EXCEPT ![t] = w]
      BY <1>1, <1>3, <1>9, <2>1, Staged DEF FindUser
    <3>2. Grounded(w, t, e)
      BY <1>4, <1>9, <2>1, <3>1 DEF Grounded, WorkAt, FindUser
    <3> QED BY <1>7, <1>9, <3>1, <3>2 DEF FindUser
  <2>2. CASE UserOf[e] \notin known
    <3>1. PICK w \in Work : /\ w.at = "mark" /\ w.event = e /\ w.verdict = "UNMATCHED"
                            /\ work' = [work EXCEPT ![t] = w]
      BY <1>1, <1>3, <1>9, <2>2, Staged DEF FindUser, Terminal
    <3>2. Grounded(w, t, e)
      BY <1>4, <3>1 DEF Grounded, WorkAt
    <3> QED BY <1>7, <1>9, <3>1, <3>2 DEF FindUser
  <2> QED BY <2>1, <2>2
<1>10. CASE FindNoRule(t)
  <2>1. PICK w \in Work : /\ w.at = "mark" /\ w.event = e /\ w.verdict = "UNMATCHED"
                          /\ work' = [work EXCEPT ![t] = w]
    BY <1>1, <1>3, <1>10, Staged DEF FindNoRule, Terminal
  <2>2. Grounded(w, t, e)
    BY <1>4, <2>1 DEF Grounded, WorkAt
  <2> QED BY <1>7, <1>10, <2>1, <2>2 DEF FindNoRule
<1>11. CASE Credited(t)
  <2>1. PICK w \in Work : /\ w.at = "mark" /\ w.event = e /\ w.verdict = "PROCESSED"
                          /\ work' = [work EXCEPT ![t] = w]
    BY <1>1, <1>3, <1>11, Staged DEF Credited, Terminal
  <2>2. Paid(t, e)
    BY <1>4, <1>11 DEF Credited, WorkAt, CallFits, Wrote, Paid
  <2>3. Grounded(w, t, e)
    BY <1>4, <2>1, <2>2 DEF Grounded, WorkAt
  <2> QED BY <1>7, <1>11, <2>1, <2>3 DEF Credited
<1>12. CASE Note(t)
  <2>1. ~ Waits(t, deliveries[e]) /\ UNCHANGED <<received, world, clog, rows, bal, call>>
        /\ deliveries' = [deliveries EXCEPT ![e] = Locked(t, @)]
    BY <1>3, <1>12 DEF Note, ledgerVars
  <2>2. PICK v \in Delivery : v = View(t, deliveries[e])
    BY <1>6
  <2>3. deliveries' = [deliveries EXCEPT ![e] = Written(t, @, v)]
    BY <1>1, <2>1, <2>2, LockedIsWritten
  <2>4. /\ RowWritten(e, t, v) /\ deliveries' \in [Events -> Cell(Delivery \cup {Absent})]
        /\ \A f \in Events \ {e} : deliveries'[f] = deliveries[f]
    <3>1. v.valid = Latest(deliveries[e]).valid
      BY <1>6, <2>2
    <3>2. v.status = "PROCESSED" => Paid(t, e)
      BY <1>6, <2>2
    <3>3. WebhookTypeOK /\ IsActive(t) /\ ~ Waits(t, deliveries[e])
      BY <1>1, <1>2, <2>1
    <3> QED BY <2>3, <3>1, <3>2, <3>3, Rewritten
  <2>5. \A f \in Events : RowStep({t}, f)
    BY <2>1, <2>4 DEF RowStep
  <2>6. Ids' = Ids
    BY <2>1 DEF Ids
  <2>7. ASSUME NEW w \in Work, work' = [work EXCEPT ![t] = w], Grounded(w, t, e), w.at # "credit"
        PROVE  WebhookIInv' /\ Outside({t}) /\ KeepsEvent(t)
    BY <1>3, <1>5, <2>1, <2>4, <2>5, <2>6, <2>7, WorkInv
  <2>8. CASE age[e] = "fresh"
    <3>1. PICK w \in Work : w.at = "user" /\ w.event = e /\ work' = [work EXCEPT ![t] = w]
      BY <1>1, <1>3, <1>12, <2>8, Staged DEF Note
    <3>2. Grounded(w, t, e)
      BY <1>4, <1>12, <2>8, <3>1 DEF Grounded, WorkAt, Begun, Note
    <3> QED BY <2>7, <3>1, <3>2
  <2>9. CASE age[e] # "fresh"
    <3>1. PICK w \in Work : /\ w.at = "mark" /\ w.event = e /\ w.verdict = "REJECTED"
                            /\ work' = [work EXCEPT ![t] = w]
      BY <1>1, <1>3, <1>12, <2>9, Staged DEF Note, Terminal
    <3>2. Grounded(w, t, e)
      BY <1>4, <3>1 DEF Grounded, WorkAt
    <3> QED BY <2>7, <3>1, <3>2
  <2> QED BY <2>8, <2>9
<1>13. CASE Mark(t)
  <2>1. PICK s : s = work[t].verdict
    OBVIOUS
  <2>2. work[t].at = "mark" /\ s \in Terminal
    BY <1>1, <1>13, <2>1, WorkTypes DEF Mark
  <2>3. PICK o \in Delivery : o = View(t, deliveries[e])
    BY <1>6
  <2>4. PICK v \in Delivery : v = [o EXCEPT !.status = s]
    BY <2>2 DEF Delivery, Statuses
  <2>5. /\ ~ Waits(t, deliveries[e]) /\ UNCHANGED <<received, world, clog, rows, bal, call>>
        /\ deliveries' = [deliveries EXCEPT ![e] = Written(t, @, v)]
    BY <1>3, <1>13, <2>1, <2>3, <2>4 DEF Mark, SetStatus, ledgerVars
  <2>6. s = "PROCESSED" => Paid(t, e)
    BY <1>4, <2>1, <2>2 DEF WorkAt
  <2>7. /\ RowWritten(e, t, v) /\ deliveries' \in [Events -> Cell(Delivery \cup {Absent})]
        /\ \A f \in Events \ {e} : deliveries'[f] = deliveries[f]
    <3>1. v.status = s /\ v.valid = o.valid
      BY <2>4 DEF Delivery
    <3>2. v.valid = Latest(deliveries[e]).valid /\ (v.status = "PROCESSED" => Paid(t, e))
      BY <1>6, <2>3, <2>6, <3>1
    <3> QED BY <1>1, <1>2, <2>5, <3>2, Rewritten
  <2>8. (\A f \in Events : RowStep({t}, f)) /\ Ids' = Ids
    BY <2>5, <2>7 DEF RowStep, Ids
  <2>9. PICK w \in Work : /\ w.at = "done" /\ w.event = e /\ w.verdict = s
                          /\ work' = [work EXCEPT ![t] = w]
    BY <1>1, <1>3, <1>13, <2>1, <2>2, Staged DEF Mark
  <2>10. Grounded(w, t, e) /\ w.at # "credit"
    BY <1>4, <2>6, <2>9 DEF Grounded, WorkAt
  <2> QED BY <1>3, <1>5, <2>5, <2>7, <2>8, <2>9, <2>10, WorkInv
<1>14. CASE FindRule(t)
  <2>1. /\ UNCHANGED <<deliveries, received, world, clog, rows>> /\ TypeOf[e] \in priced
        /\ work[t].at = "rule" /\ AppendEntry(t, CreditOf(e))
    BY <1>3, <1>14 DEF FindRule, Untouched, AppendEntry, CreditOf
  <2>2. PICK in : in = CreditOf(e)
    OBVIOUS
  <2>3. call' = [call EXCEPT ![t] = [at |-> "lock", made |-> call[t].made + 1, in |-> in]]
    BY <2>1, <2>2 DEF AppendEntry
  <2>4. call'[t].at = "lock" /\ call'[t].in = in /\ \A x \in Tx \ {t} : call'[x] = call[x]
    BY <1>1, <2>3 DEF LedgerIInv, LedgerTypeOK
  <2>5. CallFits(t, e)'
    BY <2>2, <2>4 DEF CallFits, CreditOf
  <2>6. PICK w \in Work : w.at = "credit" /\ w.event = e /\ work' = [work EXCEPT ![t] = w]
    BY <1>1, <1>3, <1>14, Staged DEF FindRule
  <2>7. Grounded(w, t, e)
    BY <1>4, <2>1, <2>6 DEF Grounded, WorkAt
  <2>8. (\A f \in Events : RowStep({t}, f)) /\ Ids' = Ids
    BY <2>1 DEF RowStep, Ids
  <2>9. deliveries' \in [Events -> Cell(Delivery \cup {Absent})]
    BY <1>1, <2>1 DEF WebhookTypeOK
  <2> QED BY <1>3, <1>5, <2>1, <2>4, <2>5, <2>6, <2>7, <2>8, <2>9, WorkInv
<1>15. CASE Credit(t)
  <2>1. work[t].at = "credit" /\ Advance(t) /\ UNCHANGED <<work, deliveries, received, world>>
    BY <1>15 DEF Credit, Untouched
  <2>2. CallFits(t, e) /\ Proper(e)
    BY <1>4, <2>1 DEF WorkAt, Proper
  <2>3. /\ CallFits(t, e)' /\ UNCHANGED clog
        /\ \A x \in Tx \ {t} : call'[x] = call[x]
        /\ \A i \in Ids' \ Ids : /\ rows'[i].key = e /\ rows'[i].user = UserOf[e]
                                 /\ rows'[i].delta = Worth[TypeOf[e]]
    BY <1>1, <2>1, <2>2, CreditAdvance
  <2>4. PICK w \in Work : w = work[t]
    BY <1>1 DEF WebhookTypeOK
  <2>5. work' = [work EXCEPT ![t] = w]
    BY <1>1, <2>1, <2>4 DEF WebhookTypeOK
  <2>6. Grounded(w, t, e)
    BY <1>3, <1>4, <2>1, <2>4 DEF Grounded, WorkAt
  <2>7. \A f \in Events : RowStep({t}, f)
    BY <2>1 DEF RowStep
  <2>8. deliveries' \in [Events -> Cell(Delivery \cup {Absent})]
    BY <1>1, <2>1 DEF WebhookTypeOK
  <2> QED BY <1>3, <1>5, <2>1, <2>2, <2>3, <2>5, <2>6, <2>7, <2>8, WorkInv
<1> QED
  BY <1>8, <1>9, <1>10, <1>11, <1>12, <1>13, <1>14, <1>15 DEF ProcessDelivery
-----------------------------------------------------------------------------
(* The route.                                                                *)

LEMMA MovedPost ==
  ASSUME WebhookTypeOK, NEW p \in Posts, post[p].at # "new", NEW a \in PostStages, Goto(p, a)
  PROVE  /\ post' \in [Posts -> Post] /\ post'[p].at = a
         /\ post'[p].event = post[p].event /\ post'[p].seen = post[p].seen
         /\ \A q \in Posts \ {p} : post'[q] = post[q]
<1>1. post[p] \in Post /\ post \in [Posts -> Post]
  BY DEF WebhookTypeOK
<1>2. PICK q : q = [post[p] EXCEPT !.at = a]
  OBVIOUS
<1>3. q \in Post /\ q.at = a /\ q.event = post[p].event /\ q.seen = post[p].seen
  BY <1>1, <1>2 DEF Post
<1>4. post' = [post EXCEPT ![p] = q]
  BY <1>2 DEF Goto
<1> QED BY <1>1, <1>3, <1>4

LEMMA AnsweredPost ==
  ASSUME WebhookTypeOK, NEW p \in Posts, NEW s \in {"error"} \cup Terminal, Answer(p, s)
  PROVE  /\ answer' \in [Posts -> {"none", "error"} \cup Terminal] /\ answer'[p] = s
         /\ \A q \in Posts \ {p} : answer'[q] = answer[q]
         /\ Goto(p, "done") /\ "done" \in PostStages
BY DEF WebhookTypeOK, Answer, PostStages

\* A step of the route that leaves the work and the ledger's rows alone.
LEMMA PostInv ==
  ASSUME WebhookIInv, [LedgerNext]_ledgerVars, NEW p \in Posts, NEW e \in Events,
         UNCHANGED <<world, work, rows, call>>, received' \in Nat,
         deliveries' \in [Events -> Cell(Delivery \cup {Absent})],
         \A f \in Events : RowStep(TxsOf(p), f),
         \A t \in Tx \ TxsOf(p) : clog'[t] = clog[t],
         post' \in [Posts -> Post], answer' \in [Posts -> {"none", "error"} \cup Terminal],
         \A q \in Posts \ {p} : post'[q] = post[q] /\ answer'[q] = answer[q],
         post'[p].at # "new", post'[p].event = e,
         (\A f \in Events : EventStays(f)) => PostAt(p, e)'
  PROVE  WebhookIInv' /\ Outside(TxsOf(p))
<1>1. WebhookTypeOK /\ LedgerIInv /\ LedgerIInv' /\ Decided /\ Grown
  BY NextInvariant, LedgerGrows DEF WebhookIInv
<1>2. Outside(TxsOf(p)) /\ Touches({p}, TxsOf(p), processTx(p))
  BY DEF Outside, Touches
<1>3. \A f \in Events : EventStays(f)
  BY <1>1, <1>2, TxsOfPost, EventsStay
<1>4. /\ TxsOf(p) \in SUBSET Tx /\ {p} \in SUBSET Posts
      /\ \A q \in Posts \ {p} : captureTx(q) \notin TxsOf(p) /\ processTx(q) # processTx(p)
  BY TxsOfPost
<1>5. PICK t \in Tx : t = processTx(p) /\ WorkFits(t)'
  <2>1. PICK t \in Tx : t = processTx(p)
    BY TxTypes
  <2> QED BY <1>1, <1>3, <2>1, WorkStays DEF WebhookIInv
<1>6. PostFits(p)'
  BY <1>3 DEF PostFits
<1>7. WebhookTypeOK'
  BY <1>1 DEF WebhookTypeOK, world
<1>8. Ids' = Ids
  BY DEF Ids
<1> QED BY <1>1, <1>2, <1>4, <1>5, <1>6, <1>7, <1>8, TouchInv

\* The same, for a step that leaves the deliveries alone too.
LEMMA QuietPost ==
  ASSUME WebhookIInv, NEW p \in Posts, NEW e \in Events,
         Untouched, UNCHANGED work, NEW t \in TxsOf(p),
         \/ Open(t) \/ Close(t) \/ Fail(t) \/ UNCHANGED ledgerVars,
         post' \in [Posts -> Post], answer' \in [Posts -> {"none", "error"} \cup Terminal],
         \A q \in Posts \ {p} : post'[q] = post[q] /\ answer'[q] = answer[q],
         post'[p].at # "new", post'[p].event = e,
         (\A f \in Events : EventStays(f)) => PostAt(p, e)'
  PROVE  WebhookIInv' /\ Outside(TxsOf(p))
<1>1. t \in Tx /\ WebhookTypeOK /\ clog \in [Xids -> Fates]
  BY TxTypes DEF TxsOf, WebhookIInv, LedgerIInv, LedgerTypeOK
<1>2. [LedgerNext]_ledgerVars
  BY <1>1 DEF LedgerNext
<1>3. UNCHANGED <<rows, call>> /\ \A x \in Tx \ TxsOf(p) : clog'[x] = clog[x]
  BY <1>1 DEF Open, Close, Fail, Begin, Commit, Abort, ledgerVars, Xids
<1>4. UNCHANGED <<deliveries, received, world>>
  BY DEF Untouched
<1>5. received' \in Nat /\ deliveries' \in [Events -> Cell(Delivery \cup {Absent})]
  BY <1>1, <1>4 DEF WebhookTypeOK
<1>6. \A f \in Events : RowStep(TxsOf(p), f)
  BY <1>4 DEF RowStep
<1> QED BY <1>2, <1>3, <1>4, <1>5, <1>6, PostInv

LEMMA ReceiveInv ==
  ASSUME WebhookIInv, NEW p \in Posts, NEW e \in Events, NEW v \in BOOLEAN, Receive(p, e, v)
  PROVE  WebhookIInv' /\ Outside(TxsOf(p))
<1>1. WebhookTypeOK /\ PostFits(p) /\ clog \in [Xids -> Fates]
  BY DEF WebhookIInv, LedgerIInv, LedgerTypeOK
<1>2. PICK t \in Tx : t = captureTx(p) /\ t \in TxsOf(p) /\ t \in Xids
  BY TxTypes DEF TxsOf
<1>3. /\ post[p].at = "new" /\ Open(t) /\ Untouched /\ UNCHANGED <<work, answer>>
      /\ post' = [post EXCEPT ![p] = [at |-> "capture", event |-> e, valid |-> v,
                                      seen |-> "RECEIVED"]]
  BY <1>2 DEF Receive
<1>4. [at |-> "capture", event |-> e, valid |-> v, seen |-> "RECEIVED"] \in Post
  BY DEF Post, PostStages, Statuses
<1>5. /\ post' \in [Posts -> Post] /\ post'[p].at = "capture" /\ post'[p].event = e
      /\ post'[p].seen = "RECEIVED" /\ \A q \in Posts \ {p} : post'[q] = post[q]
  BY <1>1, <1>3, <1>4 DEF WebhookTypeOK
<1>6. /\ answer' \in [Posts -> {"none", "error"} \cup Terminal] /\ answer'[p] = "none"
      /\ \A q \in Posts \ {p} : answer'[q] = answer[q]
  BY <1>1, <1>3 DEF WebhookTypeOK, PostFits
<1>7. IsActive(t)'
  BY <1>1, <1>2, <1>3 DEF Open, Begin, IsActive
<1>8. PostAt(p, e)'
  BY <1>2, <1>5, <1>6, <1>7 DEF PostAt, Terminal
<1> QED BY <1>2, <1>3, <1>5, <1>6, <1>8, QuietPost

\* What a request past its arrival rests on.
LEMMA Arrived ==
  ASSUME WebhookIInv, NEW p \in Posts, post[p].at # "new"
  PROVE  /\ WebhookTypeOK /\ LedgerIInv /\ clog \in [Xids -> Fates]
         /\ post[p].event \in Events /\ PostAt(p, post[p].event)
         /\ post[p].seen \in Statuses /\ post[p].valid \in BOOLEAN
         /\ answer \in [Posts -> {"none", "error"} \cup Terminal]
<1>1. WebhookTypeOK /\ LedgerIInv /\ PostFits(p)
  BY DEF WebhookIInv
<1> QED BY <1>1, PostTypes DEF PostFits, LedgerIInv, LedgerTypeOK, WebhookTypeOK

LEMMA CaptureInv ==
  ASSUME WebhookIInv, NEW p \in Posts, Capture(p)
  PROVE  WebhookIInv' /\ Outside(TxsOf(p))
<1>1. PICK t \in Tx : t = captureTx(p) /\ t \in TxsOf(p)
  BY TxTypes DEF TxsOf
<1>2. PICK e \in Events : e = post[p].event
  BY Arrived DEF Capture
<1>3. /\ WebhookTypeOK /\ PostAt(p, e) /\ post[p].at = "capture" /\ post[p].valid \in BOOLEAN
      /\ answer \in [Posts -> {"none", "error"} \cup Terminal] /\ received \in Nat
  BY <1>2, Arrived DEF Capture, WebhookTypeOK
<1>4. PICK v \in Delivery :
         v = [status |-> "RECEIVED", valid |-> post[p].valid, at |-> received + 1]
  <2>1. \A b \in BOOLEAN, n \in Nat : [status |-> "RECEIVED", valid |-> b, at |-> n] \in Delivery
    BY DEF Delivery, Statuses
  <2>2. received + 1 \in Nat
    BY <1>3
  <2> QED BY <1>3, <2>1, <2>2
<1>5. /\ ~ Waits(t, deliveries[e]) /\ ~ Filed(e)
      /\ deliveries' = [deliveries EXCEPT ![e] = Written(t, deliveries[e], v)]
      /\ received' = received + 1 /\ Goto(p, "captured")
      /\ UNCHANGED <<world, work, answer, ledgerVars>>
  BY <1>1, <1>2, <1>4 DEF Capture, Filed
<1>6. IsActive(t) /\ UNCHANGED <<clog, rows, call>>
  BY <1>1, <1>3, <1>5 DEF PostAt, ledgerVars
<1>7. v.status = "RECEIVED" /\ v # Absent
  BY <1>4, AbsentIsNoRow
<1>8. /\ RowWritten(e, t, v) /\ deliveries' \in [Events -> Cell(Delivery \cup {Absent})]
      /\ \A f \in Events \ {e} : deliveries'[f] = deliveries[f]
      /\ deliveries'[e].by = t /\ deliveries'[e].now = v
  <2>1. v.status = "PROCESSED" => Paid(t, e)
    BY <1>7
  <2>2. WebhookTypeOK /\ IsActive(t) /\ ~ Waits(t, deliveries[e]) /\ ~ Filed(e)
    BY <1>3, <1>5, <1>6
  <2>3. deliveries' = [deliveries EXCEPT ![e] = Written(t, deliveries[e], v)]
    BY <1>5
  <2> QED BY <2>1, <2>2, <2>3, Rewritten
<1>9. \A f \in Events : RowStep(TxsOf(p), f)
  BY <1>1, <1>6, <1>8 DEF RowStep
<1>10. /\ post' \in [Posts -> Post] /\ post'[p].at = "captured" /\ post'[p].event = e
       /\ post'[p].seen = "RECEIVED" /\ \A q \in Posts \ {p} : post'[q] = post[q]
  BY <1>2, <1>3, <1>5, MovedPost DEF PostAt, PostStages
<1>11. (\A f \in Events : EventStays(f)) => PostAt(p, e)'
  <2> SUFFICES ASSUME EventStays(e) PROVE PostAt(p, e)'
    OBVIOUS
  <2>1. Holding(t, e)' /\ IsActive(t)'
    BY <1>6, <1>7, <1>8 DEF Holding, IsActive
  <2>2. Setup \in Xids /\ answer' = answer
    BY <1>5 DEF Xids
  <2> QED BY <1>1, <1>3, <1>10, <2>1, <2>2 DEF PostAt, EventStays
<1>12. received' \in Nat
  BY <1>3, <1>5
<1> QED BY <1>3, <1>5, <1>6, <1>8, <1>9, <1>10, <1>11, <1>12, PostInv

LEMMA CaptureAgainInv ==
  ASSUME WebhookIInv, NEW p \in Posts, CaptureAgain(p)
  PROVE  WebhookIInv' /\ Outside(TxsOf(p))
<1>1. PICK t \in Tx : t = captureTx(p) /\ t \in TxsOf(p)
  BY TxTypes DEF TxsOf
<1>2. PICK e \in Events : e = post[p].event
  BY Arrived DEF CaptureAgain
<1>3. /\ WebhookTypeOK /\ PostAt(p, e) /\ post[p].at = "capture" /\ post[p] \in Post
      /\ post \in [Posts -> Post] /\ RowFits(e)
      /\ answer \in [Posts -> {"none", "error"} \cup Terminal] /\ received \in Nat
  BY <1>2, Arrived DEF CaptureAgain, WebhookTypeOK, WebhookIInv
<1>4. /\ ~ Waits(t, deliveries[e]) /\ Filed(e)
      /\ deliveries' = [deliveries EXCEPT ![e] = Locked(t, deliveries[e])]
      /\ UNCHANGED <<received, world, work, answer, ledgerVars>>
  BY <1>1, <1>2 DEF CaptureAgain, Filed
<1>5. IsActive(t) /\ UNCHANGED <<clog, rows, call>>
  BY <1>1, <1>3, <1>4 DEF PostAt, ledgerVars
<1>6. /\ View(t, deliveries[e]) \in Delivery
      /\ View(t, deliveries[e]).valid = Latest(deliveries[e]).valid
      /\ View(t, deliveries[e]).status = "PROCESSED" => Paid(t, e)
  BY <1>4, <1>5, ViewIsOnFile
<1>7. PICK v \in Delivery : v = View(t, deliveries[e])
  BY <1>6
<1>8. /\ RowWritten(e, t, v) /\ deliveries' \in [Events -> Cell(Delivery \cup {Absent})]
      /\ \A f \in Events \ {e} : deliveries'[f] = deliveries[f]
      /\ deliveries'[e].by = t /\ deliveries'[e].now = v
  <2>1. deliveries' = [deliveries EXCEPT ![e] = Written(t, deliveries[e], v)]
    BY <1>3, <1>4, <1>7, LockedIsWritten
  <2>2. v.valid = Latest(deliveries[e]).valid /\ (v.status = "PROCESSED" => Paid(t, e))
    BY <1>6, <1>7
  <2>3. WebhookTypeOK /\ IsActive(t) /\ ~ Waits(t, deliveries[e])
    BY <1>3, <1>4, <1>5
  <2> QED BY <2>1, <2>2, <2>3, Rewritten
<1>9. \A f \in Events : RowStep(TxsOf(p), f)
  BY <1>1, <1>5, <1>8 DEF RowStep
<1>10. PICK s \in Statuses : s = Latest(deliveries[e]).status
  BY <1>3, <1>4, DeliveryTypes DEF Filed, Delivery
<1>11. PICK q \in Post : q = [post[p] EXCEPT !.at = "captured", !.seen = s]
  BY <1>3 DEF Post, PostStages
<1>12. q.at = "captured" /\ q.event = e /\ q.seen = s
  BY <1>2, <1>3, <1>11 DEF Post
<1>13. post' = [post EXCEPT ![p] = q]
  BY <1>2, <1>10, <1>11 DEF CaptureAgain
<1>14. /\ post' \in [Posts -> Post] /\ post'[p].at = "captured" /\ post'[p].event = e
       /\ post'[p].seen = s /\ \A r \in Posts \ {p} : post'[r] = post[r]
  BY <1>3, <1>12, <1>13
<1>15. (\A f \in Events : EventStays(f)) => PostAt(p, e)'
  <2> SUFFICES ASSUME EventStays(e) PROVE PostAt(p, e)'
    OBVIOUS
  <2>1. Holding(t, e)' /\ IsActive(t)'
    BY <1>5, <1>7, <1>8, AbsentIsNoRow DEF Holding, IsActive
  <2>2. Setup \in Xids /\ answer' = answer
    BY <1>4 DEF Xids
  <2>3. s = "PROCESSED" => Paid(Setup, e)
    BY <1>3, <1>4, <1>10 DEF RowFits
  <2> QED BY <1>1, <1>3, <1>14, <2>1, <2>2, <2>3 DEF PostAt, EventStays
<1> QED BY <1>3, <1>4, <1>5, <1>8, <1>9, <1>14, <1>15, PostInv

LEMMA CapturedInv ==
  ASSUME WebhookIInv, NEW p \in Posts, Captured(p)
  PROVE  WebhookIInv' /\ Outside(TxsOf(p))
<1>1. PICK t \in Tx : t = captureTx(p) /\ t \in TxsOf(p) /\ t \in Xids
  BY TxTypes DEF TxsOf
<1>2. PICK e \in Events : e = post[p].event
  BY Arrived DEF Captured
<1>3. /\ WebhookTypeOK /\ PostAt(p, e) /\ post[p].at = "captured"
      /\ answer \in [Posts -> {"none", "error"} \cup Terminal] /\ clog \in [Xids -> Fates]
      /\ Untouched /\ UNCHANGED work /\ Close(t)
  BY <1>1, <1>2, Arrived DEF Captured
<1>4. Filed(e)'
  <2>1. deliveries' = deliveries /\ clog'[t] = "committed"
    BY <1>1, <1>3 DEF Untouched, Close, Commit
  <2>2. deliveries[e].by = t /\ deliveries[e].now # Absent
    BY <1>1, <1>3 DEF PostAt, Holding
  <2> QED BY <2>1, <2>2 DEF Filed, Latest, IsCommitted
<1>5. CASE post[p].seen \in Terminal
  <2>1. PICK s \in Terminal : s = post[p].seen
    BY <1>5
  <2>2. Answer(p, s)
    BY <1>5, <2>1 DEF Captured
  <2>3. /\ post' \in [Posts -> Post] /\ post'[p].at = "done" /\ post'[p].event = e
        /\ \A q \in Posts \ {p} : post'[q] = post[q]
    BY <1>2, <1>3, <2>2, AnsweredPost, MovedPost
  <2>4. /\ answer' \in [Posts -> {"none", "error"} \cup Terminal] /\ answer'[p] = s
        /\ \A q \in Posts \ {p} : answer'[q] = answer[q]
    BY <1>3, <2>2, AnsweredPost
  <2>5. (\A f \in Events : EventStays(f)) => PostAt(p, e)'
    <3> SUFFICES ASSUME EventStays(e) PROVE PostAt(p, e)'
      OBVIOUS
    <3>1. s = "PROCESSED" => Paid(Setup, e)'
      <4>1. Setup \in Xids
        BY DEF Xids
      <4> QED BY <1>3, <2>1, <4>1 DEF PostAt, EventStays
    <3> QED BY <1>4, <2>3, <2>4, <3>1 DEF PostAt
  <2> QED BY <1>1, <1>3, <2>3, <2>4, <2>5, QuietPost
<1>6. CASE post[p].seen \notin Terminal
  <2>1. Goto(p, "process") /\ UNCHANGED answer
    BY <1>6 DEF Captured
  <2>2. /\ post' \in [Posts -> Post] /\ post'[p].at = "process" /\ post'[p].event = e
        /\ \A q \in Posts \ {p} : post'[q] = post[q]
    BY <1>2, <1>3, <2>1, MovedPost DEF PostStages
  <2>3. (\A f \in Events : EventStays(f)) => PostAt(p, e)'
    <3> SUFFICES ASSUME EventStays(e) PROVE PostAt(p, e)'
      OBVIOUS
    <3>1. Setup \in Xids
      BY DEF Xids
    <3> QED BY <1>3, <1>4, <2>1, <2>2, <3>1 DEF PostAt, EventStays
  <2> QED BY <1>1, <1>3, <2>1, <2>2, <2>3, QuietPost
<1> QED BY <1>5, <1>6

\* A request that ends, or goes on to settle its delivery, without a promise.
LEMMA Unpromised ==
  ASSUME WebhookIInv, NEW p \in Posts, post[p].at # "new", NEW t \in TxsOf(p),
         Untouched, UNCHANGED work,
         \/ Open(t) \/ Close(t) \/ Fail(t) \/ UNCHANGED ledgerVars,
         \/ Answer(p, "error")
         \/ /\ Goto(p, "failing") /\ UNCHANGED answer /\ Filed(post[p].event)
  PROVE  WebhookIInv' /\ Outside(TxsOf(p))
<1>1. PICK e \in Events : e = post[p].event
  BY Arrived
<1>2. WebhookTypeOK /\ PostAt(p, e) /\ answer \in [Posts -> {"none", "error"} \cup Terminal]
  BY <1>1, Arrived
<1>3. CASE Answer(p, "error")
  <2>1. /\ post' \in [Posts -> Post] /\ post'[p].at = "done" /\ post'[p].event = e
        /\ \A q \in Posts \ {p} : post'[q] = post[q]
    BY <1>1, <1>2, <1>3, AnsweredPost, MovedPost
  <2>2. /\ answer' \in [Posts -> {"none", "error"} \cup Terminal] /\ answer'[p] = "error"
        /\ \A q \in Posts \ {p} : answer'[q] = answer[q]
    BY <1>2, <1>3, AnsweredPost
  <2>3. PostAt(p, e)'
    BY <2>1, <2>2 DEF PostAt, Terminal
  <2> QED BY <2>1, <2>2, <2>3, QuietPost
<1>4. CASE Goto(p, "failing") /\ UNCHANGED answer /\ Filed(e)
  <2>1. /\ post' \in [Posts -> Post] /\ post'[p].at = "failing" /\ post'[p].event = e
        /\ \A q \in Posts \ {p} : post'[q] = post[q]
    BY <1>1, <1>2, <1>4, MovedPost DEF PostStages
  <2>2. (\A f \in Events : EventStays(f)) => PostAt(p, e)'
    <3> SUFFICES ASSUME EventStays(e) PROVE PostAt(p, e)'
      OBVIOUS
    <3>1. Setup \in Xids
      BY DEF Xids
    <3> QED BY <1>2, <1>4, <2>1, <3>1 DEF PostAt, EventStays
  <2> QED BY <1>2, <1>4, <2>1, <2>2, QuietPost
<1> QED BY <1>1, <1>3, <1>4

LEMMA ProcessingBegins ==
  ASSUME WebhookIInv, NEW p \in Posts, Process(p)
  PROVE  WebhookIInv' /\ Outside(TxsOf(p))
<1>1. PICK t \in Tx : t = processTx(p) /\ t \in TxsOf(p) /\ t \in Xids
  BY TxTypes DEF TxsOf
<1>2. PICK e \in Events : e = post[p].event
  BY Arrived DEF Process
<1>3. /\ WebhookTypeOK /\ LedgerIInv /\ PostAt(p, e) /\ post[p].at = "process"
      /\ answer \in [Posts -> {"none", "error"} \cup Terminal] /\ clog \in [Xids -> Fates]
      /\ Open(t) /\ UNCHANGED <<deliveries, received, world, answer>> /\ Goto(p, "processing")
      /\ work' = [work EXCEPT ![t] = [at |-> "parse", event |-> e]]
  BY <1>1, <1>2, Arrived DEF Process, StartWork, Untouched
<1>4. LedgerIInv' /\ [LedgerNext]_ledgerVars
  <2>1. [LedgerNext]_ledgerVars
    BY <1>3 DEF LedgerNext
  <2> QED BY <1>3, <2>1, NextInvariant
<1>5. UNCHANGED <<rows, call>> /\ \A x \in Tx \ TxsOf(p) : clog'[x] = clog[x]
  BY <1>1, <1>3 DEF Open, Begin
<1>6. [at |-> "parse", event |-> e] \in Work
  BY DEF Work
<1>7. /\ work' \in [Tx -> Work] /\ work'[t].at = "parse" /\ work'[t].event = e
      /\ \A x \in Tx \ {t} : work'[x] = work[x]
  BY <1>3, <1>6 DEF WebhookTypeOK
<1>8. /\ post' \in [Posts -> Post] /\ post'[p].at = "processing" /\ post'[p].event = e
      /\ \A q \in Posts \ {p} : post'[q] = post[q]
  BY <1>2, <1>3, MovedPost DEF PostStages
<1>9. /\ Outside(TxsOf(p)) /\ Touches({p}, TxsOf(p), t) /\ TxsOf(p) \in SUBSET Tx
      /\ \A q \in Posts \ {p} : captureTx(q) \notin TxsOf(p) /\ processTx(q) # t
  <2>1. \A f \in Events : RowStep(TxsOf(p), f)
    BY <1>3 DEF RowStep
  <2> QED BY <1>1, <1>3, <1>5, <1>7, <1>8, <2>1, TxsOfPost DEF Outside, Touches
<1>10. EventStays(e) /\ Filed(e) /\ Setup \in Xids
  BY <1>3, <1>4, <1>9, EventsStay DEF PostAt, Xids
<1>11. WorkFits(t)'
  BY <1>7, <1>10 DEF WorkFits, WorkAt, EventStays
<1>12. PostFits(p)'
  <2>1. PostAt(p, e)'
    BY <1>1, <1>3, <1>7, <1>8, <1>10 DEF PostAt, EventStays
  <2> QED BY <1>8, <2>1 DEF PostFits
<1>13. WebhookTypeOK'
  BY <1>3, <1>7, <1>8 DEF WebhookTypeOK, world
<1>14. Ids' = Ids
  BY <1>5 DEF Ids
<1> QED BY <1>1, <1>4, <1>9, <1>11, <1>12, <1>13, <1>14, TouchInv

LEMMA OutsideMore ==
  ASSUME NEW X, NEW Y, X \subseteq Y, Outside(X)
  PROVE  Outside(Y)
BY DEF Outside, RowStep

LEMMA ProcessingInv ==
  ASSUME WebhookIInv, NEW p \in Posts, Processing(p)
  PROVE  WebhookIInv' /\ Outside(TxsOf(p))
<1>1. PICK t \in Tx : t = processTx(p) /\ {t} \subseteq TxsOf(p)
  BY TxTypes DEF TxsOf
<1>2. Worker(t)
  BY <1>1, TxTypes DEF Worker
<1>3. post[p].at = "processing" /\ ProcessDelivery(t) /\ UNCHANGED routeVars
  BY <1>1 DEF Processing
<1>4. PostAt(p, post[p].event) /\ post[p].event \in Events
  BY <1>3, Arrived
<1>5. work[t].at # "idle"
  BY <1>1, <1>3, <1>4 DEF PostAt
<1>6. WebhookIInv' /\ Outside({t})
  BY <1>2, <1>3, <1>5, ProcessInv
<1> QED BY <1>1, <1>6, OutsideMore

LEMMA ProcessedInv ==
  ASSUME WebhookIInv, NEW p \in Posts, Processed(p)
  PROVE  WebhookIInv' /\ Outside(TxsOf(p))
<1>1. PICK t \in Tx : t = processTx(p) /\ t \in TxsOf(p) /\ t \in Xids
  BY TxTypes DEF TxsOf
<1>2. PICK e \in Events : e = post[p].event
  BY Arrived DEF Processed
<1>3. /\ WebhookTypeOK /\ LedgerIInv /\ PostAt(p, e) /\ post[p].at = "processing"
      /\ answer \in [Posts -> {"none", "error"} \cup Terminal] /\ clog \in [Xids -> Fates]
      /\ Untouched /\ UNCHANGED work /\ Close(t) /\ work[t].at = "done"
  BY <1>1, <1>2, Arrived DEF Processed
<1>4. work[t].event = e /\ Filed(e)
  <2>1. work[t].event = e
    BY <1>1, <1>3 DEF PostAt
  <2>2. WorkAt(t, e)
    BY <1>3, <2>1 DEF WebhookIInv, WorkFits
  <2> QED BY <2>1, <2>2 DEF WorkAt
<1>5. PICK s \in Terminal : s = work[t].verdict
  BY <1>3, WorkTypes
<1>6. CASE Answer(p, s)
  <2>1. /\ post' \in [Posts -> Post] /\ post'[p].at = "done" /\ post'[p].event = e
        /\ \A q \in Posts \ {p} : post'[q] = post[q]
    BY <1>2, <1>3, <1>6, AnsweredPost, MovedPost
  <2>2. /\ answer' \in [Posts -> {"none", "error"} \cup Terminal] /\ answer'[p] = s
        /\ \A q \in Posts \ {p} : answer'[q] = answer[q]
    BY <1>3, <1>6, AnsweredPost
  <2>3. s = "PROCESSED" => Paid(t, e)
    <3>1. WorkAt(t, e)
      BY <1>3, <1>4 DEF WebhookIInv, WorkFits
    <3> QED BY <1>3, <1>5, <3>1 DEF WorkAt
  <2>4. IsCommitted(t)'
    BY <1>1, <1>3 DEF Close, Commit, IsCommitted
  <2>5. (\A f \in Events : EventStays(f)) => PostAt(p, e)'
    <3> SUFFICES ASSUME EventStays(e) PROVE PostAt(p, e)'
      OBVIOUS
    <3>1. s = "PROCESSED" => Paid(t, e)'
      BY <1>1, <2>3 DEF EventStays
    <3>2. s = "PROCESSED" => Paid(Setup, e)'
      BY <2>4, <3>1 DEF Paid, SeenBy
    <3> QED BY <1>4, <2>1, <2>2, <3>2 DEF PostAt, EventStays
  <2> QED BY <1>1, <1>3, <2>1, <2>2, <2>5, QuietPost
<1>7. CASE Goto(p, "failing") /\ UNCHANGED answer
  BY <1>1, <1>2, <1>3, <1>4, <1>7, Unpromised
<1> QED BY <1>1, <1>5, <1>6, <1>7 DEF Processed

LEMMA ThrowInv ==
  ASSUME WebhookIInv, NEW p \in Posts, Throw(p) \/ Die(p)
  PROVE  WebhookIInv' /\ Outside(TxsOf(p))
<1>1. captureTx(p) \in TxsOf(p) /\ processTx(p) \in TxsOf(p)
  BY DEF TxsOf
<1>2. post[p].at # "new" /\ Untouched /\ UNCHANGED work
  BY DEF Throw, Die
<1>3. post[p].at = "processing" => Filed(post[p].event)
  BY <1>2, Arrived DEF PostAt
<1> QED BY <1>1, <1>2, <1>3, Unpromised DEF Throw, Die

LEMMA SetFailedInv ==
  ASSUME WebhookIInv, NEW p \in Posts, SetFailed(p)
  PROVE  WebhookIInv' /\ Outside(TxsOf(p))
<1>1. PICK e \in Events : e = post[p].event
  BY Arrived DEF SetFailed
<1>2. /\ WebhookTypeOK /\ PostAt(p, e) /\ post[p].at = "failing"
      /\ UNCHANGED <<received, world, work, ledgerVars>> /\ Answer(p, "error")
      /\ received \in Nat
  BY <1>1, Arrived DEF SetFailed, WebhookTypeOK
<1>3. PICK v : v = Latest(deliveries[e])
  OBVIOUS
<1>4. PICK w : w = Autocommitted([v EXCEPT !.status = "FAILED"])
  OBVIOUS
<1>5. ~ IsActive(deliveries[e].by) /\ Filed(e) /\ deliveries' = [deliveries EXCEPT ![e] = w]
  BY <1>1, <1>2, <1>3, <1>4 DEF SetFailed, PostAt
<1>6. w \in Cell(Delivery \cup {Absent})
  <2>1. v \in Delivery
    BY <1>2, <1>3, <1>5, DeliveryTypes DEF Filed
  <2>2. PICK z \in Delivery : z = [v EXCEPT !.status = "FAILED"]
    BY <2>1 DEF Delivery, Statuses
  <2>3. w = [was |-> z, now |-> z, by |-> Setup]
    BY <1>4, <2>2 DEF Autocommitted, Loaded
  <2> QED BY <2>3 DEF Cell, Xids
<1>7. /\ deliveries' \in [Events -> Cell(Delivery \cup {Absent})] /\ deliveries'[e] = w
      /\ \A f \in Events \ {e} : deliveries'[f] = deliveries[f]
  BY <1>2, <1>5, <1>6 DEF WebhookTypeOK
<1>8. UNCHANGED <<clog, rows, call>>
  BY <1>2 DEF ledgerVars
<1>9. RowFailed(e)
  BY <1>3, <1>4, <1>5, <1>7 DEF RowFailed
<1>10. \A f \in Events : RowStep(TxsOf(p), f)
  BY <1>7, <1>8, <1>9 DEF RowStep
<1>11. /\ post' \in [Posts -> Post] /\ post'[p].at = "done" /\ post'[p].event = e
       /\ \A q \in Posts \ {p} : post'[q] = post[q]
  BY <1>1, <1>2, AnsweredPost, MovedPost
<1>12. /\ answer' \in [Posts -> {"none", "error"} \cup Terminal] /\ answer'[p] = "error"
       /\ \A q \in Posts \ {p} : answer'[q] = answer[q]
  BY <1>2, AnsweredPost
<1>13. PostAt(p, e)'
  BY <1>11, <1>12 DEF PostAt, Terminal
<1> QED BY <1>2, <1>7, <1>8, <1>10, <1>11, <1>12, <1>13, PostInv

-----------------------------------------------------------------------------
LEMMA WebhookInitInv == WebhookInit => WebhookIInv
<1> SUFFICES ASSUME WebhookInit PROVE WebhookIInv
  OBVIOUS
<1>1. LedgerIInv /\ Setup \in Xids
  BY InitInvariant DEF WebhookInit, Xids
<1>2. WebhookTypeOK
  <2>1. deliveries \in [Events -> Cell(Delivery \cup {Absent})]
    BY <1>1 DEF WebhookInit, Loaded, Cell
  <2> QED BY <2>1 DEF WebhookInit, WebhookTypeOK, Work, NoWork, Post
<1>3. \A e \in Events : RowFits(e)
  BY <1>1 DEF WebhookInit, Loaded, RowFits, Filed, Latest, LedgerIInv
<1>4. \A i \in Ids : rows[i].key = NoKey
  BY OpeningIsCommitted DEF WebhookInit, LedgerInit, Ids
<1>5. \A i \in Ids : CreditFits(i)
  BY <1>4, EventKeysAreNotReversals DEF CreditFits, Events
<1>6. \A t \in Tx : WorkFits(t)
  BY DEF WebhookInit, NoWork, WorkFits
<1>7. \A p \in Posts : PostFits(p)
  BY DEF WebhookInit, PostFits
<1> QED BY <1>1, <1>2, <1>3, <1>5, <1>6, <1>7 DEF WebhookIInv

\* Posts and the world leave the transactions of everybody else alone.
PostTxs == UNION {TxsOf(p) : p \in Posts}
LEMMA WebhookNextOutside ==
  ASSUME WebhookIInv, WebhookNext
  PROVE  WebhookIInv' /\ Outside(PostTxs)
<1>1. ASSUME NEW p \in Posts, Outside(TxsOf(p)) PROVE Outside(PostTxs)
  BY <1>1, OutsideMore DEF PostTxs
<1>2. ASSUME NEW p \in Posts, NEW e \in Events, NEW v \in BOOLEAN, Receive(p, e, v)
      PROVE  WebhookIInv' /\ Outside(PostTxs)
  BY <1>1, <1>2, ReceiveInv
<1>3. ASSUME NEW p \in Posts, Serve(p) PROVE WebhookIInv' /\ Outside(PostTxs)
  BY <1>1, <1>3, CaptureInv, CaptureAgainInv, CapturedInv, ProcessingBegins, ProcessingInv,
     ProcessedInv, SetFailedInv DEF Serve
<1>4. ASSUME NEW p \in Posts, Throw(p) \/ Die(p) PROVE WebhookIInv' /\ Outside(PostTxs)
  BY <1>1, <1>4, ThrowInv
<1>5. CASE WorldTurns
  <2>1. UNCHANGED <<deliveries, work, clog>>
    BY <1>5 DEF WorldTurns, ledgerVars
  <2> QED BY <1>5, <2>1, WorldInv DEF Outside, RowStep
<1> QED BY <1>2, <1>3, <1>4, <1>5 DEF WebhookNext, RouteNext

LEMMA WebhookIdles == WebhookIInv /\ UNCHANGED webhookVars => WebhookIInv'
<1> SUFFICES ASSUME WebhookIInv, UNCHANGED webhookVars PROVE WebhookIInv'
  OBVIOUS
<1>1. UNCHANGED <<clog, rows, bal, call, deliveries, received, known, priced, age, work, post,
                  answer>>
  BY DEF webhookVars, ledgerVars, world, routeVars
<1>2. LedgerIInv'
  BY <1>1, NextInvariant DEF WebhookIInv, ledgerVars
<1>3. WebhookTypeOK'
  BY <1>1 DEF WebhookIInv, WebhookTypeOK
<1>4. (\A e \in Events : RowFits(e)') /\ (\A i \in Ids' : CreditFits(i)')
  BY <1>1 DEF WebhookIInv, RowFits, CreditFits, Filed, Sound, Begun, Proper, Paid, Latest,
              SeenBy, IsCommitted, IsActive, Ids
<1>5. \A t \in Tx : WorkFits(t)'
  BY <1>1 DEF WebhookIInv, WorkFits, WorkAt, CallFits, Wrote, Filed, Sound, Begun, Paid,
              Latest, SeenBy, IsCommitted, Ids
<1>6. \A p \in Posts : PostFits(p)'
  BY <1>1 DEF WebhookIInv, PostFits, PostAt, Holding, Filed, Paid, Latest, SeenBy,
              IsCommitted, IsActive, Ids
<1> QED BY <1>2, <1>3, <1>4, <1>5, <1>6 DEF WebhookIInv

LEMMA WebhookNextInv == WebhookIInv /\ [WebhookNext]_webhookVars => WebhookIInv'
BY WebhookNextOutside, WebhookIdles

-----------------------------------------------------------------------------
LEMMA CreditedIfProcessed ==
  ASSUME WebhookIInv PROVE ProcessedIsCredited
<1>1. LedgerIInv /\ KeyAppliedOnce /\ \A i \in Ids : rows[i].by \in Xids
  BY RowTypes
  DEF WebhookIInv, LedgerIInv, OneLiveHolder, KeyAppliedOnce, Entries, IsCommitted
<1>2. ASSUME NEW e \in Deliveries, Status(e) = "PROCESSED"
      PROVE  \E i \in CreditsOf(e) : /\ CreditsOf(e) = {i} /\ rows[i].user = UserOf[e]
                                     /\ rows[i].delta = Worth[TypeOf[e]]
  <2>1. e \in Events /\ Filed(e) /\ Latest(deliveries[e]).status = "PROCESSED"
    BY <1>2 DEF Deliveries, Filed, Status
  <2>2. Paid(Setup, e)
    BY <2>1 DEF WebhookIInv, RowFits
  <2>3. PICK i \in Ids : rows[i].key = e /\ IsCommitted(rows[i].by)
    BY <1>1, <2>2 DEF Paid, SeenBy, LedgerIInv, IsCommitted
  <2>4. i \in CreditsOf(e) /\ e # NoKey
    BY <2>1, <2>3, EventKeysAreNotReversals DEF CreditsOf, Entries, Events
  <2>5. CreditsOf(e) = {i}
    BY <1>1, <2>4 DEF CreditsOf, KeyAppliedOnce
  <2>6. CreditFits(i)
    BY <2>3 DEF WebhookIInv
  <2> QED BY <2>1, <2>3, <2>4, <2>5, <2>6 DEF CreditFits
<1>3. ASSUME NEW e \in Events, CreditsOf(e) # {}
      PROVE  /\ e \in Deliveries /\ Latest(deliveries[e]).valid
             /\ UserOf[e] \in known /\ TypeOf[e] \in priced /\ age[e] # "early"
  <2>1. PICK i \in Ids : rows[i].key = e
    BY <1>3 DEF CreditsOf, Entries
  <2>2. Proper(e)
    BY <2>1 DEF WebhookIInv, CreditFits
  <2> QED BY <2>2 DEF Proper, Sound, Filed, Begun, Deliveries
<1> QED BY <1>2, <1>3 DEF ProcessedIsCredited

LEMMA AnsweredTruly ==
  ASSUME WebhookIInv PROVE AnswersAreTrue
<1> SUFFICES ASSUME NEW p \in Posts, answer[p] \in Terminal
             PROVE  /\ answer[p] = "PROCESSED" => CreditsOf(post[p].event) # {}
                    /\ post[p].event \in Deliveries
  BY DEF AnswersAreTrue, Terminal
<1>1. post[p].at # "new"
  BY DEF WebhookIInv, PostFits, Terminal
<1>2. PICK e \in Events : e = post[p].event /\ PostAt(p, e)
  BY <1>1, Arrived
<1>3. e \in Deliveries
  BY <1>2 DEF PostAt, Filed, Deliveries
<1>4. Paid(Setup, e) => CreditsOf(e) # {}
  BY DEF Paid, SeenBy, IsCommitted, CreditsOf, Entries, WebhookIInv, LedgerIInv
<1> QED BY <1>2, <1>3, <1>4 DEF PostAt

(* The delivery, the work on it and the partner's answer agree in every       *)
(* state, however posts of one event and their failures interleave            *)
(* (captureDelivery, processDelivery, the route).                             *)
THEOREM WebhookSafe == WebhookSpec => []WebhookIInv
<1> QED BY WebhookInitInv, WebhookNextInv, PTL DEF WebhookSpec

(* Behind any number of posts the ledger is the one Ledger specifies:         *)
(* processDelivery moves points only as appendEntry does. So webhooks never   *)
(* make reconcile() report a discrepancy and never apply a key twice.         *)
THEOREM WebhookKeepsLedgerPromises ==
  WebhookSpec => LedgerSpec /\ LedgerIsAtomic /\ []ReconcileEmpty /\ []KeyAppliedOnce
<1>1. WebhookInit => LedgerInit
  BY DEF WebhookInit
<1>2. WebhookIInv /\ [WebhookNext]_webhookVars => [LedgerNext]_ledgerVars
  BY WebhookStep DEF WebhookIInv
<1>3. WebhookSpec => LedgerSpec
  BY WebhookSafe, <1>1, <1>2, PTL DEF WebhookSpec, LedgerSpec
<1> QED BY <1>3, LedgerReconciles, LedgerAppliesKeysOnce, LedgerIsImplemented, PTL

(* A delivery marked PROCESSED has been credited exactly once, for the user   *)
(* and the amount it calls for, and points come only from a well-formed       *)
(* delivery on file, whoever else posts the event meanwhile.                  *)
THEOREM ProcessedMeansCredited == WebhookSpec => []ProcessedIsCredited
BY WebhookSafe, CreditedIfProcessed, PTL

(* What a partner was told stays so: an event answered PROCESSED is credited, *)
(* and one answered at all is on file, whatever later posts of it do.         *)
THEOREM PartnersAreToldTheTruth == WebhookSpec => []AnswersAreTrue
BY WebhookSafe, AnsweredTruly, PTL
-----------------------------------------------------------------------------
(* backfillUnmatched, beside the posts.                                      *)

\* The delivery a backfill replays: its row is the backfill's, and parked still
\* to everybody else.
RunAt(b, e) == LET t == backfillTx(b) IN
  /\ deliveries[e].by = t
  /\ deliveries[e].was # Absent /\ deliveries[e].was.status = "UNMATCHED"
  /\ work[t].at # "idle" /\ work[t].event = e
RunFits(b) == LET t == backfillTx(b) IN
  /\ run[b].at \in {"next", "process"} =>
       /\ IsActive(t)
       /\ \A e \in run[b].todo : Filed(e) /\ deliveries[e].by # t
  /\ run[b].at = "process" => RunAt(b, run[b].event)

Run == [at : {"new", "done"}] \cup [at : {"next"}, todo : SUBSET Events]
         \cup [at : {"process"}, todo : SUBSET Events, event : Events]

BackfillIInv == /\ WebhookIInv /\ run \in [Backfills -> Run]
                /\ \A b \in Backfills : RunFits(b)

LEMMA BackfillTxTypes ==
  ASSUME NEW b \in Backfills
  PROVE  /\ backfillTx(b) \in Tx /\ backfillTx(b) \in Xids /\ backfillTx(b) # Setup
         /\ backfillTx(b) \notin PostTxs /\ Worker(backfillTx(b))
         /\ \A q \in Posts : processTx(q) # backfillTx(b)
         /\ \A c \in Backfills \ {b} : backfillTx(c) # backfillTx(b)
<1>1. backfillTx(b) \in Tx
  BY BackfillsRunTransactions
<1>2. \A q \in Posts : captureTx(q) # backfillTx(b) /\ processTx(q) # backfillTx(b)
  BY DEF backfillTx, captureTx, processTx
<1>3. \A c \in Backfills \ {b} : backfillTx(c) # backfillTx(b)
  BY DEF backfillTx
<1> QED BY <1>1, <1>2, <1>3 DEF Xids, PostTxs, TxsOf, Worker

LEMMA RunTypes ==
  ASSUME NEW b \in Backfills, run \in [Backfills -> Run]
  PROVE  /\ run[b].at \in {"next", "process"} => run[b].todo \in SUBSET Events
         /\ run[b].at = "process" => run[b].event \in Events
<1>1. run[b] \in Run
  OBVIOUS
<1> QED BY <1>1 DEF Run

\* A row another transaction writes is not thereby b's.
LEMMA RowNotTaken ==
  ASSUME WebhookTypeOK, NEW X \in SUBSET Tx, NEW t \in Tx \ X, NEW e \in Events,
         RowStep(X, e), deliveries[e].by # t
  PROVE  deliveries'[e].by # t
<1>1. deliveries[e] \in Cell(Delivery \cup {Absent}) /\ Latest(deliveries[e]) \in Delivery \cup {Absent}
  BY DeliveryTypes
<1>2. ASSUME NEW x \in X, NEW v \in Delivery, RowWritten(e, x, v)
      PROVE  deliveries'[e].by = x
  <2>1. PICK c : c = deliveries[e]
    OBVIOUS
  <2>2. deliveries'[e] = [Locked(x, c) EXCEPT !.now = v]
    BY <1>2, <2>1 DEF RowWritten, Written
  <2>3. PICK d : d = Locked(x, c)
    OBVIOUS
  <2>4. d = [was |-> d.was, now |-> d.now, by |-> x]
    BY <1>1, <2>1, <2>3 DEF Locked, Cell
  <2> QED BY <2>2, <2>3, <2>4
<1>3. RowFailed(e) => deliveries'[e].by = Setup
  BY DEF RowFailed, Autocommitted, Loaded
<1> QED BY <1>2, <1>3 DEF RowStep

\* What others do leaves a backfill where it is.
LEMMA RunStays ==
  ASSUME WebhookIInv, LedgerIInv', [LedgerNext]_ledgerVars, NEW X \in SUBSET Tx, Outside(X),
         NEW b \in Backfills, backfillTx(b) \notin X,
         run \in [Backfills -> Run], RunFits(b), run'[b] = run[b]
  PROVE  RunFits(b)'
<1>1. PICK t \in Tx \ X : t = backfillTx(b)
  BY BackfillTxTypes
<1>2. WebhookTypeOK /\ LedgerIInv /\ Decided /\ Grown /\ \A e \in Events : RowFits(e)
  BY LedgerGrows DEF WebhookIInv
<1>3. work'[t] = work[t] /\ (IsActive(t) => IsActive(t)')
  BY DEF Outside, IsActive
<1>4. ASSUME NEW e \in Events, Filed(e), deliveries[e].by # t
      PROVE  Filed(e)' /\ deliveries'[e].by # t
  BY <1>2, <1>4, RowsFit, RowNotTaken DEF Outside
<1>5. ASSUME NEW e \in Events, IsActive(t), deliveries[e].by = t
      PROVE  deliveries'[e] = deliveries[e]
  BY <1>5, HoldingStays DEF Outside
<1>6. run[b].at \in {"next", "process"} => run[b].todo \in SUBSET Events
  BY RunTypes
<1>7. run[b].at = "process" => run[b].event \in Events
  BY RunTypes
<1> QED BY <1>1, <1>3, <1>4, <1>5, <1>6, <1>7 DEF RunFits, RunAt

\* A step of backfill b that the invariant of the deliveries bears.
LEMMA BackfillInv ==
  ASSUME BackfillIInv, WebhookIInv', [LedgerNext]_ledgerVars, NEW b \in Backfills,
         Outside({backfillTx(b)}), RunFits(b)',
         NEW r \in Run, run' = [run EXCEPT ![b] = r]
  PROVE  BackfillIInv'
<1>1. WebhookIInv /\ LedgerIInv' /\ run \in [Backfills -> Run] /\ backfillTx(b) \in Tx
  BY BackfillTxTypes DEF BackfillIInv, WebhookIInv
<1>2. run' \in [Backfills -> Run] /\ \A c \in Backfills \ {b} : run'[c] = run[c]
  BY <1>1
<1>3. ASSUME NEW c \in Backfills \ {b} PROVE RunFits(c)'
  <2>1. backfillTx(c) \notin {backfillTx(b)} /\ {backfillTx(b)} \in SUBSET Tx
    BY <1>1, BackfillTxTypes
  <2>2. RunFits(c) /\ run'[c] = run[c]
    BY <1>2 DEF BackfillIInv
  <2> QED BY <1>1, <2>1, <2>2, RunStays
<1> QED BY <1>2, <1>3 DEF BackfillIInv

\* A step that leaves the deliveries and the work alone.
LEMMA QuietRun ==
  ASSUME BackfillIInv, NEW b \in Backfills, Untouched, UNCHANGED <<work, routeVars>>,
         LET t == backfillTx(b) IN Open(t) \/ Close(t) \/ Fail(t) \/ UNCHANGED ledgerVars
  PROVE  WebhookIInv' /\ [LedgerNext]_ledgerVars /\ Outside({backfillTx(b)})
<1>1. PICK t \in Tx : t = backfillTx(b) /\ t \in Xids
  BY BackfillTxTypes
<1>2. /\ WebhookIInv /\ LedgerIInv /\ WebhookTypeOK /\ clog \in [Xids -> Fates]
      /\ \A p \in Posts : PostFits(p)
  BY DEF BackfillIInv, WebhookIInv, LedgerIInv, LedgerTypeOK
<1>3. [LedgerNext]_ledgerVars
  BY <1>1 DEF LedgerNext
<1>4. UNCHANGED <<rows, call>> /\ \A x \in Tx \ {t} : clog'[x] = clog[x]
  BY <1>1, <1>2 DEF Open, Close, Fail, Begin, Commit, Abort, ledgerVars, Xids
<1>5. UNCHANGED <<deliveries, received, world, post, answer>>
  BY DEF Untouched, routeVars
<1>6. Outside({t})
  BY <1>4, <1>5 DEF Outside, RowStep
<1>7. Touches({}, {t}, t)
  BY <1>4, <1>5, <1>6 DEF Touches
<1>8. LedgerIInv' /\ Decided /\ Grown
  BY <1>2, <1>3, NextInvariant, LedgerGrows
<1>9. \A e \in Events : EventStays(e)
  BY <1>2, <1>3, <1>7, <1>8, EventsStay
<1>10. WorkFits(t)'
  BY <1>2, <1>4, <1>8, <1>9, WorkStays DEF WebhookIInv
<1>11. WebhookTypeOK' /\ Ids' = Ids
  BY <1>2, <1>4, <1>5 DEF WebhookTypeOK, world, Ids
<1>12. \A q \in Posts : captureTx(q) \notin {t} /\ processTx(q) # t
  BY <1>1, BackfillTxTypes DEF Worker
<1> QED BY <1>1, <1>2, <1>3, <1>6, <1>7, <1>8, <1>10, <1>11, <1>12, TouchInv

LEMMA StartInv ==
  ASSUME BackfillIInv, NEW b \in Backfills, NEW f \in Filters, Start(b, f)
  PROVE  BackfillIInv'
<1>1. PICK t \in Tx : t = backfillTx(b) /\ t \in Xids
  BY BackfillTxTypes
<1>2. WebhookIInv' /\ [LedgerNext]_ledgerVars /\ Outside({backfillTx(b)})
  BY QuietRun DEF Start
<1>3. PICK S \in SUBSET Events : S = Parked(f)
  BY DEF Parked, Deliveries
<1>4. run' = [run EXCEPT ![b] = [at |-> "next", todo |-> S]]
  BY <1>3 DEF Start
<1>5. PICK r \in Run : r = [at |-> "next", todo |-> S]
  BY DEF Run
<1>6. clog[t] = "new" /\ IsActive(t)' /\ deliveries' = deliveries
  BY <1>1 DEF Start, Open, Begin, IsActive, Untouched, BackfillIInv, WebhookIInv, LedgerIInv,
              LedgerTypeOK
<1>7. \A e \in Events : deliveries[e].by # t
  BY <1>6 DEF BackfillIInv, WebhookIInv, RowFits
<1>8. ASSUME NEW e \in S PROVE Filed(e)'
  <2>1. e \in Events /\ Filed(e)
    BY <1>3 DEF Parked, Deliveries, Filed
  <2>2. clog' = [clog EXCEPT ![t] = "active"]
    BY <1>1 DEF Start, Open, Begin
  <2>3. IsCommitted(deliveries[e].by)' <=> IsCommitted(deliveries[e].by)
    BY <1>1, <1>6, <1>7, <2>1, <2>2 DEF IsCommitted, BackfillIInv, WebhookIInv, LedgerIInv,
                                        LedgerTypeOK
  <2> QED BY <1>6, <2>1, <2>3 DEF Filed, Latest
<1>9. run'[b].at = "next" /\ run'[b].todo = S
  BY <1>4 DEF BackfillIInv
<1>10. RunFits(b)'
  BY <1>1, <1>6, <1>7, <1>8, <1>9 DEF RunFits
<1> QED BY <1>2, <1>4, <1>5, <1>10, BackfillInv

LEMMA ClaimInv ==
  ASSUME BackfillIInv, NEW b \in Backfills, NEW e \in Events, ClaimParked(b, e)
  PROVE  BackfillIInv'
<1>1. PICK t \in Tx : t = backfillTx(b) /\ t \in Xids
  BY BackfillTxTypes
<1>2. /\ WebhookIInv /\ LedgerIInv /\ WebhookTypeOK /\ RunFits(b) /\ run \in [Backfills -> Run]
      /\ RowFits(e) /\ clog[Setup] = "committed"
  BY DEF BackfillIInv, WebhookIInv, LedgerIInv
<1>3. PICK S \in SUBSET Events : S = run[b].todo
  BY <1>2, RunTypes DEF ClaimParked
<1>4. /\ run[b].at = "next" /\ e \in S /\ View(t, deliveries[e]).status = "UNMATCHED"
      /\ SetStatus(t, e, "RECEIVED")
      /\ work' = [work EXCEPT ![t] = [at |-> "parse", event |-> e]]
      /\ UNCHANGED <<received, world, routeVars, ledgerVars>>
  BY <1>1, <1>3 DEF ClaimParked, Claim, StartWork, Oldest
<1>5. IsActive(t) /\ (\A d \in S : Filed(d) /\ deliveries[d].by # t)
  BY <1>1, <1>2, <1>3, <1>4 DEF RunFits
<1>6. PICK o \in Delivery : o = View(t, deliveries[e]) /\ o.valid = Latest(deliveries[e]).valid
  BY <1>2, <1>4, <1>5, ViewIsOnFile
<1>7. o = Latest(deliveries[e]) /\ o.status = "UNMATCHED"
  BY <1>4, <1>5, <1>6 DEF View
<1>8. PICK v \in Delivery : v = [o EXCEPT !.status = "RECEIVED"]
  BY DEF Delivery, Statuses
<1>9. v.valid = o.valid /\ v.status = "RECEIVED"
  BY <1>8 DEF Delivery
<1>10. ~ Waits(t, deliveries[e]) /\ deliveries' = [deliveries EXCEPT ![e] = Written(t, @, v)]
  BY <1>4, <1>6, <1>8 DEF SetStatus
<1>11. /\ RowWritten(e, t, v) /\ deliveries' \in [Events -> Cell(Delivery \cup {Absent})]
       /\ \A f \in Events \ {e} : deliveries'[f] = deliveries[f]
       /\ deliveries'[e].by = t
  <2>1. Filed(e) => v.valid = Latest(deliveries[e]).valid
    BY <1>6, <1>9
  <2>2. v.status = "PROCESSED" => Paid(t, e)
    BY <1>9
  <2> QED BY <1>2, <1>5, <1>10, <2>1, <2>2, Rewritten
<1>12. deliveries'[e].was = o
  <2>1. PICK c : c = deliveries[e]
    OBVIOUS
  <2>2. c.by # t /\ Latest(c) = o
    BY <1>4, <1>5, <1>7, <2>1
  <2>3. Locked(t, c) = [was |-> o, now |-> o, by |-> t]
    BY <2>2 DEF Locked
  <2>4. deliveries'[e] = [Locked(t, c) EXCEPT !.now = v]
    BY <1>11, <2>1 DEF RowWritten, Written
  <2> QED BY <2>3, <2>4
<1>13. UNCHANGED <<clog, rows, bal, call, known, priced, age, post, answer>>
  BY <1>4 DEF ledgerVars, world, routeVars
<1>14. [at |-> "parse", event |-> e] \in Work
  BY DEF Work
<1>15. /\ work' \in [Tx -> Work] /\ work'[t].at = "parse" /\ work'[t].event = e
       /\ \A x \in Tx \ {t} : work'[x] = work[x]
  BY <1>2, <1>4, <1>14 DEF WebhookTypeOK
<1>16. Outside({t})
  BY <1>11, <1>13, <1>15 DEF Outside, RowStep
<1>17. Touches({}, {t}, t)
  BY <1>13, <1>15, <1>16 DEF Touches, world
<1>18. [LedgerNext]_ledgerVars /\ LedgerIInv'
  <2>1. [LedgerNext]_ledgerVars
    BY <1>4
  <2> QED BY <1>2, <2>1, NextInvariant
<1>19. EventStays(e)
  BY <1>2, <1>17, <1>18, EventsStay
<1>20. Filed(e)'
  BY <1>4, <1>5, <1>19 DEF EventStays
<1>21. WorkFits(t)'
  BY <1>15, <1>20 DEF WorkFits, WorkAt
<1>22. WebhookTypeOK' /\ Ids' = Ids
  BY <1>2, <1>4, <1>11, <1>13, <1>15 DEF WebhookTypeOK, Ids
<1>23. \A q \in Posts : captureTx(q) \notin {t} /\ processTx(q) # t
  BY <1>1, BackfillTxTypes DEF Worker
<1>24. WebhookIInv'
  BY <1>2, <1>17, <1>18, <1>21, <1>22, <1>23, TouchInv
<1>25. PICK r \in Run : r = [at |-> "process", todo |-> S \ {e}, event |-> e]
  BY DEF Run
<1>26. run' = [run EXCEPT ![b] = r]
  BY <1>3, <1>25 DEF ClaimParked, Claim
<1>27. run'[b].at = "process" /\ run'[b].todo = S \ {e} /\ run'[b].event = e
  BY <1>2, <1>25, <1>26
<1>28. ASSUME NEW d \in S \ {e} PROVE Filed(d)' /\ deliveries'[d].by # t
  BY <1>5, <1>11, <1>13 DEF Filed, Latest, IsCommitted
<1>29. RunFits(b)'
  <2>1. IsActive(t)'
    BY <1>5, <1>13 DEF IsActive
  <2>2. RunAt(b, e)'
    BY <1>1, <1>7, <1>11, <1>12, <1>15, AbsentIsNoRow DEF RunAt
  <2> QED BY <1>1, <1>27, <1>28, <2>1, <2>2 DEF RunFits
<1> QED BY <1>1, <1>16, <1>18, <1>24, <1>26, <1>29, BackfillInv

\* What processDelivery does to the delivery, and it leaves its transaction open.
LEMMA ProcessWrites ==
  ASSUME WebhookTypeOK, NEW t \in Tx, ProcessDelivery(t), NEW e \in Events, work[t].event = e
  PROVE  /\ UNCHANGED clog
         /\ \/ deliveries' = deliveries
            \/ \E v : deliveries' = [deliveries EXCEPT ![e] = Written(t, @, v)]
<1>1. CASE Note(t)
  <2>1. deliveries' = [deliveries EXCEPT ![e] = Locked(t, deliveries[e])] /\ UNCHANGED clog
    BY <1>1 DEF Note, ledgerVars
  <2>2. deliveries' = [deliveries EXCEPT ![e] = Written(t, @, View(t, deliveries[e]))]
    BY <2>1, LockedIsWritten
  <2> QED BY <2>1, <2>2
<1>2. CASE Mark(t)
  BY <1>2 DEF Mark, SetStatus, ledgerVars
<1>3. CASE Parse(t) \/ FindUser(t) \/ FindNoRule(t) \/ Credited(t)
  BY <1>3 DEF Parse, FindUser, FindNoRule, Credited, Untouched, ledgerVars
<1>4. CASE FindRule(t) \/ Credit(t)
  BY <1>4 DEF FindRule, Credit, Untouched, AppendEntry, Advance, Lock, Insert, Duplicate, Move
<1> QED BY <1>1, <1>2, <1>3, <1>4 DEF ProcessDelivery

LEMMA ReplayInv ==
  ASSUME BackfillIInv, NEW b \in Backfills, Replay(b)
  PROVE  BackfillIInv'
<1>1. PICK t \in Tx : t = backfillTx(b) /\ t \in Xids /\ Worker(t)
  BY BackfillTxTypes
<1>2. /\ WebhookIInv /\ LedgerIInv /\ WebhookTypeOK /\ RunFits(b) /\ run \in [Backfills -> Run]
      /\ run[b].at = "process" /\ ProcessDelivery(t) /\ UNCHANGED run /\ UNCHANGED routeVars
  BY <1>1 DEF BackfillIInv, WebhookIInv, Replay
<1>3. PICK e \in Events : e = run[b].event
  BY <1>2, RunTypes
<1>4. RunAt(b, e) /\ IsActive(t)
  BY <1>1, <1>2, <1>3 DEF RunFits
<1>5. work[t].at # "idle" /\ work[t].event = e
  BY <1>1, <1>4 DEF RunAt
<1>6. WebhookIInv' /\ Outside({t}) /\ KeepsEvent(t)
  BY <1>1, <1>2, <1>5, ProcessInv
<1>7. /\ [LedgerNext]_ledgerVars /\ UNCHANGED clog
      /\ deliveries' = deliveries \/ \E v : deliveries' = [deliveries EXCEPT ![e] = Written(t, @, v)]
  BY <1>2, <1>5, ProcessStep, ProcessWrites
<1>8. /\ deliveries'[e].by = t /\ deliveries'[e].was = deliveries[e].was
      /\ \A d \in Events \ {e} : deliveries'[d] = deliveries[d]
  <2>1. PICK c : c = deliveries[e]
    OBVIOUS
  <2>2. c = [was |-> c.was, now |-> c.now, by |-> t] /\ Locked(t, c) = c
    BY <1>1, <1>2, <1>4, <2>1, DeliveryTypes DEF RunAt, Cell, Locked
  <2>3. CASE deliveries' = deliveries
    BY <2>1, <2>2, <2>3
  <2>4. ASSUME NEW v, deliveries' = [deliveries EXCEPT ![e] = Written(t, @, v)]
        PROVE  /\ deliveries'[e].by = t /\ deliveries'[e].was = c.was
               /\ \A d \in Events \ {e} : deliveries'[d] = deliveries[d]
    <3>1. deliveries'[e] = [c EXCEPT !.now = v]
      BY <1>2, <2>1, <2>2, <2>4 DEF Written, WebhookTypeOK
    <3>2. \A d \in Events \ {e} : deliveries'[d] = deliveries[d]
      BY <1>2, <2>4 DEF WebhookTypeOK
    <3> QED BY <2>2, <3>1, <3>2
  <2> QED BY <1>7, <2>1, <2>3, <2>4
<1>9. /\ work'[t].at # "idle" /\ work'[t].event = e /\ IsActive(t)'
      /\ run' = run /\ run[b].todo \in SUBSET Events
  BY <1>2, <1>4, <1>5, <1>6, <1>7, RunTypes DEF KeepsEvent, IsActive
<1>10. ASSUME NEW d \in run[b].todo PROVE Filed(d)' /\ deliveries'[d].by # t
  <2>1. Filed(d) /\ deliveries[d].by # t /\ d # e /\ d \in Events
    BY <1>1, <1>2, <1>4, <1>9 DEF RunFits, RunAt
  <2>2. deliveries'[d] = deliveries[d]
    BY <1>8, <2>1
  <2> QED BY <1>7, <2>1, <2>2 DEF Filed, Latest, IsCommitted
<1>11. RunFits(b)'
  <2>1. RunAt(b, e)'
    BY <1>1, <1>4, <1>8, <1>9 DEF RunAt
  <2> QED BY <1>1, <1>2, <1>3, <1>9, <1>10, <2>1 DEF RunFits
<1>12. PICK r \in Run : r = run[b]
  BY <1>2
<1>13. run' = [run EXCEPT ![b] = r]
  BY <1>2, <1>12
<1> QED BY <1>1, <1>6, <1>7, <1>11, <1>13, BackfillInv

\* A delivery skipped, or done with: on to the next one.
LEMMA MovesOnInv ==
  ASSUME BackfillIInv, NEW b \in Backfills,
         NextParked(b) \/ \E e \in Events : Skip(b, e)
  PROVE  BackfillIInv'
<1>1. PICK t \in Tx : t = backfillTx(b)
  BY BackfillTxTypes
<1>2. WebhookIInv' /\ [LedgerNext]_ledgerVars /\ Outside({backfillTx(b)})
  BY QuietRun DEF NextParked, Skip
<1>3. /\ RunFits(b) /\ run \in [Backfills -> Run] /\ run[b].at \in {"next", "process"}
      /\ deliveries' = deliveries /\ clog' = clog
  BY DEF BackfillIInv, NextParked, Skip, Untouched, ledgerVars
<1>4. PICK S \in SUBSET Events : /\ S \subseteq run[b].todo
                                 /\ run' = [run EXCEPT ![b] = [at |-> "next", todo |-> S]]
  <2>1. run[b].todo \in SUBSET Events
    BY <1>3, RunTypes
  <2>2. CASE NextParked(b)
    BY <2>1, <2>2 DEF NextParked
  <2>3. ASSUME NEW e \in Events, Skip(b, e)
        PROVE  run' = [run EXCEPT ![b] = [at |-> "next", todo |-> run[b].todo \ {e}]]
    <3>1. run[b] = [at |-> "next", todo |-> run[b].todo]
      BY <1>3, <2>3 DEF Skip, Run
    <3>2. [run[b] EXCEPT !.todo = @ \ {e}] = [at |-> "next", todo |-> run[b].todo \ {e}]
      BY <3>1
    <3> QED BY <2>3, <3>2 DEF Skip
  <2> QED BY <2>1, <2>2, <2>3
<1>5. PICK r \in Run : r = [at |-> "next", todo |-> S]
  BY DEF Run
<1>6. run'[b].at = "next" /\ run'[b].todo = S
  BY <1>3, <1>4
<1>7. RunFits(b)'
  BY <1>1, <1>3, <1>4, <1>6 DEF RunFits, Filed, Latest, IsCommitted, IsActive
<1> QED BY <1>2, <1>4, <1>5, <1>7, BackfillInv

LEMMA EndsInv ==
  ASSUME BackfillIInv, NEW b \in Backfills, Finish(b) \/ GiveUp(b)
  PROVE  BackfillIInv'
<1>1. WebhookIInv' /\ [LedgerNext]_ledgerVars /\ Outside({backfillTx(b)})
  BY QuietRun DEF Finish, GiveUp
<1>2. PICK r \in Run : r = [at |-> "done"]
  BY DEF Run
<1>3. run' = [run EXCEPT ![b] = r] /\ run'[b].at = "done"
  BY <1>2 DEF Finish, GiveUp, BackfillIInv
<1>4. RunFits(b)'
  BY <1>3 DEF RunFits
<1> QED BY <1>1, <1>2, <1>3, <1>4, BackfillInv

LEMMA BackfillInitInv == BackfillInit => BackfillIInv
<1> SUFFICES ASSUME BackfillInit PROVE BackfillIInv
  OBVIOUS
<1>1. LedgerIInv /\ Setup \in Xids /\ clog[Setup] = "committed"
  BY InitInvariant DEF BackfillInit, Xids, LedgerIInv
<1>2. ASSUME NEW e \in Events
      PROVE  \E v \in Delivery \cup {Absent} :
               /\ deliveries[e] = Loaded(v)
               /\ v # Absent => v.status # "PROCESSED"
  <2> DEFINE I == {i \in 1 .. Len(Stored) : Stored[i][1] = e}
             j == CHOOSE i \in 1 .. Len(Stored) : Stored[i][1] = e
  <2>1. CASE \E i \in 1 .. Len(Stored) : Stored[i][1] = e
    <3>1. j \in 1 .. Len(Stored) /\ deliveries[e] =
            Loaded([status |-> Stored[j][2], valid |-> TRUE, at |-> j])
      BY <2>1 DEF BackfillInit
    <3> HIDE DEF j
    <3>2. Stored[j][2] \in Statuses \ {"PROCESSED"} /\ j \in Nat
      BY <3>1, NothingStoredIsCredited
    <3>3. [status |-> Stored[j][2], valid |-> TRUE, at |-> j] \in Delivery
      BY <3>2 DEF Delivery
    <3> QED BY <3>1, <3>2, <3>3
  <2>2. CASE ~ \E i \in 1 .. Len(Stored) : Stored[i][1] = e
    BY <2>2 DEF BackfillInit
  <2> QED BY <2>1, <2>2
<1>3. WebhookTypeOK
  <2>1. deliveries = [e \in Events |-> deliveries[e]]
    BY DEF BackfillInit
  <2>2. deliveries \in [Events -> Cell(Delivery \cup {Absent})]
    BY <1>1, <1>2, <2>1 DEF Loaded, Cell
  <2>3. received \in Nat
    BY NothingStoredIsCredited DEF BackfillInit
  <2> QED BY <2>2, <2>3 DEF BackfillInit, WebhookTypeOK, Work, NoWork, Post
<1>4. ASSUME NEW e \in Events PROVE RowFits(e)
  <2>1. PICK v \in Delivery \cup {Absent} :
          deliveries[e] = Loaded(v) /\ (v # Absent => v.status # "PROCESSED")
    BY <1>2
  <2>2. deliveries[e].was = v /\ deliveries[e].now = v /\ deliveries[e].by = Setup
    BY <2>1 DEF Loaded
  <2> QED BY <1>1, <2>1, <2>2 DEF RowFits, Filed, Latest, IsActive
<1>5. \A i \in Ids : CreditFits(i)
  BY OpeningIsCommitted, EventKeysAreNotReversals
  DEF BackfillInit, LedgerInit, Ids, CreditFits, Events
<1>6. \A t \in Tx : WorkFits(t)
  BY DEF BackfillInit, NoWork, WorkFits
<1>7. \A p \in Posts : PostFits(p)
  BY DEF BackfillInit, PostFits
<1>8. run \in [Backfills -> Run] /\ \A b \in Backfills : RunFits(b)
  BY DEF BackfillInit, Run, RunFits
<1> QED BY <1>1, <1>3, <1>4, <1>5, <1>6, <1>7, <1>8 DEF BackfillIInv, WebhookIInv

LEMMA BackfillNextInv == BackfillIInv /\ [BackfillNext]_backfillVars => BackfillIInv'
<1> SUFFICES ASSUME BackfillIInv, [BackfillNext]_backfillVars PROVE BackfillIInv'
  OBVIOUS
<1>1. WebhookIInv /\ WebhookTypeOK /\ run \in [Backfills -> Run]
  BY DEF BackfillIInv, WebhookIInv
<1>2. CASE UNCHANGED backfillVars
  <2>1. UNCHANGED <<webhookVars, run>>
    BY <1>2 DEF backfillVars
  <2>2. UNCHANGED <<clog, deliveries, work, run>>
    BY <2>1 DEF webhookVars, ledgerVars
  <2>3. \A b \in Backfills : RunFits(b)'
    BY <2>2 DEF BackfillIInv, RunFits, RunAt, Filed, Latest, IsCommitted, IsActive
  <2> QED BY <1>1, <2>1, <2>3, WebhookIdles DEF BackfillIInv
<1>3. CASE WebhookNext /\ UNCHANGED run
  <2>1. WebhookIInv' /\ Outside(PostTxs)
    BY <1>1, <1>3, WebhookNextOutside
  <2>2. [LedgerNext]_ledgerVars /\ LedgerIInv'
    BY <1>1, <1>3, <2>1, WebhookStep DEF WebhookIInv
  <2>3. PostTxs \in SUBSET Tx
    BY TxsOfPost DEF PostTxs
  <2>4. ASSUME NEW b \in Backfills PROVE RunFits(b)'
    <3>1. backfillTx(b) \notin PostTxs /\ RunFits(b) /\ run'[b] = run[b]
      BY <1>3, BackfillTxTypes DEF BackfillIInv
    <3> QED BY <1>1, <2>1, <2>2, <2>3, <3>1, RunStays
  <2> QED BY <1>1, <1>3, <2>1, <2>4 DEF BackfillIInv
<1>4. ASSUME NEW b \in Backfills,
             \/ \E f \in Filters : Start(b, f)
             \/ \E e \in Events : ClaimParked(b, e) \/ Skip(b, e)
             \/ Replay(b) \/ NextParked(b) \/ Finish(b) \/ GiveUp(b)
      PROVE  BackfillIInv'
  BY <1>4, StartInv, ClaimInv, ReplayInv, MovesOnInv, EndsInv
<1> QED BY <1>2, <1>3, <1>4 DEF BackfillNext

\* A backfill, too, moves points only as appendEntry does.
LEMMA BackfillStep ==
  ASSUME WebhookTypeOK, [BackfillNext]_backfillVars
  PROVE  [LedgerNext]_ledgerVars
<1>1. CASE UNCHANGED backfillVars
  BY <1>1 DEF backfillVars, webhookVars
<1>2. CASE WebhookNext
  BY <1>2, WebhookStep
<1>3. ASSUME NEW b \in Backfills,
             \/ \E f \in Filters : Start(b, f)
             \/ \E e \in Events : ClaimParked(b, e) \/ Skip(b, e)
             \/ Replay(b) \/ NextParked(b) \/ Finish(b) \/ GiveUp(b)
      PROVE  LedgerNext \/ UNCHANGED ledgerVars
  <2>1. PICK t \in Tx : t = backfillTx(b)
    BY BackfillTxTypes
  <2>2. CASE Open(t) \/ Close(t) \/ Fail(t)
    BY <2>2 DEF LedgerNext
  <2>3. CASE ProcessDelivery(t)
    BY <2>3, ProcessStep
  <2>4. CASE UNCHANGED ledgerVars
    BY <2>4
  <2> QED BY <1>3, <2>1, <2>2, <2>3, <2>4
          DEF Start, ClaimParked, Claim, Skip, Replay, NextParked, Finish, GiveUp
<1> QED BY <1>1, <1>2, <1>3 DEF BackfillNext

-----------------------------------------------------------------------------
(* Posts, backfills and the deliveries they hold agree in every state, for    *)
(* any number of each (backfillUnmatched beside the route).                   *)
THEOREM BackfillSafe == BackfillSpec => []BackfillIInv
BY BackfillInitInv, BackfillNextInv, PTL DEF BackfillSpec

(* A delivery being replayed is still parked to everyone else, and no two     *)
(* backfills replay the same one: what the conditional claim is for.          *)
THEOREM BackfillsReplayWhatIsParked == BackfillSpec => []ReplaysWhatIsParked
<1>1. ASSUME BackfillIInv PROVE ReplaysWhatIsParked
  <2> SUFFICES ASSUME NEW b \in Backfills, Replaying(b)
               PROVE  /\ Status(run[b].event) = "UNMATCHED"
                      /\ \A c \in Backfills \ {b} : Replaying(c) => run[c].event # run[b].event
    BY DEF ReplaysWhatIsParked
  <2>1. \A c \in Backfills : Replaying(c) =>
           RunAt(c, run[c].event) /\ IsActive(backfillTx(c))
    BY <1>1 DEF BackfillIInv, RunFits, Replaying
  <2>2. Status(run[b].event) = "UNMATCHED"
    BY <2>1 DEF RunAt, Status, Latest, IsActive, IsCommitted
  <2>3. \A c \in Backfills \ {b} : backfillTx(c) # backfillTx(b)
    BY BackfillTxTypes
  <2> QED BY <2>1, <2>2, <2>3 DEF RunAt
<1> QED BY BackfillSafe, <1>1, PTL

(* However many backfills replay deliveries beside the posts that carry them, *)
(* the ledger is the one Ledger specifies, a delivery marked PROCESSED has    *)
(* been credited once, and the partners' answers stay true.                   *)
THEOREM BackfillKeepsPromises ==
  BackfillSpec => /\ LedgerSpec /\ LedgerIsAtomic /\ []ReconcileEmpty /\ []KeyAppliedOnce
                  /\ []ProcessedIsCredited /\ []AnswersAreTrue
<1>1. BackfillInit => LedgerInit
  BY DEF BackfillInit
<1>2. BackfillIInv /\ [BackfillNext]_backfillVars => [LedgerNext]_ledgerVars
  BY BackfillStep DEF BackfillIInv, WebhookIInv
<1>3. BackfillSpec => LedgerSpec
  BY BackfillSafe, <1>1, <1>2, PTL DEF BackfillSpec, LedgerSpec
<1>4. BackfillIInv => ProcessedIsCredited /\ AnswersAreTrue
  BY CreditedIfProcessed, AnsweredTruly DEF BackfillIInv
<1> QED BY BackfillSafe, <1>3, <1>4, LedgerReconciles, LedgerAppliesKeysOnce,
           LedgerIsImplemented, PTL
=============================================================================
