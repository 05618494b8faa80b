------------------------------ MODULE Webhook -------------------------------
(* modules/webhook: a partner posts activity events, at least once each. The  *)
(* route stores the delivery in one transaction, then interprets and credits  *)
(* it in another (processDelivery, which a backfill runs too, in its own      *)
(* transaction). The partner's event id is the key of the delivery and of the *)
(* ledger entry.                                                              *)
EXTENDS Ledger, FiniteSets

CONSTANTS Posts,              \* requests the partner makes
          Types,              \* activity types
          UserOf, TypeOf,     \* the user and activity an event names
          Worth,              \* what an activity type's rule pays
          Absent              \* no delivery row

Events == EventKeys
captureTx(p) == <<p, "capture">>
processTx(p) == <<p, "process">>

ASSUME PostsRunTransactions == \A p \in Posts : {captureTx(p), processTx(p)} \subseteq Tx
ASSUME EventsNameUsersAndTypes == \A e \in Events : UserOf[e] \in Users /\ TypeOf[e] \in Types
ASSUME RulesPay == \A y \in Types : Worth[y] \in (Nat \ {0}) \cap Deltas

VARIABLES deliveries,  \* webhook_deliveries: the row, if any, of each event id
          received,    \* received_at of the latest row inserted
          known,       \* users that exist
          priced,      \* activity types with a rule in force when they occurred
          age,         \* occurred_at of an event against the clock
          work,        \* the processDelivery call each transaction is in
          post,        \* the request each route call serves, and where it is
          answer       \* what the partner was told

world == <<known, priced, age>>
routeVars == <<post, answer>>
webhookVars == <<deliveries, received, world, work, routeVars, ledgerVars>>

Terminal == {"PROCESSED", "UNMATCHED", "REJECTED"}
Statuses == Terminal \cup {"RECEIVED", "FAILED"}
Delivery == [status : Statuses, valid : BOOLEAN, at : Nat]
ASSUME AbsentIsNoRow == Absent \notin Delivery
NoWork == [at |-> "idle"]

WebhookInit ==
  /\ LedgerInit
  /\ deliveries = [e \in Events |-> Loaded(Absent)] /\ received = 0
  /\ known \in SUBSET Users /\ priced \in SUBSET Types
  /\ age \in [Events -> {"early", "fresh"}]
  /\ work = [t \in Tx |-> NoWork]
  /\ post = [p \in Posts |-> [at |-> "new"]]
  /\ answer = [p \in Posts |-> "none"]

\* UPDATE of the delivery row a transaction reaches by its id.
SetStatus(t, e, s) ==
  /\ ~ Waits(t, deliveries[e])
  /\ deliveries' = [deliveries EXCEPT ![e] =
                      Written(t, @, [View(t, @) EXCEPT !.status = s])]

-----------------------------------------------------------------------------
(* processDelivery, in transaction t. It reads the row's status and never     *)
(* asks what it is.                                                           *)

StartWork(t, e) == work' = [work EXCEPT ![t] = [at |-> "parse", event |-> e]]
Verdict(t, s) == work' = [work EXCEPT ![t] = [at |-> "mark", event |-> @.event, verdict |-> s]]
Proceed(t, at) == work' = [work EXCEPT ![t].at = at]
Untouched == UNCHANGED <<deliveries, received, world>>
\* Seeded fault: the body is not validated.
ParseAnything(t) ==
  /\ work[t].at = "parse" /\ Proceed(t, "note")
  /\ Untouched /\ UNCHANGED ledgerVars

\* JSON, schema and NUL characters: a body that fails never passes.
Parse(t) ==
  LET e == work[t].event IN
  /\ work[t].at = "parse"
  /\ IF View(t, deliveries[e]).valid THEN Proceed(t, "note") ELSE Verdict(t, "REJECTED")
  /\ Untouched /\ UNCHANGED ledgerVars

\* Write the denormalised columns, which locks the row; then the freshness check.
Note(t) ==
  LET e == work[t].event IN
  /\ work[t].at = "note" /\ ~ Waits(t, deliveries[e])
  /\ deliveries' = [deliveries EXCEPT ![e] = Locked(t, @)]
  /\ IF age[e] = "fresh" THEN Proceed(t, "user") ELSE Verdict(t, "REJECTED")
  /\ UNCHANGED <<received, world, ledgerVars>>

FindUser(t) ==
  /\ work[t].at = "user"
  /\ IF UserOf[work[t].event] \in known THEN Proceed(t, "rule") ELSE Verdict(t, "UNMATCHED")
  /\ Untouched /\ UNCHANGED ledgerVars

FindNoRule(t) ==
  /\ work[t].at = "rule" /\ TypeOf[work[t].event] \notin priced
  /\ Verdict(t, "UNMATCHED")
  /\ Untouched /\ UNCHANGED ledgerVars
\* Seeded fault: the entry is written without the event's key.
CreditUnkeyed(t) ==
  LET e == work[t].event IN
  /\ work[t].at = "rule" /\ TypeOf[e] \in priced
  /\ AppendEntry(t, [user |-> UserOf[e], delta |-> Worth[TypeOf[e]], key |-> NoKey,
                     reverses |-> NoEntry])
  /\ Proceed(t, "credit")
  /\ Untouched

FindRule(t) ==
  LET e == work[t].event IN
  /\ work[t].at = "rule" /\ TypeOf[e] \in priced
  /\ AppendEntry(t, [user |-> UserOf[e], delta |-> Worth[TypeOf[e]], key |-> e,
                     reverses |-> NoEntry])
  /\ Proceed(t, "credit")
  /\ Untouched

Credit(t) ==
  /\ work[t].at = "credit" /\ Advance(t)
  /\ UNCHANGED work /\ Untouched

Credited(t) ==
  /\ work[t].at = "credit" /\ call[t].at = "done"
  /\ Verdict(t, "PROCESSED")
  /\ Untouched /\ UNCHANGED ledgerVars

\* reject, park, or the final update: the status, in the same transaction.
Mark(t) ==
  /\ work[t].at = "mark" /\ SetStatus(t, work[t].event, work[t].verdict)
  /\ Proceed(t, "done")
  /\ UNCHANGED <<received, world, ledgerVars>>

ProcessDelivery(t) ==
  /\ IsActive(t)
  /\ \/ Parse(t) \/ Note(t) \/ FindUser(t) \/ FindNoRule(t) \/ FindRule(t)
     \/ Credit(t) \/ Credited(t) \/ Mark(t)

-----------------------------------------------------------------------------
(* POST /webhooks/:partner, once the signature is verified.                   *)

Goto(p, at) == post' = [post EXCEPT ![p].at = at]
Answer(p, s) == Goto(p, "done") /\ answer' = [answer EXCEPT ![p] = s]

Receive(p, e, v) ==
  /\ post[p].at = "new" /\ Open(captureTx(p))
  /\ post' = [post EXCEPT ![p] = [at |-> "capture", event |-> e, valid |-> v,
                                  seen |-> "RECEIVED"]]
  /\ Untouched /\ UNCHANGED <<work, answer>>
\* Seeded fault: an upsert, which replaces the body on file.
CaptureOver(p) ==
  LET e == post[p].event  t == captureTx(p) IN
  /\ post[p].at = "capture" /\ ~ Waits(t, deliveries[e])
  /\ deliveries' = [deliveries EXCEPT ![e] =
       Written(t, @, [status |-> "RECEIVED", valid |-> post[p].valid, at |-> received + 1])]
  /\ received' = received + 1
  /\ Goto(p, "captured")
  /\ UNCHANGED <<world, work, answer, ledgerVars>>

\* captureDelivery: INSERT ... ON CONFLICT (partner, external_event_id) DO NOTHING.
Capture(p) ==
  LET e == post[p].event  t == captureTx(p) IN
  /\ post[p].at = "capture" /\ ~ Waits(t, deliveries[e])
  /\ Latest(deliveries[e]) = Absent
  /\ deliveries' = [deliveries EXCEPT ![e] =
       Written(t, @, [status |-> "RECEIVED", valid |-> post[p].valid, at |-> received + 1])]
  /\ received' = received + 1
  /\ Goto(p, "captured")
  /\ UNCHANGED <<world, work, answer, ledgerVars>>

\* Already seen: attempts is incremented, and the row's status comes back.
CaptureAgain(p) ==
  LET e == post[p].event  t == captureTx(p) IN
  /\ post[p].at = "capture" /\ ~ Waits(t, deliveries[e])
  /\ Latest(deliveries[e]) # Absent
  /\ deliveries' = [deliveries EXCEPT ![e] = Locked(t, @)]
  /\ post' = [post EXCEPT ![p].at = "captured", ![p].seen = Latest(deliveries[e]).status]
  /\ UNCHANGED <<received, world, work, answer, ledgerVars>>

\* A terminal state answers a duplicate; RECEIVED and FAILED are processed now.
Captured(p) ==
  /\ post[p].at = "captured" /\ Close(captureTx(p))
  /\ IF post[p].seen \in Terminal THEN Answer(p, post[p].seen)
     ELSE Goto(p, "process") /\ UNCHANGED answer
  /\ Untouched /\ UNCHANGED work
\* Seeded fault: only a first delivery is processed, and a failed one forgotten.
ProcessNewOnly(p) ==
  /\ post[p].at = "process" /\ post[p].seen = "RECEIVED" /\ Open(processTx(p))
  /\ StartWork(processTx(p), post[p].event)
  /\ Goto(p, "processing")
  /\ Untouched /\ UNCHANGED answer

Process(p) ==
  /\ post[p].at = "process" /\ Open(processTx(p))
  /\ StartWork(processTx(p), post[p].event)
  /\ Goto(p, "processing")
  /\ Untouched /\ UNCHANGED answer

Processing(p) ==
  /\ post[p].at = "processing" /\ ProcessDelivery(processTx(p))
  /\ UNCHANGED routeVars
\* Seeded fault: the reply is sent before the COMMIT, which then fails.
ReplyBeforeCommit(p) ==
  LET t == processTx(p) IN
  /\ post[p].at = "processing" /\ work[t].at = "done" /\ Fail(t)
  /\ Answer(p, work[t].verdict)
  /\ Untouched /\ UNCHANGED work

Processed(p) ==
  LET t == processTx(p) IN
  /\ post[p].at = "processing" /\ work[t].at = "done" /\ Close(t)
  /\ \/ Answer(p, work[t].verdict)
     \/ Goto(p, "failing") /\ UNCHANGED answer    \* the COMMIT's answer was lost
  /\ Untouched /\ UNCHANGED work

\* A timeout, a deadlock victim, a lost connection: the transaction rolls back.
Throw(p) ==
  /\ \/ post[p].at = "processing" /\ Fail(processTx(p))
        /\ Goto(p, "failing") /\ UNCHANGED answer
     \/ post[p].at \in {"capture", "captured"} /\ Fail(captureTx(p)) /\ Answer(p, "error")
  /\ Untouched /\ UNCHANGED work

\* .catch: FAILED by the delivery's id, whatever its status is by now; then 500.
SetFailed(p) ==
  LET e == post[p].event IN
  /\ post[p].at = "failing" /\ ~ IsActive(deliveries[e].by)
  /\ deliveries' = [deliveries EXCEPT ![e] =
                      Autocommitted([Latest(@) EXCEPT !.status = "FAILED"])]
  /\ Answer(p, "error")
  /\ UNCHANGED <<received, world, work, ledgerVars>>

\* The process dies: nothing more is recorded of the request.
Die(p) ==
  /\ post[p].at \in {"process", "processing", "failing"}
  /\ IF post[p].at = "processing" THEN Fail(processTx(p)) ELSE UNCHANGED ledgerVars
  /\ Answer(p, "error")
  /\ Untouched /\ UNCHANGED work

Serve(p) == \/ Capture(p) \/ CaptureAgain(p) \/ Captured(p) \/ Process(p)
            \/ Processing(p) \/ Processed(p) \/ SetFailed(p)

-----------------------------------------------------------------------------
\* Users and rules come into being, and events grow old.
WorldTurns ==
  /\ \/ \E u \in Users \ known : known' = known \cup {u} /\ UNCHANGED <<priced, age>>
     \/ \E y \in Types \ priced : priced' = priced \cup {y} /\ UNCHANGED <<known, age>>
     \/ \E e \in Events :
          /\ \/ age[e] = "early" /\ age' = [age EXCEPT ![e] = "fresh"]
             \/ age[e] = "fresh" /\ age' = [age EXCEPT ![e] = "old"]
          /\ UNCHANGED <<known, priced>>
  /\ UNCHANGED <<deliveries, received, work, routeVars, ledgerVars>>

RouteNext ==
  \E p \in Posts :
    \/ \E e \in Events, v \in BOOLEAN : Receive(p, e, v)
    \/ Serve(p)
    \/ Throw(p)
    \/ Die(p)

WebhookNext == RouteNext \/ WorldTurns

WebhookSpec == WebhookInit /\ [][WebhookNext]_webhookVars
FairWebhookSpec == WebhookSpec /\ \A p \in Posts : WF_webhookVars(Serve(p))

-----------------------------------------------------------------------------
Deliveries == {e \in Events : Latest(deliveries[e]) # Absent}
Status(e) == Latest(deliveries[e]).status
CreditsOf(e) == {i \in Entries : rows[i].key = e}

(* A delivery marked PROCESSED has been credited: one committed entry of the  *)
(* event, for the user it names and the amount its rule pays, however many    *)
(* requests carried it (processDelivery marks in the crediting transaction).  *)
(* And points come only from a well-formed delivery on file, of an event      *)
(* whose user and rule exist, whatever body arrives under its id later        *)
(* (captureDelivery keeps the first one).                                     *)
ProcessedIsCredited ==
  /\ \A e \in Deliveries : Status(e) = "PROCESSED" =>
       \E i \in CreditsOf(e) : /\ CreditsOf(e) = {i} /\ rows[i].user = UserOf[e]
                               /\ rows[i].delta = Worth[TypeOf[e]]
  /\ \A e \in Events : CreditsOf(e) # {} =>
       /\ e \in Deliveries /\ Latest(deliveries[e]).valid
       /\ UserOf[e] \in known /\ TypeOf[e] \in priced /\ age[e] # "early"

(* What the partner is told is so, then and later: an event answered          *)
(* PROCESSED has been credited, and any answered event is on file             *)
(* (the status code contract: "we have it").                                  *)
AnswersAreTrue ==
  \A p \in Posts :
    /\ answer[p] = "PROCESSED" => CreditsOf(post[p].event) # {}
    /\ answer[p] \in Terminal => post[p].event \in Deliveries

(* Every post is answered as long as its statements keep running (the route). *)
EveryPostAnswered == \A p \in Posts : post[p].at # "new" ~> post[p].at = "done"

(* "credited and marked as credited cannot come apart": an event has been     *)
(* credited exactly when its delivery is PROCESSED (processDelivery).         *)
CreditedIffMarked ==
  \A e \in Deliveries : CreditsOf(e) # {} <=> Status(e) = "PROCESSED"
=============================================================================
