------------------------------ MODULE Backfill ------------------------------
(* backfillUnmatched of modules/webhook/webhook.service.ts: the deliveries    *)
(* parked for a user or for an activity type are run through processDelivery  *)
(* again, one after the other, in one transaction of the caller's, while the  *)
(* partner keeps posting.                                                     *)
EXTENDS Webhook

CONSTANTS Backfills,
          Stored      \* deliveries earlier posts left: <<event, status>>, oldest first

backfillTx(b) == <<b, "backfill">>
ASSUME BackfillsRunTransactions == \A b \in Backfills : backfillTx(b) \in Tx
ASSUME NothingStoredIsCredited == Stored \in Seq(Events \X (Statuses \ {"PROCESSED"}))

VARIABLE run    \* the backfill each caller runs

backfillVars == <<run, webhookVars>>

\* Earlier posts of fresh events were parked, or failed on the way.
BackfillInit ==
  /\ LedgerInit
  /\ deliveries = [e \in Events |->
       IF \E i \in 1 .. Len(Stored) : Stored[i][1] = e
       THEN LET i == CHOOSE i \in 1 .. Len(Stored) : Stored[i][1] = e
            IN  Loaded([status |-> Stored[i][2], valid |-> TRUE, at |-> i])
       ELSE Loaded(Absent)]
  /\ received = Len(Stored)
  /\ known \in SUBSET Users /\ priced \in SUBSET Types
  /\ age = [e \in Events |-> "fresh"]
  /\ work = [t \in Tx |-> NoWork]
  /\ post = [p \in Posts |-> [at |-> "new"]] /\ answer = [p \in Posts |-> "none"]
  /\ run = [b \in Backfills |-> [at |-> "new"]]

\* Filters: by user, by activity type, or by both.
Filters == {UserOf[e] : e \in Events} \X {TypeOf[e] : e \in Events}
             \X {"user", "type", "both"}
Matches(e, f) == /\ f[3] # "type" => UserOf[e] = f[1]
                 /\ f[3] # "user" => TypeOf[e] = f[2]

\* findMany: what is UNMATCHED now; it is worked through oldest first.
Parked(f) == {e \in Deliveries : Status(e) = "UNMATCHED" /\ Matches(e, f)}
Oldest(S) ==
  {e \in S : \A d \in S : Latest(deliveries[e]).at <= Latest(deliveries[d]).at}

Start(b, f) ==
  /\ run[b].at = "new" /\ Open(backfillTx(b))
  /\ run' = [run EXCEPT ![b] = [at |-> "next", todo |-> Parked(f)]]
  /\ Untouched /\ UNCHANGED <<work, routeVars>>

Claim(b, e) ==
  /\ SetStatus(backfillTx(b), e, "RECEIVED") /\ StartWork(backfillTx(b), e)
  /\ run' = [run EXCEPT ![b] = [at |-> "process", todo |-> @.todo \ {e}, event |-> e]]
  /\ UNCHANGED <<received, world, routeVars, ledgerVars>>
\* Seeded fault: the claim does not ask for UNMATCHED.
ClaimAnyway(b, e) ==
  /\ run[b].at = "next" /\ e \in Oldest(run[b].todo)
  /\ Claim(b, e)
\* UPDATE ... SET status = 'RECEIVED' WHERE id AND status = 'UNMATCHED'.
ClaimParked(b, e) ==
  /\ run[b].at = "next" /\ e \in Oldest(run[b].todo)
  /\ View(backfillTx(b), deliveries[e]).status = "UNMATCHED"
  /\ Claim(b, e)

\* Zero rows: another backfill, or a post, has dealt with it.
Skip(b, e) ==
  /\ run[b].at = "next" /\ e \in Oldest(run[b].todo)
  /\ View(backfillTx(b), deliveries[e]).status # "UNMATCHED"
  /\ run' = [run EXCEPT ![b].todo = @ \ {e}]
  /\ Untouched /\ UNCHANGED <<work, routeVars, ledgerVars>>

Replay(b) ==
  /\ run[b].at = "process" /\ ProcessDelivery(backfillTx(b))
  /\ UNCHANGED <<run, routeVars>>

NextParked(b) ==
  /\ run[b].at = "process" /\ work[backfillTx(b)].at = "done"
  /\ run' = [run EXCEPT ![b] = [at |-> "next", todo |-> @.todo]]
  /\ Untouched /\ UNCHANGED <<work, routeVars, ledgerVars>>
\* The caller commits: all the candidates, or none.
Finish(b) ==
  /\ run[b].at = "next" /\ run[b].todo = {} /\ Close(backfillTx(b))
  /\ run' = [run EXCEPT ![b] = [at |-> "done"]]
  /\ Untouched /\ UNCHANGED <<work, routeVars>>

GiveUp(b) ==
  /\ run[b].at \in {"next", "process"} /\ Fail(backfillTx(b))
  /\ run' = [run EXCEPT ![b] = [at |-> "done"]]
  /\ Untouched /\ UNCHANGED <<work, routeVars>>

BackfillNext ==
  \/ WebhookNext /\ UNCHANGED run
  \/ \E b \in Backfills :
       \/ \E f \in Filters : Start(b, f)
       \/ \E e \in Events : ClaimParked(b, e) \/ Skip(b, e)
       \/ Replay(b) \/ NextParked(b) \/ Finish(b) \/ GiveUp(b)

BackfillSpec == BackfillInit /\ [][BackfillNext]_backfillVars

-----------------------------------------------------------------------------
(* A delivery being replayed is still parked to everyone else, and no two     *)
(* backfills replay the same one, however they and the posts overlap (the     *)
(* claim is conditional on UNMATCHED and keeps the row's lock).               *)
Replaying(b) == run[b].at = "process"
ReplaysWhatIsParked ==
  \A b \in Backfills : Replaying(b) =>
    /\ Status(run[b].event) = "UNMATCHED"
    /\ \A c \in Backfills \ {b} : Replaying(c) => run[c].event # run[b].event

=============================================================================
