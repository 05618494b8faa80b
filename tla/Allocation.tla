----------------------------- MODULE Allocation -----------------------------
(* modules/dev/allocation.service.ts: an administrator gives a reward to some *)
(* users. One user after another is credited the price, in a transaction, and *)
(* then redeems the reward through redeem(); if redeem() throws, the credit   *)
(* is reversed. Both halves take their idempotency key from the caller.       *)
EXTENDS Redemption

CONSTANT Allocations     \* allocateReward calls

creditTx(r) == <<r, "credit">>
undoTx(r) == <<r, "undo">>
AdminKey(k, u) == <<"admin", k, u>>      \* source and externalEventId

Grants == Allocations \X Users           \* the redeem() calls they make
ASSUME GrantsAreRequests ==
  /\ Requests = Grants
  /\ \A r \in Grants : {creditTx(r), undoTx(r)} \subseteq Tx
ASSUME CreditsAreDeltas == \A w \in Rewards : Cost[w] \in Deltas
ASSUME AdminKeysAreEventKeys == \A k \in IdemKeys, u \in Users : AdminKey(k, u) \in EventKeys

VARIABLES job,      \* each call: where it is, and the users it has left
          outcome   \* of each user, as the call reports it

jobVars == <<job, outcome>>
allocationVars == <<jobVars, redemptionVars>>

AllocationInit ==
  /\ RedemptionInit
  /\ job = [a \in Allocations |-> [at |-> "new"]]
  /\ outcome = [a \in Allocations |-> [u \in Users |-> "none"]]

Grant(a) == <<a, job[a].user>>
Step(a, at) == job' = [job EXCEPT ![a].at = at]
\* outcomes.push, and on to the next user.
Report(a, status) == /\ Step(a, "next")
                     /\ outcome' = [outcome EXCEPT ![a][job[a].user] = status]

Allocate(a, k, w, U) ==
  /\ job[a].at = "new"
  /\ job' = [job EXCEPT ![a] = [at |-> "next", key |-> k, reward |-> w, left |-> U,
                                user |-> CHOOSE u \in U : TRUE, credit |-> 0]]
  /\ UNCHANGED <<outcome, redemptionVars>>

\* findMany returns the users in an order of its own.
NextUser(a, u) ==
  /\ job[a].at = "next" /\ u \in job[a].left
  /\ Open(creditTx(<<a, u>>))
  /\ job' = [job EXCEPT ![a].at = "credit", ![a].user = u, ![a].left = @ \ {u}]
  /\ UNCHANGED <<outcome, ownVars>>
CreditInput(a) ==
  [user |-> job[a].user, delta |-> Cost[job[a].reward],
   key |-> AdminKey(job[a].key, job[a].user), reverses |-> NoEntry]
CreditUser(a) ==
  /\ job[a].at = "credit" /\ AppendEntry(creditTx(Grant(a)), CreditInput(a))
  /\ Step(a, "crediting")
  /\ UNCHANGED <<outcome, ownVars>>

\* The ledger's own statements, for the credit or its reversal.
Bookkeeping(a) ==
  /\ \/ job[a].at = "crediting" /\ Advance(creditTx(Grant(a)))
     \/ job[a].at = "undoing" /\ Advance(undoTx(Grant(a)))
  /\ UNCHANGED <<jobVars, ownVars>>

\* Committed: credit.transactionId is an earlier attempt's if it was a duplicate.
CreditedUser(a) ==
  LET t == creditTx(Grant(a)) IN
  /\ job[a].at = "crediting" /\ call[t].at = "done" /\ Close(t)
  /\ job' = [job EXCEPT ![a].at = "redeem", ![a].credit = call[t].id]
  /\ UNCHANGED <<outcome, ownVars>>
\* Seeded fault: the redemption is given a key of its own.
RedeemUnderOwnKey(a) ==
  /\ job[a].at = "redeem"
  /\ \E k \in IdemKeys : Arrive(Grant(a), job[a].user, k, job[a].reward)
  /\ Step(a, "redeeming")
  /\ UNCHANGED outcome

RedeemFor(a) ==
  /\ job[a].at = "redeem"
  /\ Arrive(Grant(a), job[a].user, job[a].key, job[a].reward)
  /\ Step(a, "redeeming")
  /\ UNCHANGED outcome

Redeeming(a) ==
  /\ job[a].at = "redeeming" /\ (Serve(Grant(a)) \/ Throw(Grant(a)))
  /\ UNCHANGED jobVars

Returned(a) == job[a].at = "redeeming" /\ req[Grant(a)].at = "done"
\* redeem() answers: anything but FAILED is reported as ALLOCATED.
ReportAnswer(a) ==
  LET s == answer[Grant(a)].status IN
  /\ Returned(a) /\ s \notin {"refused", "error"}
  /\ Report(a, IF s = "FAILED" THEN "FAILED" ELSE "ALLOCATED")
  /\ UNCHANGED redemptionVars
\* Seeded fault: the failure is reported and the credit stands.
ReportRefusal(a) ==
  /\ Returned(a) /\ answer[Grant(a)].status \in {"refused", "error"}
  /\ Report(a, "FAILED")
  /\ UNCHANGED redemptionVars

\* redeem() throws: the credit must not stand.
StartUndo(a) ==
  /\ Returned(a) /\ answer[Grant(a)].status \in {"refused", "error"}
  /\ Open(undoTx(Grant(a)))
  /\ Step(a, "undo")
  /\ UNCHANGED <<outcome, ownVars>>

Undo(a) ==
  /\ job[a].at = "undo" /\ ReverseEntry(undoTx(Grant(a)), job[a].credit)
  /\ Step(a, "undoing")
  /\ UNCHANGED <<outcome, ownVars>>

Undone(a) ==
  LET t == undoTx(Grant(a)) IN
  /\ job[a].at = "undoing" /\ call[t].at = "done" /\ Close(t)
  /\ Report(a, "FAILED")
  /\ UNCHANGED ownVars

Reply(a) ==
  /\ job[a].at = "next" /\ job[a].left = {}
  /\ Step(a, "done")
  /\ UNCHANGED <<outcome, redemptionVars>>

\* The credit or its reversal throws, or the process dies anywhere: the loop is
\* left, with the users it had left.
GiveUp(a) ==
  /\ \/ job[a].at \in {"credit", "crediting"} /\ Fail(creditTx(Grant(a))) /\ UNCHANGED ownVars
     \/ job[a].at \in {"undo", "undoing"} /\ Fail(undoTx(Grant(a))) /\ UNCHANGED ownVars
     \/ job[a].at = "redeeming" /\ Throw(Grant(a))
     \/ (job[a].at \in {"next", "redeem"} \/ Returned(a)) /\ UNCHANGED redemptionVars
  /\ Step(a, "dead")
  /\ UNCHANGED outcome

AllocationNext ==
  \/ \E a \in Allocations :
       \/ \E k \in IdemKeys, w \in Rewards, U \in (SUBSET Users) \ {{}} : Allocate(a, k, w, U)
       \/ \E u \in Users : NextUser(a, u)
       \/ CreditUser(a) \/ Bookkeeping(a) \/ CreditedUser(a) \/ RedeemFor(a)
       \/ Redeeming(a) \/ ReportAnswer(a) \/ StartUndo(a) \/ Undo(a) \/ Undone(a)
       \/ Reply(a) \/ GiveUp(a)
  \/ (\E w \in Rewards : Deactivate(w)) /\ UNCHANGED jobVars

AllocationSpec == AllocationInit /\ [][AllocationNext]_allocationVars

-----------------------------------------------------------------------------
AdminCredits(k, u) == {i \in Entries : rows[i].key = AdminKey(k, u)}
Attempts(k, u) == {a \in Allocations : job[a].at # "new" /\ job[a].key = k
                                       /\ clog[creditTx(<<a, u>>)] # "new"}
\* What the entries of one attempt add up to for its user.
TxsOf(r) == {creditTx(r), reserveTx(r), settleTx(r), undoTx(r)}
Net(a, u) == Total(rows, u, TxsOf(<<a, u>>) \cap Committed)

(* A double click or a browser's retry allocates once: however many calls     *)
(* carry a key, a user is credited once and charged once under it             *)
(* (AllocateRewardInput.allocationKey).                                       *)
AllocatesOnce ==
  \A k \in IdemKeys, u \in Users :
    /\ Cardinality(AdminCredits(k, u)) <= 1
    /\ Cardinality({a \in Attempts(k, u) : Debits(<<a, u>>) # {}}) <= 1

(* The first attempt under a key, when redeem() answers FULFILLED or refuses, *)
(* leaves the balance where it was: the credit is spent or reversed, whatever *)
(* other administrators do to the same user meanwhile (allocateReward).       *)
FirstAttemptIsNeutral ==
  \A a \in Allocations, u \in Users :
    /\ outcome[a][u] # "none" /\ Attempts(job[a].key, u) = {a}
    /\ answer[<<a, u>>].status \in {"FULFILLED", "refused"}
    => Net(a, u) = 0

(* "The user ends up holding the reward, their balance is unchanged": for a   *)
(* user reported ALLOCATED, the attempts under the key add up to nothing      *)
(* (the module comment of allocation.service.ts).                             *)
AllocatedIsFree ==
  \A a \in Allocations, u \in Users : outcome[a][u] = "ALLOCATED" =>
    Total(rows, u, UNION {TxsOf(<<b, u>>) : b \in Attempts(job[a].key, u)} \cap Committed) = 0
=============================================================================
