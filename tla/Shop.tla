-------------------------------- MODULE Shop --------------------------------
(* packages/web: the rewards page. Opening the redeem dialog mints the        *)
(* idempotency key, confirming sends a request, and whatever comes back, or   *)
(* does not, closes whichever dialog is open, drops the key and tells the     *)
(* user something. The page's state changes at once; what the user sees and   *)
(* clicks on is what React has drawn of it, which may lag behind.             *)
EXTENDS Redemption

CONSTANTS Browsers, OwnerOf      \* mounted pages, and the user signed in to each
ASSUME BrowsersHaveOwners == OwnerOf \in [Browsers -> Users]

VARIABLES page,     \* pendingReward and idempotencyKey.current
          drawn,    \* the page, isPending and the <dialog> element as last drawn
          minted,   \* idempotency keys made by each page
          latest,   \* the mutation the page's useMutation observes, if any
          sent,     \* what each redeem.mutate() was called with
          told      \* the toast shown when it settled

shopVars == <<page, drawn, minted, latest, sent, told>>
allVars == <<shopVars, redemptionVars>>

Closed == [at |-> "closed"]
Unsent == [at |-> "unsent"]
IsUnsettled(r) == sent[r].at = "sent" /\ told[r] = "nothing"
IsPending(b) == \E r \in latest[b] : IsUnsettled(r)

ShopInit ==
  /\ RedemptionInit
  /\ page = [b \in Browsers |-> Closed]
  /\ drawn = [b \in Browsers |-> [page |-> Closed, pending |-> FALSE, hidden |-> FALSE]]
  /\ minted = [b \in Browsers |-> {}] /\ latest = [b \in Browsers |-> {}]
  /\ sent = [r \in Requests |-> Unsent]
  /\ told = [r \in Requests |-> "nothing"]

\* crypto.randomUUID().
Mint(b, k) ==
  /\ k \notin UNION {minted[c] : c \in Browsers}
  /\ minted' = [minted EXCEPT ![b] = @ \cup {k}]

Draw(b, p, pending, hidden) ==
  drawn' = [drawn EXCEPT ![b] = [page |-> p, pending |-> pending, hidden |-> hidden]]

\* The dialog is on the screen and its buttons are not disabled.
IsClickable(b) == LET d == drawn[b] IN d.page.at = "open" /\ ~ d.hidden /\ ~ d.pending

\* A click on a card, which the modal dialog would cover. Whether the card
\* offers the reward depends on a cached balance and catalogue, so any reward
\* may be tried. React draws what a click sets before the next one.
OpenDialog(b, w) ==
  LET d == drawn[b]  same == d.page.at = "open" /\ d.page.reward = w IN
  /\ d.page.at = "open" => d.hidden
  /\ ~ (same /\ d.pending)
  /\ \E k \in IdemKeys :
       LET p == [at |-> "open", key |-> k, reward |-> w] IN
       /\ Mint(b, k) /\ page' = [page EXCEPT ![b] = p]
       /\ Draw(b, p, IsPending(b), d.hidden /\ same)
  /\ UNCHANGED <<latest, sent, told, redemptionVars>>

\* closeDialog, by Cancel, Escape or a late `close` event: onClose goes by
\* isPending as drawn, so a request may be in flight.
Cancel(b) ==
  /\ IsClickable(b)
  /\ page' = [page EXCEPT ![b] = Closed] /\ Draw(b, Closed, IsPending(b), FALSE)
  /\ UNCHANGED <<minted, latest, sent, told, redemptionVars>>

\* Escape, with isPending drawn between the element's closing and its `close`
\* event: onClose does nothing and the page keeps the dialog.
Hide(b) ==
  /\ IsClickable(b) /\ IsPending(b)
  /\ Draw(b, page[b], TRUE, page[b].at = "open")
  /\ UNCHANGED <<page, minted, latest, sent, told, redemptionVars>>

\* redeem.mutate(pendingReward), of the page that was drawn.
Send(b, r, k) ==
  /\ sent[r] = Unsent
  /\ sent' = [sent EXCEPT ![r] =
       [at |-> "sent", by |-> b, from |-> drawn[b].page.key, key |-> k,
        reward |-> drawn[b].page.reward, held |-> page[b] = drawn[b].page]]
  /\ latest' = [latest EXCEPT ![b] = {r}]
  /\ UNCHANGED <<page, drawn, told, redemptionVars>>
\* Seeded fault: every submission mints a key.
ConfirmWithFreshKey(b, r) ==
  /\ IsClickable(b)
  /\ \E k \in IdemKeys : Send(b, r, k) /\ Mint(b, k)

\* A click on Redeem: idempotencyKey.current ?? crypto.randomUUID().
OnConfirm(b, r) ==
  /\ IsClickable(b)
  /\ \/ page[b].at = "open" /\ Send(b, r, page[b].key) /\ UNCHANGED minted
     \/ page[b].at = "closed" /\ \E k \in IdemKeys : Send(b, r, k) /\ Mint(b, k)

\* A render. One that useMutation asks for may come before the one closeDialog
\* asked for, and draws isPending only.
Redraw(b) ==
  /\ \/ Draw(b, page[b], IsPending(b), drawn[b].hidden /\ page[b].at = "open")
     \/ Draw(b, drawn[b].page, IsPending(b), drawn[b].hidden)
  /\ drawn' # drawn
  /\ UNCHANGED <<page, minted, latest, sent, told, redemptionVars>>

\* The request reaches POST /redemptions, which its browser may have given up on.
Deliver(r) ==
  /\ sent[r].at = "sent" /\ told[r] # "expired"
  /\ Arrive(r, OwnerOf[sent[r].by], sent[r].key, sent[r].reward)
  /\ UNCHANGED shopVars

\* onSuccess and onError: a toast, and closeDialog whichever dialog is open.
Settled(r, what) ==
  /\ IsUnsettled(r) /\ told' = [told EXCEPT ![r] = what]
  /\ page' = [page EXCEPT ![sent[r].by] = Closed]
  /\ UNCHANGED <<drawn, minted, latest, sent, redemptionVars>>
\* Seeded fault: a failure is read as a refund.
HopefulCopy(status) == IF status = "FULFILLED" THEN "spent" ELSE "returned"

\* describeRedemptionOutcome and describeRedemptionError.
Copy(status) == CASE status = "FULFILLED" -> "spent"
                  [] status = "FAILED" -> "returned"
                  [] status = "RESERVED" -> "reserved"
                  [] status = "refused" -> "untouched"
                  [] status = "error" -> "failed"

Respond(r) == req[r].at = "done" /\ Settled(r, Copy(answer[r].status))
\* fetch rejects: the answer will not be seen, or the request has not arrived.
LoseAnswer(r) == Settled(r, "unreachable")
\* 401: requireUser answers before redeem() is called.
Expire(r) == req[r].at = "new" /\ Settled(r, "expired")

Server == /\ \/ \E r \in Requests : Serve(r) \/ Throw(r)
             \/ \E w \in Rewards : Deactivate(w)
          /\ UNCHANGED shopVars

ShopNext ==
  \/ \E b \in Browsers :
       \/ \E w \in Rewards : OpenDialog(b, w)
       \/ \E r \in Requests : OnConfirm(b, r)
       \/ Cancel(b) \/ Hide(b) \/ Redraw(b)
  \/ \E r \in Requests : Deliver(r) \/ Respond(r) \/ LoseAnswer(r) \/ Expire(r)
  \/ Server

ShopSpec == ShopInit /\ [][ShopNext]_allVars

-----------------------------------------------------------------------------
\* The points of request r are gone, and not for nothing.
Bought(r) == Debits(r) # {} /\ Refunds(r) = {}
ClicksOf(k) == {r \in Requests : sent[r].at = "sent" /\ sent[r].from = k}
Carrying(k) == {r \in Requests : sent[r].at = "sent" /\ sent[r].key = k}
BuyOnce(rs) == Cardinality({r \in rs : Bought(r)}) <= 1

\* The redemption on record for what q paid, of the reward that was clicked.
OnRecord(q) ==
  LET s == <<OwnerOf[sent[q].by], sent[q].key>> IN
  s \in Redemptions /\ Seen(s).of = q /\ Seen(s).status # "FAILED" /\ Seen(s).reward = sent[q].reward

(* All the clicks on a dialog that the page still holds buy at most once      *)
(* together, however their requests overlap, are lost, arrive after their     *)
(* answer was given up or are cancelled: the key is minted when the dialog    *)
(* opens and read when it submits (the comment on idempotencyKey). A click on *)
(* a dialog that is still drawn after its key was dropped is sent under a key *)
(* of its own and may buy again: of that nothing is said.                     *)
HeldDialogBuysOnce == \A k \in IdemKeys : BuyOnce({r \in ClicksOf(k) : sent[r].held})

(* What a user is told of the points of a request stays true: "points spent"  *)
(* is one purchase under its key, of this request or of the one it replayed,  *)
(* "your points have been returned" none and a refund, and after "your points *)
(* have not been touched" the request has moved none. "No points have been    *)
(* taken", which is said when no answer came, may be false, as may a failure: *)
(* then whatever is gone bought once, and the redemption is on record         *)
(* (describeRedemptionOutcome, describeRedemptionError).                      *)
WhatIsToldHolds ==
  \A r \in Requests : LET rs == Carrying(sent[r].key) IN
    /\ told[r] = "spent" => \E q \in rs : Bought(q) /\ BuyOnce(rs)
    /\ told[r] = "returned" => /\ \E q \in rs : Refunds(q) # {}
                               /\ \A q \in rs : ~ Bought(q)
    /\ told[r] = "untouched" => Debits(r) = {}
    /\ told[r] \in {"reserved", "failed", "unreachable"} =>
         BuyOnce(rs) /\ \A q \in rs : Bought(q) => OnRecord(q)

=============================================================================
