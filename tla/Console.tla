------------------------------- MODULE Console -------------------------------
(* packages/web: the reward administration page (RewardAdmin.tsx), on the     *)
(* dev routes that create a reward and allocate one. A macro creates its      *)
(* reward unless the catalogue has it and allocates it; the form creates one; *)
(* the list of rewards stays in the cache of TanStack Query for ten seconds.  *)
(*                                                                            *)
(* A press of a button is a member of Tx: the transaction that creates its    *)
(* reward, and the allocation key minted for it. What an allocation does to   *)
(* its recipients is the subject of Allocation: here a key has been served or *)
(* has not.                                                                   *)
EXTENDS Postgres, FiniteSets

CONSTANTS Consoles,   \* browsers with the page open
          Names,      \* SKUs as they are typed
          Upper,      \* each SKU trimmed and in upper case
          Macros,     \* the SKUs of the presets
          Typed,      \* bound: what is typed in the form
          Stocked,    \* the SKU of the reward the catalogue starts with
          NoSku, NoReward

ASSUME UpperIsIdempotent ==
  /\ Upper \in [Names -> Names] /\ \A n \in Names : Upper[Upper[n]] = Upper[n]
ASSUME TypedAreNames == Typed \subseteq Names
ASSUME MacrosAreNormalised == Macros \subseteq Names /\ \A m \in Macros : Upper[m] = m
ASSUME StockedIsNormalised == Stocked \in Names /\ Upper[Stocked] = Stocked
ASSUME NoSkuIsNone == NoSku \notin Names
ASSUME NoRewardIsNone == NoReward \notin Xids

VARIABLES sku,        \* the row each transaction inserted, by its SKU
          create,     \* the call to POST /rewards of each press
          served,     \* the reward each call to POST /allocate was served with
          press,      \* each press of a button, and what came of it
          list,       \* the catalogue as each console has it
          fetch       \* the query for it in flight

consoleVars == <<clog, sku, create, served, press, list, fetch>>

Unloaded == [loaded |-> FALSE, fresh |-> FALSE, rewards |-> {}]
Unsent == [at |-> "idle", rewards |-> {}]
Sent == [at |-> "sent", rewards |-> {}]
Unpressed == [at |-> "new"]

ConsoleInit ==
  /\ PgInit
  /\ sku = [x \in Xids |-> IF x = Setup THEN Stocked ELSE NoSku]
  /\ create = [p \in Tx |-> "none"] /\ served = [p \in Tx |-> NoReward]
  /\ press = [p \in Tx |-> Unpressed]
  /\ list = [c \in Consoles |-> Unloaded] /\ fetch = [c \in Consoles |-> Sent]

OnFile(r) == IsCommitted(r) /\ sku[r] # NoSku
Catalogue == {r \in Xids : OnFile(r)}
Holding(rewards, s) == {r \in rewards : sku[r] = s}

-----------------------------------------------------------------------------
(* POST /rewards: one transaction that looks the SKU up and inserts.          *)

Sku(p) == Upper[press[p].name]

LookUp(p) ==
  /\ create[p] = "sent" /\ Holding(Catalogue, Sku(p)) = {}
  /\ Begin(p) /\ create' = [create EXCEPT ![p] = "insert"]
  /\ UNCHANGED <<sku, served, press, list, fetch>>

\* RewardSkuTakenError: rolled back, 409.
SkuTaken(p) ==
  /\ create[p] = "sent" /\ Holding(Catalogue, Sku(p)) # {}
  /\ clog' = [clog EXCEPT ![p] = "aborted"]
  /\ create' = [create EXCEPT ![p] = "409"]
  /\ UNCHANGED <<sku, served, press, list, fetch>>

\* The unique index on sku: an insert waits for one of the same SKU that is
\* not decided yet.
Insertable(p, s) == \A r \in Xids : sku[r] = s => clog[r] = "aborted"
\* Seeded fault: the SKU is stored as it was typed.
InsertAsTyped(p) ==
  /\ create[p] = "insert" /\ Insertable(p, press[p].name)
  /\ sku' = [sku EXCEPT ![p] = press[p].name]
  /\ create' = [create EXCEPT ![p] = "inserted"]
  /\ UNCHANGED <<clog, served, press, list, fetch>>

Insert(p) ==
  /\ create[p] = "insert" /\ Insertable(p, Sku(p))
  /\ sku' = [sku EXCEPT ![p] = Sku(p)]
  /\ create' = [create EXCEPT ![p] = "inserted"]
  /\ UNCHANGED <<clog, served, press, list, fetch>>

\* The loser of the race gets the raw constraint error, P2002: 500.
InsertRefused(p) ==
  /\ create[p] = "insert" /\ Holding(Catalogue, Sku(p)) # {}
  /\ Abort(p) /\ create' = [create EXCEPT ![p] = "500"]
  /\ UNCHANGED <<sku, served, press, list, fetch>>

CommitCreate(p) ==
  /\ create[p] = "inserted" /\ Commit(p)
  /\ create' = [create EXCEPT ![p] = "201"]
  /\ UNCHANGED <<sku, served, press, list, fetch>>

\* Seeded fault: whatever goes wrong is answered as a taken SKU.
CreateThrowsTaken(p) ==
  /\ create[p] \in {"insert", "inserted"} /\ Abort(p)
  /\ create' = [create EXCEPT ![p] = "409"]
  /\ UNCHANGED <<sku, served, press, list, fetch>>

\* The transaction times out, or the connection is lost before COMMIT.
CreateThrows(p) ==
  /\ create[p] \in {"insert", "inserted"} /\ Abort(p)
  /\ create' = [create EXCEPT ![p] = "500"]
  /\ UNCHANGED <<sku, served, press, list, fetch>>

\* POST /allocate, whether or not its answer is still listened for. No code
\* removes a reward, so the 404 is never answered to this page.
Allocate(p) ==
  /\ press[p].at # "new" /\ press[p].target \in Catalogue /\ served[p] = NoReward
  /\ served' = [served EXCEPT ![p] = press[p].target]
  /\ UNCHANGED <<clog, sku, create, press, list, fetch>>

Serve(p) ==
  \/ LookUp(p) \/ SkuTaken(p) \/ Insert(p) \/ InsertRefused(p)
  \/ CommitCreate(p) \/ CreateThrows(p) \/ Allocate(p)

-----------------------------------------------------------------------------
(* The list of rewards and its query.                                         *)

Ages(c) ==      \* ten seconds pass
  /\ list[c].fresh /\ list' = [list EXCEPT ![c].fresh = FALSE]
  /\ UNCHANGED <<clog, sku, create, served, press, fetch>>

Refetch(c) ==   \* the window is focused, or the page mounted again
  /\ ~ list[c].fresh /\ fetch[c] = Unsent
  /\ fetch' = [fetch EXCEPT ![c] = Sent]
  /\ UNCHANGED <<clog, sku, create, served, press, list>>

\* listRewards asks for the active ones: createReward makes them so, and no code
\* deactivates one.
ListAnswered(c) ==
  /\ fetch[c].at = "sent"
  /\ fetch' = [fetch EXCEPT ![c] = [at |-> "got", rewards |-> Catalogue]]
  /\ UNCHANGED <<clog, sku, create, served, press, list>>

Pending(kinds, c) ==
  {p \in Tx : /\ press[p].at \in {"creating", "searching", "giving"}
              /\ press[p].console = c /\ press[p].kind \in kinds}
Searching(c) == {p \in Pending({"macro"}, c) : press[p].at = "searching"}

Give(k, r) == [k EXCEPT !.at = "giving", !.target = r]
Search(k, rewards) ==
  LET found == Holding(rewards, k.name) IN
  IF found = {} THEN [k EXCEPT !.at = "notfound"] ELSE Give(k, CHOOSE r \in found : TRUE)

ListArrives(c) ==
  /\ fetch[c].at = "got"
  /\ list' = [list EXCEPT ![c] = [loaded |-> TRUE, fresh |-> TRUE, rewards |-> fetch[c].rewards]]
  /\ fetch' = [fetch EXCEPT ![c] = Unsent]
  /\ press' = [p \in Tx |-> IF p \in Searching(c) THEN Search(press[p], fetch[c].rewards)
                            ELSE press[p]]
  /\ UNCHANGED <<clog, sku, create, served>>
\* Seeded fault: whoever waits for the list is not told.
ListFailsSilently(c) ==
  /\ fetch[c] # Unsent /\ fetch' = [fetch EXCEPT ![c] = Unsent]
  /\ UNCHANGED <<clog, sku, create, served, press, list>>

ListFails(c) ==
  /\ fetch[c] # Unsent /\ fetch' = [fetch EXCEPT ![c] = Unsent]
  /\ press' = [p \in Tx |-> IF p \in Searching(c) THEN [press[p] EXCEPT !.at = "failed"]
                            ELSE press[p]]
  /\ UNCHANGED <<clog, sku, create, served, list>>
\* Seeded fault: a fetch on its way is joined even if the list is loaded.
InvalidateJoining(c) ==
  /\ fetch' = [fetch EXCEPT ![c] = IF @ = Unsent THEN Sent ELSE @]
  /\ list' = [list EXCEPT ![c].fresh = FALSE]

\* invalidateQueries(): a fetch on its way is started over, but joined if there
\* is no list yet. A press that waits for it waits for the new one.
Invalidate(c) ==
  /\ fetch' = [fetch EXCEPT ![c] = IF @ # Unsent /\ ~ list[c].loaded THEN @ ELSE Sent]
  /\ list' = [list EXCEPT ![c].fresh = FALSE]

-----------------------------------------------------------------------------
(* The buttons. A macro and an allocation disable each other while they run;  *)
(* the form disables its own.                                                 *)

\* Presses are numbered as they come.
Fresh(p) == p = CHOOSE q \in Tx : press[q] = Unpressed
Busy(c) == Pending({"macro", "allocate"}, c) # {}

Pressed(c, kind, n) ==
  [at |-> "creating", console |-> c, kind |-> kind, name |-> n, target |-> NoReward]
Post(p, k) ==
  /\ press' = [press EXCEPT ![p] = k]
  /\ create' = IF k.at = "creating" THEN [create EXCEPT ![p] = "sent"] ELSE create
  /\ UNCHANGED <<clog, sku, served, list, fetch>>

RunMacro(c, p) ==
  /\ press[p] = Unpressed /\ Fresh(p) /\ ~ Busy(c)
  /\ \E m \in Macros :
       LET k == Pressed(c, "macro", m) IN
       Post(p, IF Holding(list[c].rewards, m) = {} THEN k ELSE Search(k, list[c].rewards))

AllocateChosen(c, p) ==
  /\ press[p] = Unpressed /\ Fresh(p) /\ ~ Busy(c)
  /\ \E r \in list[c].rewards : Post(p, Give(Pressed(c, "allocate", sku[r]), r))

SubmitForm(c, p) ==
  /\ press[p] = Unpressed /\ Fresh(p) /\ Pending({"form"}, c) = {}
  /\ \E n \in Typed : Post(p, Pressed(c, "form", n))

Outcome(p, at) == press' = [press EXCEPT ![p].at = at]

FormAnswered(p) ==
  /\ press[p].at = "creating" /\ press[p].kind = "form"
  /\ CASE create[p] = "201" -> Outcome(p, "added") /\ Invalidate(press[p].console)
       [] create[p] = "409" -> Outcome(p, "taken") /\ UNCHANGED <<list, fetch>>
       [] create[p] = "500" -> Outcome(p, "failed") /\ UNCHANGED <<list, fetch>>
       [] OTHER -> FALSE
  /\ UNCHANGED <<clog, sku, create, served>>
\* Seeded fault: the answer of the refused creation is used.
MacroTrusting(p) ==
  /\ press[p].at = "creating" /\ press[p].kind = "macro"
  /\ create[p] \in {"201", "409"} /\ press' = [press EXCEPT ![p] = Give(@, p)]
  /\ UNCHANGED <<clog, sku, create, served, list, fetch>>

\* 409 is caught, and the list is searched instead: fetchQuery answers from the
\* cache as long as it is fresh, and otherwise joins the fetch on its way.
MacroAnswered(p) ==
  LET c == press[p].console IN
  /\ press[p].at = "creating" /\ press[p].kind = "macro"
  /\ CASE create[p] = "201" ->
            press' = [press EXCEPT ![p] = Give(@, p)] /\ UNCHANGED fetch
       [] create[p] = "409" /\ list[c].fresh ->
            press' = [press EXCEPT ![p] = Search(@, list[c].rewards)] /\ UNCHANGED fetch
       [] create[p] = "409" /\ ~ list[c].fresh ->
            /\ Outcome(p, "searching")
            /\ fetch' = [fetch EXCEPT ![c] = IF @ = Unsent THEN Sent ELSE @]
       [] create[p] = "500" -> Outcome(p, "failed") /\ UNCHANGED fetch
       [] OTHER -> FALSE
  /\ UNCHANGED <<clog, sku, create, served, list>>

AllocationAnswered(p) ==
  /\ press[p].at = "giving" /\ served[p] # NoReward
  /\ Outcome(p, "done") /\ Invalidate(press[p].console)
  /\ UNCHANGED <<clog, sku, create, served>>

\* No answer comes: the network, or the server. There is no second attempt.
RequestLost(p) ==
  /\ press[p].at \in {"creating", "giving"} /\ Outcome(p, "failed")
  /\ UNCHANGED <<clog, sku, create, served, list, fetch>>

-----------------------------------------------------------------------------
Answer(p) == FormAnswered(p) \/ MacroAnswered(p) \/ AllocationAnswered(p)

ConsoleNext ==
  \/ \E p \in Tx : Serve(p) \/ Answer(p) \/ RequestLost(p)
  \/ \E c \in Consoles :
       \/ Ages(c) \/ Refetch(c) \/ ListAnswered(c) \/ ListArrives(c) \/ ListFails(c)
       \/ \E p \in Tx : RunMacro(c, p) \/ AllocateChosen(c, p) \/ SubmitForm(c, p)

\* A request that is not lost is served and answered.
ConsoleFairness ==
  /\ \A p \in Tx : WF_consoleVars(Serve(p)) /\ WF_consoleVars(Answer(p))
  /\ \A c \in Consoles : WF_consoleVars(ListAnswered(c)) /\ WF_consoleVars(ListArrives(c))

ConsoleSpec == ConsoleInit /\ [][ConsoleNext]_consoleVars /\ ConsoleFairness

-----------------------------------------------------------------------------
Presses == [at : {"creating", "searching", "giving", "done", "added", "taken", "notfound",
                  "failed"},
            console : Consoles, kind : {"macro", "allocate", "form"}, name : Names,
            target : Xids \cup {NoReward}]

ConsoleTypeOK ==
  /\ clog \in [Xids -> Fates]
  /\ sku \in [Xids -> Names \cup {NoSku}]
  /\ create \in [Tx -> {"none", "sent", "insert", "inserted", "201", "409", "500"}]
  /\ served \in [Tx -> Xids \cup {NoReward}]
  /\ press \in [Tx -> Presses \cup {Unpressed}]
  /\ list \in [Consoles -> [loaded : BOOLEAN, fresh : BOOLEAN, rewards : SUBSET Xids]]
  /\ fetch \in [Consoles -> [at : {"idle", "sent", "got"}, rewards : SUBSET Xids]]

(* However the SKU is typed, and however the creations overlap, the catalogue *)
(* never holds one thing twice (reward.service.ts: "so coffee-01 and COFFEE-01 *)
(* cannot become two catalogue entries for the same thing").                  *)
OneRewardPerSku ==
  \A r, s \in Catalogue : Upper[sku[r]] = Upper[sku[s]] => r = s

(* A macro only ever allocates the reward of its own SKU, which is on file,   *)
(* whether it created it, found it in the list it had, or in the list it      *)
(* fetched after the 409 (runMacro in RewardAdmin.tsx).                       *)
MacroGivesItsReward ==
  \A p \in Tx : press[p].at # "new" /\ press[p].target # NoReward =>
    /\ press[p].target \in Catalogue
    /\ sku[press[p].target] = Sku(p)

(* "It is in the catalogue", "That SKU is taken" and "Could not find or       *)
(* create" are only told of a creation that did, did not, and did not add a   *)
(* row, and the SKU is then in the catalogue each time.                       *)
ConsoleAnswersAreTrue ==
  \A p \in Tx :
    /\ press[p].at = "added" => OnFile(p)
    /\ press[p].at \in {"taken", "notfound"} => ~ OnFile(p)
    /\ press[p].at \in {"added", "taken", "notfound"} => Holding(Catalogue, Sku(p)) # {}

(* Once the form has told that a reward is available to allocate, every list  *)
(* its console is refreshed with offers it: the invalidation drops the answer *)
(* of a query that was sent before the reward was there.                      *)
RefreshShowsWhatWasAdded ==
  [][\A c \in Consoles : list[c].loaded /\ ~ list[c].fresh /\ list'[c].fresh =>
       \A p \in Tx : press[p].at = "added" /\ press[p].console = c => p \in list'[c].rewards
    ]_consoleVars

(* The buttons come back: a press is answered, or fails, whatever the query   *)
(* it waits for is cut off by (busy and create.isPending in RewardAdmin.tsx). *)
EveryPressSettles ==
  \A p \in Tx : press[p].at \in {"creating", "searching", "giving"}
                ~> press[p].at \notin {"creating", "searching", "giving"}
=============================================================================
