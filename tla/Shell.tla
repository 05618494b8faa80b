-------------------------------- MODULE Shell --------------------------------
(* packages/web: the shell of the app (App.tsx), the sign-in form             *)
(* (SignIn.tsx), and what the answer to a redemption does to the cache        *)
(* (RewardsPage.tsx). The session query decides whether anybody is signed in, *)
(* the balance query runs only then, and what they last returned stays in the *)
(* cache of TanStack Query until it is cleared.                               *)
EXTENDS Accounts

CONSTANTS Pages       \* browsers with the app open, each with a cookie jar

VARIABLES jar,        \* the session cookie
          cache,      \* what is known of the session, the balance last shown,
                      \* whether the queries behind them are still there (live),
                      \* and the call the form on screen is waiting for
          fetch,      \* the queries, and the redemption, in flight
          awaited,    \* calls of each page whose answer is listened for
          farewell    \* tokens a page was told it had signed out of

shellVars == <<jar, cache, fetch, awaited, farewell>>
allVars == <<shellVars, accountVars>>

Idle == [at |-> "idle", token |-> NoToken, who |-> Nobody]
Sent(token) == [at |-> "sent", token |-> token, who |-> Nobody]
None == [who |-> Nobody, token |-> NoToken]      \* no data in the cache
\* As the page loads, and again once the cache is cleared.
EmptyCache == [status |-> "pending", session |-> None, me |-> None, stale |-> TRUE,
               live |-> TRUE, form |-> NoToken]
FirstFetch(token) == [session |-> Sent(token), me |-> Idle, redeem |-> Idle]

ShellInit ==
  /\ AccountsInit
  /\ jar = [p \in Pages |-> NoToken]
  /\ cache = [p \in Pages |-> EmptyCache]
  /\ fetch = [p \in Pages |-> FirstFetch(NoToken)]
  /\ awaited = [p \in Pages |-> {}]
  /\ farewell = [p \in Pages |-> {}]

SignedIn(p) == cache[p].status = "success"

-----------------------------------------------------------------------------
(* The queries and the redemption. GET /auth/me, GET /me and                  *)
(* POST /rewards/:id/redeem act for whom the token resolves to, or answer 401:*)
(* Nobody.                                                                    *)

\* A query without data is pending again while it is fetched; the form is shown
\* on an error only.
PendingAgain(k) ==
  IF k.session = None THEN [k EXCEPT !.status = "pending", !.form = NoToken] ELSE k

\* The window is focused, or a page is mounted: what is stale is fetched again.
RefetchSession(p) ==
  /\ cache[p].live /\ fetch[p].session = Idle
  /\ fetch' = [fetch EXCEPT ![p].session = Sent(jar[p])]
  /\ cache' = [cache EXCEPT ![p] = PendingAgain(@)]
  /\ UNCHANGED <<jar, awaited, farewell, accountVars>>
RefetchMe(p) ==
  /\ cache[p].live /\ SignedIn(p) /\ fetch[p].me = Idle
  /\ fetch' = [fetch EXCEPT ![p].me = Sent(jar[p])]
  /\ UNCHANGED <<jar, cache, awaited, farewell, accountVars>>

Answered(p, slot) ==
  LET f == fetch[p][slot] IN
  /\ f.at = "sent" /\ Resolve(f.token)
  /\ fetch' = [fetch EXCEPT ![p][slot] = [f EXCEPT !.at = "got", !.who = UserOf(f.token)]]
  /\ UNCHANGED <<jar, cache, awaited, farewell>>

\* Whoever it is, the balance query is now enabled, and fetches unless its data
\* is fresh.
SessionArrives(p) ==
  LET f == fetch[p].session IN
  /\ f.at = "got" /\ f.who # Nobody
  /\ cache' = [cache EXCEPT ![p].status = "success", ![p].form = NoToken,
                            ![p].session = [who |-> f.who, token |-> f.token]]
  /\ \E again \in BOOLEAN :
       /\ ~ SignedIn(p) /\ (cache[p].stale \/ cache[p].me = None) => again
       /\ fetch' = [fetch EXCEPT ![p].session = Idle,
                      ![p].me = IF again /\ @ = Idle THEN Sent(jar[p]) ELSE @]
  /\ UNCHANGED <<jar, awaited, farewell, accountVars>>

\* 401, or an answer that never came: read as "nobody is signed in". The data of
\* the query stays where it was, and so does the balance.
SessionFails(p) ==
  /\ fetch[p].session # Idle
  /\ fetch[p].session.at = "got" => fetch[p].session.who = Nobody
  /\ cache' = [cache EXCEPT ![p].status = "error"]
  /\ fetch' = [fetch EXCEPT ![p].session = Idle]
  /\ UNCHANGED <<jar, awaited, farewell, accountVars>>

MeArrives(p) ==
  LET f == fetch[p].me IN
  /\ f.at = "got" /\ f.who # Nobody
  /\ cache' = [cache EXCEPT ![p].me = [who |-> f.who, token |-> f.token], ![p].stale = FALSE]
  /\ fetch' = [fetch EXCEPT ![p].me = Idle]
  /\ UNCHANGED <<jar, awaited, farewell, accountVars>>

MeFails(p) ==      \* for good, or to be asked once more (retry: 1)
  /\ fetch[p].me # Idle
  /\ fetch[p].me.at = "got" => fetch[p].me.who = Nobody
  /\ \E f \in {Idle, Sent(jar[p])} : fetch' = [fetch EXCEPT ![p].me = f]
  /\ UNCHANGED <<jar, cache, awaited, farewell, accountVars>>

-----------------------------------------------------------------------------
(* The sign-in form and the sign-out button.                                  *)

Send(c, p) == awaited' = [awaited EXCEPT ![p] = @ \cup {c}]

\* The form is mounted afresh whenever it is shown again, so an earlier
\* submission may still be on its way.
Submit(c, p) ==
  /\ cache[p].status = "error" /\ cache[p].form = NoToken
  /\ \E kind \in {"register", "login"}, e \in Addresses, right \in BOOLEAN :
       /\ kind = "register" => right
       /\ Arrive(c, kind, jar[p], e, right)
  /\ Send(c, p) /\ cache' = [cache EXCEPT ![p].form = c]
  /\ UNCHANGED <<jar, fetch, farewell>>

SignOut(c, p) ==
  /\ SignedIn(p)
  /\ \A d \in awaited[p] : call[d].kind # "logout"
  /\ Arrive(c, "logout", jar[p], NoRow, FALSE)
  /\ Send(c, p)
  /\ UNCHANGED <<jar, cache, fetch, farewell>>

\* Set-Cookie counts whatever the status.
JarAfter(p, c) == IF call[c].status = "204" THEN NoToken
                  ELSE IF call[c].cookie # NoToken THEN call[c].cookie ELSE jar[p]

FormDone(k, c) == IF k.form = c THEN [k EXCEPT !.form = NoToken] ELSE k

\* invalidateQueries(): of the queries still there, a fetch is started over if
\* the query has data, joined if it has none; a disabled query is marked and not
\* fetched.
Restarted(f, data, token) == IF f # Idle /\ data = None THEN f ELSE Sent(token)
Refetched(p, token, keys) ==
  IF ~ cache[p].live THEN fetch[p]
  ELSE [fetch[p] EXCEPT
          !.session = IF "session" \in keys THEN Restarted(@, cache[p].session, token) ELSE @,
          !.me = IF SignedIn(p) THEN Restarted(@, cache[p].me, token) ELSE @]
Invalidated(k, keys) ==
  IF ~ k.live THEN k
  ELSE [(IF "session" \in keys THEN PendingAgain(k) ELSE k) EXCEPT !.stale = TRUE]

\* onSuccess runs on whatever has become of the form.
FormAnswered(c, p) ==
  /\ c \in awaited[p] /\ call[c].kind # "logout" /\ call[c].at = "replied"
  /\ jar' = [jar EXCEPT ![p] = JarAfter(p, c)]
  /\ IF call[c].status \in {"200", "201"}
     THEN /\ cache' = [cache EXCEPT ![p] = FormDone(Invalidated(@, {"session", "me"}), c)]
          /\ fetch' = [fetch EXCEPT ![p] = Refetched(p, JarAfter(p, c), {"session", "me"})]
     ELSE cache' = [cache EXCEPT ![p] = FormDone(@, c)] /\ UNCHANGED fetch
  /\ awaited' = [awaited EXCEPT ![p] = @ \ {c}]
  /\ UNCHANGED <<farewell, accountVars>>

FormLost(c, p) ==
  /\ c \in awaited[p] /\ call[c].kind # "logout"
  /\ cache' = [cache EXCEPT ![p] = FormDone(@, c)]
  /\ awaited' = [awaited EXCEPT ![p] = @ \ {c}]
  /\ UNCHANGED <<jar, fetch, farewell, accountVars>>
\* Seeded fault: everything is invalidated instead.
KeepTheCache(p, token) ==
  /\ cache' = [cache EXCEPT ![p].stale = TRUE]
  /\ fetch' = [fetch EXCEPT ![p].session = Sent(token), ![p].me = Sent(token)]
\* Seeded fault: a fetch on its way lands in the cleared cache.
ClearKeepingFetches(p, token) ==
  /\ cache' = [cache EXCEPT ![p] = EmptyCache]
  /\ fetch' = [fetch EXCEPT ![p].session = IF @ = Idle THEN Sent(token) ELSE @]

\* queryClient.clear(): data and fetches in flight are dropped, and the shell,
\* drawn again, asks for the session anew. A redemption on its way stays so.
Clear(p, token) ==
  /\ cache' = [cache EXCEPT ![p] = EmptyCache]
  /\ fetch' = [fetch EXCEPT ![p].session = Sent(token), ![p].me = Idle]

SignOutSettled(c, p) ==
  /\ c \in awaited[p] /\ call[c].kind = "logout" /\ call[c].at = "replied"
  /\ jar' = [jar EXCEPT ![p] = JarAfter(p, c)]
  /\ Clear(p, JarAfter(p, c))
  /\ awaited' = [awaited EXCEPT ![p] = @ \ {c}]
  /\ farewell' = IF call[c].status = "204"
                 THEN [farewell EXCEPT ![p] = @ \cup {call[c].token}] ELSE farewell
  /\ UNCHANGED accountVars

SignOutLost(c, p) ==      \* onSettled runs on a failure too
  /\ c \in awaited[p] /\ call[c].kind = "logout"
  /\ Clear(p, jar[p])
  /\ awaited' = [awaited EXCEPT ![p] = @ \ {c}]
  /\ UNCHANGED <<jar, farewell, accountVars>>

-----------------------------------------------------------------------------
(* The redemption of RewardsPage, one at a time: its dialog and its outcome   *)
(* are Shop's. The answer is heard wherever the page has gone meanwhile.      *)

Redeem(p) ==
  /\ SignedIn(p) /\ fetch[p].redeem = Idle
  /\ fetch' = [fetch EXCEPT ![p].redeem = Sent(jar[p])]
  /\ UNCHANGED <<jar, cache, awaited, farewell, accountVars>>

\* A 401, or any other answer.
RedeemServed(p) ==
  LET f == fetch[p].redeem IN
  /\ f.at = "sent" /\ Resolve(f.token)
  /\ fetch' = [fetch EXCEPT ![p].redeem =
                 [Idle EXCEPT !.at = IF UserOf(f.token) = Nobody THEN "refused" ELSE "got"]]
  /\ UNCHANGED <<jar, cache, awaited, farewell>>

\* onSuccess invalidates everything; onError, on an error of the server's or on
\* silence, the balance.
RedeemSettled(p) ==
  /\ \E keys \in {{"session", "me"}, {"me"}} :
       /\ fetch[p].redeem # Idle
       /\ fetch[p].redeem.at # "got" => keys = {"me"}
       /\ cache' = [cache EXCEPT ![p] = Invalidated(@, keys)]
       /\ fetch' = [fetch EXCEPT ![p] = [Refetched(p, jar[p], keys) EXCEPT !.redeem = Idle]]
  /\ UNCHANGED <<jar, awaited, farewell, accountVars>>

\* On a 401 onError clears the cache as the sign-out does, but draws only
\* RewardsPage again: the shell stands as it was last drawn, without a query
\* behind it, until something else draws it.
RedeemRefused(p) ==
  /\ fetch[p].redeem.at = "refused"
  /\ cache' = [cache EXCEPT ![p].live = FALSE]
  /\ fetch' = [fetch EXCEPT ![p] = [session |-> Idle, me |-> Idle, redeem |-> Idle]]
  /\ UNCHANGED <<jar, awaited, farewell, accountVars>>

Redraw(p) ==      \* another route, the theme, a click on "Sign out"
  /\ ~ cache[p].live
  /\ Clear(p, jar[p])
  /\ UNCHANGED <<jar, awaited, farewell, accountVars>>

-----------------------------------------------------------------------------
Web(p) ==
  \/ RefetchSession(p) \/ RefetchMe(p)
  \/ \E slot \in {"session", "me"} : Answered(p, slot)
  \/ SessionArrives(p) \/ SessionFails(p) \/ MeArrives(p) \/ MeFails(p)
  \/ \E c \in Calls : \/ Submit(c, p) \/ SignOut(c, p)
                      \/ FormAnswered(c, p) \/ FormLost(c, p)
                      \/ SignOutSettled(c, p) \/ SignOutLost(c, p)
  \/ Redeem(p) \/ RedeemServed(p) \/ RedeemSettled(p) \/ RedeemRefused(p) \/ Redraw(p)

Server == (Tick \/ \E c \in Calls : Serve(c)) /\ UNCHANGED shellVars

ShellNext == Server \/ \E p \in Pages : Web(p)

ShellSpec == ShellInit /\ [][ShellNext]_allVars

-----------------------------------------------------------------------------
Known == [who : Rows \cup {Nobody}, token : Tokens \cup {NoToken}]
Fetches == [at : {"idle", "sent", "got", "refused"}, token : Tokens \cup {NoToken},
            who : Rows \cup {Nobody}]

ShellTypeOK ==
  /\ AccountsTypeOK
  /\ jar \in [Pages -> Issued \cup {NoToken}]
  /\ cache \in [Pages -> [status : {"pending", "error", "success"}, session : Known,
                          me : Known, stale : BOOLEAN, live : BOOLEAN,
                          form : Tokens \cup {NoToken}]]
  /\ fetch \in [Pages -> [session : Fetches, me : Fetches, redeem : Fetches]]
  /\ awaited \in [Pages -> SUBSET Calls]
  /\ farewell \in [Pages -> SUBSET (Tokens \cup {NoToken})]

(* Nothing a page shows after its sign-out was answered comes from the        *)
(* session it left: neither what was cached, nor a fetch that was on its way  *)
(* (the comment on signOut in App.tsx).                                       *)
NothingOutlivesSignOut ==
  \A p \in Pages : farewell[p] \cap {cache[p].session.token, cache[p].me.token} \subseteq {NoToken}

=============================================================================
