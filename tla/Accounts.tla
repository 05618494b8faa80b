------------------------------- MODULE Accounts -------------------------------
(* modules/auth and plugins/auth.ts: registering, signing in and out, and the *)
(* session every request is resolved by.                                      *)
EXTENDS Postgres

CONSTANTS Members,        \* accounts that exist from the start
          Addresses,      \* email addresses as people type them
          Stored,         \* normaliseEmail: trimmed and lowercased
          EmailOf,        \* of each member, as stored
          Lifetime,       \* SESSION_TTL_MS
          Horizon,        \* bound: the last instant
          Nobody, NoRow, NoToken

Calls == Tx                    \* a call opens one transaction, if any
Rows == Members \cup Calls     \* an account is named by the call that creates it,
Tokens == Calls                \* and a session by the call that issues its token

ASSUME Normalising == /\ Stored \in [Addresses -> Addresses]
                      /\ \A e \in Addresses : Stored[Stored[e]] = Stored[e]
ASSUME MembersDiffer == /\ EmailOf \in [Members -> Addresses]
                        /\ \A m \in Members : Stored[EmailOf[m]] = EmailOf[m]
                        /\ \A m, n \in Members : EmailOf[m] = EmailOf[n] => m = n
ASSUME NamesApart == /\ Members \cap Calls = {} /\ NoRow \notin Addresses
                     /\ Nobody \notin Rows /\ NoToken \notin Tokens
ASSUME Instants == Lifetime \in Nat /\ Horizon \in Nat

VARIABLES users,      \* the email of each account, or NoRow
          sessions,   \* under each token: whose it is, and until when
          now,
          call        \* each call: what it asks, where it is, what it carries

accountVars == <<clog, users, sessions, now, call>>

Ended == [user |-> Nobody, expires |-> 0]      \* no such session row
NoCall == [at |-> "new", kind |-> "none", token |-> NoToken, email |-> NoRow,
           right |-> FALSE, who |-> Nobody, cookie |-> NoToken, status |-> "none"]

AccountsInit ==
  /\ PgInit
  /\ users = [r \in Rows |-> IF r \in Members THEN EmailOf[r] ELSE NoRow]
  /\ sessions = [c \in Tokens |-> Loaded(Ended)]
  /\ now = 0
  /\ call = [c \in Calls |-> NoCall]

-----------------------------------------------------------------------------
(* The session behind a request: applyAuth, resolveSession.                  *)

Session(token) == IF token = NoToken THEN Ended ELSE Latest(sessions[token])
Alive(s) == s.user # Nobody /\ now < s.expires
UserOf(token) == IF Alive(Session(token)) THEN Session(token).user ELSE Nobody

\* Seeded fault: a session is renewed on the way past, expired or not.
SweepRenewing(token) ==
  IF Session(token).user = Nobody \/ IsActive(sessions[token].by) THEN UNCHANGED sessions
  ELSE sessions' = [sessions EXCEPT ![token] =
                      Autocommitted([Session(token) EXCEPT !.expires = now + Lifetime])]

\* An expired session is deleted on the way past, once no logout holds its row.
Sweep(token) ==
  IF Session(token).user = Nobody \/ Alive(Session(token)) THEN UNCHANGED sessions
  ELSE /\ ~ IsActive(sessions[token].by)
       /\ sessions' = [sessions EXCEPT ![token] = Autocommitted(Ended)]

\* The preHandler of any request that shows a token.
Resolve(token) == Sweep(token) /\ UNCHANGED <<clog, users, now, call>>

-----------------------------------------------------------------------------
(* The routes. A cookie is put on the reply when the session row is written,  *)
(* before the transaction commits.                                            *)

\* Tokens that have left the server: a browser holds no other.
Issued == {c \in Tokens : call[c].at = "replied" /\ call[c].cookie = c}

Arrive(c, kind, token, email, right) ==
  /\ call[c].at = "new" /\ token \in Issued \cup {NoToken}
  /\ call' = [call EXCEPT ![c] = [NoCall EXCEPT !.at = "resolve", !.kind = kind,
                !.token = token, !.email = email, !.right = right]]
  /\ UNCHANGED <<clog, users, sessions, now>>

Goto(c, at) == call' = [call EXCEPT ![c].at = at]
Reply(c, status) == call' = [call EXCEPT ![c].at = "replied", ![c].status = status]

\* applyAuth runs before every handler; these handlers do not ask who it found.
PreHandler(c) ==
  /\ call[c].at = "resolve" /\ Sweep(call[c].token)
  /\ Goto(c, call[c].kind)
  /\ UNCHANGED <<clog, users, now>>

\* The account a statement of c finds under an address.
Exists(c, r) == users[r] # NoRow /\ (r \in Members \/ SeenBy(c, r))
Holder(c, e) == {r \in Rows : Exists(c, r) /\ users[r] = e}

Begins(c, kind) == call[c].at = kind /\ Begin(c) /\ UNCHANGED <<users, sessions, now>>

LookUp(c) ==
  /\ Begins(c, "register")
  /\ Goto(c, IF Holder(c, Stored[call[c].email]) = {} THEN "insert" ELSE "taken")

EmailTaken(c) ==
  /\ call[c].at = "taken" /\ Abort(c) /\ Reply(c, "409")
  /\ UNCHANGED <<users, sessions, now>>

\* The unique index on users.email: another's uncommitted row makes it wait.
AddressFree(c, e) == \A r \in Calls \ {c} : users[r] = e => ~ IsActive(r)
\* Seeded fault: nothing but the SELECT keeps addresses unique.
InsertUnindexed(c) ==
  LET e == Stored[call[c].email] IN
  /\ call[c].at = "insert" /\ IsActive(c)
  /\ users' = [users EXCEPT ![c] = e]
  /\ call' = [call EXCEPT ![c].at = "session", ![c].who = c]
  /\ UNCHANGED <<clog, sessions, now>>
\* Seeded fault: the address is normalised where it is looked up only.
InsertAsTyped(c) ==
  LET e == call[c].email IN
  /\ call[c].at = "insert" /\ IsActive(c) /\ AddressFree(c, e) /\ Holder(c, e) = {}
  /\ users' = [users EXCEPT ![c] = e]
  /\ call' = [call EXCEPT ![c].at = "session", ![c].who = c]
  /\ UNCHANGED <<clog, sessions, now>>

Insert(c) ==
  LET e == Stored[call[c].email] IN
  /\ call[c].at = "insert" /\ IsActive(c) /\ AddressFree(c, e) /\ Holder(c, e) = {}
  /\ users' = [users EXCEPT ![c] = e]
  /\ call' = [call EXCEPT ![c].at = "session", ![c].who = c]
  /\ UNCHANGED <<clog, sessions, now>>

\* The loser of the race: P2002, which no handler catches.
InsertRefused(c) ==
  LET e == Stored[call[c].email] IN
  /\ call[c].at = "insert" /\ AddressFree(c, e) /\ Holder(c, e) # {}
  /\ Abort(c) /\ Reply(c, "500")
  /\ UNCHANGED <<users, sessions, now>>

\* null for an unknown address and for a wrong or missing password alike.
Authenticate(c) ==
  /\ Begins(c, "login")
  /\ \/ /\ call[c].right
        /\ \E r \in Holder(c, Stored[call[c].email]) :
             call' = [call EXCEPT ![c].at = "session", ![c].who = r]
     \/ /\ ~ call[c].right \/ Holder(c, Stored[call[c].email]) = {}
        /\ Goto(c, "commit")

CreateSession(c) ==
  /\ call[c].at = "session" /\ IsActive(c)
  /\ sessions' = [sessions EXCEPT ![c] = Written(c, @, [user |-> call[c].who,
                                                      expires |-> now + Lifetime])]
  /\ call' = [call EXCEPT ![c].at = "commit", ![c].cookie = c]
  /\ UNCHANGED <<clog, users, now>>

\* No cookie, nothing to destroy.
LogoutBare(c) ==
  /\ call[c].at = "logout" /\ call[c].token = NoToken
  /\ Reply(c, "204")
  /\ UNCHANGED <<clog, users, sessions, now>>
BeginLogout(c) ==
  /\ call[c].token # NoToken /\ Begins(c, "logout")
  /\ Goto(c, "delete")
\* Seeded fault: logging out clears the cookie only.
DestroyNothing(c) ==
  /\ call[c].at = "delete" /\ IsActive(c)
  /\ Goto(c, "commit")
  /\ UNCHANGED <<clog, users, sessions, now>>

\* deleteMany: a row already gone is not an error.
DestroySession(c) ==
  LET row == sessions[call[c].token] IN
  /\ call[c].at = "delete" /\ IsActive(c) /\ ~ Waits(c, row)
  /\ sessions' = IF View(c, row).user = Nobody THEN sessions
                 ELSE [sessions EXCEPT ![call[c].token] = Written(c, @, Ended)]
  /\ Goto(c, "commit")
  /\ UNCHANGED <<clog, users, now>>

\* What the route answers once its transaction has gone through.
Outcome(c) == CASE call[c].kind = "register" -> "201"
                [] call[c].kind = "logout" -> "204"
                [] call[c].kind = "login" -> IF call[c].who = Nobody THEN "401" ELSE "200"

\* Seeded fault: the route answers from inside the transaction.
ReplyInside(c) ==
  /\ call[c].at = "commit" /\ IsActive(c) /\ Reply(c, Outcome(c))
  /\ UNCHANGED <<clog, users, sessions, now>>

CommitCall(c) ==
  /\ call[c].at = "commit" /\ Commit(c) /\ Reply(c, Outcome(c))
  /\ UNCHANGED <<users, sessions, now>>

-----------------------------------------------------------------------------
(* Failures. The error handler answers 500 on the same reply object, so a     *)
(* cookie already put on it goes out with the error.                          *)

ThrowEarly(c) ==      \* before or outside a transaction
  /\ call[c].at \in {"resolve", "register", "login", "logout"} /\ clog[c] = "new"
  /\ Reply(c, "500")
  /\ UNCHANGED <<clog, users, sessions, now>>
Throw(c) ==
  /\ call[c].at \in {"insert", "taken", "session", "delete", "commit"}
  /\ Abort(c) /\ Reply(c, "500")
  /\ UNCHANGED <<users, sessions, now>>
\* The connection is lost after the server has committed, before it says so.
LostCommit(c) ==
  /\ call[c].at = "commit" /\ Commit(c) /\ Reply(c, "500")
  /\ UNCHANGED <<users, sessions, now>>

Tick == now < Horizon /\ now' = now + 1 /\ UNCHANGED <<clog, users, sessions, call>>

Serve(c) ==
  \/ PreHandler(c) \/ LookUp(c) \/ EmailTaken(c) \/ Insert(c) \/ InsertRefused(c)
  \/ Authenticate(c) \/ CreateSession(c)
  \/ LogoutBare(c) \/ BeginLogout(c) \/ DestroySession(c) \/ CommitCall(c)
  \/ ThrowEarly(c) \/ Throw(c) \/ LostCommit(c)

Ask(c) == \E token \in Tokens \cup {NoToken} :
            \/ \E kind \in {"register", "login"}, e \in Addresses, right \in BOOLEAN :
                 Arrive(c, kind, token, e, right)
            \/ Arrive(c, "logout", token, NoRow, FALSE)

AccountsNext == \/ \E c \in Calls : Ask(c) \/ Serve(c)
                \/ \E token \in Tokens \cup {NoToken} : Resolve(token)
                \/ Tick

AccountsSpec == AccountsInit /\ [][AccountsNext]_accountVars

-----------------------------------------------------------------------------
Statuses == {"none", "200", "201", "204", "401", "409", "500"}
Places == {"new", "resolve", "register", "login", "logout", "insert", "taken", "session",
           "delete", "commit", "replied"}

AccountsTypeOK ==
  /\ clog \in [Xids -> Fates]
  /\ users \in [Rows -> Addresses \cup {NoRow}]
  /\ sessions \in [Tokens -> Cell([user : Rows \cup {Nobody}, expires : Nat])]
  /\ now \in Nat
  /\ call \in [Calls -> [at : Places, kind : {"none", "register", "login", "logout"},
                 token : Tokens \cup {NoToken}, email : Addresses \cup {NoRow},
                 right : BOOLEAN, who : Rows \cup {Nobody}, cookie : Tokens \cup {NoToken},
                 status : Statuses]]

Live(r) == users[r] # NoRow /\ (r \in Members \/ IsCommitted(r))

(* However registrations interleave and however the address is typed, an      *)
(* address has one account: the unique index backs the lookup up, and the     *)
(* address is normalised before both (register, normaliseEmail).              *)
OneAccountPerAddress ==
  \A r, s \in Rows :
    Live(r) /\ Live(s) /\ Stored[users[r]] = Stored[users[s]] => r = s

(* What the routes answer holds in the database: 201 and 200 come with a      *)
(* cookie whose session is the account's, 409 is only said of an address that *)
(* an account holds, 401 issues no session (auth.routes.ts).                  *)
AccountAnswersAreTrue ==
  \A c \in Calls :
    /\ call[c].status = "201" => Live(c) /\ call[c].who = c
    /\ call[c].status \in {"200", "201"} =>
         /\ call[c].cookie = c /\ IsCommitted(c) /\ Live(call[c].who)
         /\ Stored[users[call[c].who]] = Stored[call[c].email]
         /\ UserOf(c) \in {call[c].who, Nobody}
    /\ call[c].status = "409" => \E r \in Rows : Live(r) /\ users[r] = Stored[call[c].email]
    /\ call[c].status \in {"401", "409"} => call[c].cookie = NoToken

(* Logging out revokes: once it is answered 204, the token it was sent with   *)
(* signs nobody in, whatever other requests hold it (destroySession, and the  *)
(* comment in plugins/auth.ts that makes logout immediate).                   *)
LogoutIsImmediate ==
  \A c \in Calls : call[c].status = "204" => UserOf(call[c].token) = Nobody

(* A session that has ended, by logout or by the clock, stays ended           *)
(* (resolveSession: absolute rather than sliding).                            *)
EndedStaysEnded ==
  [][\A c \in Calls : call[c].at = "replied" /\ UserOf(c) = Nobody => UserOf(c)' = Nobody]_accountVars
=============================================================================
