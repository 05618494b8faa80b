----------------------------- MODULE ShellProofs -----------------------------
(* Proofs about Accounts and Shell. Of the server, for any number of          *)
(* accounts, calls and sessions: an address has one account, what a caller is *)
(* told of it and of a session is so, a logout that was answered revokes, and *)
(* a session that has ended stays so. Of the web shell: the server behind it  *)
(* is the one Accounts specifies, and nothing of a session a page signed out  *)
(* of comes back to it.                                                       *)
EXTENDS Shell, TLAPS


Before == {"new", "resolve", "register", "login", "logout"}
Within == {"insert", "taken", "session", "delete", "commit"}

\* Where each call is, what its transaction has done.
CallsFollow ==
  \A c \in Calls :
    /\ call[c].at \in Before => clog[c] = "new"
    /\ call[c].at \in Within => clog[c] = "active"
    /\ call[c].at = "replied" => clog[c] # "active"
    /\ call[c].at # "new" => call[c].kind # "none"
    /\ call[c].kind \in {"register", "login"} => call[c].email \in Addresses
    /\ call[c].at \in {"register", "insert", "taken"} => call[c].kind = "register"
    /\ call[c].at \in {"login", "session"} => call[c].kind # "logout"
    /\ call[c].at \in {"logout", "delete"} => call[c].kind = "logout"
    /\ call[c].status = "204" => call[c].at = "replied" /\ call[c].kind = "logout"

\* A token that was shown had left the server.
TokensFollow ==
  \A c \in Calls : call[c].token # NoToken => call[call[c].token].at = "replied"

SetupIsCommitted == clog[Setup] = "committed"

EmailsAreStored ==
  \A r \in Rows : users[r] # NoRow => Stored[users[r]] = users[r]
                                      /\ (r \in Calls => clog[r] # "new")

\* The unique index, over what may still commit as well.
RolledBack(r) == r \in Calls /\ clog[r] = "aborted"
IndexIsUnique ==
  \A r, s \in Rows : users[r] = users[s] /\ users[r] # NoRow /\ r # s
                       => RolledBack(r) \/ RolledBack(s)

\* The call that issued a token wrote its session, and others only end it.
OthersEndSessions ==
  \A t \in Tokens : sessions[t].by \in Tx \ {t} => sessions[t].now.user = Nobody

Gone(t) == /\ Latest(sessions[t]).user = Nobody
           /\ IsActive(sessions[t].by) => sessions[t].now.user = Nobody
Going(c, t) == sessions[t].by = c /\ sessions[t].now.user = Nobody

\* A logout that is about to commit has ended the session, or found it ended.
LogoutsFollow ==
  \A c \in Calls : call[c].kind = "logout" /\ call[c].token # NoToken =>
    /\ call[c].at = "commit" => Going(c, call[c].token) \/ Gone(call[c].token)
    /\ call[c].status = "204" => Gone(call[c].token)

AccountsIInv ==
  /\ AccountsTypeOK
  /\ CallsFollow
  /\ TokensFollow
  /\ SetupIsCommitted
  /\ EmailsAreStored
  /\ IndexIsUnique
  /\ OthersEndSessions
  /\ LogoutsFollow

Logins == [user : Rows \cup {Nobody}, expires : Nat]
CallRecords == [at : Places, kind : {"none", "register", "login", "logout"},
                token : Tokens \cup {NoToken}, email : Addresses \cup {NoRow},
                right : BOOLEAN, who : Rows \cup {Nobody}, cookie : Tokens \cup {NoToken},
                status : Statuses]

USE SetupIsNotATx DEF Calls, Tokens
-----------------------------------------------------------------------------
LEMMA InitInv == AccountsInit => AccountsIInv
<1> SUFFICES ASSUME AccountsInit PROVE AccountsIInv
  OBVIOUS
<1> USE Normalising, MembersDiffer, NamesApart, Instants DEF AccountsInit, PgInit
<1>1. AccountsTypeOK
  BY DEF AccountsTypeOK, Fates, Xids, Rows, Cell, Loaded, Ended, NoCall, Places, Statuses
<1>2. CallsFollow /\ TokensFollow /\ LogoutsFollow
  BY DEF CallsFollow, TokensFollow, LogoutsFollow, NoCall, Xids, Before, Within
<1>3. SetupIsCommitted /\ OthersEndSessions
  BY DEF SetupIsCommitted, OthersEndSessions, Loaded, Ended, Xids
<1>4. EmailsAreStored /\ IndexIsUnique
  BY DEF EmailsAreStored, IndexIsUnique, Rows
<1> QED BY <1>1, <1>2, <1>3, <1>4 DEF AccountsIInv

-----------------------------------------------------------------------------
\* The session cells.
LEMMA CellTypes ==
  ASSUME AccountsTypeOK
  PROVE  /\ \A t \in Tokens : /\ sessions[t] \in Cell(Logins)
                              /\ Latest(sessions[t]) \in Logins
         /\ \A t \in Tokens \cup {NoToken} : Session(t) \in Logins /\ UserOf(t) \in Rows \cup {Nobody}
<1>1. \A t \in Tokens : sessions[t] \in Cell(Logins) /\ Latest(sessions[t]) \in Logins
  BY DEF AccountsTypeOK, Cell, Latest, Logins
<1>2. Ended \in Logins
  BY DEF Ended, Logins
<1> QED BY <1>1, <1>2 DEF Session, UserOf, Logins

LEMMA SweepType ==
  ASSUME AccountsTypeOK, NEW token \in Tokens \cup {NoToken}, Sweep(token)
  PROVE  /\ sessions' \in [Tokens -> Cell(Logins)]
         /\ \A t \in Tokens : \/ sessions'[t] = sessions[t]
                              \/ /\ t = token /\ ~ IsActive(sessions[t].by)
                                 /\ ~ Alive(Latest(sessions[t]))
                                 /\ sessions'[t] = Loaded(Ended)
<1>1. sessions \in [Tokens -> Cell(Logins)]
  BY DEF AccountsTypeOK, Logins
<1>2. Loaded(Ended) \in Cell(Logins)
  BY DEF Loaded, Ended, Cell, Logins, Xids
<1>3. CASE UNCHANGED sessions
  BY <1>1, <1>3
<1>4. CASE ~ UNCHANGED sessions
  <2>1. /\ Session(token).user # Nobody /\ ~ Alive(Session(token))
        /\ ~ IsActive(sessions[token].by)
        /\ sessions' = [sessions EXCEPT ![token] = Loaded(Ended)]
    BY <1>4 DEF Sweep, Autocommitted
  <2>2. token # NoToken
    BY <2>1 DEF Session, Ended
  <2> QED BY <1>1, <1>2, <2>1, <2>2 DEF Session
<1> QED BY <1>3, <1>4

-----------------------------------------------------------------------------
\* What a step of a call does to it: it moves on, and keeps what it asked for.
Moves(c, places) ==
  /\ call' \in [Calls -> CallRecords]
  /\ \A d \in Calls \ {c} : call'[d] = call[d]
  /\ call'[c].at \in places
  /\ call'[c].kind = call[c].kind /\ call'[c].token = call[c].token
  /\ call'[c].email = call[c].email

LEMMA GotoMoves ==
  ASSUME AccountsTypeOK, NEW c \in Calls, NEW at \in Places, Goto(c, at)
  PROVE  Moves(c, {at}) /\ call'[c].status = call[c].status
BY DEF AccountsTypeOK, CallRecords, Goto, Moves

LEMMA ReplyMoves ==
  ASSUME AccountsTypeOK, NEW c \in Calls, NEW status \in Statuses, Reply(c, status)
  PROVE  Moves(c, {"replied"}) /\ call'[c].status = status
<1>1. "replied" \in Places /\ call \in [Calls -> CallRecords]
  BY DEF AccountsTypeOK, CallRecords, Places
<1>2. call' = [call EXCEPT ![c].at = "replied", ![c].status = status]
  BY DEF Reply
<1>3. call'[c] = [call[c] EXCEPT !.at = "replied", !.status = status]
  BY <1>1, <1>2
<1>4. call'[c] \in CallRecords
  BY <1>1, <1>3 DEF CallRecords
<1>5. call' \in [Calls -> CallRecords] /\ \A d \in Calls \ {c} : call'[d] = call[d]
  BY <1>1, <1>2, <1>3, <1>4
<1> QED BY <1>1, <1>3, <1>5 DEF Moves, CallRecords

LEMMA MovesWider ==
  ASSUME NEW c \in Calls, NEW S, S \subseteq Places, Moves(c, S)
  PROVE  Moves(c, Places)
BY DEF Moves

LEMMA ServeMoves ==
  ASSUME AccountsIInv, NEW c \in Calls, Serve(c)
  PROVE  /\ UNCHANGED now
         /\ \A x \in Xids \ {c} : clog'[x] = clog[x]
         /\ clog' \in [Xids -> Fates]
         /\ \/ /\ PreHandler(c) /\ Moves(c, {"register", "login", "logout"}) /\ UNCHANGED clog
               /\ call[c].at = "resolve" /\ call'[c].at = call[c].kind
               /\ call'[c].status = call[c].status
            \/ /\ LookUp(c) /\ Moves(c, {"insert", "taken"}) /\ clog'[c] = "active"
               /\ call[c].at = "register" /\ call'[c].status = call[c].status
            \/ /\ Insert(c) /\ Moves(c, {"session"}) /\ UNCHANGED clog
               /\ call[c].at = "insert" /\ call'[c].status = call[c].status
            \/ /\ Authenticate(c) /\ Moves(c, {"session", "commit"}) /\ clog'[c] = "active"
               /\ call[c].at = "login" /\ call'[c].status = call[c].status
            \/ /\ CreateSession(c) /\ Moves(c, {"commit"}) /\ UNCHANGED clog
               /\ call[c].at = "session" /\ call'[c].status = call[c].status
            \/ /\ BeginLogout(c) /\ Moves(c, {"delete"}) /\ clog'[c] = "active"
               /\ call[c].at = "logout" /\ call'[c].status = call[c].status
            \/ /\ DestroySession(c) /\ Moves(c, {"commit"}) /\ UNCHANGED clog
               /\ call[c].at = "delete" /\ call'[c].status = call[c].status
            \/ /\ LogoutBare(c) /\ Moves(c, {"replied"}) /\ UNCHANGED <<clog, users, sessions>>
               /\ call[c].token = NoToken /\ call[c].at = "logout"
            \/ /\ CommitCall(c) /\ Moves(c, {"replied"}) /\ UNCHANGED <<users, sessions>>
               /\ call[c].at = "commit" /\ clog'[c] = "committed" /\ clog[c] = "active"
               /\ call'[c].status = Outcome(c)
            \/ /\ Moves(c, {"replied"}) /\ UNCHANGED <<users, sessions>>
               /\ call'[c].status \in {"409", "500"} /\ call[c].at \notin {"new", "replied"}
               /\ clog'[c] \in {"new", "aborted", "committed"}
               /\ clog'[c] = "new" => clog[c] = "new"
               /\ clog'[c] # clog[c] => clog[c] = "active"
               /\ clog'[c] = "committed" => call[c].at = "commit"
<1> USE DEF AccountsIInv
<1>0. /\ clog \in [Xids -> Fates] /\ c \in Xids
      /\ call \in [Calls -> CallRecords]
      /\ {"409", "500", "204"} \subseteq Statuses
  BY DEF AccountsTypeOK, CallRecords, Xids, Statuses
<1>1. CASE PreHandler(c)
  <2>1. call[c].kind \in {"register", "login", "logout"} \cap Places
    BY <1>0, <1>1 DEF PreHandler, CallsFollow, CallRecords, Places
  <2>2. Moves(c, {call[c].kind}) /\ call'[c].status = call[c].status
    BY <1>1, <2>1, GotoMoves DEF PreHandler
  <2> QED BY <1>0, <1>1, <2>1, <2>2 DEF PreHandler, Moves
<1>2. CASE LookUp(c)
  <2>1. \E at \in {"insert", "taken"} : Goto(c, at)
    BY <1>2 DEF LookUp
  <2>2. Moves(c, {"insert", "taken"}) /\ call'[c].status = call[c].status
    BY <2>1, GotoMoves DEF Moves, Places
  <2> QED BY <1>0, <1>2, <2>2 DEF LookUp, Begins, Begin, Fates
<1>3. CASE Insert(c)
  <2>1. Moves(c, {"session"}) /\ call'[c].status = call[c].status
    BY <1>0, <1>3 DEF Insert, Moves, CallRecords, Places, Rows
  <2> QED BY <1>0, <1>3, <2>1 DEF Insert
<1>4. CASE Authenticate(c)
  <2>1. CASE Goto(c, "commit")
    <3>1. Moves(c, {"commit"}) /\ call'[c].status = call[c].status
      BY <2>1, GotoMoves DEF Places
    <3> QED BY <1>0, <1>4, <3>1 DEF Authenticate, Begins, Begin, Fates, Moves
  <2>2. CASE \E r \in Holder(c, Stored[call[c].email]) :
               call' = [call EXCEPT ![c].at = "session", ![c].who = r]
    <3>0. PICK r \in Rows : call' = [call EXCEPT ![c].at = "session", ![c].who = r]
      BY <2>2 DEF Holder
    <3>1. Moves(c, {"session"}) /\ call'[c].status = call[c].status
      BY <1>0, <3>0 DEF Moves, CallRecords, Places
    <3> QED BY <1>0, <1>4, <3>1 DEF Authenticate, Begins, Begin, Fates, Moves
  <2> QED BY <1>4, <2>1, <2>2 DEF Authenticate
<1>5. CASE CreateSession(c)
  <2>1. Moves(c, {"commit"}) /\ call'[c].status = call[c].status
    BY <1>0, <1>5 DEF CreateSession, Moves, CallRecords, Places
  <2> QED BY <1>0, <1>5, <2>1 DEF CreateSession
<1>6. CASE BeginLogout(c)
  <2>1. Moves(c, {"delete"}) /\ call'[c].status = call[c].status
    BY <1>6, GotoMoves DEF BeginLogout, Places
  <2> QED BY <1>0, <1>6, <2>1 DEF BeginLogout, Begins, Begin, Fates
<1>7. CASE DestroySession(c)
  <2>1. Moves(c, {"commit"}) /\ call'[c].status = call[c].status
    BY <1>7, GotoMoves DEF DestroySession, Places
  <2> QED BY <1>0, <1>7, <2>1 DEF DestroySession
<1>8. CASE LogoutBare(c)
  <2>1. Moves(c, {"replied"})
    BY <1>0, <1>8, ReplyMoves DEF LogoutBare
  <2> QED BY <1>0, <1>8, <2>1 DEF LogoutBare
<1>9. CASE CommitCall(c)
  <2>1. call[c].kind \in {"register", "login", "logout"}
    BY <1>0, <1>9 DEF CommitCall, CallsFollow, CallRecords
  <2>2. Outcome(c) \in Statuses
    BY <2>1 DEF Outcome, Statuses
  <2>3. Moves(c, {"replied"}) /\ call'[c].status = Outcome(c)
    BY <1>9, <2>2, ReplyMoves DEF CommitCall
  <2> QED BY <1>0, <1>9, <2>3 DEF CommitCall, Commit, IsActive, Fates
<1>10. CASE \/ EmailTaken(c) \/ InsertRefused(c) \/ ThrowEarly(c) \/ Throw(c) \/ LostCommit(c)
  <2>1. \E status \in {"409", "500"} : Reply(c, status)
    BY <1>10 DEF EmailTaken, InsertRefused, ThrowEarly, Throw, LostCommit
  <2>2. Moves(c, {"replied"}) /\ call'[c].status \in {"409", "500"}
    BY <1>0, <2>1, ReplyMoves
  <2>3. /\ UNCHANGED <<users, sessions, now>>
        /\ call[c].at \notin {"new", "replied"}
        /\ clog' \in [Xids -> Fates] /\ \A x \in Xids \ {c} : clog'[x] = clog[x]
        /\ clog'[c] \in {"new", "aborted", "committed"}
        /\ clog'[c] = "new" => clog[c] = "new"
        /\ clog'[c] # clog[c] => clog[c] = "active"
        /\ clog'[c] = "committed" => call[c].at = "commit"
    BY <1>0, <1>10 DEF EmailTaken, InsertRefused, ThrowEarly, Throw, LostCommit, Abort, Commit,
       IsActive, Fates
  <2> QED BY <2>2, <2>3
<1> QED BY <1>1, <1>2, <1>3, <1>4, <1>5, <1>6, <1>7, <1>8, <1>9, <1>10 DEF Serve

-----------------------------------------------------------------------------
LEMMA ServeCalls ==
  ASSUME AccountsIInv, NEW c \in Calls, Serve(c)
  PROVE  CallsFollow' /\ TokensFollow' /\ SetupIsCommitted'
<1> USE DEF AccountsIInv
<1>1. /\ call' \in [Calls -> CallRecords]
      /\ \A d \in Calls \ {c} : call'[d] = call[d] /\ clog'[d] = clog[d]
      /\ call'[c].kind = call[c].kind /\ call'[c].token = call[c].token
      /\ call'[c].email = call[c].email
      /\ call[c].at \notin {"new", "replied"}
      /\ clog'[Setup] = clog[Setup] /\ clog \in [Xids -> Fates] /\ c \in Xids
  <2>1. Moves(c, Places) /\ call[c].at \notin {"new", "replied"}
    BY ServeMoves, MovesWider DEF Places
  <2>2. /\ \A x \in Xids \ {c} : clog'[x] = clog[x]
        /\ clog \in [Xids -> Fates]
    BY ServeMoves DEF AccountsTypeOK
  <2> QED BY <2>1, <2>2 DEF Moves, Xids
<1>2. /\ call'[c].at \in Before => clog'[c] = "new"
      /\ call'[c].at \in Within => clog'[c] = "active"
      /\ call'[c].at = "replied" => clog'[c] # "active"
      /\ call'[c].at # "new"
      /\ call'[c].at \in {"register", "insert", "taken"} => call[c].kind = "register"
      /\ call'[c].at \in {"login", "session"} => call[c].kind # "logout"
      /\ call'[c].at \in {"logout", "delete"} => call[c].kind = "logout"
      /\ call'[c].status = "204" => call'[c].at = "replied" /\ call[c].kind = "logout"
  BY <1>1, ServeMoves DEF CallsFollow, Moves, Before, Within, Outcome, CallRecords
<1>3. CallsFollow'
  BY <1>1, <1>2 DEF CallsFollow
<1>4. TokensFollow'
  <2> SUFFICES ASSUME NEW d \in Calls, call'[d].token # NoToken
               PROVE  call'[call'[d].token].at = "replied"
    BY DEF TokensFollow
  <2>1. call'[d].token = call[d].token /\ call'[d] \in CallRecords
    BY <1>1
  <2>2. call[d].token \in Calls /\ call[call[d].token].at = "replied"
    BY <2>1 DEF TokensFollow, CallRecords
  <2>3. call[d].token # c
    BY <1>1, <2>2
  <2> QED BY <1>1, <2>1, <2>2, <2>3
<1>5. SetupIsCommitted'
  BY <1>1 DEF SetupIsCommitted
<1> QED BY <1>3, <1>4, <1>5

\* Only an INSERT changes the accounts.
LEMMA ServeUsers ==
  ASSUME AccountsIInv, NEW c \in Calls, Serve(c)
  PROVE  /\ users' \in [Rows -> Addresses \cup {NoRow}]
         /\ EmailsAreStored' /\ IndexIsUnique'
<1> USE NamesApart DEF AccountsIInv
<1>1. /\ users \in [Rows -> Addresses \cup {NoRow}]
      /\ clog \in [Xids -> Fates] /\ c \in Xids /\ c \in Rows
      /\ \A x \in Xids \ {c} : clog'[x] = clog[x]
      /\ Calls \subseteq Xids
      /\ clog'[c] # clog[c] => clog[c] # "aborted" /\ clog'[c] # "new"
  BY ServeMoves DEF AccountsTypeOK, Rows, Xids, CallsFollow, Before, Within
<1>2. CASE UNCHANGED users
  <2>1. \A r \in Rows : RolledBack(r) => RolledBack(r)'
    BY <1>1 DEF RolledBack
  <2>2. EmailsAreStored'
    BY <1>1, <1>2 DEF EmailsAreStored
  <2>3. IndexIsUnique'
    BY <1>2, <2>1 DEF IndexIsUnique
  <2> QED BY <1>1, <1>2, <2>2, <2>3
<1>3. CASE Insert(c)
  <2> DEFINE e == Stored[call[c].email]
  <2>1. /\ clog' = clog /\ users' = [users EXCEPT ![c] = e] /\ IsActive(c)
        /\ AddressFree(c, e) /\ Holder(c, e) = {} /\ call[c].at = "insert"
    BY <1>3 DEF Insert
  <2>2. call[c].email \in Addresses /\ e \in Addresses /\ Stored[e] = e
    BY <2>1, Normalising DEF CallsFollow
  <2>3. EmailsAreStored'
    BY <1>1, <2>1, <2>2 DEF EmailsAreStored, IsActive
  <2>4. \A r \in Rows \ {c} : users[r] = e => RolledBack(r)
    <3> SUFFICES ASSUME NEW r \in Rows \ {c}, users[r] = e PROVE RolledBack(r)
      OBVIOUS
    <3>1. ~ Exists(c, r) /\ users[r] # NoRow
      BY <2>1, <2>2 DEF Holder
    <3>2. r \in Calls /\ ~ IsCommitted(r)
      BY <3>1 DEF Exists, SeenBy, Rows
    <3>3. ~ IsActive(r) /\ clog[r] # "new" /\ clog[r] \in Fates
      BY <1>1, <2>1, <3>1, <3>2 DEF AddressFree, EmailsAreStored
    <3> QED BY <3>2, <3>3 DEF RolledBack, IsActive, IsCommitted, Fates
  <2>5. IndexIsUnique'
    BY <1>1, <2>1, <2>2, <2>4 DEF IndexIsUnique, RolledBack
  <2> QED BY <1>1, <2>1, <2>2, <2>3, <2>5
<1>4. Insert(c) \/ UNCHANGED users
  BY DEF Serve, PreHandler, LookUp, EmailTaken, InsertRefused, Authenticate, CreateSession,
     LogoutBare, BeginLogout, DestroySession, CommitCall, ThrowEarly, Throw, LostCommit, Begins
<1> QED BY <1>2, <1>3, <1>4

\* What becomes of a session in a step.
LEMMA ServeSessions ==
  ASSUME AccountsIInv, NEW c \in Calls, Serve(c)
  PROVE  /\ sessions' \in [Tokens -> Cell(Logins)]
         /\ \A t \in Tokens :
              \/ sessions'[t] = sessions[t]
              \/ /\ ~ IsActive(sessions[t].by) /\ ~ Alive(Latest(sessions[t]))
                 /\ sessions'[t] = Loaded(Ended) /\ UNCHANGED clog
              \/ /\ t = c /\ call[c].at = "session" /\ sessions'[t].by = c
                 /\ sessions[t].by # c => sessions'[t].was = Latest(sessions[t])
                 /\ UNCHANGED clog
              \/ /\ DestroySession(c) /\ call[c].at = "delete" /\ t = call[c].token
                 /\ sessions[t].by = c \/ ~ IsActive(sessions[t].by)
                 /\ sessions'[t] = Written(c, sessions[t], Ended) /\ UNCHANGED clog
<1> USE DEF AccountsIInv
<1>1. /\ sessions \in [Tokens -> Cell(Logins)] /\ now \in Nat /\ c \in Xids
      /\ call \in [Calls -> CallRecords]
      /\ \A t \in Tokens : Latest(sessions[t]) \in Logins
      /\ Ended \in Logins
  BY CellTypes DEF AccountsTypeOK, Logins, CallRecords, Xids, Ended
<1>2. CASE UNCHANGED sessions
  BY <1>1, <1>2
<1>3. CASE PreHandler(c)
  <2>1. call[c].token \in Tokens \cup {NoToken} /\ Sweep(call[c].token) /\ UNCHANGED clog
    BY <1>1, <1>3 DEF PreHandler, CallRecords
  <2> QED BY <2>1, SweepType
<1>4. CASE CreateSession(c)
  <2> DEFINE v == [user |-> call[c].who, expires |-> now + Lifetime]
  <2>1. v \in Logins
    BY <1>1, Instants DEF Logins, CallRecords
  <2>2. sessions' = [sessions EXCEPT ![c] = Written(c, sessions[c], v)] /\ UNCHANGED clog
        /\ call[c].at = "session"
    BY <1>4 DEF CreateSession
  <2>3. /\ Written(c, sessions[c], v) \in Cell(Logins) /\ Written(c, sessions[c], v).by = c
        /\ sessions[c].by # c => Written(c, sessions[c], v).was = Latest(sessions[c])
    <3>1. sessions[c] \in Cell(Logins) /\ Latest(sessions[c]) \in Logins
      BY <1>1
    <3> HIDE DEF v
    <3> QED BY <1>1, <2>1, <3>1 DEF Written, Locked, Cell
  <2> HIDE DEF v
  <2> QED BY <1>1, <2>2, <2>3
<1>5. CASE DestroySession(c)
  <2> DEFINE t == call[c].token
  <2>1. CASE UNCHANGED sessions
    BY <1>1, <2>1
  <2>2. CASE ~ UNCHANGED sessions
    <3>1. /\ sessions' = [sessions EXCEPT ![t] = Written(c, sessions[t], Ended)]
          /\ UNCHANGED clog /\ call[c].at = "delete"
          /\ sessions[t].by = c \/ ~ IsActive(sessions[t].by)
      BY <1>5, <2>2 DEF DestroySession, Waits
    <3>2. CASE t \in Tokens
      <4>1. sessions[t] \in Cell(Logins) /\ Latest(sessions[t]) \in Logins
        BY <1>1, <3>2
      <4>2. Written(c, sessions[t], Ended) \in Cell(Logins)
        BY <1>1, <4>1 DEF Written, Locked, Cell
      <4> QED BY <1>1, <1>5, <3>1, <3>2, <4>2
    <3>3. CASE t \notin Tokens
      BY <1>1, <3>1, <3>3, <2>2
    <3> QED BY <3>2, <3>3
  <2> QED BY <2>1, <2>2
<1>6. PreHandler(c) \/ CreateSession(c) \/ DestroySession(c) \/ UNCHANGED sessions
  BY DEF Serve, LookUp, EmailTaken, Insert, InsertRefused, Authenticate, LogoutBare,
     BeginLogout, CommitCall, ThrowEarly, Throw, LostCommit, Begins
<1> QED BY <1>2, <1>3, <1>4, <1>5, <1>6

LEMMA ServeOthers ==
  ASSUME AccountsIInv, NEW c \in Calls, Serve(c)
  PROVE  OthersEndSessions'
<1> SUFFICES ASSUME NEW t \in Tokens, sessions'[t].by \in Tx \ {t}
             PROVE  sessions'[t].now.user = Nobody
  BY DEF OthersEndSessions
<1>1. sessions[t] \in Cell(Logins) /\ Latest(sessions[t]) \in Logins
  BY CellTypes DEF AccountsIInv
<1>2. CASE sessions'[t] = sessions[t]
  BY <1>2 DEF AccountsIInv, OthersEndSessions
<1>3. CASE sessions'[t] = Loaded(Ended)
  BY <1>3 DEF Loaded, Ended
<1>4. CASE sessions'[t] = Written(c, sessions[t], Ended)
  BY <1>1, <1>4 DEF Written, Locked, Cell, Ended
<1> QED BY <1>2, <1>3, <1>4, ServeSessions

\* A session that is gone for good: whoever issued it has answered.
LEMMA GoneStays ==
  ASSUME AccountsIInv, NEW c \in Calls, Serve(c),
         NEW t \in Tokens, call[t].at = "replied", Gone(t)
  PROVE  Gone(t)'
<1> USE DEF AccountsIInv
<1>1. /\ sessions[t] \in Cell(Logins) /\ Latest(sessions[t]) \in Logins
      /\ clog \in [Xids -> Fates] /\ clog[Setup] = "committed"
      /\ \A x \in Xids \ {c} : clog'[x] = clog[x]
      /\ c # t /\ clog[c] \in {"new", "active"} /\ c \in Xids
      /\ call[c].at = "delete" => clog[c] = "active"
  <2>1. call[c].at \notin {"new", "replied"} /\ \A x \in Xids \ {c} : clog'[x] = clog[x]
    BY ServeMoves
  <2>2. call[c].at \in Before \cup Within
    BY <2>1 DEF AccountsTypeOK, Places, Before, Within
  <2> QED BY <2>1, <2>2, CellTypes
          DEF AccountsTypeOK, SetupIsCommitted, CallsFollow, Xids, Before, Within
<1>2. CASE sessions'[t] = sessions[t]
  <2>1. sessions[t].by \in Xids
    BY <1>1 DEF Cell
  <2>2. CASE sessions[t].by # c
    BY <1>1, <1>2, <2>1, <2>2 DEF Gone, Latest, IsActive, IsCommitted
  <2>3. CASE sessions[t].by = c
    <3>1. sessions[t].now.user = Nobody /\ sessions[t].was.user = Nobody
      BY <1>1, <2>3 DEF OthersEndSessions, Gone, Latest, IsCommitted
    <3> QED BY <1>2, <3>1 DEF Gone, Latest
  <2> QED BY <2>2, <2>3
<1>3. CASE sessions'[t] = Loaded(Ended) /\ UNCHANGED clog
  BY <1>1, <1>3 DEF Gone, Latest, Loaded, Ended, IsActive
<1>4. CASE /\ sessions'[t] = Written(c, sessions[t], Ended) /\ UNCHANGED clog
           /\ call[c].at = "delete"
  <2>1. sessions'[t].by = c /\ sessions'[t].now = Ended
        /\ sessions'[t].was = Latest(sessions[t])
    BY <1>1, <1>4 DEF Written, Locked, Cell, Latest, IsCommitted
  <2> QED BY <1>1, <1>4, <2>1 DEF Gone, Latest, IsActive, IsCommitted, Ended
<1> QED BY <1>1, <1>2, <1>3, <1>4, ServeSessions

\* While a logout has the row, nobody else writes it.
LEMMA GoingStays ==
  ASSUME AccountsIInv, NEW c \in Calls, Serve(c), NEW d \in Calls \ {c}, call[d].at = "commit",
         NEW t \in Tokens, call[t].at = "replied", Going(d, t)
  PROVE  Going(d, t)'
<1>1. clog[d] = "active" /\ sessions[t].by = d /\ c # t
  <2>1. call[c].at # "replied"
    BY ServeMoves
  <2> QED BY <2>1 DEF AccountsIInv, CallsFollow, Within, Going
<1>2. sessions'[t] = sessions[t]
  BY <1>1, ServeSessions DEF IsActive
<1> QED BY <1>1, <1>2 DEF Going

LEMMA ServeLogouts ==
  ASSUME AccountsIInv, NEW c \in Calls, Serve(c)
  PROVE  LogoutsFollow'
<1> USE DEF AccountsIInv
<1> SUFFICES ASSUME NEW d \in Calls, call'[d].kind = "logout", call'[d].token # NoToken,
                    NEW t, t = call'[d].token
             PROVE  /\ call'[d].at = "commit" => Going(d, t)' \/ Gone(t)'
                    /\ call'[d].status = "204" => Gone(t)'
  BY DEF LogoutsFollow, Going, Gone
<1>1. Moves(c, Places) /\ call[c].at \notin {"new", "replied"}
  BY ServeMoves, MovesWider DEF Places
<1>2. /\ call[d].token = t /\ call[d].kind = "logout" /\ t \in Tokens
      /\ call[t].at = "replied"
  <2>1. call'[d].token = call[d].token /\ call'[d].kind = call[d].kind
    BY <1>1 DEF Moves
  <2>2. call[d] \in CallRecords
    BY DEF AccountsTypeOK, CallRecords
  <2> QED BY <2>1, <2>2 DEF CallRecords, TokensFollow
<1>3. CASE d # c
  <2>1. call'[d] = call[d]
    BY <1>1, <1>3 DEF Moves
  <2>2. /\ call[d].at = "commit" => Going(d, t) \/ Gone(t)
        /\ call[d].status = "204" => Gone(t)
    BY <1>2, <2>1 DEF LogoutsFollow
  <2>3. Gone(t) => Gone(t)'
    BY <1>2, GoneStays
  <2>4. call[d].at = "commit" /\ Going(d, t) => Going(d, t)'
    BY <1>2, <1>3, GoingStays
  <2> QED BY <1>2, <2>1, <2>2, <2>3, <2>4
<1>4. CASE d = c
  <2>1. call[c].status # "204"
    BY <1>1 DEF CallsFollow
  <2>2. CASE DestroySession(c) /\ call'[c].status = call[c].status
    <3> DEFINE row == sessions[t]
    <3>1. row \in Cell(Logins) /\ Latest(row) \in Logins
      BY <1>2, CellTypes
    <3>2. CASE View(c, row).user = Nobody /\ UNCHANGED sessions
      <4>1. UNCHANGED clog /\ ~ Waits(c, row)
        BY <1>2, <1>4, <2>2 DEF DestroySession
      <4>2. CASE row.by = c
        BY <1>2, <1>4, <2>1, <2>2, <3>2, <4>2 DEF View, Going
      <4>3. CASE row.by # c
        <5>1. Gone(t)
          BY <3>2, <4>1, <4>3 DEF View, Gone, Waits
        <5> QED BY <1>2, <1>4, <2>1, <2>2, <5>1, GoneStays
      <4> QED BY <4>2, <4>3
    <3>3. CASE sessions' = [sessions EXCEPT ![t] = Written(c, row, Ended)]
      <4>1. sessions'[t] = Written(c, row, Ended)
        BY <1>2, <3>3 DEF AccountsTypeOK
      <4>2. sessions'[t].by = c /\ sessions'[t].now.user = Nobody
        BY <3>1, <4>1 DEF Written, Locked, Cell, Ended
      <4> QED BY <1>2, <1>4, <2>1, <2>2, <4>2 DEF Going
    <3> QED BY <1>2, <1>4, <2>2, <3>2, <3>3 DEF DestroySession
  <2>3. CASE CommitCall(c) /\ call'[c].at = "replied" /\ UNCHANGED sessions
    <3>1. call[c].at = "commit" /\ clog'[c] = "committed"
      BY <2>3 DEF CommitCall, Commit, AccountsTypeOK, Xids
    <3>2. CASE Gone(t)
      BY <1>2, <2>3, <3>2, GoneStays
    <3>3. CASE Going(c, t)
      BY <1>2, <2>3, <3>1, <3>3 DEF Going, Gone, Latest, IsCommitted, IsActive
    <3> QED BY <1>2, <1>4, <3>1, <3>2, <3>3 DEF LogoutsFollow
  <2>4. CASE call'[c].at # "commit" /\ call'[c].status # "204"
    BY <1>4, <2>4
  <2> QED
    <3>1. \/ call'[c].at # "commit" /\ call'[c].status # "204"
          \/ CommitCall(c) /\ call'[c].at = "replied" /\ UNCHANGED sessions
          \/ DestroySession(c) /\ call'[c].status = call[c].status
      <4>1. call[c].kind = "logout" /\ t # NoToken
        BY <1>2, <1>4, NamesApart
      <4>2. call[c].at \notin {"login", "session"} /\ call[c].token # NoToken
        BY <1>2, <1>4, <4>1 DEF CallsFollow
      <4> QED BY <2>1, <4>2, ServeMoves DEF Moves, CallRecords
    <3> QED BY <2>2, <2>3, <2>4, <3>1
<1> QED BY <1>3, <1>4

LEMMA ServeInv ==
  ASSUME AccountsIInv, NEW c \in Calls, Serve(c)
  PROVE  AccountsIInv'
<1>1. AccountsTypeOK'
  <2>1. Moves(c, Places) /\ UNCHANGED now /\ clog' \in [Xids -> Fates]
    BY ServeMoves, MovesWider DEF Places
  <2> QED BY <2>1, ServeUsers, ServeSessions
          DEF AccountsIInv, AccountsTypeOK, Moves, CallRecords, Logins
<1> QED BY <1>1, ServeCalls, ServeUsers, ServeOthers, ServeLogouts DEF AccountsIInv

-----------------------------------------------------------------------------
\* The steps of nobody's call: a request comes in, a session is swept, time passes.
LEMMA ArriveInv ==
  ASSUME AccountsIInv, NEW c \in Calls, Ask(c)
  PROVE  AccountsIInv'
<1> USE DEF AccountsIInv
<1>1. PICK kind \in {"register", "login", "logout"}, token \in Tokens \cup {NoToken},
           e \in Addresses \cup {NoRow}, right \in BOOLEAN :
        Arrive(c, kind, token, e, right) /\ (kind # "logout" => e \in Addresses)
  BY DEF Ask
<1>2. /\ UNCHANGED <<clog, users, sessions, now>> /\ call[c].at = "new"
      /\ token \in Issued \cup {NoToken}
      /\ call' \in [Calls -> CallRecords]
      /\ \A d \in Calls \ {c} : call'[d] = call[d]
      /\ call'[c].at = "resolve" /\ call'[c].kind = kind /\ call'[c].token = token
      /\ call'[c].email = e /\ call'[c].status = "none"
  BY <1>1 DEF Arrive, NoCall, CallRecords, AccountsTypeOK, Places, Statuses
<1>3. AccountsTypeOK'
  BY <1>2 DEF AccountsTypeOK, CallRecords
<1>4. CallsFollow'
  BY <1>1, <1>2 DEF CallsFollow, Before, Within
<1>5. TokensFollow'
  <2> SUFFICES ASSUME NEW d \in Calls, NEW t, t = call'[d].token, t # NoToken
               PROVE  call'[t].at = "replied"
    BY DEF TokensFollow
  <2>1. CASE d = c
    BY <1>2, <2>1 DEF Issued
  <2>2. CASE d # c
    <3>1. call[d] \in CallRecords /\ call[d].token = t
      BY <1>2, <2>2 DEF AccountsTypeOK, CallRecords
    <3>2. t \in Calls /\ call[t].at = "replied"
      BY <3>1 DEF CallRecords, TokensFollow
    <3> QED BY <1>2, <3>2
  <2> QED BY <2>1, <2>2
<1>6. LogoutsFollow'
  BY <1>2 DEF LogoutsFollow, Going, Gone, Latest, IsActive, IsCommitted
<1>7. SetupIsCommitted' /\ EmailsAreStored' /\ IndexIsUnique' /\ OthersEndSessions'
  BY <1>2 DEF SetupIsCommitted, EmailsAreStored, IndexIsUnique, RolledBack, OthersEndSessions
<1> QED BY <1>3, <1>4, <1>5, <1>6, <1>7

LEMMA ResolveInv ==
  ASSUME AccountsIInv, NEW token \in Tokens \cup {NoToken}, Resolve(token)
  PROVE  AccountsIInv'
<1> USE DEF AccountsIInv
<1>1. UNCHANGED <<clog, users, now, call>> /\ Sweep(token)
  BY DEF Resolve
<1>2. /\ sessions' \in [Tokens -> Cell(Logins)]
      /\ \A t \in Tokens : \/ sessions'[t] = sessions[t]
                           \/ ~ IsActive(sessions[t].by) /\ sessions'[t] = Loaded(Ended)
  BY <1>1, SweepType
<1>3. AccountsTypeOK'
  BY <1>1, <1>2 DEF AccountsTypeOK, Logins
<1>4. OthersEndSessions'
  BY <1>1, <1>2 DEF OthersEndSessions, Loaded
<1>5. LogoutsFollow'
  <2> SUFFICES ASSUME NEW d \in Calls, call[d].kind = "logout", call[d].token # NoToken,
                      NEW t, t = call[d].token
               PROVE  /\ call[d].at = "commit" => Going(d, t)' \/ Gone(t)'
                      /\ call[d].status = "204" => Gone(t)'
    BY <1>1 DEF LogoutsFollow, Going, Gone
  <2>1. t \in Tokens
    <3>1. call[d] \in CallRecords
      BY DEF AccountsTypeOK, CallRecords
    <3> QED BY <3>1 DEF CallRecords
  <2>2. CASE sessions'[t] = sessions[t]
    <3>1. (Going(d, t) => Going(d, t)') /\ (Gone(t) => Gone(t)')
      BY <1>1, <2>2 DEF Going, Gone, Latest, IsActive, IsCommitted
    <3> QED BY <3>1 DEF LogoutsFollow
  <2>3. CASE sessions'[t] = Loaded(Ended)
    <3>1. Gone(t)'
      BY <1>1, <2>3 DEF Gone, Latest, Loaded, Ended, IsActive, IsCommitted, SetupIsCommitted
    <3> QED BY <3>1
  <2> QED BY <1>2, <2>1, <2>2, <2>3
<1>6. CallsFollow' /\ TokensFollow' /\ SetupIsCommitted' /\ EmailsAreStored' /\ IndexIsUnique'
  BY <1>1 DEF CallsFollow, TokensFollow, SetupIsCommitted, EmailsAreStored, IndexIsUnique,
     RolledBack
<1> QED BY <1>3, <1>4, <1>5, <1>6

LEMMA NextInv == AccountsIInv /\ [AccountsNext]_accountVars => AccountsIInv'
<1> SUFFICES ASSUME AccountsIInv, [AccountsNext]_accountVars PROVE AccountsIInv'
  OBVIOUS
<1>1. CASE UNCHANGED <<clog, users, sessions, call>> /\ (UNCHANGED now \/ Tick)
  <2>1. now' \in Nat
    BY <1>1, Instants DEF Tick, AccountsIInv, AccountsTypeOK
  <2> QED BY <1>1, <2>1 DEF AccountsIInv, AccountsTypeOK, CallsFollow, TokensFollow,
        SetupIsCommitted, EmailsAreStored, IndexIsUnique, RolledBack, OthersEndSessions,
        LogoutsFollow, Going, Gone, Latest, IsActive, IsCommitted
<1>2. CASE Tick \/ UNCHANGED accountVars
  BY <1>1, <1>2 DEF Tick, accountVars
<1> QED BY <1>2, ServeInv, ArriveInv, ResolveInv DEF AccountsNext

(* The inductive invariant: where each call, account and session has got to.  *)
THEOREM AccountsSafe == AccountsSpec => []AccountsIInv
<1> QED BY InitInv, NextInv, PTL DEF AccountsSpec

(* However registrations interleave, and however an address is typed, it has  *)
(* one account (register, normaliseEmail, the unique index).                  *)
THEOREM AddressesAreUnique == AccountsSpec => []OneAccountPerAddress
<1>1. AccountsIInv => OneAccountPerAddress
  BY NamesApart DEF AccountsIInv, OneAccountPerAddress, IndexIsUnique, EmailsAreStored,
     RolledBack, Live, IsCommitted, Rows
<1> QED BY <1>1, AccountsSafe, PTL

(* Once a logout is answered, its token signs nobody in (destroySession).     *)
THEOREM LogoutRevokes == AccountsSpec => []LogoutIsImmediate
<1>1. AccountsIInv => LogoutIsImmediate
  <2> SUFFICES ASSUME AccountsIInv, NEW c \in Calls, call[c].status = "204"
               PROVE  UserOf(call[c].token) = Nobody
    BY DEF LogoutIsImmediate
  <2>1. call[c].kind = "logout"
    BY DEF AccountsIInv, CallsFollow
  <2>2. call[c].token # NoToken => Gone(call[c].token)
    BY <2>1 DEF AccountsIInv, LogoutsFollow
  <2> QED BY <2>2 DEF UserOf, Alive, Session, Ended, Gone
<1> QED BY <1>1, AccountsSafe, PTL

-----------------------------------------------------------------------------
Over(t) == ~ Alive(Latest(sessions[t]))

LEMMA OverStays ==
  ASSUME AccountsIInv, [AccountsNext]_accountVars,
         NEW t \in Tokens, call[t].at = "replied", Over(t)
  PROVE  Over(t)'
<1> USE DEF AccountsIInv
<1>0. sessions[t] \in Cell(Logins) /\ Latest(sessions[t]) \in Logins /\ now \in Nat
  BY CellTypes DEF AccountsTypeOK
<1>1. CASE UNCHANGED <<clog, sessions>> /\ (UNCHANGED now \/ Tick)
  BY <1>0, <1>1 DEF Over, Alive, Latest, IsCommitted, Tick, Logins
<1>2. ASSUME NEW token \in Tokens \cup {NoToken}, Resolve(token) PROVE Over(t)'
  <2>1. UNCHANGED <<clog, now>> /\ Sweep(token)
    BY <1>2 DEF Resolve
  <2>2. sessions'[t] = sessions[t] \/ sessions'[t] = Loaded(Ended)
    BY <2>1, SweepType
  <2> QED BY <2>1, <2>2 DEF Over, Alive, Latest, IsCommitted, Loaded, Ended
<1>3. ASSUME NEW c \in Calls, Serve(c) PROVE Over(t)'
  <2>1. /\ UNCHANGED now /\ \A x \in Xids \ {c} : clog'[x] = clog[x]
        /\ c # t /\ clog[c] \in {"new", "active"} /\ c \in Xids
        /\ call[c].at = "delete" => clog[c] = "active"
    <3>1. call[c].at \notin {"new", "replied"} /\ \A x \in Xids \ {c} : clog'[x] = clog[x]
          /\ UNCHANGED now
      BY <1>3, ServeMoves
    <3>2. call[c].at \in Before \cup Within
      BY <3>1 DEF AccountsTypeOK, Places, Before, Within
    <3> QED BY <3>1, <3>2 DEF CallsFollow, Xids, Before, Within
  <2>2. CASE sessions'[t] = sessions[t] /\ sessions[t].by # c
    <3>1. Latest(sessions[t])' = Latest(sessions[t])
      BY <1>0, <2>1, <2>2 DEF Latest, IsCommitted, Cell
    <3> QED BY <2>1, <3>1 DEF Over, Alive
  <2>3. CASE sessions'[t] = sessions[t] /\ sessions[t].by = c
    <3>1. sessions[t].now.user = Nobody /\ Latest(sessions[t]) = sessions[t].was
      BY <2>1, <2>3 DEF OthersEndSessions, Latest, IsCommitted
    <3>2. Latest(sessions[t])' \in {sessions[t].was, sessions[t].now}
      BY <2>3 DEF Latest
    <3> QED BY <2>1, <3>1, <3>2 DEF Over, Alive
  <2>4. CASE sessions'[t] = Loaded(Ended)
    BY <2>4 DEF Over, Alive, Latest, Loaded, Ended
  <2>5. CASE /\ sessions'[t] = Written(c, sessions[t], Ended) /\ UNCHANGED clog
             /\ call[c].at = "delete"
    <3>1. sessions'[t].by = c /\ sessions'[t].was = Latest(sessions[t])
      BY <1>0, <2>1, <2>5 DEF Written, Locked, Cell, Latest, IsCommitted
    <3>2. Latest(sessions[t])' = Latest(sessions[t])
      BY <2>1, <2>5, <3>1 DEF Latest, IsCommitted
    <3> QED BY <2>1, <3>2 DEF Over, Alive
  <2> QED BY <1>3, <2>1, <2>2, <2>3, <2>4, <2>5, ServeSessions
<1>4. ASSUME NEW c \in Calls, Ask(c) PROVE Over(t)'
  BY <1>1, <1>4 DEF Ask, Arrive
<1> QED BY <1>1, <1>2, <1>3, <1>4 DEF AccountsNext, accountVars, Tick

(* A session that has ended, by logout or by the clock, is not alive again    *)
(* (resolveSession: absolute rather than sliding).                            *)
THEOREM EndedForGood == AccountsSpec => EndedStaysEnded
<1>1. \A t \in Tokens : UserOf(t) = Nobody <=> Over(t)
  BY NamesApart DEF UserOf, Session, Over, Alive
<1>2. AccountsIInv /\ [AccountsNext]_accountVars =>
        \A c \in Calls : call[c].at = "replied" /\ UserOf(c) = Nobody => UserOf(c)' = Nobody
  <2> SUFFICES ASSUME AccountsIInv, [AccountsNext]_accountVars, NEW c \in Calls,
                      call[c].at = "replied", UserOf(c) = Nobody
               PROVE  UserOf(c)' = Nobody
    OBVIOUS
  <2>1. Over(c)'
    BY <1>1, OverStays
  <2> QED BY <2>1, NamesApart DEF UserOf, Session, Over
<1> QED BY <1>2, AccountsSafe, PTL DEF AccountsSpec, EndedStaysEnded
-----------------------------------------------------------------------------
\* The account a call goes by: its own, or one it found committed.
Permanent(r) == r \in Members \/ (r \in Calls /\ IsCommitted(r))
GoesBy(c) ==
  LET r == call[c].who IN
  r # Nobody => users[r] = Stored[call[c].email] /\ (r = c \/ Permanent(r))
AddressTaken(c) == \E r \in Rows : Permanent(r) /\ users[r] = Stored[call[c].email]

\* What a call carries by each of its places, and what it is answered.
AnswerFits(c) ==
  /\ call[c].at # "replied" => call[c].status = "none"
  /\ call[c].at \in Before \cup {"insert", "taken", "delete"} => call[c].who = Nobody
  /\ call[c].at \in Before \cup (Within \ {"commit"}) => call[c].cookie = NoToken
  /\ call[c].kind = "register" => call[c].who \in {c, Nobody}
  /\ call[c].kind = "logout" => call[c].who = Nobody
  /\ call[c].at = "login" => call[c].kind = "login"
  /\ call[c].at = "session" => call[c].who # Nobody
  /\ call[c].at = "commit" =>
       /\ call[c].cookie = IF call[c].who = Nobody THEN NoToken ELSE c
       /\ call[c].kind = "register" => call[c].who = c
  /\ GoesBy(c)
  /\ call[c].at = "taken" => AddressTaken(c)
  /\ call[c].status = "409" =>
       call[c].kind = "register" /\ AddressTaken(c) /\ call[c].cookie = NoToken
  /\ call[c].status = "401" => call[c].cookie = NoToken
  /\ call[c].status \in {"200", "201"} =>
       /\ call[c].kind = IF call[c].status = "200" THEN "login" ELSE "register"
       /\ call[c].who # Nobody /\ call[c].cookie = c /\ IsCommitted(c)

\* A session is of the account its call goes by, or ended.
SessionFits(t) ==
  {sessions[t].was.user, sessions[t].now.user} \subseteq {call[t].who, Nobody}
AnswersIInv == \A c \in Calls : AnswerFits(c) /\ SessionFits(c)

LEMMA AnswersInit == AccountsInit => AnswersIInv
<1> SUFFICES ASSUME AccountsInit PROVE AnswersIInv
  OBVIOUS
<1>1. sessions = [c \in Tokens |-> Loaded(Ended)] /\ call = [c \in Calls |-> NoCall]
  BY DEF AccountsInit
<1>2. ASSUME NEW c \in Calls PROVE AnswerFits(c) /\ SessionFits(c)
  <2>1. call[c] = NoCall /\ sessions[c] = Loaded(Ended)
    BY <1>1
  <2> QED BY <2>1 DEF AnswerFits, GoesBy, SessionFits, NoCall, Loaded, Ended, Before, Within
<1> QED BY <1>2, Zenon DEF AnswersIInv

\* An account that is committed keeps its address, and stays.
LEMMA PermanentStays ==
  ASSUME AccountsIInv, NEW c \in Calls, Serve(c)
  PROVE  /\ \A r \in Rows \ {c} : users'[r] = users[r]
         /\ \A r \in Rows : Permanent(r) => users'[r] = users[r] /\ Permanent(r)'
<1> USE DEF AccountsIInv
<1>1. /\ users \in [Rows -> Addresses \cup {NoRow}]
      /\ \A x \in Calls \ {c} : clog'[x] = clog[x]
      /\ clog[c] # "committed"
  <2>1. call[c].at \notin {"new", "replied"} /\ \A x \in Xids \ {c} : clog'[x] = clog[x]
    BY ServeMoves
  <2>2. call[c].at \in Before \cup Within
    BY <2>1 DEF AccountsTypeOK, Places, Before, Within
  <2> QED BY <2>1, <2>2 DEF AccountsTypeOK, CallsFollow, Xids, Before, Within
<1>2. Insert(c) \/ UNCHANGED users
  BY DEF Serve, PreHandler, LookUp, EmailTaken, InsertRefused, Authenticate, CreateSession,
     LogoutBare, BeginLogout, DestroySession, CommitCall, ThrowEarly, Throw, LostCommit, Begins
<1>3. \A r \in Rows \ {c} : users'[r] = users[r]
  BY <1>1, <1>2 DEF Insert
<1>4. ~ Permanent(c)
  BY <1>1, NamesApart DEF Permanent, IsCommitted
<1> QED BY <1>1, <1>3, <1>4 DEF Permanent, IsCommitted

\* A step of one call leaves what another was answered true.
LEMMA OthersFit ==
  ASSUME AccountsIInv, NEW c \in Calls, Serve(c), NEW d \in Calls \ {c}, AnswerFits(d)
  PROVE  AnswerFits(d)'
<1>1. call'[d] = call[d] /\ clog'[d] = clog[d] /\ call[d] \in CallRecords
  <2>1. Moves(c, Places) /\ \A x \in Xids \ {c} : clog'[x] = clog[x]
    BY ServeMoves, MovesWider DEF Places
  <2> QED BY <2>1 DEF Moves, Xids, AccountsIInv, AccountsTypeOK, CallRecords
<1>2. GoesBy(d)'
  BY <1>1, PermanentStays DEF AnswerFits, GoesBy, CallRecords, Rows
<1>3. AddressTaken(d) => AddressTaken(d)'
  BY <1>1, PermanentStays DEF AddressTaken
<1> QED BY <1>1, <1>2, <1>3 DEF AnswerFits, IsCommitted
\* What the lookup of an address finds is there to stay, or the caller's own.
LEMMA HolderPermanent ==
  ASSUME AccountsIInv, NEW c \in Calls, NEW r \in Holder(c, Stored[call[c].email])
  PROVE  r \in Rows /\ users[r] = Stored[call[c].email] /\ (r = c \/ Permanent(r))
BY DEF Holder, Exists, SeenBy, Permanent, Rows

LEMMA ServeAnswer ==
  ASSUME AccountsIInv, NEW c \in Calls, Serve(c), AnswerFits(c)
  PROVE  AnswerFits(c)'
<1> USE DEF AccountsIInv
<1>1. /\ call \in [Calls -> CallRecords] /\ c \in Rows
      /\ call'[c].kind = call[c].kind /\ call'[c].email = call[c].email
      /\ \A r \in Rows : Permanent(r) => users'[r] = users[r] /\ Permanent(r)'
      /\ \A r \in Rows \ {c} : users'[r] = users[r]
      /\ call[c].at \notin {"new", "replied"} /\ call[c].status = "none"
      /\ users \in [Rows -> Addresses \cup {NoRow}]
  <2>1. Moves(c, Places) /\ call[c].at \notin {"new", "replied"}
    BY ServeMoves, MovesWider DEF Places
  <2> QED BY <2>1, PermanentStays DEF Moves, AccountsTypeOK, CallRecords, Rows, AnswerFits
<1>0. call'[c].who = call[c].who /\ UNCHANGED users => GoesBy(c)'
  BY <1>1 DEF AnswerFits, GoesBy, CallRecords
<1>2. CASE PreHandler(c)
  <2>1. /\ call'[c] = [call[c] EXCEPT !.at = call[c].kind] /\ UNCHANGED <<clog, users>>
        /\ call[c].at = "resolve" /\ call[c].kind # "none"
    BY <1>1, <1>2 DEF PreHandler, Goto, CallsFollow
  <2>2. call[c].kind \in {"register", "login", "logout"}
    BY <1>1, <2>1 DEF CallRecords
  <2> QED BY <1>1, <2>1, <2>2 DEF AnswerFits, GoesBy, Before, Within, CallRecords
<1>3. CASE LookUp(c)
  <2>1. /\ call'[c].at = IF Holder(c, Stored[call[c].email]) = {} THEN "insert" ELSE "taken"
        /\ call'[c].who = call[c].who /\ call'[c].cookie = call[c].cookie
        /\ call'[c].status = call[c].status /\ UNCHANGED users /\ call[c].at = "register"
        /\ call[c].kind = "register"
    BY <1>1, <1>3 DEF LookUp, Goto, Begins, CallsFollow, CallRecords
  <2>2. call'[c].at = "taken" => AddressTaken(c)'
    <3> SUFFICES ASSUME NEW r \in Holder(c, Stored[call[c].email]) PROVE AddressTaken(c)'
      BY <2>1
    <3>1. r \in Rows /\ users[r] = Stored[call[c].email] /\ (r = c \/ Permanent(r))
      BY HolderPermanent
    <3>2. r # c
      <4>1. clog[c] = "new"
        BY <2>1 DEF CallsFollow, Before
      <4>2. call[c].email \in Addresses
        BY <2>1 DEF CallsFollow
      <4> QED BY <3>1, <4>1, <4>2, Normalising, NamesApart DEF EmailsAreStored
    <3> QED BY <1>1, <2>1, <3>1, <3>2 DEF AddressTaken
  <2> QED BY <1>1, <2>1, <2>2 DEF AnswerFits, GoesBy, Before, Within
<1>4. CASE Insert(c)
  <2>1. /\ call'[c].at = "session" /\ call'[c].who = c /\ call'[c].cookie = call[c].cookie
        /\ call'[c].status = call[c].status /\ users'[c] = Stored[call[c].email]
        /\ call[c].at = "insert" /\ call[c].kind = "register"
    BY <1>1, <1>4 DEF Insert, CallsFollow, CallRecords
  <2> QED BY <1>1, <2>1, NamesApart DEF AnswerFits, GoesBy, Before, Within
<1>5. CASE Authenticate(c)
  <2>1. /\ UNCHANGED users /\ call[c].at = "login" /\ call[c].who = Nobody
        /\ call[c].cookie = NoToken /\ call[c].kind = "login"
    BY <1>1, <1>5 DEF Authenticate, Begins, AnswerFits, Before
  <2>2. CASE Goto(c, "commit")
    <3>1. call'[c] = [call[c] EXCEPT !.at = "commit"]
      BY <1>1, <2>2 DEF Goto
    <3> QED BY <1>1, <2>1, <3>1 DEF AnswerFits, GoesBy, Before, Within, CallRecords
  <2>3. CASE \E r \in Holder(c, Stored[call[c].email]) :
               call' = [call EXCEPT ![c].at = "session", ![c].who = r]
    <3>1. PICK r \in Holder(c, Stored[call[c].email]) :
            call' = [call EXCEPT ![c].at = "session", ![c].who = r]
      BY <2>3
    <3>2. r \in Rows /\ users[r] = Stored[call[c].email] /\ (r = c \/ Permanent(r))
      BY HolderPermanent
    <3>3. call'[c] = [call[c] EXCEPT !.at = "session", !.who = r]
      BY <1>1, <3>1
    <3> QED BY <1>1, <2>1, <3>2, <3>3, NamesApart
            DEF AnswerFits, GoesBy, Before, Within, CallRecords
  <2> QED BY <1>5, <2>2, <2>3 DEF Authenticate
<1>6. CASE CreateSession(c)
  <2>1. /\ call'[c] = [call[c] EXCEPT !.at = "commit", !.cookie = c] /\ UNCHANGED <<clog, users>>
        /\ call[c].at = "session"
    BY <1>1, <1>6 DEF CreateSession
  <2> QED BY <1>1, <2>1 DEF AnswerFits, GoesBy, Before, Within, CallRecords
<1>7. CASE BeginLogout(c) \/ DestroySession(c)
  <2>1. PICK at \in {"delete", "commit"} :
          /\ call'[c] = [call[c] EXCEPT !.at = at] /\ UNCHANGED users
          /\ at = "delete" => call[c].at = "logout"
          /\ at = "commit" => call[c].at = "delete"
    BY <1>1, <1>7 DEF BeginLogout, Begins, DestroySession, Goto
  <2>2. call[c].who = Nobody /\ call[c].cookie = NoToken /\ call[c].kind = "logout"
    BY <2>1 DEF AnswerFits, Before, Within, CallsFollow
  <2> QED BY <1>1, <2>1, <2>2 DEF AnswerFits, GoesBy, CallRecords
<1>8. CASE CommitCall(c)
  <2>1. /\ call'[c] = [call[c] EXCEPT !.at = "replied", !.status = Outcome(c)]
        /\ UNCHANGED users /\ call[c].at = "commit"
    BY <1>1, <1>8 DEF CommitCall, Reply
  <2>2. \/ call[c].kind = "register" /\ Outcome(c) = "201"
        \/ call[c].kind = "logout" /\ Outcome(c) = "204"
        \/ call[c].kind = "login" /\ call[c].who = Nobody /\ Outcome(c) = "401"
        \/ call[c].kind = "login" /\ call[c].who # Nobody /\ Outcome(c) = "200"
    <3>1. call[c].kind \in {"register", "login", "logout"}
      BY <1>1, <2>1 DEF CallsFollow, CallRecords
    <3> QED BY <3>1 DEF Outcome
  <2>3. GoesBy(c)'
    BY <1>0, <1>1, <2>1 DEF CallRecords
  <2>4. IsCommitted(c)'
    BY <1>8 DEF CommitCall, Commit, IsCommitted, AccountsTypeOK, Xids
  <2> QED BY <1>1, <2>1, <2>2, <2>3, <2>4, NamesApart DEF AnswerFits, CallRecords, Before, Within
<1>9. CASE \/ LogoutBare(c) \/ EmailTaken(c) \/ InsertRefused(c) \/ ThrowEarly(c) \/ Throw(c)
           \/ LostCommit(c)
  <2>1. PICK status \in {"204", "409", "500"} :
          /\ call'[c] = [call[c] EXCEPT !.at = "replied", !.status = status]
          /\ UNCHANGED users
          /\ status = "409" => call[c].at = "taken"
    BY <1>1, <1>9 DEF LogoutBare, EmailTaken, InsertRefused, ThrowEarly, Throw, LostCommit, Reply
  <2>2. AddressTaken(c) => AddressTaken(c)'
    BY <1>1 DEF AddressTaken
  <2>3. GoesBy(c)'
    BY <1>0, <1>1, <2>1 DEF CallRecords
  <2> QED BY <1>1, <2>1, <2>2, <2>3 DEF AnswerFits, Before, Within, CallRecords, CallsFollow
<1> QED BY <1>2, <1>3, <1>4, <1>5, <1>6, <1>7, <1>8, <1>9 DEF Serve

\* A session is written by the call that issued its token, in the account's name.
LEMMA ServeSession ==
  ASSUME AccountsIInv, AnswersIInv, NEW c \in Calls, Serve(c), NEW t \in Tokens
  PROVE  SessionFits(t)'
<1> USE DEF AccountsIInv, AnswersIInv
<1>1. /\ sessions[t] \in Cell(Logins) /\ Latest(sessions[t]) \in {sessions[t].was, sessions[t].now}
      /\ call \in [Calls -> CallRecords] /\ SessionFits(t) /\ AnswerFits(t)
      /\ \A d \in Calls \ {c} : call'[d] = call[d]
  <2>1. Moves(c, Places)
    BY ServeMoves, MovesWider DEF Places
  <2> QED BY <2>1, CellTypes DEF Latest, AccountsTypeOK, CallRecords, Moves
<1>2. call'[t].who = call[t].who \/ (t = c /\ call[t].who = Nobody)
  <2>1. CASE t # c
    BY <1>1, <2>1
  <2>2. CASE t = c /\ call[c].at \in {"insert", "login"}
    BY <1>1, <2>2 DEF AnswerFits, Before
  <2>3. CASE t = c /\ call[c].at \notin {"insert", "login"}
    <3>1. CASE CreateSession(c)
      BY <1>1, <3>1 DEF CreateSession
    <3>2. CASE \E at : Goto(c, at)
      BY <1>1, <3>2 DEF Goto
    <3>3. CASE \E status : Reply(c, status)
      BY <1>1, <3>3 DEF Reply
    <3> QED BY <2>3, <3>1, <3>2, <3>3 DEF Serve, PreHandler, LookUp, EmailTaken, Insert,
            InsertRefused, Authenticate, CreateSession, LogoutBare, BeginLogout, DestroySession,
            CommitCall, ThrowEarly, Throw, LostCommit, Begins
  <2> QED BY <2>1, <2>2, <2>3
<1>3. CASE sessions'[t] = sessions[t]
  BY <1>1, <1>2, <1>3 DEF SessionFits
<1>4. CASE sessions'[t] = Loaded(Ended)
  BY <1>4 DEF SessionFits, Loaded, Ended
<1>5. CASE sessions'[t] = Written(c, sessions[t], Ended)
  BY <1>1, <1>2, <1>5 DEF SessionFits, Written, Locked, Ended, Cell, Logins
<1>6. CASE t = c /\ call[c].at = "session"
  <2>1. CreateSession(c) \/ sessions'[t] = sessions[t]
    BY <1>6 DEF Serve, PreHandler, LookUp, EmailTaken, Insert, InsertRefused, Authenticate,
       LogoutBare, BeginLogout, DestroySession, CommitCall, ThrowEarly, Throw, LostCommit, Begins
  <2>2. CASE CreateSession(c)
    <3>1. sessions'[t] = Written(c, sessions[t], [user |-> call[c].who, expires |-> now + Lifetime])
          /\ call'[t].who = call[t].who
      BY <1>1, <1>6, <2>2 DEF CreateSession, AccountsTypeOK
    <3> QED BY <1>1, <1>6, <3>1 DEF SessionFits, Written, Locked, Cell, Logins
  <2> QED BY <1>3, <2>1, <2>2
<1> QED BY <1>3, <1>4, <1>5, <1>6, ServeSessions

LEMMA AnswersNext ==
  ASSUME AccountsIInv, AnswersIInv, [AccountsNext]_accountVars
  PROVE  AnswersIInv'
<1> USE DEF AccountsIInv
<1>1. ASSUME NEW c \in Calls, Serve(c) PROVE AnswersIInv'
  <2>1. \A d \in Calls : AnswerFits(d)'
    BY <1>1, ServeAnswer, OthersFit DEF AnswersIInv
  <2>2. \A d \in Calls : SessionFits(d)'
    BY <1>1, ServeSession
  <2> QED BY <2>1, <2>2 DEF AnswersIInv
<1>2. ASSUME NEW c \in Calls, Ask(c) PROVE AnswersIInv'
  <2>1. PICK kind \in {"register", "login", "logout"}, token \in Tokens \cup {NoToken},
             e \in Addresses \cup {NoRow}, right \in BOOLEAN : Arrive(c, kind, token, e, right)
    BY <1>2 DEF Ask
  <2>2. /\ UNCHANGED <<clog, users, sessions>> /\ call[c].at = "new"
        /\ \A d \in Calls \ {c} : call'[d] = call[d]
        /\ call'[c] = [NoCall EXCEPT !.at = "resolve", !.kind = kind,
                         !.token = token, !.email = e, !.right = right]
    BY <2>1 DEF Arrive, AccountsTypeOK
  <2>3. SessionFits(c)'
    BY <2>2 DEF AnswersIInv, AnswerFits, SessionFits, Before
  <2>4. AnswerFits(c)'
    BY <2>2 DEF AnswerFits, GoesBy, NoCall, Before, Within
  <2>5. \A d \in Calls \ {c} : AnswerFits(d)' /\ SessionFits(d)'
    BY <2>2 DEF AnswersIInv, AnswerFits, SessionFits, GoesBy, AddressTaken, Permanent, IsCommitted
  <2> QED BY <2>3, <2>4, <2>5 DEF AnswersIInv
<1>3. ASSUME NEW token \in Tokens \cup {NoToken}, Resolve(token) PROVE AnswersIInv'
  <2>1. UNCHANGED <<clog, users, call>> /\ Sweep(token)
    BY <1>3 DEF Resolve
  <2>2. \A t \in Tokens : sessions'[t] = sessions[t] \/ sessions'[t] = Loaded(Ended)
    BY <2>1, SweepType
  <2>3. \A t \in Tokens : SessionFits(t)'
    BY <2>1, <2>2 DEF AnswersIInv, SessionFits, Loaded, Ended
  <2> QED BY <2>1, <2>3
          DEF AnswersIInv, AnswerFits, GoesBy, AddressTaken, Permanent, IsCommitted
<1>4. CASE Tick \/ UNCHANGED accountVars
  <2>1. UNCHANGED <<clog, users, sessions, call>>
    BY <1>4 DEF Tick, accountVars
  <2> QED BY <2>1 DEF AnswersIInv, AnswerFits, SessionFits, GoesBy, AddressTaken, Permanent,
                       IsCommitted
<1> QED BY <1>1, <1>2, <1>3, <1>4 DEF AccountsNext

(* What the routes answer is so in the database, then and ever after: an      *)
(* account answered for is committed under its address, and the session of    *)
(* the cookie is that account's or has ended (auth.routes.ts).                *)
THEOREM AccountAnswersHold == AccountsSpec => []AccountAnswersAreTrue
<1>1. AccountsIInv /\ AnswersIInv => AccountAnswersAreTrue
  <2> SUFFICES ASSUME AccountsIInv, AnswersIInv, NEW c \in Calls
               PROVE  /\ call[c].status = "201" => Live(c) /\ call[c].who = c
                      /\ call[c].status \in {"200", "201"} =>
                           /\ call[c].cookie = c /\ IsCommitted(c) /\ Live(call[c].who)
                           /\ Stored[users[call[c].who]] = Stored[call[c].email]
                           /\ UserOf(c) \in {call[c].who, Nobody}
                      /\ call[c].status = "409" =>
                           \E r \in Rows : Live(r) /\ users[r] = Stored[call[c].email]
                      /\ call[c].status \in {"401", "409"} => call[c].cookie = NoToken
    BY Zenon DEF AccountAnswersAreTrue
  <2>1. AnswerFits(c) /\ SessionFits(c) /\ call[c] \in CallRecords
    BY DEF AnswersIInv, AccountsIInv, AccountsTypeOK, CallRecords
  <2>2. call[c].email \in Addresses =>
          Stored[call[c].email] \in Addresses
          /\ Stored[Stored[call[c].email]] = Stored[call[c].email]
    BY Normalising
  <2>3. \A r \in Rows : Permanent(r) /\ users[r] # NoRow => Live(r)
    BY DEF Permanent, Live
  <2>4. CASE call[c].status = "409"
    <3>1. call[c].email \in Addresses
      BY <2>1, <2>4 DEF AccountsIInv, CallsFollow, AnswerFits
    <3> QED BY <2>1, <2>2, <2>3, <2>4, <3>1, NamesApart DEF AnswerFits, AddressTaken
  <2>5. CASE call[c].status \in {"200", "201"}
    <3>1. /\ call[c].email \in Addresses /\ call[c].who \in Rows
          /\ call[c].cookie = c /\ IsCommitted(c)
          /\ call[c].who = c \/ Permanent(call[c].who)
          /\ users[call[c].who] = Stored[call[c].email]
      BY <2>1, <2>5 DEF AccountsIInv, CallsFollow, AnswerFits, GoesBy, CallRecords
    <3>2. Live(call[c].who)
      BY <2>2, <3>1, NamesApart DEF Live, Permanent
    <3>3. UserOf(c) \in {call[c].who, Nobody}
      BY <2>1, NamesApart DEF SessionFits, UserOf, Alive, Session, Latest
    <3>4. call[c].status = "201" => call[c].who = c
      BY <2>1, <3>1, NamesApart DEF AnswerFits
    <3> QED BY <2>2, <2>5, <3>1, <3>2, <3>3, <3>4
  <2> QED BY <2>1, <2>4, <2>5 DEF AnswerFits
<1> QED BY <1>1, AnswersInit, AnswersNext, InitInv, NextInv, PTL DEF AccountsSpec

-----------------------------------------------------------------------------
(* The web shell.                                                            *)


CookiesAreOwn == \A c \in Calls : call[c].cookie \in {NoToken, c}

\* A token comes to a page once, with the answer of the call that issued it.
AnsweredOnce ==
  \A p \in Pages :
    /\ \A c \in awaited[p] : call[c].at # "new"
    /\ \A t \in {jar[p]} \cup farewell[p] : t # NoToken => t \notin awaited[p] /\ call[t].at # "new"
    /\ \A c \in awaited[p] : call[c].token # NoToken => call[c].token \notin awaited[p]

\* What a page can still show, and what it will send.
Held(p) == {jar[p], cache[p].session.token, cache[p].me.token,
            fetch[p].session.token, fetch[p].me.token}
LeftBehind == \A p \in Pages : farewell[p] \cap Held(p) \subseteq {NoToken}

ShellIInv ==
  /\ AccountsIInv
  /\ ShellTypeOK
  /\ CookiesAreOwn
  /\ AnsweredOnce
  /\ LeftBehind

Caches == [status : {"pending", "error", "success"}, session : Known, me : Known,
           stale : BOOLEAN, live : BOOLEAN, form : Tokens \cup {NoToken}]
Queries == [session : Fetches, me : Fetches, redeem : Fetches]

USE DEF Calls, Tokens
-----------------------------------------------------------------------------
LEMMA ShellInitInv == ShellInit => ShellIInv
<1> SUFFICES ASSUME ShellInit PROVE ShellIInv
  OBVIOUS
<1>1. AccountsIInv
  BY InitInv DEF ShellInit
<1>2. ShellTypeOK
  <2>1. EmptyCache \in Caches /\ FirstFetch(NoToken) \in Queries
    BY DEF EmptyCache, None, Caches, Known, FirstFetch, Sent, Idle, Queries, Fetches
  <2> QED BY <1>1, <2>1 DEF ShellInit, ShellTypeOK, AccountsIInv, Caches, Queries
<1>3. CookiesAreOwn
  BY DEF ShellInit, AccountsInit, NoCall, CookiesAreOwn
<1>4. AnsweredOnce /\ LeftBehind
  BY DEF ShellInit, AnsweredOnce, LeftBehind
<1> QED BY <1>1, <1>2, <1>3, <1>4 DEF ShellIInv

\* Every step of the shell is a step of the server, or leaves the server alone.
LEMMA ShellStep ==
  ASSUME ShellTypeOK, [ShellNext]_allVars
  PROVE  [AccountsNext]_accountVars
<1>1. CASE UNCHANGED allVars
  BY <1>1 DEF allVars, accountVars
<1>2. CASE Server
  BY <1>2 DEF Server, AccountsNext
<1>3. ASSUME NEW p \in Pages, Web(p) PROVE [AccountsNext]_accountVars
  <2>1. CASE \E slot \in {"session", "me"} : Answered(p, slot)
    <3>1. PICK slot \in {"session", "me"} : Answered(p, slot)
      BY <2>1
    <3>2. fetch[p].session.token \in Tokens \cup {NoToken}
          /\ fetch[p].me.token \in Tokens \cup {NoToken}
      BY DEF ShellTypeOK, Fetches
    <3>3. \E token \in Tokens \cup {NoToken} : Resolve(token)
      BY <3>1, <3>2 DEF Answered
    <3> QED BY <3>3 DEF AccountsNext
  <2>2. CASE RedeemServed(p)
    <3>1. fetch[p].redeem.token \in Tokens \cup {NoToken}
      BY DEF ShellTypeOK, Fetches
    <3>2. \E token \in Tokens \cup {NoToken} : Resolve(token)
      BY <2>2, <3>1 DEF RedeemServed
    <3> QED BY <3>2 DEF AccountsNext
  <2>3. ASSUME NEW c \in Calls, Submit(c, p) \/ SignOut(c, p) PROVE Ask(c)
    <3>1. jar[p] \in Tokens \cup {NoToken}
      BY DEF ShellTypeOK, Issued
    <3> QED BY <2>3, <3>1 DEF Submit, SignOut, Ask
  <2>4. CASE UNCHANGED accountVars
    BY <2>4
  <2>5. \/ \E slot \in {"session", "me"} : Answered(p, slot)
        \/ \E c \in Calls : Submit(c, p) \/ SignOut(c, p)
        \/ RedeemServed(p) \/ UNCHANGED accountVars
    BY <1>3 DEF Web, RefetchSession, RefetchMe, SessionArrives, SessionFails, MeArrives, MeFails,
       FormAnswered, FormLost, SignOutSettled, SignOutLost, Redeem, RedeemSettled, RedeemRefused,
       Redraw
  <2> QED BY <2>1, <2>2, <2>3, <2>4, <2>5 DEF AccountsNext
<1> QED BY <1>1, <1>2, <1>3 DEF ShellNext

LEMMA CallsKeep ==
  ASSUME AccountsIInv, CookiesAreOwn, [AccountsNext]_accountVars
  PROVE  /\ CookiesAreOwn'
         /\ \A c \in Calls : call[c].at # "new" =>
              call'[c].at # "new" /\ call'[c].token = call[c].token /\ call'[c].kind = call[c].kind
         /\ \A c \in Calls : call[c].at = "replied" => call'[c] = call[c]
         /\ Issued \subseteq Issued'
<1>0. call \in [Calls -> CallRecords]
  BY DEF AccountsIInv, AccountsTypeOK, CallRecords
<1>1. CASE UNCHANGED call
  BY <1>1 DEF CookiesAreOwn, Issued
<1>2. ASSUME NEW c \in Calls, Ask(c)
      PROVE  /\ call[c].at = "new" /\ \A d \in Calls \ {c} : call'[d] = call[d]
             /\ call'[c].cookie = NoToken
  BY <1>0, <1>2 DEF Ask, Arrive, NoCall
<1>3. ASSUME NEW c \in Calls, Serve(c)
      PROVE  /\ call[c].at \notin {"new", "replied"} /\ Moves(c, Places)
             /\ call'[c].cookie \in {call[c].cookie, c}
  <2>1. call[c].at \notin {"new", "replied"} /\ Moves(c, Places)
    BY <1>3, ServeMoves, MovesWider DEF Places
  <2>2. CASE CreateSession(c)
    BY <1>0, <2>1, <2>2 DEF CreateSession, CallRecords
  <2>3. CASE Insert(c)
    BY <1>0, <2>1, <2>3 DEF Insert, CallRecords
  <2>4. CASE Authenticate(c)
    <3>1. CASE Goto(c, "commit")
      BY <1>0, <2>1, <3>1 DEF Goto, CallRecords
    <3>2. CASE \E r \in Holder(c, Stored[call[c].email]) :
                 call' = [call EXCEPT ![c].at = "session", ![c].who = r]
      BY <1>0, <2>1, <3>2 DEF CallRecords
    <3> QED BY <2>4, <3>1, <3>2 DEF Authenticate
  <2>5. CASE \/ PreHandler(c) \/ LookUp(c) \/ BeginLogout(c) \/ DestroySession(c)
    <3>1. \E at : Goto(c, at)
      BY <2>5 DEF PreHandler, LookUp, BeginLogout, DestroySession
    <3> QED BY <1>0, <2>1, <3>1 DEF Goto, CallRecords
  <2>6. CASE \/ EmailTaken(c) \/ InsertRefused(c) \/ LogoutBare(c) \/ CommitCall(c)
             \/ ThrowEarly(c) \/ Throw(c) \/ LostCommit(c)
    <3>1. \E status : Reply(c, status)
      BY <2>6 DEF EmailTaken, InsertRefused, LogoutBare, CommitCall, ThrowEarly, Throw, LostCommit
    <3> QED BY <1>0, <2>1, <3>1 DEF Reply, CallRecords
  <2> QED BY <1>3, <2>1, <2>2, <2>3, <2>4, <2>5, <2>6 DEF Serve
<1>4. ASSUME NEW c \in Calls, Ask(c)
      PROVE  /\ CookiesAreOwn'
             /\ \A d \in Calls : call[d].at # "new" => call'[d] = call[d]
             /\ Issued \subseteq Issued'
  BY <1>2, <1>4 DEF CookiesAreOwn, Issued
<1>5. ASSUME NEW c \in Calls, Serve(c)
      PROVE  /\ CookiesAreOwn'
             /\ \A d \in Calls \ {c} : call'[d] = call[d]
             /\ call'[c].at # "new" /\ call'[c].token = call[c].token
             /\ call'[c].kind = call[c].kind /\ call[c].at # "replied"
             /\ Issued \subseteq Issued'
  <2>1. /\ \A d \in Calls \ {c} : call'[d] = call[d]
        /\ call'[c].token = call[c].token /\ call'[c].kind = call[c].kind
        /\ call'[c].cookie \in {call[c].cookie, c} /\ call[c].at # "replied"
    BY <1>3, <1>5 DEF Moves
  <2>2. call'[c].at # "new"
    BY <1>5, ServeMoves DEF Moves, AccountsIInv, CallsFollow
  <2> QED BY <2>1, <2>2 DEF CookiesAreOwn, Issued
<1>6. UNCHANGED call \/ (\E c \in Calls : Ask(c)) \/ (\E c \in Calls : Serve(c))
  BY DEF AccountsNext, accountVars, Resolve, Tick
<1> QED BY <1>1, <1>4, <1>5, <1>6

\* What a page holds stays well formed while the server moves on.
LEMMA ShellServer ==
  ASSUME ShellIInv, [AccountsNext]_accountVars, UNCHANGED shellVars
  PROVE  ShellIInv'
<1>1. AccountsIInv'
  BY NextInv DEF ShellIInv
<1>2. CookiesAreOwn' /\ Issued \subseteq Issued'
      /\ \A c \in Calls : call[c].at # "new" =>
           call'[c].at # "new" /\ call'[c].token = call[c].token
  BY CallsKeep DEF ShellIInv
<1>3. ShellTypeOK'
  BY <1>1, <1>2 DEF ShellIInv, ShellTypeOK, AccountsIInv, shellVars
<1>4. AnsweredOnce'
  <2>1. \A p \in Pages : /\ awaited[p] \subseteq Calls
                         /\ {jar[p]} \cup farewell[p] \subseteq Tokens \cup {NoToken}
    BY DEF ShellIInv, ShellTypeOK, Issued
  <2> QED BY <1>2, <2>1 DEF ShellIInv, AnsweredOnce, shellVars
<1>5. LeftBehind'
  BY DEF ShellIInv, LeftBehind, Held, shellVars
<1> QED BY <1>1, <1>2, <1>3, <1>4, <1>5 DEF ShellIInv

\* A slot of a page's queries is set.
LEMMA SlotSet ==
  ASSUME ShellTypeOK, NEW p \in Pages, NEW g \in Fetches, NEW slot \in {"session", "me"},
         fetch' = [fetch EXCEPT ![p][slot] = g]
  PROVE  /\ fetch' \in [Pages -> Queries]
         /\ \A q \in Pages \ {p} : fetch'[q] = fetch[q]
         /\ fetch'[p].session.token \in {fetch[p].session.token, g.token}
         /\ fetch'[p].me.token \in {fetch[p].me.token, g.token}
<1>1. fetch \in [Pages -> Queries] /\ fetch[p] \in Queries
  BY DEF ShellTypeOK, Queries
<1>2. fetch'[p] = [fetch[p] EXCEPT ![slot] = g] /\ \A q \in Pages \ {p} : fetch'[q] = fetch[q]
  BY <1>1
<1>3. [fetch[p] EXCEPT ![slot] = g] \in Queries
  BY <1>1 DEF Queries
<1>4. fetch' \in [Pages -> Queries]
  BY <1>1, <1>3
<1>5. CASE slot = "session"
  BY <1>1, <1>2, <1>4, <1>5 DEF Queries
<1>6. CASE slot = "me"
  BY <1>1, <1>2, <1>4, <1>6 DEF Queries
<1> QED BY <1>5, <1>6

\* Steps of the queries: nothing comes to the cache that was not held before.
LEMMA QueryStep ==
  ASSUME ShellIInv, NEW p \in Pages,
         \/ RefetchSession(p) \/ RefetchMe(p) \/ SessionArrives(p) \/ SessionFails(p)
         \/ MeArrives(p) \/ MeFails(p) \/ \E slot \in {"session", "me"} : Answered(p, slot)
  PROVE  /\ UNCHANGED <<jar, awaited, farewell>>
         /\ cache' \in [Pages -> Caches] /\ fetch' \in [Pages -> Queries]
         /\ \A q \in Pages \ {p} : cache'[q] = cache[q] /\ fetch'[q] = fetch[q]
         /\ {cache'[p].session.token, cache'[p].me.token,
             fetch'[p].session.token, fetch'[p].me.token} \subseteq Held(p) \cup {NoToken}
<1> DEFINE k == cache[p]  f == fetch[p]
<1>0. /\ ShellTypeOK
      /\ k \in Caches /\ f \in Queries /\ jar[p] \in Tokens \cup {NoToken}
      /\ f.session \in Fetches /\ f.me \in Fetches
      /\ cache \in [Pages -> Caches] /\ fetch \in [Pages -> Queries]
      /\ \A t \in Tokens \cup {NoToken} : UserOf(t) \in Rows \cup {Nobody}
  BY CellTypes DEF ShellIInv, AccountsIInv, ShellTypeOK, Caches, Queries, Issued
<1>1. Sent(jar[p]) \in Fetches /\ Sent(jar[p]).token = jar[p]
      /\ Idle \in Fetches /\ Idle.token = NoToken
  BY <1>0 DEF Sent, Idle, Fetches
<1>2. UNCHANGED <<jar, awaited, farewell>>
  BY DEF RefetchSession, RefetchMe, SessionArrives, SessionFails, MeArrives, MeFails, Answered
<1>3. ASSUME NEW h \in Caches, cache' = [cache EXCEPT ![p] = h],
             {h.session.token, h.me.token} \subseteq Held(p)
      PROVE  /\ cache' \in [Pages -> Caches]
             /\ \A q \in Pages \ {p} : cache'[q] = cache[q]
             /\ {cache'[p].session.token, cache'[p].me.token} \subseteq Held(p)
  BY <1>0, <1>3
<1>4. ASSUME NEW g \in Fetches, NEW slot \in {"session", "me"},
             g.token \in Held(p) \cup {NoToken}, fetch' = [fetch EXCEPT ![p][slot] = g]
      PROVE  /\ fetch' \in [Pages -> Queries]
             /\ \A q \in Pages \ {p} : fetch'[q] = fetch[q]
             /\ {fetch'[p].session.token, fetch'[p].me.token} \subseteq Held(p) \cup {NoToken}
  BY <1>0, <1>4, SlotSet DEF Held
<1>5. /\ UNCHANGED cache => {cache'[p].session.token, cache'[p].me.token} \subseteq Held(p)
      /\ jar[p] \in Held(p)
  BY DEF Held
<1>6. CASE RefetchSession(p)
  <2>1. PendingAgain(k) \in Caches
        /\ {PendingAgain(k).session.token, PendingAgain(k).me.token} \subseteq Held(p)
    BY <1>0 DEF PendingAgain, Caches, Held
  <2>2. cache' = [cache EXCEPT ![p] = PendingAgain(k)]
        /\ fetch' = [fetch EXCEPT ![p]["session"] = Sent(jar[p])]
    BY <1>0, <1>6 DEF RefetchSession
  <2>3. /\ cache' \in [Pages -> Caches]
        /\ \A q \in Pages \ {p} : cache'[q] = cache[q]
        /\ {cache'[p].session.token, cache'[p].me.token} \subseteq Held(p)
    BY <1>3, <2>1, <2>2
  <2>4. /\ fetch' \in [Pages -> Queries]
        /\ \A q \in Pages \ {p} : fetch'[q] = fetch[q]
        /\ {fetch'[p].session.token, fetch'[p].me.token} \subseteq Held(p) \cup {NoToken}
    BY <1>1, <1>4, <1>5, <2>2
  <2> QED BY <1>2, <2>3, <2>4
<1>7. CASE RefetchMe(p)
  <2>1. fetch' = [fetch EXCEPT ![p]["me"] = Sent(jar[p])] /\ UNCHANGED cache
    BY <1>7 DEF RefetchMe
  <2>2. /\ fetch' \in [Pages -> Queries]
        /\ \A q \in Pages \ {p} : fetch'[q] = fetch[q]
        /\ {fetch'[p].session.token, fetch'[p].me.token} \subseteq Held(p) \cup {NoToken}
    BY <1>1, <1>4, <1>5, <2>1
  <2> QED BY <1>0, <1>2, <1>5, <2>1, <2>2
<1>8. CASE SessionArrives(p)
  <2> DEFINE h == [k EXCEPT !.status = "success", !.form = NoToken,
                            !.session = [who |-> f.session.who, token |-> f.session.token]]
  <2>1. h \in Caches /\ {h.session.token, h.me.token} \subseteq Held(p)
    BY <1>0 DEF Caches, Known, Fetches, Held
  <2>2. cache' = [cache EXCEPT ![p] = h]
    BY <1>0, <1>8 DEF SessionArrives, Caches
  <2>3. /\ cache' \in [Pages -> Caches]
        /\ \A q \in Pages \ {p} : cache'[q] = cache[q]
        /\ {cache'[p].session.token, cache'[p].me.token} \subseteq Held(p)
    <3> HIDE DEF h
    <3> QED BY <1>3, <2>1, <2>2
  <2>4. PICK g \in {f.me, Sent(jar[p])} :
          fetch' = [fetch EXCEPT ![p].session = Idle, ![p].me = g]
    BY <1>8 DEF SessionArrives
  <2>5. /\ g \in Fetches /\ g.token \in Held(p)
    BY <1>0, <1>1, <2>4 DEF Held
  <2>6. /\ fetch' \in [Pages -> Queries]
        /\ \A q \in Pages \ {p} : fetch'[q] = fetch[q]
        /\ fetch'[p].session = Idle /\ fetch'[p].me = g
    BY <1>0, <1>1, <2>4, <2>5 DEF Queries
  <2> QED BY <1>1, <1>2, <2>3, <2>5, <2>6
<1>9. CASE SessionFails(p)
  <2> DEFINE h == [k EXCEPT !.status = "error"]
  <2>1. h \in Caches /\ {h.session.token, h.me.token} \subseteq Held(p)
    BY <1>0 DEF Caches, Held
  <2>2. cache' = [cache EXCEPT ![p] = h] /\ fetch' = [fetch EXCEPT ![p]["session"] = Idle]
    BY <1>9 DEF SessionFails
  <2>3. /\ cache' \in [Pages -> Caches]
        /\ \A q \in Pages \ {p} : cache'[q] = cache[q]
        /\ {cache'[p].session.token, cache'[p].me.token} \subseteq Held(p)
    <3> HIDE DEF h
    <3> QED BY <1>3, <2>1, <2>2
  <2>4. /\ fetch' \in [Pages -> Queries]
        /\ \A q \in Pages \ {p} : fetch'[q] = fetch[q]
        /\ {fetch'[p].session.token, fetch'[p].me.token} \subseteq Held(p) \cup {NoToken}
    BY <1>1, <1>4, <2>2
  <2> QED BY <1>2, <2>3, <2>4
<1>10. CASE MeArrives(p)
  <2> DEFINE h == [k EXCEPT !.me = [who |-> f.me.who, token |-> f.me.token], !.stale = FALSE]
  <2>1. h \in Caches /\ {h.session.token, h.me.token} \subseteq Held(p)
    BY <1>0 DEF Caches, Known, Fetches, Held
  <2>2. cache' = [cache EXCEPT ![p] = h] /\ fetch' = [fetch EXCEPT ![p]["me"] = Idle]
    BY <1>0, <1>10 DEF MeArrives, Caches
  <2>3. /\ cache' \in [Pages -> Caches]
        /\ \A q \in Pages \ {p} : cache'[q] = cache[q]
        /\ {cache'[p].session.token, cache'[p].me.token} \subseteq Held(p)
    <3> HIDE DEF h
    <3> QED BY <1>3, <2>1, <2>2
  <2>4. /\ fetch' \in [Pages -> Queries]
        /\ \A q \in Pages \ {p} : fetch'[q] = fetch[q]
        /\ {fetch'[p].session.token, fetch'[p].me.token} \subseteq Held(p) \cup {NoToken}
    BY <1>1, <1>4, <2>2
  <2> QED BY <1>2, <2>3, <2>4
<1>11. CASE MeFails(p)
  <2>1. PICK g \in {Idle, Sent(jar[p])} : fetch' = [fetch EXCEPT ![p]["me"] = g]
    BY <1>11 DEF MeFails
  <2>2. g \in Fetches /\ g.token \in Held(p) \cup {NoToken}
    BY <1>1, <1>5, <2>1
  <2>3. /\ fetch' \in [Pages -> Queries]
        /\ \A q \in Pages \ {p} : fetch'[q] = fetch[q]
        /\ {fetch'[p].session.token, fetch'[p].me.token} \subseteq Held(p) \cup {NoToken}
    BY <1>4, <2>1, <2>2
  <2> QED BY <1>0, <1>2, <1>5, <1>11, <2>3 DEF MeFails
<1>12. ASSUME NEW slot \in {"session", "me"}, Answered(p, slot)
       PROVE  /\ fetch' \in [Pages -> Queries]
              /\ \A q \in Pages \ {p} : fetch'[q] = fetch[q]
              /\ {fetch'[p].session.token, fetch'[p].me.token} \subseteq Held(p) \cup {NoToken}
              /\ UNCHANGED cache
  <2> DEFINE g == [f[slot] EXCEPT !.at = "got", !.who = UserOf(f[slot].token)]
  <2>1. f[slot] \in Fetches /\ f[slot].token \in Held(p)
    BY <1>0, <1>12 DEF Held
  <2>2. g \in Fetches /\ g.token \in Held(p)
    BY <1>0, <2>1 DEF Fetches
  <2>3. fetch' = [fetch EXCEPT ![p][slot] = g] /\ UNCHANGED cache
    BY <1>12 DEF Answered
  <2> HIDE DEF g
  <2> QED BY <1>4, <1>12, <2>2, <2>3
<1> QED BY <1>0, <1>2, <1>5, <1>6, <1>7, <1>8, <1>9, <1>10, <1>11, <1>12

\* What an invalidation marks, and what it fetches again.
LEMMA InvalidatedHolds ==
  ASSUME NEW k \in Caches, NEW keys
  PROVE  /\ Invalidated(k, keys) \in Caches
         /\ Invalidated(k, keys).session = k.session /\ Invalidated(k, keys).me = k.me
<1> DEFINE h == IF "session" \in keys THEN PendingAgain(k) ELSE k
<1>1. h \in Caches /\ h.session = k.session /\ h.me = k.me
  BY DEF PendingAgain, Caches
<1>2. Invalidated(k, keys) \in {k, [h EXCEPT !.stale = TRUE]}
  BY DEF Invalidated
<1> HIDE DEF h
<1>3. /\ [h EXCEPT !.stale = TRUE] \in Caches
      /\ [h EXCEPT !.stale = TRUE].session = k.session /\ [h EXCEPT !.stale = TRUE].me = k.me
  BY <1>1 DEF Caches
<1> QED BY <1>2, <1>3

LEMMA RefetchedHolds ==
  ASSUME ShellTypeOK, NEW p \in Pages, NEW token \in Tokens \cup {NoToken}, NEW keys
  PROVE  /\ Refetched(p, token, keys) \in Queries
         /\ {Refetched(p, token, keys).session.token, Refetched(p, token, keys).me.token}
              \subseteq Held(p) \cup {token}
<1> DEFINE f == fetch[p]
<1>1. f \in Queries /\ f.session.token \in Held(p) /\ f.me.token \in Held(p)
  BY DEF ShellTypeOK, Queries, Held
<1>2. Sent(token) \in Fetches /\ Sent(token).token = token
  BY DEF Sent, Fetches
<1>3. PICK g \in {f.session, Sent(token)}, h \in {f.me, Sent(token)} :
        Refetched(p, token, keys) \in {f, [f EXCEPT !.session = g, !.me = h]}
  BY DEF Refetched, Restarted
<1>4. /\ g \in Fetches /\ g.token \in Held(p) \cup {token}
      /\ h \in Fetches /\ h.token \in Held(p) \cup {token}
  BY <1>1, <1>2, <1>3 DEF Queries
<1> HIDE DEF f
<1>5. /\ [f EXCEPT !.session = g, !.me = h] \in Queries
      /\ [f EXCEPT !.session = g, !.me = h].session = g
      /\ [f EXCEPT !.session = g, !.me = h].me = h
  BY <1>1, <1>4 DEF Queries
<1> QED BY <1>1, <1>3, <1>4, <1>5

\* Nor is there with a redemption: its own request leads to nothing that is shown.
LEMMA RedeemStep ==
  ASSUME ShellIInv, NEW p \in Pages,
         \/ Redeem(p) \/ RedeemServed(p) \/ RedeemSettled(p) \/ RedeemRefused(p) \/ Redraw(p)
  PROVE  /\ UNCHANGED <<jar, awaited, farewell>>
         /\ cache' \in [Pages -> Caches] /\ fetch' \in [Pages -> Queries]
         /\ \A q \in Pages \ {p} : cache'[q] = cache[q] /\ fetch'[q] = fetch[q]
         /\ {cache'[p].session.token, cache'[p].me.token,
             fetch'[p].session.token, fetch'[p].me.token} \subseteq Held(p) \cup {NoToken}
<1>0. /\ ShellTypeOK /\ jar[p] \in Tokens \cup {NoToken}
      /\ cache \in [Pages -> Caches] /\ fetch \in [Pages -> Queries]
      /\ {jar[p], cache[p].session.token, cache[p].me.token,
          fetch[p].session.token, fetch[p].me.token} \subseteq Held(p)
  BY DEF ShellIInv, ShellTypeOK, Caches, Queries, Issued, Held
<1>1. UNCHANGED <<jar, awaited, farewell>>
  BY DEF Redeem, RedeemServed, RedeemSettled, RedeemRefused, Redraw
<1>2. /\ Sent(jar[p]) \in Fetches /\ Sent(jar[p]).token = jar[p]
      /\ Idle \in Fetches /\ Idle.token = NoToken
      /\ \A at \in {"got", "refused"} : [Idle EXCEPT !.at = at] \in Fetches
  BY <1>0 DEF Sent, Idle, Fetches
<1>3. ASSUME NEW k \in Caches, NEW f \in Queries,
             cache' = [cache EXCEPT ![p] = k], fetch' = [fetch EXCEPT ![p] = f],
             {k.session.token, k.me.token, f.session.token, f.me.token}
               \subseteq Held(p) \cup {NoToken}
      PROVE  /\ cache' \in [Pages -> Caches] /\ fetch' \in [Pages -> Queries]
             /\ \A q \in Pages \ {p} : cache'[q] = cache[q] /\ fetch'[q] = fetch[q]
             /\ {cache'[p].session.token, cache'[p].me.token,
                 fetch'[p].session.token, fetch'[p].me.token} \subseteq Held(p) \cup {NoToken}
  BY <1>0, <1>3
<1>4. CASE Redeem(p) \/ RedeemServed(p)
  <2>1. PICK g \in Fetches : fetch' = [fetch EXCEPT ![p].redeem = g] /\ UNCHANGED cache
    BY <1>2, <1>4 DEF Redeem, RedeemServed
  <2> DEFINE f == [fetch[p] EXCEPT !.redeem = g]
  <2>2. /\ f \in Queries /\ f.session = fetch[p].session /\ f.me = fetch[p].me
        /\ fetch' = [fetch EXCEPT ![p] = f] /\ cache' = [cache EXCEPT ![p] = cache[p]]
    BY <1>0, <2>1 DEF Queries
  <2> HIDE DEF f
  <2> QED BY <1>0, <1>1, <1>3, <2>2
<1>5. CASE RedeemSettled(p)
  <2>1. PICK keys : /\ cache' = [cache EXCEPT ![p] = Invalidated(cache[p], keys)]
                    /\ fetch' = [fetch EXCEPT ![p] =
                                   [Refetched(p, jar[p], keys) EXCEPT !.redeem = Idle]]
    BY <1>5 DEF RedeemSettled
  <2> DEFINE k == Invalidated(cache[p], keys)
             f == Refetched(p, jar[p], keys)
             g == [f EXCEPT !.redeem = Idle]
  <2>2. k \in Caches /\ k.session = cache[p].session /\ k.me = cache[p].me
    BY <1>0, InvalidatedHolds
  <2>3. f \in Queries /\ {f.session.token, f.me.token} \subseteq Held(p)
    BY <1>0, RefetchedHolds
  <2> HIDE DEF f
  <2>4. g \in Queries /\ g.session = f.session /\ g.me = f.me
    BY <1>2, <2>3 DEF Queries
  <2>5. cache' = [cache EXCEPT ![p] = k] /\ fetch' = [fetch EXCEPT ![p] = g]
    BY <2>1 DEF f
  <2> HIDE DEF k, g
  <2> QED BY <1>0, <1>1, <1>3, <2>2, <2>3, <2>4, <2>5
<1>6. CASE RedeemRefused(p)
  <2> DEFINE k == [cache[p] EXCEPT !.live = FALSE]
             f == [session |-> Idle, me |-> Idle, redeem |-> Idle]
  <2>1. k \in Caches /\ k.session = cache[p].session /\ k.me = cache[p].me
    BY <1>0 DEF Caches
  <2>2. f \in Queries /\ f.session = Idle /\ f.me = Idle
    BY <1>2 DEF Queries
  <2>3. cache' = [cache EXCEPT ![p] = k] /\ fetch' = [fetch EXCEPT ![p] = f]
    BY <1>6 DEF RedeemRefused
  <2> HIDE DEF k, f
  <2> QED BY <1>0, <1>1, <1>2, <1>3, <2>1, <2>2, <2>3
<1>7. CASE Redraw(p)
  <2> DEFINE f == [fetch[p] EXCEPT !.session = Sent(jar[p]), !.me = Idle]
  <2>1. /\ EmptyCache \in Caches
        /\ EmptyCache.session.token = NoToken /\ EmptyCache.me.token = NoToken
    BY DEF EmptyCache, None, Caches, Known
  <2>2. f \in Queries /\ f.session = Sent(jar[p]) /\ f.me = Idle
    BY <1>0, <1>2 DEF Queries
  <2>3. cache' = [cache EXCEPT ![p] = EmptyCache] /\ fetch' = [fetch EXCEPT ![p] = f]
    BY <1>0, <1>7 DEF Redraw, Clear
  <2> HIDE DEF f
  <2> QED BY <1>0, <1>1, <1>2, <1>3, <2>1, <2>2, <2>3
<1> QED BY <1>4, <1>5, <1>6, <1>7

LEMMA QueryInv ==
  ASSUME ShellIInv, [AccountsNext]_accountVars, NEW p \in Pages,
         \/ RefetchSession(p) \/ RefetchMe(p) \/ SessionArrives(p) \/ SessionFails(p)
         \/ MeArrives(p) \/ MeFails(p) \/ \E slot \in {"session", "me"} : Answered(p, slot)
         \/ Redeem(p) \/ RedeemServed(p) \/ RedeemSettled(p) \/ RedeemRefused(p) \/ Redraw(p)
  PROVE  ShellIInv'
<1>1. AccountsIInv' /\ CookiesAreOwn' /\ Issued \subseteq Issued'
      /\ \A c \in Calls : call[c].at # "new" =>
           call'[c].at # "new" /\ call'[c].token = call[c].token
  BY NextInv, CallsKeep DEF ShellIInv
<1>2. /\ UNCHANGED <<jar, awaited, farewell>>
      /\ cache' \in [Pages -> Caches] /\ fetch' \in [Pages -> Queries]
      /\ \A q \in Pages \ {p} : cache'[q] = cache[q] /\ fetch'[q] = fetch[q]
      /\ {cache'[p].session.token, cache'[p].me.token,
          fetch'[p].session.token, fetch'[p].me.token} \subseteq Held(p) \cup {NoToken}
  BY QueryStep, RedeemStep
<1>3. ShellTypeOK'
  BY <1>1, <1>2 DEF ShellIInv, ShellTypeOK, AccountsIInv, Caches, Queries
<1>4. AnsweredOnce'
  <2>1. \A q \in Pages : /\ awaited[q] \subseteq Calls
                         /\ {jar[q]} \cup farewell[q] \subseteq Tokens \cup {NoToken}
    BY DEF ShellIInv, ShellTypeOK, Issued
  <2> QED BY <1>1, <1>2, <2>1 DEF ShellIInv, AnsweredOnce
<1>5. LeftBehind'
  BY <1>2 DEF ShellIInv, LeftBehind, Held
<1> QED BY <1>1, <1>3, <1>4, <1>5 DEF ShellIInv

\* A form is sent, or the sign-out: the call is new, so nobody holds its token.
LEMMA SendInv ==
  ASSUME ShellIInv, NEW p \in Pages, NEW c \in Calls, Submit(c, p) \/ SignOut(c, p)
  PROVE  ShellIInv'
<1>1. jar[p] \in Tokens \cup {NoToken}
  BY DEF ShellIInv, ShellTypeOK, Issued
<1>2. Ask(c)
  BY <1>1 DEF Submit, SignOut, Ask
<1>3. AccountsIInv' /\ CookiesAreOwn' /\ Issued \subseteq Issued'
      /\ \A d \in Calls : call[d].at # "new" =>
           call'[d].at # "new" /\ call'[d].token = call[d].token
  BY <1>2, NextInv, CallsKeep DEF ShellIInv, AccountsNext
<1>4. /\ call[c].at = "new" /\ call'[c].at = "resolve" /\ call'[c].token = jar[p]
      /\ awaited' = [awaited EXCEPT ![p] = @ \cup {c}]
      /\ UNCHANGED <<jar, fetch, farewell>>
  <2>1. \E kind, e, right : Arrive(c, kind, jar[p], e, right)
    BY DEF Submit, SignOut
  <2>2. call \in [Calls -> CallRecords]
    BY DEF ShellIInv, ShellTypeOK, AccountsTypeOK, CallRecords
  <2>3. call[c].at = "new" /\ call'[c].at = "resolve" /\ call'[c].token = jar[p]
    BY <2>1, <2>2 DEF Arrive, NoCall
  <2>4. awaited' = [awaited EXCEPT ![p] = @ \cup {c}] /\ UNCHANGED <<jar, fetch, farewell>>
    BY DEF Submit, SignOut, Send
  <2> QED BY <2>3, <2>4
<1>5. /\ cache' \in [Pages -> Caches]
      /\ \A q \in Pages : cache'[q].session = cache[q].session /\ cache'[q].me = cache[q].me
  <2>1. cache \in [Pages -> Caches]
    BY DEF ShellIInv, ShellTypeOK, Caches
  <2>2. [cache[p] EXCEPT !.form = c] \in Caches
        /\ [cache[p] EXCEPT !.form = c].session = cache[p].session
        /\ [cache[p] EXCEPT !.form = c].me = cache[p].me
    BY <2>1 DEF Caches
  <2>3. UNCHANGED cache \/ cache' = [cache EXCEPT ![p] = [cache[p] EXCEPT !.form = c]]
    BY <2>1 DEF Submit, SignOut
  <2> QED BY <2>1, <2>2, <2>3
<1>6. ShellTypeOK'
  BY <1>3, <1>4, <1>5 DEF ShellIInv, ShellTypeOK, AccountsIInv, Caches
<1>7. AnsweredOnce'
  <2>1. \A q \in Pages : /\ awaited[q] \subseteq Calls
                         /\ {jar[q]} \cup farewell[q] \subseteq Tokens \cup {NoToken}
    BY DEF ShellIInv, ShellTypeOK, Issued
  <2>2. \A d \in Calls : call[d].token # NoToken => call[d].token # c
    BY <1>4 DEF ShellIInv, AccountsIInv, TokensFollow
  <2>3. /\ \A q \in Pages \ {p} : awaited'[q] = awaited[q]
        /\ awaited'[p] = awaited[p] \cup {c}
    BY <1>4 DEF ShellIInv, ShellTypeOK
  <2>4. ASSUME NEW q \in Pages, NEW t \in {jar[q]} \cup farewell[q], t # NoToken
        PROVE  t \notin awaited'[q] /\ call'[t].at # "new"
    BY <1>3, <1>4, <2>1, <2>3, <2>4 DEF ShellIInv, AnsweredOnce
  <2>5. ASSUME NEW q \in Pages, NEW d \in awaited'[q]
        PROVE  /\ call'[d].at # "new"
               /\ call'[d].token # NoToken => call'[d].token \notin awaited'[q]
    <3>1. CASE d = c /\ q = p
      <4>1. jar[p] # NoToken => jar[p] \notin awaited'[p]
        BY <2>4
      <4> QED BY <1>4, <3>1, <4>1
    <3>2. CASE d \in awaited[q]
      BY <1>3, <2>1, <2>2, <2>3, <2>5, <3>2 DEF ShellIInv, AnsweredOnce
    <3> QED BY <2>3, <2>5, <3>1, <3>2
  <2> QED BY <1>4, <2>4, <2>5 DEF AnsweredOnce
<1>8. LeftBehind'
  BY <1>4, <1>5 DEF ShellIInv, LeftBehind, Held
<1> QED BY <1>3, <1>6, <1>7, <1>8 DEF ShellIInv

\* An answer comes, or is given up: the cookie j and the tokens it leaves the page
\* with, and those it says goodbye to.
Leaves(p, c, j, left) ==
  /\ UNCHANGED accountVars
  /\ c \in awaited[p] /\ awaited' = [awaited EXCEPT ![p] = @ \ {c}]
  /\ jar' = [jar EXCEPT ![p] = j]
  /\ \/ j \in {jar[p], NoToken}
     \/ call[c].at = "replied" /\ j = call[c].cookie
  /\ cache' \in [Pages -> Caches] /\ fetch' \in [Pages -> Queries]
  /\ \A q \in Pages \ {p} : cache'[q] = cache[q] /\ fetch'[q] = fetch[q]
  /\ {cache'[p].session.token, cache'[p].me.token, fetch'[p].session.token,
      fetch'[p].me.token} \subseteq Held(p) \cup {j, NoToken}
  /\ farewell' = [farewell EXCEPT ![p] = @ \cup left] /\ left \subseteq {call[c].token}
  /\ left = {} \/ {j, cache'[p].session.token, cache'[p].me.token,
                   fetch'[p].session.token, fetch'[p].me.token} \subseteq {NoToken}

LEMMA AnswerInv ==
  ASSUME ShellIInv, NEW p \in Pages, NEW c, NEW j, NEW left, Leaves(p, c, j, left)
  PROVE  ShellIInv'
<1> USE DEF ShellIInv, Leaves
<1>1. AccountsIInv' /\ CookiesAreOwn' /\ AccountsTypeOK' /\ UNCHANGED Issued /\ UNCHANGED call
  BY NextInv DEF accountVars, CookiesAreOwn, Issued, AccountsIInv
<1>2. /\ c \in Calls /\ NoToken \notin Calls
      /\ jar \in [Pages -> Issued \cup {NoToken}] /\ Issued \subseteq Tokens
      /\ awaited \in [Pages -> SUBSET Calls]
      /\ farewell \in [Pages -> SUBSET (Tokens \cup {NoToken})]
      /\ call[c].token \in Tokens \cup {NoToken}
  BY NamesApart DEF ShellTypeOK, Issued, AccountsTypeOK
<1>3. j \in {jar[p], NoToken} \/ (j = c /\ c \in Issued)
  BY <1>2 DEF CookiesAreOwn, Issued
<1>4. ShellTypeOK'
  BY <1>1, <1>2, <1>3 DEF ShellTypeOK, Caches, Queries
<1>5. /\ \A q \in Pages \ {p} : jar'[q] = jar[q] /\ awaited'[q] = awaited[q] /\ farewell'[q] = farewell[q]
      /\ jar'[p] = j /\ awaited'[p] = awaited[p] \ {c} /\ farewell'[p] = farewell[p] \cup left
  BY <1>2
<1>6. AnsweredOnce'
  <2>1. ASSUME NEW q \in Pages, NEW t \in {jar'[q]} \cup farewell'[q], t # NoToken
        PROVE  t \notin awaited'[q] /\ call[t].at # "new"
    <3>1. CASE t \in {jar[q]} \cup farewell[q]
      BY <1>5, <2>1, <3>1 DEF AnsweredOnce
    <3>2. CASE q = p /\ t = c
      BY <1>5, <3>2 DEF AnsweredOnce
    <3>3. CASE q = p /\ t = call[c].token
      <4>1. call[t].at = "replied"
        BY <1>2, <2>1, <3>3 DEF AccountsIInv, TokensFollow
      <4> QED BY <1>5, <2>1, <3>3, <4>1 DEF AnsweredOnce
    <3> QED BY <1>3, <1>5, <2>1, <3>1, <3>2, <3>3
  <2> QED BY <1>1, <1>5, <2>1 DEF AnsweredOnce
<1>7. LeftBehind'
  <2>1. c \notin farewell[p]
    BY <1>2 DEF AnsweredOnce
  <2>2. farewell'[p] \cap Held(p)' \subseteq {NoToken}
    <3>1. Held(p)' = {j, cache'[p].session.token, cache'[p].me.token,
                      fetch'[p].session.token, fetch'[p].me.token}
      BY <1>5 DEF Held
    <3>2. CASE left # {}
      BY <3>1, <3>2
    <3>3. CASE left = {}
      <4>1. Held(p)' \subseteq Held(p) \cup {c, NoToken}
        BY <1>3, <3>1 DEF Held
      <4> QED BY <1>5, <2>1, <3>3, <4>1 DEF LeftBehind
    <3> QED BY <3>2, <3>3
  <2> QED BY <1>5, <2>2 DEF LeftBehind, Held
<1> QED BY <1>1, <1>4, <1>6, <1>7

LEMMA FormAnsweredInv ==
  ASSUME ShellIInv, NEW p \in Pages, NEW c \in Calls, FormAnswered(c, p)
  PROVE  ShellIInv'
<1> DEFINE j == JarAfter(p, c)
<1>1. /\ ShellTypeOK
      /\ c \in awaited[p] /\ call[c].at = "replied" /\ call[c].kind # "logout"
      /\ cache \in [Pages -> Caches] /\ fetch \in [Pages -> Queries] /\ NoToken \notin Tokens
      /\ farewell' = [farewell EXCEPT ![p] = @ \cup {}]
  BY NamesApart DEF FormAnswered, ShellIInv, ShellTypeOK, Caches, Queries
<1>2. j = jar[p] \/ j = call[c].cookie
  BY <1>1 DEF JarAfter, ShellIInv, AccountsIInv, CallsFollow
<1>3. j \in Tokens \cup {NoToken}
  BY <1>1, <1>2 DEF ShellIInv, ShellTypeOK, CookiesAreOwn, Issued
<1>4. ASSUME NEW k \in Caches
      PROVE  /\ FormDone(k, c) \in Caches
             /\ FormDone(k, c).session = k.session /\ FormDone(k, c).me = k.me
  BY DEF FormDone, Caches
<1>5. ASSUME NEW k \in Caches, cache' = [cache EXCEPT ![p] = k],
             k.session = cache[p].session, k.me = cache[p].me
      PROVE  /\ cache' \in [Pages -> Caches] /\ \A q \in Pages \ {p} : cache'[q] = cache[q]
             /\ {cache'[p].session.token, cache'[p].me.token} \subseteq Held(p)
  BY <1>1, <1>5 DEF Held
<1> HIDE DEF j
<1>6. /\ cache' \in [Pages -> Caches] /\ \A q \in Pages \ {p} : cache'[q] = cache[q]
      /\ {cache'[p].session.token, cache'[p].me.token} \subseteq Held(p)
  <2>1. CASE cache' = [cache EXCEPT ![p] = FormDone(Invalidated(@, {"session", "me"}), c)]
    <3> DEFINE k == Invalidated(cache[p], {"session", "me"})
    <3>1. k \in Caches /\ k.session = cache[p].session /\ k.me = cache[p].me
      BY <1>1, InvalidatedHolds
    <3>2. cache' = [cache EXCEPT ![p] = FormDone(k, c)]
      BY <2>1
    <3> HIDE DEF k
    <3> QED BY <1>4, <1>5, <3>1, <3>2
  <2>2. CASE cache' = [cache EXCEPT ![p] = FormDone(@, c)]
    BY <1>1, <1>4, <1>5, <2>2
  <2> QED BY <2>1, <2>2 DEF FormAnswered, j
<1>7. /\ fetch' \in [Pages -> Queries] /\ \A q \in Pages \ {p} : fetch'[q] = fetch[q]
      /\ {fetch'[p].session.token, fetch'[p].me.token} \subseteq Held(p) \cup {j}
  <2>1. CASE fetch' = [fetch EXCEPT ![p] = Refetched(p, j, {"session", "me"})]
    BY <1>1, <1>3, <2>1, RefetchedHolds
  <2>2. CASE UNCHANGED fetch
    BY <1>1, <2>2 DEF Held
  <2> QED BY <2>1, <2>2 DEF FormAnswered, j
<1>8. /\ UNCHANGED accountVars
      /\ jar' = [jar EXCEPT ![p] = j]
      /\ awaited' = [awaited EXCEPT ![p] = @ \ {c}]
  BY DEF FormAnswered, j
<1>9. Leaves(p, c, j, {})
  BY <1>1, <1>2, <1>6, <1>7, <1>8 DEF Leaves
<1> QED BY <1>9, AnswerInv

LEMMA FormLostInv ==
  ASSUME ShellIInv, NEW p \in Pages, NEW c \in Calls, FormLost(c, p)
  PROVE  ShellIInv'
<1>1. /\ cache \in [Pages -> Caches] /\ fetch' \in [Pages -> Queries]
      /\ c \in awaited[p] /\ UNCHANGED <<jar, fetch, farewell, accountVars>>
      /\ jar' = [jar EXCEPT ![p] = jar[p]] /\ farewell' = [farewell EXCEPT ![p] = @ \cup {}]
      /\ awaited' = [awaited EXCEPT ![p] = @ \ {c}]
  BY DEF FormLost, ShellIInv, ShellTypeOK, Caches, Queries
<1>2. /\ FormDone(cache[p], c) \in Caches
      /\ FormDone(cache[p], c).session = cache[p].session
      /\ FormDone(cache[p], c).me = cache[p].me
  BY <1>1 DEF FormDone, Caches
<1>3. cache' = [cache EXCEPT ![p] = FormDone(cache[p], c)]
  BY DEF FormLost
<1>4. /\ cache' \in [Pages -> Caches] /\ \A q \in Pages \ {p} : cache'[q] = cache[q]
      /\ {cache'[p].session.token, cache'[p].me.token, fetch'[p].session.token,
          fetch'[p].me.token} \subseteq Held(p)
  BY <1>1, <1>2, <1>3 DEF Held
<1>5. Leaves(p, c, jar[p], {})
  BY <1>1, <1>4 DEF Leaves
<1> QED BY <1>5, AnswerInv

LEMMA SignOutInv ==
  ASSUME ShellIInv, NEW p \in Pages, NEW c \in Calls, SignOutSettled(c, p) \/ SignOutLost(c, p)
  PROVE  ShellIInv'
<1>1. PICK j : /\ jar' = [jar EXCEPT ![p] = j] /\ Clear(p, j)
               /\ \/ j \in {jar[p], NoToken}
                  \/ call[c].at = "replied" /\ j = call[c].cookie
               /\ SignOutSettled(c, p) /\ call[c].status = "204" => j = NoToken
  <2>1. CASE SignOutSettled(c, p)
    <3>1. /\ JarAfter(p, c) \in {jar[p], NoToken, call[c].cookie}
          /\ call[c].status = "204" => JarAfter(p, c) = NoToken
      BY DEF JarAfter
    <3> QED BY <2>1, <3>1 DEF SignOutSettled
  <2>2. CASE SignOutLost(c, p) /\ ~ SignOutSettled(c, p)
    BY <2>2 DEF SignOutLost, ShellIInv, ShellTypeOK
  <2> QED BY <2>1, <2>2
<1>2. /\ cache \in [Pages -> Caches] /\ fetch \in [Pages -> Queries]
      /\ farewell \in [Pages -> SUBSET (Tokens \cup {NoToken})]
      /\ c \in awaited[p] /\ UNCHANGED accountVars
      /\ awaited' = [awaited EXCEPT ![p] = @ \ {c}]
  BY DEF SignOutSettled, SignOutLost, ShellIInv, ShellTypeOK, Caches, Queries
<1>3. j \in Tokens \cup {NoToken}
  BY <1>1 DEF ShellIInv, ShellTypeOK, CookiesAreOwn, Issued
<1>4. /\ EmptyCache \in Caches
      /\ EmptyCache.session.token = NoToken /\ EmptyCache.me.token = NoToken
      /\ Sent(j) \in Fetches /\ Sent(j).token = j /\ Idle \in Fetches /\ Idle.token = NoToken
  BY <1>3 DEF EmptyCache, None, Caches, Known, Sent, Idle, Fetches
<1>5. /\ cache' \in [Pages -> Caches] /\ fetch' \in [Pages -> Queries]
      /\ \A q \in Pages \ {p} : cache'[q] = cache[q] /\ fetch'[q] = fetch[q]
      /\ {cache'[p].session.token, cache'[p].me.token, fetch'[p].session.token,
          fetch'[p].me.token} \subseteq {j, NoToken}
  <2>1. /\ cache' = [cache EXCEPT ![p] = EmptyCache]
        /\ fetch' = [fetch EXCEPT ![p].session = Sent(j), ![p].me = Idle]
    BY <1>1 DEF Clear
  <2>2. /\ fetch' \in [Pages -> Queries] /\ \A q \in Pages \ {p} : fetch'[q] = fetch[q]
        /\ fetch'[p].session = Sent(j) /\ fetch'[p].me = Idle
    BY <1>2, <1>4, <2>1 DEF Queries
  <2>3. /\ cache' \in [Pages -> Caches] /\ \A q \in Pages \ {p} : cache'[q] = cache[q]
        /\ cache'[p] = EmptyCache
    BY <1>2, <1>4, <2>1
  <2> QED BY <1>4, <2>2, <2>3
<1>6. PICK left : /\ farewell' = [farewell EXCEPT ![p] = @ \cup left]
                  /\ left \subseteq {call[c].token}
                  /\ left = {} \/ j = NoToken
  <2>1. CASE SignOutSettled(c, p) /\ call[c].status = "204"
    <3>1. j = NoToken /\ farewell' = [farewell EXCEPT ![p] = @ \cup {call[c].token}]
      BY <1>1, <2>1 DEF SignOutSettled
    <3> QED BY <3>1
  <2>2. CASE ~ (SignOutSettled(c, p) /\ call[c].status = "204")
    <3>1. UNCHANGED farewell
      BY <2>2 DEF SignOutSettled, SignOutLost
    <3>2. farewell' = [farewell EXCEPT ![p] = @ \cup {}]
      BY <1>2, <3>1
    <3> QED BY <3>2
  <2> QED BY <2>1, <2>2
<1>7. Leaves(p, c, j, left)
  BY <1>1, <1>2, <1>5, <1>6 DEF Leaves
<1> QED BY <1>7, AnswerInv

-----------------------------------------------------------------------------
LEMMA ShellNextInv == ShellIInv /\ [ShellNext]_allVars => ShellIInv'
<1> SUFFICES ASSUME ShellIInv, [ShellNext]_allVars PROVE ShellIInv'
  OBVIOUS
<1>1. [AccountsNext]_accountVars
  BY ShellStep DEF ShellIInv
<1>2. CASE UNCHANGED allVars \/ Server
  BY <1>1, <1>2, ShellServer DEF allVars, Server
<1>3. ASSUME NEW p \in Pages, Web(p) PROVE ShellIInv'
  BY <1>1, <1>3, QueryInv, SendInv, FormAnsweredInv, FormLostInv, SignOutInv DEF Web
<1> QED BY <1>2, <1>3 DEF ShellNext

(* The web shell and the server behind it keep the invariant: the shapes of   *)
(* the state, and what a page still holds after it signed out.                *)
THEOREM ShellSafe == ShellSpec => []ShellIInv
<1> QED BY ShellInitInv, ShellNextInv, PTL DEF ShellSpec

(* App.tsx clears the cache on sign-out: nothing that a page shows, or that   *)
(* is on its way to it, comes from a session it was told it had left.         *)
THEOREM SignOutIsFinal == ShellSpec => []NothingOutlivesSignOut
<1>1. ShellIInv => NothingOutlivesSignOut
  BY DEF ShellIInv, LeftBehind, Held, NothingOutlivesSignOut
<1> QED BY ShellSafe, <1>1, PTL

(* Behind any number of browsers the server is the one Accounts specifies:    *)
(* every step of the shell is one of its steps, or leaves its state alone.    *)
THEOREM ShellIsAccounts == ShellSpec => AccountsSpec
<1>1. ShellInit => AccountsInit
  BY DEF ShellInit
<1>2. ShellIInv /\ [ShellNext]_allVars => [AccountsNext]_accountVars
  BY ShellStep DEF ShellIInv
<1> QED BY ShellSafe, <1>1, <1>2, PTL DEF ShellSpec, AccountsSpec

(* So an address has one account, the server's answers are true, a logout     *)
(* revokes, and what has ended stays ended, whatever the browsers do.         *)
THEOREM ShellKeepsAccounts ==
  ShellSpec => /\ []OneAccountPerAddress /\ []AccountAnswersAreTrue
               /\ []LogoutIsImmediate /\ EndedStaysEnded
<1> QED BY ShellIsAccounts, AddressesAreUnique, AccountAnswersHold, LogoutRevokes,
           EndedForGood, PTL
=============================================================================
