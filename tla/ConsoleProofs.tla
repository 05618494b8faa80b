---------------------------- MODULE ConsoleProofs ----------------------------
(* Proofs about Console: the catalogue never holds one SKU twice, a macro     *)
(* allocates only the reward of its SKU, and what the page tells is true, for *)
(* any number of consoles, presses and SKUs.                                  *)
EXTENDS Console, TLAPS

\* Where each creation is, what its transaction has done.
CreationsFollow ==
  \A p \in Tx :
    /\ create[p] \in {"none", "sent"} => clog[p] = "new" /\ sku[p] = NoSku
    /\ create[p] = "insert" => clog[p] = "active" /\ sku[p] = NoSku
    /\ create[p] = "inserted" => clog[p] = "active"
    /\ create[p] = "201" => clog[p] = "committed"
    /\ create[p] \in {"409", "500"} => clog[p] = "aborted"
    /\ create[p] \in {"inserted", "201"} => sku[p] = Sku(p)
    /\ create[p] # "none" => press[p] # Unpressed
    /\ sku[p] # NoSku => sku[p] = Sku(p)

StockedIsOnFile == clog[Setup] = "committed" /\ sku[Setup] = Stocked

SkusAreNormalised == \A r \in Xids : sku[r] # NoSku => sku[r] \in Names /\ Upper[sku[r]] = sku[r]

\* The unique index, over what may still commit as well.
IndexIsUnique ==
  \A r, s \in Xids : sku[r] = sku[s] /\ sku[r] # NoSku /\ r # s
                       => clog[r] = "aborted" \/ clog[s] = "aborted"

ListsAreOnFile == \A c \in Consoles : list[c].rewards \subseteq Catalogue
                                      /\ fetch[c].rewards \subseteq Catalogue

\* A press, against the creation it asked for.
PressesFollow ==
  \A p \in Tx : press[p] # Unpressed =>
    /\ press[p].kind # "form" => Upper[press[p].name] = press[p].name
    /\ press[p].at = "added" => create[p] = "201"
    /\ press[p].at \in {"taken", "notfound", "searching"} => create[p] = "409"
    /\ create[p] = "409" => \E r \in Catalogue : sku[r] = Sku(p)

ConsoleIInv ==
  /\ ConsoleTypeOK
  /\ CreationsFollow
  /\ StockedIsOnFile
  /\ SkusAreNormalised
  /\ IndexIsUnique
  /\ ListsAreOnFile
  /\ PressesFollow
  /\ MacroGivesItsReward

USE SetupIsNotATx
-----------------------------------------------------------------------------
\* No code removes a reward or changes its SKU.
Grows == \A r \in Catalogue : r \in Catalogue' /\ sku'[r] = sku[r]

LEMMA PressedOrNot ==
  ASSUME ConsoleTypeOK, NEW p \in Tx
  PROVE  /\ press[p] = Unpressed <=> press[p].at = "new"
         /\ press[p] # Unpressed => press[p] \in Presses
BY DEF ConsoleTypeOK, Presses, Unpressed

LEMMA InitInv == ConsoleInit => ConsoleIInv
<1> SUFFICES ASSUME ConsoleInit PROVE ConsoleIInv
  OBVIOUS
<1> USE UpperIsIdempotent, StockedIsNormalised, NoSkuIsNone, NoRewardIsNone DEF ConsoleInit, PgInit
<1>1. ConsoleTypeOK
  BY DEF ConsoleTypeOK, Fates, Xids, Unpressed, Presses, Unloaded, Sent
<1>2. CreationsFollow
  BY DEF CreationsFollow, Xids
<1>3. StockedIsOnFile
  BY DEF StockedIsOnFile, Xids
<1>4. SkusAreNormalised /\ IndexIsUnique
  BY DEF SkusAreNormalised, IndexIsUnique, Xids
<1>5. ListsAreOnFile
  BY DEF ListsAreOnFile, Unloaded, Sent
<1>6. PressesFollow /\ MacroGivesItsReward
  BY DEF PressesFollow, MacroGivesItsReward, Unpressed
<1> QED BY <1>1, <1>2, <1>3, <1>4, <1>5, <1>6 DEF ConsoleIInv

-----------------------------------------------------------------------------
\* A step of a server leaves the pages alone: what the pages hold still holds
\* if the catalogue only grew.
LEMMA ServerFrame ==
  ASSUME ConsoleIInv, Grows, UNCHANGED <<press, list, fetch>>
  PROVE  /\ ListsAreOnFile'
         /\ \A p \in Tx : press[p].at # "new" /\ press[p].target # NoReward =>
              press[p].target \in Catalogue' /\ sku'[press[p].target] = Sku(p)
<1>1. ListsAreOnFile'
  BY DEF ConsoleIInv, ListsAreOnFile, Grows
<1>2. \A p \in Tx : press[p].at # "new" /\ press[p].target # NoReward =>
        press[p].target \in Catalogue' /\ sku'[press[p].target] = Sku(p)
  BY DEF ConsoleIInv, MacroGivesItsReward, Grows
<1> QED BY <1>1, <1>2

LEMMA BeginAndAbort ==
  ASSUME ConsoleIInv, NEW p \in Tx,
         LookUp(p) \/ SkuTaken(p) \/ InsertRefused(p) \/ CommitCreate(p) \/ CreateThrows(p)
  PROVE  ConsoleIInv'
<1> USE DEF ConsoleIInv
<1>0. /\ UNCHANGED <<sku, served, press, list, fetch>>
      /\ p \in Xids /\ Xids = Tx \cup {Setup} /\ p # Setup
      /\ \/ LookUp(p) \/ SkuTaken(p) \/ InsertRefused(p) \/ CommitCreate(p) \/ CreateThrows(p)
  BY DEF LookUp, SkuTaken, InsertRefused, CommitCreate, CreateThrows, Xids
<1>1. ConsoleTypeOK'
  BY <1>0 DEF ConsoleTypeOK, LookUp, SkuTaken, InsertRefused, CommitCreate, CreateThrows,
       Begin, Abort, Commit, Fates
<1>2. /\ \A x \in Xids \ {p} : clog'[x] = clog[x]
      /\ \A q \in Tx \ {p} : create'[q] = create[q]
      /\ clog[p] \in {"new", "active"}
      /\ \/ clog'[p] = "active" /\ create'[p] = "insert" /\ create[p] = "sent"
         \/ /\ clog'[p] = "aborted" /\ create'[p] = "409" /\ create[p] = "sent"
            /\ \E r \in Catalogue : sku[r] = Sku(p)
         \/ clog'[p] = "aborted" /\ create'[p] = "500" /\ create[p] \in {"insert", "inserted"}
         \/ clog'[p] = "committed" /\ create'[p] = "201" /\ create[p] = "inserted"
  BY <1>0 DEF ConsoleTypeOK, CreationsFollow, LookUp, SkuTaken, InsertRefused, CommitCreate,
       CreateThrows, Begin, Abort, Commit, IsActive, Holding
<1>3. CreationsFollow'
  BY <1>0, <1>2 DEF CreationsFollow, Sku
<1>4. StockedIsOnFile' /\ SkusAreNormalised'
  BY <1>0, <1>2 DEF StockedIsOnFile, SkusAreNormalised
<1>5. Grows
  BY <1>0, <1>2 DEF Grows, Catalogue, OnFile, IsCommitted
<1>6. IndexIsUnique'
  BY <1>0, <1>2 DEF IndexIsUnique
<1>7. ListsAreOnFile' /\ MacroGivesItsReward'
  BY <1>0, <1>5, ServerFrame DEF MacroGivesItsReward, Sku
<1>8. PressesFollow'
  BY <1>0, <1>2, <1>5 DEF PressesFollow, CreationsFollow, Grows, Sku
<1> QED BY <1>1, <1>3, <1>4, <1>6, <1>7, <1>8

LEMMA InsertInv ==
  ASSUME ConsoleIInv, NEW p \in Tx, Insert(p)
  PROVE  ConsoleIInv'
<1> USE DEF ConsoleIInv
<1>0. /\ UNCHANGED <<clog, served, press, list, fetch>>
      /\ p \in Xids /\ Xids = Tx \cup {Setup} /\ p # Setup
      /\ create[p] = "insert" /\ Insertable(p, Sku(p))
  BY DEF Insert, Xids
<1>1. press[p] \in Presses /\ Sku(p) \in Names /\ Upper[Sku(p)] = Sku(p)
  BY <1>0, PressedOrNot, UpperIsIdempotent DEF CreationsFollow, Sku, Presses
<1>2. ConsoleTypeOK'
  BY <1>0, <1>1 DEF ConsoleTypeOK, Insert
<1>3. /\ \A x \in Xids \ {p} : sku'[x] = sku[x]
      /\ \A q \in Tx \ {p} : create'[q] = create[q]
      /\ sku'[p] = Sku(p) /\ create'[p] = "inserted"
      /\ sku[p] = NoSku /\ clog[p] = "active"
  BY <1>0 DEF ConsoleTypeOK, CreationsFollow, Insert
<1>4. CreationsFollow'
  BY <1>0, <1>3 DEF CreationsFollow, Sku
<1>5. StockedIsOnFile' /\ SkusAreNormalised'
  BY <1>0, <1>1, <1>3 DEF StockedIsOnFile, SkusAreNormalised
<1>6. Grows
  BY <1>0, <1>3 DEF Grows, Catalogue, OnFile, IsCommitted
<1>7. IndexIsUnique'
  BY <1>0, <1>3 DEF IndexIsUnique, Insertable
<1>8. ListsAreOnFile' /\ MacroGivesItsReward'
  BY <1>0, <1>6, ServerFrame DEF MacroGivesItsReward, Sku
<1>9. PressesFollow'
  BY <1>0, <1>3, <1>6 DEF PressesFollow, CreationsFollow, Grows, Sku
<1> QED BY <1>2, <1>4, <1>5, <1>7, <1>8, <1>9

LEMMA ServeInv ==
  ASSUME ConsoleIInv, NEW p \in Tx, Serve(p)
  PROVE  ConsoleIInv'
<1>1. CASE Allocate(p)
  <2>1. ConsoleTypeOK'
    BY <1>1 DEF ConsoleIInv, ConsoleTypeOK, Allocate, Catalogue
  <2>2. UNCHANGED <<clog, sku, create, press, list, fetch>>
    BY <1>1 DEF Allocate
  <2> QED
    BY <2>1, <2>2 DEF ConsoleIInv, CreationsFollow, StockedIsOnFile, SkusAreNormalised,
         IndexIsUnique, ListsAreOnFile, PressesFollow, MacroGivesItsReward, Catalogue, OnFile,
         IsCommitted, Sku
<1> QED BY <1>1, BeginAndAbort, InsertInv DEF Serve

-----------------------------------------------------------------------------
\* A step of a page leaves the server alone, but for the calls it sends.
Untouched == UNCHANGED <<clog, sku, served>>

LEMMA CatalogueFrame ==
  ASSUME ConsoleIInv, Untouched
  PROVE  Catalogue' = Catalogue /\ StockedIsOnFile' /\ SkusAreNormalised' /\ IndexIsUnique'
BY DEF ConsoleIInv, Untouched, Catalogue, OnFile, IsCommitted, StockedIsOnFile,
     SkusAreNormalised, IndexIsUnique

\* What a press may become while nothing is sent for it.
LEMMA PageFrame ==
  ASSUME ConsoleIInv, Untouched, UNCHANGED create, press' \in [Tx -> Presses \cup {Unpressed}],
         \A p \in Tx : press'[p] # press[p] =>
           /\ press[p].at # "new" /\ press'[p].at # "new"
           /\ press'[p].name = press[p].name /\ press'[p].kind = press[p].kind
           /\ \/ press'[p].target = press[p].target
              \/ press'[p].target \in Catalogue /\ sku[press'[p].target] = Sku(p)
           /\ press'[p].at = "added" => create[p] = "201"
           /\ press'[p].at \in {"taken", "notfound", "searching"} => create[p] = "409"
  PROVE  CreationsFollow' /\ PressesFollow' /\ MacroGivesItsReward'
<1>0. Catalogue' = Catalogue /\ \A p \in Tx : press[p] = Unpressed <=> press'[p] = Unpressed
  BY CatalogueFrame, PressedOrNot DEF Unpressed, Presses, ConsoleIInv
<1>1. \A p \in Tx : press[p] # Unpressed => Sku(p)' = Sku(p)
  BY DEF Sku
<1>2. CreationsFollow'
  BY <1>0, <1>1 DEF ConsoleIInv, CreationsFollow, Untouched
<1>3. PressesFollow'
  BY <1>0, <1>1 DEF ConsoleIInv, PressesFollow, Untouched
<1>4. MacroGivesItsReward'
  <2> SUFFICES ASSUME NEW p \in Tx, press'[p].at # "new", press'[p].target # NoReward
               PROVE  press'[p].target \in Catalogue /\ sku[press'[p].target] = Sku(p)'
    BY <1>0 DEF MacroGivesItsReward, Untouched
  <2>1. press[p].at # "new" /\ press[p] # Unpressed /\ Sku(p)' = Sku(p)
    BY <1>0, <1>1, PressedOrNot DEF ConsoleIInv, Unpressed
  <2>2. CASE press'[p].target = press[p].target
    BY <2>1, <2>2 DEF ConsoleIInv, MacroGivesItsReward
  <2>3. CASE press'[p].target # press[p].target
    BY <2>1, <2>3
  <2> QED BY <2>2, <2>3
<1> QED BY <1>2, <1>3, <1>4

\* What a search finds, for the macro that waits for it.
LEMMA SearchFinds ==
  ASSUME ConsoleIInv, NEW p \in Tx, press[p] # Unpressed, press[p].kind = "macro",
         NEW rewards, rewards \subseteq Catalogue
  PROVE  LET k == Search(press[p], rewards) IN
         /\ k \in Presses /\ k.name = press[p].name /\ k.kind = press[p].kind
         /\ \/ k.at = "notfound" /\ k.target = press[p].target
            \/ k.at = "giving" /\ k.target \in Catalogue /\ sku[k.target] = Sku(p)
<1>1. press[p] \in Presses /\ Sku(p) = press[p].name
  BY PressedOrNot DEF ConsoleIInv, PressesFollow, Sku
<1>2. Catalogue \subseteq Xids
  BY DEF Catalogue
<1>3. CASE Holding(rewards, press[p].name) = {}
  BY <1>1, <1>3 DEF Search, Presses
<1>4. CASE Holding(rewards, press[p].name) # {}
  <2> DEFINE r == CHOOSE r \in Holding(rewards, press[p].name) : TRUE
  <2>1. r \in Holding(rewards, press[p].name)
    BY <1>4
  <2>2. r \in Catalogue /\ sku[r] = Sku(p)
    BY <1>1, <2>1 DEF Holding
  <2>3. Search(press[p], rewards) = [press[p] EXCEPT !.at = "giving", !.target = r]
    BY <1>4 DEF Search, Give
  <2> QED BY <1>1, <1>2, <2>2, <2>3 DEF Presses
<1> QED BY <1>3, <1>4

LEMMA ListInv ==
  ASSUME ConsoleIInv, NEW c \in Consoles,
         Ages(c) \/ Refetch(c) \/ ListAnswered(c) \/ ListArrives(c) \/ ListFails(c)
  PROVE  ConsoleIInv'
<1>0. Untouched /\ UNCHANGED create
  BY DEF Untouched, Ages, Refetch, ListAnswered, ListArrives, ListFails
<1>1. \A p \in Searching(c) : press[p] # Unpressed /\ press[p].kind = "macro"
                              /\ press[p] \in Presses /\ create[p] = "409"
                              /\ press[p].at # "new"
  BY PressedOrNot DEF ConsoleIInv, PressesFollow, Searching, Pending, Unpressed
<1>2. list' \in [Consoles -> [loaded : BOOLEAN, fresh : BOOLEAN, rewards : SUBSET Xids]]
      /\ fetch' \in [Consoles -> [at : {"idle", "sent", "got"}, rewards : SUBSET Xids]]
      /\ ListsAreOnFile'
  <2>1. Catalogue' = Catalogue /\ Catalogue \subseteq Xids
    BY <1>0, CatalogueFrame DEF Catalogue
  <2>2. /\ \A d \in Consoles : list[d].rewards \subseteq Catalogue
        /\ \A d \in Consoles : fetch[d].rewards \subseteq Catalogue
    BY DEF ConsoleIInv, ListsAreOnFile
  <2>3. list \in [Consoles -> [loaded : BOOLEAN, fresh : BOOLEAN, rewards : SUBSET Xids]]
        /\ fetch \in [Consoles -> [at : {"idle", "sent", "got"}, rewards : SUBSET Xids]]
    BY DEF ConsoleIInv, ConsoleTypeOK
  <2>4. CASE Ages(c)
    BY <2>1, <2>2, <2>3, <2>4 DEF Ages, ListsAreOnFile
  <2>5. CASE Refetch(c)
    BY <2>1, <2>2, <2>3, <2>5 DEF Refetch, ListsAreOnFile, Sent
  <2>6. CASE ListAnswered(c)
    BY <2>1, <2>2, <2>3, <2>6 DEF ListAnswered, ListsAreOnFile
  <2>7. CASE ListArrives(c)
    BY <2>1, <2>2, <2>3, <2>7 DEF ListArrives, ListsAreOnFile, Unsent
  <2>8. CASE ListFails(c)
    BY <2>1, <2>2, <2>3, <2>8 DEF ListFails, ListsAreOnFile, Unsent
  <2> QED BY <2>4, <2>5, <2>6, <2>7, <2>8
<1>3. press' \in [Tx -> Presses \cup {Unpressed}]
      /\ \A p \in Tx : press'[p] # press[p] =>
           /\ press[p].at # "new" /\ press'[p].at # "new"
           /\ press'[p].name = press[p].name /\ press'[p].kind = press[p].kind
           /\ \/ press'[p].target = press[p].target
              \/ press'[p].target \in Catalogue /\ sku[press'[p].target] = Sku(p)
           /\ press'[p].at = "added" => create[p] = "201"
           /\ press'[p].at \in {"taken", "notfound", "searching"} => create[p] = "409"
  <2>1. press \in [Tx -> Presses \cup {Unpressed}]
    BY DEF ConsoleIInv, ConsoleTypeOK
  <2>2. CASE UNCHANGED press
    BY <2>1, <2>2
  <2>3. CASE ListArrives(c)
    <3>1. \A p \in Searching(c) :
            LET k == Search(press[p], fetch[c].rewards) IN
            /\ k \in Presses /\ k.name = press[p].name /\ k.kind = press[p].kind
            /\ \/ k.at = "notfound" /\ k.target = press[p].target
               \/ k.at = "giving" /\ k.target \in Catalogue /\ sku[k.target] = Sku(p)
      <4> SUFFICES ASSUME NEW p \in Searching(c)
                   PROVE  LET k == Search(press[p], fetch[c].rewards) IN
            /\ k \in Presses /\ k.name = press[p].name /\ k.kind = press[p].kind
            /\ \/ k.at = "notfound" /\ k.target = press[p].target
               \/ k.at = "giving" /\ k.target \in Catalogue /\ sku[k.target] = Sku(p)
        OBVIOUS
      <4>1. p \in Tx /\ fetch[c].rewards \subseteq Catalogue
        BY DEF Searching, Pending, ConsoleIInv, ListsAreOnFile
      <4> QED BY <1>1, <4>1, SearchFinds
    <3>2. /\ \A p \in Tx \ Searching(c) : press'[p] = press[p]
          /\ \A p \in Searching(c) : p \in Tx /\ press'[p] = Search(press[p], fetch[c].rewards)
          /\ press' = [p \in Tx |-> press'[p]]
      BY <2>3 DEF ListArrives, Searching, Pending
    <3>3. press' \in [Tx -> Presses \cup {Unpressed}]
      BY <2>1, <3>1, <3>2
    <3> QED BY <1>1, <3>1, <3>2, <3>3
  <2>4. CASE ListFails(c)
    <3>1. /\ \A p \in Tx \ Searching(c) : press'[p] = press[p]
          /\ \A p \in Searching(c) : p \in Tx /\ press'[p] = [press[p] EXCEPT !.at = "failed"]
          /\ press' = [p \in Tx |-> press'[p]]
      BY <2>4 DEF ListFails, Searching, Pending
    <3>2. \A p \in Searching(c) :
            /\ press'[p] \in Presses /\ press'[p].at = "failed"
            /\ press'[p].name = press[p].name /\ press'[p].kind = press[p].kind
            /\ press'[p].target = press[p].target
      <4> SUFFICES ASSUME NEW p \in Searching(c)
                   PROVE  /\ press'[p] \in Presses /\ press'[p].at = "failed"
                          /\ press'[p].name = press[p].name /\ press'[p].kind = press[p].kind
                          /\ press'[p].target = press[p].target
        OBVIOUS
      <4>1. press[p] \in Presses /\ press'[p] = [press[p] EXCEPT !.at = "failed"]
        BY <1>1, <3>1
      <4> QED BY <4>1 DEF Presses
    <3>3. \A p \in Tx : press'[p] \in Presses \cup {Unpressed}
      <4> SUFFICES ASSUME NEW p \in Tx PROVE press'[p] \in Presses \cup {Unpressed}
        OBVIOUS
      <4>1. CASE p \in Searching(c)
        BY <3>2, <4>1
      <4>2. CASE p \notin Searching(c)
        BY <2>1, <3>1, <4>2
      <4> QED BY <4>1, <4>2
    <3>4. press' \in [Tx -> Presses \cup {Unpressed}]
      BY <3>1, <3>3
    <3> QED BY <1>1, <3>1, <3>2, <3>4
  <2> QED BY <2>2, <2>3, <2>4 DEF Ages, Refetch, ListAnswered
<1>4. CreationsFollow' /\ PressesFollow' /\ MacroGivesItsReward'
  BY <1>0, <1>3, PageFrame
<1>5. ConsoleTypeOK'
  BY <1>0, <1>2, <1>3 DEF ConsoleIInv, ConsoleTypeOK, Untouched
<1> QED BY <1>0, <1>2, <1>4, <1>5, CatalogueFrame DEF ConsoleIInv

-----------------------------------------------------------------------------
LEMMA InvalidateKeeps ==
  ASSUME ConsoleIInv, NEW c \in Consoles, Invalidate(c), Catalogue' = Catalogue
  PROVE  /\ list' \in [Consoles -> [loaded : BOOLEAN, fresh : BOOLEAN, rewards : SUBSET Xids]]
         /\ fetch' \in [Consoles -> [at : {"idle", "sent", "got"}, rewards : SUBSET Xids]]
         /\ ListsAreOnFile'
<1>1. /\ \A d \in Consoles : list[d].rewards \subseteq Catalogue
      /\ \A d \in Consoles : fetch[d].rewards \subseteq Catalogue
      /\ list \in [Consoles -> [loaded : BOOLEAN, fresh : BOOLEAN, rewards : SUBSET Xids]]
      /\ fetch \in [Consoles -> [at : {"idle", "sent", "got"}, rewards : SUBSET Xids]]
  BY DEF ConsoleIInv, ConsoleTypeOK, ListsAreOnFile
<1> QED BY <1>1 DEF Invalidate, ListsAreOnFile, Sent

\* A press that is answered moves on; no other press does.
LEMMA AnswerOutcome ==
  ASSUME ConsoleIInv, NEW p \in Tx, Answer(p) \/ RequestLost(p)
  PROVE  \/ \E at \in {"added", "taken", "failed", "searching", "done"} :
              /\ press' = [press EXCEPT ![p].at = at]
              /\ at = "added" => create[p] = "201" /\ Invalidate(press[p].console)
              /\ at \in {"taken", "searching"} => create[p] = "409"
         \/ press' = [press EXCEPT ![p] = Give(press[p], p)] /\ create[p] = "201"
         \/ /\ press' = [press EXCEPT ![p] = Search(press[p], list[press[p].console].rewards)]
            /\ create[p] = "409" /\ press[p].kind = "macro"
<1>1. press \in [Tx -> Presses \cup {Unpressed}]
  BY DEF ConsoleIInv, ConsoleTypeOK
<1>2. CASE FormAnswered(p)
  BY <1>1, <1>2 DEF FormAnswered, Outcome
<1>3. CASE MacroAnswered(p)
  BY <1>1, <1>3 DEF MacroAnswered, Outcome
<1>4. CASE AllocationAnswered(p)
  BY <1>1, <1>4 DEF AllocationAnswered, Outcome
<1>5. CASE RequestLost(p)
  BY <1>1, <1>5 DEF RequestLost, Outcome
<1> QED BY <1>2, <1>3, <1>4, <1>5 DEF Answer

LEMMA AnswerInv ==
  ASSUME ConsoleIInv, NEW p \in Tx, Answer(p) \/ RequestLost(p)
  PROVE  ConsoleIInv'
<1> DEFINE c == press[p].console
<1>0. Untouched /\ UNCHANGED create
  BY DEF Untouched, Answer, RequestLost, FormAnswered, MacroAnswered, AllocationAnswered
<1>1. /\ press[p] \in Presses /\ press[p] # Unpressed /\ c \in Consoles
      /\ press \in [Tx -> Presses \cup {Unpressed}]
      /\ list \in [Consoles -> [loaded : BOOLEAN, fresh : BOOLEAN, rewards : SUBSET Xids]]
      /\ fetch \in [Consoles -> [at : {"idle", "sent", "got"}, rewards : SUBSET Xids]]
      /\ Catalogue' = Catalogue
  BY <1>0, PressedOrNot, CatalogueFrame
     DEF Answer, RequestLost, FormAnswered, MacroAnswered, AllocationAnswered, ConsoleIInv,
         ConsoleTypeOK, Presses, Unpressed
<1>2. /\ list' \in [Consoles -> [loaded : BOOLEAN, fresh : BOOLEAN, rewards : SUBSET Xids]]
      /\ fetch' \in [Consoles -> [at : {"idle", "sent", "got"}, rewards : SUBSET Xids]]
      /\ ListsAreOnFile'
  <2>1. CASE Invalidate(c)
    BY <1>1, <2>1, InvalidateKeeps
  <2>2. CASE UNCHANGED <<list, fetch>>
    BY <1>1, <2>2 DEF ConsoleIInv, ListsAreOnFile
  <2>3. CASE UNCHANGED list /\ fetch' = [fetch EXCEPT ![c] = IF @ = Unsent THEN Sent ELSE @]
    <3> HIDE DEF c
    <3> QED BY <1>1, <2>3 DEF ConsoleIInv, ListsAreOnFile, Sent
  <2> QED BY <2>1, <2>2, <2>3
        DEF Answer, RequestLost, FormAnswered, MacroAnswered, AllocationAnswered
<1>3. \/ \E at \in {"added", "taken", "failed", "searching", "done"} :
           /\ press' = [press EXCEPT ![p].at = at]
           /\ at = "added" => create[p] = "201"
           /\ at \in {"taken", "searching"} => create[p] = "409"
      \/ /\ press' = [press EXCEPT ![p] = Give(press[p], p)]
         /\ create[p] = "201"
      \/ /\ press' = [press EXCEPT ![p] = Search(press[p], list[c].rewards)]
         /\ create[p] = "409" /\ press[p].kind = "macro"
  BY AnswerOutcome
<1>4. /\ press' = [press EXCEPT ![p] = press'[p]] /\ press'[p] \in Presses
      /\ press'[p].at # "new" /\ press[p].at # "new"
      /\ press'[p].name = press[p].name /\ press'[p].kind = press[p].kind
      /\ \/ press'[p].target = press[p].target
         \/ press'[p].target \in Catalogue /\ sku[press'[p].target] = Sku(p)
      /\ press'[p].at = "added" => create[p] = "201"
      /\ press'[p].at \in {"taken", "notfound", "searching"} => create[p] = "409"
  <2>1. ASSUME NEW at \in {"added", "taken", "failed", "searching", "done"},
               press' = [press EXCEPT ![p].at = at],
               at = "added" => create[p] = "201",
               at \in {"taken", "searching"} => create[p] = "409"
        PROVE  /\ press' = [press EXCEPT ![p] = press'[p]] /\ press'[p] \in Presses
               /\ press'[p].at # "new" /\ press[p].at # "new"
               /\ press'[p].name = press[p].name /\ press'[p].kind = press[p].kind
               /\ \/ press'[p].target = press[p].target
                  \/ press'[p].target \in Catalogue /\ sku[press'[p].target] = Sku(p)
               /\ press'[p].at = "added" => create[p] = "201"
               /\ press'[p].at \in {"taken", "notfound", "searching"} => create[p] = "409"
    BY <1>1, <2>1 DEF Presses
  <2>2. CASE press' = [press EXCEPT ![p] = Give(press[p], p)] /\ create[p] = "201"
    <3>1. p \in Catalogue /\ sku[p] = Sku(p)
      BY <2>2, <1>1, NoSkuIsNone, UpperIsIdempotent
         DEF ConsoleIInv, CreationsFollow, Catalogue, OnFile, IsCommitted, Xids, Sku, Presses
    <3> QED BY <1>1, <2>2, <3>1 DEF Give, Presses, Xids
  <2>3. CASE /\ press' = [press EXCEPT ![p] = Search(press[p], list[c].rewards)]
             /\ create[p] = "409" /\ press[p].kind = "macro"
    <3>1. list[c].rewards \subseteq Catalogue
      BY <1>1 DEF ConsoleIInv, ListsAreOnFile
    <3> HIDE DEF c
    <3> QED BY <1>1, <2>3, <3>1, SearchFinds DEF Presses
  <2> QED BY <1>3, <2>1, <2>2, <2>3
<1>5. press' \in [Tx -> Presses \cup {Unpressed}] /\ \A q \in Tx \ {p} : press'[q] = press[q]
  BY <1>1, <1>4
<1>6. CreationsFollow' /\ PressesFollow' /\ MacroGivesItsReward'
  BY <1>0, <1>4, <1>5, PageFrame
<1>7. ConsoleTypeOK'
  BY <1>0, <1>2, <1>5 DEF ConsoleIInv, ConsoleTypeOK, Untouched
<1> QED BY <1>0, <1>2, <1>6, <1>7, CatalogueFrame DEF ConsoleIInv

\* A press that is new: what it asks for is sent.
LEMMA PressInv ==
  ASSUME ConsoleIInv, NEW c \in Consoles, NEW p \in Tx,
         RunMacro(c, p) \/ AllocateChosen(c, p) \/ SubmitForm(c, p)
  PROVE  ConsoleIInv'
<1>1. /\ press[p] = Unpressed /\ Untouched /\ UNCHANGED <<list, fetch>>
      /\ press \in [Tx -> Presses \cup {Unpressed}]
      /\ create \in [Tx -> {"none", "sent", "insert", "inserted", "201", "409", "500"}]
      /\ list[c].rewards \subseteq Catalogue /\ Catalogue \subseteq Xids
  BY DEF RunMacro, AllocateChosen, SubmitForm, Post, Untouched, ConsoleIInv, ConsoleTypeOK,
         ListsAreOnFile, Catalogue
<1>2. PICK k \in Presses :
        /\ press' = [press EXCEPT ![p] = k]
        /\ create' = IF k.at = "creating" THEN [create EXCEPT ![p] = "sent"] ELSE create
        /\ k.at \in {"creating", "giving"} /\ k.name \in Names
        /\ k.kind # "form" => Upper[k.name] = k.name
        /\ k.target # NoReward => k.target \in Catalogue /\ sku[k.target] = Upper[k.name]
  <2>1. CASE RunMacro(c, p)
    <3>1. PICK m \in Macros :
            Post(p, IF Holding(list[c].rewards, m) = {} THEN Pressed(c, "macro", m)
                    ELSE Search(Pressed(c, "macro", m), list[c].rewards))
      BY <2>1 DEF RunMacro
    <3>2. m \in Names /\ Upper[m] = m
      BY MacrosAreNormalised
    <3>3. CASE Holding(list[c].rewards, m) = {}
      <4> DEFINE k == Pressed(c, "macro", m)
      <4>1. k \in Presses /\ k.at = "creating" /\ k.name = m /\ k.target = NoReward
        BY <3>2 DEF Pressed, Presses
      <4>2. Post(p, k)
        BY <3>1, <3>3
      <4> HIDE DEF k
      <4> QED BY <3>2, <4>1, <4>2 DEF Post
    <3>4. CASE Holding(list[c].rewards, m) # {}
      <4> DEFINE r == CHOOSE r \in Holding(list[c].rewards, m) : TRUE
                 k == Give(Pressed(c, "macro", m), r)
      <4>1. r \in Holding(list[c].rewards, m)
        BY <3>4
      <4>2. r \in Catalogue /\ sku[r] = m
        BY <1>1, <4>1 DEF Holding
      <4>3. Post(p, k)
        BY <3>1, <3>4 DEF Search, Pressed
      <4> HIDE DEF r
      <4>4. k \in Presses /\ k.at = "giving" /\ k.name = m /\ k.target = r
        BY <1>1, <3>2, <4>2 DEF Give, Pressed, Presses
      <4> HIDE DEF k
      <4> QED BY <3>2, <4>2, <4>3, <4>4 DEF Post
    <3> QED BY <3>3, <3>4
  <2>2. CASE AllocateChosen(c, p)
    <3>1. PICK r \in list[c].rewards : Post(p, Give(Pressed(c, "allocate", sku[r]), r))
      BY <2>2 DEF AllocateChosen
    <3>2. r \in Catalogue /\ r \in Xids /\ sku[r] \in Names /\ Upper[sku[r]] = sku[r]
      BY <1>1 DEF ConsoleIInv, SkusAreNormalised, Catalogue, OnFile
    <3> DEFINE k == Give(Pressed(c, "allocate", sku[r]), r)
    <3>3. k \in Presses /\ k.at = "giving" /\ k.name = sku[r] /\ k.target = r
      BY <3>2 DEF Give, Pressed, Presses
    <3>4. Post(p, k)
      BY <3>1
    <3> HIDE DEF k
    <3> QED BY <3>2, <3>3, <3>4 DEF Post
  <2>3. CASE SubmitForm(c, p)
    <3>1. PICK n \in Typed : Post(p, Pressed(c, "form", n))
      BY <2>3 DEF SubmitForm
    <3> DEFINE k == Pressed(c, "form", n)
    <3>2. k \in Presses /\ k.at = "creating" /\ k.kind = "form" /\ k.target = NoReward
      BY TypedAreNames DEF Pressed, Presses
    <3>3. Post(p, k)
      BY <3>1
    <3> HIDE DEF k
    <3> QED BY <3>2, <3>3 DEF Post, Presses
  <2> QED BY <2>1, <2>2, <2>3
<1>3. Catalogue' = Catalogue
  BY <1>1, CatalogueFrame
<1>4. /\ press'[p] = k /\ create[p] = "none" /\ create'[p] \in {"none", "sent"}
      /\ sku[p] = NoSku /\ clog[p] = "new" /\ k # Unpressed
      /\ \A q \in Tx \ {p} : press'[q] = press[q] /\ create'[q] = create[q]
  BY <1>1, <1>2 DEF ConsoleIInv, CreationsFollow, Presses, Unpressed
<1>5. CreationsFollow'
  BY <1>1, <1>4 DEF ConsoleIInv, CreationsFollow, Untouched, Sku
<1>6. PressesFollow'
  BY <1>1, <1>2, <1>3, <1>4 DEF ConsoleIInv, PressesFollow, Untouched, Sku
<1>7. MacroGivesItsReward'
  BY <1>1, <1>2, <1>3, <1>4 DEF ConsoleIInv, MacroGivesItsReward, Untouched, Sku
<1>8. ConsoleTypeOK' /\ ListsAreOnFile'
  BY <1>1, <1>2, <1>3 DEF ConsoleIInv, ConsoleTypeOK, ListsAreOnFile, Untouched
<1> QED BY <1>1, <1>5, <1>6, <1>7, <1>8, CatalogueFrame DEF ConsoleIInv

-----------------------------------------------------------------------------
LEMMA NextInv == ConsoleIInv /\ [ConsoleNext]_consoleVars => ConsoleIInv'
<1> SUFFICES ASSUME ConsoleIInv, [ConsoleNext]_consoleVars PROVE ConsoleIInv'
  OBVIOUS
<1>1. CASE UNCHANGED consoleVars
  BY <1>1 DEF consoleVars, ConsoleIInv, ConsoleTypeOK, CreationsFollow, StockedIsOnFile,
     SkusAreNormalised, IndexIsUnique, ListsAreOnFile, PressesFollow, MacroGivesItsReward,
     Catalogue, OnFile, IsCommitted, Sku
<1> QED BY <1>1, ServeInv, AnswerInv, ListInv, PressInv DEF ConsoleNext

(* The inductive invariant: where each creation and each press has got to.    *)
THEOREM ConsoleSafe == ConsoleSpec => []ConsoleIInv
<1> QED BY InitInv, NextInv, PTL DEF ConsoleSpec

(* However SKUs are typed and creations overlap, no two rewards of the        *)
(* catalogue have the same SKU (createReward, and the unique index).          *)
THEOREM SkusAreUnique == ConsoleSpec => []OneRewardPerSku
<1>1. ConsoleIInv => OneRewardPerSku
  BY DEF ConsoleIInv, OneRewardPerSku, IndexIsUnique, SkusAreNormalised, Catalogue, OnFile,
     IsCommitted
<1> QED BY <1>1, ConsoleSafe, PTL

(* A macro only ever allocates the reward of its own SKU (runMacro).          *)
THEOREM MacrosAreFaithful == ConsoleSpec => []MacroGivesItsReward
<1>1. ConsoleIInv => MacroGivesItsReward
  BY DEF ConsoleIInv
<1> QED BY <1>1, ConsoleSafe, PTL

(* "It is in the catalogue", "That SKU is taken" and "Could not find or       *)
(* create" are told when they are so (RewardAdmin.tsx).                       *)
THEOREM AnswersAreSo == ConsoleSpec => []ConsoleAnswersAreTrue
<1>1. ConsoleIInv => ConsoleAnswersAreTrue
  <2> SUFFICES ASSUME ConsoleIInv, NEW p \in Tx, press[p].at \in {"added", "taken", "notfound"}
               PROVE  /\ press[p].at = "added" => OnFile(p)
                      /\ press[p].at \in {"taken", "notfound"} => ~ OnFile(p)
                      /\ Holding(Catalogue, Sku(p)) # {}
    BY DEF ConsoleAnswersAreTrue
  <2>1. press[p] # Unpressed /\ press[p] \in Presses
    BY PressedOrNot DEF ConsoleIInv, Unpressed
  <2>2. CASE press[p].at = "added"
    <3>1. OnFile(p) /\ p \in Catalogue /\ sku[p] = Sku(p)
      BY <2>1, <2>2, NoSkuIsNone, UpperIsIdempotent
         DEF ConsoleIInv, PressesFollow, CreationsFollow, OnFile, IsCommitted, Catalogue, Xids,
             Sku, Presses
    <3> QED BY <2>2, <3>1 DEF Holding
  <2>3. CASE press[p].at \in {"taken", "notfound"}
    BY <2>1, <2>3 DEF ConsoleIInv, PressesFollow, CreationsFollow, OnFile, IsCommitted, Holding
  <2> QED BY <2>2, <2>3
<1> QED BY <1>1, ConsoleSafe, PTL

-----------------------------------------------------------------------------
\* No answer to a query that was sent before a reward of this console's form was
\* told to be there is on its way.
FetchIsNewer ==
  \A p \in Tx : \A c \in Consoles :
    list[c].loaded /\ fetch[c].at = "got" /\ press[p].at = "added" /\ press[p].console = c
      => p \in fetch[c].rewards

LEMMA AddedIsOnFile ==
  ASSUME ConsoleIInv, NEW p \in Tx, press[p].at = "added"
  PROVE  p \in Catalogue
<1>1. press[p] # Unpressed /\ press[p] \in Presses
  BY PressedOrNot DEF ConsoleIInv, Unpressed
<1> QED BY <1>1, NoSkuIsNone, UpperIsIdempotent
        DEF ConsoleIInv, PressesFollow, CreationsFollow, Catalogue, OnFile, IsCommitted, Xids,
            Sku, Presses

LEMMA NewerInit == ConsoleInit => FetchIsNewer
BY DEF ConsoleInit, FetchIsNewer, Unpressed

\* Whoever is told of a new reward has just invalidated the list.
LEMMA NewerNext ==
  ASSUME ConsoleIInv, ConsoleIInv', FetchIsNewer, [ConsoleNext]_consoleVars
  PROVE  FetchIsNewer'
<1> SUFFICES ASSUME NEW p \in Tx, NEW c \in Consoles, list'[c].loaded, fetch'[c].at = "got",
                    press'[p].at = "added", press'[p].console = c
             PROVE  p \in fetch'[c].rewards
  BY DEF FetchIsNewer
<1>0. /\ list \in [Consoles -> [loaded : BOOLEAN, fresh : BOOLEAN, rewards : SUBSET Xids]]
      /\ fetch \in [Consoles -> [at : {"idle", "sent", "got"}, rewards : SUBSET Xids]]
      /\ press \in [Tx -> Presses \cup {Unpressed}]
      /\ press' \in [Tx -> Presses \cup {Unpressed}]
  BY DEF ConsoleIInv, ConsoleTypeOK
<1>1. CASE UNCHANGED <<press, list, fetch>>
  BY <1>1 DEF FetchIsNewer
<1>2. ASSUME NEW q \in Tx, Answer(q) \/ RequestLost(q)
      PROVE  p \in fetch'[c].rewards
  <2>1. CASE press'[p] = press[p] /\ press[p].console # press[q].console
    <3>1. list'[c] = list[c] /\ fetch'[c] = fetch[c]
      BY <1>0, <1>2, <2>1 DEF Answer, RequestLost, FormAnswered, MacroAnswered,
         AllocationAnswered, Invalidate
    <3> QED BY <2>1, <3>1 DEF FetchIsNewer
  <2>2. CASE press'[p] = press[p] /\ press[p].console = press[q].console
    <3>1. \/ Invalidate(press[q].console)
          \/ list' = list /\ fetch' = fetch
          \/ list' = list /\ fetch' = [fetch EXCEPT ![press[q].console] =
                                          IF @ = Unsent THEN Sent ELSE @]
      BY <1>2 DEF Answer, RequestLost, FormAnswered, MacroAnswered, AllocationAnswered
    <3>2. list'[c].loaded = list[c].loaded /\ (fetch'[c] = Sent \/ fetch'[c] = fetch[c])
      <4>1. press[q].console = c
        BY <2>2
      <4>2. CASE Invalidate(c)
        BY <1>0, <4>2 DEF Invalidate
      <4>3. CASE list' = list /\ fetch' = fetch
        BY <4>3
      <4>4. CASE list' = list /\ fetch' = [fetch EXCEPT ![c] = IF @ = Unsent THEN Sent ELSE @]
        BY <1>0, <4>4
      <4> QED BY <3>1, <4>1, <4>2, <4>3, <4>4
    <3> QED BY <2>2, <3>2 DEF FetchIsNewer, Sent
  <2>3. CASE press'[p] # press[p]
    <3>1. p = q /\ press[p] \in Presses
      BY <1>0, <1>2, <2>3, PressedOrNot DEF Answer, RequestLost, FormAnswered, MacroAnswered,
         AllocationAnswered, Outcome, Unpressed
    <3>2. Invalidate(press[p].console) /\ press[p].console = c
      <4>1. CASE \E at \in {"added", "taken", "failed", "searching", "done"} :
                   /\ press' = [press EXCEPT ![p].at = at]
                   /\ at = "added" => create[p] = "201" /\ Invalidate(press[p].console)
                   /\ at \in {"taken", "searching"} => create[p] = "409"
        BY <1>0, <3>1, <4>1 DEF Presses
      <4>2. CASE press' = [press EXCEPT ![p] = Give(press[p], p)]
        <5>1. press'[p].at = "giving"
          BY <1>0, <3>1, <4>2 DEF Give, Presses
        <5> QED BY <5>1
      <4>3. CASE /\ press' = [press EXCEPT ![p] =
                                Search(press[p], list[press[p].console].rewards)]
                 /\ press[p].kind = "macro"
        <5>1. press[p] # Unpressed /\ list[press[p].console].rewards \subseteq Catalogue
          BY <3>1, PressedOrNot DEF ConsoleIInv, ListsAreOnFile, Presses, Unpressed
        <5>2. press'[p].at \in {"notfound", "giving"}
          BY <1>0, <4>3, <5>1, SearchFinds
        <5> QED BY <5>2
      <4> QED BY <1>2, <3>1, <4>1, <4>2, <4>3, AnswerOutcome
    <3>3. fetch'[c] = Sent
      BY <1>0, <3>2 DEF Invalidate
    <3> QED BY <3>3 DEF Sent
  <2> QED BY <2>1, <2>2, <2>3
<1>3. ASSUME NEW d \in Consoles, ListAnswered(d)
      PROVE  p \in fetch'[c].rewards
  <2>1. press' = press /\ list' = list
    BY <1>3 DEF ListAnswered
  <2>2. CASE d = c
    BY <1>0, <1>3, <2>1, <2>2, AddedIsOnFile DEF ListAnswered
  <2>3. CASE d # c
    BY <1>0, <1>3, <2>1, <2>3 DEF ListAnswered, FetchIsNewer
  <2> QED BY <2>2, <2>3
<1>4. ASSUME NEW d \in Consoles, Ages(d) \/ Refetch(d)
      PROVE  p \in fetch'[c].rewards
  <2>1. press' = press /\ list'[c].loaded = list[c].loaded
        /\ (fetch'[c] = fetch[c] \/ fetch'[c] = Sent)
    BY <1>0, <1>4 DEF Ages, Refetch
  <2> QED BY <2>1 DEF FetchIsNewer, Sent
<1>5. ASSUME NEW d \in Consoles, ListArrives(d) \/ ListFails(d)
      PROVE  p \in fetch'[c].rewards
  <2>1. fetch'[c] # Unsent
    BY DEF Unsent
  <2>2. c # d /\ list'[c] = list[c] /\ fetch'[c] = fetch[c]
    BY <1>0, <1>5, <2>1 DEF ListArrives, ListFails
  <2>3. p \notin Searching(d)
    <3>1. CASE p \in Searching(d)
      <4>1. /\ press[p] \in Presses /\ press[p] # Unpressed /\ press[p].kind = "macro"
            /\ fetch[d].rewards \subseteq Catalogue
        BY <3>1, PressedOrNot
           DEF ConsoleIInv, ListsAreOnFile, Searching, Pending, Unpressed
      <4>2. CASE ListArrives(d)
        <5>1. press'[p] = Search(press[p], fetch[d].rewards)
          BY <3>1, <4>2 DEF ListArrives
        <5>2. press'[p].at \in {"notfound", "giving"}
          BY <4>1, <5>1, SearchFinds
        <5> QED BY <5>2
      <4>3. CASE ListFails(d)
        <5>1. press'[p] = [press[p] EXCEPT !.at = "failed"]
          BY <3>1, <4>3 DEF ListFails
        <5> QED BY <4>1, <5>1 DEF Presses
      <4> QED BY <1>5, <4>2, <4>3
    <3> QED BY <3>1
  <2>4. press'[p] = press[p]
    BY <1>5, <2>3 DEF ListArrives, ListFails
  <2> QED BY <2>2, <2>4 DEF FetchIsNewer
<1>6. ASSUME NEW d \in Consoles, NEW q \in Tx,
             RunMacro(d, q) \/ AllocateChosen(d, q) \/ SubmitForm(d, q)
      PROVE  p \in fetch'[c].rewards
  <2>1. list' = list /\ fetch' = fetch
    BY <1>6 DEF RunMacro, AllocateChosen, SubmitForm, Post
  <2>2. press'[p] = press[p]
    <3>1. \A r \in Tx \ {q} : press'[r] = press[r]
      BY <1>0, <1>6 DEF RunMacro, AllocateChosen, SubmitForm, Post
    <3>2. CASE p = q
      <4>1. create[p] = "none"
        BY <1>6, <3>2 DEF ConsoleIInv, CreationsFollow, RunMacro, AllocateChosen, SubmitForm,
           ConsoleTypeOK
      <4>2. create'[p] \in {"none", "sent"}
        BY <3>2, <1>6, <4>1 DEF ConsoleIInv, ConsoleTypeOK, RunMacro, AllocateChosen,
           SubmitForm, Post
      <4> QED BY <4>2, <1>0, PressedOrNot DEF ConsoleIInv, PressesFollow, Unpressed
    <3> QED BY <3>1, <3>2
  <2> QED BY <2>1, <2>2 DEF FetchIsNewer
<1>7. ASSUME NEW q \in Tx, Serve(q) PROVE p \in fetch'[c].rewards
  BY <1>1, <1>7 DEF Serve, LookUp, SkuTaken, Insert, InsertRefused, CommitCreate, CreateThrows,
     Allocate
<1> QED BY <1>1, <1>2, <1>3, <1>4, <1>5, <1>6, <1>7 DEF ConsoleNext, consoleVars

(* A list that is refreshed offers every reward its console was told is       *)
(* there: no older answer can arrive after that (CreateReward in              *)
(* RewardAdmin.tsx).                                                          *)
THEOREM RefreshIsComplete == ConsoleSpec => RefreshShowsWhatWasAdded
<1>1. ASSUME ConsoleIInv, FetchIsNewer, [ConsoleNext]_consoleVars, NEW c \in Consoles,
             list[c].loaded, ~ list[c].fresh, list'[c].fresh, NEW p \in Tx,
             press[p].at = "added", press[p].console = c
      PROVE  p \in list'[c].rewards
  <2>0. /\ list \in [Consoles -> [loaded : BOOLEAN, fresh : BOOLEAN, rewards : SUBSET Xids]]
        /\ list'[c] # list[c]
    BY <1>1 DEF ConsoleIInv, ConsoleTypeOK
  <2>1. ListArrives(c)
    <3>1. ASSUME NEW q \in Tx, Serve(q) \/ RequestLost(q) PROVE list' = list
      BY <3>1 DEF Serve, LookUp, SkuTaken, Insert, InsertRefused, CommitCreate, CreateThrows,
         Allocate, RequestLost
    <3>2. ASSUME NEW q \in Tx, Answer(q) PROVE ~ list'[c].fresh
      BY <1>1, <2>0, <3>2 DEF Answer, FormAnswered, MacroAnswered, AllocationAnswered, Invalidate
    <3>3. ASSUME NEW d \in Consoles, NEW q \in Tx,
                 RunMacro(d, q) \/ AllocateChosen(d, q) \/ SubmitForm(d, q)
          PROVE  list' = list
      BY <3>3 DEF RunMacro, AllocateChosen, SubmitForm, Post
    <3>4. ASSUME NEW d \in Consoles,
                 Ages(d) \/ Refetch(d) \/ ListAnswered(d) \/ ListFails(d)
          PROVE  list'[c] = list[c] \/ ~ list'[c].fresh
      BY <2>0, <3>4 DEF Ages, Refetch, ListAnswered, ListFails
    <3>5. ASSUME NEW d \in Consoles, ListArrives(d), d # c PROVE list'[c] = list[c]
      BY <2>0, <3>5 DEF ListArrives
    <3> QED BY <1>1, <2>0, <3>1, <3>2, <3>3, <3>4, <3>5 DEF ConsoleNext, consoleVars
  <2> QED BY <1>1, <2>0, <2>1 DEF ListArrives, FetchIsNewer
<1>2. ConsoleIInv /\ FetchIsNewer /\ [ConsoleNext]_consoleVars =>
        (\A c \in Consoles : list[c].loaded /\ ~ list[c].fresh /\ list'[c].fresh =>
          \A p \in Tx : press[p].at = "added" /\ press[p].console = c => p \in list'[c].rewards)
  BY <1>1
<1>3. ConsoleSpec => [](ConsoleIInv /\ FetchIsNewer)
  BY ConsoleSafe, NewerInit, NewerNext, PTL DEF ConsoleSpec
<1> QED BY <1>2, <1>3, PTL DEF ConsoleSpec, RefreshShowsWhatWasAdded
=============================================================================
