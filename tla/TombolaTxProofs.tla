--------------------------- MODULE TombolaTxProofs ---------------------------
(***************************************************************************)
(* Proofs about TombolaTx, for any prizes, names and number of tickets,    *)
(* any clients, settings and both isolation levels.                        *)
(***************************************************************************)
EXTENDS TombolaTx, FiniteSetTheorems, TLAPS

(***************************************************************************)
(* A request has the arguments of its operation and is at one of its       *)
(* steps.                                                                  *)
(***************************************************************************)
Formed(x) ==
  /\ x \in Tx
  /\ x.op = "none" => x.at = "idle"
  /\ x.op = "patchPrizeTicket" =>
       /\ x.prize \in Prize /\ x.ticket \in TicketId
       /\ x.at \in {"enter", "prizeRow", "ticketRow", "collection", "commit"}
  /\ x.op = "patchPrizeName" =>
       /\ x.prize \in Prize /\ x.name \in Name
       /\ x.at \in {"enter", "prizeRow", "commit"}
  /\ x.op = "deleteTicket" =>
       /\ x.ticket \in TicketId
       /\ x.at \in {"enter", "ticketRow", "allPrizes", "collection", "commit"}
  /\ x.op = "putTickets" => x.at \in {"enter", "insert", "commit"}

(***************************************************************************)
(* A prize that will be written has been loaded before.                    *)
(***************************************************************************)
Loaded(x) ==
  /\ x.op = "patchPrizeTicket" /\ x.at \in {"ticketRow", "collection", "commit"} =>
       x.rows[x.prize] \in Store!PrizeRow
  /\ x.op = "patchPrizeName" /\ x.at = "commit" => x.rows[x.prize] \in Store!PrizeRow
  /\ x.op = "deleteTicket" /\ x.at \in {"collection", "commit"} =>
       x.rows \in [Prize -> Store!PrizeRow]

(***************************************************************************)
(* A collection about to be written back, however stale, has no ticket     *)
(* that is free now: what has won can only be deleted.                     *)
(***************************************************************************)
Copied(x) ==
  x.op = "patchPrizeTicket" /\ x.at = "commit" =>
    /\ x.old \subseteq seen
    /\ \A t \in x.old \cap tickets : win[t] # NoPrize

\* The ids of tickets inserted and not committed are nobody else's.
Inserting(x) == x.op = "putTickets" /\ x.at = "commit"
InsertsFresh ==
  \A c \in Client : Inserting(tx[c]) =>
    /\ tx[c].old \subseteq 1 .. lastId
    /\ tx[c].old \cap seen = {}
    /\ \A d \in Client \ {c} : Inserting(tx[d]) => tx[c].old \cap tx[d].old = {}

IInv ==
  /\ TypeOK
  /\ \A c \in Client : Formed(tx[c]) /\ Loaded(tx[c]) /\ Copied(tx[c])
  /\ seen \subseteq 1 .. lastId
  /\ InsertsFresh
  /\ ListedOnce(Tables) /\ ListedExist(Tables)
  /\ FreeIsUnlisted

-----------------------------------------------------------------------------
(* Constants and rows *)

LEMMA NoPrizeIsNone == NoPrize \notin Prize
  BY PrizeAssumption DEF NoPrize, Store!NoPrize

(***************************************************************************)
(* A finite set of numbers has a least one: its initial segments are       *)
(* finite sets, among which strict inclusion is well founded.              *)
(***************************************************************************)
LEMMA Least ==
  ASSUME NEW S \in SUBSET Nat, S # {}, IsFiniteSet(S)
  PROVE  \E p \in S : \A q \in S : p <= q
  <1> DEFINE upTo(p) == {q \in S : q <= p}
             family == {upTo(p) : p \in S}
  <1>1. IsWellFoundedOn(StrictSubsetOrdering(S), FiniteSubsetsOf(S))
    BY FS_StrictSubsetOrderingWellFounded
  <1>2. family \subseteq FiniteSubsetsOf(S)
    <2>1. ASSUME NEW p \in S PROVE upTo(p) \in FiniteSubsetsOf(S)
      <3>1. upTo(p) \in SUBSET S
        OBVIOUS
      <3>2. IsFiniteSet(upTo(p))
        BY <3>1, FS_Subset
      <3> QED BY <3>1, <3>2 DEF FiniteSubsetsOf
    <2> HIDE DEF upTo
    <2> QED BY <2>1
  <1>3. PICK A \in family : \A B \in family : ~(<<B, A>> \in StrictSubsetOrdering(S))
    <2>1. family # {}
      OBVIOUS
    <2> HIDE DEF family
    <2> QED BY <1>1, <1>2, <2>1, WFMin
  <1>4. PICK p \in S : A = upTo(p)
    OBVIOUS
  <1>5. ASSUME NEW q \in S, ~(p <= q) PROVE FALSE
    <2>1. p \in Nat /\ q \in Nat /\ q < p
      BY <1>5
    <2>2. \A r \in S : r <= q => r <= p
      BY <2>1
    <2>3. upTo(q) \subseteq upTo(p) /\ p \in upTo(p) /\ p \notin upTo(q)
      <3> HIDE DEF family
      <3>1. upTo(q) \subseteq upTo(p)
        BY <2>2
      <3>2. p \in upTo(p) /\ p \notin upTo(q)
        BY <2>1
      <3> QED BY <3>1, <3>2
    <2>4. <<upTo(q), upTo(p)>> \in StrictSubsetOrdering(S)
      BY <2>3 DEF StrictSubsetOrdering
    <2> QED BY <1>3, <1>4, <2>4
  <1>6. \A q \in S : p <= q
    BY <1>5
  <1> QED BY <1>6

LEMMA TablesAre ==
  /\ Tables.prize = prize /\ Tables.tickets = tickets
  /\ Tables.win = win /\ Tables.listed = listed
  BY DEF Tables

LEMMA IdleFormed == Formed(Idle) /\ Loaded(Idle) /\ Copied(Idle) /\ ~Inserting(Idle)
  <1> USE DEF Idle, Tx, Row, NoRows, NoTicket, NoPrize, Store!NoPrize, Op
  <1>1. Idle \in Tx
    OBVIOUS
  <1> QED BY <1>1 DEF Formed, Loaded, Copied, Inserting

LEMMA AsksFormed ==
  ASSUME NEW op \in Op, NEW p \in Prize \cup {NoPrize},
         NEW t \in TicketId \cup {NoTicket}, NEW n \in Name \cup {NoName},
         op \in {"patchPrizeTicket", "patchPrizeName"} => p \in Prize,
         op \in {"patchPrizeTicket", "deleteTicket"} => t \in TicketId,
         op = "patchPrizeName" => n \in Name,
         NEW r, r = Asks(op, p, t, n)
  PROVE  /\ Formed(r) /\ Loaded(r) /\ Copied(r) /\ ~Inserting(r)
         /\ r.at = "enter" /\ r.op \in Op
  <1>1. NoRows \in [Prize -> Row]
    BY DEF NoRows, Row
  <1>2. r \in Tx
    BY <1>1 DEF Asks, Tx
  <1>3. r.at = "enter" /\ r.op = op /\ r.prize = p /\ r.ticket = t /\ r.name = n
    BY DEF Asks
  <1> QED BY <1>2, <1>3 DEF Formed, Loaded, Copied, Inserting, Op

LEMMA RequestFormed ==
  ASSUME NEW r \in Request
  PROVE  /\ Formed(r) /\ Loaded(r) /\ Copied(r) /\ ~Inserting(r)
         /\ r.at = "enter" /\ r.op \in Op
  <1>1. CASE \E p \in Prize, t \in TicketId : r = Asks("patchPrizeTicket", p, t, NoName)
    BY <1>1, AsksFormed DEF Op
  <1>2. CASE \E p \in Prize, n \in Name : r = Asks("patchPrizeName", p, NoTicket, n)
    BY <1>2, AsksFormed DEF Op
  <1>3. CASE \E t \in TicketId : r = Asks("deleteTicket", NoPrize, t, NoName)
    BY <1>3, AsksFormed DEF Op
  <1>4. CASE r = Asks("putTickets", NoPrize, NoTicket, NoName)
    BY <1>4, AsksFormed DEF Op
  <1> QED BY <1>1, <1>2, <1>3, <1>4 DEF Request

-----------------------------------------------------------------------------
(* Steps that write nothing *)

(***************************************************************************)
(* A step of one thread that leaves the tables alone keeps the invariant   *)
(* if what the thread holds afterwards is in order.                        *)
(***************************************************************************)
LEMMA LocalStep ==
  ASSUME IInv, NEW c \in Client, NEW y,
         tx' = [tx EXCEPT ![c] = y],
         UNCHANGED <<setting, db, lastId>>,
         formLock' \in FormClients \cup {Nobody},
         serviceLock' \in Client \cup {Nobody},
         Formed(y), Loaded(y), Copied(y), ~Inserting(y)
  PROVE  IInv'
  <1> USE DEF IInv, db
  <1>1. tx' \in [Client -> Tx] /\ tx'[c] = y /\ \A d \in Client \ {c} : tx'[d] = tx[d]
    BY DEF TypeOK, Formed
  <1>2. TypeOK'
    BY <1>1 DEF TypeOK, Store!TypeOK
  <1>3. ASSUME NEW d \in Client
        PROVE  (Formed(tx[d]) /\ Loaded(tx[d]) /\ Copied(tx[d]))'
    <2>1. CASE d = c
      BY <1>1, <2>1 DEF Copied
    <2>2. CASE d # c
      BY <1>1, <2>2 DEF Copied
    <2> QED BY <2>1, <2>2
  <1>4. InsertsFresh'
    <2>1. \A d \in Client : Inserting(tx'[d]) => d # c /\ tx'[d] = tx[d] /\ Inserting(tx[d])
      BY <1>1
    <2> QED BY <2>1 DEF InsertsFresh
  <1>5. ListedOnce(Tables)' /\ ListedExist(Tables)' /\ FreeIsUnlisted'
    BY DEF ListedOnce, ListedExist, Tables, FreeIsUnlisted
  <1> QED BY <1>2, <1>3, <1>4, <1>5

(***************************************************************************)
(* What the steps make of a request, field by field.                       *)
(***************************************************************************)
LEMMA AtChanged ==
  ASSUME NEW x \in Tx, NEW y,
         NEW at \in {"enter", "prizeRow", "ticketRow", "allPrizes", "collection",
                    "insert", "commit"},
         y = [x EXCEPT !.at = at]
  PROVE  /\ y \in Tx /\ y.at = at
         /\ y.op = x.op /\ y.prize = x.prize /\ y.ticket = x.ticket /\ y.name = x.name
         /\ y.rows = x.rows /\ y.old = x.old /\ y.holders = x.holders /\ y.todo = x.todo
  BY DEF Tx

LEMMA PrizeRowRead ==
  ASSUME Store!TypeOK, NEW x \in Tx, x.prize \in Prize, NEW y, y = WithPrizeRow(x)
  PROVE  /\ y \in Tx
         /\ y.at = x.at /\ y.op = x.op /\ y.prize = x.prize /\ y.ticket = x.ticket
         /\ y.name = x.name /\ y.old = x.old /\ y.holders = x.holders /\ y.todo = x.todo
         /\ y.rows[x.prize] = prize[x.prize] /\ y.rows[x.prize] \in Store!PrizeRow
  <1>1. prize[x.prize] \in Store!PrizeRow /\ prize[x.prize] \in Row
    BY DEF Store!TypeOK, Store!PrizeRow, Row
  <1>2. x.rows \in [Prize -> Row]
    BY DEF Tx
  <1> DEFINE rows == [x.rows EXCEPT ![x.prize] = prize[x.prize]]
  <1>3. rows \in [Prize -> Row] /\ rows[x.prize] = prize[x.prize]
    BY <1>1, <1>2
  <1>4. y = [x EXCEPT !.rows = rows]
    BY DEF WithPrizeRow
  <1> HIDE DEF rows
  <1> QED BY <1>1, <1>3, <1>4 DEF Tx

LEMMA CollectionRead ==
  ASSUME Store!TypeOK, NEW x \in Tx, x.prize \in Prize, NEW y, y = WithCollection(x)
  PROVE  /\ y \in Tx
         /\ y.at = x.at /\ y.op = x.op /\ y.prize = x.prize /\ y.ticket = x.ticket
         /\ y.name = x.name /\ y.rows = x.rows /\ y.holders = x.holders /\ y.todo = x.todo
         /\ y.old = listed[x.prize]
  <1>1. listed[x.prize] \in SUBSET TicketId
    BY DEF Store!TypeOK, TicketId
  <1>2. y = [x EXCEPT !.old = listed[x.prize]]
    BY DEF WithCollection
  <1> QED BY <1>1, <1>2 DEF Tx

LEMMA HoldersRead ==
  ASSUME Store!TypeOK, NEW x \in Tx, NEW searched \in SUBSET Prize,
         NEW y, y = WithHolders(x, searched)
  PROVE  /\ y \in Tx
         /\ y.at = x.at /\ y.op = x.op /\ y.prize = x.prize /\ y.ticket = x.ticket
         /\ y.name = x.name /\ y.rows = x.rows /\ y.old = x.old
         /\ y.todo = x.todo \ searched
         /\ y.holders = x.holders \cup {p \in searched : x.ticket \in listed[p]}
  <1> DEFINE h == x.holders \cup {p \in searched : x.ticket \in listed[p]}
             td == x.todo \ searched
  <1>1. h \in SUBSET Prize /\ td \in SUBSET Prize
    BY DEF Tx
  <1>2. y = [[x EXCEPT !.todo = td] EXCEPT !.holders = h]
    BY DEF WithHolders, Tx
  <1> HIDE DEF h, td
  <1>3. /\ y \in Tx
        /\ y.at = x.at /\ y.op = x.op /\ y.prize = x.prize /\ y.ticket = x.ticket
        /\ y.name = x.name /\ y.rows = x.rows /\ y.old = x.old
        /\ y.todo = td /\ y.holders = h
    BY <1>1, <1>2 DEF Tx
  <1> QED BY <1>3 DEF h, td

LEMMA AllPrizesRead ==
  ASSUME Store!TypeOK, NEW x \in Tx, NEW y, y = [x EXCEPT !.rows = prize]
  PROVE  /\ y \in Tx
         /\ y.at = x.at /\ y.op = x.op /\ y.prize = x.prize /\ y.ticket = x.ticket
         /\ y.name = x.name /\ y.old = x.old /\ y.holders = x.holders /\ y.todo = x.todo
         /\ y.rows = prize /\ prize \in [Prize -> Store!PrizeRow]
  <1>1. prize \in [Prize -> Row] /\ prize \in [Prize -> Store!PrizeRow]
    BY DEF Store!TypeOK, Store!PrizeRow, Row
  <1> QED BY <1>1 DEF Tx

-----------------------------------------------------------------------------
(* The steps of a request before it commits, one lemma for each action *)

LEMMA BeginFormKeeps ==
  ASSUME IInv, NEW c \in FormClients, BeginForm(c), UNCHANGED setting
  PROVE  IInv'
  <1>1. PICK r \in Request : tx' = [tx EXCEPT ![c] = r]
    BY DEF BeginForm
  <1>2. Formed(r) /\ Loaded(r) /\ Copied(r) /\ ~Inserting(r)
    BY RequestFormed
  <1> QED BY <1>1, <1>2, LocalStep DEF BeginForm, Client, IInv, TypeOK

LEMMA BeginRestKeeps ==
  ASSUME IInv, NEW c \in RestClients, BeginRest(c), UNCHANGED setting
  PROVE  IInv'
  <1>1. PICK r \in Request : tx' = [tx EXCEPT ![c] = r]
    BY DEF BeginRest
  <1>2. Formed(r) /\ Loaded(r) /\ Copied(r) /\ ~Inserting(r)
    BY RequestFormed
  <1> QED BY <1>1, <1>2, LocalStep DEF BeginRest, Client, IInv, TypeOK

LEMMA EnterKeeps ==
  ASSUME IInv, NEW c \in Client, Enter(c), UNCHANGED setting
  PROVE  IInv'
  <1> DEFINE x == tx[c]
             y == [x EXCEPT !.at = FirstRead(x.op)]
  <1>1. x \in Tx /\ Formed(x) /\ Loaded(x) /\ x.at = "enter"
    BY DEF IInv, TypeOK, Enter
  <1>2. x.op \in Op
    BY <1>1 DEF Formed, Tx
  <1>3. /\ FirstRead(x.op) \in {"prizeRow", "ticketRow", "insert"}
        /\ x.op \in {"patchPrizeTicket", "patchPrizeName"} => FirstRead(x.op) = "prizeRow"
        /\ x.op = "deleteTicket" => FirstRead(x.op) = "ticketRow"
        /\ x.op = "putTickets" => FirstRead(x.op) = "insert"
    BY <1>2 DEF FirstRead, Op
  <1>4. /\ y \in Tx /\ y.at = FirstRead(x.op)
        /\ y.op = x.op /\ y.prize = x.prize /\ y.ticket = x.ticket /\ y.name = x.name
    <2> HIDE DEF x
    <2> QED BY <1>1, <1>3, AtChanged
  <1>5. tx' = [tx EXCEPT ![c] = y]
    BY DEF Enter, Goto, IInv, TypeOK
  <1> HIDE DEF y
  <1>6. Formed(y) /\ Loaded(y) /\ Copied(y) /\ ~Inserting(y)
    BY <1>1, <1>2, <1>3, <1>4 DEF Formed, Loaded, Copied, Inserting, Op
  <1> QED BY <1>5, <1>6, LocalStep DEF Enter, IInv, TypeOK

LEMMA ReadPrizeRowKeeps ==
  ASSUME IInv, NEW c \in Client, ReadPrizeRow(c), UNCHANGED setting
  PROVE  IInv'
  <1> DEFINE x == tx[c]
             z == WithPrizeRow(x)
  <1>1. x \in Tx /\ Formed(x) /\ x.at = "prizeRow" /\ Store!TypeOK
    BY DEF IInv, TypeOK, ReadPrizeRow
  <1>2. x.op \in {"patchPrizeTicket", "patchPrizeName"} /\ x.prize \in Prize
    BY <1>1 DEF Formed, Tx, Op
  <1>3. /\ z \in Tx /\ z.op = x.op /\ z.prize = x.prize /\ z.ticket = x.ticket
        /\ z.name = x.name /\ z.rows[x.prize] \in Store!PrizeRow
    <2> HIDE DEF x
    <2> QED BY <1>1, <1>2, PrizeRowRead
  <1>4. CASE x.op = "patchPrizeName"
    <2> DEFINE y == [z EXCEPT !.at = "commit"]
    <2>1. tx' = [tx EXCEPT ![c] = y] /\ serviceLock' = Nobody /\ UNCHANGED <<db, lastId, formLock>>
      BY <1>4 DEF ReadPrizeRow, LeaveWith
    <2>2. /\ y \in Tx /\ y.at = "commit" /\ y.op = z.op /\ y.prize = z.prize
          /\ y.ticket = z.ticket /\ y.name = z.name /\ y.rows = z.rows
      <3> HIDE DEF z
      <3> QED BY <1>3, AtChanged
    <2> HIDE DEF y, z
    <2>3. Formed(y) /\ Loaded(y) /\ Copied(y) /\ ~Inserting(y)
      BY <1>1, <1>3, <1>4, <2>2 DEF Formed, Loaded, Copied, Inserting
    <2> QED BY <2>1, <2>3, LocalStep DEF IInv, TypeOK
  <1>5. CASE x.op = "patchPrizeTicket"
    <2> DEFINE y == [z EXCEPT !.at = "ticketRow"]
    <2>1. tx' = [tx EXCEPT ![c] = y] /\ UNCHANGED <<db, lastId, formLock, serviceLock>>
      BY <1>5 DEF ReadPrizeRow
    <2>2. /\ y \in Tx /\ y.at = "ticketRow" /\ y.op = z.op /\ y.prize = z.prize
          /\ y.ticket = z.ticket /\ y.name = z.name /\ y.rows = z.rows
      <3> HIDE DEF z
      <3> QED BY <1>3, AtChanged
    <2> HIDE DEF y, z
    <2>3. Formed(y) /\ Loaded(y) /\ Copied(y) /\ ~Inserting(y)
      BY <1>1, <1>3, <1>5, <2>2 DEF Formed, Loaded, Copied, Inserting
    <2> QED BY <2>1, <2>3, LocalStep DEF IInv, TypeOK
  <1> QED BY <1>2, <1>4, <1>5

LEMMA ReadTicketRowKeeps ==
  ASSUME IInv, NEW c \in Client, ReadTicketRow(c), UNCHANGED setting
  PROVE  IInv'
  <1> DEFINE x == tx[c]
             at == IF x.op = "deleteTicket" THEN "allPrizes" ELSE "collection"
             y == [x EXCEPT !.at = at]
  <1>1. x \in Tx /\ Formed(x) /\ Loaded(x) /\ x.at = "ticketRow"
    BY DEF IInv, TypeOK, ReadTicketRow
  <1>2. x.op \in {"patchPrizeTicket", "deleteTicket"}
    BY <1>1 DEF Formed, Tx, Op
  <1>3. tx' = [tx EXCEPT ![c] = y]
    BY DEF ReadTicketRow, Goto, IInv, TypeOK
  <1>4. at \in {"allPrizes", "collection"} /\ (x.op = "patchPrizeTicket" => at = "collection")
        /\ (x.op = "deleteTicket" => at = "allPrizes")
    OBVIOUS
  <1> HIDE DEF at
  <1>5. /\ y \in Tx /\ y.at = at /\ y.op = x.op /\ y.prize = x.prize /\ y.ticket = x.ticket
        /\ y.name = x.name /\ y.rows = x.rows
    <2> HIDE DEF x
    <2> QED BY <1>1, <1>4, AtChanged
  <1> HIDE DEF y
  <1>6. Formed(y) /\ Loaded(y) /\ Copied(y) /\ ~Inserting(y)
    BY <1>1, <1>2, <1>4, <1>5 DEF Formed, Loaded, Copied, Inserting, Op
  <1> QED BY <1>3, <1>6, LocalStep DEF ReadTicketRow, IInv, TypeOK

LEMMA ReadAllPrizesKeeps ==
  ASSUME IInv, NEW c \in Client, ReadAllPrizes(c), UNCHANGED setting
  PROVE  IInv'
  <1> DEFINE x == tx[c]
             z == [x EXCEPT !.rows = prize]
             y == [[z EXCEPT !.at = "collection"] EXCEPT !.todo = Prize]
  <1>1. x \in Tx /\ Formed(x) /\ x.at = "allPrizes" /\ Store!TypeOK
    BY DEF IInv, TypeOK, ReadAllPrizes
  <1>2. x.op = "deleteTicket"
    BY <1>1 DEF Formed, Tx, Op
  <1>3. tx' = [tx EXCEPT ![c] = [x EXCEPT !.at = "collection", !.rows = prize, !.todo = Prize]]
    BY DEF ReadAllPrizes
  <1>4. [x EXCEPT !.at = "collection", !.rows = prize, !.todo = Prize] = y
    BY <1>1 DEF Tx
  <1>5. z \in Tx /\ z.op = x.op /\ z.ticket = x.ticket /\ z.rows \in [Prize -> Store!PrizeRow]
    <2> HIDE DEF x
    <2> QED BY <1>1, AllPrizesRead
  <1> HIDE DEF z
  <1>6. y \in Tx /\ y.at = "collection" /\ y.op = z.op /\ y.ticket = z.ticket /\ y.rows = z.rows
    BY <1>5 DEF Tx
  <1> HIDE DEF y
  <1>7. Formed(y) /\ Loaded(y) /\ Copied(y) /\ ~Inserting(y)
    BY <1>1, <1>2, <1>5, <1>6 DEF Formed, Loaded, Copied, Inserting
  <1> QED BY <1>3, <1>4, <1>7, LocalStep DEF ReadAllPrizes, IInv, TypeOK

(***************************************************************************)
(* A collection as it is committed: its tickets are known, and those that  *)
(* exist have won.                                                         *)
(***************************************************************************)
LEMMA CollectionIsCopied ==
  ASSUME IInv, NEW p \in Prize
  PROVE  listed[p] \subseteq seen /\ \A t \in listed[p] \cap tickets : win[t] # NoPrize
  <1>1. listed[p] \subseteq tickets
    BY DEF IInv, ListedExist, Tables
  <1>2. tickets \subseteq seen
    BY DEF IInv, TypeOK, Store!TypeOK
  <1> QED BY <1>1, <1>2 DEF IInv, FreeIsUnlisted

LEMMA FirstTodoIsOne ==
  ASSUME NEW x \in Tx, x.todo # {}
  PROVE  FirstTodo(x) \in x.todo
  <1>1. x.todo \in SUBSET Nat /\ IsFiniteSet(x.todo)
    BY PrizeAssumption, FS_Subset DEF Tx
  <1> QED BY <1>1, Least DEF FirstTodo

LEMMA ReadCollectionKeeps ==
  ASSUME IInv, NEW c \in Client, ReadCollection(c), UNCHANGED setting
  PROVE  IInv'
  <1> DEFINE x == tx[c]
  <1>1. x \in Tx /\ Formed(x) /\ Loaded(x) /\ x.at = "collection" /\ Store!TypeOK
    BY DEF IInv, TypeOK, ReadCollection
  <1>2. CASE x.op = "patchPrizeTicket"
    <2> DEFINE z == WithCollection(x)
               y == [z EXCEPT !.at = "commit"]
    <2>1. tx' = [tx EXCEPT ![c] = y] /\ serviceLock' = Nobody /\ UNCHANGED <<db, lastId, formLock>>
      BY <1>2 DEF ReadCollection, LeaveWith
    <2>2. x.prize \in Prize
      BY <1>1, <1>2 DEF Formed
    <2>3. /\ z \in Tx /\ z.op = x.op /\ z.prize = x.prize /\ z.ticket = x.ticket
          /\ z.rows = x.rows /\ z.old = listed[x.prize]
      <3> HIDE DEF x
      <3> QED BY <1>1, <2>2, CollectionRead
    <2>4. /\ y \in Tx /\ y.at = "commit" /\ y.op = z.op /\ y.prize = z.prize
          /\ y.ticket = z.ticket /\ y.rows = z.rows /\ y.old = z.old
      <3> HIDE DEF z
      <3> QED BY <2>3, AtChanged
    <2> HIDE DEF y, z
    <2>5. Formed(y) /\ Loaded(y) /\ ~Inserting(y)
      BY <1>1, <1>2, <2>3, <2>4 DEF Formed, Loaded, Inserting
    <2>6. Copied(y)
      BY <2>2, <2>3, <2>4, CollectionIsCopied DEF Copied
    <2> QED BY <2>1, <2>5, <2>6, LocalStep DEF IInv, TypeOK
  <1>3. CASE x.op = "deleteTicket" /\ x.todo # {}
    <2> DEFINE y == WithHolders(x, {FirstTodo(x)})
    <2>1. tx' = [tx EXCEPT ![c] = y] /\ UNCHANGED <<db, lastId, formLock, serviceLock>>
      BY <1>3 DEF ReadCollection
    <2>2. {FirstTodo(x)} \in SUBSET Prize
      BY <1>1, <1>3, FirstTodoIsOne DEF Tx
    <2>3. /\ y \in Tx /\ y.at = x.at /\ y.op = x.op /\ y.ticket = x.ticket /\ y.rows = x.rows
      <3> HIDE DEF x
      <3> QED BY <1>1, <2>2, HoldersRead
    <2> HIDE DEF y
    <2>4. Formed(y) /\ Loaded(y) /\ Copied(y) /\ ~Inserting(y)
      BY <1>1, <1>3, <2>3 DEF Formed, Loaded, Copied, Inserting
    <2> QED BY <2>1, <2>4, LocalStep DEF IInv, TypeOK
  <1>4. CASE x.op = "deleteTicket" /\ x.todo = {}
    <2> DEFINE y == [x EXCEPT !.at = "commit"]
    <2>1. tx' = [tx EXCEPT ![c] = y] /\ serviceLock' = Nobody /\ UNCHANGED <<db, lastId, formLock>>
      BY <1>4 DEF ReadCollection, LeaveWith
    <2>2. y \in Tx /\ y.at = "commit" /\ y.op = x.op /\ y.ticket = x.ticket /\ y.rows = x.rows
      <3> HIDE DEF x
      <3> QED BY <1>1, AtChanged
    <2> HIDE DEF y
    <2>3. Formed(y) /\ Loaded(y) /\ Copied(y) /\ ~Inserting(y)
      BY <1>1, <1>4, <2>2 DEF Formed, Loaded, Copied, Inserting
    <2> QED BY <2>1, <2>3, LocalStep DEF IInv, TypeOK
  <1> QED BY <1>2, <1>3, <1>4 DEF ReadCollection

(***************************************************************************)
(* What a request has read at one instant, ready to be committed.          *)
(***************************************************************************)
Snapshot(x) ==
  CASE x.op = "patchPrizeName" -> WithPrizeRow(x)
    [] x.op = "patchPrizeTicket" -> WithCollection(WithPrizeRow(x))
    [] x.op = "deleteTicket" -> WithHolders([x EXCEPT !.rows = prize], Prize)

LEMMA SnapshotIs ==
  ASSUME Store!TypeOK, NEW x \in Tx, Formed(x), x.at \in {"prizeRow", "ticketRow"},
         NEW y, y = [Snapshot(x) EXCEPT !.at = "commit"]
  PROVE  /\ y \in Tx /\ y.at = "commit" /\ y.op = x.op /\ y.prize = x.prize
         /\ y.ticket = x.ticket /\ y.name = x.name
         /\ x.op \in {"patchPrizeTicket", "patchPrizeName"} =>
              x.prize \in Prize /\ y.rows[x.prize] = prize[x.prize]
                /\ y.rows[x.prize] \in Store!PrizeRow
         /\ x.op = "patchPrizeTicket" => y.old = listed[x.prize]
         /\ x.op = "deleteTicket" =>
              /\ y.rows = prize /\ prize \in [Prize -> Store!PrizeRow]
              /\ y.holders = x.holders \cup {p \in Prize : x.ticket \in listed[p]}
  <1> DEFINE s == Snapshot(x)
  <1>1. x.op \in {"patchPrizeTicket", "patchPrizeName", "deleteTicket"}
    BY DEF Formed, Tx, Op
  <1>2. CASE x.op = "patchPrizeName"
    <2>1. s = WithPrizeRow(x) /\ x.prize \in Prize
      BY <1>2 DEF Snapshot, Formed
    <2>2. /\ s \in Tx /\ s.op = x.op /\ s.prize = x.prize /\ s.ticket = x.ticket /\ s.name = x.name
          /\ s.rows[x.prize] = prize[x.prize] /\ s.rows[x.prize] \in Store!PrizeRow
      BY <2>1, PrizeRowRead
    <2> HIDE DEF s
    <2>3. /\ y \in Tx /\ y.at = "commit" /\ y.op = s.op /\ y.prize = s.prize
          /\ y.ticket = s.ticket /\ y.name = s.name /\ y.rows = s.rows
      BY <2>2, AtChanged DEF s
    <2> QED BY <1>2, <2>1, <2>2, <2>3
  <1>3. CASE x.op = "patchPrizeTicket"
    <2> DEFINE w == WithPrizeRow(x)
    <2>1. s = WithCollection(w) /\ x.prize \in Prize
      BY <1>3 DEF Snapshot, Formed
    <2>2. /\ w \in Tx /\ w.op = x.op /\ w.prize = x.prize /\ w.ticket = x.ticket /\ w.name = x.name
          /\ w.rows[x.prize] = prize[x.prize] /\ w.rows[x.prize] \in Store!PrizeRow
      BY <2>1, PrizeRowRead
    <2> HIDE DEF w, s
    <2>3. /\ s \in Tx /\ s.op = w.op /\ s.prize = w.prize /\ s.ticket = w.ticket
          /\ s.name = w.name /\ s.rows = w.rows /\ s.old = listed[w.prize]
      BY <2>1, <2>2, CollectionRead
    <2>4. /\ y \in Tx /\ y.at = "commit" /\ y.op = s.op /\ y.prize = s.prize
          /\ y.ticket = s.ticket /\ y.name = s.name /\ y.rows = s.rows /\ y.old = s.old
      BY <2>3, AtChanged DEF s
    <2> QED BY <1>3, <2>1, <2>2, <2>3, <2>4
  <1>4. CASE x.op = "deleteTicket"
    <2> DEFINE w == [x EXCEPT !.rows = prize]
    <2>1. s = WithHolders(w, Prize)
      BY <1>4 DEF Snapshot
    <2>2. /\ w \in Tx /\ w.op = x.op /\ w.prize = x.prize /\ w.ticket = x.ticket
          /\ w.name = x.name /\ w.rows = prize /\ w.holders = x.holders
          /\ prize \in [Prize -> Store!PrizeRow]
      BY AllPrizesRead
    <2> HIDE DEF w, s
    <2>3. /\ s \in Tx /\ s.op = w.op /\ s.prize = w.prize /\ s.ticket = w.ticket
          /\ s.name = w.name /\ s.rows = w.rows
          /\ s.holders = w.holders \cup {p \in Prize : w.ticket \in listed[p]}
      BY <2>1, <2>2, HoldersRead
    <2>4. /\ y \in Tx /\ y.at = "commit" /\ y.op = s.op /\ y.prize = s.prize
          /\ y.ticket = s.ticket /\ y.name = s.name /\ y.rows = s.rows /\ y.holders = s.holders
      BY <2>3, AtChanged DEF s
    <2> QED BY <1>4, <2>1, <2>2, <2>3, <2>4
  <1> QED BY <1>1, <1>2, <1>3, <1>4

LEMMA ReadSnapshotKeeps ==
  ASSUME IInv, NEW c \in Client, ReadSnapshot(c), UNCHANGED setting
  PROVE  IInv'
  <1> DEFINE x == tx[c]
             y == [Snapshot(x) EXCEPT !.at = "commit"]
  <1>1. /\ x \in Tx /\ Formed(x) /\ Store!TypeOK /\ x.at \in {"prizeRow", "ticketRow"}
        /\ tx' = [tx EXCEPT ![c] = y] /\ serviceLock' = Nobody
        /\ UNCHANGED <<db, lastId, formLock>>
    BY DEF IInv, TypeOK, ReadSnapshot, LeaveWith, Snapshot
  <1>2. x.op \in {"patchPrizeTicket", "patchPrizeName", "deleteTicket"}
    BY <1>1 DEF Formed, Tx, Op
  <1>3. /\ y \in Tx /\ y.at = "commit" /\ y.op = x.op /\ y.prize = x.prize
        /\ y.ticket = x.ticket /\ y.name = x.name
        /\ x.op \in {"patchPrizeTicket", "patchPrizeName"} =>
             x.prize \in Prize /\ y.rows[x.prize] \in Store!PrizeRow
        /\ x.op = "patchPrizeTicket" => y.old = listed[x.prize]
        /\ x.op = "deleteTicket" => y.rows \in [Prize -> Store!PrizeRow]
    <2> HIDE DEF x
    <2> QED BY <1>1, SnapshotIs
  <1> HIDE DEF y
  <1>4. Formed(y)
    BY <1>1, <1>2, <1>3 DEF Formed
  <1>5. Loaded(y) /\ ~Inserting(y)
    BY <1>1, <1>2, <1>3 DEF Loaded, Inserting
  <1>6. Copied(y)
    BY <1>1, <1>2, <1>3, CollectionIsCopied DEF Copied
  <1> QED BY <1>1, <1>4, <1>5, <1>6, LocalStep DEF IInv, TypeOK

(***************************************************************************)
(* A request that ends without a write: refused, rejected or failed.       *)
(***************************************************************************)
LEMMA ReleaseKeeps ==
  ASSUME IInv, NEW c \in Client, Release(c), UNCHANGED <<setting, db, lastId>>
  PROVE  IInv'
  BY IdleFormed, LocalStep DEF Release, IInv, TypeOK

LEMMA InsertKeeps ==
  ASSUME IInv, NEW c \in Client, Insert(c), UNCHANGED setting
  PROVE  IInv'
  <1> DEFINE x == tx[c]
  <1>1. /\ x \in Tx /\ Formed(x) /\ x.at = "insert"
        /\ lastId \in Nat /\ lastId <= MaxTicketId /\ MaxTicketId \in Nat
    BY TicketIdAssumption DEF IInv, TypeOK, Insert
  <1>2. PICK n \in 0 .. MaxTicketId - lastId :
          /\ lastId' = lastId + n
          /\ tx' = [tx EXCEPT ![c].at = "commit", ![c].old = lastId + 1 .. lastId + n]
    BY DEF Insert
  <1> DEFINE ids == lastId + 1 .. lastId + n
             z == [x EXCEPT !.at = "commit"]
             y == [z EXCEPT !.old = ids]
  <1>3. tx' = [tx EXCEPT ![c] = y]
    BY <1>2 DEF IInv, TypeOK
  <1>4. ids \in SUBSET TicketId /\ lastId' \in 0 .. MaxTicketId /\ lastId <= lastId'
        /\ ids \subseteq 1 .. lastId' /\ ids \cap 1 .. lastId = {}
    BY <1>1, <1>2 DEF TicketId, Store!TicketId
  <1> HIDE DEF ids
  <1>5. z \in Tx /\ z.at = "commit" /\ z.op = x.op
    <2> HIDE DEF x
    <2> QED BY <1>1, AtChanged
  <1> HIDE DEF z
  <1>6. y \in Tx /\ y.at = "commit" /\ y.op = x.op /\ y.old = ids
    BY <1>4, <1>5 DEF Tx
  <1> HIDE DEF y
  <1>7. x.op = "putTickets"
    BY <1>1 DEF Formed, Tx, Op
  <1>8. tx' \in [Client -> Tx] /\ tx'[c] = y /\ \A d \in Client \ {c} : tx'[d] = tx[d]
    BY <1>3, <1>6 DEF IInv, TypeOK
  <1>9. UNCHANGED <<db, formLock>> /\ serviceLock' = Nobody
    BY DEF Insert
  <1>10. TypeOK'
    BY <1>4, <1>8, <1>9 DEF IInv, TypeOK, Store!TypeOK, db
  <1>11. Formed(y) /\ Loaded(y)
    BY <1>6, <1>7 DEF Formed, Loaded
  <1>12. ASSUME NEW d \in Client
         PROVE  (Formed(tx[d]) /\ Loaded(tx[d]) /\ Copied(tx[d]))'
    <2>1. CASE d = c
      BY <1>6, <1>7, <1>8, <1>11, <2>1 DEF Copied
    <2>2. CASE d # c
      BY <1>8, <1>9, <2>2 DEF IInv, Copied, db
    <2> QED BY <2>1, <2>2
  <1>13. (seen \subseteq 1 .. lastId)'
    BY <1>1, <1>4, <1>9 DEF IInv, db
  <1>14. InsertsFresh'
    <2> SUFFICES ASSUME NEW d \in Client, Inserting(tx[d])'
                 PROVE  (/\ tx[d].old \subseteq 1 .. lastId
                         /\ tx[d].old \cap seen = {}
                         /\ \A e \in Client \ {d} :
                              Inserting(tx[e]) => tx[d].old \cap tx[e].old = {})'
      BY DEF InsertsFresh
    <2>1. \A e \in Client \ {c} : Inserting(tx[e]) =>
            /\ tx[e].old \subseteq 1 .. lastId /\ tx[e].old \cap seen = {}
            /\ tx[e].old \subseteq 1 .. lastId'
            /\ tx[e].old \cap ids = {}
      BY <1>1, <1>4 DEF IInv, InsertsFresh
    <2>2. CASE d = c
      BY <1>4, <1>6, <1>8, <1>9, <2>1, <2>2 DEF IInv, Inserting, db
    <2>3. CASE d # c
      <3>1. tx'[d] = tx[d] /\ Inserting(tx[d])
        BY <1>8, <2>3
      <3>2. \A e \in Client \ {d} : Inserting(tx'[e]) => tx[d].old \cap tx'[e].old = {}
        <4> SUFFICES ASSUME NEW e \in Client \ {d}, Inserting(tx'[e])
                     PROVE  tx[d].old \cap tx'[e].old = {}
          OBVIOUS
        <4>1. CASE e = c
          BY <1>6, <1>8, <2>1, <2>3, <3>1, <4>1
        <4>2. CASE e # c
          BY <1>8, <3>1, <4>2 DEF IInv, InsertsFresh
        <4> QED BY <4>1, <4>2
      <3> QED BY <1>9, <2>1, <2>3, <3>1, <3>2 DEF db
    <2> QED BY <2>2, <2>3
  <1>15. ListedOnce(Tables)' /\ ListedExist(Tables)' /\ FreeIsUnlisted'
    BY <1>9 DEF IInv, db, ListedOnce, ListedExist, Tables, FreeIsUnlisted
  <1> QED BY <1>10, <1>12, <1>13, <1>14, <1>15 DEF IInv

-----------------------------------------------------------------------------
(* Commits *)

(***************************************************************************)
(* What is known of the tables d a session with request x leaves behind.   *)
(***************************************************************************)
Orderly(x, d) ==
  /\ d.prize \in [Prize -> Store!PrizeRow] /\ d.tickets \in SUBSET TicketId
  /\ d.win \in [TicketId -> Prize \cup {NoPrize}] /\ d.listed \in [Prize -> SUBSET TicketId]
  /\ d.tickets \subseteq tickets \cup (IF Inserting(x) THEN x.old ELSE {})
  /\ \A t \in d.tickets \cap tickets : win[t] # NoPrize => d.win[t] # NoPrize
  /\ \A p \in Prize : \A t \in d.tickets : d.win[t] = NoPrize => t \notin d.listed[p]
  /\ ListedOnce(d) =>
       \A p \in Prize : \A t \in listed[p] \cap d.tickets : win[t] = p => d.win[t] = p

LEMMA TablesTyped ==
  ASSUME IInv
  PROVE  /\ prize \in [Prize -> Store!PrizeRow] /\ tickets \in SUBSET TicketId
         /\ win \in [TicketId -> Prize \cup {NoPrize}] /\ listed \in [Prize -> SUBSET TicketId]
         /\ \A p \in Prize : listed[p] \subseteq tickets
         /\ tickets \subseteq seen
  BY DEF IInv, TypeOK, Store!TypeOK, TicketId, NoPrize, ListedExist, Tables

LEMMA AfterDrawIs ==
  ASSUME IInv, NEW x, Formed(x), Loaded(x), x.at = "commit", x.op = "patchPrizeTicket",
         NEW d, d = After(x)
  PROVE  /\ x.prize \in Prize /\ x.ticket \in TicketId /\ x.rows[x.prize] \in Store!PrizeRow
         /\ d.prize = [prize EXCEPT ![x.prize] = [prizeName |-> x.rows[x.prize].prizeName,
                                                  issued |-> x.rows[x.prize].issued + 1]]
         /\ d.tickets = tickets
         /\ d.win = [win EXCEPT ![x.ticket] = x.prize]
         /\ d.listed = [listed EXCEPT ![x.prize] = Kept(x) \cup {x.ticket}]
  <1> DEFINE p == x.prize
             row == x.rows[p]
             newRow == [row EXCEPT !.issued = @ + 1]
  <1>1. p \in Prize /\ x.ticket \in TicketId /\ row \in Store!PrizeRow
    BY DEF Formed, Loaded
  <1>2. newRow = [prizeName |-> row.prizeName, issued |-> row.issued + 1]
    BY <1>1 DEF Store!PrizeRow
  <1>3. d = [Tables EXCEPT !.prize = [@ EXCEPT ![p] = newRow],
                           !.win = [@ EXCEPT ![x.ticket] = p],
                           !.listed = [@ EXCEPT ![p] = Kept(x) \cup {x.ticket}]]
    BY DEF After, AfterPatchPrizeTicket
  <1> HIDE DEF newRow
  <1> DEFINE P == [prize EXCEPT ![p] = newRow]
             W == [win EXCEPT ![x.ticket] = p]
             L == [listed EXCEPT ![p] = Kept(x) \cup {x.ticket}]
  <1>4. d = [[[Tables EXCEPT !.prize = P] EXCEPT !.win = W] EXCEPT !.listed = L]
    BY <1>3 DEF Tables
  <1> HIDE DEF P, W, L
  <1>5. d.prize = P /\ d.tickets = tickets /\ d.win = W /\ d.listed = L
    BY <1>4 DEF Tables
  <1> QED BY <1>1, <1>2, <1>5 DEF P, W, L

LEMMA AfterDrawOrderly ==
  ASSUME IInv, NEW x, Formed(x), Loaded(x), Copied(x), x.at = "commit",
         x.op = "patchPrizeTicket"
  PROVE  Orderly(x, After(x))
  <1> DEFINE d == After(x)
             newRow == [prizeName |-> x.rows[x.prize].prizeName,
                        issued |-> x.rows[x.prize].issued + 1]
  <1>1. /\ x.prize \in Prize /\ x.ticket \in TicketId /\ x.rows[x.prize] \in Store!PrizeRow
        /\ d.prize = [prize EXCEPT ![x.prize] = newRow]
        /\ d.tickets = tickets
        /\ d.win = [win EXCEPT ![x.ticket] = x.prize]
        /\ d.listed = [listed EXCEPT ![x.prize] = Kept(x) \cup {x.ticket}]
    BY AfterDrawIs
  <1>2. newRow \in Store!PrizeRow
    BY <1>1 DEF Store!PrizeRow
  <1>3. Kept(x) \in SUBSET TicketId /\ \A t \in Kept(x) \cap tickets : win[t] # NoPrize
    <2>1. x.old \in SUBSET TicketId /\ \A t \in x.old \cap tickets : win[t] # NoPrize
      BY DEF Formed, Tx, Copied
    <2> QED BY <1>1, <2>1, TablesTyped, CollectionIsCopied DEF Kept
  <1> HIDE DEF d, newRow
  <1>4. /\ d.prize \in [Prize -> Store!PrizeRow] /\ d.tickets \in SUBSET TicketId
        /\ d.win \in [TicketId -> Prize \cup {NoPrize}]
        /\ d.listed \in [Prize -> SUBSET TicketId]
    BY <1>1, <1>2, <1>3, TablesTyped
  <1>5. \A t \in tickets : d.win[t] # NoPrize <=> (win[t] # NoPrize \/ t = x.ticket)
    BY <1>1, TablesTyped, NoPrizeIsNone
  <1>6. \A p \in Prize : \A t \in d.tickets : d.win[t] = NoPrize => t \notin d.listed[p]
    <2> SUFFICES ASSUME NEW p \in Prize, NEW t \in tickets, d.win[t] = NoPrize
                 PROVE  t \notin d.listed[p]
      BY <1>1
    <2>1. win[t] = NoPrize /\ t # x.ticket
      BY <1>5
    <2>2. t \notin listed[p] /\ t \notin Kept(x)
      BY <1>3, <2>1 DEF IInv, FreeIsUnlisted
    <2> QED BY <1>1, <2>1, <2>2, TablesTyped
  <1>7. ASSUME ListedOnce(d), NEW p \in Prize, NEW t \in listed[p] \cap d.tickets, win[t] = p
        PROVE  d.win[t] = p
    <2>1. CASE t # x.ticket \/ p = x.prize
      BY <1>1, <1>7, <2>1, TablesTyped
    <2>2. CASE t = x.ticket /\ p # x.prize
      BY <1>1, <1>7, <2>2, TablesTyped DEF ListedOnce
    <2> QED BY <2>1, <2>2
  <1> QED BY <1>1, <1>4, <1>5, <1>6, <1>7 DEF Orderly, d

LEMMA AfterNameIs ==
  ASSUME IInv, NEW x, Formed(x), Loaded(x), x.at = "commit", x.op = "patchPrizeName",
         NEW d, d = After(x)
  PROVE  /\ x.prize \in Prize /\ x.name \in Name /\ x.rows[x.prize] \in Store!PrizeRow
         /\ \/ d.prize = prize /\ x.rows[x.prize].prizeName = x.name
            \/ d.prize = [prize EXCEPT ![x.prize] = [prizeName |-> x.name,
                                                     issued |-> x.rows[x.prize].issued]]
         /\ d.tickets = tickets /\ d.win = win /\ d.listed = listed
  <1> DEFINE p == x.prize
             row == x.rows[p]
             newRow == [row EXCEPT !.prizeName = x.name]
  <1>1. p \in Prize /\ x.name \in Name /\ row \in Store!PrizeRow
    BY DEF Formed, Loaded
  <1>2. newRow = [prizeName |-> x.name, issued |-> row.issued]
    BY <1>1 DEF Store!PrizeRow
  <1> HIDE DEF newRow
  <1>3. d = IF row.prizeName = x.name THEN Tables
            ELSE [Tables EXCEPT !.prize = [@ EXCEPT ![p] = newRow]]
    BY DEF After, AfterPatchPrizeName, newRow
  <1>4. CASE row.prizeName = x.name
    BY <1>1, <1>3, <1>4, TablesAre
  <1>5. CASE row.prizeName # x.name
    <2> DEFINE P == [prize EXCEPT ![p] = newRow]
    <2>1. d = [Tables EXCEPT !.prize = P]
      BY <1>3, <1>5 DEF Tables
    <2> HIDE DEF P
    <2>2. d.prize = P /\ d.tickets = tickets /\ d.win = win /\ d.listed = listed
      BY <2>1 DEF Tables
    <2> QED BY <1>1, <1>2, <2>2 DEF P
  <1> QED BY <1>4, <1>5

LEMMA AfterNameOrderly ==
  ASSUME IInv, NEW x, Formed(x), Loaded(x), x.at = "commit", x.op = "patchPrizeName"
  PROVE  Orderly(x, After(x))
  <1> DEFINE d == After(x)
             newRow == [prizeName |-> x.name, issued |-> x.rows[x.prize].issued]
  <1>1. /\ x.prize \in Prize /\ x.name \in Name /\ x.rows[x.prize] \in Store!PrizeRow
        /\ d.prize = prize \/ d.prize = [prize EXCEPT ![x.prize] = newRow]
        /\ d.tickets = tickets /\ d.win = win /\ d.listed = listed
    BY AfterNameIs
  <1>2. newRow \in Store!PrizeRow
    BY <1>1 DEF Store!PrizeRow
  <1> HIDE DEF d, newRow
  <1>3. d.prize \in [Prize -> Store!PrizeRow]
    BY <1>1, <1>2, TablesTyped
  <1> QED BY <1>1, <1>3, TablesTyped DEF Orderly, d, IInv, FreeIsUnlisted

LEMMA AfterDeleteOrderly ==
  ASSUME IInv, NEW x, Formed(x), Loaded(x), x.at = "commit", x.op = "deleteTicket"
  PROVE  Orderly(x, After(x))
  <1> DEFINE d == After(x)
             row(p) == [x.rows[p] EXCEPT !.issued = @ - 1]
  <1>1. /\ d.prize = [p \in Prize |-> IF p \in x.holders THEN row(p) ELSE prize[p]]
        /\ d.listed = [p \in Prize |-> IF p \in x.holders THEN listed[p] \ {x.ticket}
                                                         ELSE listed[p]]
        /\ d.win = [win EXCEPT ![x.ticket] = NoPrize]
        /\ d.tickets = tickets \ {x.ticket}
    BY DEF After, AfterDeleteTicket
  <1>2. x.ticket \in TicketId /\ \A p \in Prize : row(p) \in Store!PrizeRow
    BY DEF Formed, Loaded, Store!PrizeRow
  <1> HIDE DEF d, row
  <1>3. d.prize \in [Prize -> Store!PrizeRow]
    BY <1>1, <1>2, TablesTyped
  <1>4. /\ d.tickets \in SUBSET TicketId
        /\ d.win \in [TicketId -> Prize \cup {NoPrize}]
        /\ d.listed \in [Prize -> SUBSET TicketId]
    BY <1>1, <1>2, TablesTyped
  <1>5. \A t \in d.tickets : t \in tickets /\ d.win[t] = win[t]
    BY <1>1, TablesTyped
  <1>6. \A p \in Prize : d.listed[p] \subseteq listed[p]
    BY <1>1
  <1> QED BY <1>1, <1>3, <1>4, <1>5, <1>6 DEF Orderly, d, IInv, FreeIsUnlisted

LEMMA AfterPutOrderly ==
  ASSUME IInv, NEW c \in Client, Inserting(tx[c])
  PROVE  Orderly(tx[c], After(tx[c]))
  <1> DEFINE x == tx[c]
             d == After(x)
  <1>1. d.prize = prize /\ d.tickets = tickets \cup x.old /\ d.win = win /\ d.listed = listed
    BY DEF After, AfterPutTickets, Inserting, Tables
  <1>2. x.old \in SUBSET TicketId /\ x.old \cap seen = {}
    BY DEF IInv, TypeOK, Tx, InsertsFresh
  <1> HIDE DEF d
  <1>3. \A p \in Prize : \A t \in d.tickets : d.win[t] = NoPrize => t \notin d.listed[p]
    BY <1>1, <1>2, TablesTyped DEF IInv, FreeIsUnlisted
  <1> QED BY <1>1, <1>2, <1>3, TablesTyped DEF Orderly, d

LEMMA AfterOrderly ==
  ASSUME IInv, NEW c \in Client, tx[c].at = "commit"
  PROVE  Orderly(tx[c], After(tx[c]))
  <1>1. Formed(tx[c]) /\ Loaded(tx[c]) /\ Copied(tx[c])
    BY DEF IInv
  <1>2. tx[c].op \in Op
    BY <1>1 DEF Formed, Tx
  <1> QED BY <1>1, <1>2, AfterDrawOrderly, AfterNameOrderly, AfterDeleteOrderly, AfterPutOrderly
          DEF Op, Inserting

LEMMA CommitKeeps ==
  ASSUME IInv, NEW c \in Client, Commit(c), UNCHANGED setting
  PROVE  IInv'
  <1> DEFINE x == tx[c]
             d == After(x)
  <1>1. /\ x.at = "commit" /\ Accepted(x)
        /\ prize' = d.prize /\ tickets' = d.tickets /\ win' = d.win /\ listed' = d.listed
        /\ seen' = seen \cup d.tickets /\ Release(c) /\ UNCHANGED lastId
    BY DEF Commit
  <1>2. Orderly(x, d)
    BY <1>1, AfterOrderly
  <1>3. ListedOnce(d) /\ ListedExist(d)
    BY <1>1 DEF Accepted
  <1> HIDE DEF d
  <1>4. /\ tx' \in [Client -> Tx] /\ tx'[c] = Idle /\ \A e \in Client \ {c} : tx'[e] = tx[e]
        /\ formLock' \in FormClients \cup {Nobody} /\ serviceLock' \in Client \cup {Nobody}
    BY <1>1, IdleFormed DEF Release, IInv, TypeOK, Formed
  <1>5. TypeOK'
    BY <1>1, <1>2, <1>4 DEF IInv, TypeOK, Store!TypeOK, Orderly, TicketId, NoPrize
  <1>6. tickets \subseteq seen /\ seen \subseteq 1 .. lastId
        /\ d.tickets \subseteq tickets \cup (IF Inserting(x) THEN x.old ELSE {})
        /\ (Inserting(x) => x.old \subseteq 1 .. lastId /\ x.old \cap seen = {})
    BY <1>2, TablesTyped DEF IInv, Orderly, InsertsFresh
  <1>7. ASSUME NEW e \in Client
        PROVE  (Formed(tx[e]) /\ Loaded(tx[e]) /\ Copied(tx[e]))'
    <2>1. CASE e = c
      BY <1>4, <2>1, IdleFormed DEF Copied, Idle
    <2>2. CASE e # c
      <3>1. tx'[e] = tx[e] /\ Formed(tx[e]) /\ Loaded(tx[e]) /\ Copied(tx[e])
        BY <1>4, <2>2 DEF IInv
      <3>2. Formed(tx'[e]) /\ Loaded(tx'[e])
        BY <3>1
      <3>3. tx[e].op = "patchPrizeTicket" /\ tx[e].at = "commit" =>
              /\ tx[e].old \subseteq seen'
              /\ \A t \in tx[e].old \cap tickets' : win'[t] # NoPrize
        BY <1>1, <1>2, <1>6, <3>1 DEF Copied, Orderly
      <3> QED BY <3>1, <3>2, <3>3 DEF Copied
    <2> QED BY <2>1, <2>2
  <1>8. (seen \subseteq 1 .. lastId)'
    BY <1>1, <1>6
  <1>9. InsertsFresh'
    <2>1. \A e \in Client : Inserting(tx'[e]) => e # c /\ tx'[e] = tx[e] /\ Inserting(tx[e])
      BY <1>4, IdleFormed
    <2>2. \A e \in Client \ {c} : Inserting(tx[e]) => tx[e].old \cap seen' = {}
      BY <1>1, <1>6 DEF IInv, InsertsFresh
    <2> QED BY <1>1, <2>1, <2>2 DEF IInv, InsertsFresh
  <1>10. ListedOnce(Tables)' /\ ListedExist(Tables)'
    BY <1>1, <1>3 DEF ListedOnce, ListedExist, Tables
  <1>11. FreeIsUnlisted'
    BY <1>1, <1>2 DEF FreeIsUnlisted, Orderly
  <1> QED BY <1>5, <1>7, <1>8, <1>9, <1>10, <1>11 DEF IInv

-----------------------------------------------------------------------------
(* The invariant *)

LEMMA InitHolds == Init => IInv
  <1> SUFFICES ASSUME Init PROVE IInv
    OBVIOUS
  <1> USE DEF Init, Store!Init
  <1>1. PICK n \in 0 .. MaxTicketId : seen = 1 .. n
    OBVIOUS
  <1>2. tickets = 1 .. n /\ n \in Nat /\ n <= MaxTicketId /\ lastId = n
    BY <1>1, FS_Interval, TicketIdAssumption
  <1>3. \A c \in Client : tx[c] = Idle
    OBVIOUS
  <1>4. prize \in [Prize -> Store!PrizeRow]
    BY DEF Store!PrizeRow
  <1>5. Store!TypeOK
    BY <1>1, <1>2, <1>4, TicketIdAssumption DEF Store!TypeOK, Store!TicketId, Store!NoPrize
  <1>6. TypeOK
    BY <1>2, <1>3, <1>5, IdleFormed, TicketIdAssumption DEF TypeOK, Formed
  <1>7. InsertsFresh
    BY <1>3, IdleFormed DEF InsertsFresh
  <1>8. ListedOnce(Tables) /\ ListedExist(Tables) /\ FreeIsUnlisted
    BY DEF ListedOnce, ListedExist, Tables, FreeIsUnlisted
  <1> QED BY <1>1, <1>2, <1>3, <1>6, <1>7, <1>8, IdleFormed DEF IInv

LEMMA StepKeeps ==
  ASSUME IInv, NEW c \in Client, Step(c), UNCHANGED setting
  PROVE  IInv'
  <1>1. Enter(c) => IInv'
    BY EnterKeeps
  <1>2. ReadPrizeRow(c) => IInv'
    BY ReadPrizeRowKeeps
  <1>3. ReadTicketRow(c) => IInv'
    BY ReadTicketRowKeeps
  <1>4. ReadAllPrizes(c) => IInv'
    BY ReadAllPrizesKeeps
  <1>5. ReadCollection(c) => IInv'
    BY ReadCollectionKeeps
  <1>6. ReadSnapshot(c) => IInv'
    BY ReadSnapshotKeeps
  <1>7. Refuse(c) => IInv'
    BY ReleaseKeeps DEF Refuse
  <1>8. Insert(c) => IInv'
    BY InsertKeeps
  <1>9. Commit(c) => IInv'
    BY CommitKeeps
  <1>10. Reject(c) => IInv'
    BY ReleaseKeeps DEF Reject
  <1> QED BY <1>1, <1>2, <1>3, <1>4, <1>5, <1>6, <1>7, <1>8, <1>9, <1>10 DEF Step

LEMMA NextKeeps == IInv /\ [Next]_vars => IInv'
  <1> SUFFICES ASSUME IInv, [Next]_vars PROVE IInv'
    OBVIOUS
  <1>1. ASSUME Begin, UNCHANGED setting PROVE IInv'
    BY <1>1, BeginFormKeeps, BeginRestKeeps DEF Begin
  <1>2. ASSUME NEW c \in Client, Step(c) \/ Fail(c), UNCHANGED setting PROVE IInv'
    BY <1>2, StepKeeps, ReleaseKeeps DEF Fail
  <1>3. CASE UNCHANGED vars
    BY <1>3 DEF vars, db, IInv, TypeOK, Store!TypeOK, Copied, InsertsFresh, ListedOnce,
             ListedExist, Tables, FreeIsUnlisted
  <1> QED BY <1>1, <1>2, <1>3 DEF Next

(***************************************************************************)
(* The invariant holds of every behaviour, whatever interleaves and with   *)
(* either isolation level.                                                 *)
(***************************************************************************)
THEOREM InductiveInvariant == Spec => []IInv
  BY InitHolds, NextKeeps, PTL DEF Spec

(***************************************************************************)
(* The tables, the sessions and the monitors always hold what their types  *)
(* allow: a commit writes back only rows that were loaded before.          *)
(***************************************************************************)
THEOREM TypeCorrect == Spec => []TypeOK
  <1>1. IInv => TypeOK
    BY DEF IInv
  <1> QED BY <1>1, InductiveInvariant, PTL

(***************************************************************************)
(* A ticket marked free is in no collection, although collections are      *)
(* written back from stale copies.                                         *)
(***************************************************************************)
THEOREM FreeTicketsUnlisted == Spec => []FreeIsUnlisted
  <1>1. IInv => FreeIsUnlisted
    BY DEF IInv
  <1> QED BY <1>1, InductiveInvariant, PTL

-----------------------------------------------------------------------------
(* What a step never does *)

LEMMA FateStep ==
  ASSUME IInv, [Next]_vars
  PROVE  /\ \A p \in Prize : \A t \in listed[p] \cap tickets' : win[t] = p => win'[t] = p
         /\ (seen \ tickets) \cap tickets' = {}
  <1>1. CASE UNCHANGED <<prize, tickets, win, listed, seen>>
    BY <1>1
  <1>2. ASSUME NEW c \in Client, Commit(c)
        PROVE  /\ \A p \in Prize : \A t \in listed[p] \cap tickets' : win[t] = p => win'[t] = p
               /\ (seen \ tickets) \cap tickets' = {}
    <2> DEFINE x == tx[c]
               d == After(x)
    <2>1. /\ x.at = "commit" /\ ListedOnce(d)
          /\ tickets' = d.tickets /\ win' = d.win
      BY <1>2 DEF Commit, Accepted
    <2>2. Orderly(x, d)
      BY <2>1, AfterOrderly
    <2>3. Inserting(x) => x.old \cap seen = {}
      BY DEF IInv, InsertsFresh
    <2> HIDE DEF x, d
    <2> QED BY <2>1, <2>2, <2>3 DEF Orderly
  <1>3. (\E c \in Client : Commit(c)) \/ UNCHANGED <<prize, tickets, win, listed, seen>>
    BY DEF Next, Begin, BeginForm, BeginRest, Step, Enter, ReadPrizeRow, ReadTicketRow,
           ReadAllPrizes, ReadCollection, ReadSnapshot, LeaveWith, Refuse, Insert, Reject,
           Fail, vars, db
  <1> QED BY <1>1, <1>2, <1>3

(***************************************************************************)
(* A listed winner keeps its prize as long as it exists, and a deleted     *)
(* ticket never comes back: the second of two draws that both saw a ticket *)
(* free is rejected by the unique key of tombola_prize_ticket.             *)
(***************************************************************************)
THEOREM FateIsFinal == Spec => TicketFateIsFinal
  <1>1. IInv /\ [Next]_vars =>
          [/\ \A p \in Prize : \A t \in listed[p] \cap tickets' : win[t] = p => win'[t] = p
           /\ (seen \ tickets) \cap tickets' = {}]_vars
    BY FateStep
  <1> QED BY <1>1, InductiveInvariant, PTL DEF Spec, TicketFateIsFinal

-----------------------------------------------------------------------------
(* Draws only, from snapshots: issued counts what is listed *)

(***************************************************************************)
(* A count and the tickets it stands for. A draw that has read the prize   *)
(* row and its collection at one instant writes back such a pair, however  *)
(* old the pair it read is.                                                *)
(***************************************************************************)
Covers(S, n) == 0 <= n /\ n <= Cardinality(S) /\ (n = 0 <=> S = {})

Agreeing(x) ==
  /\ x.op \in {"none", "patchPrizeTicket"}
  /\ x.at \in {"idle", "enter", "prizeRow", "commit"}
  /\ x.op = "patchPrizeTicket" /\ x.at = "commit" =>
       Covers(x.old, x.rows[x.prize].issued) /\ x.ticket \notin x.old

IssuedInv ==
  OnlyDraws => /\ \A c \in Client : Agreeing(tx[c])
               /\ \A p \in Prize : Covers(listed[p], prize[p].issued)

LEMMA IdleAgrees == Agreeing(Idle)
  BY DEF Agreeing, Idle

LEMMA IssuedInit == Init => IssuedInv
  <1> SUFFICES ASSUME Init PROVE IssuedInv
    OBVIOUS
  <1>1. \A c \in Client : Agreeing(tx[c])
    BY IdleAgrees DEF Init
  <1>2. \A p \in Prize : prize[p].issued = 0 /\ listed[p] = {}
    BY DEF Init, Store!Init
  <1>3. Cardinality({}) = 0
    BY FS_EmptySet
  <1>4. \A p \in Prize : Covers(listed[p], prize[p].issued)
    BY <1>2, <1>3 DEF Covers
  <1> QED BY <1>1, <1>4 DEF IssuedInv

\* A step that writes nothing only has to leave its own request in order.
LEMMA IssuedLocal ==
  ASSUME IInv, IssuedInv, NEW c \in Client, NEW y, tx' = [tx EXCEPT ![c] = y],
         UNCHANGED <<setting, db>>, OnlyDraws => Agreeing(y)
  PROVE  IssuedInv'
  <1>1. tx'[c] = y /\ \A e \in Client \ {c} : tx'[e] = tx[e]
    BY DEF IInv, TypeOK
  <1> QED BY <1>1 DEF IssuedInv, OnlyDraws, db

LEMMA IssuedBegin ==
  ASSUME IInv, IssuedInv, Begin, UNCHANGED setting
  PROVE  IssuedInv'
  <1>1. PICK c \in Client, r \in Request :
          /\ tx' = [tx EXCEPT ![c] = r] /\ UNCHANGED db
          /\ r.op = "patchPrizeTicket" \/ r.op \in setting.ops
    BY DEF Begin, BeginForm, BeginRest, Client
  <1>2. OnlyDraws => Agreeing(r)
    BY <1>1, RequestFormed DEF OnlyDraws, Agreeing
  <1> QED BY <1>1, <1>2, IssuedLocal

LEMMA IssuedEnter ==
  ASSUME IInv, IssuedInv, NEW c \in Client, Enter(c), UNCHANGED setting
  PROVE  IssuedInv'
  <1> DEFINE x == tx[c]
             y == [x EXCEPT !.at = FirstRead(x.op)]
  <1>1. x \in Tx /\ x.at = "enter" /\ Formed(x) /\ tx' = [tx EXCEPT ![c] = y] /\ UNCHANGED db
    BY DEF IInv, TypeOK, Enter, Goto
  <1>2. ASSUME OnlyDraws PROVE Agreeing(y)
    <2>1. x.op = "patchPrizeTicket"
      BY <1>1, <1>2 DEF IssuedInv, Agreeing, Formed
    <2>2. FirstRead(x.op) = "prizeRow"
      BY <2>1 DEF FirstRead
    <2>3. y.at = "prizeRow" /\ y.op = x.op
      BY <1>1, <2>2 DEF Tx
    <2> QED BY <2>1, <2>3 DEF Agreeing
  <1> QED BY <1>1, <1>2, IssuedLocal

LEMMA IssuedSnapshot ==
  ASSUME IInv, IssuedInv, NEW c \in Client, ReadSnapshot(c), UNCHANGED setting
  PROVE  IssuedInv'
  <1> DEFINE x == tx[c]
             y == [Snapshot(x) EXCEPT !.at = "commit"]
  <1>1. /\ x \in Tx /\ Formed(x) /\ Store!TypeOK /\ x.at \in {"prizeRow", "ticketRow"}
        /\ x.op # "patchPrizeName" => Wanted(x)
        /\ tx' = [tx EXCEPT ![c] = y] /\ UNCHANGED db
    BY DEF IInv, TypeOK, ReadSnapshot, LeaveWith, Snapshot
  <1>2. ASSUME OnlyDraws PROVE Agreeing(y)
    <2>1. x.op = "patchPrizeTicket"
      BY <1>1, <1>2 DEF IssuedInv, Agreeing, Formed
    <2>2. /\ y.at = "commit" /\ y.op = x.op /\ y.prize = x.prize /\ y.ticket = x.ticket
          /\ x.prize \in Prize /\ y.rows[x.prize] = prize[x.prize] /\ y.old = listed[x.prize]
      <3> HIDE DEF x
      <3> QED BY <1>1, <2>1, SnapshotIs
    <2>3. x.ticket \notin listed[x.prize]
      BY <1>1, <2>1, <2>2 DEF Wanted, IInv, FreeIsUnlisted
    <2> HIDE DEF y
    <2> QED BY <1>2, <2>1, <2>2, <2>3 DEF Agreeing, IssuedInv
  <1> QED BY <1>1, <1>2, IssuedLocal

LEMMA IssuedRelease ==
  ASSUME IInv, IssuedInv, NEW c \in Client, Release(c), UNCHANGED <<setting, db>>
  PROVE  IssuedInv'
  BY IdleAgrees, IssuedLocal DEF Release

\* The collection a draw read, or the rows that stay where that was empty.
LEMMA OneMoreCovered ==
  ASSUME NEW old \in SUBSET TicketId, NEW now \in SUBSET TicketId, NEW t \in TicketId,
         NEW n \in Int, Covers(old, n), t \notin old
  PROVE  Covers((IF old = {} THEN now ELSE old) \cup {t}, n + 1)
  <1>1. ASSUME NEW S \in SUBSET TicketId PROVE IsFiniteSet(S) /\ Cardinality(S) \in Nat
    <2>1. IsFiniteSet(TicketId)
      BY FS_Interval, TicketIdAssumption DEF TicketId, Store!TicketId
    <2> QED BY <2>1, FS_Subset, FS_CardinalityType
  <1>2. CASE old = {}
    <2>1. n = 0
      BY <1>2 DEF Covers
    <2>2. Cardinality(now \cup {t}) \in Nat /\ Cardinality(now \cup {t}) # 0
      <3>1. IsFiniteSet(now \cup {t}) /\ Cardinality(now \cup {t}) \in Nat
        BY <1>1
      <3> QED BY <3>1, FS_EmptySet
    <2> QED BY <1>2, <2>1, <2>2 DEF Covers
  <1>3. CASE old # {}
    <2>1. Cardinality(old \cup {t}) = Cardinality(old) + 1 /\ Cardinality(old) \in Nat
      BY <1>1, FS_AddElement
    <2> DEFINE k == Cardinality(old)
               m == Cardinality(old \cup {t})
    <2>2. 0 <= n /\ n <= k /\ n # 0 /\ m = k + 1 /\ k \in Nat
      BY <1>3, <2>1 DEF Covers
    <2> HIDE DEF k, m
    <2>3. 0 <= n + 1 /\ n + 1 <= m /\ n + 1 # 0
      BY <2>2
    <2>4. old \cup {t} # {}
      OBVIOUS
    <2> QED BY <1>3, <2>3, <2>4 DEF Covers, m
  <1> QED BY <1>2, <1>3

LEMMA IssuedCommit ==
  ASSUME IInv, IssuedInv, NEW c \in Client, Commit(c), UNCHANGED setting
  PROVE  IssuedInv'
  <1> SUFFICES ASSUME OnlyDraws
               PROVE  /\ \A e \in Client : Agreeing(tx'[e])
                      /\ \A p \in Prize : Covers(listed'[p], prize'[p].issued)
    BY DEF IssuedInv, OnlyDraws, Covers
  <1> DEFINE x == tx[c]
             d == After(x)
  <1>1. /\ x.at = "commit" /\ prize' = d.prize /\ listed' = d.listed /\ tx' = [tx EXCEPT ![c] = Idle]
    BY DEF Commit, Release
  <1>2. Formed(x) /\ Loaded(x) /\ Agreeing(x)
    BY DEF IInv, IssuedInv
  <1>3. x.op = "patchPrizeTicket"
    BY <1>1, <1>2 DEF Agreeing, Formed
  <1>4. /\ x.prize \in Prize /\ x.ticket \in TicketId /\ x.rows[x.prize] \in Store!PrizeRow
        /\ d.prize = [prize EXCEPT ![x.prize] = [prizeName |-> x.rows[x.prize].prizeName,
                                                 issued |-> x.rows[x.prize].issued + 1]]
        /\ d.listed = [listed EXCEPT ![x.prize] = Kept(x) \cup {x.ticket}]
    <2> HIDE DEF x
    <2> QED BY <1>1, <1>2, <1>3, AfterDrawIs
  <1>5. /\ Covers(x.old, x.rows[x.prize].issued) /\ x.ticket \notin x.old
        /\ x.rows[x.prize].issued \in Int
    BY <1>1, <1>2, <1>3, <1>4 DEF Agreeing, Store!PrizeRow
  <1>6. x.old \in SUBSET TicketId /\ listed[x.prize] \in SUBSET TicketId
    BY <1>2, <1>4, TablesTyped DEF Formed, Tx
  <1>7. Covers(Kept(x) \cup {x.ticket}, x.rows[x.prize].issued + 1)
    <2> HIDE DEF x, d
    <2> QED BY <1>4, <1>5, <1>6, OneMoreCovered DEF Kept
  <1>8. \A p \in Prize : Covers(listed'[p], prize'[p].issued)
    <2> HIDE DEF x, d
    <2> QED BY <1>1, <1>4, <1>7, TablesTyped DEF IssuedInv
  <1>9. \A e \in Client : Agreeing(tx'[e])
    BY <1>1, IdleAgrees DEF IssuedInv, IInv, TypeOK
  <1> QED BY <1>8, <1>9

LEMMA IssuedNext == IInv /\ IssuedInv /\ [Next]_vars => IssuedInv'
  <1> SUFFICES ASSUME IInv, IssuedInv, [Next]_vars PROVE IssuedInv'
    OBVIOUS
  <1>1. ASSUME NEW c \in Client, UNCHANGED setting,
               \/ ReadPrizeRow(c) \/ ReadTicketRow(c) \/ ReadAllPrizes(c) \/ ReadCollection(c)
               \/ Insert(c)
        PROVE  IssuedInv'
    <2>1. ~OnlyDraws
      BY <1>1 DEF ReadPrizeRow, ReadTicketRow, ReadAllPrizes, ReadCollection, Insert,
                  OnlyDraws, IssuedInv, Agreeing
    <2> QED BY <1>1, <2>1 DEF IssuedInv, OnlyDraws
  <1>2. ASSUME NEW c \in Client, Step(c) \/ Fail(c), UNCHANGED setting
        PROVE  IssuedInv'
    BY <1>1, <1>2, IssuedEnter, IssuedSnapshot, IssuedRelease, IssuedCommit
       DEF Step, Fail, Refuse, Reject
  <1>3. CASE UNCHANGED vars
    BY <1>3 DEF vars, db, IssuedInv, OnlyDraws
  <1> QED BY <1>2, <1>3, IssuedBegin DEF Next

(***************************************************************************)
(* With nothing but draws, whoever makes them, and repeatable reads,       *)
(* issued never exceeds the tickets a prize lists, and is zero only where  *)
(* none is listed: a draw from a stale snapshot may lose the count of      *)
(* another one, with its row or without, but never the row alone.          *)
(***************************************************************************)
THEOREM IssuedIsCovered == Spec => []ListingCoversIssued
  <1>1. IssuedInv => ListingCoversIssued
    BY DEF IssuedInv, ListingCoversIssued, Covers
  <1> QED BY <1>1, IssuedInit, IssuedNext, InductiveInvariant, PTL DEF Spec

-----------------------------------------------------------------------------
(* Requests that run one at a time are the operations of TombolaStore *)

(***************************************************************************)
(* Either only managers use the raffle, through the monitor that           *)
(* setManager holds until the commit, or a single thread serves everyone.  *)
(***************************************************************************)
Serial ==
  \/ setting.callers \subseteq FormClients
  \/ \E c \in Client : setting.callers \subseteq {c}

(***************************************************************************)
(* What a request that runs alone has read is what is committed.           *)
(***************************************************************************)
Current(x) ==
  /\ x.op = "patchPrizeTicket" =>
       /\ x.at \in {"ticketRow", "collection", "commit"} => x.rows[x.prize] = prize[x.prize]
       /\ x.at \in {"collection", "commit"} => x.ticket \in Store!Free
       /\ x.at = "commit" => x.old = listed[x.prize]
  /\ x.op = "patchPrizeName" /\ x.at = "commit" => x.rows[x.prize] = prize[x.prize]
  /\ x.op = "deleteTicket" =>
       /\ x.at \in {"collection", "commit"} => x.rows = prize
       /\ x.at \notin {"collection", "commit"} => x.holders = {}
       /\ x.at = "collection" =>
            x.holders = {p \in Prize \ x.todo : x.ticket \in listed[p]}
       /\ x.at = "commit" => x.holders = {p \in Prize : x.ticket \in listed[p]}

SerialInv ==
  Serial => \A c \in Client : tx[c] # Idle =>
              /\ c \in setting.callers
              /\ c \in FormClients => formLock = c
              /\ Current(tx[c])

\* Two threads are never under way together.
LEMMA OneUnderWay ==
  ASSUME SerialInv, Serial, NEW c \in Client, NEW e \in Client,
         tx[c] # Idle, tx[e] # Idle
  PROVE  c = e
  BY DEF SerialInv, Serial

LEMMA RequestCurrent ==
  ASSUME NEW r \in Request PROVE Current(r)
  <1>1. r.at = "enter"
    BY RequestFormed
  <1>2. r.holders = {}
    BY DEF Request, Asks
  <1> QED BY <1>1, <1>2 DEF Current

LEMMA SerialInit == Init => SerialInv
  BY DEF Init, SerialInv

(***************************************************************************)
(* A step that writes nothing has to leave its own request current; who is *)
(* under way, and holds the monitor of IndexController, stays so.          *)
(***************************************************************************)
LEMMA SerialLocal ==
  ASSUME IInv, SerialInv, NEW c \in Client, NEW y, tx' = [tx EXCEPT ![c] = y],
         UNCHANGED <<setting, db, formLock>>, tx[c] # Idle,
         Serial => Current(y)
  PROVE  SerialInv'
  <1>1. tx'[c] = y /\ \A e \in Client \ {c} : tx'[e] = tx[e]
    BY DEF IInv, TypeOK
  <1>2. Current(y) => Current(y)'
    BY DEF Current, Store!Free, db, NoPrize, Store!NoPrize
  <1>3. \A e \in Client : Current(tx[e]) => (\A z : z = tx[e] => Current(z)')
    BY DEF Current, Store!Free, db, NoPrize, Store!NoPrize
  <1> QED BY <1>1, <1>2, <1>3 DEF SerialInv, Serial

LEMMA SerialBegin ==
  ASSUME IInv, SerialInv, Begin, UNCHANGED setting
  PROVE  SerialInv'
  <1> SUFFICES ASSUME Serial
               PROVE  \A e \in Client : tx'[e] # Idle =>
                        /\ e \in setting.callers
                        /\ e \in FormClients => formLock' = e
                        /\ Current(tx[e])'
    BY DEF SerialInv, Serial
  <1>1. PICK c \in setting.callers, r \in Request :
          /\ c \in Client /\ tx[c] = Idle /\ tx' = [tx EXCEPT ![c] = r] /\ UNCHANGED db
          /\ \/ c \in FormClients /\ formLock = Nobody /\ formLock' = c
             \/ c \in RestClients /\ UNCHANGED formLock
    BY DEF Begin, BeginForm, BeginRest, Client
  <1>2. \A e \in Client \ {c} : tx[e] = Idle
    <2>1. CASE setting.callers \subseteq FormClients
      BY <1>1, <2>1, ClientAssumption DEF SerialInv, Client
    <2>2. CASE \E e \in Client : setting.callers \subseteq {e}
      BY <1>1, <2>2 DEF SerialInv
    <2> QED BY <2>1, <2>2 DEF Serial
  <1>3. Current(tx[c])'
    <2>1. Current(r) /\ tx'[c] = r
      BY <1>1, RequestCurrent DEF IInv, TypeOK
    <2> QED BY <1>1, <2>1 DEF Current, Store!Free, db, NoPrize, Store!NoPrize
  <1> QED BY <1>1, <1>2, <1>3, ClientAssumption DEF IInv, TypeOK, Client

\* A request that has begun has an operation.
LEMMA Begun ==
  ASSUME IInv, NEW c \in Client
  PROVE  tx[c] \in Tx /\ Formed(tx[c]) /\ Store!TypeOK /\ (tx[c].at # "idle" => tx[c] # Idle)
  BY DEF IInv, TypeOK, Idle

LEMMA SerialEnter ==
  ASSUME IInv, SerialInv, NEW c \in Client, Enter(c), UNCHANGED setting
  PROVE  SerialInv'
  <1> DEFINE x == tx[c]
             y == [x EXCEPT !.at = FirstRead(x.op)]
  <1>1. /\ x \in Tx /\ Formed(x) /\ x.at = "enter" /\ x # Idle
        /\ tx' = [tx EXCEPT ![c] = y] /\ UNCHANGED <<db, formLock>>
    BY Begun DEF Enter, Goto
  <1>2. FirstRead(x.op) \in {"prizeRow", "ticketRow", "insert"}
    BY <1>1 DEF FirstRead, Formed, Tx, Op
  <1>3. y.at = FirstRead(x.op) /\ y.op = x.op /\ y.holders = x.holders
    BY <1>1 DEF Tx
  <1>4. y.at \notin {"collection", "commit"}
        /\ (x.op = "patchPrizeTicket" => y.at = "prizeRow")
    BY <1>1, <1>2, <1>3 DEF FirstRead
  <1>5. ASSUME Serial PROVE Current(y)
    <2>1. x.op = "deleteTicket" => x.holders = {}
      BY <1>1, <1>5 DEF SerialInv, Current
    <2> HIDE DEF x, y
    <2> QED BY <1>3, <1>4, <2>1 DEF Current
  <1> QED BY <1>1, <1>5, SerialLocal

LEMMA SerialPrizeRow ==
  ASSUME IInv, SerialInv, NEW c \in Client, ReadPrizeRow(c), UNCHANGED setting
  PROVE  SerialInv'
  <1> DEFINE x == tx[c]
             z == WithPrizeRow(x)
  <1>1. /\ x \in Tx /\ Formed(x) /\ Store!TypeOK /\ x.at = "prizeRow" /\ x # Idle
        /\ UNCHANGED <<db, formLock>>
    BY Begun DEF ReadPrizeRow, LeaveWith
  <1>2. x.prize \in Prize /\ x.op \in {"patchPrizeTicket", "patchPrizeName"}
    BY <1>1 DEF Formed, Tx, Op
  <1>3. /\ z \in Tx /\ z.op = x.op /\ z.prize = x.prize /\ z.rows[x.prize] = prize[x.prize]
    <2> HIDE DEF x
    <2> QED BY <1>1, <1>2, PrizeRowRead
  <1>4. PICK at \in {"ticketRow", "commit"} :
          /\ x.op = "patchPrizeTicket" => at = "ticketRow"
          /\ tx' = [tx EXCEPT ![c] = [z EXCEPT !.at = at]]
    BY DEF ReadPrizeRow, LeaveWith
  <1> DEFINE y == [z EXCEPT !.at = at]
  <1>5. y.at = at /\ y.op = z.op /\ y.prize = z.prize /\ y.rows = z.rows
    <2> HIDE DEF z
    <2> QED BY <1>3, AtChanged
  <1>6. Serial => Current(y)
    <2> HIDE DEF x, y, z
    <2> QED BY <1>2, <1>3, <1>4, <1>5 DEF Current
  <1> QED BY <1>1, <1>4, <1>6, SerialLocal

LEMMA SerialTicketRow ==
  ASSUME IInv, SerialInv, NEW c \in Client, ReadTicketRow(c), UNCHANGED setting
  PROVE  SerialInv'
  <1> DEFINE x == tx[c]
             at == IF x.op = "deleteTicket" THEN "allPrizes" ELSE "collection"
             y == [x EXCEPT !.at = at]
  <1>1. /\ x \in Tx /\ Formed(x) /\ x.at = "ticketRow" /\ x # Idle /\ Wanted(x)
        /\ tx' = [tx EXCEPT ![c] = y] /\ UNCHANGED <<db, formLock>>
    BY Begun DEF ReadTicketRow, Goto
  <1>2. x.op \in {"patchPrizeTicket", "deleteTicket"}
    BY <1>1 DEF Formed, Tx, Op
  <1>3. /\ y.at = at /\ y.op = x.op /\ y.prize = x.prize /\ y.ticket = x.ticket
        /\ y.rows = x.rows /\ y.holders = x.holders
    BY <1>1 DEF Tx
  <1>4. Serial => Current(x)
    BY <1>1 DEF SerialInv
  <1>5. x.op = "patchPrizeTicket" => x.ticket \in Store!Free
    BY <1>1 DEF Wanted, Store!Free, NoPrize
  <1>6. Serial => Current(y)
    <2>1. (x.op = "patchPrizeTicket" => at = "collection") /\ (x.op = "deleteTicket" => at = "allPrizes")
      OBVIOUS
    <2> HIDE DEF x, y, at
    <2> QED BY <1>1, <1>2, <1>3, <1>4, <1>5, <2>1 DEF Current
  <1> QED BY <1>1, <1>6, SerialLocal

LEMMA SerialAllPrizes ==
  ASSUME IInv, SerialInv, NEW c \in Client, ReadAllPrizes(c), UNCHANGED setting
  PROVE  SerialInv'
  <1> DEFINE x == tx[c]
             y == [x EXCEPT !.at = "collection", !.rows = prize, !.todo = Prize]
  <1>1. /\ x \in Tx /\ Formed(x) /\ x.at = "allPrizes" /\ x # Idle
        /\ tx' = [tx EXCEPT ![c] = y] /\ UNCHANGED <<db, formLock>>
    BY Begun DEF ReadAllPrizes
  <1>2. x.op = "deleteTicket"
    BY <1>1 DEF Formed, Tx, Op
  <1>3. /\ y.at = "collection" /\ y.op = x.op /\ y.ticket = x.ticket
        /\ y.rows = prize /\ y.holders = x.holders /\ y.todo = Prize
    BY <1>1 DEF Tx
  <1>4. Serial => x.holders = {}
    BY <1>1, <1>2 DEF SerialInv, Current
  <1>5. Serial => Current(y)
    <2> HIDE DEF x, y
    <2> QED BY <1>2, <1>3, <1>4 DEF Current
  <1> QED BY <1>1, <1>5, SerialLocal

LEMMA SerialCollection ==
  ASSUME IInv, SerialInv, NEW c \in Client, ReadCollection(c), UNCHANGED setting
  PROVE  SerialInv'
  <1> DEFINE x == tx[c]
  <1>1. /\ x \in Tx /\ Formed(x) /\ Store!TypeOK /\ x.at = "collection" /\ x # Idle
        /\ UNCHANGED <<db, formLock>>
    BY Begun DEF ReadCollection, LeaveWith
  <1>2. Serial => Current(x)
    BY <1>1 DEF SerialInv
  <1>3. CASE x.op = "patchPrizeTicket"
    <2> DEFINE z == WithCollection(x)
               y == [z EXCEPT !.at = "commit"]
    <2>1. tx' = [tx EXCEPT ![c] = y] /\ x.prize \in Prize
      BY <1>1, <1>3 DEF ReadCollection, LeaveWith, Formed
    <2>2. /\ z \in Tx /\ z.op = x.op /\ z.prize = x.prize /\ z.ticket = x.ticket
          /\ z.rows = x.rows /\ z.old = listed[x.prize]
      <3> HIDE DEF x
      <3> QED BY <1>1, <2>1, CollectionRead
    <2>3. /\ y.at = "commit" /\ y.op = z.op /\ y.prize = z.prize
          /\ y.ticket = z.ticket /\ y.rows = z.rows /\ y.old = z.old
      <3> HIDE DEF z
      <3> QED BY <2>2, AtChanged
    <2>4. Serial => Current(y)
      <3> HIDE DEF x, y, z
      <3> QED BY <1>1, <1>2, <1>3, <2>2, <2>3 DEF Current
    <2> QED BY <1>1, <2>1, <2>4, SerialLocal
  <1>4. CASE x.op = "deleteTicket" /\ x.todo # {}
    <2> DEFINE first == FirstTodo(x)
               y == WithHolders(x, {first})
    <2>1. tx' = [tx EXCEPT ![c] = y]
      BY <1>4 DEF ReadCollection
    <2>2. first \in x.todo /\ x.todo \in SUBSET Prize
      BY <1>1, <1>4, FirstTodoIsOne DEF Tx
    <2> HIDE DEF first
    <2>3. /\ y.at = x.at /\ y.op = x.op /\ y.ticket = x.ticket /\ y.rows = x.rows
          /\ y.todo = x.todo \ {first}
          /\ y.holders = x.holders \cup {p \in {first} : x.ticket \in listed[p]}
      <3> HIDE DEF x
      <3> QED BY <1>1, <2>2, HoldersRead
    <2> HIDE DEF y
    <2>4. ASSUME Serial PROVE Current(y)
      <3>1. x.rows = prize /\ x.holders = {p \in Prize \ x.todo : x.ticket \in listed[p]}
        BY <1>1, <1>2, <1>4, <2>4 DEF Current
      <3>2. y.holders = {p \in Prize \ y.todo : y.ticket \in listed[p]}
        BY <2>2, <2>3, <3>1
      <3> QED BY <1>1, <1>4, <2>3, <3>1, <3>2 DEF Current
    <2> QED BY <1>1, <2>1, <2>4, SerialLocal
  <1>5. CASE x.op = "deleteTicket" /\ x.todo = {}
    <2> DEFINE y == [x EXCEPT !.at = "commit"]
    <2>1. tx' = [tx EXCEPT ![c] = y]
      BY <1>5 DEF ReadCollection, LeaveWith
    <2>2. /\ y.at = "commit" /\ y.op = x.op /\ y.ticket = x.ticket /\ y.rows = x.rows
          /\ y.holders = x.holders
      <3> HIDE DEF x
      <3> QED BY <1>1, AtChanged
    <2>3. Serial => Current(y)
      <3> HIDE DEF x, y
      <3> QED BY <1>1, <1>2, <1>5, <2>2 DEF Current
    <2> QED BY <1>1, <2>1, <2>3, SerialLocal
  <1> QED BY <1>3, <1>4, <1>5 DEF ReadCollection

LEMMA SerialSnapshot ==
  ASSUME IInv, SerialInv, NEW c \in Client, ReadSnapshot(c), UNCHANGED setting
  PROVE  SerialInv'
  <1> DEFINE x == tx[c]
             y == [Snapshot(x) EXCEPT !.at = "commit"]
  <1>1. /\ x \in Tx /\ Formed(x) /\ Store!TypeOK /\ x.at \in {"prizeRow", "ticketRow"} /\ x # Idle
        /\ x.op # "patchPrizeName" => Wanted(x)
        /\ tx' = [tx EXCEPT ![c] = y] /\ UNCHANGED <<db, formLock>>
    BY Begun DEF ReadSnapshot, LeaveWith, Snapshot
  <1>2. /\ y.at = "commit" /\ y.op = x.op /\ y.prize = x.prize /\ y.ticket = x.ticket
        /\ x.op \in {"patchPrizeTicket", "patchPrizeName"} => y.rows[x.prize] = prize[x.prize]
        /\ x.op = "patchPrizeTicket" => y.old = listed[x.prize]
        /\ x.op = "deleteTicket" =>
             /\ y.rows = prize
             /\ y.holders = x.holders \cup {p \in Prize : x.ticket \in listed[p]}
    <2> HIDE DEF x
    <2> QED BY <1>1, SnapshotIs
  <1>3. x.op = "patchPrizeTicket" => x.ticket \in Store!Free
    BY <1>1 DEF Wanted, Store!Free, NoPrize
  <1>4. Serial => (x.op = "deleteTicket" => x.holders = {})
    BY <1>1 DEF SerialInv, Current
  <1>5. Serial => Current(y)
    <2> HIDE DEF x, y
    <2> QED BY <1>2, <1>3, <1>4 DEF Current
  <1> QED BY <1>1, <1>5, SerialLocal

LEMMA SerialInsert ==
  ASSUME IInv, SerialInv, NEW c \in Client, Insert(c), UNCHANGED setting
  PROVE  SerialInv'
  <1> DEFINE x == tx[c]
  <1>1. /\ x \in Tx /\ Formed(x) /\ x.at = "insert" /\ x # Idle /\ UNCHANGED <<db, formLock>>
    BY Begun DEF Insert
  <1>2. PICK n \in 0 .. MaxTicketId - lastId :
          tx' = [tx EXCEPT ![c].at = "commit", ![c].old = lastId + 1 .. lastId + n]
    BY DEF Insert
  <1> DEFINE ids == lastId + 1 .. lastId + n
             z == [x EXCEPT !.at = "commit"]
             y == [z EXCEPT !.old = ids]
  <1>3. tx' = [tx EXCEPT ![c] = y]
    BY <1>2 DEF IInv, TypeOK
  <1>4. z \in Tx /\ z.op = x.op
    <2> HIDE DEF x
    <2> QED BY <1>1, AtChanged
  <1>5. x.op = "putTickets"
    BY <1>1 DEF Formed, Tx, Op
  <1>6. y.op = "putTickets"
    <2> HIDE DEF z, ids
    <2> QED BY <1>4, <1>5 DEF Tx
  <1>7. Current(y)
    <2> HIDE DEF y
    <2> QED BY <1>6 DEF Current
  <1> QED BY <1>1, <1>3, <1>7, SerialLocal

(***************************************************************************)
(* When a request ends, none is under way.                                 *)
(***************************************************************************)
LEMMA SerialRelease ==
  ASSUME IInv, SerialInv, NEW c \in Client, tx[c] # Idle, Release(c), UNCHANGED setting
  PROVE  SerialInv'
  <1>1. Serial => \A e \in Client : tx'[e] = Idle
    BY OneUnderWay DEF Release, IInv, TypeOK
  <1> QED BY <1>1 DEF SerialInv, Serial

LEMMA SerialNext == IInv /\ SerialInv /\ [Next]_vars => SerialInv'
  <1> SUFFICES ASSUME IInv, SerialInv, [Next]_vars PROVE SerialInv'
    OBVIOUS
  <1>1. ASSUME NEW c \in Client, UNCHANGED setting,
               Refuse(c) \/ Commit(c) \/ Reject(c) \/ Fail(c)
        PROVE  SerialInv'
    <2>1. tx[c] # Idle /\ Release(c)
      BY <1>1, Begun DEF Refuse, Commit, Reject, Fail
    <2> QED BY <1>1, <2>1, SerialRelease
  <1>2. ASSUME NEW c \in Client, UNCHANGED setting, Step(c) \/ Fail(c)
        PROVE  SerialInv'
    <2>1. Enter(c) => SerialInv'
      BY <1>2, SerialEnter
    <2>2. ReadPrizeRow(c) \/ ReadTicketRow(c) \/ ReadAllPrizes(c) => SerialInv'
      BY <1>2, SerialPrizeRow, SerialTicketRow, SerialAllPrizes
    <2>3. ReadCollection(c) \/ ReadSnapshot(c) \/ Insert(c) => SerialInv'
      BY <1>2, SerialCollection, SerialSnapshot, SerialInsert
    <2> QED BY <1>1, <1>2, <2>1, <2>2, <2>3 DEF Step
  <1>3. CASE UNCHANGED vars
    BY <1>3 DEF vars, db, SerialInv, Serial, Current, Store!Free, Store!NoPrize
  <1> QED BY <1>2, <1>3, SerialBegin DEF Next

-----------------------------------------------------------------------------
(* The refinement *)

\* Writing one column keeps the other.
LEMMA RowWritten ==
  ASSUME NEW row \in Store!PrizeRow, NEW e
  PROVE  /\ [row EXCEPT !.issued = e] = [prizeName |-> row.prizeName, issued |-> e]
         /\ [row EXCEPT !.prizeName = e] = [prizeName |-> e, issued |-> row.issued]
  BY DEF Store!PrizeRow

(***************************************************************************)
(* A commit of a request that ran alone is one operation of TombolaStore,  *)
(* or nothing: a name that was the prize's already, an insert of no        *)
(* ticket.                                                                 *)
(***************************************************************************)
LEMMA CommitIsStoreStep ==
  ASSUME IInv, SerialInv, Serial, NEW c \in Client, Commit(c)
  PROVE  Store!Next \/ UNCHANGED Store!vars
  <1> DEFINE x == tx[c]
             d == After(x)
  <1>1. /\ x.at = "commit" /\ Accepted(x) /\ x \in Tx /\ Formed(x) /\ Loaded(x)
        /\ prize' = d.prize /\ tickets' = d.tickets /\ win' = d.win /\ listed' = d.listed
        /\ seen' = seen \cup d.tickets
    BY DEF Commit, IInv, TypeOK
  <1>2. Current(x)
    BY <1>1, Begun DEF SerialInv
  <1>3. /\ Store!NamesDiffer(prize')
        /\ x.op \in {"patchPrizeTicket", "deleteTicket"} => x.ticket \in tickets
    BY <1>1 DEF Accepted
  <1>4. x.op \in Op
    BY <1>1 DEF Formed, Tx
  <1>5. CASE x.op = "patchPrizeTicket"
    <2>1. /\ x.prize \in Prize /\ x.ticket \in TicketId
          /\ d.prize = [prize EXCEPT ![x.prize] = [prizeName |-> x.rows[x.prize].prizeName,
                                                   issued |-> x.rows[x.prize].issued + 1]]
          /\ d.tickets = tickets
          /\ d.win = [win EXCEPT ![x.ticket] = x.prize]
          /\ d.listed = [listed EXCEPT ![x.prize] = Kept(x) \cup {x.ticket}]
      <3> HIDE DEF x
      <3> QED BY <1>1, <1>5, AfterDrawIs
    <2>2. /\ x.rows[x.prize] = prize[x.prize] /\ x.old = listed[x.prize] /\ x.ticket \in Store!Free
      BY <1>1, <1>2, <1>5 DEF Current
    <2>6. Kept(x) = listed[x.prize]
      BY <2>2 DEF Kept
    <2> HIDE DEF x, d
    <2>3. [prize EXCEPT ![x.prize].issued = @ + 1] =
            [prize EXCEPT ![x.prize] = [prizeName |-> prize[x.prize].prizeName,
                                        issued |-> prize[x.prize].issued + 1]]
      <3>1. prize[x.prize] \in Store!PrizeRow
        BY <2>1, TablesTyped
      <3> QED BY <3>1, RowWritten
    <2>4. seen' = seen
      BY <1>1, <2>1, TablesTyped
    <2>5. Store!PatchPrizeTicket(x.prize, x.ticket)
      BY <1>1, <2>1, <2>2, <2>3, <2>4, <2>6 DEF Store!PatchPrizeTicket
    <2> QED BY <2>1, <2>5 DEF Store!Next, TicketId
  <1>6. CASE x.op = "patchPrizeName"
    <2>1. /\ x.prize \in Prize /\ x.name \in Name
          /\ \/ d.prize = prize
             \/ d.prize = [prize EXCEPT ![x.prize] = [prizeName |-> x.name,
                                                      issued |-> x.rows[x.prize].issued]]
          /\ d.tickets = tickets /\ d.win = win /\ d.listed = listed
      <3> HIDE DEF x
      <3> QED BY <1>1, <1>6, AfterNameIs
    <2>2. x.rows[x.prize] = prize[x.prize]
      BY <1>1, <1>2, <1>6 DEF Current
    <2> HIDE DEF x, d
    <2>3. seen' = seen
      BY <1>1, <2>1, TablesTyped
    <2>4. CASE d.prize = prize
      BY <1>1, <2>1, <2>3, <2>4 DEF Store!vars
    <2>5. CASE d.prize = [prize EXCEPT ![x.prize] = [prizeName |-> x.name,
                                                     issued |-> x.rows[x.prize].issued]]
      <3>1. [prize EXCEPT ![x.prize].prizeName = x.name] = d.prize
        <4>1. prize[x.prize] \in Store!PrizeRow
          BY <2>1, TablesTyped
        <4>2. [prize[x.prize] EXCEPT !.prizeName = x.name] =
                [prizeName |-> x.name, issued |-> prize[x.prize].issued]
          BY <4>1, RowWritten
        <4> QED BY <2>2, <2>5, <4>2
      <3>2. Store!PatchPrizeName(x.prize, x.name)
        BY <1>1, <1>3, <2>1, <2>3, <3>1 DEF Store!PatchPrizeName
      <3> QED BY <2>1, <3>2 DEF Store!Next
    <2> QED BY <2>1, <2>4, <2>5
  <1>7. CASE x.op = "deleteTicket"
    <2>1. x.ticket \in TicketId /\ x.ticket \in tickets /\ x.rows = prize
          /\ x.holders = {p \in Prize : x.ticket \in listed[p]}
      BY <1>1, <1>2, <1>3, <1>7 DEF Formed, Current
    <2>2. /\ d.prize = [p \in Prize |-> IF p \in x.holders THEN [x.rows[p] EXCEPT !.issued = @ - 1]
                                                           ELSE prize[p]]
          /\ d.listed = [p \in Prize |-> IF p \in x.holders THEN listed[p] \ {x.ticket}
                                                           ELSE listed[p]]
          /\ d.win = [win EXCEPT ![x.ticket] = NoPrize]
          /\ d.tickets = tickets \ {x.ticket}
      BY <1>7 DEF After, AfterDeleteTicket
    <2> HIDE DEF x, d
    <2>3. /\ d.prize = [p \in Prize |-> IF x.ticket \in listed[p] THEN [prize[p] EXCEPT !.issued = @ - 1]
                                                                   ELSE prize[p]]
          /\ d.listed = [p \in Prize |-> listed[p] \ {x.ticket}]
      BY <2>1, <2>2
    <2>4. seen' = seen
      BY <1>1, <2>2, TablesTyped
    <2>5. Store!DeleteTicket(x.ticket)
      BY <1>1, <2>1, <2>2, <2>3, <2>4 DEF Store!DeleteTicket, NoPrize
    <2> QED BY <2>1, <2>5 DEF Store!Next, TicketId
  <1>8. CASE x.op = "putTickets"
    <2>1. /\ d.prize = prize /\ d.tickets = tickets \cup x.old /\ d.win = win /\ d.listed = listed
      BY <1>8 DEF After, AfterPutTickets, Tables
    <2>2. x.old \in SUBSET TicketId /\ x.old \cap seen = {}
      BY <1>1, <1>8 DEF Tx, IInv, InsertsFresh, Inserting
    <2> HIDE DEF x, d
    <2>3. seen' = seen \cup x.old
      BY <1>1, <2>1, TablesTyped
    <2>4. CASE x.old = {}
      BY <1>1, <2>1, <2>3, <2>4 DEF Store!vars
    <2>5. CASE x.old # {}
      <3>1. Store!PutTickets(x.old)
        BY <1>1, <2>1, <2>2, <2>3, <2>5 DEF Store!PutTickets
      <3> QED BY <2>2, <3>1 DEF Store!Next, TicketId
    <2> QED BY <2>4, <2>5
  <1> QED BY <1>4, <1>5, <1>6, <1>7, <1>8 DEF Op

LEMMA StepIsStoreStep ==
  ASSUME IInv, SerialInv, Serial, [Next]_vars
  PROVE  Store!Next \/ UNCHANGED Store!vars
  <1>1. (\E c \in Client : Commit(c)) \/ UNCHANGED <<prize, tickets, win, listed, seen>>
    BY DEF Next, Begin, BeginForm, BeginRest, Step, Enter, ReadPrizeRow, ReadTicketRow,
           ReadAllPrizes, ReadCollection, ReadSnapshot, LeaveWith, Refuse, Insert, Reject,
           Fail, vars, db
  <1> QED BY <1>1, CommitIsStoreStep DEF Store!vars

(***************************************************************************)
(* Managers, whose requests IndexController runs one at a time until they  *)
(* are committed, or one REST thread alone, see the operations of          *)
(* TombolaStore: what TombolaAuditProofs proves of that module is true of  *)
(* the interleaved service too, under either isolation level.              *)
(***************************************************************************)
THEOREM SerialIsStore == Spec /\ Serial => StoreSpec
  <1>1. Init => Store!Init
    BY DEF Init
  <1>2. Serial /\ [Next]_vars => Serial'
    BY DEF Next, vars, Serial
  <1>3. IInv /\ SerialInv /\ Serial /\ [Next]_vars => [Store!Next]_(Store!vars)
    BY StepIsStoreStep
  <1> QED BY <1>1, <1>2, <1>3, SerialInit, SerialNext, InductiveInvariant, PTL
          DEF Spec, StoreSpec, Store!Spec
=============================================================================
