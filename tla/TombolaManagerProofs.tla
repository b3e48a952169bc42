------------------------- MODULE TombolaManagerProofs -------------------------
(***************************************************************************)
(* Proofs about TombolaManager: how many pieces of a prize can be issued,  *)
(* for any prizes, counts, sessions, threads and REST clients. A step of   *)
(* the manager page is a step of TombolaTx or leaves its variables alone,  *)
(* so that the invariant of TombolaTxProofs can be used here.              *)
(***************************************************************************)
EXTENDS TombolaManager, TombolaTxProofs

(***************************************************************************)
(* The tickets a page or a request under way can still give to prize p:    *)
(* those of drafts, and those of submissions that decrypt.                 *)
(***************************************************************************)
Pending(th, p) ==
  IF req[th].at = "drawn" THEN req[th].draft[p]
  ELSE IF req[th].at \in {"post", "patch"} /\ req[th].fresh /\ req[th].prize = p
       THEN req[th].ticket
  ELSE NoTicket

Held(p) == {draft[s][p] : s \in Session} \cup {Pending(th, p) : th \in Thread}
Promised(p) == Held(p) \cap Free

\* Every ticket held has existed: an id inserted later is not one of them.
Known == \A p \in Prize : Held(p) \subseteq seen \cup {NoTicket}

(***************************************************************************)
(* What a thread of the manager page has under way in the service is the   *)
(* draw of its request, inside the monitor of IndexController.             *)
(***************************************************************************)
Serves(th) ==
  /\ req[th].at # "idle" => req[th].session \in Session
  /\ req[th].at \in {"post", "patch"} => req[th].prize \in Prize /\ req[th].ticket \in TicketId
  /\ req[th].at # "patch" => tx[th] = Idle
  /\ req[th].at = "patch" =>
       /\ req[th].fresh /\ formLock = th
       /\ tx[th].at # "idle" /\ tx[th].op = "patchPrizeTicket"
       /\ tx[th].prize = req[th].prize /\ tx[th].ticket = req[th].ticket

RestAsSet == \A c \in RestClients : tx[c].at # "idle" => tx[c].op \in setting.ops

(***************************************************************************)
(* Where only managers draw, a ticket found free is free until it wins, or *)
(* is gone.                                                                *)
(***************************************************************************)
OnlyManagersDraw == "patchPrizeTicket" \notin setting.ops
Claims(th) ==
  tx[th].at \in {"collection", "commit"} /\ tx[th].ticket \in tickets =>
    win[tx[th].ticket] = NoPrize

MInv ==
  /\ IInv /\ ManagerTypeOK
  /\ Known
  /\ \A th \in Thread : Serves(th)
  /\ RestAsSet
  /\ OnlyManagersDraw => \A th \in Thread : Claims(th)

-----------------------------------------------------------------------------
(* What a step of the service does *)

(***************************************************************************)
(* A request that goes on keeps its arguments; what it has read is what    *)
(* the tables hold at that step, or what it had read before.               *)
(***************************************************************************)
Moved(x, y) ==
  /\ y.at # "idle" /\ y.op = x.op /\ y.prize = x.prize /\ y.ticket = x.ticket
  /\ x.op = "patchPrizeTicket" /\ y.at \in {"collection", "commit"} =>
       x.at = "collection" \/ Wanted(x)
  /\ x.op = "patchPrizeTicket" /\ y.at \in {"ticketRow", "collection", "commit"} =>
       \/ y.rows[x.prize] = prize[x.prize]
       \/ x.at \in {"ticketRow", "collection"} /\ y.rows = x.rows
  /\ x.op = "deleteTicket" /\ y.at \in {"collection", "commit"} =>
       \/ y.rows = prize
       \/ x.at = "collection" /\ y.rows = x.rows

GoesOn(c) ==
  /\ \E y \in Tx : tx' = [tx EXCEPT ![c] = y] /\ Moved(tx[c], y)
  /\ UNCHANGED <<db, formLock>>
Ends(c) ==
  /\ tx' = [tx EXCEPT ![c] = Idle]
  /\ formLock' = IF formLock = c THEN Nobody ELSE formLock
  /\ Commit(c) \/ UNCHANGED db

LEMMA EnterMoves ==
  ASSUME IInv, NEW c \in Client, Enter(c)
  PROVE  GoesOn(c)
  <1> DEFINE x == tx[c]
             y == [x EXCEPT !.at = FirstRead(x.op)]
  <1>1. x \in Tx /\ Formed(x) /\ x.at = "enter"
    BY DEF IInv, TypeOK, Enter
  <1>2. x.op \in Op
    BY <1>1 DEF Formed, Tx
  <1>3. FirstRead(x.op) \in {"prizeRow", "ticketRow", "insert"}
        /\ (x.op = "patchPrizeTicket" => FirstRead(x.op) = "prizeRow")
    BY <1>2 DEF FirstRead, Op
  <1>4. /\ y \in Tx /\ y.at = FirstRead(x.op)
        /\ y.op = x.op /\ y.prize = x.prize /\ y.ticket = x.ticket
    <2> HIDE DEF x
    <2> QED BY <1>1, <1>3, AtChanged
  <1>5. tx' = [tx EXCEPT ![c] = y] /\ UNCHANGED <<db, formLock>>
    BY DEF Enter, Goto, IInv, TypeOK
  <1> HIDE DEF y
  <1>6. Moved(x, y)
    BY <1>3, <1>4 DEF Moved
  <1> QED BY <1>4, <1>5, <1>6 DEF GoesOn

LEMMA PrizeRowMoves ==
  ASSUME IInv, NEW c \in Client, ReadPrizeRow(c)
  PROVE  GoesOn(c)
  <1> DEFINE x == tx[c]
             z == WithPrizeRow(x)
  <1>1. x \in Tx /\ Formed(x) /\ x.at = "prizeRow" /\ Store!TypeOK
    BY DEF IInv, TypeOK, ReadPrizeRow
  <1>2. x.op \in {"patchPrizeTicket", "patchPrizeName"} /\ x.prize \in Prize
    BY <1>1 DEF Formed, Tx, Op
  <1>3. /\ z \in Tx /\ z.op = x.op /\ z.prize = x.prize /\ z.ticket = x.ticket
        /\ z.rows[x.prize] = prize[x.prize]
    <2> HIDE DEF x
    <2> QED BY <1>1, <1>2, PrizeRowRead
  <1>4. ASSUME NEW at \in {"ticketRow", "commit"},
               at = "commit" => x.op = "patchPrizeName",
               tx' = [tx EXCEPT ![c] = [z EXCEPT !.at = at]], UNCHANGED <<db, formLock>>
        PROVE  GoesOn(c)
    <2> DEFINE y == [z EXCEPT !.at = at]
    <2>1. /\ y \in Tx /\ y.at = at /\ y.op = z.op /\ y.prize = z.prize
          /\ y.ticket = z.ticket /\ y.rows = z.rows
      <3> HIDE DEF z
      <3> QED BY <1>3, <1>4, AtChanged
    <2>2. tx' = [tx EXCEPT ![c] = y]
      BY <1>4
    <2> HIDE DEF y, z
    <2>3. Moved(x, y)
      BY <1>2, <1>3, <1>4, <2>1 DEF Moved
    <2> QED BY <1>4, <2>1, <2>2, <2>3 DEF GoesOn
  <1>5. \/ /\ x.op = "patchPrizeName" /\ tx' = [tx EXCEPT ![c] = [z EXCEPT !.at = "commit"]]
           /\ UNCHANGED <<db, formLock>>
        \/ /\ tx' = [tx EXCEPT ![c] = [z EXCEPT !.at = "ticketRow"]]
           /\ UNCHANGED <<db, formLock>>
    BY DEF ReadPrizeRow, LeaveWith
  <1> HIDE DEF x, z
  <1> QED BY <1>4, <1>5

LEMMA TicketRowMoves ==
  ASSUME IInv, NEW c \in Client, ReadTicketRow(c)
  PROVE  GoesOn(c)
  <1> DEFINE x == tx[c]
             at == IF x.op = "deleteTicket" THEN "allPrizes" ELSE "collection"
             y == [x EXCEPT !.at = at]
  <1>1. /\ x \in Tx /\ x.at = "ticketRow" /\ Wanted(x)
        /\ tx' = [tx EXCEPT ![c] = y] /\ UNCHANGED <<db, formLock>>
    BY DEF IInv, TypeOK, ReadTicketRow, Goto
  <1>2. at \in {"allPrizes", "collection"} /\ (x.op = "deleteTicket" => at = "allPrizes")
    OBVIOUS
  <1>3. /\ y \in Tx /\ y.at = at /\ y.op = x.op /\ y.prize = x.prize
        /\ y.ticket = x.ticket /\ y.rows = x.rows
    <2> HIDE DEF x, at
    <2> QED BY <1>1, <1>2, AtChanged
  <1> HIDE DEF y, at
  <1>4. Moved(x, y)
    BY <1>1, <1>2, <1>3 DEF Moved
  <1> QED BY <1>1, <1>3, <1>4 DEF GoesOn

LEMMA AllPrizesMoves ==
  ASSUME IInv, NEW c \in Client, ReadAllPrizes(c)
  PROVE  GoesOn(c)
  <1> DEFINE x == tx[c]
             y == [x EXCEPT !.at = "collection", !.rows = prize, !.todo = Prize]
  <1>1. /\ x \in Tx /\ Formed(x) /\ x.at = "allPrizes" /\ Store!TypeOK
        /\ tx' = [tx EXCEPT ![c] = y] /\ UNCHANGED <<db, formLock>>
    BY DEF IInv, TypeOK, ReadAllPrizes
  <1>2. x.op = "deleteTicket"
    BY <1>1 DEF Formed, Tx, Op
  <1>3. prize \in [Prize -> Row]
    BY <1>1 DEF Store!TypeOK, Store!PrizeRow, Row
  <1>4. /\ y \in Tx /\ y.at = "collection" /\ y.op = x.op /\ y.prize = x.prize
        /\ y.ticket = x.ticket /\ y.rows = prize
    <2> HIDE DEF x
    <2> QED BY <1>1, <1>3 DEF Tx
  <1> HIDE DEF y
  <1>5. Moved(x, y)
    BY <1>2, <1>4 DEF Moved
  <1> QED BY <1>1, <1>4, <1>5 DEF GoesOn

LEMMA CollectionMoves ==
  ASSUME IInv, NEW c \in Client, ReadCollection(c)
  PROVE  GoesOn(c)
  <1> DEFINE x == tx[c]
  <1>1. x \in Tx /\ Formed(x) /\ x.at = "collection" /\ Store!TypeOK
    BY DEF IInv, TypeOK, ReadCollection
  <1>2. ASSUME NEW z \in Tx, z.op = x.op, z.prize = x.prize, z.ticket = x.ticket,
               z.rows = x.rows, NEW at \in {"collection", "commit"},
               NEW y, y = [z EXCEPT !.at = at],
               tx' = [tx EXCEPT ![c] = y], UNCHANGED <<db, formLock>>
        PROVE  GoesOn(c)
    <2>1. /\ y \in Tx /\ y.at = at /\ y.op = z.op /\ y.prize = z.prize
          /\ y.ticket = z.ticket /\ y.rows = z.rows
      BY <1>2, AtChanged
    <2> HIDE DEF x
    <2>2. Moved(x, y)
      BY <1>1, <1>2, <2>1 DEF Moved
    <2> QED BY <1>2, <2>1, <2>2 DEF GoesOn, x
  <1>3. CASE x.op = "patchPrizeTicket"
    <2> DEFINE z == WithCollection(x)
               y == [z EXCEPT !.at = "commit"]
    <2>1. tx' = [tx EXCEPT ![c] = y] /\ UNCHANGED <<db, formLock>>
      BY <1>3 DEF ReadCollection, LeaveWith
    <2>2. z \in Tx /\ z.op = x.op /\ z.prize = x.prize /\ z.ticket = x.ticket /\ z.rows = x.rows
      <3>1. x.prize \in Prize
        BY <1>1, <1>3 DEF Formed
      <3> HIDE DEF x
      <3> QED BY <1>1, <3>1, CollectionRead
    <2> HIDE DEF z
    <2> QED BY <1>2, <2>1, <2>2
  <1>4. CASE x.op = "deleteTicket" /\ x.todo # {}
    <2> DEFINE z == WithHolders(x, {FirstTodo(x)})
    <2>1. tx' = [tx EXCEPT ![c] = z] /\ UNCHANGED <<db, formLock>>
      BY <1>4 DEF ReadCollection
    <2>2. /\ z \in Tx /\ z.op = x.op /\ z.prize = x.prize /\ z.ticket = x.ticket
          /\ z.rows = x.rows /\ z.at = x.at
      <3>1. FirstTodo(x) \in Prize
        BY <1>1, <1>4, FirstTodoIsOne DEF Tx
      <3> HIDE DEF x
      <3> QED BY <1>1, <3>1, HoldersRead
    <2>3. z = [z EXCEPT !.at = "collection"]
      <3> HIDE DEF z
      <3> QED BY <1>1, <2>2 DEF Tx
    <2> HIDE DEF z
    <2> QED BY <1>2, <2>1, <2>2, <2>3
  <1>5. CASE x.op = "deleteTicket" /\ x.todo = {}
    <2>1. tx' = [tx EXCEPT ![c] = [x EXCEPT !.at = "commit"]] /\ UNCHANGED <<db, formLock>>
      BY <1>5 DEF ReadCollection, LeaveWith
    <2> HIDE DEF x
    <2> QED BY <1>1, <1>2, <2>1
  <1> QED BY <1>3, <1>4, <1>5 DEF ReadCollection


LEMMA SnapshotMoves ==
  ASSUME IInv, NEW c \in Client, ReadSnapshot(c)
  PROVE  GoesOn(c)
  <1> DEFINE x == tx[c]
             y == [Snapshot(x) EXCEPT !.at = "commit"]
  <1>1. /\ x \in Tx /\ Formed(x) /\ x.at \in {"prizeRow", "ticketRow"} /\ Store!TypeOK
        /\ x.op # "patchPrizeName" => Wanted(x)
        /\ tx' = [tx EXCEPT ![c] = y] /\ UNCHANGED <<db, formLock>>
    BY DEF IInv, TypeOK, ReadSnapshot, LeaveWith, Snapshot
  <1>2. /\ y \in Tx /\ y.at = "commit" /\ y.op = x.op /\ y.prize = x.prize
        /\ y.ticket = x.ticket
        /\ x.op = "patchPrizeTicket" => y.rows[x.prize] = prize[x.prize]
        /\ x.op = "deleteTicket" => y.rows = prize
    <2> HIDE DEF x
    <2> QED BY <1>1, SnapshotIs
  <1> HIDE DEF y
  <1>3. Moved(x, y)
    BY <1>1, <1>2 DEF Moved
  <1> QED BY <1>1, <1>2, <1>3 DEF GoesOn

LEMMA InsertMoves ==
  ASSUME IInv, NEW c \in Client, Insert(c)
  PROVE  GoesOn(c)
  <1>1. tx[c] \in Tx /\ tx[c].at = "insert" /\ Formed(tx[c]) /\ UNCHANGED <<db, formLock>>
    BY DEF IInv, TypeOK, Insert
  <1>2. tx[c].op = "putTickets"
    BY <1>1 DEF Formed, Tx, Op
  <1>3. PICK n \in 0 .. MaxTicketId - lastId :
          tx' = [tx EXCEPT ![c].at = "commit", ![c].old = lastId + 1 .. lastId + n]
    BY DEF Insert
  <1>4. lastId + 1 .. lastId + n \in SUBSET TicketId
    <2>1. lastId \in 0 .. MaxTicketId
      BY DEF IInv, TypeOK
    <2> QED BY <2>1, TicketIdAssumption DEF TicketId, Store!TicketId
  <1> DEFINE ids == lastId + 1 .. lastId + n
             x == tx[c]
             y == [[x EXCEPT !.at = "commit"] EXCEPT !.old = ids]
  <1>5. tx' = [tx EXCEPT ![c] = y] /\ ids \in SUBSET TicketId /\ x \in Tx
    BY <1>1, <1>3, <1>4 DEF IInv, TypeOK
  <1> HIDE DEF ids
  <1>6. y \in Tx /\ y.at = "commit" /\ y.op = x.op /\ y.prize = x.prize /\ y.ticket = x.ticket
    <2> HIDE DEF x
    <2> QED BY <1>5 DEF Tx
  <1> HIDE DEF y
  <1>7. Moved(x, y)
    BY <1>2, <1>6 DEF Moved
  <1> QED BY <1>1, <1>5, <1>6, <1>7 DEF GoesOn

LEMMA StepMoves ==
  ASSUME IInv, NEW c \in Client, Step(c) \/ Fail(c)
  PROVE  tx[c] # Idle /\ (GoesOn(c) \/ Ends(c))
  <1>1. Enter(c) \/ ReadPrizeRow(c) \/ ReadTicketRow(c) \/ ReadAllPrizes(c)
          \/ ReadCollection(c) \/ ReadSnapshot(c) \/ Insert(c) => GoesOn(c)
    BY EnterMoves, PrizeRowMoves, TicketRowMoves, AllPrizesMoves, CollectionMoves,
       SnapshotMoves, InsertMoves
  <1>2. Refuse(c) \/ Commit(c) \/ Reject(c) \/ Fail(c) => Ends(c)
    BY DEF Refuse, Commit, Reject, Fail, Release, Ends
  <1>3. Step(c) => tx[c].at # "idle"
    BY DEF Step, Enter, ReadPrizeRow, ReadTicketRow, ReadAllPrizes, ReadCollection,
           ReadSnapshot, Refuse, Insert, Commit, Reject
  <1>4. Idle.at = "idle"
    BY DEF Idle
  <1> QED BY <1>1, <1>2, <1>3, <1>4 DEF Step, Fail


-----------------------------------------------------------------------------
(* What a commit does to the counters and the free tickets *)

LEMMA FreeTyped ==
  ASSUME Store!TypeOK
  PROVE  Free \in SUBSET TicketId /\ NoTicket \notin Free /\ NoTicket \notin TicketId
         /\ Free \subseteq seen
  <1>1. NoTicket \notin TicketId
    BY TicketIdAssumption DEF TicketId, Store!TicketId, NoTicket
  <1>2. Free \in SUBSET TicketId /\ Free \subseteq seen
    BY DEF Store!TypeOK, Free, Store!Free, TicketId
  <1> QED BY <1>1, <1>2

LEMMA CommitIs ==
  ASSUME IInv, NEW c \in Client, Commit(c)
  PROVE  /\ tx[c] \in Tx /\ Formed(tx[c]) /\ Loaded(tx[c]) /\ tx[c].at = "commit" /\ tx[c].op \in Op
         /\ prize' = After(tx[c]).prize /\ tickets' = After(tx[c]).tickets
         /\ win' = After(tx[c]).win /\ listed' = After(tx[c]).listed
         /\ seen' = seen \cup After(tx[c]).tickets
         /\ tx[c].op \in {"patchPrizeTicket", "deleteTicket"} => tx[c].ticket \in tickets
  <1>1. tx[c] \in Tx /\ Formed(tx[c]) /\ Loaded(tx[c]) /\ tx[c].at = "commit"
    BY DEF Commit, IInv, TypeOK
  <1>2. tx[c].op \in Op
    BY <1>1 DEF Formed, Tx
  <1> QED BY <1>1, <1>2 DEF Commit, Accepted

LEMMA DrawCommits ==
  ASSUME IInv, NEW c \in Client, Commit(c), tx[c].op = "patchPrizeTicket",
         NEW p, p = tx[c].prize, NEW t, t = tx[c].ticket
  PROVE  /\ p \in Prize /\ t \in tickets /\ seen' = seen /\ tickets' = tickets
         /\ win' = [win EXCEPT ![t] = p] /\ Free' = Free \ {t}
         /\ tx[c].rows[p].issued \in Int /\ prize'[p].issued = tx[c].rows[p].issued + 1
         /\ \A q \in Prize \ {p} : prize'[q] = prize[q]
  <1> DEFINE x == tx[c]
             d == After(x)
  <1>1. /\ x \in Tx /\ Formed(x) /\ Loaded(x) /\ x.at = "commit" /\ x.ticket \in tickets
        /\ prize' = d.prize /\ tickets' = d.tickets /\ win' = d.win
        /\ seen' = seen \cup d.tickets
    BY CommitIs
  <1>2. /\ x.prize \in Prize /\ x.ticket \in TicketId /\ x.rows[x.prize] \in Store!PrizeRow
        /\ d.prize = [prize EXCEPT ![x.prize] = [prizeName |-> x.rows[x.prize].prizeName,
                                                 issued |-> x.rows[x.prize].issued + 1]]
        /\ d.tickets = tickets
        /\ d.win = [win EXCEPT ![x.ticket] = x.prize]
    <2> HIDE DEF x
    <2>1. x.op = "patchPrizeTicket"
      BY DEF x
    <2> QED BY <1>1, <2>1, AfterDrawIs
  <1> HIDE DEF d
  <1>3. /\ prize' = [prize EXCEPT ![p] = [prizeName |-> x.rows[p].prizeName,
                                          issued |-> x.rows[p].issued + 1]]
        /\ p \in Prize /\ t \in TicketId /\ t \in tickets /\ x.rows[p] \in Store!PrizeRow
        /\ tickets' = tickets /\ win' = [win EXCEPT ![t] = p]
    BY <1>1, <1>2
  <1> HIDE DEF x
  <1>4. /\ prize \in [Prize -> Store!PrizeRow] /\ tickets \subseteq seen
        /\ tickets \in SUBSET TicketId
        /\ win \in [TicketId -> Prize \cup {NoPrize}]
    BY TablesTyped
  <1>5. seen' = seen
    BY <1>1, <1>2, <1>4
  <1>6. Free' = Free \ {t}
    BY <1>3, <1>4, NoPrizeIsNone DEF Free, Store!Free, NoPrize
  <1>7. /\ prize'[p].issued = x.rows[p].issued + 1 /\ x.rows[p].issued \in Int
        /\ \A q \in Prize \ {p} : prize'[q] = prize[q]
    BY <1>3, <1>4 DEF Store!PrizeRow
  <1> QED BY <1>3, <1>5, <1>6, <1>7 DEF x

(***************************************************************************)
(* The other operations free no ticket that exists and let none win.       *)
(***************************************************************************)
LEMMA OtherCommits ==
  ASSUME IInv, NEW c \in Client, Commit(c), tx[c].op # "patchPrizeTicket"
  PROVE  /\ seen \subseteq seen' /\ Free' \cap seen \subseteq Free
         /\ \A t \in tickets' \cap seen : t \in tickets /\ win'[t] = win[t]
         /\ tx[c].op = "putTickets" => prize' = prize
         /\ tx[c].op = "deleteTicket" => \A p \in Prize :
              \/ prize'[p] = prize[p]
              \/ /\ tx[c].rows[p].issued \in Int
                 /\ prize'[p].issued = tx[c].rows[p].issued - 1
  <1> DEFINE x == tx[c]
             d == After(x)
  <1>1. /\ x \in Tx /\ Formed(x) /\ Loaded(x) /\ x.at = "commit" /\ x.op \in Op
        /\ prize' = d.prize /\ tickets' = d.tickets /\ win' = d.win
        /\ seen' = seen \cup d.tickets
    BY CommitIs
  <1>2. /\ prize \in [Prize -> Store!PrizeRow] /\ tickets \subseteq seen
        /\ tickets \in SUBSET TicketId
        /\ win \in [TicketId -> Prize \cup {NoPrize}]
    BY TablesTyped
  <1>3. CASE x.op = "patchPrizeName"
    <2>1. d.tickets = tickets /\ d.win = win
      <3> HIDE DEF x
      <3> QED BY <1>1, <1>3, AfterNameIs
    <2> HIDE DEF d
    <2> QED BY <1>1, <1>2, <1>3, <2>1 DEF Free, Store!Free
  <1>4. CASE x.op = "deleteTicket"
    <2>1. /\ d.prize = [p \in Prize |-> IF p \in x.holders THEN [x.rows[p] EXCEPT !.issued = @ - 1]
                                                           ELSE prize[p]]
          /\ d.win = [win EXCEPT ![x.ticket] = NoPrize]
          /\ d.tickets = tickets \ {x.ticket}
      BY <1>4 DEF After, AfterDeleteTicket
    <2>2. x.rows \in [Prize -> Store!PrizeRow]
      BY <1>1, <1>4 DEF Loaded
    <2> HIDE DEF d
    <2>3. ASSUME NEW p \in Prize
          PROVE  \/ prize'[p] = prize[p]
                 \/ x.rows[p].issued \in Int /\ prize'[p].issued = x.rows[p].issued - 1
      BY <1>1, <2>1, <2>2 DEF Store!PrizeRow
    <2>4. \A t \in tickets' : t \in tickets /\ win'[t] = win[t]
      BY <1>1, <1>2, <2>1
    <2>5. seen \subseteq seen' /\ Free' \subseteq Free
      BY <1>1, <2>4 DEF Free, Store!Free
    <2> QED BY <1>4, <2>3, <2>4, <2>5
  <1>5. CASE x.op = "putTickets"
    <2>1. /\ d.prize = prize /\ d.tickets = tickets \cup x.old /\ d.win = win
      BY <1>5 DEF After, AfterPutTickets, Tables
    <2>2. x.old \cap seen = {}
      BY <1>1, <1>5 DEF IInv, InsertsFresh, Inserting
    <2> HIDE DEF d
    <2>3. \A t \in tickets' \cap seen : t \in tickets /\ win'[t] = win[t]
      BY <1>1, <1>2, <2>1, <2>2
    <2>4. seen \subseteq seen' /\ Free' \cap seen \subseteq Free
      BY <1>1, <2>3 DEF Free, Store!Free
    <2> QED BY <1>1, <1>5, <2>1, <2>3, <2>4
  <1> QED BY <1>1, <1>3, <1>4, <1>5 DEF Op

-----------------------------------------------------------------------------
(* Requests and what they hold *)

LEMMA NoReqIs ==
  /\ NoReq \in Req /\ NoReq.at = "idle" /\ NoReq.session = NoSession
  /\ NoDraft \in Draft /\ \A p \in Prize : NoDraft[p] = NoTicket
  BY DEF NoReq, Req, NoDraft, Draft

\* How one thread's new request changes what is held.
LEMMA OneRequest ==
  ASSUME ManagerTypeOK, NEW th \in Thread, NEW r \in Req, req' = [req EXCEPT ![th] = r]
  PROVE  /\ req' \in [Thread -> Req] /\ req'[th] = r
         /\ \A u \in Thread \ {th} : req'[u] = req[u] /\ \A p : Pending(u, p)' = Pending(u, p)
  BY DEF ManagerTypeOK, Pending

\* A draft, as the random choice makes it.
LEMMA DraftIs ==
  ASSUME TypeOK, NEW d \in Drafts
  PROVE  /\ d \in Draft
         /\ \A p \in Prize : d[p] \in Free \cup {NoTicket}
         /\ \A p \in Prize : d[p] # NoTicket => prize[p].issued < Cnt[p]
  <1>1. d \in [Prize -> Free \cup {NoTicket}] /\ Free \in SUBSET TicketId
    BY FreeTyped DEF Drafts, TypeOK
  <1>2. \A p \in Prize : d[p] # NoTicket => Left(p) > 0
    BY DEF Drafts, Drawable, Ready
  <1>3. \A p \in Prize : prize[p].issued \in Int /\ Cnt[p] \in Nat
    BY CntAssumption DEF TypeOK, Store!TypeOK, Store!PrizeRow
  <1> QED BY <1>1, <1>2, <1>3 DEF Draft, Left

LEMMA DrawIs ==
  ASSUME ManagerTypeOK, NEW th \in Thread, Draw(th)
  PROVE  \E d \in Drafts, r \in Req :
           /\ req' = [req EXCEPT ![th] = r] /\ r.at = "drawn" /\ r.draft = d
           /\ r.session = req[th].session
  <1>1. PICK d \in Drafts : req' = [req EXCEPT ![th].at = "drawn", ![th].draft = d]
    BY DEF Draw
  <1> DEFINE x == req[th]
             r == [[x EXCEPT !.at = "drawn"] EXCEPT !.draft = d]
  <1>2. req' = [req EXCEPT ![th] = r]
    BY <1>1 DEF ManagerTypeOK
  <1>3. x \in Req /\ d \in Draft
    BY DraftIs DEF ManagerTypeOK
  <1> HIDE DEF x
  <1>4. r \in Req /\ r.at = "drawn" /\ r.draft = d /\ r.session = x.session
    BY <1>3 DEF Req
  <1> HIDE DEF r
  <1> QED BY <1>2, <1>4 DEF x


(***************************************************************************)
(* A step of a page or of a browser leaves the service alone: the invariant*)
(* is kept if the new request and what is held after it are in order.      *)
(***************************************************************************)
LEMMA PageStep ==
  ASSUME MInv, UNCHANGED vars,
         draft' \in [Session -> Draft], shown' \in [Session -> SUBSET (Prize \X TicketId)],
         NEW th \in Thread, NEW r \in Req, req' = [req EXCEPT ![th] = r],
         req[th].at # "patch", r.at # "patch",
         r.at # "idle" => r.session \in Session,
         r.at = "post" => r.prize \in Prize /\ r.ticket \in TicketId,
         \A p \in Prize : Held(p)' \subseteq Held(p) \cup Free \cup {NoTicket}
  PROVE  MInv'
  <1>0. /\ IInv /\ TypeOK /\ ManagerTypeOK /\ Known /\ Store!TypeOK
        /\ UNCHANGED <<setting, db, lastId, formLock, serviceLock, tx>>
    BY DEF MInv, IInv, TypeOK, vars
  <1>1. /\ req' \in [Thread -> Req] /\ req'[th] = r
        /\ \A u \in Thread \ {th} : req'[u] = req[u]
    BY <1>0, OneRequest
  <1>2. IInv'
    BY <1>0, NextKeeps
  <1>3. ManagerTypeOK'
    BY <1>1, <1>2 DEF ManagerTypeOK, IInv
  <1>4. Known'
    BY <1>0, FreeTyped DEF Known, db
  <1>5. ASSUME NEW u \in Thread PROVE Serves(u)'
    <2>1. Serves(u)
      BY DEF MInv
    <2>2. CASE u = th
      BY <1>0, <1>1, <2>1, <2>2 DEF Serves
    <2>3. CASE u # th
      BY <1>0, <1>1, <2>1, <2>3 DEF Serves
    <2> QED BY <2>2, <2>3
  <1>6. RestAsSet' /\ (OnlyManagersDraw' => \A u \in Thread : Claims(u)')
    BY <1>0 DEF MInv, RestAsSet, OnlyManagersDraw, Claims, db
  <1> QED BY <1>2, <1>3, <1>4, <1>5, <1>6 DEF MInv

\* What is held after a step is what was held before it.
HoldsOn == \A p \in Prize : Held(p)' \subseteq Held(p) \cup {NoTicket}

LEMMA GetManagerKeeps ==
  ASSUME MInv, NEW th \in Thread, NEW s \in Session, GetManager(th, s)
  PROVE  MInv' /\ HoldsOn
  <1> DEFINE r == [NoReq EXCEPT !.at = "get", !.session = s]
  <1>1. r \in Req /\ r.at = "get" /\ r.session = s
    BY NoReqIs DEF Req
  <1>2. req[th].at = "idle" /\ req' = [req EXCEPT ![th] = r] /\ UNCHANGED <<vars, draft, shown>>
    BY NoReqIs DEF GetManager
  <1>3. ManagerTypeOK
    BY DEF MInv
  <1> HIDE DEF r
  <1>4. /\ req'[th] = r
        /\ \A u \in Thread \ {th} : \A p : Pending(u, p)' = Pending(u, p)
    BY <1>1, <1>2, <1>3, OneRequest
  <1>5. \A p : Pending(th, p)' = NoTicket
    BY <1>1, <1>4 DEF Pending
  <1>6. HoldsOn
    BY <1>2, <1>4, <1>5 DEF HoldsOn, Held
  <1>7. MInv'
    BY <1>1, <1>2, <1>3, <1>6, PageStep DEF HoldsOn, ManagerTypeOK
  <1> QED BY <1>6, <1>7

LEMMA DrawKeeps ==
  ASSUME MInv, NEW th \in Thread, Draw(th)
  PROVE  /\ MInv' /\ UNCHANGED vars
         /\ \E d \in Drafts : \A p \in Prize : Held(p)' \subseteq Held(p) \cup {d[p]}
  <1>0. ManagerTypeOK /\ TypeOK /\ req[th].at = "get" /\ UNCHANGED <<vars, draft, shown>>
    BY DEF MInv, IInv, Draw
  <1>1. PICK d \in Drafts, r \in Req :
          /\ req' = [req EXCEPT ![th] = r] /\ r.at = "drawn" /\ r.draft = d
          /\ r.session = req[th].session
    BY <1>0, DrawIs
  <1>2. \A p \in Prize : d[p] \in Free \cup {NoTicket}
    BY <1>0, DraftIs
  <1>3. /\ req'[th] = r
        /\ \A u \in Thread \ {th} : \A p : Pending(u, p)' = Pending(u, p)
    BY <1>0, <1>1, OneRequest
  <1>4. \A p : Pending(th, p)' = d[p]
    BY <1>1, <1>3 DEF Pending
  <1>5. \A p \in Prize : Held(p)' \subseteq Held(p) \cup {d[p]}
    BY <1>0, <1>3, <1>4 DEF Held
  <1>6. r.session \in Session
    BY <1>0, <1>1 DEF MInv, Serves
  <1>7. MInv'
    BY <1>0, <1>1, <1>2, <1>5, <1>6, PageStep DEF ManagerTypeOK
  <1> QED BY <1>0, <1>5, <1>7

LEMMA RespondKeeps ==
  ASSUME MInv, NEW th \in Thread, Respond(th)
  PROVE  MInv' /\ HoldsOn
  <1> DEFINE s == req[th].session
             d == req[th].draft
  <1>0. /\ ManagerTypeOK /\ req[th].at = "drawn" /\ UNCHANGED vars
        /\ draft' = [draft EXCEPT ![s] = d]
        /\ shown' = [shown EXCEPT ![s] = @ \cup Rows(d)]
        /\ req' = [req EXCEPT ![th] = NoReq]
    BY DEF MInv, Respond, EndRequest
  <1>1. s \in Session /\ d \in Draft /\ Rows(d) \subseteq Prize \X TicketId
    BY <1>0 DEF MInv, Serves, ManagerTypeOK, Req, Rows
  <1>2. \A p : d[p] = Pending(th, p)
    BY <1>0 DEF Pending
  <1> HIDE DEF s, d
  <1>3. /\ req'[th] = NoReq
        /\ \A u \in Thread \ {th} : \A p : Pending(u, p)' = Pending(u, p)
    BY <1>0, OneRequest, NoReqIs
  <1>4. \A p : Pending(th, p)' = NoTicket
    BY <1>3, NoReqIs DEF Pending
  <1>5. \A p \in Prize : \A e \in Session : draft'[e][p] \in {draft[e][p], Pending(th, p)}
    BY <1>0, <1>1, <1>2 DEF ManagerTypeOK
  <1>6. HoldsOn
    BY <1>3, <1>4, <1>5 DEF HoldsOn, Held
  <1>7. draft' \in [Session -> Draft] /\ shown' \in [Session -> SUBSET (Prize \X TicketId)]
    BY <1>0, <1>1 DEF ManagerTypeOK
  <1>8. MInv'
    BY <1>0, <1>6, <1>7, NoReqIs, PageStep DEF HoldsOn
  <1> QED BY <1>6, <1>8

LEMMA SubmitKeeps ==
  ASSUME MInv, NEW th \in Thread, NEW s \in Session, NEW p \in Prize, NEW t \in TicketId,
         NEW fresh \in BOOLEAN, Submit(th, s, p, t, fresh), fresh => draft[s][p] = t
  PROVE  MInv' /\ HoldsOn
  <1> DEFINE r == [ at |-> "post", session |-> s, draft |-> NoDraft,
                    prize |-> p, ticket |-> t, fresh |-> fresh ]
  <1>0. /\ ManagerTypeOK /\ UNCHANGED <<vars, draft, shown>>
        /\ req[th].at = "idle" /\ req' = [req EXCEPT ![th] = r]
    BY NoReqIs DEF MInv, Submit
  <1>1. /\ r \in Req /\ r.at = "post" /\ r.session = s /\ r.prize = p /\ r.ticket = t
        /\ r.fresh = fresh
    BY NoReqIs DEF Req
  <1> HIDE DEF r
  <1>2. /\ req'[th] = r
        /\ \A u \in Thread \ {th} : \A q : Pending(u, q)' = Pending(u, q)
    BY <1>0, <1>1, OneRequest
  <1>3. \A q \in Prize : Pending(th, q)' \in {draft[s][q], NoTicket}
    BY <1>1, <1>2 DEF Pending
  <1>4. HoldsOn
    BY <1>0, <1>2, <1>3 DEF HoldsOn, Held
  <1>5. MInv'
    BY <1>0, <1>1, <1>4, PageStep DEF HoldsOn, ManagerTypeOK
  <1> QED BY <1>4, <1>5

LEMMA UndecipherableKeeps ==
  ASSUME MInv, NEW th \in Thread, Undecipherable(th)
  PROVE  MInv' /\ HoldsOn
  <1>0. /\ ManagerTypeOK /\ UNCHANGED <<vars, draft, shown>>
        /\ req[th].at = "post" /\ req' = [req EXCEPT ![th] = NoReq]
    BY DEF MInv, Undecipherable, EndRequest
  <1>1. /\ req'[th] = NoReq
        /\ \A u \in Thread \ {th} : \A q : Pending(u, q)' = Pending(u, q)
    BY <1>0, OneRequest, NoReqIs
  <1>2. \A q : Pending(th, q)' = NoTicket
    BY <1>1, NoReqIs DEF Pending
  <1>3. HoldsOn
    BY <1>0, <1>1, <1>2 DEF HoldsOn, Held
  <1>4. MInv'
    BY <1>0, <1>3, NoReqIs, PageStep DEF HoldsOn, ManagerTypeOK
  <1> QED BY <1>3, <1>4

LEMMA ExpireKeeps ==
  ASSUME MInv, NEW s \in Session, Expire(s)
  PROVE  MInv' /\ HoldsOn
  <1>0. /\ ManagerTypeOK /\ TypeOK /\ IInv /\ Known
        /\ draft' = [draft EXCEPT ![s] = NoDraft]
        /\ UNCHANGED <<setting, db, lastId, formLock, serviceLock, tx, shown, req>>
    BY DEF MInv, IInv, Expire, vars
  <1>1. \A e \in Session, p \in Prize : draft'[e][p] \in {draft[e][p], NoTicket}
    BY <1>0, NoReqIs DEF ManagerTypeOK
  <1>2. \A th \in Thread : \A p : Pending(th, p)' = Pending(th, p)
    BY <1>0 DEF Pending
  <1>3. HoldsOn
    BY <1>1, <1>2 DEF HoldsOn, Held
  <1>4. IInv'
    BY <1>0, NextKeeps DEF vars
  <1>5. ManagerTypeOK'
    BY <1>0, <1>4, NoReqIs DEF ManagerTypeOK, IInv
  <1>6. Known' /\ RestAsSet' /\ (OnlyManagersDraw' => \A u \in Thread : Claims(u)')
    BY <1>0, <1>3 DEF MInv, Known, HoldsOn, RestAsSet, OnlyManagersDraw, Claims, db
  <1>7. \A th \in Thread : Serves(th)'
    BY <1>0 DEF MInv, Serves
  <1> QED BY <1>3, <1>4, <1>5, <1>6, <1>7 DEF MInv


-----------------------------------------------------------------------------
(* Steps of the service *)

\* setManager calls patchPrizeTicket with what the submission decrypts to.
LEMMA ApplyKeeps ==
  ASSUME MInv, NEW th \in Thread \cap setting.callers, Apply(th)
  PROVE  MInv' /\ HoldsOn /\ UNCHANGED <<setting, db>>
  <1> DEFINE p == req[th].prize
             t == req[th].ticket
             x == Asks("patchPrizeTicket", p, t, NoName)
             r == [req[th] EXCEPT !.at = "patch"]
  <1>0. /\ IInv /\ ManagerTypeOK /\ Known /\ Serves(th) /\ th \in Client
        /\ req[th].at = "post" /\ req[th].fresh /\ formLock = Nobody /\ formLock' = th
        /\ tx' = [tx EXCEPT ![th] = x]
        /\ UNCHANGED <<setting, db, lastId, serviceLock, draft, shown>>
    BY DEF MInv, Apply, CallService, Client, Thread
  <1>1. p \in Prize /\ t \in TicketId /\ tx[th] = Idle
    BY <1>0 DEF Serves
  <1>2. x \in Request
    BY <1>1 DEF Request
  <1>3. x.at = "enter" /\ x.op = "patchPrizeTicket" /\ x.prize = p /\ x.ticket = t
    BY DEF Asks
  <1>4. req' = [req EXCEPT ![th] = r]
    BY DEF MInv, ManagerTypeOK, Apply, CallService
  <1>5. /\ r \in Req /\ r.at = "patch" /\ r.session = req[th].session /\ r.prize = p
        /\ r.ticket = t /\ r.fresh = req[th].fresh
    BY <1>0 DEF ManagerTypeOK, Req
  <1> HIDE DEF r, x
  <1>6. IInv'
    <2>1. BeginForm(th)
      BY <1>0, <1>1, <1>2, <1>3 DEF BeginForm
    <2> QED BY <1>0, <2>1, NextKeeps DEF Next, Begin, Thread
  <1>7. /\ req' \in [Thread -> Req] /\ req'[th] = r
        /\ \A u \in Thread \ {th} : req'[u] = req[u] /\ \A q : Pending(u, q)' = Pending(u, q)
    BY <1>0, <1>4, <1>5, OneRequest
  <1>8. \A q : Pending(th, q)' = Pending(th, q)
    BY <1>0, <1>5, <1>7 DEF Pending
  <1>9. HoldsOn
    BY <1>0, <1>7, <1>8 DEF HoldsOn, Held
  <1>10. tx'[th] = x /\ \A c \in Client \ {th} : tx'[c] = tx[c]
    BY <1>0, <1>6 DEF IInv, TypeOK
  <1>11. ASSUME NEW u \in Thread PROVE Serves(u)'
    <2>1. Serves(u) /\ u \in Client /\ Nobody \notin Client
      BY ClientAssumption DEF MInv, Thread, Client
    <2>2. CASE u = th
      BY <1>0, <1>3, <1>5, <1>7, <1>10, <2>1, <2>2 DEF Serves
    <2>3. CASE u # th
      BY <1>0, <1>7, <1>10, <2>1, <2>3 DEF Serves
    <2> QED BY <2>2, <2>3
  <1>12. RestAsSet'
    <2>1. \A c \in RestClients : c \in Client /\ c # th
      BY ClientAssumption DEF Client, Thread
    <2> QED BY <1>0, <1>10, <2>1 DEF MInv, RestAsSet
  <1>13. OnlyManagersDraw' => \A u \in Thread : Claims(u)'
    <2>1. \A u \in Thread \ {th} : tx'[u] = tx[u]
      BY <1>10 DEF Thread, Client
    <2> QED BY <1>0, <1>3, <1>10, <2>1 DEF MInv, OnlyManagersDraw, Claims, db
  <1>14. ManagerTypeOK'
    BY <1>0, <1>6, <1>7 DEF ManagerTypeOK, IInv
  <1>15. Known'
    BY <1>0, <1>9 DEF Known, HoldsOn, db
  <1> QED BY <1>0, <1>6, <1>9, <1>11, <1>12, <1>13, <1>14, <1>15 DEF MInv

LEMMA ThreadsAreClients ==
  ASSUME NEW c \in Client
  PROVE  /\ Thread \subseteq Client /\ RestClients \subseteq Client /\ Nobody \notin Client
         /\ c \notin Thread => c \in RestClients
         /\ c \in RestClients => c \notin Thread
  BY ClientAssumption DEF Client, Thread

(***************************************************************************)
(* A thread of the page with something under way in the service holds the  *)
(* monitor of IndexController, so that there is one at most.               *)
(***************************************************************************)
LEMMA OneDraw ==
  ASSUME MInv, NEW th \in Thread, tx[th] # Idle
  PROVE  /\ formLock = th /\ req[th].at = "patch" /\ req[th].fresh
         /\ tx[th].op = "patchPrizeTicket"
         /\ tx[th].prize = req[th].prize /\ tx[th].ticket = req[th].ticket
         /\ tx[th].ticket \in TicketId /\ tx[th].prize \in Prize
         /\ Pending(th, tx[th].prize) = tx[th].ticket
         /\ tx[th].ticket \in seen
  <1>1. Serves(th)
    BY DEF MInv
  <1>2. /\ formLock = th /\ req[th].at = "patch" /\ req[th].fresh
        /\ tx[th].op = "patchPrizeTicket"
        /\ tx[th].prize = req[th].prize /\ tx[th].ticket = req[th].ticket
        /\ tx[th].ticket \in TicketId /\ tx[th].prize \in Prize
    BY <1>1 DEF Serves
  <1>3. Pending(th, tx[th].prize) = tx[th].ticket
    BY <1>2 DEF Pending
  <1>4. tx[th].ticket \in seen
    BY <1>2, <1>3, FreeTyped DEF MInv, Known, Held, IInv, TypeOK
  <1> QED BY <1>2, <1>3, <1>4

LEMMA OthersServed ==
  ASSUME MInv, NEW c \in Client, Step(c) \/ Fail(c), UNCHANGED setting,
         NEW u \in Thread \ {c}, req'[u] = req[u]
  PROVE  Serves(u)' /\ (OnlyManagersDraw => Claims(u)')
  <1>1. IInv /\ tx[c] # Idle /\ (GoesOn(c) \/ Ends(c)) /\ u \in Client
    BY StepMoves, ThreadsAreClients DEF MInv
  <1>2. tx'[u] = tx[u]
    BY <1>1 DEF GoesOn, Ends, IInv, TypeOK
  <1>3. CASE tx[u] = Idle
    BY <1>1, <1>2, <1>3 DEF MInv, Serves, Claims, Idle
  <1>4. CASE tx[u] # Idle
    <2>1. formLock = u /\ tx[u].ticket \in seen
      BY <1>4, OneDraw
    <2>2. c \in RestClients
      <3>1. c \notin Thread
        BY <1>1, <2>1, OneDraw
      <3> QED BY <3>1, ThreadsAreClients
    <2>3. formLock' = formLock
      BY <1>1, <2>1 DEF GoesOn, Ends
    <2>4. Serves(u)'
      BY <1>2, <2>3 DEF MInv, Serves
    <2>5. ASSUME OnlyManagersDraw PROVE Claims(u)'
      <3>1. CASE UNCHANGED db
        BY <1>2, <2>5, <3>1 DEF MInv, Claims, db
      <3>2. CASE Commit(c)
        <4>1. tx[c].op # "patchPrizeTicket"
          <5>1. tx[c].at # "idle"
            BY <3>2 DEF Commit
          <5> QED BY <2>2, <2>5, <5>1 DEF MInv, RestAsSet, OnlyManagersDraw
        <4>2. \A t \in tickets' \cap seen : t \in tickets /\ win'[t] = win[t]
          BY <1>1, <3>2, <4>1, OtherCommits
        <4> QED BY <1>2, <2>1, <2>5, <4>2 DEF MInv, Claims
      <3> QED BY <1>1, <3>1, <3>2 DEF GoesOn, Ends
    <2> QED BY <2>4, <2>5
  <1> QED BY <1>3, <1>4

LEMMA SeenGrows ==
  ASSUME IInv, NEW c \in Client, GoesOn(c) \/ Ends(c)
  PROVE  seen \subseteq seen'
  BY DEF GoesOn, Ends, Commit, db

LEMMA PatchKeeps ==
  ASSUME MInv, NEW th \in Thread, PatchStep(th) \/ PatchFails(th)
  PROVE  MInv' /\ HoldsOn
  <1>0. /\ IInv /\ ManagerTypeOK /\ Known /\ Serves(th) /\ th \in Client
        /\ Step(th) \/ Fail(th)
        /\ IF tx'[th] = Idle THEN req' = [req EXCEPT ![th] = NoReq] ELSE UNCHANGED req
        /\ UNCHANGED <<setting, draft, shown>>
    BY DEF MInv, PatchStep, PatchFails, AsItEnds, EndRequest, Client, Thread
  <1>1. IInv'
    BY <1>0, NextKeeps DEF Next
  <1>2. tx[th] # Idle /\ (GoesOn(th) \/ Ends(th))
    BY <1>0, StepMoves
  <1>3. /\ formLock = th /\ req[th].at = "patch" /\ tx[th].op = "patchPrizeTicket"
        /\ tx[th].prize = req[th].prize /\ tx[th].ticket = req[th].ticket
    BY <1>2, OneDraw
  <1>4. /\ req' \in [Thread -> Req] /\ req'[th] \in {req[th], NoReq}
        /\ (req'[th] = NoReq <=> tx'[th] = Idle)
        /\ \A u \in Thread \ {th} : req'[u] = req[u]
    BY <1>0, <1>3, NoReqIs DEF ManagerTypeOK
  <1>5. \A u \in Thread \ {th} : \A q : Pending(u, q)' = Pending(u, q)
    BY <1>4 DEF Pending
  <1>6. \A q : Pending(th, q)' \in {Pending(th, q), NoTicket}
    BY <1>4, NoReqIs DEF Pending
  <1>7. HoldsOn
    BY <1>0, <1>5, <1>6 DEF HoldsOn, Held
  <1>8. Serves(th)' /\ (OnlyManagersDraw => Claims(th)')
    <2>1. CASE GoesOn(th)
      <3>1. PICK y \in Tx : tx' = [tx EXCEPT ![th] = y] /\ Moved(tx[th], y)
        BY <2>1 DEF GoesOn
      <3>2. tx'[th] = y /\ formLock' = formLock /\ UNCHANGED db
        BY <1>0, <2>1, <3>1 DEF GoesOn, IInv, TypeOK
      <3>3. y.at # "idle" /\ y # Idle
        BY <3>1 DEF Moved, Idle
      <3>4. req'[th] = req[th]
        BY <1>4, <3>2, <3>3
      <3>5. Serves(th)'
        BY <1>0, <1>3, <3>1, <3>2, <3>3, <3>4 DEF Serves, Moved
      <3>6. OnlyManagersDraw => Claims(th)'
        BY <1>3, <3>1, <3>2 DEF MInv, Claims, Moved, Wanted, db
      <3> QED BY <3>5, <3>6
    <2>2. CASE Ends(th)
      <3>1. tx'[th] = Idle /\ req'[th] = NoReq
        BY <1>0, <1>4, <2>2 DEF Ends, IInv, TypeOK
      <3> QED BY <3>1, NoReqIs DEF Serves, Claims, Idle
    <2> QED BY <1>2, <2>1, <2>2
  <1>9. \A u \in Thread : Serves(u)' /\ (OnlyManagersDraw => Claims(u)')
    BY <1>0, <1>4, <1>8, OthersServed
  <1>10. RestAsSet'
    <2>1. \A c \in RestClients : tx'[c] = tx[c]
      BY <1>0, <1>2, ThreadsAreClients DEF GoesOn, Ends, IInv, TypeOK
    <2> QED BY <1>0, <2>1 DEF MInv, RestAsSet
  <1>11. ManagerTypeOK'
    BY <1>0, <1>1, <1>4 DEF ManagerTypeOK, IInv
  <1>12. Known'
    BY <1>0, <1>2, <1>7, SeenGrows DEF Known, HoldsOn
  <1> QED BY <1>0, <1>1, <1>7, <1>9, <1>10, <1>11, <1>12 DEF MInv, OnlyManagersDraw

LEMMA RestKeeps ==
  ASSUME MInv, NEW c \in RestClients, RestStep(c) \/ RestFails(c)
  PROVE  MInv' /\ HoldsOn
  <1>0. /\ IInv /\ ManagerTypeOK /\ Known /\ c \in Client /\ c \notin Thread
        /\ Step(c) \/ Fail(c)
        /\ UNCHANGED <<setting, draft, shown, req>>
    BY ThreadsAreClients DEF MInv, RestStep, RestFails, Client
  <1>1. IInv'
    BY <1>0, NextKeeps DEF Next
  <1>2. tx[c] # Idle /\ (GoesOn(c) \/ Ends(c))
    BY <1>0, StepMoves
  <1>3. HoldsOn
    BY <1>0 DEF HoldsOn, Held, Pending
  <1>4. \A u \in Thread : Serves(u)' /\ (OnlyManagersDraw => Claims(u)')
    BY <1>0, OthersServed
  <1>5. ASSUME NEW d \in RestClients, tx'[d].at # "idle"
        PROVE  tx'[d].op \in setting'.ops
    <2>1. CASE d = c
      <3>1. CASE GoesOn(c)
        <4>1. PICK y \in Tx : tx' = [tx EXCEPT ![c] = y] /\ Moved(tx[c], y)
          BY <3>1 DEF GoesOn
        <4>2. tx'[c] = y /\ y.op = tx[c].op
          BY <1>0, <4>1 DEF IInv, TypeOK, Moved
        <4>3. tx[c].at # "idle"
          <5>1. CASE Step(c)
            BY <5>1 DEF Step, Enter, ReadPrizeRow, ReadTicketRow, ReadAllPrizes, ReadCollection,
                        ReadSnapshot, Refuse, Insert, Commit, Reject
          <5>2. CASE Fail(c)
            <6>1. tx' = [tx EXCEPT ![c] = Idle]
              BY <5>2 DEF Fail, Release
            <6>2. tx'[c] = Idle
              BY <1>0, <6>1 DEF IInv, TypeOK
            <6> QED BY <1>5, <2>1, <6>2 DEF Idle
          <5> QED BY <1>0, <5>1, <5>2
        <4> QED BY <1>0, <2>1, <4>2, <4>3 DEF MInv, RestAsSet
      <3>2. CASE Ends(c)
        <4>1. tx'[c] = Idle
          BY <1>0, <3>2 DEF Ends, IInv, TypeOK
        <4> QED BY <1>5, <2>1, <4>1 DEF Idle
      <3> QED BY <1>2, <3>1, <3>2
    <2>2. CASE d # c
      <3>1. tx'[d] = tx[d]
        BY <1>0, <1>2, <2>2, ThreadsAreClients DEF GoesOn, Ends, IInv, TypeOK
      <3> QED BY <1>0, <1>5, <3>1 DEF MInv, RestAsSet
    <2> QED BY <2>1, <2>2
  <1>6. ManagerTypeOK'
    BY <1>0, <1>1 DEF ManagerTypeOK, IInv
  <1>7. Known'
    BY <1>0, <1>2, <1>3, SeenGrows DEF Known, HoldsOn
  <1> QED BY <1>0, <1>1, <1>3, <1>4, <1>5, <1>6, <1>7 DEF MInv, RestAsSet, OnlyManagersDraw

LEMMA RestBeginsKeeps ==
  ASSUME MInv, NEW c \in RestClients \cap setting.callers, RestBegins(c)
  PROVE  MInv' /\ HoldsOn /\ UNCHANGED db
  <1>0. /\ IInv /\ ManagerTypeOK /\ Known /\ c \in Client /\ c \notin Thread
        /\ BeginRest(c) /\ UNCHANGED <<setting, db, formLock, draft, shown, req>>
    BY ThreadsAreClients DEF MInv, RestBegins, BeginRest, Client
  <1>1. IInv'
    BY <1>0, NextKeeps DEF Next, Begin
  <1>2. PICK r \in Request : r.op \in setting.ops /\ tx' = [tx EXCEPT ![c] = r]
    BY <1>0 DEF BeginRest
  <1>3. tx'[c] = r /\ \A d \in Client \ {c} : tx'[d] = tx[d]
    BY <1>0, <1>2 DEF IInv, TypeOK
  <1>4. HoldsOn
    BY <1>0 DEF HoldsOn, Held, Pending
  <1>5. \A u \in Thread : tx'[u] = tx[u]
    BY <1>0, <1>3, ThreadsAreClients
  <1>6. \A u \in Thread : Serves(u)' /\ (OnlyManagersDraw => Claims(u)')
    BY <1>0, <1>5 DEF MInv, Serves, Claims, db
  <1>7. RestAsSet'
    BY <1>0, <1>2, <1>3, ThreadsAreClients DEF MInv, RestAsSet
  <1>8. ManagerTypeOK'
    BY <1>0, <1>1 DEF ManagerTypeOK, IInv
  <1>9. Known'
    BY <1>0, <1>4 DEF Known, HoldsOn, db
  <1> QED BY <1>0, <1>1, <1>4, <1>6, <1>7, <1>8, <1>9 DEF MInv, OnlyManagersDraw


LEMMA MInvInit == ManagerInit => MInv
  <1> SUFFICES ASSUME ManagerInit PROVE MInv
    OBVIOUS
  <1>1. IInv
    BY InitHolds DEF ManagerInit
  <1>2. /\ \A s \in Session, p \in Prize : draft[s][p] = NoTicket
        /\ \A th \in Thread : req[th] = NoReq
        /\ \A c \in Client : tx[c] = Idle
    BY NoReqIs DEF ManagerInit, Init
  <1>3. \A th \in Thread : \A p \in Prize : Pending(th, p) = NoTicket
    BY <1>2, NoReqIs DEF Pending
  <1>4. Known
    BY <1>2, <1>3 DEF Known, Held
  <1>5. \A th \in Thread : tx[th] = Idle
    BY <1>2 DEF Thread, Client
  <1>6. ASSUME NEW th \in Thread PROVE Serves(th) /\ Claims(th)
    <2>1. Idle.at = "idle"
      BY DEF Idle
    <2>2. req[th].at = "idle" /\ tx[th] = Idle /\ tx[th].at = "idle"
      BY <1>2, <1>5, <2>1, NoReqIs
    <2> QED BY <2>2 DEF Serves, Claims
  <1>7. RestAsSet
    BY <1>2 DEF RestAsSet, Client, Idle
  <1>8. ManagerTypeOK
    BY <1>1, NoReqIs DEF ManagerInit, ManagerTypeOK, IInv
  <1> QED BY <1>1, <1>4, <1>6, <1>7, <1>8 DEF MInv

(***************************************************************************)
(* The steps of the page, by what they do to the tables.                   *)
(***************************************************************************)
PageActs ==
  /\ UNCHANGED vars
  /\ \/ HoldsOn
     \/ \E d \in Drafts : \A p \in Prize : Held(p)' \subseteq Held(p) \cup {d[p]}
ServiceActs ==
  \/ \E th \in Thread \cap setting.callers : Apply(th)
  \/ \E th \in Thread : PatchStep(th) \/ PatchFails(th)
  \/ \E c \in RestClients : RestStep(c) \/ RestFails(c)
  \/ \E c \in RestClients \cap setting.callers : RestBegins(c)

LEMMA PostActs ==
  ASSUME MInv, NEW th \in Thread \cap setting.callers, Post(th)
  PROVE  MInv' /\ (PageActs \/ ServiceActs)
  <1>1. ASSUME NEW s \in Session, SubmitFresh(th, s) PROVE MInv' /\ PageActs
    <2>1. PICK p \in Prize : draft[s][p] # NoTicket /\ Submit(th, s, p, draft[s][p], TRUE)
      BY <1>1 DEF SubmitFresh
    <2>2. draft[s][p] \in TicketId
      BY <2>1 DEF MInv, ManagerTypeOK, Draft
    <2> QED BY <2>1, <2>2, SubmitKeeps DEF PageActs, Submit
  <1>2. ASSUME NEW s \in Session, SubmitStale(th, s) PROVE MInv' /\ PageActs
    <2>1. PICK row \in shown[s] : Submit(th, s, row[1], row[2], FALSE)
      BY <1>2 DEF SubmitStale
    <2>2. row[1] \in Prize /\ row[2] \in TicketId
      BY <2>1 DEF MInv, ManagerTypeOK
    <2> QED BY <2>1, <2>2, SubmitKeeps DEF PageActs, Submit
  <1>3. CASE Undecipherable(th)
    BY <1>3, UndecipherableKeeps DEF PageActs, Undecipherable
  <1>4. CASE Apply(th)
    BY <1>4, ApplyKeeps DEF ServiceActs
  <1>5. CASE PatchStep(th)
    BY <1>5, PatchKeeps DEF ServiceActs
  <1> QED BY <1>1, <1>2, <1>3, <1>4, <1>5 DEF Post

LEMMA ManagerActs ==
  ASSUME MInv, [ManagerNext]_managerVars
  PROVE  MInv' /\ (PageActs \/ ServiceActs)
  <1>1. ASSUME NEW th \in Thread \cap setting.callers, Get(th) PROVE MInv' /\ PageActs
    <2>1. ASSUME NEW s \in Session, GetManager(th, s) PROVE MInv' /\ PageActs
      BY <2>1, GetManagerKeeps DEF PageActs, GetManager
    <2>2. CASE Draw(th)
      BY <2>2, DrawKeeps DEF PageActs
    <2>3. CASE Respond(th)
      BY <2>3, RespondKeeps DEF PageActs, Respond
    <2> QED BY <1>1, <2>1, <2>2, <2>3 DEF Get
  <1>2. ASSUME NEW s \in Session, Expire(s) PROVE MInv' /\ PageActs
    BY <1>2, ExpireKeeps DEF PageActs, Expire
  <1>3. CASE \E c \in RestClients : RestStep(c)
    BY <1>3, RestKeeps DEF ServiceActs
  <1>4. CASE Disturbed
    BY <1>4, RestKeeps, RestBeginsKeeps, PatchKeeps DEF ServiceActs, Disturbed
  <1>5. CASE UNCHANGED managerVars
    <2>1. UNCHANGED <<vars, draft, shown, req>>
      BY <1>5 DEF managerVars
    <2>2. HoldsOn
      BY <2>1 DEF HoldsOn, Held, Pending
    <2>3. IInv'
      BY <2>1, NextKeeps DEF MInv
    <2>4. MInv'
      BY <2>1, <2>2, <2>3 DEF MInv, ManagerTypeOK, IInv, Known, HoldsOn, Serves, RestAsSet,
         OnlyManagersDraw, Claims, vars, db
    <2> QED BY <2>1, <2>2, <2>4 DEF PageActs
  <1> QED BY <1>1, <1>2, <1>3, <1>4, <1>5, PostActs DEF ManagerNext

(***************************************************************************)
(* Whatever managers and REST callers do, a thread that gives a prize      *)
(* holds the monitor of IndexController up to the commit, and where only   *)
(* managers draw the ticket it gives is free, or gone, when it commits.    *)
(***************************************************************************)
THEOREM ManagerInvariant == ManagerSpec => []MInv
  <1>1. MInv /\ [ManagerNext]_managerVars => MInv'
    BY ManagerActs
  <1> QED BY <1>1, MInvInit, PTL DEF ManagerSpec

(***************************************************************************)
(* Drafts, pages and requests hold what their types allow.                 *)
(***************************************************************************)
THEOREM ManagerTypeCorrect == ManagerSpec => []ManagerTypeOK
  <1>1. MInv => ManagerTypeOK
    BY DEF MInv
  <1> QED BY <1>1, ManagerInvariant, PTL

-----------------------------------------------------------------------------
(* Counting *)

Most == Cardinality(Session) + Cardinality(Thread)

LEMMA ImageBound ==
  ASSUME NEW S, IsFiniteSet(S), NEW f, DOMAIN f = S
  PROVE  /\ IsFiniteSet({f[x] : x \in S})
         /\ Cardinality({f[x] : x \in S}) <= Cardinality(S)
  <1> DEFINE T == {f[x] : x \in S}
             g == [x \in S |-> f[x]]
  <1>1. g \in Surjection(S, T)
    BY DEF Surjection
  <1> HIDE DEF g, T
  <1>2. IsFiniteSet(T) /\ Cardinality(T) <= Cardinality(S)
    BY <1>1, FS_Surjection
  <1> QED BY <1>2 DEF T

(***************************************************************************)
(* There are no more promises of a prize than sessions and threads, one    *)
(* for each: f says what the sessions promise, g what the threads do.      *)
(***************************************************************************)
LEMMA OneEach ==
  ASSUME NEW f, DOMAIN f = Session, NEW g, DOMAIN g = Thread,
         NEW P \in SUBSET ({f[s] : s \in Session} \cup {g[th] : th \in Thread})
  PROVE  /\ IsFiniteSet(P) /\ Cardinality(P) \in Nat
         /\ Cardinality(P) <= Most /\ Most \in Nat /\ Most > 0
  <1> DEFINE A == {f[s] : s \in Session}
             B == {g[th] : th \in Thread}
  <1>1. IsFiniteSet(A) /\ Cardinality(A) <= Cardinality(Session)
    BY ImageBound, ActorAssumption
  <1>2. IsFiniteSet(B) /\ Cardinality(B) <= Cardinality(Thread)
    BY ImageBound, ActorAssumption DEF Thread
  <1>3. P \in SUBSET (A \cup B)
    OBVIOUS
  <1> HIDE DEF A, B
  <1>4. /\ IsFiniteSet(A \cup B)
        /\ Cardinality(A \cup B) = Cardinality(A) + Cardinality(B) - Cardinality(A \cap B)
    BY <1>1, <1>2, FS_Union
  <1>5. /\ Cardinality(A) \in Nat /\ Cardinality(B) \in Nat /\ Cardinality(A \cap B) \in Nat
        /\ Cardinality(A \cup B) \in Nat
    <2>1. IsFiniteSet(A \cap B)
      BY <1>1, FS_Subset
    <2> QED BY <1>1, <1>2, <1>4, <2>1, FS_CardinalityType
  <1>6. IsFiniteSet(P) /\ Cardinality(P) <= Cardinality(A \cup B)
    BY <1>3, <1>4, FS_Subset
  <1>7. Cardinality(P) \in Nat
    BY <1>6, FS_CardinalityType
  <1>8. Cardinality(Session) \in Nat \ {0} /\ Cardinality(Thread) \in Nat \ {0}
    BY ActorAssumption, FS_CardinalityType, FS_EmptySet DEF Thread
  <1>9. Cardinality(P) <= Cardinality(A) + Cardinality(B)
    BY <1>4, <1>5, <1>6, <1>7
  <1>10. Cardinality(P) <= Cardinality(Session) + Cardinality(Thread)
    BY <1>1, <1>2, <1>5, <1>7, <1>8, <1>9
  <1> QED BY <1>6, <1>7, <1>8, <1>10 DEF Most

LEMMA PromisesBounded ==
  ASSUME NEW p \in Prize
  PROVE  /\ IsFiniteSet(Promised(p)) /\ Cardinality(Promised(p)) \in Nat
         /\ Cardinality(Promised(p)') \in Nat /\ Cardinality(Promised(p)') <= Most
         /\ Most \in Nat /\ Most > 0
  <1> DEFINE f == [s \in Session |-> draft[s][p]]
             g == [th \in Thread |-> Pending(th, p)]
             f1 == [s \in Session |-> draft'[s][p]]
             g1 == [th \in Thread |-> Pending(th, p)']
  <1>1. Promised(p) \in SUBSET ({f[s] : s \in Session} \cup {g[th] : th \in Thread})
    BY DEF Promised, Held
  <1>2. Promised(p)' \in SUBSET ({f1[s] : s \in Session} \cup {g1[th] : th \in Thread})
    BY DEF Promised, Held
  <1>3. DOMAIN f = Session /\ DOMAIN g = Thread /\ DOMAIN f1 = Session /\ DOMAIN g1 = Thread
    OBVIOUS
  <1> HIDE DEF f, g, f1, g1
  <1>4. IsFiniteSet(Promised(p)) /\ Cardinality(Promised(p)) \in Nat /\ Most \in Nat /\ Most > 0
    BY <1>1, <1>3, OneEach
  <1>5. Cardinality(Promised(p)') \in Nat /\ Cardinality(Promised(p)') <= Most
    BY <1>2, <1>3, OneEach
  <1> QED BY <1>4, <1>5

(***************************************************************************)
(* Where REST callers only add tickets, what is issued and what is         *)
(* promised together stay within the bound, and the row a thread has read  *)
(* to give its prize is still what the table holds.                        *)
(***************************************************************************)
OnlyAdded == setting.ops \subseteq {"putTickets"}
Bounded(p) == prize[p].issued + Cardinality(Promised(p)) <= Cnt[p] + Most - 1
RowCurrent(th) ==
  tx[th].at \in {"ticketRow", "collection", "commit"} =>
    tx[th].rows[tx[th].prize] = prize[tx[th].prize]
BoundInv ==
  OnlyAdded => (\A p \in Prize : Bounded(p)) /\ \A th \in Thread : RowCurrent(th)

LEMMA IssuedTyped ==
  ASSUME MInv
  PROVE  \A p \in Prize : prize[p].issued \in Int /\ Cnt[p] \in Nat
  BY CntAssumption DEF MInv, IInv, TypeOK, Store!TypeOK, Store!PrizeRow

\* A step that issues nothing and promises nothing new keeps the bound.
LEMMA BoundKept ==
  ASSUME MInv, MInv', NEW p \in Prize, Promised(p)' \subseteq Promised(p),
         prize'[p].issued = prize[p].issued, Bounded(p)
  PROVE  Bounded(p)'
  <1>1. IsFiniteSet(Promised(p)) /\ Cardinality(Promised(p)) \in Nat /\ Most \in Nat
    BY PromisesBounded
  <1>2. /\ IsFiniteSet(Promised(p)')
        /\ Cardinality(Promised(p)') <= Cardinality(Promised(p))
    BY <1>1, FS_Subset
  <1>3. Cardinality(Promised(p)') \in Nat
    BY <1>2, FS_CardinalityType
  <1>4. prize'[p].issued \in Int /\ prize[p].issued \in Int /\ Cnt[p] \in Nat
    BY IssuedTyped
  <1>5. prize[p].issued + Cardinality(Promised(p)) <= Cnt[p] + Most - 1
    BY DEF Bounded
  <1>6. prize'[p].issued + Cardinality(Promised(p)') <= Cnt[p] + Most - 1
    BY <1>1, <1>2, <1>3, <1>4, <1>5
  <1> QED BY <1>6 DEF Bounded, Most

LEMMA BoundInit == ManagerInit => BoundInv
  <1> SUFFICES ASSUME ManagerInit PROVE BoundInv
    OBVIOUS
  <1>1. MInv
    BY MInvInit
  <1>2. /\ \A s \in Session, p \in Prize : draft[s][p] = NoTicket
        /\ \A th \in Thread : req[th] = NoReq /\ tx[th] = Idle
    BY NoReqIs DEF ManagerInit, Init, Thread, Client
  <1>3. \A p \in Prize : Promised(p) = {}
    BY <1>1, <1>2, NoReqIs, FreeTyped DEF Promised, Held, Pending, MInv, IInv, TypeOK
  <1>4. Cardinality({}) = 0
    BY FS_EmptySet
  <1>5. ASSUME NEW p \in Prize PROVE Bounded(p)
    <2>1. prize[p].issued = 0 /\ Cnt[p] \in Nat /\ Most \in Nat /\ Most > 0
      BY PromisesBounded, CntAssumption DEF ManagerInit, Init, Store!Init
    <2>2. Cardinality(Promised(p)) = 0
      BY <1>3, <1>4
    <2> QED BY <2>1, <2>2 DEF Bounded
  <1> QED BY <1>2, <1>5 DEF BoundInv, RowCurrent, Idle


\* A step that writes nothing, after which nothing more is held.
LEMMA QuietBound ==
  ASSUME MInv, MInv', UNCHANGED <<setting, db>>, HoldsOn, NEW p \in Prize, Bounded(p)
  PROVE  Bounded(p)'
  <1>1. NoTicket \notin Free /\ Free' = Free
    BY FreeTyped DEF MInv, IInv, TypeOK, Free, Store!Free, db
  <1>2. Promised(p)' \subseteq Promised(p)
    BY <1>1 DEF HoldsOn, Promised
  <1> QED BY <1>2, BoundKept DEF db

\* A draft is drawn: the prize has a piece left.
LEMMA DraftBound ==
  ASSUME MInv, MInv', UNCHANGED vars, NEW d \in Drafts, NEW p \in Prize,
         Held(p)' \subseteq Held(p) \cup {d[p]}, Bounded(p)
  PROVE  Bounded(p)'
  <1>1. NoTicket \notin Free /\ Free' = Free /\ TypeOK /\ UNCHANGED prize
    BY FreeTyped DEF MInv, IInv, TypeOK, Free, Store!Free, vars, db
  <1>2. CASE d[p] = NoTicket
    <2>1. Promised(p)' \subseteq Promised(p)
      BY <1>1, <1>2 DEF Promised
    <2> QED BY <1>1, <2>1, BoundKept
  <1>3. CASE d[p] # NoTicket
    <2>1. prize'[p].issued < Cnt[p] /\ prize'[p].issued \in Int /\ Cnt[p] \in Nat
      BY <1>1, <1>3, DraftIs, IssuedTyped
    <2>2. Cardinality(Promised(p)') \in Nat /\ Cardinality(Promised(p)') <= Most /\ Most \in Nat
      BY PromisesBounded
    <2>3. prize'[p].issued + Cardinality(Promised(p)') <= Cnt[p] + Most - 1
      BY <2>1, <2>2
    <2> QED BY <2>3 DEF Bounded, Most
  <1> QED BY <1>2, <1>3

(***************************************************************************)
(* The commit of a draw keeps its promise: one more is issued, one less is *)
(* promised, for the ticket is no longer free for anyone.                  *)
(***************************************************************************)
LEMMA DrawBound ==
  ASSUME MInv, MInv', OnlyAdded, BoundInv, NEW th \in Thread, Commit(th), HoldsOn,
         NEW q \in Prize
  PROVE  Bounded(q)'
  <1> DEFINE p == tx[th].prize
             t == tx[th].ticket
  <1>1. /\ IInv /\ th \in Client /\ tx[th].at = "commit" /\ tx[th] # Idle
        /\ \A r \in Prize : Bounded(r)
        /\ tx[th].rows[p] = prize[p]
    BY DEF MInv, Commit, BoundInv, RowCurrent, Thread, Client, Idle
  <1>2. /\ tx[th].op = "patchPrizeTicket" /\ Pending(th, p) = t /\ p \in Prize
    BY <1>1, OneDraw
  <1>3. OnlyManagersDraw
    BY DEF OnlyAdded, OnlyManagersDraw
  <1>4. t \in tickets /\ win[t] = NoPrize
    BY <1>1, <1>2, <1>3, DrawCommits DEF MInv, Claims
  <1>5. t \in Free /\ t \in Promised(p)
    BY <1>2, <1>4 DEF Free, Store!Free, NoPrize, Promised, Held
  <1>6. /\ Free' = Free \ {t} /\ prize[p].issued \in Int
        /\ prize'[p].issued = prize[p].issued + 1
        /\ \A r \in Prize \ {p} : prize'[r] = prize[r]
    BY <1>1, <1>2, DrawCommits
  <1> HIDE DEF p, t
  <1>7. NoTicket \notin Free
    BY FreeTyped DEF MInv, IInv, TypeOK
  <1>8. Promised(q)' \subseteq Promised(q) \ {t}
    BY <1>6, <1>7 DEF HoldsOn, Promised
  <1>9. CASE q # p
    BY <1>1, <1>6, <1>8, <1>9, BoundKept
  <1>10. CASE q = p
    <2>1. IsFiniteSet(Promised(p)) /\ Cardinality(Promised(p)) \in Nat /\ Most \in Nat
      BY <1>2, PromisesBounded
    <2>2. /\ IsFiniteSet(Promised(p) \ {t})
          /\ Cardinality(Promised(p) \ {t}) = Cardinality(Promised(p)) - 1
      BY <1>5, <2>1, FS_RemoveElement
    <2>3. Cardinality(Promised(q)') <= Cardinality(Promised(p)) - 1
      <3>1. Promised(q)' \in SUBSET (Promised(p) \ {t})
        BY <1>8, <1>10
      <3>2. Cardinality(Promised(q)') <= Cardinality(Promised(p) \ {t})
        BY <2>2, <3>1, FS_Subset
      <3> QED BY <2>2, <3>2
    <2>4. Cardinality(Promised(q)') \in Nat
      BY PromisesBounded
    <2>5. Cnt[q] \in Nat
      BY IssuedTyped
    <2>6. prize[p].issued + Cardinality(Promised(p)) <= Cnt[q] + Most - 1
      BY <1>1, <1>2, <1>10 DEF Bounded
    <2>7. prize'[q].issued + Cardinality(Promised(q)') <= Cnt[q] + Most - 1
      BY <1>6, <1>10, <2>1, <2>3, <2>4, <2>5, <2>6
    <2> QED BY <2>7 DEF Bounded, Most
  <1> QED BY <1>9, <1>10

\* The commit of tickets that are added: they are new, promised by nobody.
LEMMA AddedBound ==
  ASSUME MInv, MInv', OnlyAdded, NEW c \in RestClients, Commit(c), HoldsOn,
         NEW q \in Prize, Bounded(q)
  PROVE  Bounded(q)' /\ UNCHANGED prize
  <1>1. IInv /\ c \in Client /\ tx[c].op = "putTickets"
    <2>1. tx[c].at # "idle"
      BY DEF Commit
    <2> QED BY <2>1 DEF MInv, RestAsSet, OnlyAdded, Client
  <1>2. Free' \cap seen \subseteq Free /\ prize' = prize
    BY <1>1, OtherCommits
  <1>3. NoTicket \notin Free'
    <2>1. Store!TypeOK'
      BY DEF MInv, IInv, TypeOK
    <2> QED BY <2>1, TicketIdAssumption
            DEF Free, Store!Free, Store!TypeOK, Store!TicketId, NoTicket
  <1>4. Promised(q)' \subseteq Promised(q)
    BY <1>2, <1>3 DEF HoldsOn, Promised, MInv, Known
  <1> QED BY <1>2, <1>4, BoundKept

LEMMA RowsKept ==
  ASSUME MInv, UNCHANGED prize, NEW th \in Thread, tx'[th] = tx[th], RowCurrent(th)
  PROVE  RowCurrent(th)'
  BY DEF RowCurrent

LEMMA PageBound ==
  ASSUME MInv, MInv', BoundInv, PageActs
  PROVE  BoundInv'
  <1>1. UNCHANGED <<setting, db, tx, prize>>
    BY DEF PageActs, vars, db
  <1>2. SUFFICES ASSUME OnlyAdded
                 PROVE  (\A p \in Prize : Bounded(p)') /\ \A th \in Thread : RowCurrent(th)'
    BY <1>1 DEF BoundInv, OnlyAdded
  <1>3. (\A p \in Prize : Bounded(p)) /\ \A th \in Thread : RowCurrent(th)
    BY <1>2 DEF BoundInv
  <1>4. \A th \in Thread : RowCurrent(th)'
    BY <1>1, <1>3, RowsKept
  <1>5. ASSUME NEW p \in Prize PROVE Bounded(p)'
    <2>1. CASE HoldsOn
      BY <1>1, <1>3, <2>1, QuietBound
    <2>2. CASE \E d \in Drafts : \A r \in Prize : Held(r)' \subseteq Held(r) \cup {d[r]}
      BY <1>3, <2>2, DraftBound DEF PageActs
    <2> QED BY <2>1, <2>2 DEF PageActs
  <1> QED BY <1>4, <1>5

LEMMA ServiceBound ==
  ASSUME MInv, MInv', BoundInv, ServiceActs
  PROVE  BoundInv'
  <1>1. ASSUME NEW th \in Thread \cap setting.callers, Apply(th) PROVE BoundInv'
    <2>1. UNCHANGED <<setting, db>> /\ HoldsOn
      BY <1>1, ApplyKeeps
    <2>2. tx'[th].at = "enter" /\ \A u \in Thread \ {th} : tx'[u] = tx[u]
      BY <1>1, ThreadsAreClients DEF Apply, CallService, Asks, MInv, IInv, TypeOK, Thread, Client
    <2>3. \A u \in Thread : RowCurrent(u) => RowCurrent(u)'
      BY <2>1, <2>2 DEF RowCurrent, db
    <2> QED BY <2>1, <2>3, QuietBound DEF BoundInv, OnlyAdded
  <1>2. ASSUME NEW th \in Thread, PatchStep(th) \/ PatchFails(th) PROVE BoundInv'
    <2>1. /\ HoldsOn /\ UNCHANGED setting /\ IInv /\ th \in Client
          /\ tx[th] # Idle /\ (GoesOn(th) \/ Ends(th))
      BY <1>2, PatchKeeps, StepMoves DEF PatchStep, PatchFails, AsItEnds, MInv, Thread, Client
    <2>2. SUFFICES ASSUME OnlyAdded
                   PROVE  (\A p \in Prize : Bounded(p)') /\ \A u \in Thread : RowCurrent(u)'
      BY <2>1 DEF BoundInv, OnlyAdded
    <2>3. (\A p \in Prize : Bounded(p)) /\ \A u \in Thread : RowCurrent(u)
      BY <2>2 DEF BoundInv
    <2>4. tx[th].op = "patchPrizeTicket" /\ formLock = th
      BY <2>1, OneDraw
    <2>5. \A u \in Thread \ {th} : tx'[u] = tx[u] /\ tx'[u].at = "idle"
      <3>1. \A u \in Thread \ {th} : tx[u] = Idle
        BY <2>4, OneDraw
      <3>2. \A u \in Thread \ {th} : tx'[u] = tx[u]
        BY <2>1 DEF GoesOn, Ends, IInv, TypeOK, Thread, Client
      <3> QED BY <3>1, <3>2 DEF Idle
    <2>6. CASE GoesOn(th)
      <3>1. PICK y \in Tx : tx' = [tx EXCEPT ![th] = y] /\ Moved(tx[th], y)
        BY <2>6 DEF GoesOn
      <3>2. tx'[th] = y /\ UNCHANGED <<db, prize>>
        BY <2>1, <2>6, <3>1 DEF GoesOn, IInv, TypeOK, db
      <3>3. RowCurrent(th)'
        BY <2>3, <2>4, <3>1, <3>2 DEF Moved, RowCurrent
      <3>4. \A u \in Thread : RowCurrent(u)'
        BY <2>5, <3>3 DEF RowCurrent
      <3> QED BY <2>1, <2>3, <3>2, <3>4, QuietBound
    <2>7. CASE Ends(th)
      <3>1. tx'[th].at = "idle"
        BY <2>1, <2>7 DEF Ends, IInv, TypeOK, Idle
      <3>2. \A u \in Thread : RowCurrent(u)'
        BY <2>5, <3>1 DEF RowCurrent
      <3>3. CASE UNCHANGED db
        BY <2>1, <2>3, <3>2, <3>3, QuietBound
      <3>4. CASE Commit(th)
        BY <2>1, <2>2, <3>2, <3>4, DrawBound
      <3> QED BY <2>7, <3>3, <3>4 DEF Ends
    <2> QED BY <2>1, <2>6, <2>7
  <1>3. ASSUME NEW c \in RestClients, RestStep(c) \/ RestFails(c) PROVE BoundInv'
    <2>1. /\ HoldsOn /\ UNCHANGED setting /\ IInv /\ c \in Client
          /\ GoesOn(c) \/ Ends(c)
      BY <1>3, RestKeeps, StepMoves DEF RestStep, RestFails, MInv, Client
    <2>2. SUFFICES ASSUME OnlyAdded
                   PROVE  (\A p \in Prize : Bounded(p)') /\ \A u \in Thread : RowCurrent(u)'
      BY <2>1 DEF BoundInv, OnlyAdded
    <2>3. (\A p \in Prize : Bounded(p)) /\ \A u \in Thread : RowCurrent(u)
      BY <2>2 DEF BoundInv
    <2>4. \A u \in Thread : tx'[u] = tx[u]
      BY <2>1, ThreadsAreClients DEF GoesOn, Ends, IInv, TypeOK
    <2>5. CASE UNCHANGED db
      BY <2>1, <2>3, <2>4, <2>5, QuietBound, RowsKept DEF db
    <2>6. CASE Commit(c)
      <3>1. ASSUME NEW p \in Prize PROVE Bounded(p)' /\ UNCHANGED prize
        BY <2>1, <2>2, <2>3, <2>6, AddedBound
      <3>2. ASSUME NEW u \in Thread PROVE RowCurrent(u)'
        <4>1. CASE tx[u] = Idle
          BY <2>4, <4>1 DEF RowCurrent, Idle
        <4>2. CASE tx[u] # Idle
          <5>1. tx[u].prize \in Prize
            BY <4>2, OneDraw
          <5> QED BY <2>3, <2>4, <3>1, <5>1, RowsKept
        <4> QED BY <4>1, <4>2
      <3> QED BY <3>1, <3>2
    <2> QED BY <2>1, <2>5, <2>6 DEF GoesOn, Ends
  <1>4. ASSUME NEW c \in RestClients \cap setting.callers, RestBegins(c) PROVE BoundInv'
    <2>1. HoldsOn /\ UNCHANGED <<setting, db, prize>>
      BY <1>4, RestBeginsKeeps DEF RestBegins, db
    <2>2. \A u \in Thread : tx'[u] = tx[u]
      BY <1>4, ThreadsAreClients DEF RestBegins, BeginRest, MInv, IInv, TypeOK, Client
    <2> QED BY <2>1, <2>2, QuietBound, RowsKept DEF BoundInv, OnlyAdded
  <1> QED BY <1>1, <1>2, <1>3, <1>4 DEF ServiceActs

(***************************************************************************)
(* Where REST callers only add tickets, a prize is issued at most one      *)
(* piece for each session and each request too often, less one, whatever   *)
(* managers do at the same time.                                           *)
(***************************************************************************)
THEOREM OverIssueIsBounded == ManagerSpec => []OverIssueBounded
  <1>1. ASSUME MInv, BoundInv, OnlyAdded, NEW p \in Prize
        PROVE  prize[p].issued <= Cnt[p] + Cardinality(Session) + Cardinality(Thread) - 1
    <2>1. Cardinality(Promised(p)) \in Nat
      BY PromisesBounded
    <2>2. prize[p].issued \in Int /\ Cnt[p] \in Nat
      BY <1>1, IssuedTyped
    <2>3. Cardinality(Session) \in Nat /\ Cardinality(Thread) \in Nat
      BY ActorAssumption, FS_CardinalityType DEF Thread
    <2>4. prize[p].issued + Cardinality(Promised(p)) <= Cnt[p] + Most - 1
      BY <1>1 DEF BoundInv, Bounded
    <2> QED BY <2>1, <2>2, <2>3, <2>4 DEF Most
  <1>2. MInv /\ BoundInv => OverIssueBounded
    BY <1>1 DEF OverIssueBounded, OnlyAdded
  <1>3. MInv /\ BoundInv /\ [ManagerNext]_managerVars => BoundInv'
    BY ManagerActs, PageBound, ServiceBound
  <1> QED BY <1>2, <1>3, BoundInit, ManagerInvariant, PTL DEF ManagerSpec


-----------------------------------------------------------------------------
(* A single manager, who waits for each answer *)

(***************************************************************************)
(* With one session and one thread there is one promise for each prize:    *)
(* the draft under way replaces the one of the session's page, which no    *)
(* other request can submit meanwhile.                                     *)
(***************************************************************************)
Promise(s, th, p) ==
  IF req[th].at = "drawn" THEN req[th].draft[p]
  ELSE IF req[th].at \in {"post", "patch"} /\ req[th].fresh /\ req[th].prize = p
       THEN req[th].ticket
  ELSE draft[s][p]

Submitted(s, th, p) ==
  req[th].at \in {"post", "patch"} /\ req[th].fresh /\ req[th].prize = p =>
    draft[s][p] \in {req[th].ticket, NoTicket}

PromiseKept(s, th, p) ==
  /\ prize[p].issued <= Cnt[p]
  /\ Promise(s, th, p) \in Free => prize[p].issued < Cnt[p]
  /\ Submitted(s, th, p)

(***************************************************************************)
(* The rows read by requests under way: of a prize being given, with a     *)
(* piece left; of the prizes a deletion searches, none issued too often.   *)
(***************************************************************************)
RowLeft(th) ==
  tx[th].at \in {"ticketRow", "collection", "commit"} /\ tx[th].ticket \in Free =>
    tx[th].rows[tx[th].prize].issued < Cnt[tx[th].prize]
RowsWithin(c) ==
  tx[c].op = "deleteTicket" /\ tx[c].at \in {"collection", "commit"} =>
    \A p \in Prize : tx[c].rows[p].issued <= Cnt[p]

OnlyReturned == setting.ops \subseteq {"putTickets", "deleteTicket"}
OneInv(s, th) ==
  OnlyReturned =>
    /\ \A p \in Prize : PromiseKept(s, th, p)
    /\ RowLeft(th)
    /\ \A c \in RestClients : RowsWithin(c)

LEMMA OneInit ==
  ASSUME ManagerInit, NEW s \in Session, NEW th \in Thread
  PROVE  OneInv(s, th)
  <1>1. MInv /\ req[th].at = "idle" /\ Idle.at = "idle"
    BY MInvInit, NoReqIs DEF ManagerInit, Idle
  <1>2. \A c \in Client : tx[c].at = "idle"
    BY <1>1 DEF ManagerInit, Init
  <1>3. \A p \in Prize : prize[p].issued = 0 /\ Cnt[p] \in Nat /\ draft[s][p] = NoTicket
    BY CntAssumption, NoReqIs DEF ManagerInit, Init, Store!Init
  <1>4. NoTicket \notin Free
    BY <1>1, FreeTyped DEF MInv, IInv, TypeOK
  <1>5. \A p \in Prize : PromiseKept(s, th, p)
    BY <1>1, <1>3, <1>4 DEF PromiseKept, Promise, Submitted
  <1>6. RowLeft(th) /\ \A c \in RestClients : RowsWithin(c)
    BY <1>2 DEF RowLeft, RowsWithin, Client, Thread
  <1> QED BY <1>5, <1>6 DEF OneInv

(***************************************************************************)
(* A step that promises only what was promised, and issues nothing, or     *)
(* leaves a piece.                                                         *)
(***************************************************************************)
LEMMA OneQuiet ==
  ASSUME MInv, MInv', NEW s \in Session, NEW th \in Thread, NEW p \in Prize,
         PromiseKept(s, th, p), Free' \cap seen \subseteq Free,
         prize'[p].issued = prize[p].issued \/ prize'[p].issued < Cnt[p],
         Promise(s, th, p)' \in {Promise(s, th, p), NoTicket},
         Submitted(s, th, p)'
  PROVE  PromiseKept(s, th, p)'
  <1>1. prize[p].issued \in Int /\ prize'[p].issued \in Int /\ Cnt[p] \in Nat
    BY CntAssumption DEF MInv, IInv, TypeOK, Store!TypeOK, Store!PrizeRow
  <1>2. Promise(s, th, p) \in seen \cup {NoTicket}
    <2>1. Promise(s, th, p) \in Held(p)
      BY DEF Promise, Held, Pending
    <2> QED BY <2>1 DEF MInv, Known
  <1>3. NoTicket \notin Free'
    <2>1. Store!TypeOK'
      BY DEF MInv, IInv, TypeOK
    <2> QED BY <2>1, TicketIdAssumption
            DEF Free, Store!Free, Store!TypeOK, Store!TicketId, NoTicket
  <1>4. Promise(s, th, p)' \in Free' => Promise(s, th, p) \in Free
    BY <1>2, <1>3
  <1>5. prize[p].issued <= Cnt[p] /\ (Promise(s, th, p) \in Free => prize[p].issued < Cnt[p])
    BY DEF PromiseKept
  <1>6. /\ prize'[p].issued <= Cnt[p]
        /\ Promise(s, th, p)' \in Free' => prize'[p].issued < Cnt[p]
    BY <1>1, <1>4, <1>5
  <1> QED BY <1>6 DEF PromiseKept

\* Where nothing is written, only the promises matter.
LEMMA OneUnwritten ==
  ASSUME MInv, MInv', NEW s \in Session, NEW th \in Thread, NEW p \in Prize,
         PromiseKept(s, th, p), UNCHANGED db,
         Promise(s, th, p)' \in {Promise(s, th, p), NoTicket}, Submitted(s, th, p)'
  PROVE  PromiseKept(s, th, p)'
  <1>1. Free' = Free /\ prize' = prize
    BY DEF Free, Store!Free, db
  <1> QED BY <1>1, OneQuiet

(***************************************************************************)
(* The steps of the page.                                                  *)
(***************************************************************************)
LEMMA OneGet ==
  ASSUME MInv, MInv', NEW s \in Session, NEW th \in Thread, NEW p \in Prize,
         PromiseKept(s, th, p), GetManager(th, s)
  PROVE  PromiseKept(s, th, p)'
  <1>1. /\ req[th].at = "idle" /\ req'[th].at = "get" /\ UNCHANGED <<db, draft>>
    BY NoReqIs DEF GetManager, MInv, ManagerTypeOK, Req, vars
  <1> QED BY <1>1, OneUnwritten DEF Promise, Submitted

LEMMA OneDrawn ==
  ASSUME MInv, MInv', NEW s \in Session, NEW th \in Thread, NEW p \in Prize,
         PromiseKept(s, th, p), Draw(th)
  PROVE  PromiseKept(s, th, p)'
  <1>0. ManagerTypeOK /\ TypeOK /\ UNCHANGED db
    BY DEF MInv, IInv, Draw, vars
  <1>1. PICK d \in Drafts, r \in Req :
          /\ req' = [req EXCEPT ![th] = r] /\ r.at = "drawn" /\ r.draft = d
    BY <1>0, DrawIs
  <1>2. req'[th] = r
    BY <1>0, <1>1, OneRequest
  <1>3. Promise(s, th, p)' = d[p] /\ Submitted(s, th, p)'
    BY <1>1, <1>2 DEF Promise, Submitted
  <1>4. /\ d[p] # NoTicket => prize[p].issued < Cnt[p]
        /\ NoTicket \notin Free /\ Free' = Free /\ prize' = prize
    BY <1>0, DraftIs, FreeTyped DEF TypeOK, Free, Store!Free, db
  <1> QED BY <1>3, <1>4 DEF PromiseKept

LEMMA OneRespond ==
  ASSUME MInv, MInv', NEW s, Session = {s}, NEW th \in Thread, NEW p \in Prize,
         PromiseKept(s, th, p), Respond(th)
  PROVE  PromiseKept(s, th, p)'
  <1>1. /\ req[th].at = "drawn" /\ req[th].session = s /\ req' = [req EXCEPT ![th] = NoReq]
        /\ draft' = [draft EXCEPT ![s] = req[th].draft] /\ UNCHANGED db
    BY DEF Respond, EndRequest, MInv, Serves, vars
  <1>2. req'[th].at = "idle" /\ draft'[s] = req[th].draft
    BY <1>1, NoReqIs DEF MInv, ManagerTypeOK
  <1>3. Promise(s, th, p)' = Promise(s, th, p) /\ Submitted(s, th, p)'
    BY <1>1, <1>2 DEF Promise, Submitted
  <1> QED BY <1>1, <1>3, OneUnwritten

LEMMA OneSubmit ==
  ASSUME MInv, MInv', NEW s \in Session, NEW th \in Thread, NEW p \in Prize,
         PromiseKept(s, th, p), NEW q \in Prize, NEW t, NEW fresh \in BOOLEAN,
         Submit(th, s, q, t, fresh), fresh => draft[s][q] = t
  PROVE  PromiseKept(s, th, p)'
  <1>1. req[th].at = "idle" /\ UNCHANGED <<db, draft>>
    BY NoReqIs DEF Submit, vars
  <1>2. /\ req'[th].at = "post" /\ req'[th].prize = q /\ req'[th].ticket = t
        /\ req'[th].fresh = fresh
    BY DEF Submit, MInv, ManagerTypeOK
  <1>3. Promise(s, th, p)' = Promise(s, th, p) /\ Submitted(s, th, p)'
    BY <1>1, <1>2 DEF Promise, Submitted
  <1> QED BY <1>1, <1>3, OneUnwritten

\* A request that ends without a prize given.
LEMMA OneEnds ==
  ASSUME MInv, MInv', NEW s \in Session, NEW th \in Thread, NEW p \in Prize,
         PromiseKept(s, th, p), req[th].at \in {"post", "patch"},
         req'[th].at = "idle", UNCHANGED <<db, draft>>
  PROVE  PromiseKept(s, th, p)'
  <1>1. Promise(s, th, p)' = draft[s][p] /\ Submitted(s, th, p)'
    BY DEF Promise, Submitted
  <1>2. Promise(s, th, p)' \in {Promise(s, th, p), NoTicket}
    <2>1. CASE req[th].fresh /\ req[th].prize = p
      BY <1>1, <2>1 DEF Promise, PromiseKept, Submitted
    <2>2. CASE ~(req[th].fresh /\ req[th].prize = p)
      BY <1>1, <2>2 DEF Promise
    <2> QED BY <2>1, <2>2
  <1> QED BY <1>1, <1>2, OneUnwritten

LEMMA OneExpire ==
  ASSUME MInv, MInv', NEW s \in Session, NEW th \in Thread, NEW p \in Prize,
         PromiseKept(s, th, p), Expire(s)
  PROVE  PromiseKept(s, th, p)'
  <1>1. UNCHANGED <<db, req>> /\ draft'[s][p] = NoTicket
    BY NoReqIs DEF Expire, MInv, ManagerTypeOK, vars
  <1>2. Promise(s, th, p)' \in {Promise(s, th, p), NoTicket} /\ Submitted(s, th, p)'
    BY <1>1 DEF Promise, Submitted
  <1> QED BY <1>1, <1>2, OneUnwritten

\* A step that touches neither the page nor the tables.
LEMMA OneElsewhere ==
  ASSUME MInv, MInv', NEW s \in Session, NEW th \in Thread, NEW p \in Prize,
         PromiseKept(s, th, p), UNCHANGED <<draft, req, db>>
  PROVE  PromiseKept(s, th, p)'
  <1>1. Promise(s, th, p)' = Promise(s, th, p) /\ Submitted(s, th, p)'
    BY DEF Promise, Submitted, PromiseKept
  <1> QED BY <1>1, OneUnwritten

\* The submission decrypts, the service is called.
LEMMA OneApply ==
  ASSUME MInv, MInv', NEW s \in Session, NEW th \in Thread, NEW p \in Prize,
         PromiseKept(s, th, p), Apply(th)
  PROVE  PromiseKept(s, th, p)'
  <1>1. /\ req[th].at = "post" /\ UNCHANGED <<db, draft>>
        /\ req' = [req EXCEPT ![th].at = "patch"]
    BY DEF Apply, CallService
  <1>2. /\ req'[th].at = "patch" /\ req'[th].fresh = req[th].fresh
        /\ req'[th].prize = req[th].prize /\ req'[th].ticket = req[th].ticket
    BY <1>1 DEF MInv, ManagerTypeOK, Req
  <1>3. Promise(s, th, p)' = Promise(s, th, p) /\ Submitted(s, th, p)'
    BY <1>1, <1>2 DEF Promise, Submitted, PromiseKept
  <1> QED BY <1>1, <1>3, OneUnwritten


(***************************************************************************)
(* The steps of the service.                                               *)
(***************************************************************************)
LEMMA OneDrawCommits ==
  ASSUME MInv, MInv', OnlyReturned, NEW s \in Session, NEW th \in Thread,
         \A q \in Prize : PromiseKept(s, th, q), RowLeft(th),
         Commit(th), req'[th].at = "idle", UNCHANGED draft, NEW p \in Prize
  PROVE  PromiseKept(s, th, p)' /\ Free' \subseteq Free
  <1> DEFINE q == tx[th].prize
             t == tx[th].ticket
  <1>1. /\ IInv /\ th \in Client /\ tx[th].at = "commit" /\ tx[th] # Idle
    BY DEF MInv, Commit, Thread, Client, Idle
  <1>2. /\ tx[th].op = "patchPrizeTicket" /\ q \in Prize
        /\ req[th].at = "patch" /\ req[th].fresh /\ req[th].prize = q /\ req[th].ticket = t
    BY <1>1, OneDraw
  <1>3. t \in tickets /\ win[t] = NoPrize
    <2>1. OnlyManagersDraw
      BY DEF OnlyReturned, OnlyManagersDraw
    <2> QED BY <1>1, <1>2, <2>1, DrawCommits DEF MInv, Claims
  <1>4. t \in Free
    BY <1>3 DEF Free, Store!Free, NoPrize
  <1>5. /\ Free' = Free \ {t} /\ tx[th].rows[q].issued \in Int
        /\ prize'[q].issued = tx[th].rows[q].issued + 1
        /\ \A r \in Prize \ {q} : prize'[r] = prize[r]
    BY <1>1, <1>2, DrawCommits
  <1>6. tx[th].rows[q].issued < Cnt[q]
    BY <1>1, <1>4 DEF RowLeft
  <1> HIDE DEF q, t
  <1>7. Promise(s, th, p)' = draft[s][p] /\ Submitted(s, th, p)'
    BY DEF Promise, Submitted
  <1>8. CASE p # q
    <2>1. Promise(s, th, p)' = Promise(s, th, p)
      BY <1>2, <1>7, <1>8 DEF Promise
    <2> QED BY <1>5, <1>7, <1>8, <2>1, OneQuiet
  <1>9. CASE p = q
    <2>1. draft[s][p] \in {t, NoTicket}
      BY <1>2, <1>9 DEF PromiseKept, Submitted
    <2>2. NoTicket \notin Free
      BY FreeTyped DEF MInv, IInv, TypeOK
    <2>3. prize'[p].issued <= Cnt[p] /\ Promise(s, th, p)' \notin Free'
      BY <1>5, <1>6, <1>7, <1>9, <2>1, <2>2, IssuedTyped
    <2> QED BY <1>5, <1>7, <2>3 DEF PromiseKept
  <1> QED BY <1>5, <1>8, <1>9

LEMMA OneRestCommits ==
  ASSUME MInv, MInv', OnlyReturned, NEW s \in Session, NEW th \in Thread, NEW p \in Prize,
         PromiseKept(s, th, p), NEW c \in RestClients, RowsWithin(c),
         Commit(c), UNCHANGED <<draft, req>>
  PROVE  PromiseKept(s, th, p)' /\ Free' \cap seen \subseteq Free
  <1>1. IInv /\ c \in Client /\ tx[c].at = "commit" /\ tx[c].op \in {"putTickets", "deleteTicket"}
    BY DEF MInv, RestAsSet, OnlyReturned, Commit, Client
  <1>2. /\ Free' \cap seen \subseteq Free
        /\ tx[c].op = "putTickets" => prize' = prize
        /\ tx[c].op = "deleteTicket" =>
             \/ prize'[p] = prize[p]
             \/ /\ tx[c].rows[p].issued \in Int
                /\ prize'[p].issued = tx[c].rows[p].issued - 1
    BY <1>1, OtherCommits
  <1>3. prize'[p].issued = prize[p].issued \/ prize'[p].issued < Cnt[p]
    BY <1>1, <1>2, IssuedTyped DEF RowsWithin
  <1>4. Promise(s, th, p)' = Promise(s, th, p) /\ Submitted(s, th, p)'
    BY DEF Promise, Submitted, PromiseKept
  <1> QED BY <1>2, <1>3, <1>4, OneQuiet

\* What a request under way has read stays within the counts.
LEMMA ReadsKept ==
  ASSUME MInv, \A p \in Prize : prize[p].issued <= Cnt[p],
         NEW c \in RestClients, RowsWithin(c),
         tx'[c] = tx[c] \/ tx'[c].op = "none" \/ tx'[c].at = "enter"
           \/ (GoesOn(c) /\ IInv)
  PROVE  RowsWithin(c)'
  <1>1. CASE GoesOn(c)
    <2>1. PICK y \in Tx : tx' = [tx EXCEPT ![c] = y] /\ Moved(tx[c], y)
      BY <1>1 DEF GoesOn
    <2>2. tx'[c] = y
      BY <2>1 DEF MInv, IInv, TypeOK, Client
    <2> QED BY <2>1, <2>2 DEF RowsWithin, Moved
  <1> QED BY <1>1 DEF RowsWithin

LEMMA RowLeftKept ==
  ASSUME MInv, NEW th \in Thread, tx'[th] = tx[th], RowLeft(th), Free' \cap seen \subseteq Free
  PROVE  RowLeft(th)'
  <1>1. CASE tx[th] = Idle
    BY <1>1 DEF RowLeft, Idle
  <1>2. CASE tx[th] # Idle
    BY <1>2, OneDraw DEF RowLeft
  <1> QED BY <1>1, <1>2

LEMMA OnePost ==
  ASSUME NEW s, Session = {s}, NEW th, Thread = {th}, MInv, MInv', OnlyReturned, OneInv(s, th),
         UNCHANGED setting, PatchStep(th) \/ PatchFails(th)
  PROVE  OneInv(s, th)'
  <1>0. /\ IInv /\ ManagerTypeOK /\ th \in Client /\ s \in Session /\ th \in Thread
        /\ Step(th) \/ Fail(th)
        /\ IF tx'[th] = Idle THEN req' = [req EXCEPT ![th] = NoReq] ELSE UNCHANGED req
        /\ UNCHANGED <<draft, shown>>
        /\ \A p \in Prize : PromiseKept(s, th, p)
        /\ RowLeft(th) /\ \A c \in RestClients : RowsWithin(c)
    BY DEF MInv, PatchStep, PatchFails, AsItEnds, EndRequest, Client, Thread, OneInv
  <1>1. tx[th] # Idle /\ (GoesOn(th) \/ Ends(th))
    BY <1>0, StepMoves
  <1>2. /\ req[th].at = "patch" /\ req[th].fresh /\ tx[th].op = "patchPrizeTicket"
        /\ tx[th].prize \in Prize /\ tx[th].prize = req[th].prize
        /\ tx[th].ticket = req[th].ticket
    BY <1>0, <1>1, OneDraw
  <1>3. \A c \in RestClients : RowsWithin(c)'
    <2>1. \A c \in RestClients : tx'[c] = tx[c]
      BY <1>0, <1>1, ThreadsAreClients DEF GoesOn, Ends, IInv, TypeOK
    <2> QED BY <1>0, <2>1 DEF RowsWithin
  <1>4. CASE GoesOn(th)
    <2>1. PICK y \in Tx : tx' = [tx EXCEPT ![th] = y] /\ Moved(tx[th], y)
      BY <1>4 DEF GoesOn
    <2>2. tx'[th] = y /\ y # Idle /\ UNCHANGED <<db, prize>> /\ Free' = Free
      <3>1. tx'[th] = y /\ UNCHANGED <<db, prize>>
        BY <1>0, <1>4, <2>1 DEF GoesOn, IInv, TypeOK, db
      <3>2. y # Idle
        BY <2>1 DEF Moved, Idle
      <3>3. Free' = Free
        BY <3>1 DEF Free, Store!Free, db
      <3> QED BY <3>1, <3>2, <3>3
    <2>3. UNCHANGED req
      BY <1>0, <2>2
    <2>4. \A p \in Prize : PromiseKept(s, th, p)'
      BY <1>0, <2>2, <2>3, OneElsewhere
    <2>5. RowLeft(th)'
      <3> DEFINE p == tx[th].prize
      <3>1. SUFFICES ASSUME y.at \in {"ticketRow", "collection", "commit"}, tx[th].ticket \in Free
                     PROVE  y.rows[p].issued < Cnt[p]
        BY <2>1, <2>2 DEF RowLeft, Moved
      <3>2. CASE y.rows[p] = prize[p]
        <4>1. Promise(s, th, p) = tx[th].ticket
          BY <1>2 DEF Promise
        <4> QED BY <1>0, <1>2, <3>1, <3>2, <4>1 DEF PromiseKept
      <3>3. CASE tx[th].at \in {"ticketRow", "collection"} /\ y.rows = tx[th].rows
        BY <1>0, <3>1, <3>3 DEF RowLeft
      <3> QED BY <1>2, <2>1, <3>1, <3>2, <3>3 DEF Moved
    <2> QED BY <1>3, <2>4, <2>5 DEF OneInv
  <1>5. CASE Ends(th)
    <2>1. tx'[th] = Idle /\ req'[th].at = "idle"
      <3>1. tx'[th] = Idle
        BY <1>0, <1>5 DEF Ends, IInv, TypeOK
      <3>2. req' = [req EXCEPT ![th] = NoReq]
        BY <1>0, <3>1
      <3> QED BY <1>0, <3>1, <3>2, NoReqIs DEF ManagerTypeOK
    <2>2. RowLeft(th)'
      BY <2>1 DEF RowLeft, Idle
    <2>3. \A p \in Prize : PromiseKept(s, th, p)'
      <3>1. CASE UNCHANGED db
        BY <1>0, <1>2, <2>1, <3>1, OneEnds
      <3>2. CASE Commit(th)
        BY <1>0, <2>1, <3>2, OneDrawCommits
      <3> QED BY <1>5, <3>1, <3>2 DEF Ends
    <2> QED BY <1>3, <2>2, <2>3 DEF OneInv
  <1> QED BY <1>1, <1>4, <1>5

LEMMA OneRest ==
  ASSUME NEW s \in Session, NEW th \in Thread, MInv, MInv', OnlyReturned, OneInv(s, th),
         NEW c \in RestClients, RestStep(c) \/ RestFails(c)
  PROVE  OneInv(s, th)'
  <1>0. /\ IInv /\ c \in Client
        /\ Step(c) \/ Fail(c)
        /\ UNCHANGED <<setting, draft, shown, req>>
        /\ \A p \in Prize : PromiseKept(s, th, p)
        /\ RowLeft(th) /\ \A d \in RestClients : RowsWithin(d)
    BY DEF MInv, RestStep, RestFails, Client, OneInv
  <1>1. GoesOn(c) \/ Ends(c)
    BY <1>0, StepMoves
  <1>2. tx'[th] = tx[th] /\ \A d \in RestClients \ {c} : tx'[d] = tx[d]
    BY <1>0, <1>1, ThreadsAreClients DEF GoesOn, Ends, IInv, TypeOK
  <1>3. \A p \in Prize : prize[p].issued <= Cnt[p]
    BY <1>0 DEF PromiseKept
  <1>4. ASSUME NEW d \in RestClients PROVE RowsWithin(d)'
    <2>1. CASE d = c /\ Ends(c)
      <3>1. tx'[c] = Idle
        BY <1>0, <2>1 DEF Ends, IInv, TypeOK
      <3> QED BY <2>1, <3>1 DEF RowsWithin, Idle
    <2>2. CASE d # c \/ GoesOn(c)
      BY <1>0, <1>2, <1>3, <2>2, ReadsKept
    <2> QED BY <1>1, <2>1, <2>2
  <1>5. (\A p \in Prize : PromiseKept(s, th, p)') /\ RowLeft(th)'
    <2>1. CASE UNCHANGED db
      <3>1. Free' = Free
        BY <2>1 DEF Free, Store!Free, db
      <3> QED BY <1>0, <1>2, <2>1, <3>1, OneElsewhere, RowLeftKept
    <2>2. CASE Commit(c)
      <3>1. ASSUME NEW p \in Prize PROVE PromiseKept(s, th, p)' /\ Free' \cap seen \subseteq Free
        BY <1>0, <2>2, OneRestCommits
      <3>2. RowLeft(th)'
        <4>1. CASE tx[th] = Idle
          BY <1>2, <4>1 DEF RowLeft, Idle
        <4>2. CASE tx[th] # Idle
          <5>1. tx[th].prize \in Prize
            BY <4>2, OneDraw
          <5> QED BY <1>0, <1>2, <3>1, <5>1, RowLeftKept
        <4> QED BY <4>1, <4>2
      <3> QED BY <3>1, <3>2
    <2> QED BY <1>1, <2>1, <2>2 DEF GoesOn, Ends
  <1> QED BY <1>4, <1>5 DEF OneInv


LEMMA OneUntouched ==
  ASSUME MInv, NEW s \in Session, NEW th \in Thread, OneInv(s, th),
         UNCHANGED <<setting, db, tx>>,
         OnlyReturned => \A p \in Prize : PromiseKept(s, th, p)'
  PROVE  OneInv(s, th)'
  <1>1. Free' = Free
    BY DEF Free, Store!Free, db
  <1> QED BY <1>1 DEF OneInv, OnlyReturned, RowLeft, RowsWithin

LEMMA OneStep ==
  ASSUME NEW s, Session = {s}, NEW th, Thread = {th}, MInv, MInv', OneInv(s, th),
         [ManagerNext]_managerVars
  PROVE  OneInv(s, th)'
  <1>0. /\ s \in Session /\ th \in Thread
        /\ OnlyReturned => \A p \in Prize : PromiseKept(s, th, p)
    BY DEF OneInv
  <1>1. ASSUME Get(th) PROVE OneInv(s, th)'
    <2>1. UNCHANGED <<setting, db, tx>>
      BY <1>1 DEF Get, GetManager, Draw, Respond, vars
    <2>2. ASSUME OnlyReturned, NEW p \in Prize PROVE PromiseKept(s, th, p)'
      <3>1. CASE GetManager(th, s)
        BY <1>0, <2>2, <3>1, OneGet
      <3>2. CASE Draw(th)
        BY <1>0, <2>2, <3>2, OneDrawn
      <3>3. CASE Respond(th)
        BY <1>0, <2>2, <3>3, OneRespond
      <3> QED BY <1>1, <3>1, <3>2, <3>3 DEF Get
    <2> QED BY <1>0, <2>1, <2>2, OneUntouched
  <1>2. ASSUME SubmitFresh(th, s) \/ SubmitStale(th, s) \/ Undecipherable(th) \/ Expire(s)
        PROVE  OneInv(s, th)'
    <2>1. UNCHANGED <<setting, db, tx>>
      BY <1>2 DEF SubmitFresh, SubmitStale, Submit, Undecipherable, Expire, vars
    <2>2. ASSUME OnlyReturned, NEW p \in Prize PROVE PromiseKept(s, th, p)'
      <3>1. CASE SubmitFresh(th, s)
        <4>1. PICK q \in Prize : draft[s][q] # NoTicket /\ Submit(th, s, q, draft[s][q], TRUE)
          BY <3>1 DEF SubmitFresh
        <4> QED BY <1>0, <2>2, <4>1, OneSubmit
      <3>2. CASE SubmitStale(th, s)
        <4>1. PICK row \in shown[s] : Submit(th, s, row[1], row[2], FALSE)
          BY <3>2 DEF SubmitStale
        <4>2. row[1] \in Prize
          BY <1>0, <4>1 DEF MInv, ManagerTypeOK
        <4> QED BY <1>0, <2>2, <4>1, <4>2, OneSubmit
      <3>3. CASE Undecipherable(th)
        <4>1. /\ req[th].at = "post" /\ UNCHANGED <<db, draft>> /\ req'[th].at = "idle"
          BY <1>0, <3>3, NoReqIs
             DEF Undecipherable, EndRequest, MInv, ManagerTypeOK, vars
        <4> QED BY <1>0, <2>2, <4>1, OneEnds
      <3>4. CASE Expire(s)
        BY <1>0, <2>2, <3>4, OneExpire
      <3> QED BY <1>2, <3>1, <3>2, <3>3, <3>4
    <2> QED BY <1>0, <2>1, <2>2, OneUntouched
  <1>3. ASSUME th \in setting.callers, Apply(th) PROVE OneInv(s, th)'
    <2>1. UNCHANGED <<setting, db>> /\ tx'[th].at = "enter"
          /\ \A c \in RestClients : tx'[c] = tx[c]
      BY <1>0, <1>3, ThreadsAreClients
         DEF Apply, CallService, Asks, MInv, IInv, TypeOK, Thread, Client
    <2>2. ASSUME OnlyReturned, NEW p \in Prize PROVE PromiseKept(s, th, p)'
      BY <1>0, <1>3, <2>2, OneApply
    <2>3. RowLeft(th)' /\ \A c \in RestClients : RowsWithin(c) => RowsWithin(c)'
      BY <2>1 DEF RowLeft, RowsWithin
    <2> QED BY <2>1, <2>2, <2>3 DEF OneInv, OnlyReturned
  <1>4. ASSUME PatchStep(th) \/ PatchFails(th) PROVE OneInv(s, th)'
    <2>1. UNCHANGED setting
      BY <1>4 DEF PatchStep, PatchFails, AsItEnds
    <2>2. CASE OnlyReturned
      BY <1>4, <2>1, <2>2, OnePost
    <2>3. CASE ~OnlyReturned
      BY <2>1, <2>3 DEF OneInv, OnlyReturned
    <2> QED BY <2>2, <2>3
  <1>5. ASSUME NEW c \in RestClients, RestStep(c) \/ RestFails(c) PROVE OneInv(s, th)'
    <2>1. UNCHANGED setting
      BY <1>5 DEF RestStep, RestFails
    <2>2. CASE OnlyReturned
      BY <1>0, <1>5, <2>2, OneRest
    <2>3. CASE ~OnlyReturned
      BY <2>1, <2>3 DEF OneInv, OnlyReturned
    <2> QED BY <2>2, <2>3
  <1>6. ASSUME NEW c \in RestClients, RestBegins(c) PROVE OneInv(s, th)'
    <2>1. /\ UNCHANGED <<setting, db, draft, req>> /\ tx'[th] = tx[th]
          /\ tx'[c].at = "enter" /\ \A d \in RestClients \ {c} : tx'[d] = tx[d]
      <3>1. PICK r \in Request : tx' = [tx EXCEPT ![c] = r]
        BY <1>6 DEF RestBegins, BeginRest
      <3>2. r.at = "enter"
        BY RequestFormed
      <3> QED BY <1>0, <1>6, <3>1, <3>2, ThreadsAreClients
              DEF RestBegins, BeginRest, MInv, IInv, TypeOK, Client
    <2>2. Free' = Free
      BY <2>1 DEF Free, Store!Free, db
    <2>3. ASSUME OnlyReturned, NEW p \in Prize PROVE PromiseKept(s, th, p)'
      BY <1>0, <2>1, <2>3, OneElsewhere
    <2>4. (RowLeft(th) => RowLeft(th)') /\ \A d \in RestClients : RowsWithin(d) => RowsWithin(d)'
      BY <2>1, <2>2 DEF RowLeft, RowsWithin
    <2> QED BY <2>1, <2>3, <2>4 DEF OneInv, OnlyReturned
  <1>7. CASE UNCHANGED managerVars
    <2>1. UNCHANGED <<setting, db, tx, draft, req>>
      BY <1>7 DEF managerVars, vars
    <2>2. ASSUME OnlyReturned, NEW p \in Prize PROVE PromiseKept(s, th, p)'
      BY <1>0, <2>1, <2>2, OneElsewhere
    <2> QED BY <1>0, <2>1, <2>2, OneUntouched
  <1>8. ASSUME th \in setting.callers, Post(th) PROVE OneInv(s, th)'
    BY <1>2, <1>3, <1>4, <1>8 DEF Post
  <1>9. Disturbed => OneInv(s, th)'
    BY <1>4, <1>5, <1>6 DEF Disturbed
  <1> QED BY <1>1, <1>2, <1>5, <1>7, <1>8, <1>9 DEF ManagerNext

(***************************************************************************)
(* One manager with one request at a time never brings the issued of a     *)
(* prize above its pieces, whatever pages are still open and whatever REST *)
(* callers, any number of them, add and delete meanwhile, their requests   *)
(* interleaved with it step by step: a row decrypts only if it is of the   *)
(* last draft, a draft has a row for a prize only if one was left, and a   *)
(* deletion writes back one less than it has read.                         *)
(***************************************************************************)
THEOREM OneManagerKeepsCount ==
  ASSUME NEW s, Session = {s}, NEW th, Thread = {th}
  PROVE  ManagerSpec => []NeverOverIssued
  <1>1. s \in Session /\ th \in Thread
    OBVIOUS
  <1>2. ManagerInit => OneInv(s, th)
    BY <1>1, OneInit
  <1>3. MInv /\ MInv' /\ OneInv(s, th) /\ [ManagerNext]_managerVars => OneInv(s, th)'
    BY OneStep
  <1>4. OneInv(s, th) => NeverOverIssued
    BY DEF OneInv, OnlyReturned, PromiseKept, NeverOverIssued
  <1> QED BY <1>2, <1>3, <1>4, ManagerInvariant, PTL DEF ManagerSpec
=============================================================================
