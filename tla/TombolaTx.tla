------------------------------ MODULE TombolaTx ------------------------------
(***************************************************************************)
(* The requests that write the raffle, interleaved.                        *)
(*                                                                         *)
(* A writing method of TombolaService is "@Transactional public            *)
(* synchronized". The transaction is opened and committed by the proxy     *)
(* around the method, the monitor is taken and released by the method:     *)
(* the next request may read after the monitor is free and before the      *)
(* flush and the commit of the previous one. Rows carry no version, an     *)
(* update writes every column of its row, and a replaced collection is     *)
(* written back whole.                                                     *)
(*                                                                         *)
(* Managers who press the draw button arrive through                       *)
(* IndexController.setManager, whose own monitor is held across the whole  *)
(* call, commit included. REST callers arrive through TombolaController,   *)
(* which has no monitor.                                                   *)
(***************************************************************************)
EXTENDS Integers, FiniteSets

CONSTANTS
  Prize, Name, MaxTicketId,
  FormClients,    \* threads that serve /manager submissions
  RestClients,    \* threads that serve /api/v1/tombola
  Settings,       \* what may be fixed at the start of a behaviour, see setting
  NoName,         \* no name: not a name a prize can have
  Nobody          \* holder of a free monitor

Client == FormClients \cup RestClients
Op == {"patchPrizeTicket", "patchPrizeName", "deleteTicket", "putTickets"}

ASSUME PrizeAssumption == Prize \subseteq Nat \ {0} /\ IsFiniteSet(Prize)
ASSUME TicketIdAssumption == MaxTicketId \in Nat
ASSUME ClientAssumption ==
  /\ FormClients \cap RestClients = {}
  /\ Nobody \notin Client
  /\ Settings \subseteq [callers : SUBSET Client, ops : SUBSET Op, snapshotReads : BOOLEAN]
  /\ NoName \notin Name

VARIABLES
  setting,        \* fixed at the start: the threads that serve requests, the writing
                  \* operations REST callers use, and whether the database reads
                  \* repeatably (MariaDB) or what is committed (H2, Postgres)
  prize, tickets, win, listed, seen,   \* the committed tables, see TombolaStore
  lastId,       \* last id the identity column of tombola_ticket has given out
  formLock,     \* holder of the monitor of IndexController
  serviceLock,  \* holder of the monitor of TombolaService
  tx            \* per thread, the request it serves and what it has read

Store == INSTANCE TombolaStore
  WITH prize <- prize, tickets <- tickets, win <- win, listed <- listed, seen <- seen

db == <<prize, tickets, win, listed, seen>>
vars == <<setting, db, lastId, formLock, serviceLock, tx>>

TicketId == Store!TicketId
NoPrize == Store!NoPrize
NoTicket == 0

Row == [prizeName : Name \cup {NoName}, issued : Int]
NoRows == [p \in Prize |-> [prizeName |-> NoName, issued |-> 0]]

(***************************************************************************)
(* at: the next step of the request. rows and old hold the entities the    *)
(* session has loaded: prize rows, and the ticket ids of a collection (for *)
(* putTickets, the ids inserted). holders: the prizes whose collection was *)
(* found to contain the ticket to delete; todo: those still to search.     *)
(***************************************************************************)
Tx == [ at : {"idle", "enter", "prizeRow", "ticketRow", "allPrizes", "collection",
              "insert", "commit"},
        op : Op \cup {"none"},
        prize : Prize \cup {NoPrize}, ticket : TicketId \cup {NoTicket},
        name : Name \cup {NoName},
        rows : [Prize -> Row], old : SUBSET TicketId,
        holders : SUBSET Prize, todo : SUBSET Prize ]

Idle == [ at |-> "idle", op |-> "none", prize |-> NoPrize, ticket |-> NoTicket,
          name |-> NoName, rows |-> NoRows, old |-> {}, holders |-> {}, todo |-> {} ]

\* What a request may ask for: one argument or the other, by operation.
Asks(op, p, t, n) ==
  [ at |-> "enter", op |-> op, prize |-> p, ticket |-> t, name |-> n,
    rows |-> NoRows, old |-> {}, holders |-> {}, todo |-> {} ]
Request ==
  {Asks("patchPrizeTicket", p, t, NoName) : p \in Prize, t \in TicketId} \cup
  {Asks("patchPrizeName", p, NoTicket, n) : p \in Prize, n \in Name} \cup
  {Asks("deleteTicket", NoPrize, t, NoName) : t \in TicketId} \cup
  {Asks("putTickets", NoPrize, NoTicket, NoName)}

TypeOK ==
  /\ setting \in Settings
  /\ Store!TypeOK
  /\ lastId \in 0 .. MaxTicketId
  /\ formLock \in FormClients \cup {Nobody}
  /\ serviceLock \in Client \cup {Nobody}
  /\ tx \in [Client -> Tx]

Init ==
  /\ setting \in Settings
  /\ Store!Init
  /\ lastId = Cardinality(tickets)
  /\ formLock = Nobody
  /\ serviceLock = Nobody
  /\ tx = [c \in Client |-> Idle]

-----------------------------------------------------------------------------
(* The request of one thread *)

Goto(c, step) == tx' = [tx EXCEPT ![c].at = step]

\* setManager and its one service call, or a handler of TombolaController.
BeginForm(c) ==
  /\ tx[c] = Idle
  /\ formLock = Nobody
  /\ formLock' = c
  /\ \E r \in Request : r.op = "patchPrizeTicket" /\ tx' = [tx EXCEPT ![c] = r]
  /\ UNCHANGED <<db, lastId, serviceLock>>

BeginRest(c) ==
  /\ tx[c] = Idle
  /\ \E r \in Request : r.op \in setting.ops /\ tx' = [tx EXCEPT ![c] = r]
  /\ UNCHANGED <<db, lastId, formLock, serviceLock>>

FirstRead(op) ==
  CASE op \in {"patchPrizeTicket", "patchPrizeName"} -> "prizeRow"
    [] op = "deleteTicket" -> "ticketRow"
    [] op = "putTickets" -> "insert"

Enter(c) ==
  /\ tx[c].at = "enter"
  /\ serviceLock = Nobody
  /\ serviceLock' = c
  /\ Goto(c, FirstRead(tx[c].op))
  /\ UNCHANGED <<db, lastId, formLock>>

\* The method returns: its monitor is free, its changes are in the session only.
LeaveWith(c, x) ==
  /\ tx' = [tx EXCEPT ![c] = [x EXCEPT !.at = "commit"]]
  /\ serviceLock' = Nobody
  /\ UNCHANGED <<db, lastId, formLock>>

\* The transaction ends and the thread is free; exceptions release monitors too.
Release(c) ==
  /\ tx' = [tx EXCEPT ![c] = Idle]
  /\ serviceLock' = IF serviceLock = c THEN Nobody ELSE serviceLock
  /\ formLock' = IF formLock = c THEN Nobody ELSE formLock

-----------------------------------------------------------------------------
(* Reads, under the monitor of TombolaService *)

Wanted(x) ==
  /\ x.ticket \in tickets
  /\ x.op = "patchPrizeTicket" => win[x.ticket] = NoPrize

\* Variant: the prize that is saved was never loaded.
WithoutPrizeRow(x) == x
WithPrizeRow(x) == [x EXCEPT !.rows = [@ EXCEPT ![x.prize] = prize[x.prize]]]
WithCollection(x) == [x EXCEPT !.old = listed[x.prize]]
WithHolders(x, searched) ==
  [x EXCEPT !.todo = @ \ searched,
            !.holders = @ \cup {p \in searched : x.ticket \in listed[p]}]

FirstTodo(x) == CHOOSE p \in x.todo : \A q \in x.todo : p <= q

(***************************************************************************)
(* Read committed: each SELECT sees what is committed when it runs. The    *)
(* prize row, the ticket row and the lazily loaded collection are one      *)
(* SELECT each; deleteTicket selects all prizes at once, then one          *)
(* collection after the other in the order of ids.                         *)
(***************************************************************************)
ReadPrizeRow(c) ==
  LET x == tx[c] IN
  /\ ~setting.snapshotReads /\ x.at = "prizeRow"
  /\ \/ /\ x.op = "patchPrizeName"
        /\ LeaveWith(c, WithPrizeRow(x))
     \/ /\ x.op = "patchPrizeTicket"
        /\ tx' = [tx EXCEPT ![c] = [WithPrizeRow(x) EXCEPT !.at = "ticketRow"]]
        /\ UNCHANGED <<db, lastId, formLock, serviceLock>>

ReadTicketRow(c) ==
  LET x == tx[c] IN
  /\ ~setting.snapshotReads /\ x.at = "ticketRow"
  /\ Wanted(x)
  /\ Goto(c, IF x.op = "deleteTicket" THEN "allPrizes" ELSE "collection")
  /\ UNCHANGED <<db, lastId, formLock, serviceLock>>

ReadAllPrizes(c) ==
  LET x == tx[c] IN
  /\ x.at = "allPrizes"
  /\ tx' = [tx EXCEPT ![c] = [x EXCEPT !.at = "collection", !.rows = prize, !.todo = Prize]]
  /\ UNCHANGED <<db, lastId, formLock, serviceLock>>

ReadCollection(c) ==
  LET x == tx[c] IN
  /\ x.at = "collection"
  /\ \/ /\ x.op = "patchPrizeTicket"
        /\ LeaveWith(c, WithCollection(x))
     \/ /\ x.op = "deleteTicket" /\ x.todo # {}
        /\ tx' = [tx EXCEPT ![c] = WithHolders(x, {FirstTodo(x)})]
        /\ UNCHANGED <<db, lastId, formLock, serviceLock>>
     \/ /\ x.op = "deleteTicket" /\ x.todo = {}
        /\ LeaveWith(c, x)

(***************************************************************************)
(* Repeatable read: the first SELECT fixes the snapshot that the others    *)
(* see, so all of them read at its instant.                                *)
(***************************************************************************)
ReadSnapshot(c) ==
  LET x == tx[c] IN
  /\ setting.snapshotReads /\ x.at \in {"prizeRow", "ticketRow"}
  /\ x.op # "patchPrizeName" => Wanted(x)
  /\ LeaveWith(c,
       CASE x.op = "patchPrizeName" -> WithPrizeRow(x)
         [] x.op = "patchPrizeTicket" -> WithCollection(WithPrizeRow(x))
         [] x.op = "deleteTicket" -> WithHolders([x EXCEPT !.rows = prize], Prize))

\* The ticket is missing, or has already won: nothing is written.
Refuse(c) ==
  LET x == tx[c] IN
  /\ \/ x.at = "ticketRow"
     \/ setting.snapshotReads /\ x.at = "prizeRow" /\ x.op = "patchPrizeTicket"
  /\ ~Wanted(x)
  /\ Release(c)
  /\ UNCHANGED <<db, lastId>>

\* putTickets: saveAll inserts at once, the identity column gives the ids.
Insert(c) ==
  /\ tx[c].at = "insert"
  /\ \E n \in 0 .. MaxTicketId - lastId :
       /\ lastId' = lastId + n
       /\ tx' = [tx EXCEPT ![c].at = "commit", ![c].old = lastId + 1 .. lastId + n]
  /\ serviceLock' = Nobody
  /\ UNCHANGED <<db, formLock>>

-----------------------------------------------------------------------------
(* Flush and commit, outside the monitor of TombolaService *)

(***************************************************************************)
(* What the tables hold after the flush of a session. Only dirty rows are  *)
(* written, whole, from what the session read.                             *)
(***************************************************************************)
Tables == [prize |-> prize, tickets |-> tickets, win |-> win, listed |-> listed]

(***************************************************************************)
(* patchPrizeTicket gives the prize a new collection. Hibernate deletes    *)
(* the rows of the one it replaces, whichever there are by then, and       *)
(* inserts the new one; a collection that was empty when it was loaded has *)
(* no rows to delete, and those committed meanwhile stay.                  *)
(***************************************************************************)
Kept(x) == IF x.old = {} THEN listed[x.prize] ELSE x.old

\* Variants: the old collection is lost; the ticket is not marked; its
\* collection is merged by cascade; issued is incremented in place.
AfterPatchLosingCollection(x) ==
  LET p == x.prize IN
  [Tables EXCEPT !.prize = [@ EXCEPT ![p] = [x.rows[p] EXCEPT !.issued = @ + 1]],
                 !.win = [@ EXCEPT ![x.ticket] = p],
                 !.listed = [@ EXCEPT ![p] = {x.ticket}]]
AfterPatchUnmarked(x) ==
  LET p == x.prize IN
  [Tables EXCEPT !.prize = [@ EXCEPT ![p] = [x.rows[p] EXCEPT !.issued = @ + 1]],
                 !.listed = [@ EXCEPT ![p] = Kept(x) \cup {x.ticket}]]
AfterPatchCascading(x) ==
  LET p == x.prize IN
  [Tables EXCEPT !.prize = [@ EXCEPT ![p] = [x.rows[p] EXCEPT !.issued = @ + 1]],
                 !.tickets = @ \cup x.old,
                 !.win = [@ EXCEPT ![x.ticket] = p],
                 !.listed = [@ EXCEPT ![p] = Kept(x) \cup {x.ticket}]]
AfterPatchInPlace(x) ==
  LET p == x.prize IN
  [Tables EXCEPT !.prize = [@ EXCEPT ![p].issued = @ + 1],
                 !.win = [@ EXCEPT ![x.ticket] = p],
                 !.listed = [@ EXCEPT ![p] = Kept(x) \cup {x.ticket}]]

AfterPatchPrizeTicket(x) ==
  LET p == x.prize IN
  [Tables EXCEPT !.prize = [@ EXCEPT ![p] = [x.rows[p] EXCEPT !.issued = @ + 1]],
                 !.win = [@ EXCEPT ![x.ticket] = p],
                 !.listed = [@ EXCEPT ![p] = Kept(x) \cup {x.ticket}]]

\* Variant: the prize is saved as a new one, with nothing issued.
AfterPatchPrizeNameNew(x) ==
  [Tables EXCEPT !.prize =
     [@ EXCEPT ![x.prize] = [prizeName |-> x.name, issued |-> 0]]]

AfterPatchPrizeName(x) ==
  LET p == x.prize IN
  IF x.rows[p].prizeName = x.name THEN Tables
  ELSE [Tables EXCEPT !.prize = [@ EXCEPT ![p] = [x.rows[p] EXCEPT !.prizeName = x.name]]]

\* Variant: the collections are cleared, the prizes are not saved.
AfterDeleteTicketUnsaved(x) ==
  [Tables EXCEPT !.listed = [p \in Prize |-> @[p] \ {x.ticket}],
                 !.win = [@ EXCEPT ![x.ticket] = NoPrize],
                 !.tickets = @ \ {x.ticket}]

AfterDeleteTicket(x) ==
  [ prize |-> [p \in Prize |-> IF p \in x.holders THEN [x.rows[p] EXCEPT !.issued = @ - 1]
                                                 ELSE prize[p]],
    listed |-> [p \in Prize |-> IF p \in x.holders THEN listed[p] \ {x.ticket} ELSE listed[p]],
    win |-> [win EXCEPT ![x.ticket] = NoPrize],
    tickets |-> tickets \ {x.ticket} ]

AfterPutTickets(x) == [Tables EXCEPT !.tickets = @ \cup x.old]

After(x) ==
  CASE x.op = "patchPrizeTicket" -> AfterPatchPrizeTicket(x)
    [] x.op = "patchPrizeName" -> AfterPatchPrizeName(x)
    [] x.op = "deleteTicket" -> AfterDeleteTicket(x)
    [] x.op = "putTickets" -> AfterPutTickets(x)

(***************************************************************************)
(* Hibernate expects the ticket row it updates or deletes; the database    *)
(* keeps prize_name and ticket_id unique and the foreign keys of           *)
(* tombola_prize_ticket.                                                   *)
(***************************************************************************)
\* Variant: tombola_prize_ticket without its unique key.
ListedTwice(d) == TRUE
ListedOnce(d) == \A p, q \in Prize : p # q => d.listed[p] \cap d.listed[q] = {}
ListedExist(d) == \A p \in Prize : d.listed[p] \subseteq d.tickets
InsertedOnce(x) ==
  x.op = "patchPrizeTicket" /\ x.old = {} => x.ticket \notin listed[x.prize]

Accepted(x) ==
  LET d == After(x) IN
  /\ x.op \in {"patchPrizeTicket", "deleteTicket"} => x.ticket \in tickets
  /\ Store!NamesDiffer(d.prize)
  /\ ListedOnce(d)
  /\ ListedExist(d)
  /\ InsertedOnce(x)

Commit(c) ==
  LET x == tx[c] IN
  /\ x.at = "commit" /\ Accepted(x)
  /\ prize' = After(x).prize
  /\ tickets' = After(x).tickets
  /\ win' = After(x).win
  /\ listed' = After(x).listed
  /\ seen' = seen \cup tickets'
  /\ Release(c)
  /\ UNCHANGED lastId

\* A stale row or a violated constraint: the transaction rolls back.
Reject(c) ==
  /\ tx[c].at = "commit" /\ ~Accepted(tx[c])
  /\ Release(c)
  /\ UNCHANGED <<db, lastId>>

\* The connection or the process fails before the commit.
Fail(c) ==
  /\ tx[c] # Idle
  /\ Release(c)
  /\ UNCHANGED <<db, lastId>>

Begin ==
  \/ \E c \in FormClients \cap setting.callers : BeginForm(c)
  \/ \E c \in RestClients \cap setting.callers : BeginRest(c)

Step(c) ==
  \/ Enter(c)
  \/ ReadPrizeRow(c) \/ ReadTicketRow(c) \/ ReadAllPrizes(c) \/ ReadCollection(c)
  \/ ReadSnapshot(c) \/ Refuse(c) \/ Insert(c)
  \/ Commit(c) \/ Reject(c)

Next ==
  /\ Begin \/ \E c \in Client : Step(c) \/ Fail(c)
  /\ UNCHANGED setting

Spec == Init /\ [][Next]_vars

-----------------------------------------------------------------------------
(* Properties *)

(***************************************************************************)
(* However requests interleave, a ticket still marked free is in no        *)
(* prize's collection, although collections are written back from stale    *)
(* copies: the draw never offers a ticket some prize lists.                *)
(***************************************************************************)
FreeIsUnlisted ==
  \A p \in Prize, t \in tickets : win[t] = NoPrize => t \notin listed[p]

(***************************************************************************)
(* However requests interleave, the fate of a ticket is final. One that    *)
(* has won a prize and is in its collection keeps that prize as long as it *)
(* exists: of two draws that both saw the ticket free, the second fails.   *)
(* One that was deleted is never inserted again by the update of a stale   *)
(* session.                                                                *)
(***************************************************************************)
TicketFateIsFinal ==
  [][/\ \A p \in Prize : \A t \in listed[p] \cap tickets' : win[t] = p => win'[t] = p
     /\ (seen \ tickets) \cap tickets' = {}]_vars

(***************************************************************************)
(* Where everyone draws and nothing is deleted, issued may fall behind the *)
(* tickets a prize lists, as draws write the same count twice while a row  *)
(* of each may stay, but it is never ahead of them, and it is zero only    *)
(* for a prize that lists none. It depends on the prize row and the        *)
(* collection being read at one instant.                                   *)
(***************************************************************************)
OnlyDraws == setting.snapshotReads /\ setting.ops = {"patchPrizeTicket"}
ListingCoversIssued ==
  OnlyDraws => \A p \in Prize :
    /\ prize[p].issued <= Cardinality(listed[p])
    /\ prize[p].issued = 0 <=> listed[p] = {}

(***************************************************************************)
(* Requests that run one at a time, as submissions of the manager page do, *)
(* are the atomic operations of TombolaStore.                              *)
(***************************************************************************)
StoreSpec == Store!Spec

(***************************************************************************)
(* Deleting a ticket gives its prize back: issued falls by one.            *)
(***************************************************************************)
DeleteReturnsPrize ==
  [][\A p \in Prize : \A t \in listed[p] :
       t \notin tickets' => prize'[p].issued = prize[p].issued - 1]_vars
=============================================================================
