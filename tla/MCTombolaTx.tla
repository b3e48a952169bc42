---------------------------- MODULE MCTombolaTx ----------------------------
(* TombolaTx: who may be active together, with what, over which database.   *)
EXTENDS TombolaTx

CONSTANT Late   \* REST callers who only come to draw

Setting(callers, ops, snapshotReads) ==
  [callers |-> callers, ops |-> ops, snapshotReads |-> snapshotReads]

\* Managers alone, or REST callers alone, one for each database.
Alone ==
  {Setting(FormClients, Op, b) : b \in BOOLEAN} \cup {Setting(RestClients, Op, b) : b \in BOOLEAN}

\* Everyone: with every operation under read committed, draws with repeatable reads,
\* by three threads or by two.
All == {Setting(Client \ Late, Op, FALSE)} \cup
       {Setting(callers, {"patchPrizeTicket"}, TRUE) : callers \in {Client, Client \ Late}}

\* Bound: a third ticket only where two threads draw.
ThirdTicket == lastId = 3 => setting.snapshotReads /\ setting.callers \cap Late = {}

(***************************************************************************)
(* Deletions only, of two tickets that prize 1 was drawn for before, one   *)
(* draw after the other.                                                   *)
(***************************************************************************)
Deletions == {Setting(RestClients, {"deleteTicket"}, FALSE)}

DrawnInit ==
  /\ setting \in Settings
  /\ tickets = {1, 2} /\ seen = tickets /\ lastId = 2
  /\ win = [t \in TicketId |-> IF t \in tickets THEN 1 ELSE NoPrize]
  /\ listed = [p \in Prize |-> IF p = 1 THEN tickets ELSE {}]
  /\ \E names \in [Prize -> Name] :
       prize = [p \in Prize |->
                  [prizeName |-> names[p], issued |-> Cardinality(listed[p])]]
  /\ Store!NamesDiffer(prize)
  /\ formLock = Nobody /\ serviceLock = Nobody
  /\ tx = [c \in Client |-> Idle]

DrawnSpec == DrawnInit /\ [][Next]_vars
=============================================================================
