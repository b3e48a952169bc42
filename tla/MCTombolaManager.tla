-------------------------- MODULE MCTombolaManager --------------------------
(* TombolaManager with the counts of two prizes, and what REST callers do.  *)
EXTENDS TombolaManager

OneAndTwo == [p \in Prize |-> p]

Setting(ops, snapshotReads) ==
  [callers |-> Client, ops |-> ops, snapshotReads |-> snapshotReads]

\* A REST caller who adds, or deletes, for each database, or renames.
Adding == {Setting({"putTickets"}, b) : b \in BOOLEAN}
All == { Setting({"putTickets"}, FALSE), Setting({"patchPrizeName"}, TRUE) } \cup
       { Setting({"deleteTicket"}, b) : b \in BOOLEAN }

(***************************************************************************)
(* The prizes start with some names, whichever, as names are               *)
(* interchangeable, and with two tickets where REST callers change prizes. *)
(***************************************************************************)
SomeNames == CHOOSE names \in [Prize -> Name] : \A p, q \in Prize : p # q => names[p] # names[q]
NamedInit ==
  /\ ManagerInit
  /\ \A p \in Prize : prize[p].prizeName = SomeNames[p]
  /\ "putTickets" \notin setting.ops => lastId = 2

NamedSpec == NamedInit /\ [][ManagerNext]_managerVars /\ Fairness
=============================================================================
