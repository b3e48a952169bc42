---------------------------- MODULE TombolaStore ----------------------------
(***************************************************************************)
(* What the raffle's database promises: the tables tombola_prize,          *)
(* tombola_ticket and tombola_prize_ticket, and the writing methods of     *)
(* TombolaService as if each ran alone, from its first read to its commit. *)
(* TombolaTx is the same service with its requests interleaved, and says   *)
(* when this module describes it; TombolaManager draws over it.            *)
(*                                                                         *)
(* The prizes are the rows the application was installed with: nothing in  *)
(* the code adds, removes or resizes one afterwards.                       *)
(***************************************************************************)
EXTENDS Integers, FiniteSets

CONSTANTS
  Prize,        \* ids of the installed prizes
  Name,         \* names a prize can be given
  MaxTicketId   \* bound: the identity column of tombola_ticket stops here

ASSUME PrizeAssumption == Prize \subseteq Nat \ {0} /\ IsFiniteSet(Prize)
ASSUME TicketIdAssumption == MaxTicketId \in Nat

TicketId == 1 .. MaxTicketId

\* The value of Ticket.win before the ticket wins: no prize has this id.
NoPrize == 0

VARIABLES
  prize,     \* the rows of tombola_prize that change: their name and issued
  tickets,   \* ids of the rows of tombola_ticket
  win,       \* column win of a ticket (NoPrize also where there is no row)
  listed,    \* the rows of tombola_prize_ticket: the tickets of each prize
  seen       \* ids the identity column has given to a committed ticket

vars == <<prize, tickets, win, listed, seen>>

PrizeRow == [prizeName : Name, issued : Int]

TypeOK ==
  /\ prize \in [Prize -> PrizeRow]
  /\ tickets \in SUBSET seen
  /\ win \in [TicketId -> Prize \cup {NoPrize}]
  /\ listed \in [Prize -> SUBSET TicketId]
  /\ seen \in SUBSET TicketId

Free == {t \in tickets : win[t] = NoPrize}

(***************************************************************************)
(* No two prizes have the same name: tombola_prize_name_uk.                *)
(***************************************************************************)
NamesDiffer(rows) ==
  \A p, q \in Prize : p # q => rows[p].prizeName # rows[q].prizeName

(***************************************************************************)
(* The first start has written the prizes with issued = 0 and putTicket    *)
(* free tickets.                                                           *)
(***************************************************************************)
Init ==
  /\ prize \in [Prize -> [prizeName : Name, issued : {0}]]
  /\ NamesDiffer(prize)
  /\ \E n \in 0 .. MaxTicketId : seen = 1 .. n
  /\ tickets = seen
  /\ win = [t \in TicketId |-> NoPrize]
  /\ listed = [p \in Prize |-> {}]

\* Variants of the operations, each with a fault a run must notice: ids are
\* forgotten, a won ticket wins again, a deleted ticket stays counted.
PutTicketsForgotten(ids) ==
  /\ ids # {} /\ ids \cap seen = {}
  /\ tickets' = tickets \cup ids
  /\ UNCHANGED <<prize, win, listed, seen>>

PatchPrizeTicketTwice(p, t) ==
  /\ t \in tickets
  /\ win' = [win EXCEPT ![t] = p]
  /\ prize' = [prize EXCEPT ![p].issued = @ + 1]
  /\ listed' = [listed EXCEPT ![p] = @ \cup {t}]
  /\ UNCHANGED <<tickets, seen>>

DeleteTicketStillIssued(t) ==
  /\ t \in tickets
  /\ listed' = [p \in Prize |-> listed[p] \ {t}]
  /\ tickets' = tickets \ {t}
  /\ win' = [win EXCEPT ![t] = NoPrize]
  /\ UNCHANGED <<prize, seen>>

(***************************************************************************)
(* putTickets: ids are fresh, and consecutive unless a rolled back insert  *)
(* has consumed some.                                                      *)
(***************************************************************************)
PutTickets(ids) ==
  /\ ids # {}
  /\ ids \cap seen = {}
  /\ tickets' = tickets \cup ids
  /\ seen' = seen \cup ids
  /\ UNCHANGED <<prize, win, listed>>

(***************************************************************************)
(* patchPrizeTicket: a free ticket wins the prize. A missing or a won      *)
(* ticket changes nothing. Nothing compares issued with the prize's cnt.   *)
(***************************************************************************)
PatchPrizeTicket(p, t) ==
  /\ t \in Free
  /\ win' = [win EXCEPT ![t] = p]
  /\ prize' = [prize EXCEPT ![p].issued = @ + 1]
  /\ listed' = [listed EXCEPT ![p] = @ \cup {t}]
  /\ UNCHANGED <<tickets, seen>>

PatchPrizeName(p, name) ==
  /\ prize' = [prize EXCEPT ![p].prizeName = name]
  /\ NamesDiffer(prize')
  /\ UNCHANGED <<tickets, win, listed, seen>>

(***************************************************************************)
(* deleteTicket: every prize that lists the ticket gets it back, then the  *)
(* ticket is gone.                                                         *)
(***************************************************************************)
DeleteTicket(t) ==
  /\ t \in tickets
  /\ prize' = [p \in Prize |->
                 IF t \in listed[p] THEN [prize[p] EXCEPT !.issued = @ - 1] ELSE prize[p]]
  /\ listed' = [p \in Prize |-> listed[p] \ {t}]
  /\ tickets' = tickets \ {t}
  /\ win' = [win EXCEPT ![t] = NoPrize]
  /\ UNCHANGED seen

Next ==
  \/ \E ids \in SUBSET TicketId : PutTickets(ids)
  \/ \E p \in Prize, t \in TicketId : PatchPrizeTicket(p, t)
  \/ \E p \in Prize, name \in Name : PatchPrizeName(p, name)
  \/ \E t \in TicketId : DeleteTicket(t)

Spec == Init /\ [][Next]_vars

-----------------------------------------------------------------------------
(* Properties *)

(***************************************************************************)
(* The ledger is kept three times and the copies agree: a prize lists      *)
(* exactly the tickets whose win is its id, and issued counts them.        *)
(* patchPrizeTicket and deleteTicket each write all three, the former by   *)
(* replacing the collection, the latter by searching it.                   *)
(***************************************************************************)
ListedAreWinners == \A p \in Prize : listed[p] = {t \in tickets : win[t] = p}
IssuedCounts == \A p \in Prize : prize[p].issued = Cardinality(listed[p])
LedgerAgrees == ListedAreWinners /\ IssuedCounts

(***************************************************************************)
(* A ticket that has won keeps the same prize as long as it exists, and    *)
(* the id of a deleted ticket never names another one.                     *)
(***************************************************************************)
WinIsFinal ==
  [][ /\ \A t \in tickets \cap tickets' : win[t] # NoPrize => win'[t] = win[t]
      /\ (seen \ tickets) \cap tickets' = {} ]_vars
=============================================================================
