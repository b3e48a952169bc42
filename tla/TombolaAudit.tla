---------------------------- MODULE TombolaAudit ----------------------------
(***************************************************************************)
(* The history Hibernate Envers keeps of the raffle, and the two questions *)
(* the application asks it: the history of a prize and of a ticket, behind *)
(* the REST operations getPrize and getTicket of TombolaController.        *)
(*                                                                         *)
(* Every transaction of TombolaStore that changes an audited column writes *)
(* one revision, at its commit: the new values of the changed rows of      *)
(* tombola_prize in tombola_prize_a, and of tombola_ticket in              *)
(* tombola_ticket_a. The collection of a prize is not audited, and a       *)
(* deleted row leaves no data behind. TombolaTx says when TombolaStore     *)
(* describes the concurrent service.                                       *)
(***************************************************************************)
EXTENDS TombolaStore, SequencesExt, Orders

CONSTANT MaxRevision   \* bound: revisions written

ASSUME RevisionAssumption == MaxRevision \in Nat

VARIABLE revs   \* the revisions, oldest first: the audit rows of each

auditVars == <<prize, tickets, win, listed, seen, revs>>

(***************************************************************************)
(* The audit rows of one revision. The type of a prize's row is not read   *)
(* by any query.                                                           *)
(***************************************************************************)
TicketRow == [type : {"ADD", "MOD", "DEL"}, win : Prize \cup {NoPrize}]

IsRevision(r) ==
  /\ DOMAIN r.prizes \subseteq Prize /\ r.prizes \in [DOMAIN r.prizes -> PrizeRow]
  /\ DOMAIN r.tickets \subseteq TicketId /\ r.tickets \in [DOMAIN r.tickets -> TicketRow]

AuditTypeOK ==
  /\ TypeOK
  /\ revs \in Seq(Range(revs))
  /\ \A i \in DOMAIN revs : IsRevision(revs[i])

(***************************************************************************)
(* The first start saves the tickets, if any, and then the prizes, each in *)
(* a transaction of its own.                                               *)
(***************************************************************************)
AddedTickets(ts) == [t \in ts |-> [type |-> "ADD", win |-> NoPrize]]
NoRows == [x \in {} |-> x]

AuditInit ==
  /\ Init
  /\ revs = LET prizesAdded == [prizes |-> prize, tickets |-> NoRows]
            IN  IF tickets = {} THEN <<prizesAdded>>
                ELSE <<[prizes |-> NoRows, tickets |-> AddedTickets(tickets)], prizesAdded>>

(***************************************************************************)
(* The audit rows of a step: the rows it changes, as Envers collects them  *)
(* from the inserts, the updates and the deletes of the flush.             *)
(***************************************************************************)
\* A variant with a fault a run must notice: renamed prizes are not audited.
PrizeRowsIssued ==
  [p \in {q \in Prize : prize'[q].issued # prize[q].issued} |-> prize'[p]]

PrizeRows == [p \in {q \in Prize : prize'[q] # prize[q]} |-> prize'[p]]

TicketRows ==
  [t \in {u \in TicketId : (u \in tickets) # (u \in tickets') \/ win'[u] # win[u]} |->
     [type |-> IF t \notin tickets THEN "ADD" ELSE IF t \notin tickets' THEN "DEL" ELSE "MOD",
      win  |-> win'[t]]]

(***************************************************************************)
(* Record: the revision of the step. A step that changes no audited column *)
(* (a prize renamed to the name it has) writes none.                       *)
(***************************************************************************)
Record ==
  IF DOMAIN PrizeRows = {} /\ DOMAIN TicketRows = {} THEN UNCHANGED revs
  ELSE /\ Len(revs) < MaxRevision
       /\ revs' = Append(revs, [prizes |-> PrizeRows, tickets |-> TicketRows])

AuditedPutTickets(ids) == PutTickets(ids) /\ Record
AuditedPatchPrizeTicket(p, t) == PatchPrizeTicket(p, t) /\ Record
AuditedPatchPrizeName(p, name) == PatchPrizeName(p, name) /\ Record
AuditedDeleteTicket(t) == DeleteTicket(t) /\ Record

AuditNext ==
  \/ \E ids \in SUBSET TicketId : AuditedPutTickets(ids)
  \/ \E p \in Prize, t \in TicketId : AuditedPatchPrizeTicket(p, t)
  \/ \E p \in Prize, name \in Name : AuditedPatchPrizeName(p, name)
  \/ \E t \in TicketId : AuditedDeleteTicket(t)

AuditSpec == AuditInit /\ [][AuditNext]_auditVars

-----------------------------------------------------------------------------
(* The questions *)

PrizeRevs(p) == {i \in DOMAIN revs : p \in DOMAIN revs[i].prizes}
TicketRevs(t) == {i \in DOMAIN revs : t \in DOMAIN revs[i].tickets}

NewestFirst(is) == Ordered(is, >)

(***************************************************************************)
(* The entry of the history of prize p for revision i: the prize's row and *)
(* what happened to the ticket of the revision, the first the database     *)
(* returns, if the revision has one.                                       *)
(***************************************************************************)
EntryOf(p, i) ==
  LET ts == revs[i].tickets
  IN  [row |-> revs[i].prizes[p],
       ticket |-> IF DOMAIN ts = {} THEN {} ELSE LET t == CHOOSE t \in DOMAIN ts : TRUE
                                                 IN  {[id |-> t, type |-> ts[t].type]}]

\* Variants of the two queries with a fault a run must notice: a revision
\* without tickets is always skipped; deletions are not asked for.
GetPrizeOfTickets(p) ==
  LET withTicket == {i \in PrizeRevs(p) : DOMAIN revs[i].tickets # {}}
      entries == NewestFirst(withTicket)
  IN  [k \in DOMAIN entries |-> EntryOf(p, entries[k])]

GetPrizeNotDeleted(p) ==
  LET kept == {i \in PrizeRevs(p) : \A t \in DOMAIN revs[i].tickets : revs[i].tickets[t].type # "DEL"}
      entries == NewestFirst(kept)
  IN  [k \in DOMAIN entries |-> EntryOf(p, entries[k])]

GetTicketNotDeleted(t) ==
  LET entries == NewestFirst({i \in TicketRevs(t) : revs[i].tickets[t].type # "DEL"})
  IN  [k \in DOMAIN entries |-> revs[entries[k]].tickets[t]]

(***************************************************************************)
(* getPrize: newest first. A revision without tickets (a new name, the     *)
(* installation) is told only while nothing newer has been: only as the    *)
(* first.                                                                  *)
(***************************************************************************)
GetPrize(p) ==
  LET told == {i \in PrizeRevs(p) : DOMAIN revs[i].tickets # {} \/ \A j \in PrizeRevs(p) : j <= i}
      entries == NewestFirst(told)
  IN  [k \in DOMAIN entries |-> EntryOf(p, entries[k])]

\* getTicket: every revision of the ticket, newest first.
GetTicket(t) ==
  LET entries == NewestFirst(TicketRevs(t))
  IN  [k \in DOMAIN entries |-> revs[entries[k]].tickets[t]]

-----------------------------------------------------------------------------
(* Properties *)

(***************************************************************************)
(* The history of a prize is complete. It starts with the row the prize    *)
(* has now, its name and its count of issued pieces, although getPrize     *)
(* leaves out most of the revisions that have no ticket. The tickets it    *)
(* tells of as won and not as deleted are the ones the prize lists,        *)
(* although the collection is not audited.                                 *)
(***************************************************************************)
TicketsOf(p, type) ==
  UNION {{e.id : e \in {x \in GetPrize(p)[k].ticket : x.type = type}} : k \in DOMAIN GetPrize(p)}

PrizesTold ==
  \A p \in Prize :
    /\ GetPrize(p) # <<>> /\ Head(GetPrize(p)).row = prize[p]
    /\ TicketsOf(p, "MOD") \ TicketsOf(p, "DEL") = listed[p]

(***************************************************************************)
(* The history of a ticket is complete: it ends with the insert, wins at   *)
(* most once, starts with the deletion exactly when the row is gone, and   *)
(* otherwise with the prize it holds. An unused id has none.               *)
(***************************************************************************)
TicketsTold ==
  \A t \in TicketId :
    LET told == GetTicket(t)
        wins == {k \in DOMAIN told : told[k].type = "MOD"}
    IN  IF t \notin seen THEN told = <<>>
        ELSE /\ told # <<>>
             /\ Last(told).type = "ADD"
             /\ Cardinality(wins) <= 1
             /\ Head(told).type = "DEL" <=> t \notin tickets
             /\ Head(told).win = win[t]
             /\ \A k \in wins : Len(told) - k = 1

(***************************************************************************)
(* The audit tables alone retell the raffle: the tables rebuilt from the   *)
(* last audit row of each prize and ticket pass through the steps of       *)
(* TombolaStore, revision by revision. The collections, which are not      *)
(* audited, are read off the tickets.                                      *)
(***************************************************************************)
LastRev(is) == CHOOSE i \in is : \A j \in is : j <= i

ToldPrize == [p \in Prize |-> revs[LastRev(PrizeRevs(p))].prizes[p]]
ToldSeen == {t \in TicketId : TicketRevs(t) # {}}
ToldTickets == {t \in ToldSeen : revs[LastRev(TicketRevs(t))].tickets[t].type # "DEL"}
ToldWin ==
  [t \in TicketId |-> IF t \in ToldTickets THEN revs[LastRev(TicketRevs(t))].tickets[t].win ELSE NoPrize]
ToldListed == [p \in Prize |-> {t \in ToldTickets : ToldWin[t] = p}]

Told == INSTANCE TombolaStore WITH
  prize <- ToldPrize, tickets <- ToldTickets, win <- ToldWin, listed <- ToldListed, seen <- ToldSeen
ToldSpec == Told!Spec
=============================================================================
