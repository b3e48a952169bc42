------------------------- MODULE TombolaAuditProofs -------------------------
(***************************************************************************)
(* The ledger of the raffle agrees with itself, and the audit tables and   *)
(* the two queries over them tell its whole history, for any prizes,       *)
(* names, number of tickets and number of revisions.                       *)
(***************************************************************************)
EXTENDS TombolaAudit, SequenceTheorems, FiniteSetTheorems, TLAPS

-----------------------------------------------------------------------------
(* The raffle: TombolaStore *)

LEMMA NoPrizeIsNoPrize == NoPrize \notin Prize
  BY PrizeAssumption DEF NoPrize

LEMMA TicketSetsFinite ==
  ASSUME NEW S \in SUBSET TicketId
  PROVE  IsFiniteSet(S)
  <1>1. 1 \in Int /\ MaxTicketId \in Int
    BY TicketIdAssumption
  <1>2. IsFiniteSet(TicketId)
    BY <1>1, FS_Interval DEF TicketId
  <1>3. QED
    BY <1>2, FS_Subset

(***************************************************************************)
(* Every table has its type in every state of every method of              *)
(* TombolaService that writes.                                             *)
(***************************************************************************)
LEMMA TypeInit == Init => TypeOK
  <1> SUFFICES ASSUME Init PROVE TypeOK
    OBVIOUS
  <1>1. prize \in [Prize -> PrizeRow]
    BY DEF Init, PrizeRow
  <1>2. seen \in SUBSET TicketId
    BY TicketIdAssumption DEF Init, TicketId
  <1>3. QED
    BY <1>1, <1>2 DEF Init, TypeOK

LEMMA TypeStep == TypeOK /\ [Next]_vars => TypeOK'
  <1> SUFFICES ASSUME TypeOK, [Next]_vars PROVE TypeOK'
    OBVIOUS
  <1> USE DEF TypeOK, PrizeRow
  <1>1. ASSUME NEW ids \in SUBSET TicketId, PutTickets(ids) PROVE TypeOK'
    BY <1>1 DEF PutTickets
  <1>2. ASSUME NEW p \in Prize, NEW t \in TicketId, PatchPrizeTicket(p, t) PROVE TypeOK'
    BY <1>2 DEF PatchPrizeTicket, Free
  <1>3. ASSUME NEW p \in Prize, NEW name \in Name, PatchPrizeName(p, name) PROVE TypeOK'
    BY <1>3 DEF PatchPrizeName
  <1>4. ASSUME NEW t \in TicketId, DeleteTicket(t) PROVE TypeOK'
    <2>1. prize' \in [Prize -> PrizeRow]
      BY <1>4 DEF DeleteTicket
    <2>2. QED
      BY <1>4, <2>1 DEF DeleteTicket
  <1>5. CASE UNCHANGED vars
    BY <1>5 DEF vars
  <1>6. QED
    BY <1>1, <1>2, <1>3, <1>4, <1>5 DEF Next

THEOREM TypeCorrect == Spec => []TypeOK
  BY TypeInit, TypeStep, PTL DEF Spec

-----------------------------------------------------------------------------
(***************************************************************************)
(* putTickets adds rows without looking at win: the ledger is inductive    *)
(* because an id without a row carries no win.                             *)
(***************************************************************************)
NoRowNoWin == \A t \in TicketId \ tickets : win[t] = NoPrize

LedgerInv == TypeOK /\ NoRowNoWin /\ LedgerAgrees

LEMMA LedgerInit == Init => LedgerInv
  <1> SUFFICES ASSUME Init PROVE LedgerInv
    OBVIOUS
  <1>1. TypeOK
    BY TypeInit
  <1>2. NoRowNoWin
    BY DEF Init, NoRowNoWin
  <1>3. LedgerAgrees
    BY <1>1, FS_EmptySet, NoPrizeIsNoPrize
       DEF Init, TypeOK, LedgerAgrees, ListedAreWinners, IssuedCounts
  <1>4. QED
    BY <1>1, <1>2, <1>3 DEF LedgerInv

LEMMA LedgerStep == LedgerInv /\ [Next]_vars => LedgerInv'
  <1> SUFFICES ASSUME LedgerInv, [Next]_vars PROVE LedgerInv'
    OBVIOUS
  <1>t. TypeOK /\ TypeOK'
    BY TypeStep DEF LedgerInv
  <1>f. \A p \in Prize : IsFiniteSet(listed[p])
    BY <1>t, TicketSetsFinite DEF TypeOK
  <1> USE NoPrizeIsNoPrize
          DEF LedgerInv, TypeOK, NoRowNoWin, LedgerAgrees, ListedAreWinners, IssuedCounts
  <1>1. ASSUME NEW ids \in SUBSET TicketId, PutTickets(ids)
        PROVE  NoRowNoWin' /\ LedgerAgrees'
    <2>1. \A t \in ids : t \notin tickets /\ win[t] \notin Prize
      BY <1>1, <1>t DEF PutTickets
    <2>2. QED
      BY <1>1, <1>t, <2>1 DEF PutTickets
  <1>2. ASSUME NEW p \in Prize, NEW t \in TicketId, PatchPrizeTicket(p, t)
        PROVE  NoRowNoWin' /\ LedgerAgrees'
    <2>1. t \in tickets /\ win[t] = NoPrize /\ \A q \in Prize : t \notin listed[q]
      BY <1>2, <1>t DEF PatchPrizeTicket, Free
    <2>2. NoRowNoWin' /\ ListedAreWinners'
      BY <1>2, <1>t, <2>1 DEF PatchPrizeTicket
    <2>3. ASSUME NEW q \in Prize PROVE prize'[q].issued = Cardinality(listed'[q])
      <3>1. CASE q = p
        <4>1. Cardinality(listed[p] \cup {t}) = Cardinality(listed[p]) + 1
          BY <1>f, <2>1, FS_AddElement
        <4>2. QED
          BY <1>2, <1>t, <3>1, <4>1 DEF PatchPrizeTicket, PrizeRow
      <3>2. CASE q # p
        BY <1>2, <1>t, <3>2 DEF PatchPrizeTicket
      <3>3. QED
        BY <3>1, <3>2
    <2>4. QED
      BY <2>2, <2>3
  <1>3. ASSUME NEW p \in Prize, NEW name \in Name, PatchPrizeName(p, name)
        PROVE  NoRowNoWin' /\ LedgerAgrees'
    BY <1>3, <1>t DEF PatchPrizeName, PrizeRow
  <1>4. ASSUME NEW t \in TicketId, DeleteTicket(t)
        PROVE  NoRowNoWin' /\ LedgerAgrees'
    <2>1. NoRowNoWin' /\ ListedAreWinners'
      BY <1>4, <1>t DEF DeleteTicket
    <2>2. ASSUME NEW q \in Prize PROVE prize'[q].issued = Cardinality(listed'[q])
      <3>1. listed'[q] = listed[q] \ {t}
        BY <1>4 DEF DeleteTicket
      <3>2. CASE t \in listed[q]
        <4>1. Cardinality(listed[q] \ {t}) = Cardinality(listed[q]) - 1
          BY <1>f, <3>2, FS_RemoveElement
        <4>2. QED
          BY <1>4, <1>t, <3>1, <3>2, <4>1 DEF DeleteTicket, PrizeRow
      <3>3. CASE t \notin listed[q]
        <4>1. listed'[q] = listed[q]
          BY <3>1, <3>3
        <4>2. QED
          BY <1>4, <1>t, <3>3, <4>1 DEF DeleteTicket
      <3>4. QED
        BY <3>2, <3>3
    <2>3. QED
      BY <2>1, <2>2
  <1>5. CASE UNCHANGED vars
    BY <1>5 DEF vars
  <1>6. QED
    BY <1>t, <1>1, <1>2, <1>3, <1>4, <1>5 DEF Next

(***************************************************************************)
(* The three copies of who won what, Ticket.win, the collections of the    *)
(* prizes and their counters issued, agree after every writing method.     *)
(***************************************************************************)
THEOREM LedgerCorrect == Spec => []LedgerAgrees
  <1>1. LedgerInv => LedgerAgrees
    BY DEF LedgerInv
  <1>2. QED
    BY <1>1, LedgerInit, LedgerStep, PTL DEF Spec

(***************************************************************************)
(* A ticket keeps its prize as long as it exists, and a deleted id names   *)
(* no other ticket.                                                        *)
(***************************************************************************)
THEOREM WinsAreFinal == Spec => WinIsFinal
  <1> DEFINE Final == /\ \A t \in tickets \cap tickets' : win[t] # NoPrize => win'[t] = win[t]
                      /\ (seen \ tickets) \cap tickets' = {}
  <1>1. TypeOK /\ [Next]_vars => [Final]_vars
    <2> SUFFICES ASSUME TypeOK, Next PROVE Final
      OBVIOUS
    <2> USE DEF TypeOK
    <2>1. ASSUME NEW ids \in SUBSET TicketId, PutTickets(ids) PROVE Final
      BY <2>1 DEF PutTickets
    <2>2. ASSUME NEW p \in Prize, NEW t \in TicketId, PatchPrizeTicket(p, t) PROVE Final
      BY <2>2 DEF PatchPrizeTicket, Free
    <2>3. ASSUME NEW p \in Prize, NEW name \in Name, PatchPrizeName(p, name) PROVE Final
      BY <2>3 DEF PatchPrizeName
    <2>4. ASSUME NEW t \in TicketId, DeleteTicket(t) PROVE Final
      BY <2>4 DEF DeleteTicket
    <2>5. QED
      BY <2>1, <2>2, <2>3, <2>4 DEF Next
  <1>2. QED
    BY <1>1, TypeInit, TypeStep, PTL DEF Spec, WinIsFinal

-----------------------------------------------------------------------------
(* Its history: TombolaAudit *)

(***************************************************************************)
(* What appending a revision does to the sequence of revisions.            *)
(***************************************************************************)
LEMMA Appended ==
  ASSUME revs \in Seq(Range(revs)), NEW r, revs' = Append(revs, r)
  PROVE  /\ Len(revs) \in Nat /\ DOMAIN revs = 1 .. Len(revs)
         /\ DOMAIN revs' = 1 .. Len(revs) + 1
         /\ \A i \in 1 .. Len(revs) : revs'[i] = revs[i]
         /\ revs'[Len(revs) + 1] = r
         /\ revs' \in Seq(Range(revs'))
  <1> DEFINE S == Range(revs) \cup {r}
  <1>1. Len(revs) \in Nat /\ DOMAIN revs = 1 .. Len(revs)
    BY LenProperties
  <1>2. revs \in Seq(S) /\ r \in S
    BY SeqMonotonic
  <1> HIDE DEF S
  <1>3. /\ revs' \in Seq(S)
        /\ Len(revs') = Len(revs) + 1
        /\ \A i \in 1 .. Len(revs) : revs'[i] = revs[i]
        /\ revs'[Len(revs) + 1] = r
    BY <1>2, AppendProperties
  <1>4. revs' \in Seq(Range(revs'))
    BY <1>3, SeqOfRange
  <1>5. DOMAIN revs' = 1 .. Len(revs')
    BY <1>3, LenProperties
  <1>6. QED
    BY <1>1, <1>3, <1>4, <1>5

-----------------------------------------------------------------------------
(***************************************************************************)
(* Auditing does not change what the service does: every step is a step of *)
(* TombolaStore, so the ledger agrees and every win is final here too.     *)
(***************************************************************************)
LEMMA AuditStepIsStoreStep == [AuditNext]_auditVars => [Next]_vars
  BY DEF AuditNext, auditVars, vars, Next, AuditedPutTickets, AuditedPatchPrizeTicket,
         AuditedPatchPrizeName, AuditedDeleteTicket

LEMMA AuditIsStore == AuditSpec => Spec
  <1>1. AuditInit => Init
    BY DEF AuditInit
  <1>2. QED
    BY <1>1, AuditStepIsStoreStep, PTL DEF AuditSpec, Spec

(***************************************************************************)
(* The ledger of an audited raffle agrees with itself.                     *)
(***************************************************************************)
THEOREM AuditedLedgerCorrect == AuditSpec => []LedgerAgrees
  BY AuditIsStore, LedgerCorrect, PTL

(***************************************************************************)
(* The wins of an audited raffle are final.                                *)
(***************************************************************************)
THEOREM AuditedWinsAreFinal == AuditSpec => WinIsFinal
  BY AuditIsStore, WinsAreFinal, PTL

-----------------------------------------------------------------------------
(***************************************************************************)
(* The audit tables have their types: a revision holds rows of the tables. *)
(***************************************************************************)
LEMMA AuditTypeInit == AuditInit => AuditTypeOK
  <1> SUFFICES ASSUME AuditInit PROVE AuditTypeOK
    OBVIOUS
  <1>t. TypeOK
    BY TypeInit DEF AuditInit
  <1> DEFINE first == [prizes |-> NoRows, tickets |-> AddedTickets(tickets)]
             second == [prizes |-> prize, tickets |-> NoRows]
  <1>1. IsRevision(first)
    <2>1. first.prizes = NoRows /\ first.tickets = AddedTickets(tickets)
      OBVIOUS
    <2>2. DOMAIN NoRows = {} /\ NoRows \in [{} -> PrizeRow]
      BY DEF NoRows
    <2>3. DOMAIN AddedTickets(tickets) = tickets /\ AddedTickets(tickets) \in [tickets -> TicketRow]
      BY DEF AddedTickets, TicketRow
    <2>4. QED
      BY <1>t, <2>1, <2>2, <2>3 DEF IsRevision, TypeOK
  <1>2. IsRevision(second)
    <2>1. second.prizes = prize /\ second.tickets = NoRows
      OBVIOUS
    <2>2. DOMAIN NoRows = {} /\ NoRows \in [{} -> TicketRow]
      BY DEF NoRows
    <2>3. QED
      BY <1>t, <2>1, <2>2 DEF IsRevision, TypeOK
  <1>3. revs = <<second>> \/ revs = <<first, second>>
    BY DEF AuditInit
  <1> HIDE DEF first, second
  <1>4. CASE revs = <<second>>
    <2>1. revs \in Seq({second}) /\ DOMAIN revs = 1 .. 1 /\ revs[1] = second
      BY <1>4
    <2>2. revs \in Seq(Range(revs))
      BY <2>1, SeqOfRange
    <2>3. QED
      BY <1>t, <1>2, <2>1, <2>2 DEF AuditTypeOK
  <1>5. CASE revs = <<first, second>>
    <2>1. revs \in Seq({first, second}) /\ DOMAIN revs = 1 .. 2 /\ revs[1] = first /\ revs[2] = second
      BY <1>5
    <2>2. revs \in Seq(Range(revs))
      BY <2>1, SeqOfRange
    <2>3. QED
      BY <1>t, <1>1, <1>2, <2>1, <2>2 DEF AuditTypeOK
  <1>6. QED
    BY <1>3, <1>4, <1>5

(***************************************************************************)
(* What a step does to the revisions: none when no audited column changes, *)
(* otherwise the audit rows of the step.                                   *)
(***************************************************************************)
StepRows == [prizes |-> PrizeRows, tickets |-> TicketRows]

LEMMA StepRecords ==
  ASSUME AuditNext
  PROVE  \/ DOMAIN PrizeRows = {} /\ DOMAIN TicketRows = {} /\ revs' = revs
         \/ revs' = Append(revs, StepRows)
  BY DEF AuditNext, AuditedPutTickets, AuditedPatchPrizeTicket, AuditedPatchPrizeName,
         AuditedDeleteTicket, Record, StepRows

LEMMA AuditTypeStep == AuditTypeOK /\ [AuditNext]_auditVars => AuditTypeOK'
  <1> SUFFICES ASSUME AuditTypeOK, [AuditNext]_auditVars PROVE AuditTypeOK'
    OBVIOUS
  <1>t. TypeOK /\ TypeOK'
    BY AuditStepIsStoreStep, TypeStep DEF AuditTypeOK
  <1>1. IsRevision(StepRows)
    <2>1. StepRows.prizes = PrizeRows /\ StepRows.tickets = TicketRows
      BY DEF StepRows
    <2>2. DOMAIN PrizeRows \subseteq Prize /\ PrizeRows \in [DOMAIN PrizeRows -> PrizeRow]
      BY <1>t DEF PrizeRows, TypeOK
    <2>3. DOMAIN TicketRows \subseteq TicketId /\ TicketRows \in [DOMAIN TicketRows -> TicketRow]
      BY <1>t DEF TicketRows, TicketRow, TypeOK
    <2>4. QED
      BY <2>1, <2>2, <2>3 DEF IsRevision
  <1>2. CASE revs' = revs
    BY <1>t, <1>2 DEF AuditTypeOK
  <1>3. CASE revs' = Append(revs, StepRows)
    <2>0. revs \in Seq(Range(revs)) /\ \A i \in DOMAIN revs : IsRevision(revs[i])
      BY DEF AuditTypeOK
    <2>1. /\ Len(revs) \in Nat /\ DOMAIN revs = 1 .. Len(revs)
          /\ DOMAIN revs' = 1 .. Len(revs) + 1
          /\ \A i \in 1 .. Len(revs) : revs'[i] = revs[i]
          /\ revs'[Len(revs) + 1] = StepRows
          /\ revs' \in Seq(Range(revs'))
      BY <1>3, <2>0, Appended
    <2>2. ASSUME NEW i \in DOMAIN revs' PROVE IsRevision(revs'[i])
      BY <1>1, <2>0, <2>1
    <2>3. (\A i \in DOMAIN revs : IsRevision(revs[i]))'
      BY <2>2 DEF IsRevision
    <2>4. QED
      BY <1>t, <2>1, <2>3 DEF AuditTypeOK
  <1>4. QED
    BY <1>2, <1>3, StepRecords DEF auditVars

(***************************************************************************)
(* The tables and the audit tables of getPrize and getTicket have their    *)
(* types in every state.                                                   *)
(***************************************************************************)
THEOREM AuditTypeCorrect == AuditSpec => []AuditTypeOK
  BY AuditTypeInit, AuditTypeStep, PTL DEF AuditSpec

-----------------------------------------------------------------------------
(***************************************************************************)
(* The last audit row of a prize holds its row, the last audit row of a    *)
(* ticket its win or its deletion, and an id never given has no audit row. *)
(* A ticket without a row must carry no win: NoRowNoWin of the ledger.     *)
(***************************************************************************)
IsLast(i, is) == i \in is /\ \A j \in is : j <= i

PrizeTold(p) == \E i \in PrizeRevs(p) : IsLast(i, PrizeRevs(p)) /\ revs[i].prizes[p] = prize[p]

TicketTold(t) ==
  IF t \in seen
  THEN \E i \in TicketRevs(t) :
         /\ IsLast(i, TicketRevs(t))
         /\ revs[i].tickets[t].type = "DEL" <=> t \notin tickets
         /\ revs[i].tickets[t].win = win[t]
  ELSE TicketRevs(t) = {}

ToldInv ==
  /\ LedgerInv
  /\ AuditTypeOK
  /\ \A p \in Prize : PrizeTold(p)
  /\ \A t \in TicketId : TicketTold(t)

LEMMA ToldInit == AuditInit => ToldInv
  <1> SUFFICES ASSUME AuditInit PROVE ToldInv
    OBVIOUS
  <1>1. LedgerInv /\ AuditTypeOK
    BY LedgerInit, AuditTypeInit DEF AuditInit
  <1> DEFINE first == [prizes |-> NoRows, tickets |-> AddedTickets(tickets)]
             second == [prizes |-> prize, tickets |-> NoRows]
  <1>2. /\ first.prizes = NoRows /\ first.tickets = AddedTickets(tickets)
        /\ second.prizes = prize /\ second.tickets = NoRows
    OBVIOUS
  <1>3. /\ DOMAIN NoRows = {} /\ DOMAIN prize = Prize /\ DOMAIN AddedTickets(tickets) = tickets
        /\ \A t \in tickets : AddedTickets(tickets)[t] = [type |-> "ADD", win |-> NoPrize]
    BY <1>1 DEF NoRows, AddedTickets, AuditTypeOK, TypeOK
  <1>4. /\ seen = tickets /\ \A t \in TicketId : win[t] = NoPrize
        /\ IF tickets = {} THEN revs = <<second>> ELSE revs = <<first, second>>
    BY DEF AuditInit, Init
  <1> HIDE DEF first, second
  <1>5. CASE tickets = {}
    <2>1. DOMAIN revs = {1} /\ revs[1] = second
      BY <1>4, <1>5
    <2>2. ASSUME NEW p \in Prize PROVE PrizeTold(p)
      <3>1. PrizeRevs(p) = {1} /\ revs[1].prizes[p] = prize[p]
        BY <1>2, <1>3, <2>1 DEF PrizeRevs
      <3>2. QED
        BY <3>1 DEF PrizeTold, IsLast
    <2>3. ASSUME NEW t \in TicketId PROVE TicketTold(t)
      <3>1. TicketRevs(t) = {} /\ t \notin seen
        BY <1>2, <1>3, <1>4, <1>5, <2>1 DEF TicketRevs
      <3>2. QED
        BY <3>1 DEF TicketTold
    <2>4. QED
      BY <1>1, <2>2, <2>3 DEF ToldInv
  <1>6. CASE tickets # {}
    <2>1. DOMAIN revs = {1, 2} /\ revs[1] = first /\ revs[2] = second
      BY <1>4, <1>6
    <2>2. ASSUME NEW p \in Prize PROVE PrizeTold(p)
      <3>1. PrizeRevs(p) = {2} /\ revs[2].prizes[p] = prize[p]
        BY <1>2, <1>3, <2>1 DEF PrizeRevs
      <3>2. QED
        BY <3>1 DEF PrizeTold, IsLast
    <2>3. ASSUME NEW t \in TicketId PROVE TicketTold(t)
      <3>1. CASE t \in seen
        <4>1. TicketRevs(t) = {1} /\ revs[1].tickets[t] = [type |-> "ADD", win |-> NoPrize]
          BY <1>2, <1>3, <1>4, <2>1, <3>1 DEF TicketRevs
        <4>2. QED
          BY <1>4, <3>1, <4>1 DEF TicketTold, IsLast
      <3>2. CASE t \notin seen
        <4>1. TicketRevs(t) = {}
          BY <1>2, <1>3, <1>4, <2>1, <3>2 DEF TicketRevs
        <4>2. QED
          BY <3>2, <4>1 DEF TicketTold
      <3>3. QED
        BY <3>1, <3>2
    <2>4. QED
      BY <1>1, <2>2, <2>3 DEF ToldInv
  <1>7. QED
    BY <1>5, <1>6

(***************************************************************************)
(* The ids a step gives are the ids of the tickets it adds.                *)
(***************************************************************************)
LEMMA StepSeen ==
  ASSUME TypeOK, Next, NEW t \in TicketId
  PROVE  t \in seen' <=> t \in seen \/ (t \notin tickets /\ t \in tickets')
  <1> USE DEF TypeOK
  <1>1. ASSUME NEW ids \in SUBSET TicketId, PutTickets(ids)
        PROVE  t \in seen' <=> t \in seen \/ (t \notin tickets /\ t \in tickets')
    BY <1>1 DEF PutTickets
  <1>2. ASSUME NEW p \in Prize, NEW u \in TicketId, PatchPrizeTicket(p, u)
        PROVE  seen' = seen /\ tickets' = tickets
    BY <1>2 DEF PatchPrizeTicket
  <1>3. ASSUME NEW p \in Prize, NEW name \in Name, PatchPrizeName(p, name)
        PROVE  seen' = seen /\ tickets' = tickets
    BY <1>3 DEF PatchPrizeName
  <1>4. ASSUME NEW u \in TicketId, DeleteTicket(u)
        PROVE  seen' = seen /\ tickets' \subseteq tickets
    BY <1>4 DEF DeleteTicket
  <1>5. QED
    BY <1>1, <1>2, <1>3, <1>4 DEF Next

LEMMA ToldStep == ToldInv /\ [AuditNext]_auditVars => ToldInv'
  <1> SUFFICES ASSUME ToldInv, [AuditNext]_auditVars PROVE ToldInv'
    OBVIOUS
  <1>1. LedgerInv /\ AuditTypeOK /\ LedgerInv' /\ AuditTypeOK'
    BY LedgerStep, AuditTypeStep, AuditStepIsStoreStep DEF ToldInv
  <1>2. CASE UNCHANGED auditVars
    BY <1>1, <1>2 DEF auditVars, ToldInv, PrizeTold, TicketTold, IsLast, PrizeRevs, TicketRevs
  <1>3. CASE AuditNext /\ DOMAIN PrizeRows = {} /\ DOMAIN TicketRows = {} /\ revs' = revs
    <2>1. \A p \in Prize : prize'[p] = prize[p]
      BY <1>3 DEF PrizeRows
    <2>2. \A t \in TicketId : (t \in tickets <=> t \in tickets') /\ win'[t] = win[t]
      BY <1>3 DEF TicketRows
    <2>3. \A t \in TicketId : t \in seen' <=> t \in seen
      BY <1>1, <1>3, <2>2, StepSeen, AuditStepIsStoreStep
         DEF AuditTypeOK, AuditNext, Next, AuditedPutTickets, AuditedPatchPrizeTicket,
             AuditedPatchPrizeName, AuditedDeleteTicket
    <2>4. ASSUME NEW p \in Prize PROVE PrizeTold(p)'
      BY <1>3, <2>1 DEF ToldInv, PrizeTold, IsLast, PrizeRevs
    <2>5. ASSUME NEW t \in TicketId PROVE TicketTold(t)'
      BY <1>3, <2>2, <2>3 DEF ToldInv, TicketTold, IsLast, TicketRevs
    <2>6. QED
      BY <1>1, <2>4, <2>5 DEF ToldInv
  <1>4. CASE AuditNext /\ revs' = Append(revs, StepRows)
    <2>1. /\ Len(revs) \in Nat /\ DOMAIN revs = 1 .. Len(revs)
          /\ DOMAIN revs' = 1 .. Len(revs) + 1
          /\ \A i \in 1 .. Len(revs) : revs'[i] = revs[i]
          /\ revs'[Len(revs) + 1] = StepRows
      BY <1>1, <1>4, Appended DEF AuditTypeOK
    <2>2. StepRows.prizes = PrizeRows /\ StepRows.tickets = TicketRows
      BY DEF StepRows
    <2> DEFINE n == Len(revs) + 1
    <2>3. ASSUME NEW p \in Prize PROVE PrizeTold(p)'
      <3>1. PrizeRevs(p)' = IF p \in DOMAIN PrizeRows THEN PrizeRevs(p) \cup {n} ELSE PrizeRevs(p)
        BY <2>1, <2>2 DEF PrizeRevs
      <3>2. PrizeRevs(p) \subseteq 1 .. Len(revs)
        BY <2>1 DEF PrizeRevs
      <3>3. CASE p \in DOMAIN PrizeRows
        <4>1. PrizeRows[p] = prize'[p]
          BY <3>3 DEF PrizeRows
        <4>2. n \in PrizeRevs(p)' /\ \A j \in PrizeRevs(p)' : j <= n
          BY <2>1, <3>1, <3>2, <3>3
        <4>3. QED
          BY <2>1, <2>2, <4>1, <4>2 DEF PrizeTold, IsLast
      <3>4. CASE p \notin DOMAIN PrizeRows
        <4>1. prize'[p] = prize[p]
          BY <3>4 DEF PrizeRows
        <4>2. QED
          BY <2>1, <3>1, <3>2, <3>4, <4>1 DEF ToldInv, PrizeTold, IsLast
      <3>5. QED
        BY <3>3, <3>4
    <2>4. ASSUME NEW t \in TicketId PROVE TicketTold(t)'
      <3>1. TicketRevs(t)' = IF t \in DOMAIN TicketRows THEN TicketRevs(t) \cup {n} ELSE TicketRevs(t)
        BY <2>1, <2>2 DEF TicketRevs
      <3>2. TicketRevs(t) \subseteq 1 .. Len(revs)
        BY <2>1 DEF TicketRevs
      <3>3. t \in seen' <=> t \in seen \/ (t \notin tickets /\ t \in tickets')
        BY <1>1, <1>4, StepSeen
           DEF AuditTypeOK, AuditNext, Next, AuditedPutTickets, AuditedPatchPrizeTicket,
               AuditedPatchPrizeName, AuditedDeleteTicket
      <3>4. /\ t \notin tickets => win[t] = NoPrize
            /\ t \notin tickets' => win'[t] = NoPrize
            /\ t \in tickets => t \in seen
        BY <1>1 DEF LedgerInv, NoRowNoWin, TypeOK
      <3>5. CASE t \in DOMAIN TicketRows
        <4>1. t \in tickets \/ t \in tickets'
          BY <3>4, <3>5 DEF TicketRows
        <4>2. /\ TicketRows[t].type = "DEL" <=> t \notin tickets'
              /\ TicketRows[t].win = win'[t]
          BY <3>5, <4>1 DEF TicketRows
        <4>3. n \in TicketRevs(t)' /\ \A j \in TicketRevs(t)' : j <= n
          BY <2>1, <3>1, <3>2, <3>5
        <4>4. t \in seen'
          BY <3>3, <3>4, <4>1
        <4>5. QED
          BY <2>1, <2>2, <4>2, <4>3, <4>4 DEF TicketTold, IsLast
      <3>6. CASE t \notin DOMAIN TicketRows
        <4>1. (t \in tickets <=> t \in tickets') /\ win'[t] = win[t]
          BY <3>6 DEF TicketRows
        <4>2. t \in seen' <=> t \in seen
          BY <3>3, <4>1
        <4>3. TicketTold(t)
          BY DEF ToldInv
        <4>4. QED
          BY <2>1, <3>1, <3>2, <3>6, <4>1, <4>2, <4>3 DEF TicketTold, IsLast
      <3>7. QED
        BY <3>5, <3>6
    <2>5. QED
      BY <1>1, <2>3, <2>4 DEF ToldInv
  <1>5. QED
    BY <1>2, <1>3, <1>4, StepRecords

LEMMA LastRevIs ==
  ASSUME NEW is \in SUBSET Int, NEW i, IsLast(i, is)
  PROVE  LastRev(is) = i
  <1>1. \E k \in is : \A j \in is : j <= k
    BY DEF IsLast
  <1>2. LastRev(is) \in is /\ \A j \in is : j <= LastRev(is)
    BY <1>1, Zenon DEF LastRev
  <1>3. /\ i \in Int /\ LastRev(is) \in Int
        /\ i <= LastRev(is) /\ LastRev(is) <= i
    BY <1>2 DEF IsLast
  <1>4. \A a, b \in Int : a <= b /\ b <= a => a = b
    OBVIOUS
  <1>5. QED
    BY <1>3, <1>4

LEMMA RevsAreInts ==
  ASSUME AuditTypeOK
  PROVE  /\ \A p : PrizeRevs(p) \in SUBSET Int
         /\ \A t : TicketRevs(t) \in SUBSET Int
  <1>1. DOMAIN revs = 1 .. Len(revs) /\ Len(revs) \in Nat
    BY LenProperties DEF AuditTypeOK
  <1>2. QED
    BY <1>1 DEF PrizeRevs, TicketRevs

(***************************************************************************)
(* The tables rebuilt from the audit rows are the tables.                  *)
(***************************************************************************)
LEMMA ToldIsTrue ==
  ToldInv => /\ ToldPrize = prize /\ ToldSeen = seen /\ ToldTickets = tickets
             /\ ToldWin = win /\ ToldListed = listed
  <1> SUFFICES ASSUME ToldInv
               PROVE  /\ ToldPrize = prize /\ ToldSeen = seen /\ ToldTickets = tickets
                      /\ ToldWin = win /\ ToldListed = listed
    OBVIOUS
  <1>0. TypeOK /\ AuditTypeOK /\ NoRowNoWin /\ ListedAreWinners
    BY DEF ToldInv, LedgerInv, LedgerAgrees
  <1>1. ASSUME NEW p \in Prize PROVE revs[LastRev(PrizeRevs(p))].prizes[p] = prize[p]
    <2>1. PICK i \in PrizeRevs(p) : IsLast(i, PrizeRevs(p)) /\ revs[i].prizes[p] = prize[p]
      BY DEF ToldInv, PrizeTold
    <2>2. QED
      BY <1>0, <2>1, LastRevIs, RevsAreInts
  <1>2. ToldPrize = prize
    BY <1>0, <1>1 DEF ToldPrize, TypeOK
  <1>3. ASSUME NEW t \in TicketId
        PROVE  /\ t \in seen <=> TicketRevs(t) # {}
               /\ t \in seen =>
                    LET row == revs[LastRev(TicketRevs(t))].tickets[t]
                    IN  (row.type = "DEL" <=> t \notin tickets) /\ row.win = win[t]
    <2>1. CASE t \in seen
      <3>1. PICK i \in TicketRevs(t) :
              /\ IsLast(i, TicketRevs(t))
              /\ revs[i].tickets[t].type = "DEL" <=> t \notin tickets
              /\ revs[i].tickets[t].win = win[t]
        BY <2>1 DEF ToldInv, TicketTold
      <3>2. QED
        BY <1>0, <2>1, <3>1, LastRevIs, RevsAreInts
    <2>2. CASE t \notin seen
      BY <2>2 DEF ToldInv, TicketTold
    <2>3. QED
      BY <2>1, <2>2
  <1>4. ToldSeen = seen
    BY <1>0, <1>3 DEF ToldSeen, TypeOK
  <1>5. ToldTickets = tickets
    BY <1>0, <1>3, <1>4 DEF ToldTickets, TypeOK
  <1>6. ToldWin = win
    <2>1. \A t \in TicketId : ToldWin[t] = win[t]
      BY <1>0, <1>3, <1>5 DEF ToldWin, TypeOK, NoRowNoWin
    <2>2. QED
      BY <1>0, <2>1 DEF ToldWin, TypeOK
  <1>7. ToldListed = listed
    BY <1>0, <1>5, <1>6 DEF ToldListed, ListedAreWinners, TypeOK
  <1>8. QED
    BY <1>2, <1>4, <1>5, <1>6, <1>7

(***************************************************************************)
(* The audit tables retell the raffle: what getPrize and getTicket read is *)
(* enough to rebuild the steps of TombolaStore.                            *)
(***************************************************************************)
THEOREM AuditRetells == AuditSpec => ToldSpec
  <1>1. AuditInit => Told!Init
    <2> SUFFICES ASSUME AuditInit PROVE Told!Init
      OBVIOUS
    <2>1. Init /\ ToldInv
      BY ToldInit DEF AuditInit
    <2>2. /\ ToldPrize = prize /\ ToldSeen = seen /\ ToldTickets = tickets
          /\ ToldWin = win /\ ToldListed = listed
      BY <2>1, ToldIsTrue
    <2>3. QED
      BY <2>1, <2>2 DEF Init, Told!Init, NamesDiffer, Told!NamesDiffer, NoPrize, Told!NoPrize,
                        TicketId, Told!TicketId
  <1>2. ToldInv /\ ToldInv' /\ [AuditNext]_auditVars => [Told!Next]_(Told!vars)
    <2> SUFFICES ASSUME ToldInv, ToldInv', [AuditNext]_auditVars PROVE [Told!Next]_(Told!vars)
      OBVIOUS
    <2>1. [Next]_vars
      BY AuditStepIsStoreStep
    <2>2. /\ ToldPrize = prize /\ ToldSeen = seen /\ ToldTickets = tickets
          /\ ToldWin = win /\ ToldListed = listed
      BY ToldIsTrue
    <2>3. /\ ToldPrize' = prize' /\ ToldSeen' = seen' /\ ToldTickets' = tickets'
          /\ ToldWin' = win' /\ ToldListed' = listed'
      <3>1. (/\ ToldPrize = prize /\ ToldSeen = seen /\ ToldTickets = tickets
             /\ ToldWin = win /\ ToldListed = listed)'
        BY ToldIsTrue, PTL
      <3>2. QED
        BY <3>1
    <2>4. QED
      BY <2>1, <2>2, <2>3
         DEF Next, Told!Next, vars, Told!vars, PutTickets, Told!PutTickets, PatchPrizeTicket,
             Told!PatchPrizeTicket, PatchPrizeName, Told!PatchPrizeName, DeleteTicket,
             Told!DeleteTicket, Free, Told!Free, NamesDiffer, Told!NamesDiffer, NoPrize,
             Told!NoPrize, TicketId, Told!TicketId
  <1>3. QED
    BY <1>1, <1>2, ToldInit, ToldStep, PTL DEF AuditSpec, ToldSpec, Told!Spec

-----------------------------------------------------------------------------
(* The questions: getTicket and getPrize *)

(***************************************************************************)
(* What a ticket has gone through: it was added once, it has won, if at    *)
(* all, next, and while it is free nothing else has happened to it.        *)
(***************************************************************************)
TicketPast(t) ==
  t \in seen =>
    \E first \in TicketRevs(t) :
      /\ \A i \in TicketRevs(t) : first <= i
      /\ \A i \in TicketRevs(t) : revs[i].tickets[t].type = "ADD" <=> i = first
      /\ \A i \in TicketRevs(t) :
           revs[i].tickets[t].type = "MOD" => \A j \in TicketRevs(t) : j < i => j = first
      /\ t \in Free => \A i \in TicketRevs(t) : i = first

(***************************************************************************)
(* What a prize has gone through: a revision of it has at most one ticket, *)
(* which it won or gave back, and the tickets it has won and not given     *)
(* back are the ones it lists.                                             *)
(***************************************************************************)
About(i, t, type) == DOMAIN revs[i].tickets = {t} /\ revs[i].tickets[t].type = type

PrizePast(p) ==
  /\ \A i \in PrizeRevs(p) :
       DOMAIN revs[i].tickets # {} => \E t \in TicketId : About(i, t, "MOD") \/ About(i, t, "DEL")
  /\ \A i \in PrizeRevs(p), t \in TicketId :
       /\ About(i, t, "MOD") => t \in listed[p] \/ \E j \in PrizeRevs(p) : About(j, t, "DEL")
       /\ About(i, t, "DEL") => t \in seen \ tickets
  /\ \A t \in listed[p] : \E i \in PrizeRevs(p) : About(i, t, "MOD")

PastInv ==
  /\ ToldInv
  /\ \A t \in TicketId : TicketPast(t)
  /\ \A p \in Prize : PrizePast(p)

LEMMA TicketStep ==
  ASSUME LedgerInv, Next, NEW t \in TicketId
  PROVE  \/ t \notin DOMAIN TicketRows /\ (t \in seen' <=> t \in seen) /\ (t \in Free' => t \in Free)
         \/ /\ t \in DOMAIN TicketRows
            /\ \/ TicketRows[t].type = "ADD" /\ t \notin seen /\ t \in seen'
               \/ TicketRows[t].type = "MOD" /\ t \in seen /\ t \in Free /\ t \notin Free'
               \/ TicketRows[t].type = "DEL" /\ t \in seen /\ t \notin Free'
  <1>0. TypeOK /\ NoRowNoWin
    BY DEF LedgerInv
  <1> USE DEF TicketRows, Free, TypeOK
  <1>1. ASSUME NEW ids \in SUBSET TicketId, PutTickets(ids)
        PROVE  \/ t \notin DOMAIN TicketRows /\ (t \in seen' <=> t \in seen) /\ (t \in Free' => t \in Free)
               \/ t \in DOMAIN TicketRows /\ TicketRows[t].type = "ADD" /\ t \notin seen /\ t \in seen'
    BY <1>0, <1>1 DEF PutTickets
  <1>2. ASSUME NEW p \in Prize, NEW u \in TicketId, PatchPrizeTicket(p, u)
        PROVE  \/ t \notin DOMAIN TicketRows /\ (t \in seen' <=> t \in seen) /\ (t \in Free' => t \in Free)
               \/ /\ t \in DOMAIN TicketRows /\ TicketRows[t].type = "MOD"
                  /\ t \in seen /\ t \in Free /\ t \notin Free'
    BY <1>0, <1>2, NoPrizeIsNoPrize DEF PatchPrizeTicket
  <1>3. ASSUME NEW p \in Prize, NEW name \in Name, PatchPrizeName(p, name)
        PROVE  t \notin DOMAIN TicketRows /\ (t \in seen' <=> t \in seen) /\ (t \in Free' => t \in Free)
    BY <1>0, <1>3 DEF PatchPrizeName
  <1>4. ASSUME NEW u \in TicketId, DeleteTicket(u)
        PROVE  \/ t \notin DOMAIN TicketRows /\ (t \in seen' <=> t \in seen) /\ (t \in Free' => t \in Free)
               \/ t \in DOMAIN TicketRows /\ TicketRows[t].type = "DEL" /\ t \in seen /\ t \notin Free'
    BY <1>0, <1>4 DEF DeleteTicket
  <1>5. QED
    BY <1>1, <1>2, <1>3, <1>4 DEF Next

LEMMA PrizeStep ==
  ASSUME LedgerInv, Next, NEW p \in Prize
  PROVE  /\ seen \ tickets \subseteq seen' \ tickets'
         /\ \/ p \notin DOMAIN PrizeRows /\ listed'[p] = listed[p]
            \/ /\ p \in DOMAIN PrizeRows
               /\ \/ DOMAIN TicketRows = {} /\ listed'[p] = listed[p]
                  \/ \E t \in TicketId :
                       /\ DOMAIN TicketRows = {t}
                       /\ \/ TicketRows[t].type = "MOD" /\ listed'[p] = listed[p] \cup {t}
                          \/ /\ TicketRows[t].type = "DEL" /\ listed'[p] = listed[p] \ {t}
                             /\ t \in seen' \ tickets'
  <1>0. TypeOK /\ NoRowNoWin /\ ListedAreWinners
    BY DEF LedgerInv, LedgerAgrees
  <1> USE DEF TypeOK, PrizeRow
  <1>1. ASSUME NEW ids \in SUBSET TicketId, PutTickets(ids)
        PROVE  /\ seen \ tickets \subseteq seen' \ tickets'
               /\ p \notin DOMAIN PrizeRows /\ listed'[p] = listed[p]
    BY <1>0, <1>1 DEF PutTickets, PrizeRows
  <1>2. ASSUME NEW q \in Prize, NEW t \in TicketId, PatchPrizeTicket(q, t)
        PROVE  /\ seen \ tickets \subseteq seen' \ tickets'
               /\ \/ p \notin DOMAIN PrizeRows /\ listed'[p] = listed[p]
                  \/ /\ p \in DOMAIN PrizeRows /\ DOMAIN TicketRows = {t}
                     /\ TicketRows[t].type = "MOD" /\ listed'[p] = listed[p] \cup {t}
    <2>1. CASE p = q
      <3>1. prize'[p] # prize[p] /\ listed'[p] = listed[p] \cup {t}
        BY <1>0, <1>2, <2>1 DEF PatchPrizeTicket
      <3>2. DOMAIN TicketRows = {t} /\ TicketRows[t].type = "MOD"
        BY <1>0, <1>2, NoPrizeIsNoPrize DEF PatchPrizeTicket, TicketRows, Free
      <3>3. QED
        BY <1>0, <1>2, <3>1, <3>2 DEF PatchPrizeTicket, PrizeRows
    <2>2. CASE p # q
      BY <1>0, <1>2, <2>2 DEF PatchPrizeTicket, PrizeRows
    <2>3. QED
      BY <2>1, <2>2
  <1>3. ASSUME NEW q \in Prize, NEW name \in Name, PatchPrizeName(q, name)
        PROVE  /\ seen \ tickets \subseteq seen' \ tickets'
               /\ DOMAIN TicketRows = {} /\ listed'[p] = listed[p]
    BY <1>0, <1>3 DEF PatchPrizeName, TicketRows
  <1>4. ASSUME NEW t \in TicketId, DeleteTicket(t)
        PROVE  /\ seen \ tickets \subseteq seen' \ tickets'
               /\ \/ p \notin DOMAIN PrizeRows /\ listed'[p] = listed[p]
                  \/ /\ p \in DOMAIN PrizeRows /\ DOMAIN TicketRows = {t}
                     /\ TicketRows[t].type = "DEL" /\ listed'[p] = listed[p] \ {t}
                     /\ t \in seen' \ tickets'
    <2>1. listed'[p] = listed[p] \ {t} /\ seen \ tickets \subseteq seen' \ tickets'
      BY <1>0, <1>4 DEF DeleteTicket
    <2>2. DOMAIN TicketRows = {t} /\ TicketRows[t].type = "DEL" /\ t \in seen' \ tickets'
      BY <1>0, <1>4 DEF DeleteTicket, TicketRows
    <2>3. t \in listed[p] => prize'[p] # prize[p]
      BY <1>0, <1>4 DEF DeleteTicket
    <2>4. t \notin listed[p] => prize'[p] = prize[p]
      BY <1>0, <1>4 DEF DeleteTicket
    <2>5. QED
      BY <2>1, <2>2, <2>3, <2>4 DEF PrizeRows
  <1>5. QED
    BY <1>1, <1>2, <1>3, <1>4 DEF Next

LEMMA PastInit == AuditInit => PastInv
  <1> SUFFICES ASSUME AuditInit PROVE PastInv
    OBVIOUS
  <1>1. ToldInv /\ TypeOK
    BY ToldInit DEF ToldInv, AuditTypeOK
  <1> DEFINE first == [prizes |-> NoRows, tickets |-> AddedTickets(tickets)]
             second == [prizes |-> prize, tickets |-> NoRows]
  <1>2. /\ first.prizes = NoRows /\ first.tickets = AddedTickets(tickets)
        /\ second.prizes = prize /\ second.tickets = NoRows
    OBVIOUS
  <1>3. /\ DOMAIN NoRows = {} /\ DOMAIN AddedTickets(tickets) = tickets
        /\ \A t \in tickets : AddedTickets(tickets)[t] = [type |-> "ADD", win |-> NoPrize]
    BY DEF NoRows, AddedTickets
  <1>4. /\ seen = tickets /\ \A p \in Prize : listed[p] = {}
        /\ IF tickets = {} THEN revs = <<second>> ELSE revs = <<first, second>>
    BY DEF AuditInit, Init
  <1> HIDE DEF first, second
  <1>5. CASE tickets = {}
    <2>1. DOMAIN revs = {1} /\ revs[1] = second
      BY <1>4, <1>5
    <2>2. \A p \in Prize : PrizePast(p)
      BY <1>2, <1>3, <1>4, <2>1 DEF PrizePast, PrizeRevs, About
    <2>3. \A t \in TicketId : TicketPast(t)
      BY <1>4, <1>5 DEF TicketPast
    <2>4. QED
      BY <1>1, <2>2, <2>3 DEF PastInv
  <1>6. CASE tickets # {}
    <2>1. DOMAIN revs = {1, 2} /\ revs[1] = first /\ revs[2] = second
      BY <1>4, <1>6
    <2>2. ASSUME NEW p \in Prize PROVE PrizePast(p)
      <3>1. \A i \in PrizeRevs(p) : i = 2
        BY <1>2, <1>3, <2>1 DEF PrizeRevs
      <3>2. QED
        BY <1>2, <1>3, <1>4, <2>1, <3>1 DEF PrizePast, About
    <2>3. ASSUME NEW t \in TicketId, t \in seen PROVE TicketPast(t)
      <3>1. TicketRevs(t) = {1} /\ revs[1].tickets[t].type = "ADD"
        BY <1>2, <1>3, <1>4, <2>1, <2>3 DEF TicketRevs
      <3>2. QED
        BY <3>1 DEF TicketPast
    <2>4. \A t \in TicketId : TicketPast(t)
      BY <2>3 DEF TicketPast
    <2>5. QED
      BY <1>1, <2>2, <2>4 DEF PastInv
  <1>7. QED
    BY <1>5, <1>6

LEMMA PastStep == PastInv /\ [AuditNext]_auditVars => PastInv'
  <1> SUFFICES ASSUME PastInv, [AuditNext]_auditVars PROVE PastInv'
    OBVIOUS
  <1>1. LedgerInv /\ AuditTypeOK /\ ToldInv'
    BY ToldStep DEF PastInv, ToldInv
  <1>2. CASE UNCHANGED auditVars
    <2>1. \A t \in TicketId : TicketPast(t)'
      BY <1>2 DEF auditVars, PastInv, TicketPast, TicketRevs, Free
    <2>2. ASSUME NEW p \in Prize PROVE PrizePast(p)'
      <3>1. PrizePast(p)
        BY DEF PastInv
      <3>2. revs' = revs /\ listed' = listed /\ seen' = seen /\ tickets' = tickets
        BY <1>2 DEF auditVars
      <3>3. QED
        BY <3>1, <3>2 DEF PrizePast, About, PrizeRevs
    <2>3. QED
      BY <1>1, <2>1, <2>2 DEF PastInv
  <1>3. CASE AuditNext
    <2>0. Next
      BY <1>3 DEF AuditNext, Next, AuditedPutTickets, AuditedPatchPrizeTicket,
                  AuditedPatchPrizeName, AuditedDeleteTicket
    <2>1. CASE DOMAIN PrizeRows = {} /\ DOMAIN TicketRows = {} /\ revs' = revs
      <3>1. ASSUME NEW t \in TicketId PROVE TicketPast(t)'
        <4>1. (t \in seen' <=> t \in seen) /\ (t \in Free' => t \in Free)
          BY <1>1, <2>0, <2>1, TicketStep
        <4>2. TicketPast(t)
          BY DEF PastInv
        <4>3. QED
          BY <2>1, <4>1, <4>2 DEF TicketPast, TicketRevs
      <3>2. ASSUME NEW p \in Prize PROVE PrizePast(p)'
        <4>1. seen \ tickets \subseteq seen' \ tickets' /\ listed'[p] = listed[p]
          BY <1>1, <2>0, <2>1, PrizeStep
        <4>2. PrizePast(p)
          BY DEF PastInv
        <4>3. QED
          BY <2>1, <4>1, <4>2 DEF PrizePast, PrizeRevs, About
      <3>3. QED
        BY <1>1, <3>1, <3>2 DEF PastInv
    <2>2. CASE revs' = Append(revs, StepRows)
      <3>1. PICK n \in Nat :
              /\ n = Len(revs) + 1 /\ Len(revs) \in Nat /\ DOMAIN revs = 1 .. Len(revs)
              /\ DOMAIN revs' = 1 .. n
              /\ \A i \in 1 .. Len(revs) : revs'[i] = revs[i]
              /\ revs'[n] = StepRows
        <4>1. /\ Len(revs) \in Nat /\ DOMAIN revs = 1 .. Len(revs)
              /\ DOMAIN revs' = 1 .. Len(revs) + 1
              /\ \A i \in 1 .. Len(revs) : revs'[i] = revs[i]
              /\ revs'[Len(revs) + 1] = StepRows
          BY <1>1, <2>2, Appended DEF AuditTypeOK
        <4>2. QED
          BY <4>1
      <3>2. StepRows.prizes = PrizeRows /\ StepRows.tickets = TicketRows
        BY DEF StepRows
      <3>3. ASSUME NEW t \in TicketId, t \in seen' PROVE TicketPast(t)'
        <4>1. TicketRevs(t)' = IF t \in DOMAIN TicketRows THEN TicketRevs(t) \cup {n} ELSE TicketRevs(t)
          BY <3>1, <3>2 DEF TicketRevs
        <4>2. TicketRevs(t) \subseteq 1 .. Len(revs)
          BY <3>1 DEF TicketRevs
        <4>3. TicketPast(t) /\ (t \notin seen => TicketRevs(t) = {})
          BY DEF PastInv, ToldInv, TicketTold
        <4>4. \A i \in TicketRevs(t) : revs'[i] = revs[i]
          BY <3>1, <4>2
        <4>5. n \notin TicketRevs(t) /\ \A i \in TicketRevs(t) : i < n
          BY <3>1, <4>2
        <4>6. t \in DOMAIN TicketRows => revs'[n].tickets[t] = TicketRows[t]
          BY <3>1, <3>2
        <4>7. CASE t \notin DOMAIN TicketRows
          <5>1. t \in seen /\ (t \in Free' => t \in Free)
            BY <1>1, <2>0, <3>3, <4>7, TicketStep
          <5>2. QED
            BY <4>1, <4>3, <4>4, <4>7, <5>1 DEF TicketPast
        <4>8. CASE t \in DOMAIN TicketRows /\ TicketRows[t].type = "ADD"
          <5>1. t \notin seen
            BY <1>1, <2>0, <4>8, TicketStep
          <5>2. TicketRevs(t)' = {n} /\ revs'[n].tickets[t].type = "ADD" /\ n \in Nat
            BY <3>1, <4>1, <4>3, <4>6, <4>8, <5>1
          <5>3. QED
            BY <5>2 DEF TicketPast
        <4>9. CASE t \in DOMAIN TicketRows /\ TicketRows[t].type = "MOD"
          <5>1. t \in seen /\ t \in Free /\ t \notin Free'
            BY <1>1, <2>0, <4>9, TicketStep
          <5>2. PICK first \in TicketRevs(t) :
                  /\ revs[first].tickets[t].type = "ADD"
                  /\ \A i \in TicketRevs(t) : i = first
            BY <4>3, <5>1 DEF TicketPast
          <5>3. TicketRevs(t)' = {first, n} /\ first < n /\ first \in Int
            BY <4>1, <4>2, <4>5, <4>9, <5>2
          <5>4. revs'[first].tickets[t].type = "ADD" /\ revs'[n].tickets[t].type = "MOD"
            BY <4>4, <4>6, <4>9, <5>2
          <5>5. QED
            BY <3>1, <5>1, <5>3, <5>4 DEF TicketPast
        <4>10. CASE t \in DOMAIN TicketRows /\ TicketRows[t].type = "DEL"
          <5>1. t \in seen /\ t \notin Free'
            BY <1>1, <2>0, <4>10, TicketStep
          <5>2. PICK first \in TicketRevs(t) :
                  /\ \A i \in TicketRevs(t) : first <= i
                  /\ \A i \in TicketRevs(t) : revs[i].tickets[t].type = "ADD" <=> i = first
                  /\ \A i \in TicketRevs(t) :
                       revs[i].tickets[t].type = "MOD" => \A j \in TicketRevs(t) : j < i => j = first
            BY <4>3, <5>1 DEF TicketPast
          <5>3. TicketRevs(t)' = TicketRevs(t) \cup {n} /\ revs'[n].tickets[t].type = "DEL"
            BY <4>1, <4>6, <4>10
          <5>4. \A i \in TicketRevs(t)' : first <= i
            BY <3>1, <4>2, <5>2, <5>3
          <5>5. \A i \in TicketRevs(t)' : revs'[i].tickets[t].type = "ADD" <=> i = first
            BY <4>4, <4>5, <5>2, <5>3
          <5>6. ASSUME NEW i \in TicketRevs(t)', revs'[i].tickets[t].type = "MOD",
                       NEW j \in TicketRevs(t)', j < i
                PROVE  j = first
            <6>1. i \in TicketRevs(t) /\ revs[i].tickets[t].type = "MOD"
              BY <4>4, <5>3, <5>6
            <6>2. j \in TicketRevs(t)
              BY <3>1, <4>2, <5>3, <5>6, <6>1
            <6>3. QED
              BY <5>2, <5>6, <6>1, <6>2
          <5>7. first \in TicketRevs(t)'
            BY <5>3
          <5>8. QED
            BY <5>1, <5>4, <5>5, <5>6, <5>7 DEF TicketPast
        <4>11. QED
          BY <1>1, <2>0, <4>7, <4>8, <4>9, <4>10, TicketStep
      <3>4. ASSUME NEW p \in Prize PROVE PrizePast(p)'
        <4>1. PrizeRevs(p)' = IF p \in DOMAIN PrizeRows THEN PrizeRevs(p) \cup {n} ELSE PrizeRevs(p)
          BY <3>1, <3>2 DEF PrizeRevs
        <4>2. PrizeRevs(p) \subseteq 1 .. Len(revs)
          BY <3>1 DEF PrizeRevs
        <4>3. \A i \in PrizeRevs(p), t \in TicketId :
                /\ About(i, t, "MOD")' <=> About(i, t, "MOD")
                /\ About(i, t, "DEL")' <=> About(i, t, "DEL")
          BY <3>1, <4>2 DEF About
        <4>4. /\ revs'[n].tickets = TicketRows
              /\ \A i \in PrizeRevs(p) : revs'[i].tickets = revs[i].tickets
          BY <3>1, <3>2, <4>2
        <4>5. PrizePast(p) /\ listed[p] \subseteq TicketId
          BY <1>1 DEF PastInv, AuditTypeOK, TypeOK
        <4>6. seen \ tickets \subseteq seen' \ tickets'
          BY <1>1, <2>0, PrizeStep
        <4>7. CASE p \notin DOMAIN PrizeRows
          <5>1. listed'[p] = listed[p]
            BY <1>1, <2>0, <4>7, PrizeStep
          <5>2. QED
            BY <4>1, <4>3, <4>4, <4>5, <4>6, <4>7, <5>1 DEF PrizePast
        <4>8. CASE p \in DOMAIN PrizeRows /\ DOMAIN TicketRows = {} /\ listed'[p] = listed[p]
          <5>1. PrizeRevs(p)' = PrizeRevs(p) \cup {n}
            BY <4>1, <4>8
          <5>2. DOMAIN revs'[n].tickets = {} /\ \A t \in TicketId : ~About(n, t, "MOD")' /\ ~About(n, t, "DEL")'
            BY <4>4, <4>8 DEF About
          <5>3. QED
            BY <4>3, <4>4, <4>5, <4>6, <4>8, <5>1, <5>2 DEF PrizePast
        <4>9. ASSUME p \in DOMAIN PrizeRows, NEW t \in TicketId, DOMAIN TicketRows = {t},
                     \/ TicketRows[t].type = "MOD" /\ listed'[p] = listed[p] \cup {t}
                     \/ TicketRows[t].type = "DEL" /\ listed'[p] = listed[p] \ {t} /\ t \in seen' \ tickets'
              PROVE  PrizePast(p)'
          <5>1. PrizeRevs(p)' = PrizeRevs(p) \cup {n}
            BY <4>1, <4>9
          <5>2. \A u \in TicketId :
                  /\ About(n, u, "MOD")' <=> (u = t /\ TicketRows[t].type = "MOD")
                  /\ About(n, u, "DEL")' <=> (u = t /\ TicketRows[t].type = "DEL")
            BY <4>4, <4>9 DEF About
          <5>3. ASSUME NEW i \in PrizeRevs(p)', DOMAIN revs'[i].tickets # {}
                PROVE  \E u \in TicketId : About(i, u, "MOD")' \/ About(i, u, "DEL")'
            <6>1. CASE i = n
              BY <4>9, <5>2, <6>1
            <6>2. CASE i \in PrizeRevs(p)
              BY <4>3, <4>4, <4>5, <5>3, <6>2 DEF PrizePast
            <6>3. QED
              BY <5>1, <6>1, <6>2
          <5>4. ASSUME NEW i \in PrizeRevs(p)', NEW u \in TicketId, About(i, u, "MOD")'
                PROVE  u \in listed'[p] \/ \E j \in PrizeRevs(p)' : About(j, u, "DEL")'
            <6>1. CASE i = n
              BY <4>9, <5>2, <5>4, <6>1
            <6>2. CASE i \in PrizeRevs(p)
              <7>1. u \in listed[p] \/ \E j \in PrizeRevs(p) : About(j, u, "DEL")
                BY <4>3, <4>5, <5>4, <6>2 DEF PrizePast
              <7>2. CASE u \in listed[p]
                BY <4>9, <5>1, <5>2, <7>2
              <7>3. CASE \E j \in PrizeRevs(p) : About(j, u, "DEL")
                BY <4>3, <5>1, <7>3
              <7>4. QED
                BY <7>1, <7>2, <7>3
            <6>3. QED
              BY <5>1, <6>1, <6>2
          <5>5. ASSUME NEW i \in PrizeRevs(p)', NEW u \in TicketId, About(i, u, "DEL")'
                PROVE  u \in seen' \ tickets'
            <6>1. CASE i = n
              BY <4>9, <5>2, <5>5, <6>1
            <6>2. CASE i \in PrizeRevs(p)
              BY <4>3, <4>5, <4>6, <5>5, <6>2 DEF PrizePast
            <6>3. QED
              BY <5>1, <6>1, <6>2
          <5>6. ASSUME NEW u \in listed'[p] PROVE \E i \in PrizeRevs(p)' : About(i, u, "MOD")'
            <6>1. CASE u = t
              BY <4>9, <5>1, <5>2, <5>6, <6>1
            <6>2. CASE u \in listed[p]
              BY <4>3, <4>5, <5>1, <6>2 DEF PrizePast
            <6>3. QED
              BY <4>9, <5>6, <6>1, <6>2
          <5>7. QED
            BY <5>3, <5>4, <5>5, <5>6 DEF PrizePast
        <4>10. QED
          BY <1>1, <2>0, <4>7, <4>8, <4>9, PrizeStep
      <3>5. QED
        BY <1>1, <3>3, <3>4 DEF PastInv, TicketPast
    <2>3. QED
      BY <1>3, <2>1, <2>2, StepRecords
  <1>4. QED
    BY <1>2, <1>3

-----------------------------------------------------------------------------
(* The list of a history *)

(***************************************************************************)
(* In a finite set with a strict total order every element has a rank, and *)
(* every rank has an element.                                              *)
(***************************************************************************)
Below(S, R, x) == {y \in S : <<y, x>> \in R}

LEMMA Ranks ==
  ASSUME NEW S, IsFiniteSet(S), NEW R,
         \A x \in S : <<x, x>> \notin R,
         \A x, y \in S : x = y \/ <<x, y>> \in R \/ <<y, x>> \in R,
         \A x, y, z \in S : <<x, y>> \in R /\ <<y, z>> \in R => <<x, z>> \in R
  PROVE  /\ Cardinality(S) \in Nat
         /\ \A k \in 1 .. Cardinality(S) : \E x \in S : Cardinality(Below(S, R, x)) = k - 1
         /\ \A x \in S : Cardinality(Below(S, R, x)) \in 0 .. Cardinality(S) - 1
         /\ \A x, y \in S :
              <<x, y>> \in R => Cardinality(Below(S, R, x)) < Cardinality(Below(S, R, y))
  <1>1. Cardinality(S) \in Nat
    BY FS_CardinalityType
  <1>2. ASSUME NEW x \in S
        PROVE  /\ IsFiniteSet(Below(S, R, x)) /\ Cardinality(Below(S, R, x)) \in Nat
               /\ Cardinality(Below(S, R, x)) < Cardinality(S)
    <2>1. Below(S, R, x) \in SUBSET S /\ Below(S, R, x) # S
      BY DEF Below
    <2>2. QED
      BY <1>1, <2>1, FS_Subset, FS_CardinalityType
  <1>3. ASSUME NEW x \in S, NEW y \in S, <<x, y>> \in R
        PROVE  Cardinality(Below(S, R, x)) < Cardinality(Below(S, R, y))
    <2>1. Below(S, R, x) \in SUBSET Below(S, R, y) /\ Below(S, R, x) # Below(S, R, y)
      BY <1>3 DEF Below
    <2>2. QED
      BY <1>2, <2>1, FS_Subset
  <1> DEFINE rank == [x \in S |-> Cardinality(Below(S, R, x)) + 1]
             n == Cardinality(S)
  <1>4. rank \in [S -> 1 .. n]
    BY <1>1, <1>2
  <1>5. \A x, y \in S : rank[x] = rank[y] => x = y
    <2>1. SUFFICES ASSUME NEW x \in S, NEW y \in S, x # y PROVE rank[x] # rank[y]
      OBVIOUS
    <2>2. <<x, y>> \in R \/ <<y, x>> \in R
      BY <2>1
    <2>3. QED
      BY <1>2, <1>3, <2>2
  <1>6. rank \in Injection(S, 1 .. n)
    BY <1>4, <1>5 DEF Injection, IsInjective
  <1>7. IsFiniteSet(1 .. n) /\ Cardinality(1 .. n) = n
    BY <1>1, FS_Interval
  <1>8. rank \in Surjection(S, 1 .. n)
    BY <1>6, <1>7, FS_Injection
  <1>9. ASSUME NEW k \in 1 .. n PROVE \E x \in S : rank[x] = k
    BY <1>8 DEF Surjection
  <1>10. QED
    BY <1>1, <1>2, <1>3, <1>9

(***************************************************************************)
(* NewestFirst lists each of the revisions, later ones first.              *)
(***************************************************************************)
LEMMA NewestFirstLists ==
  ASSUME NEW is \in SUBSET Int, IsFiniteSet(is)
  PROVE  /\ Cardinality(is) \in Nat /\ DOMAIN NewestFirst(is) = 1 .. Cardinality(is)
         /\ \A k \in 1 .. Cardinality(is) : NewestFirst(is)[k] \in is
         /\ \A i \in is : \E k \in 1 .. Cardinality(is) : NewestFirst(is)[k] = i
         /\ \A k, l \in 1 .. Cardinality(is) : k < l => NewestFirst(is)[k] > NewestFirst(is)[l]
  <1> DEFINE R == {x \in is \X is : x[1] > x[2]}
             Newer(i) == {j \in is : j > i}
             n == Cardinality(is)
             nf == NewestFirst(is)
  <1>1. \A i \in is : Below(is, R, i) = Newer(i)
    BY DEF Below
  <1>2. /\ n \in Nat
        /\ \A k \in 1 .. n : \E i \in is : Cardinality(Newer(i)) = k - 1
        /\ \A i \in is : Cardinality(Newer(i)) \in 0 .. n - 1
        /\ \A i, j \in is : i > j => Cardinality(Newer(i)) < Cardinality(Newer(j))
    <2>1. /\ \A i \in is : <<i, i>> \notin R
          /\ \A i, j \in is : <<i, j>> \in R <=> i > j
          /\ \A i, j \in is : i = j \/ <<i, j>> \in R \/ <<j, i>> \in R
          /\ \A i, j, k \in is : <<i, j>> \in R /\ <<j, k>> \in R => <<i, k>> \in R
      OBVIOUS
    <2> HIDE DEF R
    <2>2. /\ n \in Nat
          /\ \A k \in 1 .. n : \E i \in is : Cardinality(Below(is, R, i)) = k - 1
          /\ \A i \in is : Cardinality(Below(is, R, i)) \in 0 .. n - 1
          /\ \A i, j \in is : <<i, j>> \in R => Cardinality(Below(is, R, i)) < Cardinality(Below(is, R, j))
      BY <2>1, Ranks
    <2> HIDE DEF Newer, n
    <2>3. QED
      BY <1>1, <2>1, <2>2
  <1>3. nf = [k \in 1 .. n |-> CHOOSE i \in is : Cardinality(Newer(i)) = k - 1]
    BY DEF NewestFirst, Ordered
  <1> HIDE DEF R, Newer, n, nf
  <1>4. ASSUME NEW k \in 1 .. n PROVE nf[k] \in is /\ Cardinality(Newer(nf[k])) = k - 1
    <2>1. nf[k] = CHOOSE i \in is : Cardinality(Newer(i)) = k - 1
      BY <1>3
    <2>2. QED
      BY <1>2, <2>1
  <1>5. \A i, j \in is : Cardinality(Newer(i)) = Cardinality(Newer(j)) => i = j
    <2>1. ASSUME NEW i \in is, NEW j \in is, Cardinality(Newer(i)) = Cardinality(Newer(j)) PROVE i = j
      <3>1. i = j \/ i > j \/ j > i
        OBVIOUS
      <3>2. QED
        BY <1>2, <2>1, <3>1
    <2>2. QED
      BY <2>1
  <1>6. ASSUME NEW i \in is PROVE \E k \in 1 .. n : nf[k] = i
    <2>1. Cardinality(Newer(i)) \in 0 .. n - 1 /\ n \in Nat
      BY <1>2
    <2>2. PICK k \in 1 .. n : Cardinality(Newer(i)) = k - 1
      BY <2>1
    <2>3. nf[k] \in is /\ Cardinality(Newer(nf[k])) = Cardinality(Newer(i))
      BY <1>4, <2>2
    <2>4. QED
      BY <1>5, <2>3
  <1>7. ASSUME NEW k \in 1 .. n, NEW l \in 1 .. n, k < l PROVE nf[k] > nf[l]
    <2>1. nf[k] \in is /\ Cardinality(Newer(nf[k])) = k - 1
      BY <1>4
    <2>2. nf[l] \in is /\ Cardinality(Newer(nf[l])) = l - 1
      BY <1>4
    <2>3. nf[k] \in Int /\ nf[l] \in Int /\ k - 1 < l - 1
      <3>1. k \in Int /\ l \in Int /\ n \in Int
        BY <1>2
      <3>2. is \subseteq Int
        OBVIOUS
      <3>3. nf[k] \in Int /\ nf[l] \in Int
        BY <2>1, <2>2, <3>2
      <3>4. QED
        BY <1>7, <3>1, <3>3
    <2>4. nf[k] # nf[l]
      BY <2>1, <2>2, <2>3
    <2>5. ~(nf[l] > nf[k])
      <3>1. SUFFICES ASSUME nf[l] > nf[k] PROVE FALSE
        OBVIOUS
      <3>2. Cardinality(Newer(nf[l])) < Cardinality(Newer(nf[k]))
        BY <1>2, <2>1, <2>2, <3>1
      <3>3. QED
        BY <2>1, <2>2, <2>3, <3>2
    <2>6. QED
      BY <2>3, <2>4, <2>5
  <1>8. QED
    BY <1>2, <1>3, <1>4, <1>6, <1>7 DEF n, nf

(***************************************************************************)
(* A function on the first n numbers is a list of n elements.              *)
(***************************************************************************)
LEMMA FunctionIsList ==
  ASSUME NEW n \in Nat, NEW S, NEW s \in [1 .. n -> S]
  PROVE  /\ Len(s) = n /\ DOMAIN s = 1 .. n
         /\ s = <<>> <=> n = 0
         /\ n > 0 => Head(s) = s[1] /\ Last(s) = s[n]
  <1>1. s \in Seq(S)
    BY SeqDef
  <1>2. DOMAIN s = 1 .. Len(s) /\ Len(s) \in Nat /\ DOMAIN s = 1 .. n
    BY <1>1, LenProperties
  <1>3. Len(s) = n
    BY <1>2
  <1>4. s = <<>> <=> n = 0
    BY <1>1, <1>3, EmptySeq
  <1>5. n > 0 => Head(s) = s[1] /\ Last(s) = s[n]
    BY <1>1, <1>3, <1>4 DEF Last
  <1>6. QED
    BY <1>2, <1>3, <1>4, <1>5

LEMMA RevsAreFinite ==
  ASSUME AuditTypeOK
  PROVE  /\ Len(revs) \in Nat /\ DOMAIN revs = 1 .. Len(revs)
         /\ \A S \in SUBSET (1 .. Len(revs)) : S \in SUBSET Int /\ IsFiniteSet(S)
  <1>1. DOMAIN revs = 1 .. Len(revs) /\ Len(revs) \in Nat
    BY LenProperties DEF AuditTypeOK
  <1>2. IsFiniteSet(1 .. Len(revs))
    BY <1>1, FS_Interval
  <1>3. ASSUME NEW S \in SUBSET (1 .. Len(revs)) PROVE S \in SUBSET Int /\ IsFiniteSet(S)
    <2>1. IsFiniteSet(S)
      BY <1>2, FS_Subset
    <2>2. QED
      BY <1>1, <2>1
  <1>4. QED
    BY <1>1, <1>3

LEMMA TicketsAreTold == PastInv => TicketsTold
  <1> SUFFICES ASSUME PastInv, NEW t \in TicketId
               PROVE  LET told == GetTicket(t)
                          wins == {k \in DOMAIN told : told[k].type = "MOD"}
                      IN  IF t \notin seen THEN told = <<>>
                          ELSE /\ told # <<>>
                               /\ Last(told).type = "ADD"
                               /\ Cardinality(wins) <= 1
                               /\ Head(told).type = "DEL" <=> t \notin tickets
                               /\ Head(told).win = win[t]
                               /\ \A k \in wins : Len(told) - k = 1
    BY DEF TicketsTold
  <1> DEFINE told == GetTicket(t)
             wins == {k \in DOMAIN told : told[k].type = "MOD"}
             is == TicketRevs(t)
             entries == NewestFirst(is)
             n == Cardinality(is)
             row(i) == revs[i].tickets[t]
  <1>0. AuditTypeOK /\ TicketTold(t) /\ TicketPast(t)
    BY DEF PastInv, ToldInv
  <1>1. is \in SUBSET Int /\ IsFiniteSet(is) /\ n \in Nat /\ (n = 0 <=> is = {})
    BY <1>0, RevsAreFinite, FS_EmptySet, FS_CardinalityType DEF TicketRevs
  <1>2. /\ DOMAIN entries = 1 .. n
        /\ \A k \in 1 .. n : entries[k] \in is
        /\ \A i \in is : \E k \in 1 .. n : entries[k] = i
        /\ \A k, l \in 1 .. n : k < l => entries[k] > entries[l]
    BY <1>1, NewestFirstLists
  <1>3. told = [k \in 1 .. n |-> row(entries[k])]
    BY <1>2 DEF GetTicket
  <1>4. is # {} <=> t \in seen
    BY <1>0 DEF TicketTold
  <1> HIDE DEF told, is, entries, n, row
  <1>5. /\ Len(told) = n /\ DOMAIN told = 1 .. n /\ (told = <<>> <=> n = 0)
        /\ n > 0 => Head(told) = told[1] /\ Last(told) = told[n]
    <2>1. told \in [1 .. n -> Range(told)]
      BY <1>3 DEF Range
    <2>2. QED
      BY <1>1, <2>1, FunctionIsList
  <1>6. CASE t \in seen
    <2>0. n \in Nat /\ n # 0
      BY <1>1, <1>4, <1>6
    <2>1. n \in Nat \ {0} /\ 1 \in 1 .. n /\ n \in 1 .. n
      BY <2>0
    <2>2. PICK last \in is :
            /\ \A i \in is : i <= last
            /\ row(last).type = "DEL" <=> t \notin tickets
            /\ row(last).win = win[t]
      BY <1>0, <1>6 DEF TicketTold, IsLast, is, row
    <2>3. PICK first \in is :
            /\ \A i \in is : first <= i
            /\ \A i \in is : row(i).type = "ADD" <=> i = first
            /\ \A i \in is : row(i).type = "MOD" => \A j \in is : j < i => j = first
      BY <1>0, <1>6 DEF TicketPast, is, row
    <2>4. \A k \in 1 .. n : entries[k] \in Int
      BY <1>1, <1>2
    <2>5. entries[1] = last
      <3>1. PICK k \in 1 .. n : entries[k] = last
        BY <1>2
      <3>2. k = 1 \/ entries[1] > entries[k]
        BY <1>2, <2>1
      <3>3. QED
        BY <1>2, <2>1, <2>2, <2>4, <3>1, <3>2
    <2>6. entries[n] = first
      <3>1. PICK k \in 1 .. n : entries[k] = first
        BY <1>2
      <3>2. k = n \/ entries[k] > entries[n]
        BY <1>2, <2>1
      <3>3. QED
        BY <1>2, <2>1, <2>3, <2>4, <3>1, <3>2
    <2>7. ASSUME NEW k \in 1 .. n, told[k].type = "MOD" PROVE n - k = 1
      <3>1. entries[k] \in is /\ row(entries[k]).type = "MOD"
        BY <1>2, <1>3, <2>7
      <3>2. entries[k] # first
        BY <2>3, <3>1
      <3>3. k # n
        BY <2>6, <3>2
      <3>4. ASSUME k + 1 < n PROVE FALSE
        <4>1. k + 1 \in 1 .. n
          BY <2>1, <3>4
        <4>2. entries[k] > entries[k + 1] /\ entries[k + 1] > entries[n]
          BY <1>2, <2>1, <3>4, <4>1
        <4>3. entries[k + 1] \in is /\ entries[k + 1] < entries[k]
          BY <1>2, <2>4, <4>1, <4>2
        <4>4. entries[k + 1] = first
          BY <2>3, <3>1, <4>3
        <4>5. QED
          BY <2>4, <2>6, <4>1, <4>2, <4>4
      <3>5. QED
        BY <2>1, <3>3, <3>4
    <2>8. Cardinality(wins) <= 1
      <3>1. wins \in SUBSET {n - 1}
        BY <1>5, <2>1, <2>7
      <3>2. IsFiniteSet({n - 1}) /\ Cardinality({n - 1}) = 1
        BY FS_Singleton
      <3>3. QED
        BY <3>1, <3>2, FS_Subset
    <2>9. told # <<>> /\ Head(told) = row(last) /\ Last(told) = row(first)
      BY <1>3, <1>5, <2>1, <2>5, <2>6
    <2>10. QED
      BY <1>5, <1>6, <2>2, <2>3, <2>7, <2>8, <2>9 DEF told
  <1>7. CASE t \notin seen
    BY <1>1, <1>4, <1>5, <1>7 DEF told
  <1>8. QED
    BY <1>6, <1>7

(***************************************************************************)
(* The revisions getPrize tells, and what it tells of their tickets.       *)
(***************************************************************************)
ToldRevs(p) ==
  {i \in PrizeRevs(p) : DOMAIN revs[i].tickets # {} \/ \A j \in PrizeRevs(p) : j <= i}

LEMMA GetPrizeLists ==
  ASSUME AuditTypeOK, NEW p \in Prize
  PROVE  LET entries == NewestFirst(ToldRevs(p))
             n == Cardinality(ToldRevs(p))
         IN  /\ n \in Nat /\ (n = 0 <=> ToldRevs(p) = {})
             /\ \A k \in 1 .. n : entries[k] \in ToldRevs(p)
             /\ \A i \in ToldRevs(p) : \E k \in 1 .. n : entries[k] = i
             /\ \A k, l \in 1 .. n : k < l => entries[k] > entries[l]
             /\ GetPrize(p) = [k \in 1 .. n |-> EntryOf(p, entries[k])]
             /\ DOMAIN GetPrize(p) = 1 .. n
             /\ GetPrize(p) = <<>> <=> n = 0
             /\ n > 0 => Head(GetPrize(p)) = EntryOf(p, entries[1])
  <1> DEFINE is == ToldRevs(p)
             entries == NewestFirst(is)
             n == Cardinality(is)
             told == GetPrize(p)
  <1>1. is \in SUBSET Int /\ IsFiniteSet(is) /\ n \in Nat /\ (n = 0 <=> is = {})
    BY RevsAreFinite, FS_EmptySet, FS_CardinalityType DEF ToldRevs, PrizeRevs
  <1>2. /\ DOMAIN entries = 1 .. n
        /\ \A k \in 1 .. n : entries[k] \in is
        /\ \A i \in is : \E k \in 1 .. n : entries[k] = i
        /\ \A k, l \in 1 .. n : k < l => entries[k] > entries[l]
    BY <1>1, NewestFirstLists
  <1>3. told = [k \in 1 .. n |-> EntryOf(p, entries[k])]
    BY <1>2 DEF GetPrize, ToldRevs
  <1> HIDE DEF told, is, entries, n
  <1>4. told \in [1 .. n -> Range(told)]
    BY <1>3 DEF Range
  <1>5. /\ DOMAIN told = 1 .. n /\ (told = <<>> <=> n = 0)
        /\ n > 0 => Head(told) = told[1]
    BY <1>1, <1>4, FunctionIsList
  <1>6. n > 0 => Head(told) = EntryOf(p, entries[1])
    BY <1>1, <1>3, <1>5
  <1>7. QED
    BY <1>1, <1>2, <1>3, <1>5, <1>6 DEF told, is, entries, n

LEMMA ToldTicketsOf ==
  ASSUME PastInv, NEW p \in Prize, NEW t, NEW type \in {"MOD", "DEL"}
  PROVE  t \in TicketsOf(p, type) <=> \E i \in PrizeRevs(p) : t \in TicketId /\ About(i, t, type)
  <1> DEFINE entries == NewestFirst(ToldRevs(p))
             n == Cardinality(ToldRevs(p))
  <1>1. AuditTypeOK /\ PrizePast(p)
    BY DEF PastInv, ToldInv
  <1>2. /\ n \in Nat
        /\ \A k \in 1 .. n : entries[k] \in ToldRevs(p)
        /\ \A i \in ToldRevs(p) : \E k \in 1 .. n : entries[k] = i
        /\ GetPrize(p) = [k \in 1 .. n |-> EntryOf(p, entries[k])]
        /\ DOMAIN GetPrize(p) = 1 .. n
    BY <1>1, GetPrizeLists
  <1> HIDE DEF entries, n
  <1>3. t \in TicketsOf(p, type) <=>
          \E k \in 1 .. n : \E x \in EntryOf(p, entries[k]).ticket : x.type = type /\ x.id = t
    BY <1>2 DEF TicketsOf
  <1>4. ASSUME NEW i \in PrizeRevs(p), NEW u \in TicketId, NEW way \in {"MOD", "DEL"}, About(i, u, way)
        PROVE  EntryOf(p, i).ticket = {[id |-> u, type |-> way]}
    BY <1>4 DEF EntryOf, About
  <1>5. ASSUME NEW i \in PrizeRevs(p), DOMAIN revs[i].tickets = {}
        PROVE  EntryOf(p, i).ticket = {}
    BY <1>5 DEF EntryOf
  <1>6. ASSUME t \in TicketsOf(p, type)
        PROVE  \E i \in PrizeRevs(p) : t \in TicketId /\ About(i, t, type)
    <2>1. PICK k \in 1 .. n : \E x \in EntryOf(p, entries[k]).ticket : x.type = type /\ x.id = t
      BY <1>3, <1>6
    <2>2. entries[k] \in PrizeRevs(p)
      BY <1>2 DEF ToldRevs
    <2>3. DOMAIN revs[entries[k]].tickets # {}
      BY <1>5, <2>1, <2>2
    <2>4. PICK u \in TicketId, way \in {"MOD", "DEL"} : About(entries[k], u, way)
      BY <1>1, <2>2, <2>3 DEF PrizePast
    <2>5. u = t /\ way = type
      BY <1>4, <2>1, <2>2, <2>4
    <2>6. QED
      BY <2>2, <2>4, <2>5
  <1>7. ASSUME NEW i \in PrizeRevs(p), t \in TicketId, About(i, t, type)
        PROVE  t \in TicketsOf(p, type)
    <2>1. i \in ToldRevs(p)
      BY <1>7 DEF ToldRevs, About
    <2>2. PICK k \in 1 .. n : entries[k] = i
      BY <1>2, <2>1
    <2>3. EntryOf(p, entries[k]).ticket = {[id |-> t, type |-> type]}
      BY <1>4, <1>7, <2>2
    <2>4. \E x \in EntryOf(p, entries[k]).ticket : x.type = type /\ x.id = t
      <3>1. [id |-> t, type |-> type] \in EntryOf(p, entries[k]).ticket
        BY <2>3
      <3>2. [id |-> t, type |-> type].type = type /\ [id |-> t, type |-> type].id = t
        OBVIOUS
      <3>3. QED
        BY <3>1, <3>2
    <2>5. QED
      BY <1>3, <2>4
  <1>8. QED
    BY <1>6, <1>7

LEMMA PrizesAreTold == PastInv => PrizesTold
  <1> SUFFICES ASSUME PastInv, NEW p \in Prize
               PROVE  /\ GetPrize(p) # <<>> /\ Head(GetPrize(p)).row = prize[p]
                      /\ TicketsOf(p, "MOD") \ TicketsOf(p, "DEL") = listed[p]
    BY DEF PrizesTold
  <1>0. AuditTypeOK /\ PrizeTold(p) /\ PrizePast(p) /\ LedgerInv
    BY DEF PastInv, ToldInv
  <1>1. GetPrize(p) # <<>> /\ Head(GetPrize(p)).row = prize[p]
    <2> DEFINE entries == NewestFirst(ToldRevs(p))
               n == Cardinality(ToldRevs(p))
    <2>1. /\ n \in Nat /\ (n = 0 <=> ToldRevs(p) = {})
          /\ \A k \in 1 .. n : entries[k] \in ToldRevs(p)
          /\ \A i \in ToldRevs(p) : \E k \in 1 .. n : entries[k] = i
          /\ \A k, l \in 1 .. n : k < l => entries[k] > entries[l]
          /\ GetPrize(p) = <<>> <=> n = 0
          /\ n > 0 => Head(GetPrize(p)) = EntryOf(p, entries[1])
      BY <1>0, GetPrizeLists
    <2> HIDE DEF entries, n
    <2>2. PICK last \in PrizeRevs(p) :
            /\ \A i \in PrizeRevs(p) : i <= last
            /\ revs[last].prizes[p] = prize[p]
      BY <1>0 DEF PrizeTold, IsLast
    <2>3. last \in ToldRevs(p) /\ ToldRevs(p) \subseteq PrizeRevs(p)
      BY <2>2 DEF ToldRevs
    <2>4. n \in Nat /\ n > 0 /\ 1 \in 1 .. n
      BY <2>1, <2>3
    <2>5. last \in Int /\ \A k \in 1 .. n : entries[k] \in Int /\ entries[k] <= last
      <3>1. PrizeRevs(p) \in SUBSET Int
        BY <1>0, RevsAreInts
      <3>2. QED
        BY <2>1, <2>2, <2>3, <3>1
    <2>6. entries[1] = last
      <3>1. PICK k \in 1 .. n : entries[k] = last
        BY <2>1, <2>3
      <3>2. k = 1 \/ entries[1] > entries[k]
        BY <2>1, <2>4
      <3>3. ~(entries[1] > last)
        BY <2>4, <2>5
      <3>4. QED
        BY <3>1, <3>2, <3>3
    <2>7. QED
      BY <2>1, <2>2, <2>4, <2>6 DEF EntryOf
  <1>2. ASSUME NEW t \in listed[p]
        PROVE  t \in TicketsOf(p, "MOD") /\ t \notin TicketsOf(p, "DEL")
    <2>1. t \in TicketId /\ t \in tickets
      BY <1>0 DEF LedgerInv, LedgerAgrees, ListedAreWinners, TypeOK
    <2>2. t \in TicketsOf(p, "MOD")
      BY <1>0, <2>1, ToldTicketsOf DEF PrizePast
    <2>3. \A i \in PrizeRevs(p) : ~About(i, t, "DEL")
      BY <1>0, <2>1 DEF PrizePast
    <2>4. QED
      BY <2>2, <2>3, ToldTicketsOf
  <1>3. ASSUME NEW t \in TicketsOf(p, "MOD"), t \notin TicketsOf(p, "DEL")
        PROVE  t \in listed[p]
    <2>1. PICK i \in PrizeRevs(p) : t \in TicketId /\ About(i, t, "MOD")
      BY ToldTicketsOf
    <2>2. \A j \in PrizeRevs(p) : ~About(j, t, "DEL")
      BY <1>3, <2>1, ToldTicketsOf
    <2>3. QED
      BY <1>0, <2>1, <2>2 DEF PrizePast
  <1>4. QED
    BY <1>1, <1>2, <1>3

(***************************************************************************)
(* getTicket tells the whole life of a ticket: that it was added, that it  *)
(* won, if it did, and that it was deleted, if it is gone.                 *)
(***************************************************************************)
THEOREM TicketsAlwaysTold == AuditSpec => []TicketsTold
  BY PastInit, PastStep, TicketsAreTold, PTL DEF AuditSpec

(***************************************************************************)
(* getPrize tells the row the prize has, and the tickets it tells of as    *)
(* won and not as deleted are the ones the prize lists, although it leaves *)
(* revisions out and the collection is not audited.                        *)
(***************************************************************************)
THEOREM PrizesAlwaysTold == AuditSpec => []PrizesTold
  BY PastInit, PastStep, PrizesAreTold, PTL DEF AuditSpec
=============================================================================
