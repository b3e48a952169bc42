--------------------------- MODULE TombolaLogProofs ---------------------------
(***************************************************************************)
(* Proofs about TombolaLog, for any number of threads, events and rows and *)
(* any size of the queue and of a page: first the way of an event from the *)
(* thread that logs it to its row, then the page on the screen over a      *)
(* table that grows.                                                       *)
(***************************************************************************)
EXTENDS TombolaLog, SequenceTheorems, FiniteSetTheorems, TLAPS

(***************************************************************************)
(* Of two lines of the audit page, this one was logged before that one.    *)
(* The rows of earlier runs, with number 0, are not compared.              *)
(***************************************************************************)
Follows(e, f) == e.kind = "audit" /\ f.kind = "audit" /\ f.no > 0 => e.no < f.no

InOrder(s) == \A i, j \in DOMAIN s : i < j => Follows(s[i], s[j])
Ahead(s, t) == \A i \in DOMAIN s, j \in DOMAIN t : Follows(s[i], t[j])

\* The part of TypeOK that is about logging.
LogTypeOK ==
  /\ setting \in Settings
  /\ logging \in [Thread -> {<<>>} \cup {<<e>> : e \in Event}]
  /\ queue \in Seq(Event) /\ Len(queue) <= QueueSize
  /\ writing \in {<<>>} \cup {<<e>> : e \in Event}
  /\ table \in Seq(Event)
  /\ count \in 0 .. MaxEvents
  /\ lost \subseteq 1 .. count

\* Events on their way have been logged in this run, rows in this one or before.
Numbered ==
  /\ count <= setting.events
  /\ \A i \in DOMAIN table : table[i].no <= count
  /\ \A i \in DOMAIN writing : writing[i].no \in 1 .. count
  /\ \A i \in DOMAIN queue : queue[i].no \in 1 .. count
  /\ \A th \in Thread : \A i \in DOMAIN logging[th] : logging[th][i].no \in 1 .. count

\* The monitor of TombolaService: one thread at a time logs a line of an audit.
OneAudit ==
  \A th, u \in Thread :
    (logging[th] # <<>> /\ logging[u] # <<>>
      /\ logging[th][1].kind = "audit" /\ logging[u][1].kind = "audit") => th = u

(***************************************************************************)
(* The way of a line is one queue from the thread that logs it to the      *)
(* table, in which the lines of the audit page keep their order.           *)
(***************************************************************************)
WayInOrder ==
  /\ InOrder(table) /\ InOrder(queue)
  /\ Ahead(table, writing) /\ Ahead(table, queue) /\ Ahead(writing, queue)
  /\ \A th \in Thread :
       Ahead(table, logging[th]) /\ Ahead(writing, logging[th]) /\ Ahead(queue, logging[th])

IInv == LogTypeOK /\ Numbered /\ OneAudit /\ WayInOrder

-----------------------------------------------------------------------------
(* Sequences *)

LEMMA EmptyAhead == \A s : Ahead(<<>>, s) /\ Ahead(s, <<>>) /\ InOrder(<<>>)
  BY DEF Ahead, InOrder

LEMMA AppendedIs ==
  ASSUME NEW s \in Seq(Event), NEW e \in Event
  PROVE  /\ s \o <<e>> \in Seq(Event) /\ Len(s \o <<e>>) = Len(s) + 1
         /\ s \o <<e>> = Append(s, e)
         /\ \A i \in DOMAIN (s \o <<e>>) : (i \in DOMAIN s /\ (s \o <<e>>)[i] = s[i]) \/ (s \o <<e>>)[i] = e
         /\ \A i, j \in DOMAIN (s \o <<e>>) : i < j =>
              i \in DOMAIN s /\ (s \o <<e>>)[i] = s[i]
  OBVIOUS

\* A line that follows all others may be put behind them.
LEMMA AppendInOrder ==
  ASSUME NEW s \in Seq(Event), NEW e \in Event, InOrder(s), Ahead(s, <<e>>)
  PROVE  InOrder(s \o <<e>>)
  <1>1. ASSUME NEW i \in DOMAIN (s \o <<e>>), NEW j \in DOMAIN (s \o <<e>>), i < j
        PROVE  Follows((s \o <<e>>)[i], (s \o <<e>>)[j])
    <2>1. i \in DOMAIN s /\ (s \o <<e>>)[i] = s[i]
      BY <1>1
    <2>2. CASE j \in DOMAIN s
      <3>1. (s \o <<e>>)[j] = s[j]
        BY <2>2
      <3> QED BY <1>1, <2>1, <2>2, <3>1 DEF InOrder
    <2>3. CASE j \notin DOMAIN s
      <3>1. (s \o <<e>>)[j] = e
        BY <1>1, <2>3
      <3>2. Follows(s[i], e)
        BY <2>1 DEF Ahead
      <3> QED BY <2>1, <3>1, <3>2
    <2> QED BY <2>2, <2>3
  <1> QED BY <1>1 DEF InOrder

LEMMA AppendAhead ==
  ASSUME NEW s \in Seq(Event), NEW e \in Event, NEW t
  PROVE  /\ Ahead(s, t) /\ Ahead(<<e>>, t) => Ahead(s \o <<e>>, t)
         /\ Ahead(t, s) /\ Ahead(t, <<e>>) => Ahead(t, s \o <<e>>)
  <1>1. \A i \in DOMAIN (s \o <<e>>) :
          (i \in DOMAIN s /\ (s \o <<e>>)[i] = s[i]) \/ (s \o <<e>>)[i] = e
    BY AppendedIs
  <1>2. 1 \in DOMAIN <<e>> /\ <<e>>[1] = e
    OBVIOUS
  <1> QED BY <1>1, <1>2 DEF Ahead

LEMMA TailIs ==
  ASSUME NEW s \in Seq(Event), s # <<>>
  PROVE  /\ Head(s) \in Event /\ Tail(s) \in Seq(Event) /\ Len(Tail(s)) = Len(s) - 1
         /\ 1 \in DOMAIN s /\ Head(s) = s[1]
         /\ \A i \in DOMAIN Tail(s) : i + 1 \in DOMAIN s /\ Tail(s)[i] = s[i + 1]
  OBVIOUS

LEMMA TailInOrder ==
  ASSUME NEW s \in Seq(Event), s # <<>>, InOrder(s)
  PROVE  InOrder(Tail(s)) /\ Ahead(<<Head(s)>>, Tail(s))
  <1>1. /\ 1 \in DOMAIN s /\ Head(s) = s[1]
        /\ \A i \in DOMAIN Tail(s) : i \in Nat /\ i > 0 /\ i + 1 \in DOMAIN s /\ Tail(s)[i] = s[i + 1]
    BY TailIs
  <1>2. InOrder(Tail(s))
    BY <1>1 DEF InOrder
  <1>3. \A i \in DOMAIN Tail(s) : Follows(Head(s), Tail(s)[i])
    BY <1>1 DEF InOrder
  <1> QED BY <1>2, <1>3 DEF Ahead

LEMMA TailAhead ==
  ASSUME NEW s \in Seq(Event), s # <<>>, NEW t
  PROVE  /\ Ahead(s, t) => Ahead(Tail(s), t) /\ Ahead(<<Head(s)>>, t)
         /\ Ahead(t, s) => Ahead(t, Tail(s)) /\ Ahead(t, <<Head(s)>>)
  <1>1. /\ 1 \in DOMAIN s /\ Head(s) = s[1]
        /\ \A i \in DOMAIN Tail(s) : i + 1 \in DOMAIN s /\ Tail(s)[i] = s[i + 1]
    BY TailIs
  <1> QED BY <1>1 DEF Ahead

-----------------------------------------------------------------------------
(* Actions *)

LEMMA SettingIs ==
  ASSUME LogTypeOK
  PROVE  setting.events \in 0 .. MaxEvents /\ MaxEvents \in Nat
  BY SettingsAssumption, SizeAssumption DEF LogTypeOK

\* What the worker writes, and what a thread hands over, is a sequence of at most one event.
LEMMA WritingIsSeq ==
  ASSUME LogTypeOK
  PROVE  writing \in Seq(Event) /\ \A th \in Thread : logging[th] \in Seq(Event)
  <1>1. <<>> \in Seq(Event) /\ \A e \in Event : <<e>> \in Seq(Event)
    OBVIOUS
  <1>2. \A s \in {<<>>} \cup {<<e>> : e \in Event} : s \in Seq(Event)
    BY <1>1
  <1> QED BY <1>2 DEF LogTypeOK

LEMMA InitIsOrdered == Init => IInv
  <1> SUFFICES ASSUME Init PROVE IInv
    OBVIOUS
  <1>1. PICK n \in 0 .. setting.rows : \E keys \in [1 .. n -> Key] :
          table = [i \in 1 .. n |-> OldRow(keys[i])]
    BY DEF Init
  <1>2. PICK keys \in [1 .. n -> Key] : table = [i \in 1 .. n |-> OldRow(keys[i])]
    BY <1>1
  <1>3. n \in Nat
    BY SettingsAssumption DEF Init
  <1>4. \A i \in 1 .. n : OldRow(keys[i]) \in Event /\ OldRow(keys[i]).no = 0
    BY <1>2, SizeAssumption DEF OldRow, Event, Kind, Key
  <1>5. /\ table \in Seq(Event)
        /\ \A i \in DOMAIN table : table[i].no = 0
    BY <1>2, <1>3, <1>4
  <1>6. /\ setting \in Settings /\ logging = [th \in Thread |-> <<>>]
        /\ queue = <<>> /\ writing = <<>> /\ count = 0 /\ lost = {}
    BY DEF Init
  <1>7. LogTypeOK
    BY <1>5, <1>6, SizeAssumption DEF LogTypeOK
  <1>8. Numbered
    BY <1>5, <1>6, <1>7, SettingIs DEF Numbered
  <1>9. OneAudit
    BY <1>6 DEF OneAudit
  <1>10. InOrder(table)
    BY <1>5 DEF InOrder, Follows
  <1>11. WayInOrder
    BY <1>6, <1>10, EmptyAhead DEF WayInOrder
  <1> QED BY <1>7, <1>8, <1>9, <1>11 DEF IInv

\* An event logged now, with the next number, follows every event on its way.
LEMMA NewFollows ==
  ASSUME IInv, NEW kind \in Kind, NEW key \in Key, count < setting.events
  PROVE  /\ NewEvent(kind, key) \in Event /\ NewEvent(kind, key).no \in 1 .. count + 1
         /\ NewEvent(kind, key).kind = kind
         /\ Ahead(table, <<NewEvent(kind, key)>>) /\ Ahead(writing, <<NewEvent(kind, key)>>)
         /\ Ahead(queue, <<NewEvent(kind, key)>>)
  <1> DEFINE e == NewEvent(kind, key)
  <1>1. count \in Nat /\ setting.events \in 0 .. MaxEvents /\ MaxEvents \in Nat
    BY SettingIs, SizeAssumption DEF IInv, LogTypeOK
  <1>2. e \in Event /\ e.no = count + 1 /\ e.kind = kind
    BY <1>1 DEF NewEvent, Event
  <1>3. ASSUME NEW s \in Seq(Event), \A i \in DOMAIN s : s[i].no <= count
        PROVE  Ahead(s, <<e>>)
    <2>1. \A i \in DOMAIN s : s[i] \in Event
      OBVIOUS
    <2>2. \A f \in Event : f.no \in Nat
      BY <1>1 DEF Event
    <2>3. \A i \in DOMAIN s : Follows(s[i], e)
      BY <1>1, <1>2, <1>3, <2>1, <2>2 DEF Follows
    <2>4. \A j \in DOMAIN <<e>> : <<e>>[j] = e
      OBVIOUS
    <2> QED BY <2>3, <2>4 DEF Ahead
  <1>4. table \in Seq(Event) /\ writing \in Seq(Event) /\ queue \in Seq(Event)
    BY WritingIsSeq DEF IInv, LogTypeOK
  <1>5. /\ \A i \in DOMAIN table : table[i].no <= count
        /\ \A i \in DOMAIN writing : writing[i].no <= count
        /\ \A i \in DOMAIN queue : queue[i].no <= count
    BY DEF IInv, Numbered
  <1> HIDE DEF e
  <1>6. Ahead(table, <<e>>) /\ Ahead(writing, <<e>>) /\ Ahead(queue, <<e>>)
    BY <1>3, <1>4, <1>5
  <1>7. e.no \in 1 .. count + 1
    BY <1>1, <1>2
  <1> QED BY <1>2, <1>6, <1>7 DEF e

LEMMA LogKeeps ==
  ASSUME IInv, NEW th \in setting.threads, NEW kind \in setting.kinds, NEW key \in setting.keys,
         Log(th, kind, key)
  PROVE  IInv'
  <1> DEFINE e == NewEvent(kind, key)
  <1>1. /\ th \in Thread /\ kind \in Kind /\ key \in Key
        /\ count \in Nat /\ count < setting.events /\ setting.events \in 0 .. MaxEvents
        /\ MaxEvents \in Nat
    BY SettingIs, SettingsAssumption, SizeAssumption DEF Log, IInv, LogTypeOK
  <1>2. /\ count' = count + 1
        /\ setting' = setting /\ queue' = queue /\ writing' = writing
        /\ table' = table /\ lost' = lost
    BY DEF Log
  <1>3. /\ e \in Event /\ e.no \in 1 .. count + 1 /\ e.kind = kind
        /\ Ahead(table, <<e>>) /\ Ahead(writing, <<e>>) /\ Ahead(queue, <<e>>)
    BY <1>1, NewFollows
  <1>4. \/ logging' = logging
        \/ logging' = [logging EXCEPT ![th] = <<e>>]
    BY DEF Log
  <1>5. logging \in [Thread -> {<<>>} \cup {<<f>> : f \in Event}]
    BY DEF IInv, LogTypeOK
  <1> HIDE DEF e
  <1>6. logging' \in [Thread -> {<<>>} \cup {<<f>> : f \in Event}]
    BY <1>1, <1>3, <1>4, <1>5
  <1>7. \A u \in Thread : logging'[u] = logging[u] \/ (u = th /\ logging'[u] = <<e>>)
    BY <1>1, <1>4, <1>5
  <1>8. LogTypeOK'
    BY <1>1, <1>2, <1>6 DEF IInv, LogTypeOK
  <1>9. Numbered'
    <2>1. \A u \in Thread : \A i \in DOMAIN logging'[u] : logging'[u][i].no \in 1 .. count + 1
      <3>1. ASSUME NEW u \in Thread, NEW i \in DOMAIN logging'[u], logging'[u] = logging[u]
            PROVE  logging'[u][i].no \in 1 .. count + 1
        BY <1>1, <3>1 DEF IInv, Numbered
      <3>2. ASSUME NEW u \in Thread, NEW i \in DOMAIN logging'[u], logging'[u] = <<e>>
            PROVE  logging'[u][i].no \in 1 .. count + 1
        BY <1>3, <3>2
      <3> QED BY <1>7, <3>1, <3>2
    <2>2. ASSUME NEW n, n \in 1 .. count PROVE n \in 1 .. count + 1
      BY <1>1, <2>2
    <2>3. count + 1 <= setting.events
      BY <1>1
    <2>4. \A i \in DOMAIN table : table[i].no <= count + 1
      <3>1. \A f \in Event : f.no \in Nat
        BY <1>1 DEF Event
      <3>2. \A i \in DOMAIN table : table[i] \in Event /\ table[i].no <= count
        BY DEF IInv, LogTypeOK, Numbered
      <3> QED BY <1>1, <3>1, <3>2
    <2> QED BY <1>2, <2>1, <2>2, <2>3, <2>4 DEF IInv, Numbered
  <1>10. OneAudit'
    <2>1. kind = "audit" => \A u \in Thread : logging[u] # <<>> => logging[u][1].kind # "audit"
      BY DEF Log, MayLog, MonitorFree, InUse
    <2>2. 1 \in DOMAIN <<e>> /\ <<e>>[1] = e /\ logging[th] = <<>>
      BY DEF Log
    <2>3. CASE logging' = logging
      BY <2>3 DEF IInv, OneAudit
    <2>4. CASE logging' = [logging EXCEPT ![th] = <<e>>]
      <3>1. \A u \in Thread : logging'[u] = IF u = th THEN <<e>> ELSE logging[u]
        BY <1>1, <1>5, <2>4
      <3> QED BY <1>3, <2>1, <2>2, <3>1 DEF IInv, OneAudit
    <2> QED BY <1>4, <2>3, <2>4
  <1>11. WayInOrder'
    <2>1. \A u \in Thread :
            Ahead(table, logging'[u]) /\ Ahead(writing, logging'[u]) /\ Ahead(queue, logging'[u])
      BY <1>3, <1>7 DEF IInv, WayInOrder
    <2> QED BY <1>2, <2>1 DEF IInv, WayInOrder
  <1> QED BY <1>8, <1>9, <1>10, <1>11 DEF IInv

LEMMA PutKeeps ==
  ASSUME IInv, NEW th \in Thread, Put(th)
  PROVE  IInv'
  <1>1. /\ queue' = queue \o logging[th] /\ logging' = [logging EXCEPT ![th] = <<>>]
        /\ setting' = setting /\ writing' = writing /\ table' = table
        /\ count' = count /\ lost' = lost
        /\ logging[th] # <<>> /\ QueueSize - Len(queue) > 0
    BY DEF Put, Room
  <1>2. /\ logging \in [Thread -> {<<>>} \cup {<<f>> : f \in Event}]
        /\ queue \in Seq(Event) /\ QueueSize \in Nat
    BY SizeAssumption DEF IInv, LogTypeOK
  <1>3. PICK e \in Event : logging[th] = <<e>>
    BY <1>1, <1>2
  <1>4. /\ \A u \in Thread : logging'[u] = IF u = th THEN <<>> ELSE logging[u]
        /\ logging' \in [Thread -> {<<>>} \cup {<<f>> : f \in Event}]
    BY <1>1, <1>2
  <1>5. 1 \in DOMAIN <<e>> /\ <<e>>[1] = e
    OBVIOUS
  <1>6. /\ queue' \in Seq(Event) /\ Len(queue') <= QueueSize
        /\ \A i \in DOMAIN queue' : (i \in DOMAIN queue /\ queue'[i] = queue[i]) \/ queue'[i] = e
    <2>1. /\ queue \o <<e>> \in Seq(Event) /\ Len(queue \o <<e>>) = Len(queue) + 1
          /\ \A i \in DOMAIN (queue \o <<e>>) :
               (i \in DOMAIN queue /\ (queue \o <<e>>)[i] = queue[i]) \/ (queue \o <<e>>)[i] = e
      BY <1>2, AppendedIs
    <2>2. Len(queue) \in Nat
      BY <1>2
    <2> QED BY <1>1, <1>2, <1>3, <2>1, <2>2
  <1>7. LogTypeOK'
    BY <1>1, <1>4, <1>6 DEF IInv, LogTypeOK
  <1>8. Numbered'
    <2>1. e.no \in 1 .. count
      BY <1>3, <1>5 DEF IInv, Numbered
    <2>2. \A i \in DOMAIN queue' : queue'[i].no \in 1 .. count
      BY <1>6, <2>1 DEF IInv, Numbered
    <2>3. \A u \in Thread : \A i \in DOMAIN logging'[u] : logging'[u][i].no \in 1 .. count
      BY <1>4 DEF IInv, Numbered
    <2> QED BY <1>1, <2>2, <2>3 DEF IInv, Numbered
  <1>9. OneAudit'
    BY <1>4 DEF IInv, OneAudit
  <1>10. WayInOrder'
    <2>1. Ahead(table, <<e>>) /\ Ahead(writing, <<e>>) /\ Ahead(queue, <<e>>)
      BY <1>3 DEF IInv, WayInOrder
    <2>2. InOrder(queue')
      BY <1>1, <1>2, <1>3, <2>1, AppendInOrder DEF IInv, WayInOrder
    <2>3. Ahead(table, queue') /\ Ahead(writing, queue')
      BY <1>1, <1>2, <1>3, <2>1, AppendAhead DEF IInv, WayInOrder
    <2>4. ASSUME NEW u \in Thread
          PROVE  Ahead(table, logging'[u]) /\ Ahead(writing, logging'[u]) /\ Ahead(queue', logging'[u])
      <3>1. CASE u = th
        BY <1>4, <3>1, EmptyAhead
      <3>2. CASE u # th
        <4>1. logging'[u] = logging[u]
          BY <1>4, <3>2
        <4>2. Ahead(table, logging[u]) /\ Ahead(writing, logging[u]) /\ Ahead(queue, logging[u])
          BY DEF IInv, WayInOrder
        <4>3. Ahead(<<e>>, logging[u])
          <5>1. logging[u] = <<>> \/ \E f \in Event : logging[u] = <<f>>
            BY <1>2
          <5>2. ASSUME NEW f \in Event, logging[u] = <<f>>
                PROVE  Ahead(<<e>>, logging[u])
            <6>1. <<f>> # <<>> /\ <<f>>[1] = f /\ \A i \in DOMAIN <<f>> : <<f>>[i] = f
              OBVIOUS
            <6>2. \A i \in DOMAIN <<e>> : <<e>>[i] = e
              OBVIOUS
            <6>3. ~(e.kind = "audit" /\ f.kind = "audit")
              BY <1>1, <1>3, <1>5, <3>2, <5>2, <6>1 DEF IInv, OneAudit
            <6> QED BY <5>2, <6>1, <6>2, <6>3 DEF Ahead, Follows
          <5> QED BY <5>1, <5>2, EmptyAhead
        <4>4. Ahead(queue', logging[u])
          BY <1>1, <1>2, <1>3, <4>2, <4>3, AppendAhead
        <4> QED BY <4>1, <4>2, <4>4
      <3> QED BY <3>1, <3>2
    <2> QED BY <1>1, <2>2, <2>3, <2>4 DEF IInv, WayInOrder
  <1> QED BY <1>7, <1>8, <1>9, <1>10 DEF IInv

LEMMA TakeKeeps ==
  ASSUME IInv, Take
  PROVE  IInv'
  <1>1. /\ writing = <<>> /\ queue # <<>> /\ writing' = <<Head(queue)>> /\ queue' = Tail(queue)
        /\ setting' = setting /\ logging' = logging /\ table' = table
        /\ count' = count /\ lost' = lost
    BY DEF Take
  <1>2. queue \in Seq(Event) /\ Len(queue) <= QueueSize
    BY DEF IInv, LogTypeOK
  <1>3. /\ Head(queue) \in Event /\ Tail(queue) \in Seq(Event) /\ Len(Tail(queue)) = Len(queue) - 1
        /\ 1 \in DOMAIN queue /\ Head(queue) = queue[1]
        /\ \A i \in DOMAIN Tail(queue) : i + 1 \in DOMAIN queue /\ Tail(queue)[i] = queue[i + 1]
    BY <1>1, <1>2, TailIs
  <1>4. LogTypeOK'
    <2>1. Len(queue') <= QueueSize
      BY <1>1, <1>2, <1>3, SizeAssumption
    <2>2. writing' \in {<<>>} \cup {<<f>> : f \in Event}
      BY <1>1, <1>3
    <2> QED BY <1>1, <1>3, <2>1, <2>2 DEF IInv, LogTypeOK
  <1>5. Numbered'
    <2>1. \A i \in DOMAIN queue' : queue'[i].no \in 1 .. count
      BY <1>1, <1>3 DEF IInv, Numbered
    <2>2. \A i \in DOMAIN <<Head(queue)>> : <<Head(queue)>>[i] = queue[1]
      BY <1>3
    <2>3. \A i \in DOMAIN writing' : writing'[i].no \in 1 .. count
      BY <1>1, <1>3, <2>2 DEF IInv, Numbered
    <2> QED BY <1>1, <2>1, <2>3 DEF IInv, Numbered
  <1>6. OneAudit'
    BY <1>1 DEF IInv, OneAudit
  <1>7. WayInOrder'
    <2>1. InOrder(queue') /\ Ahead(writing', queue')
      BY <1>1, <1>2, TailInOrder DEF IInv, WayInOrder
    <2>2. Ahead(table, queue') /\ Ahead(table, writing')
      BY <1>1, <1>2, TailAhead DEF IInv, WayInOrder
    <2>3. \A th \in Thread : Ahead(queue', logging[th]) /\ Ahead(writing', logging[th])
      BY <1>1, <1>2, TailAhead DEF IInv, WayInOrder
    <2> QED BY <1>1, <2>1, <2>2, <2>3 DEF IInv, WayInOrder
  <1> QED BY <1>4, <1>5, <1>6, <1>7 DEF IInv

\* The two ends of an insert.
Written ==
  /\ writing # <<>> /\ writing' = <<>> /\ table' = table \o writing
  /\ setting' = setting /\ logging' = logging /\ queue' = queue
  /\ count' = count /\ lost' = lost
Dropped ==
  /\ writing # <<>> /\ writing' = <<>> /\ table' = table
  /\ setting' = setting /\ logging' = logging /\ queue' = queue
  /\ count' = count /\ lost' = lost \cup {e.no : e \in ToSet(writing)}

LEMMA WrittenKeeps ==
  ASSUME IInv, Written
  PROVE  IInv'
  <1>1. /\ writing # <<>> /\ writing' = <<>> /\ table' = table \o writing
        /\ setting' = setting /\ logging' = logging /\ queue' = queue
        /\ count' = count /\ lost' = lost
    BY DEF Written
  <1>2. table \in Seq(Event)
    BY DEF IInv, LogTypeOK
  <1>3. PICK e \in Event : writing = <<e>>
    BY <1>1 DEF IInv, LogTypeOK
  <1>4. /\ table' \in Seq(Event)
        /\ \A i \in DOMAIN table' : (i \in DOMAIN table /\ table'[i] = table[i]) \/ table'[i] = e
    BY <1>1, <1>2, <1>3, AppendedIs
  <1>5. LogTypeOK'
    BY <1>1, <1>4 DEF IInv, LogTypeOK
  <1>6. Numbered'
    <2>1. 1 \in DOMAIN <<e>> /\ <<e>>[1] = e
      OBVIOUS
    <2>2. e.no \in 1 .. count
      BY <1>3, <2>1 DEF IInv, Numbered
    <2>3. e.no <= count
      BY <2>2
    <2>4. \A i \in DOMAIN table' : table'[i].no <= count
      BY <1>4, <2>3 DEF IInv, Numbered
    <2> QED BY <1>1, <2>4 DEF IInv, Numbered
  <1>7. OneAudit'
    BY <1>1 DEF IInv, OneAudit
  <1>8. WayInOrder'
    <2>1. InOrder(table')
      BY <1>1, <1>2, <1>3, AppendInOrder DEF IInv, WayInOrder
    <2>2. Ahead(table', queue)
      BY <1>1, <1>2, <1>3, AppendAhead DEF IInv, WayInOrder
    <2>3. \A th \in Thread : Ahead(table', logging[th])
      BY <1>1, <1>2, <1>3, AppendAhead DEF IInv, WayInOrder
    <2> QED BY <1>1, <2>1, <2>2, <2>3, EmptyAhead DEF IInv, WayInOrder
  <1> QED BY <1>5, <1>6, <1>7, <1>8 DEF IInv

LEMMA DroppedKeeps ==
  ASSUME IInv, Dropped
  PROVE  IInv'
  <1>1. /\ writing' = <<>> /\ table' = table /\ setting' = setting /\ logging' = logging
        /\ queue' = queue /\ count' = count /\ lost' = lost \cup {e.no : e \in ToSet(writing)}
    BY DEF Dropped
  <1>2. \A e \in ToSet(writing) : e.no \in 1 .. count
    BY DEF ToSet, IInv, Numbered
  <1>3. LogTypeOK'
    <2>1. lost' \subseteq 1 .. count
      BY <1>1, <1>2 DEF IInv, LogTypeOK
    <2> QED BY <1>1, <2>1 DEF IInv, LogTypeOK
  <1>4. Numbered'
    BY <1>1 DEF IInv, Numbered
  <1>5. OneAudit'
    BY <1>1 DEF IInv, OneAudit
  <1>6. WayInOrder'
    BY <1>1, EmptyAhead DEF IInv, WayInOrder
  <1> QED BY <1>3, <1>4, <1>5, <1>6 DEF IInv

LEMMA InsertKeeps ==
  ASSUME IInv, Insert
  PROVE  IInv'
  <1>1. Written \/ Dropped
    BY DEF Insert, Written, Dropped
  <1> QED BY <1>1, WrittenKeeps, DroppedKeeps

LEMMA CrashKeeps ==
  ASSUME IInv, Crash
  PROVE  IInv'
  <1>1. /\ logging' = [th \in Thread |-> <<>>] /\ queue' = <<>> /\ writing' = <<>>
        /\ setting' = setting /\ table' = table /\ count' = count
        /\ lost' = lost \cup {e.no : e \in InFlight}
    BY DEF Crash
  <1>2. \A e \in InFlight : e.no \in 1 .. count
    BY DEF InFlight, ToSet, IInv, Numbered
  <1>3. LogTypeOK'
    <2>1. queue' \in Seq(Event) /\ Len(queue') <= QueueSize
      BY <1>1, SizeAssumption
    <2>2. lost' \subseteq 1 .. count
      BY <1>1, <1>2 DEF IInv, LogTypeOK
    <2> QED BY <1>1, <2>1, <2>2 DEF IInv, LogTypeOK
  <1>4. Numbered'
    BY <1>1 DEF IInv, Numbered
  <1>5. OneAudit'
    BY <1>1 DEF OneAudit
  <1>6. WayInOrder'
    BY <1>1, EmptyAhead DEF IInv, WayInOrder
  <1> QED BY <1>3, <1>4, <1>5, <1>6 DEF IInv

\* The line the request for the audit page writes is not one of its own lines.
LEMMA AuditLineKeeps ==
  ASSUME IInv, AuditLine,
         UNCHANGED <<setting, logging, writing, table, lost>>
  PROVE  IInv'
  <1> DEFINE e == NewEvent("info", 1)
  <1>1. CASE UNCHANGED <<queue, count>>
    BY <1>1 DEF IInv, LogTypeOK, Numbered, OneAudit, WayInOrder
  <1>2. CASE /\ count # setting.events /\ Room > 0
             /\ queue' = Append(queue, e) /\ count' = count + 1
    <2>1. /\ count \in Nat /\ count < setting.events /\ setting.events \in 0 .. MaxEvents
          /\ MaxEvents \in Nat /\ queue \in Seq(Event) /\ QueueSize \in Nat
          /\ Len(queue) < QueueSize /\ Len(queue) \in Nat
      BY <1>2, SettingIs, SizeAssumption DEF IInv, LogTypeOK, Numbered, Room
    <2>2. /\ e \in Event /\ e.no \in 1 .. count + 1 /\ e.kind = "info"
          /\ Ahead(table, <<e>>) /\ Ahead(writing, <<e>>) /\ Ahead(queue, <<e>>)
      BY <2>1, NewFollows DEF Kind, Key
    <2> HIDE DEF e
    <2>3. /\ queue' = queue \o <<e>> /\ queue' \in Seq(Event) /\ Len(queue') = Len(queue) + 1
          /\ \A i \in DOMAIN queue' : (i \in DOMAIN queue /\ queue'[i] = queue[i]) \/ queue'[i] = e
      <3>1. queue' = Append(queue, e)
        BY <1>2 DEF e
      <3>2. queue \o <<e>> = Append(queue, e)
        BY <2>1, <2>2, AppendedIs
      <3>3. queue' = queue \o <<e>>
        BY <3>1, <3>2
      <3> QED BY <2>1, <2>2, <3>3, AppendedIs
    <2>4. LogTypeOK'
      BY <1>2, <2>1, <2>3 DEF IInv, LogTypeOK
    <2>5. Numbered'
      <3>1. \A n \in 1 .. count : n \in 1 .. count + 1
        BY <2>1
      <3>2. \A i \in DOMAIN queue' : queue'[i].no \in 1 .. count + 1
        BY <2>2, <2>3, <3>1 DEF IInv, Numbered
      <3>3. \A i \in DOMAIN table : table[i].no <= count + 1
        <4>1. \A f \in Event : f.no \in Nat
          BY <2>1 DEF Event
        <4>2. \A i \in DOMAIN table : table[i] \in Event /\ table[i].no <= count
          BY DEF IInv, LogTypeOK, Numbered
        <4> QED BY <2>1, <4>1, <4>2
      <3>4. count + 1 <= setting.events
        BY <2>1
      <3> QED BY <1>2, <3>1, <3>2, <3>3, <3>4 DEF IInv, Numbered
    <2>6. OneAudit'
      BY DEF IInv, OneAudit
    <2>7. WayInOrder'
      <3>1. InOrder(queue') /\ Ahead(table, queue') /\ Ahead(writing, queue')
        BY <2>1, <2>2, <2>3, AppendInOrder, AppendAhead DEF IInv, WayInOrder
      <3>2. \A th \in Thread : Ahead(<<e>>, logging[th])
        <4>1. \A i \in DOMAIN <<e>> : <<e>>[i] = e
          OBVIOUS
        <4> QED BY <2>2, <4>1 DEF Ahead, Follows
      <3>3. \A th \in Thread : Ahead(queue', logging[th])
        BY <2>1, <2>2, <2>3, <3>2, AppendAhead DEF IInv, WayInOrder
      <3> QED BY <3>1, <3>3 DEF IInv, WayInOrder
    <2> QED BY <2>4, <2>5, <2>6, <2>7 DEF IInv
  <1> QED BY <1>1, <1>2 DEF AuditLine

LEMMA ReaderKeeps ==
  ASSUME IInv, UNCHANGED <<setting, logVars>>
  PROVE  IInv'
  BY DEF logVars, IInv, LogTypeOK, Numbered, OneAudit, WayInOrder

LEMMA BrowseKeeps ==
  ASSUME IInv, Browse
  PROVE  IInv'
  <1>1. /\ AuditLine \/ UNCHANGED <<queue, count>>
        /\ UNCHANGED <<setting, logging, writing, table, lost>>
    BY DEF Browse, Open, Follow
  <1>2. CASE AuditLine
    BY <1>1, <1>2, AuditLineKeeps
  <1>3. CASE UNCHANGED <<queue, count>>
    BY <1>1, <1>3 DEF IInv, LogTypeOK, Numbered, OneAudit, WayInOrder
  <1> QED BY <1>1, <1>2, <1>3

-----------------------------------------------------------------------------
(* Theorems *)

(***************************************************************************)
(* From the thread that logs it over the queue of AsyncAppender to its row *)
(* no line of the audit page overtakes another, and the queue never holds  *)
(* more than its capacity.                                                 *)
(***************************************************************************)
THEOREM InductiveInvariant == Spec => []IInv
  <1>1. Init => IInv
    BY InitIsOrdered
  <1>2. IInv /\ [Next]_vars => IInv'
    <2> SUFFICES ASSUME IInv, [Next]_vars PROVE IInv'
      OBVIOUS
    <2>1. CASE Logger
      BY <2>1, LogKeeps DEF Logger
    <2>2. CASE Handover
      BY <2>2, PutKeeps DEF Handover
    <2>3. CASE Take
      BY <2>3, TakeKeeps
    <2>4. CASE Insert
      BY <2>4, InsertKeeps
    <2>5. CASE Crash
      BY <2>5, CrashKeeps
    <2>6. CASE Browse
      BY <2>6, BrowseKeeps
    <2>7. CASE Read
      <3>1. UNCHANGED <<setting, logVars>>
        BY <2>7 DEF Read, ReadContent, ReadTotal, ReadAgain
      <3> QED BY <3>1, ReaderKeeps
    <2>8. CASE UNCHANGED vars
      <3>1. UNCHANGED <<setting, logVars>>
        BY <2>8 DEF vars, logVars
      <3> QED BY <3>1, ReaderKeeps
    <2> QED BY <2>1, <2>2, <2>3, <2>4, <2>5, <2>6, <2>7, <2>8 DEF Next, Worker
  <1> QED BY <1>1, <1>2, PTL DEF Spec

(***************************************************************************)
(* The lines of the audit page are in the order in which the methods wrote *)
(* them, for any number of threads and any capacity of the queue: a method *)
(* of TombolaService hands its line over before it leaves its monitor.     *)
(***************************************************************************)
THEOREM LinesInOrder == Spec => []AuditInOrder
  <1>1. IInv => AuditInOrder
    BY DEF IInv, WayInOrder, InOrder, Follows, AuditInOrder
  <1> QED BY <1>1, InductiveInvariant, PTL

-----------------------------------------------------------------------------
(* The rows of a page *)

\* The order of the rows, which the id always decides.
Sorts(tb, srt, i, j) ==
  CASE srt = "idU" -> i < j
    [] srt = "idD" -> j < i
    [] srt = "kU" -> tb[i].key < tb[j].key \/ (tb[i].key = tb[j].key /\ i < j)
    [] srt = "kD" -> tb[j].key < tb[i].key \/ (tb[i].key = tb[j].key /\ j < i)

SelectedIn(tb, view, levels, upTo) ==
  {i \in 1 .. upTo : IF view = "audit" THEN tb[i].kind = "audit"
                                       ELSE Level(tb[i].kind) \in levels}

\* The rows before x, and the rows of S in their order.
Prior(tb, S, srt, x) == {y \in S : Sorts(tb, srt, y, x)}
Rank(tb, S, srt, x) == Cardinality(Prior(tb, S, srt, x))
Sorted(tb, S, srt) ==
  [k \in 1 .. Cardinality(S) |-> CHOOSE x \in S : Rank(tb, S, srt, x) = k - 1]

\* Rows are added at the end.
Grows(tb, new) == Len(tb) <= Len(new) /\ \A i \in 1 .. Len(tb) : new[i] = tb[i]

LEMMA SortsStrictly ==
  ASSUME NEW tb \in Seq(Event), NEW srt \in Srt
  PROVE  /\ \A i \in DOMAIN tb : ~Sorts(tb, srt, i, i)
         /\ \A i, j \in DOMAIN tb : i = j \/ Sorts(tb, srt, i, j) \/ Sorts(tb, srt, j, i)
         /\ \A i, j, k \in DOMAIN tb :
              Sorts(tb, srt, i, j) /\ Sorts(tb, srt, j, k) => Sorts(tb, srt, i, k)
         /\ \A i, j \in DOMAIN tb : ~(Sorts(tb, srt, i, j) /\ Sorts(tb, srt, j, i))
  <1>1. \A i \in DOMAIN tb : i \in Int /\ tb[i].key \in Int
    <2>1. \A e \in Event : e.key \in Int
      BY DEF Event, Key
    <2>2. QED
      BY <2>1
  <1> HIDE DEF Event
  <1>2. CASE srt = "idU"
    BY <1>1, <1>2 DEF Sorts
  <1>3. CASE srt = "idD"
    BY <1>1, <1>3 DEF Sorts
  <1>4. CASE srt = "kU"
    BY <1>1, <1>4 DEF Sorts
  <1>5. CASE srt = "kD"
    BY <1>1, <1>5 DEF Sorts
  <1>6. QED
    BY <1>2, <1>3, <1>4, <1>5 DEF Srt

LEMMA AppendedTuple ==
  /\ \A q, r : DOMAIN Append(<<q>>, r) = {1, 2}
       /\ Append(<<q>>, r)[1] = q /\ Append(<<q>>, r)[2] = r
  /\ \A q, r, s : DOMAIN Append(<<q, r>>, s) = {1, 2, 3}
       /\ Append(<<q, r>>, s)[1] = q /\ Append(<<q, r>>, s)[2] = r /\ Append(<<q, r>>, s)[3] = s
  <1>1. ASSUME NEW q, NEW r
        PROVE  /\ DOMAIN Append(<<q>>, r) = {1, 2}
               /\ Append(<<q>>, r)[1] = q /\ Append(<<q>>, r)[2] = r
    <2>1. <<q>> \in Seq({q, r})
      OBVIOUS
    <2>2. DOMAIN Append(<<q>>, r) = 1 .. 2
      BY <2>1, AppendProperties
    <2>3. 1 .. 2 = {1, 2}
      OBVIOUS
    <2>4. QED
      BY <2>1, <2>2, <2>3, AppendProperties
  <1>2. ASSUME NEW q, NEW r, NEW s
        PROVE  /\ DOMAIN Append(<<q, r>>, s) = {1, 2, 3}
               /\ Append(<<q, r>>, s)[1] = q /\ Append(<<q, r>>, s)[2] = r
               /\ Append(<<q, r>>, s)[3] = s
    <2>1. <<q, r>> \in Seq({q, r, s})
      OBVIOUS
    <2>2. DOMAIN Append(<<q, r>>, s) = 1 .. 3
      BY <2>1, AppendProperties
    <2>3. 1 .. 3 = {1, 2, 3}
      OBVIOUS
    <2>4. QED
      BY <2>1, <2>2, <2>3, AppendProperties
  <1>3. QED
    BY <1>1, <1>2

(***************************************************************************)
(* Whatever the database does with rows an order does not tell apart: both *)
(* views sort by the id last, and there are none.                          *)
(***************************************************************************)
LEMMA PrecedesIs ==
  ASSUME table \in Seq(Event), NEW view \in View, NEW srt \in Srt, NEW tie \in {"asc", "desc"},
         NEW i \in DOMAIN table, NEW j \in DOMAIN table
  PROVE  Precedes(Append(OrderOf(view, srt), By("id", tie)), i, j) <=> Sorts(table, srt, i, j)
  <1> DEFINE o == OrderOf(view, srt)
             last == By("id", tie)
             p == Append(o, last)
  <1>1. i \in Int /\ j \in Int /\ table[i].key \in Int /\ table[j].key \in Int
    <2>1. \A e \in Event : e.key \in Int
      BY DEF Event, Key
    <2>2. table[i] \in Event /\ table[j] \in Event
      OBVIOUS
    <2>3. i \in Int /\ j \in Int
      OBVIOUS
    <2>4. QED
      BY <2>1, <2>2, <2>3
  <1>2. /\ By("id", "asc").column = "id" /\ By("id", "asc").dir = "asc"
        /\ By("id", "desc").column = "id" /\ By("id", "desc").dir = "desc"
        /\ By("key", "asc").column = "key" /\ By("key", "asc").dir = "asc"
        /\ By("key", "desc").column = "key" /\ By("key", "desc").dir = "desc"
    BY DEF By
  <1>3. /\ \A a, b : Before(By("id", "asc"), a, b) <=> a < b
        /\ \A a, b : Before(By("id", "desc"), a, b) <=> b < a
        /\ \A a, b : Before(By("key", "asc"), a, b) <=> table[a].key < table[b].key
        /\ \A a, b : Before(By("key", "desc"), a, b) <=> table[b].key < table[a].key
    BY <1>2 DEF Before
  <1>4. last = By("id", "asc") \/ last = By("id", "desc")
    OBVIOUS
  <1>5. CASE srt \in {"idU", "idD"}
    <2> DEFINE x == IF srt = "idU" THEN By("id", "asc") ELSE By("id", "desc")
    <2>1. SortByParam(srt) = <<x>>
      BY <1>5 DEF SortByParam
    <2>2. OneDirection(<<x>>) = <<x>>
      <3>1. \A q : DOMAIN <<q>> = {1} /\ <<q>>[1] = q
        OBVIOUS
      <3>2. x.column = "id" /\ (x.dir = "asc" \/ x.dir = "desc") /\ x = By("id", x.dir)
        BY <1>2 DEF By
      <3> HIDE DEF x
      <3>3. OneDirection(<<x>>) = [k \in {1} |-> By("id", x.dir)]
        <4>1. (IF \E k \in DOMAIN <<x>> : <<x>>[k].dir = "desc" THEN "desc" ELSE "asc") = x.dir
          BY <3>1, <3>2
        <4>2. OneDirection(<<x>>) = [k \in DOMAIN <<x>> |-> By(<<x>>[k].column, x.dir)]
          BY <4>1 DEF OneDirection
        <4>3. QED
          BY <3>1, <3>2, <4>2
      <3>4. <<x>> = [k \in {1} |-> x]
        OBVIOUS
      <3>5. QED
        BY <3>2, <3>3, <3>4
    <2>3. o = <<x>>
      BY <2>1, <2>2 DEF OrderOf
    <2>4. p = Append(<<x>>, last)
      BY <2>3
    <2> HIDE DEF x, last, o, p
    <2>5. DOMAIN p = {1, 2} /\ p[1] = x /\ p[2] = last
      BY <2>4, AppendedTuple
    <2>6. Precedes(p, i, j) <=>
            Before(x, i, j) \/ (~Before(x, i, j) /\ ~Before(x, j, i) /\ Before(last, i, j))
      <3>1. 1 .. 1 - 1 = {} /\ 1 .. 2 - 1 = {1}
        OBVIOUS
      <3>2. QED
        BY <2>5, <3>1 DEF Precedes
    <2>7. Precedes(p, i, j) <=> Before(x, i, j)
      BY <1>1, <1>3, <1>4, <2>6 DEF x
    <2>8. QED
      BY <1>3, <1>5, <2>7 DEF x, p, o, last, Sorts
  <1>6. CASE srt \in {"kU", "kD"}
    <2> DEFINE d == IF srt = "kU" THEN "asc" ELSE "desc"
               x == By("key", d)
               y == By("id", d)
    <2>1. SortByParam(srt) = <<x, y>>
      BY <1>6 DEF SortByParam
    <2>2. OneDirection(<<x, y>>) = <<x, y>>
      <3>1. x.column = "key" /\ x.dir = d /\ y.column = "id" /\ y.dir = d
        BY DEF By
      <3>2. d = "asc" \/ d = "desc"
        OBVIOUS
      <3>3. \A q, r : DOMAIN <<q, r>> = {1, 2} /\ <<q, r>>[1] = q /\ <<q, r>>[2] = r
        OBVIOUS
      <3> HIDE DEF d
      <3>4. x = By("key", d) /\ y = By("id", d)
        OBVIOUS
      <3> HIDE DEF x, y
      <3>5. (IF \E k \in DOMAIN <<x, y>> : <<x, y>>[k].dir = "desc" THEN "desc" ELSE "asc") = d
        BY <3>1, <3>2, <3>3
      <3>6. OneDirection(<<x, y>>) = [k \in {1, 2} |-> By(<<x, y>>[k].column, d)]
        BY <3>3, <3>5 DEF OneDirection
      <3>7. \A k \in {1, 2} : By(<<x, y>>[k].column, d) = <<x, y>>[k]
        BY <3>1, <3>3, <3>4
      <3>8. OneDirection(<<x, y>>) = [k \in {1, 2} |-> <<x, y>>[k]]
        BY <3>6, <3>7
      <3>9. <<x, y>> = [k \in {1, 2} |-> <<x, y>>[k]]
        OBVIOUS
      <3>10. QED
        BY <3>8, <3>9
    <2>3. o = <<x, y>>
      BY <2>1, <2>2 DEF OrderOf
    <2>4. p = Append(<<x, y>>, last)
      BY <2>3
    <2>5. \/ srt = "kU" /\ x = By("key", "asc") /\ y = By("id", "asc")
          \/ srt = "kD" /\ x = By("key", "desc") /\ y = By("id", "desc")
      BY <1>6
    <2> HIDE DEF x, y, last, o, p
    <2>6. DOMAIN p = {1, 2, 3} /\ p[1] = x /\ p[2] = y /\ p[3] = last
      BY <2>4, AppendedTuple
    <2>7. Precedes(p, i, j) <=>
            \/ Before(x, i, j)
            \/ ~Before(x, i, j) /\ ~Before(x, j, i) /\ Before(y, i, j)
            \/ /\ ~Before(x, i, j) /\ ~Before(x, j, i) /\ ~Before(y, i, j) /\ ~Before(y, j, i)
               /\ Before(last, i, j)
      <3>1. 1 .. 1 - 1 = {} /\ 1 .. 2 - 1 = {1} /\ 1 .. 3 - 1 = {1, 2}
        OBVIOUS
      <3>2. QED
        BY <2>6, <3>1 DEF Precedes
    <2>8. Before(y, i, j) \/ Before(y, j, i) \/ ~Before(last, i, j)
      BY <1>1, <1>3, <1>4, <2>5
    <2>9. Precedes(p, i, j) <=>
            Before(x, i, j) \/ (~Before(x, j, i) /\ Before(y, i, j))
      BY <2>7, <2>8
    <2>10. CASE srt = "kU"
      BY <1>1, <1>3, <2>5, <2>9, <2>10 DEF p, o, last, Sorts
    <2>11. CASE srt = "kD"
      BY <1>1, <1>3, <2>5, <2>9, <2>11 DEF p, o, last, Sorts
    <2>12. QED
      BY <1>6, <2>10, <2>11
  <1>7. QED
    BY <1>5, <1>6 DEF Srt

(***************************************************************************)
(* So each query has one answer.                                           *)
(***************************************************************************)
LEMMA OrderingsAre ==
  ASSUME table \in Seq(Event), NEW view \in View, NEW srt \in Srt, NEW S \in SUBSET DOMAIN table
  PROVE  Orderings(S, OrderOf(view, srt)) = {Sorted(table, S, srt)}
  <1> DEFINE P(tie, i, j) == Precedes(Append(OrderOf(view, srt), By("id", tie)), i, j)
             L(tie) == [k \in 1 .. Cardinality(S) |->
                          CHOOSE x \in S : Cardinality({y \in S : P(tie, y, x)}) = k - 1]
  <1>1. Orderings(S, OrderOf(view, srt)) = {L(tie) : tie \in {"asc", "desc"}}
    BY DEF Orderings, Ordered
  <1>2. ASSUME NEW tie \in {"asc", "desc"} PROVE L(tie) = Sorted(table, S, srt)
    <2>1. ASSUME NEW i \in S, NEW j \in S PROVE P(tie, i, j) <=> Sorts(table, srt, i, j)
      BY PrecedesIs
    <2> HIDE DEF P
    <2>2. \A x \in S : {y \in S : P(tie, y, x)} = {y \in S : Sorts(table, srt, y, x)}
      BY <2>1
    <2>3. \A x \in S : Cardinality({y \in S : P(tie, y, x)}) = Rank(table, S, srt, x)
      BY <2>2 DEF Rank, Prior
    <2> DEFINE Q(x) == Cardinality({y \in S : P(tie, y, x)})
               R(x) == Rank(table, S, srt, x)
    <2>4. \A x \in S : Q(x) = R(x)
      BY <2>3
    <2>5. /\ L(tie) = [k \in 1 .. Cardinality(S) |-> CHOOSE x \in S : Q(x) = k - 1]
          /\ Sorted(table, S, srt) = [k \in 1 .. Cardinality(S) |-> CHOOSE x \in S : R(x) = k - 1]
      BY DEF Sorted
    <2> HIDE DEF L, Q, R
    <2>6. ASSUME NEW k
          PROVE (CHOOSE x \in S : Q(x) = k - 1) = (CHOOSE x \in S : R(x) = k - 1)
      <3>1. \A x : (x \in S /\ Q(x) = k - 1) <=> (x \in S /\ R(x) = k - 1)
        BY <2>4
      <3>2. QED
        BY <3>1, Zenon
    <2>7. QED
      BY <2>5, <2>6, Zenon
  <1> HIDE DEF L
  <1>3. QED
    BY <1>1, <1>2


-----------------------------------------------------------------------------
(* The page on the screen *)

\* The rows the view of r is about, in all of the table.
Now(tb, r) == SelectedIn(tb, r.view, r.levels, Len(tb))

FoundIn(tb) == {Level(tb[i].kind) : i \in DOMAIN tb}

Walk == [on : BOOLEAN, there : SUBSET Nat, shown : SUBSET Nat]
Unseen(w) == w.there \ w.shown

(***************************************************************************)
(* The types, and the levels tombolaLog selects: those of its filter, or   *)
(* with none some of those in the table.                                   *)
(***************************************************************************)
Typed(tb, r, w) ==
  /\ r \in Reader /\ w \in Walk
  /\ r.upTo <= Len(tb)
  /\ \A k \in DOMAIN r.ids : r.ids[k] \in DOMAIN tb
  /\ Len(r.ids) <= PageSize
  /\ w.on => w.there \cup w.shown \subseteq DOMAIN tb
  /\ IF r.filter = {} THEN r.levels \subseteq FoundIn(tb) ELSE r.levels = r.filter

\* The rows read are the page under whose number they stand.
ReadRight(tb, r) ==
  /\ r.at \in {"content", "total"} => r.page = r.asked
  /\ (r.at = "total" \/ (r.at = "shown" /\ (r.view = "audit" \/ r.page = r.asked))) =>
       r.ids = Slice(Sorted(tb, SelectedIn(tb, r.view, r.levels, r.upTo), r.srt), r.page)

\* The page and the last page are there: rows are added, never removed.
Paged(tb, r) ==
  /\ r.at = "total" /\ r.ids # <<>> =>
       r.page * PageSize + Len(r.ids) <= Cardinality(Now(tb, r))
  /\ r.at \in {"again", "shown"} =>
       r.page <= r.max /\ (r.max = 0 \/ r.max * PageSize < Cardinality(Now(tb, r)))

(***************************************************************************)
(* The rows that were there at the beginning of the walk, and are not      *)
(* shown yet, are on the pages to come; new rows push them only further.   *)
(***************************************************************************)
Later(tb, r, w, rank) == \A x \in Unseen(w) : rank <= Rank(tb, Now(tb, r), r.srt, x)

Walked(tb, r, w) ==
  w.on =>
    /\ w.there \subseteq Now(tb, r)
    /\ r.at = "content" => Later(tb, r, w, r.page * PageSize)
    /\ r.at \in {"total", "shown"} => Later(tb, r, w, r.page * PageSize + PageSize)
    /\ r.at = "total" /\ Len(r.ids) < PageSize => Unseen(w) = {}
    /\ r.at = "shown" /\ r.max <= r.page => Unseen(w) = {}

ReaderInv(tb, r, w) == Typed(tb, r, w) /\ ReadRight(tb, r) /\ Paged(tb, r) /\ Walked(tb, r, w)

ScreenInv == ReaderInv(table, reader, walk)

-----------------------------------------------------------------------------
(* Rows in their order *)

LEMMA PageSizeIs == PageSize \in Nat /\ PageSize > 0
  BY SizeAssumption

LEMMA RowsAreFinite ==
  ASSUME NEW tb \in Seq(Event), NEW S \in SUBSET DOMAIN tb
  PROVE  S \subseteq Nat /\ IsFiniteSet(S) /\ Cardinality(S) \in Nat
  <1>1. DOMAIN tb = 1 .. Len(tb) /\ Len(tb) \in Nat
    OBVIOUS
  <1>2. IsFiniteSet(1 .. Len(tb))
    BY <1>1, FS_Interval
  <1>3. IsFiniteSet(S)
    BY <1>1, <1>2, FS_Subset
  <1>4. QED
    BY <1>1, <1>3, FS_CardinalityType

(***************************************************************************)
(* Every rank below the number of rows is the rank of one row.             *)
(***************************************************************************)
LEMMA RanksAre ==
  ASSUME NEW tb \in Seq(Event), NEW srt \in Srt, NEW S \in SUBSET DOMAIN tb
  PROVE  /\ \A k \in 1 .. Cardinality(S) : \E x \in S : Rank(tb, S, srt, x) = k - 1
         /\ \A x \in S : Rank(tb, S, srt, x) \in 0 .. Cardinality(S) - 1
         /\ \A x, y \in S : Rank(tb, S, srt, x) = Rank(tb, S, srt, y) => x = y
  <1> DEFINE n == Cardinality(S)
             R(x) == Rank(tb, S, srt, x)
             P(x) == Prior(tb, S, srt, x)
             Bef(x, y) == Sorts(tb, srt, x, y)
  <1>1. n \in Nat /\ IsFiniteSet(S)
    BY RowsAreFinite
  <1>2. /\ \A x \in S : ~Bef(x, x)
        /\ \A x, y \in S : x = y \/ Bef(x, y) \/ Bef(y, x)
        /\ \A x, y, z \in S : Bef(x, y) /\ Bef(y, z) => Bef(x, z)
    BY SortsStrictly
  <1>3. \A x, y : y \in P(x) <=> y \in S /\ Bef(y, x)
    BY DEF Prior
  <1>4. \A x : R(x) = Cardinality(P(x))
    BY DEF Rank
  <1> HIDE DEF n, R, P, Bef
  <1>5. ASSUME NEW x \in S
        PROVE  IsFiniteSet(P(x)) /\ R(x) \in Nat /\ R(x) < n
    <2>1. P(x) \in SUBSET S /\ P(x) # S
      BY <1>2, <1>3
    <2>2. QED
      BY <1>1, <1>4, <2>1, FS_Subset, FS_CardinalityType DEF n
  <1>6. ASSUME NEW x \in S, NEW y \in S, Bef(x, y)
        PROVE  R(x) < R(y)
    <2>1. P(x) \in SUBSET P(y) /\ P(x) # P(y)
      BY <1>2, <1>3, <1>6
    <2>2. QED
      BY <1>4, <1>5, <2>1, FS_Subset
  <1>7. \A x, y \in S : R(x) = R(y) => x = y
    <2>1. SUFFICES ASSUME NEW x \in S, NEW y \in S, x # y PROVE R(x) # R(y)
      OBVIOUS
    <2>2. Bef(x, y) \/ Bef(y, x)
      BY <1>2, <2>1
    <2>3. R(x) \in Nat /\ R(y) \in Nat
      BY <1>5
    <2>4. QED
      BY <1>6, <2>2, <2>3
  <1> DEFINE rank == [x \in S |-> R(x) + 1]
  <1>8. rank \in [S -> 1 .. n]
    BY <1>1, <1>5
  <1>9. \A x, y \in S : rank[x] = rank[y] => x = y
    BY <1>5, <1>7
  <1>10. rank \in Injection(S, 1 .. n)
    BY <1>8, <1>9 DEF Injection, IsInjective
  <1>11. IsFiniteSet(1 .. n) /\ Cardinality(1 .. n) = n
    BY <1>1, FS_Interval
  <1>12. rank \in Surjection(S, 1 .. n)
    BY <1>10, <1>11, FS_Injection DEF n
  <1>13. ASSUME NEW k \in 1 .. n PROVE \E x \in S : R(x) = k - 1
    <2>1. PICK x \in S : rank[x] = k
      BY <1>12 DEF Surjection
    <2>2. R(x) + 1 = k /\ R(x) \in Nat
      BY <1>5, <2>1
    <2>3. QED
      BY <2>2
  <1>14. \A x \in S : R(x) \in 0 .. n - 1
    BY <1>1, <1>5
  <1>15. QED
    BY <1>7, <1>13, <1>14 DEF R, n

\* Sorted lists the rows of S, each at its rank.
LEMMA SortedLists ==
  ASSUME NEW tb \in Seq(Event), NEW srt \in Srt, NEW S \in SUBSET DOMAIN tb
  PROVE  /\ Sorted(tb, S, srt) \in Seq(S) /\ Len(Sorted(tb, S, srt)) = Cardinality(S)
         /\ \A x \in S : Sorted(tb, S, srt)[Rank(tb, S, srt, x) + 1] = x
  <1> DEFINE n == Cardinality(S)
             R(x) == Rank(tb, S, srt, x)
             s == Sorted(tb, S, srt)
  <1>1. n \in Nat
    BY RowsAreFinite
  <1>2. /\ \A k \in 1 .. n : \E x \in S : R(x) = k - 1
        /\ \A x \in S : R(x) \in 0 .. n - 1
        /\ \A x, y \in S : R(x) = R(y) => x = y
    BY RanksAre
  <1>3. s = [k \in 1 .. n |-> CHOOSE x \in S : R(x) = k - 1]
    BY DEF Sorted
  <1> HIDE DEF n, R, s
  <1>4. ASSUME NEW k \in 1 .. n PROVE s[k] \in S /\ R(s[k]) = k - 1
    <2>1. s[k] = CHOOSE x \in S : R(x) = k - 1
      BY <1>3
    <2>2. QED
      BY <1>2, <2>1
  <1>5. s \in [1 .. n -> S]
    BY <1>3, <1>4
  <1>6. s \in Seq(S) /\ Len(s) = n
    BY <1>1, <1>5
  <1>7. ASSUME NEW x \in S PROVE s[R(x) + 1] = x
    <2>1. R(x) \in 0 .. n - 1
      BY <1>2
    <2>2. PICK k \in 1 .. n : k = R(x) + 1
      BY <1>1, <2>1
    <2>3. s[k] \in S /\ R(s[k]) = R(x)
      <3>1. s[k] \in S /\ R(s[k]) = k - 1
        BY <1>4
      <3>2. k - 1 = R(x)
        BY <2>1, <2>2
      <3>3. QED
        BY <3>1, <3>2
    <2>4. \A y \in S : R(y) = R(x) => y = x
      BY <1>2
    <2>5. QED
      BY <2>2, <2>3, <2>4
  <1>8. QED
    BY <1>6, <1>7 DEF s, n, R

LEMMA MinIs ==
  ASSUME NEW a \in Int, NEW b \in Int
  PROVE  Min({a, b}) = IF a < b THEN a ELSE b
  <1> DEFINE m == IF a < b THEN a ELSE b
  <1>1. m \in {a, b} /\ m \in Int /\ \A y \in {a, b} : m <= y
    OBVIOUS
  <1> HIDE DEF m
  <1>2. ASSUME NEW x \in {a, b}, \A y \in {a, b} : x <= y PROVE x = m
    <2>1. x <= m /\ m <= x /\ x \in Int
      BY <1>1, <1>2
    <2>2. QED
      BY <1>1, <2>1
  <1>3. Min({a, b}) = m
    BY <1>1, <1>2 DEF Min
  <1>4. QED
    BY <1>3 DEF m

(***************************************************************************)
(* A page has the rows with its ranks, and is full unless it is the last.  *)
(***************************************************************************)
LEMMA SliceHas ==
  ASSUME NEW S, NEW s \in Seq(S), NEW page \in Nat
  PROVE  /\ Slice(s, page) \in Seq(S) /\ Len(Slice(s, page)) <= PageSize
         /\ Slice(s, page) # <<>> => page * PageSize + Len(Slice(s, page)) <= Len(s)
         /\ Len(Slice(s, page)) < PageSize => Len(s) < page * PageSize + PageSize
         /\ \A k \in 1 .. Len(s) : page * PageSize < k /\ k <= page * PageSize + PageSize =>
              \E l \in DOMAIN Slice(s, page) : Slice(s, page)[l] = s[k]
  <1> DEFINE n == Len(s)
             lo == page * PageSize
             hi == Min({Len(s), lo + PageSize})
             t == Slice(s, page)
  <1>1. n \in Nat /\ lo \in Nat /\ PageSize \in Nat /\ PageSize > 0
    BY PageSizeIs
  <1>2. t = SubSeq(s, lo + 1, hi)
    BY DEF Slice
  <1>3. DOMAIN s = 1 .. n /\ \A k \in 1 .. n : s[k] \in S
    OBVIOUS
  <1>4. hi = IF n < lo + PageSize THEN n ELSE lo + PageSize
    BY <1>1, MinIs
  <1> HIDE DEF n, lo, hi, t
  <1>5. hi \in Nat /\ hi <= n /\ hi <= lo + PageSize
    BY <1>1, <1>4
  <1>6. \A k \in lo + 1 .. hi : s[k] \in S
    BY <1>1, <1>3, <1>5
  <1>7. /\ t \in Seq(S)
        /\ Len(t) = IF lo + 1 <= hi THEN hi - (lo + 1) + 1 ELSE 0
        /\ \A l \in 1 .. hi - (lo + 1) + 1 : t[l] = s[lo + 1 + l - 1]
    BY <1>1, <1>2, <1>5, <1>6, SubSeqProperties
  <1>8. Len(t) = IF lo < hi THEN hi - lo ELSE 0
    BY <1>1, <1>5, <1>7
  <1>9. Len(t) <= PageSize /\ (Len(t) < PageSize => n < lo + PageSize)
    BY <1>1, <1>4, <1>5, <1>8
  <1>10. t # <<>> => lo + Len(t) <= n
    <2>1. t # <<>> => Len(t) # 0
      BY <1>7
    <2>2. QED
      BY <1>1, <1>5, <1>8, <2>1
  <1>11. ASSUME NEW k \in 1 .. n, lo < k, k <= lo + PageSize
         PROVE  \E l \in DOMAIN t : t[l] = s[k]
    <2>1. k <= hi /\ k \in Int
      BY <1>1, <1>4, <1>11
    <2>2. k - lo \in 1 .. hi - (lo + 1) + 1 /\ lo + 1 + (k - lo) - 1 = k
      BY <1>1, <1>5, <1>11, <2>1
    <2>3. t[k - lo] = s[k]
      BY <1>7, <2>2
    <2>4. k - lo \in DOMAIN t
      <3>1. DOMAIN t = 1 .. Len(t)
        BY <1>7
      <3>2. QED
        BY <1>1, <1>5, <1>8, <2>2, <3>1
    <2>5. QED
      BY <2>3, <2>4
  <1>12. QED
    BY <1>7, <1>9, <1>10, <1>11 DEF t, n, lo

(***************************************************************************)
(* The rows of a page of the rows of S.                                    *)
(***************************************************************************)
LEMMA PageHas ==
  ASSUME NEW tb \in Seq(Event), NEW srt \in Srt, NEW S \in SUBSET DOMAIN tb, NEW page \in Nat,
         NEW ids, ids = Slice(Sorted(tb, S, srt), page)
  PROVE  /\ ids \in Seq(S) /\ Len(ids) <= PageSize
         /\ ids # <<>> => page * PageSize + Len(ids) <= Cardinality(S)
         /\ Len(ids) < PageSize => \A x \in S : Rank(tb, S, srt, x) < page * PageSize + PageSize
         /\ \A x \in S : page * PageSize <= Rank(tb, S, srt, x) =>
              x \in ToSet(ids) \/ page * PageSize + PageSize <= Rank(tb, S, srt, x)
  <1> DEFINE n == Cardinality(S)
             R(x) == Rank(tb, S, srt, x)
             s == Sorted(tb, S, srt)
             lo == page * PageSize
  <1>1. n \in Nat /\ lo \in Nat /\ PageSize \in Nat /\ PageSize > 0
    BY RowsAreFinite, PageSizeIs
  <1>2. \A x \in S : R(x) \in 0 .. n - 1
    BY RanksAre
  <1>3. s \in Seq(S) /\ Len(s) = n /\ \A x \in S : s[R(x) + 1] = x
    BY SortedLists
  <1>4. ids = Slice(s, page)
    OBVIOUS
  <1> HIDE DEF n, R, s
  <1>5. /\ ids \in Seq(S) /\ Len(ids) <= PageSize
        /\ ids # <<>> => lo + Len(ids) <= n
        /\ Len(ids) < PageSize => n < lo + PageSize
        /\ \A k \in 1 .. n : lo < k /\ k <= lo + PageSize => \E l \in DOMAIN ids : ids[l] = s[k]
    <2>1. /\ Slice(s, page) \in Seq(S) /\ Len(Slice(s, page)) <= PageSize
          /\ Slice(s, page) # <<>> => page * PageSize + Len(Slice(s, page)) <= Len(s)
          /\ Len(Slice(s, page)) < PageSize => Len(s) < page * PageSize + PageSize
          /\ \A k \in 1 .. Len(s) : page * PageSize < k /\ k <= page * PageSize + PageSize =>
               \E l \in DOMAIN Slice(s, page) : Slice(s, page)[l] = s[k]
      BY <1>3, SliceHas, Zenon
    <2>2. QED
      BY <1>3, <1>4, <2>1
  <1> HIDE DEF lo
  <1>6. Len(ids) < PageSize => \A x \in S : R(x) < lo + PageSize
    BY <1>1, <1>2, <1>5
  <1>7. ASSUME NEW x \in S, lo <= R(x), ~(lo + PageSize <= R(x))
        PROVE  x \in ToSet(ids)
    <2>1. R(x) \in 0 .. n - 1
      BY <1>2
    <2>2. R(x) + 1 \in 1 .. n /\ lo < R(x) + 1 /\ R(x) + 1 <= lo + PageSize
      BY <1>1, <1>7, <2>1
    <2>3. PICK l \in DOMAIN ids : ids[l] = s[R(x) + 1]
      BY <1>5, <2>2
    <2>4. ids[l] = x
      BY <1>3, <2>3
    <2>5. QED
      BY <2>4 DEF ToSet
  <1>8. QED
    BY <1>5, <1>6, <1>7 DEF n, R, lo

-----------------------------------------------------------------------------
(* Tables that grow *)

LEMMA SelectedRows ==
  ASSUME NEW tb \in Seq(Event), NEW view, NEW levels, NEW upTo \in Nat, upTo <= Len(tb)
  PROVE  SelectedIn(tb, view, levels, upTo) \in SUBSET DOMAIN tb
  <1>1. DOMAIN tb = 1 .. Len(tb) /\ Len(tb) \in Nat
    OBVIOUS
  <1>2. 1 .. upTo \subseteq 1 .. Len(tb)
    BY <1>1
  <1>3. QED
    BY <1>1, <1>2 DEF SelectedIn

\* The rows up to an id stay as they are.
LEMMA SelectedKept ==
  ASSUME NEW tb \in Seq(Event), NEW new \in Seq(Event), Grows(tb, new),
         NEW view, NEW levels, NEW upTo \in Nat, upTo <= Len(tb)
  PROVE  SelectedIn(new, view, levels, upTo) = SelectedIn(tb, view, levels, upTo)
  <1>1. \A i \in 1 .. upTo : new[i] = tb[i]
    BY DEF Grows
  <1>2. QED
    BY <1>1 DEF SelectedIn

LEMMA SelectedGrows ==
  ASSUME NEW tb \in Seq(Event), NEW new \in Seq(Event), Grows(tb, new),
         NEW view, NEW levels, NEW more, levels \subseteq more
  PROVE  SelectedIn(tb, view, levels, Len(tb)) \subseteq SelectedIn(new, view, more, Len(new))
  <1>1. Len(tb) \in Nat /\ Len(new) \in Nat /\ Len(tb) <= Len(new)
    BY DEF Grows
  <1>2. \A i \in 1 .. Len(tb) : i \in 1 .. Len(new) /\ new[i] = tb[i]
    BY <1>1 DEF Grows
  <1>3. QED
    BY <1>2 DEF SelectedIn

LEMMA SortsKept ==
  ASSUME NEW tb \in Seq(Event), NEW new \in Seq(Event), Grows(tb, new), NEW srt \in Srt
  PROVE  \A i, j \in DOMAIN tb : Sorts(new, srt, i, j) <=> Sorts(tb, srt, i, j)
  <1>1. \A i \in DOMAIN tb : new[i] = tb[i]
    BY DEF Grows
  <1>2. QED
    BY <1>1 DEF Sorts

\* And so does their order.
LEMMA SortedKept ==
  ASSUME NEW tb \in Seq(Event), NEW new \in Seq(Event), Grows(tb, new), NEW srt \in Srt,
         NEW S \in SUBSET DOMAIN tb
  PROVE  Sorted(new, S, srt) = Sorted(tb, S, srt)
  <1> DEFINE Q(x) == Rank(new, S, srt, x)
             R(x) == Rank(tb, S, srt, x)
  <1>1. \A x \in S : Q(x) = R(x)
    <2>1. \A x \in S : Prior(new, S, srt, x) = Prior(tb, S, srt, x)
      BY SortsKept DEF Prior
    <2>2. QED
      BY <2>1 DEF Rank
  <1>2. /\ Sorted(new, S, srt) = [k \in 1 .. Cardinality(S) |-> CHOOSE x \in S : Q(x) = k - 1]
        /\ Sorted(tb, S, srt) = [k \in 1 .. Cardinality(S) |-> CHOOSE x \in S : R(x) = k - 1]
    BY DEF Sorted
  <1> HIDE DEF Q, R
  <1>3. ASSUME NEW k
        PROVE  (CHOOSE x \in S : Q(x) = k - 1) = (CHOOSE x \in S : R(x) = k - 1)
    <2>1. \A x : (x \in S /\ Q(x) = k - 1) <=> (x \in S /\ R(x) = k - 1)
      BY <1>1
    <2>2. QED
      BY <2>1, Zenon
  <1>4. QED
    BY <1>2, <1>3, Zenon

\* Among more rows a row has no lower rank.
LEMMA RankGrows ==
  ASSUME NEW tb \in Seq(Event), NEW new \in Seq(Event), Grows(tb, new), NEW srt \in Srt,
         NEW S \in SUBSET DOMAIN tb, NEW T \in SUBSET DOMAIN new, S \subseteq T
  PROVE  /\ Cardinality(S) \in Nat /\ Cardinality(T) \in Nat /\ Cardinality(S) <= Cardinality(T)
         /\ \A x \in S : /\ Rank(tb, S, srt, x) \in Nat /\ Rank(new, T, srt, x) \in Nat
                         /\ Rank(tb, S, srt, x) <= Rank(new, T, srt, x)
  <1>1. IsFiniteSet(T) /\ IsFiniteSet(S)
    BY RowsAreFinite
  <1>2. /\ Cardinality(S) \in Nat /\ Cardinality(T) \in Nat /\ Cardinality(S) <= Cardinality(T)
    BY <1>1, FS_Subset, FS_CardinalityType
  <1>3. ASSUME NEW x \in S
        PROVE  /\ Rank(tb, S, srt, x) \in Nat /\ Rank(new, T, srt, x) \in Nat
               /\ Rank(tb, S, srt, x) <= Rank(new, T, srt, x)
    <2>1. Prior(tb, S, srt, x) \subseteq Prior(new, T, srt, x)
      BY SortsKept DEF Prior
    <2>2. IsFiniteSet(Prior(tb, S, srt, x)) /\ IsFiniteSet(Prior(new, T, srt, x))
      <3>1. Prior(tb, S, srt, x) \in SUBSET S /\ Prior(new, T, srt, x) \in SUBSET T
        BY DEF Prior
      <3>2. QED
        BY <1>1, <3>1, FS_Subset
    <2>3. QED
      BY <2>1, <2>2, FS_Subset, FS_CardinalityType DEF Rank
  <1>4. QED
    BY <1>2, <1>3

\* What a request selects is in the table.
LEMMA NowIs ==
  ASSUME NEW tb \in Seq(Event), NEW r
  PROVE  Now(tb, r) \in SUBSET DOMAIN tb
  <1>1. Len(tb) \in Nat /\ Len(tb) <= Len(tb)
    OBVIOUS
  <1>2. QED
    BY <1>1, SelectedRows DEF Now

(***************************************************************************)
(* The rows to come are on the pages to come when the table has grown, and *)
(* when the request for the next page finds more levels in it.             *)
(***************************************************************************)
LEMMA LaterKept ==
  ASSUME NEW tb \in Seq(Event), NEW new \in Seq(Event), Grows(tb, new), NEW r, NEW q,
         q.view = r.view, q.srt = r.srt, q.srt \in Srt, r.levels \subseteq q.levels,
         NEW w, w.there \subseteq Now(tb, r)
  PROVE  /\ w.there \subseteq Now(new, q)
         /\ Cardinality(Now(tb, r)) \in Nat /\ Cardinality(Now(new, q)) \in Nat
         /\ Cardinality(Now(tb, r)) <= Cardinality(Now(new, q))
         /\ \A rank \in Nat : Later(tb, r, w, rank) => Later(new, q, w, rank)
  <1>1. Now(tb, r) \subseteq Now(new, q)
    BY SelectedGrows DEF Now
  <1>2. Now(tb, r) \in SUBSET DOMAIN tb /\ Now(new, q) \in SUBSET DOMAIN new
    BY NowIs
  <1> DEFINE S == Now(tb, r)
             T == Now(new, q)
  <1>3. S \in SUBSET DOMAIN tb /\ T \in SUBSET DOMAIN new /\ S \subseteq T
    BY <1>1, <1>2
  <1> HIDE DEF S, T
  <1>4. /\ Cardinality(S) \in Nat /\ Cardinality(T) \in Nat /\ Cardinality(S) <= Cardinality(T)
        /\ \A x \in S : /\ Rank(tb, S, q.srt, x) \in Nat /\ Rank(new, T, q.srt, x) \in Nat
                        /\ Rank(tb, S, q.srt, x) <= Rank(new, T, q.srt, x)
    BY <1>3, RankGrows
  <1>5. ASSUME NEW rank \in Nat, Later(tb, r, w, rank) PROVE Later(new, q, w, rank)
    <2>1. ASSUME NEW x \in Unseen(w) PROVE rank <= Rank(new, T, q.srt, x)
      <3>1. x \in S
        BY <2>1 DEF Unseen, S
      <3>2. rank <= Rank(tb, S, q.srt, x)
        BY <1>5, <2>1 DEF Later, S
      <3>3. QED
        BY <1>4, <3>1, <3>2
    <2>2. QED
      BY <2>1 DEF Later, T
  <1>6. QED
    BY <1>1, <1>4, <1>5 DEF S, T

LEMMA FoundGrows ==
  ASSUME NEW tb \in Seq(Event), NEW new \in Seq(Event), Grows(tb, new)
  PROVE  FoundIn(tb) \subseteq FoundIn(new) /\ DOMAIN tb \subseteq DOMAIN new
  <1>1. Len(tb) \in Nat /\ Len(new) \in Nat /\ Len(tb) <= Len(new)
    BY DEF Grows
  <1>2. \A i \in DOMAIN tb : i \in DOMAIN new /\ new[i] = tb[i]
    BY <1>1 DEF Grows
  <1>3. QED
    BY <1>2 DEF FoundIn

LEMMA ReaderIs ==
  ASSUME NEW r \in Reader
  PROVE  /\ r.at \in {"nothing", "content", "total", "again", "shown"}
         /\ r.view \in View /\ r.srt \in Srt /\ r.filter \in SUBSET Levels
         /\ r.levels \in SUBSET Levels /\ r.asked \in 0 .. MaxPage /\ r.page \in 0 .. MaxPage
         /\ r.asked \in Nat /\ r.page \in Nat
         /\ r.max \in Nat /\ r.ids \in Seq(Nat) /\ r.upTo \in Nat
         /\ r.page * PageSize \in Nat /\ r.page * PageSize + PageSize \in Nat
  BY PageSizeIs, SizeAssumption DEF Reader

(***************************************************************************)
(* The table may grow at any time.                                         *)
(***************************************************************************)
LEMMA ReaderGrows ==
  ASSUME NEW tb \in Seq(Event), NEW new \in Seq(Event), Grows(tb, new),
         NEW r, NEW w, ReaderInv(tb, r, w)
  PROVE  ReaderInv(new, r, w)
  <1>1. Typed(tb, r, w) /\ ReadRight(tb, r) /\ Paged(tb, r) /\ Walked(tb, r, w)
    BY DEF ReaderInv
  <1>2. /\ r \in Reader /\ r.upTo \in Nat /\ r.upTo <= Len(tb) /\ r.srt \in Srt /\ r.max \in Nat
        /\ r.page \in Nat /\ r.page * PageSize \in Nat /\ r.page * PageSize + PageSize \in Nat
        /\ r.ids \in Seq(Nat)
    BY <1>1, ReaderIs DEF Typed
  <1>3. Typed(new, r, w)
    <2>1. FoundIn(tb) \subseteq FoundIn(new) /\ DOMAIN tb \subseteq DOMAIN new
      BY FoundGrows
    <2>2. r.upTo <= Len(new)
      <3>1. Len(tb) \in Nat /\ Len(new) \in Nat /\ Len(tb) <= Len(new)
        BY DEF Grows
      <3>2. QED
        BY <1>2, <3>1
    <2>3. \A k \in DOMAIN r.ids : r.ids[k] \in DOMAIN new
      BY <1>1, <2>1 DEF Typed
    <2>4. w.on => w.there \cup w.shown \subseteq DOMAIN new
      BY <1>1, <2>1 DEF Typed
    <2>5. IF r.filter = {} THEN r.levels \subseteq FoundIn(new) ELSE r.levels = r.filter
      BY <1>1, <2>1 DEF Typed
    <2>6. QED
      BY <1>1, <2>2, <2>3, <2>4, <2>5 DEF Typed
  <1>4. ReadRight(new, r)
    <2> DEFINE S == SelectedIn(tb, r.view, r.levels, r.upTo)
    <2>1. S \in SUBSET DOMAIN tb
      BY <1>2, SelectedRows
    <2>2. SelectedIn(new, r.view, r.levels, r.upTo) = S
      BY <1>2, SelectedKept
    <2> HIDE DEF S
    <2>3. Sorted(new, S, r.srt) = Sorted(tb, S, r.srt)
      BY <1>2, <2>1, SortedKept
    <2>4. Sorted(new, SelectedIn(new, r.view, r.levels, r.upTo), r.srt)
            = Sorted(tb, SelectedIn(tb, r.view, r.levels, r.upTo), r.srt)
      BY <2>2, <2>3 DEF S
    <2>5. QED
      BY <1>1, <2>4 DEF ReadRight
  <1>5. ASSUME NEW v, v.there \subseteq Now(tb, r)
        PROVE  /\ v.there \subseteq Now(new, r)
               /\ Cardinality(Now(tb, r)) \in Nat /\ Cardinality(Now(new, r)) \in Nat
               /\ Cardinality(Now(tb, r)) <= Cardinality(Now(new, r))
               /\ \A rank \in Nat : Later(tb, r, v, rank) => Later(new, r, v, rank)
    <2>1. r.levels \subseteq r.levels
      OBVIOUS
    <2>2. QED
      BY <1>2, <1>5, <2>1, LaterKept
  <1>6. Paged(new, r)
    <2>1. NoWalk.there \subseteq Now(tb, r)
      BY DEF NoWalk
    <2>2. /\ Cardinality(Now(tb, r)) \in Nat /\ Cardinality(Now(new, r)) \in Nat
          /\ Cardinality(Now(tb, r)) <= Cardinality(Now(new, r))
      BY <1>5, <2>1
    <2>3. r.max * PageSize \in Nat /\ r.page * PageSize + Len(r.ids) \in Nat
      <3>1. \A m, n \in Nat : m * n \in Nat /\ m + n \in Nat
        OBVIOUS
      <3>2. r.max * PageSize \in Nat
        BY <1>2, <3>1, PageSizeIs
      <3>3. Len(r.ids) \in Nat
        BY <1>2
      <3>4. QED
        BY <1>2, <3>1, <3>2, <3>3
    <2>4. QED
      BY <1>1, <2>2, <2>3 DEF Paged
  <1>7. Walked(new, r, w)
    <2>1. CASE w.on
      <3>1. /\ w.there \subseteq Now(tb, r)
            /\ r.at = "content" => Later(tb, r, w, r.page * PageSize)
            /\ r.at \in {"total", "shown"} => Later(tb, r, w, r.page * PageSize + PageSize)
        BY <1>1, <2>1 DEF Walked
      <3>2. /\ w.there \subseteq Now(new, r)
            /\ r.at = "content" => Later(new, r, w, r.page * PageSize)
            /\ r.at \in {"total", "shown"} => Later(new, r, w, r.page * PageSize + PageSize)
        BY <1>2, <1>5, <3>1
      <3>3. QED
        BY <1>1, <2>1, <3>2 DEF Walked
    <2>2. QED
      BY <2>1 DEF Walked
  <1>8. QED
    BY <1>3, <1>4, <1>6, <1>7 DEF ReaderInv

-----------------------------------------------------------------------------
(* Requests *)

LEMMA LevelsAreFound == LevelsFound = FoundIn(table)
  BY DEF LevelsFound, FoundIn

LEMMA FoundAreLevels ==
  ASSUME NEW tb \in Seq(Event)
  PROVE  FoundIn(tb) \in SUBSET Levels
  BY DEF FoundIn, Level, Levels

\* What a request asks for.
LEMMA AskedIs ==
  ASSUME table \in Seq(Event), NEW view \in View, NEW srt \in Srt, NEW filter \in SUBSET Levels,
         NEW pg \in 0 .. MaxPage, Ask(view, srt, filter, pg)
  PROVE  /\ reader' \in Reader /\ reader'.at = "content"
         /\ reader'.view = view /\ reader'.srt = srt /\ reader'.filter = filter
         /\ reader'.levels = (IF filter = {} THEN FoundIn(table) ELSE filter)
         /\ reader'.asked = pg /\ reader'.page = pg
         /\ reader'.ids = <<>> /\ reader'.upTo = 0
  <1> DEFINE l == IF filter = {} THEN FoundIn(table) ELSE filter
  <1>1. l \in SUBSET Levels
    BY FoundAreLevels
  <1> HIDE DEF l
  <1>2. reader' = [Nothing EXCEPT !.at = "content", !.view = view, !.srt = srt, !.filter = filter,
                                  !.levels = l, !.asked = pg, !.page = pg]
    BY LevelsAreFound DEF Ask, l
  <1>3. reader' = [at |-> "content", view |-> view, srt |-> srt, filter |-> filter, levels |-> l,
                   asked |-> pg, page |-> pg, max |-> 0, ids |-> <<>>, upTo |-> 0]
    BY <1>2 DEF Nothing
  <1>4. QED
    BY <1>1, <1>3 DEF Reader, l

LEMMA AskKeeps ==
  ASSUME table \in Seq(Event), NEW view \in View, NEW srt \in Srt, NEW filter \in SUBSET Levels,
         NEW pg \in 0 .. MaxPage, Ask(view, srt, filter, pg), walk' \in Walk,
         walk'.on => walk'.there \cup walk'.shown \subseteq DOMAIN table,
         Walked(table, reader', walk')
  PROVE  ReaderInv(table, reader', walk')
  <1>1. /\ reader' \in Reader /\ reader'.at = "content"
        /\ reader'.filter = filter
        /\ reader'.levels = (IF filter = {} THEN FoundIn(table) ELSE filter)
        /\ reader'.asked = pg /\ reader'.page = pg
        /\ reader'.ids = <<>> /\ reader'.upTo = 0
    BY AskedIs
  <1>2. Len(table) \in Nat /\ PageSize \in Nat
    BY PageSizeIs
  <1>3. Typed(table, reader', walk')
    <2>1. 0 <= Len(table) /\ 0 <= PageSize /\ Len(<<>>) = 0 /\ DOMAIN <<>> = {}
      BY <1>2
    <2>2. QED
      BY <1>1, <2>1 DEF Typed
  <1>4. ReadRight(table, reader')
    BY <1>1 DEF ReadRight
  <1>5. Paged(table, reader')
    BY <1>1 DEF Paged
  <1>6. QED
    BY <1>3, <1>4, <1>5 DEF ReaderInv

LEMMA NoWalkIs == NoWalk \in Walk /\ ~NoWalk.on
  BY DEF NoWalk, Walk

LEMMA NoneWalked ==
  ASSUME NEW tb, NEW r
  PROVE  Walked(tb, r, NoWalk)
  BY NoWalkIs DEF Walked

LEMMA OpenShows ==
  ASSUME table \in Seq(Event),
         NEW view \in View, NEW srt \in Srt, NEW filter \in {{}, {"ERROR"}}, NEW pg \in 0 .. MaxPage,
         Open(view, srt, filter, pg)
  PROVE  ScreenInv'
  <1>1. /\ Ask(view, srt, filter, pg) /\ walk' = NoWalk /\ table' = table
    BY DEF Open
  <1>2. filter \in SUBSET Levels
    BY DEF Levels
  <1>3. /\ walk' \in Walk /\ ~walk'.on /\ Walked(table, reader', walk')
    BY <1>1, NoWalkIs, NoneWalked
  <1>4. ReaderInv(table, reader', walk')
    BY <1>1, <1>2, <1>3, AskKeeps
  <1>5. QED
    BY <1>1, <1>4 DEF ScreenInv

(***************************************************************************)
(* A link. The walk goes on to the next page, whose rows come after those  *)
(* of this page.                                                           *)
(***************************************************************************)
LEMMA FollowShows ==
  ASSUME table \in Seq(Event), ScreenInv, NEW pg \in 0 .. MaxPage, Follow(pg)
  PROVE  ScreenInv'
  <1>1. /\ reader.at = "shown" /\ table' = table
        /\ Ask(reader.view, reader.srt, reader.filter, pg)
        /\ walk' = IF pg \in NextLink THEN walk ELSE NoWalk
    BY DEF Follow
  <1>2. /\ Typed(table, reader, walk) /\ Walked(table, reader, walk)
    BY DEF ScreenInv, ReaderInv
  <1>3. /\ reader \in Reader /\ reader.view \in View /\ reader.srt \in Srt
        /\ reader.filter \in SUBSET Levels
        /\ reader.page \in Nat /\ reader.page * PageSize + PageSize \in Nat
    BY <1>2, ReaderIs DEF Typed
  <1>4. /\ reader' \in Reader /\ reader'.at = "content"
        /\ reader'.view = reader.view /\ reader'.srt = reader.srt
        /\ reader'.levels = (IF reader.filter = {} THEN FoundIn(table) ELSE reader.filter)
        /\ reader'.page = pg
    BY <1>1, <1>3, AskedIs
  <1>5. CASE pg \notin NextLink \/ ~walk.on
    <2>1. walk' \in Walk /\ ~walk'.on
      BY <1>1, <1>2, <1>5, NoWalkIs DEF Typed
    <2>2. Walked(table, reader', walk')
      BY <2>1 DEF Walked
    <2>3. ReaderInv(table, reader', walk')
      BY <1>1, <1>3, <2>1, <2>2, AskKeeps
    <2>4. QED
      BY <1>1, <2>3 DEF ScreenInv
  <1>6. CASE pg \in NextLink /\ walk.on
    <2>1. walk' = walk /\ walk \in Walk /\ walk.there \cup walk.shown \subseteq DOMAIN table
      BY <1>1, <1>2, <1>6 DEF Typed
    <2>2. pg = reader.page + 1
      BY <1>6 DEF NextLink
    <2>3. pg * PageSize = reader.page * PageSize + PageSize
      BY <1>3, <2>2, PageSizeIs
    <2>4. /\ walk.there \subseteq Now(table, reader)
          /\ Later(table, reader, walk, reader.page * PageSize + PageSize)
      BY <1>1, <1>2, <1>6 DEF Walked
    <2>5. reader.levels \subseteq reader'.levels
      BY <1>2, <1>4 DEF Typed
    <2>6. Grows(table, table)
      <3>1. Len(table) \in Nat
        OBVIOUS
      <3>2. QED
        BY <3>1 DEF Grows
    <2>7. /\ walk.there \subseteq Now(table, reader')
          /\ Later(table, reader', walk, reader.page * PageSize + PageSize)
      <3>1. /\ reader'.view = reader.view /\ reader'.srt = reader.srt /\ reader'.srt \in Srt
            /\ reader.levels \subseteq reader'.levels /\ walk.there \subseteq Now(table, reader)
        BY <1>3, <1>4, <2>4, <2>5
      <3>2. /\ walk.there \subseteq Now(table, reader')
            /\ \A rank \in Nat : Later(table, reader, walk, rank) => Later(table, reader', walk, rank)
        BY <2>6, <3>1, LaterKept
      <3>3. QED
        BY <1>3, <2>4, <3>2
    <2>8. Walked(table, reader', walk')
      BY <1>4, <2>1, <2>3, <2>7 DEF Walked
    <2>9. ReaderInv(table, reader', walk')
      BY <1>1, <1>3, <2>1, <2>8, AskKeeps
    <2>10. QED
      BY <1>1, <2>9 DEF ScreenInv
  <1>7. QED
    BY <1>5, <1>6

-----------------------------------------------------------------------------
(* Reading *)

LEMMA ContentsAre ==
  ASSUME table \in Seq(Event), NEW view \in View, NEW srt \in Srt, NEW levels, NEW page
  PROVE  Contents(view, levels, srt, page)
           = {Slice(Sorted(table, SelectedIn(table, view, levels, Len(table)), srt), page)}
  <1> DEFINE S == SelectedIn(table, view, levels, Len(table))
  <1>1. Selected(view, levels, Len(table)) = S
    BY DEF Selected, SelectedIn
  <1>2. S \in SUBSET DOMAIN table
    <2>1. Len(table) \in Nat /\ Len(table) <= Len(table)
      OBVIOUS
    <2>2. QED
      BY <2>1, SelectedRows
  <1> HIDE DEF S
  <1>3. Orderings(S, OrderOf(view, srt)) = {Sorted(table, S, srt)}
    BY <1>2, OrderingsAre
  <1>4. Contents(view, levels, srt, page) = {Slice(ids, page) : ids \in {Sorted(table, S, srt)}}
    BY <1>1, <1>3 DEF Contents
  <1>5. QED
    BY <1>4 DEF S

\* The rows of a page read now.
LEMMA ContentIs ==
  ASSUME table \in Seq(Event), reader \in Reader, NEW page \in Nat,
         NEW ids \in Contents(reader.view, reader.levels, reader.srt, page)
  PROVE  /\ ids = Slice(Sorted(table, SelectedIn(table, reader.view, reader.levels, Len(table)),
                               reader.srt), page)
         /\ ids \in Seq(Nat) /\ Len(ids) <= PageSize
         /\ \A k \in DOMAIN ids : ids[k] \in DOMAIN table
         /\ ToSet(ids) \subseteq DOMAIN table
         /\ ids # <<>> => page * PageSize + Len(ids) <= Cardinality(Now(table, reader))
         /\ \A x \in Now(table, reader) :
              LET rank == Rank(table, Now(table, reader), reader.srt, x)
              IN  /\ rank \in Nat /\ rank < Cardinality(Now(table, reader))
                  /\ Len(ids) < PageSize => rank < page * PageSize + PageSize
                  /\ page * PageSize <= rank =>
                       x \in ToSet(ids) \/ page * PageSize + PageSize <= rank
  <1> DEFINE S == Now(table, reader)
             R(x) == Rank(table, S, reader.srt, x)
             lo == page * PageSize
  <1>1. reader.view \in View /\ reader.srt \in Srt
    BY ReaderIs
  <1>2. S = SelectedIn(table, reader.view, reader.levels, Len(table))
    BY DEF Now
  <1>3. S \in SUBSET DOMAIN table
    BY NowIs
  <1> HIDE DEF S
  <1>4. ids = Slice(Sorted(table, S, reader.srt), page)
    BY <1>1, <1>2, ContentsAre
  <1>5. /\ ids \in Seq(S) /\ Len(ids) <= PageSize
        /\ ids # <<>> => page * PageSize + Len(ids) <= Cardinality(S)
        /\ Len(ids) < PageSize =>
             \A x \in S : Rank(table, S, reader.srt, x) < page * PageSize + PageSize
        /\ \A x \in S : page * PageSize <= Rank(table, S, reader.srt, x) =>
             x \in ToSet(ids) \/ page * PageSize + PageSize <= Rank(table, S, reader.srt, x)
    BY <1>1, <1>3, <1>4, PageHas
  <1>6. Cardinality(S) \in Nat /\ S \subseteq Nat
    BY <1>3, RowsAreFinite
  <1>7. \A x \in S : R(x) \in 0 .. Cardinality(S) - 1
    BY <1>1, <1>3, RanksAre
  <1>8. \A k \in DOMAIN ids : ids[k] \in S
    BY <1>5
  <1>9. ids \in Seq(Nat)
    <2>1. ids \in [1 .. Len(ids) -> S] /\ Len(ids) \in Nat
      BY <1>5
    <2>2. ids \in [1 .. Len(ids) -> Nat]
      BY <1>6, <2>1
    <2>3. QED
      BY <2>1, <2>2
  <1>10. /\ \A k \in DOMAIN ids : ids[k] \in DOMAIN table
         /\ ToSet(ids) \subseteq DOMAIN table
    BY <1>3, <1>8 DEF ToSet
  <1> HIDE DEF R, lo
  <1>11. \A x \in S : R(x) \in Nat /\ R(x) < Cardinality(S)
    BY <1>6, <1>7
  <1>12. /\ ids # <<>> => lo + Len(ids) <= Cardinality(S)
         /\ \A x \in S : /\ Len(ids) < PageSize => R(x) < lo + PageSize
                         /\ lo <= R(x) => x \in ToSet(ids) \/ lo + PageSize <= R(x)
    BY <1>5 DEF R, lo
  <1>13. QED
    BY <1>2, <1>4, <1>5, <1>9, <1>10, <1>11, <1>12 DEF S, R, lo

(***************************************************************************)
(* A walk that begins with the first page has all the rows to come; one    *)
(* that goes on shows those of its page.                                   *)
(***************************************************************************)
LEMMA ContentShows ==
  ASSUME table \in Seq(Event), ScreenInv, ReadContent
  PROVE  ScreenInv'
  <1> DEFINE S == Now(table, reader)
             lo == reader.page * PageSize
             R(x) == Rank(table, S, reader.srt, x)
  <1>1. /\ Typed(table, reader, walk) /\ ReadRight(table, reader) /\ Walked(table, reader, walk)
        /\ reader.at = "content" /\ table' = table
    BY DEF ScreenInv, ReaderInv, ReadContent, logVars
  <1>2. reader \in Reader /\ walk \in Walk /\ reader.page \in Nat /\ lo \in Nat
        /\ PageSize \in Nat /\ PageSize > 0 /\ Len(table) \in Nat
    BY <1>1, ReaderIs, PageSizeIs DEF Typed
  <1>3. PICK ids \in Contents(reader.view, reader.levels, reader.srt, reader.page) :
          /\ reader' = [reader EXCEPT !.at = "total", !.ids = ids, !.upTo = Len(table)]
          /\ walk' = IF reader.page = 0
                     THEN [on |-> TRUE, shown |-> ToSet(ids),
                           there |-> Selected(reader.view, reader.levels, Len(table))]
                     ELSE [walk EXCEPT !.shown = @ \cup IF walk.on THEN ToSet(ids) ELSE {}]
    BY DEF ReadContent
  <1>4. /\ ids = Slice(Sorted(table, SelectedIn(table, reader.view, reader.levels, Len(table)),
                              reader.srt), reader.page)
        /\ ids \in Seq(Nat) /\ Len(ids) <= PageSize
        /\ \A k \in DOMAIN ids : ids[k] \in DOMAIN table
        /\ ToSet(ids) \subseteq DOMAIN table
        /\ ids # <<>> => lo + Len(ids) <= Cardinality(S)
        /\ \A x \in S : /\ R(x) \in Nat /\ R(x) < Cardinality(S)
                        /\ Len(ids) < PageSize => R(x) < lo + PageSize
                        /\ lo <= R(x) => x \in ToSet(ids) \/ lo + PageSize <= R(x)
    BY <1>2, ContentIs
  <1>5. /\ reader' \in Reader /\ reader'.at = "total" /\ reader'.ids = ids
        /\ reader'.upTo = Len(table) /\ reader'.view = reader.view /\ reader'.srt = reader.srt
        /\ reader'.levels = reader.levels /\ reader'.filter = reader.filter
        /\ reader'.page = reader.page /\ reader'.asked = reader.asked
    BY <1>2, <1>3, <1>4 DEF Reader
  <1>6. Now(table, reader') = S
    BY <1>5 DEF Now
  <1>7. S \in SUBSET DOMAIN table /\ S \subseteq Nat
    BY NowIs, RowsAreFinite
  <1>8. Selected(reader.view, reader.levels, Len(table)) = S
    BY DEF Selected, SelectedIn, Now
  <1>9. /\ walk' \in Walk
        /\ walk'.on => walk'.there \cup walk'.shown \subseteq DOMAIN table
        /\ walk'.on => walk'.there \subseteq S
        /\ walk'.on => \A x \in Unseen(walk') : x \in S /\ lo <= R(x) /\ x \notin ToSet(ids)
    <2>1. CASE reader.page = 0
      <3>1. walk'.on /\ walk'.shown = ToSet(ids) /\ walk'.there = S /\ walk' \in Walk
        <4>1. walk' = [on |-> TRUE, shown |-> ToSet(ids), there |-> S]
          BY <1>3, <1>8, <2>1
        <4>2. ToSet(ids) \in SUBSET Nat
          BY <1>4 DEF ToSet
        <4>3. QED
          BY <1>7, <4>1, <4>2 DEF Walk
      <3>2. lo = 0
        BY <1>2, <2>1
      <3>3. \A x \in S : lo <= R(x)
        <4>1. \A x \in S : R(x) \in Nat
          BY <1>4
        <4> HIDE DEF R, lo
        <4>2. QED
          BY <3>2, <4>1
      <3>4. \A x \in Unseen(walk') : x \in S /\ x \notin ToSet(ids)
        BY <3>1 DEF Unseen
      <3> HIDE DEF R, lo, S
      <3>5. QED
        BY <1>4, <1>7, <3>1, <3>3, <3>4
    <2>2. CASE reader.page # 0 /\ walk.on
      <3>1. /\ walk'.on /\ walk'.there = walk.there /\ walk'.shown = walk.shown \cup ToSet(ids)
            /\ walk' \in Walk
        <4>1. walk' = [walk EXCEPT !.shown = @ \cup ToSet(ids)]
          BY <1>3, <2>2
        <4>2. ToSet(ids) \in SUBSET Nat
          BY <1>4 DEF ToSet
        <4>3. QED
          BY <1>2, <2>2, <4>1, <4>2 DEF Walk
      <3>2. walk.there \subseteq S /\ Later(table, reader, walk, lo)
        BY <1>1, <2>2 DEF Walked
      <3>3. \A x \in Unseen(walk') : x \in Unseen(walk) /\ x \in S /\ x \notin ToSet(ids)
        BY <3>1, <3>2 DEF Unseen
      <3>4. \A x \in Unseen(walk') : lo <= R(x)
        BY <3>2, <3>3 DEF Later
      <3>5. walk.there \cup walk.shown \subseteq DOMAIN table
        BY <1>1, <2>2 DEF Typed
      <3> HIDE DEF R, lo, S
      <3>6. QED
        BY <1>4, <3>1, <3>2, <3>3, <3>4, <3>5
    <2>3. CASE reader.page # 0 /\ ~walk.on
      <3>1. walk' = [walk EXCEPT !.shown = @ \cup {}]
        BY <1>3, <2>3
      <3>2. walk' \in Walk /\ ~walk'.on
        BY <1>2, <2>3, <3>1 DEF Walk
      <3>3. QED
        BY <3>2
    <2>4. QED
      BY <2>1, <2>2, <2>3
  <1>10. Typed(table, reader', walk')
    <2>1. Len(table) <= Len(table)
      BY <1>2
    <2>2. IF reader.filter = {} THEN reader.levels \subseteq FoundIn(table)
                                ELSE reader.levels = reader.filter
      BY <1>1 DEF Typed
    <2>3. /\ \A k \in DOMAIN reader'.ids : reader'.ids[k] \in DOMAIN table
          /\ Len(reader'.ids) <= PageSize
      BY <1>4, <1>5
    <2>4. IF reader'.filter = {} THEN reader'.levels \subseteq FoundIn(table)
                                 ELSE reader'.levels = reader'.filter
      BY <1>5, <2>2
    <2>5. reader' \in Reader /\ walk' \in Walk /\ reader'.upTo <= Len(table)
      BY <1>5, <1>9, <2>1
    <2>6. walk'.on => walk'.there \cup walk'.shown \subseteq DOMAIN table
      BY <1>9
    <2>7. QED
      BY <2>3, <2>4, <2>5, <2>6 DEF Typed
  <1>11. ReadRight(table, reader')
    <2>1. reader.page = reader.asked
      BY <1>1 DEF ReadRight
    <2>2. QED
      BY <1>4, <1>5, <2>1 DEF ReadRight
  <1>12. Paged(table, reader')
    BY <1>4, <1>5, <1>6 DEF Paged
  <1>13. Walked(table, reader', walk')
    <2>1. SUFFICES ASSUME walk'.on PROVE Walked(table, reader', walk')
      BY DEF Walked
    <2>2. \A x \in Unseen(walk') : lo + PageSize <= R(x)
      BY <1>4, <1>9, <2>1
    <2>3. Later(table, reader', walk', lo + PageSize)
      BY <1>5, <1>6, <2>2 DEF Later
    <2>4. Len(ids) < PageSize => Unseen(walk') = {}
      <3>1. SUFFICES ASSUME Len(ids) < PageSize, NEW x \in Unseen(walk') PROVE FALSE
        OBVIOUS
      <3>2. x \in S
        BY <1>9, <2>1
      <3>3. lo + PageSize <= R(x) /\ R(x) < lo + PageSize /\ R(x) \in Nat
        BY <1>4, <2>2, <3>1, <3>2
      <3> HIDE DEF R, lo
      <3>4. QED
        BY <1>2, <3>3
    <2>5. walk'.there \subseteq Now(table, reader')
      BY <1>6, <1>9, <2>1
    <2>6. QED
      BY <1>5, <2>3, <2>4, <2>5 DEF Walked
  <1>14. ReaderInv(table, reader', walk')
    BY <1>10, <1>11, <1>12, <1>13 DEF ReaderInv
  <1>15. QED
    BY <1>1, <1>14 DEF ScreenInv

LEMMA Products ==
  /\ \A a, b, c \in Nat : a <= b => a * c <= b * c
  /\ \A a, b \in Nat : a * b \in Nat
  OBVIOUS

\* The last page has the last row.
LEMMA MaxOfIs ==
  ASSUME NEW total \in Nat
  PROVE  /\ MaxOf(total) \in Nat
         /\ MaxOf(total) = 0 \/ MaxOf(total) * PageSize < total
         /\ total <= MaxOf(total) * PageSize + PageSize
  <1>1. CASE total = 0
    BY <1>1, PageSizeIs DEF MaxOf
  <1>2. CASE total # 0
    <2> DEFINE q == (total - 1) \div PageSize
    <2>1. total - 1 \in Nat /\ PageSize \in Nat /\ PageSize > 0
      BY <1>2, PageSizeIs
    <2>2. q \in Nat /\ q * PageSize <= total - 1 /\ total - 1 < q * PageSize + PageSize
      BY <2>1
    <2>3. MaxOf(total) = q
      BY <1>2 DEF MaxOf
    <2> HIDE DEF q
    <2>4. q * PageSize \in Nat
      BY <2>1, <2>2, Products
    <2>5. QED
      BY <2>1, <2>2, <2>3, <2>4
  <1>3. QED
    BY <1>1, <1>2

(***************************************************************************)
(* What is taken for the number of rows is never more than there are, and  *)
(* is their number if the page is full.                                    *)
(***************************************************************************)
LEMMA TotalIs ==
  ASSUME table \in Seq(Event), reader \in Reader, reader.at = "total", Paged(table, reader)
  PROVE  /\ Total(reader) \in Nat /\ Cardinality(Now(table, reader)) \in Nat
         /\ Total(reader) <= Cardinality(Now(table, reader))
         /\ ~(Len(reader.ids) < PageSize) => Total(reader) = Cardinality(Now(table, reader))
  <1>1. Selected(reader.view, reader.levels, Len(table)) = Now(table, reader)
    BY DEF Selected, SelectedIn, Now
  <1>2. Cardinality(Now(table, reader)) \in Nat
    BY NowIs, RowsAreFinite
  <1>3. /\ reader.page * PageSize \in Nat /\ Len(reader.ids) \in Nat
        /\ PageSize \in Nat /\ PageSize > 0
    <2>1. reader.ids \in Seq(Nat) /\ reader.page * PageSize \in Nat
      BY ReaderIs
    <2>2. QED
      BY <2>1, PageSizeIs
  <1>4. CASE reader.ids # <<>> /\ Len(reader.ids) < PageSize
    <2>1. Total(reader) = reader.page * PageSize + Len(reader.ids)
      BY <1>4 DEF Total
    <2>2. reader.page * PageSize + Len(reader.ids) <= Cardinality(Now(table, reader))
      BY <1>4 DEF Paged
    <2>3. QED
      BY <1>2, <1>3, <1>4, <2>1, <2>2
  <1>5. CASE ~(reader.ids # <<>> /\ Len(reader.ids) < PageSize) /\ reader.page = 0 /\ reader.ids = <<>>
    <2>1. Total(reader) = 0 /\ Len(reader.ids) = 0
      BY <1>5 DEF Total
    <2>2. QED
      BY <1>2, <1>3, <2>1
  <1>6. CASE /\ ~(reader.ids # <<>> /\ Len(reader.ids) < PageSize)
             /\ ~(reader.page = 0 /\ reader.ids = <<>>)
    <2>1. Total(reader) = Cardinality(Now(table, reader))
      BY <1>1, <1>6 DEF Total
    <2>2. QED
      BY <1>2, <2>1
  <1>7. QED
    BY <1>4, <1>5, <1>6

LEMMA GetPageIs ==
  ASSUME NEW pg \in Nat, NEW max \in Nat
  PROVE  /\ GetPage(pg, max) \in Nat /\ GetPage(pg, max) <= max
         /\ GetPage(pg, max) = pg \/ GetPage(pg, max) = 0
  BY DEF GetPage

(***************************************************************************)
(* The last page is there, and if it is this one there are no rows after   *)
(* those shown.                                                            *)
(***************************************************************************)
LEMMA TotalShows ==
  ASSUME table \in Seq(Event), ScreenInv, ReadTotal
  PROVE  ScreenInv'
  <1> DEFINE S == Now(table, reader)
             max == MaxOf(Total(reader))
             page == GetPage(reader.page, max)
             R(x) == Rank(table, S, reader.srt, x)
             n == Cardinality(S)
  <1>1. /\ Typed(table, reader, walk) /\ ReadRight(table, reader)
        /\ Paged(table, reader) /\ Walked(table, reader, walk)
        /\ reader.at = "total" /\ table' = table /\ walk' = walk
        /\ reader' = [reader EXCEPT !.at = IF page = reader.page THEN "shown" ELSE "again",
                                    !.max = max, !.page = page]
    BY DEF ScreenInv, ReaderInv, ReadTotal, logVars
  <1>2. /\ reader \in Reader /\ reader.page \in 0 .. MaxPage /\ reader.page \in Nat
        /\ reader.srt \in Srt /\ MaxPage \in Nat /\ PageSize \in Nat
        /\ reader.page * PageSize \in Nat
    BY <1>1, ReaderIs, SizeAssumption DEF Typed
  <1>3. /\ Total(reader) \in Nat /\ n \in Nat /\ Total(reader) <= n
        /\ ~(Len(reader.ids) < PageSize) => Total(reader) = n
    BY <1>1, <1>2, TotalIs
  <1>4. /\ max \in Nat
        /\ max = 0 \/ max * PageSize < Total(reader)
        /\ Total(reader) <= max * PageSize + PageSize
    BY <1>3, MaxOfIs
  <1> HIDE DEF max
  <1>5. page \in Nat /\ page <= max /\ (page = reader.page \/ page = 0)
    BY <1>2, <1>4, GetPageIs
  <1> HIDE DEF page
  <1>6. page \in 0 .. MaxPage
    BY <1>2, <1>5
  <1>7. max * PageSize \in Nat
    BY <1>2, <1>4, Products
  <1>8. /\ reader' \in Reader /\ reader'.ids = reader.ids /\ reader'.upTo = reader.upTo
        /\ reader'.at = (IF page = reader.page THEN "shown" ELSE "again")
        /\ reader'.view = reader.view /\ reader'.srt = reader.srt
        /\ reader'.levels = reader.levels /\ reader'.filter = reader.filter
        /\ reader'.page = page /\ reader'.asked = reader.asked /\ reader'.max = max
    BY <1>1, <1>2, <1>4, <1>6 DEF Reader
  <1>9. Now(table, reader') = S
    BY <1>8 DEF Now
  <1>10. Typed(table, reader', walk')
    BY <1>1, <1>8 DEF Typed
  <1>11. ReadRight(table, reader')
    <2>1. CASE page = reader.page
      BY <1>1, <1>8, <2>1 DEF ReadRight
    <2>2. CASE page # reader.page
      BY <1>8, <2>2 DEF ReadRight
    <2>3. QED
      BY <2>1, <2>2
  <1>12. Paged(table, reader')
    <2>1. max = 0 \/ max * PageSize < n
      BY <1>3, <1>4, <1>7
    <2>2. reader'.at # "total"
      BY <1>8
    <2>3. QED
      BY <1>5, <1>8, <1>9, <2>1, <2>2 DEF Paged
  <1>13. Walked(table, reader', walk')
    <2>1. SUFFICES ASSUME walk.on PROVE Walked(table, reader', walk')
      BY <1>1 DEF Walked
    <2>2. /\ walk.there \subseteq S
          /\ \A x \in Unseen(walk) : reader.page * PageSize + PageSize <= R(x)
          /\ Len(reader.ids) < PageSize => Unseen(walk) = {}
      BY <1>1, <2>1 DEF Walked, Later
    <2>3. CASE page # reader.page
      BY <1>1, <1>8, <1>9, <2>2, <2>3 DEF Walked
    <2>4. CASE page = reader.page
      <3>1. Later(table, reader', walk', page * PageSize + PageSize)
        BY <1>1, <1>8, <1>9, <2>2, <2>4 DEF Later
      <3>2. max <= page => Unseen(walk) = {}
        <4>1. SUFFICES ASSUME max <= page, NEW x \in Unseen(walk) PROVE FALSE
          OBVIOUS
        <4>2. max * PageSize <= page * PageSize /\ page * PageSize \in Nat
          BY <1>2, <1>4, <1>5, <4>1, Products
        <4>3. n <= max * PageSize + PageSize
          BY <1>3, <1>4, <2>2, <4>1
        <4>4. x \in S
          BY <2>2, <4>1 DEF Unseen
        <4>5. R(x) \in 0 .. n - 1
          BY <1>2, <4>4, NowIs, RanksAre
        <4>6. page * PageSize + PageSize <= R(x)
          BY <2>2, <2>4, <4>1
        <4> HIDE DEF n, R, S
        <4>7. QED
          BY <1>2, <1>3, <1>7, <4>2, <4>3, <4>5, <4>6
      <3>3. QED
        BY <1>1, <1>8, <1>9, <2>2, <3>1, <3>2 DEF Walked
    <2>5. QED
      BY <2>3, <2>4
  <1>14. ReaderInv(table, reader', walk')
    BY <1>10, <1>11, <1>12, <1>13 DEF ReaderInv
  <1>15. QED
    BY <1>1, <1>14 DEF ScreenInv

(***************************************************************************)
(* The second read is of the page under whose number its rows stand, but   *)
(* for tombolaLog with a page that does not exist.                         *)
(***************************************************************************)
LEMMA AgainShows ==
  ASSUME table \in Seq(Event), ScreenInv, ReadAgain
  PROVE  ScreenInv'
  <1>1. /\ Typed(table, reader, walk) /\ Paged(table, reader)
        /\ reader.at = "again" /\ table' = table /\ walk' = NoWalk
    BY DEF ScreenInv, ReaderInv, ReadAgain, logVars
  <1>2. /\ reader \in Reader /\ AgainPage(reader) \in Nat /\ Len(table) \in Nat
    BY <1>1, ReaderIs DEF Typed, AgainPage
  <1>3. PICK ids \in Contents(reader.view, reader.levels, reader.srt, AgainPage(reader)) :
          reader' = [reader EXCEPT !.at = "shown", !.ids = ids, !.upTo = Len(table)]
    BY DEF ReadAgain
  <1>4. /\ ids = Slice(Sorted(table, SelectedIn(table, reader.view, reader.levels, Len(table)),
                              reader.srt), AgainPage(reader))
        /\ ids \in Seq(Nat) /\ Len(ids) <= PageSize
        /\ \A k \in DOMAIN ids : ids[k] \in DOMAIN table
    BY <1>2, ContentIs
  <1>5. /\ reader' \in Reader /\ reader'.at = "shown" /\ reader'.ids = ids
        /\ reader'.upTo = Len(table) /\ reader'.view = reader.view /\ reader'.srt = reader.srt
        /\ reader'.levels = reader.levels /\ reader'.filter = reader.filter
        /\ reader'.page = reader.page /\ reader'.asked = reader.asked /\ reader'.max = reader.max
    BY <1>2, <1>3, <1>4 DEF Reader
  <1>6. Typed(table, reader', walk')
    <2>1. walk' \in Walk /\ ~walk'.on
      BY <1>1, NoWalkIs
    <2>2. reader'.upTo <= Len(table)
      BY <1>2, <1>5
    <2>3. IF reader'.filter = {} THEN reader'.levels \subseteq FoundIn(table)
                                 ELSE reader'.levels = reader'.filter
      BY <1>1, <1>5 DEF Typed
    <2>4. QED
      BY <1>4, <1>5, <2>1, <2>2, <2>3 DEF Typed
  <1>7. ReadRight(table, reader')
    <2>1. reader.view = "audit" \/ reader.page = reader.asked => AgainPage(reader) = reader.page
      BY DEF AgainPage
    <2>2. QED
      BY <1>4, <1>5, <2>1 DEF ReadRight
  <1>8. Paged(table, reader')
    <2>1. Now(table, reader') = Now(table, reader)
      BY <1>5 DEF Now
    <2>2. QED
      BY <1>1, <1>5, <2>1 DEF Paged
  <1>9. Walked(table, reader', walk')
    BY <1>1, NoneWalked
  <1>10. ReaderInv(table, reader', walk')
    BY <1>6, <1>7, <1>8, <1>9 DEF ReaderInv
  <1>11. QED
    BY <1>1, <1>10 DEF ScreenInv

LEMMA NothingShown ==
  ASSUME NEW tb \in Seq(Event)
  PROVE  ReaderInv(tb, Nothing, NoWalk)
  <1>1. /\ Nothing \in Reader /\ Nothing.at = "nothing" /\ Nothing.ids = <<>>
        /\ Nothing.upTo = 0 /\ Nothing.filter = {} /\ Nothing.levels = {}
    BY SizeAssumption DEF Nothing, Reader, View, Srt
  <1>2. Typed(tb, Nothing, NoWalk)
    <2>1. 0 <= Len(tb) /\ 0 <= PageSize /\ Len(<<>>) = 0 /\ DOMAIN <<>> = {}
      BY PageSizeIs
    <2>2. QED
      BY <1>1, <2>1, NoWalkIs DEF Typed
  <1>3. ReadRight(tb, Nothing) /\ Paged(tb, Nothing)
    BY <1>1 DEF ReadRight, Paged
  <1>4. QED
    BY <1>2, <1>3, NoneWalked DEF ReaderInv

-----------------------------------------------------------------------------
(* Theorems about the page on the screen *)

LEMMA InitShows == Init => ScreenInv
  <1> SUFFICES ASSUME Init PROVE ScreenInv
    OBVIOUS
  <1>1. table \in Seq(Event) /\ reader = Nothing /\ walk = NoWalk
    BY InitIsOrdered DEF IInv, LogTypeOK, Init
  <1>2. ReaderInv(table, Nothing, NoWalk)
    BY <1>1, NothingShown
  <1>3. QED
    BY <1>1, <1>2 DEF ScreenInv

LEMMA StepShows == IInv /\ ScreenInv /\ [Next]_vars => ScreenInv'
  <1> SUFFICES ASSUME IInv, ScreenInv, [Next]_vars PROVE ScreenInv'
    OBVIOUS
  <1>1. table \in Seq(Event)
    BY DEF IInv, LogTypeOK
  <1>2. CASE table' = table /\ reader' = reader /\ walk' = walk
    BY <1>2 DEF ScreenInv
  <1>3. CASE Logger
    BY <1>2, <1>3 DEF Logger, Log
  <1>4. CASE Handover
    BY <1>2, <1>4 DEF Handover, Put
  <1>5. CASE Take
    BY <1>2, <1>5 DEF Take
  <1>6. CASE Insert
    <2>1. /\ writing # <<>> /\ reader' = reader /\ walk' = walk
          /\ table' = table \o writing \/ table' = table
      BY <1>6 DEF Insert
    <2>2. PICK e \in Event : writing = <<e>>
      BY <2>1 DEF IInv, LogTypeOK
    <2>3. table' \in Seq(Event) /\ Grows(table, table')
      <3>1. CASE table' = table \o writing
        BY <1>1, <2>2, <3>1 DEF Grows
      <3>2. CASE table' = table
        BY <1>1, <3>2 DEF Grows
      <3>3. QED
        BY <2>1, <3>1, <3>2
    <2>4. ReaderInv(table', reader, walk)
      BY <1>1, <2>3, ReaderGrows DEF ScreenInv
    <2>5. QED
      BY <2>1, <2>4 DEF ScreenInv
  <1>7. CASE Crash
    <2>1. table' = table /\ reader' = Nothing /\ walk' = NoWalk
      BY <1>7 DEF Crash
    <2>2. ReaderInv(table, Nothing, NoWalk)
      BY <1>1, NothingShown
    <2>3. QED
      BY <2>1, <2>2 DEF ScreenInv
  <1>8. CASE Browse
    BY <1>1, <1>8, OpenShows, FollowShows DEF Browse
  <1>9. CASE Read
    BY <1>1, <1>9, ContentShows, TotalShows, AgainShows DEF Read
  <1>10. CASE UNCHANGED vars
    BY <1>2, <1>10 DEF vars
  <1>11. QED
    BY <1>3, <1>4, <1>5, <1>6, <1>7, <1>8, <1>9, <1>10 DEF Next, Worker

LEMMA AlwaysShows == Spec => [](IInv /\ ScreenInv)
  <1>1. Spec => []IInv
    BY InductiveInvariant
  <1>2. Init => ScreenInv
    BY InitShows
  <1>3. IInv /\ ScreenInv /\ [Next]_vars => ScreenInv'
    BY StepShows
  <1>4. QED
    BY <1>1, <1>2, <1>3, PTL DEF Spec

(***************************************************************************)
(* Types: the queue of AsyncAppender never holds more than its capacity, a *)
(* page never more rows than logCnt, and only rows of the table.           *)
(***************************************************************************)
THEOREM TypesHold == Spec => []TypeOK
  <1>1. IInv /\ ScreenInv => TypeOK
    <2> SUFFICES ASSUME IInv, ScreenInv PROVE TypeOK
      OBVIOUS
    <2>1. Typed(table, reader, walk)
      BY DEF ScreenInv, ReaderInv
    <2>2. ToSet(reader.ids) \subseteq DOMAIN table
      BY <2>1 DEF Typed, ToSet
    <2>3. /\ reader \in Reader /\ Len(reader.ids) <= PageSize
          /\ walk.on => walk.shown \cup walk.there \subseteq DOMAIN table
      BY <2>1 DEF Typed
    <2>4. (\A i \in DOMAIN queue : queue[i] \in Event) /\ (\A i \in DOMAIN table : table[i] \in Event)
      BY DEF IInv, LogTypeOK
    <2>5. QED
      BY <2>2, <2>3, <2>4 DEF IInv, LogTypeOK, TypeOK
  <1>2. QED
    BY <1>1, AlwaysShows, PTL

LEMMA LinksAreThere ==
  ASSUME table \in Seq(Event), ScreenInv, reader.at = "shown"
  PROVE  LinksExist
  <1> DEFINE n == Cardinality(Selected(reader.view, reader.levels, Len(table)))
  <1>1. Selected(reader.view, reader.levels, Len(table)) = Now(table, reader)
    BY DEF Selected, SelectedIn, Now
  <1>2. reader.page \in Nat /\ reader.max \in Nat
    BY ReaderIs DEF ScreenInv, ReaderInv, Typed
  <1>3. /\ reader.page <= reader.max
        /\ reader.max = 0 \/ reader.max * PageSize < n
    BY <1>1 DEF ScreenInv, ReaderInv, Paged
  <1>4. n \in Nat
    BY <1>1, NowIs, RowsAreFinite
  <1> HIDE DEF n
  <1>5. ASSUME NEW pg \in Links
        PROVE  pg * PageSize < n
    <2>1. pg \in Nat /\ pg <= reader.max /\ reader.max # 0
      BY <1>2, <1>3, <1>5 DEF Links, NextLink
    <2>2. reader.max * PageSize < n
      BY <1>3, <2>1
    <2>3. /\ pg * PageSize <= reader.max * PageSize
          /\ pg * PageSize \in Nat /\ reader.max * PageSize \in Nat
      BY <1>2, <2>1, PageSizeIs, Products
    <2>4. QED
      BY <1>4, <2>2, <2>3
  <1>6. QED
    BY <1>5 DEF LinksExist, n

LEMMA RowsAreThePage ==
  ASSUME table \in Seq(Event), ScreenInv, reader.at = "shown"
  PROVE  PageIsTrue
  <1> DEFINE S == SelectedIn(table, reader.view, reader.levels, reader.upTo)
  <1>1. SUFFICES ASSUME reader.view = "audit" \/ reader.page = reader.asked
                 PROVE  reader.ids \in
                          {Slice(ids, reader.page) :
                             ids \in Orderings(Selected(reader.view, reader.levels, reader.upTo),
                                               OrderOf(reader.view, reader.srt))}
    BY DEF PageIsTrue
  <1>2. /\ reader.view \in View /\ reader.srt \in Srt
        /\ reader.upTo \in Nat /\ reader.upTo <= Len(table)
    BY ReaderIs DEF ScreenInv, ReaderInv, Typed
  <1>3. reader.ids = Slice(Sorted(table, S, reader.srt), reader.page)
    BY <1>1 DEF ScreenInv, ReaderInv, ReadRight
  <1>4. Selected(reader.view, reader.levels, reader.upTo) = S
    BY DEF Selected, SelectedIn
  <1>5. S \in SUBSET DOMAIN table
    BY <1>2, SelectedRows
  <1> HIDE DEF S
  <1>6. Orderings(S, OrderOf(reader.view, reader.srt)) = {Sorted(table, S, reader.srt)}
    BY <1>2, <1>5, OrderingsAre
  <1>7. QED
    BY <1>3, <1>4, <1>6

(***************************************************************************)
(* However the table grows between the two statements of a request and     *)
(* after it, and whatever the size of a page: the rows on the screen are   *)
(* the page under whose number they stand, as it was when it was read, and *)
(* the links lead to pages that exist.                                     *)
(***************************************************************************)
THEOREM ScreenAlwaysTrue == Spec => []ScreenIsTrue
  <1>1. IInv /\ ScreenInv => ScreenIsTrue
    <2> SUFFICES ASSUME IInv, ScreenInv, reader.at = "shown" PROVE PageIsTrue /\ LinksExist
      BY DEF ScreenIsTrue
    <2>1. table \in Seq(Event)
      BY DEF IInv, LogTypeOK
    <2>2. QED
      BY <2>1, LinksAreThere, RowsAreThePage
  <1>2. QED
    BY <1>1, AlwaysShows, PTL

(***************************************************************************)
(* Going from the first page to the last by the link to the next one shows *)
(* every row that was there at the beginning, in each of the orders and    *)
(* however many rows are added meanwhile: they push the others only to     *)
(* later pages, and the last page is the last when its rows were counted.  *)
(***************************************************************************)
THEOREM NoneEverMissed == Spec => []NoneMissed
  <1>1. IInv /\ ScreenInv => NoneMissed
    <2> SUFFICES ASSUME ScreenInv, reader.at = "shown", walk.on, NextLink = {}
                 PROVE  walk.there \subseteq walk.shown
      BY DEF NoneMissed
    <2>1. reader.page \in Nat /\ reader.max \in Nat
      BY ReaderIs DEF ScreenInv, ReaderInv, Typed
    <2>2. reader.max <= reader.page
      <3>1. ~(reader.page < reader.max)
        BY DEF NextLink
      <3>2. QED
        BY <2>1, <3>1
    <2>3. Unseen(walk) = {}
      BY <2>2 DEF ScreenInv, ReaderInv, Walked
    <2>4. QED
      BY <2>3 DEF Unseen
  <1>2. QED
    BY <1>1, AlwaysShows, PTL
=============================================================================
