----------------------------- MODULE TombolaLog -----------------------------
(***************************************************************************)
(* The event log: how a line logged by the application reaches the table   *)
(* logging_event, and how the pages tombolaLog and audit read the table    *)
(* while it grows.                                                         *)
(*                                                                         *)
(* Logback's AsyncAppender puts an event into a bounded queue, or drops it *)
(* when the queue is almost full and its level is INFO or lower. A worker  *)
(* writes the events with TombolaDbAppender over a connection of its own,  *)
(* each committed at once. A method of TombolaService that writes logs its *)
(* line from inside its monitor and its transaction.                       *)
(*                                                                         *)
(* A page is asked for by number and order. It reads the rows of the page  *)
(* and the number of rows in two statements, and reads again when the page *)
(* turns out not to exist.                                                 *)
(***************************************************************************)
EXTENDS Integers, SequencesExt, Orders

CONSTANTS
  Thread,               \* threads of the servlet container
  Settings,             \* who logs and who reads; see Init
  Connections,          \* spring.datasource.hikari.maximumPoolSize
  QueueSize,            \* capacity of AsyncAppender's queue
  DiscardingThreshold,  \* room below which it drops events
  PageSize,             \* tombola.app.logCnt, tombola.app.ticketCnt
  MaxEvents,            \* bound: events logged
  MaxPage               \* bound: page numbers asked for

ASSUME SizeAssumption ==
  /\ {QueueSize, PageSize, Connections} \subseteq Nat \ {0}
  /\ DiscardingThreshold \in 0 .. QueueSize
  /\ {MaxEvents, MaxPage} \subseteq Nat
ASSUME ThreadAssumption == IsFiniteSet(Thread)

\* Values of a column the pages sort by.
Key == {1, 2}

\* audit: the line of a writing method of TombolaService, level INFO.
Kind == {"audit", "info", "error"}
Level(kind) == IF kind = "error" THEN "ERROR" ELSE "INFO"
Levels == {"INFO", "ERROR"}

\* no: when the event was logged; the rows of earlier runs have 0.
Event == [kind : Kind, key : Key, no : 0 .. MaxEvents]

View == {"log", "audit"}
Srt == {"idU", "idD", "kU", "kD"}

ASSUME SettingsAssumption ==
  Settings \subseteq
    [threads : SUBSET Thread, kinds : SUBSET Kind, keys : SUBSET Key, events : 0 .. MaxEvents,
     rows : Nat, views : SUBSET View, crash : BOOLEAN, fails : BOOLEAN]

VARIABLES
  setting,  \* fixed: who logs, and which rows and views there are
  logging,  \* per thread, the event it is handing over, or none
  queue,    \* AsyncAppender's queue
  writing,  \* the event the worker is writing, or none
  table,    \* the rows of logging_event, in the order of their ids
  count,    \* events logged
  lost,     \* events a crash or a failed insert has taken; observed only
  crashed,  \* the application has been started again
  reader,   \* the request for a page, or the page on the screen
  walk      \* what a walk from the first page on has shown; observed only

vars == <<setting, logging, queue, writing, table, count, lost, crashed, reader, walk>>

logVars == <<logging, queue, writing, table, count, lost, crashed>>

Reader ==
  [at : {"nothing", "content", "total", "again", "shown"},
   view : View, srt : Srt, filter : SUBSET Levels, levels : SUBSET Levels, asked : 0 .. MaxPage,
   page : 0 .. MaxPage, max : Nat, ids : Seq(Nat), upTo : Nat]

Nothing ==
  [at |-> "nothing", view |-> "log", srt |-> "idD", filter |-> {}, levels |-> {},
   asked |-> 0, page |-> 0, max |-> 0, ids |-> <<>>, upTo |-> 0]

NoWalk == [on |-> FALSE, there |-> {}, shown |-> {}]

TypeOK ==
  /\ setting \in Settings
  /\ logging \in [Thread -> {<<>>} \cup {<<e>> : e \in Event}]
  /\ Len(queue) <= QueueSize /\ \A i \in DOMAIN queue : queue[i] \in Event
  /\ writing \in {<<>>} \cup {<<e>> : e \in Event}
  /\ \A i \in DOMAIN table : table[i] \in Event
  /\ count \in 0 .. MaxEvents
  /\ lost \subseteq 1 .. count
  /\ reader \in Reader
  /\ ToSet(reader.ids) \subseteq DOMAIN table /\ Len(reader.ids) <= PageSize
  /\ walk.on => walk.shown \cup walk.there \subseteq DOMAIN table

(***************************************************************************)
(* The application starts over a table with rows of earlier runs.          *)
(***************************************************************************)
OldRow(key) == [kind |-> "audit", key |-> key, no |-> 0]

Init ==
  /\ setting \in Settings
  /\ logging = [th \in Thread |-> <<>>]
  /\ queue = <<>> /\ writing = <<>>
  /\ \E n \in 0 .. setting.rows : \E keys \in [1 .. n -> Key] :
       table = [i \in 1 .. n |-> OldRow(keys[i])]
  /\ count = 0
  /\ lost = {}
  /\ crashed = FALSE
  /\ reader = Nothing
  /\ walk = NoWalk

-----------------------------------------------------------------------------
(* Logging *)

InUse == {th \in Thread : logging[th] # <<>>}

(***************************************************************************)
(* The monitor of TombolaService serializes its methods, and each of them  *)
(* logs before it leaves.                                                  *)
(***************************************************************************)
\* Variant: the line is logged after the monitor.
MonitorFreeEarly == TRUE
MonitorFree == \A th \in InUse : logging[th][1].kind # "audit"

\* A line is logged from inside a transaction, which has a connection.
MayLog(kind) ==
  /\ Cardinality(InUse) < Connections
  /\ kind = "audit" => MonitorFree

Room == QueueSize - Len(queue)
Discarded(kind) == Level(kind) = "INFO" /\ Room < DiscardingThreshold

NewEvent(kind, key) == [kind |-> kind, key |-> key, no |-> count + 1]

(***************************************************************************)
(* LOG.info, LOG.error: the test for discarding, and then the hand-over,   *)
(* which waits while the queue is full. The thread keeps its monitor and   *)
(* its connection meanwhile.                                               *)
(***************************************************************************)
Log(th, kind, key) ==
  /\ logging[th] = <<>> /\ count < setting.events /\ MayLog(kind)
  /\ count' = count + 1
  /\ logging' = IF Discarded(kind) THEN logging
                ELSE [logging EXCEPT ![th] = <<NewEvent(kind, key)>>]
  /\ UNCHANGED <<setting, queue, writing, table, lost, crashed, reader, walk>>

Put(th) ==
  /\ logging[th] # <<>> /\ Room > 0
  /\ queue' = queue \o logging[th]
  /\ logging' = [logging EXCEPT ![th] = <<>>]
  /\ UNCHANGED <<setting, writing, table, count, lost, crashed, reader, walk>>

-----------------------------------------------------------------------------
(* Writing *)

Take ==
  /\ writing = <<>> /\ queue # <<>>
  /\ writing' = <<Head(queue)>>
  /\ queue' = Tail(queue)
  /\ UNCHANGED <<setting, logging, table, count, lost, crashed, reader, walk>>

(***************************************************************************)
(* DriverManagerConnectionSource opens a connection beside the pool: the   *)
(* worker does not wait for one. When there is none, or the database       *)
(* refuses a row, say for a line of the stack trace longer than its        *)
(* column, DBAppenderBase catches what is thrown: the event is dropped,    *)
(* all its rows are rolled back, and the worker goes on.                   *)
(***************************************************************************)
\* Variant: the connections come from the pool of the application.
WriterConnectsPooled == Cardinality(InUse) < Connections
WriterConnects == TRUE

Insert ==
  /\ writing # <<>> /\ WriterConnects
  /\ writing' = <<>>
  /\ \/ table' = table \o writing /\ UNCHANGED lost
     \/ setting.fails /\ lost' = lost \cup {e.no : e \in ToSet(writing)} /\ UNCHANGED table
  /\ UNCHANGED <<setting, logging, queue, count, crashed, reader, walk>>

(***************************************************************************)
(* The process is killed and started again: what has not reached the table *)
(* is gone. Bound: once.                                                   *)
(***************************************************************************)
InFlight == ToSet(queue) \cup ToSet(writing) \cup UNION {ToSet(logging[th]) : th \in Thread}

Crash ==
  /\ setting.crash /\ ~crashed
  /\ crashed' = TRUE
  /\ lost' = lost \cup {e.no : e \in InFlight}
  /\ logging' = [th \in Thread |-> <<>>]
  /\ queue' = <<>> /\ writing' = <<>>
  /\ reader' = Nothing /\ walk' = NoWalk
  /\ UNCHANGED <<setting, table, count>>

-----------------------------------------------------------------------------
(* Reading *)

(***************************************************************************)
(* Orders: lists of a column and a direction. findPageByCaller, which only *)
(* audit uses, takes one direction for all the columns.                    *)
(***************************************************************************)
By(column, dir) == [column |-> column, dir |-> dir]

\* Variant: the id does not follow the column.
SortByParamAlone(srt) ==
  CASE srt = "idU" -> <<By("id", "asc")>>
    [] srt = "idD" -> <<By("id", "desc")>>
    [] srt = "kU"  -> <<By("key", "asc")>>
    [] srt = "kD"  -> <<By("key", "desc")>>

SortByParam(srt) ==
  CASE srt = "idU" -> <<By("id", "asc")>>
    [] srt = "idD" -> <<By("id", "desc")>>
    [] srt = "kU"  -> <<By("key", "asc"), By("id", "asc")>>
    [] srt = "kD"  -> <<By("key", "desc"), By("id", "desc")>>

OneDirection(order) ==
  LET dir == IF \E i \in DOMAIN order : order[i].dir = "desc" THEN "desc" ELSE "asc"
  IN  [i \in DOMAIN order |-> By(order[i].column, dir)]

OrderOf(view, srt) ==
  IF view = "audit" THEN OneDirection(SortByParam(srt)) ELSE SortByParam(srt)

(***************************************************************************)
(* The ids in an order. Rows the order does not tell apart come as the     *)
(* database likes, at each query anew: here by id, either way.             *)
(***************************************************************************)
Before(by, i, j) ==
  LET x(k) == IF by.column = "id" THEN k ELSE table[k].key
  IN  IF by.dir = "asc" THEN x(i) < x(j) ELSE x(j) < x(i)

Precedes(order, i, j) ==
  \E k \in DOMAIN order :
    /\ Before(order[k], i, j)
    /\ \A l \in 1 .. k - 1 : ~Before(order[l], i, j) /\ ~Before(order[l], j, i)

Orderings(ids, order) ==
  {Ordered(ids, LAMBDA i, j : Precedes(Append(order, By("id", tie)), i, j)) :
     tie \in {"asc", "desc"}}

\* findPageByLevelString, findPageByCaller: the rows a view is about.
Selected(view, levels, upTo) ==
  {i \in 1 .. upTo : IF view = "audit" THEN table[i].kind = "audit"
                                       ELSE Level(table[i].kind) \in levels}

\* Variant: one row more.
SliceAndNext(ids, page) ==
  SubSeq(ids, page * PageSize + 1, Min({Len(ids), page * PageSize + PageSize + 1}))

\* The rows at the offset and the limit of the page.
Slice(ids, page) == SubSeq(ids, page * PageSize + 1, Min({Len(ids), page * PageSize + PageSize}))

Contents(view, levels, srt, page) ==
  {Slice(ids, page) : ids \in Orderings(Selected(view, levels, Len(table)), OrderOf(view, srt))}

\* getPage: a page out of range is the first one.
GetPage(pg, max) == IF pg \in 0 .. max THEN pg ELSE 0

(***************************************************************************)
(* The number of rows: counted, unless the page is not full and so the     *)
(* last one.                                                               *)
(***************************************************************************)
Total(r) ==
  IF r.ids # <<>> /\ Len(r.ids) < PageSize THEN r.page * PageSize + Len(r.ids)
  ELSE IF r.page = 0 /\ r.ids = <<>> THEN 0
  ELSE Cardinality(Selected(r.view, r.levels, Len(table)))

\* Variant: a full last page counts for two.
MaxOfRoundedUp(total) == total \div PageSize
MaxOf(total) == IF total = 0 THEN 0 ELSE (total - 1) \div PageSize

(***************************************************************************)
(* A request for a page. tombolaLog selects the levels of its filter, or   *)
(* with none those it finds in the table first. audit writes a line of     *)
(* level INFO, which its own query does not select.                        *)
(***************************************************************************)
LevelsFound == {Level(table[i].kind) : i \in DOMAIN table}

Ask(view, srt, filter, pg) ==
  reader' = [Nothing EXCEPT !.at = "content", !.view = view, !.srt = srt, !.filter = filter,
                            !.levels = IF filter = {} THEN LevelsFound ELSE filter,
                            !.asked = pg, !.page = pg]

AuditLine ==
  IF Discarded("info") \/ count = setting.events THEN UNCHANGED <<queue, count>>
  ELSE Room > 0 /\ queue' = Append(queue, NewEvent("info", 1)) /\ count' = count + 1

Open(view, srt, filter, pg) ==
  /\ reader.at \in {"nothing", "shown"}
  /\ view \in setting.views
  /\ view = "audit" => filter = {}
  /\ Ask(view, srt, filter, pg)
  /\ IF view = "audit" THEN AuditLine ELSE UNCHANGED <<queue, count>>
  /\ walk' = NoWalk
  /\ UNCHANGED <<setting, logging, writing, table, lost, crashed>>

(***************************************************************************)
(* The links of the page: first, previous, next and last, as setPage and   *)
(* the template give them. A page without rows has none.                   *)
(***************************************************************************)
NextLink == {p \in {reader.page + 1} : reader.page < reader.max}
Links ==
  IF reader.ids = <<>> THEN {}
  ELSE {p \in {0} : reader.page > 1} \cup {p \in {reader.page - 1} : reader.page > 0}
       \cup NextLink \cup {p \in {reader.max} : reader.page + 1 < reader.max}

Follow(pg) ==
  /\ reader.at = "shown"
  /\ pg \in Links /\ pg <= MaxPage
  /\ Ask(reader.view, reader.srt, reader.filter, pg)
  /\ IF reader.view = "audit" THEN AuditLine ELSE UNCHANGED <<queue, count>>
  /\ walk' = IF pg \in NextLink THEN walk ELSE NoWalk
  /\ UNCHANGED <<setting, logging, writing, table, lost, crashed>>

ReadContent ==
  /\ reader.at = "content"
  /\ \E ids \in Contents(reader.view, reader.levels, reader.srt, reader.page) :
       /\ reader' = [reader EXCEPT !.at = "total", !.ids = ids, !.upTo = Len(table)]
       /\ walk' = IF reader.page = 0
                  THEN [on |-> TRUE, shown |-> ToSet(ids),
                        there |-> Selected(reader.view, reader.levels, Len(table))]
                  ELSE [walk EXCEPT !.shown = @ \cup IF walk.on THEN ToSet(ids) ELSE {}]
  /\ UNCHANGED <<setting, logVars>>

\* The count, the last page, and the page the request turns to.
ReadTotal ==
  /\ reader.at = "total"
  /\ LET max  == MaxOf(Total(reader))
         page == GetPage(reader.page, max)
     IN  reader' = [reader EXCEPT !.at = IF page = reader.page THEN "shown" ELSE "again",
                                  !.max = max, !.page = page]
  /\ UNCHANGED <<setting, logVars, walk>>

(***************************************************************************)
(* The second read: of the page turned to by audit, and of the page asked  *)
(* for by tombolaLog, whose Pageable still names it.                       *)
(***************************************************************************)
\* Variant: both keep their Pageable.
AgainPageAsked(r) == r.asked
AgainPage(r) == IF r.view = "audit" THEN r.page ELSE r.asked

ReadAgain ==
  /\ reader.at = "again"
  /\ \E ids \in Contents(reader.view, reader.levels, reader.srt, AgainPage(reader)) :
       reader' = [reader EXCEPT !.at = "shown", !.ids = ids, !.upTo = Len(table)]
  /\ walk' = NoWalk
  /\ UNCHANGED <<setting, logVars>>

-----------------------------------------------------------------------------

Logger == \E th \in setting.threads, kind \in setting.kinds, key \in setting.keys : Log(th, kind, key)
Handover == \E th \in Thread : Put(th)
Worker == Take \/ Insert

Browse ==
  \/ \E view \in View, srt \in Srt, filter \in {{}, {"ERROR"}}, pg \in 0 .. MaxPage :
       Open(view, srt, filter, pg)
  \/ \E pg \in 0 .. MaxPage : Follow(pg)
Read == ReadContent \/ ReadTotal \/ ReadAgain

Next == Logger \/ Handover \/ Worker \/ Crash \/ Browse \/ Read

Spec == Init /\ [][Next]_vars

(***************************************************************************)
(* The worker goes on while there is something to write.                   *)
(***************************************************************************)
FairSpec ==
  /\ Spec
  /\ WF_vars(Worker) /\ \A th \in Thread : WF_vars(Put(th))

-----------------------------------------------------------------------------
(* Properties *)

(***************************************************************************)
(* An event that was not discarded reaches the table, or is lost by a      *)
(* crash or because its own insert fails; none waits for ever: the worker  *)
(* outlives failures and needs nothing that a thread waiting for the queue *)
(* holds, neither a monitor nor a connection of the pool.                  *)
(***************************************************************************)
Stored(n) == \E i \in DOMAIN table : table[i].no = n

EventsArrive ==
  \A n \in 1 .. MaxEvents : (\E e \in InFlight : e.no = n) ~> (Stored(n) \/ n \in lost)

(***************************************************************************)
(* The lines of the audit page are in the order in which the methods wrote *)
(* them: a line waiting for room in the queue is not overtaken by another. *)
(***************************************************************************)
AuditInOrder ==
  \A i, j \in DOMAIN table :
    (i < j /\ table[i].kind = "audit" /\ table[j].kind = "audit" /\ table[j].no > 0)
      => table[i].no < table[j].no

(***************************************************************************)
(* What is on the screen agrees with the table. The rows are the page      *)
(* under whose number they stand, as it was when it was read: for audit    *)
(* always, for tombolaLog unless the page asked for did not exist. The     *)
(* links lead to pages that exist.                                         *)
(***************************************************************************)
PageIsTrue ==
  (reader.view = "audit" \/ reader.page = reader.asked) =>
    reader.ids \in {Slice(ids, reader.page) :
       ids \in Orderings(Selected(reader.view, reader.levels, reader.upTo),
                         OrderOf(reader.view, reader.srt))}

LinksExist ==
  \A pg \in Links :
    pg * PageSize < Cardinality(Selected(reader.view, reader.levels, Len(table)))

ScreenIsTrue == reader.at = "shown" => PageIsTrue /\ LinksExist

(***************************************************************************)
(* Going from the first page to the last by the link to the next one shows *)
(* every row that was there at the beginning, in any order and however the *)
(* table grows meanwhile.                                                  *)
(***************************************************************************)
NoneMissed ==
  (reader.at = "shown" /\ walk.on /\ NextLink = {}) => walk.there \subseteq walk.shown
=============================================================================
