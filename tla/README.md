# Tombola in TLA+

A verification project for `lhsradek/tombola`, a raffle ("tombola") web
application in Java and Spring Boot: models of its components in TLA+, TLC
configurations that check them on small instances, and proofs that TLAPS checks
for instances of any size.

Paths below are relative to `tombola-impl/src/main/java/local/intranet/tombola/api` unless
they say otherwise.

## 1. The system

Managers open a page that proposes a *draft*, a random free ticket for each
prize that has pieces left, and press a button on a row to give that prize away.
Other programs do the same, and add, delete and rename, through a REST API.
Everything is in one relational database (H2, PostgreSQL or MariaDB). The
services are Spring beans with `synchronized` methods, most of them
`@Transactional`; HTTP sessions are kept in Redis by Spring Session.

### 1.1 Components

| component | state | operations | what makes it correct |
|---|---|---|---|
| **Raffle store** `TombolaService`, `Prize`, `Ticket`, the schema | `tombola_prize` (name, `cnt`, `issued`), `tombola_ticket` (`win`), `tombola_prize_ticket` (the tickets of a prize) | `putTickets`, `patchPrizeTicket`, `patchPrizeName`, `deleteTicket` | the three places that record a win agree; a win is never reassigned; a deleted ticket's prize comes back |
| **Transactions and monitors** Spring's proxies, Hibernate's session | what a request has read and not yet flushed; who holds a monitor | reads, flush, commit, rollback of those four | requests that run one at a time are atomic; interleaved ones never free a listed ticket, move a win, or bring back a ticket |
| **Manager page** `IndexController.getManager`, `setManager`, `TicketLink`, `manager.html` | the `TicketLink` (salt and iv) in the session, the rows in the browser | make a page, submit a row, log out | a manager who waits for each answer does not bring a count above the pieces there are; the raffle can be finished |
| **Monitors and pool** all controllers and services | owner of each bean's monitor, connections in use | every HTTP request | no request waits for good, nothing leaks |
| **Sign-in and blocking** `LoginAttemptService`, `UserService`, the listeners, `IndexController.signin` | failures per address, expiring | check, count, reset | an address gets only so many guesses, a block lasts and ends, the form always answers |
| **Start-up data** `TombolaService.init` | whether roles, users, tickets and prizes exist | first and later starts | what is served is complete, however often a process or `init` has stopped half way; starting keeps a raffle under way |
| **Audit history** Envers, `getPrize`, `getTicket` | `tombola_prize_a`, `tombola_ticket_a`, one revision per commit | a revision per commit, two queries | the history shows each win and each deletion, and alone retells the raffle |
| **Event log** `TombolaDbAppender`, `logback-spring.xml` | queue of the asynchronous appender, `logging_event` | put or discard, write, crash | lines stay in order, an accepted line is lost only to a crash or to its own insert failing, logging never stops a request for good |
| **Pages and sorting** `getPage`, `setPage`, the sort parameters, `LoggingEventService` | page number, sort order | read a page and the number of rows, read again when out of range, follow a link | number, rows and links belong together; a walk misses nothing |
| **API documentation search** `src/application/html/tombola-javadoc/search.js`, `script.js` | indices that have arrived, the search box, the menu of the widget | load an index, type, search, select, leave, reset | the menu answers what was typed from what has arrived, shows why as far as it can, and leads to the right page |
| **Buttons of the pages** `res/button.js` | none of the application's | scroll to the top | |
| **Roles, sessions, logout** `SecurityConfig`, `LogoutSuccess`, `RoleService` | the user's roles and session | who may call what | each operation has the role its page asks for |
| **Status and properties** `StatusController`, `InfoController`, `BeanService` | none of its own | print the environment; `makeAPIBeans` calls every bean by reflection | it disturbs nobody |

Redis messaging (a publisher nobody calls), records and templates, OpenAPI,
deployment files, vendored scripts and the pages of the generated Javadoc have no
behaviour of their own.

### 1.2 How they interact

- A page or a REST handler calls `TombolaService` inside the request's thread.
  `IndexController.getManager`, `setManager`, `signin` and `addModel` hold that
  controller's monitor across the whole call; `TombolaController` has none.
- The transaction of a service method is opened by the proxy *before* the
  method's monitor is entered and committed *after* it is left. A connection of
  the pool is held all the while.
- `TombolaService` calls `UserService` (who is signed in) and, in the audit
  queries, `StatusController` (address, session) from inside its monitor;
  `StatusController.makeAPIBeans` calls all the services from inside its own.
- A request loads its session before the controller runs and saves it after:
  neither is under a monitor.
- Spring Security calls `UserService.loadUserByUsername` and sends events to two
  listeners, which call `LoginAttemptService`.
- The log goes to the same database, by a thread and connections of its own. A
  writing method logs its line from inside its monitor and its transaction, and
  waits there when the queue is full.
- Envers writes the revision of a transaction when it commits.
- The documentation is static: its scripts meet the server only by fetching indices.

### 1.3 What is hard here

- *The monitor ends before the commit.* The next request can read the tables as
  they were. No row carries a version, an `UPDATE` writes every column, and a
  replaced collection is written back whole, unless it was empty when it was read: then
  its ticket is added to whatever rows are there.
- *The isolation level is the database's default*: read committed for H2 and
  PostgreSQL, repeatable read for MariaDB.
- *Drafts are promises made earlier*: nothing on the path of a submission looks
  at how many pieces are left, only that the page decrypts.
- *Monitors of beans that call each other*, and a pool that can be empty.
- *Check, then act* in sign-in, with slow password hashing in between.
- *A first start in several transactions*, made by the first request that needs
  the service, and made again by the next one when it failed.
- *A bounded queue between the requests and the log*, filled from inside monitors,
  and a worker that drops what it cannot insert.
- *A page read by several statements* from a table that grows meanwhile.
- *Callbacks of a widget* over data that arrives in any order, or never.

`PROJECT.json` lists these hazards one by one with the line where each bites and
the properties that would notice.

## 2. Modules

```
 TombolaStore  <--INSTANCE-- TombolaTx       <--EXTENDS-- MCTombolaTx, TombolaTxProofs
      ^                          ^--EXTENDS-- TombolaManager
      |--EXTENDS and INSTANCE-- TombolaAudit <--EXTENDS-- MCTombolaAudit, TombolaAuditProofs

 TombolaManager  <--EXTENDS-- MCTombolaManager, TombolaManagerProofs
 TombolaTxProofs <--EXTENDS-- TombolaManagerProofs

 TombolaMonitors <--EXTENDS-- TombolaMonitorsProofs
 TombolaLogin    <--EXTENDS-- TombolaLoginProofs
 TombolaStartup  <--EXTENDS-- TombolaStartupProofs
 TombolaLog      <--EXTENDS-- MCTombolaLog, TombolaLogProofs
 JavadocSearch   <--EXTENDS-- MCJavadocSearch, JavadocSearchProofs

 Orders          <--EXTENDS-- TombolaAudit, TombolaLog, JavadocSearch
```

`TombolaStore` is the abstract specification: what the writing methods promise if each ran
alone. `TombolaTx` is the detailed one and is shown to implement it where it does (checked,
and proved in `TombolaTxProofs`); `TombolaManager` is the manager page over the steps of
`TombolaTx`; `TombolaAudit` adds the revisions to `TombolaStore`, and is shown to be able to
retell it from them alone. `Orders` puts sets in order and filters sequences, by rank: what
`SetToSortSeq` and `SelectSeq` of the libraries compute, in a form the provers can use, to
which those are opaque.

### 2.1 TombolaStore

State: `prize` (name and `issued` of each row), `tickets` (ids of the rows),
`win`, `listed` (the join table, by prize) and `seen`, the ids that were ever
given out. Actions: `PutTickets`, `PatchPrizeTicket`, `PatchPrizeName`,
`DeleteTicket`, one per method. `cnt` never changes after installation and
matters only to drafts, so it is in `TombolaManager`. A rolled back insert
consumes ids, so `PutTickets` takes any fresh ids.

Abstracted: created and modified dates and users. Bound: `MaxTicketId`.

### 2.2 TombolaTx

One record per thread: the request it serves, the next step, and the entities its
Hibernate session has loaded. `Enter` and `LeaveWith` take and release the
monitor of `TombolaService`; reads are between them, `Commit` after. Under read
committed each `SELECT` is a step of its own (`ReadPrizeRow`, `ReadTicketRow`,
`ReadAllPrizes`, `ReadCollection`); under repeatable read the first one fixes the
snapshot (`ReadSnapshot`). `AfterPatchPrizeTicket` and its like say what the
tables hold once the session's dirty rows are written, whole, from what was
*read*, not from what is there. One thing Hibernate does not write back: a collection
that was loaded empty has no rows to delete, so when `patchPrizeTicket` replaces it by a
new set, rows committed meanwhile stay (`Kept`), and the new ticket must not be one of
them (`InsertedOnce`). `Accepted` is the row count check of Hibernate and
the unique and foreign keys; a transaction that is not accepted rolls back
(`Reject`), and any request may fail before its commit (`Fail`). `lastId` is the
identity column, which a rollback does not give back.

`FormClients` arrive through `setManager`, inside the monitor of
`IndexController`, which covers the commit; `RestClients` without. `setting`, chosen
at the start from `Settings` and never changed, says which threads are active
(`callers`), with which operations, and whether the database reads repeatably
(`snapshotReads`). `MCTombolaTx` names the settings of the runs.

### 2.3 TombolaManager

The module extends `TombolaTx`, so that everything the page does with the service, and
everything REST callers do meanwhile, goes through its steps: reads, flush and commit.

`draft[s]` is the page that belongs to the `TicketLink` in session `s`; `shown[s]` are the
rows of all pages its browser may still have open; `req` is the request of each thread. A
GET draws (`Drafts`: every choice `Math.random` can make, prizes in the order of
`findByReadyToWin`) and saves the session later (`Respond`). A POST has loaded the session
when it begins (`SubmitFresh`: the row matches the loaded salt and iv; `SubmitStale`: it
does not) and acts later: `Undecipherable`, or `Apply`, which takes the monitor of
`IndexController` and calls `patchPrizeTicket`, whose steps are `PatchStep` and
`PatchFails`. The monitor is held until the call has committed. Between the beginning and
the monitor the session may be replaced, as it may in the code, where it is loaded and saved
outside the monitor. AES is abstracted to whether salt and iv are those of the page: a wrong
pair gives bad padding or no number. `Draw` reads prizes and tickets at one instant.

REST callers pass no monitor of a controller, and the service's ends before the commit:
their requests are steps of `TombolaTx` as well (`RestBegins`, `RestStep`, `RestFails`),
between those of the page. `setting.ops` are the operations they use. The runs leave out
`patchPrizeTicket`: a REST caller who issues prizes is not bound by drafts at all.
Renaming is left out of what is said of counts, too, because it writes the whole row back.
With one piece, issued: a renaming reads `issued` 1, a deletion commits 0, the manager
gets a draft, the renaming commits 1, and the submission makes it 2. Each further renaming
under way can add one more, so no bound exists. With deletions a bound would not hold for
several managers either; for one who waits it holds for the count, which is what
`NeverOverIssued` says, because a deletion writes back less than it read. The count itself
may have fallen behind the winners (`tx_two_deletes`).

### 2.4 TombolaMonitors

A request is the sequence of monitors it enters and leaves and of connections it
takes and returns. `Programs` gives each request its sequences, built from one
operator per method (`In`, `Call`, `Tx`, `Service`). Threads execute them with
reentrant monitors and a bounded pool. A request that gets no connection in time
fails and leaves everything, except in `makeAPIBeans`, which catches what the
method it invoked threw and goes on (`recover`, `Skip`). `Pools` are the sizes of the
pool, one of which a behaviour has.

### 2.5 TombolaLogin

`attempts` and `age` are the cache: failures per address and time since the last
write. A sign-in is a thread that goes through `Check`, `Find`, `CountUnknown`,
`Verify` and then `Fail` or `Succeed`, each one call of a `synchronized` service.
The form does `Check` and `Find` twice (`again`): `signin` loads the user itself
and then lets Spring Security do it. All of a form's sign-in is in the monitor of
`IndexController` (`index`); HTTP basic is not. `ways`, chosen at the start, says
whether clients use HTTP basic as well. `Tick` is the clock.
Bound: none but the number of threads and `MaxAttempt`; `attempts` cannot grow
further, which is what `GuessesBounded` says.

### 2.6 TombolaStartup

A process, and `TombolaService.init` in it. Beans are lazy
(`spring.main.lazy-initialization`), so `init` runs at the first request that needs the
service (`Request`). `stage` is "down" without a process, "up" in one whose service is
not made, a step of `init`, or "serving"; each action is one transaction: `SaveRole` and
`SaveUser` of `forJdbc`, `PutTickets`, `PutPrizes`, and `FirstPrize`, the
`findById(1).get()` behind the save. `init` calls these methods past the proxy, so
`@Transactional` on them does nothing here. When it fails, wherever it is, the request
fails and the process stays (`InitFails`, and `FirstPrize` without a prize 1): the next
request runs it again over what is there. `ProcessFails` and `Stop` end the process.

`schema`, chosen at the start, says who makes the tables, which happens once per process, in
`Start`: Flyway, with the users, and only the first time (`Migrate`), or Hibernate, anew and
without (`CreateTables`), the set-up that `forJdbc` is for. `forJdbc` does nothing unless
roles and users are both empty; `stopped` observes that an `init` of this process has ended
in between. An insert that is rolled back has consumed ids (`lost`). `Serve` stands for the
raffle in between: only tickets come and go. Tables are abstracted to what `init` asks of
them: the number of tickets, the ids of the prizes, the roles of each user. `PrizeCount` is
at least one: with no prizes configured the lookup fails at every start. Bounds:
`MaxFailures`, `MaxTickets`.

### 2.7 TombolaAudit

`revs` is the sequence of revisions, each with the audit rows of the prizes and of the
tickets it changed. Every action of `TombolaStore` is taken together with `Record`,
which derives these rows as Envers does, from what the flush changes: a column of an
audited row, an insert, a delete. The join table is not audited, and a deleted row
leaves no data (Envers' default). `GetPrize` and `GetTicket` are the two
queries as the code runs them, with the inner `break` after the first ticket of a
revision and the test that lets a revision without tickets in only while nothing newer
has been told. `Told...` are the tables rebuilt from the last audit row of each prize and
ticket; `ToldSpec` is `TombolaStore` over them. Bound: `MaxRevision`.

### 2.8 TombolaLog

`Log` is the test for discarding and `Put` the hand-over to the queue, two steps, as in
`AsyncAppenderBase`; a thread in between keeps its connection, and with an audit line the
monitor of `TombolaService` (`MayLog`). `Take` and `Insert` are the worker, whose connection
is not of the pool (`WriterConnects`). An insert may fail (`setting.fails`): no connection,
an error of the database, or a line of the stack trace longer than its column, which
`TombolaDbAppender` can make by cutting only the message behind the name of the exception.
`DBAppenderBase` catches it, the event is gone, and the worker takes the next. `Crash` kills
the process, once, and takes what is in flight; `lost` only observes what has gone either
way. `reader` is one request for a page, or the page on the screen: `Open` and `Follow` a
link, `ReadContent`, `ReadTotal` and `ReadAgain`, which are the statements of Spring Data
and the second read of the controller, each a step of its own. Spring Data does not count
when the page is not full (`Total`). `findPageByCaller` takes one direction for all columns
(`OneDirection`). Rows an order does not tell apart come either way, anew at each query.
`walk` observes what following the link to the next page from the first on has shown.

`setting` says who logs and who reads: threads that are killed (`Loggers` of
`MCTombolaLog`), threads that fill queue and pool (`Overflow`), both with inserts that fail,
or one that logs while somebody pages through the log or the audit (`Readers`). Bounds:
`MaxEvents`, `MaxPage`, one crash, three earlier rows.

### 2.9 JavadocSearch

The only program of the repository that runs in a browser with state of its own. `Found`,
`ConcatResults`, `Counter` and `Response` are the callback `source` of `search.js`, with the
array the categories share and the cut at `Limit`; `had` observes which indices it had;
`RenderMenu`, `RenderItem`, `GetHighlightedText` are the menu; `GetURLPrefix` and `Url` are
where an entry leads. Text is a sequence of letters, some of which stand for several that
occur together only. The expressions of `search.js` are modelled by what they match:
`CamelCaseAt` compares hump by hump, with small letters skipped between, and
`SecondaryMatcher` finds a term anywhere in the looked-up text, within a word too, capital
or not. A type without a package, as the overview page "All Classes" in the index of types,
is looked up with "undefined." before its name (`Undefined`), so "def" finds it and the menu
shows nothing that matches. The actions are the handlers of `search.js` together with what
jQuery UI's autocomplete does around them (`Delay`, `Arrow`, `Escape`, marked external), and
`LoadScripts`, an index that arrives. Text enters by the keyboard. `MCJavadocSearch` has a
site like the published one: no modules, no tags, overview pages in the indices, types of
one name in three packages, terms that match a word's middle, a package and a member at
once, or "undefined." only.

### 2.10 Conventions

An operator whose comment says *Variant* is a definition with a plausible mistake
in it. No specification uses it; it is there to show, by putting it in the place
of the definition it is a variant of, that the property named for it in
`PROJECT.json` notices that mistake.

## 3. Runs

| run | question | bounds | states |
|---|---|---|---|
| `audit` | do the three copies of the ledger agree and are wins final when methods run alone, and do the two histories tell all of it? | 2 prizes, 3 names (symmetry), 3 ticket ids, 6 revisions | 51,931 |
| `tx_serial` | do requests that run one at a time implement `TombolaStore`, whatever their reads and commits do? | 2 form threads, or 1 REST thread with all operations, each under both isolation levels; 3 ticket ids | 110,664 |
| `tx_concurrent` | what survives when a manager and REST callers interleave? | 1 manager and 1 REST caller with all operations, read committed, 2 ticket ids; 1 manager and 1 or 2 REST callers drawing, repeatable read, 3 or 2 ticket ids | 1,684,662 |
| `tx_two_deletes` | does every deletion give the prize back? *No, see section 6* | 2 REST threads, 2 tickets won by one prize | violated |
| `draw_one` | can one manager bring a count above the pieces, and does the raffle end? | 1 session, 1 request at a time; prizes with 1 and 2 pieces, 3 ticket ids; 1 REST caller who adds, deletes or renames, step by step | 370,120 |
| `draw_many` | by how much can a prize be over-issued? | 1 session, 2 threads, 1 prize with 1 piece, 4 ticket ids; 1 REST caller who adds, both isolation levels | 1,623,552 |
| `monitors` | does every request end, with nothing held, and does nobody wait in a circle? | all kinds but the audit queries, 2 threads, a pool of 1 or 2 | 121,946 |
| `monitors_audit` | may an audit query join in? *No, see section 6* | 2 threads, `getPrize` and `getProperties` | violated |
| `login` | does the form keep the limit and always answer, by how much do parallel HTTP basic requests exceed it, how long does a block last? | 3 threads, 1 address, limit 2, with the form alone or with both | 58,268 |
| `startup` | is what is served complete, is a raffle under way kept, does the application come up again? | 2 prizes, 2 tickets put and at most 3, 3 failures of `init` or of the process, both ways of making the tables | 1,659 |
| `pages` | do audit lines stay in order, does an accepted line arrive or get lost only to a crash or a failed insert, do pages, links and walks agree with the table? | 3 threads, a pool and a queue of 2, pages of 2 rows, 3 earlier rows, up to 5 events | 207,996 |
| `javadoc` | does the menu answer the term from the indices that have arrived, explain itself and lead to the right page; is the watermark ever searched? | 3 indices with 4 to 6 entries, 7 terms, 2 shown per category | 14,148 |

Why the bounds are enough. Two prizes are needed for a ticket to move from one to another
and for one deletion to search two collections; two tickets for a stale collection to differ
from the real one; a third so that one can be added while the others are at stake. Two
prizes with different counts exercise the order of `findByReadyToWin` and the free tickets
running out. A third name lets two prizes exchange names by way of a free one. One
connection is the pool at its limit. Lost updates, stale writes and lock circles of this
code need two requests; the repeatable-read half of `tx_concurrent` has three to look for
what only three can do (with two, a third ticket lets one of them draw again after a lost
update; `ThirdTicket` keeps it out elsewhere), and for monitors the theorem
`MonitorsAreOrdered` leaves no number out. An address at its limit with one attempt to go,
and two more in flight, needs a limit of two and three threads. Two prizes are the least
whose order a shift of ids can upset; three failures let a save be lost, the lookup behind
the next one fail, and an `init` stop among the users as well. At most two revisions are the
installation's; six are enough for a ticket to be added, win and be deleted while another
prize changes. A queue of two with a threshold of one is both almost full and full; with one
event being written and two threads of a pool of two waiting, five events are the first that
could stop all. Five rows over pages of two make three pages, so that each of the four links
occurs and a page can come into being between two statements. A limit of two is below what
`Index` matches among types and members, and below its three exact matches among the types.

`pages` turns TLC's check for deadlock off: its events are bounded, and where nobody
reads the log it really stops. In all other models another request can always come.

What the runs say about the code:

- `StoreSpec` holds for managers among themselves, at both isolation levels: `setManager`
  holds the monitor of `IndexController` until the commit. It holds for a REST
  caller who waits for each answer.
- It does **not** hold for REST callers who do not wait. Still, as `tx_concurrent`
  shows, no draft can offer a ticket that a prize lists (`FreeIsUnlisted`), a
  ticket both marked and listed stays with its prize until it is deleted (the unique key on
  the join table refuses the second), and a stale session does not insert a deleted ticket
  again (`TicketFateIsFinal`). What is lost there is weaker: `issued` may drift
  from the collection under read committed, a new name may be overwritten by a
  concurrent draw, and a ticket may be marked as won without being listed.
  Under repeatable read, too, they drift apart: two draws that both found a prize without
  tickets leave `issued` 1 and two tickets listed, as nothing is deleted for an empty
  collection. Where everyone draws, the count never exceeds what is listed, and is zero
  only where nothing is (`ListingCoversIssued`).
- One manager who waits for each answer never brings `issued` above the pieces there are
  (`NeverOverIssued`), even when submitting rows of old pages, and while REST callers add and
  delete: the pair of salt and iv is replaced by each page. It is a statement about the count,
  and REST callers who rename break it (section 2.3). With concurrent requests a prize can be
  over-issued; where REST callers only add tickets, by at most one piece per session and per
  thread, less one (`OverIssueBounded`).
- Managers who go on finish the raffle once REST calls and failures cease (`RaffleEnds`).
  Two callers renaming a prize in turn could carry an old `issued` on for ever.
- `RequestsEnd` in `monitors`: with a pool of one, requests fail but end.
- `GuessesBounded`: sign-ins by the form alone never exceed the limit, because the
  monitor of `IndexController` covers check and count. HTTP basic can, by as many
  as run at once.
- What is served is complete (`ServesComplete`), with one exception. Prizes are saved in one
  transaction, and Flyway writes the accounts in one. Hibernate's tables have the accounts
  of `forJdbc`, role by role and user by user, and stay when `init` fails, since the process
  goes on: the next request runs it again, `forJdbc` finds tables that are not empty and
  does nothing, and the users not yet written are missing until the process is started
  again.
- A save of the prizes that is rolled back shifts their ids. One `init` then fails at the
  lookup of id 1, with the prizes saved, and that of the next request succeeds (`ComesUp`);
  but the rows of `manager.html`, which find their prize by its place in a list, then show
  another prize than their button gives, or none. `RowShowsItsPrize` says that nothing else
  does this.
- The histories are complete although `getPrize` skips most revisions without a ticket and
  the collection is not audited: the newest row is always told, and the tickets won and
  not deleted are the ones listed (`PrizesTold`, `TicketsTold`).
- A full queue makes requests wait inside the monitor of `TombolaService`, but not for
  good: the worker needs neither that monitor nor the pool, and outlives an insert that fails
  (`EventsArrive`). A worker that took its connections from the pool would make them wait for
  good (the variant `WriterConnectsPooled`). An event whose insert fails is lost, be it an
  audit line.
- The rows under a page number are that page's. The exception is `tombolaLog` when the page
  asked for does not exist: it reads the same page again and shows no rows under the
  number 0; `audit` shows the first page. `ScreenIsTrue` says that nothing else goes wrong,
  although rows and count are two statements. A walk along the links misses no row that
  was there, in any of the orders, because each ends with the id (`NoneMissed`).
- The documentation's menu heads each category once and highlights where an entry matches,
  except for the types without a package: "All Classes" is listed for any part of
  "undefined." with nothing highlighted (`MenuExplains`). Entries lead to their pages
  whichever indices are missing. For this site: with modules, an entry found before the
  index of packages has come would lack its module.

## 4. Fairness

- `TombolaTx`: none; only safety is said of it.
- `TombolaManager` (`RaffleEnds`): weak fairness for the server's steps, those of REST
  requests under way included: they hold the service's monitor until they have read, and
  then only commit. None for new REST calls nor for failures; the property is about
  behaviours in which they cease. Strong fairness for loading the page and for submitting a
  row that can still win: managers who keep drawing are the environment, and the property
  says that *if* they do the raffle ends. Without them no code could end it.
- `TombolaMonitors`: strong fairness of each thread's steps. Java's monitors are
  not fair, but HotSpot queues the threads that wait for one, and none is passed over
  for good. A thread waiting for a connection always has the timeout step.
- `TombolaLogin` (`Unblocks`): weak fairness of the clock alone. No client is
  assumed to do anything.
- `TombolaLog` (`EventsArrive`): weak fairness of the worker and of each thread's
  hand-over. The worker is a thread that loops. The queue's lock is not a fair one, but
  events are bounded: a thread waiting for room can be overtaken only so often, and then
  has room until it is let in. With endless logging nothing would promise it.
- `TombolaStartup` (`ComesUp`): weak fairness of the steps of a process, which is the
  container's restart policy and `init` going on, and strong fairness of a request that
  needs the service, as a process may be stopped before one came, but not each time.
  Failures are bounded, not unfair.

## 5. Proofs

| theorem | says | for |
|---|---|---|
| `TombolaAuditProofs!TypeCorrect` | `Spec => []TypeOK` | any finite set of prizes, names, number of tickets |
| `TombolaAuditProofs!LedgerCorrect` | `Spec => []LedgerAgrees` | the same |
| `TombolaAuditProofs!WinsAreFinal` | `Spec => WinIsFinal` | the same |
| `TombolaAuditProofs!AuditTypeCorrect` | `AuditSpec => []AuditTypeOK` | the same, any number of revisions |
| `TombolaAuditProofs!AuditRetells` | `AuditSpec => ToldSpec`, a refinement | the same |
| `TombolaAuditProofs!TicketsAlwaysTold` | `AuditSpec => []TicketsTold` | the same |
| `TombolaAuditProofs!PrizesAlwaysTold` | `AuditSpec => []PrizesTold` | the same |
| `TombolaTxProofs!InductiveInvariant` | `Spec => []IInv` | any prizes, names, number of tickets, clients, operations, both isolation levels |
| `TombolaTxProofs!TypeCorrect` | `Spec => []TypeOK` | the same |
| `TombolaTxProofs!FreeTicketsUnlisted` | `Spec => []FreeIsUnlisted` | the same |
| `TombolaTxProofs!FateIsFinal` | `Spec => TicketFateIsFinal` | the same |
| `TombolaTxProofs!IssuedIsCovered` | `Spec => []ListingCoversIssued` (which is about draws only, read repeatably) | the same |
| `TombolaTxProofs!SerialIsStore` | `Spec /\ Serial => StoreSpec`, a refinement | managers only, or one thread for everything |
| `TombolaManagerProofs!ManagerInvariant` | `ManagerSpec => []MInv` | any finite sets of prizes, sessions, threads and REST clients, any number of pieces and tickets, all settings |
| `TombolaManagerProofs!ManagerTypeCorrect` | `ManagerSpec => []ManagerTypeOK` | the same |
| `TombolaManagerProofs!OverIssueIsBounded` | `ManagerSpec => []OverIssueBounded` | the same (about behaviours in which REST callers only add tickets) |
| `TombolaManagerProofs!OneManagerKeepsCount` | `ManagerSpec => []NeverOverIssued` | one session, one thread, any prizes, tickets and REST clients (about behaviours in which these add and delete) |
| `TombolaMonitorsProofs!TypeCorrect` | `Spec => []TypeOK` | any threads and pools, all requests but `getPrize` and `getTicket` |
| `TombolaMonitorsProofs!RequestsHoldNothing` | `Spec => []NothingLeaks` | the same |
| `TombolaMonitorsProofs!MonitorsAreOrdered` | `Spec => []NoDeadlock` | the same |
| `TombolaLoginProofs!TypeCorrect` | `Spec => []TypeOK` | any finite set of threads, addresses, limit, expiry |
| `TombolaLoginProofs!GuessesAreBounded` | `Spec => []GuessesBounded` | the same, form and basic |
| `TombolaLoginProofs!FormIsAnswered` | `Spec => []FormNeverFails` (which is about behaviours without HTTP basic) | the same |
| `TombolaLoginProofs!BlocksLast` | `Spec => BlockLasts` | the same |
| `TombolaLogProofs!InductiveInvariant` | `Spec => []IInv` | any threads, queue, threshold, number of events, with or without a crash and failing inserts |
| `TombolaLogProofs!LinesInOrder` | `Spec => []AuditInOrder` | the same |
| `TombolaLogProofs!TypesHold` | `Spec => []TypeOK` | the same, any rows and any size of a page |
| `TombolaLogProofs!ScreenAlwaysTrue` | `Spec => []ScreenIsTrue` | the same |
| `TombolaLogProofs!NoneEverMissed` | `Spec => []NoneMissed` | the same |
| `TombolaStartupProofs!TypeCorrect` | `Spec => []TypeOK` | any number of prizes, tickets and failures |
| `TombolaStartupProofs!StartsAreCompleted` | `Spec => []ServesComplete` | the same |
| `TombolaStartupProofs!RowsAreRight` | `Spec => []RowShowsItsPrize` | the same |
| `TombolaStartupProofs!StartsKeepTheRaffle` | `Spec => StartKeepsRaffle` | the same |
| `JavadocSearchProofs!TypesHold` | `Spec => []TypeOK` | any indices of distinct entries, any letters, terms and limit |
| `JavadocSearchProofs!WatermarkNeverSearched` | `Spec => []WatermarkNotSearched` | the same |
| `JavadocSearchProofs!MenuAlwaysAnswers` | `Spec => []MenuAnswersTerm` | the same |
| `JavadocSearchProofs!MenuAlwaysExplains` | `Spec => []MenuExplains` | the same, entries looked up as in the published indices |
| `JavadocSearchProofs!SelectAlwaysLeadsToPage` | `Spec => []SelectLeadsToPage` | the same, a site without modules and tags |

*The ledger.* `LedgerAgrees` is inductive together with the type invariant and with
the fact that a ticket without a row has not won: without it `PutTickets` could make a
row whose `win` already names a prize that does not list it. `PatchPrizeTicket`
adds a ticket that was in no collection, so the cardinality grows by one;
`DeleteTicket` removes it from exactly the collections that have it. The counting uses
`FiniteSetTheorems`. `WinsAreFinal` needs the type invariant (a deleted id is in
`seen`, and `PutTickets` takes fresh ones).

*The audit.* Each audited action is an action of `TombolaStore` and a `Record`, so what is
proved of the store holds here. `ToldInv` says that the last audit row of each prize is its
row, and that of each ticket ever used tells its `win` and whether it was deleted. It is
inductive because a step appends a revision with exactly the rows it changes, and an
appended revision is the last one of what it mentions. Under it the rebuilt tables equal the
real ones (`ToldIsTrue`; the rebuilt collections by `LedgerAgrees`), and steps map to steps.
For the two queries that is not enough, because they skip revisions. `PastInv` adds what has
happened: a ticket was added once, first, and while it is free nothing else has happened to
it (`TicketPast`); a revision of a prize has at most one ticket, won or given back, and
those won and not given back are the ones it lists (`PrizePast`). So what a query skips is
what it has told already.

*Interleaved transactions.* What a request may still write has to be in the invariant,
because it writes from copies. `IInv` of `TombolaTxProofs` says: each request has the
arguments of its operation and is at one of its steps (`Formed`); a row it will write it has
read before (`Loaded`), so that nothing untyped can be committed; in the copies under way
too, every listed ticket is marked as won, or is gone (`Copied`), so writing a stale
collection back lists no free ticket; and ids under way to be inserted were never used by
another (`InsertsFresh`). The unique and foreign keys (`ListedOnce`, `ListedExist`) are what
lets a commit keep it: `AfterOrderly` says what any commit they accept does to the tables.
`FateIsFinal` then is one step from `IInv`: a commit that would move a listed ticket to
another prize would list it twice. `IssuedInv` adds, for draws that read repeatably, that
the row and the collection a request has read are of one moment, so that the count covers no
more than the collection (`Covers`); one more of each is written back, and where the
collection was empty rows that are there stay, which only adds to it.

*The service implements the store.* Under `Serial` at most one request is under way, by the
monitor of `IndexController` that `setManager` holds until the commit, or because there is
one thread. `SerialInv` says so, and that what the request has read is what is committed
(`Current`). Its commit is then the one action of `TombolaStore`, and every other step a
stutter. So the theorems of `TombolaAuditProofs` about the store are true of the interleaved
service where `Serial` is. Without `Serial` the refinement is false (`tx_two_deletes`).

*Promises.* A step of the manager page is a step of `TombolaTx` or leaves its variables
alone, so `IInv` holds under it. `MInv` adds that a thread giving a prize holds the monitor
of `IndexController` (`Serves`), that promised tickets have existed (`Known`), so that a row
inserted later is none, and that where only managers draw the ticket being given is free
until the commit, or gone (`Claims`). A prize is issued too often when more of its pieces
are promised than are left: by the page of a session, or by a request under way that will
decrypt. `Bounded` counts what is issued and what is promised (`Promised`, distinct free
tickets) together. A draft is only made for a prize with a piece left, and there is at most
one promise for each session and each thread, which is the bound; a commit turns a promise
into a piece, for the row it read is still the one in the table when nobody else writes
prizes (`RowCurrent`), so the sum does not grow, and all else only takes promises away. With
one session and one thread the draft under way and the one of the page are never both good:
one promise, and only for a prize with a piece left (`PromiseKept`). Rows read by requests
under way must then be known as well: the one a manager's request will write back has a
piece left (`RowLeft`), and a deletion, which writes one less than it read, has read no
count above the pieces (`RowsWithin`). A renaming has no such bound: it writes what it read
over what has been promised since.

*Lines in order.* `WayInOrder` of `TombolaLogProofs` is `AuditInOrder` for the whole way of
a line: the table, what the worker writes, the queue, and what a thread hands over, each
before the next and in order itself. It needs that at most one thread is about to hand over
a line of the audit page (`OneAudit`, which is the monitor of `TombolaService`), and that
the numbers on the way are not beyond the count (`Numbered`), so that a new line is behind
all others. The lemmas about `Append` and `Tail` do the rest; a crash only empties the way,
and an insert that fails takes its first line off.

*Rows on the screen.* Both views sort by the id last, so an order has one outcome
(`OrderingsAre`), whatever the database does with equal rows, and each row a rank among the
selected ones (`RanksAre`); a page has the rows of its ranks (`PageHas`). The table only grows,
so ranks never fall, and counts neither (`RankGrows`). `ScreenInv` says what follows while a
request is between its two statements: the rows read are those of the page (`ReadRight`); the
last page computed exists, because what is taken for the number of rows is never more than
there are (`Paged`); and the rows a walk has still to show have ranks on pages to come
(`Walked`), of which there are none behind the last page. It is a predicate of a table, a
request and a walk, so one lemma (`ReaderGrows`) covers every step of the others, and one
each the five steps of the reader.

*The search.* `IInv` of `JavadocSearchProofs` says of the handlers that the watermark is in
the box only when it looks like one, that the delay runs only for what the reader has typed
(`Watermarked`), and that an open menu is what `Source` answers for its term from the
indices it had (`Answered`). What `Source` answers is a matter of the constants alone.
`Good` is the invariant of its loop over the categories: the list has each match of the
categories done once, exact before others, and the number shown is the larger of the limit
and of the most exact matches. `CollectFinds` is the step, taken five times. `CounterCuts`
and `SourceShows` say what the cut of each category leaves, `HeadsInOrder` where the heads
come, `MatchesAtEnd` and `OccursInEnd` that what is found in an end of the shown text is
found in all of it, and `NoPrefix` that without modules an entry leads to the same page
whether or not the index of packages has come.

*Monitors.* The monitors are ranked: `IndexController`, `StatusController`,
`TombolaService`, `UserService`, `LoginAttemptService`. A program is sound at a rank
(`Sound`) if a thread that holds monitors of at most that rank can run it, enters only
monitors it has or of a higher rank than all it has, and ends with what it began with.
Soundness is proved once for each construct (`In`, `Tx`, `Reflective`, sequence), then for
each method, then for each program of `Ranked`, which are all but the two audit queries;
theirs call back to `StatusController` from inside `TombolaService`, and section 6 shows
what comes of it. The invariant says that what is left of each thread's program leads it
from what it holds to nothing (`Plans`), that owners are who has entered (`Owners`), and
that connections are within the pool (`Connections`). Then a thread waits only for a monitor
of a higher rank than all it holds, so around a circle the ranks would grow for ever.

*Sign-in.* The inductive invariant `Guarded` says: a form's sign-in is under way
exactly while its thread holds the monitor (`FormHolds`); only a known user gets as
far as a password and only an unknown one is counted without (`KnownLater`,
`CountsUnknown`); and a form that loads its user for the second time does so for an
address that is not blocked, if forms are all there is (`SecondUnblocked`). From
`FormHolds` at most one sign-in is between check and count when there is no HTTP
basic, and at most all the threads otherwise; `GuessesBounded` is then kept by
each step: a check adds one to `Pending` only where `attempts` is below the limit, and
a count moves one from `Pending` to `attempts`. `BlocksLast` needs only the types: a step that
lowers a count is the clock's or a success.

*Start-up.* `Inv` adds to the types which accounts there are at each stage (`Accounts`) and
that the prizes have the last `PrizeCount` ids given out (`Ids`). An `init` finds none of
the accounts (`Fresh`) or all (`Complete`) unless one before it in the process has stopped
among them, which is why `ServesComplete` has to ask. `Ids` also bounds the identity column
by `PrizeCount` times the failures, plus one round if there are prizes, without which not
even the type invariant is inductive. That the rows are right is then a count of the
interval from the next id to the last. `StartKeepsRaffle` holds step by step.

The assumptions are those the modules state about their constants (`PrizeAssumption`,
`TicketIdAssumption`, `ThreadAssumption` and so on): finite sets, positive numbers, that a
free monitor's holder is no thread, and in `TombolaMonitorsProofs` that the kinds of
requests are in `Ranked`, which each theorem states. Those of `JavadocSearch` are about the
published site, and true of its three index files: no entry is listed twice
(`IndexAssumption`); an entry is looked up by an end of what the menu shows of it, or, a
type without a package, by "undefined." and that (`LabelAssumption`); there are no modules
and no tags, and pages are where javadoc writes them (`PageAssumption`). One is about the
reader, who never types the watermark "Search" itself (`TermAssumption`): the handlers tell
the two apart by the value alone and would erase what such a reader has typed at the next
key or click.

Model-checked only: `RequestsEnd`, `RaffleEnds`, `Unblocks`, `EventsArrive` and
`ComesUp`, which are liveness under fairness and out of the prover's reach. Every invariant and
every action property that a passing run checks is also proved, and so are both refinements.

Sorting and filtering would need an induction over sequences, and the library's induction
theorems take an operator, which the provers cannot instantiate. So `Orders` defines a list
by the ranks of its elements, and the proofs about lists count: in a finite set with a
strict total order every rank is taken (`Ranks`, `RanksAre`), which is a fact about
injections into an interval. The loop over categories is five applications of one lemma.

## 6. Disagreements with the documentation

- **Two deletions, one piece.** The REST documentation of `deleteTicket` says it
  "returns the prize to the TombolaApplication". The method decrements the `issued`
  it has read, and its monitor is released before the commit. Two concurrent deletions
  of tickets of one prize write the same number: `tx_two_deletes`.
- **An audit query can stop the application.** `getPrize` and `getTicket` ask
  `StatusController` for address and session from inside the monitor of
  `TombolaService`; `makeAPIBeans` invokes `getTicketsWinPage` from inside the
  monitor of `StatusController`. The two can wait for each other for good:
  `monitors_audit`. Everything else is ordered, by `MonitorsAreOrdered`.

## 7. What is left

The components of the plan are modelled, and all that the runs check of their safety is
proved. Liveness is checked only (section 4).

Of the models: two instances of the application over one database, whose monitors
would be several, if the deployment ever starts them; the paging of `getIndex` and
`getManager`.

## 8. Not modelled

- *Data and wording*: dates and user names of entities, formatting, the values of status
  pages, the cryptography itself, and the lengths of messages: that a line too long for its
  column is not inserted is one of the failures of `Insert`.
- *`getIndex` and `getManager` as pages.* `getIndex` always reads the first page and
  numbers its links by the page asked for: a deterministic computation with nothing to
  interleave. `getManager` pages as `tombolaLog` does, over tickets. When the last ticket
  is deleted between the count and the read of `getTicketsPrizes`, that asks for a page of
  size zero, which is an error page. The `TicketLink` of the session has been replaced by
  then: the rows of older pages do not decrypt any more, whose tickets are gone anyway.
- *The line of an operation that is rolled back.* `TombolaTx` has the rolled back operation and
  `TombolaLog` the line; nothing promises that a line tells of a commit.
- *Roles, sessions and logout*: declarative tables that Spring Security enforces. What a
  request sees of its session is in `TombolaManager`, where a session may expire at any time.
- *Eviction from the cache of attempts* at 10,000 addresses: which entry Guava evicts is
  not specified, so no bound on guesses could be stated.
- *Redis messaging* (a publisher nobody calls), *`button.js`* and the tabs and row colours of
  `script.js` (`show`, `updateTabs`), on which no state of the application depends.
- *More than one instance* of the application over one database; the deployment files
  start one. The retry behaviour of browsers.
- *Deployment*, monitoring agents, vendored scripts, the pages of the generated Javadoc.
