--------------------------- MODULE TombolaMonitors ---------------------------
(***************************************************************************)
(* Who waits for whom. Most beans guard their methods with their own       *)
(* monitor and call each other from inside, and a @Transactional method    *)
(* takes a connection of the pool before it reaches its monitor.           *)
(*                                                                         *)
(* A request is the sequence of monitors it enters and leaves and of       *)
(* connections it takes and returns, in the order of the code; what it     *)
(* does with the data is in the other modules. A request that may go       *)
(* several ways has several sequences.                                     *)
(***************************************************************************)
EXTENDS Integers, Sequences, FiniteSets

CONSTANTS
  Thread,       \* threads of the servlet container
  Kinds,        \* the requests they serve
  Pools,        \* values of spring.datasource.hikari.maximumPoolSize
  Nobody        \* owner of a free monitor

Monitor == {"Index", "Status", "Tombola", "User", "Login"}

-----------------------------------------------------------------------------
(* Steps *)

Enter(m) == [do |-> "enter", on |-> m, recover |-> 0]
Leave(m) == [do |-> "leave", on |-> m, recover |-> 0]

(***************************************************************************)
(* recover: how many steps are left out when no connection comes in time.  *)
(* With none the exception ends the request.                               *)
(***************************************************************************)
Connect(recover) == [do |-> "connect", on |-> "pool", recover |-> recover]
Close == [do |-> "close", on |-> "pool", recover |-> 0]

In(m, body) == <<Enter(m)>> \o body \o <<Leave(m)>>
Call(m) == In(m, <<>>)

Tx(body) == <<Connect(0)>> \o body \o <<Close>>

\* makeAPIBeans catches what the method it invokes throws and goes on after it.
\* Variants: it goes on inside the method, or after the monitor it holds.
ReflectiveInside(body) == <<Connect(2)>> \o body \o <<Close>>
ReflectiveKeeping(body) == <<Connect(Len(body) + 3)>> \o body \o <<Close>>
Reflective(body) == <<Connect(Len(body) + 2)>> \o body \o <<Close>>

-----------------------------------------------------------------------------
(* Methods of the services *)

Username == Call("User")        \* UserService.getUsername
ClientIP == Call("Status")      \* StatusController.getClientIP
SessionId == Call("Status")     \* StatusController.getSessionId

Service(body) == Tx(In("Tombola", body))

GetPrizes == Service(Call("Tombola"))
TicketsPage == Service(<<>>)
TicketsPrizes == Service(<<>>)
PrizeInfoAsMap == Service(<<>>)
InfoAsLong == Call("Tombola")
CountTickets == Tx(<<>>)

\* Variant: the log line of an issue names the address of the caller.
PatchPrizeTicketNamingIP == Service(Call("Tombola") \o Username \o ClientIP)
PatchPrizeTicket == Service(Call("Tombola") \o Username)
PatchRefused == Service(<<>>)
PatchPrizeName == Service(Username \o Call("Tombola"))
DeleteTicket == Service(Username)
PutTickets == Service(<<>>)

\* getPrize and getTicket write the address and the session of the caller to
\* the log from inside the monitor.
AuditHistory == Service(Username \o ClientIP \o SessionId)

LoadKnown == Tx(ClientIP \o Call("Login"))
LoadUnknown == Tx(ClientIP \o Call("Login") \o Call("Login"))
Listener == ClientIP \o Call("Login") \o Call("Login")

(***************************************************************************)
(* makeAPIBeans, once for each method of each bean, in the monitor of      *)
(* StatusController; the order of the beans does not matter here.          *)
(***************************************************************************)
ApiBeans ==
  In("Status", Call("User"))                 \* isAuthenticated, getUsername, ...
  \o In("Status", Call("Login"))             \* getAttempts
  \o In("Status", Reflective(<<>>))          \* countTotalLoggingEvents
  \o In("Status", CountTickets)              \* getPrizes, getTicketsPage
  \o In("Status", Reflective(Call("Tombola")))  \* getTicketsWinPage

-----------------------------------------------------------------------------
(* Requests *)

AddModel == In("Index", Call("Status") \o Call("User") \o Username \o Call("User"))

Index ==
  GetPrizes \o AddModel \o TicketsPage \o Call("Status") \o InfoAsLong \o PrizeInfoAsMap

Manager(rereads) ==
  In("Index", GetPrizes \o AddModel \o TicketsPage \o rereads \o TicketsPage
              \o InfoAsLong \o PrizeInfoAsMap \o CountTickets \o TicketsPrizes)

SetManager(patch) ==
  In("Index", patch \o Username \o TicketsPage \o InfoAsLong \o PrizeInfoAsMap)

Signin(attempt) == In("Index", attempt)
Failed == ClientIP \o Call("Login")

LogPage(rereads) == CountTickets \o AddModel \o Tx(<<>>) \o rereads
AuditPage(rereads) == AddModel \o PrizeInfoAsMap \o Tx(<<>>) \o rereads

(***************************************************************************)
(* The requests, each with the sequences it may go through. basicLogin is  *)
(* Spring Security's own check of HTTP basic credentials, with which the   *)
(* callers of the REST API come; getPrizesReadyToWin, getTicketsWinPage    *)
(* and getTicketsPrizes of the REST API go as getPrizes, getTicketsPage.   *)
(***************************************************************************)
Programs ==
  [ getIndex |-> {Index},
    getManager |-> {Manager(<<>>), Manager(TicketsPage)},
    setManager |-> {SetManager(PatchPrizeTicket), SetManager(PatchRefused), Call("Index")},
    getProperties |-> {AddModel \o ApiBeans \o Call("Status")},
    getTombolaLog |-> {LogPage(<<>>), LogPage(Tx(<<>>))},
    getAudit |-> {AuditPage(<<>>), AuditPage(Tx(<<>>))},
    getLogin |-> {AddModel \o Call("Status")},
    getError |-> {In("Index", AddModel)},
    signin |-> {Signin(LoadKnown \o Failed),
                Signin(LoadUnknown \o Failed),
                Signin(LoadKnown \o LoadKnown \o Listener \o Failed),
                Signin(LoadKnown \o LoadKnown \o Listener)},
    basicLogin |-> {LoadUnknown, LoadKnown \o Listener},
    getUserInfo |-> {Tx(Username \o ClientIP \o Call("Login"))},
    getPrize |-> {AuditHistory},
    getTicket |-> {AuditHistory},
    getPrizes |-> {GetPrizes},
    getRoleInfo |-> {Tx(<<>>)},
    getTicketsPage |-> {TicketsPage},
    patchPrizeTicket |-> {PatchPrizeTicket \o Username \o SessionId,
                          PatchRefused \o Username \o SessionId},
    patchPrizeName |-> {PatchPrizeName \o Username \o SessionId},
    putTickets |-> {Username \o SessionId \o PutTickets},
    deleteTicket |-> {Username \o SessionId \o DeleteTicket} ]

ASSUME KindsAssumption == Kinds \subseteq DOMAIN Programs
ASSUME PoolsAssumption == Pools \subseteq Nat \ {0}
ASSUME ThreadAssumption == IsFiniteSet(Thread) /\ Nobody \notin Thread

-----------------------------------------------------------------------------
(* Threads *)

VARIABLES
  todo,   \* per thread, the steps of its request still to take
  owner,  \* who holds each monitor
  depth,  \* how often its owner has entered it
  open,   \* per thread, the connections it holds
  pool    \* how many connections there are; fixed

vars == <<todo, owner, depth, open, pool>>

Init ==
  /\ todo = [th \in Thread |-> <<>>]
  /\ owner = [m \in Monitor |-> Nobody]
  /\ depth = [m \in Monitor |-> 0]
  /\ open = [th \in Thread |-> {}]
  /\ pool \in Pools

Idle(th) == todo[th] = <<>>
At(th, do) == ~Idle(th) /\ Head(todo[th]).do = do
On(th) == Head(todo[th]).on

InUse == UNION {{th} \X open[th] : th \in Thread}
PoolEmpty == Cardinality(InUse) = pool

Begin(th) ==
  /\ Idle(th)
  /\ \E kind \in Kinds : \E program \in Programs[kind] : todo' = [todo EXCEPT ![th] = program]
  /\ UNCHANGED <<owner, depth, open, pool>>

Advance(th) == todo' = [todo EXCEPT ![th] = Tail(@)] /\ UNCHANGED pool

EnterMonitor(th) ==
  /\ At(th, "enter") /\ owner[On(th)] \in {th, Nobody}
  /\ owner' = [owner EXCEPT ![On(th)] = th]
  /\ depth' = [depth EXCEPT ![On(th)] = @ + 1]
  /\ Advance(th)
  /\ UNCHANGED open

LeaveMonitor(th) ==
  /\ At(th, "leave")
  /\ depth' = [depth EXCEPT ![On(th)] = @ - 1]
  /\ owner' = [owner EXCEPT ![On(th)] = IF depth[On(th)] = 1 THEN Nobody ELSE th]
  /\ Advance(th)
  /\ UNCHANGED open

\* A thread numbers its connections, innermost last.
TakeConnection(th) ==
  /\ At(th, "connect") /\ ~PoolEmpty
  /\ open' = [open EXCEPT ![th] = @ \cup {Cardinality(@) + 1}]
  /\ Advance(th)
  /\ UNCHANGED <<owner, depth>>

ReturnConnection(th) ==
  /\ At(th, "close")
  /\ open' = [open EXCEPT ![th] = @ \ {Cardinality(@)}]
  /\ Advance(th)
  /\ UNCHANGED <<owner, depth>>

\* connectionTimeout: makeAPIBeans goes on to the next method, any other
\* request fails and the exception leaves every monitor.
Skip(th) == SubSeq(todo[th], Head(todo[th]).recover + 1, Len(todo[th]))

\* Variant: makeAPIBeans invokes the method again until a connection comes.
ConnectionTimeoutRetried(th) ==
  /\ At(th, "connect") /\ PoolEmpty
  /\ Head(todo[th]).recover > 0
  /\ UNCHANGED vars

ConnectionTimeout(th) ==
  /\ At(th, "connect") /\ PoolEmpty
  /\ UNCHANGED pool
  /\ \/ /\ Head(todo[th]).recover > 0
        /\ todo' = [todo EXCEPT ![th] = Skip(th)]
        /\ UNCHANGED <<owner, depth, open>>
     \/ /\ Head(todo[th]).recover = 0
        /\ todo' = [todo EXCEPT ![th] = <<>>]
        /\ owner' = [m \in Monitor |-> IF owner[m] = th THEN Nobody ELSE owner[m]]
        /\ depth' = [m \in Monitor |-> IF owner[m] = th THEN 0 ELSE depth[m]]
        /\ open' = [open EXCEPT ![th] = {}]

Run(th) ==
  \/ EnterMonitor(th) \/ LeaveMonitor(th)
  \/ TakeConnection(th) \/ ReturnConnection(th) \/ ConnectionTimeout(th)

Next == \E th \in Thread : Begin(th) \/ Run(th)

Spec == Init /\ [][Next]_vars

(***************************************************************************)
(* A thread that can go on does, and one that waits for a monitor others   *)
(* enter and leave again and again gets it.                                *)
(***************************************************************************)
FairSpec == Spec /\ \A th \in Thread : SF_vars(Run(th))

-----------------------------------------------------------------------------
(* Properties *)

TypeOK ==
  /\ pool \in Pools
  /\ owner \in [Monitor -> Thread \cup {Nobody}]
  /\ depth \in [Monitor -> Nat]
  /\ \A m \in Monitor : owner[m] = Nobody <=> depth[m] = 0
  /\ open \in [Thread -> SUBSET (1 .. pool)]

(***************************************************************************)
(* No threads wait for monitors that only they hold: they would wait for   *)
(* good, for nothing takes a monitor away. A thread waiting for a          *)
(* connection is not counted, it gets an exception after a while.          *)
(***************************************************************************)
WaitsFor(th, holder) == At(th, "enter") /\ owner[On(th)] = holder

NoDeadlock ==
  \A S \in (SUBSET Thread) \ {{}} : \E th \in S : \A holder \in S \ {th} : ~WaitsFor(th, holder)

(***************************************************************************)
(* A request that is done holds nothing any more, and the pool never gives *)
(* out more connections than it has.                                       *)
(***************************************************************************)
NothingLeaks ==
  /\ \A th \in Thread : Idle(th) => open[th] = {} /\ \A m \in Monitor : owner[m] # th
  /\ Cardinality(InUse) <= pool

(***************************************************************************)
(* Every request ends, with its answer or because no connection came.      *)
(***************************************************************************)
RequestsEnd == \A th \in Thread : []<>Idle(th)
=============================================================================
