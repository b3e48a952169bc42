--------------------------- MODULE TombolaStartup ---------------------------
(***************************************************************************)
(* Starting the application, and starting it again after it failed.        *)
(*                                                                         *)
(* A process makes the tables once. Beans are made when they are needed:   *)
(* TombolaService.init runs at the first request that needs the service    *)
(* and writes what is missing. When it fails, the request fails and the    *)
(* process goes on, and the next request runs it again, over what is       *)
(* there. It calls its own methods, past the proxy that would open their   *)
(* transactions: each save and each saveAll is a transaction of its own,   *)
(* and init can end between any two of them. One thread makes the bean,    *)
(* and requests that come meanwhile wait for it.                           *)
(*                                                                         *)
(* The tables are either Flyway's, whose migration writes the roles and    *)
(* the users, or made anew by Hibernate in each process, and then forJdbc  *)
(* writes them.                                                            *)
(***************************************************************************)
EXTENDS Integers, FiniteSets

CONSTANTS
  PrizeCount,   \* prizes in prize-*.json
  PutTicket,    \* tombola.app.putTicket
  MaxTickets,   \* bound: tickets while requests are served
  MaxFailures,  \* bound: processes and runs of init that fail
  Schemas       \* the ways the tables are made, see schema

ASSUME PrizeCountAssumption == PrizeCount \in Nat \ {0}
ASSUME PutTicketAssumption == PutTicket \in Nat \ {0}
ASSUME BoundsAssumption == MaxTickets \in Nat /\ PutTicket <= MaxTickets /\ MaxFailures \in Nat
ASSUME SchemasAssumption == Schemas \subseteq {"migrated", "created"}

Role == {"adminRole", "managerRole", "userRole"}
User == {"admin", "lhs", "user"}

\* What the roles of each user are, in the migration and in forJdbc.
RolesOf == [ admin |-> Role, lhs |-> {"managerRole", "userRole"}, user |-> {"userRole"} ]

InInit == {"forJdbc", "saveRoles", "saveUsers", "putTickets", "putPrizes", "firstPrize"}
Stage == {"down", "up", "serving"} \cup InInit

VARIABLES
  schema,    \* "migrated" by Flyway, "created" by Hibernate; fixed
  stage,     \* no process, a process without the service, in init, or serving
  roles,     \* the rows of tombola_role
  users,     \* per user in tombola_user, the roles it has
  tickets,   \* how many rows tombola_ticket has
  prizes,    \* ids of the rows of tombola_prize
  lastId,    \* last id the identity column of tombola_prize has given out
  lost,      \* whether a save of the prizes was rolled back
  stopped,   \* an init of this process ended among its users; observed only
  failures   \* how many processes and runs of init have failed

vars == <<schema, stage, roles, users, tickets, prizes, lastId, lost, stopped, failures>>
accounts == <<roles, users>>
raffle == <<tickets, prizes, lastId, lost>>

NoUsers == [u \in {} |-> {}]

TypeOK ==
  /\ schema \in Schemas
  /\ stage \in Stage
  /\ roles \subseteq Role
  /\ \E U \in SUBSET User : users \in [U -> SUBSET roles]
  /\ tickets \in 0 .. MaxTickets
  /\ prizes \subseteq 1 .. lastId
  /\ lastId \in 0 .. PrizeCount * (MaxFailures + 1)
  /\ {lost, stopped} \subseteq BOOLEAN
  /\ failures \in 0 .. MaxFailures

Init ==
  /\ schema \in Schemas
  /\ stage = "down"
  /\ roles = {} /\ users = NoUsers
  /\ tickets = 0 /\ prizes = {} /\ lastId = 0 /\ lost = FALSE
  /\ stopped = FALSE /\ failures = 0

Go(step) == stage' = step /\ UNCHANGED <<schema, stopped, failures>>

-----------------------------------------------------------------------------
(* The tables *)

\* The migration is one transaction; later processes find it applied.
Migrate ==
  /\ roles' = Role
  /\ users' = RolesOf
  /\ UNCHANGED raffle

\* Variants: Hibernate keeps the tables it finds, or that of the users.
UpdateTables == UNCHANGED <<accounts, raffle>>
CreateTablesButUsers ==
  /\ roles' = {} /\ UNCHANGED users
  /\ tickets' = 0 /\ prizes' = {} /\ lastId' = 0 /\ lost' = FALSE

CreateTables ==
  /\ roles' = {} /\ users' = NoUsers
  /\ tickets' = 0 /\ prizes' = {} /\ lastId' = 0 /\ lost' = FALSE

Start ==
  /\ stage = "down"
  /\ IF schema = "migrated" THEN Migrate ELSE CreateTables
  /\ stage' = "up" /\ stopped' = FALSE
  /\ UNCHANGED <<schema, failures>>

-----------------------------------------------------------------------------
(* TombolaService.init *)

\* A request needs the service, and init begins.
Request ==
  /\ stage = "up"
  /\ Go("forJdbc")
  /\ UNCHANGED <<accounts, raffle>>

\* Nothing is done unless both tables are empty.
ForJdbc ==
  /\ stage = "forJdbc"
  /\ Go(IF roles = {} /\ users = NoUsers THEN "saveRoles" ELSE "putTickets")
  /\ UNCHANGED <<accounts, raffle>>

SaveRole ==
  /\ stage = "saveRoles"
  /\ \/ \E r \in Role \ roles :
          /\ r = "managerRole" => "adminRole" \in roles
          /\ r = "userRole" => "managerRole" \in roles
          /\ roles' = roles \cup {r}
          /\ Go("saveRoles")
     \/ roles = Role /\ Go("saveUsers") /\ UNCHANGED roles
  /\ UNCHANGED <<users, raffle>>

NextUser ==
  CASE "admin" \notin DOMAIN users -> "admin"
    [] "admin" \in DOMAIN users /\ "lhs" \notin DOMAIN users -> "lhs"
    [] OTHER -> "user"

\* The roles of a user are looked up by name.
SaveUser ==
  /\ stage = "saveUsers"
  /\ \/ /\ DOMAIN users # User
        /\ users' = [u \in DOMAIN users \cup {NextUser} |-> RolesOf[u] \cap roles]
        /\ Go("saveUsers")
     \/ DOMAIN users = User /\ Go("putTickets") /\ UNCHANGED users
  /\ UNCHANGED <<roles, raffle>>

\* Variant: tickets are put whenever init runs.
PutTicketsAlways ==
  /\ stage = "putTickets"
  /\ tickets' = IF tickets + PutTicket <= MaxTickets THEN tickets + PutTicket ELSE MaxTickets
  /\ Go("putPrizes")
  /\ UNCHANGED <<accounts, prizes, lastId, lost>>

PutTickets ==
  /\ stage = "putTickets"
  /\ tickets' = IF tickets = 0 THEN PutTicket ELSE tickets
  /\ Go("putPrizes")
  /\ UNCHANGED <<accounts, prizes, lastId, lost>>

NewIds(n) == lastId + 1 .. lastId + n

\* Variant: the ids come from a sequence that tickets use as well.
SavePrizesSharedIds ==
  /\ prizes' = {PutTicket + id : id \in NewIds(PrizeCount)}
  /\ lastId' = lastId + PrizeCount + PutTicket

SavePrizes ==
  /\ prizes' = NewIds(PrizeCount)
  /\ lastId' = lastId + PrizeCount

\* Variant: the first prize is looked up whenever init runs.
PutPrizesThenLook ==
  /\ stage = "putPrizes"
  /\ IF prizes = {} THEN SavePrizes ELSE UNCHANGED <<prizes, lastId>>
  /\ Go("firstPrize")
  /\ UNCHANGED <<accounts, tickets, lost>>

PutPrizes ==
  /\ stage = "putPrizes"
  /\ \/ /\ prizes = {}
        /\ SavePrizes
        /\ Go("firstPrize")
     \/ /\ prizes # {}
        /\ Go("serving")
        /\ UNCHANGED <<prizes, lastId>>
  /\ UNCHANGED <<accounts, tickets, lost>>

\* findById(1).get(), for the log: with other ids init fails.
FirstPrize ==
  /\ stage = "firstPrize"
  /\ Go(IF 1 \in prizes THEN "serving" ELSE "up")
  /\ UNCHANGED <<accounts, raffle>>

-----------------------------------------------------------------------------
(* What can happen meanwhile *)

\* Requests put and delete tickets; nothing adds or removes prizes or users.
Serve ==
  /\ stage = "serving"
  /\ tickets' \in {tickets - 1, tickets + 1} \cap 0 .. MaxTickets
  /\ Go("serving")
  /\ UNCHANGED <<accounts, prizes, lastId, lost>>

Stop ==
  /\ stage \in {"up", "serving"}
  /\ Go("down")
  /\ UNCHANGED <<accounts, raffle>>

\* Ids an insert has taken before it was rolled back are not given out again.
Interrupted ==
  /\ failures < MaxFailures /\ failures' = failures + 1
  /\ \/ UNCHANGED <<lastId, lost>>
     \/ /\ stage = "putPrizes" /\ prizes = {}
        /\ lastId' \in NewIds(PrizeCount)
        /\ lost' = TRUE
  /\ UNCHANGED <<schema, accounts, tickets, prizes>>

\* A statement or the connection fails: the request ends in an error.
HalfWritten == stage \in {"saveRoles", "saveUsers"} /\ roles # {} /\ DOMAIN users # User
InitFails ==
  /\ stage \in InInit
  /\ stage' = "up" /\ stopped' = (stopped \/ HalfWritten)
  /\ Interrupted

ProcessFails ==
  /\ stage # "down"
  /\ stage' = "down" /\ UNCHANGED stopped
  /\ Interrupted

Run ==
  \/ Start \/ Request \/ ForJdbc \/ SaveRole \/ SaveUser \/ PutTickets \/ PutPrizes \/ FirstPrize

Next == Run \/ Serve \/ Stop \/ InitFails \/ ProcessFails

Spec == Init /\ [][Next]_vars

\* The container is restarted when it is down, and init goes on. A process may
\* be stopped before anybody has needed it, but not for ever.
FairSpec == Spec /\ WF_vars(Run) /\ SF_vars(Request)

-----------------------------------------------------------------------------
(* Properties *)

(***************************************************************************)
(* Requests are served over complete data, however many processes and runs *)
(* of init stopped half way: every prize exactly once, and every user with *)
(* all of its roles, unless Hibernate has made the tables and an init of   *)
(* this process stopped between its first role and its last user: then the *)
(* others stay missing until the process is started again.                 *)
(***************************************************************************)
ServesComplete ==
  stage = "serving" =>
    /\ Cardinality(prizes) = PrizeCount
    /\ schema = "migrated" \/ ~stopped => users = RolesOf

(***************************************************************************)
(* Starting changes nothing of a raffle under way: prizes once written     *)
(* stay as they are, and the number of tickets changes only while requests *)
(* are served, unless none is left. With Flyway this is so in every        *)
(* process, with Hibernate within one.                                     *)
(***************************************************************************)
StartKeepsRaffle ==
  [][ schema = "migrated" \/ stage # "down" =>
        /\ prizes # {} => prizes' = prizes
        /\ stage # "serving" /\ tickets # 0 => tickets' = tickets ]_vars

(***************************************************************************)
(* manager.html finds the prize of a row by its place in the list of all   *)
(* prizes, the highest id first: prizeAll[prizeAll.size() - id]. Unless a  *)
(* save of the prizes was rolled back that is the prize the row's button   *)
(* gives.                                                                  *)
(***************************************************************************)
Place(id) == Cardinality({p \in prizes : p > id})
RowShowsItsPrize ==
  stage = "serving" /\ ~lost => \A id \in prizes : Place(id) = Cardinality(prizes) - id

(***************************************************************************)
(* Whatever fails, requests are served again: an init that ends in an      *)
(* error because the ids of the prizes do not begin at 1 is followed, at   *)
(* the next request, by one that does not look.                            *)
(***************************************************************************)
ComesUp == []<>(stage = "serving")
=============================================================================
