------------------------ MODULE TombolaStartupProofs ------------------------
(***************************************************************************)
(* For any number of prizes, tickets and failures: what is served is       *)
(* complete, starting keeps the raffle, and the rows of manager.html show  *)
(* the prizes they give unless a save of the prizes was rolled back.       *)
(*                                                                         *)
(* It takes what init has done so far at each of its stages and what it    *)
(* leaves when it ends, Accounts, and that the ids of the prizes are the   *)
(* last ones given out, Ids.                                               *)
(***************************************************************************)
EXTENDS TombolaStartup, FiniteSetTheorems, TLAPS

Written == {"putTickets", "putPrizes", "firstPrize", "serving"}

Fresh == roles = {} /\ users = NoUsers
Complete == roles = Role /\ users = RolesOf

\* Which accounts there are at each stage. An init that starts over finds all
\* of them or none, unless one before it has stopped among them.
Accounts ==
  /\ schema = "migrated" /\ stage # "down" => Complete
  /\ stage \in {"up", "forJdbc"} /\ ~stopped => Fresh \/ Complete
  /\ stage \in {"saveRoles", "saveUsers"} => schema = "created"
  /\ stage = "saveRoles" => users = NoUsers
  /\ stage = "saveUsers" => roles = Role /\ \A u \in DOMAIN users : users[u] = RolesOf[u]
  /\ stage \in Written /\ ~stopped => Complete

\* The prizes are saved together, and ids are lost only with a failed save.
Ids ==
  /\ prizes # {} => prizes = lastId - PrizeCount + 1 .. lastId
  /\ ~lost => lastId = IF prizes = {} THEN 0 ELSE PrizeCount
  /\ lastId <= PrizeCount * (failures + (IF prizes = {} THEN 0 ELSE 1))
  /\ stage \in {"firstPrize", "serving"} => prizes # {}

Inv == TypeOK /\ Accounts /\ Ids

USE DEF Stage, InInit, accounts, raffle, Go, Written

LEMMA RolesOfType == RolesOf \in [User -> SUBSET Role] /\ DOMAIN RolesOf = User
  BY DEF RolesOf, Role, User

LEMMA NoUsersType == NoUsers \in [{} -> SUBSET {}] /\ DOMAIN NoUsers = {}
  BY DEF NoUsers

\* The identity column moves by PrizeCount at most with each failure.
LEMMA NextRound ==
  ASSUME NEW n \in Nat
  PROVE  /\ PrizeCount * (n + 1) = PrizeCount * n + PrizeCount
         /\ PrizeCount * n \in Nat
         /\ \A k \in Nat : n <= k => PrizeCount * n <= PrizeCount * k
<1>1. PrizeCount \in Nat
  BY PrizeCountAssumption
<1>2. ASSUME NEW k \in Nat, n <= k PROVE PrizeCount * n <= PrizeCount * k
  <2>1. k - n \in Nat /\ PrizeCount * (k - n) >= 0
    BY <1>1, <1>2
  <2>2. PrizeCount * k = PrizeCount * n + PrizeCount * (k - n)
    BY <1>1, <1>2
  <2> QED
    BY <1>1, <2>1, <2>2
<1> QED
  BY <1>1, <1>2

LEMMA InitInv == Init => Inv
<1> SUFFICES ASSUME Init PROVE Inv
  OBVIOUS
<1>1. TypeOK
  <2>1. users \in [{} -> SUBSET roles]
    BY NoUsersType DEF Init
  <2>2. PrizeCount * (MaxFailures + 1) \in Nat
    BY NextRound, PrizeCountAssumption, BoundsAssumption
  <2>3. \E U \in SUBSET User : users \in [U -> SUBSET roles]
    BY <2>1
  <2>4. lastId \in 0 .. PrizeCount * (MaxFailures + 1) /\ prizes \subseteq 1 .. lastId
    BY <2>2 DEF Init
  <2>5. tickets \in 0 .. MaxTickets /\ failures \in 0 .. MaxFailures
    BY BoundsAssumption DEF Init
  <2>6. lost \in BOOLEAN /\ stopped \in BOOLEAN /\ schema \in Schemas /\ stage \in Stage /\ roles \subseteq Role
    BY DEF Init
  <2> QED
    BY <2>3, <2>4, <2>5, <2>6 DEF TypeOK
<1>2. Accounts
  BY DEF Init, Accounts, Fresh, Complete
<1>3. Ids
  BY NextRound, PrizeCountAssumption DEF Init, Ids
<1> QED
  BY <1>1, <1>2, <1>3 DEF Inv

(***************************************************************************)
(* The accounts after each step: they depend on nothing but the stage, and *)
(* on whether an init of the process has stopped among them.               *)
(***************************************************************************)
LEMMA NotFresh == Role # {} /\ DOMAIN NoUsers # User
  BY NoUsersType DEF Role, User

LEMMA AllSaved ==
  ASSUME TypeOK, Accounts, stage = "saveUsers", DOMAIN users = User
  PROVE  Complete
<1>1. roles = Role /\ \A u \in DOMAIN users : users[u] = RolesOf[u]
  BY DEF Accounts
<1>2. users \in [User -> SUBSET roles]
  BY DEF TypeOK
<1>3. users = RolesOf
  BY <1>1, <1>2, RolesOfType
<1> QED
  BY <1>1, <1>3 DEF Complete

LEMMA AccountsStep == TypeOK /\ Accounts /\ [Next]_vars => Accounts'
<1> SUFFICES ASSUME TypeOK, Accounts, [Next]_vars PROVE Accounts'
  OBVIOUS
<1>0. schema \in {"migrated", "created"} /\ stopped \in BOOLEAN /\ stage \in Stage
  BY SchemasAssumption DEF TypeOK
<1>1. CASE Start
  <2>1. stage' = "up" /\ ~stopped' /\ schema' = schema
    BY <1>1 DEF Start
  <2>2. CASE schema = "migrated"
    BY <1>1, <2>1, <2>2 DEF Start, Migrate, Accounts, Complete
  <2>3. CASE schema # "migrated"
    BY <1>1, <2>1, <2>3 DEF Start, CreateTables, Accounts, Fresh
  <2> QED
    BY <2>2, <2>3
<1>2. CASE Request
  BY <1>2 DEF Request, Accounts, Complete, Fresh
<1>3. CASE ForJdbc
  <2>1. /\ stage = "forJdbc" /\ UNCHANGED <<schema, stopped, roles, users>>
        /\ stage' = IF roles = {} /\ users = NoUsers THEN "saveRoles" ELSE "putTickets"
    BY <1>3 DEF ForJdbc
  <2>2. CASE Fresh
    <3>1. ~Complete
      BY <2>2, NotFresh DEF Fresh, Complete
    <3>2. schema = "created" /\ stage' = "saveRoles"
      BY <1>0, <2>1, <2>2, <3>1 DEF Accounts, Fresh
    <3> QED
      BY <2>1, <2>2, <3>2 DEF Accounts, Fresh
  <2>3. CASE ~Fresh
    BY <2>1, <2>3 DEF Accounts, Fresh, Complete
  <2> QED
    BY <2>2, <2>3
<1>4. CASE SaveRole
  <2>1. stage = "saveRoles" /\ UNCHANGED <<schema, stopped, users>> /\ users = NoUsers
        /\ schema = "created"
    BY <1>4 DEF SaveRole, Accounts
  <2>2. stage' = "saveRoles" \/ (stage' = "saveUsers" /\ roles' = Role)
    <3>1. CASE roles = Role /\ Go("saveUsers") /\ UNCHANGED roles
      BY <3>1
    <3>2. CASE ~(roles = Role /\ Go("saveUsers") /\ UNCHANGED roles)
      BY <1>4, <3>2 DEF SaveRole
    <3> QED
      BY <3>1, <3>2
  <2> QED
    BY <2>1, <2>2, NoUsersType DEF Accounts
<1>5. CASE SaveUser
  <2>1. /\ stage = "saveUsers" /\ UNCHANGED <<schema, stopped, roles>>
        /\ roles = Role /\ schema = "created"
    BY <1>5 DEF SaveUser, Accounts
  <2>2. CASE DOMAIN users # User
    <3>1. \A u \in DOMAIN users \cup {NextUser} : RolesOf[u] \cap roles = RolesOf[u]
      <4>1. NextUser \in User
        BY DEF NextUser, User
      <4>2. DOMAIN users \subseteq User
        BY DEF TypeOK
      <4> QED
        BY <2>1, <4>1, <4>2, RolesOfType
    <3>2. stage' = "saveUsers" /\ \A u \in DOMAIN users' : users'[u] = RolesOf[u]
      BY <1>5, <2>2, <3>1 DEF SaveUser
    <3> QED
      BY <2>1, <3>2 DEF Accounts
  <2>3. CASE DOMAIN users = User
    <3>1. stage' = "putTickets" /\ UNCHANGED users /\ Complete
      BY <1>5, <2>1, <2>3, AllSaved DEF SaveUser
    <3> QED
      BY <2>1, <3>1 DEF Accounts, Complete
  <2> QED
    BY <2>2, <2>3
<1>6. CASE PutTickets \/ PutPrizes \/ FirstPrize
  <2>1. stage \in Written /\ stage' \in Written \cup {"up"} /\ UNCHANGED <<schema, stopped, roles, users>>
    BY <1>6 DEF PutTickets, PutPrizes, FirstPrize
  <2> QED
    BY <2>1 DEF Accounts, Complete
<1>7. CASE Serve \/ Stop
  BY <1>7 DEF Serve, Stop, Accounts, Complete
<1>8. CASE InitFails
  <2>1. /\ stage \in InInit /\ stage' = "up" /\ UNCHANGED <<schema, roles, users>>
        /\ stopped' = (stopped \/ HalfWritten)
    BY <1>8 DEF InitFails, Interrupted
  <2>2. CASE stage \in {"saveRoles", "saveUsers"} /\ ~stopped'
    <3>1. roles = {} \/ DOMAIN users = User
      BY <2>1, <2>2 DEF HalfWritten
    <3>2. schema = "created"
      BY <2>2 DEF Accounts
    <3>3. Fresh \/ Complete
      <4>1. CASE stage = "saveRoles"
        BY <3>1, <4>1, NotFresh DEF Accounts, Fresh
      <4>2. CASE stage = "saveUsers"
        BY <3>1, <4>2, NotFresh, AllSaved DEF Accounts
      <4> QED
        BY <2>2, <4>1, <4>2
    <3> QED
      BY <2>1, <3>2, <3>3 DEF Accounts, Fresh, Complete
  <2>3. CASE stage \notin {"saveRoles", "saveUsers"} /\ ~stopped'
    <3>1. ~stopped /\ stage \in {"forJdbc", "putTickets", "putPrizes", "firstPrize"}
      BY <1>0, <2>1, <2>3
    <3>2. Fresh \/ Complete
      BY <3>1 DEF Accounts
    <3>3. schema = "migrated" => Complete
      BY <3>1 DEF Accounts
    <3> QED
      BY <2>1, <3>2, <3>3 DEF Accounts, Fresh, Complete
  <2>4. CASE stopped'
    <3>1. schema = "migrated" => Complete
      BY <2>1 DEF Accounts
    <3> QED
      BY <2>1, <2>4, <3>1 DEF Accounts, Complete
  <2> QED
    BY <2>2, <2>3, <2>4
<1>9. CASE ProcessFails
  BY <1>9 DEF ProcessFails, Interrupted, Accounts
<1>10. CASE UNCHANGED vars
  BY <1>10 DEF vars, Accounts, Fresh, Complete
<1> QED
  BY <1>1, <1>2, <1>3, <1>4, <1>5, <1>6, <1>7, <1>8, <1>9, <1>10 DEF Next, Run

(***************************************************************************)
(* The ids after each step. Only a start, a save and a failure touch them. *)
(***************************************************************************)
LEMMA IdsStep == TypeOK /\ Ids /\ [Next]_vars => Ids'
<1> SUFFICES ASSUME TypeOK, Ids, [Next]_vars PROVE Ids'
  OBVIOUS
<1> USE DEF Ids
<1>t. lastId \in Nat /\ failures \in Nat /\ PrizeCount \in Nat \ {0}
  BY PrizeCountAssumption, BoundsAssumption DEF TypeOK
<1>n. /\ PrizeCount * (failures + 0) \in Nat
      /\ PrizeCount * (failures + 1) = PrizeCount * (failures + 0) + PrizeCount
      /\ PrizeCount * (failures + 1 + 1) = PrizeCount * (failures + 1) + PrizeCount
  <2>1. failures + 0 = failures /\ failures + 1 \in Nat
    BY <1>t
  <2> QED
    BY <1>t, <2>1, NextRound
<1>1. CASE Start
  <2>1. CASE schema = "migrated"
    BY <1>1, <2>1 DEF Start, Migrate
  <2>2. CASE schema # "migrated"
    BY <1>1, <2>2, <1>n DEF Start, CreateTables
  <2> QED
    BY <2>1, <2>2
<1>2. CASE PutPrizes
  <2>1. CASE prizes = {}
    <3>1. prizes' = lastId + 1 .. lastId + PrizeCount /\ lastId' = lastId + PrizeCount
      BY <1>2, <2>1 DEF PutPrizes, SavePrizes, NewIds
    <3>2. lastId + 1 \in prizes' /\ lastId' - PrizeCount + 1 = lastId + 1
      BY <1>t, <3>1
    <3>3. lastId' <= PrizeCount * (failures + 1)
      BY <1>t, <1>n, <2>1, <3>1
    <3>4. UNCHANGED <<failures, lost>>
      BY <1>2 DEF PutPrizes
    <3> QED
      BY <1>t, <2>1, <3>1, <3>2, <3>3, <3>4
  <2>2. CASE prizes # {}
    BY <1>2, <2>2 DEF PutPrizes
  <2> QED
    BY <2>1, <2>2
<1>3. CASE InitFails \/ ProcessFails
  <2>1. CASE UNCHANGED <<lastId, lost>>
    <3>1. prizes' = prizes /\ failures' = failures + 1 /\ stage' \in {"up", "down"}
      BY <1>3 DEF InitFails, ProcessFails, Interrupted
    <3>2. lastId <= PrizeCount * (failures' + IF prizes = {} THEN 0 ELSE 1)
      BY <1>t, <1>n, <3>1
    <3> QED
      BY <2>1, <3>1, <3>2
  <2>2. CASE prizes = {} /\ lastId' \in NewIds(PrizeCount) /\ lost'
    <3>1. prizes' = {} /\ failures' = failures + 1 /\ stage' \in {"up", "down"}
      BY <1>3, <2>2 DEF InitFails, ProcessFails, Interrupted
    <3>2. lastId' <= PrizeCount * (failures + 1)
      BY <1>t, <1>n, <2>2 DEF NewIds
    <3>3. failures + 1 = failures + 1 + 0
      BY <1>t
    <3> QED
      BY <2>2, <3>1, <3>2, <3>3
  <2> QED
    BY <1>3, <2>1, <2>2 DEF InitFails, ProcessFails, Interrupted
<1>4. CASE Request \/ ForJdbc \/ SaveRole \/ SaveUser \/ PutTickets
  BY <1>4 DEF Request, ForJdbc, SaveRole, SaveUser, PutTickets
<1>5. CASE FirstPrize \/ Serve \/ Stop
  BY <1>5 DEF FirstPrize, Serve, Stop
<1>6. CASE UNCHANGED vars
  BY <1>6 DEF vars
<1> QED
  BY <1>1, <1>2, <1>3, <1>4, <1>5, <1>6 DEF Next, Run

(***************************************************************************)
(* The types after each step. That lastId stays within its bound is in Ids *)
(* and not in TypeOK: each failure costs at most one save of the prizes.   *)
(***************************************************************************)
LEMMA LastIdBound ==
  ASSUME NEW n \in 0 .. MaxFailures, NEW id \in Nat,
         id <= PrizeCount * n \/ id <= PrizeCount * (n + 1)
  PROVE  id \in 0 .. PrizeCount * (MaxFailures + 1)
<1>1. /\ n \in Nat /\ n + 1 \in Nat /\ MaxFailures + 1 \in Nat
      /\ n <= n + 1 /\ n + 1 <= MaxFailures + 1
  BY BoundsAssumption
<1>2. /\ PrizeCount * n <= PrizeCount * (n + 1)
      /\ PrizeCount * (n + 1) <= PrizeCount * (MaxFailures + 1)
      /\ PrizeCount * n \in Nat /\ PrizeCount * (n + 1) \in Nat
      /\ PrizeCount * (MaxFailures + 1) \in Nat
  BY <1>1, NextRound
<1> QED
  BY <1>2

LEMMA TypeStep == TypeOK /\ Ids /\ Accounts /\ [Next]_vars /\ Ids' => TypeOK'
<1> SUFFICES ASSUME TypeOK, Ids, Accounts, [Next]_vars, Ids' PROVE TypeOK'
  OBVIOUS
<1>0. /\ schema \in Schemas /\ stage \in Stage /\ failures \in 0 .. MaxFailures
      /\ tickets \in 0 .. MaxTickets /\ lost \in BOOLEAN /\ stopped \in BOOLEAN
      /\ roles \subseteq Role /\ \E U \in SUBSET User : users \in [U -> SUBSET roles]
      /\ prizes \subseteq 1 .. lastId /\ lastId \in Nat
  BY DEF TypeOK
<1> DEFINE UsersOK == \E U \in SUBSET User : users \in [U -> SUBSET roles]
           IdsOK == prizes \subseteq 1 .. lastId /\ lastId \in Nat
<1>1. schema' \in Schemas /\ stage' \in Stage /\ failures' \in 0 .. MaxFailures
  BY <1>0, BoundsAssumption
     DEF Next, Run, Start, Request, ForJdbc, SaveRole, SaveUser, PutTickets, PutPrizes, FirstPrize,
         Serve, Stop, InitFails, ProcessFails, Interrupted, vars
<1>2. tickets' \in 0 .. MaxTickets /\ lost' \in BOOLEAN
  <2>1. CASE Start
    <3>1. \/ tickets' = tickets /\ lost' = lost
          \/ tickets' = 0 /\ lost' = FALSE
      BY <2>1 DEF Start, Migrate, CreateTables
    <3>2. 0 \in 0 .. MaxTickets
      BY BoundsAssumption
    <3> QED
      BY <1>0, <3>1, <3>2
  <2>2. CASE PutTickets
    <3>1. tickets' \in {tickets, PutTicket} /\ lost' = lost
      BY <2>2 DEF PutTickets
    <3> QED
      BY <1>0, <3>1, BoundsAssumption, PutTicketAssumption
  <2>3. CASE Serve
    BY <1>0, <2>3 DEF Serve
  <2>4. CASE InitFails \/ ProcessFails
    <3>1. tickets' = tickets /\ (lost' = lost \/ lost' = TRUE)
      BY <2>4, Zenon DEF InitFails, ProcessFails, Interrupted
    <3> QED
      BY <1>0, <3>1
  <2>5. CASE UNCHANGED <<tickets, lost>>
    BY <1>0, <2>5
  <2> QED
    BY <2>1, <2>2, <2>3, <2>4, <2>5
       DEF Next, Run, Request, ForJdbc, SaveRole, SaveUser, PutPrizes, FirstPrize, Stop, vars
<1>3. roles' \subseteq Role /\ UsersOK'
  <2>1. CASE Start
    <3>1. CASE schema = "migrated"
      <4>1. roles' = Role /\ users' = RolesOf
        BY <2>1, <3>1 DEF Start, Migrate
      <4> QED
        BY <4>1, RolesOfType
    <3>2. CASE schema # "migrated"
      <4>1. roles' = {} /\ users' = NoUsers
        BY <2>1, <3>2 DEF Start, CreateTables
      <4>2. users' \in [{} -> SUBSET roles']
        BY <4>1, NoUsersType
      <4> QED
        BY <4>1, <4>2
    <3> QED
      BY <3>1, <3>2
  <2>2. CASE SaveRole
    <3>1. roles' \subseteq Role /\ users' = users /\ users = NoUsers
      BY <1>0, <2>2 DEF SaveRole, Accounts
    <3>2. users' \in [{} -> SUBSET roles']
      BY <3>1, NoUsersType
    <3> QED
      BY <3>1, <3>2
  <2>3. CASE SaveUser
    <3>1. CASE DOMAIN users # User
      <4>1. DOMAIN users \cup {NextUser} \in SUBSET User
        BY <1>0 DEF NextUser, User
      <4>2. users' \in [DOMAIN users \cup {NextUser} -> SUBSET roles'] /\ roles' = roles
        BY <1>0, <2>3, <3>1 DEF SaveUser
      <4> QED
        BY <1>0, <4>1, <4>2
    <3>2. CASE DOMAIN users = User
      <4>1. UNCHANGED <<roles, users>>
        BY <2>3, <3>2 DEF SaveUser
      <4> QED
        BY <1>0, <4>1
    <3> QED
      BY <3>1, <3>2
  <2>4. CASE UNCHANGED accounts
    BY <1>0, <2>4
  <2> QED
    BY <2>1, <2>2, <2>3, <2>4
       DEF Next, Run, Request, ForJdbc, PutTickets, PutPrizes, FirstPrize, Serve, Stop,
           InitFails, ProcessFails, Interrupted, vars
<1>4. IdsOK'
  <2>1. lastId \in Nat /\ PrizeCount \in Nat
    BY <1>0, PrizeCountAssumption
  <2>2. CASE Start
    <3>1. UNCHANGED <<prizes, lastId>> \/ (prizes' = {} /\ lastId' = 0)
      BY <2>2 DEF Start, Migrate, CreateTables
    <3>2. CASE prizes' = {} /\ lastId' = 0
      BY <3>2
    <3> QED
      BY <1>0, <3>1, <3>2
  <2>3. CASE PutPrizes
    <3>1. \/ UNCHANGED <<prizes, lastId>>
          \/ prizes' = lastId + 1 .. lastId + PrizeCount /\ lastId' = lastId + PrizeCount
      BY <2>3 DEF PutPrizes, SavePrizes, NewIds
    <3>2. /\ lastId + 1 .. lastId + PrizeCount \subseteq 1 .. lastId + PrizeCount
          /\ lastId + PrizeCount \in Nat
      BY <2>1
    <3> QED
      BY <1>0, <3>1, <3>2
  <2>4. CASE InitFails \/ ProcessFails
    <3>1. Interrupted
      BY <2>4 DEF InitFails, ProcessFails
    <3>2. prizes' = prizes /\ (lastId' = lastId \/ (prizes = {} /\ lastId' \in NewIds(PrizeCount)))
      BY <3>1, Zenon DEF Interrupted
    <3>3. CASE lastId' = lastId
      BY <1>0, <3>2, <3>3
    <3>4. CASE prizes = {} /\ lastId' \in NewIds(PrizeCount)
      <4>1. lastId' \in Nat
        BY <2>1, <3>4 DEF NewIds
      <4> QED
        BY <3>2, <3>4, <4>1
    <3> QED
      BY <3>2, <3>3, <3>4
  <2>5. CASE UNCHANGED <<prizes, lastId>>
    BY <1>0, <2>1, <2>5
  <2> QED
    BY <2>2, <2>3, <2>4, <2>5
       DEF Next, Run, Request, ForJdbc, SaveRole, SaveUser, PutTickets, FirstPrize, Serve, Stop, vars
<1>5. lastId' \in 0 .. PrizeCount * (MaxFailures + 1)
  <2>1. \A n \in 0 .. MaxFailures : n + 0 = n
    BY BoundsAssumption
  <2>2. lastId' <= PrizeCount * failures' \/ lastId' <= PrizeCount * (failures' + 1)
    BY <1>1, <2>1 DEF Ids
  <2> QED
    BY <1>1, <1>4, <2>2, LastIdBound
<1>6. stopped' \in BOOLEAN
  BY <1>0, Zenon
     DEF Next, Run, Start, Request, ForJdbc, SaveRole, SaveUser, PutTickets, PutPrizes, FirstPrize,
         Serve, Stop, InitFails, ProcessFails, vars
<1> QED
  BY <1>1, <1>2, <1>3, <1>4, <1>5, <1>6 DEF TypeOK

LEMMA Invariance == Spec => []Inv
<1>1. Inv /\ [Next]_vars => Inv'
  BY AccountsStep, IdsStep, TypeStep DEF Inv
<1> QED
  BY InitInv, <1>1, PTL DEF Spec

(***************************************************************************)
(* The tables have their types at every stage of init, and the identity    *)
(* column of the prizes its bound.                                         *)
(***************************************************************************)
THEOREM TypeCorrect == Spec => []TypeOK
<1>1. Inv => TypeOK
  BY DEF Inv
<1> QED
  BY Invariance, <1>1, PTL

(***************************************************************************)
(* Requests are served over all prizes, and over all users with all their  *)
(* roles, whichever transactions of init were the last of the runs before, *)
(* unless the tables are Hibernate's and a run of init of the same process *)
(* stopped between its first role and its last user.                       *)
(***************************************************************************)
THEOREM StartsAreCompleted == Spec => []ServesComplete
<1>1. Inv => ServesComplete
  <2> SUFFICES ASSUME Inv, stage = "serving"
               PROVE  /\ Cardinality(prizes) = PrizeCount
                      /\ schema = "migrated" \/ ~stopped => users = RolesOf
    BY DEF ServesComplete
  <2>1. schema = "migrated" \/ ~stopped => users = RolesOf
    BY DEF Inv, Accounts, Complete
  <2>2. /\ prizes = lastId - PrizeCount + 1 .. lastId
        /\ lastId \in Int /\ PrizeCount \in Nat \ {0}
    BY PrizeCountAssumption DEF Inv, Ids, TypeOK
  <2>3. Cardinality(prizes) = lastId - (lastId - PrizeCount + 1) + 1
    BY <2>2, FS_Interval
  <2> QED
    BY <2>1, <2>2, <2>3
<1> QED
  BY Invariance, <1>1, PTL

(***************************************************************************)
(* Unless a save of the prizes was rolled back, prizeAll of manager.html   *)
(* holds at the place of each row the prize that the row's button gives.   *)
(***************************************************************************)
THEOREM RowsAreRight == Spec => []RowShowsItsPrize
<1>1. Inv => RowShowsItsPrize
  <2> SUFFICES ASSUME Inv, stage = "serving", ~lost, NEW id \in prizes
               PROVE  Place(id) = Cardinality(prizes) - id
    BY DEF RowShowsItsPrize
  <2>1. PrizeCount \in Nat \ {0}
    BY PrizeCountAssumption
  <2>2. prizes = 1 .. PrizeCount /\ id \in 1 .. PrizeCount
    BY <2>1 DEF Inv, Ids
  <2>3. Cardinality(prizes) = PrizeCount
    BY <2>1, <2>2, FS_Interval
  <2>4. {p \in prizes : p > id} = id + 1 .. PrizeCount
    BY <2>1, <2>2
  <2>5. Cardinality(id + 1 .. PrizeCount) = PrizeCount - id
    BY <2>1, <2>2, FS_Interval
  <2> QED
    BY <2>3, <2>4, <2>5 DEF Place
<1> QED
  BY Invariance, <1>1, PTL

(***************************************************************************)
(* Starting keeps the prizes, and the tickets unless there are none: with  *)
(* Flyway's tables always, with Hibernate's unless a process begins.       *)
(***************************************************************************)
THEOREM StartsKeepTheRaffle == Spec => StartKeepsRaffle
<1> DEFINE Keeps == schema = "migrated" \/ stage # "down" =>
                      /\ prizes # {} => prizes' = prizes
                      /\ stage # "serving" /\ tickets # 0 => tickets' = tickets
<1>1. [Next]_vars => [Keeps]_vars
  BY DEF Next, Run, Start, Migrate, Request, ForJdbc, SaveRole, SaveUser, PutTickets, PutPrizes,
         FirstPrize, Serve, Stop, InitFails, ProcessFails, Interrupted, vars
<1> QED
  BY <1>1, PTL DEF Spec, StartKeepsRaffle
=============================================================================
