---------------------------- MODULE TombolaLogin ----------------------------
(***************************************************************************)
(* Signing in and the blocking of addresses that fail to too often.        *)
(*                                                                         *)
(* LoginAttemptService keeps a count of failures per address in a cache    *)
(* whose entries expire; UserService.loadUserByUsername looks at it before *)
(* a password is compared, and the listeners of Spring Security's events   *)
(* change it afterwards. The login form goes through IndexController,      *)
(* which loads the user itself and lets Spring load it again, all in its   *)
(* monitor. Credentials sent by HTTP basic are checked without it.         *)
(***************************************************************************)
EXTENDS Integers, FiniteSets

CONSTANTS
  Thread,         \* threads of the servlet container
  Address,        \* addresses the clients come from
  Uses,           \* the sets of ways to sign in that may be the only ones used
  MaxAttempt,     \* tombola.app.login.maxAttemt
  Wait,           \* tombola.app.login.waitSec, in ticks of the clock
  InvalidateKey,  \* tombola.app.attempts.invalidateKey
  Nobody          \* owner of a free monitor

ASSUME ThreadAssumption == IsFiniteSet(Thread) /\ Nobody \notin Thread
ASSUME AddressAssumption == Address # {}
ASSUME UsesAssumption == Uses \subseteq SUBSET {"form", "basic"}
ASSUME MaxAttemptAssumption == MaxAttempt \in Nat \ {0}
ASSUME WaitAssumption == Wait \in Nat \ {0}
ASSUME InvalidateKeyAssumption == InvalidateKey \in BOOLEAN

User == {"active", "disabled", "unknown"}
Step == {"idle", "check", "find", "count", "verify", "fail", "succeed"}
Answer == {"none", "in", "refused", "error", "failed"}

VARIABLES
  ways,      \* how clients sign in: by the form, by HTTP basic; fixed at the start
  attempts,  \* per address, the count of the cache; 0 when it has no entry
  age,       \* per address, the ticks since its count was last written
  index,     \* owner of the monitor of IndexController
  at,        \* per thread, what its sign-in does next
  login,     \* per thread, the sign-in it serves
  again,     \* per thread, whether Spring Security loads the user after signin did
  answer     \* per thread, what its last sign-in was answered

vars == <<ways, attempts, age, index, at, login, again, answer>>

Login == [way : {"form", "basic"}, from : Address, user : User]

\* In a thread that serves none, and without a meaning.
NoLogin == CHOOSE l \in Login : TRUE

Init ==
  /\ ways \in Uses
  /\ attempts = [a \in Address |-> 0]
  /\ age = [a \in Address |-> 0]
  /\ index = Nobody
  /\ at = [th \in Thread |-> "idle"]
  /\ login = [th \in Thread |-> NoLogin]
  /\ again = [th \in Thread |-> FALSE]
  /\ answer = [th \in Thread |-> "none"]

From(th) == login[th].from

Go(th, step) ==
  /\ at' = [at EXCEPT ![th] = step]
  /\ UNCHANGED <<index, login, again, answer>>

\* What the request ends with; its thread leaves the monitor.
End(th, result) ==
  /\ at' = [at EXCEPT ![th] = "idle"]
  /\ login' = [login EXCEPT ![th] = NoLogin]
  /\ again' = [again EXCEPT ![th] = FALSE]
  /\ answer' = [answer EXCEPT ![th] = result]
  /\ index' = IF index = th THEN Nobody ELSE index

-----------------------------------------------------------------------------
(* LoginAttemptService; every method in its monitor *)

Blocked(a) == attempts[a] >= MaxAttempt

LoginFailed(a) ==
  /\ attempts' = [attempts EXCEPT ![a] = @ + 1]
  /\ age' = [age EXCEPT ![a] = 0]

\* Variant: a success makes up for one failure.
LoginSucceededOnce(a) ==
  /\ attempts' = [attempts EXCEPT ![a] = @ - 1]
  /\ age' = [age EXCEPT ![a] = 0]

LoginSucceeded(a) ==
  /\ attempts' = [attempts EXCEPT ![a] = 0]
  /\ age' = [age EXCEPT ![a] = 0]

-----------------------------------------------------------------------------
(* A sign-in *)

\* Variant: signin is not synchronized.
SigninUnsynchronized(th) == UNCHANGED index

\* signin enters the monitor of its bean.
Signin(th) == index = Nobody /\ index' = th

Begin(th) ==
  /\ at[th] = "idle"
  /\ \E way \in ways, a \in Address, user \in User :
       /\ login' = [login EXCEPT ![th] = [way |-> way, from |-> a, user |-> user]]
       /\ IF way = "form" THEN Signin(th) ELSE UNCHANGED index
  /\ at' = [at EXCEPT ![th] = "check"]
  /\ answer' = [answer EXCEPT ![th] = "none"]
  /\ UNCHANGED <<attempts, age, again>>

\* signin handles what its own load throws; what the second load throws
\* reaches it wrapped by Spring Security, and no handler of it fits.
Refusal(th) == IF again[th] THEN "error" ELSE "refused"

\* Variant: an attempt from a blocked address counts as well. (Counted no
\* further than one beyond the limit.)
CheckCounting(th) ==
  /\ at[th] = "check"
  /\ IF Blocked(From(th))
     THEN /\ End(th, Refusal(th))
          /\ attempts' = [attempts EXCEPT ![From(th)] = MaxAttempt + 1]
          /\ age' = [age EXCEPT ![From(th)] = 0]
     ELSE Go(th, "find") /\ UNCHANGED <<attempts, age>>

\* Variant: who is refused may try anew.
CheckForgiving(th) ==
  /\ at[th] = "check"
  /\ IF Blocked(From(th))
     THEN End(th, Refusal(th)) /\ LoginSucceeded(From(th))
     ELSE Go(th, "find") /\ UNCHANGED <<attempts, age>>

\* Variant: the limit itself is still let through.
CheckTooLate(th) ==
  /\ at[th] = "check"
  /\ IF attempts[From(th)] > MaxAttempt
     THEN End(th, Refusal(th)) /\ UNCHANGED <<attempts, age>>
     ELSE Go(th, "find") /\ UNCHANGED <<attempts, age>>

Check(th) ==
  /\ at[th] = "check"
  /\ IF Blocked(From(th))
     THEN End(th, Refusal(th)) /\ UNCHANGED <<attempts, age>>
     ELSE Go(th, "find") /\ UNCHANGED <<attempts, age>>

\* loadUserByUsername is transactional: without a connection it does not start.
NoConnection(th) ==
  /\ at[th] = "check"
  /\ End(th, "failed")
  /\ UNCHANGED <<attempts, age>>

Find(th) ==
  /\ at[th] = "find"
  /\ UNCHANGED <<attempts, age>>
  /\ \/ /\ login[th].user = "unknown"
        /\ Go(th, "count")
     \/ /\ login[th].user = "disabled"
        /\ End(th, Refusal(th))
     \/ /\ login[th].user = "active"
        /\ login[th].way = "form" /\ ~again[th]
        /\ at' = [at EXCEPT ![th] = "check"]
        /\ again' = [again EXCEPT ![th] = TRUE]
        /\ UNCHANGED <<index, login, answer>>
     \/ /\ login[th].user = "active"
        /\ login[th].way = "basic" \/ again[th]
        /\ Go(th, "verify")

CountUnknown(th) ==
  /\ at[th] = "count"
  /\ LoginFailed(From(th))
  /\ End(th, Refusal(th))

Verify(th) ==
  /\ at[th] = "verify"
  /\ Go(th, "succeed") \/ Go(th, "fail")
  /\ UNCHANGED <<attempts, age>>

\* The listeners. Spring Security does not wrap a wrong password.
Fail(th) ==
  /\ at[th] = "fail"
  /\ LoginFailed(From(th))
  /\ End(th, "refused")

Succeed(th) ==
  /\ at[th] = "succeed"
  /\ LoginSucceeded(From(th))
  /\ End(th, "in")

-----------------------------------------------------------------------------
(* The clock *)

\* expireAfterWrite
Expired(a) == InvalidateKey /\ age[a] + 1 = Wait

Tick ==
  /\ \E a \in Address : attempts[a] > 0
  /\ attempts' = [a \in Address |-> IF Expired(a) THEN 0 ELSE attempts[a]]
  /\ age' = [a \in Address |->
       IF attempts[a] = 0 \/ age[a] + 1 = Wait THEN 0 ELSE age[a] + 1]
  /\ UNCHANGED <<index, at, login, again, answer>>

Run(th) ==
  \/ Check(th) \/ NoConnection(th) \/ Find(th)
  \/ CountUnknown(th) \/ Verify(th) \/ Fail(th) \/ Succeed(th)

Next ==
  /\ Tick \/ \E th \in Thread : Begin(th) \/ Run(th)
  /\ UNCHANGED ways

Spec == Init /\ [][Next]_vars

\* Time passes, whatever the clients do.
FairSpec == Spec /\ WF_vars(Tick /\ UNCHANGED ways)

-----------------------------------------------------------------------------
(* Properties *)

TypeOK ==
  /\ ways \in Uses
  /\ attempts \in [Address -> Nat]
  /\ age \in [Address -> 0 .. Wait - 1]
  /\ index \in Thread \cup {Nobody}
  /\ at \in [Thread -> Step]
  /\ login \in [Thread -> Login]
  /\ again \in [Thread -> BOOLEAN]
  /\ answer \in [Thread -> Answer]

\* Sign-ins that have found their address unblocked and may still be counted.
Pending(a) ==
  {th \in Thread : at[th] \in {"find", "count", "verify", "fail"} /\ From(th) = a}

\* How many may be past the check together: the form's monitor lets one by.
Together == IF "basic" \in ways THEN Cardinality(Thread) ELSE 1

(***************************************************************************)
(* The check of an address and the count of its failure are two calls with *)
(* a comparison of passwords between them: an address gets at most as many *)
(* failures beyond the limit as sign-ins can be between the two. With the  *)
(* form alone that is exactly the limit.                                   *)
(***************************************************************************)
GuessesBounded ==
  \A a \in Address : attempts[a] + Cardinality(Pending(a)) <= MaxAttempt - 1 + Together

(***************************************************************************)
(* signin finds out in its own load that the address is blocked, and sends *)
(* the browser back to the form: as long as nobody signs in otherwise, the *)
(* second load never meets a block the first one did not.                  *)
(***************************************************************************)
FormNeverFails ==
  "basic" \notin ways => \A th \in Thread : answer[th] # "error"

(***************************************************************************)
(* A block ends when the time has passed since the last failure, or with a *)
(* sign-in that was checked before the block, never otherwise.             *)
(***************************************************************************)
BlockLasts ==
  [][\A a \in Address : Blocked(a) /\ ~Blocked(a)' =>
       \/ age[a] + 1 = Wait
       \/ \E th \in Thread : at[th] = "succeed" /\ From(th) = a /\ answer'[th] = "in"]_vars

(***************************************************************************)
(* However often they go on trying, no address is blocked for good.        *)
(***************************************************************************)
Unblocks == \A a \in Address : []<>~Blocked(a)
=============================================================================
