------------------------- MODULE TombolaLoginProofs -------------------------
(***************************************************************************)
(* For any threads, addresses, limit and expiry: no address gets more      *)
(* failures than GuessesBounded says, and signin of the form never fails   *)
(* on a block when the form is the only way in; and only time or a success *)
(* ends a block.                                                           *)
(*                                                                         *)
(* The first two need who is in the monitor of IndexController, and the    *)
(* second that between the two loads of a sign-in nothing can count: this  *)
(* is Guarded.                                                             *)
(***************************************************************************)
EXTENDS TombolaLogin, FiniteSetTheorems, TLAPS

Active(th) == at[th] # "idle"

\* A sign-in by the form holds the monitor from its first step to its last.
FormHolds ==
  \A th \in Thread : Active(th) =>
    login[th].way \in ways /\ (login[th].way = "form" => index = th)

\* Only an active user is loaded again, and compared with a password.
KnownLater ==
  \A th \in Thread :
    IF Active(th)
    THEN again[th] \/ at[th] \in {"verify", "fail"} => login[th].user = "active"
    ELSE ~again[th]

\* Only what an unknown name is refused for is counted by loadUserByUsername.
CountsUnknown == \A th \in Thread : at[th] = "count" => login[th].user = "unknown"

\* Alone, a form that was let through is not counted against before the end.
SecondUnblocked ==
  "basic" \notin ways =>
    \A th \in Thread : at[th] = "find" \/ (at[th] = "check" /\ again[th]) => ~Blocked(From(th))

Guarded == TypeOK /\ FormHolds /\ KnownLater /\ CountsUnknown /\ SecondUnblocked

USE DEF Active

LEMMA NoLoginType == NoLogin \in Login
<1>1. PICK a \in Address : TRUE
  BY AddressAssumption
<1>2. [way |-> "form", from |-> a, user |-> "active"] \in Login
  BY DEF Login, User
<1> QED
  BY <1>2 DEF NoLogin

LEMMA InitGuarded == Init => Guarded
<1> SUFFICES ASSUME Init PROVE Guarded
  OBVIOUS
<1>1. TypeOK
  BY NoLoginType, WaitAssumption DEF Init, TypeOK, Step, Answer
<1>2. \A th \in Thread : at[th] = "idle" /\ ~again[th]
  BY DEF Init
<1> QED
  BY <1>1, <1>2 DEF Guarded, FormHolds, KnownLater, CountsUnknown, SecondUnblocked

LEMMA FromType == ASSUME TypeOK, NEW th \in Thread PROVE From(th) \in Address
  BY DEF TypeOK, Login, From

LEMMA RefusalType == ASSUME NEW th PROVE Refusal(th) \in Answer
  BY DEF Refusal, Answer

LEMMA WaysFixed == [Next]_vars => ways' = ways
  BY DEF Next, vars

\* The types of what End and Go change.
ThreadsOK ==
  /\ index \in Thread \cup {Nobody}
  /\ at \in [Thread -> Step]
  /\ login \in [Thread -> Login]
  /\ again \in [Thread -> BOOLEAN]
  /\ answer \in [Thread -> Answer]

LEMMA EndType ==
  ASSUME TypeOK, NEW th \in Thread, NEW result \in Answer, End(th, result)
  PROVE  ThreadsOK'
  BY NoLoginType DEF End, TypeOK, ThreadsOK, Step

LEMMA GoType ==
  ASSUME TypeOK, NEW th \in Thread, NEW step \in Step, Go(th, step)
  PROVE  ThreadsOK'
  BY DEF Go, TypeOK, ThreadsOK

\* The types of the cache.
CacheOK ==
  /\ attempts \in [Address -> Nat]
  /\ age \in [Address -> 0 .. Wait - 1]

(***************************************************************************)
(* Every step keeps the types.                                             *)
(***************************************************************************)
LEMMA TypeStep == TypeOK /\ [Next]_vars => TypeOK'
<1> SUFFICES ASSUME TypeOK, [Next]_vars PROVE TypeOK'
  OBVIOUS
<1> USE WaitAssumption DEF CacheOK
<1>1. CacheOK /\ (ThreadsOK' /\ CacheOK' => TypeOK')
  BY WaysFixed DEF TypeOK, ThreadsOK
<1>2. ASSUME NEW th \in Thread, Begin(th) PROVE ThreadsOK' /\ CacheOK'
  <2>1. PICK way \in ways, a \in Address, user \in User :
          /\ login' = [login EXCEPT ![th] = [way |-> way, from |-> a, user |-> user]]
          /\ IF way = "form" THEN Signin(th) ELSE UNCHANGED index
    BY <1>2 DEF Begin
  <2>2. [way |-> way, from |-> a, user |-> user] \in Login
    BY UsesAssumption DEF Login, TypeOK
  <2>3. index' \in Thread \cup {Nobody} /\ login' \in [Thread -> Login]
    BY <2>1, <2>2 DEF Signin, TypeOK
  <2> QED
    BY <1>1, <1>2, <2>3 DEF Begin, TypeOK, ThreadsOK, Step, Answer
<1>3. ASSUME NEW th \in Thread, Check(th) PROVE ThreadsOK' /\ CacheOK'
  <2>1. CacheOK'
    BY <1>1, <1>3 DEF Check
  <2>2. CASE Go(th, "find")
    BY <2>1, <2>2, GoType DEF Step
  <2>3. CASE End(th, Refusal(th))
    BY <2>1, <2>3, EndType, RefusalType
  <2> QED
    BY <1>3, <2>2, <2>3 DEF Check
<1>4. ASSUME NEW th \in Thread, NoConnection(th) PROVE ThreadsOK' /\ CacheOK'
  BY <1>1, <1>4, EndType DEF NoConnection, Answer
<1>5. ASSUME NEW th \in Thread, Find(th) PROVE ThreadsOK' /\ CacheOK'
  <2>1. CacheOK'
    BY <1>1, <1>5 DEF Find
  <2>2. CASE Go(th, "count") \/ Go(th, "verify") \/ End(th, Refusal(th))
    BY <2>1, <2>2, EndType, GoType, RefusalType DEF Step
  <2>3. CASE /\ at' = [at EXCEPT ![th] = "check"]
             /\ again' = [again EXCEPT ![th] = TRUE]
             /\ UNCHANGED <<index, login, answer>>
    BY <2>1, <2>3 DEF TypeOK, ThreadsOK, Step
  <2> QED
    BY <1>5, <2>2, <2>3 DEF Find
<1>6. ASSUME NEW th \in Thread, CountUnknown(th) PROVE ThreadsOK' /\ CacheOK'
  <2>1. CacheOK'
    BY <1>1, <1>6, FromType DEF CountUnknown, LoginFailed
  <2>2. ThreadsOK'
    BY <1>6, EndType, RefusalType DEF CountUnknown
  <2> QED
    BY <2>1, <2>2
<1>7. ASSUME NEW th \in Thread, Verify(th) PROVE ThreadsOK' /\ CacheOK'
  BY <1>1, <1>7, GoType DEF Verify, Step
<1>8. ASSUME NEW th \in Thread, Fail(th) PROVE ThreadsOK' /\ CacheOK'
  <2>1. CacheOK'
    BY <1>1, <1>8, FromType DEF Fail, LoginFailed
  <2>2. ThreadsOK'
    BY <1>8, EndType DEF Fail, Answer
  <2> QED
    BY <2>1, <2>2
<1>9. ASSUME NEW th \in Thread, Succeed(th) PROVE ThreadsOK' /\ CacheOK'
  <2>1. CacheOK'
    BY <1>1, <1>9, FromType DEF Succeed, LoginSucceeded
  <2>2. ThreadsOK'
    BY <1>9, EndType DEF Succeed, Answer
  <2> QED
    BY <2>1, <2>2
<1>10. ASSUME Tick PROVE ThreadsOK' /\ CacheOK'
  BY <1>1, <1>10 DEF Tick, Expired, TypeOK, ThreadsOK
<1>11. ASSUME UNCHANGED vars PROVE ThreadsOK' /\ CacheOK'
  BY <1>1, <1>11 DEF vars, TypeOK, ThreadsOK
<1> QED
  BY <1>1, <1>2, <1>3, <1>4, <1>5, <1>6, <1>7, <1>8, <1>9, <1>10, <1>11 DEF Next, Run

-----------------------------------------------------------------------------
(***************************************************************************)
(* Guarded is inductive.                                                   *)
(***************************************************************************)
LEMMA HoldsStep == Guarded /\ [Next]_vars => FormHolds'
<1> SUFFICES ASSUME Guarded, [Next]_vars PROVE FormHolds'
  OBVIOUS
<1> USE WaysFixed DEF Guarded, TypeOK, FormHolds
<1>1. ASSUME NEW th \in Thread, Begin(th) PROVE FormHolds'
  BY <1>1, ThreadAssumption DEF Begin, Signin
<1>2. ASSUME NEW th \in Thread, NEW result, End(th, result) PROVE FormHolds'
  BY <1>2 DEF End
<1>3. ASSUME NEW th \in Thread, at[th] # "idle", NEW step, Go(th, step) PROVE FormHolds'
  BY <1>3 DEF Go
<1>4. ASSUME NEW th \in Thread, Find(th) PROVE FormHolds'
  BY <1>2, <1>3, <1>4 DEF Find
<1>5. ASSUME UNCHANGED <<index, at, login>> PROVE FormHolds'
  BY <1>5
<1>6. ASSUME NEW th \in Thread, Run(th) PROVE FormHolds'
  BY <1>2, <1>3, <1>4, <1>6 DEF Run, Check, NoConnection, CountUnknown, Verify, Fail, Succeed
<1> QED
  BY <1>1, <1>5, <1>6 DEF Next, Tick, vars

LEMMA KnownStep == Guarded /\ [Next]_vars => KnownLater' /\ CountsUnknown'
<1> SUFFICES ASSUME Guarded, [Next]_vars PROVE KnownLater' /\ CountsUnknown'
  OBVIOUS
<1> USE DEF Guarded, TypeOK, KnownLater, CountsUnknown
<1>1. ASSUME NEW th \in Thread, Begin(th) PROVE KnownLater' /\ CountsUnknown'
  BY <1>1 DEF Begin
<1>2. ASSUME NEW th \in Thread, NEW result, End(th, result)
      PROVE  KnownLater' /\ CountsUnknown'
  BY <1>2 DEF End
<1>3. ASSUME NEW th \in Thread, Check(th) PROVE KnownLater' /\ CountsUnknown'
  BY <1>2, <1>3 DEF Check, Go
<1>4. ASSUME NEW th \in Thread, Find(th) PROVE KnownLater' /\ CountsUnknown'
  BY <1>2, <1>4 DEF Find, Go
<1>5. ASSUME NEW th \in Thread, Verify(th) PROVE KnownLater' /\ CountsUnknown'
  BY <1>5 DEF Verify, Go
<1>6. ASSUME UNCHANGED <<at, login, again>> PROVE KnownLater' /\ CountsUnknown'
  BY <1>6
<1>7. ASSUME NEW th \in Thread, Run(th) PROVE KnownLater' /\ CountsUnknown'
  BY <1>2, <1>3, <1>4, <1>5, <1>7 DEF Run, NoConnection, CountUnknown, Fail, Succeed
<1> QED
  BY <1>1, <1>6, <1>7 DEF Next, Tick, vars

LEMMA UnblockedStep == Guarded /\ [Next]_vars => SecondUnblocked'
<1> SUFFICES ASSUME Guarded, [Next]_vars, "basic" \notin ways,
                    ways' = ways, NEW o \in Thread, (at[o] = "find" \/ (at[o] = "check" /\ again[o]))'
             PROVE  ~Blocked(From(o))'
  BY WaysFixed DEF SecondUnblocked
<1> USE DEF Guarded
<1>0. ways \subseteq {"form"}
  BY UsesAssumption DEF TypeOK
<1>1. ASSUME NEW th \in Thread, Active(th) PROVE index = th
  BY <1>0, <1>1 DEF FormHolds
<1>2. ASSUME NEW th \in Thread, Run(th) PROVE ~Blocked(From(o))'
  <2>1. th = o
    BY <1>1, <1>2 DEF Run, Check, NoConnection, Find, CountUnknown, Verify, Fail, Succeed, End, Go, TypeOK
  <2>2. at[o] \in {"check", "find"} /\ login'[o] = login[o] /\ attempts' = attempts
    BY <1>2, <2>1 DEF Run, Check, NoConnection, Find, CountUnknown, Verify, Fail, Succeed, End, Go, TypeOK
  <2>3. CASE at[o] = "check"
    <3>1. at'[o] # "idle"
      OBVIOUS
    <3>2. Check(o) \/ NoConnection(o)
      BY <1>2, <2>1, <2>3 DEF Run, Find, CountUnknown, Verify, Fail, Succeed
    <3>3. ~Blocked(From(o))
      BY <3>1, <3>2 DEF Check, NoConnection, End, TypeOK
    <3> QED
      BY <2>2, <3>3 DEF Blocked, From
  <2>4. CASE at[o] = "find"
    BY <2>2, <2>4 DEF SecondUnblocked, Blocked, From
  <2> QED
    BY <2>2, <2>3, <2>4
<1>3. ASSUME NEW th \in Thread, Begin(th) PROVE ~Blocked(From(o))'
  <2>1. index = Nobody
    BY <1>0, <1>3 DEF Begin, Signin
  <2>2. o = th
    BY <1>1, <1>3, <2>1, ThreadAssumption DEF Begin, TypeOK
  <2> QED
    BY <1>3, <2>2 DEF Begin, TypeOK, KnownLater
<1>4. ASSUME Tick PROVE ~Blocked(From(o))'
  <2>1. ~Blocked(From(o)) /\ From(o) \in Address /\ From(o)' = From(o)
    BY <1>4, FromType DEF Tick, SecondUnblocked, From
  <2>2. attempts'[From(o)] \in {0, attempts[From(o)]}
    BY <1>4, <2>1 DEF Tick
  <2> QED
    BY <2>1, <2>2, MaxAttemptAssumption DEF Blocked, TypeOK
<1>5. ASSUME UNCHANGED vars PROVE ~Blocked(From(o))'
  BY <1>5 DEF vars, SecondUnblocked, Blocked, From
<1> QED
  BY <1>2, <1>3, <1>4, <1>5 DEF Next

LEMMA GuardedStep == Guarded /\ [Next]_vars => Guarded'
  BY TypeStep, HoldsStep, KnownStep, UnblockedStep DEF Guarded

LEMMA AlwaysGuarded == Spec => []Guarded
  BY InitGuarded, GuardedStep, PTL DEF Spec

(***************************************************************************)
(* The counts of LoginAttemptService never go below zero, and every sign-in*)
(* is in one of the steps of signin and loadUserByUsername.                *)
(***************************************************************************)
THEOREM TypeCorrect == Spec => []TypeOK
  BY AlwaysGuarded, PTL DEF Guarded

-----------------------------------------------------------------------------
(***************************************************************************)
(* The form alone: whoever is refused is sent back to it, because a second *)
(* load finds its address as unblocked as the first one did.               *)
(***************************************************************************)
LEMMA AnswerStep == Guarded /\ FormNeverFails /\ [Next]_vars => FormNeverFails'
<1> SUFFICES ASSUME Guarded, FormNeverFails, [Next]_vars, "basic" \notin ways PROVE FormNeverFails'
  BY WaysFixed DEF FormNeverFails
<1> USE DEF Guarded, TypeOK, FormNeverFails
<1>1. ASSUME NEW th \in Thread, NEW result, result # "error", End(th, result)
      PROVE  FormNeverFails'
  BY <1>1 DEF End
<1>2. ASSUME NEW th \in Thread, Check(th) PROVE FormNeverFails'
  BY <1>1, <1>2 DEF Check, Go, Refusal, SecondUnblocked
<1>3. ASSUME NEW th \in Thread, Find(th) PROVE FormNeverFails'
  BY <1>1, <1>3 DEF Find, Go, Refusal, KnownLater
<1>4. ASSUME NEW th \in Thread, CountUnknown(th) PROVE FormNeverFails'
  BY <1>1, <1>4 DEF CountUnknown, Refusal, KnownLater, CountsUnknown
<1>5. ASSUME NEW th \in Thread, Run(th) PROVE FormNeverFails'
  BY <1>1, <1>2, <1>3, <1>4, <1>5 DEF Run, NoConnection, Verify, Go, Fail, Succeed
<1>6. ASSUME NEW th \in Thread, Begin(th) PROVE FormNeverFails'
  BY <1>6 DEF Begin
<1> QED
  BY <1>5, <1>6 DEF Next, Tick, vars

(***************************************************************************)
(* Where nobody uses HTTP basic, signin answers every sign-in, refused or  *)
(* not, and never fails on a block set between its two loads of the user.  *)
(***************************************************************************)
THEOREM FormIsAnswered == Spec => []FormNeverFails
<1>1. Init => FormNeverFails
  BY DEF Init, FormNeverFails
<1>2. Guarded /\ FormNeverFails /\ [Next]_vars => FormNeverFails'
  BY AnswerStep
<1> QED
  BY <1>1, <1>2, AlwaysGuarded, PTL DEF Spec

-----------------------------------------------------------------------------
(***************************************************************************)
(* How often an address can fail.                                          *)
(***************************************************************************)
LEMMA TogetherType == Together \in Nat
  BY ThreadAssumption, FS_CardinalityType DEF Together

LEMMA PendingFinite ==
  ASSUME NEW a PROVE IsFiniteSet(Pending(a)) /\ Cardinality(Pending(a)) \in Nat
  BY ThreadAssumption, FS_Subset, FS_CardinalityType DEF Pending

LEMMA NoneOrOne ==
  ASSUME NEW S, NEW x, S \subseteq {x}
  PROVE  IsFiniteSet(S) /\ Cardinality(S) <= 1
<1>1. IsFiniteSet({x}) /\ Cardinality({x}) = 1
  BY FS_Singleton
<1>2. IsFiniteSet(S) /\ Cardinality(S) <= Cardinality({x})
  BY <1>1, FS_Subset
<1> QED
  BY <1>1, <1>2

\* After a step as well.
LEMMA PendingFiniteNext ==
  ASSUME NEW a PROVE IsFiniteSet(Pending(a)') /\ Cardinality(Pending(a)') \in Nat
  BY ThreadAssumption, FS_Subset, FS_CardinalityType DEF Pending

\* At most Together sign-ins are between check and count.
LEMMA PendingBoundedNext ==
  ASSUME Guarded', ways' = ways, NEW a PROVE Cardinality(Pending(a)') <= Together
<1>1. CASE "basic" \in ways
  BY <1>1, ThreadAssumption, FS_Subset DEF Pending, Together
<1>2. CASE "basic" \notin ways
  <2>1. ways' \subseteq {"form"}
    BY <1>2, UsesAssumption DEF Guarded, TypeOK
  <2>2. \A th \in Thread : Active(th)' => index' = th
    BY <2>1 DEF Guarded, FormHolds
  <2>3. Pending(a)' \subseteq {index'}
    BY <2>2 DEF Pending
  <2> QED
    BY <1>2, <2>3, NoneOrOne DEF Together
<1> QED
  BY <1>1, <1>2

(***************************************************************************)
(* The bound is kept by whatever takes sign-ins away and counts none.      *)
(***************************************************************************)
LEMMA BoundKept ==
  ASSUME TypeOK, TypeOK', NEW a \in Address,
         attempts[a] + Cardinality(Pending(a)) <= MaxAttempt - 1 + Together,
         Pending(a)' \subseteq Pending(a), attempts'[a] <= attempts[a]
  PROVE  attempts'[a] + Cardinality(Pending(a)') <= MaxAttempt - 1 + Together
<1>1. Cardinality(Pending(a)') <= Cardinality(Pending(a))
  BY PendingFinite, FS_Subset
<1>2. Cardinality(Pending(a)') \in Nat
  BY PendingFinite, FS_Subset, FS_CardinalityType
<1> QED
  BY <1>1, <1>2, PendingFinite, TogetherType, MaxAttemptAssumption DEF TypeOK

\* Counting one takes it from the sign-ins under way.
LEMMA BoundKeptByCount ==
  ASSUME TypeOK, NEW a \in Address, NEW th \in Pending(a),
         attempts[a] + Cardinality(Pending(a)) <= MaxAttempt - 1 + Together,
         Pending(a)' = Pending(a) \ {th}, attempts'[a] = attempts[a] + 1
  PROVE  attempts'[a] + Cardinality(Pending(a)') <= MaxAttempt - 1 + Together
<1>1. Cardinality(Pending(a)') = Cardinality(Pending(a)) - 1
  BY PendingFinite, FS_RemoveElement
<1> QED
  BY <1>1, PendingFinite, TogetherType, MaxAttemptAssumption DEF TypeOK

LEMMA GuessesStep == Guarded /\ GuessesBounded /\ [Next]_vars => GuessesBounded'
<1> SUFFICES ASSUME Guarded, GuessesBounded, [Next]_vars, NEW a \in Address
             PROVE  (attempts[a] + Cardinality(Pending(a)) <= MaxAttempt - 1 + Together)'
  BY DEF GuessesBounded
<1> DEFINE Bound == attempts[a] + Cardinality(Pending(a)) <= MaxAttempt - 1 + Together
<1> DEFINE Kept == attempts'[a] + Cardinality(Pending(a)') <= MaxAttempt - 1 + Together
<1>0. TypeOK /\ Guarded' /\ TypeOK' /\ Bound /\ Together' = Together
  BY GuardedStep, WaysFixed DEF Guarded, GuessesBounded, Together
<1> SUFFICES Kept
  BY <1>0
<1> HIDE DEF Bound
<1>1. ASSUME Pending(a)' \subseteq Pending(a), attempts'[a] <= attempts[a]
      PROVE  Kept
  BY <1>0, <1>1, BoundKept DEF Bound
<1>2. ASSUME NEW th \in Pending(a), Pending(a)' = Pending(a) \ {th},
             attempts'[a] = attempts[a] + 1
      PROVE  Kept
  BY <1>0, <1>2, BoundKeptByCount DEF Bound
<1>3. ASSUME NEW th \in Thread, Check(th)
      PROVE  Kept
  <2>1. CASE Blocked(From(th)) \/ From(th) # a
    <3>1. Pending(a)' \subseteq Pending(a) /\ attempts' = attempts
      BY <1>0, <1>3, <2>1 DEF Check, End, Go, Pending, From, TypeOK
    <3> QED
      BY <1>0, <1>1, <3>1 DEF TypeOK
  <2>2. CASE ~Blocked(From(th)) /\ From(th) = a
    <3>1. attempts'[a] \in Nat /\ attempts'[a] <= MaxAttempt - 1
      BY <1>0, <1>3, <2>2, MaxAttemptAssumption DEF Check, Blocked, TypeOK
    <3>2. Cardinality(Pending(a)') <= Together
      BY <1>0, WaysFixed, PendingBoundedNext
    <3>3. Cardinality(Pending(a)') \in Nat
      BY PendingFiniteNext
    <3> QED
      BY <3>1, <3>2, <3>3, TogetherType, MaxAttemptAssumption
  <2> QED
    BY <2>1, <2>2
<1>4. ASSUME NEW th \in Thread, Fail(th) \/ CountUnknown(th)
      PROVE  Kept
  <2>1. CASE From(th) = a
    <3>1. th \in Pending(a)
      BY <1>4, <2>1 DEF Fail, CountUnknown, Pending
    <3>2. Pending(a)' = Pending(a) \ {th}
      BY <1>0, <1>4 DEF Fail, CountUnknown, End, Pending, From, TypeOK
    <3>3. attempts'[a] = attempts[a] + 1
      BY <1>0, <1>4, <2>1 DEF Fail, CountUnknown, LoginFailed, TypeOK
    <3> QED
      BY <1>2, <3>1, <3>2, <3>3
  <2>2. CASE From(th) # a
    <3>1. Pending(a)' \subseteq Pending(a)
      BY <1>0, <1>4 DEF Fail, CountUnknown, End, Pending, From, TypeOK
    <3>2. attempts'[a] = attempts[a] /\ attempts[a] \in Nat
      BY <1>0, <1>4, <2>2 DEF Fail, CountUnknown, LoginFailed, TypeOK
    <3> QED
      BY <1>1, <3>1, <3>2
  <2> QED
    BY <2>1, <2>2
<1>5. ASSUME NEW th \in Thread, NoConnection(th) \/ Find(th) \/ Verify(th) \/ Begin(th)
      PROVE  Kept
  <2>1. Pending(a)' \subseteq Pending(a)
    BY <1>0, <1>5 DEF NoConnection, Find, Verify, Begin, End, Go, Pending, From, TypeOK
  <2>2. attempts' = attempts /\ attempts[a] \in Nat
    BY <1>0, <1>5 DEF NoConnection, Find, Verify, Begin, TypeOK
  <2> QED
    BY <1>1, <2>1, <2>2
<1>6. ASSUME NEW th \in Thread, Succeed(th)
      PROVE  Kept
  <2>1. Pending(a)' \subseteq Pending(a)
    BY <1>0, <1>6 DEF Succeed, End, Pending, From, TypeOK
  <2>2. attempts'[a] \in {0, attempts[a]} /\ attempts[a] \in Nat
    BY <1>0, <1>6 DEF Succeed, LoginSucceeded, TypeOK
  <2> QED
    BY <1>1, <2>1, <2>2
<1>7. ASSUME Tick
      PROVE  Kept
  <2>1. Pending(a)' = Pending(a)
    BY <1>7 DEF Tick, Pending, From
  <2>2. attempts'[a] \in {0, attempts[a]} /\ attempts[a] \in Nat
    BY <1>0, <1>7 DEF Tick, TypeOK
  <2> QED
    BY <1>1, <2>1, <2>2
<1>8. ASSUME UNCHANGED vars
      PROVE  Kept
  <2>1. Pending(a)' = Pending(a) /\ attempts' = attempts
    BY <1>8 DEF vars, Pending, From
  <2> QED
    BY <1>0, <1>1, <2>1 DEF TypeOK
<1> QED
  BY <1>3, <1>4, <1>5, <1>6, <1>7, <1>8 DEF Next, Run

(***************************************************************************)
(* No address gets further beyond the limit than sign-ins run together,    *)
(* and by the form alone not at all.                                       *)
(***************************************************************************)
THEOREM GuessesAreBounded == Spec => []GuessesBounded
<1>1. Init => GuessesBounded
  <2> SUFFICES ASSUME Init, NEW a \in Address
               PROVE  attempts[a] + Cardinality(Pending(a)) <= MaxAttempt - 1 + Together
    BY DEF GuessesBounded
  <2>1. Pending(a) = {} /\ attempts[a] = 0
    BY DEF Init, Pending
  <2> QED
    BY <2>1, FS_EmptySet, TogetherType, MaxAttemptAssumption
<1>2. Guarded /\ GuessesBounded /\ [Next]_vars => GuessesBounded'
  BY GuessesStep
<1> QED
  BY <1>1, <1>2, AlwaysGuarded, PTL DEF Spec

-----------------------------------------------------------------------------
(* Blocks *)

LEMMA BlockStep ==
  ASSUME TypeOK, [Next]_vars, NEW a \in Address, Blocked(a), ~Blocked(a)'
  PROVE  \/ age[a] + 1 = Wait
         \/ \E th \in Thread : at[th] = "succeed" /\ From(th) = a /\ answer'[th] = "in"
<1>1. attempts \in [Address -> Nat] /\ attempts'[a] # attempts[a] /\ attempts[a] \in Nat
  BY MaxAttemptAssumption DEF Blocked, TypeOK
<1>2. attempts'[a] # attempts[a] + 1
  BY <1>1, MaxAttemptAssumption DEF Blocked
<1>3. CASE Tick
  <2>1. attempts'[a] = IF Expired(a) THEN 0 ELSE attempts[a]
    BY <1>3 DEF Tick
  <2> QED
    BY <1>1, <2>1 DEF Expired
<1>4. ASSUME NEW th \in Thread, Succeed(th)
      PROVE  at[th] = "succeed" /\ From(th) = a /\ answer'[th] = "in"
  <2>1. at[th] = "succeed" /\ attempts' = [attempts EXCEPT ![From(th)] = 0]
    BY <1>4 DEF Succeed, LoginSucceeded
  <2>2. From(th) = a
    BY <1>1, <2>1
  <2>3. answer'[th] = "in"
    BY <1>4 DEF Succeed, End, TypeOK
  <2> QED
    BY <2>1, <2>2, <2>3
<1>5. ASSUME NEW th \in Thread, CountUnknown(th) \/ Fail(th) PROVE FALSE
  BY <1>1, <1>2, <1>5 DEF CountUnknown, Fail, LoginFailed
<1>6. ASSUME NEW th \in Thread,
             Begin(th) \/ Check(th) \/ NoConnection(th) \/ Find(th) \/ Verify(th)
      PROVE  FALSE
  BY <1>1, <1>6 DEF Begin, Check, NoConnection, Find, Verify
<1>7. CASE UNCHANGED vars
  BY <1>1, <1>7 DEF vars
<1> QED
  BY <1>3, <1>4, <1>5, <1>6, <1>7 DEF Next, Run

(***************************************************************************)
(* Nothing but time, or a sign-in that was checked before the block, ends  *)
(* a block: neither another failure nor a refusal does, nor a sign-in from *)
(* elsewhere.                                                              *)
(***************************************************************************)
THEOREM BlocksLast == Spec => BlockLasts
<1>1. TypeOK /\ [Next]_vars =>
        [\A a \in Address : Blocked(a) /\ ~Blocked(a)' =>
           \/ age[a] + 1 = Wait
           \/ \E th \in Thread : at[th] = "succeed" /\ From(th) = a /\ answer'[th] = "in"]_vars
  BY BlockStep
<1> QED
  BY <1>1, TypeCorrect, PTL DEF Spec, BlockLasts
=============================================================================
