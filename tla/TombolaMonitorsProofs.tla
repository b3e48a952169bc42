------------------------ MODULE TombolaMonitorsProofs ------------------------
(***************************************************************************)
(* Proofs about TombolaMonitors, for any number of threads and any pool.   *)
(*                                                                         *)
(* The monitors are ranked. A program is sound at a rank if a thread that  *)
(* holds monitors of at most this rank can run it: it enters only monitors *)
(* it holds or of a higher rank than all it holds, and it ends with what   *)
(* it held at the beginning. Soundness is proved construct by construct,   *)
(* and with it of every program but those of getPrize and getTicket, whose *)
(* calls go against the ranks.                                             *)
(*                                                                         *)
(* In a reachable state, the rest of each thread's program leads it from   *)
(* what it holds to nothing. A thread that waits therefore waits for a     *)
(* monitor of a higher rank than all it holds, and threads that wait for   *)
(* each other in a circle would have ranks that grow around it.            *)
(***************************************************************************)
EXTENDS TombolaMonitors, SequenceTheorems, FiniteSetTheorems, TLAPS

Rank ==
  [m \in Monitor |-> IF m = "Index" THEN 1 ELSE IF m = "Status" THEN 2
                     ELSE IF m = "Tombola" THEN 3 ELSE IF m = "User" THEN 4 ELSE 5]

Step == [do : {"enter", "leave", "connect", "close"}, on : Monitor \cup {"pool"}, recover : Nat]

(***************************************************************************)
(* What a thread holds: how often it has entered each monitor, and how     *)
(* many connections it has.                                                *)
(***************************************************************************)
Hold == [depth : [Monitor -> Nat], open : Nat]

Free == [depth |-> [m \in Monitor |-> 0], open |-> 0]

Entered(h, m) == [depth |-> [h.depth EXCEPT ![m] = @ + 1], open |-> h.open]
Left(h, m) == [depth |-> [h.depth EXCEPT ![m] = @ - 1], open |-> h.open]
Connected(h) == [depth |-> h.depth, open |-> h.open + 1]
Closed(h) == [depth |-> h.depth, open |-> h.open - 1]

\* A monitor is entered again, or has a higher rank than all that are held.
MayEnter(h, m) ==
  h.depth[m] > 0 \/ \A n \in Monitor : h.depth[n] > 0 => Rank[n] < Rank[m]

(***************************************************************************)
(* f lists what is held before each step of program p and after the last:  *)
(* step i may be taken, and a connect that recovers finds again, where it  *)
(* goes on, what was held.                                                 *)
(***************************************************************************)
StepFits(p, f, i) ==
  \/ /\ p[i].do = "enter" /\ p[i].on \in Monitor
     /\ MayEnter(f[i], p[i].on)
     /\ f[i + 1] = Entered(f[i], p[i].on)
  \/ /\ p[i].do = "leave" /\ p[i].on \in Monitor
     /\ f[i].depth[p[i].on] > 0
     /\ f[i + 1] = Left(f[i], p[i].on)
  \/ /\ p[i].do = "connect"
     /\ f[i + 1] = Connected(f[i])
     /\ i + p[i].recover <= Len(p) + 1
     /\ f[i + p[i].recover] = f[i]
  \/ /\ p[i].do = "close"
     /\ f[i].open > 0
     /\ f[i + 1] = Closed(f[i])

IsPlan(p, f) ==
  /\ f \in [1 .. Len(p) + 1 -> Hold]
  /\ \A i \in 1 .. Len(p) : StepFits(p, f, i)

Leads(p, from, to) ==
  \E f : IsPlan(p, f) /\ f[1] = from /\ f[Len(p) + 1] = to

Below(h, rank) == \A m \in Monitor : h.depth[m] > 0 => Rank[m] <= rank

Sound(p, rank) ==
  /\ p \in Seq(Step)
  /\ \A h \in Hold : Below(h, rank) => Leads(p, h, h)

-----------------------------------------------------------------------------
(* Constructs *)

LEMMA RankType == Rank \in [Monitor -> 1 .. 5]
BY DEF Rank, Monitor

LEMMA RankDistinct == \A m, n \in Monitor : Rank[m] = Rank[n] => m = n
BY DEF Rank, Monitor

LEMMA HoldClosed ==
  ASSUME NEW h \in Hold
  PROVE  /\ \A m \in Monitor : Entered(h, m) \in Hold
         /\ \A m \in Monitor : h.depth[m] > 0 => Left(h, m) \in Hold
         /\ Connected(h) \in Hold
         /\ h.open > 0 => Closed(h) \in Hold
BY DEF Hold, Entered, Left, Connected, Closed

LEMMA HoldEqual ==
  ASSUME NEW h \in Hold, NEW k \in Hold,
         \A m \in Monitor : h.depth[m] = k.depth[m],
         h.open = k.open
  PROVE  h = k
<1>1. h.depth = k.depth
  BY DEF Hold
<1> QED BY <1>1 DEF Hold

LEMMA HoldUndone ==
  ASSUME NEW h \in Hold
  PROVE  /\ \A m \in Monitor : Entered(h, m).depth[m] > 0 /\ Left(Entered(h, m), m) = h
         /\ Connected(h).open > 0 /\ Closed(Connected(h)) = h
<1>1. ASSUME NEW m \in Monitor
      PROVE  Entered(h, m).depth[m] > 0 /\ Left(Entered(h, m), m) = h
  <2> DEFINE e == Entered(h, m)
  <2>1. e \in Hold
    BY HoldClosed
  <2>2. e.open = h.open /\ e.depth = [h.depth EXCEPT ![m] = @ + 1]
    BY DEF Entered
  <2>3. e.depth[m] = h.depth[m] + 1 /\ h.depth[m] \in Nat
        /\ \A n \in Monitor : n # m => e.depth[n] = h.depth[n]
    BY <2>2 DEF Hold
  <2>4. e.depth[m] > 0
    BY <2>3
  <2> HIDE DEF e
  <2>5. Left(e, m) \in Hold
    BY <2>1, <2>4, HoldClosed
  <2>6. Left(e, m).open = h.open /\ Left(e, m).depth = [e.depth EXCEPT ![m] = @ - 1]
    BY <2>2 DEF Left
  <2>7. \A n \in Monitor : Left(e, m).depth[n] = h.depth[n]
    BY <2>1, <2>3, <2>6 DEF Hold
  <2>8. Left(e, m) = h
    BY <2>5, <2>6, <2>7, HoldEqual
  <2> QED BY <2>4, <2>8 DEF e
<1>2. Connected(h).open > 0 /\ Closed(Connected(h)) = h
  BY DEF Hold, Connected, Closed
<1> QED BY <1>1, <1>2

\* Nothing to do leaves all as it is.
LEMMA LeadsEmpty ==
  ASSUME NEW h \in Hold
  PROVE  Leads(<<>>, h, h)
<1> DEFINE f == [i \in 1 .. 1 |-> h]
<1>1. Len(<<>>) = 0
  OBVIOUS
<1>2. IsPlan(<<>>, f)
  BY <1>1 DEF IsPlan
<1>3. f[1] = h /\ f[Len(<<>>) + 1] = h
  BY <1>1
<1> QED BY <1>2, <1>3 DEF Leads

LEMMA LeadsNowhere ==
  ASSUME NEW from, NEW to, Leads(<<>>, from, to)
  PROVE  from = to
<1>1. Len(<<>>) = 0
  OBVIOUS
<1> QED BY <1>1 DEF Leads

\* One program after the other.
LEMMA LeadsConcat ==
  ASSUME NEW p \in Seq(Step), NEW q \in Seq(Step), NEW a, NEW b, NEW c,
         Leads(p, a, b), Leads(q, b, c)
  PROVE  Leads(p \o q, a, c)
<1>1. PICK f : IsPlan(p, f) /\ f[1] = a /\ f[Len(p) + 1] = b
  BY DEF Leads
<1>2. PICK g : IsPlan(q, g) /\ g[1] = b /\ g[Len(q) + 1] = c
  BY DEF Leads
<1> DEFINE n == Len(p)
           k == Len(q)
           h == [i \in 1 .. n + k + 1 |-> IF i <= n + 1 THEN f[i] ELSE g[i - n]]
<1>3. n \in Nat /\ k \in Nat
  BY LenProperties
<1>4. /\ Len(p \o q) = n + k
      /\ \A i \in 1 .. n + k : (p \o q)[i] = IF i <= n THEN p[i] ELSE q[i - n]
  BY ConcatProperties
<1>5. /\ \A i \in 1 .. n + 1 : h[i] = f[i]
      /\ \A i \in 1 .. k + 1 : h[n + i] = g[i]
  <2>1. \A i \in 1 .. n + 1 : h[i] = f[i]
    BY <1>3
  <2>2. ASSUME NEW i \in 1 .. k + 1 PROVE h[n + i] = g[i]
    <3>1. CASE i = 1
      BY <1>1, <1>2, <1>3, <3>1
    <3>2. CASE i # 1
      BY <1>3, <3>2
    <3> QED BY <3>1, <3>2
  <2> QED BY <2>1, <2>2
<1>6. h \in [1 .. n + k + 1 -> Hold]
  <2>1. f \in [1 .. n + 1 -> Hold] /\ g \in [1 .. k + 1 -> Hold]
    BY <1>1, <1>2 DEF IsPlan
  <2>2. ASSUME NEW i \in 1 .. n + k + 1
        PROVE  (IF i <= n + 1 THEN f[i] ELSE g[i - n]) \in Hold
    <3>1. CASE i <= n + 1
      <4>1. i \in 1 .. n + 1
        BY <1>3, <3>1
      <4> QED BY <2>1, <3>1, <4>1
    <3>2. CASE ~(i <= n + 1)
      <4>1. i - n \in 1 .. k + 1
        BY <1>3, <3>2
      <4> QED BY <2>1, <3>2, <4>1
    <3> QED BY <3>1, <3>2
  <2> QED BY <2>2
<1> HIDE DEF h
<1>7. ASSUME NEW i \in 1 .. n + k
      PROVE  StepFits(p \o q, h, i)
  <2>1. CASE i <= n
    <3>1. i \in 1 .. n /\ StepFits(p, f, i)
      BY <1>1, <1>3, <2>1 DEF IsPlan
    <3>2. (p \o q)[i] = p[i] /\ h[i] = f[i] /\ h[i + 1] = f[i + 1]
      BY <1>3, <1>4, <1>5, <2>1
    <3>3. p[i] \in Step
      BY <3>1, ElementOfSeq
    <3>4. ASSUME i + p[i].recover <= n + 1
          PROVE  h[i + p[i].recover] = f[i + p[i].recover] /\ i + p[i].recover <= Len(p \o q) + 1
      BY <1>3, <1>4, <1>5, <3>3, <3>4 DEF Step
    <3> QED BY <3>1, <3>2, <3>4 DEF StepFits
  <2>2. CASE i > n
    <3> DEFINE j == i - n
    <3>1. j \in 1 .. k /\ StepFits(q, g, j) /\ i = n + j
      BY <1>2, <1>3, <2>2 DEF IsPlan
    <3>2. (p \o q)[i] = q[j] /\ h[i] = g[j] /\ h[i + 1] = g[j + 1]
      <4>1. h[n + j] = g[j] /\ h[n + (j + 1)] = g[j + 1]
        BY <1>3, <1>5, <3>1
      <4>2. n + (j + 1) = i + 1
        BY <1>3, <3>1
      <4>3. (p \o q)[i] = q[j]
        BY <1>3, <1>4, <2>2
      <4> QED BY <3>1, <4>1, <4>2, <4>3
    <3>3. q[j] \in Step
      BY <3>1, ElementOfSeq
    <3> HIDE DEF j
    <3>4. ASSUME j + q[j].recover <= k + 1
          PROVE  h[i + q[j].recover] = g[j + q[j].recover] /\ i + q[j].recover <= Len(p \o q) + 1
      <4>1. j + q[j].recover \in 1 .. k + 1
        BY <1>3, <3>1, <3>3, <3>4 DEF Step
      <4>2. h[n + (j + q[j].recover)] = g[j + q[j].recover]
        BY <1>5, <4>1
      <4>3. n + (j + q[j].recover) = i + q[j].recover
        BY <1>3, <3>1, <3>3 DEF Step
      <4> QED BY <1>3, <1>4, <4>1, <4>2, <4>3
    <3> QED BY <3>1, <3>2, <3>4 DEF StepFits
  <2> QED BY <1>3, <2>1, <2>2
<1>8. IsPlan(p \o q, h)
  BY <1>4, <1>6, <1>7 DEF IsPlan
<1>9. h[1] = a /\ h[Len(p \o q) + 1] = c
  <2>1. h[1] = f[1] /\ h[n + (k + 1)] = g[k + 1]
    BY <1>3, <1>5
  <2>2. n + (k + 1) = Len(p \o q) + 1
    BY <1>3, <1>4
  <2> QED BY <1>1, <1>2, <2>1, <2>2
<1> QED BY <1>8, <1>9 DEF Leads

\* A step that is not a connect and recovers nothing.
LEMMA LeadsStep ==
  ASSUME NEW s \in Step, NEW a \in Hold, NEW b \in Hold,
         \/ s.do = "enter" /\ s.on \in Monitor /\ MayEnter(a, s.on) /\ b = Entered(a, s.on)
         \/ s.do = "leave" /\ s.on \in Monitor /\ a.depth[s.on] > 0 /\ b = Left(a, s.on)
         \/ s.do = "connect" /\ s.recover = 0 /\ b = Connected(a)
         \/ s.do = "close" /\ a.open > 0 /\ b = Closed(a)
  PROVE  Leads(<<s>>, a, b)
<1> DEFINE f == [i \in 1 .. 2 |-> IF i = 1 THEN a ELSE b]
<1>1. Len(<<s>>) = 1 /\ <<s>>[1] = s
  OBVIOUS
<1>2. f \in [1 .. 2 -> Hold] /\ f[1] = a /\ f[2] = b
  OBVIOUS
<1> HIDE DEF f
<1>3. StepFits(<<s>>, f, 1)
  BY <1>1, <1>2 DEF StepFits
<1>4. IsPlan(<<s>>, f)
  BY <1>1, <1>2, <1>3 DEF IsPlan
<1> QED BY <1>1, <1>2, <1>4 DEF Leads

LEMMA Steps ==
  /\ \A m \in Monitor : Enter(m) \in Step /\ Leave(m) \in Step
  /\ \A n \in Nat : Connect(n) \in Step
  /\ Close \in Step
<1>2. \A m \in Monitor : Enter(m) \in Step
  BY DEF Step, Enter
<1>3. \A m \in Monitor : Leave(m) \in Step
  BY DEF Step, Leave
<1>4. \A n \in Nat : Connect(n) \in Step
  BY DEF Step, Connect
<1>5. Close \in Step
  BY DEF Step, Close
<1> QED BY <1>2, <1>3, <1>4, <1>5

LEMMA SoundEmpty ==
  ASSUME NEW rank
  PROVE  Sound(<<>>, rank)
BY LeadsEmpty, EmptySeq DEF Sound

LEMMA SoundConcat ==
  ASSUME NEW rank, NEW p, NEW q, Sound(p, rank), Sound(q, rank)
  PROVE  Sound(p \o q, rank)
<1>1. p \in Seq(Step) /\ q \in Seq(Step)
  BY DEF Sound
<1>2. p \o q \in Seq(Step)
  BY <1>1, ConcatProperties
<1>3. ASSUME NEW h \in Hold, Below(h, rank)
      PROVE  Leads(p \o q, h, h)
  <2>1. Leads(p, h, h) /\ Leads(q, h, h)
    BY <1>3 DEF Sound
  <2> QED BY <1>1, <2>1, LeadsConcat
<1> QED BY <1>2, <1>3 DEF Sound

LEMMA SoundBelow ==
  ASSUME NEW rank \in Nat, NEW lower \in Nat, lower <= rank, NEW p, Sound(p, rank)
  PROVE  Sound(p, lower)
<1>1. ASSUME NEW h \in Hold, Below(h, lower)
      PROVE  Below(h, rank)
  BY <1>1, RankType DEF Below
<1> QED BY <1>1 DEF Sound

\* A body in a monitor: the body may rely on the rank of the monitor only.
LEMMA SoundIn ==
  ASSUME NEW m \in Monitor, NEW rank \in Nat, rank <= Rank[m], NEW body, Sound(body, Rank[m])
  PROVE  Sound(In(m, body), rank)
<1>1. body \in Seq(Step) /\ <<Enter(m)>> \in Seq(Step) /\ <<Leave(m)>> \in Seq(Step)
  BY Steps DEF Sound
<1>2. <<Enter(m)>> \o body \in Seq(Step)
  BY <1>1, ConcatProperties
<1>3. In(m, body) \in Seq(Step)
  BY <1>1, <1>2, ConcatProperties DEF In
<1>4. ASSUME NEW h \in Hold, Below(h, rank)
      PROVE  Leads(In(m, body), h, h)
  <2> DEFINE e == Entered(h, m)
  <2>1. e \in Hold /\ e.depth[m] > 0 /\ Left(e, m) = h
    BY HoldClosed, HoldUndone
  <2>2. MayEnter(h, m)
    <3>1. ASSUME NEW n \in Monitor, h.depth[n] > 0, ~(h.depth[m] > 0)
          PROVE  Rank[n] < Rank[m]
      <4>1. Rank[n] <= rank /\ n # m
        BY <1>4, <3>1 DEF Below
      <4>2. Rank[n] # Rank[m]
        BY <4>1, RankDistinct
      <4> QED BY <4>1, <4>2, RankType
    <3> QED BY <3>1 DEF MayEnter
  <2>3. Below(e, Rank[m])
    <3>1. ASSUME NEW n \in Monitor, e.depth[n] > 0
          PROVE  Rank[n] <= Rank[m]
      <4>1. CASE n = m
        BY <4>1, RankType
      <4>2. CASE n # m
        <5>1. e.depth[n] = h.depth[n]
          BY <4>2 DEF Entered, Hold
        <5>2. Rank[n] <= rank
          BY <1>4, <3>1, <5>1 DEF Below
        <5> QED BY <5>2, RankType
      <4> QED BY <4>1, <4>2
    <3> QED BY <3>1 DEF Below
  <2>4. Leads(<<Enter(m)>>, h, e)
    BY <2>1, <2>2, Steps, LeadsStep DEF Enter
  <2>5. Leads(body, e, e)
    BY <2>1, <2>3 DEF Sound
  <2>6. Leads(<<Leave(m)>>, e, h)
    BY <2>1, Steps, LeadsStep DEF Leave
  <2> HIDE DEF e
  <2>7. Leads(<<Enter(m)>> \o body, h, e)
    BY <1>1, <2>4, <2>5, LeadsConcat
  <2> QED BY <1>1, <1>2, <2>6, <2>7, LeadsConcat DEF In
<1> QED BY <1>3, <1>4 DEF Sound

LEMMA SoundCall ==
  ASSUME NEW m \in Monitor, NEW rank \in Nat, rank <= Rank[m]
  PROVE  Sound(Call(m), rank)
BY SoundEmpty, SoundIn DEF Call

LEMMA ConnectedBelow ==
  ASSUME NEW rank, NEW h \in Hold, Below(h, rank)
  PROVE  Below(Connected(h), rank)
BY DEF Below, Connected

LEMMA SoundTx ==
  ASSUME NEW rank, NEW body, Sound(body, rank)
  PROVE  Sound(Tx(body), rank)
<1>1. body \in Seq(Step) /\ <<Connect(0)>> \in Seq(Step) /\ <<Close>> \in Seq(Step)
  BY Steps DEF Sound
<1>2. <<Connect(0)>> \o body \in Seq(Step)
  BY <1>1, ConcatProperties
<1>3. Tx(body) \in Seq(Step)
  BY <1>1, <1>2, ConcatProperties DEF Tx
<1>4. ASSUME NEW h \in Hold, Below(h, rank)
      PROVE  Leads(Tx(body), h, h)
  <2> DEFINE c == Connected(h)
  <2>1. c \in Hold /\ c.open > 0 /\ Closed(c) = h
    BY HoldClosed, HoldUndone
  <2>2. Leads(<<Connect(0)>>, h, c)
    BY <2>1, Steps, LeadsStep DEF Connect
  <2>3. Leads(body, c, c)
    BY <1>4, <2>1, ConnectedBelow DEF Sound
  <2>4. Leads(<<Close>>, c, h)
    BY <2>1, Steps, LeadsStep DEF Close
  <2> HIDE DEF c
  <2>5. Leads(<<Connect(0)>> \o body, h, c)
    BY <1>1, <2>2, <2>3, LeadsConcat
  <2> QED BY <1>1, <1>2, <2>4, <2>5, LeadsConcat DEF Tx
<1> QED BY <1>3, <1>4 DEF Sound

\* Without a connection the thread goes on behind the close.
LEMMA SoundReflective ==
  ASSUME NEW rank, NEW body, Sound(body, rank)
  PROVE  Sound(Reflective(body), rank)
<1> DEFINE n == Len(body)
           p == Reflective(body)
<1>1. body \in Seq(Step) /\ n \in Nat
  BY LenProperties DEF Sound
<1>2. Connect(n + 2) \in Step /\ Close \in Step
  BY <1>1, Steps
<1>3. /\ p \in Seq(Step) /\ Len(p) = n + 2
      /\ p[1] = Connect(n + 2) /\ p[n + 2] = Close
      /\ \A i \in 1 .. n : p[i + 1] = body[i]
  <2>1. <<Connect(n + 2)>> \in Seq(Step) /\ <<Close>> \in Seq(Step)
    BY <1>2
  <2> DEFINE q == <<Connect(n + 2)>> \o body
  <2>2. /\ q \in Seq(Step) /\ Len(q) = n + 1
        /\ q[1] = Connect(n + 2) /\ \A i \in 1 .. n : q[i + 1] = body[i]
    <3>1. /\ q \in Seq(Step) /\ Len(q) = 1 + n
          /\ \A i \in 1 .. 1 + n : q[i] = IF i <= 1 THEN <<Connect(n + 2)>>[i] ELSE body[i - 1]
      BY <1>1, <2>1, ConcatProperties
    <3> QED BY <1>1, <3>1
  <2>3. p = q \o <<Close>>
    BY DEF Reflective
  <2> HIDE DEF q, p
  <2>4. /\ p \in Seq(Step) /\ Len(p) = n + 2
        /\ \A i \in 1 .. n + 2 : p[i] = IF i <= n + 1 THEN q[i] ELSE <<Close>>[i - (n + 1)]
    <3>1. /\ p \in Seq(Step) /\ Len(p) = Len(q) + 1
          /\ \A i \in 1 .. Len(q) + 1 : p[i] = IF i <= Len(q) THEN q[i] ELSE <<Close>>[i - Len(q)]
      BY <2>1, <2>2, <2>3, ConcatProperties
    <3> QED BY <1>1, <2>2, <3>1
  <2>5. p[1] = q[1] /\ p[n + 2] = Close /\ \A i \in 1 .. n : p[i + 1] = q[i + 1]
    BY <1>1, <2>4
  <2> QED BY <2>2, <2>4, <2>5
<1> HIDE DEF p
<1>4. ASSUME NEW h \in Hold, Below(h, rank)
      PROVE  Leads(p, h, h)
  <2> DEFINE c == Connected(h)
  <2>1. c \in Hold /\ c.open > 0 /\ Closed(c) = h
    BY HoldClosed, HoldUndone
  <2>2. PICK g : IsPlan(body, g) /\ g[1] = c /\ g[n + 1] = c
    BY <1>4, <2>1, ConnectedBelow DEF Sound, Leads
  <2> HIDE DEF c
  <2> DEFINE f == [i \in 1 .. n + 3 |-> IF i = 1 \/ i = n + 3 THEN h ELSE g[i - 1]]
  <2>3. /\ f[1] = h /\ f[n + 3] = h
        /\ \A i \in 1 .. n + 1 : f[i + 1] = g[i]
    <3>1. ASSUME NEW i \in 1 .. n + 1
          PROVE  f[i + 1] = g[i]
      <4>1. i + 1 \in 1 .. n + 3 /\ i + 1 # 1 /\ i + 1 # n + 3 /\ (i + 1) - 1 = i
        BY <1>1
      <4> QED BY <4>1
    <3>2. 1 \in 1 .. n + 3 /\ n + 3 \in 1 .. n + 3
      BY <1>1
    <3> QED BY <3>1, <3>2
  <2>4. f \in [1 .. n + 3 -> Hold]
    <3>1. g \in [1 .. n + 1 -> Hold]
      BY <2>2 DEF IsPlan
    <3>2. ASSUME NEW i \in 1 .. n + 3, i # 1, i # n + 3
          PROVE  g[i - 1] \in Hold
      <4>1. i - 1 \in 1 .. n + 1
        BY <1>1, <3>2
      <4> QED BY <3>1, <4>1
    <3> QED BY <3>2
  <2> HIDE DEF f
  <2>5. StepFits(p, f, 1)
    <3>1. f[1 + 1] = c
      BY <1>1, <2>2, <2>3
    <3>2. p[1].do = "connect" /\ p[1].recover = n + 2
      BY <1>3 DEF Connect
    <3>3. 1 + (n + 2) = n + 3 /\ n + 3 <= Len(p) + 1
      BY <1>1, <1>3
    <3>4. f[1 + p[1].recover] = f[1] /\ 1 + p[1].recover <= Len(p) + 1
      BY <2>3, <3>2, <3>3
    <3> QED BY <2>3, <3>1, <3>2, <3>4 DEF StepFits, c
  <2>6. StepFits(p, f, n + 2)
    <3>1. f[n + 2] = c
      <4>1. f[(n + 1) + 1] = g[n + 1]
        BY <1>1, <2>3
      <4>2. (n + 1) + 1 = n + 2
        BY <1>1
      <4> QED BY <2>2, <4>1, <4>2
    <3>2. f[(n + 2) + 1] = h
      <4>1. (n + 2) + 1 = n + 3
        BY <1>1
      <4> QED BY <2>3, <4>1
    <3>3. p[n + 2].do = "close"
      BY <1>3 DEF Close
    <3> QED BY <2>1, <3>1, <3>2, <3>3 DEF StepFits
  <2>7. ASSUME NEW i \in 1 .. n
        PROVE  StepFits(p, f, i + 1)
    <3>1. StepFits(body, g, i)
      BY <2>2 DEF IsPlan
    <3>2. p[i + 1] = body[i] /\ f[i + 1] = g[i] /\ f[(i + 1) + 1] = g[i + 1]
      <4>1. i \in 1 .. n + 1 /\ i + 1 \in 1 .. n + 1
        BY <1>1
      <4> QED BY <1>3, <2>3, <4>1
    <3>3. body[i] \in Step
      BY <1>1, ElementOfSeq
    <3>4. ASSUME i + body[i].recover <= n + 1
          PROVE  /\ f[(i + 1) + body[i].recover] = g[i + body[i].recover]
                 /\ (i + 1) + body[i].recover <= Len(p) + 1
      <4>1. i + body[i].recover \in 1 .. n + 1
        BY <1>1, <3>3, <3>4 DEF Step
      <4>2. f[(i + body[i].recover) + 1] = g[i + body[i].recover]
        BY <2>3, <4>1
      <4>3. (i + body[i].recover) + 1 = (i + 1) + body[i].recover
        <5>1. body[i].recover \in Nat
          BY <3>3 DEF Step
        <5>2. i \in Nat
          BY <1>1
        <5> QED BY <5>1, <5>2
      <4>4. f[(i + 1) + body[i].recover] = g[i + body[i].recover]
        BY <4>2, <4>3, Zenon
      <4>5. (i + 1) + body[i].recover <= Len(p) + 1
        <5>1. Len(p) = n + 2 /\ body[i].recover \in Nat
          BY <1>3, <3>3 DEF Step
        <5> HIDE DEF n
        <5> QED BY <1>1, <4>1, <5>1
      <4> QED BY <4>4, <4>5
    <3> QED BY <3>1, <3>2, <3>4 DEF StepFits
  <2>8. IsPlan(p, f)
    <3>1. ASSUME NEW i \in 1 .. n + 2
          PROVE  StepFits(p, f, i)
      <4>1. CASE i = 1
        BY <2>5, <4>1
      <4>2. CASE i = n + 2
        BY <2>6, <4>2
      <4>3. CASE i # 1 /\ i # n + 2
        <5>1. i - 1 \in 1 .. n /\ (i - 1) + 1 = i
          BY <1>1, <4>3
        <5>2. StepFits(p, f, (i - 1) + 1)
          BY <2>7, <5>1
        <5> QED BY <5>1, <5>2
      <4> QED BY <4>1, <4>2, <4>3
    <3>2. Len(p) + 1 = n + 3
      BY <1>1, <1>3
    <3> QED BY <1>3, <2>4, <3>1, <3>2 DEF IsPlan
  <2>9. f[Len(p) + 1] = h
    BY <1>1, <1>3, <2>3
  <2> QED BY <2>3, <2>8, <2>9 DEF Leads
<1> QED BY <1>3, <1>4 DEF Sound, p

-----------------------------------------------------------------------------
(* Programs *)

LEMMA Ranks ==
  /\ Rank["Index"] = 1 /\ Rank["Status"] = 2 /\ Rank["Tombola"] = 3
  /\ Rank["User"] = 4 /\ Rank["Login"] = 5
  /\ {"Index", "Status", "Tombola", "User", "Login"} \subseteq Monitor
BY DEF Rank, Monitor

LEMMA SoundCalls ==
  /\ \A rank \in {1, 2} : Sound(Call("Status"), rank)
  /\ \A rank \in {1, 2, 3} : Sound(Call("Tombola"), rank)
  /\ \A rank \in {1, 2, 3} : Sound(Call("User"), rank)
  /\ \A rank \in {1, 2, 3} : Sound(Call("Login"), rank)
  /\ Sound(Call("Index"), 1)
<1>1. ASSUME NEW m \in Monitor, NEW rank \in {1, 2, 3}, rank <= Rank[m]
      PROVE  Sound(Call(m), rank)
  BY <1>1, SoundCall
<1> QED BY <1>1, Ranks

LEMMA SoundService ==
  ASSUME NEW body, Sound(body, 3)
  PROVE  Sound(Service(body), 1)
<1>1. Sound(In("Tombola", body), 1)
  BY Ranks, SoundIn
<1> QED BY <1>1, SoundTx DEF Service

\* Below, rank 1: a method may be called from inside the monitor of
\* IndexController.
LEMMA SoundMethods ==
  /\ Sound(<<>>, 1) /\ Sound(Tx(<<>>), 1)
  /\ Sound(Username, 1) /\ Sound(ClientIP, 1) /\ Sound(SessionId, 1)
  /\ Sound(GetPrizes, 1) /\ Sound(TicketsPage, 1) /\ Sound(TicketsPrizes, 1)
  /\ Sound(PrizeInfoAsMap, 1) /\ Sound(InfoAsLong, 1) /\ Sound(CountTickets, 1)
  /\ Sound(PatchPrizeTicket, 1) /\ Sound(PatchRefused, 1) /\ Sound(PatchPrizeName, 1)
  /\ Sound(DeleteTicket, 1) /\ Sound(PutTickets, 1)
<1>1. Sound(<<>>, 1) /\ Sound(<<>>, 3)
  BY SoundEmpty
<1>2. Sound(Tx(<<>>), 1)
  BY <1>1, SoundTx
<1>3. Sound(Username, 1) /\ Sound(Username, 3) /\ Sound(ClientIP, 1) /\ Sound(SessionId, 1)
  BY SoundCalls DEF Username, ClientIP, SessionId
<1>4. /\ Sound(TicketsPage, 1) /\ Sound(TicketsPrizes, 1) /\ Sound(PrizeInfoAsMap, 1)
      /\ Sound(PatchRefused, 1) /\ Sound(PutTickets, 1)
  BY <1>1, SoundService DEF TicketsPage, TicketsPrizes, PrizeInfoAsMap, PatchRefused, PutTickets
<1>5. Sound(InfoAsLong, 1) /\ Sound(CountTickets, 1)
  BY <1>2, SoundCalls DEF InfoAsLong, CountTickets
<1>6. Sound(Call("Tombola"), 3)
  BY SoundCalls
<1>7. Sound(GetPrizes, 1)
  BY <1>6, SoundService DEF GetPrizes
<1>8. Sound(PatchPrizeTicket, 1)
  <2>1. Sound(Call("Tombola") \o Username, 3)
    BY <1>3, <1>6, SoundConcat
  <2> QED BY <2>1, SoundService DEF PatchPrizeTicket
<1>9. Sound(PatchPrizeName, 1)
  <2>1. Sound(Username \o Call("Tombola"), 3)
    BY <1>3, <1>6, SoundConcat
  <2> QED BY <2>1, SoundService DEF PatchPrizeName
<1>10. Sound(DeleteTicket, 1)
  BY <1>3, SoundService DEF DeleteTicket
<1> QED BY <1>1, <1>2, <1>3, <1>4, <1>5, <1>7, <1>8, <1>9, <1>10

LEMMA SoundLoads ==
  Sound(LoadKnown, 1) /\ Sound(LoadUnknown, 1) /\ Sound(Listener, 1) /\ Sound(Failed, 1)
<1>1. Sound(ClientIP, 1) /\ Sound(Call("Login"), 1)
  BY SoundMethods, SoundCalls
<1>2. Sound(ClientIP \o Call("Login"), 1)
  BY <1>1, SoundConcat
<1>3. Sound(ClientIP \o Call("Login") \o Call("Login"), 1)
  BY <1>1, <1>2, SoundConcat
<1> QED BY <1>2, <1>3, SoundTx DEF LoadKnown, LoadUnknown, Listener, Failed

LEMMA SoundApiBeans == Sound(ApiBeans, 1)
<1>1. ASSUME NEW body, Sound(body, 2)
      PROVE  Sound(In("Status", body), 1)
  BY <1>1, Ranks, SoundIn
<1>2. Sound(<<>>, 2) /\ Sound(Call("User"), 2) /\ Sound(Call("Login"), 2) /\ Sound(Call("Tombola"), 2)
  BY SoundEmpty, SoundCalls
<1>3. Sound(In("Status", Call("User")), 1) /\ Sound(In("Status", Call("Login")), 1)
  BY <1>1, <1>2
<1>4. Sound(In("Status", Reflective(<<>>)), 1) /\ Sound(In("Status", Reflective(Call("Tombola"))), 1)
  BY <1>1, <1>2, SoundReflective
<1>5. Sound(In("Status", CountTickets), 1)
  BY <1>1, <1>2, SoundTx DEF CountTickets
<1>6. Sound(In("Status", Call("User")) \o In("Status", Call("Login")), 1)
  BY <1>3, SoundConcat
<1>7. Sound(In("Status", Call("User")) \o In("Status", Call("Login"))
            \o In("Status", Reflective(<<>>)), 1)
  BY <1>4, <1>6, SoundConcat
<1>8. Sound(In("Status", Call("User")) \o In("Status", Call("Login"))
            \o In("Status", Reflective(<<>>)) \o In("Status", CountTickets), 1)
  BY <1>5, <1>7, SoundConcat
<1> QED BY <1>4, <1>8, SoundConcat DEF ApiBeans

\* The monitor of IndexController itself.
LEMMA SoundInIndex ==
  ASSUME NEW body, Sound(body, 1)
  PROVE  Sound(In("Index", body), 1)
BY Ranks, SoundIn

LEMMA SoundAddModel == Sound(AddModel, 1)
<1>1. Sound(Call("Status"), 1) /\ Sound(Call("User"), 1) /\ Sound(Username, 1)
  BY SoundCalls, SoundMethods
<1>2. Sound(Call("Status") \o Call("User"), 1)
  BY <1>1, SoundConcat
<1>3. Sound(Call("Status") \o Call("User") \o Username, 1)
  BY <1>1, <1>2, SoundConcat
<1>4. Sound(Call("Status") \o Call("User") \o Username \o Call("User"), 1)
  BY <1>1, <1>3, SoundConcat
<1> QED BY <1>4, SoundInIndex DEF AddModel

LEMMA SoundIndex == Sound(Index, 1)
<1>1. Sound(GetPrizes \o AddModel, 1)
  BY SoundMethods, SoundAddModel, SoundConcat
<1>2. Sound(GetPrizes \o AddModel \o TicketsPage, 1)
  BY <1>1, SoundMethods, SoundConcat
<1>3. Sound(GetPrizes \o AddModel \o TicketsPage \o Call("Status"), 1)
  BY <1>2, SoundCalls, SoundConcat
<1>4. Sound(GetPrizes \o AddModel \o TicketsPage \o Call("Status") \o InfoAsLong, 1)
  BY <1>3, SoundMethods, SoundConcat
<1> QED BY <1>4, SoundMethods, SoundConcat DEF Index

LEMMA SoundManager ==
  ASSUME NEW rereads, Sound(rereads, 1)
  PROVE  Sound(Manager(rereads), 1)
<1> DEFINE p1 == GetPrizes \o AddModel
           p2 == p1 \o TicketsPage
           p3 == p2 \o rereads
           p4 == p3 \o TicketsPage
           p5 == p4 \o InfoAsLong
           p6 == p5 \o PrizeInfoAsMap
           p7 == p6 \o CountTickets
           p8 == p7 \o TicketsPrizes
<1>1. Sound(p1, 1)
  BY SoundMethods, SoundAddModel, SoundConcat
<1>2. Sound(p2, 1)
  BY <1>1, SoundMethods, SoundConcat
<1>3. Sound(p3, 1)
  BY <1>2, SoundConcat
<1>4. Sound(p4, 1)
  BY <1>3, SoundMethods, SoundConcat
<1>5. Sound(p5, 1)
  BY <1>4, SoundMethods, SoundConcat
<1>6. Sound(p6, 1)
  BY <1>5, SoundMethods, SoundConcat
<1>7. Sound(p7, 1)
  BY <1>6, SoundMethods, SoundConcat
<1>8. Sound(p8, 1)
  BY <1>7, SoundMethods, SoundConcat
<1> QED BY <1>8, SoundInIndex DEF Manager

LEMMA SoundSetManager ==
  ASSUME NEW patch, Sound(patch, 1)
  PROVE  Sound(SetManager(patch), 1)
<1>1. Sound(patch \o Username, 1)
  BY SoundMethods, SoundConcat
<1>2. Sound(patch \o Username \o TicketsPage, 1)
  BY <1>1, SoundMethods, SoundConcat
<1>3. Sound(patch \o Username \o TicketsPage \o InfoAsLong, 1)
  BY <1>2, SoundMethods, SoundConcat
<1>4. Sound(patch \o Username \o TicketsPage \o InfoAsLong \o PrizeInfoAsMap, 1)
  BY <1>3, SoundMethods, SoundConcat
<1> QED BY <1>4, SoundInIndex DEF SetManager

LEMMA SoundPages ==
  ASSUME NEW rereads, Sound(rereads, 1)
  PROVE  Sound(LogPage(rereads), 1) /\ Sound(AuditPage(rereads), 1)
<1>1. Sound(CountTickets \o AddModel, 1) /\ Sound(AddModel \o PrizeInfoAsMap, 1)
  BY SoundMethods, SoundAddModel, SoundConcat
<1>2. Sound(CountTickets \o AddModel \o Tx(<<>>), 1)
  BY <1>1, SoundMethods, SoundConcat
<1>3. Sound(AddModel \o PrizeInfoAsMap \o Tx(<<>>), 1)
  BY <1>1, SoundMethods, SoundConcat
<1> QED BY <1>2, <1>3, SoundConcat DEF LogPage, AuditPage

LEMMA SoundSignin ==
  /\ Sound(Signin(LoadKnown \o Failed), 1)
  /\ Sound(Signin(LoadUnknown \o Failed), 1)
  /\ Sound(Signin(LoadKnown \o LoadKnown \o Listener \o Failed), 1)
  /\ Sound(Signin(LoadKnown \o LoadKnown \o Listener), 1)
<1>1. Sound(LoadKnown \o Failed, 1) /\ Sound(LoadUnknown \o Failed, 1)
      /\ Sound(LoadKnown \o LoadKnown, 1)
  BY SoundLoads, SoundConcat
<1>2. Sound(LoadKnown \o LoadKnown \o Listener, 1)
  BY <1>1, SoundLoads, SoundConcat
<1>3. Sound(LoadKnown \o LoadKnown \o Listener \o Failed, 1)
  BY <1>2, SoundLoads, SoundConcat
<1> QED BY <1>1, <1>2, <1>3, SoundInIndex DEF Signin

\* What the methods of TombolaController do around the service.
LEMMA SoundRest ==
  ASSUME NEW p, Sound(p, 1)
  PROVE  /\ Sound(p \o Username \o SessionId, 1)
         /\ Sound(Username \o SessionId \o p, 1)
<1>1. Sound(p \o Username, 1) /\ Sound(Username \o SessionId, 1)
  BY SoundMethods, SoundConcat
<1> QED BY <1>1, SoundMethods, SoundConcat

Ranked == DOMAIN Programs \ {"getPrize", "getTicket"}

LEMMA SoundPrograms ==
  ASSUME NEW kind \in Ranked, NEW p \in Programs[kind]
  PROVE  Sound(p, 1)
<1>0. kind \in {"getIndex", "getManager", "setManager", "getProperties", "getTombolaLog", "getAudit",
                "getLogin", "getError", "signin", "basicLogin", "getUserInfo", "getPrizes",
                "getRoleInfo", "getTicketsPage", "patchPrizeTicket", "patchPrizeName",
                "putTickets", "deleteTicket"}
  BY DEF Ranked, Programs
<1>1. CASE kind = "getIndex"
  <2>1. p = Index
    BY <1>1 DEF Programs
  <2> QED BY <2>1, SoundIndex
<1>2. CASE kind = "getManager"
  <2>1. p \in {Manager(<<>>), Manager(TicketsPage)}
    BY <1>2 DEF Programs
  <2> QED BY <2>1, SoundManager, SoundMethods
<1>3. CASE kind = "setManager"
  <2>1. p \in {SetManager(PatchPrizeTicket), SetManager(PatchRefused), Call("Index")}
    BY <1>3 DEF Programs
  <2> QED BY <2>1, SoundSetManager, SoundMethods, SoundCalls
<1>4. CASE kind = "getProperties"
  <2>1. p = AddModel \o ApiBeans \o Call("Status")
    BY <1>4 DEF Programs
  <2>2. Sound(AddModel \o ApiBeans, 1)
    BY SoundAddModel, SoundApiBeans, SoundConcat
  <2> QED BY <2>1, <2>2, SoundCalls, SoundConcat
<1>5. CASE kind = "getTombolaLog"
  <2>1. p \in {LogPage(<<>>), LogPage(Tx(<<>>))}
    BY <1>5 DEF Programs
  <2> QED BY <2>1, SoundPages, SoundMethods
<1>6. CASE kind = "getAudit"
  <2>1. p \in {AuditPage(<<>>), AuditPage(Tx(<<>>))}
    BY <1>6 DEF Programs
  <2> QED BY <2>1, SoundPages, SoundMethods
<1>7. CASE kind = "getLogin"
  <2>1. p = AddModel \o Call("Status")
    BY <1>7 DEF Programs
  <2> QED BY <2>1, SoundAddModel, SoundCalls, SoundConcat
<1>8. CASE kind = "getError"
  <2>1. p = In("Index", AddModel)
    BY <1>8 DEF Programs
  <2> QED BY <2>1, SoundAddModel, SoundInIndex
<1>9. CASE kind = "signin"
  <2>1. p \in {Signin(LoadKnown \o Failed), Signin(LoadUnknown \o Failed),
               Signin(LoadKnown \o LoadKnown \o Listener \o Failed),
               Signin(LoadKnown \o LoadKnown \o Listener)}
    BY <1>9 DEF Programs
  <2> QED BY <2>1, SoundSignin
<1>10. CASE kind = "basicLogin"
  <2>1. p \in {LoadUnknown, LoadKnown \o Listener}
    BY <1>10 DEF Programs
  <2> QED BY <2>1, SoundLoads, SoundConcat
<1>11. CASE kind = "getUserInfo"
  <2>1. p = Tx(Username \o ClientIP \o Call("Login"))
    BY <1>11 DEF Programs
  <2>2. Sound(Username \o ClientIP, 1)
    BY SoundMethods, SoundConcat
  <2>3. Sound(Username \o ClientIP \o Call("Login"), 1)
    BY <2>2, SoundCalls, SoundConcat
  <2> QED BY <2>1, <2>3, SoundTx
<1>12. CASE kind = "getPrizes"
  <2>1. p = GetPrizes
    BY <1>12 DEF Programs
  <2> QED BY <2>1, SoundMethods
<1>13. CASE kind = "getRoleInfo"
  <2>1. p = Tx(<<>>)
    BY <1>13 DEF Programs
  <2> QED BY <2>1, SoundMethods
<1>14. CASE kind = "getTicketsPage"
  <2>1. p = TicketsPage
    BY <1>14 DEF Programs
  <2> QED BY <2>1, SoundMethods
<1>15. CASE kind = "patchPrizeTicket"
  <2>1. p \in {PatchPrizeTicket \o Username \o SessionId, PatchRefused \o Username \o SessionId}
    BY <1>15 DEF Programs
  <2> QED BY <2>1, SoundMethods, SoundRest
<1>16. CASE kind = "patchPrizeName"
  <2>1. p = PatchPrizeName \o Username \o SessionId
    BY <1>16 DEF Programs
  <2> QED BY <2>1, SoundMethods, SoundRest
<1>17. CASE kind = "putTickets"
  <2>1. p = Username \o SessionId \o PutTickets
    BY <1>17 DEF Programs
  <2> QED BY <2>1, SoundMethods, SoundRest
<1>18. CASE kind = "deleteTicket"
  <2>1. p = Username \o SessionId \o DeleteTicket
    BY <1>18 DEF Programs
  <2> QED BY <2>1, SoundMethods, SoundRest
<1> QED BY <1>0, <1>1, <1>2, <1>3, <1>4, <1>5, <1>6, <1>7, <1>8, <1>9, <1>10, <1>11, <1>12,
           <1>13, <1>14, <1>15, <1>16, <1>17, <1>18

-----------------------------------------------------------------------------
(* The invariant *)

Held(th) ==
  [depth |-> [m \in Monitor |-> IF owner[m] = th THEN depth[m] ELSE 0],
   open |-> Cardinality(open[th])]

Owners ==
  /\ owner \in [Monitor -> Thread \cup {Nobody}]
  /\ depth \in [Monitor -> Nat]
  /\ \A m \in Monitor : owner[m] = Nobody <=> depth[m] = 0

Connections ==
  /\ pool \in Pools
  /\ open \in [Thread -> {1 .. n : n \in Nat}]
  /\ IsFiniteSet(InUse) /\ Cardinality(InUse) <= pool

Plans ==
  /\ todo \in [Thread -> Seq(Step)]
  /\ \A th \in Thread : Leads(todo[th], Held(th), Free)

IInv == Owners /\ Connections /\ Plans

LEMMA OpenCount ==
  ASSUME Connections, NEW th \in Thread
  PROVE  \E n \in Nat : open[th] = 1 .. n /\ Cardinality(open[th]) = n
<1>1. PICK n \in Nat : open[th] = 1 .. n
  BY DEF Connections
<1>2. Cardinality(1 .. n) = IF 1 > n THEN 0 ELSE n - 1 + 1
  BY FS_Interval
<1> QED BY <1>1, <1>2

LEMMA HeldType ==
  ASSUME Owners, Connections, NEW th \in Thread
  PROVE  Held(th) \in Hold
<1>1. Cardinality(open[th]) \in Nat
  BY OpenCount
<1>2. \A m \in Monitor : (IF owner[m] = th THEN depth[m] ELSE 0) \in Nat
  BY DEF Owners
<1> QED BY <1>1, <1>2 DEF Held, Hold

\* The same after a step.
LEMMA HeldTypeNext ==
  ASSUME Owners', Connections', NEW th \in Thread
  PROVE  Held(th)' \in Hold
<1>1. PICK n \in Nat : open'[th] = 1 .. n
  BY DEF Connections
<1>2. Cardinality(1 .. n) = IF 1 > n THEN 0 ELSE n - 1 + 1
  BY FS_Interval
<1>3. Cardinality(open'[th]) \in Nat
  BY <1>1, <1>2
<1>4. \A m \in Monitor : (IF owner'[m] = th THEN depth'[m] ELSE 0) \in Nat
  BY DEF Owners
<1> QED BY <1>3, <1>4 DEF Held, Hold

\* One thread has no more connections than all together.
LEMMA OpenBounded ==
  ASSUME Connections, NEW th \in Thread
  PROVE  Cardinality(open[th]) <= Cardinality(InUse)
<1>1. PICK n \in Nat : open[th] = 1 .. n /\ Cardinality(open[th]) = n
  BY OpenCount
<1>2. IsFiniteSet(1 .. n)
  BY FS_Interval
<1>3. IsFiniteSet({th}) /\ Cardinality({th}) = 1
  BY FS_Singleton
<1>4. Cardinality({th} \X (1 .. n)) = Cardinality({th}) * Cardinality(1 .. n)
  BY <1>2, <1>3, FS_Product
<1>5. Cardinality({th} \X (1 .. n)) = n
  BY <1>1, <1>3, <1>4
<1>6. {th} \X open[th] \in SUBSET InUse
  BY DEF InUse
<1>7. Cardinality({th} \X open[th]) <= Cardinality(InUse)
  BY <1>6, FS_Subset DEF Connections
<1> QED BY <1>1, <1>5, <1>7

\* Behind its first r steps, a plan goes on.
LEMMA LeadsSuffix ==
  ASSUME NEW p \in Seq(Step), NEW f, IsPlan(p, f), NEW r \in 0 .. Len(p)
  PROVE  /\ SubSeq(p, r + 1, Len(p)) \in Seq(Step)
         /\ Leads(SubSeq(p, r + 1, Len(p)), f[r + 1], f[Len(p) + 1])
<1> DEFINE n == Len(p)
           k == n - r
           q == SubSeq(p, r + 1, n)
           g == [i \in 1 .. k + 1 |-> f[i + r]]
<1>1. n \in Nat /\ r \in Nat /\ k \in Nat /\ k + r = n
  BY LenProperties
<1>2. /\ q \in Seq(Step)
      /\ Len(q) = k
      /\ \A i \in 1 .. k : q[i] = p[i + r]
  <2>1. \A i \in r + 1 .. n : p[i] \in Step
    BY <1>1, ElementOfSeq
  <2>2. /\ q \in Seq(Step)
        /\ Len(q) = IF r + 1 <= n THEN n - (r + 1) + 1 ELSE 0
        /\ \A i \in 1 .. n - (r + 1) + 1 : q[i] = p[r + 1 + i - 1]
    BY <1>1, <2>1, SubSeqProperties
  <2>3. n - (r + 1) + 1 = k /\ (~(r + 1 <= n) => k = 0)
    <3> HIDE DEF n, k
    <3>1. n - (r + 1) + 1 = k
      BY <1>1
    <3>2. ~(r + 1 <= n) => k = 0
      BY <1>1
    <3> QED BY <3>1, <3>2
  <2>4. ASSUME NEW i \in 1 .. k
        PROVE  q[i] = p[i + r]
    <3>1. r + 1 + i - 1 = i + r
      BY <1>1
    <3>2. q[i] = p[r + 1 + i - 1]
      BY <2>2, <2>3
    <3> QED BY <3>1, <3>2
  <2> HIDE DEF q
  <2> QED BY <1>1, <2>2, <2>3, <2>4
<1> HIDE DEF q
<1>3. f \in [1 .. n + 1 -> Hold] /\ \A i \in 1 .. n : StepFits(p, f, i)
  BY DEF IsPlan
<1>4. /\ g \in [1 .. k + 1 -> Hold]
      /\ \A i \in 1 .. k + 1 : g[i] = f[i + r]
  <2>1. \A i \in 1 .. k + 1 : i + r \in 1 .. n + 1
    BY <1>1
  <2> QED BY <1>3, <2>1
<1> HIDE DEF g
<1>5. ASSUME NEW i \in 1 .. k
      PROVE  StepFits(q, g, i)
  <2>1. i + r \in 1 .. n /\ (i + 1) + r = (i + r) + 1
    BY <1>1
  <2>2. StepFits(p, f, i + r)
    BY <1>3, <2>1
  <2>3. q[i] = p[i + r] /\ p[i + r] \in Step
    BY <1>2, <2>1, ElementOfSeq
  <2>4. g[i] = f[i + r] /\ g[i + 1] = f[(i + r) + 1]
    <3>1. i \in 1 .. k + 1 /\ i + 1 \in 1 .. k + 1
      BY <1>1
    <3>2. g[i + 1] = f[(i + 1) + r]
      BY <1>4, <3>1
    <3> QED BY <1>4, <2>1, <3>1, <3>2
  <2>5. ASSUME (i + r) + q[i].recover <= n + 1
        PROVE  /\ i + q[i].recover <= Len(q) + 1
               /\ g[i + q[i].recover] = f[(i + r) + q[i].recover]
    <3>1. q[i].recover \in Nat
      BY <2>3 DEF Step
    <3> HIDE DEF k
    <3>2. i + q[i].recover \in 1 .. k + 1
      BY <1>1, <2>5, <3>1
    <3>3. g[i + q[i].recover] = f[(i + q[i].recover) + r]
      BY <1>4, <3>2
    <3>4. (i + q[i].recover) + r = (i + r) + q[i].recover
      BY <1>1, <3>1
    <3>5. i + q[i].recover <= Len(q) + 1
      BY <1>2, <3>2
    <3> QED BY <3>3, <3>4, <3>5
  <2> QED BY <2>2, <2>3, <2>4, <2>5 DEF StepFits
<1>6. IsPlan(q, g)
  BY <1>2, <1>4, <1>5 DEF IsPlan
<1>7. g[1] = f[r + 1] /\ g[Len(q) + 1] = f[n + 1]
  <2>1. 1 \in 1 .. k + 1 /\ k + 1 \in 1 .. k + 1 /\ 1 + r = r + 1 /\ (k + 1) + r = n + 1
    BY <1>1
  <2>2. g[1] = f[1 + r] /\ g[k + 1] = f[(k + 1) + r]
    BY <1>4, <2>1
  <2> QED BY <1>2, <2>1, <2>2
<1>8. Leads(q, f[r + 1], f[n + 1])
  BY <1>6, <1>7 DEF Leads
<1> QED BY <1>2, <1>8 DEF q

\* The first step of a plan: what it does to what is held.
Fits(s, a, b) ==
  \/ s.do = "enter" /\ s.on \in Monitor /\ MayEnter(a, s.on) /\ b = Entered(a, s.on)
  \/ s.do = "leave" /\ s.on \in Monitor /\ a.depth[s.on] > 0 /\ b = Left(a, s.on)
  \/ s.do = "connect" /\ b = Connected(a)
  \/ s.do = "close" /\ a.open > 0 /\ b = Closed(a)

LEMMA LeadsTail ==
  ASSUME NEW p \in Seq(Step), p # <<>>, NEW a, NEW to, Leads(p, a, to)
  PROVE  /\ Head(p) \in Step /\ Tail(p) \in Seq(Step)
         /\ \E b : Fits(Head(p), a, b) /\ Leads(Tail(p), b, to)
         /\ Head(p).do = "connect" =>
              /\ SubSeq(p, Head(p).recover + 1, Len(p)) \in Seq(Step)
              /\ Leads(SubSeq(p, Head(p).recover + 1, Len(p)), a, to)
<1>1. PICK f : IsPlan(p, f) /\ f[1] = a /\ f[Len(p) + 1] = to
  BY DEF Leads
<1>2. Len(p) \in Nat /\ Len(p) >= 1
  BY LenProperties, EmptySeq
<1>3. Head(p) \in Step /\ Tail(p) \in Seq(Step) /\ Head(p) = p[1]
  BY HeadTailProperties
<1>4. StepFits(p, f, 1)
  BY <1>1, <1>2 DEF IsPlan
<1>5. Fits(Head(p), a, f[2])
  BY <1>1, <1>3, <1>4 DEF StepFits, Fits
<1>6. Leads(Tail(p), f[2], to)
  <2>1. 1 \in 0 .. Len(p)
    BY <1>2
  <2>2. Leads(SubSeq(p, 1 + 1, Len(p)), f[1 + 1], f[Len(p) + 1])
    BY <1>1, <2>1, LeadsSuffix
  <2>3. 1 + 1 = 2
    OBVIOUS
  <2>4. Leads(SubSeq(p, 2, Len(p)), f[2], f[Len(p) + 1])
    BY <2>2, <2>3, Zenon
  <2>5. Tail(p) = SubSeq(p, 2, Len(p))
    BY TailIsSubSeq
  <2> QED BY <1>1, <2>4, <2>5, Zenon
<1>7. ASSUME Head(p).do = "connect"
      PROVE  /\ SubSeq(p, Head(p).recover + 1, Len(p)) \in Seq(Step)
             /\ Leads(SubSeq(p, Head(p).recover + 1, Len(p)), a, to)
  <2> DEFINE r == p[1].recover
  <2>1. 1 + r <= Len(p) + 1 /\ f[1 + r] = f[1]
    BY <1>3, <1>4, <1>7 DEF StepFits
  <2>2. r \in Nat
    BY <1>3 DEF Step
  <2> HIDE DEF r
  <2>3. r \in 0 .. Len(p) /\ 1 + r = r + 1
    BY <1>2, <2>1, <2>2
  <2>4. /\ SubSeq(p, r + 1, Len(p)) \in Seq(Step)
        /\ Leads(SubSeq(p, r + 1, Len(p)), f[r + 1], f[Len(p) + 1])
    BY <1>1, <2>3, LeadsSuffix
  <2> QED BY <1>1, <1>3, <2>1, <2>3, <2>4 DEF r
<1> QED BY <1>3, <1>5, <1>6, <1>7

-----------------------------------------------------------------------------
(* The steps *)

LEMMA IInvInit == Init => IInv
<1> SUFFICES ASSUME Init PROVE IInv
  OBVIOUS
<1>1. Owners
  BY DEF Init, Owners
<1>2. \A th \in Thread : open[th] = {}
  BY DEF Init
<1>3. InUse = {}
  BY <1>2 DEF InUse
<1>4. Connections
  <2>1. 1 .. 0 = {}
    OBVIOUS
  <2>2. {} \in {1 .. n : n \in Nat}
    BY <2>1
  <2>3. open \in [Thread -> {1 .. n : n \in Nat}]
    BY <2>2 DEF Init
  <2>4. pool \in Pools /\ pool \in Nat
    BY PoolsAssumption DEF Init
  <2>5. IsFiniteSet(InUse) /\ Cardinality(InUse) = 0
    BY <1>3, FS_EmptySet
  <2> QED BY <2>3, <2>4, <2>5 DEF Connections
<1>5. ASSUME NEW th \in Thread
      PROVE  todo[th] \in Seq(Step) /\ Leads(todo[th], Held(th), Free)
  <2>1. Held(th).open = 0
    BY <1>2, FS_EmptySet DEF Held
  <2>2. \A m \in Monitor : Held(th).depth[m] = 0
    BY DEF Init, Held
  <2>3. Held(th) \in Hold /\ Free \in Hold
    BY <1>1, <1>4, HeldType DEF Free, Hold
  <2>4. Held(th) = Free
    BY <2>1, <2>2, <2>3, HoldEqual DEF Free
  <2>5. todo[th] = <<>>
    BY DEF Init
  <2> QED BY <2>3, <2>4, <2>5, LeadsEmpty, EmptySeq
<1>6. Plans
  BY <1>5 DEF Init, Plans
<1> QED BY <1>1, <1>4, <1>6 DEF IInv

\* The plan of a thread after a step that takes it to the hold b.
LEMMA PlansStep ==
  ASSUME Plans, NEW th \in Thread, NEW p \in Seq(Step),
         todo' = [todo EXCEPT ![th] = p],
         Leads(p, Held(th)', Free),
         \A other \in Thread \ {th} : Held(other)' = Held(other)
  PROVE  Plans'
<1>1. todo' \in [Thread -> Seq(Step)]
  BY DEF Plans
<1>2. ASSUME NEW t \in Thread
      PROVE  Leads(todo'[t], Held(t)', Free)
  <2>1. CASE t = th
    <3>1. todo'[t] = p
      BY <2>1 DEF Plans
    <3> QED BY <2>1, <3>1
  <2>2. CASE t # th
    <3>1. todo'[t] = todo[t] /\ Held(t)' = Held(t) /\ Leads(todo[t], Held(t), Free)
      BY <2>2 DEF Plans
    <3> QED BY <3>1
  <2> QED BY <2>1, <2>2
<1> QED BY <1>1, <1>2 DEF Plans

LEMMA SameHeld ==
  ASSUME UNCHANGED <<owner, depth, open>>, NEW th
  PROVE  Held(th)' = Held(th)
BY DEF Held

LEMMA SameConnections ==
  ASSUME Connections, UNCHANGED <<open, pool>>
  PROVE  Connections'
BY DEF Connections, InUse

\* The first step of a thread's program, and where it leads.
LEMMA NextStep ==
  ASSUME IInv, NEW th \in Thread, ~Idle(th)
  PROVE  /\ Head(todo[th]) \in Step /\ Tail(todo[th]) \in Seq(Step)
         /\ \E b : Fits(Head(todo[th]), Held(th), b) /\ Leads(Tail(todo[th]), b, Free)
         /\ Head(todo[th]).do = "connect" =>
              Skip(th) \in Seq(Step) /\ Leads(Skip(th), Held(th), Free)
<1>1. todo[th] \in Seq(Step) /\ todo[th] # <<>> /\ Leads(todo[th], Held(th), Free)
  BY DEF IInv, Plans, Idle
<1> QED BY <1>1, LeadsTail DEF Skip

LEMMA BeginKeeps ==
  ASSUME Kinds \subseteq Ranked, IInv, NEW th \in Thread, Begin(th)
  PROVE  IInv'
<1>0. PICK kind \in Kinds : \E p \in Programs[kind] : todo' = [todo EXCEPT ![th] = p]
  BY DEF Begin
<1>1. PICK p \in Programs[kind] : todo' = [todo EXCEPT ![th] = p]
  BY <1>0
<1>2. Sound(p, 1)
  BY <1>1, SoundPrograms
<1>3. Held(th) = Free
  <2>1. Leads(<<>>, Held(th), Free)
    BY DEF IInv, Plans, Begin, Idle
  <2> QED BY <2>1, LeadsNowhere
<1>4. Held(th) \in Hold
  BY HeldType DEF IInv
<1>5. Below(Held(th), 1)
  <2>1. \A m \in Monitor : Free.depth[m] = 0
    BY DEF Free
  <2> QED BY <1>3, <2>1 DEF Below
<1>6. p \in Seq(Step) /\ Leads(p, Held(th), Free)
  BY <1>2, <1>3, <1>4, <1>5 DEF Sound
<1>7. UNCHANGED <<owner, depth, open, pool>>
  BY DEF Begin
<1>8. \A t : Held(t)' = Held(t)
  BY <1>7, SameHeld
<1>9. Plans'
  BY <1>1, <1>6, <1>8, PlansStep DEF IInv
<1>10. Owners'
  BY <1>7 DEF IInv, Owners
<1>11. Connections'
  BY <1>7, SameConnections DEF IInv
<1> QED BY <1>9, <1>10, <1>11 DEF IInv

LEMMA EnterKeeps ==
  ASSUME IInv, NEW th \in Thread, EnterMonitor(th)
  PROVE  IInv'
<1> DEFINE m == On(th)
<1>1. /\ Head(todo[th]).do = "enter" /\ ~Idle(th) /\ owner[m] \in {th, Nobody}
      /\ owner' = [owner EXCEPT ![m] = th]
      /\ depth' = [depth EXCEPT ![m] = @ + 1]
      /\ todo' = [todo EXCEPT ![th] = Tail(@)]
      /\ UNCHANGED <<open, pool>>
  BY DEF EnterMonitor, At, Advance
<1>2. PICK b : Fits(Head(todo[th]), Held(th), b) /\ Leads(Tail(todo[th]), b, Free)
  BY <1>1, NextStep
<1>3. m \in Monitor /\ b = Entered(Held(th), m)
  BY <1>1, <1>2 DEF Fits, On
<1> HIDE DEF m
<1>4. /\ owner \in [Monitor -> Thread \cup {Nobody}] /\ depth \in [Monitor -> Nat]
      /\ \A n \in Monitor : owner[n] = Nobody <=> depth[n] = 0
  BY DEF IInv, Owners
<1>5. th # Nobody
  BY ThreadAssumption
<1>6. Owners'
  BY <1>1, <1>3, <1>4, <1>5 DEF Owners
<1>7. Connections'
  BY <1>1, SameConnections DEF IInv
<1>8. Held(th)' = b
  <2>1. Held(th)' \in Hold /\ b \in Hold
    <3>1. Held(th)' \in Hold
      BY <1>6, <1>7, HeldTypeNext
    <3>2. Held(th) \in Hold
      BY HeldType DEF IInv
    <3> QED BY <1>3, <3>1, <3>2, HoldClosed
  <2>2. Held(th)'.open = b.open
    BY <1>1, <1>3 DEF Held, Entered
  <2>3. ASSUME NEW n \in Monitor
        PROVE  Held(th)'.depth[n] = b.depth[n]
    <3>1. b.depth[n] = [Held(th).depth EXCEPT ![m] = @ + 1][n]
      BY <1>3 DEF Entered
    <3>2. b.depth[n] = IF n = m THEN Held(th).depth[m] + 1 ELSE Held(th).depth[n]
      BY <1>3, <3>1 DEF Held
    <3>3. Held(th)'.depth[n] = IF owner'[n] = th THEN depth'[n] ELSE 0
      BY DEF Held
    <3>4. CASE n = m
      <4>1. owner'[n] = th /\ depth'[n] = depth[m] + 1
        BY <1>1, <1>3, <1>4, <3>4
      <4>2. Held(th).depth[m] = depth[m]
        BY <1>1, <1>3, <1>4 DEF Held
      <4> QED BY <3>2, <3>3, <3>4, <4>1, <4>2
    <3>5. CASE n # m
      <4>1. owner'[n] = owner[n] /\ depth'[n] = depth[n]
        BY <1>1, <1>3, <1>4, <3>5
      <4>2. Held(th).depth[n] = IF owner[n] = th THEN depth[n] ELSE 0
        BY DEF Held
      <4> QED BY <3>2, <3>3, <3>5, <4>1, <4>2
    <3> QED BY <3>4, <3>5
  <2> QED BY <2>1, <2>2, <2>3, HoldEqual
<1>9. ASSUME NEW other \in Thread \ {th}
      PROVE  Held(other)' = Held(other)
  <2>1. Held(other)' \in Hold /\ Held(other) \in Hold
    BY <1>6, <1>7, HeldType, HeldTypeNext DEF IInv
  <2>2. Held(other)'.open = Held(other).open
    BY <1>1 DEF Held
  <2>3. ASSUME NEW n \in Monitor
        PROVE  Held(other)'.depth[n] = Held(other).depth[n]
    <3>1. Held(other)'.depth[n] = IF owner'[n] = other THEN depth'[n] ELSE 0
      BY DEF Held
    <3>2. Held(other).depth[n] = IF owner[n] = other THEN depth[n] ELSE 0
      BY DEF Held
    <3>3. other # Nobody
      BY ThreadAssumption
    <3>4. CASE n = m
      BY <1>1, <1>3, <1>4, <3>1, <3>2, <3>3, <3>4
    <3>5. CASE n # m
      BY <1>1, <1>3, <1>4, <3>1, <3>2, <3>5
    <3> QED BY <3>4, <3>5
  <2> QED BY <2>1, <2>2, <2>3, HoldEqual
<1>10. Plans'
  <2>1. Tail(todo[th]) \in Seq(Step)
    BY <1>1, NextStep
  <2> QED BY <1>1, <1>2, <1>8, <1>9, <2>1, PlansStep DEF IInv
<1> QED BY <1>6, <1>7, <1>10 DEF IInv

LEMMA LeaveKeeps ==
  ASSUME IInv, NEW th \in Thread, LeaveMonitor(th)
  PROVE  IInv'
<1> DEFINE m == On(th)
<1>1. /\ Head(todo[th]).do = "leave" /\ ~Idle(th)
      /\ depth' = [depth EXCEPT ![m] = @ - 1]
      /\ owner' = [owner EXCEPT ![m] = IF depth[m] = 1 THEN Nobody ELSE th]
      /\ todo' = [todo EXCEPT ![th] = Tail(@)]
      /\ UNCHANGED <<open, pool>>
  BY DEF LeaveMonitor, At, Advance
<1>2. PICK b : Fits(Head(todo[th]), Held(th), b) /\ Leads(Tail(todo[th]), b, Free)
  BY <1>1, NextStep
<1>3. m \in Monitor /\ b = Left(Held(th), m) /\ Held(th).depth[m] > 0
  BY <1>1, <1>2 DEF Fits, On
<1> HIDE DEF m
<1>4. /\ owner \in [Monitor -> Thread \cup {Nobody}] /\ depth \in [Monitor -> Nat]
      /\ \A n \in Monitor : owner[n] = Nobody <=> depth[n] = 0
  BY DEF IInv, Owners
<1>5. th # Nobody
  BY ThreadAssumption
<1>6. owner[m] = th /\ depth[m] > 0 /\ Held(th).depth[m] = depth[m]
  <2>1. Held(th).depth[m] = IF owner[m] = th THEN depth[m] ELSE 0
    BY <1>3 DEF Held
  <2> QED BY <1>3, <2>1
<1>7. Owners'
  BY <1>1, <1>3, <1>4, <1>5, <1>6 DEF Owners
<1>8. Connections'
  BY <1>1, SameConnections DEF IInv
<1>9. Held(th)' = b
  <2>1. Held(th)' \in Hold /\ b \in Hold
    <3>1. Held(th)' \in Hold
      BY <1>7, <1>8, HeldTypeNext
    <3>2. Held(th) \in Hold
      BY HeldType DEF IInv
    <3> QED BY <1>3, <3>1, <3>2, HoldClosed
  <2>2. Held(th)'.open = b.open
    BY <1>1, <1>3 DEF Held, Left
  <2>3. ASSUME NEW n \in Monitor
        PROVE  Held(th)'.depth[n] = b.depth[n]
    <3>1. b.depth[n] = [Held(th).depth EXCEPT ![m] = @ - 1][n]
      BY <1>3 DEF Left
    <3>2. b.depth[n] = IF n = m THEN Held(th).depth[m] - 1 ELSE Held(th).depth[n]
      BY <1>3, <3>1 DEF Held
    <3>3. Held(th)'.depth[n] = IF owner'[n] = th THEN depth'[n] ELSE 0
      BY DEF Held
    <3>4. CASE n = m
      <4>1. owner'[n] = (IF depth[m] = 1 THEN Nobody ELSE th) /\ depth'[n] = depth[m] - 1
        BY <1>1, <1>3, <1>4, <3>4
      <4> QED BY <1>4, <1>5, <1>6, <3>2, <3>3, <3>4, <4>1
    <3>5. CASE n # m
      <4>1. owner'[n] = owner[n] /\ depth'[n] = depth[n]
        BY <1>1, <1>3, <1>4, <3>5
      <4>2. Held(th).depth[n] = IF owner[n] = th THEN depth[n] ELSE 0
        BY DEF Held
      <4> QED BY <3>2, <3>3, <3>5, <4>1, <4>2
    <3> QED BY <3>4, <3>5
  <2> QED BY <2>1, <2>2, <2>3, HoldEqual
<1>10. ASSUME NEW other \in Thread \ {th}
       PROVE  Held(other)' = Held(other)
  <2>1. Held(other)' \in Hold /\ Held(other) \in Hold
    BY <1>7, <1>8, HeldType, HeldTypeNext DEF IInv
  <2>2. Held(other)'.open = Held(other).open
    BY <1>1 DEF Held
  <2>3. ASSUME NEW n \in Monitor
        PROVE  Held(other)'.depth[n] = Held(other).depth[n]
    <3>1. Held(other)'.depth[n] = IF owner'[n] = other THEN depth'[n] ELSE 0
      BY DEF Held
    <3>2. Held(other).depth[n] = IF owner[n] = other THEN depth[n] ELSE 0
      BY DEF Held
    <3>3. other # Nobody
      BY ThreadAssumption
    <3>4. CASE n = m
      BY <1>1, <1>3, <1>4, <1>6, <3>1, <3>2, <3>3, <3>4
    <3>5. CASE n # m
      BY <1>1, <1>3, <1>4, <3>1, <3>2, <3>5
    <3> QED BY <3>4, <3>5
  <2> QED BY <2>1, <2>2, <2>3, HoldEqual
<1>11. Plans'
  <2>1. Tail(todo[th]) \in Seq(Step)
    BY <1>1, NextStep
  <2> QED BY <1>1, <1>2, <1>9, <1>10, <2>1, PlansStep DEF IInv
<1> QED BY <1>7, <1>8, <1>11 DEF IInv

\* What a step of th does to its connections.
LEMMA OpenStep ==
  ASSUME Connections, Owners, UNCHANGED <<owner, depth>>, NEW th \in Thread, NEW n \in Nat,
         open' = [open EXCEPT ![th] = 1 .. n]
  PROVE  /\ open' \in [Thread -> {1 .. k : k \in Nat}]
         /\ Held(th)' = [depth |-> Held(th).depth, open |-> n]
         /\ \A other \in Thread \ {th} : Held(other)' = Held(other)
<1>1. open' \in [Thread -> {1 .. k : k \in Nat}]
  BY DEF Connections
<1>2. open'[th] = 1 .. n /\ \A other \in Thread \ {th} : open'[other] = open[other]
  BY DEF Connections
<1>3. Cardinality(1 .. n) = IF 1 > n THEN 0 ELSE n - 1 + 1
  BY FS_Interval
<1>4. Cardinality(open'[th]) = n
  BY <1>2, <1>3
<1>5. Held(th)' = [depth |-> Held(th).depth, open |-> n]
  BY <1>4 DEF Held
<1>6. \A other \in Thread \ {th} : Held(other)' = Held(other)
  BY <1>2 DEF Held
<1> QED BY <1>1, <1>5, <1>6

LEMMA TakeKeeps ==
  ASSUME IInv, NEW th \in Thread, TakeConnection(th)
  PROVE  IInv'
<1>1. /\ Head(todo[th]).do = "connect" /\ ~Idle(th) /\ ~PoolEmpty
      /\ open' = [open EXCEPT ![th] = @ \cup {Cardinality(@) + 1}]
      /\ todo' = [todo EXCEPT ![th] = Tail(@)]
      /\ UNCHANGED <<owner, depth, pool>>
  BY DEF TakeConnection, At, Advance
<1>2. Owners /\ Connections /\ Plans
  BY DEF IInv
<1>3. PICK n \in Nat : open[th] = 1 .. n /\ Cardinality(open[th]) = n
  BY <1>2, OpenCount
<1>4. PICK b : Fits(Head(todo[th]), Held(th), b) /\ Leads(Tail(todo[th]), b, Free)
  BY <1>1, NextStep
<1>5. b = Connected(Held(th))
  BY <1>1, <1>4 DEF Fits
<1>6. open' = [open EXCEPT ![th] = 1 .. n + 1]
  <2>1. (1 .. n) \cup {n + 1} = 1 .. n + 1
    BY <1>3
  <2> QED BY <1>1, <1>3, <2>1
<1>7. /\ open' \in [Thread -> {1 .. k : k \in Nat}]
      /\ Held(th)' = [depth |-> Held(th).depth, open |-> n + 1]
      /\ \A other \in Thread \ {th} : Held(other)' = Held(other)
  <2>1. n + 1 \in Nat
    BY <1>3
  <2> QED BY <1>1, <1>2, <1>6, <2>1, OpenStep
<1>8. Held(th)' = b
  <2>1. Held(th).open = n
    BY <1>3 DEF Held
  <2> QED BY <1>5, <1>7, <2>1 DEF Connected
<1>9. Connections'
  <2>1. InUse' \in SUBSET (InUse \cup {<<th, n + 1>>})
    <3>1. ASSUME NEW e \in InUse'
          PROVE  e \in InUse \cup {<<th, n + 1>>}
      <4>1. PICK t \in Thread : e \in {t} \X open'[t]
        BY DEF InUse
      <4>2. CASE t = th
        <5>1. PICK c \in open'[th] : e = <<th, c>>
          BY <4>1, <4>2
        <5>2. c \in open[th] \/ c = n + 1
          BY <1>1, <1>2, <1>3, <5>1 DEF Connections
        <5>3. c \in open[th] => e \in {th} \X open[th]
          BY <5>1
        <5> QED BY <5>1, <5>2, <5>3 DEF InUse
      <4>3. CASE t # th
        <5>1. open'[t] = open[t]
          BY <1>1, <1>2, <4>3 DEF Connections
        <5> QED BY <4>1, <5>1 DEF InUse
      <4> QED BY <4>2, <4>3
    <3> QED BY <3>1
  <2>2. IsFiniteSet(InUse) /\ Cardinality(InUse) <= pool /\ Cardinality(InUse) # pool
    BY <1>1, <1>2 DEF Connections, PoolEmpty
  <2>3. /\ IsFiniteSet(InUse \cup {<<th, n + 1>>})
        /\ Cardinality(InUse \cup {<<th, n + 1>>}) =
             IF <<th, n + 1>> \in InUse THEN Cardinality(InUse) ELSE Cardinality(InUse) + 1
    BY <2>2, FS_AddElement
  <2>4. /\ IsFiniteSet(InUse')
        /\ Cardinality(InUse') <= Cardinality(InUse \cup {<<th, n + 1>>})
    BY <2>1, <2>3, FS_Subset
  <2>5. Cardinality(InUse) \in Nat /\ Cardinality(InUse') \in Nat
    BY <2>2, <2>4, FS_CardinalityType
  <2>6. pool \in Nat
    BY <1>2, PoolsAssumption DEF Connections
  <2>7. Cardinality(InUse') <= pool
    BY <2>2, <2>3, <2>4, <2>5, <2>6
  <2>8. pool' = pool /\ pool \in Pools
    BY <1>1, <1>2 DEF Connections
  <2> QED BY <1>7, <2>4, <2>7, <2>8 DEF Connections
<1>10. Plans'
  <2>1. Tail(todo[th]) \in Seq(Step)
    BY <1>1, NextStep
  <2> QED BY <1>1, <1>2, <1>4, <1>7, <1>8, <2>1, PlansStep
<1>11. Owners'
  BY <1>1, <1>2 DEF Owners
<1> QED BY <1>9, <1>10, <1>11 DEF IInv

\* Whoever gives connections back leaves the pool as it was, or fuller.
LEMMA FewerInUse ==
  ASSUME Connections, UNCHANGED pool, open' \in [Thread -> {1 .. k : k \in Nat}],
         \A th \in Thread : open'[th] \subseteq open[th]
  PROVE  Connections'
<1>1. InUse' \in SUBSET InUse
  <2>1. ASSUME NEW e \in InUse'
        PROVE  e \in InUse
    <3>1. PICK t \in Thread : e \in {t} \X open'[t]
      BY DEF InUse
    <3>2. e \in {t} \X open[t]
      BY <3>1
    <3> QED BY <3>2 DEF InUse
  <2> QED BY <2>1
<1>2. IsFiniteSet(InUse) /\ Cardinality(InUse) <= pool
  BY DEF Connections
<1>3. IsFiniteSet(InUse') /\ Cardinality(InUse') <= Cardinality(InUse)
  BY <1>1, <1>2, FS_Subset
<1>4. Cardinality(InUse) \in Nat /\ Cardinality(InUse') \in Nat /\ pool \in Nat /\ pool \in Pools
  BY <1>2, <1>3, FS_CardinalityType, PoolsAssumption DEF Connections
<1>5. Cardinality(InUse') <= pool
  BY <1>2, <1>3, <1>4
<1> QED BY <1>3, <1>4, <1>5 DEF Connections

LEMMA ReturnKeeps ==
  ASSUME IInv, NEW th \in Thread, ReturnConnection(th)
  PROVE  IInv'
<1>1. /\ Head(todo[th]).do = "close" /\ ~Idle(th)
      /\ open' = [open EXCEPT ![th] = @ \ {Cardinality(@)}]
      /\ todo' = [todo EXCEPT ![th] = Tail(@)]
      /\ UNCHANGED <<owner, depth, pool>>
  BY DEF ReturnConnection, At, Advance
<1>2. Owners /\ Connections /\ Plans
  BY DEF IInv
<1>3. PICK n \in Nat : open[th] = 1 .. n /\ Cardinality(open[th]) = n
  BY <1>2, OpenCount
<1>4. PICK b : Fits(Head(todo[th]), Held(th), b) /\ Leads(Tail(todo[th]), b, Free)
  BY <1>1, NextStep
<1>5. b = Closed(Held(th)) /\ n > 0
  <2>1. Held(th).open = n
    BY <1>3 DEF Held
  <2> QED BY <1>1, <1>4, <2>1 DEF Fits
<1>6. n - 1 \in Nat /\ open' = [open EXCEPT ![th] = 1 .. n - 1]
  <2>1. n - 1 \in Nat
    BY <1>3, <1>5
  <2>2. (1 .. n) \ {n} = 1 .. n - 1
    BY <1>3, <1>5
  <2>3. open[th] \ {Cardinality(open[th])} = 1 .. n - 1
    BY <1>3, <2>2
  <2>4. open' = [open EXCEPT ![th] = open[th] \ {Cardinality(open[th])}]
    BY <1>1
  <2> QED BY <2>1, <2>3, <2>4
<1>7. /\ open' \in [Thread -> {1 .. k : k \in Nat}]
      /\ Held(th)' = [depth |-> Held(th).depth, open |-> n - 1]
      /\ \A other \in Thread \ {th} : Held(other)' = Held(other)
  BY <1>1, <1>2, <1>6, OpenStep
<1>8. Held(th)' = b
  <2>1. Held(th).open = n
    BY <1>3 DEF Held
  <2> QED BY <1>5, <1>7, <2>1 DEF Closed
<1>9. Connections'
  <2>1. \A t \in Thread : open'[t] \subseteq open[t]
    BY <1>1, <1>2 DEF Connections
  <2> QED BY <1>1, <1>2, <1>7, <2>1, FewerInUse
<1>10. Plans'
  <2>1. Tail(todo[th]) \in Seq(Step)
    BY <1>1, NextStep
  <2> QED BY <1>1, <1>2, <1>4, <1>7, <1>8, <2>1, PlansStep
<1>11. Owners'
  BY <1>1, <1>2 DEF Owners
<1> QED BY <1>9, <1>10, <1>11 DEF IInv

LEMMA TimeoutKeeps ==
  ASSUME IInv, NEW th \in Thread, ConnectionTimeout(th)
  PROVE  IInv'
<1>1. Head(todo[th]).do = "connect" /\ ~Idle(th) /\ UNCHANGED pool
  BY DEF ConnectionTimeout, At
<1>2. Owners /\ Connections /\ Plans
  BY DEF IInv
<1>3. CASE /\ todo' = [todo EXCEPT ![th] = Skip(th)]
           /\ UNCHANGED <<owner, depth, open>>
  <2>1. Skip(th) \in Seq(Step) /\ Leads(Skip(th), Held(th), Free)
    BY <1>1, NextStep
  <2>2. \A t : Held(t)' = Held(t)
    BY <1>3, SameHeld
  <2>3. Plans'
    BY <1>2, <1>3, <2>1, <2>2, PlansStep
  <2>4. Owners'
    BY <1>2, <1>3 DEF Owners
  <2>5. Connections'
    BY <1>1, <1>2, <1>3, SameConnections
  <2> QED BY <2>3, <2>4, <2>5 DEF IInv
<1>4. CASE /\ todo' = [todo EXCEPT ![th] = <<>>]
           /\ owner' = [m \in Monitor |-> IF owner[m] = th THEN Nobody ELSE owner[m]]
           /\ depth' = [m \in Monitor |-> IF owner[m] = th THEN 0 ELSE depth[m]]
           /\ open' = [open EXCEPT ![th] = {}]
  <2>0. th # Nobody
    BY ThreadAssumption
  <2>1. Owners'
    BY <1>2, <1>4 DEF Owners
  <2>2. {} = 1 .. 0
    OBVIOUS
  <2>3. open' \in [Thread -> {1 .. k : k \in Nat}]
    <3>1. {} \in {1 .. k : k \in Nat}
      BY <2>2
    <3> QED BY <1>2, <1>4, <3>1 DEF Connections
  <2>4. \A t \in Thread : open'[t] \subseteq open[t]
    BY <1>2, <1>4 DEF Connections
  <2>5. Connections'
    BY <1>1, <1>2, <2>3, <2>4, FewerInUse
  <2>6. Held(th)' = Free
    <3>1. open'[th] = {}
      BY <1>2, <1>4 DEF Connections
    <3>2. Cardinality(open'[th]) = 0
      BY <3>1, FS_EmptySet
    <3>3. \A m \in Monitor : (IF owner'[m] = th THEN depth'[m] ELSE 0) = 0
      BY <1>4, <2>0
    <3> QED BY <3>2, <3>3 DEF Held, Free
  <2>7. ASSUME NEW other \in Thread \ {th}
        PROVE  Held(other)' = Held(other)
    <3>1. open'[other] = open[other]
      BY <1>2, <1>4 DEF Connections
    <3>2. other # Nobody
      BY ThreadAssumption
    <3>3. \A m \in Monitor : (IF owner'[m] = other THEN depth'[m] ELSE 0)
                             = (IF owner[m] = other THEN depth[m] ELSE 0)
      BY <1>4, <3>2
    <3> QED BY <3>1, <3>3 DEF Held
  <2>8. Free \in Hold
    BY DEF Free, Hold
  <2>9. Plans'
    <3>1. <<>> \in Seq(Step) /\ Leads(<<>>, Held(th)', Free)
      BY <2>6, <2>8, LeadsEmpty, EmptySeq
    <3> QED BY <1>2, <1>4, <2>7, <3>1, PlansStep
  <2> QED BY <2>1, <2>5, <2>9 DEF IInv
<1> QED BY <1>3, <1>4 DEF ConnectionTimeout

LEMMA IInvNext ==
  ASSUME Kinds \subseteq Ranked, IInv, [Next]_vars
  PROVE  IInv'
<1>1. ASSUME NEW th \in Thread, Begin(th)
      PROVE  IInv'
  BY <1>1, BeginKeeps
<1>2. ASSUME NEW th \in Thread, Run(th)
      PROVE  IInv'
  BY <1>2, EnterKeeps, LeaveKeeps, TakeKeeps, ReturnKeeps, TimeoutKeeps DEF Run
<1>3. CASE UNCHANGED vars
  <2>1. UNCHANGED <<todo, owner, depth, open, pool>>
    BY <1>3 DEF vars
  <2>2. \A th : Held(th)' = Held(th)
    BY <2>1, SameHeld
  <2>3. Owners' /\ Plans'
    BY <2>1, <2>2 DEF IInv, Owners, Plans
  <2>4. Connections'
    BY <2>1, SameConnections DEF IInv
  <2> QED BY <2>3, <2>4 DEF IInv
<1> QED BY <1>1, <1>2, <1>3 DEF Next

-----------------------------------------------------------------------------
(* What follows *)

LEMMA IInvTypes ==
  ASSUME IInv
  PROVE  TypeOK
<1>1. Owners /\ Connections
  BY DEF IInv
<1>2. pool \in Nat
  BY <1>1, PoolsAssumption DEF Connections
<1>3. ASSUME NEW th \in Thread
      PROVE  open[th] \subseteq 1 .. pool
  <2>1. PICK n \in Nat : open[th] = 1 .. n /\ Cardinality(open[th]) = n
    BY <1>1, OpenCount
  <2>2. n <= Cardinality(InUse) /\ Cardinality(InUse) <= pool
    BY <1>1, <2>1, OpenBounded DEF Connections
  <2>3. Cardinality(InUse) \in Nat
    BY <1>1, FS_CardinalityType DEF Connections
  <2>4. n <= pool
    BY <1>2, <2>2, <2>3
  <2> QED BY <1>2, <2>1, <2>4
<1>4. open \in [Thread -> SUBSET (1 .. pool)]
  BY <1>1, <1>3 DEF Connections
<1> QED BY <1>1, <1>4 DEF TypeOK, Owners, Connections

LEMMA IInvLeaks ==
  ASSUME IInv
  PROVE  NothingLeaks
<1>1. Cardinality(InUse) <= pool
  BY DEF IInv, Connections
<1>2. ASSUME NEW th \in Thread, Idle(th)
      PROVE  open[th] = {} /\ \A m \in Monitor : owner[m] # th
  <2>1. Leads(<<>>, Held(th), Free)
    BY <1>2 DEF IInv, Plans, Idle
  <2>2. Held(th) = Free
    BY <2>1, LeadsNowhere
  <2>3. open[th] = {}
    <3>1. PICK n \in Nat : open[th] = 1 .. n /\ Cardinality(open[th]) = n
      BY OpenCount DEF IInv
    <3>2. Held(th).open = n /\ Held(th).open = 0
      BY <2>2, <3>1 DEF Held, Free
    <3> QED BY <3>1, <3>2
  <2>4. ASSUME NEW m \in Monitor, owner[m] = th
        PROVE  FALSE
    <3>1. Held(th).depth[m] = depth[m]
      BY <2>4 DEF Held
    <3>2. Free.depth[m] = 0
      BY DEF Free
    <3>3. depth[m] = 0
      BY <2>2, <3>1, <3>2
    <3>4. owner[m] = Nobody
      BY <3>3 DEF IInv, Owners
    <3> QED BY <2>4, <3>4, ThreadAssumption
  <2> QED BY <2>3, <2>4
<1> QED BY <1>1, <1>2 DEF NothingLeaks

\* A thread that waits for another's monitor holds monitors of lower ranks only.
LEMMA WaitsUpwards ==
  ASSUME IInv, NEW th \in Thread, At(th, "enter"), owner[On(th)] # th, NEW m \in Monitor,
         owner[m] = th
  PROVE  On(th) \in Monitor /\ Rank[m] < Rank[On(th)]
<1>1. ~Idle(th) /\ Head(todo[th]).do = "enter"
  BY DEF At
<1>2. PICK b : Fits(Head(todo[th]), Held(th), b)
  BY <1>1, NextStep
<1>3. On(th) \in Monitor /\ MayEnter(Held(th), On(th))
  BY <1>1, <1>2 DEF Fits, On
<1>4. Held(th).depth[On(th)] = 0
  BY <1>3 DEF Held
<1>5. Held(th).depth[m] = depth[m] /\ depth[m] \in Nat /\ depth[m] # 0
  BY ThreadAssumption DEF IInv, Owners, Held
<1>6. Held(th).depth[m] > 0
  BY <1>5
<1> QED BY <1>3, <1>4, <1>6 DEF MayEnter

LEMMA IInvDeadlock ==
  ASSUME IInv
  PROVE  NoDeadlock
<1> SUFFICES ASSUME NEW S \in (SUBSET Thread) \ {{}},
                    \A th \in S : \E holder \in S \ {th} : WaitsFor(th, holder)
             PROVE  FALSE
  BY DEF NoDeadlock
<1> DEFINE r(th) == Rank[On(th)]
<1>1. ASSUME NEW th \in S
      PROVE  r(th) \in 1 .. 5 /\ \E next \in S : r(th) < r(next)
  <2>1. PICK next \in S \ {th} : At(th, "enter") /\ owner[On(th)] = next
    BY DEF WaitsFor
  <2>2. PICK other \in S \ {next} : At(next, "enter") /\ owner[On(next)] = other
    BY <2>1 DEF WaitsFor
  <2>3. On(th) \in Monitor
    <3>1. ~Idle(th) /\ Head(todo[th]).do = "enter"
      BY <2>1 DEF At
    <3>2. PICK b : Fits(Head(todo[th]), Held(th), b)
      BY <3>1, NextStep
    <3> QED BY <3>1, <3>2 DEF Fits, On
  <2>4. Rank[On(th)] < Rank[On(next)]
    BY <2>1, <2>2, <2>3, WaitsUpwards
  <2>5. Rank[On(th)] \in 1 .. 5
    BY <2>3, RankType
  <2> QED BY <2>1, <2>4, <2>5
<1> HIDE DEF r
<1>2. ASSUME NEW k \in 1 .. 5, \E th \in S : r(th) >= k
      PROVE  \E th \in S : r(th) >= k + 1
  <2>1. PICK th \in S : r(th) >= k
    BY <1>2
  <2>2. PICK next \in S : r(th) < r(next)
    BY <1>1
  <2>3. r(th) \in 1 .. 5 /\ r(next) \in 1 .. 5
    BY <1>1
  <2> QED BY <2>1, <2>2, <2>3
<1>3. PICK th \in S : TRUE
  <2>1. S # {}
    OBVIOUS
  <2> QED BY <2>1
<1>4. \E t \in S : r(t) >= 1
  <2>1. r(th) \in 1 .. 5
    BY <1>1
  <2> QED BY <2>1
<1>5. \E t \in S : r(t) >= 2
  BY <1>2, <1>4
<1>6. \E t \in S : r(t) >= 3
  BY <1>2, <1>5
<1>7. \E t \in S : r(t) >= 4
  BY <1>2, <1>6
<1>8. \E t \in S : r(t) >= 5
  BY <1>2, <1>7
<1>9. \E t \in S : r(t) >= 6
  BY <1>2, <1>8
<1>10. PICK t \in S : r(t) >= 6
  BY <1>9
<1>11. r(t) \in 1 .. 5
  BY <1>1
<1> QED BY <1>10, <1>11

(***************************************************************************)
(* Whatever requests run together, what is left of each leads its thread   *)
(* from the monitors and the connections it holds to none, in the order of *)
(* the ranks; monitors are owned by who has entered them.                  *)
(***************************************************************************)
THEOREM Invariance ==
  ASSUME Kinds \subseteq Ranked
  PROVE  Spec => []IInv
<1>1. Init => IInv
  BY IInvInit
<1>2. IInv /\ [Next]_vars => IInv'
  BY IInvNext
<1> QED BY <1>1, <1>2, PTL DEF Spec

(***************************************************************************)
(* Monitors have owners exactly while they are entered, and the threads    *)
(* number their connections within the pool.                               *)
(***************************************************************************)
THEOREM TypeCorrect ==
  ASSUME Kinds \subseteq Ranked
  PROVE  Spec => []TypeOK
<1>1. IInv => TypeOK
  BY IInvTypes
<1> QED BY <1>1, Invariance, PTL

(***************************************************************************)
(* With any number of threads, over any pool and whatever times out, a     *)
(* request that is done holds no monitor and no connection, and no more    *)
(* connections are out than there are.                                     *)
(***************************************************************************)
THEOREM RequestsHoldNothing ==
  ASSUME Kinds \subseteq Ranked
  PROVE  Spec => []NothingLeaks
<1>1. IInv => NothingLeaks
  BY IInvLeaks
<1> QED BY <1>1, Invariance, PTL

(***************************************************************************)
(* Any number of threads that serve requests other than the two audit      *)
(* queries never wait for each other's monitors in a circle.               *)
(***************************************************************************)
THEOREM MonitorsAreOrdered ==
  ASSUME Kinds \subseteq Ranked
  PROVE  Spec => []NoDeadlock
<1>1. IInv => NoDeadlock
  BY IInvDeadlock
<1> QED BY <1>1, Invariance, PTL
=============================================================================
