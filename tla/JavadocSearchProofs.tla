------------------------- MODULE JavadocSearchProofs -------------------------
(***************************************************************************)
(* The menu of the documentation search answers, explains and leads right, *)
(* for any indices and terms, whatever the reader does and whenever the    *)
(* indices arrive.                                                         *)
(***************************************************************************)
EXTENDS JavadocSearch, SequenceTheorems, FiniteSetTheorems, TLAPS

-----------------------------------------------------------------------------
(* The box and the widget *)

Boxes ==
  /\ loaded \subseteq DOMAIN Index /\ had \subseteq loaded
  /\ text \in Term \cup {<<>>, Watermark}
  /\ term \in Term \cup {<<>>}
  /\ {watermark, focused, searching} \subseteq BOOLEAN

\* The delay runs only after the reader has written something.
Watermarked ==
  /\ text = Watermark => watermark
  /\ searching => text # Watermark

Answered == rows # <<>> => term # <<>> /\ rows = Source(term, had)

IInv == Boxes /\ Watermarked /\ Answered

LEMMA WatermarkIsNoTerm == Watermark \notin Term /\ Watermark # <<>> /\ <<>> \notin Term
  BY TermAssumption DEF Watermark

LEMMA IInvInit == Init => IInv
  <1> SUFFICES ASSUME Init PROVE IInv
    OBVIOUS
  <1>1. Boxes
    BY DEF Init, Boxes
  <1>2. Watermarked /\ Answered
    BY DEF Init, Watermarked, Answered
  <1>3. QED
    BY <1>1, <1>2 DEF IInv

(***************************************************************************)
(* A search of a text leaves the menu closed or answering that text.       *)
(***************************************************************************)
LEMMA SearchAnswers ==
  ASSUME NEW value, value \in Term \cup {<<>>}, loaded \subseteq DOMAIN Index, Search(value),
         loaded' = loaded
  PROVE  /\ term' \in Term \cup {<<>>} /\ had' \subseteq loaded'
         /\ Answered'
  <1>1. term' = value /\ had' = loaded
    BY DEF Search
  <1>2. CASE value = <<>>
    <2>1. rows' = <<>>
      BY <1>2 DEF Search, Close
    <2>2. QED
      BY <1>1, <2>1 DEF Answered
  <1>3. CASE value # <<>>
    <2>1. rows' = Source(value, loaded)
      BY <1>3 DEF Search
    <2>2. rows' = Source(term', had')
      BY <1>1, <2>1
    <2>3. QED
      BY <1>1, <1>3, <2>2 DEF Answered
  <1>4. QED
    BY <1>2, <1>3

LEMMA IInvStep == IInv /\ [Next]_vars => IInv'
  <1> SUFFICES ASSUME IInv, [Next]_vars PROVE IInv'
    OBVIOUS
  <1> USE DEF IInv
  <1>1. ASSUME NEW category \in DOMAIN Index, LoadScripts(category) PROVE IInv'
    <2>1. loaded' = loaded \cup {category} /\ UNCHANGED <<box, widget>>
      BY <1>1 DEF LoadScripts
    <2>2. Boxes' /\ Watermarked' /\ Answered'
      BY <2>1 DEF Boxes, Watermarked, Answered, box, widget
    <2>3. QED
      BY <2>2
  <1>2. ASSUME ClickBox PROVE IInv'
    <2>1. focused' = TRUE /\ UNCHANGED <<loaded, searching, term, rows, had>> /\ ClearWatermark
      BY <1>2 DEF ClickBox, widget
    <2>2. text' \in Term \cup {<<>>, Watermark} /\ watermark' \in BOOLEAN
      BY <2>1 DEF ClearWatermark, Boxes
    <2>3. Boxes'
      BY <2>1, <2>2 DEF Boxes
    <2>4. text' # Watermark
      BY <2>1, WatermarkIsNoTerm DEF ClearWatermark
    <2>5. Watermarked' /\ Answered'
      BY <2>1, <2>4 DEF Watermarked, Answered
    <2>6. QED
      BY <2>3, <2>5
  <1>3. ASSUME TabToBox PROVE IInv'
    <2>1. focused' = TRUE /\ UNCHANGED <<loaded, text, watermark, searching, term, rows, had>>
      BY <1>3 DEF TabToBox, widget
    <2>2. Boxes' /\ Watermarked' /\ Answered'
      BY <2>1 DEF Boxes, Watermarked, Answered
    <2>3. QED
      BY <2>2
  <1>4. ASSUME Arrow PROVE IInv'
    <2>1. UNCHANGED <<loaded, focused, searching>>
      BY <1>4 DEF Arrow
    <2>2. CASE rows = <<>> /\ ClearWatermark /\ Search(text')
      <3>1. text' \in Term \cup {<<>>} /\ watermark' \in BOOLEAN
        BY <2>2 DEF ClearWatermark, Boxes
      <3>2. term' \in Term \cup {<<>>} /\ had' \subseteq loaded' /\ Answered'
        BY <2>1, <2>2, <3>1, SearchAnswers DEF Boxes
      <3>3. Boxes'
        BY <2>1, <3>1, <3>2 DEF Boxes
      <3>4. Watermarked'
        BY <3>1, WatermarkIsNoTerm DEF Watermarked
      <3>5. QED
        BY <3>2, <3>3, <3>4
    <2>3. CASE text' \in {<<>>, term} /\ UNCHANGED <<watermark, term, rows, had>>
      <3>1. text' \in Term \cup {<<>>}
        BY <2>3 DEF Boxes
      <3>2. Boxes' /\ Answered'
        BY <2>1, <2>3, <3>1 DEF Boxes, Answered
      <3>3. Watermarked'
        BY <3>1, WatermarkIsNoTerm DEF Watermarked
      <3>4. QED
        BY <3>2, <3>3
    <2>4. QED
      BY <1>4, <2>2, <2>3 DEF Arrow
  <1>5. ASSUME Escape PROVE IInv'
    <2>1. text' = term /\ rows' = <<>> /\ UNCHANGED <<loaded, watermark, focused, searching, term, had>>
      BY <1>5 DEF Escape, Close
    <2>2. Boxes' /\ Answered'
      BY <2>1 DEF Boxes, Answered
    <2>3. Watermarked'
      BY <2>1, WatermarkIsNoTerm DEF Watermarked, Boxes
    <2>4. QED
      BY <2>2, <2>3
  <1>6. ASSUME LeaveBox PROVE IInv'
    <2>1. /\ focused' = FALSE /\ searching' = FALSE /\ rows' = <<>> /\ SetWatermark
          /\ UNCHANGED <<loaded, term, had>>
      BY <1>6 DEF LeaveBox, Close
    <2>2. text' \in Term \cup {<<>>, Watermark} /\ watermark' \in BOOLEAN
      BY <2>1 DEF SetWatermark, Boxes
    <2>3. Boxes' /\ Answered'
      BY <2>1, <2>2 DEF Boxes, Answered
    <2>4. Watermarked'
      BY <2>1 DEF SetWatermark, Watermarked
    <2>5. QED
      BY <2>3, <2>4
  <1>7. ASSUME Reset PROVE IInv'
    <2>1. /\ text' = <<>> /\ focused' = TRUE /\ searching' = FALSE /\ rows' = <<>>
          /\ watermark' \in BOOLEAN /\ UNCHANGED <<loaded, term, had>>
      BY <1>7 DEF Reset, Close
    <2>2. Boxes' /\ Answered'
      BY <2>1 DEF Boxes, Answered
    <2>3. Watermarked'
      BY <2>1, WatermarkIsNoTerm DEF Watermarked
    <2>4. QED
      BY <2>2, <2>3
  <1>8. ASSUME NEW new \in Term \cup {<<>>}, Type(new) PROVE IInv'
    <2>1. /\ text' = new /\ searching' = TRUE /\ watermark' \in BOOLEAN
          /\ UNCHANGED <<loaded, focused, term, rows, had>>
      BY <1>8 DEF Type
    <2>2. Boxes' /\ Answered'
      BY <2>1 DEF Boxes, Answered
    <2>3. Watermarked'
      BY <2>1, WatermarkIsNoTerm DEF Watermarked
    <2>4. QED
      BY <2>2, <2>3
  <1>9. ASSUME Delay PROVE IInv'
    <2>1. searching /\ searching' = FALSE /\ UNCHANGED <<loaded, text, watermark, focused>>
      BY <1>9 DEF Delay, box
    <2>2. text \in Term \cup {<<>>}
      BY <2>1 DEF Boxes, Watermarked
    <2>3. term' \in Term \cup {<<>>} /\ had' \subseteq loaded' /\ Answered'
      <3>1. CASE Search(text)
        BY <2>1, <2>2, <3>1, SearchAnswers DEF Boxes
      <3>2. CASE UNCHANGED <<term, rows, had>>
        BY <2>1, <3>2 DEF Boxes, Answered
      <3>3. QED
        BY <1>9, <3>1, <3>2 DEF Delay
    <2>4. Boxes' /\ Watermarked'
      BY <2>1, <2>3 DEF Boxes, Watermarked
    <2>5. QED
      BY <2>3, <2>4
  <1>10. ASSUME NEW row \in Range(rows), Select(row) PROVE IInv'
    <2>1. /\ text' = <<>> /\ term' = <<>> /\ rows' = <<>> /\ focused' = TRUE
          /\ UNCHANGED <<loaded, watermark, searching, had>>
      BY <1>10 DEF Select, Close
    <2>2. Boxes' /\ Answered'
      BY <2>1 DEF Boxes, Answered
    <2>3. Watermarked'
      BY <2>1, WatermarkIsNoTerm DEF Watermarked
    <2>4. QED
      BY <2>2, <2>3
  <1>11. ASSUME UNCHANGED vars PROVE IInv'
    <2>1. UNCHANGED <<loaded, text, watermark, focused, searching, term, rows, had>>
      BY <1>11 DEF vars, box, widget
    <2>2. Boxes' /\ Watermarked' /\ Answered'
      BY <2>1 DEF Boxes, Watermarked, Answered
    <2>3. QED
      BY <2>2
  <1>12. QED
    BY <1>1, <1>2, <1>3, <1>4, <1>5, <1>6, <1>7, <1>8, <1>9, <1>10, <1>11 DEF Next

LEMMA AlwaysAnswered == Spec => []IInv
  BY IInvInit, IInvStep, PTL DEF Spec

(***************************************************************************)
(* The watermark is never searched for, and always looks like one.         *)
(***************************************************************************)
THEOREM WatermarkNeverSearched == Spec => []WatermarkNotSearched
  <1>1. IInv => WatermarkNotSearched
    BY WatermarkIsNoTerm DEF IInv, Boxes, Watermarked, WatermarkNotSearched
  <1>2. QED
    BY <1>1, AlwaysAnswered, PTL

-----------------------------------------------------------------------------
(* Filters *)

\* What stands below x in the order R of S.
Below(S, R, x) == {y \in S : <<y, x>> \in R}

(***************************************************************************)
(* In a finite set with a strict total order, R, every rank is taken and   *)
(* ranks rise with the order.                                              *)
(***************************************************************************)
LEMMA Ranks ==
  ASSUME NEW S, IsFiniteSet(S), NEW R,
         \A x \in S : <<x, x>> \notin R,
         \A x, y \in S : x = y \/ <<x, y>> \in R \/ <<y, x>> \in R,
         \A x, y, z \in S : <<x, y>> \in R /\ <<y, z>> \in R => <<x, z>> \in R
  PROVE  /\ Cardinality(S) \in Nat
         /\ \A k \in 1 .. Cardinality(S) : \E x \in S : Cardinality(Below(S, R, x)) = k - 1
         /\ \A x \in S : Cardinality(Below(S, R, x)) \in 0 .. Cardinality(S) - 1
         /\ \A x, y \in S :
              <<x, y>> \in R => Cardinality(Below(S, R, x)) < Cardinality(Below(S, R, y))
  <1>1. Cardinality(S) \in Nat
    BY FS_CardinalityType
  <1>2. ASSUME NEW x \in S
        PROVE  /\ IsFiniteSet(Below(S, R, x)) /\ Cardinality(Below(S, R, x)) \in Nat
               /\ Cardinality(Below(S, R, x)) < Cardinality(S)
    <2>1. Below(S, R, x) \in SUBSET S /\ Below(S, R, x) # S
      BY DEF Below
    <2>2. QED
      BY <1>1, <2>1, FS_Subset, FS_CardinalityType
  <1>3. ASSUME NEW x \in S, NEW y \in S, <<x, y>> \in R
        PROVE  Cardinality(Below(S, R, x)) < Cardinality(Below(S, R, y))
    <2>1. Below(S, R, x) \in SUBSET Below(S, R, y) /\ Below(S, R, x) # Below(S, R, y)
      BY <1>3 DEF Below
    <2>2. QED
      BY <1>2, <2>1, FS_Subset
  <1> DEFINE rank == [x \in S |-> Cardinality(Below(S, R, x)) + 1]
             n == Cardinality(S)
  <1>4. rank \in [S -> 1 .. n]
    BY <1>1, <1>2
  <1>5. \A x, y \in S : rank[x] = rank[y] => x = y
    <2>1. SUFFICES ASSUME NEW x \in S, NEW y \in S, x # y PROVE rank[x] # rank[y]
      OBVIOUS
    <2>2. <<x, y>> \in R \/ <<y, x>> \in R
      BY <2>1
    <2>3. QED
      BY <1>2, <1>3, <2>2
  <1>6. rank \in Injection(S, 1 .. n)
    BY <1>4, <1>5 DEF Injection, IsInjective
  <1>7. IsFiniteSet(1 .. n) /\ Cardinality(1 .. n) = n
    BY <1>1, FS_Interval
  <1>8. rank \in Surjection(S, 1 .. n)
    BY <1>6, <1>7, FS_Injection
  <1>9. ASSUME NEW k \in 1 .. n PROVE \E x \in S : rank[x] = k
    BY <1>8 DEF Surjection
  <1>10. QED
    BY <1>1, <1>2, <1>3, <1>9

\* at has the places, in their order.
Lists(at, places) ==
  /\ Cardinality(places) \in Nat
  /\ at \in [1 .. Cardinality(places) -> places]
  /\ \A i \in places : \E k \in 1 .. Cardinality(places) : at[k] = i
  /\ \A k, l \in 1 .. Cardinality(places) : k < l => at[k] < at[l]

(***************************************************************************)
(* Ordered by the smaller number lists the places.                         *)
(***************************************************************************)
LEMMA OrderedLists ==
  ASSUME NEW places \in SUBSET Int, IsFiniteSet(places)
  PROVE  /\ Lists(Ordered(places, <), places)
         /\ \A i \in places :
              Cardinality({j \in places : j < i}) \in 0 .. Cardinality(places) - 1
         /\ \A k \in 1 .. Cardinality(places) :
              Cardinality({j \in places : j < Ordered(places, <)[k]}) = k - 1
  <1> DEFINE R == {x \in places \X places : x[1] < x[2]}
             Earlier(i) == {j \in places : j < i}
             n == Cardinality(places)
             at == Ordered(places, <)
  <1>1. \A i \in places : Below(places, R, i) = Earlier(i)
    BY DEF Below
  <1>2. /\ n \in Nat
        /\ \A k \in 1 .. n : \E i \in places : Cardinality(Earlier(i)) = k - 1
        /\ \A i \in places : Cardinality(Earlier(i)) \in 0 .. n - 1
        /\ \A i, j \in places : i < j => Cardinality(Earlier(i)) < Cardinality(Earlier(j))
    <2>1. /\ \A x \in places : <<x, x>> \notin R
          /\ \A x, y \in places : x = y \/ <<x, y>> \in R \/ <<y, x>> \in R
          /\ \A x, y, z \in places : <<x, y>> \in R /\ <<y, z>> \in R => <<x, z>> \in R
          /\ \A x, y \in places : x < y => <<x, y>> \in R
      OBVIOUS
    <2> HIDE DEF R
    <2>2. /\ Cardinality(places) \in Nat
          /\ \A k \in 1 .. Cardinality(places) : \E x \in places : Cardinality(Below(places, R, x)) = k - 1
          /\ \A x \in places : Cardinality(Below(places, R, x)) \in 0 .. Cardinality(places) - 1
          /\ \A x, y \in places :
               <<x, y>> \in R => Cardinality(Below(places, R, x)) < Cardinality(Below(places, R, y))
      BY <2>1, Ranks
    <2> HIDE DEF Earlier, n
    <2>3. QED
      BY <1>1, <2>1, <2>2 DEF n
  <1>3. at = [k \in 1 .. n |-> CHOOSE i \in places : Cardinality(Earlier(i)) = k - 1]
    BY DEF Ordered
  <1> HIDE DEF R, Earlier, n, at
  <1>4. ASSUME NEW k \in 1 .. n PROVE at[k] \in places /\ Cardinality(Earlier(at[k])) = k - 1
    <2>1. at[k] = CHOOSE i \in places : Cardinality(Earlier(i)) = k - 1
      BY <1>3
    <2>2. QED
      BY <1>2, <2>1
  <1>5. \A i, j \in places : Cardinality(Earlier(i)) = Cardinality(Earlier(j)) => i = j
    <2>1. ASSUME NEW i \in places, NEW j \in places, Cardinality(Earlier(i)) = Cardinality(Earlier(j)) PROVE i = j
      <3>1. i = j \/ i < j \/ j < i
        OBVIOUS
      <3>2. QED
        BY <1>2, <2>1, <3>1
    <2>2. QED
      BY <2>1
  <1>6. ASSUME NEW i \in places PROVE \E k \in 1 .. n : at[k] = i
    <2>1. Cardinality(Earlier(i)) \in 0 .. n - 1 /\ n \in Nat
      BY <1>2
    <2>2. PICK k \in 1 .. n : Cardinality(Earlier(i)) = k - 1
      BY <2>1
    <2>3. at[k] \in places /\ Cardinality(Earlier(at[k])) = Cardinality(Earlier(i))
      BY <1>4, <2>2
    <2>4. QED
      BY <1>5, <2>3
  <1>7. ASSUME NEW k \in 1 .. n, NEW l \in 1 .. n, k < l PROVE at[k] < at[l]
    <2>1. at[k] \in places /\ Cardinality(Earlier(at[k])) = k - 1
      BY <1>4
    <2>2. at[l] \in places /\ Cardinality(Earlier(at[l])) = l - 1
      BY <1>4
    <2>3. at[k] \in Int /\ at[l] \in Int /\ k - 1 < l - 1
      <3>1. k \in Int /\ l \in Int /\ n \in Int
        BY <1>2
      <3>2. places \subseteq Int
        OBVIOUS
      <3>3. at[k] \in Int /\ at[l] \in Int
        BY <2>1, <2>2, <3>2
      <3>4. QED
        BY <1>7, <3>1, <3>3
    <2>4. at[k] # at[l]
      BY <2>1, <2>2, <2>3
    <2>5. ~(at[l] < at[k])
      <3>1. SUFFICES ASSUME at[l] < at[k] PROVE FALSE
        OBVIOUS
      <3>2. Cardinality(Earlier(at[l])) < Cardinality(Earlier(at[k]))
        BY <1>2, <2>1, <2>2, <3>1
      <3>3. QED
        BY <2>1, <2>2, <2>3, <3>2
    <2>6. QED
      BY <2>3, <2>4, <2>5
  <1>8. at \in [1 .. n -> places]
    BY <1>3, <1>4
  <1>9. Lists(at, places)
    BY <1>2, <1>6, <1>7, <1>8 DEF Lists, n
  <1>10. QED
    BY <1>2, <1>4, <1>9 DEF at, Earlier, n

(***************************************************************************)
(* Pick has the elements at the places.                                    *)
(***************************************************************************)
LEMMA PickLists ==
  ASSUME NEW S, NEW s \in Seq(S), NEW places \in SUBSET (DOMAIN s)
  PROVE  /\ Cardinality(places) \in Nat
         /\ Pick(s, places) \in Seq(S) /\ Len(Pick(s, places)) = Cardinality(places)
         /\ \E at : /\ Lists(at, places)
                    /\ \A k \in 1 .. Cardinality(places) : Pick(s, places)[k] = s[at[k]]
  <1>1. IsFiniteSet(places) /\ places \in SUBSET Int
    <2>1. Len(s) \in Nat /\ DOMAIN s = 1 .. Len(s)
      OBVIOUS
    <2>2. IsFiniteSet(1 .. Len(s))
      BY <2>1, FS_Interval
    <2>3. QED
      BY <2>1, <2>2, FS_Subset
  <1> DEFINE at == Ordered(places, <)
             n == Cardinality(places)
  <1>2. Lists(at, places)
    BY <1>1, OrderedLists
  <1>3. Pick(s, places) = [k \in DOMAIN at |-> s[at[k]]]
    BY DEF Pick
  <1> HIDE DEF at
  <1>4. n \in Nat /\ DOMAIN at = 1 .. n /\ \A k \in 1 .. n : at[k] \in DOMAIN s
    BY <1>2 DEF Lists
  <1> HIDE DEF n
  <1>5. \A k \in 1 .. n : s[at[k]] \in S
    BY <1>4
  <1>6. Pick(s, places) = [k \in 1 .. n |-> s[at[k]]]
    BY <1>3, <1>4
  <1>7. Pick(s, places) \in Seq(S) /\ Len(Pick(s, places)) = n
    BY <1>4, <1>5, <1>6
  <1>8. QED
    BY <1>2, <1>4, <1>6, <1>7 DEF n

\* Each once.
Distinct(s) == \A i, j \in DOMAIN s : s[i] = s[j] => i = j

LEMMA SameSize ==
  ASSUME NEW S, IsFiniteSet(S), NEW T, NEW f \in [S -> T],
         \A x, y \in S : f[x] = f[y] => x = y,
         \A z \in T : \E x \in S : f[x] = z
  PROVE  IsFiniteSet(T) /\ Cardinality(T) = Cardinality(S)
  <1>1. f \in Bijection(S, T)
    BY DEF Bijection, Injection, Surjection, IsInjective
  <1>2. QED
    BY <1>1, FS_Bijection DEF ExistsBijection

(***************************************************************************)
(* Pick from a list that has each once lists a set.                        *)
(***************************************************************************)
LEMMA PickDistinct ==
  ASSUME NEW S, NEW s \in Seq(S), Distinct(s), NEW places \in SUBSET (DOMAIN s)
  PROVE  /\ Pick(s, places) \in Seq(S) /\ Distinct(Pick(s, places))
         /\ \A k \in DOMAIN Pick(s, places) : \E i \in places : Pick(s, places)[k] = s[i]
         /\ \A i \in places : \E k \in DOMAIN Pick(s, places) : Pick(s, places)[k] = s[i]
         /\ Len(Pick(s, places)) \in Nat
         /\ Len(Pick(s, places)) = Cardinality({s[i] : i \in places})
  <1> DEFINE p == Pick(s, places)
             n == Cardinality(places)
  <1>1. n \in Nat /\ p \in Seq(S) /\ Len(p) = n
    BY PickLists
  <1>2. PICK at : Lists(at, places) /\ \A k \in 1 .. n : p[k] = s[at[k]]
    BY PickLists
  <1>3. IsFiniteSet(places)
    <2>1. Len(s) \in Nat /\ DOMAIN s = 1 .. Len(s)
      OBVIOUS
    <2>2. IsFiniteSet(1 .. Len(s))
      BY <2>1, FS_Interval
    <2>3. QED
      BY <2>1, <2>2, FS_Subset
  <1> HIDE DEF p
  <1>4. DOMAIN p = 1 .. n
    BY <1>1
  <1>5. /\ \A k \in 1 .. n : at[k] \in places
        /\ \A i \in places : \E k \in 1 .. n : at[k] = i
        /\ \A k, l \in 1 .. n : k < l => at[k] < at[l]
    BY <1>2 DEF Lists
  <1> HIDE DEF n
  <1>6. ASSUME NEW k \in 1 .. n, NEW l \in 1 .. n, p[k] = p[l] PROVE k = l
    <2>1. at[k] = at[l] /\ at[k] \in DOMAIN s /\ at[l] \in DOMAIN s
      BY <1>2, <1>5, <1>6 DEF Distinct
    <2>2. at[k] \in Int /\ at[l] \in Int
      <3>1. DOMAIN s \subseteq Int
        OBVIOUS
      <3>2. QED
        BY <2>1, <3>1
    <2>3. k \in Int /\ l \in Int
      BY <1>1
    <2>4. ~(k < l) /\ ~(l < k)
      BY <1>5, <2>1, <2>2
    <2>5. QED
      BY <2>3, <2>4
  <1>7. Distinct(p)
    BY <1>4, <1>6 DEF Distinct
  <1>8. \A k \in 1 .. n : \E i \in places : p[k] = s[i]
    BY <1>2, <1>5
  <1>9. \A i \in places : \E k \in 1 .. n : p[k] = s[i]
    BY <1>2, <1>5
  <1>10. n = Cardinality({s[i] : i \in places})
    <2> DEFINE T == {s[i] : i \in places}
               f == [i \in places |-> s[i]]
    <2>1. f \in [places -> T] /\ \A x \in T : \E i \in places : f[i] = x
      OBVIOUS
    <2>2. \A i, j \in places : f[i] = f[j] => i = j
      BY DEF Distinct
    <2> HIDE DEF f, T
    <2>3. Cardinality(T) = Cardinality(places)
      BY <1>3, <2>1, <2>2, SameSize
    <2>4. QED
      BY <2>3 DEF n, T
  <1>11. QED
    BY <1>1, <1>4, <1>7, <1>8, <1>9, <1>10 DEF p

-----------------------------------------------------------------------------
(* What is found *)

MatchingOf(t, indices, c) ==
  {row \in Row : /\ row.category = c /\ c \in indices
                 /\ IsPrimary(t, c, row.entry) \/ IsSecondary(t, c, row.entry)}
ExactOf(t, indices, c) == {row \in MatchingOf(t, indices, c) : IsExact(t, c, row.entry)}

LEMMA RowIs ==
  ASSUME NEW row \in Row
  PROVE  /\ row.category \in DOMAIN Index /\ row.entry \in Range(Index[row.category])
         /\ row = [category |-> row.category, entry |-> row.entry]
  <1>1. PICK c \in DOMAIN Index : row \in {[category |-> c, entry |-> e] : e \in Range(Index[c])}
    BY DEF Row
  <1>2. PICK e \in Range(Index[c]) : row = [category |-> c, entry |-> e]
    BY <1>1
  <1>3. QED
    BY <1>2

LEMMA IsRow ==
  ASSUME NEW c \in DOMAIN Index, NEW e \in Range(Index[c])
  PROVE  [category |-> c, entry |-> e] \in Row
  BY DEF Row

(***************************************************************************)
(* Of an index that has arrived each entry is gone through once.           *)
(***************************************************************************)
LEMMA ListedRows ==
  ASSUME NEW indices \in SUBSET DOMAIN Index, NEW c
  PROVE  /\ Listed(indices, c) \in Seq(Row) /\ Distinct(Listed(indices, c))
         /\ \A i \in DOMAIN Listed(indices, c) :
              c \in indices /\ Listed(indices, c)[i].category = c
         /\ \A row \in Row : row.category = c /\ c \in indices =>
              \E i \in DOMAIN Listed(indices, c) : Listed(indices, c)[i] = row
  <1> DEFINE all == Entries(indices, c)
             rs == Listed(indices, c)
  <1>1. rs = [i \in DOMAIN all |-> [category |-> c, entry |-> all[i]]]
    BY DEF Listed
  <1>2. CASE c \notin indices
    <2>1. all = <<>>
      BY <1>2 DEF Entries
    <2>2. DOMAIN rs = {} /\ rs = <<>>
      BY <1>1, <2>1
    <2> HIDE DEF rs
    <2>3. QED
      BY <1>2, <2>2 DEF Distinct, rs
  <1>3. CASE c \in indices
    <2>1. c \in DOMAIN Index /\ all = Index[c]
      BY <1>3 DEF Entries
    <2>2. all \in Seq(Range(Index[c])) /\ \A i, j \in DOMAIN all : all[i] = all[j] => i = j
      BY <2>1, IndexAssumption DEF IsInjective
    <2>3. \A i \in DOMAIN all : all[i] \in Range(Index[c])
      BY <2>1, <2>2
    <2>4. \A e \in Range(Index[c]) : \E i \in DOMAIN all : all[i] = e
      BY <2>1 DEF Range
    <2> HIDE DEF all, rs
    <2>5. \A i \in DOMAIN all : rs[i] \in Row
      BY <1>1, <2>1, <2>3, IsRow
    <2>6. rs \in Seq(Row) /\ DOMAIN rs = DOMAIN all
      BY <1>1, <2>2, <2>5
    <2>7. Distinct(rs)
      BY <1>1, <2>2 DEF Distinct
    <2>8. \A i \in DOMAIN rs : rs[i].category = c
      BY <1>1
    <2>9. ASSUME NEW row \in Row, row.category = c PROVE \E i \in DOMAIN rs : rs[i] = row
      <3>1. row.entry \in Range(Index[c]) /\ row = [category |-> c, entry |-> row.entry]
        BY <2>9, RowIs
      <3>2. PICK i \in DOMAIN all : all[i] = row.entry
        BY <2>4, <3>1
      <3>3. QED
        BY <1>1, <3>1, <3>2
    <2>10. QED
      BY <1>3, <2>6, <2>7, <2>8, <2>9 DEF rs
  <1>4. QED
    BY <1>2, <1>3

Has(s, row) == \E i \in DOMAIN s : s[i] = row

(***************************************************************************)
(* What of one category the tests let through.                             *)
(***************************************************************************)
LEMMA PrimaryHits ==
  ASSUME NEW t, NEW indices \in SUBSET DOMAIN Index, NEW c
  PROVE  LET own == Hits(t, Listed(indices, c), IsPrimary)
         IN  /\ own \in Seq(Row) /\ Distinct(own)
             /\ \A row \in Row : Has(own, row) <=>
                  row.category = c /\ c \in indices /\ IsPrimary(t, c, row.entry)
  <1> DEFINE all == Listed(indices, c)
             places == {i \in DOMAIN all : IsPrimary(t, all[i].category, all[i].entry)}
             own == Hits(t, all, IsPrimary)
  <1>1. own = Pick(all, places)
    BY DEF Hits
  <1>2. /\ all \in Seq(Row) /\ Distinct(all)
        /\ \A i \in DOMAIN all : c \in indices /\ all[i].category = c
        /\ \A row \in Row : row.category = c /\ c \in indices => \E i \in DOMAIN all : all[i] = row
    BY ListedRows
  <1> HIDE DEF all, own
  <1>3. places \in SUBSET (DOMAIN all)
    OBVIOUS
  <1>4. \A i \in DOMAIN all : i \in places <=> IsPrimary(t, c, all[i].entry)
    BY <1>2
  <1> HIDE DEF places
  <1>5. /\ own \in Seq(Row) /\ Distinct(own)
        /\ \A k \in DOMAIN own : \E i \in places : own[k] = all[i]
        /\ \A i \in places : \E k \in DOMAIN own : own[k] = all[i]
    BY <1>1, <1>2, <1>3, PickDistinct
  <1>6. ASSUME NEW row \in Row
        PROVE  Has(own, row) <=> row.category = c /\ c \in indices /\ IsPrimary(t, c, row.entry)
    <2>1. Has(own, row) <=> \E i \in places : all[i] = row
      BY <1>5 DEF Has
    <2>2. (\E i \in places : all[i] = row)
            <=> row.category = c /\ c \in indices /\ IsPrimary(t, c, row.entry)
      BY <1>2, <1>3, <1>4
    <2>3. QED
      BY <2>1, <2>2
  <1>7. QED
    BY <1>5, <1>6 DEF own, all

LEMMA SecondaryHits ==
  ASSUME NEW t, NEW indices \in SUBSET DOMAIN Index, NEW c
  PROVE  LET own == Hits(t, Listed(indices, c), IsSecondary)
         IN  /\ own \in Seq(Row) /\ Distinct(own)
             /\ \A row \in Row : Has(own, row) <=>
                  row.category = c /\ c \in indices /\ IsSecondary(t, c, row.entry)
  <1> DEFINE all == Listed(indices, c)
             places == {i \in DOMAIN all : IsSecondary(t, all[i].category, all[i].entry)}
             own == Hits(t, all, IsSecondary)
  <1>1. own = Pick(all, places)
    BY DEF Hits
  <1>2. /\ all \in Seq(Row) /\ Distinct(all)
        /\ \A i \in DOMAIN all : c \in indices /\ all[i].category = c
        /\ \A row \in Row : row.category = c /\ c \in indices => \E i \in DOMAIN all : all[i] = row
    BY ListedRows
  <1> HIDE DEF all, own
  <1>3. places \in SUBSET (DOMAIN all)
    OBVIOUS
  <1>4. \A i \in DOMAIN all : i \in places <=> IsSecondary(t, c, all[i].entry)
    BY <1>2
  <1> HIDE DEF places
  <1>5. /\ own \in Seq(Row) /\ Distinct(own)
        /\ \A k \in DOMAIN own : \E i \in places : own[k] = all[i]
        /\ \A i \in places : \E k \in DOMAIN own : own[k] = all[i]
    BY <1>1, <1>2, <1>3, PickDistinct
  <1>6. ASSUME NEW row \in Row
        PROVE  Has(own, row) <=> row.category = c /\ c \in indices /\ IsSecondary(t, c, row.entry)
    <2>1. Has(own, row) <=> \E i \in places : all[i] = row
      BY <1>5 DEF Has
    <2>2. (\E i \in places : all[i] = row)
            <=> row.category = c /\ c \in indices /\ IsSecondary(t, c, row.entry)
      BY <1>2, <1>3, <1>4
    <2>3. QED
      BY <2>1, <2>2
  <1>7. QED
    BY <1>5, <1>6 DEF own, all

LEMMA ExactHits ==
  ASSUME NEW t, NEW indices \in SUBSET DOMAIN Index, NEW c
  PROVE  LET own == Hits(t, Listed(indices, c), IsExact)
         IN  Len(own) \in Nat /\ Len(own) = Cardinality(ExactOf(t, indices, c))
  <1> DEFINE all == Listed(indices, c)
             places == {i \in DOMAIN all : IsExact(t, all[i].category, all[i].entry)}
             own == Hits(t, all, IsExact)
  <1>1. own = Pick(all, places)
    BY DEF Hits
  <1>2. /\ all \in Seq(Row) /\ Distinct(all)
        /\ \A i \in DOMAIN all : c \in indices /\ all[i].category = c
        /\ \A row \in Row : row.category = c /\ c \in indices => \E i \in DOMAIN all : all[i] = row
    BY ListedRows
  <1> HIDE DEF all, own
  <1>3. places \in SUBSET (DOMAIN all)
    OBVIOUS
  <1>4. \A i \in DOMAIN all : i \in places <=> IsExact(t, c, all[i].entry)
    BY <1>2
  <1> HIDE DEF places
  <1>5. Len(own) \in Nat /\ Len(own) = Cardinality({all[i] : i \in places})
    BY <1>1, <1>2, <1>3, PickDistinct
  <1>6. {all[i] : i \in places} = ExactOf(t, indices, c)
    <2>1. ASSUME NEW i \in places PROVE all[i] \in ExactOf(t, indices, c)
      <3>1. i \in DOMAIN all /\ all[i] \in Row /\ all[i].category = c /\ c \in indices
        BY <1>2, <1>3
      <3>2. IsExact(t, c, all[i].entry)
        BY <1>3, <1>4
      <3>3. IsPrimary(t, c, all[i].entry)
        BY <3>2 DEF IsPrimary
      <3>4. QED
        BY <3>1, <3>2, <3>3 DEF ExactOf, MatchingOf
    <2>2. ASSUME NEW row \in ExactOf(t, indices, c) PROVE \E i \in places : all[i] = row
      <3>1. row \in Row /\ row.category = c /\ c \in indices /\ IsExact(t, c, row.entry)
        BY DEF ExactOf, MatchingOf
      <3>2. PICK i \in DOMAIN all : all[i] = row
        BY <1>2, <3>1
      <3>3. QED
        BY <1>4, <3>1, <3>2
    <2>3. QED
      BY <2>1, <2>2
  <1>7. QED
    BY <1>5, <1>6 DEF own, all

(***************************************************************************)
(* Two lists without a row in common, one after the other.                 *)
(***************************************************************************)
LEMMA Joined ==
  ASSUME NEW S, NEW a \in Seq(S), NEW b \in Seq(S), Distinct(a), Distinct(b),
         \A row \in S : ~(Has(a, row) /\ Has(b, row))
  PROVE  /\ a \o b \in Seq(S) /\ Distinct(a \o b)
         /\ \A row \in S : Has(a \o b, row) <=> Has(a, row) \/ Has(b, row)
         /\ \A i \in DOMAIN a : i \in DOMAIN (a \o b) /\ (a \o b)[i] = a[i]
         /\ \A i \in DOMAIN (a \o b) :
              i \in DOMAIN a \/ (i \in Int /\ i > Len(a) /\ i - Len(a) \in DOMAIN b /\ (a \o b)[i] = b[i - Len(a)])
  <1> DEFINE s == a \o b
  <1>1. s \in Seq(S) /\ Len(s) = Len(a) + Len(b) /\ Len(a) \in Nat /\ Len(b) \in Nat
    OBVIOUS
  <1>2. DOMAIN a = 1 .. Len(a) /\ DOMAIN b = 1 .. Len(b) /\ DOMAIN s = 1 .. Len(a) + Len(b)
    BY <1>1
  <1>3. \A i \in 1 .. Len(a) + Len(b) : s[i] = IF i <= Len(a) THEN a[i] ELSE b[i - Len(a)]
    BY <1>1
  <1>4. \A i \in DOMAIN a : a[i] \in S
    OBVIOUS
  <1>5. \A i \in DOMAIN b : b[i] \in S
    OBVIOUS
  <1> HIDE DEF s
  <1>6. \A i \in DOMAIN a : i \in DOMAIN s /\ s[i] = a[i]
    BY <1>1, <1>2, <1>3
  <1>7. \A i \in DOMAIN s :
          i \in DOMAIN a \/ (i \in Int /\ i > Len(a) /\ i - Len(a) \in DOMAIN b /\ s[i] = b[i - Len(a)])
    BY <1>1, <1>2, <1>3
  <1>8. \A i \in DOMAIN b : i + Len(a) \in DOMAIN s /\ s[i + Len(a)] = b[i]
    BY <1>1, <1>2, <1>3
  <1>9. ASSUME NEW row \in S PROVE Has(s, row) <=> Has(a, row) \/ Has(b, row)
    BY <1>6, <1>7, <1>8 DEF Has
  <1>10. ASSUME NEW i \in DOMAIN s, NEW j \in DOMAIN s, s[i] = s[j] PROVE i = j
    <2>1. CASE i \in DOMAIN a /\ j \in DOMAIN a
      BY <1>6, <1>10, <2>1 DEF Distinct
    <2>2. CASE i \in DOMAIN a /\ j \notin DOMAIN a
      <3>1. s[i] = a[i] /\ a[i] \in S /\ j - Len(a) \in DOMAIN b /\ s[j] = b[j - Len(a)]
        BY <1>4, <1>6, <1>7, <2>2
      <3>2. Has(a, s[i]) /\ Has(b, s[i]) /\ s[i] \in S
        BY <1>10, <2>2, <3>1 DEF Has
      <3>3. QED
        BY <3>2
    <2>3. CASE i \notin DOMAIN a /\ j \in DOMAIN a
      <3>1. s[j] = a[j] /\ a[j] \in S /\ i - Len(a) \in DOMAIN b /\ s[i] = b[i - Len(a)]
        BY <1>4, <1>6, <1>7, <2>3
      <3>2. Has(a, s[j]) /\ Has(b, s[j]) /\ s[j] \in S
        BY <1>10, <2>3, <3>1 DEF Has
      <3>3. QED
        BY <3>2
    <2>4. CASE i \notin DOMAIN a /\ j \notin DOMAIN a
      <3>1. /\ i \in Int /\ i - Len(a) \in DOMAIN b /\ s[i] = b[i - Len(a)]
            /\ j \in Int /\ j - Len(a) \in DOMAIN b /\ s[j] = b[j - Len(a)]
        BY <1>7, <2>4
      <3>2. i - Len(a) = j - Len(a)
        BY <1>10, <3>1 DEF Distinct
      <3>3. QED
        BY <1>1, <3>1, <3>2
    <2>5. QED
      BY <2>1, <2>2, <2>3, <2>4
  <1>11. Distinct(s)
    BY <1>10 DEF Distinct
  <1>12. QED
    BY <1>1, <1>6, <1>7, <1>9, <1>11 DEF s

LEMMA CategoriesAre ==
  /\ DOMAIN Categories = 1 .. 5
  /\ Categories[1] = "Modules" /\ Categories[2] = "Packages" /\ Categories[3] = "Types"
  /\ Categories[4] = "Members" /\ Categories[5] = "SearchTags"
  /\ \A k, l \in 1 .. 5 : Categories[k] = Categories[l] => k = l
  /\ Range(Categories) = {Categories[k] : k \in 1 .. 5}
  <1>1. DOMAIN Categories = 1 .. 5
    BY DEF Categories
  <1>2. /\ Categories[1] = "Modules" /\ Categories[2] = "Packages" /\ Categories[3] = "Types"
        /\ Categories[4] = "Members" /\ Categories[5] = "SearchTags"
    BY DEF Categories
  <1>3. \A k \in 1 .. 5 : k = 1 \/ k = 2 \/ k = 3 \/ k = 4 \/ k = 5
    OBVIOUS
  <1>4. ASSUME NEW k \in 1 .. 5, NEW l \in 1 .. 5, Categories[k] = Categories[l] PROVE k = l
    BY <1>2, <1>3, <1>4
  <1>5. Range(Categories) = {Categories[k] : k \in 1 .. 5}
    BY <1>1 DEF Range
  <1>6. QED
    BY <1>1, <1>2, <1>4, <1>5

\* Rows of the first n categories, category by category.
Sorted(s, n) ==
  /\ \A i \in DOMAIN s : \E k \in 1 .. n : s[i].category = Categories[k]
  /\ \A i, j \in DOMAIN s : i < j =>
       \A k, l \in 1 .. 5 :
         s[i].category = Categories[k] /\ s[j].category = Categories[l] => k <= l

LEMMA SortedGives ==
  ASSUME NEW s, NEW n, Sorted(s, n), NEW i \in DOMAIN s, NEW j \in DOMAIN s, i < j,
         NEW k \in 1 .. 5, NEW l \in 1 .. 5,
         s[i].category = Categories[k], s[j].category = Categories[l]
  PROVE  k <= l
  BY Zenon DEF Sorted

(***************************************************************************)
(* Rows of the last category may be put at the end.                        *)
(***************************************************************************)
LEMMA SortedJoined ==
  ASSUME NEW n \in 1 .. 5, NEW a \in Seq(Row), NEW b \in Seq(Row), Distinct(a), Distinct(b),
         \A row \in Row : ~(Has(a, row) /\ Has(b, row)),
         Sorted(a, n), \A i \in DOMAIN b : b[i].category = Categories[n]
  PROVE  Sorted(a \o b, n)
  <1> DEFINE s == a \o b
  <1>1. /\ \A i \in DOMAIN a : i \in DOMAIN s /\ s[i] = a[i]
        /\ \A i \in DOMAIN s :
             i \in DOMAIN a \/ (i \in Int /\ i > Len(a) /\ i - Len(a) \in DOMAIN b /\ s[i] = b[i - Len(a)])
    BY Joined
  <1>2. DOMAIN a = 1 .. Len(a) /\ Len(a) \in Nat
    OBVIOUS
  <1> HIDE DEF s
  <1>3. \A i \in DOMAIN s : i \notin DOMAIN a => i > Len(a) /\ i \in Int /\ s[i].category = Categories[n]
    BY <1>1
  <1>4. ASSUME NEW i \in DOMAIN s PROVE \E k \in 1 .. n : s[i].category = Categories[k]
    <2>1. CASE i \in DOMAIN a
      BY <1>1, <2>1 DEF Sorted
    <2>2. CASE i \notin DOMAIN a
      <3>1. s[i].category = Categories[n] /\ n \in 1 .. n
        BY <1>3, <2>2
      <3>2. QED
        BY <3>1
    <2>3. QED
      BY <2>1, <2>2
  <1>5. ASSUME NEW i \in DOMAIN s, NEW j \in DOMAIN s, i < j, NEW k \in 1 .. 5, NEW l \in 1 .. 5,
               s[i].category = Categories[k], s[j].category = Categories[l]
        PROVE  k <= l
    <2>1. CASE i \in DOMAIN a /\ j \in DOMAIN a
      BY <1>1, <1>5, <2>1 DEF Sorted
    <2>2. CASE j \notin DOMAIN a
      <3>1. l = n
        BY <1>3, <1>5, <2>2, CategoriesAre
      <3>2. PICK m \in 1 .. n : s[i].category = Categories[m]
        BY <1>4
      <3>3. m \in 1 .. 5
        OBVIOUS
      <3>4. k = m
        BY <1>5, <3>2, <3>3, CategoriesAre
      <3>5. QED
        BY <3>1, <3>4
    <2>3. CASE i \notin DOMAIN a /\ j \in DOMAIN a
      BY <1>2, <1>3, <1>5, <2>3
    <2>4. QED
      BY <2>1, <2>2, <2>3
  <1>6. Sorted(s, n)
    BY <1>4, <1>5 DEF Sorted
  <1>7. QED
    BY <1>6 DEF s

\* What is found after n categories.
Good(found, t, indices, n) ==
  /\ found.secondary = <<>>
  /\ found.result \in Seq(Row) /\ Distinct(found.result) /\ Sorted(found.result, n)
  /\ \A row \in Row :
       Has(found.result, row) <=> \E k \in 1 .. n : row \in MatchingOf(t, indices, Categories[k])
  /\ found.displayCount \in Nat /\ found.displayCount >= Limit
  /\ \A k \in 1 .. n : Cardinality(ExactOf(t, indices, Categories[k])) <= found.displayCount
  /\ \/ found.displayCount = Limit
     \/ \E k \in 1 .. n : found.displayCount = Cardinality(ExactOf(t, indices, Categories[k]))

LEMMA CollectFinds ==
  ASSUME NEW t, NEW indices \in SUBSET DOMAIN Index, NEW n \in 1 .. 5, NEW found,
         Good(found, t, indices, n - 1)
  PROVE  Good(Collect(t, indices, found, Categories[n]), t, indices, n)
  <1> DEFINE c == Categories[n]
             own == Hits(t, Listed(indices, c), IsPrimary)
             more == Hits(t, Listed(indices, c), IsSecondary)
             exact == Len(Hits(t, Listed(indices, c), IsExact))
             new == Collect(t, indices, found, c)
             count == found.displayCount
  <1>0. new = [ConcatResults(found, own, more) EXCEPT !.displayCount =
                 IF exact > @ THEN exact ELSE @]
    BY ZenonT(60) DEF Collect
  <1> HIDE DEF new, own, more, exact, c
  <1>1. /\ new.secondary = <<>>
        /\ new.result = found.result \o own \o found.secondary \o more
        /\ new.displayCount = IF exact > count THEN exact ELSE count
    BY <1>0 DEF ConcatResults
  <1>2. /\ own \in Seq(Row) /\ Distinct(own)
        /\ \A row \in Row : Has(own, row) <=>
             row.category = c /\ c \in indices /\ IsPrimary(t, c, row.entry)
    BY ZenonT(60), PrimaryHits DEF own
  <1>3. /\ more \in Seq(Row) /\ Distinct(more)
        /\ \A row \in Row : Has(more, row) <=>
             row.category = c /\ c \in indices /\ IsSecondary(t, c, row.entry)
    BY ZenonT(60), SecondaryHits DEF more
  <1>4. exact \in Nat /\ exact = Cardinality(ExactOf(t, indices, c))
    BY ZenonT(60), ExactHits DEF exact
  <1>5. /\ found.secondary = <<>> /\ found.result \in Seq(Row) /\ Distinct(found.result)
        /\ Sorted(found.result, n - 1)
        /\ \A row \in Row : Has(found.result, row)
             <=> \E k \in 1 .. n - 1 : row \in MatchingOf(t, indices, Categories[k])
    BY DEF Good
  <1>6. Sorted(found.result, n)
    BY <1>5 DEF Sorted
  <1>7. \A i \in DOMAIN own : own[i] \in Row /\ own[i].category = c
    <2>1. \A i \in DOMAIN own : own[i] \in Row /\ Has(own, own[i])
      BY <1>2 DEF Has
    <2>2. QED
      BY <1>2, <2>1
  <1>8. \A i \in DOMAIN more : more[i] \in Row /\ more[i].category = c
    <2>1. \A i \in DOMAIN more : more[i] \in Row /\ Has(more, more[i])
      BY <1>3 DEF Has
    <2>2. QED
      BY <1>3, <2>1
  <1>9. \A row \in Row : Has(found.result, row) => row.category # c
    <2>1. ASSUME NEW row \in Row, Has(found.result, row) PROVE row.category # c
      <3>1. PICK k \in 1 .. n - 1 : row \in MatchingOf(t, indices, Categories[k])
        BY <1>5, <2>1
      <3>2. row.category = Categories[k] /\ k \in 1 .. 5 /\ k # n
        BY <3>1 DEF MatchingOf
      <3>3. QED
        BY <3>2, CategoriesAre DEF c
    <2>2. QED
      BY <2>1
  <1> DEFINE first == found.result \o own
  <1>10. \A row \in Row : ~(Has(found.result, row) /\ Has(own, row))
    BY <1>2, <1>9
  <1>11. /\ first \in Seq(Row) /\ Distinct(first) /\ Sorted(first, n)
         /\ \A row \in Row : Has(first, row) <=> Has(found.result, row) \/ Has(own, row)
    <2>1. /\ first \in Seq(Row) /\ Distinct(first)
          /\ \A row \in Row : Has(first, row) <=> Has(found.result, row) \/ Has(own, row)
      BY <1>2, <1>5, <1>10, Joined
    <2>2. \A i \in DOMAIN own : own[i].category = Categories[n]
      BY <1>7 DEF c
    <2>3. Sorted(first, n)
      BY <1>2, <1>5, <1>6, <1>10, <2>2, SortedJoined
    <2>4. QED
      BY <2>1, <2>3
  <1> HIDE DEF first
  <1>12. new.result = first \o more
    <2>1. first \o <<>> = first
      BY <1>11
    <2>2. QED
      BY <1>1, <1>5, <2>1 DEF first
  <1>13. \A row \in Row : ~(Has(first, row) /\ Has(more, row))
    <2>1. ASSUME NEW row \in Row, Has(more, row) PROVE ~Has(first, row)
      <3>1. row.category = c /\ IsSecondary(t, c, row.entry)
        BY <1>3, <2>1
      <3>2. ~IsPrimary(t, c, row.entry)
        BY <3>1 DEF IsSecondary
      <3>3. QED
        BY <1>2, <1>9, <1>11, <3>1, <3>2
    <2>2. QED
      BY <2>1
  <1>14. /\ new.result \in Seq(Row) /\ Distinct(new.result) /\ Sorted(new.result, n)
         /\ \A row \in Row : Has(new.result, row) <=> Has(first, row) \/ Has(more, row)
    <2>1. /\ new.result \in Seq(Row) /\ Distinct(new.result)
          /\ \A row \in Row : Has(new.result, row) <=> Has(first, row) \/ Has(more, row)
      BY <1>3, <1>11, <1>12, <1>13, Joined
    <2>2. \A i \in DOMAIN more : more[i].category = Categories[n]
      BY <1>8 DEF c
    <2>3. Sorted(new.result, n)
      BY <1>3, <1>11, <1>12, <1>13, <2>2, SortedJoined
    <2>4. QED
      BY <2>1, <2>3
  <1>15. ASSUME NEW row \in Row
         PROVE  Has(new.result, row) <=> \E k \in 1 .. n : row \in MatchingOf(t, indices, Categories[k])
    <2>1. row \in MatchingOf(t, indices, Categories[n]) <=> Has(own, row) \/ Has(more, row)
      BY <1>2, <1>3 DEF MatchingOf, c
    <2>2. Has(new.result, row) <=> Has(found.result, row) \/ Has(own, row) \/ Has(more, row)
      BY <1>11, <1>14
    <2>3. (\E k \in 1 .. n : row \in MatchingOf(t, indices, Categories[k]))
            <=> \/ \E k \in 1 .. n - 1 : row \in MatchingOf(t, indices, Categories[k])
                \/ row \in MatchingOf(t, indices, Categories[n])
      <3>1. \A k : k \in 1 .. n <=> k \in 1 .. n - 1 \/ k = n
        OBVIOUS
      <3>2. QED
        BY <3>1
    <2>4. QED
      BY <1>5, <2>1, <2>2, <2>3
  <1>16. /\ new.displayCount \in Nat /\ new.displayCount >= Limit
         /\ new.displayCount >= exact /\ new.displayCount >= count
         /\ new.displayCount = exact \/ new.displayCount = count
    <2>1. count \in Nat /\ count >= Limit /\ Limit \in Nat
      BY LimitAssumption DEF Good
    <2>2. QED
      BY <1>1, <1>4, <2>1
  <1>17. ASSUME NEW k \in 1 .. n
         PROVE  Cardinality(ExactOf(t, indices, Categories[k])) <= new.displayCount
    <2>1. CASE k = n
      BY <1>4, <1>16, <2>1 DEF c
    <2>2. CASE k # n
      <3>1. k \in 1 .. n - 1
        BY <2>2
      <3>2. Cardinality(ExactOf(t, indices, Categories[k])) <= count /\ count \in Nat
        BY <3>1 DEF Good
      <3>3. Cardinality(ExactOf(t, indices, Categories[k])) \in Nat
        BY ExactHits
      <3>4. QED
        BY <1>16, <3>2, <3>3
    <2>3. QED
      BY <2>1, <2>2
  <1>18. \/ new.displayCount = Limit
         \/ \E k \in 1 .. n : new.displayCount = Cardinality(ExactOf(t, indices, Categories[k]))
    <2>1. CASE new.displayCount = exact
      <3>1. n \in 1 .. n
        OBVIOUS
      <3>2. QED
        BY <1>4, <2>1, <3>1 DEF c
    <2>2. CASE new.displayCount = count
      <3>1. count = Limit \/ \E k \in 1 .. n - 1 : count = Cardinality(ExactOf(t, indices, Categories[k]))
        BY DEF Good
      <3>2. \A k \in 1 .. n - 1 : k \in 1 .. n
        OBVIOUS
      <3>3. QED
        BY <2>2, <3>1, <3>2
    <2>3. QED
      BY <1>16, <2>1, <2>2
  <1>19. Good(new, t, indices, n)
    BY <1>1, <1>14, <1>15, <1>16, <1>17, <1>18 DEF Good
  <1>20. QED
    BY <1>19 DEF new, c

(***************************************************************************)
(* All that match are found, once, category by category.                   *)
(***************************************************************************)
LEMMA FoundIsGood ==
  ASSUME NEW t, NEW indices \in SUBSET DOMAIN Index
  PROVE  Good(Found(t, indices), t, indices, 5)
  <1> DEFINE f0 == [result |-> <<>>, secondary |-> <<>>, displayCount |-> Limit]
             f1 == Collect(t, indices, f0, Categories[1])
             f2 == Collect(t, indices, f1, Categories[2])
             f3 == Collect(t, indices, f2, Categories[3])
             f4 == Collect(t, indices, f3, Categories[4])
             f5 == Collect(t, indices, f4, Categories[5])
  <1>1. Found(t, indices) = f5
    BY CategoriesAre DEF Found
  <1>2. Good(f0, t, indices, 0)
    <2>1. f0.result = <<>> /\ f0.secondary = <<>> /\ f0.displayCount = Limit
      OBVIOUS
    <2>2. f0.displayCount \in Nat /\ f0.displayCount >= Limit
      BY <2>1, LimitAssumption
    <2> HIDE DEF f0
    <2>3. f0.result \in Seq(Row) /\ DOMAIN f0.result = {}
      BY <2>1
    <2>4. Distinct(f0.result) /\ Sorted(f0.result, 0) /\ \A row \in Row : ~Has(f0.result, row)
      BY <2>3 DEF Distinct, Sorted, Has
    <2>5. \A k \in 1 .. 0 : FALSE
      OBVIOUS
    <2>6. QED
      BY <2>1, <2>2, <2>3, <2>4, <2>5 DEF Good
  <1> HIDE DEF f0
  <1>3. Good(f1, t, indices, 1)
    <2>1. 1 \in 1 .. 5 /\ 1 - 1 = 0
      OBVIOUS
    <2>2. QED
      BY <1>2, <2>1, CollectFinds
  <1> HIDE DEF f1
  <1>4. Good(f2, t, indices, 2)
    <2>1. 2 \in 1 .. 5 /\ 2 - 1 = 1
      OBVIOUS
    <2>2. QED
      BY <1>3, <2>1, CollectFinds
  <1> HIDE DEF f2
  <1>5. Good(f3, t, indices, 3)
    <2>1. 3 \in 1 .. 5 /\ 3 - 1 = 2
      OBVIOUS
    <2>2. QED
      BY <1>4, <2>1, CollectFinds
  <1> HIDE DEF f3
  <1>6. Good(f4, t, indices, 4)
    <2>1. 4 \in 1 .. 5 /\ 4 - 1 = 3
      OBVIOUS
    <2>2. QED
      BY <1>5, <2>1, CollectFinds
  <1> HIDE DEF f4
  <1>7. Good(f5, t, indices, 5)
    <2>1. 5 \in 1 .. 5 /\ 5 - 1 = 4
      OBVIOUS
    <2>2. QED
      BY <1>6, <2>1, CollectFinds
  <1>8. QED
    BY <1>1, <1>7

-----------------------------------------------------------------------------
(* What is shown *)

LEMMA MaxIs ==
  ASSUME NEW S \in SUBSET Int, NEW m \in S, \A x \in S : x <= m
  PROVE  Max(S) = m
  <1>1. \A y \in S : m >= y
    OBVIOUS
  <1>2. ASSUME NEW x \in S, \A y \in S : x >= y PROVE x = m
    <2>1. x >= m /\ x <= m /\ x \in Int /\ m \in Int
      BY <1>2
    <2>2. QED
      BY <2>1
  <1>3. QED
    BY <1>1, <1>2 DEF Max

LEMMA MinIs ==
  ASSUME NEW a \in Int, NEW b \in Int
  PROVE  Min({a, b}) = IF a < b THEN a ELSE b
  <1> DEFINE m == IF a < b THEN a ELSE b
  <1>1. m \in {a, b} /\ m \in Int /\ \A y \in {a, b} : m <= y
    OBVIOUS
  <1> HIDE DEF m
  <1>2. ASSUME NEW x \in {a, b}, \A y \in {a, b} : x <= y PROVE x = m
    <2>1. x <= m /\ m <= x /\ x \in Int
      BY <1>1, <1>2
    <2>2. QED
      BY <1>1, <2>1
  <1>3. Min({a, b}) = m
    BY <1>1, <1>2 DEF Min
  <1>4. QED
    BY <1>3 DEF m

(***************************************************************************)
(* Of some places, those up to which there are at most m are the first m.  *)
(***************************************************************************)
LEMMA FirstOnes ==
  ASSUME NEW I \in SUBSET Int, IsFiniteSet(I), NEW m \in Nat
  PROVE  /\ Cardinality(I) \in Nat
         /\ Cardinality({i \in I : Cardinality({j \in I : j <= i}) <= m}) = Min({m, Cardinality(I)})
  <1> DEFINE n == Cardinality(I)
             at == Ordered(I, <)
             Earlier(i) == {j \in I : j < i}
             Upto(i) == {j \in I : j <= i}
             F == {i \in I : Cardinality(Upto(i)) <= m}
             w == IF m < n THEN m ELSE n
  <1>1. /\ Lists(at, I)
        /\ \A i \in I : Cardinality(Earlier(i)) \in 0 .. n - 1
        /\ \A k \in 1 .. n : Cardinality(Earlier(at[k])) = k - 1
    BY OrderedLists
  <1> HIDE DEF at
  <1>2. /\ n \in Nat /\ at \in [1 .. n -> I]
        /\ \A i \in I : \E k \in 1 .. n : at[k] = i
        /\ \A k, l \in 1 .. n : k < l => at[k] < at[l]
    BY <1>1 DEF Lists
  <1>3. ASSUME NEW i \in I PROVE Cardinality(Upto(i)) = Cardinality(Earlier(i)) + 1
    <2>1. Upto(i) = Earlier(i) \cup {i} /\ i \notin Earlier(i)
      <3>1. \A j \in I : (j <= i <=> j < i \/ j = i) /\ ~(i < i)
        OBVIOUS
      <3>2. QED
        BY <3>1
    <2>2. IsFiniteSet(Earlier(i))
      BY FS_Subset
    <2> HIDE DEF Upto, Earlier
    <2>3. QED
      BY <2>1, <2>2, FS_AddElement
  <1> HIDE DEF Upto, Earlier, n
  <1>4. \A k \in 1 .. n : at[k] \in I /\ Cardinality(Upto(at[k])) = k
    <2>1. ASSUME NEW k \in 1 .. n PROVE at[k] \in I /\ Cardinality(Upto(at[k])) = k
      <3>1. at[k] \in I
        BY <1>2
      <3>2. Cardinality(Upto(at[k])) = Cardinality(Earlier(at[k])) + 1
        BY <1>3, <3>1
      <3>3. Cardinality(Earlier(at[k])) = k - 1 /\ k \in Int
        BY <1>1, <1>2
      <3>4. QED
        BY <3>1, <3>2, <3>3
    <2>2. QED
      BY <2>1
  <1>5. w \in Nat /\ \A k : k \in 1 .. w <=> k \in 1 .. n /\ k <= m
    BY <1>2
  <1>6. \A k \in 1 .. w : at[k] \in F
    BY <1>4, <1>5
  <1>7. \A i \in F : \E k \in 1 .. w : at[k] = i
    <2>1. ASSUME NEW i \in F PROVE \E k \in 1 .. w : at[k] = i
      <3>1. PICK k \in 1 .. n : at[k] = i
        BY <1>2
      <3>2. Cardinality(Upto(i)) <= m
        OBVIOUS
      <3>3. k <= m
        BY <1>4, <3>1, <3>2
      <3>4. QED
        BY <1>5, <3>1, <3>3
    <2>2. QED
      BY <2>1
  <1> HIDE DEF F, w
  <1> DEFINE f == [k \in 1 .. w |-> at[k]]
  <1>8. f \in [1 .. w -> F] /\ \A i \in F : \E k \in 1 .. w : f[k] = i
    BY <1>6, <1>7
  <1>9. \A k, l \in 1 .. w : f[k] = f[l] => k = l
    <2>1. ASSUME NEW k \in 1 .. w, NEW l \in 1 .. w, f[k] = f[l] PROVE k = l
      <3>1. k \in 1 .. n /\ l \in 1 .. n /\ at[k] = at[l] /\ k \in Int /\ l \in Int
        BY <1>5, <2>1
      <3>2. Cardinality(Upto(at[k])) = k /\ Cardinality(Upto(at[l])) = l
        BY <1>4, <3>1
      <3>3. QED
        BY <3>1, <3>2
    <2>2. QED
      BY <2>1
  <1> HIDE DEF f
  <1>10. IsFiniteSet(1 .. w) /\ Cardinality(1 .. w) = w
    BY <1>5, FS_Interval
  <1>11. Cardinality(F) = w
    BY <1>8, <1>9, <1>10, SameSize
  <1>12. Min({m, n}) = w
    BY <1>2, MinIs DEF w
  <1>13. QED
    BY <1>2, <1>11, <1>12 DEF F, Upto, n

InCategory(s, c) == {row \in Range(s) : row.category = c}

(***************************************************************************)
(* Counter lets the first rows of each category through.                   *)
(***************************************************************************)
LEMMA CounterCuts ==
  ASSUME NEW s \in Seq(Row), Distinct(s), Sorted(s, 5), NEW d \in Nat
  PROVE  LET out == Counter(s, d)
         IN  /\ out \in Seq(Row) /\ Distinct(out) /\ Sorted(out, 5)
             /\ \A row \in Row : Has(out, row) => Has(s, row)
             /\ \A c : /\ Cardinality(InCategory(s, c)) \in Nat
                       /\ Cardinality(InCategory(out, c)) = Min({d, Cardinality(InCategory(s, c))})
  <1> DEFINE kept == {i \in DOMAIN s : Nth(s, i) <= d}
             out == Counter(s, d)
  <1>1. out = Pick(s, kept) /\ kept \in SUBSET (DOMAIN s)
    BY DEF Counter
  <1>2. DOMAIN s = 1 .. Len(s) /\ Len(s) \in Nat /\ \A i \in DOMAIN s : s[i] \in Row
    OBVIOUS
  <1>3. IsFiniteSet(DOMAIN s) /\ DOMAIN s \in SUBSET Int
    BY <1>2, FS_Interval
  <1> HIDE DEF out
  <1>4. /\ out \in Seq(Row) /\ Distinct(out)
        /\ \A k \in DOMAIN out : \E i \in kept : out[k] = s[i]
        /\ \A i \in kept : \E k \in DOMAIN out : out[k] = s[i]
    <2> HIDE DEF kept
    <2>1. QED
      BY <1>1, PickDistinct
  <1>5. Sorted(out, 5)
    <2> HIDE DEF kept
    <2>1. PICK at : /\ Lists(at, kept)
                    /\ \A k \in 1 .. Cardinality(kept) : out[k] = s[at[k]]
      BY <1>1, PickLists
    <2>2. DOMAIN out = 1 .. Cardinality(kept)
      <3>1. Len(out) = Cardinality(kept)
        BY <1>1, PickLists
      <3>2. QED
        BY <1>4, <3>1
    <2> DEFINE n == Cardinality(kept)
    <2>3. /\ \A k \in 1 .. n : at[k] \in DOMAIN s /\ out[k] = s[at[k]]
          /\ \A k, l \in 1 .. n : k < l => at[k] < at[l]
      BY <1>1, <2>1 DEF Lists
    <2> HIDE DEF n
    <2>4. ASSUME NEW i \in 1 .. n PROVE \E k \in 1 .. 5 : out[i].category = Categories[k]
      <3>1. at[i] \in DOMAIN s /\ out[i] = s[at[i]]
        BY <2>3
      <3>2. QED
        BY <3>1 DEF Sorted
    <2>5. ASSUME NEW i \in 1 .. n, NEW j \in 1 .. n, i < j, NEW k \in 1 .. 5, NEW l \in 1 .. 5,
                 out[i].category = Categories[k], out[j].category = Categories[l]
          PROVE  k <= l
      <3>1. at[i] < at[j] /\ at[i] \in DOMAIN s /\ at[j] \in DOMAIN s
        BY <2>3, <2>5
      <3>2. s[at[i]].category = Categories[k] /\ s[at[j]].category = Categories[l]
        BY <2>3, <2>5
      <3>3. QED
        BY <3>1, <3>2, SortedGives
    <2>6. QED
      BY <2>2, <2>4, <2>5 DEF Sorted, n
  <1>6. \A row \in Row : Has(out, row) => Has(s, row)
    BY <1>1, <1>4 DEF Has
  <1>7. ASSUME NEW c
        PROVE  /\ Cardinality(InCategory(s, c)) \in Nat
               /\ Cardinality(InCategory(out, c)) = Min({d, Cardinality(InCategory(s, c))})
    <2> DEFINE I == {i \in DOMAIN s : s[i].category = c}
               F == {i \in I : Cardinality({j \in I : j <= i}) <= d}
    <2>1. I \in SUBSET DOMAIN s /\ IsFiniteSet(I) /\ I \in SUBSET Int
      BY <1>3, FS_Subset
    <2>2. F \in SUBSET I /\ IsFiniteSet(F)
      BY <2>1, FS_Subset
    <2>3. \A i \in I : Nth(s, i) = Cardinality({j \in I : j <= i})
      <3>1. ASSUME NEW i \in I PROVE Nth(s, i) = Cardinality({j \in I : j <= i})
        <4>1. {j \in 1 .. i : s[j].category = s[i].category} = {j \in I : j <= i}
          BY <1>2
        <4>2. QED
          BY <4>1 DEF Nth
      <3>2. QED
        BY <3>1
    <2>4. \A i : i \in F <=> i \in kept /\ s[i].category = c
      BY <2>1, <2>3
    <2>5. Cardinality(I) \in Nat /\ Cardinality(F) = Min({d, Cardinality(I)})
      BY <2>1, FirstOnes
    <2>6. \A i : i \in I <=> i \in DOMAIN s /\ s[i].category = c
      OBVIOUS
    <2> HIDE DEF I, F
    <2>7. Cardinality(InCategory(s, c)) = Cardinality(I)
      <3> DEFINE f == [i \in I |-> s[i]]
      <3>1. f \in [I -> InCategory(s, c)]
        BY <2>6 DEF InCategory, Range
      <3>2. \A i, j \in I : f[i] = f[j] => i = j
        BY <2>6 DEF Distinct
      <3>3. \A row \in InCategory(s, c) : \E i \in I : f[i] = row
        BY <2>6 DEF InCategory, Range
      <3> HIDE DEF f
      <3>4. QED
        BY <2>1, <3>1, <3>2, <3>3, SameSize
    <2>8. Cardinality(InCategory(out, c)) = Cardinality(F)
      <3> DEFINE f == [i \in F |-> s[i]]
      <3>1. \A i \in F : s[i] \in InCategory(out, c)
        BY <1>4, <2>4 DEF InCategory, Range
      <3>2. f \in [F -> InCategory(out, c)]
        BY <3>1
      <3>3. \A i, j \in F : f[i] = f[j] => i = j
        BY <2>2, <2>6 DEF Distinct
      <3>4. ASSUME NEW row \in InCategory(out, c) PROVE \E i \in F : f[i] = row
        <4>1. PICK k \in DOMAIN out : out[k] = row
          BY DEF InCategory, Range
        <4>2. row.category = c
          BY DEF InCategory
        <4>3. PICK i \in kept : out[k] = s[i]
          BY <1>4
        <4>4. i \in F
          BY <2>4, <4>1, <4>2, <4>3
        <4>5. QED
          BY <4>1, <4>3, <4>4
      <3> HIDE DEF f
      <3>5. QED
        BY <2>2, <3>2, <3>3, <3>4, SameSize
    <2>9. QED
      BY <2>5, <2>7, <2>8
  <1>8. QED
    BY <1>4, <1>5, <1>6, <1>7 DEF out

\* What the menu lists for a term, unless it is nothing.
Shown(out, d, t, indices) ==
  /\ out \in Seq(Row) /\ Distinct(out) /\ Sorted(out, 5)
  /\ \A row \in Row : Has(out, row) =>
       \E k \in 1 .. 5 : row \in MatchingOf(t, indices, Categories[k])
  /\ \A k \in 1 .. 5 :
       Cardinality(InCategory(out, Categories[k]))
         = Min({d, Cardinality(MatchingOf(t, indices, Categories[k]))})
  /\ d \in Nat /\ d >= Limit
  /\ \A k \in 1 .. 5 : Cardinality(ExactOf(t, indices, Categories[k])) <= d
  /\ d = Limit \/ \E k \in 1 .. 5 : d = Cardinality(ExactOf(t, indices, Categories[k]))

LEMMA SourceShows ==
  ASSUME NEW t, NEW indices \in SUBSET DOMAIN Index
  PROVE  \E out, d : /\ Shown(out, d, t, indices)
                     /\ Source(t, indices) = Response(out)
  <1> DEFINE found == Found(t, indices)
             d == found.displayCount
             out == Counter(found.result, d)
  <1>1. Good(found, t, indices, 5)
    BY FoundIsGood
  <1>2. Source(t, indices) = Response(out)
    BY DEF Source
  <1> HIDE DEF found
  <1>3. /\ found.result \in Seq(Row) /\ Distinct(found.result) /\ Sorted(found.result, 5)
        /\ \A row \in Row : Has(found.result, row)
             <=> \E k \in 1 .. 5 : row \in MatchingOf(t, indices, Categories[k])
    BY <1>1 DEF Good
  <1>4. /\ d \in Nat /\ d >= Limit
        /\ \A k \in 1 .. 5 : Cardinality(ExactOf(t, indices, Categories[k])) <= d
        /\ d = Limit \/ \E k \in 1 .. 5 : d = Cardinality(ExactOf(t, indices, Categories[k]))
    BY <1>1 DEF Good
  <1> HIDE DEF d
  <1>5. /\ out \in Seq(Row) /\ Distinct(out) /\ Sorted(out, 5)
        /\ \A row \in Row : Has(out, row) => Has(found.result, row)
        /\ \A c : Cardinality(InCategory(out, c)) = Min({d, Cardinality(InCategory(found.result, c))})
    BY <1>3, <1>4, CounterCuts
  <1> HIDE DEF out
  <1>6. ASSUME NEW k \in 1 .. 5
        PROVE  InCategory(found.result, Categories[k]) = MatchingOf(t, indices, Categories[k])
    <2>1. ASSUME NEW row \in InCategory(found.result, Categories[k])
          PROVE  row \in MatchingOf(t, indices, Categories[k])
      <3>1. row.category = Categories[k] /\ Has(found.result, row) /\ row \in Row
        BY <1>3 DEF InCategory, Range, Has
      <3>2. PICK l \in 1 .. 5 : row \in MatchingOf(t, indices, Categories[l])
        BY <1>3, <3>1
      <3>3. row.category = Categories[l]
        BY <3>2 DEF MatchingOf
      <3>4. QED
        BY <3>1, <3>2, <3>3
    <2>2. ASSUME NEW row \in MatchingOf(t, indices, Categories[k])
          PROVE  row \in InCategory(found.result, Categories[k])
      <3>1. row \in Row /\ row.category = Categories[k]
        BY DEF MatchingOf
      <3>2. Has(found.result, row)
        BY <1>3, <3>1
      <3>3. QED
        BY <3>1, <3>2 DEF InCategory, Range, Has
    <2>3. QED
      BY <2>1, <2>2
  <1>7. Shown(out, d, t, indices)
    <2>1. \A k \in 1 .. 5 :
            Cardinality(InCategory(out, Categories[k]))
              = Min({d, Cardinality(MatchingOf(t, indices, Categories[k]))})
      BY <1>5, <1>6
    <2>2. \A row \in Row : Has(out, row) =>
            \E k \in 1 .. 5 : row \in MatchingOf(t, indices, Categories[k])
      BY <1>3, <1>5
    <2>3. QED
      BY <1>4, <1>5, <2>1, <2>2 DEF Shown
  <1>8. QED
    BY <1>2, <1>7

LEMMA NoResultIsNoRow ==
  /\ NoResult \notin Row
  /\ \A k \in 1 .. 5 : NoResult.category # Categories[k]
  <1>1. NoResult.category = "None"
    BY DEF NoResult, None
  <1>2. \A k \in 1 .. 5 : NoResult.category # Categories[k]
    <2>1. \A k \in 1 .. 5 : k = 1 \/ k = 2 \/ k = 3 \/ k = 4 \/ k = 5
      OBVIOUS
    <2>2. QED
      BY <1>1, <2>1, CategoriesAre
  <1>3. ASSUME NoResult \in Row PROVE FALSE
    <2>1. NoResult.category \in Range(Categories)
      BY <1>3, RowIs, IndexAssumption
    <2>2. QED
      BY <1>2, <2>1, CategoriesAre
  <1>4. QED
    BY <1>2, <1>3

(***************************************************************************)
(* An open menu is the line that says so, or what matches.                 *)
(***************************************************************************)
LEMMA MenuIs ==
  ASSUME IInv, rows # <<>>
  PROVE  /\ term \in Term /\ had \in SUBSET DOMAIN Index
         /\ \E out, d : /\ Shown(out, d, term, had)
                        /\ rows = IF out = <<>> THEN <<NoResult>> ELSE out
  <1>1. had \in SUBSET DOMAIN Index /\ term \in Term
    BY DEF IInv, Boxes, Answered
  <1>2. PICK out, d : Shown(out, d, term, had) /\ Source(term, had) = Response(out)
    BY <1>1, SourceShows
  <1>3. rows = Response(out)
    BY <1>2 DEF IInv, Answered
  <1>4. rows = IF out = <<>> THEN <<NoResult>> ELSE out
    BY <1>3 DEF Response
  <1>5. QED
    BY <1>1, <1>2, <1>4

(***************************************************************************)
(* The menu has entries of the indices, the box terms that can be typed.   *)
(***************************************************************************)
THEOREM TypesHold == Spec => []TypeOK
  <1>1. ASSUME IInv PROVE TypeOK
    <2>1. Range(rows) \subseteq Row \cup {NoResult}
      <3>1. CASE rows = <<>>
        BY <3>1 DEF Range
      <3>2. CASE rows # <<>>
        <4>1. PICK out, d : /\ Shown(out, d, term, had)
                            /\ rows = IF out = <<>> THEN <<NoResult>> ELSE out
          BY <1>1, <3>2, MenuIs
        <4>2. CASE out = <<>>
          <5>1. rows = <<NoResult>>
            BY <4>1, <4>2
          <5>2. QED
            BY <5>1 DEF Range
        <4>3. CASE out # <<>>
          <5>1. rows \in Seq(Row)
            BY <4>1, <4>3 DEF Shown
          <5>2. QED
            BY <5>1 DEF Range
        <4>4. QED
          BY <4>2, <4>3
      <3>3. QED
        BY <3>1, <3>2
    <2>2. QED
      BY <1>1, <2>1 DEF IInv, Boxes, TypeOK
  <1>2. QED
    BY <1>1, AlwaysAnswered, PTL

LEMMA MostShownIs ==
  ASSUME IInv, NEW out, NEW d, Shown(out, d, term, had)
  PROVE  MostShown = d
  <1> DEFINE C == {Limit} \cup {Cardinality(Exact(c)) : c \in Range(Categories)}
  <1>1. had \in SUBSET DOMAIN Index
    BY DEF IInv, Boxes
  <1>2. \A c : Exact(c) = ExactOf(term, had, c)
    BY DEF Exact, ExactOf, Matching, MatchingOf
  <1>3. \A c : Cardinality(ExactOf(term, had, c)) \in Nat
    BY <1>1, ExactHits
  <1>4. C = {Limit} \cup {Cardinality(ExactOf(term, had, Categories[k])) : k \in 1 .. 5}
    BY <1>2, CategoriesAre
  <1> HIDE DEF C
  <1>5. Limit \in Int
    BY LimitAssumption
  <1>6. C \in SUBSET Int
    BY <1>3, <1>4, <1>5
  <1>7. d \in C /\ \A x \in C : x <= d
    BY <1>4 DEF Shown
  <1>8. Max(C) = d
    BY <1>6, <1>7, MaxIs
  <1>9. QED
    BY <1>8 DEF MostShown, C

(***************************************************************************)
(* An open menu lists each entry that matches the last term once, as far   *)
(* as its category is not cut, and nothing else.                           *)
(***************************************************************************)
THEOREM MenuAlwaysAnswers == Spec => []MenuAnswersTerm
  <1>1. ASSUME IInv PROVE MenuAnswersTerm
    <2>1. SUFFICES ASSUME rows # <<>>
                   PROVE  /\ \A i, j \in DOMAIN rows : rows[i] = rows[j] => i = j
                          /\ \A c \in Range(Categories) :
                               /\ InCategory(rows, c) \subseteq Matching(c)
                               /\ Cardinality(InCategory(rows, c))
                                    = Min({MostShown, Cardinality(Matching(c))})
      BY DEF MenuAnswersTerm, InCategory
    <2>2. PICK out, d : /\ Shown(out, d, term, had)
                        /\ rows = IF out = <<>> THEN <<NoResult>> ELSE out
      BY <1>1, <2>1, MenuIs
    <2>3. MostShown = d
      BY <1>1, <2>2, MostShownIs
    <2>4. \A c : Matching(c) = MatchingOf(term, had, c)
      BY DEF Matching, MatchingOf
    <2>5. \A i, j \in DOMAIN rows : rows[i] = rows[j] => i = j
      <3>1. CASE out = <<>>
        <4>1. DOMAIN rows = {1}
          BY <2>2, <3>1
        <4>2. QED
          BY <4>1
      <3>2. CASE out # <<>>
        BY <2>2, <3>2 DEF Shown, Distinct
      <3>3. QED
        BY <3>1, <3>2
    <2>6. ASSUME NEW k \in 1 .. 5
          PROVE  InCategory(rows, Categories[k]) = InCategory(out, Categories[k])
      <3>1. CASE out = <<>>
        <4>1. Range(rows) = {NoResult} /\ Range(out) = {}
          BY <2>2, <3>1 DEF Range
        <4>2. QED
          BY <4>1, NoResultIsNoRow DEF InCategory
      <3>2. CASE out # <<>>
        BY <2>2, <3>2
      <3>3. QED
        BY <3>1, <3>2
    <2>7. ASSUME NEW k \in 1 .. 5
          PROVE  InCategory(out, Categories[k]) \subseteq MatchingOf(term, had, Categories[k])
      <3>1. SUFFICES ASSUME NEW row \in InCategory(out, Categories[k])
                     PROVE  row \in MatchingOf(term, had, Categories[k])
        OBVIOUS
      <3>2. out \in Seq(Row)
        BY <2>2 DEF Shown
      <3>3. row.category = Categories[k] /\ Has(out, row) /\ row \in Row
        BY <3>2 DEF InCategory, Range, Has
      <3>4. PICK l \in 1 .. 5 : row \in MatchingOf(term, had, Categories[l])
        BY <2>2, <3>3 DEF Shown
      <3>5. row.category = Categories[l]
        BY <3>4 DEF MatchingOf
      <3>6. QED
        BY <3>3, <3>4, <3>5
    <2>8. \A k \in 1 .. 5 :
            Cardinality(InCategory(out, Categories[k]))
              = Min({d, Cardinality(MatchingOf(term, had, Categories[k]))})
      BY <2>2 DEF Shown
    <2>9. ASSUME NEW c \in Range(Categories)
          PROVE  /\ InCategory(rows, c) \subseteq Matching(c)
                 /\ Cardinality(InCategory(rows, c)) = Min({MostShown, Cardinality(Matching(c))})
      <3>1. PICK k \in 1 .. 5 : c = Categories[k]
        BY CategoriesAre
      <3>2. QED
        BY <2>3, <2>4, <2>6, <2>7, <2>8, <3>1
    <2>10. QED
      BY <2>5, <2>9
  <1>2. QED
    BY <1>1, AlwaysAnswered, PTL

-----------------------------------------------------------------------------
(* Headings and highlights *)

(***************************************************************************)
(* The menu heads its categories in their order.                           *)
(***************************************************************************)
LEMMA HeadsInOrder ==
  ASSUME IInv
  PROVE  HeadedOnce
  <1> DEFINE headings == RenderMenu(rows)
             heads == {i \in DOMAIN rows : Headed(rows, i)}
             cats == [i \in DOMAIN rows |-> rows[i].category]
  <1>1. CASE rows = <<>> \/ rows = <<NoResult>>
    <2>1. heads = {}
      BY <1>1 DEF Headed
    <2>2. cats \in Seq({NoResult.category})
      BY <1>1
    <2>3. headings = Pick(cats, {})
      BY <2>1 DEF RenderMenu
    <2>4. Cardinality({}) = 0
      BY FS_EmptySet
    <2> HIDE DEF cats, headings
    <2>5. headings \in Seq({NoResult.category}) /\ Len(headings) = 0
      BY <2>2, <2>3, <2>4, PickLists
    <2>6. DOMAIN headings = {}
      BY <2>5
    <2>7. QED
      BY <2>6 DEF HeadedOnce, headings
  <1>2. CASE rows # <<>> /\ rows # <<NoResult>>
    <2>1. PICK d : Shown(rows, d, term, had)
      BY <1>2, MenuIs
    <2>2. rows \in Seq(Row) /\ Sorted(rows, 5)
      BY <2>1 DEF Shown
    <2>3. PICK C : cats \in Seq(C) /\ DOMAIN cats = DOMAIN rows
      <3>1. cats \in Seq({rows[i].category : i \in DOMAIN rows}) /\ DOMAIN cats = DOMAIN rows
        BY <2>2
      <3> HIDE DEF cats
      <3>2. QED
        BY <3>1
    <2>4. headings = Pick(cats, heads) /\ heads \in SUBSET DOMAIN cats
      BY DEF RenderMenu
    <2>5. \A i \in heads : /\ i \in DOMAIN rows /\ i \in Int /\ i >= 1
                           /\ i = 1 \/ rows[i - 1].category # rows[i].category
      BY <2>2 DEF Headed
    <2>6. \A i \in DOMAIN rows : cats[i] = rows[i].category
      OBVIOUS
    <2> HIDE DEF cats, heads, headings
    <2>7. PICK at : /\ Lists(at, heads)
                    /\ \A k \in 1 .. Cardinality(heads) : headings[k] = cats[at[k]]
      BY <2>3, <2>4, PickLists
    <2>8. DOMAIN headings = 1 .. Cardinality(heads)
      <3>1. Len(headings) = Cardinality(heads) /\ headings \in Seq(C)
        BY <2>3, <2>4, PickLists
      <3>2. QED
        BY <3>1
    <2>9. /\ \A k \in 1 .. Cardinality(heads) : at[k] \in heads
          /\ \A k, l \in 1 .. Cardinality(heads) : k < l => at[k] < at[l]
      BY <2>7 DEF Lists
    <2>10. ASSUME NEW i \in DOMAIN headings, NEW j \in DOMAIN headings, i < j
           PROVE  \E a, b \in DOMAIN Categories :
                    a < b /\ Categories[a] = headings[i] /\ Categories[b] = headings[j]
      <3> DEFINE x == at[i]
                 y == at[j]
      <3>1. x \in heads /\ y \in heads /\ x < y
        BY <2>8, <2>9, <2>10
      <3>2. headings[i] = rows[x].category /\ headings[j] = rows[y].category
        BY <2>5, <2>6, <2>7, <2>8, <3>1
      <3> HIDE DEF x, y
      <3>3. /\ x \in DOMAIN rows /\ y \in DOMAIN rows /\ x \in Int /\ y \in Int /\ x >= 1 /\ y # 1
            /\ rows[y - 1].category # rows[y].category
        BY <2>5, <3>1
      <3>4. y - 1 \in DOMAIN rows /\ y - 1 < y /\ x <= y - 1
        BY <2>2, <3>1, <3>3
      <3>5. PICK a \in 1 .. 5 : rows[x].category = Categories[a]
        BY <2>2, <3>3 DEF Sorted
      <3>6. PICK b \in 1 .. 5 : rows[y].category = Categories[b]
        BY <2>2, <3>3 DEF Sorted
      <3>7. PICK m \in 1 .. 5 : rows[y - 1].category = Categories[m]
        BY <2>2, <3>4 DEF Sorted
      <3>8. m <= b /\ m # b
        BY <2>2, <3>3, <3>4, <3>6, <3>7 DEF Sorted
      <3>9. a <= m
        <4>1. CASE x = y - 1
          BY <3>5, <3>7, <4>1, CategoriesAre
        <4>2. CASE x < y - 1
          BY <2>2, <3>3, <3>4, <3>5, <3>7, <4>2 DEF Sorted
        <4>3. QED
          BY <3>3, <3>4, <4>1, <4>2
      <3>10. a < b /\ a \in DOMAIN Categories /\ b \in DOMAIN Categories
        BY <3>8, <3>9, CategoriesAre
      <3>11. QED
        BY <3>2, <3>5, <3>6, <3>10
    <2>11. QED
      BY <2>10 DEF HeadedOnce, headings
  <1>3. QED
    BY <1>1, <1>2

(***************************************************************************)
(* What is in an end of a name is in the name.                             *)
(***************************************************************************)
LEMMA InTheEnd ==
  ASSUME NEW S, NEW name \in Seq(S), NEW T, NEW shown \in Seq(T), Ends(name, shown)
  PROVE  \E off \in Nat : /\ off + Len(name) = Len(shown)
                          /\ \A k \in 1 .. Len(name) : name[k] = shown[off + k]
  <1> DEFINE off == Len(shown) - Len(name)
  <1>1. Len(name) \in Nat /\ Len(shown) \in Nat /\ DOMAIN name = 1 .. Len(name)
    OBVIOUS
  <1>2. Len(name) <= Len(shown) /\ \A k \in DOMAIN name : name[k] = shown[off + k]
    BY DEF Ends
  <1>3. off \in Nat /\ off + Len(name) = Len(shown)
    BY <1>1, <1>2
  <1>4. QED
    BY <1>1, <1>2, <1>3

LEMMA OccursInEnd ==
  ASSUME NEW S, NEW name \in Seq(S), NEW T, NEW shown \in Seq(T), Ends(name, shown),
         NEW U, NEW t \in Seq(U), t # <<>>, NEW i \in Nat, OccursAt(t, name, i)
  PROVE  \E j \in 0 .. Len(shown) - 1 : OccursAt(t, shown, j)
  <1>1. /\ Len(name) \in Nat /\ Len(shown) \in Nat /\ Len(t) \in Nat /\ Len(t) # 0
        /\ DOMAIN t = 1 .. Len(t) /\ DOMAIN name = 1 .. Len(name)
    OBVIOUS
  <1>2. PICK off \in Nat : /\ off + Len(name) = Len(shown)
                          /\ \A k \in 1 .. Len(name) : name[k] = shown[off + k]
    BY InTheEnd
  <1>3. /\ i + Len(t) <= Len(name)
        /\ \A k \in 1 .. Len(t) : Fold(t[k]) = Fold(name[i + k])
    BY <1>1 DEF OccursAt
  <1> DEFINE j == off + i
  <1>4. j + Len(t) <= Len(shown) /\ j \in 0 .. Len(shown) - 1
    BY <1>1, <1>2, <1>3
  <1>5. ASSUME NEW k \in 1 .. Len(t) PROVE Fold(t[k]) = Fold(shown[j + k])
    <2>1. i + k \in 1 .. Len(name) /\ off + (i + k) = j + k
      BY <1>1, <1>2, <1>3
    <2>2. name[i + k] = shown[j + k]
      BY <1>2, <2>1
    <2>3. QED
      BY <1>3, <2>2
  <1> HIDE DEF j
  <1>6. OccursAt(t, shown, j)
    BY <1>1, <1>4, <1>5 DEF OccursAt
  <1>7. QED
    BY <1>4, <1>6

LEMMA MatchesAtEnd ==
  ASSUME NEW S, NEW name \in Seq(S), NEW T, NEW shown \in Seq(T), Ends(name, shown),
         NEW U, NEW t \in Seq(U), t # <<>>, NEW i \in Nat, CamelCaseAt(t, name, i)
  PROVE  \E j \in 0 .. Len(shown) - 1 : CamelCaseAt(t, shown, j)
  <1>1. /\ Len(name) \in Nat /\ Len(shown) \in Nat /\ Len(t) \in Nat /\ Len(t) # 0
        /\ DOMAIN t = 1 .. Len(t) /\ DOMAIN name = 1 .. Len(name)
        /\ DOMAIN shown = 1 .. Len(shown)
    OBVIOUS
  <1>2. PICK off \in Nat : /\ off + Len(name) = Len(shown)
                          /\ \A k \in 1 .. Len(name) : name[k] = shown[off + k]
    BY InTheEnd
  <1>3. PICK at \in [DOMAIN t -> DOMAIN name] :
          /\ at[1] = i + 1
          /\ \A k \in DOMAIN t : name[at[k]] = t[k]
          /\ \A k \in 2 .. Len(t) :
               \/ at[k] = at[k - 1] + 1
               \/ /\ t[k] \in Capital /\ at[k - 1] < at[k]
                  /\ \A j \in at[k - 1] + 1 .. at[k] - 1 : name[j] \in Small
    BY DEF CamelCaseAt
  <1>4. \A k \in 1 .. Len(t) : at[k] \in 1 .. Len(name)
    BY <1>1, <1>3
  <1> DEFINE to == [k \in DOMAIN t |-> off + at[k]]
             j == off + i
  <1>5. to \in [DOMAIN t -> DOMAIN shown]
    <2>1. \A k \in 1 .. Len(t) : off + at[k] \in 1 .. Len(shown)
      BY <1>1, <1>2, <1>4
    <2>2. QED
      BY <1>1, <2>1
  <1>6. \A k \in 1 .. Len(t) : to[k] = off + at[k]
    BY <1>1
  <1> HIDE DEF to
  <1>7. to[1] = j + 1 /\ j \in 0 .. Len(shown) - 1
    <2>1. 1 \in 1 .. Len(t)
      BY <1>1
    <2>2. at[1] = i + 1 /\ at[1] \in 1 .. Len(name) /\ to[1] = off + at[1]
      BY <1>3, <1>4, <1>6, <2>1
    <2>3. QED
      BY <1>1, <1>2, <2>2
  <1>8. \A k \in DOMAIN t : shown[to[k]] = t[k]
    BY <1>1, <1>2, <1>3, <1>4, <1>6
  <1>9. ASSUME NEW k \in 2 .. Len(t)
        PROVE  \/ to[k] = to[k - 1] + 1
               \/ /\ t[k] \in Capital /\ to[k - 1] < to[k]
                  /\ \A l \in to[k - 1] + 1 .. to[k] - 1 : shown[l] \in Small
    <2>1. k \in 1 .. Len(t) /\ k - 1 \in 1 .. Len(t)
      BY <1>1
    <2>2. /\ to[k] = off + at[k] /\ to[k - 1] = off + at[k - 1]
          /\ at[k] \in 1 .. Len(name) /\ at[k - 1] \in 1 .. Len(name)
      BY <1>4, <1>6, <2>1
    <2>3. CASE at[k] = at[k - 1] + 1
      BY <1>2, <2>2, <2>3
    <2>4. CASE /\ t[k] \in Capital /\ at[k - 1] < at[k]
               /\ \A l \in at[k - 1] + 1 .. at[k] - 1 : name[l] \in Small
      <3>1. to[k - 1] < to[k]
        BY <1>2, <2>2, <2>4
      <3>2. ASSUME NEW l \in to[k - 1] + 1 .. to[k] - 1 PROVE shown[l] \in Small
        <4> DEFINE m == l - off
        <4>1. /\ m \in at[k - 1] + 1 .. at[k] - 1 /\ m \in 1 .. Len(name) /\ off + m = l
          BY <1>1, <1>2, <2>2
        <4> HIDE DEF m
        <4>2. name[m] = shown[l]
          BY <1>2, <4>1
        <4>3. QED
          BY <2>4, <4>1, <4>2
      <3>3. QED
        BY <2>4, <3>1, <3>2
    <2>5. QED
      BY <1>3, <2>3, <2>4
  <1> HIDE DEF j
  <1>10. CamelCaseAt(t, shown, j)
    BY <1>5, <1>7, <1>8, <1>9 DEF CamelCaseAt
  <1>11. QED
    BY <1>7, <1>10

LEMMA RestOfList ==
  ASSUME NEW S, NEW s \in Seq(S), NEW m \in 1 .. Len(s)
  PROVE  /\ SubSeq(s, m + 1, Len(s)) \in Seq(S)
         /\ Len(SubSeq(s, m + 1, Len(s))) = Len(s) - m
         /\ \A k \in 1 .. Len(s) - m : SubSeq(s, m + 1, Len(s))[k] = s[m + k]
  <1>1. m + 1 \in Int /\ m \in Int /\ Len(s) \in Nat /\ Len(s) \in Int /\ DOMAIN s = 1 .. Len(s)
    OBVIOUS
  <1>2. \A i \in m + 1 .. Len(s) : s[i] \in S
    BY <1>1
  <1> DEFINE a == m + 1
             b == Len(s)
             r == SubSeq(s, a, b)
  <1>3. a \in Int /\ b \in Int /\ \A i \in a .. b : s[i] \in S
    BY <1>1, <1>2
  <1> HIDE DEF a, b
  <1>4. /\ r \in Seq(S) /\ Len(r) = IF a <= b THEN b - a + 1 ELSE 0
        /\ \A i \in 1 .. b - a + 1 : r[i] = s[a + i - 1]
    BY <1>3, SubSeqProperties
  <1> HIDE DEF r
  <1>5. b - a + 1 = b - m /\ (a <= b \/ b - m = 0)
    <2>1. a = m + 1 /\ m <= b /\ m \in Int /\ b \in Int
      BY <1>1, <1>3 DEF a, b
    <2>2. QED
      BY <2>1
  <1>6. Len(r) = b - m
    BY <1>1, <1>3, <1>4, <1>5
  <1>7. \A k \in 1 .. b - m : a + k - 1 = m + k
    BY <1>1 DEF a
  <1>8. QED
    BY <1>4, <1>5, <1>6, <1>7 DEF r, a, b

(***************************************************************************)
(* The nested name is an end of the name.                                  *)
(***************************************************************************)
LEMMA NestedIsEnd ==
  ASSUME NEW S, NEW name \in Seq(S)
  PROVE  NestedName(name) \in Seq(S) /\ Ends(NestedName(name), name)
  <1> DEFINE dots == {i \in DOMAIN name : name[i] = "."}
  <1>1. DOMAIN name = 1 .. Len(name) /\ Len(name) \in Nat
    OBVIOUS
  <1>2. CASE dots = {}
    <2>1. NestedName(name) = name
      BY <1>2 DEF NestedName
    <2>2. QED
      BY <1>1, <2>1 DEF Ends
  <1>3. CASE dots # {}
    <2>1. NestedName(name) = SubSeq(name, Max(dots) + 1, Len(name))
      BY <1>3 DEF NestedName
    <2>2. IsFiniteSet(1 .. Len(name))
      BY <1>1, FS_Interval
    <2>3. IsFiniteSet(dots) /\ dots \in SUBSET Int /\ dots \in SUBSET (1 .. Len(name))
      BY <1>1, <2>2, FS_Subset
    <2> HIDE DEF dots
    <2> DEFINE n == Cardinality(dots)
               at == Ordered(dots, <)
               m == at[n]
    <2>4. Lists(at, dots)
      BY <2>3, OrderedLists
    <2>5. n \in Nat /\ n # 0
      BY <1>3, <2>3, FS_EmptySet, FS_CardinalityType
    <2> HIDE DEF at
    <2>6. /\ \A k \in 1 .. n : at[k] \in dots
          /\ \A i \in dots : \E k \in 1 .. n : at[k] = i
          /\ \A k, l \in 1 .. n : k < l => at[k] < at[l]
      BY <2>4 DEF Lists
    <2> HIDE DEF n
    <2>7. m \in dots /\ \A i \in dots : i <= m
      <3>1. m \in dots /\ n \in 1 .. n
        BY <2>5, <2>6
      <3>2. ASSUME NEW i \in dots PROVE i <= m
        <4>1. PICK k \in 1 .. n : at[k] = i
          BY <2>6
        <4>2. k = n \/ k < n
          BY <2>5
        <4>3. i = m \/ i < m
          BY <2>6, <3>1, <4>1, <4>2
        <4>4. i \in Int /\ m \in Int
          BY <2>3, <3>1
        <4>5. QED
          BY <4>3, <4>4
      <3>3. QED
        BY <3>1, <3>2
    <2> HIDE DEF m
    <2>8. Max(dots) = m /\ m \in 1 .. Len(name)
      BY <2>3, <2>7, MaxIs
    <2> DEFINE nested == SubSeq(name, m + 1, Len(name))
    <2>9. /\ nested \in Seq(S) /\ Len(nested) = Len(name) - m
          /\ \A k \in 1 .. Len(name) - m : nested[k] = name[m + k]
      BY <2>8, RestOfList
    <2> HIDE DEF nested
    <2>10. DOMAIN nested = 1 .. Len(name) - m
      BY <2>9
    <2>11. Ends(nested, name)
      BY <1>1, <2>8, <2>9, <2>10 DEF Ends
    <2>12. QED
      BY <2>1, <2>8, <2>9, <2>11 DEF nested
  <1>4. QED
    BY <1>2, <1>3

LEMMA EndsOfEnds ==
  ASSUME NEW S, NEW a \in Seq(S), NEW T, NEW b \in Seq(T), NEW U, NEW c \in Seq(U),
         Ends(a, b), Ends(b, c)
  PROVE  Ends(a, c)
  <1>1. /\ Len(a) \in Nat /\ Len(b) \in Nat /\ Len(c) \in Nat
        /\ DOMAIN a = 1 .. Len(a) /\ DOMAIN b = 1 .. Len(b)
    OBVIOUS
  <1>2. /\ Len(a) <= Len(b) /\ Len(b) <= Len(c)
        /\ \A k \in 1 .. Len(a) : a[k] = b[Len(b) - Len(a) + k]
        /\ \A k \in 1 .. Len(b) : b[k] = c[Len(c) - Len(b) + k]
    BY <1>1 DEF Ends
  <1>3. ASSUME NEW k \in 1 .. Len(a) PROVE a[k] = c[Len(c) - Len(a) + k]
    <2>1. Len(b) - Len(a) + k \in 1 .. Len(b)
      BY <1>1, <1>2
    <2>2. Len(c) - Len(b) + (Len(b) - Len(a) + k) = Len(c) - Len(a) + k
      BY <1>1
    <2>3. QED
      BY <1>2, <2>1, <2>2
  <1>4. QED
    BY <1>1, <1>2, <1>3 DEF Ends

LEMMA OneAfterOther ==
  ASSUME NEW S, NEW u \in Seq(S), NEW T, NEW s \in Seq(T)
  PROVE  /\ Len(u \o s) = Len(u) + Len(s)
         /\ \A k \in 1 .. Len(s) : (u \o s)[Len(u) + k] = s[k]
  <1> DEFINE W == S \cup T
  <1>1. /\ Len(u) \in Nat /\ Len(s) \in Nat
        /\ \A k \in 1 .. Len(u) : u[k] \in S
        /\ \A k \in 1 .. Len(s) : s[k] \in T
    OBVIOUS
  <1>2. \A x : x \in S \/ x \in T => x \in W
    OBVIOUS
  <1> HIDE DEF W
  <1>3. u \in Seq(W)
    BY <1>1, <1>2
  <1>4. s \in Seq(W)
    BY <1>1, <1>2
  <1>5. /\ Len(u \o s) = Len(u) + Len(s)
        /\ \A i \in 1 .. Len(u) + Len(s) :
             (u \o s)[i] = IF i <= Len(u) THEN u[i] ELSE s[i - Len(u)]
    BY <1>3, <1>4, ConcatProperties
  <1>6. \A k \in 1 .. Len(s) : /\ Len(u) + k \in 1 .. Len(u) + Len(s)
                               /\ ~(Len(u) + k <= Len(u)) /\ (Len(u) + k) - Len(u) = k
    BY <1>1
  <1>7. QED
    BY <1>5, <1>6

(***************************************************************************)
(* Of an entry that matches, what the menu shows matches somewhere, or it  *)
(* is a type without a package and matches within "undefined.".            *)
(***************************************************************************)
LEMMA MatchesWhatIsShown ==
  ASSUME NEW t \in Term, NEW indices \in SUBSET DOMAIN Index, NEW c,
         NEW row \in MatchingOf(t, indices, c)
  PROVE  \/ GetHighlightedText(t, RenderItem(row)) # {}
         \/ /\ row.category = "Types" /\ row.entry.p = None
            /\ \E i \in 0 .. Len(Undefined) - 1 : OccursAt(t, row.entry.q, i)
  <1> DEFINE e == row.entry
             Camel == \E j \in 0 .. Len(e.shown) - 1 : CamelCaseAt(t, e.shown, j)
             Occurs == \E j \in 0 .. Len(e.shown) - 1 : OccursAt(t, e.shown, j)
             Without == /\ row.category = "Types" /\ e.p = None
                        /\ \E i \in 0 .. Len(Undefined) - 1 : OccursAt(t, e.q, i)
  <1>1. /\ row \in Row /\ row.category = c
        /\ IsPrimary(t, c, e) \/ IsSecondary(t, c, e)
    BY DEF MatchingOf
  <1>2. row.category \in DOMAIN Index /\ e \in Range(Index[row.category])
    BY <1>1, RowIs
  <1> HIDE DEF e
  <1>3. /\ e.l \in Seq(Range(e.l)) /\ e.q \in Seq(Range(e.q)) /\ e.shown \in Seq(Range(e.shown))
        /\ Ends(e.l, e.shown)
        /\ \/ Ends(e.q, e.shown)
           \/ c = "Types" /\ e.p = None /\ e.q = Undefined \o e.shown
    BY <1>1, <1>2, LabelAssumption
  <1>4. t \in Seq(Range(t)) /\ t # <<>> /\ Undefined \in Seq(Range(Undefined))
    BY TermAssumption, LabelAssumption
  <1>5. Len(t) \in Nat /\ DOMAIN t = 1 .. Len(t) /\ 1 \in DOMAIN t /\ Len(t) # 0
    BY <1>4
  <1>6. ASSUME NEW i \in Nat, OccursAt(t, e.q, i)
        PROVE  Occurs \/ Without
    <2>1. CASE Ends(e.q, e.shown)
      BY <1>3, <1>4, <1>6, <2>1, OccursInEnd
    <2>2. CASE c = "Types" /\ e.p = None /\ e.q = Undefined \o e.shown
      <3> DEFINE s == e.shown
                 q == e.q
                 u == Undefined
      <3>1. /\ s \in Seq(Range(s)) /\ u \in Seq(Range(u)) /\ Len(s) \in Nat /\ Len(u) \in Nat
            /\ q = u \o s
        BY <1>3, <1>4, <2>2
      <3> HIDE DEF s, q, u
      <3>2. /\ Len(q) = Len(u) + Len(s)
            /\ \A k \in 1 .. Len(s) : q[Len(u) + k] = s[k]
        BY <3>1, OneAfterOther
      <3>3. /\ i + Len(t) <= Len(q)
            /\ \A k \in 1 .. Len(t) : Fold(t[k]) = Fold(q[i + k])
        BY <1>5, <1>6 DEF OccursAt, q
      <3>4. CASE i < Len(u)
        <4>1. i \in 0 .. Len(u) - 1
          BY <3>1, <3>4
        <4>2. row.category = "Types" /\ OccursAt(t, e.q, i)
          BY <1>1, <1>6, <2>2
        <4>3. QED
          BY <2>2, <4>1, <4>2 DEF u
      <3>5. CASE ~(i < Len(u))
        <4> DEFINE j == i - Len(u)
        <4>1. j \in Nat /\ j + Len(t) <= Len(s) /\ j \in 0 .. Len(s) - 1 /\ Len(u) + j = i
          BY <1>5, <3>1, <3>2, <3>3, <3>5
        <4> HIDE DEF j
        <4>2. ASSUME NEW k \in 1 .. Len(t) PROVE Fold(t[k]) = Fold(s[j + k])
          <5>1. j + k \in 1 .. Len(s) /\ Len(u) + (j + k) = i + k
            <6>1. Len(t) \in Nat /\ Len(s) \in Nat /\ Len(u) \in Nat
              BY <1>5, <3>1
            <6>2. QED
              BY <4>1, <6>1
          <5>2. q[i + k] = s[j + k]
            BY <3>2, <5>1
          <5>3. QED
            BY <3>3, <5>2
        <4>3. OccursAt(t, s, j)
          BY <1>5, <4>1, <4>2 DEF OccursAt
        <4>4. QED
          BY <4>1, <4>3 DEF s
      <3>6. QED
        BY <3>4, <3>5
    <2>3. QED
      BY <1>3, <2>1, <2>2
  <1>7. Name(c, e) \in Seq(Range(e.l)) /\ Ends(Name(c, e), e.shown)
    <2>1. CASE Name(c, e) = e.l
      BY <1>3, <2>1
    <2>2. CASE Name(c, e) = NestedName(e.l)
      <3>1. NestedName(e.l) \in Seq(Range(e.l)) /\ Ends(NestedName(e.l), e.l)
        BY <1>3, NestedIsEnd
      <3>2. QED
        BY <1>3, <2>2, <3>1, EndsOfEnds
    <2>3. QED
      BY <2>1, <2>2 DEF Name
  <1>8. Camel \/ Occurs \/ Without
    <2>1. CASE IsExact(t, c, e)
      <3>1. OccursAt(t, Name(c, e), 0)
        BY <2>1 DEF IsExact, ExactMatcher
      <3>2. QED
        BY <1>3, <1>4, <1>7, <3>1, OccursInEnd
    <2>2. CASE c = "Packages" /\ CamelCaseMatcher(t, e.q)
      <3>1. CamelCaseAt(t, e.q, 0) /\ Ends(e.q, e.shown)
        BY <1>3, <2>2 DEF CamelCaseMatcher
      <3>2. QED
        BY <1>3, <1>4, <3>1, MatchesAtEnd
    <2>3. CASE CamelCaseMatcher(t, Name(c, e))
      <3>1. CamelCaseAt(t, Name(c, e), 0)
        BY <2>3 DEF CamelCaseMatcher
      <3>2. QED
        BY <1>3, <1>4, <1>7, <3>1, MatchesAtEnd
    <2>4. CASE IsSecondary(t, c, e)
      <3>1. PICK i \in 0 .. Len(e.q) - 1 : OccursAt(t, e.q, i)
        BY <2>4 DEF IsSecondary, SecondaryMatcher
      <3>2. i \in Nat
        OBVIOUS
      <3>3. QED
        BY <1>6, <3>1, <3>2
    <2>5. QED
      BY <1>1, <2>1, <2>2, <2>3, <2>4 DEF IsPrimary
  <1>9. RenderItem(row) = e.shown
    BY DEF RenderItem, e
  <1>10. Camel \/ Occurs => GetHighlightedText(t, e.shown) # {}
    BY DEF GetHighlightedText
  <1>11. QED
    BY <1>8, <1>9, <1>10 DEF e

(***************************************************************************)
(* What is a hit in the menu is an entry that matches the last term.       *)
(***************************************************************************)
LEMMA HitsMatch ==
  ASSUME IInv, NEW row \in Range(rows), Hit(row)
  PROVE  /\ term \in Term /\ had \in SUBSET DOMAIN Index /\ row \in Row
         /\ \E c : row \in MatchingOf(term, had, c)
  <1>1. rows # <<>>
    BY DEF Range
  <1>2. term \in Term /\ had \in SUBSET DOMAIN Index
    BY <1>1, MenuIs
  <1>3. PICK out, d : /\ Shown(out, d, term, had)
                      /\ rows = IF out = <<>> THEN <<NoResult>> ELSE out
    BY <1>1, MenuIs
  <1>4. rows = out
    <2>1. CASE out = <<>>
      <3>1. Range(rows) = {NoResult}
        BY <1>3, <2>1 DEF Range
      <3>2. QED
        BY <3>1 DEF Hit
    <2>2. QED
      BY <1>3, <2>1
  <1>5. row \in Row /\ Has(out, row)
    <2>1. out \in Seq(Row)
      BY <1>3 DEF Shown
    <2>2. QED
      BY <1>4, <2>1 DEF Range, Has
  <1>6. \E k \in 1 .. 5 : row \in MatchingOf(term, had, Categories[k])
    BY <1>3, <1>5 DEF Shown
  <1>7. QED
    BY <1>2, <1>5, <1>6

(***************************************************************************)
(* The menu heads each category once, in the order of the site, and of     *)
(* each entry part of what it shows matches and is highlighted, unless it  *)
(* is a type without a package found by letters of "undefined.".           *)
(***************************************************************************)
THEOREM MenuAlwaysExplains == Spec => []MenuExplains
  <1>1. ASSUME IInv PROVE MenuExplains
    <2>1. ASSUME NEW row \in Range(rows), Hit(row)
          PROVE  GetHighlightedText(term, RenderItem(row)) # {} \/ FoundByUndefined(row)
      <3>1. PICK c : row \in MatchingOf(term, had, c)
        BY <1>1, <2>1, HitsMatch
      <3>2. term \in Term /\ had \in SUBSET DOMAIN Index
        BY <1>1, <2>1, HitsMatch
      <3>3. QED
        BY <3>1, <3>2, MatchesWhatIsShown DEF FoundByUndefined
    <2>2. QED
      BY <1>1, <2>1, HeadsInOrder DEF MenuExplains
  <1>2. QED
    BY <1>1, AlwaysAnswered, PTL

(***************************************************************************)
(* No package of this site names a module, so no address begins with one,  *)
(* whether the index of the packages has arrived or not.                   *)
(***************************************************************************)
LEMMA NoPrefix ==
  ASSUME NEW indices \in SUBSET DOMAIN Index, NEW row \in Row
  PROVE  GetURLPrefix(row, indices) = <<>>
  <1> DEFINE named == {e \in Range(Entries(indices, "Packages")) : e.m # None /\ row.entry.p = e.l}
  <1>1. /\ row.category \in {"Packages", "Types", "Members"}
        /\ row.category \in DOMAIN Index /\ row.entry \in Range(Index[row.category])
    BY RowIs, PageAssumption
  <1>2. ASSUME NEW e \in Range(Entries(indices, "Packages")) PROVE e.m = None
    <2>1. CASE "Packages" \in indices
      <3>1. "Packages" \in DOMAIN Index /\ e \in Range(Index["Packages"])
        BY <2>1 DEF Entries
      <3>2. QED
        BY <3>1, PageAssumption
    <2>2. CASE "Packages" \notin indices
      <3>1. Range(Entries(indices, "Packages")) = {}
        BY <2>2 DEF Entries, Range
      <3>2. QED
        BY <3>1
    <2>3. QED
      BY <2>1, <2>2
  <1>3. named = {}
    BY <1>2
  <1>4. row.category = "Packages" => row.entry.m = None
    BY <1>1, PageAssumption
  <1> HIDE DEF named
  <1>5. GetURLPrefix(row, indices) =
          CASE row.category = "Modules" -> row.entry.l
            [] row.category = "Packages" /\ row.entry.m # None -> row.entry.m
            [] row.category \in {"Types", "Members"} /\ named # {} -> (CHOOSE e \in named : TRUE).m
            [] OTHER -> <<>>
    BY DEF GetURLPrefix, named
  <1>6. QED
    BY <1>1, <1>3, <1>4, <1>5

LEMMA EmptyIsList == <<>> \in Seq(Range(<<>>))
  OBVIOUS

(***************************************************************************)
(* Whichever indices have arrived, an entry leads to its page.             *)
(***************************************************************************)
THEOREM SelectAlwaysLeadsToPage == Spec => []SelectLeadsToPage
  <1>1. ASSUME IInv PROVE SelectLeadsToPage
    <2>1. SUFFICES ASSUME NEW row \in Range(rows), Hit(row)
                   PROVE  Url(row, loaded) = row.entry.page
      BY DEF SelectLeadsToPage
    <2> DEFINE e == row.entry
               package == IF e.p = Unnamed THEN <<>> ELSE e.p
    <2>2. row \in Row /\ loaded \in SUBSET DOMAIN Index
      BY <1>1, <2>1, HitsMatch DEF IInv, Boxes
    <2>3. GetURLPrefix(row, loaded) = <<>>
      BY <2>2, NoPrefix
    <2>4. /\ row.category \in DOMAIN Index /\ e \in Range(Index[row.category])
          /\ row.category \in {"Packages", "Types", "Members"}
      BY <2>2, RowIs, PageAssumption
    <2>5. e.l \in Seq(Range(e.l))
      BY <2>4, LabelAssumption
    <2>6. /\ e.url # None /\ row.category # "Members" => e.page = e.url
          /\ e.url = None /\ row.category = "Packages" => e.page = e.l \o <<"package-summary">>
          /\ e.url = None /\ row.category = "Types" => e.page = package \o e.l
          /\ row.category = "Members" =>
               e.page = package \o e.c \o <<"#">> \o (IF e.url = None THEN e.l ELSE e.url)
      BY <2>4, PageAssumption
    <2>7. row.category # "Packages" => package \in Seq(Range(package))
      BY <2>4, PageAssumption, EmptyIsList
    <2>8. /\ row.category # "Packages" => <<>> \o package = package
          /\ <<>> \o e.l = e.l
      <3> HIDE DEF package, e
      <3>1. QED
        BY <2>5, <2>7
    <2>9. CASE row.category = "Packages"
      <3>1. Url(row, loaded) =
              IF e.url # None THEN e.url ELSE <<>> \o e.l \o <<"package-summary">>
        BY <2>3, <2>9 DEF Url
      <3>2. QED
        BY <2>6, <2>8, <2>9, <3>1
    <2>10. CASE row.category = "Types"
      <3>1. Url(row, loaded) = IF e.url # None THEN e.url ELSE <<>> \o package \o e.l
        BY <2>3, <2>10 DEF Url
      <3>2. QED
        BY <2>6, <2>8, <2>10, <3>1
    <2>11. CASE row.category = "Members"
      <3>1. Url(row, loaded) =
              <<>> \o package \o e.c \o <<"#">> \o (IF e.url # None THEN e.url ELSE e.l)
        BY <2>3, <2>11 DEF Url
      <3>2. (IF e.url # None THEN e.url ELSE e.l) = (IF e.url = None THEN e.l ELSE e.url)
        OBVIOUS
      <3>3. QED
        BY <2>6, <2>8, <2>11, <3>1, <3>2
    <2>12. QED
      BY <2>4, <2>9, <2>10, <2>11
  <1>2. QED
    BY <1>1, AlwaysAnswered, PTL
=============================================================================
