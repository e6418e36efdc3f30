----------------------------- MODULE ClockProofs -----------------------------
(***************************************************************************)
(* What the search for a frame computes, for any number of frames and from *)
(* any frame table, REF bits and NextCheckedFrame.                         *)
(***************************************************************************)
EXTENDS ClockReplacement, WellFoundedInduction, TLAPS

-----------------------------------------------------------------------------
(* The looks.                                                                *)

LEMMA LookRange == \A hand \in Frame, i \in Nat : Look(hand, i) \in Frame
  BY NumFramesAssumption DEF Look, Frame

LEMMA HandRange == \A f \in Frame : HandAfter(f) \in Frame
  BY NumFramesAssumption DEF HandAfter, Frame

\* Going round once.
LEMMA Wrap ==
  ASSUME NEW n \in Nat \ {0}, NEW x \in 0 .. 2 * n - 1
  PROVE  x % n = IF x < n THEN x ELSE x - n
BY SMT

LEMMA LookValue ==
  ASSUME NEW hand \in Frame, NEW i \in 0 .. NumFrames
  PROVE  Look(hand, i) = IF hand + i < NumFrames THEN hand + i ELSE hand + i - NumFrames
<1> DEFINE x == hand + i
<1>1. NumFrames \in Nat \ {0} /\ x \in 0 .. 2 * NumFrames - 1
  BY NumFramesAssumption DEF Frame
<1>2. Look(hand, i) = x % NumFrames
  BY DEF Look
<1> HIDE DEF x
<1>3. x % NumFrames = IF x < NumFrames THEN x ELSE x - NumFrames
  BY <1>1, Wrap, Zenon
<1> QED
  BY <1>1, <1>2, <1>3 DEF x, Frame

LEMMA HandValue ==
  ASSUME NEW f \in Frame
  PROVE  HandAfter(f) = IF f + 1 < NumFrames THEN f + 1 ELSE 0
<1> DEFINE x == f + 1
<1>1. NumFrames \in Nat \ {0} /\ x \in 0 .. 2 * NumFrames - 1
  BY NumFramesAssumption DEF Frame
<1>2. HandAfter(f) = x % NumFrames
  BY DEF HandAfter
<1> HIDE DEF x
<1>3. x % NumFrames = IF x < NumFrames THEN x ELSE x - NumFrames
  BY <1>1, Wrap, Zenon
<1> QED
  BY <1>2, <1>3, NumFramesAssumption DEF x, Frame

\* The first NumFrames looks are at every frame once, and the last is at the first again.
LEMMA LookReaches ==
  ASSUME NEW hand \in Frame, NEW f \in Frame
  PROVE  \E i \in 0 .. NumFrames - 1 : Look(hand, i) = f
<1> DEFINE i == IF hand <= f THEN f - hand ELSE f + NumFrames - hand
<1>1. i \in 0 .. NumFrames - 1 /\ i \in 0 .. NumFrames
  BY NumFramesAssumption DEF Frame
<1>2. Look(hand, i) = IF hand + i < NumFrames THEN hand + i ELSE hand + i - NumFrames
  BY <1>1, LookValue
<1>3. Look(hand, i) = f
  BY <1>2, NumFramesAssumption DEF Frame
<1> QED
  BY <1>1, <1>3

LEMMA LooksApart ==
  ASSUME NEW hand \in Frame, NEW i \in 0 .. NumFrames - 1, NEW j \in 0 .. NumFrames - 1,
         Look(hand, i) = Look(hand, j)
  PROVE  i = j
<1>1. i \in 0 .. NumFrames /\ j \in 0 .. NumFrames
  BY NumFramesAssumption
<1>2. /\ Look(hand, i) = IF hand + i < NumFrames THEN hand + i ELSE hand + i - NumFrames
      /\ Look(hand, j) = IF hand + j < NumFrames THEN hand + j ELSE hand + j - NumFrames
  BY <1>1, LookValue
<1>3. NumFrames \in Nat \ {0} /\ hand \in Nat /\ i \in Nat /\ j \in Nat
  BY NumFramesAssumption DEF Frame
<1>4. i < NumFrames /\ j < NumFrames
  BY <1>3
<1>5. (IF hand + i < NumFrames THEN hand + i ELSE hand + i - NumFrames)
        = IF hand + j < NumFrames THEN hand + j ELSE hand + j - NumFrames
  BY <1>2
<1> QED
  BY <1>3, <1>4, <1>5

LEMMA LookAround ==
  ASSUME NEW hand \in Frame
  PROVE  Look(hand, 0) = hand /\ Look(hand, NumFrames) = hand
<1>1. 0 \in 0 .. NumFrames /\ NumFrames \in 0 .. NumFrames
  BY NumFramesAssumption
<1>2. /\ Look(hand, 0) = IF hand + 0 < NumFrames THEN hand + 0 ELSE hand + 0 - NumFrames
      /\ Look(hand, NumFrames) = IF hand + NumFrames < NumFrames THEN hand + NumFrames
                                 ELSE hand + NumFrames - NumFrames
  BY <1>1, LookValue
<1> QED
  BY <1>2, NumFramesAssumption DEF Frame

-----------------------------------------------------------------------------
(* A non-empty set of naturals has a least element, the one Least chooses.   *)

LEMMA LessThanIsWellFounded ==
  \E R : /\ IsWellFoundedOn(R, Nat)
         /\ \A x, y \in Nat : y < x => <<y, x>> \in R
<1> DEFINE R == OpToRel(<, Nat)
<1>1. IsWellFoundedOn(R, Nat)
  BY NatLessThanWellFounded DEF R
<1>2. \A x, y \in Nat : y < x => <<y, x>> \in R
  BY DEF OpToRel
<1> HIDE DEF R
<1> QED
  BY <1>1, <1>2, Zenon

LEMMA LeastIsLeast ==
  ASSUME NEW S \in SUBSET Nat, S # {}
  PROVE  Least(S) \in S /\ \A k \in S : Least(S) <= k
<1>1. PICK R : /\ IsWellFoundedOn(R, Nat)
               /\ \A x, y \in Nat : y < x => <<y, x>> \in R
  BY LessThanIsWellFounded
<1>2. PICK m \in S : \A y \in S : ~ (<<y, m>> \in R)
  BY <1>1, WFMin
<1>3. \A k \in S : ~ (k < m)
  <2> TAKE k \in S
  <2>1. k \in Nat /\ m \in Nat
    OBVIOUS
  <2>2. k < m => <<k, m>> \in R
    BY <1>1, <2>1, Zenon
  <2> QED
    BY <1>2, <2>2, Zenon
<1>4. S \subseteq Int
  OBVIOUS
<1>5. \A k \in S : m <= k
  BY <1>3, <1>4
<1> QED
  BY <1>5, Zenon DEF Least

-----------------------------------------------------------------------------
(* The search for a frame.                                                   *)

\* The search returns a frame or EMPTY, moves NextCheckedFrame to a frame, and leaves
\* REF bits.
LEMMA NextFrameType ==
  ASSUME NEW ft, NEW bits \in [Frame -> BOOLEAN], NEW hand \in Frame
  PROVE  NextFrame(ft, bits, hand) \in Choice
<1>1. CASE FreeFrames(ft) # {}
  <2>1. FreeFrames(ft) \in SUBSET Nat
    BY NumFramesAssumption DEF FreeFrames, Frame
  <2>2. Least(FreeFrames(ft)) \in Frame
    BY <1>1, <2>1, LeastIsLeast DEF FreeFrames
  <2> QED
    BY <1>1, <2>2 DEF NextFrame, Choice
<1>2. CASE FreeFrames(ft) = {}
  <2> DEFINE stops == Stops(ft, bits, hand)
             last  == Least(stops)
  <2>1. \A n : Swept(ft, bits, hand, n) \in [Frame -> BOOLEAN]
    BY DEF Swept
  <2>2. CASE stops = {}
    BY <1>2, <2>1, <2>2 DEF NextFrame, ClockSearch, Choice
  <2>3. CASE stops # {}
    <3>1. stops \in SUBSET Nat
      BY NumFramesAssumption DEF Stops
    <3>2. last \in Nat
      BY <2>3, <3>1, LeastIsLeast
    <3>3. Look(hand, last) \in Frame /\ HandAfter(Look(hand, last)) \in Frame
      BY <3>2, LookRange, HandRange
    <3> HIDE DEF last
    <3> QED
      BY <1>2, <2>1, <2>3, <3>3 DEF NextFrame, ClockSearch, Choice, last
  <2> QED
    BY <2>2, <2>3
<1> QED
  BY <1>1, <1>2

LEMMA LeastIs ==
  ASSUME NEW S \in SUBSET Nat, NEW m \in S, \A k \in S : m <= k
  PROVE  Least(S) = m
<1>1. Least(S) \in S /\ \A k \in S : Least(S) <= k
  BY LeastIsLeast
<1>2. Least(S) <= m /\ m <= Least(S) /\ Least(S) \in Nat /\ m \in Nat
  BY <1>1
<1> QED
  BY <1>2

\* A free frame, the first one.
LEMMA SearchFree ==
  ASSUME NEW ft, NEW bits, NEW hand, NEW f \in FreeFrames(ft), \A g \in FreeFrames(ft) : f <= g
  PROVE  NextFrame(ft, bits, hand) = [frame |-> f, hand |-> hand, ref |-> bits]
<1>1. FreeFrames(ft) \in SUBSET Nat
  BY NumFramesAssumption DEF FreeFrames, Frame
<1>2. Least(FreeFrames(ft)) = f
  BY <1>1, LeastIs
<1> QED
  BY <1>2 DEF NextFrame

\* When none is free, the frame of the first look that ends the search.
LEMMA SearchStops ==
  ASSUME NEW ft, NEW bits, NEW hand, FreeFrames(ft) = {},
         NEW i \in Stops(ft, bits, hand), \A k \in Stops(ft, bits, hand) : i <= k
  PROVE  NextFrame(ft, bits, hand) = [frame |-> Look(hand, i), hand |-> HandAfter(Look(hand, i)),
                                      ref |-> Swept(ft, bits, hand, i)]
<1>1. Stops(ft, bits, hand) \in SUBSET Nat
  BY NumFramesAssumption DEF Stops
<1>2. Least(Stops(ft, bits, hand)) = i
  BY <1>1, LeastIs
<1> QED
  BY <1>2 DEF NextFrame, ClockSearch

LEMMA SearchFails ==
  ASSUME NEW ft, NEW bits, NEW hand, FreeFrames(ft) = {}, Stops(ft, bits, hand) = {}
  PROVE  NextFrame(ft, bits, hand) = [frame |-> EMPTY, hand |-> hand,
                                      ref |-> Swept(ft, bits, hand, NumFrames + 1)]
BY DEF NextFrame, ClockSearch

\* The three cases are all there are.
LEMMA SearchCases ==
  ASSUME NEW ft, NEW bits, NEW hand
  PROVE  \/ \E f \in FreeFrames(ft) : \A g \in FreeFrames(ft) : f <= g
         \/ FreeFrames(ft) = {} /\ \E i \in Stops(ft, bits, hand) :
                                      \A k \in Stops(ft, bits, hand) : i <= k
         \/ FreeFrames(ft) = {} /\ Stops(ft, bits, hand) = {}
<1>1. FreeFrames(ft) \in SUBSET Nat /\ Stops(ft, bits, hand) \in SUBSET Nat
  BY NumFramesAssumption DEF FreeFrames, Stops, Frame
<1> QED
  BY <1>1, LeastIsLeast

\* One look more sweeps its frame, unless it is locked.
LEMMA SweptNext ==
  ASSUME NEW ft, NEW bits \in [Frame -> BOOLEAN], NEW hand, NEW n \in Nat
  PROVE  Swept(ft, bits, hand, n + 1) =
            IF ft[Look(hand, n)].locked THEN Swept(ft, bits, hand, n)
            ELSE [Swept(ft, bits, hand, n) EXCEPT ![Look(hand, n)] = FALSE]
<1>1. ASSUME NEW f \in Frame
      PROVE  /\ Swept(ft, bits, hand, n + 1)[f] \in BOOLEAN
             /\ Swept(ft, bits, hand, n)[f] \in BOOLEAN
             /\ Swept(ft, bits, hand, n + 1)[f] <=>
                   /\ Swept(ft, bits, hand, n)[f]
                   /\ Look(hand, n) = f => ft[f].locked
  <2>1. \A j : j \in 0 .. (n + 1) - 1 <=> j \in 0 .. n - 1 \/ j = n
    OBVIOUS
  <2> QED
    BY <2>1 DEF Swept
<1>2. /\ DOMAIN Swept(ft, bits, hand, n) = Frame /\ DOMAIN Swept(ft, bits, hand, n + 1) = Frame
      /\ Swept(ft, bits, hand, n) \in [Frame -> BOOLEAN]
      /\ Swept(ft, bits, hand, n + 1) \in [Frame -> BOOLEAN]
  BY DEF Swept
<1> DEFINE one == Swept(ft, bits, hand, n)
           two == Swept(ft, bits, hand, n + 1)
<1> HIDE DEF one, two
<1>3. CASE ft[Look(hand, n)].locked
  <2>1. \A f \in Frame : two[f] = one[f]
    BY <1>1, <1>3 DEF one, two
  <2> QED
    BY <1>2, <1>3, <2>1 DEF one, two
<1>4. CASE ~ ft[Look(hand, n)].locked
  <2>1. \A f \in Frame : two[f] = IF f = Look(hand, n) THEN FALSE ELSE one[f]
    BY <1>1, <1>4 DEF one, two
  <2>2. two = [one EXCEPT ![Look(hand, n)] = FALSE]
    BY <1>2, <2>1 DEF one, two
  <2> QED
    BY <1>4, <2>2 DEF one, two
<1> QED
  BY <1>3, <1>4

\* What a look finds of a frame that is not locked: the bit it had when the search began,
\* and after a whole round none.
LEMMA BitFound ==
  ASSUME NEW ft, NEW bits \in [Frame -> BOOLEAN], NEW hand \in Frame, NEW i \in 0 .. NumFrames,
         ~ ft[Look(hand, i)].locked
  PROVE  Swept(ft, bits, hand, i)[Look(hand, i)] <=> bits[Look(hand, i)] /\ i # NumFrames
<1> DEFINE f == Look(hand, i)
<1>0. f \in Frame
  BY LookRange, NumFramesAssumption
<1>1. Swept(ft, bits, hand, i)[f] <=>
          bits[f] /\ \A j \in 0 .. i - 1 : Look(hand, j) = f => ft[f].locked
  BY <1>0 DEF Swept
<1>2. CASE i = NumFrames
  <2>1. 0 \in 0 .. i - 1 /\ Look(hand, 0) = f
    BY <1>2, LookAround, NumFramesAssumption
  <2> QED
    BY <1>1, <1>2, <2>1
<1>3. CASE i # NumFrames
  <2>1. i \in 0 .. NumFrames - 1 /\ \A j \in 0 .. i - 1 : j \in 0 .. NumFrames - 1 /\ j # i
    BY <1>3, NumFramesAssumption
  <2>2. \A j \in 0 .. i - 1 : Look(hand, j) # f
    BY <2>1, LooksApart
  <2> QED
    BY <1>1, <1>3, <2>2
<1> QED
  BY <1>2, <1>3
=============================================================================
