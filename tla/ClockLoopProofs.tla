--------------------------- MODULE ClockLoopProofs ---------------------------
(***************************************************************************)
(* For any number of frames: the loops of getNextFrame compute the closed  *)
(* form of the search, and the search is a clock.                          *)
(***************************************************************************)
EXTENDS ClockLoop, ClockProofs

\* What the looks so far have shown, and what they have left.
LoopInv ==
    /\ pc = "free" => /\ look <= NumFrames /\ before = ref
                      /\ \A f \in Frame : f < look => ft[f].page # EMPTY
    /\ pc = "clock" => /\ FreeFrames(ft) = {}
                       /\ ref = Swept(ft, before, hand, look)
                       /\ \A k \in Stops(ft, before, hand) : look <= k

\* NextCheckedFrame is behind the frame replaced last.
HandInv == last # EMPTY => hand = HandAfter(last)

Inv == LoopTypeOK /\ LoopInv /\ HandInv

-----------------------------------------------------------------------------
(* The invariant.                                                            *)

LEMMA InvInit == LoopInit => Inv
BY NumFramesAssumption DEF LoopInit, Init, Inv, LoopTypeOK, LoopInv, HandInv, Frame

LEMMA GivenType ==
  ASSUME LoopTypeOK, NEW f \in Frame
  PROVE  Given(f) \in [Frame -> [page : {RESIDENT, EMPTY}, locked : BOOLEAN]]
BY DEF LoopTypeOK, Given

LEMMA ReturnInv ==
  ASSUME Inv, NEW f \in Frame \cup {EMPTY}, NEW newHand, NEW newLast, Return(f, newHand, newLast),
         \/ newHand = hand /\ newLast = last
         \/ f \in Frame /\ newHand = HandAfter(f) /\ newLast = f
  PROVE  Inv'
<1>1. newHand \in Frame /\ newLast \in Frame \cup {EMPTY}
  BY HandRange DEF Inv, LoopTypeOK
<1>2. ft' \in [Frame -> [page : {RESIDENT, EMPTY}, locked : BOOLEAN]]
  <2>1. CASE f = EMPTY
    BY <2>1 DEF Return, Inv, LoopTypeOK
  <2>2. CASE f # EMPTY
    BY <2>2, GivenType DEF Return, Inv
  <2> QED
    BY <2>1, <2>2
<1>3. LoopTypeOK'
  BY <1>1, <1>2, NumFramesAssumption DEF Return, Inv, LoopTypeOK
<1>4. LoopInv'
  BY DEF Return, LoopInv
<1>5. HandInv'
  BY DEF Return, Inv, HandInv
<1> QED
  BY <1>3, <1>4, <1>5 DEF Inv

LEMMA FreeLookInv ==
  ASSUME Inv, FreeLook
  PROVE  Inv'
<1>0. pc = "free" /\ look \in Nat /\ NumFrames \in Nat \ {0}
  BY NumFramesAssumption DEF FreeLook, Inv, LoopTypeOK
<1>1. CASE look < NumFrames /\ Return(look, hand, last)
  <2>1. look \in Frame
    BY <1>0, <1>1 DEF Frame
  <2> QED
    BY <1>1, <2>1, ReturnInv
<1>2. CASE look < NumFrames /\ ft[look].page # EMPTY /\ GoOn("free", look + 1, ref)
  <2>1. LoopTypeOK'
    BY <1>0, <1>2 DEF GoOn, Inv, LoopTypeOK
  <2>2. LoopInv'
    <3>1. \A f \in Frame : f < look + 1 => ft[f].page # EMPTY
      BY <1>0, <1>2 DEF Inv, LoopInv, Frame
    <3> QED
      BY <1>0, <1>2, <3>1 DEF GoOn, Inv, LoopInv
  <2> QED
    BY <1>2, <2>1, <2>2 DEF GoOn, Inv, HandInv
<1>3. CASE look = NumFrames /\ GoOn("clock", 0, ref)
  <2>1. LoopTypeOK'
    BY <1>0, <1>3 DEF GoOn, Inv, LoopTypeOK
  <2>2. FreeFrames(ft) = {}
    BY <1>0, <1>3 DEF FreeFrames, Frame, Inv, LoopInv
  <2>3. ref = Swept(ft, before, hand, 0)
    <3>1. ref = before /\ ref \in [Frame -> BOOLEAN]
      BY <1>0 DEF Inv, LoopInv, LoopTypeOK
    <3>2. \A f \in Frame :
              ref[f] = (ref[f] /\ \A j \in 0 .. 0 - 1 : Look(hand, j) = f => ft[f].locked)
      BY <3>1
    <3> QED
      BY <3>1, <3>2 DEF Swept
  <2>4. \A k \in Stops(ft, before, hand) : 0 <= k
    BY DEF Stops
  <2>5. LoopInv'
    BY <1>3, <2>2, <2>3, <2>4 DEF GoOn, LoopInv
  <2> QED
    BY <1>3, <2>1, <2>5 DEF GoOn, Inv, HandInv
<1> QED
  BY <1>1, <1>2, <1>3 DEF FreeLook

\* Where the clock's look is, and when it ends the search.
LEMMA ClockLookAt ==
  ASSUME Inv, pc = "clock", look <= NumFrames
  PROVE  /\ Look(hand, look) \in Frame
         /\ look \in Stops(ft, before, hand) <=>
                ~ ft[Look(hand, look)].locked /\ ~ ref[Look(hand, look)]
<1>1. /\ look \in 0 .. NumFrames /\ hand \in Frame /\ before \in [Frame -> BOOLEAN]
      /\ ref = Swept(ft, before, hand, look)
  BY NumFramesAssumption DEF Inv, LoopTypeOK, LoopInv
<1>2. Look(hand, look) \in Frame
  BY <1>1, LookRange
<1>3. ~ ft[Look(hand, look)].locked =>
        (ref[Look(hand, look)] <=> before[Look(hand, look)] /\ look # NumFrames)
  BY <1>1, BitFound
<1>4. look \in Stops(ft, before, hand) <=>
        /\ ~ ft[Look(hand, look)].locked
        /\ before[Look(hand, look)] => look = NumFrames
  BY <1>1 DEF Stops
<1> QED
  BY <1>2, <1>3, <1>4

LEMMA SweptHere ==
  ASSUME look \in Nat, before \in [Frame -> BOOLEAN]
  PROVE  Swept(ft, before, hand, look + 1) =
            IF ft[Look(hand, look)].locked THEN Swept(ft, before, hand, look)
            ELSE [Swept(ft, before, hand, look) EXCEPT ![Look(hand, look)] = FALSE]
BY SweptNext

\* A look that does not end the search leaves it to the next one.
LEMMA ClockGoesOn ==
  ASSUME Inv, pc = "clock", look <= NumFrames, look \notin Stops(ft, before, hand),
         GoOn("clock", look + 1, IF ft[Look(hand, look)].locked THEN ref
                                 ELSE [ref EXCEPT ![Look(hand, look)] = FALSE])
  PROVE  Inv'
<1>1. /\ look \in Nat /\ hand \in Frame /\ NumFrames \in Nat
      /\ before \in [Frame -> BOOLEAN] /\ ref \in [Frame -> BOOLEAN]
  BY NumFramesAssumption DEF Inv, LoopTypeOK
<1>2. ref' = Swept(ft, before, hand, look + 1)
  <2>1. Swept(ft, before, hand, look + 1) =
            IF ft[Look(hand, look)].locked THEN Swept(ft, before, hand, look)
            ELSE [Swept(ft, before, hand, look) EXCEPT ![Look(hand, look)] = FALSE]
    BY <1>1, SweptHere
  <2>2. ref = Swept(ft, before, hand, look)
    BY DEF Inv, LoopInv
  <2>3. ref' = IF ft[Look(hand, look)].locked THEN ref
               ELSE [ref EXCEPT ![Look(hand, look)] = FALSE]
    BY DEF GoOn
  <2> QED
    BY <2>1, <2>2, <2>3
<1>3. \A k \in Stops(ft, before, hand) : look + 1 <= k
  BY <1>1 DEF Inv, LoopInv, Stops
<1>4. LoopInv'
  BY <1>2, <1>3 DEF GoOn, Inv, LoopInv
<1>5. ref' \in [Frame -> BOOLEAN]
  BY <1>1, <1>2 DEF Swept
<1>6. LoopTypeOK'
  BY <1>1, <1>5 DEF GoOn, Inv, LoopTypeOK
<1> QED
  BY <1>4, <1>6 DEF GoOn, Inv, HandInv

LEMMA ClockLookInv ==
  ASSUME Inv, ClockLook
  PROVE  Inv'
<1> DEFINE index == Look(hand, look)
<1>0. pc = "clock"
  BY DEF ClockLook
<1>1. CASE look <= NumFrames /\ ft[index].locked /\ GoOn("clock", look + 1, ref)
  BY <1>0, <1>1, ClockLookAt, ClockGoesOn
<1>2. CASE /\ look <= NumFrames /\ ~ft[index].locked /\ ref[index]
           /\ GoOn("clock", look + 1, [ref EXCEPT ![index] = FALSE])
  BY <1>0, <1>2, ClockLookAt, ClockGoesOn
<1>3. CASE look <= NumFrames /\ Return(index, HandAfter(index), index)
  BY <1>0, <1>3, ClockLookAt, ReturnInv
<1>4. CASE Return(EMPTY, hand, last)
  BY <1>4, ReturnInv
<1> QED
  BY <1>1, <1>2, <1>3, <1>4 DEF ClockLook

LEMMA OthersInv ==
  ASSUME Inv, pc = "idle", Others, UNCHANGED <<pc, look, before>>
  PROVE  Inv'
<1>1. LoopTypeOK'
  BY DEF Others, Unlock, Use, Free, Inv, LoopTypeOK
<1> QED
  BY <1>1 DEF Others, Unlock, Use, Free, Inv, LoopInv, HandInv

LEMMA BeginInv ==
  ASSUME Inv, Begin
  PROVE  Inv'
<1>1. LoopTypeOK'
  BY NumFramesAssumption DEF Begin, vars, Inv, LoopTypeOK
<1>2. LoopInv'
  BY NumFramesAssumption DEF Begin, vars, LoopInv, Frame
<1> QED
  BY <1>1, <1>2 DEF Begin, vars, Inv, HandInv

LEMMA InvNext == Inv /\ [LoopNext]_loopVars => Inv'
<1> SUFFICES ASSUME Inv, [LoopNext]_loopVars PROVE Inv'
  OBVIOUS
<1>1. CASE UNCHANGED loopVars
  BY <1>1 DEF loopVars, vars, Inv, LoopTypeOK, LoopInv, HandInv
<1> QED
  BY <1>1, BeginInv, FreeLookInv, ClockLookInv, OthersInv DEF LoopNext

LEMMA InvAlways == LoopSpec => []Inv
BY InvInit, InvNext, PTL DEF LoopSpec

\* At every look the loop variable, NextCheckedFrame and the frames it gives are in range
\* (phase5utility.c:218-245).
THEOREM LoopTypes == LoopSpec => []LoopTypeOK
<1>1. Inv => LoopTypeOK
  BY DEF Inv
<1> QED
  BY <1>1, InvAlways, PTL
-----------------------------------------------------------------------------
(* The search is a clock.                                                    *)

\* A frame with a page in it is found by the clock: its look is the first that ends the
\* search.
LEMMA EvictedByClock ==
  ASSUME LoopTypeOK, NEW f \in Frame, Evicts(f)
  PROVE  \E i \in Stops(ft, ref, hand) : /\ Look(hand, i) = f
                                         /\ \A k \in Stops(ft, ref, hand) : i <= k
<1>0. ft[f].page # EMPTY /\ f # EMPTY
  BY DEF Evicts, RESIDENT, EMPTY, Frame
<1>1. CASE \E g \in FreeFrames(ft) : \A h \in FreeFrames(ft) : g <= h
  <2>1. PICK g \in FreeFrames(ft) : \A h \in FreeFrames(ft) : g <= h
    BY <1>1
  <2>2. NextFrame(ft, ref, hand).frame = g
    BY <2>1, SearchFree
  <2> QED
    BY <1>0, <2>1, <2>2 DEF Evicts, FreeFrames
<1>2. CASE FreeFrames(ft) = {} /\ \E i \in Stops(ft, ref, hand) :
                                      \A k \in Stops(ft, ref, hand) : i <= k
  <2>1. PICK i \in Stops(ft, ref, hand) : \A k \in Stops(ft, ref, hand) : i <= k
    BY <1>2
  <2>2. NextFrame(ft, ref, hand).frame = Look(hand, i)
    BY <1>2, <2>1, SearchStops
  <2> QED
    BY <2>1, <2>2 DEF Evicts
<1>3. CASE FreeFrames(ft) = {} /\ Stops(ft, ref, hand) = {}
  <2>1. NextFrame(ft, ref, hand).frame = EMPTY
    BY <1>3, SearchFails
  <2> QED
    BY <1>0, <2>1 DEF Evicts
<1> QED
  BY <1>1, <1>2, <1>3, SearchCases

\* The frame of a look before the first that ends the search is locked or has been used.
LEMMA PassedOver ==
  ASSUME NEW i \in Stops(ft, ref, hand), \A k \in Stops(ft, ref, hand) : i <= k,
         NEW j \in 0 .. NumFrames - 1, j < i
  PROVE  ft[Look(hand, j)].locked \/ ref[Look(hand, j)]
<1>1. j \in 0 .. NumFrames /\ i \in 0 .. NumFrames /\ ~ (i <= j)
  BY NumFramesAssumption DEF Stops
<1>2. j \notin Stops(ft, ref, hand)
  BY <1>1
<1> QED
  BY <1>1, <1>2 DEF Stops

LEMMA ChanceGiven == LoopTypeOK => SecondChance
<1> SUFFICES ASSUME LoopTypeOK, NEW f \in Frame, Evicts(f)
             PROVE  /\ ~ ft[f].locked
                    /\ ref[f] => \A g \in Frame : ft[g].locked \/ ref[g]
  BY DEF SecondChance
<1>1. PICK i \in Stops(ft, ref, hand) : /\ Look(hand, i) = f
                                        /\ \A k \in Stops(ft, ref, hand) : i <= k
  BY EvictedByClock
<1>2. ~ ft[f].locked /\ (ref[f] => i = NumFrames)
  BY <1>1 DEF Stops
<1>3. ASSUME ref[f], NEW g \in Frame PROVE ft[g].locked \/ ref[g]
  <2>1. PICK j \in 0 .. NumFrames - 1 : Look(hand, j) = g
    BY LookReaches DEF LoopTypeOK
  <2>2. j < i
    BY <1>2, <1>3, NumFramesAssumption
  <2> QED
    BY <1>1, <2>1, <2>2, PassedOver
<1> QED
  BY <1>2, <1>3

LEMMA TurnsTaken == LoopTypeOK /\ HandInv => TakesTurns
<1> SUFFICES ASSUME LoopTypeOK, HandInv, NEW f \in Frame, Evicts(f), last = f,
                    NEW g \in Frame \ {f}
             PROVE  ft[g].locked \/ ref[g]
  BY DEF TakesTurns
<1>1. PICK i \in Stops(ft, ref, hand) : /\ Look(hand, i) = f
                                        /\ \A k \in Stops(ft, ref, hand) : i <= k
  BY EvictedByClock
<1>2. PICK j \in 0 .. NumFrames - 1 : Look(hand, j) = g
  BY LookReaches DEF LoopTypeOK
<1>3. hand = IF f + 1 < NumFrames THEN f + 1 ELSE 0
  BY HandValue DEF HandInv, Frame, EMPTY
<1>4. /\ Look(hand, i) = IF hand + i < NumFrames THEN hand + i ELSE hand + i - NumFrames
      /\ i \in 0 .. NumFrames
  BY LookValue DEF Stops, LoopTypeOK
<1>5. f \in 0 .. NumFrames - 1 /\ NumFrames \in Nat
  BY NumFramesAssumption DEF Frame
<1>6. i >= NumFrames - 1
  BY <1>1, <1>3, <1>4, <1>5
<1>7. j # i
  BY <1>1, <1>2
<1>8. j < i
  BY <1>4, <1>5, <1>6, <1>7
<1> QED
  BY <1>1, <1>2, <1>8, PassedOver

LEMMA FailsThere == LoopTypeOK => FailsAtALock
<1> SUFFICES ASSUME LoopTypeOK PROVE FailsAtALock
  OBVIOUS
<1>0. /\ NumFrames \in 0 .. NumFrames /\ hand \in Frame /\ Look(hand, NumFrames) = hand
      /\ EMPTY \notin Frame
  BY NumFramesAssumption, LookAround DEF LoopTypeOK, EMPTY, Frame
<1>1. CASE \E f \in FreeFrames(ft) : \A g \in FreeFrames(ft) : f <= g
  <2>1. PICK f \in FreeFrames(ft) : \A g \in FreeFrames(ft) : f <= g
    BY <1>1
  <2>2. NextFrame(ft, ref, hand).frame = f /\ f \in Frame /\ ft[f].page = EMPTY
    BY <2>1, SearchFree DEF FreeFrames
  <2> QED
    BY <1>0, <2>2 DEF FailsAtALock
<1>2. CASE FreeFrames(ft) = {} /\ \E i \in Stops(ft, ref, hand) :
                                      \A k \in Stops(ft, ref, hand) : i <= k
  <2>1. PICK i \in Stops(ft, ref, hand) : \A k \in Stops(ft, ref, hand) : i <= k
    BY <1>2
  <2>2. /\ NextFrame(ft, ref, hand).frame = Look(hand, i)
        /\ i \in 0 .. NumFrames /\ i \in Nat /\ ~ ft[Look(hand, i)].locked
        /\ ref[Look(hand, i)] => i = NumFrames
    BY <1>2, <2>1, SearchStops DEF Stops
  <2>3. Look(hand, i) \in Frame
    BY <1>0, <2>2, LookRange
  <2>4. ~ /\ ft[Look(hand, i)].locked \/ ref[Look(hand, i)]
          /\ ft[hand].locked
    BY <1>0, <2>2
  <2> QED
    BY <1>0, <2>2, <2>3, <2>4 DEF FailsAtALock
<1>3. CASE FreeFrames(ft) = {} /\ Stops(ft, ref, hand) = {}
  <2>1. NextFrame(ft, ref, hand).frame = EMPTY
    BY <1>3, SearchFails
  <2>2. ft[hand].locked
    BY <1>0, <1>3 DEF Stops
  <2>3. ASSUME NEW f \in Frame PROVE ft[f].page # EMPTY /\ (ft[f].locked \/ ref[f])
    <3>1. PICK j \in 0 .. NumFrames - 1 : Look(hand, j) = f
      BY <1>0, LookReaches
    <3>2. j \in 0 .. NumFrames /\ j # NumFrames
      BY NumFramesAssumption
    <3> QED
      BY <1>3, <3>1, <3>2 DEF Stops, FreeFrames
  <2> QED
    BY <2>1, <2>2, <2>3 DEF FailsAtALock
<1> QED
  BY <1>1, <1>2, <1>3, SearchCases

\* A used page is replaced only when every frame that is not locked has been used, and a
\* locked one never, with any number of frames (phase5utility.c:217-250).
THEOREM UsedPagesGetAChance == LoopSpec => []SecondChance
<1>1. Inv => SecondChance
  BY ChanceGiven DEF Inv
<1> QED
  BY <1>1, InvAlways, PTL

\* No frame is replaced twice in a row while another one could be taken, with any number of
\* frames (phase5utility.c:245).
THEOREM FramesTakeTurns == LoopSpec => []TakesTurns
<1>1. Inv => TakesTurns
  BY TurnsTaken DEF Inv
<1> QED
  BY <1>1, InvAlways, PTL

\* The one way in which a search fails: every frame is locked or has been used, and
\* NextCheckedFrame is at a locked one (phase5utility.c:218-224, phase5utility.c:250).
THEOREM SearchFailsAtALock == LoopSpec => []FailsAtALock
<1>1. Inv => FailsAtALock
  BY FailsThere DEF Inv
<1> QED
  BY <1>1, InvAlways, PTL

-----------------------------------------------------------------------------
(* The loops implement the closed form.                                      *)

\* The search as FrameSearch sees it.
LEMMA SameSearch ==
  ASSUME NEW t, NEW bits, NEW h
  PROVE  /\ Search!NextFrame(t, bits, h) = NextFrame(t, bits, h)
         /\ Search!FreeFrames(t) = FreeFrames(t)
         /\ Search!EMPTY = EMPTY /\ Search!Frame = Frame
BY DEF Search!NextFrame, Search!FreeFrames, Search!ClockSearch, Search!Stops, Search!Swept,
       Search!Look, Search!HandAfter, Search!Least, Search!EMPTY, Search!Frame,
       NextFrame, FreeFrames, ClockSearch, Stops, Swept, Look, HandAfter, Least, EMPTY, Frame

LEMMA SameGiven == \A f : Search!Given(f) = Given(f)
BY DEF Search!Given, Search!RESIDENT, Given, RESIDENT

\* What each loop returns is what the closed form computes, from the REF bits the search began
\* with.
LEMMA FreeLookFault ==
  ASSUME Inv, FreeLook
  PROVE  Search!Fault \/ UNCHANGED Search!vars
<1>0. pc = "free" /\ look \in Nat /\ before = ref
  BY DEF FreeLook, Inv, LoopTypeOK, LoopInv
<1>1. CASE look < NumFrames /\ ft[look].page = EMPTY /\ Return(look, hand, last)
  <2>1. look \in FreeFrames(ft) /\ \A g \in FreeFrames(ft) : look <= g
    BY <1>0, <1>1, NumFramesAssumption DEF FreeFrames, Frame, Inv, LoopInv
  <2>2. NextFrame(ft, before, hand) = [frame |-> look, hand |-> hand, ref |-> before]
    BY <2>1, SearchFree
  <2>3. look # EMPTY /\ FreeFrames(ft) # {}
    BY <1>0, <2>1 DEF EMPTY
  <2>4. Search!NextFrame(ft, IF pc = "idle" THEN ref ELSE before, hand) =
            NextFrame(ft, before, hand)
    BY <1>0, SameSearch
  <2>5. Search!Fault
    BY <1>0, <1>1, <2>2, <2>3, <2>4, SameSearch, SameGiven DEF Search!Fault, Return
  <2> QED
    BY <2>5
<1>2. CASE GoOn("free", look + 1, ref) \/ GoOn("clock", 0, ref)
  BY <1>0, <1>2 DEF GoOn, Search!vars
<1> QED
  BY <1>1, <1>2 DEF FreeLook

LEMMA ClockLookFault ==
  ASSUME Inv, ClockLook
  PROVE  Search!Fault \/ UNCHANGED Search!vars
<1> DEFINE index == Look(hand, look)
<1>0. /\ pc = "clock" /\ FreeFrames(ft) = {} /\ ref = Swept(ft, before, hand, look)
      /\ \A k \in Stops(ft, before, hand) : look <= k
  BY DEF ClockLook, Inv, LoopInv
<1>1. CASE /\ look <= NumFrames /\ ~ft[index].locked /\ ~ref[index]
           /\ Return(index, HandAfter(index), index)
  <2>1. look \in Stops(ft, before, hand) /\ index \in Frame
    BY <1>0, <1>1, ClockLookAt
  <2>2. NextFrame(ft, before, hand) = [frame |-> index, hand |-> HandAfter(index),
                                       ref |-> Swept(ft, before, hand, look)]
    BY <1>0, <2>1, SearchStops
  <2>3. index # EMPTY
    BY <2>1 DEF Frame, EMPTY
  <2> HIDE DEF index
  <2>4. Search!NextFrame(ft, IF pc = "idle" THEN ref ELSE before, hand) =
            NextFrame(ft, before, hand)
    BY <1>0, SameSearch
  <2>5. Search!Fault
    BY <1>0, <1>1, <2>2, <2>3, <2>4, SameSearch, SameGiven DEF Search!Fault, Return
  <2> QED
    BY <2>5
<1>2. CASE look = NumFrames + 1 /\ Return(EMPTY, hand, last)
  <2>1. Stops(ft, before, hand) = {}
    BY <1>0, <1>2, NumFramesAssumption DEF Stops
  <2>2. NextFrame(ft, before, hand) = [frame |-> EMPTY, hand |-> hand,
                                       ref |-> Swept(ft, before, hand, NumFrames + 1)]
    BY <1>0, <2>1, SearchFails
  <2>3. Search!Fault
    BY <1>0, <1>2, <2>2, SameSearch DEF Search!Fault, Return
  <2> QED
    BY <2>3
<1>3. CASE GoOn("clock", look + 1, ref) \/ GoOn("clock", look + 1, [ref EXCEPT ![index] = FALSE])
  BY <1>0, <1>3 DEF GoOn, Search!vars
<1> QED
  BY <1>1, <1>2, <1>3 DEF ClockLook

LEMMA LoopStep == Inv /\ [LoopNext]_loopVars => [Search!Next]_(Search!vars)
<1> SUFFICES ASSUME Inv, [LoopNext]_loopVars PROVE [Search!Next]_(Search!vars)
  OBVIOUS
<1>1. CASE UNCHANGED loopVars
  BY <1>1 DEF loopVars, vars, Search!vars
<1>2. CASE Begin
  BY <1>2 DEF Begin, vars, Search!vars
<1>3. CASE FreeLook \/ ClockLook
  BY <1>3, FreeLookFault, ClockLookFault DEF Search!Next
<1>4. CASE pc = "idle" /\ Others /\ UNCHANGED <<pc, look, before>>
  <2>1. PICK f \in Frame : Unlock(f) \/ Use(f) \/ Free(f)
    BY <1>4 DEF Others
  <2>2. Search!Unlock(f) \/ Search!Use(f) \/ Search!Free(f)
    BY <1>4, <2>1, SameSearch DEF Unlock, Use, Free, RESIDENT, Search!Unlock, Search!Use,
       Search!Free, Search!RESIDENT
  <2>3. Search!Others
    BY <2>1, <2>2, SameSearch DEF Search!Others
  <2> QED
    BY <2>3 DEF Search!Next
<1> QED
  BY <1>1, <1>2, <1>3, <1>4 DEF LoopNext

LEMMA LoopStart == LoopInit => Search!Init
BY SameSearch DEF LoopInit, Init, Search!Init

\* The search the pager's step takes in VirtualMemory is what the loops of getNextFrame compute,
\* for any number of frames: which frame, where NextCheckedFrame goes, and which REF bits are
\* left (phase5utility.c:206-251).
THEOREM LoopIsTheSearch == LoopSpec => SearchIsTheLoop
BY LoopStart, LoopStep, InvAlways, PTL DEF LoopSpec, SearchIsTheLoop, Search!Spec
=============================================================================
