-------------------------- MODULE ClockReplacement --------------------------
(***************************************************************************)
(* getNextFrame of phase5utility.c: the choice of the frame a page fault   *)
(* is served with.  The first frame whose page is EMPTY, and when there is *)
(* none the clock: at most NumFrames + 1 looks, starting at                *)
(* NextCheckedFrame, skipping locked frames and taking the first one whose *)
(* REF bit is clear, clearing the REF bits of the others on the way.       *)
(*                                                                         *)
(* The search is given in closed form (the look it stops at is the least   *)
(* one whose test succeeds), so that it can be reasoned about; ClockLoop   *)
(* is the loop, look by look.                                              *)
(***************************************************************************)
EXTENDS Integers

CONSTANT NumFrames         \* the number of page frames, VmInit's third argument

ASSUME NumFramesAssumption == NumFrames \in Nat \ {0}

EMPTY == -1
Frame == 0 .. NumFrames - 1

\* The result of the search: the frame (EMPTY when there is none), and what the
\* search leaves in NextCheckedFrame and in the REF bits.
Choice == [frame : Frame \cup {EMPTY}, hand : Frame, ref : [Frame -> BOOLEAN]]

Least(S) == CHOOSE m \in S : \A k \in S : m <= k

FreeFrames(ft) == {f \in Frame : ft[f].page = EMPTY}

\* The frame of look number i.
Look(hand, i) == (hand + i) % NumFrames

\* Mutant: locked frames are not skipped (no lines 221-224).
StopsAtLocked(ft, ref, hand) == {i \in 0 .. NumFrames : ref[Look(hand, i)] => i = NumFrames}

\* Mutant: no "+ 1" at line 218.
StopsShort(ft, ref, hand) ==
    {i \in 0 .. NumFrames - 1 : ~ft[Look(hand, i)].locked /\ ~ref[Look(hand, i)]}

\* The looks that end the search.  Look NumFrames comes back to the frame of look
\* 0, whose REF bit look 0 has cleared.
Stops(ft, ref, hand) ==
    {i \in 0 .. NumFrames : /\ ~ft[Look(hand, i)].locked
                            /\ ref[Look(hand, i)] => i = NumFrames}

\* The REF bits after the first n looks.
Swept(ft, ref, hand, n) ==
    [f \in Frame |-> /\ ref[f]
                     /\ \A j \in 0 .. n - 1 : Look(hand, j) = f => ft[f].locked]

HandOn(f) == f                                  \* mutant: no "+ 1" at line 245
HandPast(f) == f + 1                            \* mutant: no "% NumFrames" at line 245
HandAfter(f) == (f + 1) % NumFrames

\* The search when no frame is free.
ClockSearch(ft, ref, hand) ==
    LET stops == Stops(ft, ref, hand)
        last  == Least(stops)
    IN  IF stops = {}
        THEN [frame |-> EMPTY, hand |-> hand, ref |-> Swept(ft, ref, hand, NumFrames + 1)]
        ELSE [frame |-> Look(hand, last), hand |-> HandAfter(Look(hand, last)),
              ref |-> Swept(ft, ref, hand, last)]

NextFrame(ft, ref, hand) ==
    IF FreeFrames(ft) # {}
    THEN [frame |-> Least(FreeFrames(ft)), hand |-> hand, ref |-> ref]
    ELSE ClockSearch(ft, ref, hand)
=============================================================================
