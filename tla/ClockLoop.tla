------------------------------ MODULE ClockLoop ------------------------------
(***************************************************************************)
(* The two loops of getNextFrame, one look at a time, when there is one    *)
(* pager: it holds FramesMutex, and no user can run while it does, so that *)
(* nobody else changes the frame table or a REF bit meanwhile.  A second   *)
(* pager could: it updates a frame's entry and writes its access bits      *)
(* without the mutex (phase5.c:476-497, phase5.c:585).                     *)
(***************************************************************************)
EXTENDS FrameSearch

VARIABLES
    pc,         \* "idle", or the loop getNextFrame is in: "free" or "clock"
    look,       \* i of the loop
    before      \* history: the REF bits when the search began

loopVars == <<vars, pc, look, before>>

LoopInit == Init /\ pc = "idle" /\ look = 0 /\ before = ref

Begin ==
    /\ pc = "idle"
    /\ pc' = "free" /\ look' = 0 /\ before' = ref
    /\ UNCHANGED vars

\* getNextFrame returns f.
Return(f, newHand, newLast) ==
    /\ pc' = "idle" /\ look' = 0
    /\ ft' = IF f = EMPTY THEN ft ELSE Given(f)
    /\ hand' = newHand /\ last' = newLast
    /\ UNCHANGED <<ref, before>>

GoOn(toPc, toLook, newRef) ==
    /\ pc' = toPc /\ look' = toLook /\ ref' = newRef
    /\ UNCHANGED <<ft, hand, last, before>>

\* Lines 208-215.
FreeLook ==
    /\ pc = "free"
    /\ \/ look < NumFrames /\ ft[look].page = EMPTY /\ Return(look, hand, last)
       \/ look < NumFrames /\ ft[look].page # EMPTY /\ GoOn("free", look + 1, ref)
       \/ look = NumFrames /\ GoOn("clock", 0, ref)

\* Mutant: one look less (no "+ 1" at line 218).
ClockLookShort ==
    LET index == Look(hand, look)
    IN  /\ pc = "clock"
        /\ \/ look < NumFrames /\ ft[index].locked /\ GoOn("clock", look + 1, ref)
           \/ /\ look < NumFrames /\ ~ft[index].locked /\ ref[index]
              /\ GoOn("clock", look + 1, [ref EXCEPT ![index] = FALSE])
           \/ /\ look < NumFrames /\ ~ft[index].locked /\ ~ref[index]
              /\ Return(index, HandAfter(index), index)
           \/ look = NumFrames /\ Return(EMPTY, hand, last)

\* Lines 218-250.
ClockLook ==
    LET index == Look(hand, look)
    IN  /\ pc = "clock"
        /\ \/ look <= NumFrames /\ ft[index].locked /\ GoOn("clock", look + 1, ref)
           \/ /\ look <= NumFrames /\ ~ft[index].locked /\ ref[index]
              /\ GoOn("clock", look + 1, [ref EXCEPT ![index] = FALSE])
           \/ /\ look <= NumFrames /\ ~ft[index].locked /\ ~ref[index]
              /\ Return(index, HandAfter(index), index)
           \/ look = NumFrames + 1 /\ Return(EMPTY, hand, last)

\* Others: between two searches only, which is all there is with one pager.
LoopNext ==
    \/ Begin \/ FreeLook \/ ClockLook
    \/ pc = "idle" /\ Others /\ UNCHANGED <<pc, look, before>>

LoopSpec == LoopInit /\ [][LoopNext]_loopVars

-----------------------------------------------------------------------------
\* While the loops run the REF bits have not changed for those who see the search as one step.
Search == INSTANCE FrameSearch WITH ref <- IF pc = "idle" THEN ref ELSE before

\* The closed form of the search computes what the loops of getNextFrame compute: the same
\* frame, the same NextCheckedFrame, the same REF bits (phase5utility.c:206-251).
SearchIsTheLoop == Search!Spec

\* The types of the variables.
LoopTypeOK ==
    /\ ft \in [Frame -> [page : {RESIDENT, EMPTY}, locked : BOOLEAN]]
    /\ ref \in [Frame -> BOOLEAN] /\ before \in [Frame -> BOOLEAN]
    /\ hand \in Frame /\ last \in Frame \cup {EMPTY}
    /\ pc \in {"idle", "free", "clock"} /\ look \in 0 .. NumFrames + 1
=============================================================================
