----------------------------- MODULE FrameSearch -----------------------------
(***************************************************************************)
(* getNextFrame with those who change what it looks at: the pager takes    *)
(* and locks the frame it is given, the process unlocks it, uses it, and   *)
(* gives its frames back when it quits.  A search is one step, the closed  *)
(* form of ClockReplacement; ClockLoop does it look by look.               *)
(***************************************************************************)
EXTENDS ClockReplacement

VARIABLES
    ft,         \* the frame table: whether a frame holds a page, and is locked
    ref,        \* the REF bits
    hand,       \* NextCheckedFrame
    last        \* the frame replaced last

vars == <<ft, ref, hand, last>>

RESIDENT == 0       \* some page

Init == /\ ft = [f \in Frame |-> [page |-> EMPTY, locked |-> FALSE]]
        /\ ref = [f \in Frame |-> FALSE] /\ hand = 0 /\ last = EMPTY

\* The frame a search has found is given to a page, and locked.
Given(f) == [ft EXCEPT ![f] = [page |-> RESIDENT, locked |-> TRUE]]

Fault ==
    LET c == NextFrame(ft, ref, hand)
    IN  /\ ref' = c.ref /\ hand' = c.hand
        /\ last' = IF FreeFrames(ft) = {} /\ c.frame # EMPTY THEN c.frame ELSE last
        /\ ft' = IF c.frame = EMPTY THEN ft ELSE Given(c.frame)

Unlock(f) ==
    /\ ft[f].page = RESIDENT /\ ft[f].locked
    /\ ft' = [ft EXCEPT ![f].locked = FALSE]
    /\ UNCHANGED <<ref, hand, last>>

Use(f) ==
    /\ ft[f].page = RESIDENT
    /\ ref' = [ref EXCEPT ![f] = TRUE]
    /\ UNCHANGED <<ft, hand, last>>

\* The owner quits; a process the pager has given up on leaves its frame locked.
Free(f) ==
    /\ ft[f].page = RESIDENT
    /\ ft' = [ft EXCEPT ![f].page = EMPTY]
    /\ UNCHANGED <<ref, hand, last>>

Others == \E f \in Frame : Unlock(f) \/ Use(f) \/ Free(f)

Next == Fault \/ Others

Spec == Init /\ [][Next]_vars

-----------------------------------------------------------------------------
\* The search would take frame f away from the page in it.
Evicts(f) == ft[f].page = RESIDENT /\ NextFrame(ft, ref, hand).frame = f

\* A page is replaced only when its frame is not locked, and a page that was used since
\* the hand last passed it only when every unlocked frame's page was (the second chance
\* of phase5utility.c:233-247).
SecondChance ==
    \A f \in Frame : Evicts(f) =>
        /\ ~ft[f].locked
        /\ ref[f] => \A g \in Frame : ft[g].locked \/ ref[g]

\* No frame is replaced twice in a row while the page of another one is neither locked
\* nor used since (NextCheckedFrame moves past the frame taken, phase5utility.c:245).
TakesTurns ==
    \A f \in Frame : (Evicts(f) /\ last = f) => \A g \in Frame \ {f} : ft[g].locked \/ ref[g]

\* The search fails when every frame is locked or has been used and the one NextCheckedFrame
\* is at is locked, and only then: look NumFrames comes back to that frame
\* (phase5utility.c:218, phase5utility.c:250), and to no other.
FailsAtALock ==
    NextFrame(ft, ref, hand).frame = EMPTY <=>
        /\ \A f \in Frame : ft[f].page # EMPTY /\ (ft[f].locked \/ ref[f])
        /\ ft[hand].locked
=============================================================================
