---------------------------- MODULE VmProperties ----------------------------
(***************************************************************************)
(* The properties of VirtualMemory.  Each holds under the assumptions on   *)
(* the constants named with it: the runs and the theorems supply them.     *)
(***************************************************************************)
EXTENDS VirtualMemory, FiniteSets

OnePager       == \E p \in Pagers : Pagers = {p}
UsersBelow     == \A u \in Users : Priority[u] > PAGER_PRIORITY
PidsAreSlots   == \A k \in Users \cup Pagers \cup {System} : k < MAXPROC

Live == {u \in Users : upc[u] \notin {"unborn", "dead"}}

\* The types of the variables.
TypeOK ==
    /\ cur \in Process \cup {NOBODY}
    /\ halted \in {"no", "mappings", "transfer", "faults", "process"}
    /\ upc \in [Users -> UserPc] /\ offset \in [Users -> Page]
    /\ ProcPid \in [Slot -> Users \cup {EMPTY}] /\ sem \in [Slot -> Int]
    /\ pte \in [Slot -> [Page -> PTE]]
    /\ FrameTable \in [Frame -> Entry]
    /\ NextCheckedFrame \in Frame
    /\ faults \in [Slot -> FaultMsg] /\ FaultsMbox \in Seq(Users)
    /\ mutex \in [Mutexes -> Seq(Users \cup Pagers)]
    /\ mmu \in [Page -> Frame \cup {EMPTY}]
    /\ ref \in [Frame -> BOOLEAN] /\ dirty \in [Frame -> BOOLEAN]
    /\ ram \in [Frame -> PageData] /\ disk \in Disk /\ NextBlock \in Nat
    /\ ppc \in [Pagers -> PagerPc] /\ job \in [Pagers -> Job]

\* What the pagers' local variables hold where they are read: a pager that works on a
\* fault knows whose, and one that writes a page out knows which.
AtWork ==
    \A p \in Pagers :
        /\ ppc[p] # "receive" => job[p].pid \in Users
        /\ ppc[p] \in {"block", "alloc", "mapout", "copyout", "pageout", "writing"} =>
                job[p].outPage # EMPTY

-----------------------------------------------------------------------------
(* With one pager, of a better priority than every user.                     *)

\* Every page table entry that names a frame agrees with that frame's entry in the
\* frame table: no frame is ever given to two pages.  p1.c:69-84 and p1.c:137-153 halt
\* the machine when a switch finds it otherwise; this says it for every process, switched
\* to or not, at every step of the pager, quits in the middle of a fault included.
TablesAgree ==
    halted = "no" => \A u \in Live : \A i \in Resident(u) : EntryChecks(u, i)

\* While a user runs, the MMU maps exactly the pages its page table says are in memory,
\* to the frames it says (p1_switch, p1.c:121-161): no stale mapping of the process
\* before it, none of the pager's own (phase5.c:535, phase5.c:570), none missing.
MmuFollowsTables ==
    (halted = "no" /\ cur \in Users) =>
        \A i \in Page : mmu[i] = pte[getProc(cur)][i].frame

\* The checks of p1.c and the MMU calls of phase5.c never fail: USLOSS_Halt is not
\* reached from a context switch, a quit or a mapping of the pager.
NoMappingHalt == halted # "mappings"

\* A process the pager has answered without failure finds the page it faulted on in the
\* frame named in its message, locked against replacement until it has run
\* (phase5.c:399-405): the answer cannot be overtaken by another fault.
AnsweredPageIsResident ==
    halted = "no" =>
    \A u \in Users : upc[u] \in {"unlock", "unlocking"} =>
        LET f == faults[getProc(u)].frame
        IN  /\ pte[getProc(u)][offset[u]].frame = f
            /\ FrameTable[f] = [page |-> offset[u], pid |-> u, locked |-> TRUE]

\* A frame with a page in it is locked exactly while its owner is inside FaultHandler for
\* that page, from phase5.c:495 to phase5.c:403: no lock outlives its fault, and no other
\* process takes it off.  A frame of a process terminated for a full disk keeps its lock
\* and has no page: the search takes it as a free one.
InFault(u, i) == upc[u] \in {"wait", "unlock", "unlocking", "exit"} /\ offset[u] = i
LocksBelongToFaults ==
    \A f \in Frame : LET e == FrameTable[f]
                     IN  e.page # EMPTY => (e.locked <=> InFault(e.pid, e.page))

\* A disk block is given to one page only, inside the disk (phase5.c:520-530).
OwnedBlocks == {b \in Slot \X Page : pte[b[1]][b[2]].diskBlock # EMPTY}
BlocksAreDistinct ==
    /\ \A a, b \in OwnedBlocks :
            pte[a[1]][a[2]].diskBlock = pte[b[1]][b[2]].diskBlock => a = b
    /\ \A a \in OwnedBlocks : pte[a[1]][a[2]].diskBlock < NextBlock
    /\ NextBlock <= DiskBlocks

\* The search of getNextFrame finds a frame whenever one is not locked: "Return an empty
\* frame if availabe; use the clock algorithm otherwise" (phase5utility.c:203-204).
SearchFindsUnlocked ==
    \A p \in Pagers :
        (ppc[p] = "select" /\ \E f \in Frame : ~FrameTable[f].locked) =>
            NextFrame(FrameTable, ref, NextCheckedFrame).frame # EMPTY

-----------------------------------------------------------------------------
(* With any number of pagers.                                                *)

\* The process whose fault a pager is at work on.
Served(p) == IF ppc[p] = "receive" THEN NOBODY ELSE job[p].pid

\* A process that waits for its fault has exactly one answer on the way: its pid in the
\* mailbox, a pager at work on it, or a count of its private semaphore; any other
\* process has none (phase5.c:376-388, phase5.c:472, 524, 598).  So no wakeup is lost,
\* and none is left over for the next fault.
Answers(u) ==
    Cardinality({k \in 1 .. Len(FaultsMbox) : FaultsMbox[k] = u})
    + Cardinality({p \in Pagers : Served(p) = u})
    + (IF u \in Live THEN sem[getProc(u)] ELSE 0)

OneAnswerPerFault == \A u \in Users : Answers(u) = IF upc[u] = "wait" THEN 1 ELSE 0

\* Every fault sent to the pagers is answered: the process is woken, or the machine
\* has stopped (phase5.c:376-388).
FaultsAreAnswered ==
    \A u \in Users : upc[u] = "wait" ~> (upc[u] # "wait" \/ sem[getProc(u)] > 0 \/ halted # "no")

-----------------------------------------------------------------------------
(* What stops the machine.                                                   *)

\* The fault message a pager reads is one of the array: "faults[i] stores info about the
\* current page fault for the process stored in ProcTable[i]" (phase5.c:31-33).  FaultHandler
\* fills in faults[pid % MAXPROC] (phase5.c:365), the pager reads faults[pid] (phase5.c:454).
FaultsAreInTheTable == halted # "faults"

\* A page that goes out is a page of a process: writePageToDisk is to "write the given page
\* in the process with the given pid" (phase5utility.c:295).  The pid is read from the
\* process table when the pager has copied the page (phase5.c:548).
PagesOutHaveAnOwner == halted # "process"

\* With one pager of a better priority, the machine only stops when the pager is about to
\* write out a page of a process that has quit behind its back, at phase5.c:482 or at
\* phase5utility.c:301: no other check of the pager and of the hooks (p1.c:71-90,
\* p1.c:139-158, phase5.c:539-582, phase5utility.c:277-283) ever fails, whoever has quit.
HaltsNeedAQuit ==
    halted # "no" => \E p \in Pagers : ppc[p] = "pageout" /\ job[p].outPid \in Users
                                       /\ upc[job[p].outPid] = "dead"

-----------------------------------------------------------------------------
(* The content of a page, wherever the pager has put it for the moment.      *)

OutOf(p, u, i) ==       \* pager p has taken page i of u out of its frame
    /\ ppc[p] \in {"access", "block", "alloc", "mapout", "copyout", "pageout", "writing"}
    /\ job[p].outPage = i /\ job[p].outPid = u

Into(p, u, i) ==        \* pager p has not yet copied page i of u into its frame
    /\ ppc[p] \in PagerPc \ {"receive", "select", "victim", "count", "update"}
    /\ job[p].page = i /\ job[p].pid = u

Stored(e) == IF e.diskBlock = EMPTY THEN Zero ELSE DiskRead(disk, e.diskBlock)

Content(u, i) ==
    LET e == pte[getProc(u)][i]
    IN  IF u \notin Live THEN Zero
        ELSE IF \E p \in Pagers : OutOf(p, u, i)
        THEN LET p == CHOOSE p \in Pagers : OutOf(p, u, i)
             IN  IF ppc[p] \in {"pageout", "writing"} THEN job[p].buffer
                 ELSE IF ppc[p] = "access" /\ ~MustWrite(job[p]) THEN Stored(e)
                 ELSE ram[job[p].frame]
        ELSE IF e.state = "INMEM" /\ ~\E p \in Pagers : Into(p, u, i)
        THEN ram[e.frame]
        ELSE Stored(e)

\* The VM region is a flat memory: no page of a live process ever changes but by its
\* own stores, through every page-out, page-in, switch and quit (FlatMemory).
Flat == INSTANCE FlatMemory WITH
            Procs <- Users, Pages <- Page, Contents <- Values, ZeroContent <- Zero,
            StorePairs <- Writable, live <- Live,
            mem <- [u \in Users |-> [i \in Page |-> Content(u, i)]]

IsFlatMemory == Flat!Spec

\* What a running user reads through the MMU is the content of its page.
ReadsSeeContent ==
    (halted = "no" /\ cur \in Users) =>
        \A i \in Page : mmu[i] # EMPTY => ram[mmu[i]] = Content(cur, i)
=============================================================================
