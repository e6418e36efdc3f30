---------------------------- MODULE VirtualMemory ----------------------------
(***************************************************************************)
(* The VM region after VmInit: the processes that use it, FaultHandler and *)
(* the Pagers of phase5.c, the hooks p1_fork, p1_switch and p1_quit that   *)
(* phase 1 calls (p1.c), and the frame table, page tables, fault mailbox,  *)
(* mutexes, MMU and swap disk they share.                                  *)
(*                                                                         *)
(* The machine has one processor.  A step belongs to the current process   *)
(* cur, and the dispatcher of phase 1 lets it go on only while no process  *)
(* of a better (smaller) priority can run; processes of one priority share *)
(* the processor in time slices, so any of them may be switched to between *)
(* two steps.  Every process is a pid; System stands for the processes     *)
(* without pages of their own: start5, the device drivers, the sentinel.   *)
(* A step is the code between two calls that can block or be preempted     *)
(* with an effect another process can see.                                 *)
(***************************************************************************)
EXTENDS ClockReplacement, SwapDisk, Sequences

CONSTANTS
    MAXPROC,        \* slots of ProcTable and faults, and of the fault mailbox
    NumPages,       \* pages of the VM region
    Users,          \* pids of the processes that use the VM region
    Pagers,         \* pids of the pagers
    System,         \* pid of the processes without pages
    Priority,       \* the priority each user was spawned with
    Writable,       \* the <<user, page>> pairs a store may go to
    Quitters,       \* the users that may terminate of their own accord
    Printers        \* the users that call PrintStats

PAGER_PRIORITY == 2
NOBODY == 0         \* the pid the dispatcher passes when the old process has quit

getProc(pid) == pid % MAXPROC       \* the slot of a pid

ASSUME ProcessAssumption ==
    /\ MAXPROC \in Nat \ {0} /\ NumPages \in Nat \ {0}
    /\ Users \subseteq Nat \ {0} /\ Pagers \subseteq Nat \ {0} /\ System \in Nat \ {0}
    /\ Users \cap Pagers = {} /\ System \notin Users \cup Pagers
    /\ \A u \in Users, k \in Pagers \cup {System} : getProc(u) # getProc(k)
    /\ Priority \in [Users -> 1 .. 5]

Slot    == 0 .. MAXPROC - 1
Page    == 0 .. NumPages - 1
Process == Users \cup Pagers \cup {System}
Mutexes == {"vmStatsMutex", "FramesMutex"}

VARIABLES
    cur,        \* the pid of the current process
    halted,     \* "no", or why the machine stopped
    upc,        \* where each user is: in its program, or in FaultHandler
    offset,     \* FaultHandler's parameter: the page that was touched
    ProcPid,    \* ProcTable[slot].pid
    sem,        \* the count of ProcTable[slot].privateSem
    pte,        \* ProcTable[slot].pageTable
    FrameTable,
    NextCheckedFrame,
    faults,     \* the fault messages, one per slot
    FaultsMbox, \* the pids sent to the pagers
    mutex,      \* per mutex the processes that sent to it, the first one holds it
    mmu,        \* the mappings loaded: page |-> frame
    ref,        \* the REF bit of each frame
    dirty,      \* the DIRTY bit of each frame
    ram,        \* the content of each frame
    disk,       \* the sectors of SWAPDISK
    NextBlock,
    ppc,        \* where each pager is
    job         \* the local variables of each pager

memory == <<mmu, ref, dirty, ram>>
comm   == <<sem, faults, FaultsMbox>>
vars   == <<cur, halted, upc, offset, ProcPid, pte, FrameTable, NextCheckedFrame, comm,
            mutex, memory, disk, NextBlock, ppc, job>>

UserPc  == {"unborn", "user", "count", "counting", "send", "wait", "unlock",
            "unlocking", "printing", "exit", "dead"}
PagerPc == {"receive", "select", "victim", "count", "update", "access", "block",
            "alloc", "mapout", "copyout", "pageout", "writing", "fill", "pagein",
            "reading", "mapin", "copyin"}

PTE      == [state : {"UNUSED", "INMEM", "ONDISK"}, frame : Frame \cup {EMPTY},
             diskBlock : Nat \cup {EMPTY}]
FaultMsg == [page : Page, frame : Frame, failed : BOOLEAN, shouldTerminate : BOOLEAN]
Entry    == [page : Page \cup {EMPTY}, pid : Users \cup {EMPTY}, locked : BOOLEAN]
Job      == [pid : (Users \cap Slot) \cup {NOBODY}, page : Page, exists : BOOLEAN, frame : Frame,
             outPage : Page \cup {EMPTY}, outPid : Users \cup {EMPTY},
             accessRef : BOOLEAN, owner : Users \cup {EMPTY}, block : Nat, buffer : PageData,
             ahead : SUBSET Pagers]

UnusedPTE  == [state |-> "UNUSED", frame |-> EMPTY, diskBlock |-> EMPTY]
EmptyTable == [i \in Page |-> UnusedPTE]
NoFault == [page |-> 0, frame |-> 0, failed |-> FALSE, shouldTerminate |-> FALSE]
NoJob   == [pid |-> NOBODY, page |-> 0, exists |-> FALSE, frame |-> 0,
            outPage |-> EMPTY, outPid |-> EMPTY, accessRef |-> FALSE,
            owner |-> EMPTY, block |-> 0, buffer |-> Zero,
            ahead |-> {}]

(* What vmInitReal leaves: no process has a page, every frame is free, the   *)
(* pagers wait for their first message.                                      *)
Init ==
    /\ cur = System /\ halted = "no"
    /\ upc = [u \in Users |-> "unborn"] /\ offset = [u \in Users |-> 0]
    /\ ProcPid = [s \in Slot |-> EMPTY] /\ sem = [s \in Slot |-> 0]
    /\ pte = [s \in Slot |-> EmptyTable]
    /\ FrameTable = [f \in Frame |-> [page |-> EMPTY, pid |-> EMPTY, locked |-> FALSE]]
    /\ NextCheckedFrame = 0
    /\ faults = [s \in Slot |-> NoFault] /\ FaultsMbox = <<>>
    /\ mutex = [m \in Mutexes |-> <<>>]
    /\ mmu = [i \in Page |-> EMPTY]
    /\ ref = [f \in Frame |-> FALSE] /\ dirty = [f \in Frame |-> FALSE]
    /\ ram = [f \in Frame |-> Zero]
    /\ disk = BlankDisk /\ NextBlock = 0
    /\ ppc = [p \in Pagers |-> "receive"] /\ job = [p \in Pagers |-> NoJob]

-----------------------------------------------------------------------------
(* Mutexes: a mailbox of one slot.  Locking sends to it, and blocks behind   *)
(* the message in it; unlocking receives, which lets the next sender in.     *)

Holds(m, x) == mutex[m] # <<>> /\ Head(mutex[m]) = x
Waiting(x)  == \E m \in Mutexes : \E i \in 2 .. Len(mutex[m]) : mutex[m][i] = x

lockMutex(m, x) == mutex' = [mutex EXCEPT ![m] = Append(@, x)]
unlockMutex(m)  == mutex[m] # <<>> /\ mutex' = [mutex EXCEPT ![m] = Tail(@)]

\* A pager's critical section, from lock to unlock, in one step.  With one pager nobody else
\* touches what it reads and changes without the same mutex, so that this is exact.  With
\* several it leaves something out: another pager writes FrameTable and the access bits
\* without FramesMutex (phase5.c:476-497, phase5.c:585), also between two looks of a search.
Critical(m, x) ==
    \/ mutex[m] = <<>> /\ UNCHANGED mutex
    \/ Holds(m, x) /\ unlockMutex(m)

(* The dispatcher of phase 1.                                                *)

Runnable(x) ==
    /\ ~Waiting(x)
    /\ x \in Users => /\ upc[x] \notin {"unborn", "dead"}
                      /\ upc[x] = "wait" => sem[getProc(x)] > 0
                      /\ upc[x] = "send" => Len(FaultsMbox) < MAXPROC
    /\ x \in Pagers => /\ ppc[x] \notin {"writing", "reading"}
                       /\ ppc[x] = "receive" => FaultsMbox # <<>>

PriorityOf(x) == IF x \in Users THEN Priority[x] ELSE PAGER_PRIORITY

Schedulable(x) ==
    /\ Runnable(x)
    /\ x # System => \A y \in Users \cup Pagers :
                        Runnable(y) => PriorityOf(x) <= PriorityOf(y)

Running(x) == halted = "no" /\ cur = x /\ Schedulable(x)

\* USLOSS_Halt, or undefined behaviour: the machine does nothing more that is described.
Halt(why) ==
    /\ halted' = why
    /\ UNCHANGED <<cur, upc, offset, ProcPid, pte, FrameTable, NextCheckedFrame, comm, mutex,
                   memory, disk, NextBlock, ppc, job>>

-----------------------------------------------------------------------------
(* p1.c: the hooks of phase 1.                                               *)

Resident(pid) == {i \in Page : pte[getProc(pid)][i].frame # EMPTY}

\* The checks of unloadMappings and of p1_switch on one page table entry.
EntryChecks(pid, i) ==
    LET e == pte[getProc(pid)][i]
    IN  /\ FrameTable[e.frame].page = i
        /\ FrameTable[e.frame].pid = pid
        /\ e.state = "INMEM"

\* unloadMappings: every resident page passes its checks and is in the MMU.
CanUnload(pid) == \A i \in Resident(pid) : EntryChecks(pid, i) /\ mmu[i] # EMPTY

UnloadedNothing(pid) == mmu     \* mutant: no call of USLOSS_MmuUnmap
Unloaded(pid) == [i \in Page |-> IF i \in Resident(pid) THEN EMPTY ELSE mmu[i]]

CanLoad(map, pid) == \A i \in Resident(pid) : EntryChecks(pid, i) /\ map[i] = EMPTY
Loaded(map, pid)  ==
    [i \in Page |-> IF i \in Resident(pid) THEN pte[getProc(pid)][i].frame ELSE map[i]]

p1_fork(u) ==
    /\ Running(System)
    /\ upc[u] = "unborn"
    /\ ProcPid[getProc(u)] = EMPTY      \* fork1 takes a slot no process is in
    /\ upc' = [upc EXCEPT ![u] = "user"]
    /\ ProcPid' = [ProcPid EXCEPT ![getProc(u)] = u]
    /\ sem' = [sem EXCEPT ![getProc(u)] = 0]
    /\ pte' = [pte EXCEPT ![getProc(u)] = EmptyTable]
    /\ UNCHANGED <<cur, halted, offset, FrameTable, NextCheckedFrame, faults, FaultsMbox,
                   mutex, memory, disk, NextBlock, ppc, job>>

p1_switch(new) ==
    /\ halted = "no" /\ cur # new /\ Schedulable(new)
    /\ IF CanUnload(cur) /\ CanLoad(Unloaded(cur), new)
       THEN /\ cur' = new
            /\ mmu' = Loaded(Unloaded(cur), new)
            /\ UNCHANGED <<halted, upc, offset, ProcPid, pte, FrameTable, NextCheckedFrame,
                           comm, mutex, ref, dirty, ram, disk, NextBlock, ppc, job>>
       ELSE Halt("mappings")

\* The frame table without the frames of a process.
FramesCleared(u) ==
    [f \in Frame |-> IF FrameTable[f].pid # u THEN FrameTable[f]
                     ELSE [FrameTable[f] EXCEPT !.pid = EMPTY, !.page = EMPTY]]

\* FaultHandler's parameter is gone, and the next fault fills in the whole message
\* before anything reads it: what both hold is forgotten.
Forget(u) ==
    /\ offset' = [offset EXCEPT ![u] = 0]
    /\ faults' = [faults EXCEPT ![getProc(u)] = NoFault]

\* Terminate, or terminateReal from FaultHandler, up to the dispatcher.
p1_quit(u) ==
    /\ Running(u)
    /\ upc[u] = "exit" \/ (upc[u] = "user" /\ u \in Quitters)
    /\ IF CanUnload(u)
       THEN /\ upc' = [upc EXCEPT ![u] = "dead"]
            /\ cur' = NOBODY
            /\ mmu' = Unloaded(u)
            /\ FrameTable' = FramesCleared(u)
            /\ ProcPid' = [ProcPid EXCEPT ![getProc(u)] = EMPTY]
            /\ sem' = [sem EXCEPT ![getProc(u)] = 0]
            /\ pte' = [pte EXCEPT ![getProc(u)] = EmptyTable]
            /\ Forget(u)
            /\ UNCHANGED <<halted, NextCheckedFrame, FaultsMbox, mutex, ref, dirty, ram, disk,
                           NextBlock, ppc, job>>
       ELSE Halt("mappings")

-----------------------------------------------------------------------------
(* A user process: its program, and FaultHandler.                            *)

\* The user goes from one place to another; what no step of a user changes.
UserStep(u, from, to) ==
    /\ upc[u] = from /\ Running(u)
    /\ upc' = [upc EXCEPT ![u] = to]
    /\ UNCHANGED <<cur, halted, ProcPid, pte, NextCheckedFrame, disk, NextBlock, ppc, job>>

Load(u, i) ==
    /\ UserStep(u, "user", "user")
    /\ mmu[i] # EMPTY
    /\ ref' = [ref EXCEPT ![mmu[i]] = TRUE]
    /\ UNCHANGED <<offset, FrameTable, comm, mutex, mmu, dirty, ram>>

Store(u, i, v) ==
    /\ UserStep(u, "user", "user")
    /\ mmu[i] # EMPTY /\ <<u, i>> \in Writable
    /\ ref' = [ref EXCEPT ![mmu[i]] = TRUE]
    /\ dirty' = [dirty EXCEPT ![mmu[i]] = TRUE]
    /\ ram' = [ram EXCEPT ![mmu[i]] = v]
    /\ UNCHANGED <<offset, FrameTable, comm, mutex, mmu>>

\* The MMU interrupt of an access to a page that is not mapped.
PageFault(u, i) ==
    /\ UserStep(u, "user", "count")
    /\ mmu[i] = EMPTY
    /\ offset' = [offset EXCEPT ![u] = i]
    /\ UNCHANGED <<FrameTable, comm, mutex, memory>>

LockVmStats(u) ==
    /\ UserStep(u, "count", "counting")
    /\ lockMutex("vmStatsMutex", u)
    /\ UNCHANGED <<offset, FrameTable, comm, memory>>

CountFault(u) ==
    /\ UserStep(u, "counting", "send")
    /\ unlockMutex("vmStatsMutex")
    /\ UNCHANGED <<offset, FrameTable, comm, memory>>

PostedTwice(u) == FaultsMbox \o <<u, u>>        \* mutant: two calls of MboxSend
Posted(u) == Append(FaultsMbox, u)

SendFault(u) ==
    /\ UserStep(u, "send", "wait")
    /\ faults' = [faults EXCEPT ![getProc(u)] =
                    [@ EXCEPT !.page = offset[u], !.failed = FALSE, !.shouldTerminate = FALSE]]
    /\ FaultsMbox' = Posted(u)
    /\ UNCHANGED <<offset, FrameTable, sem, mutex, memory>>

\* Where a process woken in semPProc goes on.
AfterFault(msg) == IF msg.shouldTerminate THEN "exit" ELSE IF msg.failed THEN "send" ELSE "unlock"

Resume(u) ==
    /\ UserStep(u, "wait", AfterFault(faults[getProc(u)]))
    /\ sem' = [sem EXCEPT ![getProc(u)] = @ - 1]
    /\ UNCHANGED <<offset, FrameTable, faults, FaultsMbox, mutex, memory>>

LockFrames(u) ==
    /\ UserStep(u, "unlock", "unlocking")
    /\ lockMutex("FramesMutex", u)
    /\ UNCHANGED <<offset, FrameTable, comm, memory>>

UnlockedNothing(f) == FrameTable                \* mutant: no line 403
Unlocked(f) == [FrameTable EXCEPT ![f].locked = FALSE]

\* The access is tried again after it.
UnlockFrame(u) ==
    /\ UserStep(u, "unlocking", "user")
    /\ FrameTable' = Unlocked(faults[getProc(u)].frame)
    /\ unlockMutex("FramesMutex")
    /\ Forget(u)
    /\ UNCHANGED <<sem, FaultsMbox, memory>>

PrintStats(u) ==
    /\ UserStep(u, "user", "printing")
    /\ u \in Printers
    /\ lockMutex("vmStatsMutex", u)
    /\ UNCHANGED <<offset, FrameTable, comm, memory>>

PrintStatsDone(u) ==
    /\ UserStep(u, "printing", "user")
    /\ unlockMutex("vmStatsMutex")
    /\ UNCHANGED <<offset, FrameTable, comm, memory>>

-----------------------------------------------------------------------------
(* A pager.                                                                  *)

At(p, pc) == ppc[p] = pc /\ Running(p)

\* The pager goes from one place to another with these local variables; what no step
\* of a pager changes.
Step(p, from, to, j) ==
    /\ At(p, from)
    /\ ppc' = [ppc EXCEPT ![p] = to]
    /\ job' = [job EXCEPT ![p] = j]
    /\ UNCHANGED <<cur, halted, upc, offset, ProcPid, disk>>

semVLost(pid) == sem                            \* mutant: nobody is woken
semVProc(pid) == [sem EXCEPT ![getProc(pid)] = @ + 1]

\* The process is woken, and the pager goes back to the top of its loop.
Answer(p, from, msg) ==
    /\ Step(p, from, "receive", NoJob)
    /\ faults' = [faults EXCEPT ![job[p].pid] = msg]
    /\ sem' = semVProc(job[p].pid)
    /\ UNCHANGED FaultsMbox

\* The pager blocks on a mutex another process holds.
BlockOnMutex(p, m, pcs) ==
    /\ Running(p) /\ ppc[p] \in pcs
    /\ mutex[m] # <<>> /\ ~Holds(m, p)
    /\ lockMutex(m, p)
    /\ UNCHANGED <<cur, halted, upc, offset, ProcPid, pte, FrameTable, NextCheckedFrame, comm,
                   memory, disk, NextBlock, ppc, job>>

\* Lines 440-463.  faults is indexed with the pid itself: past its end for a pid that
\* is not the number of a slot.
Receive(p) ==
    /\ At(p, "receive") /\ FaultsMbox # <<>>
    /\ LET pid == Head(FaultsMbox)
       IN  IF pid >= MAXPROC
           THEN Halt("faults")
           ELSE /\ Step(p, "receive", "select",
                        [NoJob EXCEPT !.pid = pid, !.page = faults[pid].page,
                            !.exists = pte[getProc(pid)][faults[pid].page].state # "UNUSED"])
                /\ FaultsMbox' = Tail(FaultsMbox)
                /\ UNCHANGED <<pte, FrameTable, NextCheckedFrame, sem, faults, mutex, memory,
                               NextBlock>>

\* Lines 466-475.
GetNextFrame(p) ==
    LET c == NextFrame(FrameTable, ref, NextCheckedFrame)
    IN  /\ Critical("FramesMutex", p)
        /\ NextCheckedFrame' = c.hand /\ ref' = c.ref
        /\ IF c.frame = EMPTY
           THEN Answer(p, "select", [faults[job[p].pid] EXCEPT !.failed = TRUE])
           ELSE /\ Step(p, "select", "victim", [job[p] EXCEPT !.frame = c.frame])
                /\ faults' = [faults EXCEPT ![job[p].pid].frame = c.frame]
                /\ UNCHANGED <<sem, FaultsMbox>>
        /\ UNCHANGED <<pte, FrameTable, mmu, dirty, ram, NextBlock>>

\* Lines 476-477.
TakeVictim(p) ==
    LET old == FrameTable[job[p].frame]
    IN  /\ Step(p, "victim", IF job[p].exists THEN "update" ELSE "count",
                [job[p] EXCEPT !.outPage = old.page, !.outPid = old.pid])
        /\ UNCHANGED <<pte, FrameTable, NextCheckedFrame, comm, mutex, memory, NextBlock>>

\* Lines 480-485.
CountNew(p) ==
    /\ Step(p, "count", "update", job[p])
    /\ Critical("vmStatsMutex", p)
    /\ UNCHANGED <<pte, FrameTable, NextCheckedFrame, comm, memory, NextBlock>>

\* The page tables after lines 488-492, and after lines 496-497.
EvictedNothing(tbl, j) == tbl                   \* mutant: no lines 488-492
Evicted(tbl, j) ==
    IF j.outPage = EMPTY THEN tbl
    ELSE [tbl EXCEPT ![getProc(j.outPid)][j.outPage] =
                        [@ EXCEPT !.state = "ONDISK", !.frame = EMPTY]]
Assigned(tbl, j) ==
    [tbl EXCEPT ![getProc(j.pid)][j.page] = [@ EXCEPT !.state = "INMEM", !.frame = j.frame]]

OccupiedUnlocked(j) == [page |-> j.page, pid |-> j.pid, locked |-> FALSE]   \* mutant: no line 495
Occupied(j) == [page |-> j.page, pid |-> j.pid, locked |-> TRUE]

UpdateTables(p) ==
    /\ Step(p, "update", "access", job[p])
    /\ pte' = Assigned(Evicted(pte, job[p]), job[p])
    /\ FrameTable' = [FrameTable EXCEPT ![job[p].frame] = Occupied(job[p])]
    /\ UNCHANGED <<NextCheckedFrame, comm, mutex, memory, NextBlock>>

\* The test of line 509.
MustWriteUsed(j) == j.outPage # EMPTY /\ ref[j.frame]       \* mutant: REF for DIRTY
MustWrite(j) == j.outPage # EMPTY /\ dirty[j.frame]

\* Lines 500-509.
CheckAccess(p) ==
    LET j == job[p]
    IN  /\ Step(p, "access", IF MustWrite(j) THEN "block" ELSE "fill",
                [j EXCEPT !.accessRef = ref[j.frame]])
        /\ UNCHANGED <<pte, FrameTable, NextCheckedFrame, comm, mutex, memory, NextBlock>>

OutEntry(j) == pte[getProc(j.outPid)][j.outPage]
InEntry(j)  == pte[getProc(j.pid)][j.page]

\* Lines 517-526: the page that goes out needs a block, and there may be none left.
FindBlock(p) ==
    /\ At(p, "block")
    /\ IF OutEntry(job[p]).diskBlock = EMPTY /\ NextBlock = DiskBlocks
       THEN Answer(p, "block", [faults[job[p].pid] EXCEPT !.shouldTerminate = TRUE])
       ELSE /\ Step(p, "block", IF OutEntry(job[p]).diskBlock = EMPTY THEN "alloc" ELSE "mapout",
                    job[p])
            /\ UNCHANGED comm
    /\ UNCHANGED <<pte, FrameTable, NextCheckedFrame, mutex, memory, NextBlock>>

BlockAfterSame(block) == block                  \* mutant: NextBlock is not advanced
BlockAfter(block) == block + 1

\* Lines 529-530.
AllocateBlock(p) ==
    /\ Step(p, "alloc", "mapout", job[p])
    /\ NextBlock' = BlockAfter(NextBlock)
    /\ pte' = [pte EXCEPT ![getProc(job[p].outPid)][job[p].outPage].diskBlock = NextBlock]
    /\ UNCHANGED <<FrameTable, NextCheckedFrame, comm, mutex, memory>>

\* USLOSS_MmuMap, which refuses a page that is mapped already; its callers halt then.
MmuMap(p, from, to, i) ==
    /\ At(p, from)
    /\ IF mmu[i] # EMPTY
       THEN Halt("mappings")
       ELSE /\ Step(p, from, to, job[p])
            /\ mmu' = [mmu EXCEPT ![i] = job[p].frame]
            /\ UNCHANGED <<pte, FrameTable, NextCheckedFrame, comm, mutex, ref, dirty, ram,
                           NextBlock>>

MapOut(p) == MmuMap(p, "mapout", "copyout", job[p].outPage)
MapIn(p)  == MmuMap(p, "mapin", "copyin", job[p].page)

\* Lines 541-548: the copy goes through the MMU, and so sets the REF bit.  Without the
\* mapping it would fault in the pager itself; that is described no further.
CopyOut(p) ==
    LET j == job[p]
        f == mmu[j.outPage]
    IN  /\ At(p, "copyout")
        /\ IF f = EMPTY
           THEN Halt("mappings")
           ELSE /\ Step(p, "copyout", "pageout",
                        [j EXCEPT !.buffer = ram[f], !.owner = ProcPid[getProc(j.outPid)]])
                /\ ref' = [ref EXCEPT ![f] = TRUE]
                /\ mmu' = [mmu EXCEPT ![j.outPage] = EMPTY]
                /\ UNCHANGED <<pte, FrameTable, NextCheckedFrame, comm, mutex, dirty, ram,
                               NextBlock>>

\* The disk driver serves the requests for one track in the order they were made:
\* the requests a new one for this block waits for.
Ahead(block) ==
    {q \in Pagers : /\ ppc[q] \in {"writing", "reading"}
                    /\ ReadAddress(job[q].block).track = ReadAddress(block).track}

\* The machine stops when the pager has vmStatsMutex.
Refuse(p, why) ==
    /\ mutex["vmStatsMutex"] = <<>> \/ Holds("vmStatsMutex", p)
    /\ Halt(why)

\* readPageFromDisk and writePageToDisk up to the transfer: entry e must be in this state.
Transfer(p, from, to, e, state) ==
    IF e.diskBlock = EMPTY \/ e.state # state
    THEN Refuse(p, "transfer")
    ELSE /\ Critical("vmStatsMutex", p)
         /\ Step(p, from, to, [job[p] EXCEPT !.block = e.diskBlock, !.ahead = Ahead(e.diskBlock)])
         /\ UNCHANGED <<pte, FrameTable, NextCheckedFrame, comm, memory, NextBlock>>

\* A process that has quit has pid EMPTY, for which getProc gives an entry before the table.
PageOut(p) ==
    LET j == job[p]
    IN  /\ At(p, "pageout")
        /\ IF j.owner = EMPTY
           THEN Refuse(p, "process")
           ELSE Transfer(p, "pageout", "writing", pte[getProc(j.owner)][j.outPage], "ONDISK")

PageIn(p) == At(p, "pagein") /\ Transfer(p, "pagein", "reading", InEntry(job[p]), "INMEM")

\* Line 553.
MustReadExisting(j) == j.exists                 \* mutant: half of the test
MustRead(j) == j.exists /\ InEntry(j).diskBlock # EMPTY

\* Lines 552-567.
Fill(p) ==
    /\ Step(p, "fill", IF MustRead(job[p]) THEN "pagein" ELSE "mapin",
            [job[p] EXCEPT !.buffer = Zero])
    /\ UNCHANGED <<pte, FrameTable, NextCheckedFrame, comm, mutex, memory, NextBlock>>

\* Lines 576-598: the copy sets the bits of the frame it goes to, then those of the
\* pager's own frame are set.
CopyIn(p) ==
    LET j == job[p]
        f == mmu[j.page]
    IN  IF f = EMPTY
        THEN At(p, "copyin") /\ Halt("mappings")
        ELSE /\ Answer(p, "copyin", faults[j.pid])
             /\ ram' = [ram EXCEPT ![f] = j.buffer]
             /\ mmu' = [mmu EXCEPT ![j.page] = EMPTY]
             /\ ref' = [[ref EXCEPT ![f] = TRUE] EXCEPT ![j.frame] = j.accessRef]
             /\ dirty' = [[dirty EXCEPT ![f] = TRUE] EXCEPT ![j.frame] = FALSE]
             /\ UNCHANGED <<pte, FrameTable, NextCheckedFrame, mutex, NextBlock>>

-----------------------------------------------------------------------------
(* The disk finishes a transfer: the pager can run again, and the requests   *)
(* behind its own move up.                                                   *)

Transferred(p, from, to, content) ==
    /\ Running(System)
    /\ ppc[p] = from /\ job[p].ahead = {}
    /\ ppc' = [ppc EXCEPT ![p] = to]
    /\ job' = [q \in Pagers |-> [job[q] EXCEPT !.ahead = @ \ {p},
                                               !.buffer = IF q = p THEN content ELSE @]]
    /\ UNCHANGED <<cur, halted, upc, offset, ProcPid, pte, FrameTable, NextCheckedFrame, comm,
                   mutex, memory, NextBlock>>

WriteDone(p) ==
    /\ Transferred(p, "writing", "fill", job[p].buffer)
    /\ disk' = DiskWrite(disk, job[p].block, job[p].buffer)

ReadDone(p) ==
    /\ Transferred(p, "reading", "mapin", DiskRead(disk, job[p].block))
    /\ UNCHANGED disk

-----------------------------------------------------------------------------
Program(u) ==
    \/ \E i \in Page : Load(u, i) \/ PageFault(u, i) \/ \E v \in Values : Store(u, i, v)
    \/ PrintStats(u)

Handler(u) ==
    \/ LockVmStats(u) \/ CountFault(u) \/ SendFault(u) \/ Resume(u)
    \/ LockFrames(u) \/ UnlockFrame(u) \/ PrintStatsDone(u)

Pager(p) ==
    \/ BlockOnMutex(p, "FramesMutex", {"select"})
    \/ BlockOnMutex(p, "vmStatsMutex", {"count", "pageout", "pagein"})
    \/ Receive(p) \/ GetNextFrame(p) \/ TakeVictim(p) \/ CountNew(p)
    \/ UpdateTables(p) \/ CheckAccess(p) \/ FindBlock(p) \/ AllocateBlock(p)
    \/ MapOut(p) \/ CopyOut(p) \/ PageOut(p) \/ Fill(p) \/ PageIn(p) \/ MapIn(p)
    \/ CopyIn(p)

DiskDone(p) == WriteDone(p) \/ ReadDone(p)

Next ==
    \/ \E x \in Process : p1_switch(x)
    \/ \E u \in Users : p1_fork(u) \/ p1_quit(u) \/ Program(u) \/ Handler(u)
    \/ \E p \in Pagers : Pager(p) \/ DiskDone(p)

Spec == Init /\ [][Next]_vars

\* The dispatcher's round robin gives every process that can run at the best priority a
\* time slice again and again; a process that has the processor executes; the disk
\* finishes every transfer.  Nothing is assumed of the users' programs.
Fairness ==
    /\ \A x \in Process : SF_vars(p1_switch(x))
    /\ \A u \in Users : SF_vars(Handler(u))
    /\ \A p \in Pagers : SF_vars(Pager(p)) /\ SF_vars(DiskDone(p))

FairSpec == Spec /\ Fairness
=============================================================================
