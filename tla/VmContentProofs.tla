--------------------------- MODULE VmContentProofs ---------------------------
(***************************************************************************)
(* The disk blocks; with one pager, of a better priority than every user,  *)
(* what a running process reads, and what can stop the machine.            *)
(***************************************************************************)
EXTENDS VmTablesProofs

\* Disk blocks.
BlockInv ==
    /\ BlocksAreDistinct
    /\ \A p \in Pagers : ppc[p] = "alloc" => NextBlock < DiskBlocks

\* A pager that writes a page out, with the entry of that page and the pid it has read.
ToWrite == {"mapout", "copyout", "pageout", "writing"}

\* The entry of the page that goes out, unless its owner has quit.
OutReady(p) ==
    ppc[p] \in TakingOut /\ job[p].outPage # EMPTY /\ job[p].outPid \in Live =>
        /\ OutEntry(job[p]).frame = EMPTY /\ OutEntry(job[p]).state = "ONDISK"
        /\ ppc[p] \in ToWrite => OutEntry(job[p]).diskBlock # EMPTY
        /\ ppc[p] = "pageout" => job[p].owner = job[p].outPid

\* The entry of a page that is read.
InReady(p) == ppc[p] = "pagein" => InEntry(job[p]).diskBlock # EMPTY

OutInv == \A p \in Pagers : OutReady(p) /\ InReady(p)

\* A user that has the processor is not one a pager is at work for.
CurInv == cur \in Users => \A p \in Pagers : ppc[p] # "receive" => job[p].pid # cur

-----------------------------------------------------------------------------
(* What a step leaves alone, by who takes it.                                *)

LEMMA UserLeaves ==
  ASSUME TypeInv, NEW u \in Users, Program(u) \/ Handler(u)
  PROVE  /\ cur = u /\ Live' = Live /\ \A v \in Users : upc'[v] = "dead" <=> upc[v] = "dead"
         /\ UNCHANGED <<cur, halted, ProcPid, pte, disk, NextBlock, ppc, job>>
<1>1. PICK from, to : UserStep(u, from, to) /\ {from, to} \cap {"unborn", "dead"} = {}
  <2>1. CASE Resume(u)
    <3> DEFINE to == AfterFault(faults[getProc(u)])
    <3>1. UserStep(u, "wait", to) /\ to \in {"exit", "send", "unlock"}
      BY <2>1 DEF Resume, AfterFault
    <3> HIDE DEF to
    <3> QED
      BY <3>1
  <2>2. CASE Program(u)
    <3>1. ASSUME NEW i \in Page, Load(u, i)
          PROVE  UserStep(u, "user", "user")
      BY <3>1 DEF Load
    <3>2. ASSUME NEW i \in Page, NEW v \in Values, Store(u, i, v)
          PROVE  UserStep(u, "user", "user")
      BY <3>2 DEF Store
    <3>3. ASSUME NEW i \in Page, PageFault(u, i)
          PROVE  UserStep(u, "user", "count")
      BY <3>3 DEF PageFault
    <3>4. PrintStats(u) => UserStep(u, "user", "printing")
      BY DEF PrintStats
    <3>5. \/ UserStep(u, "user", "user") \/ UserStep(u, "user", "count")
          \/ UserStep(u, "user", "printing")
      BY <2>2, <3>1, <3>2, <3>3, <3>4 DEF Program
    <3> QED
      BY <3>5
  <2>3. CASE LockVmStats(u) \/ CountFault(u) \/ SendFault(u)
    BY <2>3 DEF LockVmStats, CountFault, SendFault
  <2>4. CASE LockFrames(u) \/ UnlockFrame(u) \/ PrintStatsDone(u)
    BY <2>4 DEF LockFrames, UnlockFrame, PrintStatsDone
  <2> QED
    BY <2>1, <2>2, <2>3, <2>4 DEF Handler
<1>2. /\ cur = u /\ upc[u] = from /\ upc' = [upc EXCEPT ![u] = to]
      /\ UNCHANGED <<cur, halted, ProcPid, pte, disk, NextBlock, ppc, job>>
  BY <1>1 DEF UserStep, Running
<1>3. \A v \in Users : /\ upc'[v] = "dead" <=> upc[v] = "dead"
                       /\ upc'[v] = "unborn" <=> upc[v] = "unborn"
  BY <1>1, <1>2 DEF TypeInv, TypeOK
<1> QED
  BY <1>2, <1>3 DEF Live

LEMMA PagerLeaves ==
  ASSUME NEW p \in Pagers, Pager(p)
  PROVE  cur = p /\ halted = "no" /\ UNCHANGED <<cur, upc, offset, ProcPid, disk>>
<1>1. CASE \/ BlockOnMutex(p, "FramesMutex", {"select"})
           \/ BlockOnMutex(p, "vmStatsMutex", {"count", "pageout", "pagein"})
  BY <1>1 DEF BlockOnMutex, Running
<1>2. CASE Receive(p) \/ GetNextFrame(p) \/ TakeVictim(p) \/ CountNew(p)
  BY <1>2 DEF Receive, GetNextFrame, TakeVictim, CountNew, Answer, Halt, Step, At, Running
<1>3. CASE UpdateTables(p) \/ CheckAccess(p) \/ FindBlock(p) \/ AllocateBlock(p)
  BY <1>3 DEF UpdateTables, CheckAccess, FindBlock, AllocateBlock, Answer, Step, At, Running
<1>4. CASE MapOut(p) \/ CopyOut(p) \/ Fill(p) \/ MapIn(p) \/ CopyIn(p)
  BY <1>4 DEF MapOut, CopyOut, Fill, MapIn, CopyIn, MmuMap, Answer, Halt, Step, At, Running
<1>5. CASE PageOut(p) \/ PageIn(p)
  BY <1>5 DEF PageOut, PageIn, Transfer, Refuse, Halt, Step, At, Running
<1> QED
  BY <1>1, <1>2, <1>3, <1>4, <1>5 DEF Pager

-----------------------------------------------------------------------------
(* Disk blocks, with one pager of any priority.                              *)

LEMMA BlocksSame ==
  ASSUME BlockInv, UNCHANGED NextBlock,
         \A s \in Slot : \A i \in Page : pte'[s][i].diskBlock \in {EMPTY, pte[s][i].diskBlock},
         \A p \in Pagers : ppc'[p] = "alloc" => ppc[p] = "alloc"
  PROVE  BlockInv'
<1>1. \A b \in OwnedBlocks' : /\ b \in OwnedBlocks
                              /\ pte'[b[1]][b[2]].diskBlock = pte[b[1]][b[2]].diskBlock
  BY DEF OwnedBlocks
<1>2. BlocksAreDistinct'
  BY <1>1 DEF BlockInv, BlocksAreDistinct
<1> QED
  BY <1>2 DEF BlockInv

LEMMA BlocksSamePager ==
  ASSUME TypeInv, BlockInv, NEW p \in Pagers, NEW from, NEW to, NEW j, Step(p, from, to, j),
         to # "alloc", UNCHANGED <<pte, NextBlock>>
  PROVE  BlockInv'
<1>1. \A q \in Pagers : ppc'[q] = "alloc" => ppc[q] = "alloc"
  BY DEF Step, TypeInv, TypeOK
<1> QED
  BY <1>1, BlocksSame

LEMMA BlocksHalt ==
  ASSUME BlockInv, NEW why, Halt(why)
  PROVE  BlockInv'
BY BlocksSame DEF Halt

LEMMA BlocksAllocate ==
  ASSUME TypeInv, OnePager, BlockInv, NEW p \in Pagers, AllocateBlock(p)
  PROVE  BlockInv'
<1> DEFINE s == getProc(job[p].outPid)
           i == job[p].outPage
<1>1. /\ Pagers = {p} /\ ppc[p] = "alloc" /\ ppc'[p] = "mapout"
      /\ NextBlock' = NextBlock + 1
      /\ pte' = [pte EXCEPT ![s][i].diskBlock = NextBlock]
  BY DEF OnePager, AllocateBlock, BlockAfter, Step, At, TypeInv, TypeOK
<1>2. s \in Slot /\ i \in Page
  <2>1. job[p] \in Job /\ job[p].outPage # EMPTY
    BY <1>1 DEF TypeInv, TypeOK, AtWork
  <2> QED
    BY <2>1, OutSlot DEF Job
<1> HIDE DEF s, i
<1>3. /\ pte'[s][i].diskBlock = NextBlock
      /\ \A t \in Slot : \A k \in Page : ~ (t = s /\ k = i) => pte'[t][k] = pte[t][k]
  BY <1>1, <1>2 DEF TypeInv, TypeOK, PTE
<1>4. /\ NextBlock \in Int /\ NextBlock' = NextBlock + 1 /\ NextBlock < DiskBlocks
      /\ DiskBlocks \in Int
  BY <1>1, GeometryAssumption DEF BlockInv, TypeInv, TypeOK, DiskBlocks
<1> DEFINE new(b) == b[1] = s /\ b[2] = i
<1>5. \A b \in OwnedBlocks' :
         /\ b \in Slot \X Page
         /\ new(b) => pte'[b[1]][b[2]].diskBlock = NextBlock
         /\ ~ new(b) => /\ b \in OwnedBlocks
                        /\ pte'[b[1]][b[2]].diskBlock = pte[b[1]][b[2]].diskBlock
  BY <1>3 DEF OwnedBlocks
<1>6. \A b \in OwnedBlocks : /\ pte[b[1]][b[2]].diskBlock < NextBlock
                             /\ pte[b[1]][b[2]].diskBlock \in Int
  <2> SUFFICES ASSUME NEW b \in OwnedBlocks
               PROVE  /\ pte[b[1]][b[2]].diskBlock < NextBlock
                      /\ pte[b[1]][b[2]].diskBlock \in Int
    OBVIOUS
  <2>1. b[1] \in Slot /\ b[2] \in Page /\ pte[b[1]][b[2]].diskBlock # EMPTY
    BY DEF OwnedBlocks
  <2>2. pte[b[1]][b[2]] \in PTE
    BY <2>1 DEF TypeInv, TypeOK
  <2>3. pte[b[1]][b[2]].diskBlock \in Int
    BY <2>1, <2>2 DEF PTE
  <2> QED
    BY <2>3 DEF BlockInv, BlocksAreDistinct
<1>7. \A a, b \in OwnedBlocks' :
         pte'[a[1]][a[2]].diskBlock = pte'[b[1]][b[2]].diskBlock => a = b
  <2> SUFFICES ASSUME NEW a \in OwnedBlocks', NEW b \in OwnedBlocks',
                      pte'[a[1]][a[2]].diskBlock = pte'[b[1]][b[2]].diskBlock
               PROVE  a = b
    OBVIOUS
  <2>1. CASE new(a) /\ new(b)
    BY <1>5, <2>1
  <2>2. CASE ~ new(a) /\ ~ new(b)
    BY <1>5, <2>2 DEF BlockInv, BlocksAreDistinct
  <2>3. CASE new(a) /\ ~ new(b)
    BY <1>4, <1>5, <1>6, <2>3
  <2>4. CASE ~ new(a) /\ new(b)
    BY <1>4, <1>5, <1>6, <2>4
  <2> QED
    BY <2>1, <2>2, <2>3, <2>4
<1>8. \A b \in OwnedBlocks' : pte'[b[1]][b[2]].diskBlock < NextBlock'
  BY <1>4, <1>5, <1>6
<1>9. NextBlock' <= DiskBlocks
  BY <1>4
<1> QED
  BY <1>1, <1>7, <1>8, <1>9 DEF BlockInv, BlocksAreDistinct, DiskBlocks

LEMMA BlocksPager ==
  ASSUME TypeInv, OnePager, BlockInv, NEW p \in Pagers, Pager(p)
  PROVE  BlockInv'
<1>1. CASE \/ BlockOnMutex(p, "FramesMutex", {"select"})
           \/ BlockOnMutex(p, "vmStatsMutex", {"count", "pageout", "pagein"})
  BY <1>1, BlocksSame DEF BlockOnMutex
<1>2. CASE Receive(p)
  BY <1>2, BlocksHalt, BlocksSamePager DEF Receive
<1>3. CASE GetNextFrame(p) \/ TakeVictim(p) \/ CountNew(p)
  <2>1. PICK from, to, j : Step(p, from, to, j) /\ to # "alloc" /\ UNCHANGED <<pte, NextBlock>>
    BY <1>3 DEF GetNextFrame, TakeVictim, CountNew, Answer
  <2> QED
    BY <2>1, BlocksSamePager
<1>4. CASE UpdateTables(p)
  <2>1. Step(p, "update", "access", job[p]) /\ UNCHANGED NextBlock
    BY <1>4 DEF UpdateTables
  <2>2. \A s \in Slot : \A i \in Page : pte'[s][i].diskBlock = pte[s][i].diskBlock
    BY <1>4, AssignedEntries
  <2>3. \A q \in Pagers : ppc'[q] = "alloc" => ppc[q] = "alloc"
    BY <2>1 DEF Step, TypeInv, TypeOK
  <2> QED
    BY <2>1, <2>2, <2>3, BlocksSame
<1>5. CASE CheckAccess(p) \/ Fill(p)
  <2>1. PICK from, to, j : Step(p, from, to, j) /\ to # "alloc" /\ UNCHANGED <<pte, NextBlock>>
    BY <1>5 DEF CheckAccess, Fill
  <2> QED
    BY <2>1, BlocksSamePager
<1>6. CASE FindBlock(p)
  <2>1. CASE OutEntry(job[p]).diskBlock = EMPTY /\ NextBlock = DiskBlocks
    BY <1>6, <2>1, BlocksSamePager DEF FindBlock, Answer
  <2>2. CASE ~ (OutEntry(job[p]).diskBlock = EMPTY /\ NextBlock = DiskBlocks)
    <3>1. /\ Pagers = {p} /\ UNCHANGED <<pte, NextBlock>>
          /\ ppc'[p] = "alloc" => NextBlock # DiskBlocks
      BY <1>6, <2>2 DEF FindBlock, OnePager, Step, TypeInv, TypeOK
    <3>2. NextBlock <= DiskBlocks /\ NextBlock \in Int /\ DiskBlocks \in Int
      BY GeometryAssumption DEF BlockInv, BlocksAreDistinct, TypeInv, TypeOK, DiskBlocks
    <3>3. BlocksAreDistinct'
      BY <3>1 DEF BlockInv, BlocksAreDistinct, OwnedBlocks
    <3> QED
      BY <3>1, <3>2, <3>3 DEF BlockInv
  <2> QED
    BY <2>1, <2>2
<1>7. CASE AllocateBlock(p)
  BY <1>7, BlocksAllocate
<1>8. CASE MapOut(p) \/ MapIn(p)
  BY <1>8, BlocksHalt, BlocksSamePager DEF MapOut, MapIn, MmuMap
<1>9. CASE CopyOut(p) \/ CopyIn(p)
  BY <1>9, BlocksHalt, BlocksSamePager DEF CopyOut, CopyIn, Answer
<1>10. CASE PageOut(p) \/ PageIn(p)
  BY <1>10, BlocksHalt, BlocksSamePager DEF PageOut, PageIn, Transfer, Refuse
<1> QED
  BY <1>1, <1>2, <1>3, <1>4, <1>5, <1>6, <1>7, <1>8, <1>9, <1>10 DEF Pager

LEMMA BlocksInit == Init => BlockInv
<1> SUFFICES ASSUME Init PROVE BlockInv
  OBVIOUS
<1>1. OwnedBlocks = {}
  BY DEF Init, OwnedBlocks, EmptyTable, UnusedPTE
<1>2. DiskBlocks \in Nat
  BY GeometryAssumption DEF DiskBlocks
<1> QED
  BY <1>1, <1>2 DEF Init, BlockInv, BlocksAreDistinct

LEMMA BlocksNext ==
  ASSUME OnePager
  PROVE  TypeInv /\ BlockInv /\ [Next]_vars => BlockInv'
<1> SUFFICES ASSUME TypeInv, BlockInv, [Next]_vars PROVE BlockInv'
  OBVIOUS
<1>1. CASE UNCHANGED vars
  BY <1>1, BlocksSame DEF vars
<1>2. ASSUME NEW x \in Process, p1_switch(x) PROVE BlockInv'
  BY <1>2, BlocksHalt, BlocksSame DEF p1_switch
<1>3. ASSUME NEW u \in Users, p1_fork(u) \/ p1_quit(u) PROVE BlockInv'
  <2>1. CASE Halt("mappings")
    BY <2>1, BlocksHalt
  <2>2. CASE ~ Halt("mappings")
    <3>1. pte' = [pte EXCEPT ![getProc(u)] = EmptyTable] /\ UNCHANGED <<ppc, NextBlock>>
      BY <1>3, <2>2 DEF p1_fork, p1_quit
    <3>2. \A s \in Slot : \A i \in Page :
             pte'[s][i].diskBlock \in {EMPTY, pte[s][i].diskBlock}
      BY <3>1, UserSlot DEF TypeInv, TypeOK, EmptyTable, UnusedPTE
    <3> QED
      BY <3>1, <3>2, BlocksSame
  <2> QED
    BY <2>1, <2>2
<1>4. ASSUME NEW u \in Users, Program(u) \/ Handler(u) PROVE BlockInv'
  BY <1>4, UserLeaves, BlocksSame
<1>5. ASSUME NEW p \in Pagers, DiskDone(p) PROVE BlockInv'
  <2>1. PICK from, to, content : Transferred(p, from, to, content) /\ to # "alloc"
    BY <1>5 DEF DiskDone, WriteDone, ReadDone
  <2>2. \A q \in Pagers : ppc'[q] = "alloc" => ppc[q] = "alloc"
    BY <2>1 DEF Transferred, TypeInv, TypeOK
  <2> QED
    BY <2>1, <2>2, BlocksSame DEF Transferred
<1> QED
  BY <1>1, <1>2, <1>3, <1>4, <1>5, BlocksPager DEF Next

LEMMA BlocksAlways ==
  ASSUME OnePager
  PROVE  Spec => []BlockInv
<1>1. Init => TypeInv /\ BlockInv
  BY TypeInit, BlocksInit
<1>2. TypeInv /\ BlockInv /\ [Next]_vars => TypeInv' /\ BlockInv'
  BY TypeNext, BlocksNext
<1> QED
  BY <1>1, <1>2, PTL DEF Spec

\* With one pager, whatever its priority, no disk block is given to two pages, no block is
\* given twice and none past the end of the disk (phase5.c:520-530), through every fork and
\* quit that empties a page table.
THEOREM BlocksAlwaysDistinct ==
  ASSUME OnePager
  PROVE  Spec => []BlocksAreDistinct
<1>1. BlockInv => BlocksAreDistinct
  BY DEF BlockInv
<1> QED
  BY <1>1, BlocksAlways, PTL

-----------------------------------------------------------------------------
(* The entries of the page that goes out and of the page that comes in.      *)

LEMMA OutSame ==
  ASSUME OutInv, UNCHANGED <<ppc, job>>,
         \A p \in Pagers : ppc[p] # "receive" =>
            pte'[getProc(job[p].pid)] = pte[getProc(job[p].pid)],
         \A p \in Pagers :
            ppc[p] \in TakingOut /\ job[p].outPage # EMPTY /\ job[p].outPid \in Live' =>
                /\ job[p].outPid \in Live
                /\ pte'[getProc(job[p].outPid)] = pte[getProc(job[p].outPid)]
  PROVE  OutInv'
<1> SUFFICES ASSUME NEW p \in Pagers PROVE OutReady(p)' /\ InReady(p)'
  BY DEF OutInv
<1>1. OutReady(p) /\ InReady(p)
  BY DEF OutInv
<1>2. OutReady(p)'
  BY <1>1 DEF OutReady, OutEntry
<1>3. InReady(p)'
  BY <1>1 DEF InReady, InEntry
<1> QED
  BY <1>2, <1>3

LEMMA OutQuiet ==
  ASSUME OutInv, UNCHANGED <<ppc, job, pte>>, Live' = Live
  PROVE  OutInv'
BY OutSame

LEMMA OutFork ==
  ASSUME Inv, FrameInv, OutInv, NEW u \in Users, p1_fork(u)
  PROVE  OutInv'
<1> DEFINE s == getProc(u)
<1>1. /\ s \in Slot /\ upc[u] = "unborn" /\ ProcPid[s] = EMPTY
      /\ pte' = [pte EXCEPT ![s] = EmptyTable] /\ UNCHANGED <<ppc, job>>
      /\ upc' = [upc EXCEPT ![u] = "user"]
  BY UserSlot DEF p1_fork
<1>2. u \notin Live /\ Live' = Live \cup {u}
  BY <1>1 DEF Live, Inv, TypeInv, TypeOK
<1>3. \A v \in Live : v \in Users /\ getProc(v) \in Slot \ {s}
  <2>1. \A v \in Live : ProcPid[getProc(v)] = v /\ v # EMPTY
    BY ProcessAssumption DEF Inv, AnswerInv, OwnSlots, Live, EMPTY
  <2> QED
    BY <1>1, <2>1, UserSlot DEF Live
<1>4. \A v \in Live : pte'[getProc(v)] = pte[getProc(v)]
  BY <1>1, <1>3 DEF Inv, TypeInv, TypeOK
<1>5. \A p \in Pagers : ppc[p] # "receive" => job[p].pid \in Live
  BY ServedWaits
<1>6. \A p \in Pagers : ppc[p] \in TakingOut /\ job[p].outPage # EMPTY => job[p].outPid # u
  BY <1>1 DEF FrameInv, VictimOwnerInv
<1> QED
  BY <1>1, <1>2, <1>4, <1>5, <1>6, OutSame

LEMMA OutQuit ==
  ASSUME Inv, OutInv, NEW u \in Users, p1_quit(u)
  PROVE  OutInv'
<1> DEFINE s == getProc(u)
<1>1. CanUnload(u) /\ upc[u] \in {"exit", "user"}
  BY UserUnloads DEF p1_quit, Running
<1>2. /\ s \in Slot /\ pte' = [pte EXCEPT ![s] = EmptyTable] /\ UNCHANGED <<ppc, job>>
      /\ upc' = [upc EXCEPT ![u] = "dead"]
  BY <1>1, UserSlot DEF p1_quit
<1>3. u \in Live /\ Live' = Live \ {u}
  BY <1>1, <1>2 DEF Live, Inv, TypeInv, TypeOK
<1>4. \A v \in Live \ {u} : pte'[getProc(v)] = pte[getProc(v)]
  BY <1>2, <1>3, OtherSlots DEF Inv, TypeInv, TypeOK
<1>5. \A p \in Pagers : ppc[p] # "receive" => job[p].pid \in Live \ {u}
  BY <1>1, ServedWaits
<1> QED
  BY <1>2, <1>3, <1>4, <1>5, OutSame

\* A step of the pager from one place to another: what it must have seen to by then.
LEMMA OutStep ==
  ASSUME Inv, OnePager, NEW p \in Pagers, NEW from, NEW to, NEW j, Step(p, from, to, j),
         OutReady(p)', InReady(p)'
  PROVE  OutInv'
BY DEF OnePager, OutInv

LEMMA OutStepSame ==
  ASSUME Inv, OnePager, OutInv, NEW p \in Pagers, NEW from, NEW to, NEW j, Step(p, from, to, j),
         pte' = pte,
         j.pid = job[p].pid, j.page = job[p].page,
         j.outPage = job[p].outPage, j.outPid = job[p].outPid,
         to \in TakingOut => from \in TakingOut,
         to \in ToWrite /\ j.outPid \in Live =>
            from \in ToWrite \/ OutEntry(job[p]).diskBlock # EMPTY,
         to = "pageout" /\ j.outPid \in Live => j.owner = j.outPid,
         to = "pagein" => InEntry(job[p]).diskBlock # EMPTY
  PROVE  OutInv'
<1>1. ppc[p] = from /\ ppc'[p] = to /\ job'[p] = j /\ upc' = upc
  BY DEF Step, At, Inv, TypeInv, TypeOK
<1>2. Live' = Live
  BY <1>1 DEF Live
<1>3. OutReady(p) /\ InReady(p)
  BY DEF OutInv
<1>4. OutReady(p)'
  BY <1>1, <1>2, <1>3 DEF OutReady, OutEntry
<1>5. InReady(p)'
  BY <1>1 DEF InReady, InEntry
<1> QED
  BY <1>4, <1>5, OutStep

LEMMA OutHalt ==
  ASSUME OutInv, NEW why, Halt(why)
  PROVE  OutInv'
<1>1. UNCHANGED <<ppc, job, pte, upc>>
  BY DEF Halt
<1>2. Live' = Live
  BY <1>1 DEF Live
<1> QED
  BY <1>1, <1>2, OutQuiet

LEMMA OutUpdate ==
  ASSUME Inv, FrameInv, OnePager, NEW p \in Pagers, UpdateTables(p)
  PROVE  OutInv'
<1>1. /\ Step(p, "update", "access", job[p]) /\ ppc[p] = "update"
      /\ ppc'[p] = "access" /\ job' = job /\ upc' = upc
  BY DEF UpdateTables, Step, At, Inv, TypeInv, TypeOK
<1>2. Live' = Live
  BY <1>1 DEF Live
<1>3. InReady(p)'
  BY <1>1 DEF InReady
<1>4. OutReady(p)'
  <2> SUFFICES ASSUME job[p].outPage # EMPTY, job[p].outPid \in Live
               PROVE  /\ pte'[getProc(job[p].outPid)][job[p].outPage].frame = EMPTY
                      /\ pte'[getProc(job[p].outPid)][job[p].outPage].state = "ONDISK"
    BY <1>1, <1>2 DEF OutReady, OutEntry, ToWrite
  <2> DEFINE s == getProc(job[p].outPid)
             i == job[p].outPage
  <2>1. s \in Slot /\ i \in Page /\ job[p].frame \in Frame
    BY OutSlot DEF Inv, TypeInv, TypeOK, Job
  <2>2. FrameTable[job[p].frame].page # EMPTY
    BY <1>1 DEF FrameInv, VictimOwnerInv
  <2>3. pte[s][i].frame = job[p].frame
    <3>1. FrameTable[job[p].frame].page = i /\ FrameTable[job[p].frame].pid = job[p].outPid
      BY <1>1, <2>2 DEF Inv, TablesInv, VictimInv
    <3> QED
      BY <2>1, <2>2, <3>1, FrameOwner
  <2>4. pte[getProc(job[p].pid)][job[p].page].frame = EMPTY
    BY <1>1, JobHasNoFrame DEF Placing, TakingOut
  <2>5. job[p].frame # EMPTY
    BY <2>1 DEF Frame, EMPTY
  <2>6. ~ (s = getProc(job[p].pid) /\ i = job[p].page)
    BY <2>3, <2>4, <2>5
  <2> QED
    BY <2>1, <2>6, AssignedEntries DEF Inv
<1> QED
  BY <1>1, <1>3, <1>4, OutStep

LEMMA OutAllocate ==
  ASSUME Inv, OnePager, OutInv, NEW p \in Pagers, AllocateBlock(p)
  PROVE  OutInv'
<1> DEFINE s == getProc(job[p].outPid)
           i == job[p].outPage
<1>1. /\ Step(p, "alloc", "mapout", job[p]) /\ ppc[p] = "alloc"
      /\ ppc'[p] = "mapout" /\ job' = job /\ upc' = upc
      /\ pte' = [pte EXCEPT ![s][i].diskBlock = NextBlock]
  BY DEF AllocateBlock, Step, At, Inv, TypeInv, TypeOK
<1>2. Live' = Live
  BY <1>1 DEF Live
<1>3. InReady(p)'
  BY <1>1 DEF InReady
<1>4. s \in Slot /\ i \in Page /\ NextBlock # EMPTY /\ pte[s][i] \in PTE
  <2>1. job[p] \in Job /\ job[p].outPage # EMPTY
    BY <1>1 DEF Inv, TypeInv, TypeOK, AtWork
  <2>2. NextBlock # EMPTY
    BY DEF Inv, TypeInv, TypeOK, EMPTY
  <2>3. s \in Slot /\ i \in Page
    BY <2>1, OutSlot DEF Job
  <2> QED
    BY <2>2, <2>3 DEF Inv, TypeInv, TypeOK
<1>5. OutReady(p)
  BY DEF OutInv
<1>6. /\ pte'[s][i].diskBlock = NextBlock /\ pte'[s][i].frame = pte[s][i].frame
      /\ pte'[s][i].state = pte[s][i].state
  <2>1. pte'[s][i] = [pte[s][i] EXCEPT !.diskBlock = NextBlock]
    BY <1>1, <1>4 DEF Inv, TypeInv, TypeOK
  <2> HIDE DEF s, i
  <2> QED
    BY <1>4, <2>1 DEF PTE
<1>7. OutReady(p)'
  BY <1>1, <1>2, <1>4, <1>5, <1>6 DEF OutReady, OutEntry, TakingOut
<1> QED
  BY <1>1, <1>3, <1>7, OutStep
\* Nothing is going out, and nothing has to be read.
LEMMA OutIdle ==
  ASSUME Inv, OnePager, NEW p \in Pagers, NEW from, NEW to, NEW j, Step(p, from, to, j),
         to \notin TakingOut \cup {"pagein"}
  PROVE  OutInv'
<1>1. ppc'[p] = to
  BY DEF Step, Inv, TypeInv, TypeOK
<1>2. OutReady(p)' /\ InReady(p)'
  BY <1>1 DEF OutReady, InReady
<1> QED
  BY <1>2, OutStep

LEMMA OutPager ==
  ASSUME Inv, FrameInv, OnePager, OutInv, NEW p \in Pagers, Pager(p)
  PROVE  OutInv'
<1>0. job[p] \in Job /\ Live' = Live
  BY PagerLeaves DEF Inv, TypeInv, TypeOK, Live
<1>1. CASE \/ BlockOnMutex(p, "FramesMutex", {"select"})
           \/ BlockOnMutex(p, "vmStatsMutex", {"count", "pageout", "pagein"})
  BY <1>0, <1>1, OutQuiet DEF BlockOnMutex
<1>2. CASE Receive(p)
  BY <1>2, OutHalt, OutIdle DEF Receive, TakingOut
<1>3. CASE GetNextFrame(p) \/ TakeVictim(p) \/ CountNew(p)
  <2>1. PICK from, to, j : Step(p, from, to, j) /\ to \in {"receive", "victim", "update", "count"}
    BY <1>3 DEF GetNextFrame, TakeVictim, CountNew, Answer
  <2> QED
    BY <2>1, OutIdle DEF TakingOut
<1>4. CASE CheckAccess(p)
  <2> DEFINE j == [job[p] EXCEPT !.accessRef = ref[job[p].frame]]
             to == IF MustWrite(job[p]) THEN "block" ELSE "fill"
  <2>1. Step(p, "access", to, j) /\ pte' = pte /\ to \in {"block", "fill"}
    BY <1>4 DEF CheckAccess
  <2>2. /\ j.pid = job[p].pid /\ j.page = job[p].page
        /\ j.outPage = job[p].outPage /\ j.outPid = job[p].outPid
    BY <1>0 DEF Job
  <2> HIDE DEF j, to
  <2> QED
    BY <2>1, <2>2, OutStepSame DEF TakingOut, ToWrite
<1>5. CASE FindBlock(p)
  <2> DEFINE to == IF OutEntry(job[p]).diskBlock = EMPTY THEN "alloc" ELSE "mapout"
  <2>1. CASE OutEntry(job[p]).diskBlock = EMPTY /\ NextBlock = DiskBlocks
    BY <1>5, <2>1, OutIdle DEF FindBlock, Answer, TakingOut
  <2>2. CASE ~ (OutEntry(job[p]).diskBlock = EMPTY /\ NextBlock = DiskBlocks)
    <3>1. /\ Step(p, "block", to, job[p]) /\ pte' = pte /\ to \in {"alloc", "mapout"}
          /\ to = "mapout" => OutEntry(job[p]).diskBlock # EMPTY
      BY <1>5, <2>2 DEF FindBlock
    <3> HIDE DEF to
    <3> QED
      BY <3>1, OutStepSame DEF TakingOut, ToWrite
  <2> QED
    BY <2>1, <2>2
<1>6. CASE MapOut(p)
  <2>1. CASE mmu[job[p].outPage] # EMPTY
    BY <1>6, <2>1, OutHalt DEF MapOut, MmuMap
  <2>2. CASE mmu[job[p].outPage] = EMPTY
    <3>1. Step(p, "mapout", "copyout", job[p]) /\ pte' = pte
      BY <1>6, <2>2 DEF MapOut, MmuMap
    <3> QED
      BY <3>1, OutStepSame DEF TakingOut, ToWrite
  <2> QED
    BY <2>1, <2>2
<1>7. CASE MapIn(p)
  BY <1>7, OutHalt, OutIdle DEF MapIn, MmuMap, TakingOut
<1>8. CASE CopyOut(p)
  <2> DEFINE f == mmu[job[p].outPage]
             j == [job[p] EXCEPT !.buffer = ram[f], !.owner = ProcPid[getProc(job[p].outPid)]]
  <2>1. CASE f = EMPTY
    BY <1>8, <2>1, OutHalt DEF CopyOut
  <2>2. CASE f # EMPTY
    <3>1. Step(p, "copyout", "pageout", j) /\ pte' = pte
      BY <1>8, <2>2 DEF CopyOut
    <3>2. /\ j.pid = job[p].pid /\ j.page = job[p].page
          /\ j.outPage = job[p].outPage /\ j.outPid = job[p].outPid
          /\ j.owner = ProcPid[getProc(job[p].outPid)]
      BY <1>0 DEF Job
    <3>3. j.outPid \in Live => j.owner = j.outPid
      BY <3>2 DEF Inv, AnswerInv, OwnSlots
    <3> HIDE DEF j
    <3> QED
      BY <3>1, <3>2, <3>3, OutStepSame DEF TakingOut, ToWrite
  <2> QED
    BY <2>1, <2>2
<1>9. CASE PageOut(p)
  <2> DEFINE e == pte[getProc(job[p].owner)][job[p].outPage]
             j == [job[p] EXCEPT !.block = e.diskBlock, !.ahead = Ahead(e.diskBlock)]
  <2>1. CASE \E why : Halt(why)
    BY <2>1, OutHalt
  <2>2. CASE ~ \E why : Halt(why)
    <3>1. Step(p, "pageout", "writing", j) /\ pte' = pte
      BY <1>9, <2>2 DEF PageOut, Transfer, Refuse
    <3>2. /\ j.pid = job[p].pid /\ j.page = job[p].page
          /\ j.outPage = job[p].outPage /\ j.outPid = job[p].outPid
      BY <1>0 DEF Job
    <3> HIDE DEF j
    <3> QED
      BY <3>1, <3>2, OutStepSame DEF TakingOut, ToWrite
  <2> QED
    BY <2>1, <2>2
<1>10. CASE PageIn(p)
  BY <1>10, OutHalt, OutIdle DEF PageIn, Transfer, Refuse, TakingOut
<1>11. CASE Fill(p)
  <2> DEFINE j  == [job[p] EXCEPT !.buffer = Zero]
             to == IF MustRead(job[p]) THEN "pagein" ELSE "mapin"
  <2>1. /\ Step(p, "fill", to, j) /\ pte' = pte /\ to \in {"pagein", "mapin"}
        /\ to = "pagein" => InEntry(job[p]).diskBlock # EMPTY
    BY <1>11 DEF Fill, MustRead
  <2>2. /\ j.pid = job[p].pid /\ j.page = job[p].page
        /\ j.outPage = job[p].outPage /\ j.outPid = job[p].outPid
    BY <1>0 DEF Job
  <2> HIDE DEF j, to
  <2> QED
    BY <2>1, <2>2, OutStepSame DEF TakingOut, ToWrite
<1>12. CASE CopyIn(p)
  BY <1>12, OutHalt, OutIdle DEF CopyIn, Answer, TakingOut
<1> QED
  BY <1>1, <1>2, <1>3, <1>4, <1>5, <1>6, <1>7, <1>8, <1>9, <1>10, <1>11, <1>12,
     OutUpdate, OutAllocate DEF Pager

LEMMA OutDiskDone ==
  ASSUME Inv, OnePager, OutInv, NEW p \in Pagers, DiskDone(p)
  PROVE  OutInv'
<1>1. PICK from, to, content :
        Transferred(p, from, to, content) /\ to \notin TakingOut \cup {"pagein"}
  BY DEF DiskDone, WriteDone, ReadDone, TakingOut
<1>2. Pagers = {p} /\ ppc'[p] = to
  BY <1>1 DEF OnePager, Transferred, Inv, TypeInv, TypeOK
<1>3. OutReady(p)' /\ InReady(p)'
  BY <1>1, <1>2 DEF OutReady, InReady
<1> QED
  BY <1>2, <1>3 DEF OutInv

LEMMA OutNext ==
  ASSUME OnePager
  PROVE  Inv /\ FrameInv /\ OutInv /\ [Next]_vars => OutInv'
<1> SUFFICES ASSUME Inv, FrameInv, OutInv, [Next]_vars PROVE OutInv'
  OBVIOUS
<1>1. CASE UNCHANGED vars
  <2>1. UNCHANGED <<ppc, job, pte>> /\ Live' = Live
    BY <1>1 DEF vars, Live
  <2> QED
    BY <2>1, OutQuiet
<1>2. ASSUME NEW x \in Process, p1_switch(x) PROVE OutInv'
  <2>1. UNCHANGED <<ppc, job, pte>> /\ Live' = Live
    BY <1>2 DEF p1_switch, Halt, Live
  <2> QED
    BY <2>1, OutQuiet
<1>3. ASSUME NEW u \in Users, Program(u) \/ Handler(u) PROVE OutInv'
  BY <1>3, UserLeaves, OutQuiet DEF Inv
<1> QED
  BY <1>1, <1>2, <1>3, OutFork, OutQuit, OutPager, OutDiskDone DEF Next

\* The process of a fault waits while the pager is at work on it: it is not switched to.
LEMMA CurNext == Inv /\ CurInv /\ [Next]_vars => CurInv'
<1> SUFFICES ASSUME Inv, CurInv, [Next]_vars PROVE CurInv'
  OBVIOUS
<1>1. CASE cur' \notin Users
  BY <1>1 DEF CurInv
<1>2. CASE UNCHANGED <<cur, ppc, job>>
  BY <1>2 DEF CurInv
<1>3. CASE UNCHANGED vars
  BY <1>2, <1>3 DEF vars
<1>4. ASSUME NEW x \in Process, p1_switch(x) PROVE CurInv'
  <2>1. CASE Halt("mappings")
    BY <1>2, <2>1 DEF Halt
  <2>2. CASE ~ Halt("mappings")
    <3>1. cur' = x /\ Schedulable(x) /\ UNCHANGED <<ppc, job>>
      BY <1>4, <2>2 DEF p1_switch
    <3>2. x \in Users => ~ (upc[x] = "wait" /\ sem[getProc(x)] = 0)
      BY <3>1 DEF Schedulable, Runnable
    <3>3. \A p \in Pagers : ppc[p] # "receive" =>
             LET u == job[p].pid IN upc[u] = "wait" /\ sem[getProc(u)] = 0
      BY ServedWaits
    <3> QED
      BY <3>1, <3>2, <3>3 DEF CurInv
  <2> QED
    BY <2>1, <2>2
<1>5. ASSUME NEW u \in Users, p1_fork(u) PROVE CurInv'
  BY <1>2, <1>5 DEF p1_fork
<1>6. ASSUME NEW u \in Users, p1_quit(u) PROVE CurInv'
  BY <1>1, <1>2, <1>6, ProcessAssumption DEF p1_quit, Halt, NOBODY
<1>7. ASSUME NEW u \in Users, Program(u) \/ Handler(u) PROVE CurInv'
  BY <1>2, <1>7, UserLeaves DEF Inv
<1>8. ASSUME NEW p \in Pagers, Pager(p) PROVE CurInv'
  BY <1>1, <1>8, PagerLeaves, ProcessAssumption
<1>9. ASSUME NEW p \in Pagers, DiskDone(p) PROVE CurInv'
  BY <1>1, <1>9, ProcessAssumption DEF DiskDone, WriteDone, ReadDone, Transferred, Running
<1> QED
  BY <1>3, <1>4, <1>5, <1>6, <1>7, <1>8, <1>9 DEF Next

MemoryInv == Inv /\ FrameInv /\ OutInv /\ CurInv

LEMMA MemoryInit == Init => OutInv /\ CurInv
  BY ProcessAssumption DEF Init, OutInv, OutReady, InReady, CurInv, TakingOut

LEMMA MemoryAlways ==
  ASSUME OnePager, UsersBelow
  PROVE  Spec => []MemoryInv
<1>1. Inv /\ FrameInv /\ OutInv /\ [Next]_vars => OutInv'
  BY OutNext
<1>2. Spec => [](Inv /\ FrameInv)
  BY FramesAlways
<1>3. MemoryInv <=> Inv /\ FrameInv /\ OutInv /\ CurInv
  BY DEF MemoryInv
<1> QED
  BY <1>1, <1>2, <1>3, MemoryInit, CurNext, PTL DEF Spec

\* What a running user reads through the MMU is the content of its page: the page is not
\* also on its way out of the frame or into it, whatever the pager was doing when the user
\* was given the processor (p1.c:121-161, phase5.c:488-598).
THEOREM ReadsAlwaysSeeContent ==
  ASSUME OnePager, UsersBelow
  PROVE  Spec => []ReadsSeeContent
<1>1. ASSUME MemoryInv PROVE ReadsSeeContent
  <2> SUFFICES ASSUME cur \in Users, NEW i \in Page, mmu[i] # EMPTY
               PROVE  ram[mmu[i]] = Content(cur, i)
    BY DEF ReadsSeeContent
  <2> DEFINE e == pte[getProc(cur)][i]
  <2>1. cur \in Live /\ mmu[i] = e.frame
    BY <1>1 DEF MemoryInv, Inv, TablesInv, MmuInv
  <2>2. e.frame # EMPTY /\ e.state = "INMEM"
    <3>1. getProc(cur) \in Slot
      BY UserSlot
    <3> QED
      BY <1>1, <2>1, <3>1 DEF MemoryInv, Inv, TablesInv, FramesInv
  <2>3. ASSUME NEW p \in Pagers PROVE ~ OutOf(p, cur, i)
    <3> SUFFICES ASSUME OutOf(p, cur, i) PROVE FALSE
      OBVIOUS
    <3>1. ppc[p] \in TakingOut /\ job[p].outPage = i /\ job[p].outPid = cur /\ i # EMPTY
      BY DEF OutOf, TakingOut, Page, EMPTY
    <3>2. OutReady(p)
      BY <1>1 DEF MemoryInv, OutInv
    <3> QED
      BY <2>1, <2>2, <3>1, <3>2 DEF OutReady, OutEntry
  <2>4. ASSUME NEW p \in Pagers PROVE ~ Into(p, cur, i)
    BY <1>1 DEF MemoryInv, CurInv, Into
  <2> QED
    BY <2>1, <2>2, <2>3, <2>4 DEF Content
<1>2. Spec => []MemoryInv
  BY MemoryAlways
<1> QED
  BY <1>1, <1>2, PTL
-----------------------------------------------------------------------------
(* What stops the machine.                                                   *)

\* The pager stops the machine only in front of the transfer of a page whose owner is dead.
LEMMA HaltingPager ==
  ASSUME PidsAreSlots, MemoryInv, NoMappingHalt', NEW p \in Pagers, Pager(p), halted' # "no"
  PROVE  HaltsNeedAQuit'
<1> USE DEF Step, At, Running
<1>1. ASSUME NEW why, Halt(why) PROVE why # "mappings"
  BY <1>1 DEF Halt, NoMappingHalt
<1>2. CASE \/ BlockOnMutex(p, "FramesMutex", {"select"})
           \/ BlockOnMutex(p, "vmStatsMutex", {"count", "pageout", "pagein"})
  BY <1>2 DEF BlockOnMutex
<1>3. CASE Receive(p)
  <2>1. Head(FaultsMbox) \in Users
    BY <1>3 DEF Receive, MemoryInv, Inv, TypeInv, TypeOK
  <2>2. ~ (Head(FaultsMbox) >= MAXPROC)
    <3>1. \A u \in Users : u \in Int /\ u < MAXPROC /\ MAXPROC \in Int
      BY ProcessAssumption DEF PidsAreSlots
    <3>2. \A u \in Users : ~ (u >= MAXPROC)
      BY <3>1
    <3> QED
      BY <2>1, <3>2
  <2> QED
    BY <1>3, <2>2 DEF Receive
<1>4. CASE GetNextFrame(p) \/ TakeVictim(p) \/ CountNew(p)
  BY <1>4 DEF GetNextFrame, TakeVictim, CountNew, Answer
<1>5. CASE UpdateTables(p) \/ CheckAccess(p) \/ FindBlock(p) \/ AllocateBlock(p)
  BY <1>5 DEF UpdateTables, CheckAccess, FindBlock, AllocateBlock, Answer
<1>6. CASE MapOut(p) \/ MapIn(p)
  BY <1>1, <1>6 DEF MapOut, MapIn, MmuMap
<1>7. CASE CopyOut(p) \/ CopyIn(p)
  BY <1>1, <1>7 DEF CopyOut, CopyIn, Answer
<1>8. CASE Fill(p)
  BY <1>8 DEF Fill
<1>9. CASE PageOut(p)
  <2> DEFINE o == job[p].outPid
  <2>1. ppc[p] = "pageout" /\ job[p].outPage # EMPTY
    BY <1>9 DEF PageOut, MemoryInv, Inv, TypeInv, AtWork
  <2>2. o \in Users /\ upc[o] # "unborn"
    BY <2>1 DEF MemoryInv, FrameInv, VictimOwnerInv, TakingOut
  <2>3. CASE o \in Live
    <3>1. OutReady(p)
      BY DEF MemoryInv, OutInv
    <3>2. /\ job[p].owner = o /\ o # EMPTY
          /\ pte[getProc(o)][job[p].outPage].diskBlock # EMPTY
          /\ pte[getProc(o)][job[p].outPage].state = "ONDISK"
      BY <2>1, <2>2, <2>3, <3>1, ProcessAssumption
      DEF OutReady, OutEntry, ToWrite, TakingOut, EMPTY
    <3> QED
      BY <1>9, <3>2 DEF PageOut, Transfer
  <2>4. CASE o \notin Live
    <3>1. upc[o] = "dead"
      BY <2>2, <2>4 DEF Live
    <3>2. UNCHANGED <<upc, ppc, job>>
      BY <1>9 DEF PageOut, Refuse, Transfer, Halt
    <3> QED
      BY <2>1, <2>2, <3>1, <3>2 DEF HaltsNeedAQuit
  <2> QED
    BY <2>3, <2>4
<1>10. CASE PageIn(p)
  <2>1. ppc[p] = "pagein"
    BY <1>10 DEF PageIn
  <2>2. InEntry(job[p]).diskBlock # EMPTY
    BY <2>1 DEF MemoryInv, OutInv, InReady
  <2>3. InEntry(job[p]).state = "INMEM"
    <3> DEFINE f == job[p].frame
    <3>1. f \in Frame /\ job[p].page \in Page /\ f # EMPTY /\ job[p].page # EMPTY
      BY DEF MemoryInv, Inv, TypeInv, TypeOK, Job, Frame, Page, EMPTY
    <3>2. FrameTable[f] = [page |-> job[p].page, pid |-> job[p].pid, locked |-> TRUE]
      BY <2>1, Zenon DEF MemoryInv, FrameInv, JobInv, Placing, TakingOut
    <3>3. FrameTable[f].page = job[p].page /\ FrameTable[f].pid = job[p].pid
      BY <3>2
    <3>4. pte[getProc(job[p].pid)][job[p].page].frame = f /\ getProc(job[p].pid) \in Slot
      BY <3>1, <3>3, FrameOwner DEF MemoryInv
    <3> QED
      BY <3>1, <3>4 DEF MemoryInv, Inv, TablesInv, FramesInv, InEntry
  <2> QED
    BY <1>10, <2>2, <2>3 DEF PageIn, Transfer
<1> QED
  BY <1>2, <1>3, <1>4, <1>5, <1>6, <1>7, <1>8, <1>9, <1>10 DEF Pager

LEMMA HaltingNext ==
  ASSUME PidsAreSlots
  PROVE  MemoryInv /\ MemoryInv' /\ HaltsNeedAQuit /\ [Next]_vars => HaltsNeedAQuit'
<1> SUFFICES ASSUME MemoryInv, MemoryInv', HaltsNeedAQuit, [Next]_vars PROVE HaltsNeedAQuit'
  OBVIOUS
<1>0. NoMappingHalt'
  BY DEF MemoryInv, Inv, TablesInv
<1>1. ASSUME NEW why, Halt(why) PROVE why # "mappings"
  BY <1>0, <1>1 DEF Halt, NoMappingHalt
<1>2. CASE halted' = "no"
  BY <1>2 DEF HaltsNeedAQuit
<1>3. CASE UNCHANGED vars
  BY <1>3 DEF vars, HaltsNeedAQuit
<1>4. ASSUME NEW x \in Process, p1_switch(x) PROVE HaltsNeedAQuit'
  BY <1>1, <1>2, <1>4 DEF p1_switch
<1>5. ASSUME NEW u \in Users, p1_fork(u) \/ p1_quit(u) PROVE HaltsNeedAQuit'
  BY <1>1, <1>2, <1>5 DEF p1_fork, p1_quit, Running
<1>6. ASSUME NEW u \in Users, Program(u) \/ Handler(u) PROVE HaltsNeedAQuit'
  <2>1. halted = "no"
    BY <1>6 DEF Program, Handler, Load, PageFault, Store, PrintStats, LockVmStats, CountFault,
                SendFault, Resume, LockFrames, UnlockFrame, PrintStatsDone, UserStep, Running
  <2> QED
    BY <1>2, <1>6, <2>1, UserLeaves DEF MemoryInv, Inv
<1>7. ASSUME NEW p \in Pagers, Pager(p) PROVE HaltsNeedAQuit'
  BY <1>0, <1>2, <1>7, HaltingPager
<1>8. ASSUME NEW p \in Pagers, DiskDone(p) PROVE HaltsNeedAQuit'
  BY <1>2, <1>8 DEF DiskDone, WriteDone, ReadDone, Transferred, Running
<1> QED
  BY <1>3, <1>4, <1>5, <1>6, <1>7, <1>8 DEF Next

\* With one pager and pids that are slot numbers the machine stops only when the pager is
\* about to write out a page of a process that has quit: no other check of the pager and of
\* the hooks fails (p1.c:71-90, p1.c:139-158, phase5.c:539-582, phase5utility.c:277-283).
THEOREM OnlyQuitsHalt ==
  ASSUME OnePager, UsersBelow, PidsAreSlots
  PROVE  Spec => []HaltsNeedAQuit
<1>1. Init => HaltsNeedAQuit
  BY DEF Init, HaltsNeedAQuit
<1>2. MemoryInv /\ MemoryInv' /\ HaltsNeedAQuit /\ [Next]_vars => HaltsNeedAQuit'
  BY HaltingNext
<1>3. Spec => []MemoryInv
  BY MemoryAlways
<1> QED
  BY <1>1, <1>2, <1>3, PTL DEF Spec
=============================================================================
