--------------------------- MODULE VmAnswerProofs ---------------------------
(***************************************************************************)
(* VirtualMemory for every value of the constants: type correctness, with  *)
(* the facts about the operators of SwapDisk that it rests on (those of    *)
(* the frame search are in ClockProofs), and one answer for every fault.   *)
(***************************************************************************)
EXTENDS VmProperties, ClockProofs, FiniteSetTheorems

-----------------------------------------------------------------------------
(* Arithmetic of slots.                                                      *)

LEMMA SlotRange == \A pid \in Int : getProc(pid) \in Slot
  BY ProcessAssumption DEF getProc, Slot

-----------------------------------------------------------------------------
(* The disk.                                                                 *)

\* What a read gives a page is a content of a page, whatever is on the disk.
LEMMA DiskReadType ==
  ASSUME NEW d \in Disk, NEW block \in Nat
  PROVE  DiskRead(d, block) \in PageData
<1> DEFINE first == SectorOf(ReadAddress(block), 0)
<1>1. CASE \A i \in Part : SectorOf(ReadAddress(block), i) \in Sectors
  <2>1. 0 \in Part
    BY GeometryAssumption DEF Part
  <2>2. first \in Sectors
    BY <1>1, <2>1
  <2>3. d[first][1] \in PageData
    BY <2>2 DEF Disk
  <2> QED
    BY <2>3 DEF DiskRead, PageData
<1>2. CASE ~ \A i \in Part : SectorOf(ReadAddress(block), i) \in Sectors
  BY <1>2 DEF DiskRead, PageData
<1> QED
  BY <1>1, <1>2

\* A write leaves the disk a disk, whatever sectors it reaches.
LEMMA DiskWriteType ==
  ASSUME NEW d \in Disk, NEW block \in Nat, NEW content \in PageData
  PROVE  DiskWrite(d, block, content) \in Disk
<1> DEFINE first == SectorOf(WriteAddress(block), 0)
           new(s) == IF s - first \in Part THEN <<content, s - first>> ELSE d[s]
<1>1. \A s \in Sectors : new(s) \in PageData \X Part
  BY DEF Disk
<1> HIDE DEF first
<1> QED
  BY <1>1 DEF DiskWrite, Disk, first

-----------------------------------------------------------------------------
(* Type correctness.                                                         *)

TypeInv == TypeOK /\ AtWork

LEMMA TypeInit == Init => TypeInv
  BY ProcessAssumption, NumFramesAssumption, GeometryAssumption
  DEF Init, TypeInv, TypeOK, AtWork, Process, UserPc, Slot, Page, PTE, UnusedPTE, EmptyTable,
      Entry, Frame, FaultMsg, NoFault, PagerPc, Job, NoJob, PageData, Disk, BlankDisk, Part

\* A process joins the queue of a mutex, or the first one leaves it.
LEMMA MutexType ==
  ASSUME TypeOK, NEW m \in Mutexes,
         (\E x \in Users \cup Pagers : lockMutex(m, x)) \/ unlockMutex(m)
  PROVE  mutex' \in [Mutexes -> Seq(Users \cup Pagers)]
<1>1. CASE \E x \in Users \cup Pagers : lockMutex(m, x)
  BY <1>1 DEF TypeOK, lockMutex
<1>2. CASE unlockMutex(m)
  BY <1>2 DEF TypeOK, unlockMutex
<1> QED
  BY <1>1, <1>2

\* The MMU and the page tables of a switch and of a quit.
LEMMA HookTypes ==
  ASSUME TypeOK
  PROVE  /\ EmptyTable \in [Page -> PTE]
         /\ NoFault \in FaultMsg
         /\ \A pid \in Int : Unloaded(pid) \in [Page -> Frame \cup {EMPTY}]
         /\ \A pid \in Int, map \in [Page -> Frame \cup {EMPTY}] :
                Loaded(map, pid) \in [Page -> Frame \cup {EMPTY}]
         /\ \A u \in Users : FramesCleared(u) \in [Frame -> Entry]
<1>1. EmptyTable \in [Page -> PTE]
  BY DEF EmptyTable, UnusedPTE, PTE
<1>2. NoFault \in FaultMsg
  BY ProcessAssumption, NumFramesAssumption DEF NoFault, FaultMsg, Page, Frame
<1>3. \A pid \in Int : Unloaded(pid) \in [Page -> Frame \cup {EMPTY}]
  BY DEF TypeOK, Unloaded
<1>4. \A pid \in Int, map \in [Page -> Frame \cup {EMPTY}] :
         Loaded(map, pid) \in [Page -> Frame \cup {EMPTY}]
  BY SlotRange DEF TypeOK, Loaded, PTE
<1>5. \A u \in Users : FramesCleared(u) \in [Frame -> Entry]
  BY DEF TypeOK, FramesCleared, Entry
<1> QED
  BY <1>1, <1>2, <1>3, <1>4, <1>5

\* The slot of a user.
LEMMA PidInt == \A pid \in Users \cup {EMPTY} : pid \in Int
<1>1. ASSUME NEW pid \in Users PROVE pid \in Int
  BY ProcessAssumption
<1>2. EMPTY \in Int
  BY DEF EMPTY
<1> QED
  BY <1>1, <1>2, Zenon

LEMMA UserSlot == \A u \in Users : getProc(u) \in Slot
  BY SlotRange, ProcessAssumption

\* A step that halts the machine changes nothing else.
LEMMA TypeHalt ==
  ASSUME TypeInv, NEW why \in {"mappings", "transfer", "faults", "process"}, Halt(why)
  PROVE  TypeInv'
BY DEF TypeInv, TypeOK, AtWork, Halt, memory, comm

LEMMA TypeSwitch ==
  ASSUME TypeInv, NEW x \in Process, p1_switch(x)
  PROVE  TypeInv'
<1> USE DEF TypeInv
<1>1. cur \in Int /\ x \in Int
  BY ProcessAssumption DEF TypeOK, Process, NOBODY
<1>2. Loaded(Unloaded(cur), x) \in [Page -> Frame \cup {EMPTY}]
  BY <1>1, HookTypes
<1>3. CASE Halt("mappings")
  BY <1>3, TypeHalt
<1> QED
  BY <1>2, <1>3 DEF TypeOK, AtWork, p1_switch, memory, comm

LEMMA TypeFork ==
  ASSUME TypeInv, NEW u \in Users, p1_fork(u)
  PROVE  TypeInv'
<1> USE DEF TypeInv
<1>1. ProcPid' \in [Slot -> Users \cup {EMPTY}] /\ sem' \in [Slot -> Int]
  BY UserSlot DEF TypeOK, p1_fork
<1>2. pte' \in [Slot -> [Page -> PTE]]
  BY HookTypes, UserSlot DEF TypeOK, p1_fork
<1> QED
  BY <1>1, <1>2 DEF TypeOK, AtWork, p1_fork, UserPc, memory

LEMMA TypeQuit ==
  ASSUME TypeInv, NEW u \in Users, p1_quit(u)
  PROVE  TypeInv'
<1> USE DEF TypeInv
<1>1. CASE ~ CanUnload(u)
  BY <1>1, TypeHalt DEF p1_quit
<1>2. CASE CanUnload(u)
  <2>0. /\ ProcPid' = [ProcPid EXCEPT ![getProc(u)] = EMPTY]
        /\ sem' = [sem EXCEPT ![getProc(u)] = 0]
        /\ offset' = [offset EXCEPT ![u] = 0]
        /\ faults' = [faults EXCEPT ![getProc(u)] = NoFault]
    BY <1>2, Zenon DEF p1_quit, Forget
  <2>1. ProcPid' \in [Slot -> Users \cup {EMPTY}] /\ sem' \in [Slot -> Int]
    BY <2>0, UserSlot DEF TypeOK
  <2>2. pte' \in [Slot -> [Page -> PTE]]
    BY <1>2, HookTypes, UserSlot DEF TypeOK, p1_quit
  <2>3. mmu' \in [Page -> Frame \cup {EMPTY}] /\ FrameTable' \in [Frame -> Entry]
    BY <1>2, HookTypes, ProcessAssumption DEF TypeOK, p1_quit
  <2>4. offset' \in [Users -> Page] /\ faults' \in [Slot -> FaultMsg]
    BY <2>0, HookTypes, UserSlot, ProcessAssumption DEF TypeOK, Page
  <2> QED
    BY <1>2, <2>1, <2>2, <2>3, <2>4 DEF TypeOK, AtWork, p1_quit, UserPc, NOBODY
<1> QED
  BY <1>1, <1>2

\* The steps of a user.
LEMMA TypeProgram ==
  ASSUME TypeInv, NEW u \in Users, Program(u)
  PROVE  TypeInv'
<1> USE DEF TypeInv, UserStep, UserPc, memory, comm
<1>1. ASSUME NEW i \in Page, Load(u, i) PROVE TypeInv'
  BY <1>1 DEF TypeOK, AtWork, Load
<1>2. ASSUME NEW i \in Page, PageFault(u, i) PROVE TypeInv'
  BY <1>2 DEF TypeOK, AtWork, PageFault
<1>3. ASSUME NEW i \in Page, NEW v \in Values, Store(u, i, v) PROVE TypeInv'
  BY <1>3 DEF TypeOK, AtWork, Store, PageData
<1>4. CASE PrintStats(u)
  <2>1. mutex' \in [Mutexes -> Seq(Users \cup Pagers)]
    BY <1>4, MutexType DEF PrintStats, Mutexes
  <2> QED
    BY <1>4, <2>1 DEF TypeOK, AtWork, PrintStats
<1> QED
  BY <1>1, <1>2, <1>3, <1>4 DEF Program

LEMMA TypeHandler ==
  ASSUME TypeInv, NEW u \in Users, Handler(u)
  PROVE  TypeInv'
<1> USE DEF TypeInv, UserStep, UserPc, memory, comm
<1>1. CASE LockVmStats(u) \/ LockFrames(u)
  <2>1. mutex' \in [Mutexes -> Seq(Users \cup Pagers)]
    BY <1>1, MutexType DEF LockVmStats, LockFrames, Mutexes
  <2> QED
    BY <1>1, <2>1 DEF TypeOK, AtWork, LockVmStats, LockFrames
<1>2. CASE CountFault(u) \/ PrintStatsDone(u)
  <2>1. mutex' \in [Mutexes -> Seq(Users \cup Pagers)]
    BY <1>2, MutexType DEF CountFault, PrintStatsDone, Mutexes
  <2> QED
    BY <1>2, <2>1 DEF TypeOK, AtWork, CountFault, PrintStatsDone
<1>3. CASE SendFault(u)
  <2>1. offset[u] \in Page /\ getProc(u) \in Slot
    BY UserSlot DEF TypeOK
  <2>2. faults' \in [Slot -> FaultMsg]
    BY <1>3, <2>1 DEF TypeOK, SendFault, FaultMsg
  <2>3. FaultsMbox' \in Seq(Users)
    BY <1>3 DEF TypeOK, SendFault, Posted
  <2> QED
    BY <1>3, <2>2, <2>3 DEF TypeOK, AtWork, SendFault
<1>4. CASE Resume(u)
  <2>1. sem' \in [Slot -> Int]
    BY <1>4, UserSlot DEF TypeOK, Resume
  <2>2. AfterFault(faults[getProc(u)]) \in UserPc
    BY DEF AfterFault
  <2> HIDE DEF UserPc
  <2> QED
    BY <1>4, <2>1, <2>2 DEF TypeOK, AtWork, Resume
<1>5. CASE UnlockFrame(u)
  <2>1. mutex' \in [Mutexes -> Seq(Users \cup Pagers)]
    BY <1>5, MutexType DEF UnlockFrame, Mutexes
  <2>2. offset' \in [Users -> Page] /\ faults' \in [Slot -> FaultMsg]
    BY <1>5, HookTypes, UserSlot, ProcessAssumption DEF TypeOK, UnlockFrame, Forget, Page
  <2>3. FrameTable' \in [Frame -> Entry]
    BY <1>5 DEF TypeOK, UnlockFrame, Unlocked, Entry
  <2> QED
    BY <1>5, <2>1, <2>2, <2>3 DEF TypeOK, AtWork, UnlockFrame
<1> QED
  BY <1>1, <1>2, <1>3, <1>4, <1>5 DEF Handler

\* The steps of a pager: first what most of them leave alone, and what they do to the
\* pager's place and local variables.
LEMMA TypeStep ==
  ASSUME TypeInv, NEW p \in Pagers, NEW from, NEW to \in PagerPc, NEW j \in Job,
         Step(p, from, to, j),
         to # "receive" => j.pid \in Users,
         to \in {"block", "alloc", "mapout", "copyout", "pageout", "writing"} =>
            j.outPage # EMPTY
  PROVE  /\ ppc' \in [Pagers -> PagerPc] /\ job' \in [Pagers -> Job]
         /\ AtWork'
BY DEF TypeInv, TypeOK, AtWork, Step

LEMMA NoJobType == NoJob \in Job
  BY ProcessAssumption, NumFramesAssumption DEF NoJob, Job, Page, Frame, PageData

\* A message stays a message when one of its two marks is set.
LEMMA MarkedMessage ==
  ASSUME NEW m \in FaultMsg
  PROVE  [m EXCEPT !.failed = TRUE] \in FaultMsg /\ [m EXCEPT !.shouldTerminate = TRUE] \in FaultMsg
BY DEF FaultMsg

LEMMA TypeAnswer ==
  ASSUME TypeInv, NEW p \in Pagers, NEW from \in PagerPc \ {"receive"}, NEW msg \in FaultMsg,
         Answer(p, from, msg)
  PROVE  /\ ppc' \in [Pagers -> PagerPc] /\ job' \in [Pagers -> Job] /\ AtWork'
         /\ faults' \in [Slot -> FaultMsg] /\ sem' \in [Slot -> Int]
<1>2. ppc' \in [Pagers -> PagerPc] /\ job' \in [Pagers -> Job] /\ AtWork'
  BY NoJobType, TypeStep DEF Answer, PagerPc
<1>3. job[p].pid \in Users
  BY DEF Answer, Step, At, TypeInv, AtWork
<1>4. faults' \in [Slot -> FaultMsg]
  BY <1>3 DEF Answer, TypeInv, TypeOK
<1>5. sem' \in [Slot -> Int]
  BY <1>3, UserSlot DEF Answer, semVProc, TypeInv, TypeOK
<1> QED
  BY <1>2, <1>4, <1>5

\* The two critical sections of a pager that are one step.
LEMMA CriticalType ==
  ASSUME TypeOK, NEW m \in Mutexes, NEW p, Critical(m, p)
  PROVE  mutex' \in [Mutexes -> Seq(Users \cup Pagers)]
BY MutexType DEF Critical, TypeOK

LEMMA TableUpdate ==
  ASSUME NEW tbl \in [Slot -> [Page -> PTE]], NEW s \in Slot, NEW i \in Page, NEW e \in PTE
  PROVE  [tbl EXCEPT ![s][i] = e] \in [Slot -> [Page -> PTE]]
OBVIOUS

\* A fault with its frame: from the mailbox to the update of the tables.
LEMMA TypeServe ==
  ASSUME TypeInv, NEW p \in Pagers,
         \/ BlockOnMutex(p, "FramesMutex", {"select"})
         \/ BlockOnMutex(p, "vmStatsMutex", {"count", "pageout", "pagein"})
         \/ Receive(p) \/ GetNextFrame(p) \/ TakeVictim(p) \/ CountNew(p) \/ UpdateTables(p)
  PROVE  TypeInv'
<1> USE DEF TypeInv, memory, comm
<1>0. job[p] \in Job /\ ppc[p] \in PagerPc
  BY DEF TypeOK
<1>1. CASE \/ BlockOnMutex(p, "FramesMutex", {"select"})
           \/ BlockOnMutex(p, "vmStatsMutex", {"count", "pageout", "pagein"})
  <2>1. mutex' \in [Mutexes -> Seq(Users \cup Pagers)]
    BY <1>1, MutexType DEF BlockOnMutex, Mutexes
  <2> QED
    BY <1>1, <2>1 DEF TypeOK, AtWork, BlockOnMutex
<1>2. CASE Receive(p)
  <2> DEFINE pid == Head(FaultsMbox)
             j   == [NoJob EXCEPT !.pid = pid, !.page = faults[pid].page,
                        !.exists = pte[getProc(pid)][faults[pid].page].state # "UNUSED"]
  <2>1. CASE pid >= MAXPROC
    BY <1>2, <2>1, TypeHalt DEF Receive
  <2>2. CASE ~ (pid >= MAXPROC)
    <3>1. pid \in Users /\ Tail(FaultsMbox) \in Seq(Users)
      BY <1>2 DEF TypeOK, Receive
    <3>5. Step(p, "receive", "select", j)
      BY <1>2, <2>2 DEF Receive
    <3> HIDE DEF pid
    <3>2. pid \in Slot
      <4>1. pid \in Nat /\ MAXPROC \in Nat
        BY <3>1, ProcessAssumption
      <4> QED
        BY <2>2, <4>1 DEF Slot
    <3>3. j \in Job
      <4>1. faults[pid].page \in Page
        BY <3>2 DEF TypeOK, FaultMsg
      <4>2. NoJob \in Job
        BY NoJobType
      <4> QED
        BY <3>1, <3>2, <4>1, <4>2 DEF Job
    <3>4. j.pid \in Users
      BY <3>1 DEF NoJob
    <3>6. ppc' \in [Pagers -> PagerPc] /\ job' \in [Pagers -> Job] /\ AtWork'
      BY <3>3, <3>4, <3>5, TypeStep DEF PagerPc
    <3> QED
      BY <1>2, <2>2, <3>1, <3>6 DEF TypeOK, Receive, Step, pid
  <2> QED
    BY <2>1, <2>2
<1>3. CASE GetNextFrame(p)
  <2> DEFINE c == NextFrame(FrameTable, ref, NextCheckedFrame)
  <2>0. c \in Choice
    BY NextFrameType DEF TypeOK
  <2>1. NextCheckedFrame' \in Frame /\ ref' \in [Frame -> BOOLEAN]
    BY <1>3, <2>0 DEF GetNextFrame, Choice
  <2>2. mutex' \in [Mutexes -> Seq(Users \cup Pagers)]
    BY <1>3, CriticalType DEF GetNextFrame, Mutexes
  <2>3. ppc[p] = "select" /\ job[p].pid \in Users /\ job[p].pid \in Slot
    BY <1>0, <1>3, ProcessAssumption DEF GetNextFrame, Answer, Step, At, AtWork, Job, NOBODY
  <2>4. CASE c.frame = EMPTY
    <3>0. faults[job[p].pid] \in FaultMsg
      BY <2>3 DEF TypeOK
    <3>1. [faults[job[p].pid] EXCEPT !.failed = TRUE] \in FaultMsg
      BY <3>0, MarkedMessage
    <3>2. Answer(p, "select", [faults[job[p].pid] EXCEPT !.failed = TRUE])
      BY <1>3, <2>4 DEF GetNextFrame
    <3>3. /\ ppc' \in [Pagers -> PagerPc] /\ job' \in [Pagers -> Job] /\ AtWork'
          /\ faults' \in [Slot -> FaultMsg] /\ sem' \in [Slot -> Int]
      BY <3>1, <3>2, TypeAnswer DEF PagerPc
    <3> QED
      BY <1>3, <2>1, <2>2, <3>2, <3>3 DEF TypeOK, GetNextFrame, Answer, Step
  <2>5. CASE c.frame # EMPTY
    <3>1. c.frame \in Frame
      BY <2>0, <2>5 DEF Choice
    <3>2. [job[p] EXCEPT !.frame = c.frame] \in Job
      BY <1>0, <3>1 DEF Job
    <3>3. Step(p, "select", "victim", [job[p] EXCEPT !.frame = c.frame])
      BY <1>3, <2>5 DEF GetNextFrame
    <3>4. ppc' \in [Pagers -> PagerPc] /\ job' \in [Pagers -> Job] /\ AtWork'
      BY <1>0, <2>3, <3>2, <3>3, TypeStep DEF PagerPc, Job
    <3>5. faults' = [faults EXCEPT ![job[p].pid].frame = c.frame]
      BY <1>3, <2>5 DEF GetNextFrame
    <3>6. faults' \in [Slot -> FaultMsg]
      BY <2>3, <3>1, <3>5 DEF TypeOK, FaultMsg
    <3> QED
      BY <1>3, <2>1, <2>2, <2>5, <3>3, <3>4, <3>6 DEF TypeOK, GetNextFrame, Step
  <2> QED
    BY <2>4, <2>5
<1>4. CASE TakeVictim(p)
  <2> DEFINE j == [job[p] EXCEPT !.outPage = FrameTable[job[p].frame].page,
                                 !.outPid = FrameTable[job[p].frame].pid]
             to == IF job[p].exists THEN "update" ELSE "count"
  <2>1. j \in Job /\ j.pid = job[p].pid
    BY <1>0 DEF TypeOK, Job, Entry
  <2>2. Step(p, "victim", to, j) /\ job[p].pid \in Users
    BY <1>4 DEF TakeVictim, Step, At, AtWork
  <2>3. to \in {"update", "count"}
    OBVIOUS
  <2> HIDE DEF j, to
  <2>4. ppc' \in [Pagers -> PagerPc] /\ job' \in [Pagers -> Job] /\ AtWork'
    BY <2>1, <2>2, <2>3, TypeStep DEF PagerPc
  <2> QED
    BY <1>4, <2>2, <2>4 DEF TypeOK, TakeVictim, Step
<1>5. CASE CountNew(p)
  <2>1. Step(p, "count", "update", job[p]) /\ job[p].pid \in Users
    BY <1>5 DEF CountNew, Step, At, AtWork
  <2>2. ppc' \in [Pagers -> PagerPc] /\ job' \in [Pagers -> Job] /\ AtWork'
    BY <1>0, <2>1, TypeStep DEF PagerPc
  <2>3. mutex' \in [Mutexes -> Seq(Users \cup Pagers)]
    BY <1>5, CriticalType DEF CountNew, Mutexes
  <2> QED
    BY <1>5, <2>1, <2>2, <2>3 DEF TypeOK, CountNew, Step
<1>6. CASE UpdateTables(p)
  <2>1. Step(p, "update", "access", job[p]) /\ job[p].pid \in Users
    BY <1>6 DEF UpdateTables, Step, At, AtWork
  <2>2. ppc' \in [Pagers -> PagerPc] /\ job' \in [Pagers -> Job] /\ AtWork'
    BY <1>0, <2>1, TypeStep DEF PagerPc
  <2>3. Evicted(pte, job[p]) \in [Slot -> [Page -> PTE]]
    <3>1. getProc(job[p].outPid) \in Slot
      <4>1. job[p].outPid \in Users \cup {EMPTY}
        BY <1>0 DEF Job
      <4>2. job[p].outPid \in Int
        BY <4>1, PidInt
      <4> QED
        BY <4>2, SlotRange
    <3>2. pte[getProc(job[p].outPid)] \in [Page -> PTE]
      BY <3>1 DEF TypeOK
    <3>3. CASE job[p].outPage = EMPTY
      BY <3>3 DEF TypeOK, Evicted
    <3>4. CASE job[p].outPage # EMPTY
      <4>1. job[p].outPage \in Page
        BY <1>0, <3>4 DEF Job
      <4>2. [pte[getProc(job[p].outPid)][job[p].outPage]
                EXCEPT !.state = "ONDISK", !.frame = EMPTY] \in PTE
        BY <3>2, <4>1 DEF PTE
      <4> QED
        BY <3>1, <3>4, <4>1, <4>2, TableUpdate DEF TypeOK, Evicted
    <3> QED
      BY <3>3, <3>4
  <2>4. Assigned(Evicted(pte, job[p]), job[p]) \in [Slot -> [Page -> PTE]]
    <3>1. getProc(job[p].pid) \in Slot /\ job[p].page \in Page /\ job[p].frame \in Frame
      BY <1>0, <2>1, UserSlot DEF Job
    <3> DEFINE tbl == Evicted(pte, job[p])
    <3>2. tbl[getProc(job[p].pid)][job[p].page] \in PTE
      BY <2>3, <3>1
    <3> HIDE DEF tbl
    <3>3. [tbl[getProc(job[p].pid)][job[p].page] EXCEPT !.state = "INMEM", !.frame = job[p].frame]
             \in PTE
      BY <3>1, <3>2 DEF PTE
    <3> QED
      BY <2>3, <3>1, <3>3, TableUpdate DEF Assigned, tbl
  <2>5. FrameTable' \in [Frame -> Entry]
    BY <1>0, <1>6, <2>1 DEF TypeOK, UpdateTables, Occupied, Job, Entry
  <2> QED
    BY <1>6, <2>1, <2>2, <2>4, <2>5 DEF TypeOK, UpdateTables, Step
<1> QED
  BY <1>1, <1>2, <1>3, <1>4, <1>5, <1>6

LEMMA OutSlot == \A j \in Job : getProc(j.outPid) \in Slot
  BY PidInt, SlotRange DEF Job

\* A mapping of the pager, and the start of a transfer, whichever page they are for.
LEMMA TypeMap ==
  ASSUME TypeInv, NEW p \in Pagers, NEW from \in PagerPc, NEW to \in {"copyout", "copyin"},
         NEW i, from # "receive", MmuMap(p, from, to, i),
         i \in Page, to = "copyout" => job[p].outPage # EMPTY
  PROVE  TypeInv'
<1> USE DEF TypeInv, memory, comm
<1>1. CASE mmu[i] # EMPTY
  BY <1>1, TypeHalt DEF MmuMap
<1>2. CASE mmu[i] = EMPTY
  <2>1. Step(p, from, to, job[p]) /\ job[p].pid \in Users /\ job[p] \in Job
    BY <1>2 DEF TypeOK, AtWork, MmuMap, At
  <2>2. ppc' \in [Pagers -> PagerPc] /\ job' \in [Pagers -> Job] /\ AtWork'
    BY <2>1, TypeStep DEF PagerPc
  <2>3. mmu' \in [Page -> Frame \cup {EMPTY}]
    <3>1. job[p].frame \in Frame
      BY <2>1 DEF Job
    <3>2. mmu' = [mmu EXCEPT ![i] = job[p].frame]
      BY <1>2 DEF MmuMap
    <3> QED
      BY <3>1, <3>2 DEF TypeOK
  <2> QED
    BY <1>2, <2>1, <2>2, <2>3 DEF TypeOK, MmuMap, Step
<1> QED
  BY <1>1, <1>2

LEMMA TypeTransfer ==
  ASSUME TypeInv, NEW p \in Pagers, NEW from \in PagerPc, NEW to \in {"writing", "reading"},
         NEW e \in PTE, NEW state, ppc[p] # "receive", Transfer(p, from, to, e, state),
         to = "writing" => job[p].outPage # EMPTY
  PROVE  TypeInv'
<1> USE DEF TypeInv, memory, comm
<1>1. CASE e.diskBlock = EMPTY \/ e.state # state
  BY <1>1, TypeHalt DEF Transfer, Refuse
<1>2. CASE ~ (e.diskBlock = EMPTY \/ e.state # state)
  <2> DEFINE j == [job[p] EXCEPT !.block = e.diskBlock, !.ahead = Ahead(e.diskBlock)]
  <2>1. job[p] \in Job /\ job[p].pid \in Users
    BY DEF TypeOK, AtWork
  <2>2. j \in Job /\ j.pid = job[p].pid /\ j.outPage = job[p].outPage
    BY <1>2, <2>1 DEF Job, PTE, Ahead
  <2>3. Step(p, from, to, j)
    BY <1>2 DEF Transfer
  <2> HIDE DEF j
  <2>4. ppc' \in [Pagers -> PagerPc] /\ job' \in [Pagers -> Job] /\ AtWork'
    BY <2>1, <2>2, <2>3, TypeStep DEF PagerPc
  <2>5. mutex' \in [Mutexes -> Seq(Users \cup Pagers)]
    BY <1>2, CriticalType DEF Transfer, Mutexes
  <2> QED
    BY <1>2, <2>3, <2>4, <2>5 DEF TypeOK, Transfer, Step
<1> QED
  BY <1>1, <1>2

\* The page that goes out: from the test of the DIRTY bit to its transfer.
LEMMA TypeOut ==
  ASSUME TypeInv, NEW p \in Pagers,
         CheckAccess(p) \/ FindBlock(p) \/ AllocateBlock(p) \/ MapOut(p) \/ CopyOut(p) \/ PageOut(p)
  PROVE  TypeInv'
<1> USE DEF TypeInv, memory, comm
<1>0. job[p] \in Job /\ ppc[p] \in PagerPc
  BY DEF TypeOK
<1>1. CASE CheckAccess(p)
  <2> DEFINE j == [job[p] EXCEPT !.accessRef = ref[job[p].frame]]
             to == IF MustWrite(job[p]) THEN "block" ELSE "fill"
  <2>1. j \in Job /\ j.pid = job[p].pid /\ j.outPage = job[p].outPage
    BY <1>0 DEF TypeOK, Job
  <2>2. to \in {"block", "fill"} /\ (to = "block" => job[p].outPage # EMPTY)
    BY DEF MustWrite
  <2>3. Step(p, "access", to, j) /\ job[p].pid \in Users
    BY <1>1 DEF CheckAccess, Step, At, AtWork
  <2> HIDE DEF j, to
  <2>4. ppc' \in [Pagers -> PagerPc] /\ job' \in [Pagers -> Job] /\ AtWork'
    BY <2>1, <2>2, <2>3, TypeStep DEF PagerPc
  <2> QED
    BY <1>1, <2>3, <2>4 DEF TypeOK, CheckAccess, Step
<1>2. CASE FindBlock(p)
  <2>1. ppc[p] = "block" /\ job[p].pid \in Users /\ job[p].pid \in Slot /\ job[p].outPage # EMPTY
    BY <1>0, <1>2, ProcessAssumption DEF FindBlock, At, AtWork, Job, NOBODY
  <2>2. CASE OutEntry(job[p]).diskBlock = EMPTY /\ NextBlock = DiskBlocks
    <3>0. faults[job[p].pid] \in FaultMsg
      BY <2>1 DEF TypeOK
    <3>1. [faults[job[p].pid] EXCEPT !.shouldTerminate = TRUE] \in FaultMsg
      BY <3>0, MarkedMessage
    <3>2. Answer(p, "block", [faults[job[p].pid] EXCEPT !.shouldTerminate = TRUE])
      BY <1>2, <2>2 DEF FindBlock
    <3>3. /\ ppc' \in [Pagers -> PagerPc] /\ job' \in [Pagers -> Job] /\ AtWork'
          /\ faults' \in [Slot -> FaultMsg] /\ sem' \in [Slot -> Int]
      BY <3>1, <3>2, TypeAnswer DEF PagerPc
    <3> QED
      BY <1>2, <3>2, <3>3 DEF TypeOK, FindBlock, Answer, Step
  <2>3. CASE ~ (OutEntry(job[p]).diskBlock = EMPTY /\ NextBlock = DiskBlocks)
    <3> DEFINE to == IF OutEntry(job[p]).diskBlock = EMPTY THEN "alloc" ELSE "mapout"
    <3>1. Step(p, "block", to, job[p]) /\ to \in {"alloc", "mapout"}
      BY <1>2, <2>3 DEF FindBlock
    <3> HIDE DEF to
    <3>2. ppc' \in [Pagers -> PagerPc] /\ job' \in [Pagers -> Job] /\ AtWork'
      BY <1>0, <2>1, <3>1, TypeStep DEF PagerPc
    <3> QED
      BY <1>2, <2>3, <3>1, <3>2 DEF TypeOK, FindBlock, Step
  <2> QED
    BY <2>2, <2>3
<1>3. CASE AllocateBlock(p)
  <2>1. Step(p, "alloc", "mapout", job[p]) /\ job[p].pid \in Users /\ job[p].outPage # EMPTY
    BY <1>3 DEF AllocateBlock, Step, At, AtWork
  <2>2. ppc' \in [Pagers -> PagerPc] /\ job' \in [Pagers -> Job] /\ AtWork'
    BY <1>0, <2>1, TypeStep DEF PagerPc
  <2>3. NextBlock' \in Nat
    BY <1>3 DEF TypeOK, AllocateBlock, BlockAfter
  <2>4. pte' \in [Slot -> [Page -> PTE]]
    <3>1. getProc(job[p].outPid) \in Slot /\ job[p].outPage \in Page
      BY <1>0, <2>1, OutSlot DEF Job
    <3>2. pte[getProc(job[p].outPid)][job[p].outPage] \in PTE /\ NextBlock \in Nat \cup {EMPTY}
      BY <3>1 DEF TypeOK
    <3>3. [pte[getProc(job[p].outPid)][job[p].outPage] EXCEPT !.diskBlock = NextBlock] \in PTE
      BY <3>2 DEF PTE
    <3> QED
      BY <1>3, <3>1, <3>3, TableUpdate DEF TypeOK, AllocateBlock
  <2> QED
    BY <1>3, <2>1, <2>2, <2>3, <2>4 DEF TypeOK, AllocateBlock, Step
<1>4. CASE MapOut(p)
  <2>1. ppc[p] = "mapout" /\ job[p].outPage # EMPTY /\ job[p].outPage \in Page
    BY <1>0, <1>4 DEF MapOut, MmuMap, At, AtWork, Job
  <2> QED
    BY <1>4, <2>1, TypeMap DEF MapOut, PagerPc
<1>5. CASE CopyOut(p)
  <2> DEFINE f == mmu[job[p].outPage]
             j == [job[p] EXCEPT !.buffer = ram[f], !.owner = ProcPid[getProc(job[p].outPid)]]
  <2>1. ppc[p] = "copyout" /\ job[p].pid \in Users /\ job[p].outPage \in Page
    BY <1>0, <1>5 DEF CopyOut, At, AtWork, Job
  <2>2. CASE f = EMPTY
    BY <1>5, <2>2, TypeHalt DEF CopyOut
  <2>3. CASE f # EMPTY
    <3>1. f \in Frame /\ getProc(job[p].outPid) \in Slot
      BY <1>0, <2>1, <2>3, OutSlot DEF TypeOK
    <3>2. j \in Job /\ j.pid = job[p].pid /\ j.outPage = job[p].outPage
      BY <1>0, <3>1 DEF TypeOK, Job
    <3>3. /\ Step(p, "copyout", "pageout", j)
          /\ ref' = [ref EXCEPT ![f] = TRUE] /\ mmu' = [mmu EXCEPT ![job[p].outPage] = EMPTY]
      BY <1>5, <2>3 DEF CopyOut
    <3>4. ref' \in [Frame -> BOOLEAN] /\ mmu' \in [Page -> Frame \cup {EMPTY}]
      BY <2>1, <3>1, <3>3 DEF TypeOK
    <3>5. j.outPage # EMPTY
      BY <1>5, <3>2 DEF CopyOut, At, AtWork
    <3> HIDE DEF j
    <3>6. ppc' \in [Pagers -> PagerPc] /\ job' \in [Pagers -> Job] /\ AtWork'
      BY <2>1, <3>2, <3>3, <3>5, TypeStep DEF PagerPc
    <3> QED
      BY <1>5, <2>3, <3>3, <3>4, <3>6 DEF TypeOK, CopyOut, Step
  <2> QED
    BY <2>2, <2>3
<1>6. CASE PageOut(p)
  <2>1. ppc[p] = "pageout" /\ job[p].outPage # EMPTY /\ job[p].outPage \in Page
    BY <1>0, <1>6 DEF PageOut, At, AtWork, Job
  <2>2. getProc(job[p].owner) \in Slot
    BY <1>0, PidInt, SlotRange DEF Job
  <2>3. pte[getProc(job[p].owner)][job[p].outPage] \in PTE
    BY <2>1, <2>2 DEF TypeOK
  <2>4. CASE job[p].owner = EMPTY
    BY <1>6, <2>4, TypeHalt DEF PageOut, Refuse
  <2>5. CASE job[p].owner # EMPTY
    BY <1>6, <2>1, <2>3, <2>5, TypeTransfer DEF PageOut, PagerPc
  <2> QED
    BY <2>4, <2>5
<1> QED
  BY <1>1, <1>2, <1>3, <1>4, <1>5, <1>6

\* The page that comes in: from the test for a copy on the disk to the answer.
LEMMA TypeIn ==
  ASSUME TypeInv, NEW p \in Pagers, Fill(p) \/ PageIn(p) \/ MapIn(p) \/ CopyIn(p)
  PROVE  TypeInv'
<1> USE DEF TypeInv, memory, comm
<1>0. job[p] \in Job /\ ppc[p] \in PagerPc
  BY DEF TypeOK
<1>1. CASE Fill(p)
  <2> DEFINE j  == [job[p] EXCEPT !.buffer = Zero]
             to == IF MustRead(job[p]) THEN "pagein" ELSE "mapin"
  <2>1. j \in Job /\ j.pid = job[p].pid
    BY <1>0 DEF Job, PageData
  <2>2. Step(p, "fill", to, j) /\ job[p].pid \in Users
    BY <1>1 DEF Fill, Step, At, AtWork
  <2>3. to \in {"pagein", "mapin"}
    OBVIOUS
  <2> HIDE DEF j, to
  <2>4. ppc' \in [Pagers -> PagerPc] /\ job' \in [Pagers -> Job] /\ AtWork'
    BY <2>1, <2>2, <2>3, TypeStep DEF PagerPc
  <2> QED
    BY <1>1, <2>2, <2>4 DEF TypeOK, Fill, Step
<1>2. CASE PageIn(p)
  <2>1. ppc[p] = "pagein" /\ job[p].pid \in Users
    BY <1>2 DEF PageIn, At, AtWork
  <2>2. InEntry(job[p]) \in PTE
    BY <1>0, <2>1, UserSlot DEF TypeOK, InEntry, Job
  <2> QED
    BY <1>2, <2>1, <2>2, TypeTransfer DEF PageIn, PagerPc
<1>3. CASE MapIn(p)
  <2>1. ppc[p] = "mapin" /\ job[p].page \in Page
    BY <1>0, <1>3 DEF MapIn, MmuMap, At, Job
  <2> QED
    BY <1>3, <2>1, TypeMap DEF MapIn, PagerPc
<1>4. CASE CopyIn(p)
  <2> DEFINE f == mmu[job[p].page]
  <2>1. ppc[p] = "copyin" /\ job[p].pid \in Users
    BY <1>4 DEF CopyIn, Answer, Step, At, AtWork
  <2>2. job[p].page \in Page /\ job[p].pid \in Slot /\ job[p].buffer \in PageData
    BY <1>0, <2>1, ProcessAssumption DEF Job, NOBODY
  <2>3. CASE f = EMPTY
    BY <1>4, <2>3, TypeHalt DEF CopyIn
  <2>4. CASE f # EMPTY
    <3>1. f \in Frame
      BY <2>2, <2>4 DEF TypeOK
    <3>2. Answer(p, "copyin", faults[job[p].pid])
      BY <1>4, <2>4 DEF CopyIn
    <3>3. faults[job[p].pid] \in FaultMsg
      BY <2>2 DEF TypeOK
    <3>4. /\ ppc' \in [Pagers -> PagerPc] /\ job' \in [Pagers -> Job] /\ AtWork'
          /\ faults' \in [Slot -> FaultMsg] /\ sem' \in [Slot -> Int]
      BY <3>2, <3>3, TypeAnswer DEF PagerPc
    <3>5. ram' \in [Frame -> PageData] /\ mmu' \in [Page -> Frame \cup {EMPTY}]
      BY <1>4, <2>2, <2>4, <3>1 DEF TypeOK, CopyIn
    <3>6. ref' \in [Frame -> BOOLEAN] /\ dirty' \in [Frame -> BOOLEAN]
      <4>1. job[p].accessRef \in BOOLEAN
        BY <1>0 DEF Job
      <4> QED
        BY <1>4, <2>4, <3>1, <4>1 DEF TypeOK, CopyIn
    <3> QED
      BY <1>4, <2>4, <3>2, <3>4, <3>5, <3>6 DEF TypeOK, CopyIn, Answer, Step
  <2> QED
    BY <2>3, <2>4
<1> QED
  BY <1>1, <1>2, <1>3, <1>4

LEMMA TypePager ==
  ASSUME TypeInv, NEW p \in Pagers, Pager(p)
  PROVE  TypeInv'
BY TypeServe, TypeOut, TypeIn DEF Pager

\* The end of a transfer.
LEMMA TypeTransferred ==
  ASSUME TypeInv, NEW p \in Pagers, NEW from \in {"writing", "reading"},
         NEW to \in {"fill", "mapin"}, NEW content \in PageData, Transferred(p, from, to, content),
         disk' \in Disk
  PROVE  TypeInv'
<1> USE DEF TypeInv, memory, comm
<1>1. ASSUME NEW q \in Pagers
      PROVE  /\ job'[q] \in Job
             /\ job'[q].pid = job[q].pid /\ job'[q].outPage = job[q].outPage
  <2>1. job[q] \in Job
    BY DEF TypeOK
  <2>2. job'[q] = [job[q] EXCEPT !.ahead = @ \ {p},
                                 !.buffer = IF q = p THEN content ELSE @]
    BY DEF Transferred
  <2>3. (IF q = p THEN content ELSE job[q].buffer) \in PageData
    BY <2>1 DEF Job
  <2> QED
    BY <2>1, <2>2, <2>3 DEF Job
<1>2. job' \in [Pagers -> Job]
  BY <1>1 DEF Transferred
<1>3. ppc' \in [Pagers -> PagerPc]
  BY DEF TypeOK, Transferred, PagerPc
<1>4. AtWork'
  BY <1>1 DEF TypeOK, AtWork, Transferred
<1> QED
  BY <1>2, <1>3, <1>4 DEF TypeOK, Transferred

LEMMA TypeDiskDone ==
  ASSUME TypeInv, NEW p \in Pagers, DiskDone(p)
  PROVE  TypeInv'
<1>0. job[p] \in Job /\ disk \in Disk
  BY DEF TypeInv, TypeOK
<1>1. job[p].block \in Nat /\ job[p].buffer \in PageData
  BY <1>0 DEF Job
<1>2. CASE WriteDone(p)
  BY <1>0, <1>1, <1>2, DiskWriteType, TypeTransferred DEF WriteDone
<1>3. CASE ReadDone(p)
  BY <1>0, <1>1, <1>3, DiskReadType, TypeTransferred DEF ReadDone
<1> QED
  BY <1>2, <1>3 DEF DiskDone

LEMMA TypeNext == TypeInv /\ [Next]_vars => TypeInv'
<1> SUFFICES ASSUME TypeInv, [Next]_vars PROVE TypeInv'
  OBVIOUS
<1>1. CASE UNCHANGED vars
  BY <1>1 DEF TypeInv, TypeOK, AtWork, vars, memory, comm
<1>2. CASE Next
  BY <1>2, TypeSwitch, TypeFork, TypeQuit, TypeProgram, TypeHandler, TypePager, TypeDiskDone
  DEF Next
<1> QED
  BY <1>1, <1>2

\* Every variable keeps its type: every index the code of phase5.c and p1.c uses to read or
\* write the process table, the frame table, the fault messages and the MMU is in range,
\* whatever the processes do, as long as the machine has not stopped at phase5.c:454.
THEOREM TypeCorrect == Spec => []TypeOK
<1>1. TypeInv => TypeOK
  BY DEF TypeInv
<1> QED
  BY <1>1, TypeInit, TypeNext, PTL DEF Spec

-----------------------------------------------------------------------------
(* One answer for every fault.                                               *)

InMail(u) == \E k \in 1 .. Len(FaultsMbox) : FaultsMbox[k] = u

\* Live processes are in slots of their own.
OwnSlots == \A u \in Live : ProcPid[getProc(u)] = u

\* The messages in the mailbox are of processes that wait, each once, and no pager is at
\* work on one of them.
MailInv ==
    /\ \A k \in 1 .. Len(FaultsMbox) : upc[FaultsMbox[k]] = "wait"
    /\ \A k, l \in 1 .. Len(FaultsMbox) : FaultsMbox[k] = FaultsMbox[l] => k = l
    /\ \A p \in Pagers : ~ InMail(Served(p))

\* A pager works for a process that waits, and no two for the same one.
ServedInv ==
    /\ \A p \in Pagers : Served(p) # NOBODY => upc[Served(p)] = "wait"
    /\ \A p, q \in Pagers : Served(p) # NOBODY /\ Served(p) = Served(q) => p = q

\* A count of a process's semaphore is its only answer.
SemInv ==
    \A u \in Live : /\ sem[getProc(u)] \in {0, 1}
                    /\ sem[getProc(u)] = 1 => /\ upc[u] = "wait" /\ ~ InMail(u)
                                              /\ \A p \in Pagers : Served(p) # u

\* A process that waits has an answer.
SomeAnswer ==
    \A u \in Users : upc[u] = "wait" =>
        \/ InMail(u)
        \/ \E p \in Pagers : Served(p) = u
        \/ sem[getProc(u)] = 1

AnswerInv == OwnSlots /\ MailInv /\ ServedInv /\ SemInv /\ SomeAnswer

-----------------------------------------------------------------------------
(* Facts the steps share.                                                    *)

LEMMA AnswerTypes ==
  ASSUME TypeInv
  PROVE  /\ \A k \in 1 .. Len(FaultsMbox) : FaultsMbox[k] \in Users
         /\ \A p \in Pagers : Served(p) \in Users \cup {NOBODY}
         /\ \A p \in Pagers : Served(p) # NOBODY <=> ppc[p] # "receive"
         /\ NOBODY \notin Users /\ EMPTY \notin Users
         /\ \A u \in Users : upc[u] = "wait" => u \in Live
         /\ Live \subseteq Users
<1>1. \A k \in 1 .. Len(FaultsMbox) : FaultsMbox[k] \in Users
  BY DEF TypeInv, TypeOK
<1>2. NOBODY \notin Users /\ EMPTY \notin Users
  BY ProcessAssumption DEF NOBODY, EMPTY
<1>3. \A p \in Pagers : ppc[p] # "receive" => job[p].pid \in Users
  BY DEF TypeInv, AtWork
<1> QED
  BY <1>1, <1>2, <1>3 DEF Served, Live

\* A step that concerns no answer: who waits, who lives, the semaphores, the mailbox and
\* what the pagers serve stay the same.
LEMMA AnswerFrame ==
  ASSUME TypeInv, AnswerInv,
         \A u \in Users : upc'[u] = "wait" <=> upc[u] = "wait",
         Live' = Live,
         ProcPid' = ProcPid, sem' = sem, FaultsMbox' = FaultsMbox,
         \A p \in Pagers : Served(p)' = Served(p)
  PROVE  AnswerInv'
<1>1. OwnSlots'
  BY DEF AnswerInv, OwnSlots
<1>2. \A u : InMail(u)' <=> InMail(u)
  BY DEF InMail
<1>3. MailInv'
  BY <1>2, AnswerTypes DEF AnswerInv, MailInv
<1>4. ServedInv'
  BY AnswerTypes DEF AnswerInv, ServedInv
<1>5. SemInv'
  BY <1>2, AnswerTypes DEF AnswerInv, SemInv
<1>6. SomeAnswer'
  BY <1>2, AnswerTypes DEF AnswerInv, SomeAnswer
<1> QED
  BY <1>1, <1>3, <1>4, <1>5, <1>6 DEF AnswerInv

\* A step that leaves all users where they are, and what the pagers serve.
LEMMA AnswerStutter ==
  ASSUME TypeInv, AnswerInv, UNCHANGED <<upc, ProcPid, sem, FaultsMbox>>,
         \A p \in Pagers : Served(p)' = Served(p)
  PROVE  AnswerInv'
<1>1. Live' = Live
  BY DEF Live
<1> QED
  BY <1>1, AnswerFrame

\* A step of a pager on the fault it serves.
LEMMA AnswerPagerStep ==
  ASSUME TypeInv, AnswerInv, NEW p \in Pagers, NEW from, NEW to, NEW j,
         Step(p, from, to, j), from # "receive", to # "receive", j.pid = job[p].pid,
         UNCHANGED <<sem, FaultsMbox>>
  PROVE  AnswerInv'
<1>1. \A q \in Pagers : Served(q)' = Served(q)
  BY DEF TypeInv, TypeOK, Step, At, Served
<1> QED
  BY <1>1, AnswerStutter DEF Step

LEMMA AnswerHalt ==
  ASSUME TypeInv, AnswerInv, NEW why, Halt(why)
  PROVE  AnswerInv'
<1>1. \A p \in Pagers : Served(p)' = Served(p)
  BY DEF Halt, Served
<1> QED
  BY <1>1, AnswerStutter DEF Halt, comm

\* A step of a user that neither sends a fault nor is woken.
LEMMA AnswerUserStep ==
  ASSUME TypeInv, AnswerInv, NEW u \in Users, NEW from, NEW to,
         UserStep(u, from, to), UNCHANGED <<sem, FaultsMbox>>,
         {from, to} \cap {"wait", "unborn", "dead"} = {}
  PROVE  AnswerInv'
<1>1. \A p \in Pagers : Served(p)' = Served(p)
  BY DEF UserStep, Served
<1>2. Live' = Live
  BY DEF TypeInv, TypeOK, UserStep, Live
<1>3. \A v \in Users : upc'[v] = "wait" <=> upc[v] = "wait"
  BY DEF TypeInv, TypeOK, UserStep
<1> QED
  BY <1>1, <1>2, <1>3, AnswerFrame DEF UserStep

-----------------------------------------------------------------------------
(* The steps that matter.                                                    *)

LEMMA AnswerFork ==
  ASSUME TypeInv, AnswerInv, NEW u \in Users, p1_fork(u)
  PROVE  AnswerInv'
<1> USE AnswerTypes, UserSlot
<1>1. /\ upc[u] = "unborn" /\ upc' = [upc EXCEPT ![u] = "user"]
      /\ ProcPid[getProc(u)] = EMPTY /\ ProcPid' = [ProcPid EXCEPT ![getProc(u)] = u]
      /\ sem' = [sem EXCEPT ![getProc(u)] = 0]
      /\ FaultsMbox' = FaultsMbox /\ ppc' = ppc /\ job' = job
  BY DEF p1_fork
<1>2. Live' = Live \cup {u} /\ u \notin Live
  BY <1>1 DEF TypeInv, TypeOK, Live
<1>3. \A v \in Live : getProc(v) # getProc(u)
  BY <1>1 DEF AnswerInv, OwnSlots
<1>4. \A v : InMail(v)' <=> InMail(v)
  BY <1>1 DEF InMail
<1>5. \A p \in Pagers : Served(p)' = Served(p)
  BY <1>1 DEF Served
<1>6. \A v \in Users : upc'[v] = "wait" <=> upc[v] = "wait"
  BY <1>1 DEF TypeInv, TypeOK
<1>7. OwnSlots'
  BY <1>1, <1>2, <1>3 DEF TypeInv, TypeOK, AnswerInv, OwnSlots
<1>8. MailInv'
  BY <1>1, <1>4, <1>5, <1>6 DEF AnswerInv, MailInv
<1>9. ServedInv'
  BY <1>5, <1>6 DEF AnswerInv, ServedInv
<1>10. SemInv'
  BY <1>1, <1>2, <1>3, <1>4, <1>5, <1>6 DEF TypeInv, TypeOK, AnswerInv, SemInv
<1>11. SomeAnswer'
  BY <1>1, <1>2, <1>3, <1>4, <1>5, <1>6 DEF TypeInv, TypeOK, AnswerInv, SomeAnswer
<1> QED
  BY <1>7, <1>8, <1>9, <1>10, <1>11 DEF AnswerInv

LEMMA AnswerQuit ==
  ASSUME TypeInv, AnswerInv, NEW u \in Users, p1_quit(u)
  PROVE  AnswerInv'
<1> USE AnswerTypes, UserSlot
<1>1. CASE ~ CanUnload(u)
  BY <1>1, AnswerHalt DEF p1_quit
<1>2. CASE CanUnload(u)
  <2>1. /\ upc[u] \in {"exit", "user"} /\ upc' = [upc EXCEPT ![u] = "dead"]
        /\ ProcPid' = [ProcPid EXCEPT ![getProc(u)] = EMPTY]
        /\ sem' = [sem EXCEPT ![getProc(u)] = 0]
        /\ FaultsMbox' = FaultsMbox /\ ppc' = ppc /\ job' = job
    BY <1>2 DEF p1_quit
  <2>2. Live' = Live \ {u} /\ u \in Live
    BY <2>1 DEF TypeInv, TypeOK, Live
  <2>3. \A v \in Live \ {u} : getProc(v) # getProc(u)
    BY <2>2 DEF AnswerInv, OwnSlots
  <2>4. \A v : InMail(v)' <=> InMail(v)
    BY <2>1 DEF InMail
  <2>5. \A p \in Pagers : Served(p)' = Served(p)
    BY <2>1 DEF Served
  <2>6. \A v \in Users : upc'[v] = "wait" <=> upc[v] = "wait"
    BY <2>1 DEF TypeInv, TypeOK
  <2>7. OwnSlots'
    BY <2>1, <2>2, <2>3 DEF TypeInv, TypeOK, AnswerInv, OwnSlots
  <2>8. MailInv'
    BY <2>1, <2>4, <2>5, <2>6 DEF AnswerInv, MailInv
  <2>9. ServedInv'
    BY <2>5, <2>6 DEF AnswerInv, ServedInv
  <2>10. SemInv'
    BY <2>1, <2>2, <2>3, <2>4, <2>5, <2>6 DEF TypeInv, TypeOK, AnswerInv, SemInv
  <2>11. SomeAnswer'
    BY <2>1, <2>2, <2>3, <2>4, <2>5, <2>6 DEF TypeInv, TypeOK, AnswerInv, SomeAnswer
  <2> QED
    BY <2>7, <2>8, <2>9, <2>10, <2>11 DEF AnswerInv
<1> QED
  BY <1>1, <1>2

LEMMA AnswerSend ==
  ASSUME TypeInv, AnswerInv, NEW u \in Users, SendFault(u)
  PROVE  AnswerInv'
<1> USE AnswerTypes, UserSlot
<1>1. /\ upc[u] = "send" /\ upc' = [upc EXCEPT ![u] = "wait"]
      /\ FaultsMbox' = Append(FaultsMbox, u) /\ FaultsMbox \in Seq(Users)
      /\ ProcPid' = ProcPid /\ sem' = sem /\ ppc' = ppc /\ job' = job
  BY DEF TypeInv, TypeOK, SendFault, UserStep, Posted
<1>2. Live' = Live /\ u \in Live
  BY <1>1 DEF TypeInv, TypeOK, Live
<1>3. /\ Len(FaultsMbox') = Len(FaultsMbox) + 1 /\ Len(FaultsMbox) \in Nat
      /\ \A k \in 1 .. Len(FaultsMbox) : FaultsMbox'[k] = FaultsMbox[k]
      /\ FaultsMbox'[Len(FaultsMbox) + 1] = u
  BY <1>1
<1>4. \A v : InMail(v)' <=> InMail(v) \/ v = u
  BY <1>3 DEF InMail
<1>5. \A p \in Pagers : Served(p)' = Served(p) /\ Served(p) # u
  BY <1>1 DEF Served, AnswerInv, ServedInv
<1>6. ~ InMail(u)
  BY <1>1 DEF InMail, AnswerInv, MailInv
<1>7. \A v \in Users : upc'[v] = "wait" <=> upc[v] = "wait" \/ v = u
  BY <1>1 DEF TypeInv, TypeOK
<1>8. OwnSlots'
  BY <1>1, <1>2 DEF AnswerInv, OwnSlots
<1>9. MailInv'
  <2>1. \A k \in 1 .. Len(FaultsMbox') : upc'[FaultsMbox'[k]] = "wait"
    BY <1>3, <1>7 DEF AnswerInv, MailInv
  <2>2. \A k, l \in 1 .. Len(FaultsMbox') : FaultsMbox'[k] = FaultsMbox'[l] => k = l
    BY <1>3, <1>6 DEF AnswerInv, MailInv, InMail
  <2>3. \A p \in Pagers : ~ InMail(Served(p))'
    BY <1>4, <1>5 DEF AnswerInv, MailInv, InMail
  <2> QED
    BY <2>1, <2>2, <2>3 DEF MailInv
<1>10. ServedInv'
  BY <1>5, <1>7 DEF AnswerInv, ServedInv
<1>11. SemInv'
  BY <1>1, <1>2, <1>4, <1>5, <1>7 DEF AnswerInv, SemInv
<1>12. SomeAnswer'
  BY <1>1, <1>4, <1>5, <1>7 DEF AnswerInv, SomeAnswer
<1> QED
  BY <1>8, <1>9, <1>10, <1>11, <1>12 DEF AnswerInv

LEMMA AnswerResume ==
  ASSUME TypeInv, AnswerInv, NEW u \in Users, Resume(u)
  PROVE  AnswerInv'
<1> USE AnswerTypes, UserSlot
<1> DEFINE to == AfterFault(faults[getProc(u)])
<1>1. /\ upc[u] = "wait" /\ upc' = [upc EXCEPT ![u] = to]
      /\ sem' = [sem EXCEPT ![getProc(u)] = @ - 1] /\ sem[getProc(u)] > 0
      /\ FaultsMbox' = FaultsMbox /\ ProcPid' = ProcPid /\ ppc' = ppc /\ job' = job
  BY DEF Resume, UserStep, Running, Schedulable, Runnable
<1>2. to \in {"exit", "send", "unlock"}
  BY DEF AfterFault
<1> HIDE DEF to
<1>3. Live' = Live /\ u \in Live
  BY <1>1, <1>2 DEF TypeInv, TypeOK, Live
<1>4. /\ sem[getProc(u)] = 1 /\ ~ InMail(u) /\ \A p \in Pagers : Served(p) # u
  BY <1>1, <1>3 DEF AnswerInv, SemInv
<1>5. \A v : InMail(v)' <=> InMail(v)
  BY <1>1 DEF InMail
<1>6. \A p \in Pagers : Served(p)' = Served(p)
  BY <1>1 DEF Served
<1>7. \A v \in Users : upc'[v] = "wait" <=> upc[v] = "wait" /\ v # u
  BY <1>1, <1>2 DEF TypeInv, TypeOK
<1>8. \A v \in Live \ {u} : getProc(v) # getProc(u)
  BY <1>3 DEF AnswerInv, OwnSlots
<1>9. OwnSlots'
  BY <1>1, <1>3 DEF AnswerInv, OwnSlots
<1>10. MailInv'
  BY <1>1, <1>4, <1>5, <1>6, <1>7 DEF AnswerInv, MailInv, InMail
<1>11. ServedInv'
  BY <1>4, <1>6, <1>7 DEF AnswerInv, ServedInv
<1>12. SemInv'
  <2>1. sem'[getProc(u)] = 0
    BY <1>1, <1>4 DEF TypeInv, TypeOK
  <2>2. \A v \in Live \ {u} : sem'[getProc(v)] = sem[getProc(v)]
    BY <1>1, <1>8 DEF TypeInv, TypeOK
  <2> QED
    BY <1>3, <1>5, <1>6, <1>7, <2>1, <2>2 DEF AnswerInv, SemInv
<1>13. SomeAnswer'
  BY <1>1, <1>5, <1>6, <1>7, <1>8 DEF TypeInv, TypeOK, AnswerInv, SomeAnswer
<1> QED
  BY <1>9, <1>10, <1>11, <1>12, <1>13 DEF AnswerInv

LEMMA AnswerReceive ==
  ASSUME TypeInv, AnswerInv, NEW p \in Pagers, Receive(p)
  PROVE  AnswerInv'
<1> USE AnswerTypes
<1>0. PICK u : u = Head(FaultsMbox)
  OBVIOUS
<1>1. CASE u >= MAXPROC
  BY <1>0, <1>1, AnswerHalt DEF Receive
<1>2. CASE ~ (u >= MAXPROC)
  <2> DEFINE j == [NoJob EXCEPT !.pid = u, !.page = faults[u].page,
                      !.exists = pte[getProc(u)][faults[u].page].state # "UNUSED"]
  <2>0. Step(p, "receive", "select", j)
    BY <1>0, <1>2 DEF Receive
  <2>j. j.pid = u
    BY DEF NoJob
  <2> HIDE DEF j
  <2>1. /\ FaultsMbox # <<>> /\ FaultsMbox \in Seq(Users) /\ FaultsMbox' = Tail(FaultsMbox)
        /\ upc' = upc /\ ProcPid' = ProcPid /\ sem' = sem
        /\ ppc[p] = "receive" /\ ppc' = [ppc EXCEPT ![p] = "select"]
        /\ job' = [job EXCEPT ![p] = j]
    BY <1>0, <1>2, <2>0 DEF TypeInv, TypeOK, Receive, Step, At
  <2>2. /\ Len(FaultsMbox) \in Nat \ {0} /\ Len(FaultsMbox') = Len(FaultsMbox) - 1
        /\ \A k \in 1 .. Len(FaultsMbox') : FaultsMbox'[k] = FaultsMbox[k + 1]
        /\ u = FaultsMbox[1] /\ u \in Users
    BY <1>0, <2>1
  <2>3. InMail(u) /\ upc[u] = "wait"
    BY <2>2 DEF InMail, AnswerInv, MailInv
  <2>4. \A v : InMail(v)' <=> InMail(v) /\ v # u
    <3>1. \A k \in 1 .. Len(FaultsMbox') : k + 1 \in 1 .. Len(FaultsMbox) /\ k + 1 # 1
      BY <2>2
    <3>2. \A v : InMail(v)' => InMail(v) /\ v # u
      BY <2>2, <3>1 DEF InMail, AnswerInv, MailInv
    <3>3. \A v : InMail(v) /\ v # u => InMail(v)'
      <4> SUFFICES ASSUME NEW v, NEW k \in 1 .. Len(FaultsMbox), FaultsMbox[k] = v, v # u
                   PROVE  InMail(v)'
        BY DEF InMail
      <4>1. k - 1 \in 1 .. Len(FaultsMbox')
        BY <2>2
      <4>2. FaultsMbox'[k - 1] = v
        BY <2>2, <4>1
      <4> QED
        BY <4>1, <4>2 DEF InMail
    <3> QED
      BY <3>2, <3>3
  <2>5. Served(p)' = u /\ Served(p) = NOBODY /\ \A q \in Pagers \ {p} : Served(q)' = Served(q)
    BY <2>1, <2>j DEF TypeInv, TypeOK, Served
  <2>6. \A q \in Pagers : Served(q) # u
    BY <2>3 DEF AnswerInv, MailInv
  <2>7. Live' = Live
    BY <2>1 DEF Live
  <2>8. OwnSlots'
    BY <2>1, <2>7 DEF AnswerInv, OwnSlots
  <2>9. MailInv'
    <3>1. \A k \in 1 .. Len(FaultsMbox') : upc'[FaultsMbox'[k]] = "wait"
      BY <2>1, <2>2 DEF AnswerInv, MailInv
    <3>2. \A k, l \in 1 .. Len(FaultsMbox') : FaultsMbox'[k] = FaultsMbox'[l] => k = l
      BY <2>2 DEF AnswerInv, MailInv
    <3>3. \A q \in Pagers : ~ InMail(Served(q))'
      <4>1. ~ InMail(Served(p))'
        <5>1. Served(p)' = u /\ ~ InMail(u)'
          BY <2>4, <2>5
        <5> QED
          BY <5>1 DEF InMail
      <4>2. ASSUME NEW q \in Pagers \ {p} PROVE ~ InMail(Served(q))'
        <5>1. Served(q)' = Served(q) /\ ~ InMail(Served(q))
          BY <2>5 DEF AnswerInv, MailInv
        <5> QED
          BY <2>4, <5>1 DEF InMail
      <4> QED
        BY <4>1, <4>2
    <3> QED
      BY <3>1, <3>2, <3>3 DEF MailInv
  <2>10. ServedInv'
    BY <2>1, <2>3, <2>5, <2>6 DEF AnswerInv, ServedInv
  <2>11. SemInv'
    BY <2>1, <2>3, <2>4, <2>5, <2>7 DEF AnswerInv, SemInv
  <2>12. SomeAnswer'
    BY <2>1, <2>4, <2>5 DEF AnswerInv, SomeAnswer
  <2> QED
    BY <2>8, <2>9, <2>10, <2>11, <2>12 DEF AnswerInv
<1> QED
  BY <1>1, <1>2

LEMMA AnswerAnswer ==
  ASSUME TypeInv, AnswerInv, NEW p \in Pagers, NEW from, NEW msg,
         from # "receive", Answer(p, from, msg)
  PROVE  AnswerInv'
<1> USE AnswerTypes, UserSlot
<1> DEFINE u == job[p].pid
<1>1. /\ ppc[p] = from /\ ppc' = [ppc EXCEPT ![p] = "receive"]
      /\ job' = [job EXCEPT ![p] = NoJob]
      /\ upc' = upc /\ ProcPid' = ProcPid /\ FaultsMbox' = FaultsMbox
      /\ sem' = [sem EXCEPT ![getProc(u)] = @ + 1]
  BY DEF Answer, Step, At, semVProc
<1>2. Served(p) = u /\ u \in Users /\ upc[u] = "wait" /\ u \in Live
  BY <1>1 DEF Served, AnswerInv, ServedInv
<1> HIDE DEF u
<1>3. Served(p)' = NOBODY /\ \A q \in Pagers \ {p} : Served(q)' = Served(q) /\ Served(q) # u
  BY <1>1, <1>2 DEF TypeInv, TypeOK, Served, AnswerInv, ServedInv
<1>4. sem[getProc(u)] = 0 /\ ~ InMail(u)
  BY <1>2 DEF AnswerInv, SemInv, MailInv
<1>5. \A v : InMail(v)' <=> InMail(v)
  BY <1>1 DEF InMail
<1>6. Live' = Live
  BY <1>1 DEF Live
<1>7. \A v \in Live \ {u} : getProc(v) # getProc(u)
  BY <1>2 DEF AnswerInv, OwnSlots
<1>8. sem'[getProc(u)] = 1
  BY <1>1, <1>2, <1>4 DEF TypeInv, TypeOK
<1>9. \A v \in Live \ {u} : sem'[getProc(v)] = sem[getProc(v)]
  BY <1>1, <1>7 DEF TypeInv, TypeOK
<1>10. OwnSlots'
  BY <1>1, <1>6 DEF AnswerInv, OwnSlots
<1>11. MailInv'
  BY <1>1, <1>3, <1>5 DEF AnswerInv, MailInv, InMail
<1>12. ServedInv'
  BY <1>1, <1>3 DEF AnswerInv, ServedInv
<1>13. SemInv'
  BY <1>1, <1>2, <1>3, <1>4, <1>5, <1>6, <1>8, <1>9 DEF AnswerInv, SemInv
<1>14. SomeAnswer'
  BY <1>1, <1>2, <1>3, <1>5, <1>8, <1>9 DEF AnswerInv, SomeAnswer
<1> QED
  BY <1>10, <1>11, <1>12, <1>13, <1>14 DEF AnswerInv
-----------------------------------------------------------------------------
(* The invariant.                                                            *)

LEMMA AnswerInit == Init => AnswerInv
<1> SUFFICES ASSUME Init PROVE AnswerInv
  OBVIOUS
<1>1. \A u \in Users : upc[u] = "unborn"
  BY DEF Init
<1>2. Live = {}
  BY <1>1 DEF Live
<1>3. \A v : ~ InMail(v)
  BY DEF Init, InMail
<1>4. \A p \in Pagers : Served(p) = NOBODY
  BY DEF Init, Served
<1>5. OwnSlots /\ SemInv
  BY <1>2 DEF OwnSlots, SemInv
<1>6. MailInv
  BY <1>3 DEF MailInv, Init
<1>7. ServedInv /\ SomeAnswer
  BY <1>1, <1>4 DEF ServedInv, SomeAnswer
<1> QED
  BY <1>5, <1>6, <1>7 DEF AnswerInv

LEMMA AnswerUser ==
  ASSUME TypeInv, AnswerInv, NEW u \in Users, Program(u) \/ Handler(u)
  PROVE  AnswerInv'
<1> USE DEF comm
<1>1. ASSUME NEW i \in Page, Load(u, i) PROVE AnswerInv'
  BY <1>1, AnswerUserStep DEF Load
<1>2. ASSUME NEW i \in Page, PageFault(u, i) PROVE AnswerInv'
  BY <1>2, AnswerUserStep DEF PageFault
<1>3. ASSUME NEW i \in Page, NEW v \in Values, Store(u, i, v) PROVE AnswerInv'
  BY <1>3, AnswerUserStep DEF Store
<1>4. CASE PrintStats(u)
  BY <1>4, AnswerUserStep DEF PrintStats
<1>5. CASE PrintStatsDone(u)
  BY <1>5, AnswerUserStep DEF PrintStatsDone
<1>6. CASE LockVmStats(u)
  BY <1>6, AnswerUserStep DEF LockVmStats
<1>7. CASE CountFault(u)
  BY <1>7, AnswerUserStep DEF CountFault
<1>8. CASE LockFrames(u)
  BY <1>8, AnswerUserStep DEF LockFrames
<1>9. CASE UnlockFrame(u)
  BY <1>9, AnswerUserStep DEF UnlockFrame
<1> QED
  BY <1>1, <1>2, <1>3, <1>4, <1>5, <1>6, <1>7, <1>8, <1>9, AnswerSend, AnswerResume
  DEF Program, Handler

\* A transfer of a pager begins, or the machine stops.
LEMMA AnswerTransfer ==
  ASSUME TypeInv, AnswerInv, NEW p \in Pagers, NEW from, NEW to, NEW e, NEW state,
         Transfer(p, from, to, e, state), from # "receive", to # "receive"
  PROVE  AnswerInv'
<1> DEFINE j == [job[p] EXCEPT !.block = e.diskBlock, !.ahead = Ahead(e.diskBlock)]
<1>1. CASE e.diskBlock = EMPTY \/ e.state # state
  BY <1>1, AnswerHalt DEF Transfer, Refuse
<1>2. CASE ~ (e.diskBlock = EMPTY \/ e.state # state)
  <2>1. Step(p, from, to, j) /\ UNCHANGED comm
    BY <1>2 DEF Transfer
  <2>2. j.pid = job[p].pid
    BY DEF TypeInv, TypeOK, Job
  <2> HIDE DEF j
  <2> QED
    BY <2>1, <2>2, AnswerPagerStep DEF comm
<1> QED
  BY <1>1, <1>2

LEMMA AnswerMap ==
  ASSUME TypeInv, AnswerInv, NEW p \in Pagers, NEW from, NEW to, NEW i,
         MmuMap(p, from, to, i), from # "receive", to # "receive"
  PROVE  AnswerInv'
BY AnswerHalt, AnswerPagerStep DEF MmuMap, comm

LEMMA AnswerPager ==
  ASSUME TypeInv, AnswerInv, NEW p \in Pagers, Pager(p)
  PROVE  AnswerInv'
<1> USE DEF comm
<1>0. job[p] \in Job
  BY DEF TypeInv, TypeOK
<1>1. ASSUME NEW m, NEW pcs, BlockOnMutex(p, m, pcs) PROVE AnswerInv'
  <2>1. \A q \in Pagers : Served(q)' = Served(q)
    BY <1>1 DEF BlockOnMutex, Served
  <2> QED
    BY <1>1, <2>1, AnswerStutter DEF BlockOnMutex
<1>2. CASE GetNextFrame(p)
  <2> DEFINE c == NextFrame(FrameTable, ref, NextCheckedFrame)
             j == [job[p] EXCEPT !.frame = c.frame]
  <2>1. CASE c.frame = EMPTY
    BY <1>2, <2>1, AnswerAnswer DEF GetNextFrame
  <2>2. CASE c.frame # EMPTY
    <3>1. Step(p, "select", "victim", j) /\ UNCHANGED <<sem, FaultsMbox>>
      BY <1>2, <2>2 DEF GetNextFrame
    <3>2. j.pid = job[p].pid
      BY <1>0 DEF Job
    <3> HIDE DEF j
    <3> QED
      BY <3>1, <3>2, AnswerPagerStep
  <2> QED
    BY <2>1, <2>2
<1>3. CASE TakeVictim(p)
  <2> DEFINE j == [job[p] EXCEPT !.outPage = FrameTable[job[p].frame].page,
                                 !.outPid = FrameTable[job[p].frame].pid]
             to == IF job[p].exists THEN "update" ELSE "count"
  <2>1. Step(p, "victim", to, j) /\ UNCHANGED comm
    BY <1>3 DEF TakeVictim
  <2>2. j.pid = job[p].pid /\ to # "receive"
    BY <1>0 DEF Job
  <2> HIDE DEF j, to
  <2> QED
    BY <2>1, <2>2, AnswerPagerStep
<1>4. CASE CountNew(p)
  BY <1>4, AnswerPagerStep DEF CountNew
<1>5. CASE UpdateTables(p)
  BY <1>5, AnswerPagerStep DEF UpdateTables
<1>6. CASE CheckAccess(p)
  <2> DEFINE j == [job[p] EXCEPT !.accessRef = ref[job[p].frame]]
             to == IF MustWrite(job[p]) THEN "block" ELSE "fill"
  <2>1. Step(p, "access", to, j) /\ UNCHANGED comm
    BY <1>6 DEF CheckAccess
  <2>2. j.pid = job[p].pid /\ to # "receive"
    BY <1>0 DEF Job
  <2> HIDE DEF j, to
  <2> QED
    BY <2>1, <2>2, AnswerPagerStep
<1>7. CASE FindBlock(p)
  <2> DEFINE to == IF OutEntry(job[p]).diskBlock = EMPTY THEN "alloc" ELSE "mapout"
  <2>1. CASE OutEntry(job[p]).diskBlock = EMPTY /\ NextBlock = DiskBlocks
    BY <1>7, <2>1, AnswerAnswer DEF FindBlock
  <2>2. CASE ~ (OutEntry(job[p]).diskBlock = EMPTY /\ NextBlock = DiskBlocks)
    <3>1. Step(p, "block", to, job[p]) /\ UNCHANGED comm /\ to # "receive"
      BY <1>7, <2>2 DEF FindBlock
    <3> HIDE DEF to
    <3> QED
      BY <3>1, AnswerPagerStep
  <2> QED
    BY <2>1, <2>2
<1>8. CASE AllocateBlock(p)
  BY <1>8, AnswerPagerStep DEF AllocateBlock
<1>9. CASE MapOut(p) \/ MapIn(p)
  BY <1>9, AnswerMap DEF MapOut, MapIn
<1>10. CASE CopyOut(p)
  <2> DEFINE f == mmu[job[p].outPage]
             j == [job[p] EXCEPT !.buffer = ram[f], !.owner = ProcPid[getProc(job[p].outPid)]]
  <2>1. CASE f = EMPTY
    BY <1>10, <2>1, AnswerHalt DEF CopyOut
  <2>2. CASE f # EMPTY
    <3>1. Step(p, "copyout", "pageout", j) /\ UNCHANGED comm
      BY <1>10, <2>2 DEF CopyOut
    <3>2. j.pid = job[p].pid
      BY <1>0 DEF Job
    <3> HIDE DEF j
    <3> QED
      BY <3>1, <3>2, AnswerPagerStep
  <2> QED
    BY <2>1, <2>2
<1>11. CASE PageOut(p)
  BY <1>11, AnswerHalt, AnswerTransfer DEF PageOut, Refuse
<1>12. CASE PageIn(p)
  BY <1>12, AnswerTransfer DEF PageIn
<1>13. CASE Fill(p)
  <2> DEFINE j  == [job[p] EXCEPT !.buffer = Zero]
             to == IF MustRead(job[p]) THEN "pagein" ELSE "mapin"
  <2>1. Step(p, "fill", to, j) /\ UNCHANGED comm
    BY <1>13 DEF Fill
  <2>2. j.pid = job[p].pid /\ to # "receive"
    BY <1>0 DEF Job
  <2> HIDE DEF j, to
  <2> QED
    BY <2>1, <2>2, AnswerPagerStep
<1>14. CASE CopyIn(p)
  BY <1>14, AnswerHalt, AnswerAnswer DEF CopyIn
<1> QED
  BY <1>1, <1>2, <1>3, <1>4, <1>5, <1>6, <1>7, <1>8, <1>9, <1>10, <1>11, <1>12, <1>13,
     <1>14, AnswerReceive DEF Pager

LEMMA AnswerDiskDone ==
  ASSUME TypeInv, AnswerInv, NEW p \in Pagers, DiskDone(p)
  PROVE  AnswerInv'
<1>1. ASSUME NEW from, NEW to, NEW content, Transferred(p, from, to, content),
             from # "receive", to # "receive"
      PROVE  AnswerInv'
  <2>1. \A q \in Pagers : job'[q].pid = job[q].pid
    BY <1>1 DEF TypeInv, TypeOK, Job, Transferred
  <2>2. \A q \in Pagers : ppc'[q] = "receive" <=> ppc[q] = "receive"
    BY <1>1 DEF TypeInv, TypeOK, Transferred
  <2>3. \A q \in Pagers : Served(q)' = Served(q)
    BY <2>1, <2>2 DEF Served
  <2> QED
    BY <1>1, <2>3, AnswerStutter DEF Transferred, comm
<1> QED
  BY <1>1 DEF DiskDone, WriteDone, ReadDone

LEMMA AnswerNext == TypeInv /\ AnswerInv /\ [Next]_vars => AnswerInv'
<1> SUFFICES ASSUME TypeInv, AnswerInv, [Next]_vars PROVE AnswerInv'
  OBVIOUS
<1>1. CASE UNCHANGED vars
  <2>1. \A p \in Pagers : Served(p)' = Served(p)
    BY <1>1 DEF vars, Served
  <2> QED
    BY <1>1, <2>1, AnswerStutter DEF vars, comm
<1>2. ASSUME NEW x \in Process, p1_switch(x) PROVE AnswerInv'
  <2>1. CASE Halt("mappings")
    BY <2>1, AnswerHalt
  <2>2. CASE ~ Halt("mappings")
    <3>1. UNCHANGED <<upc, ProcPid, comm, ppc, job>>
      BY <1>2, <2>2 DEF p1_switch
    <3>2. \A p \in Pagers : Served(p)' = Served(p)
      BY <3>1 DEF Served
    <3> QED
      BY <3>1, <3>2, AnswerStutter DEF comm
  <2> QED
    BY <2>1, <2>2
<1> QED
  BY <1>1, <1>2, AnswerFork, AnswerQuit, AnswerUser, AnswerPager, AnswerDiskDone DEF Next

-----------------------------------------------------------------------------
(* From the invariant to the count of the answers.                           *)

LEMMA AnswerCount == TypeInv /\ AnswerInv => OneAnswerPerFault
<1> SUFFICES ASSUME TypeInv, AnswerInv, NEW u \in Users
             PROVE  Answers(u) = IF upc[u] = "wait" THEN 1 ELSE 0
  BY DEF OneAnswerPerFault
<1> USE AnswerTypes
<1> DEFINE mails  == {k \in 1 .. Len(FaultsMbox) : FaultsMbox[k] = u}
           pagers == {p \in Pagers : Served(p) = u}
           counts == IF u \in Live THEN sem[getProc(u)] ELSE 0
<1>1. Answers(u) = Cardinality(mails) + Cardinality(pagers) + counts
  BY DEF Answers
<1>2. Cardinality(mails) = IF InMail(u) THEN 1 ELSE 0
  <2>1. CASE InMail(u)
    <3>1. PICK k \in 1 .. Len(FaultsMbox) : FaultsMbox[k] = u
      BY <2>1 DEF InMail
    <3>2. mails = {k}
      BY <3>1 DEF AnswerInv, MailInv
    <3> QED
      BY <2>1, <3>2, FS_Singleton
  <2>2. CASE ~ InMail(u)
    <3>1. mails = {}
      BY <2>2 DEF InMail
    <3> QED
      BY <2>2, <3>1, FS_EmptySet
  <2> QED
    BY <2>1, <2>2
<1>3. Cardinality(pagers) = IF \E p \in Pagers : Served(p) = u THEN 1 ELSE 0
  <2>1. CASE \E p \in Pagers : Served(p) = u
    <3>1. PICK p \in Pagers : Served(p) = u
      BY <2>1
    <3>2. pagers = {p}
      BY <3>1 DEF AnswerInv, ServedInv
    <3> QED
      BY <2>1, <3>2, FS_Singleton
  <2>2. CASE ~ \E p \in Pagers : Served(p) = u
    <3>1. pagers = {}
      BY <2>2
    <3> QED
      BY <2>2, <3>1, FS_EmptySet
  <2> QED
    BY <2>1, <2>2
<1> HIDE DEF mails, pagers
<1>4. CASE upc[u] = "wait"
  <2>1. u \in Live /\ sem[getProc(u)] \in {0, 1}
    BY <1>4 DEF AnswerInv, SemInv
  <2>2. ~ (InMail(u) /\ \E p \in Pagers : Served(p) = u)
    BY DEF AnswerInv, MailInv
  <2>3. sem[getProc(u)] = 1 => ~ InMail(u) /\ ~ \E p \in Pagers : Served(p) = u
    BY <2>1 DEF AnswerInv, SemInv
  <2>4. InMail(u) \/ (\E p \in Pagers : Served(p) = u) \/ sem[getProc(u)] = 1
    BY <1>4 DEF AnswerInv, SomeAnswer
  <2> QED
    BY <1>1, <1>2, <1>3, <1>4, <2>1, <2>2, <2>3, <2>4
<1>5. CASE upc[u] # "wait"
  <2>1. ~ InMail(u)
    BY <1>5 DEF AnswerInv, MailInv, InMail
  <2>2. ~ \E p \in Pagers : Served(p) = u
    BY <1>5 DEF AnswerInv, ServedInv
  <2>3. counts = 0
    BY <1>5 DEF AnswerInv, SemInv
  <2> HIDE DEF counts
  <2> QED
    BY <1>1, <1>2, <1>3, <1>5, <2>1, <2>2, <2>3
<1> QED
  BY <1>4, <1>5

\* A process that waits for its fault has exactly one answer on the way, and any other
\* process has none: for every number of users, pagers, frames and slots, whoever quits
\* and whatever the priorities, no wakeup of phase5.c:376-388 is lost or given twice.
THEOREM OneAnswer == Spec => []OneAnswerPerFault
<1>1. TypeInv /\ AnswerInv => OneAnswerPerFault
  BY AnswerCount
<1> QED
  BY <1>1, TypeInit, TypeNext, AnswerInit, AnswerNext, PTL DEF Spec
=============================================================================
