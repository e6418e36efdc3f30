--------------------------- MODULE VmTablesProofs ---------------------------
(***************************************************************************)
(* With one pager, of a better priority than every user: the two tables    *)
(* and the MMU agree and no mapping is ever refused; and whose the frames  *)
(* and their locks are while faults are served and processes quit.         *)
(***************************************************************************)
EXTENDS VmAnswerProofs

\* A page table entry that names a frame and that frame's entry name each other.
FramesInv ==
    \A s \in Slot : \A i \in Page :
        LET e == pte[s][i]
        IN  e.frame # EMPTY =>
                /\ FrameTable[e.frame].page = i
                /\ FrameTable[e.frame].pid \in Live \cap Slot
                /\ getProc(FrameTable[e.frame].pid) = s
                /\ e.state = "INMEM"

\* The frame a pager has chosen holds what it held then, or nothing: its owner has quit.
VictimInv ==
    \A p \in Pagers : ppc[p] \in {"count", "update"} =>
        LET e == FrameTable[job[p].frame]
        IN  e.page = EMPTY \/ (e.page = job[p].outPage /\ e.pid = job[p].outPid)

\* Where a pager waits for a mutex.
WaitInv == \A p \in Pagers : Waiting(p) => ppc[p] \in {"select", "count", "pageout", "pagein"}

Copying(p) == ppc[p] \in {"copyout", "copyin"}

\* The frame a pager has mapped for itself.
OwnMap(p, i) ==
    IF \/ ppc[p] = "copyout" /\ i = job[p].outPage
       \/ ppc[p] = "copyin" /\ i = job[p].page
    THEN job[p].frame ELSE EMPTY

\* What the MMU holds: the page table of a user that has the processor, and otherwise the
\* pager's own mapping.
MmuInv ==
    /\ cur \in Users => /\ cur \in Live
                        /\ \A p \in Pagers : ~ Copying(p)
                        /\ \A i \in Page : mmu[i] = pte[getProc(cur)][i].frame
    /\ cur \notin Users => \A p \in Pagers : \A i \in Page : mmu[i] = OwnMap(p, i)

TablesInv == FramesInv /\ VictimInv /\ WaitInv /\ MmuInv /\ NoMappingHalt

Inv == TypeInv /\ AnswerInv /\ TablesInv

-----------------------------------------------------------------------------
(* Facts the steps share.                                                    *)

\* Whoever joins the queue of a mutex is the only one that may begin to wait.
LEMMA WaitingLock ==
  ASSUME TypeOK, NEW m \in Mutexes, NEW x, lockMutex(m, x)
  PROVE  \A y : Waiting(y)' => Waiting(y) \/ y = x
<1> SUFFICES ASSUME NEW y, NEW n \in Mutexes, NEW i \in 2 .. Len(mutex'[n]),
                    mutex'[n][i] = y, y # x
             PROVE  Waiting(y)
  BY DEF Waiting
<1>1. mutex[n] \in Seq(Users \cup Pagers) /\ Len(mutex[n]) \in Nat
  BY DEF TypeOK
<1>2. CASE n # m
  BY <1>1, <1>2 DEF lockMutex, TypeOK, Waiting
<1>3. CASE n = m
  <2>1. mutex'[n] = Append(mutex[n], x)
    BY <1>3 DEF lockMutex, TypeOK
  <2>2. Len(mutex'[n]) = Len(mutex[n]) + 1 /\ mutex'[n][Len(mutex[n]) + 1] = x
    BY <1>1, <2>1
  <2>3. i \in 2 .. Len(mutex[n]) /\ mutex[n][i] = y
    BY <1>1, <2>1, <2>2
  <2> QED
    BY <2>3 DEF Waiting
<1> QED
  BY <1>2, <1>3

\* Nobody begins to wait when the first one leaves.
LEMMA WaitingUnlock ==
  ASSUME TypeOK, NEW m \in Mutexes, unlockMutex(m)
  PROVE  \A y : Waiting(y)' => Waiting(y)
<1> SUFFICES ASSUME NEW y, NEW n \in Mutexes, NEW i \in 2 .. Len(mutex'[n]),
                    mutex'[n][i] = y
             PROVE  Waiting(y)
  BY DEF Waiting
<1>1. mutex[n] \in Seq(Users \cup Pagers) /\ Len(mutex[n]) \in Nat
  BY DEF TypeOK
<1>2. CASE n # m
  BY <1>1, <1>2 DEF unlockMutex, TypeOK, Waiting
<1>3. CASE n = m
  <2>1. mutex'[n] = Tail(mutex[n]) /\ mutex[n] # <<>>
    BY <1>3 DEF unlockMutex, TypeOK
  <2>2. i + 1 \in 2 .. Len(mutex[n]) /\ mutex[n][i + 1] = y
    BY <1>1, <2>1
  <2> QED
    BY <2>2 DEF Waiting
<1> QED
  BY <1>2, <1>3

LEMMA WaitingSame == UNCHANGED mutex => \A y : Waiting(y)' <=> Waiting(y)
  BY DEF Waiting

LEMMA WaitingCritical ==
  ASSUME TypeOK, NEW m \in Mutexes, NEW p, Critical(m, p)
  PROVE  \A y : Waiting(y)' => Waiting(y)
BY WaitingUnlock, WaitingSame DEF Critical

\* No user can run while the pager copies.
LEMMA UsersWait ==
  ASSUME Inv, UsersBelow, NEW u \in Users, Schedulable(u), NEW p \in Pagers
  PROVE  ~ Copying(p)
<1> SUFFICES ASSUME Copying(p) PROVE FALSE
  OBVIOUS
<1>1. ~ Waiting(p)
  BY DEF Inv, TablesInv, WaitInv, Copying
<1>2. p \notin Users /\ u # System
  BY ProcessAssumption
<1>3. Runnable(p)
  BY <1>1, <1>2 DEF Runnable, Copying
<1>4. PriorityOf(u) <= PriorityOf(p)
  BY <1>2, <1>3 DEF Schedulable
<1>5. PriorityOf(u) = Priority[u] /\ PriorityOf(p) = 2 /\ Priority[u] > 2 /\ Priority[u] \in Int
  BY <1>2, ProcessAssumption DEF PriorityOf, UsersBelow, PAGER_PRIORITY
<1> QED
  BY <1>4, <1>5

\* The pages of a live process pass the checks of the hooks; nobody else has pages.
LEMMA ResidentChecks ==
  ASSUME Inv, NEW u \in Live, NEW i \in Resident(u)
  PROVE  EntryChecks(u, i)
<1>1. u \in Users /\ i \in Page /\ getProc(u) \in Slot
  BY UserSlot DEF Live, Resident
<1> DEFINE e == pte[getProc(u)][i]
<1>2. e.frame # EMPTY
  BY DEF Resident
<1>3. /\ FrameTable[e.frame].page = i /\ FrameTable[e.frame].pid \in Live
      /\ getProc(FrameTable[e.frame].pid) = getProc(u) /\ e.state = "INMEM"
  BY <1>1, <1>2 DEF Inv, TablesInv, FramesInv
<1>4. FrameTable[e.frame].pid = u
  BY <1>3 DEF Inv, AnswerInv, OwnSlots
<1> QED
  BY <1>3, <1>4 DEF EntryChecks

LEMMA NoPages ==
  ASSUME Inv, NEW x \in Pagers \cup {System, NOBODY}
  PROVE  Resident(x) = {}
<1> SUFFICES ASSUME NEW i \in Resident(x) PROVE FALSE
  OBVIOUS
<1>1. x \in Int /\ getProc(x) \in Slot
  BY SlotRange, ProcessAssumption DEF NOBODY
<1> DEFINE w == FrameTable[pte[getProc(x)][i].frame].pid
<1>2. i \in Page /\ pte[getProc(x)][i].frame # EMPTY
  BY DEF Resident
<1>3. w \in Users /\ w \in Slot /\ getProc(w) = getProc(x)
  BY <1>1, <1>2 DEF Inv, TablesInv, FramesInv, Live
<1> HIDE DEF w
<1>4. x = NOBODY
  BY <1>3, ProcessAssumption
<1>5. getProc(w) = w
  BY <1>3, ProcessAssumption DEF getProc, Slot
<1>6. getProc(x) = 0
  BY <1>4, ProcessAssumption DEF getProc, NOBODY
<1> QED
  BY <1>3, <1>5, <1>6, ProcessAssumption

\* A step of a user that leaves the tables and the MMU alone.
LEMMA TablesUserStep ==
  ASSUME Inv, NEW u \in Users, NEW from, NEW to, UserStep(u, from, to),
         {from, to} \cap {"unborn", "dead"} = {}, UNCHANGED mmu,
         \A f \in Frame : /\ FrameTable'[f].page = FrameTable[f].page
                          /\ FrameTable'[f].pid = FrameTable[f].pid,
         \A p \in Pagers : Waiting(p)' => Waiting(p)
  PROVE  TablesInv'
<1>1. Live' = Live
  BY DEF Inv, TypeInv, TypeOK, UserStep, Live
<1>2. UNCHANGED <<cur, halted, pte, ppc, job>>
  BY DEF UserStep
<1>3. FramesInv'
  <2>1. \A s \in Slot : \A i \in Page : pte[s][i].frame # EMPTY => pte[s][i].frame \in Frame
    BY DEF Inv, TypeInv, TypeOK, PTE
  <2>2. FramesInv
    BY DEF Inv, TablesInv
  <2> QED BY <1>1, <1>2, <2>1, <2>2 DEF FramesInv
<1>4. VictimInv'
  BY <1>2 DEF Inv, TypeInv, TypeOK, Job, TablesInv, VictimInv
<1>5. WaitInv'
  BY <1>2 DEF Inv, TablesInv, WaitInv
<1>6. MmuInv'
  BY <1>1, <1>2 DEF Inv, TablesInv, MmuInv, Copying, OwnMap
<1>7. NoMappingHalt'
  BY <1>2 DEF Inv, TablesInv, NoMappingHalt
<1> QED
  BY <1>3, <1>4, <1>5, <1>6, <1>7 DEF TablesInv

\* A step of the pager, given what it does to the tables.
LEMMA TablesPagerStep ==
  ASSUME Inv, OnePager, NEW p \in Pagers, NEW from, NEW to, NEW j, Step(p, from, to, j),
         FramesInv', Waiting(p)' => Waiting(p),
         to \in {"count", "update"} =>
            \/ FrameTable'[j.frame].page = EMPTY
            \/ FrameTable'[j.frame].page = j.outPage /\ FrameTable'[j.frame].pid = j.outPid,
         \A i \in Page : mmu'[i] = OwnMap(p, i)'
  PROVE  TablesInv'
<1>1. Pagers = {p}
  BY DEF OnePager
<1>2. /\ cur = p /\ cur' = cur /\ halted' = halted /\ ~ Waiting(p)
      /\ ppc'[p] = to /\ job'[p] = j
  BY DEF Inv, TypeInv, TypeOK, Step, At, Running, Schedulable, Runnable
<1>3. VictimInv'
  BY <1>1, <1>2 DEF VictimInv
<1>4. WaitInv'
  BY <1>1, <1>2 DEF WaitInv
<1>5. MmuInv'
  BY <1>1, <1>2, ProcessAssumption DEF MmuInv
<1>6. NoMappingHalt'
  BY <1>2 DEF Inv, TablesInv, NoMappingHalt
<1> QED
  BY <1>3, <1>4, <1>5, <1>6 DEF TablesInv

\* Such a step that leaves the frames of the tables alone, and every mapping.
LEMMA FramesSame ==
  ASSUME Inv, UNCHANGED <<upc, FrameTable>>,
         \A s \in Slot : \A i \in Page : /\ pte'[s][i].frame = pte[s][i].frame
                                         /\ pte'[s][i].state = pte[s][i].state
  PROVE  FramesInv'
<1>1. Live' = Live
  BY DEF Live
<1> QED
  BY <1>1 DEF Inv, TablesInv, FramesInv

LEMMA TablesQuietStep ==
  ASSUME Inv, OnePager, NEW p \in Pagers, NEW from, NEW to, NEW j, Step(p, from, to, j),
         {from, to} \cap {"copyout", "copyin", "update"} = {}, UNCHANGED <<pte, FrameTable, mmu>>,
         to = "count" =>
            \/ FrameTable[j.frame].page = EMPTY
            \/ FrameTable[j.frame].page = j.outPage /\ FrameTable[j.frame].pid = j.outPid,
         Waiting(p)' => Waiting(p)
  PROVE  TablesInv'
<1>1. FramesInv'
  BY FramesSame DEF Step
<1>2. \A i \in Page : mmu'[i] = OwnMap(p, i)'
  <2>1. /\ cur = p /\ cur \notin Users /\ ppc[p] = from
        /\ ppc' = [ppc EXCEPT ![p] = to] /\ ppc \in [Pagers -> PagerPc]
    BY ProcessAssumption DEF Inv, TypeInv, TypeOK, Step, At, Running
  <2>2. \A i \in Page : mmu[i] = OwnMap(p, i)
    BY <2>1 DEF Inv, TablesInv, MmuInv
  <2>3. ppc'[p] = to
    BY <2>1
  <2>4. \A i \in Page : OwnMap(p, i)' = OwnMap(p, i)
    BY <2>1, <2>3 DEF OwnMap
  <2> QED BY <2>2, <2>4
<1> QED
  BY <1>1, <1>2, TablesPagerStep

LEMMA TablesHalt ==
  ASSUME Inv, NEW why, Halt(why), why # "mappings"
  PROVE  TablesInv'
<1>1. UNCHANGED <<cur, upc, pte, FrameTable, mutex, mmu, ppc, job>> /\ halted' = why
  BY DEF Halt, memory
<1>2. Live' = Live /\ \A y : Waiting(y)' <=> Waiting(y)
  BY <1>1, WaitingSame DEF Live
<1> QED
  BY <1>1, <1>2 DEF Inv, TablesInv, FramesInv, VictimInv, WaitInv, MmuInv, Copying, OwnMap,
                    NoMappingHalt
-----------------------------------------------------------------------------
(* The hooks.                                                                *)

LEMMA TablesFork ==
  ASSUME Inv, NEW u \in Users, p1_fork(u)
  PROVE  TablesInv'
<1>1. /\ upc[u] = "unborn" /\ upc' = [upc EXCEPT ![u] = "user"]
      /\ pte' = [pte EXCEPT ![getProc(u)] = EmptyTable]
      /\ cur = System /\ UNCHANGED <<cur, halted, FrameTable, mutex, mmu, ppc, job>>
  BY DEF p1_fork, Running, memory
<1>2. Live' = Live \cup {u}
  BY <1>1 DEF Inv, TypeInv, TypeOK, Live
<1>3. FramesInv'
  BY <1>1, <1>2, UserSlot
  DEF Inv, TypeInv, TypeOK, TablesInv, FramesInv, EmptyTable, UnusedPTE
<1>4. cur' \notin Users
  BY <1>1, ProcessAssumption
<1>5. MmuInv'
  BY <1>1, <1>4 DEF Inv, TablesInv, MmuInv, OwnMap
<1>6. WaitInv'
  BY <1>1, WaitingSame DEF Inv, TablesInv, WaitInv
<1> QED
  BY <1>1, <1>3, <1>5, <1>6 DEF Inv, TablesInv, VictimInv, NoMappingHalt

\* A user that has the processor leaves an empty MMU behind.
LEMMA UserUnloads ==
  ASSUME Inv, cur \in Users
  PROVE  CanUnload(cur) /\ \A i \in Page : Unloaded(cur)[i] = EMPTY
<1>1. cur \in Live /\ \A i \in Page : mmu[i] = pte[getProc(cur)][i].frame
  BY DEF Inv, TablesInv, MmuInv
<1> QED
  BY <1>1, ResidentChecks DEF CanUnload, Unloaded, Resident

LEMMA TablesQuit ==
  ASSUME Inv, NEW u \in Users, p1_quit(u)
  PROVE  TablesInv'
<1>1. cur = u /\ upc[u] \in {"exit", "user"}
  BY DEF p1_quit, Running
<1>2. CanUnload(u) /\ \A i \in Page : Unloaded(u)[i] = EMPTY
  BY <1>1, UserUnloads
<1>3. /\ upc' = [upc EXCEPT ![u] = "dead"] /\ cur' = NOBODY /\ mmu' = Unloaded(u)
      /\ FrameTable' = FramesCleared(u) /\ pte' = [pte EXCEPT ![getProc(u)] = EmptyTable]
      /\ UNCHANGED <<halted, mutex, ppc, job>>
  BY <1>2 DEF p1_quit
<1>4. Live' = Live \ {u} /\ u \in Live
  BY <1>1, <1>3 DEF Inv, TypeInv, TypeOK, Live
<1>5. \A f \in Frame :
        /\ FrameTable[f].pid # u => FrameTable'[f] = FrameTable[f]
        /\ FrameTable'[f] = FrameTable[f] \/ FrameTable'[f].page = EMPTY
  BY <1>3 DEF Inv, TypeInv, TypeOK, FramesCleared, Entry
<1>6. FramesInv'
  <2> SUFFICES ASSUME NEW s \in Slot, NEW i \in Page, pte'[s][i].frame # EMPTY
               PROVE  LET e == pte'[s][i]
                      IN  /\ FrameTable'[e.frame].page = i
                          /\ FrameTable'[e.frame].pid \in Live' \cap Slot
                          /\ getProc(FrameTable'[e.frame].pid) = s
                          /\ e.state = "INMEM"
    BY DEF FramesInv
  <2>1. s # getProc(u) /\ pte'[s] = pte[s]
    BY <1>3, UserSlot DEF Inv, TypeInv, TypeOK, EmptyTable, UnusedPTE
  <2>2. pte[s][i].frame \in Frame
    BY <2>1 DEF Inv, TypeInv, TypeOK, PTE
  <2>3. /\ FrameTable[pte[s][i].frame].page = i
        /\ FrameTable[pte[s][i].frame].pid \in Live \cap Slot
        /\ getProc(FrameTable[pte[s][i].frame].pid) = s
        /\ pte[s][i].state = "INMEM"
    BY <2>1 DEF Inv, TablesInv, FramesInv
  <2>4. FrameTable[pte[s][i].frame].pid # u
    BY <2>1, <2>3
  <2> QED
    BY <1>4, <1>5, <2>1, <2>2, <2>3, <2>4
<1>7. VictimInv'
  BY <1>3, <1>5 DEF Inv, TypeInv, TypeOK, Job, TablesInv, VictimInv
<1>8. WaitInv'
  BY <1>3, WaitingSame DEF Inv, TablesInv, WaitInv
<1>9. MmuInv'
  <2>1. cur' \notin Users
    BY <1>3, ProcessAssumption DEF NOBODY
  <2>2. \A p \in Pagers : ~ Copying(p)
    BY <1>1 DEF Inv, TablesInv, MmuInv
  <2>3. \A p \in Pagers : \A i \in Page : mmu'[i] = OwnMap(p, i)'
    BY <1>2, <1>3, <2>2 DEF OwnMap, Copying
  <2> QED
    BY <2>1, <2>3 DEF MmuInv
<1>10. NoMappingHalt'
  BY <1>3 DEF Inv, TablesInv, NoMappingHalt
<1> QED
  BY <1>6, <1>7, <1>8, <1>9, <1>10 DEF TablesInv

LEMMA TablesSwitch ==
  ASSUME Inv, OnePager, UsersBelow, NEW x \in Process, p1_switch(x)
  PROVE  TablesInv'
<1>1. PICK p : Pagers = {p}
  BY DEF OnePager
<1>2. Schedulable(x) /\ cur \in Users \cup Pagers \cup {System, NOBODY}
  BY DEF p1_switch, Inv, TypeInv, TypeOK, Process
<1>3. x \in Users => x \in Live /\ ~ Copying(p)
  BY <1>1, <1>2, UsersWait DEF Schedulable, Runnable, Live
<1>4. CanUnload(cur) /\ \A i \in Page : Unloaded(cur)[i] = OwnMap(p, i)
  <2>1. CASE cur \in Users
    <3>1. ~ Copying(p)
      BY <1>1, <2>1 DEF Inv, TablesInv, MmuInv
    <3> QED
      BY <2>1, <3>1, UserUnloads DEF OwnMap, Copying
  <2>2. CASE cur \notin Users
    <3>1. Resident(cur) = {}
      BY <1>2, <2>2, NoPages
    <3>2. \A i \in Page : mmu[i] = OwnMap(p, i)
      BY <1>1, <2>2 DEF Inv, TablesInv, MmuInv
    <3> QED
      BY <3>1, <3>2 DEF CanUnload, Unloaded
  <2> QED
    BY <2>1, <2>2
<1>5. x \in Users => \A i \in Page : Unloaded(cur)[i] = EMPTY
  BY <1>3, <1>4 DEF OwnMap, Copying
<1>6. x \notin Users => Resident(x) = {}
  BY NoPages DEF Process
<1>7. CanLoad(Unloaded(cur), x)
  <2> SUFFICES ASSUME NEW i \in Resident(x)
               PROVE  EntryChecks(x, i) /\ Unloaded(cur)[i] = EMPTY
    BY DEF CanLoad
  <2>1. x \in Live /\ i \in Page
    BY <1>3, <1>6 DEF Resident
  <2> QED
    BY <1>5, <2>1, ResidentChecks DEF Live
<1>8. /\ cur' = x /\ mmu' = Loaded(Unloaded(cur), x)
      /\ UNCHANGED <<halted, upc, pte, FrameTable, mutex, ppc, job>>
  BY <1>4, <1>7 DEF p1_switch
<1>9. Live' = Live
  BY <1>8 DEF Live
<1>10. MmuInv'
  <2>1. CASE x \in Users
    <3>1. \A i \in Page : mmu'[i] = pte[getProc(x)][i].frame
      BY <1>5, <1>8, <2>1 DEF Loaded, Resident
    <3> QED
      BY <1>1, <1>3, <1>8, <1>9, <2>1, <3>1 DEF MmuInv, Copying
  <2>2. CASE x \notin Users
    <3>1. \A i \in Page : mmu'[i] = OwnMap(p, i)
      BY <1>4, <1>6, <1>8, <2>2 DEF Loaded
    <3> QED
      BY <1>1, <1>8, <2>2, <3>1 DEF MmuInv, OwnMap
  <2> QED
    BY <2>1, <2>2
<1>11. WaitInv'
  BY <1>8, WaitingSame DEF Inv, TablesInv, WaitInv
<1> QED
  BY <1>8, <1>9, <1>10, <1>11 DEF Inv, TablesInv, FramesInv, VictimInv, NoMappingHalt

-----------------------------------------------------------------------------
(* The users.                                                                *)

LEMMA TablesUser ==
  ASSUME Inv, NEW u \in Users, Program(u) \/ Handler(u)
  PROVE  TablesInv'
<1> USE DEF memory, comm
<1>0. TypeOK /\ u \notin Pagers
  BY ProcessAssumption DEF Inv, TypeInv
<1>1. ASSUME NEW i \in Page, Load(u, i) PROVE TablesInv'
  BY <1>1, TablesUserStep, WaitingSame DEF Load
<1>2. ASSUME NEW i \in Page, PageFault(u, i) PROVE TablesInv'
  BY <1>2, TablesUserStep, WaitingSame DEF PageFault
<1>3. ASSUME NEW i \in Page, NEW v \in Values, Store(u, i, v) PROVE TablesInv'
  BY <1>3, TablesUserStep, WaitingSame DEF Store
<1>4. CASE SendFault(u)
  BY <1>4, TablesUserStep, WaitingSame DEF SendFault
<1>5. CASE Resume(u)
  <2> DEFINE to == AfterFault(faults[getProc(u)])
  <2>1. to \in {"exit", "send", "unlock"}
    BY DEF AfterFault
  <2>2. UserStep(u, "wait", to) /\ UNCHANGED <<FrameTable, mutex, mmu>>
    BY <1>5 DEF Resume
  <2> HIDE DEF to
  <2> QED
    BY <2>1, <2>2, TablesUserStep, WaitingSame
<1>6. ASSUME NEW m \in Mutexes, NEW from, NEW to, lockMutex(m, u), UserStep(u, from, to),
             {from, to} \cap {"unborn", "dead"} = {}, UNCHANGED <<FrameTable, mmu>>
      PROVE  TablesInv'
  <2>1. \A p \in Pagers : Waiting(p)' => Waiting(p)
    BY <1>0, <1>6, WaitingLock
  <2> QED
    BY <1>6, <2>1, TablesUserStep
<1>7. CASE LockVmStats(u)
  BY <1>6, <1>7 DEF LockVmStats, Mutexes
<1>8. CASE LockFrames(u)
  BY <1>6, <1>8 DEF LockFrames, Mutexes
<1>9. CASE PrintStats(u)
  BY <1>6, <1>9 DEF PrintStats, Mutexes
<1>10. CASE CountFault(u)
  BY <1>0, <1>10, TablesUserStep, WaitingUnlock DEF CountFault, Mutexes
<1>11. CASE PrintStatsDone(u)
  BY <1>0, <1>11, TablesUserStep, WaitingUnlock DEF PrintStatsDone, Mutexes
<1>12. CASE UnlockFrame(u)
  <2>1. \A p \in Pagers : Waiting(p)' => Waiting(p)
    BY <1>0, <1>12, WaitingUnlock DEF UnlockFrame, Mutexes
  <2>2. \A f \in Frame : /\ FrameTable'[f].page = FrameTable[f].page
                         /\ FrameTable'[f].pid = FrameTable[f].pid
    BY <1>0, <1>12 DEF TypeOK, Entry, UnlockFrame, Unlocked
  <2> QED
    BY <1>12, <2>1, <2>2, TablesUserStep DEF UnlockFrame
<1> QED
  BY <1>1, <1>2, <1>3, <1>4, <1>5, <1>7, <1>8, <1>9, <1>10, <1>11, <1>12
  DEF Program, Handler
-----------------------------------------------------------------------------
(* The pager.                                                                *)

\* The step all the others prepare: the page that goes out leaves its table before the
\* frame is given to the page that comes in, and no third page has the frame.
LEMMA FramesUpdate ==
  ASSUME Inv, NEW p \in Pagers, UpdateTables(p)
  PROVE  FramesInv'
<1> DEFINE j == job[p]
           tbl == Evicted(pte, j)
<1>1. /\ ppc[p] = "update" /\ upc' = upc /\ pte' = Assigned(tbl, j)
      /\ FrameTable' = [FrameTable EXCEPT ![j.frame] = Occupied(j)]
  BY DEF UpdateTables, Step, At
<1>2. /\ j \in Job /\ j.frame \in Frame /\ j.page \in Page /\ j.pid \in Slot /\ j.pid \in Users
      /\ getProc(j.pid) \in Slot /\ getProc(j.outPid) \in Slot
      /\ j.outPage \in Page \cup {EMPTY}
  <2>1. j \in Job /\ j.pid \in Users
    BY <1>1 DEF Inv, TypeInv, TypeOK, AtWork
  <2> QED
    BY <2>1, OutSlot, UserSlot, ProcessAssumption DEF Job, NOBODY
<1>3. j.pid \in Live
  BY <1>1, <1>2, AnswerTypes DEF Inv, AnswerInv, ServedInv, Served
<1> HIDE DEF j
<1>4. Live' = Live
  BY <1>1 DEF Live
<1>5. tbl \in [Slot -> [Page -> PTE]]
  <2>1. CASE j.outPage = EMPTY
    BY <2>1 DEF Inv, TypeInv, TypeOK, Evicted
  <2>2. CASE j.outPage # EMPTY
    <3>1. j.outPage \in Page /\ pte[getProc(j.outPid)] \in [Page -> PTE]
      BY <1>2, <2>2 DEF Inv, TypeInv, TypeOK
    <3>2. [pte[getProc(j.outPid)][j.outPage] EXCEPT !.state = "ONDISK", !.frame = EMPTY] \in PTE
      BY <3>1 DEF PTE
    <3> QED
      BY <1>2, <2>2, <3>1, <3>2, TableUpdate DEF Inv, TypeInv, TypeOK, Evicted
  <2> QED
    BY <2>1, <2>2
<1>6. ASSUME NEW s \in Slot, NEW i \in Page, tbl[s][i].frame # EMPTY
      PROVE  tbl[s][i] = pte[s][i] /\ ~ (s = getProc(j.outPid) /\ i = j.outPage)
  <2>1. CASE j.outPage = EMPTY
    BY <1>6, <2>1 DEF Evicted, Page, EMPTY
  <2>2. CASE j.outPage # EMPTY
    BY <1>2, <1>6, <2>2 DEF Inv, TypeInv, TypeOK, PTE, Evicted
  <2> QED
    BY <2>1, <2>2
<1> HIDE DEF tbl
<1>7. \A s \in Slot : \A i \in Page :
         IF s = getProc(j.pid) /\ i = j.page
         THEN pte'[s][i].frame = j.frame /\ pte'[s][i].state = "INMEM"
         ELSE pte'[s][i] = tbl[s][i]
  BY <1>1, <1>2, <1>5 DEF Assigned, PTE
<1>8. /\ FrameTable'[j.frame] = [page |-> j.page, pid |-> j.pid, locked |-> TRUE]
      /\ \A f \in Frame \ {j.frame} : FrameTable'[f] = FrameTable[f]
  BY <1>1, <1>2 DEF Inv, TypeInv, TypeOK, Occupied
<1> SUFFICES ASSUME NEW s \in Slot, NEW i \in Page, pte'[s][i].frame # EMPTY
             PROVE  LET e == pte'[s][i]
                    IN  /\ FrameTable'[e.frame].page = i
                        /\ FrameTable'[e.frame].pid \in Live' \cap Slot
                        /\ getProc(FrameTable'[e.frame].pid) = s
                        /\ e.state = "INMEM"
  BY DEF FramesInv
<1>9. CASE s = getProc(j.pid) /\ i = j.page
  BY <1>2, <1>3, <1>4, <1>7, <1>8, <1>9
<1>10. CASE ~ (s = getProc(j.pid) /\ i = j.page)
  <2>1. pte'[s][i] = pte[s][i] /\ ~ (s = getProc(j.outPid) /\ i = j.outPage)
    BY <1>6, <1>7, <1>10
  <2> DEFINE g == pte[s][i].frame
  <2>2. /\ FrameTable[g].page = i /\ FrameTable[g].pid \in Live \cap Slot
        /\ getProc(FrameTable[g].pid) = s /\ pte[s][i].state = "INMEM"
    BY <2>1 DEF Inv, TablesInv, FramesInv
  <2>3. g \in Frame
    BY <2>1 DEF Inv, TypeInv, TypeOK, PTE
  <2> HIDE DEF g
  <2>4. g # j.frame
    <3>1. i # EMPTY
      BY DEF Page, EMPTY
    <3>2. \/ FrameTable[j.frame].page = EMPTY
          \/ FrameTable[j.frame].page = j.outPage /\ FrameTable[j.frame].pid = j.outPid
      BY <1>1 DEF Inv, TablesInv, VictimInv, j
    <3> QED
      BY <2>1, <2>2, <3>1, <3>2
  <2> QED
    BY <1>4, <1>8, <2>1, <2>2, <2>3, <2>4 DEF g
<1> QED
  BY <1>9, <1>10

\* The pager's mapping is never refused.
LEMMA TablesMap ==
  ASSUME Inv, OnePager, NEW p \in Pagers, NEW from, NEW to, NEW i \in Page,
         MmuMap(p, from, to, i), from \notin {"copyout", "copyin"},
         \/ to = "copyout" /\ i = job[p].outPage
         \/ to = "copyin" /\ i = job[p].page
  PROVE  TablesInv'
<1>1. \A k \in Page : mmu[k] = EMPTY
  BY ProcessAssumption DEF MmuMap, At, Running, Inv, TablesInv, MmuInv, OwnMap
<1>2. /\ Step(p, from, to, job[p]) /\ mmu' = [mmu EXCEPT ![i] = job[p].frame]
      /\ UNCHANGED <<pte, FrameTable, mutex>>
  BY <1>1 DEF MmuMap
<1>3. FramesInv'
  BY <1>2, FramesSame DEF Step
<1>4. ppc'[p] = to /\ job'[p] = job[p]
  BY <1>2 DEF Inv, TypeInv, TypeOK, Step
<1>5. \A k \in Page : mmu'[k] = OwnMap(p, k)'
  BY <1>1, <1>2, <1>4 DEF Inv, TypeInv, TypeOK, OwnMap
<1> QED
  BY <1>2, <1>3, <1>5, WaitingSame, TablesPagerStep

LEMMA TablesCopyOut ==
  ASSUME Inv, OnePager, NEW p \in Pagers, CopyOut(p)
  PROVE  TablesInv'
<1> DEFINE o == job[p].outPage
           j == [job[p] EXCEPT !.buffer = ram[mmu[o]],
                               !.owner = ProcPid[getProc(job[p].outPid)]]
<1>1. ppc[p] = "copyout" /\ cur = p /\ p \notin Users
  BY ProcessAssumption DEF CopyOut, At, Running
<1>2. o \in Page /\ job[p].frame \in Frame
  BY <1>1 DEF Inv, TypeInv, TypeOK, AtWork, Job
<1>3. mmu[o] = job[p].frame /\ \A k \in Page \ {o} : mmu[k] = EMPTY
  BY <1>1, <1>2 DEF Inv, TablesInv, MmuInv, OwnMap
<1>4. job[p].frame # EMPTY
  BY <1>2 DEF Frame, EMPTY
<1>5. /\ Step(p, "copyout", "pageout", j) /\ mmu' = [mmu EXCEPT ![o] = EMPTY]
      /\ UNCHANGED <<pte, FrameTable, mutex>>
  BY <1>3, <1>4 DEF CopyOut
<1> HIDE DEF j
<1>6. FramesInv'
  BY <1>5, FramesSame DEF Step
<1>7. ppc'[p] = "pageout"
  BY <1>5 DEF Inv, TypeInv, TypeOK, Step
<1>8. \A k \in Page : mmu'[k] = OwnMap(p, k)'
  BY <1>2, <1>3, <1>5, <1>7 DEF Inv, TypeInv, TypeOK, OwnMap
<1> QED
  BY <1>5, <1>6, <1>8, WaitingSame, TablesPagerStep

LEMMA TablesCopyIn ==
  ASSUME Inv, OnePager, NEW p \in Pagers, CopyIn(p)
  PROVE  TablesInv'
<1> DEFINE o == job[p].page
<1>1. ppc[p] = "copyin" /\ cur = p /\ p \notin Users
  BY ProcessAssumption DEF CopyIn, Answer, Step, At, Running
<1>2. o \in Page /\ job[p].frame \in Frame
  BY DEF Inv, TypeInv, TypeOK, Job
<1>3. mmu[o] = job[p].frame /\ \A k \in Page \ {o} : mmu[k] = EMPTY
  BY <1>1, <1>2 DEF Inv, TablesInv, MmuInv, OwnMap
<1>4. job[p].frame # EMPTY
  BY <1>2 DEF Frame, EMPTY
<1>5. /\ Step(p, "copyin", "receive", NoJob) /\ mmu' = [mmu EXCEPT ![o] = EMPTY]
      /\ UNCHANGED <<pte, FrameTable, mutex>>
  BY <1>3, <1>4 DEF CopyIn, Answer
<1>6. FramesInv'
  BY <1>5, FramesSame DEF Step
<1>7. ppc'[p] = "receive"
  BY <1>5 DEF Inv, TypeInv, TypeOK, Step
<1>8. \A k \in Page : mmu'[k] = OwnMap(p, k)'
  BY <1>2, <1>3, <1>5, <1>7 DEF Inv, TypeInv, TypeOK, OwnMap
<1> QED
  BY <1>5, <1>6, <1>8, WaitingSame, TablesPagerStep

LEMMA TablesTransfer ==
  ASSUME Inv, OnePager, NEW p \in Pagers, NEW from \in {"pageout", "pagein"},
         NEW to \in {"writing", "reading"}, NEW e, NEW state, Transfer(p, from, to, e, state)
  PROVE  TablesInv'
<1> DEFINE j == [job[p] EXCEPT !.block = e.diskBlock, !.ahead = Ahead(e.diskBlock)]
<1>1. CASE e.diskBlock = EMPTY \/ e.state # state
  BY <1>1, TablesHalt DEF Transfer, Refuse
<1>2. CASE ~ (e.diskBlock = EMPTY \/ e.state # state)
  <2>1. /\ Step(p, from, to, j) /\ UNCHANGED <<pte, FrameTable, mmu>>
        /\ Critical("vmStatsMutex", p)
    BY <1>2 DEF Transfer, memory
  <2>2. Waiting(p)' => Waiting(p)
    BY <2>1, WaitingCritical DEF Inv, TypeInv, Mutexes
  <2> HIDE DEF j
  <2> QED
    BY <2>1, <2>2, TablesQuietStep
<1> QED
  BY <1>1, <1>2

\* The pager joins the queue of a mutex.
LEMMA TablesBlock ==
  ASSUME Inv, NEW p \in Pagers, NEW m \in Mutexes,
         NEW pcs \in SUBSET {"select", "count", "pageout", "pagein"}, BlockOnMutex(p, m, pcs)
  PROVE  TablesInv'
<1>1. /\ ppc[p] \in pcs /\ lockMutex(m, p)
      /\ UNCHANGED <<cur, halted, upc, pte, FrameTable, mmu, ppc, job>>
  BY DEF BlockOnMutex, memory
<1>2. \A q \in Pagers : Waiting(q)' => Waiting(q) \/ q = p
  BY <1>1, WaitingLock DEF Inv, TypeInv
<1>3. WaitInv'
  BY <1>1, <1>2 DEF Inv, TablesInv, WaitInv
<1>4. Live' = Live
  BY <1>1 DEF Live
<1> QED
  BY <1>1, <1>3, <1>4 DEF Inv, TablesInv, FramesInv, VictimInv, MmuInv, Copying, OwnMap,
                          NoMappingHalt

LEMMA TablesPager ==
  ASSUME Inv, OnePager, NEW p \in Pagers, Pager(p)
  PROVE  TablesInv'
<1> USE WaitingSame DEF memory, comm
<1>0. job[p] \in Job /\ TypeOK
  BY DEF Inv, TypeInv, TypeOK
<1>1. CASE \/ BlockOnMutex(p, "FramesMutex", {"select"})
           \/ BlockOnMutex(p, "vmStatsMutex", {"count", "pageout", "pagein"})
  BY <1>1, TablesBlock DEF Mutexes
<1>2. CASE Receive(p)
  <2> DEFINE pid == Head(FaultsMbox)
             j   == [NoJob EXCEPT !.pid = pid, !.page = faults[pid].page,
                        !.exists = pte[getProc(pid)][faults[pid].page].state # "UNUSED"]
  <2>1. CASE pid >= MAXPROC
    BY <1>2, <2>1, TablesHalt DEF Receive
  <2>2. CASE ~ (pid >= MAXPROC)
    <3>1. Step(p, "receive", "select", j) /\ UNCHANGED <<pte, FrameTable, mmu, mutex>>
      BY <1>2, <2>2 DEF Receive
    <3> HIDE DEF j
    <3> QED
      BY <3>1, TablesQuietStep
  <2> QED
    BY <2>1, <2>2
<1>3. CASE GetNextFrame(p)
  <2> DEFINE c == NextFrame(FrameTable, ref, NextCheckedFrame)
             j == [job[p] EXCEPT !.frame = c.frame]
  <2>1. Waiting(p)' => Waiting(p)
    BY <1>0, <1>3, WaitingCritical DEF GetNextFrame, Mutexes
  <2>2. CASE c.frame = EMPTY
    BY <1>3, <2>1, <2>2, TablesQuietStep DEF GetNextFrame, Answer
  <2>3. CASE c.frame # EMPTY
    <3>1. Step(p, "select", "victim", j) /\ UNCHANGED <<pte, FrameTable, mmu>>
      BY <1>3, <2>3 DEF GetNextFrame
    <3> HIDE DEF j
    <3> QED
      BY <2>1, <3>1, TablesQuietStep
  <2> QED
    BY <2>2, <2>3
<1>4. CASE TakeVictim(p)
  <2> DEFINE j == [job[p] EXCEPT !.outPage = FrameTable[job[p].frame].page,
                                 !.outPid = FrameTable[job[p].frame].pid]
             to == IF job[p].exists THEN "update" ELSE "count"
  <2>1. /\ Step(p, "victim", to, j)
        /\ UNCHANGED <<pte, FrameTable, mmu, mutex>>
    BY <1>4 DEF TakeVictim
  <2>2. /\ FrameTable[j.frame].page = j.outPage /\ FrameTable[j.frame].pid = j.outPid
        /\ to \in {"update", "count"}
    BY <1>0 DEF Job
  <2>3. FramesInv'
    BY <2>1, FramesSame DEF Step
  <2> HIDE DEF j, to
  <2>4. \A i \in Page : mmu'[i] = OwnMap(p, i)'
    BY <2>1, <2>2, ProcessAssumption
    DEF Inv, TypeInv, TypeOK, TablesInv, MmuInv, OwnMap, Step, At, Running
  <2> QED
    BY <2>1, <2>2, <2>3, <2>4, TablesPagerStep
<1>5. CASE CountNew(p)
  <2>1. Waiting(p)' => Waiting(p)
    BY <1>0, <1>5, WaitingCritical DEF CountNew, Mutexes
  <2>2. Step(p, "count", "update", job[p]) /\ UNCHANGED <<pte, FrameTable, mmu>>
    BY <1>5 DEF CountNew
  <2>3. FramesInv'
    BY <2>2, FramesSame DEF Step
  <2>4. \A i \in Page : mmu'[i] = OwnMap(p, i)'
    BY <2>2, ProcessAssumption
    DEF Inv, TypeInv, TypeOK, TablesInv, MmuInv, OwnMap, Step, At, Running
  <2>5. \/ FrameTable[job[p].frame].page = EMPTY
        \/ /\ FrameTable[job[p].frame].page = job[p].outPage
           /\ FrameTable[job[p].frame].pid = job[p].outPid
    BY <2>2 DEF Step, At, Inv, TablesInv, VictimInv
  <2> QED
    BY <2>1, <2>2, <2>3, <2>4, <2>5, TablesPagerStep
<1>6. CASE UpdateTables(p)
  <2>1. Step(p, "update", "access", job[p]) /\ UNCHANGED <<mmu, mutex>>
    BY <1>6 DEF UpdateTables
  <2>2. \A i \in Page : mmu'[i] = OwnMap(p, i)'
    BY <2>1, ProcessAssumption
    DEF Inv, TypeInv, TypeOK, TablesInv, MmuInv, OwnMap, Step, At, Running
  <2> QED
    BY <1>6, <2>1, <2>2, FramesUpdate, TablesPagerStep
<1>7. CASE CheckAccess(p)
  <2> DEFINE j == [job[p] EXCEPT !.accessRef = ref[job[p].frame]]
             to == IF MustWrite(job[p]) THEN "block" ELSE "fill"
  <2>1. Step(p, "access", to, j) /\ UNCHANGED <<pte, FrameTable, mmu, mutex>>
    BY <1>7 DEF CheckAccess
  <2>2. to \in {"block", "fill"}
    OBVIOUS
  <2> HIDE DEF j, to
  <2> QED
    BY <2>1, <2>2, TablesQuietStep
<1>8. CASE FindBlock(p)
  <2> DEFINE to == IF OutEntry(job[p]).diskBlock = EMPTY THEN "alloc" ELSE "mapout"
  <2>1. CASE OutEntry(job[p]).diskBlock = EMPTY /\ NextBlock = DiskBlocks
    BY <1>8, <2>1, TablesQuietStep DEF FindBlock, Answer
  <2>2. CASE ~ (OutEntry(job[p]).diskBlock = EMPTY /\ NextBlock = DiskBlocks)
    <3>1. /\ Step(p, "block", to, job[p]) /\ UNCHANGED <<pte, FrameTable, mmu, mutex>>
          /\ to \in {"alloc", "mapout"}
      BY <1>8, <2>2 DEF FindBlock
    <3> HIDE DEF to
    <3> QED
      BY <3>1, TablesQuietStep
  <2> QED
    BY <2>1, <2>2
<1>9. CASE AllocateBlock(p)
  <2>1. /\ Step(p, "alloc", "mapout", job[p]) /\ UNCHANGED <<FrameTable, mmu, mutex>>
        /\ pte' = [pte EXCEPT ![getProc(job[p].outPid)][job[p].outPage].diskBlock = NextBlock]
    BY <1>9 DEF AllocateBlock
  <2>2. getProc(job[p].outPid) \in Slot /\ job[p].outPage \in Page
    BY <1>0, <2>1, OutSlot DEF Inv, TypeInv, AtWork, Step, At, Job
  <2>3. \A s \in Slot : \A i \in Page : /\ pte'[s][i].frame = pte[s][i].frame
                                        /\ pte'[s][i].state = pte[s][i].state
    BY <1>0, <2>1, <2>2 DEF TypeOK, PTE
  <2>4. FramesInv'
    BY <2>1, <2>3, FramesSame DEF Step
  <2>5. \A i \in Page : mmu'[i] = OwnMap(p, i)'
    BY <2>1, ProcessAssumption
    DEF Inv, TypeInv, TypeOK, TablesInv, MmuInv, OwnMap, Step, At, Running
  <2> QED
    BY <2>1, <2>4, <2>5, TablesPagerStep
<1>10. CASE MapOut(p)
  <2>1. job[p].outPage \in Page
    BY <1>0, <1>10 DEF MapOut, MmuMap, At, Inv, TypeInv, AtWork, Job
  <2> QED
    BY <1>10, <2>1, TablesMap DEF MapOut
<1>11. CASE MapIn(p)
  <2>1. job[p].page \in Page
    BY <1>0 DEF Job
  <2> QED
    BY <1>11, <2>1, TablesMap DEF MapIn
<1>12. CASE PageOut(p)
  BY <1>12, TablesHalt, TablesTransfer DEF PageOut, Refuse
<1>13. CASE PageIn(p)
  BY <1>13, TablesTransfer DEF PageIn
<1>14. CASE Fill(p)
  <2> DEFINE j  == [job[p] EXCEPT !.buffer = Zero]
             to == IF MustRead(job[p]) THEN "pagein" ELSE "mapin"
  <2>1. Step(p, "fill", to, j) /\ UNCHANGED <<pte, FrameTable, mmu, mutex>>
    BY <1>14 DEF Fill
  <2>2. to \in {"pagein", "mapin"}
    OBVIOUS
  <2> HIDE DEF j, to
  <2> QED
    BY <2>1, <2>2, TablesQuietStep
<1> QED
  BY <1>1, <1>2, <1>3, <1>4, <1>5, <1>6, <1>7, <1>8, <1>9, <1>10, <1>11, <1>12, <1>13,
     <1>14, TablesCopyOut, TablesCopyIn DEF Pager

\* The end of a transfer.
LEMMA TablesDiskDone ==
  ASSUME Inv, OnePager, NEW p \in Pagers, DiskDone(p)
  PROVE  TablesInv'
<1>1. PICK from, to, content :
         /\ Transferred(p, from, to, content)
         /\ from \in {"writing", "reading"} /\ to \in {"fill", "mapin"}
  BY DEF DiskDone, WriteDone, ReadDone
<1>2. /\ Pagers = {p} /\ ppc[p] = from /\ ppc'[p] = to
      /\ UNCHANGED <<cur, halted, upc, pte, FrameTable, mutex, mmu>>
      /\ cur = System
  BY <1>1 DEF OnePager, Transferred, Running, Inv, TypeInv, TypeOK, memory
<1>3. FramesInv'
  BY <1>2, FramesSame
<1>4. VictimInv'
  BY <1>1, <1>2 DEF VictimInv
<1>5. WaitInv'
  BY <1>1, <1>2, WaitingSame DEF Inv, TablesInv, WaitInv
<1>6. MmuInv'
  BY <1>1, <1>2, ProcessAssumption DEF Inv, TablesInv, MmuInv, OwnMap
<1> QED
  BY <1>2, <1>3, <1>4, <1>5, <1>6 DEF Inv, TablesInv, NoMappingHalt

-----------------------------------------------------------------------------
(* The invariant.                                                            *)

LEMMA TablesInit == Init => TablesInv
<1> SUFFICES ASSUME Init PROVE TablesInv
  OBVIOUS
<1>1. FramesInv
  BY DEF Init, FramesInv, EmptyTable, UnusedPTE
<1>2. VictimInv
  BY DEF Init, VictimInv
<1>3. WaitInv
  BY DEF Init, WaitInv, Waiting
<1>4. MmuInv
  BY ProcessAssumption DEF Init, MmuInv, OwnMap
<1>5. NoMappingHalt
  BY DEF Init, NoMappingHalt
<1> QED
  BY <1>1, <1>2, <1>3, <1>4, <1>5 DEF TablesInv

LEMMA TablesNext ==
  ASSUME OnePager, UsersBelow
  PROVE  Inv /\ [Next]_vars => Inv'
<1> SUFFICES ASSUME Inv, [Next]_vars PROVE Inv'
  OBVIOUS
<1>1. TypeInv' /\ AnswerInv'
  BY TypeNext, AnswerNext DEF Inv
<1>2. CASE UNCHANGED vars
  <2>1. Live' = Live /\ \A y : Waiting(y)' <=> Waiting(y)
    BY <1>2, WaitingSame DEF vars, Live
  <2> QED
    BY <1>1, <1>2, <2>1 DEF vars, memory, Inv, TablesInv, FramesInv, VictimInv, WaitInv, MmuInv,
                            Copying, OwnMap, NoMappingHalt
<1>3. CASE Next
  BY <1>1, <1>3, TablesSwitch, TablesFork, TablesQuit, TablesUser, TablesPager, TablesDiskDone
  DEF Next, Inv
<1> QED
  BY <1>2, <1>3

LEMMA TablesAlways ==
  ASSUME OnePager, UsersBelow
  PROVE  Spec => []Inv
<1>1. Init => Inv
  BY TypeInit, AnswerInit, TablesInit DEF Inv
<1> QED
  BY <1>1, TablesNext, PTL DEF Spec

\* With one pager, of a better priority than every user: every page table entry that names
\* a frame agrees with that frame's entry, so no frame is ever given to two pages, whoever
\* quits in the middle of a fault (p1.c:69-84, phase5.c:488-497).
THEOREM TablesAlwaysAgree ==
  ASSUME OnePager, UsersBelow
  PROVE  Spec => []TablesAgree
<1>1. Inv => TablesAgree
  BY ResidentChecks DEF TablesAgree
<1> QED
  BY <1>1, TablesAlways, PTL

\* Under the same conditions a user that has the processor reads and writes through exactly
\* the mappings its page table names (p1.c:121-161).
THEOREM MmuAlwaysFollows ==
  ASSUME OnePager, UsersBelow
  PROVE  Spec => []MmuFollowsTables
<1>1. Inv => MmuFollowsTables
  BY DEF Inv, TablesInv, MmuInv, MmuFollowsTables
<1> QED
  BY <1>1, TablesAlways, PTL

\* And the machine never stops at a check of p1.c or at a mapping of the pager.
THEOREM MappingsNeverRefused ==
  ASSUME OnePager, UsersBelow
  PROVE  Spec => []NoMappingHalt
<1>1. Inv => NoMappingHalt
  BY DEF Inv, TablesInv
<1> QED
  BY <1>1, TablesAlways, PTL

-----------------------------------------------------------------------------
(* Whose the frames and their locks are.                                     *)

\* A pager from the update of the tables to the answer, and up to the end of a page-out.
TakingOut == {"access", "block", "alloc", "mapout", "copyout", "pageout", "writing"}
Placing   == TakingOut \cup {"fill", "pagein", "reading", "mapin", "copyin"}

Message(u) == faults[getProc(u)]

Woken(u) == upc[u] = "wait" /\ sem[getProc(u)] > 0

\* The process has a frame for the page it faulted on, and has not gone on yet.
Placed(u) ==
    \/ \E p \in Pagers : ppc[p] \in Placing /\ job[p].pid = u
    \/ Woken(u) /\ ~ Message(u).failed

\* The pager has answered, and has not asked for the fault to be sent again.
Answered(u) ==
    \/ upc[u] \in {"unlock", "unlocking", "exit"}
    \/ Woken(u) /\ AfterFault(Message(u)) # "send"

\* A frame with a page is of a live process whose page table names it.
OwnersInv ==
    \A f \in Frame : LET e == FrameTable[f]
                     IN  e.page # EMPTY => /\ e.pid \in Live
                                           /\ pte[getProc(e.pid)][e.page].frame = f

\* The message of a process that waits is about the page it touched, and says nothing of
\* an end before somebody has woken it.
MessageInv ==
    \A u \in Users : upc[u] = "wait" =>
        /\ Message(u).page = offset[u]
        /\ sem[getProc(u)] = 0 => ~ Message(u).failed /\ ~ Message(u).shouldTerminate

\* The page of a fault has no frame until the pager has updated the tables.
FaultingInv ==
    \A u \in Users : upc[u] \in {"count", "counting", "send", "wait"} /\ ~ Placed(u) =>
        pte[getProc(u)][offset[u]].frame = EMPTY

\* What a pager works on, and the frame it has chosen.
JobInv ==
    \A p \in Pagers :
        /\ ppc[p] # "receive" => job[p].page = offset[job[p].pid]
        /\ ppc[p] \notin {"receive", "select"} => faults[job[p].pid].frame = job[p].frame
        /\ ppc[p] \in {"victim", "count", "update"} =>
                FrameTable[job[p].frame].page = EMPTY \/ ~ FrameTable[job[p].frame].locked
        /\ ppc[p] \in Placing =>
                FrameTable[job[p].frame] = [page |-> job[p].page, pid |-> job[p].pid,
                                            locked |-> TRUE]

\* The owner of the page that goes out has been born, and when it has quit since then no
\* page of its slot has a frame.
VictimOwnerInv ==
    \A p \in Pagers : ppc[p] \in {"count", "update"} \cup TakingOut /\ job[p].outPage # EMPTY =>
        /\ job[p].outPid \in Users /\ upc[job[p].outPid] # "unborn"
        /\ ppc[p] \in {"count", "update"} /\ FrameTable[job[p].frame].page = EMPTY =>
                /\ job[p].outPid \notin Live
                /\ \A i \in Page : pte[getProc(job[p].outPid)][i].frame = EMPTY

AnsweredInv ==
    \A u \in Users : Answered(u) =>
        FrameTable[Message(u).frame] = [page |-> offset[u], pid |-> u, locked |-> TRUE]

\* Who may have a locked frame.
LockInv ==
    \A f \in Frame, u \in Users :
        FrameTable[f].pid = u /\ FrameTable[f].locked /\ FrameTable[f].page # EMPTY =>
            /\ offset[u] = FrameTable[f].page
            /\ \/ upc[u] \in {"unlock", "unlocking", "exit"}
               \/ upc[u] = "wait" /\ Placed(u)

FrameInv ==
    /\ OwnersInv /\ MessageInv /\ FaultingInv /\ JobInv /\ VictimOwnerInv
    /\ AnsweredInv /\ LockInv

-----------------------------------------------------------------------------
(* Facts the steps share.                                                    *)

\* The process a pager serves waits in a slot that has its pid for a number, and nobody has
\* woken it.
LEMMA ServedWaits ==
  ASSUME Inv, NEW p \in Pagers, ppc[p] # "receive"
  PROVE  LET u == job[p].pid
         IN  /\ u \in Users /\ u \in Slot /\ u \in Live /\ getProc(u) = u
             /\ upc[u] = "wait" /\ sem[u] = 0
<1> DEFINE u == job[p].pid
<1>1. u \in Users /\ u \in Slot
  BY ProcessAssumption DEF Inv, TypeInv, TypeOK, AtWork, Job, NOBODY
<1>2. Served(p) = u
  BY DEF Served
<1>3. upc[u] = "wait"
  <2>1. Served(p) # NOBODY
    BY <1>1, <1>2, ProcessAssumption DEF NOBODY
  <2> QED
    BY <1>2, <2>1 DEF Inv, AnswerInv, ServedInv
<1>4. u \in Live
  BY <1>1, <1>3 DEF Live
<1> HIDE DEF u
<1>5. getProc(u) = u
  BY <1>1, ProcessAssumption DEF getProc, Slot
<1>6. sem[getProc(u)] \in {0, 1} /\ sem[getProc(u)] # 1
  BY <1>2, <1>4 DEF Inv, AnswerInv, SemInv
<1> QED
  BY <1>1, <1>3, <1>4, <1>5, <1>6 DEF u

LEMMA SlotsApart ==
  ASSUME Inv, NEW u \in Live, NEW v \in Live, getProc(u) = getProc(v)
  PROVE  u = v
BY DEF Inv, AnswerInv, OwnSlots

LEMMA FrameOwner ==
  ASSUME Inv, FrameInv, NEW f \in Frame, FrameTable[f].page # EMPTY
  PROVE  LET e == FrameTable[f]
         IN  /\ e.page \in Page /\ e.pid \in Live /\ e.pid \in Users /\ getProc(e.pid) \in Slot
             /\ pte[getProc(e.pid)][e.page].frame = f
<1>1. FrameTable[f].page \in Page
  BY DEF Inv, TypeInv, TypeOK, Entry
<1>2. FrameTable[f].pid \in Live /\ FrameTable[f].pid \in Users
  BY DEF FrameInv, OwnersInv, Live
<1> QED
  BY <1>1, <1>2, UserSlot DEF FrameInv, OwnersInv

\* The page of a fault that is not placed, in the page table that is not another's.
LEMMA JobHasNoFrame ==
  ASSUME Inv, FrameInv, OnePager, NEW p \in Pagers, ppc[p] \notin Placing \cup {"receive"}
  PROVE  pte[getProc(job[p].pid)][job[p].page].frame = EMPTY
<1>1. /\ job[p].pid \in Users /\ upc[job[p].pid] = "wait" /\ sem[job[p].pid] = 0
      /\ getProc(job[p].pid) = job[p].pid
  BY ServedWaits
<1>2. ~ Placed(job[p].pid)
  BY <1>1 DEF OnePager, Placed, Woken
<1>3. job[p].page = offset[job[p].pid]
  BY DEF FrameInv, JobInv
<1> QED
  BY <1>1, <1>2, <1>3 DEF FrameInv, FaultingInv

\* A step that leaves the frames, the messages and the semaphores alone, keeps every user
\* in the same stretch of its program or of FaultHandler, and every pager at work on the
\* same fault with the same frame.
LEMMA FramesQuiet ==
  ASSUME Inv, FrameInv, UNCHANGED <<offset, sem, faults, FrameTable>>,
         \A s \in Slot : \A i \in Page : pte'[s][i].frame = pte[s][i].frame,
         \A u \in Users : \/ upc'[u] = upc[u]
                          \/ {upc[u], upc'[u]} \subseteq {"user", "printing"}
                          \/ {upc[u], upc'[u]} \subseteq {"count", "counting", "send"}
                          \/ {upc[u], upc'[u]} \subseteq {"unlock", "unlocking"},
         \A q \in Pagers : \/ ppc'[q] = ppc[q]
                           \/ ppc[q] = "count" /\ ppc'[q] = "update"
                           \/ /\ ppc[q] \in Placing /\ ppc'[q] \in Placing
                              /\ ppc'[q] \in TakingOut => ppc[q] \in TakingOut,
         \A q \in Pagers : /\ job'[q].pid = job[q].pid /\ job'[q].page = job[q].page
                           /\ job'[q].frame = job[q].frame
                           /\ job'[q].outPage = job[q].outPage
                           /\ job'[q].outPid = job[q].outPid
  PROVE  FrameInv'
<1>1. Live' = Live
  BY DEF Live
<1>2. \A u \in Users : Message(u)' = Message(u) /\ (Woken(u)' <=> Woken(u))
  BY DEF Message, Woken
<1>3. \A q \in Pagers : ppc'[q] \in Placing <=> ppc[q] \in Placing
  BY DEF Placing, TakingOut
<1>4. \A u \in Users : Placed(u)' <=> Placed(u)
  BY <1>2, <1>3 DEF Placed
<1>5. \A u \in Users : Answered(u)' <=> Answered(u)
  BY <1>2 DEF Answered
<1>6. OwnersInv'
  BY <1>1, FrameOwner DEF OwnersInv
<1>7. MessageInv'
  BY <1>2 DEF FrameInv, MessageInv
<1>8. FaultingInv'
  <2>1. \A u \in Users : getProc(u) \in Slot /\ offset[u] \in Page
    BY UserSlot DEF Inv, TypeInv, TypeOK
  <2> QED
    BY <1>4, <2>1 DEF FrameInv, FaultingInv
<1>9. JobInv'
  BY <1>3 DEF FrameInv, JobInv, Placing, TakingOut
<1>10. VictimOwnerInv'
  BY <1>1, UserSlot DEF FrameInv, VictimOwnerInv, Placing, TakingOut
<1>11. AnsweredInv'
  BY <1>2, <1>5 DEF FrameInv, AnsweredInv
<1>12. LockInv'
  BY <1>4 DEF FrameInv, LockInv
<1> QED
  BY <1>6, <1>7, <1>8, <1>9, <1>10, <1>11, <1>12 DEF FrameInv
-----------------------------------------------------------------------------
(* The users.                                                                *)

\* What a user that is not in "wait" has nothing to do with.
LEMMA NotServed ==
  ASSUME Inv, NEW u \in Users, upc[u] # "wait"
  PROVE  /\ \A p \in Pagers : ppc[p] # "receive" => job[p].pid # u
         /\ ~ Placed(u)
         /\ \A p \in Pagers : ppc[p] # "receive" /\ u \in Live => job[p].pid # getProc(u)
<1>1. ASSUME NEW p \in Pagers, ppc[p] # "receive"
      PROVE  job[p].pid # u /\ (u \in Live => job[p].pid # getProc(u))
  BY <1>1, ServedWaits, SlotsApart
<1>2. \A p \in Pagers : ppc[p] \in Placing => ppc[p] # "receive"
  BY DEF Placing, TakingOut
<1> QED
  BY <1>1, <1>2 DEF Placed, Woken

\* A step of u alone that touches no frame and no page table.
LEMMA FramesPageFault ==
  ASSUME Inv, FrameInv, NEW u \in Users, NEW i \in Page, PageFault(u, i)
  PROVE  FrameInv'
<1>1. /\ upc[u] = "user" /\ cur = u /\ upc' = [upc EXCEPT ![u] = "count"]
      /\ offset' = [offset EXCEPT ![u] = i] /\ mmu[i] = EMPTY
      /\ UNCHANGED <<pte, FrameTable, sem, faults, ppc, job>>
  BY DEF PageFault, UserStep, Running, comm
<1>2. pte[getProc(u)][i].frame = EMPTY
  BY <1>1 DEF Inv, TablesInv, MmuInv
<1>3. /\ \A v \in Users \ {u} : upc'[v] = upc[v] /\ offset'[v] = offset[v]
      /\ upc'[u] = "count" /\ offset'[u] = i
  BY <1>1 DEF Inv, TypeInv, TypeOK
<1>4. Live' = Live
  BY <1>1, <1>3 DEF Live
<1>5. /\ ~ Placed(u) /\ \A p \in Pagers : ppc[p] # "receive" => job[p].pid # u
  BY <1>1, NotServed
<1>6. \A v \in Users : /\ Message(v)' = Message(v)
                       /\ Woken(v)' <=> Woken(v)
                       /\ Placed(v)' <=> Placed(v)
                       /\ Answered(v)' <=> Answered(v)
  BY <1>1, <1>3 DEF Message, Woken, Placed, Answered
<1>7. OwnersInv'
  BY <1>1, <1>4 DEF FrameInv, OwnersInv
<1>8. MessageInv'
  BY <1>1, <1>3, <1>6 DEF FrameInv, MessageInv
<1>9. FaultingInv'
  BY <1>1, <1>2, <1>3, <1>6 DEF FrameInv, FaultingInv
<1>10. JobInv'
  <2>1. \A p \in Pagers : ppc[p] # "receive" => job[p].pid \in Users \ {u}
    BY <1>5, ServedWaits
  <2> QED
    BY <1>1, <1>3, <2>1 DEF FrameInv, JobInv
<1>11. VictimOwnerInv'
  BY <1>1, <1>3, <1>4 DEF FrameInv, VictimOwnerInv
<1>12. AnsweredInv'
  BY <1>1, <1>3, <1>6 DEF FrameInv, AnsweredInv, Answered, Woken
<1>13. LockInv'
  BY <1>1, <1>3, <1>6 DEF FrameInv, LockInv
<1> QED
  BY <1>7, <1>8, <1>9, <1>10, <1>11, <1>12, <1>13 DEF FrameInv

\* The messages of the other live processes are in other slots.
LEMMA OtherSlots ==
  ASSUME Inv, NEW u \in Live, NEW v \in Live, u # v
  PROVE  /\ getProc(u) # getProc(v) /\ getProc(u) \in Slot /\ getProc(v) \in Slot
         /\ u \in Users /\ v \in Users
BY SlotsApart, UserSlot DEF Live

LEMMA FramesSend ==
  ASSUME Inv, FrameInv, NEW u \in Users, SendFault(u)
  PROVE  FrameInv'
<1> DEFINE s == getProc(u)
<1>0. s \in Slot /\ faults[s] \in FaultMsg
  BY UserSlot DEF Inv, TypeInv, TypeOK
<1>1. /\ upc[u] = "send" /\ upc' = [upc EXCEPT ![u] = "wait"]
      /\ faults' = [faults EXCEPT ![s] = [@ EXCEPT !.page = offset[u], !.failed = FALSE,
                                                   !.shouldTerminate = FALSE]]
      /\ UNCHANGED <<offset, pte, FrameTable, sem, ppc, job>>
  BY DEF SendFault, UserStep
<1>2. u \in Live /\ Live' = Live
  BY <1>1 DEF Live, Inv, TypeInv, TypeOK
<1>3. /\ faults'[s].page = offset[u] /\ faults'[s].failed = FALSE
      /\ faults'[s].shouldTerminate = FALSE
      /\ \A r \in Slot \ {s} : faults'[r] = faults[r]
  BY <1>0, <1>1 DEF Inv, TypeInv, TypeOK, FaultMsg
<1>4. /\ \A v \in Users \ {u} : upc'[v] = upc[v]
      /\ upc'[u] = "wait"
  BY <1>1 DEF Inv, TypeInv, TypeOK
<1>5. sem[s] = 0
  BY <1>1, <1>2 DEF Inv, AnswerInv, SemInv
<1>6. /\ ~ Placed(u)
      /\ \A p \in Pagers : ppc[p] # "receive" => job[p].pid # u /\ job[p].pid # s
  BY <1>1, <1>2, NotServed
<1> HIDE DEF s
<1>7. \A v \in Users \ {u} : v \in Live => getProc(v) \in Slot \ {s}
  BY <1>2, OtherSlots DEF s
<1>8. \A v \in Users \ {u} : v \in Live => Message(v)' = Message(v)
  BY <1>3, <1>7 DEF Message
<1>9. \A v \in Users \ {u} : /\ Woken(v)' <=> Woken(v)
                             /\ Placed(v)' <=> Placed(v)
                             /\ Answered(v)' <=> Answered(v)
  BY <1>1, <1>4, <1>8 DEF Woken, Placed, Answered, Live
<1>10. ~ Woken(u)' /\ ~ Placed(u)' /\ ~ Answered(u)'
  BY <1>1, <1>4, <1>5, <1>6 DEF Woken, Placed, Answered, s
<1>11. OwnersInv'
  BY <1>1, <1>2 DEF FrameInv, OwnersInv
<1>12. MessageInv'
  <2>1. Message(u)'.page = offset[u] /\ ~ Message(u)'.failed /\ ~ Message(u)'.shouldTerminate
    BY <1>3 DEF Message, s
  <2> QED
    BY <1>1, <1>4, <1>8, <2>1 DEF FrameInv, MessageInv, Live
<1>13. FaultingInv'
  BY <1>1, <1>4, <1>6, <1>9 DEF FrameInv, FaultingInv
<1>14. JobInv'
  <2>1. \A p \in Pagers : ppc[p] # "receive" => job[p].pid \in Slot \ {s}
    BY <1>6, ServedWaits
  <2>2. \A p \in Pagers : ppc[p] # "receive" => faults'[job[p].pid] = faults[job[p].pid]
    BY <1>3, <2>1
  <2> QED
    BY <1>1, <2>2 DEF FrameInv, JobInv
<1>15. VictimOwnerInv'
  BY <1>1, <1>2, <1>4 DEF FrameInv, VictimOwnerInv
<1>16. AnsweredInv'
  <2>1. \A v \in Users \ {u} : Answered(v) => v \in Live
    BY DEF Answered, Woken, Live
  <2> QED
    BY <1>1, <1>8, <1>9, <1>10, <2>1 DEF FrameInv, AnsweredInv
<1>17. LockInv'
  BY <1>1, <1>4, <1>9 DEF FrameInv, LockInv
<1> QED
  BY <1>11, <1>12, <1>13, <1>14, <1>15, <1>16, <1>17 DEF FrameInv

LEMMA FramesResume ==
  ASSUME Inv, FrameInv, NEW u \in Users, Resume(u)
  PROVE  FrameInv'
<1> DEFINE s == getProc(u)
           to == AfterFault(faults[s])
<1>0. s \in Slot /\ faults[s] \in FaultMsg
  BY UserSlot DEF Inv, TypeInv, TypeOK
<1>1. /\ upc[u] = "wait" /\ upc' = [upc EXCEPT ![u] = to]
      /\ sem' = [sem EXCEPT ![s] = @ - 1]
      /\ UNCHANGED <<offset, pte, FrameTable, faults, ppc, job>>
  BY DEF Resume, UserStep
<1>2. sem[s] > 0
  BY <1>1 DEF Resume, UserStep, Running, Schedulable, Runnable
<1>3. u \in Live /\ to \in {"exit", "send", "unlock"}
  BY <1>1 DEF Live, AfterFault
<1>4. Live' = Live
  BY <1>1, <1>3 DEF Live, Inv, TypeInv, TypeOK
<1>5. /\ to = "exit" <=> Message(u).shouldTerminate
      /\ to = "send" <=> ~ Message(u).shouldTerminate /\ Message(u).failed
      /\ to = "unlock" <=> ~ Message(u).shouldTerminate /\ ~ Message(u).failed
  BY DEF AfterFault, Message
<1> HIDE DEF to
<1>6. /\ \A v \in Users \ {u} : upc'[v] = upc[v]
      /\ upc'[u] = to
  BY <1>1 DEF Inv, TypeInv, TypeOK
<1>7. \A p \in Pagers : ppc[p] # "receive" => job[p].pid # u
  BY <1>2, ServedWaits DEF s
<1>8. \A v \in Users \ {u} : v \in Live => sem'[getProc(v)] = sem[getProc(v)]
  BY <1>1, <1>3, OtherSlots DEF Inv, TypeInv, TypeOK
<1>9. \A v \in Users : Message(v)' = Message(v)
  BY <1>1 DEF Message
<1>10. \A v \in Users \ {u} : /\ Woken(v)' <=> Woken(v)
                              /\ Placed(v)' <=> Placed(v)
                              /\ Answered(v)' <=> Answered(v)
  <2>1. \A v \in Users \ {u} : Woken(v)' <=> Woken(v)
    BY <1>6, <1>8 DEF Woken, Live
  <2> QED
    BY <1>1, <1>6, <1>9, <2>1 DEF Placed, Answered
<1>11. /\ Woken(u) /\ ~ Woken(u)' /\ ~ Placed(u)'
       /\ Placed(u) <=> ~ Message(u).failed
  <2>1. \A p \in Pagers : ppc[p] \in Placing => ppc[p] # "receive"
    BY DEF Placing, TakingOut
  <2> QED
    BY <1>1, <1>2, <1>3, <1>6, <1>7, <2>1 DEF Woken, Placed
<1>12. OwnersInv'
  BY <1>1, <1>4 DEF FrameInv, OwnersInv
<1>13. MessageInv'
  BY <1>1, <1>3, <1>6, <1>8, <1>9 DEF FrameInv, MessageInv, Live
<1>14. FaultingInv'
  BY <1>1, <1>3, <1>5, <1>6, <1>10, <1>11 DEF FrameInv, FaultingInv
<1>15. JobInv'
  BY <1>1 DEF FrameInv, JobInv
<1>16. VictimOwnerInv'
  BY <1>1, <1>3, <1>4, <1>6 DEF FrameInv, VictimOwnerInv
<1>17. AnsweredInv'
  <2>1. Answered(u)' => Answered(u)
    <3>1. Message(u)' = Message(u)
      BY <1>9
    <3>2. AfterFault(Message(u)) = to
      BY DEF Message, to
    <3>3. ~ Woken(u)' /\ Woken(u) /\ upc'[u] = to
      BY <1>6, <1>11
    <3> QED
      BY <1>3, <3>2, <3>3 DEF Answered
  <2> QED
    BY <1>1, <1>9, <1>10, <2>1 DEF FrameInv, AnsweredInv
<1>18. LockInv'
  BY <1>1, <1>3, <1>5, <1>6, <1>10, <1>11 DEF FrameInv, LockInv
<1> QED
  BY <1>12, <1>13, <1>14, <1>15, <1>16, <1>17, <1>18 DEF FrameInv

LEMMA FramesUnlock ==
  ASSUME Inv, FrameInv, NEW u \in Users, UnlockFrame(u)
  PROVE  FrameInv'
<1> DEFINE s == getProc(u)
           f == faults[s].frame
<1>0. s \in Slot /\ f \in Frame
  BY UserSlot DEF Inv, TypeInv, TypeOK, FaultMsg
<1>1. /\ upc[u] = "unlocking" /\ upc' = [upc EXCEPT ![u] = "user"]
      /\ offset' = [offset EXCEPT ![u] = 0]
      /\ faults' = [faults EXCEPT ![s] = NoFault]
      /\ FrameTable' = [FrameTable EXCEPT ![f].locked = FALSE]
      /\ UNCHANGED <<pte, sem, ppc, job>>
  BY DEF UnlockFrame, UserStep, Forget, Unlocked
<1>2. u \in Live /\ Live' = Live
  BY <1>1 DEF Live, Inv, TypeInv, TypeOK
<1>3. FrameTable[f] = [page |-> offset[u], pid |-> u, locked |-> TRUE]
  <2>1. Answered(u)
    BY <1>1 DEF Answered
  <2> QED
    BY <2>1 DEF FrameInv, AnsweredInv, Message
<1> HIDE DEF f
<1>4. /\ \A g \in Frame \ {f} : FrameTable'[g] = FrameTable[g]
      /\ \A g \in Frame : /\ FrameTable'[g].page = FrameTable[g].page
                          /\ FrameTable'[g].pid = FrameTable[g].pid
      /\ ~ FrameTable'[f].locked
  BY <1>0, <1>1, <1>3 DEF Inv, TypeInv, TypeOK
<1>5. /\ \A v \in Users \ {u} : upc'[v] = upc[v] /\ offset'[v] = offset[v]
      /\ upc'[u] = "user"
      /\ \A r \in Slot \ {s} : faults'[r] = faults[r]
  BY <1>0, <1>1 DEF Inv, TypeInv, TypeOK
<1>6. /\ ~ Placed(u)
      /\ \A p \in Pagers : ppc[p] # "receive" => job[p].pid # u /\ job[p].pid # s
  BY <1>1, <1>2, NotServed
<1> HIDE DEF s
<1>7. \A v \in Users \ {u} : v \in Live => Message(v)' = Message(v)
  BY <1>2, <1>5, OtherSlots DEF Message, s
<1>8. \A v \in Users \ {u} : /\ Woken(v)' <=> Woken(v)
                             /\ Placed(v)' <=> Placed(v)
                             /\ Answered(v)' <=> Answered(v)
  BY <1>1, <1>5, <1>7 DEF Woken, Placed, Answered, Live
<1>9. ~ Woken(u)' /\ ~ Placed(u)' /\ ~ Answered(u)'
  BY <1>1, <1>5, <1>6 DEF Woken, Placed, Answered
<1>10. OwnersInv'
  BY <1>1, <1>2, <1>4 DEF FrameInv, OwnersInv
<1>11. MessageInv'
  BY <1>1, <1>5, <1>7 DEF FrameInv, MessageInv, Live
<1>12. FaultingInv'
  BY <1>1, <1>5, <1>8 DEF FrameInv, FaultingInv
<1>13. JobInv'
  <2>1. ASSUME NEW p \in Pagers, ppc[p] # "receive"
        PROVE  /\ job[p].pid \in Users \ {u} /\ job[p].pid \in Slot \ {s}
               /\ job[p].frame \in Frame
    BY <1>6, <2>1, ServedWaits DEF Inv, TypeInv, TypeOK, Job
  <2>2. ASSUME NEW p \in Pagers, ppc[p] \in Placing
        PROVE  FrameTable'[job[p].frame] = FrameTable[job[p].frame]
    <3>1. ppc[p] # "receive"
      BY <2>2 DEF Placing, TakingOut
    <3>2. FrameTable[job[p].frame].pid = job[p].pid
      <4>1. FrameTable[job[p].frame] = [page |-> job[p].page, pid |-> job[p].pid,
                                        locked |-> TRUE]
        BY <2>2, Zenon DEF FrameInv, JobInv
      <4> QED
        BY <4>1
    <3> QED
      BY <1>3, <1>4, <2>1, <3>1, <3>2
  <2>3. ASSUME NEW p \in Pagers, ppc[p] \in {"victim", "count", "update"}
        PROVE  FrameTable'[job[p].frame].page = EMPTY \/ ~ FrameTable'[job[p].frame].locked
    BY <1>4, <2>1, <2>3 DEF FrameInv, JobInv
  <2> QED
    BY <1>1, <1>5, <2>1, <2>2, <2>3 DEF FrameInv, JobInv, Placing, TakingOut
<1>14. VictimOwnerInv'
  <2>1. \A p \in Pagers : job[p].frame \in Frame
    BY DEF Inv, TypeInv, TypeOK, Job
  <2> QED
    BY <1>1, <1>2, <1>4, <1>5, <2>1 DEF FrameInv, VictimOwnerInv
<1>15. AnsweredInv'
  <2> SUFFICES ASSUME NEW v \in Users, Answered(v)'
               PROVE  FrameTable'[Message(v)'.frame]
                        = [page |-> offset'[v], pid |-> v, locked |-> TRUE]
    BY DEF AnsweredInv
  <2>1. v # u /\ Answered(v) /\ v \in Live
    BY <1>8, <1>9 DEF Answered, Woken, Live
  <2>2. FrameTable[Message(v).frame] = [page |-> offset[v], pid |-> v, locked |-> TRUE]
    BY <2>1 DEF FrameInv, AnsweredInv
  <2> DEFINE g == Message(v).frame
  <2>3. g \in Frame
    BY UserSlot DEF Inv, TypeInv, TypeOK, FaultMsg, Message
  <2>4. Message(v)'.frame = g /\ offset'[v] = offset[v]
    BY <1>5, <1>7, <2>1
  <2> HIDE DEF g
  <2>5. FrameTable[g].pid = v
    BY <2>2 DEF g
  <2>6. FrameTable[f].pid = u
    BY <1>3
  <2>7. FrameTable'[g] = FrameTable[g]
    BY <1>4, <2>1, <2>3, <2>5, <2>6
  <2> QED
    BY <2>2, <2>4, <2>7 DEF g
<1>16. LockInv'
  <2> SUFFICES ASSUME NEW g \in Frame, NEW v \in Users, FrameTable'[g].pid = v,
                      FrameTable'[g].locked, FrameTable'[g].page # EMPTY
               PROVE  /\ offset'[v] = FrameTable'[g].page
                      /\ \/ upc'[v] \in {"unlock", "unlocking", "exit"}
                         \/ upc'[v] = "wait" /\ Placed(v)'
    BY DEF LockInv
  <2>1. g # f /\ FrameTable'[g] = FrameTable[g]
    BY <1>4
  <2>2. offset[v] = FrameTable[g].page
    BY <2>1 DEF FrameInv, LockInv
  <2>3. v # u
    <3>1. f = pte[getProc(u)][offset[u]].frame
      <4>1. FrameTable[f].page # EMPTY
        BY <1>3 DEF Inv, TypeInv, TypeOK, Page, EMPTY
      <4> QED
        BY <1>0, <1>3, <4>1, FrameOwner DEF f
    <3>2. g = pte[getProc(v)][offset[v]].frame
      BY <2>1, <2>2, FrameOwner
    <3> QED
      BY <2>1, <3>1, <3>2
  <2> QED
    BY <1>5, <1>8, <2>1, <2>3 DEF FrameInv, LockInv
<1> QED
  BY <1>10, <1>11, <1>12, <1>13, <1>14, <1>15, <1>16 DEF FrameInv
\* The steps of a user.
LEMMA FramesUser ==
  ASSUME Inv, FrameInv, NEW u \in Users, Program(u) \/ Handler(u)
  PROVE  FrameInv'
<1>1. ASSUME NEW from, NEW to, UserStep(u, from, to),
             UNCHANGED <<offset, sem, faults, FrameTable>>,
             \/ {from, to} \subseteq {"user", "printing"}
             \/ {from, to} \subseteq {"count", "counting", "send"}
             \/ {from, to} \subseteq {"unlock", "unlocking"}
      PROVE  FrameInv'
  <2>1. \A v \in Users \ {u} : upc'[v] = upc[v]
    BY <1>1 DEF UserStep, Inv, TypeInv, TypeOK
  <2>2. upc[u] = from /\ upc'[u] = to
    BY <1>1 DEF UserStep, Inv, TypeInv, TypeOK
  <2> QED
    BY <1>1, <2>1, <2>2, FramesQuiet DEF UserStep
<1> USE DEF comm
<1>2. ASSUME NEW i \in Page, Load(u, i) PROVE FrameInv'
  BY <1>1, <1>2 DEF Load
<1>3. ASSUME NEW i \in Page, NEW v \in Values, Store(u, i, v) PROVE FrameInv'
  BY <1>1, <1>3 DEF Store
<1>4. CASE PrintStats(u)
  BY <1>1, <1>4 DEF PrintStats
<1>5. CASE PrintStatsDone(u)
  BY <1>1, <1>5 DEF PrintStatsDone
<1>6. CASE LockVmStats(u)
  BY <1>1, <1>6 DEF LockVmStats
<1>7. CASE CountFault(u)
  BY <1>1, <1>7 DEF CountFault
<1>8. CASE LockFrames(u)
  BY <1>1, <1>8 DEF LockFrames
<1> QED
  BY <1>2, <1>3, <1>4, <1>5, <1>6, <1>7, <1>8, FramesPageFault, FramesSend, FramesResume,
     FramesUnlock DEF Program, Handler

-----------------------------------------------------------------------------
(* The hooks.                                                                *)

LEMMA FramesFork ==
  ASSUME Inv, FrameInv, NEW u \in Users, p1_fork(u)
  PROVE  FrameInv'
<1> DEFINE s == getProc(u)
<1>0. s \in Slot
  BY UserSlot
<1>1. /\ upc[u] = "unborn" /\ upc' = [upc EXCEPT ![u] = "user"] /\ ProcPid[s] = EMPTY
      /\ sem' = [sem EXCEPT ![s] = 0] /\ pte' = [pte EXCEPT ![s] = EmptyTable]
      /\ UNCHANGED <<offset, faults, FrameTable, ppc, job>>
  BY DEF p1_fork
<1>2. u \notin Live /\ Live' = Live \cup {u}
  BY <1>1 DEF Live, Inv, TypeInv, TypeOK
<1>3. /\ \A v \in Users \ {u} : upc'[v] = upc[v]
      /\ upc'[u] = "user"
      /\ \A r \in Slot \ {s} : pte'[r] = pte[r] /\ sem'[r] = sem[r]
      /\ \A i \in Page : pte'[s][i].frame = EMPTY
  BY <1>0, <1>1 DEF Inv, TypeInv, TypeOK, EmptyTable, UnusedPTE
<1>4. \A v \in Live : v \in Users \ {u} /\ getProc(v) \in Slot \ {s}
  <2>1. \A v \in Live : ProcPid[getProc(v)] = v /\ v # EMPTY
    BY ProcessAssumption DEF Inv, AnswerInv, OwnSlots, Live, EMPTY
  <2> QED
    BY <1>1, <1>2, <2>1, UserSlot DEF Live
<1>5. /\ ~ Placed(u)
      /\ \A p \in Pagers : ppc[p] # "receive" => job[p].pid # u
  BY <1>1, NotServed
<1> HIDE DEF s
<1>6. \A v \in Users : Message(v)' = Message(v)
  BY <1>1 DEF Message
<1>7. \A v \in Users : /\ Woken(v)' <=> Woken(v)
                       /\ Placed(v)' <=> Placed(v)
                       /\ Answered(v)' <=> Answered(v)
  <2>1. \A v \in Users : Woken(v)' <=> Woken(v)
    BY <1>1, <1>3, <1>4 DEF Woken, Live
  <2> QED
    BY <1>1, <1>3, <1>6, <2>1 DEF Placed, Answered
<1>8. OwnersInv'
  BY <1>1, <1>2, <1>3, <1>4 DEF FrameInv, OwnersInv
<1>9. MessageInv'
  BY <1>1, <1>3, <1>4, <1>6 DEF FrameInv, MessageInv, Live
<1>10. FaultingInv'
  BY <1>1, <1>3, <1>4, <1>7 DEF FrameInv, FaultingInv, Live
<1>11. JobInv'
  BY <1>1 DEF FrameInv, JobInv
<1>12. VictimOwnerInv'
  <2> SUFFICES ASSUME NEW p \in Pagers, ppc[p] \in {"count", "update"} \cup TakingOut,
                      job[p].outPage # EMPTY
               PROVE  /\ job[p].outPid \in Users /\ upc'[job[p].outPid] # "unborn"
                      /\ ppc[p] \in {"count", "update"} /\ FrameTable[job[p].frame].page = EMPTY =>
                            /\ job[p].outPid \notin Live'
                            /\ \A i \in Page : pte'[getProc(job[p].outPid)][i].frame = EMPTY
    BY <1>1 DEF VictimOwnerInv
  <2> DEFINE o == job[p].outPid
  <2>1. /\ o \in Users /\ upc[o] # "unborn"
        /\ ppc[p] \in {"count", "update"} /\ FrameTable[job[p].frame].page = EMPTY =>
                o \notin Live /\ \A i \in Page : pte[getProc(o)][i].frame = EMPTY
    BY DEF FrameInv, VictimOwnerInv
  <2> HIDE DEF o
  <2>2. o # u /\ getProc(o) \in Slot
    BY <1>1, <2>1, UserSlot
  <2>3. \A i \in Page : pte[getProc(o)][i].frame = EMPTY => pte'[getProc(o)][i].frame = EMPTY
    BY <1>3, <2>2
  <2> QED
    BY <1>2, <1>3, <2>1, <2>2, <2>3 DEF o
<1>13. AnsweredInv'
  BY <1>1, <1>6, <1>7 DEF FrameInv, AnsweredInv
<1>14. LockInv'
  BY <1>1, <1>3, <1>7 DEF FrameInv, LockInv
<1> QED
  BY <1>8, <1>9, <1>10, <1>11, <1>12, <1>13, <1>14 DEF FrameInv

LEMMA FramesQuit ==
  ASSUME Inv, FrameInv, NEW u \in Users, p1_quit(u)
  PROVE  FrameInv'
<1> DEFINE s == getProc(u)
<1>0. s \in Slot
  BY UserSlot
<1>1. cur = u /\ upc[u] \in {"exit", "user"}
  BY DEF p1_quit, Running
<1>2. CanUnload(u)
  BY <1>1, UserUnloads
<1>3. /\ upc' = [upc EXCEPT ![u] = "dead"] /\ FrameTable' = FramesCleared(u)
      /\ sem' = [sem EXCEPT ![s] = 0] /\ pte' = [pte EXCEPT ![s] = EmptyTable]
      /\ offset' = [offset EXCEPT ![u] = 0] /\ faults' = [faults EXCEPT ![s] = NoFault]
      /\ UNCHANGED <<ppc, job>>
  BY <1>2 DEF p1_quit, Forget
<1>4. u \in Live /\ Live' = Live \ {u}
  BY <1>1, <1>3 DEF Live, Inv, TypeInv, TypeOK
<1>5. /\ \A v \in Users \ {u} : upc'[v] = upc[v] /\ offset'[v] = offset[v]
      /\ upc'[u] = "dead"
      /\ \A r \in Slot \ {s} : pte'[r] = pte[r] /\ sem'[r] = sem[r] /\ faults'[r] = faults[r]
      /\ \A i \in Page : pte'[s][i].frame = EMPTY
  BY <1>0, <1>3 DEF Inv, TypeInv, TypeOK, EmptyTable, UnusedPTE
<1>6. \A v \in Live \ {u} : v \in Users \ {u} /\ getProc(v) \in Slot \ {s}
  BY <1>4, OtherSlots
<1>7. /\ ~ Placed(u)
      /\ \A p \in Pagers : ppc[p] # "receive" => job[p].pid # u /\ job[p].pid # s
  BY <1>1, <1>4, NotServed
<1>8. \A f \in Frame :
        /\ FrameTable[f].pid # u => FrameTable'[f] = FrameTable[f]
        /\ FrameTable[f].pid = u => FrameTable'[f].pid = EMPTY /\ FrameTable'[f].page = EMPTY
  BY <1>3 DEF Inv, TypeInv, TypeOK, FramesCleared, Entry
<1>9. EMPTY \notin Users
  BY ProcessAssumption DEF EMPTY
<1> HIDE DEF s
<1>10. \A v \in Live \ {u} : Message(v)' = Message(v)
  BY <1>5, <1>6 DEF Message
<1>11. \A v \in Users : Woken(v)' <=> Woken(v)
  BY <1>1, <1>5, <1>6 DEF Woken, Live
<1>12. \A v \in Users : Placed(v)' <=> Placed(v)
  BY <1>3, <1>10, <1>11, <1>1 DEF Placed, Woken, Live
<1>13. \A v \in Users : Answered(v)' => Answered(v) /\ v \in Live \ {u}
  BY <1>1, <1>5, <1>10, <1>11 DEF Answered, Woken, Live
<1>14. OwnersInv'
  <2> SUFFICES ASSUME NEW f \in Frame, FrameTable'[f].page # EMPTY
               PROVE  /\ FrameTable'[f].pid \in Live'
                      /\ pte'[getProc(FrameTable'[f].pid)][FrameTable'[f].page].frame = f
    BY DEF OwnersInv
  <2>1. FrameTable[f].pid # u /\ FrameTable'[f] = FrameTable[f]
    BY <1>8
  <2> QED
    BY <1>4, <1>5, <1>6, <2>1, FrameOwner
<1>15. MessageInv'
  BY <1>3, <1>5, <1>6, <1>10 DEF FrameInv, MessageInv, Live
<1>16. FaultingInv'
  BY <1>3, <1>5, <1>6, <1>12 DEF FrameInv, FaultingInv, Live
<1>17. JobInv'
  <2>1. ASSUME NEW p \in Pagers, ppc[p] # "receive"
        PROVE  /\ job[p].pid \in Users \ {u} /\ job[p].pid \in Slot \ {s}
               /\ job[p].frame \in Frame
    BY <1>7, <2>1, ServedWaits DEF Inv, TypeInv, TypeOK, Job
  <2>2. ASSUME NEW p \in Pagers, ppc[p] \in Placing
        PROVE  FrameTable'[job[p].frame] = [page |-> job[p].page, pid |-> job[p].pid,
                                            locked |-> TRUE]
    <3>1. ppc[p] # "receive"
      BY <2>2 DEF Placing, TakingOut
    <3>2. FrameTable[job[p].frame] = [page |-> job[p].page, pid |-> job[p].pid,
                                      locked |-> TRUE]
      BY <2>2, Zenon DEF FrameInv, JobInv
    <3>3. FrameTable[job[p].frame].pid # u
      BY <2>1, <3>1, <3>2
    <3> QED
      BY <1>8, <2>1, <3>1, <3>2, <3>3
  <2>3. ASSUME NEW p \in Pagers, ppc[p] \in {"victim", "count", "update"}
        PROVE  FrameTable'[job[p].frame].page = EMPTY \/ ~ FrameTable'[job[p].frame].locked
    BY <1>8, <2>1, <2>3 DEF FrameInv, JobInv
  <2> QED
    BY <1>3, <1>5, <2>1, <2>2, <2>3 DEF FrameInv, JobInv
<1>18. VictimOwnerInv'
  <2> SUFFICES ASSUME NEW p \in Pagers, ppc[p] \in {"count", "update"} \cup TakingOut,
                      job[p].outPage # EMPTY
               PROVE  /\ job[p].outPid \in Users /\ upc'[job[p].outPid] # "unborn"
                      /\ ppc[p] \in {"count", "update"} /\ FrameTable'[job[p].frame].page = EMPTY =>
                            /\ job[p].outPid \notin Live'
                            /\ \A i \in Page : pte'[getProc(job[p].outPid)][i].frame = EMPTY
    BY <1>3 DEF VictimOwnerInv
  <2> DEFINE o == job[p].outPid
  <2>1. /\ o \in Users /\ upc[o] # "unborn"
        /\ ppc[p] \in {"count", "update"} /\ FrameTable[job[p].frame].page = EMPTY =>
                o \notin Live /\ \A i \in Page : pte[getProc(o)][i].frame = EMPTY
    BY DEF FrameInv, VictimOwnerInv
  <2>2. ppc[p] \in {"count", "update"} /\ FrameTable[job[p].frame].page # EMPTY =>
            FrameTable[job[p].frame].pid = o
    BY DEF Inv, TablesInv, VictimInv
  <2>3. job[p].frame \in Frame
    BY DEF Inv, TypeInv, TypeOK, Job
  <2> HIDE DEF o
  <2>4. getProc(o) \in Slot
    BY <2>1, UserSlot
  <2>5. \A i \in Page : pte[getProc(o)][i].frame = EMPTY => pte'[getProc(o)][i].frame = EMPTY
    BY <1>5, <2>4
  <2>6. o = u => \A i \in Page : pte'[getProc(o)][i].frame = EMPTY
    BY <1>5 DEF s
  <2>7. upc'[o] # "unborn"
    BY <1>5, <2>1
  <2>8. ASSUME ppc[p] \in {"count", "update"}, FrameTable'[job[p].frame].page = EMPTY
        PROVE  o \notin Live' /\ \A i \in Page : pte'[getProc(o)][i].frame = EMPTY
    <3>1. CASE FrameTable[job[p].frame].page = EMPTY
      BY <1>4, <2>1, <2>5, <2>8, <3>1
    <3>2. CASE FrameTable[job[p].frame].page # EMPTY
      BY <1>4, <1>8, <2>2, <2>3, <2>6, <2>8, <3>2
    <3> QED
      BY <3>1, <3>2
  <2> QED
    BY <2>1, <2>7, <2>8 DEF o
<1>19. AnsweredInv'
  <2> SUFFICES ASSUME NEW v \in Users, Answered(v)'
               PROVE  FrameTable'[Message(v)'.frame]
                        = [page |-> offset'[v], pid |-> v, locked |-> TRUE]
    BY DEF AnsweredInv
  <2> DEFINE g == Message(v).frame
  <2>1. Answered(v) /\ v \in Live \ {u}
    BY <1>13
  <2>2. FrameTable[g] = [page |-> offset[v], pid |-> v, locked |-> TRUE]
    BY <2>1 DEF FrameInv, AnsweredInv
  <2>3. g \in Frame
    BY UserSlot DEF Inv, TypeInv, TypeOK, FaultMsg, Message
  <2>4. Message(v)'.frame = g /\ offset'[v] = offset[v]
    BY <1>5, <1>10, <2>1
  <2> HIDE DEF g
  <2>5. FrameTable[g].pid # u
    BY <2>1, <2>2
  <2> QED
    BY <1>8, <2>2, <2>3, <2>4, <2>5 DEF g
<1>20. LockInv'
  <2> SUFFICES ASSUME NEW g \in Frame, NEW v \in Users, FrameTable'[g].pid = v,
                      FrameTable'[g].locked, FrameTable'[g].page # EMPTY
               PROVE  /\ offset'[v] = FrameTable'[g].page
                      /\ \/ upc'[v] \in {"unlock", "unlocking", "exit"}
                         \/ upc'[v] = "wait" /\ Placed(v)'
    BY DEF LockInv
  <2>1. FrameTable'[g] = FrameTable[g] /\ v # u
    BY <1>8
  <2> QED
    BY <1>5, <1>12, <2>1 DEF FrameInv, LockInv
<1> QED
  BY <1>14, <1>15, <1>16, <1>17, <1>18, <1>19, <1>20 DEF FrameInv
LEMMA FramesSwitch ==
  ASSUME Inv, FrameInv, NEW x \in Process, p1_switch(x)
  PROVE  FrameInv'
<1>1. UNCHANGED <<offset, sem, faults, FrameTable, pte, upc, ppc, job>>
  BY DEF p1_switch, Halt, comm
<1> QED
  BY <1>1, FramesQuiet

LEMMA FramesHalt ==
  ASSUME Inv, FrameInv, NEW why, Halt(why)
  PROVE  FrameInv'
<1>1. UNCHANGED <<offset, sem, faults, FrameTable, pte, upc, ppc, job>>
  BY DEF Halt, comm
<1> QED
  BY <1>1, FramesQuiet

-----------------------------------------------------------------------------
(* The pager.                                                                *)

LEMMA FramesReceive ==
  ASSUME Inv, FrameInv, OnePager, NEW p \in Pagers, Receive(p)
  PROVE  FrameInv'
<1> DEFINE u == Head(FaultsMbox)
           j == [NoJob EXCEPT !.pid = u, !.page = faults[u].page,
                    !.exists = pte[getProc(u)][faults[u].page].state # "UNUSED"]
<1>1. CASE u >= MAXPROC
  BY <1>1, FramesHalt DEF Receive
<1>2. CASE ~ (u >= MAXPROC)
  <2>1. /\ ppc[p] = "receive" /\ FaultsMbox # <<>>
        /\ Step(p, "receive", "select", j)
        /\ UNCHANGED <<upc, offset, sem, faults, FrameTable, pte>>
    BY <1>2 DEF Receive, Step, At
  <2>2. u = FaultsMbox[1] /\ 1 \in 1 .. Len(FaultsMbox) /\ u \in Users
    BY <2>1 DEF Inv, TypeInv, TypeOK
  <2>3. upc[u] = "wait"
    BY <2>2 DEF Inv, AnswerInv, MailInv
  <2>4. getProc(u) = u
    <3>1. u \in Nat
      BY <2>2, ProcessAssumption
    <3> HIDE DEF u
    <3>2. u < MAXPROC
      BY <1>2, <3>1, ProcessAssumption
    <3> QED
      BY <3>1, <3>2, ProcessAssumption DEF getProc
  <2>5. faults[u].page = offset[u]
    BY <2>2, <2>3, <2>4 DEF FrameInv, MessageInv, Message
  <2>6. j.pid = u /\ j.page = faults[u].page
    BY DEF NoJob
  <2> HIDE DEF j, u
  <2>7. Pagers = {p} /\ ppc'[p] = "select" /\ job'[p].pid = u /\ job'[p].page = offset[u]
    BY <2>1, <2>5, <2>6 DEF OnePager, Step, Inv, TypeInv, TypeOK
  <2>8. Live' = Live
    BY <2>1 DEF Live
  <2>9. \A v \in Users : Message(v)' = Message(v) /\ (Woken(v)' <=> Woken(v))
    BY <2>1 DEF Message, Woken
  <2>10. \A v \in Users : (Placed(v)' <=> Placed(v)) /\ (Answered(v)' <=> Answered(v))
    BY <2>1, <2>7, <2>9 DEF Placed, Answered, Placing, TakingOut
  <2>11. OwnersInv'
    BY <2>1, <2>8 DEF FrameInv, OwnersInv
  <2>12. MessageInv'
    BY <2>1, <2>9 DEF FrameInv, MessageInv
  <2>13. FaultingInv'
    BY <2>1, <2>10 DEF FrameInv, FaultingInv
  <2>14. JobInv'
    BY <2>1, <2>7 DEF JobInv, Placing, TakingOut
  <2>15. VictimOwnerInv'
    BY <2>7 DEF VictimOwnerInv, TakingOut
  <2>16. AnsweredInv'
    BY <2>1, <2>9, <2>10 DEF FrameInv, AnsweredInv
  <2>17. LockInv'
    BY <2>1, <2>10 DEF FrameInv, LockInv
  <2> QED
    BY <2>11, <2>12, <2>13, <2>14, <2>15, <2>16, <2>17 DEF FrameInv
<1> QED
  BY <1>1, <1>2

\* The frame of a search is free or not locked.
LEMMA SearchedFrame ==
  ASSUME NEW ft, NEW bits \in [Frame -> BOOLEAN], NEW hand \in Frame,
         NextFrame(ft, bits, hand).frame # EMPTY
  PROVE  LET f == NextFrame(ft, bits, hand).frame
         IN  f \in Frame /\ (ft[f].page = EMPTY \/ ~ ft[f].locked)
<1>1. NextFrame(ft, bits, hand).frame \in Frame
  BY NextFrameType DEF Choice
<1>2. CASE FreeFrames(ft) # {}
  <2>1. FreeFrames(ft) \in SUBSET Nat
    BY NumFramesAssumption DEF FreeFrames, Frame
  <2>2. Least(FreeFrames(ft)) \in FreeFrames(ft)
    BY <1>2, <2>1, LeastIsLeast
  <2> QED
    BY <1>1, <1>2, <2>2 DEF NextFrame, FreeFrames
<1>3. CASE FreeFrames(ft) = {}
  <2> DEFINE stops == Stops(ft, bits, hand)
             last  == Least(stops)
  <2>1. stops # {}
    BY <1>3 DEF NextFrame, ClockSearch
  <2>2. stops \in SUBSET Nat
    BY NumFramesAssumption DEF Stops
  <2>3. last \in stops
    BY <2>1, <2>2, LeastIsLeast
  <2>4. ~ ft[Look(hand, last)].locked
    BY <2>3 DEF Stops
  <2>5. NextFrame(ft, bits, hand).frame = Look(hand, last)
    BY <1>3, <2>1 DEF NextFrame, ClockSearch
  <2> HIDE DEF last
  <2> QED
    BY <1>1, <2>4, <2>5
<1> QED
  BY <1>2, <1>3

\* A frame is chosen, and named in the message.
LEMMA FramesChoose ==
  ASSUME Inv, FrameInv, OnePager, NEW p \in Pagers, NEW f \in Frame,
         Step(p, "select", "victim", [job[p] EXCEPT !.frame = f]),
         faults' = [faults EXCEPT ![job[p].pid].frame = f],
         FrameTable[f].page = EMPTY \/ ~ FrameTable[f].locked,
         UNCHANGED <<sem, pte, FrameTable>>
  PROVE  FrameInv'
<1> DEFINE u == job[p].pid
<1>1. Pagers = {p} /\ ppc[p] = "select" /\ UNCHANGED <<upc, offset>>
  BY DEF OnePager, Step, At
<1>2. /\ u \in Users /\ u \in Slot /\ u \in Live /\ getProc(u) = u
      /\ upc[u] = "wait" /\ sem[u] = 0
  BY <1>1, ServedWaits
<1>3. /\ ppc'[p] = "victim" /\ job'[p].pid = u /\ job'[p].page = job[p].page
      /\ job'[p].frame = f
  BY DEF Step, Inv, TypeInv, TypeOK, Job
<1> HIDE DEF u
<1>4. /\ \A s \in Slot : /\ faults'[s].page = faults[s].page
                         /\ faults'[s].failed = faults[s].failed
                         /\ faults'[s].shouldTerminate = faults[s].shouldTerminate
      /\ \A s \in Slot \ {u} : faults'[s] = faults[s]
      /\ faults'[u].frame = f
  BY <1>2 DEF Inv, TypeInv, TypeOK, FaultMsg, u
<1>5. Live' = Live
  BY <1>1 DEF Live
<1>6. \A v \in Users : /\ Message(v)'.page = Message(v).page
                       /\ Message(v)'.failed = Message(v).failed
                       /\ Message(v)'.shouldTerminate = Message(v).shouldTerminate
                       /\ Woken(v)' <=> Woken(v)
  BY <1>1, <1>4, UserSlot DEF Message, Woken
<1>7. \A v \in Users : (Placed(v)' <=> Placed(v)) /\ (Answered(v)' <=> Answered(v))
  <2>1. \A v \in Users : Placed(v)' <=> Placed(v)
    BY <1>1, <1>3, <1>6 DEF Placed, Placing, TakingOut
  <2>2. \A v \in Users : AfterFault(Message(v))' = AfterFault(Message(v))
    BY <1>6 DEF AfterFault
  <2>3. \A v \in Users : Answered(v)' <=> Answered(v)
    BY <1>1, <1>6, <2>2 DEF Answered
  <2> QED
    BY <2>1, <2>3
<1>8. OwnersInv'
  BY <1>5 DEF FrameInv, OwnersInv
<1>9. MessageInv'
  BY <1>1, <1>6 DEF FrameInv, MessageInv
<1>10. FaultingInv'
  BY <1>1, <1>7 DEF FrameInv, FaultingInv
<1>11. JobInv'
  <2>1. job[p].page = offset[u]
    BY <1>1 DEF FrameInv, JobInv, u
  <2> QED
    BY <1>1, <1>3, <1>4, <2>1 DEF JobInv, Placing, TakingOut
<1>12. VictimOwnerInv'
  BY <1>1, <1>3 DEF VictimOwnerInv, TakingOut
<1>13. AnsweredInv'
  <2>1. ASSUME NEW v \in Users, Answered(v) PROVE Message(v)' = Message(v)
    <3>1. v # u /\ v \in Live
      BY <1>2, <2>1 DEF Answered, Woken, Live
    <3>2. getProc(v) \in Slot \ {u}
      BY <1>2, <3>1, OtherSlots
    <3> QED
      BY <1>4, <3>2 DEF Message
  <2> QED
    BY <1>1, <1>7, <2>1 DEF FrameInv, AnsweredInv
<1>14. LockInv'
  BY <1>1, <1>7 DEF FrameInv, LockInv
<1> QED
  BY <1>8, <1>9, <1>10, <1>11, <1>12, <1>13, <1>14 DEF FrameInv

\* The process is woken: without a frame when none was found, with its frame otherwise.
LEMMA FramesAnswer ==
  ASSUME Inv, FrameInv, OnePager, NEW p \in Pagers, NEW from, NEW msg \in FaultMsg,
         Answer(p, from, msg), UNCHANGED <<pte, FrameTable>>,
         msg.page = faults[job[p].pid].page, msg.frame = faults[job[p].pid].frame,
         \/ from = "select" /\ msg.failed
                            /\ msg.shouldTerminate = faults[job[p].pid].shouldTerminate
         \/ from \in Placing /\ ~ msg.failed
  PROVE  FrameInv'
<1>0. PICK u \in Users : u = job[p].pid
  <2>1. ppc[p] # "receive"
    BY DEF Answer, Step, At, Placing, TakingOut
  <2> QED
    BY <2>1, ServedWaits
<1>1. /\ Pagers = {p} /\ ppc[p] = from /\ ppc[p] # "receive" /\ UNCHANGED <<upc, offset>>
      /\ ppc' = [ppc EXCEPT ![p] = "receive"] /\ job' = [job EXCEPT ![p] = NoJob]
      /\ faults' = [faults EXCEPT ![u] = msg] /\ sem' = [sem EXCEPT ![getProc(u)] = @ + 1]
  BY <1>0 DEF OnePager, Answer, Step, At, semVProc, Placing, TakingOut
<1>2. /\ u \in Slot /\ u \in Live /\ getProc(u) = u
      /\ upc[u] = "wait" /\ sem[u] = 0
  BY <1>0, <1>1, ServedWaits
<1>3. ppc'[p] = "receive"
  BY <1>1 DEF Inv, TypeInv, TypeOK
<1>4. ~ faults[u].failed /\ ~ faults[u].shouldTerminate /\ faults[u].page = offset[u]
  BY <1>2 DEF FrameInv, MessageInv, Message
<1>5. job[p].page = offset[u] /\ (from # "select" => faults[u].frame = job[p].frame)
  BY <1>0, <1>1 DEF FrameInv, JobInv
<1>6. /\ sem'[u] = 1 /\ faults'[u] = msg
      /\ \A s \in Slot \ {u} : sem'[s] = sem[s] /\ faults'[s] = faults[s]
  BY <1>1, <1>2 DEF Inv, TypeInv, TypeOK
<1>7. from \in Placing => FrameTable[job[p].frame] = [page |-> job[p].page, pid |-> u,
                                                      locked |-> TRUE]
  BY <1>0, <1>1, Zenon DEF FrameInv, JobInv
<1>8. Live' = Live
  BY <1>1 DEF Live
<1>9. \A v \in Users \ {u} : v \in Live => getProc(v) \in Slot \ {u}
  BY <1>2, OtherSlots
<1>10. \A v \in Users \ {u} : v \in Live => Message(v)' = Message(v)
  BY <1>6, <1>9 DEF Message
<1>11. \A v \in Users \ {u} : /\ Woken(v)' <=> Woken(v)
                              /\ Placed(v)' <=> Placed(v)
                              /\ Answered(v)' <=> Answered(v)
  <2>1. \A v \in Users \ {u} : Woken(v)' <=> Woken(v)
    BY <1>1, <1>6, <1>9 DEF Woken, Live
  <2>2. \A v \in Users \ {u} : ~ (ppc'[p] \in Placing /\ job'[p].pid = v)
    BY <1>3 DEF Placing, TakingOut
  <2>3. \A v \in Users \ {u} : job[p].pid # v
    BY <1>0
  <2>4. \A v \in Users : Woken(v) => v \in Live
    BY DEF Woken, Live
  <2> QED
    BY <1>1, <1>10, <2>1, <2>2, <2>3, <2>4 DEF Placed, Answered
<1>12. Message(u)' = msg /\ Woken(u)' /\ ~ Woken(u)
  <2>1. Message(u)' = msg
    BY <1>2, <1>6 DEF Message
  <2>2. Woken(u)'
    BY <1>1, <1>2, <1>6 DEF Woken
  <2>3. ~ Woken(u)
    BY <1>2 DEF Woken
  <2> QED
    BY <2>1, <2>2, <2>3
<1>13. /\ Placed(u)' <=> ~ msg.failed
       /\ Placed(u) <=> ~ msg.failed
  BY <1>0, <1>1, <1>3, <1>12 DEF Placed, Placing, TakingOut
<1>14. OwnersInv'
  BY <1>8 DEF FrameInv, OwnersInv
<1>15. MessageInv'
  <2> SUFFICES ASSUME NEW v \in Users, upc'[v] = "wait"
               PROVE  /\ Message(v)'.page = offset'[v]
                      /\ sem'[getProc(v)] = 0 =>
                            ~ Message(v)'.failed /\ ~ Message(v)'.shouldTerminate
    BY DEF MessageInv
  <2>1. CASE v = u
    <3>1. msg.page = offset[u]
      BY <1>0, <1>4
    <3>2. sem'[getProc(u)] = 1 /\ offset'[u] = offset[u]
      BY <1>1, <1>2, <1>6
    <3> QED
      BY <1>12, <2>1, <3>1, <3>2
  <2>2. CASE v # u
    <3>1. upc[v] = "wait" /\ v \in Live /\ offset'[v] = offset[v]
      BY <1>1 DEF Live
    <3>2. sem'[getProc(v)] = sem[getProc(v)]
      BY <1>6, <1>9, <2>2, <3>1
    <3>3. Message(v)' = Message(v)
      BY <1>10, <2>2, <3>1
    <3> QED
      BY <3>1, <3>2, <3>3 DEF FrameInv, MessageInv
  <2> QED
    BY <2>1, <2>2
<1>16. FaultingInv'
  <2>1. \A v \in Users : Placed(v)' <=> Placed(v)
    BY <1>11, <1>13
  <2> QED
    BY <1>1, <2>1 DEF FrameInv, FaultingInv
<1>17. JobInv'
  BY <1>1, <1>3 DEF JobInv, Placing, TakingOut
<1>18. VictimOwnerInv'
  BY <1>1, <1>3 DEF VictimOwnerInv, TakingOut
<1>19. AnsweredInv'
  <2> SUFFICES ASSUME NEW v \in Users, Answered(v)'
               PROVE  FrameTable[Message(v)'.frame]
                        = [page |-> offset[v], pid |-> v, locked |-> TRUE]
    BY <1>1 DEF AnsweredInv
  <2>1. CASE v = u
    <3>1. ~ msg.failed
      <4>1. AfterFault(msg) # "send"
        BY <1>1, <1>2, <1>12, <2>1 DEF Answered
      <4>2. from = "select" => ~ msg.shouldTerminate
        BY <1>0, <1>4 DEF Placing, TakingOut
      <4> QED
        BY <4>1, <4>2 DEF AfterFault
    <3>2. from \in Placing /\ from # "select"
      BY <3>1 DEF Placing, TakingOut
    <3>3. Message(v)'.frame = job[p].frame
      <4>1. msg.frame = job[p].frame
        BY <1>0, <1>5, <3>2
      <4> QED
        BY <1>12, <2>1, <4>1
    <3> QED
      BY <1>5, <1>7, <2>1, <3>2, <3>3
  <2>2. CASE v # u
    <3>1. Answered(v) /\ v \in Live
      BY <1>11, <2>2 DEF Answered, Woken, Live
    <3> QED
      BY <1>10, <2>2, <3>1 DEF FrameInv, AnsweredInv
  <2> QED
    BY <2>1, <2>2
<1>20. LockInv'
  <2>1. \A v \in Users : Placed(v)' <=> Placed(v)
    BY <1>11, <1>13
  <2> QED
    BY <1>1, <2>1 DEF FrameInv, LockInv
<1> QED
  BY <1>14, <1>15, <1>16, <1>17, <1>18, <1>19, <1>20 DEF FrameInv

LEMMA FramesVictim ==
  ASSUME Inv, FrameInv, OnePager, NEW p \in Pagers, TakeVictim(p)
  PROVE  FrameInv'
<1> DEFINE e == FrameTable[job[p].frame]
           j == [job[p] EXCEPT !.outPage = e.page, !.outPid = e.pid]
           to == IF job[p].exists THEN "update" ELSE "count"
<1>1. /\ Step(p, "victim", to, j) /\ Pagers = {p} /\ ppc[p] = "victim"
      /\ UNCHANGED <<upc, offset, sem, faults, FrameTable, pte>>
  BY DEF TakeVictim, Step, At, OnePager, comm
<1>2. /\ j.pid = job[p].pid /\ j.page = job[p].page /\ j.frame = job[p].frame
      /\ j.outPage = e.page /\ j.outPid = e.pid /\ to \in {"update", "count"}
  BY DEF Inv, TypeInv, TypeOK, Job
<1> HIDE DEF j, to
<1>3. ppc'[p] = to /\ job'[p] = j
  BY <1>1 DEF Step, Inv, TypeInv, TypeOK
<1>4. Live' = Live
  BY <1>1 DEF Live
<1>5. \A v \in Users : Message(v)' = Message(v) /\ (Woken(v)' <=> Woken(v))
  BY <1>1 DEF Message, Woken
<1>6. \A v \in Users : (Placed(v)' <=> Placed(v)) /\ (Answered(v)' <=> Answered(v))
  BY <1>1, <1>2, <1>3, <1>5 DEF Placed, Answered, Placing, TakingOut
<1>7. OwnersInv'
  BY <1>1, <1>4 DEF FrameInv, OwnersInv
<1>8. MessageInv'
  BY <1>1, <1>5 DEF FrameInv, MessageInv
<1>9. FaultingInv'
  BY <1>1, <1>6 DEF FrameInv, FaultingInv
<1>10. JobInv'
  BY <1>1, <1>2, <1>3 DEF FrameInv, JobInv, Placing, TakingOut
<1>11. VictimOwnerInv'
  <2>1. job[p].frame \in Frame
    BY DEF Inv, TypeInv, TypeOK, Job
  <2>2. e.page # EMPTY => e.pid \in Users /\ upc[e.pid] # "unborn"
    BY <2>1, FrameOwner DEF Live
  <2> QED
    BY <1>1, <1>2, <1>3, <2>2 DEF VictimOwnerInv, TakingOut
<1>12. AnsweredInv'
  BY <1>1, <1>5, <1>6 DEF FrameInv, AnsweredInv
<1>13. LockInv'
  BY <1>1, <1>6 DEF FrameInv, LockInv
<1> QED
  BY <1>7, <1>8, <1>9, <1>10, <1>11, <1>12, <1>13 DEF FrameInv
\* The page tables after the update: the entry of the page that comes in, that of the page
\* that goes out, and the others.
LEMMA AssignedEntries ==
  ASSUME TypeInv, NEW p \in Pagers, UpdateTables(p), NEW s \in Slot, NEW i \in Page
  PROVE  LET j == job[p]
             in  == s = getProc(j.pid) /\ i = j.page
             out == j.outPage # EMPTY /\ s = getProc(j.outPid) /\ i = j.outPage
         IN  /\ pte'[s][i].diskBlock = pte[s][i].diskBlock
             /\ in => pte'[s][i].frame = j.frame /\ pte'[s][i].state = "INMEM"
             /\ out /\ ~ in => pte'[s][i].frame = EMPTY /\ pte'[s][i].state = "ONDISK"
             /\ ~ out /\ ~ in => pte'[s][i] = pte[s][i]
<1> DEFINE j == job[p]
           tbl == Evicted(pte, j)
           in  == s = getProc(j.pid) /\ i = j.page
           out == j.outPage # EMPTY /\ s = getProc(j.outPid) /\ i = j.outPage
<1>1. ppc[p] = "update" /\ pte' = Assigned(tbl, j)
  BY DEF UpdateTables, Step, At
<1>2. j \in Job /\ j.page \in Page /\ j.pid \in Users /\ getProc(j.pid) \in Slot
      /\ getProc(j.outPid) \in Slot
  <2>1. j \in Job /\ j.pid \in Users
    BY <1>1 DEF TypeInv, TypeOK, AtWork
  <2> QED
    BY <2>1, OutSlot, UserSlot DEF Job
<1> HIDE DEF j
<1>3. pte \in [Slot -> [Page -> PTE]]
  BY DEF TypeInv, TypeOK
<1>4. /\ tbl[s] \in [Page -> PTE] /\ tbl \in [Slot -> [Page -> PTE]]
      /\ tbl[s][i].diskBlock = pte[s][i].diskBlock
      /\ out => tbl[s][i].frame = EMPTY /\ tbl[s][i].state = "ONDISK"
      /\ ~ out => tbl[s][i] = pte[s][i]
  <2>1. CASE j.outPage = EMPTY
    BY <1>3, <2>1 DEF Evicted
  <2>2. CASE j.outPage # EMPTY
    <3> DEFINE r == getProc(j.outPid)
               new == [pte[r][j.outPage] EXCEPT !.state = "ONDISK", !.frame = EMPTY]
    <3>1. j.outPage \in Page
      BY <1>2, <2>2 DEF Job
    <3>2. new \in PTE /\ new.state = "ONDISK" /\ new.frame = EMPTY
          /\ new.diskBlock = pte[r][j.outPage].diskBlock
      <4>1. pte[r][j.outPage] \in PTE
        BY <1>2, <1>3, <3>1
      <4> QED
        BY <4>1 DEF PTE
    <3>3. tbl = [pte EXCEPT ![r][j.outPage] = new]
      BY <2>2 DEF Evicted
    <3> HIDE DEF new
    <3>4. tbl \in [Slot -> [Page -> PTE]]
      BY <1>2, <1>3, <3>1, <3>2, <3>3, TableUpdate
    <3>5. tbl[s][i] = IF s = r /\ i = j.outPage THEN new ELSE pte[s][i]
      BY <1>2, <1>3, <3>1, <3>3
    <3> HIDE DEF tbl
    <3> QED
      BY <2>2, <3>2, <3>4, <3>5
  <2> QED
    BY <2>1, <2>2
<1> HIDE DEF tbl
<1> DEFINE put == [tbl[getProc(j.pid)][j.page] EXCEPT !.state = "INMEM", !.frame = j.frame]
<1>5. /\ put.state = "INMEM" /\ put.frame = j.frame
      /\ put.diskBlock = tbl[getProc(j.pid)][j.page].diskBlock
  BY <1>2, <1>4 DEF PTE
<1>6. pte' = [tbl EXCEPT ![getProc(j.pid)][j.page] = put]
  BY <1>1 DEF Assigned
<1> HIDE DEF put
<1>7. pte'[s][i] = IF in THEN put ELSE tbl[s][i]
  BY <1>2, <1>4, <1>6
<1>8. /\ pte'[s][i].diskBlock = pte[s][i].diskBlock
      /\ in => pte'[s][i].frame = j.frame /\ pte'[s][i].state = "INMEM"
      /\ out /\ ~ in => pte'[s][i].frame = EMPTY /\ pte'[s][i].state = "ONDISK"
      /\ ~ out /\ ~ in => pte'[s][i] = pte[s][i]
  BY <1>4, <1>5, <1>7
<1> QED
  BY <1>8 DEF j

\* The page that goes out is in the pager's frame, or in none: its owner has quit.
LEMMA OutFrame ==
  ASSUME Inv, FrameInv, NEW p \in Pagers, ppc[p] = "update", job[p].outPage # EMPTY
  PROVE  pte[getProc(job[p].outPid)][job[p].outPage].frame \in {EMPTY, job[p].frame}
<1>1. job[p].frame \in Frame /\ job[p].outPage \in Page
  BY DEF Inv, TypeInv, TypeOK, Job
<1>2. \/ FrameTable[job[p].frame].page = EMPTY
      \/ /\ FrameTable[job[p].frame].page = job[p].outPage
         /\ FrameTable[job[p].frame].pid = job[p].outPid
  BY DEF Inv, TablesInv, VictimInv
<1>3. CASE FrameTable[job[p].frame].page = EMPTY
  BY <1>1, <1>3 DEF FrameInv, VictimOwnerInv
<1>4. CASE FrameTable[job[p].frame].page # EMPTY
  BY <1>1, <1>2, <1>4, FrameOwner
<1> QED
  BY <1>3, <1>4

LEMMA FramesAssigned ==
  ASSUME Inv, FrameInv, OnePager, NEW p \in Pagers, UpdateTables(p)
  PROVE  FrameInv'
<1>0. PICK u \in Users : u = job[p].pid
  <2>1. ppc[p] # "receive"
    BY DEF UpdateTables, Step, At
  <2> QED
    BY <2>1, ServedWaits
<1> DEFINE j == job[p]
<1>1. /\ Pagers = {p} /\ ppc[p] = "update"
      /\ ppc' = [ppc EXCEPT ![p] = "access"] /\ job' = [job EXCEPT ![p] = j]
      /\ FrameTable' = [FrameTable EXCEPT ![j.frame] = Occupied(j)]
      /\ UNCHANGED <<upc, offset, sem, faults>>
  BY DEF OnePager, UpdateTables, Step, At, comm
<1>2. /\ u \in Slot /\ u \in Live /\ getProc(u) = u
      /\ upc[u] = "wait" /\ sem[u] = 0
  BY <1>0, <1>1, ServedWaits
<1>3. ppc'[p] = "access" /\ job' = job /\ j.frame \in Frame /\ j.page \in Page
      /\ j.outPage \in Page \cup {EMPTY} /\ getProc(j.outPid) \in Slot
  <2>1. j \in Job /\ job' = job /\ ppc'[p] = "access"
    BY <1>1 DEF Inv, TypeInv, TypeOK
  <2> QED
    BY <2>1, OutSlot DEF Job
<1>4. /\ FrameTable'[j.frame] = [page |-> j.page, pid |-> u, locked |-> TRUE]
      /\ \A f \in Frame \ {j.frame} : FrameTable'[f] = FrameTable[f]
  BY <1>0, <1>1, <1>3 DEF Inv, TypeInv, TypeOK, Occupied
<1>5. /\ j.page = offset[u] /\ faults[u].frame = j.frame
      /\ FrameTable[j.frame].page = EMPTY \/ ~ FrameTable[j.frame].locked
  BY <1>0, <1>1 DEF FrameInv, JobInv
<1>6. \A s \in Slot : \A i \in Page :
         /\ s = u /\ i = j.page => pte'[s][i].frame = j.frame
         /\ ~ (s = u /\ i = j.page) =>
              \/ pte'[s][i].frame = pte[s][i].frame
              \/ pte'[s][i].frame = EMPTY /\ pte[s][i].frame \in {EMPTY, j.frame}
  <2> SUFFICES ASSUME NEW s \in Slot, NEW i \in Page
               PROVE  /\ s = u /\ i = j.page => pte'[s][i].frame = j.frame
                      /\ ~ (s = u /\ i = j.page) =>
                           \/ pte'[s][i].frame = pte[s][i].frame
                           \/ pte'[s][i].frame = EMPTY /\ pte[s][i].frame \in {EMPTY, j.frame}
    OBVIOUS
  <2>1. CASE s = u /\ i = j.page
    BY <1>0, <1>2, <2>1, AssignedEntries DEF Inv
  <2>2. CASE ~ (s = u /\ i = j.page)
    <3>1. CASE j.outPage # EMPTY /\ s = getProc(j.outPid) /\ i = j.outPage
      <4>1. pte'[s][i].frame = EMPTY
        BY <1>0, <1>2, <2>2, <3>1, AssignedEntries DEF Inv
      <4>2. pte[s][i].frame \in {EMPTY, j.frame}
        BY <1>1, <3>1, OutFrame
      <4> QED
        BY <2>2, <4>1, <4>2
    <3>2. CASE ~ (j.outPage # EMPTY /\ s = getProc(j.outPid) /\ i = j.outPage)
      <4>1. pte'[s][i] = pte[s][i]
        BY <1>0, <1>2, <2>2, <3>2, AssignedEntries DEF Inv
      <4> QED
        BY <2>2, <4>1
    <3> QED
      BY <3>1, <3>2
  <2> QED
    BY <2>1, <2>2
<1>7. pte[u][j.page].frame = EMPTY
  <2>1. ppc[p] \notin Placing \cup {"receive"}
    BY <1>1 DEF Placing, TakingOut
  <2> QED
    BY <1>0, <1>2, <2>1, JobHasNoFrame
<1> HIDE DEF j
<1>8. Live' = Live
  BY <1>1 DEF Live
<1>9. \A v \in Users : Message(v)' = Message(v) /\ (Woken(v)' <=> Woken(v))
  BY <1>1 DEF Message, Woken
<1>10. \A v \in Users : Answered(v)' <=> Answered(v)
  BY <1>1, <1>9 DEF Answered
<1>11. /\ \A v \in Users : Placed(v)' <=> Placed(v) \/ v = u
       /\ Placed(u)'
  BY <1>0, <1>1, <1>3, <1>9 DEF Placed, Placing, TakingOut
<1>12. OwnersInv'
  <2> SUFFICES ASSUME NEW f \in Frame, FrameTable'[f].page # EMPTY
               PROVE  /\ FrameTable'[f].pid \in Live
                      /\ pte'[getProc(FrameTable'[f].pid)][FrameTable'[f].page].frame = f
    BY <1>8 DEF OwnersInv
  <2>1. CASE f = j.frame
    BY <1>2, <1>3, <1>4, <1>6, <2>1
  <2>2. CASE f # j.frame
    <3> DEFINE i == FrameTable[f].page
               s == getProc(FrameTable[f].pid)
    <3>1. FrameTable'[f] = FrameTable[f]
      BY <1>4, <2>2
    <3>2. i \in Page /\ FrameTable[f].pid \in Live /\ s \in Slot /\ pte[s][i].frame = f
      BY <3>1, FrameOwner
    <3> HIDE DEF i, s
    <3>3. f # EMPTY
      BY NumFramesAssumption DEF Frame, EMPTY
    <3>4. ~ (s = u /\ i = j.page)
      BY <1>7, <3>2, <3>3
    <3>5. pte'[s][i].frame = f
      BY <1>6, <2>2, <3>2, <3>3, <3>4
    <3> QED
      BY <3>1, <3>2, <3>5 DEF i, s
  <2> QED
    BY <2>1, <2>2
<1>13. MessageInv'
  BY <1>1, <1>9 DEF FrameInv, MessageInv
<1>14. FaultingInv'
  <2> SUFFICES ASSUME NEW v \in Users, upc[v] \in {"count", "counting", "send", "wait"},
                      ~ Placed(v)'
               PROVE  pte'[getProc(v)][offset[v]].frame = EMPTY
    BY <1>1 DEF FaultingInv
  <2>1. v # u /\ ~ Placed(v) /\ v \in Live
    BY <1>11 DEF Live
  <2>2. pte[getProc(v)][offset[v]].frame = EMPTY
    BY <2>1 DEF FrameInv, FaultingInv
  <2>3. getProc(v) \in Slot /\ getProc(v) # u /\ offset[v] \in Page
    BY <1>2, <2>1, OtherSlots DEF Inv, TypeInv, TypeOK
  <2> QED
    BY <1>6, <2>2, <2>3
<1>15. JobInv'
  <2>1. /\ job'[p].page = j.page /\ job'[p].pid = u /\ job'[p].frame = j.frame
    BY <1>0, <1>3 DEF j
  <2> QED
    BY <1>1, <1>3, <1>4, <1>5, <2>1 DEF JobInv, Placing, TakingOut
<1>16. VictimOwnerInv'
  BY <1>1, <1>3 DEF FrameInv, VictimOwnerInv, TakingOut
<1>17. AnsweredInv'
  <2> SUFFICES ASSUME NEW v \in Users, Answered(v)
               PROVE  FrameTable'[Message(v).frame]
                        = [page |-> offset[v], pid |-> v, locked |-> TRUE]
    BY <1>1, <1>9, <1>10 DEF AnsweredInv
  <2> DEFINE f == Message(v).frame
  <2>1. FrameTable[f] = [page |-> offset[v], pid |-> v, locked |-> TRUE]
    BY DEF FrameInv, AnsweredInv
  <2>2. FrameTable[f].page = offset[v] /\ FrameTable[f].locked
    BY <2>1
  <2>3. f \in Frame /\ offset[v] \in Page /\ offset[v] # EMPTY
    BY UserSlot DEF Inv, TypeInv, TypeOK, Message, FaultMsg, Page, EMPTY
  <2> HIDE DEF f
  <2>4. f # j.frame
    BY <1>5, <2>2, <2>3
  <2>5. FrameTable'[f] = FrameTable[f]
    BY <1>4, <2>3, <2>4
  <2> QED
    BY <2>1, <2>5 DEF f
<1>18. LockInv'
  <2> SUFFICES ASSUME NEW f \in Frame, NEW v \in Users, FrameTable'[f].pid = v,
                      FrameTable'[f].locked, FrameTable'[f].page # EMPTY
               PROVE  /\ offset[v] = FrameTable'[f].page
                      /\ \/ upc[v] \in {"unlock", "unlocking", "exit"}
                         \/ upc[v] = "wait" /\ Placed(v)'
    BY <1>1 DEF LockInv
  <2>1. CASE f = j.frame
    <3>1. v = u /\ FrameTable'[f].page = j.page
      BY <1>4, <2>1
    <3> QED
      BY <1>2, <1>5, <1>11, <3>1
  <2>2. CASE f # j.frame
    <3>1. FrameTable'[f] = FrameTable[f]
      BY <1>4, <2>2
    <3>2. /\ offset[v] = FrameTable[f].page
          /\ \/ upc[v] \in {"unlock", "unlocking", "exit"}
             \/ upc[v] = "wait" /\ Placed(v)
      BY <3>1 DEF FrameInv, LockInv
    <3> QED
      BY <1>11, <3>1, <3>2
  <2> QED
    BY <2>1, <2>2
<1> QED
  BY <1>12, <1>13, <1>14, <1>15, <1>16, <1>17, <1>18 DEF FrameInv
\* A step of the pager after the update, or from the count of a new page to it, that keeps
\* the fault and its frame.
LEMMA FramesPagerStep ==
  ASSUME Inv, FrameInv, OnePager, NEW p \in Pagers, NEW from, NEW to, NEW j,
         Step(p, from, to, j), UNCHANGED <<sem, faults, FrameTable>>,
         \A s \in Slot : \A i \in Page : pte'[s][i].frame = pte[s][i].frame,
         \/ from = "count" /\ to = "update"
         \/ from \in Placing /\ to \in Placing /\ (to \in TakingOut => from \in TakingOut),
         j.pid = job[p].pid, j.page = job[p].page, j.frame = job[p].frame,
         j.outPage = job[p].outPage, j.outPid = job[p].outPid
  PROVE  FrameInv'
<1>1. /\ Pagers = {p} /\ ppc[p] = from /\ ppc'[p] = to /\ job'[p] = j
      /\ UNCHANGED <<upc, offset>>
  BY DEF OnePager, Step, At, Inv, TypeInv, TypeOK
<1>2. \A q \in Pagers : \/ ppc[q] = "count" /\ ppc'[q] = "update"
                        \/ /\ ppc[q] \in Placing /\ ppc'[q] \in Placing
                           /\ ppc'[q] \in TakingOut => ppc[q] \in TakingOut
  BY <1>1
<1>3. \A q \in Pagers : /\ job'[q].pid = job[q].pid /\ job'[q].page = job[q].page
                        /\ job'[q].frame = job[q].frame
                        /\ job'[q].outPage = job[q].outPage
                        /\ job'[q].outPid = job[q].outPid
  BY <1>1
<1> QED
  BY <1>1, <1>2, <1>3, FramesQuiet

LEMMA FramesMap ==
  ASSUME Inv, FrameInv, OnePager, NEW p \in Pagers, NEW from, NEW to, NEW i,
         MmuMap(p, from, to, i),
         \/ from = "mapout" /\ to = "copyout"
         \/ from = "mapin" /\ to = "copyin"
  PROVE  FrameInv'
<1>1. CASE mmu[i] # EMPTY
  BY <1>1, FramesHalt DEF MmuMap
<1>2. CASE mmu[i] = EMPTY
  <2>1. Step(p, from, to, job[p]) /\ UNCHANGED <<pte, sem, faults, FrameTable>>
    BY <1>2 DEF MmuMap, comm
  <2> QED
    BY <2>1, FramesPagerStep DEF Placing, TakingOut
<1> QED
  BY <1>1, <1>2

LEMMA FramesTransfer ==
  ASSUME Inv, FrameInv, OnePager, NEW p \in Pagers, NEW from, NEW to, NEW e, NEW state,
         Transfer(p, from, to, e, state),
         \/ from = "pageout" /\ to = "writing"
         \/ from = "pagein" /\ to = "reading"
  PROVE  FrameInv'
<1> DEFINE j == [job[p] EXCEPT !.block = e.diskBlock, !.ahead = Ahead(e.diskBlock)]
<1>1. CASE e.diskBlock = EMPTY \/ e.state # state
  BY <1>1, FramesHalt DEF Transfer, Refuse
<1>2. CASE ~ (e.diskBlock = EMPTY \/ e.state # state)
  <2>1. Step(p, from, to, j) /\ UNCHANGED <<pte, sem, faults, FrameTable>>
    BY <1>2 DEF Transfer, comm
  <2>2. /\ j.pid = job[p].pid /\ j.page = job[p].page /\ j.frame = job[p].frame
        /\ j.outPage = job[p].outPage /\ j.outPid = job[p].outPid
    BY DEF Inv, TypeInv, TypeOK, Job
  <2> HIDE DEF j
  <2> QED
    BY <2>1, <2>2, FramesPagerStep DEF Placing, TakingOut
<1> QED
  BY <1>1, <1>2

\* The message the pager sends when it gives up.
LEMMA FramesFail ==
  ASSUME Inv, FrameInv, OnePager, NEW p \in Pagers, UNCHANGED <<pte, FrameTable>>,
         \/ Answer(p, "select", [faults[job[p].pid] EXCEPT !.failed = TRUE])
         \/ Answer(p, "block", [faults[job[p].pid] EXCEPT !.shouldTerminate = TRUE])
         \/ Answer(p, "copyin", faults[job[p].pid])
  PROVE  FrameInv'
<1> DEFINE old == faults[job[p].pid]
<1>1. ppc[p] # "receive"
  BY DEF Answer, Step, At
<1>2. old \in FaultMsg /\ ~ old.failed
  <2>1. /\ job[p].pid \in Slot /\ job[p].pid \in Users /\ getProc(job[p].pid) = job[p].pid
        /\ upc[job[p].pid] = "wait" /\ sem[job[p].pid] = 0
    BY <1>1, ServedWaits
  <2>2. ~ Message(job[p].pid).failed
    BY <2>1 DEF FrameInv, MessageInv
  <2> QED
    BY <2>1, <2>2 DEF Inv, TypeInv, TypeOK, Message
<1> HIDE DEF old
<1>3. /\ [old EXCEPT !.failed = TRUE] \in FaultMsg
      /\ [old EXCEPT !.failed = TRUE].failed
      /\ [old EXCEPT !.failed = TRUE].shouldTerminate = old.shouldTerminate
      /\ [old EXCEPT !.failed = TRUE].page = old.page
      /\ [old EXCEPT !.failed = TRUE].frame = old.frame
  BY <1>2 DEF FaultMsg
<1>4. /\ [old EXCEPT !.shouldTerminate = TRUE] \in FaultMsg
      /\ ~ [old EXCEPT !.shouldTerminate = TRUE].failed
      /\ [old EXCEPT !.shouldTerminate = TRUE].page = old.page
      /\ [old EXCEPT !.shouldTerminate = TRUE].frame = old.frame
  BY <1>2 DEF FaultMsg
<1>5. CASE Answer(p, "select", [old EXCEPT !.failed = TRUE])
  <2> DEFINE msg == [old EXCEPT !.failed = TRUE]
  <2>1. /\ msg \in FaultMsg /\ msg.failed /\ Answer(p, "select", msg)
        /\ msg.shouldTerminate = faults[job[p].pid].shouldTerminate
        /\ msg.page = faults[job[p].pid].page /\ msg.frame = faults[job[p].pid].frame
    BY <1>3, <1>5 DEF old
  <2> HIDE DEF msg
  <2> QED
    BY <2>1, FramesAnswer
<1>6. CASE Answer(p, "block", [old EXCEPT !.shouldTerminate = TRUE])
  <2> DEFINE msg == [old EXCEPT !.shouldTerminate = TRUE]
  <2>1. /\ msg \in FaultMsg /\ ~ msg.failed /\ Answer(p, "block", msg)
        /\ msg.page = faults[job[p].pid].page /\ msg.frame = faults[job[p].pid].frame
    BY <1>4, <1>6 DEF old
  <2> HIDE DEF msg
  <2> QED
    BY <2>1, FramesAnswer DEF Placing, TakingOut
<1>7. CASE Answer(p, "copyin", old)
  BY <1>2, <1>7, FramesAnswer DEF Placing, TakingOut, old
<1> QED
  BY <1>5, <1>6, <1>7 DEF old

LEMMA FramesPager ==
  ASSUME Inv, FrameInv, OnePager, NEW p \in Pagers, Pager(p)
  PROVE  FrameInv'
<1> USE DEF comm
<1>0. job[p] \in Job
  BY DEF Inv, TypeInv, TypeOK
<1>1. CASE \/ BlockOnMutex(p, "FramesMutex", {"select"})
           \/ BlockOnMutex(p, "vmStatsMutex", {"count", "pageout", "pagein"})
  <2>1. UNCHANGED <<offset, sem, faults, FrameTable, pte, upc, ppc, job>>
    BY <1>1 DEF BlockOnMutex
  <2> QED
    BY <2>1, FramesQuiet
<1>2. CASE GetNextFrame(p)
  <2> DEFINE c == NextFrame(FrameTable, ref, NextCheckedFrame)
  <2>1. CASE c.frame = EMPTY
    <3>1. /\ Answer(p, "select", [faults[job[p].pid] EXCEPT !.failed = TRUE])
          /\ UNCHANGED <<pte, FrameTable>>
      BY <1>2, <2>1 DEF GetNextFrame
    <3> QED
      BY <3>1, FramesFail
  <2>2. CASE c.frame # EMPTY
    <3>1. /\ Step(p, "select", "victim", [job[p] EXCEPT !.frame = c.frame])
          /\ faults' = [faults EXCEPT ![job[p].pid].frame = c.frame]
          /\ UNCHANGED <<sem, pte, FrameTable>>
      BY <1>2, <2>2 DEF GetNextFrame
    <3>2. ref \in [Frame -> BOOLEAN] /\ NextCheckedFrame \in Frame
      BY DEF Inv, TypeInv, TypeOK
    <3>3. c.frame \in Frame /\ (FrameTable[c.frame].page = EMPTY \/ ~ FrameTable[c.frame].locked)
      BY <2>2, <3>2, SearchedFrame
    <3> HIDE DEF c
    <3> QED
      BY <3>1, <3>3, FramesChoose
  <2> QED
    BY <2>1, <2>2
<1>3. CASE CountNew(p)
  BY <1>3, FramesPagerStep DEF CountNew
<1>4. CASE CheckAccess(p)
  <2> DEFINE j == [job[p] EXCEPT !.accessRef = ref[job[p].frame]]
             to == IF MustWrite(job[p]) THEN "block" ELSE "fill"
  <2>1. /\ Step(p, "access", to, j) /\ UNCHANGED <<pte, sem, faults, FrameTable>>
        /\ to \in {"block", "fill"}
    BY <1>4 DEF CheckAccess
  <2>2. /\ j.pid = job[p].pid /\ j.page = job[p].page /\ j.frame = job[p].frame
        /\ j.outPage = job[p].outPage /\ j.outPid = job[p].outPid
    BY <1>0 DEF Job
  <2> HIDE DEF j, to
  <2> QED
    BY <2>1, <2>2, FramesPagerStep DEF Placing, TakingOut
<1>5. CASE FindBlock(p)
  <2> DEFINE to == IF OutEntry(job[p]).diskBlock = EMPTY THEN "alloc" ELSE "mapout"
  <2>1. CASE OutEntry(job[p]).diskBlock = EMPTY /\ NextBlock = DiskBlocks
    <3>1. /\ Answer(p, "block", [faults[job[p].pid] EXCEPT !.shouldTerminate = TRUE])
          /\ UNCHANGED <<pte, FrameTable>>
      BY <1>5, <2>1 DEF FindBlock
    <3> QED
      BY <3>1, FramesFail
  <2>2. CASE ~ (OutEntry(job[p]).diskBlock = EMPTY /\ NextBlock = DiskBlocks)
    <3>1. /\ Step(p, "block", to, job[p]) /\ UNCHANGED <<pte, sem, faults, FrameTable>>
          /\ to \in {"alloc", "mapout"}
      BY <1>5, <2>2 DEF FindBlock
    <3> HIDE DEF to
    <3> QED
      BY <3>1, FramesPagerStep DEF Placing, TakingOut
  <2> QED
    BY <2>1, <2>2
<1>6. CASE AllocateBlock(p)
  <2>1. /\ Step(p, "alloc", "mapout", job[p]) /\ UNCHANGED <<FrameTable, sem, faults>>
        /\ pte' = [pte EXCEPT ![getProc(job[p].outPid)][job[p].outPage].diskBlock = NextBlock]
    BY <1>6 DEF AllocateBlock
  <2>2. getProc(job[p].outPid) \in Slot /\ job[p].outPage \in Page
    BY <1>0, <2>1, OutSlot DEF Inv, TypeInv, AtWork, Step, At, Job
  <2>3. \A s \in Slot : \A i \in Page : pte'[s][i].frame = pte[s][i].frame
    BY <2>1, <2>2 DEF Inv, TypeInv, TypeOK, PTE
  <2> QED
    BY <2>1, <2>3, FramesPagerStep DEF Placing, TakingOut
<1>7. CASE MapOut(p) \/ MapIn(p)
  BY <1>7, FramesMap DEF MapOut, MapIn
<1>8. CASE CopyOut(p)
  <2> DEFINE f == mmu[job[p].outPage]
             j == [job[p] EXCEPT !.buffer = ram[f], !.owner = ProcPid[getProc(job[p].outPid)]]
  <2>1. CASE f = EMPTY
    BY <1>8, <2>1, FramesHalt DEF CopyOut
  <2>2. CASE f # EMPTY
    <3>1. /\ Step(p, "copyout", "pageout", j) /\ UNCHANGED <<pte, sem, faults, FrameTable>>
      BY <1>8, <2>2 DEF CopyOut
    <3>2. /\ j.pid = job[p].pid /\ j.page = job[p].page /\ j.frame = job[p].frame
          /\ j.outPage = job[p].outPage /\ j.outPid = job[p].outPid
      BY <1>0 DEF Job
    <3> HIDE DEF j
    <3> QED
      BY <3>1, <3>2, FramesPagerStep DEF Placing, TakingOut
  <2> QED
    BY <2>1, <2>2
<1>9. CASE PageOut(p)
  BY <1>9, FramesHalt, FramesTransfer DEF PageOut, Refuse
<1>10. CASE PageIn(p)
  BY <1>10, FramesTransfer DEF PageIn
<1>11. CASE Fill(p)
  <2> DEFINE j  == [job[p] EXCEPT !.buffer = Zero]
             to == IF MustRead(job[p]) THEN "pagein" ELSE "mapin"
  <2>1. /\ Step(p, "fill", to, j) /\ UNCHANGED <<pte, sem, faults, FrameTable>>
        /\ to \in {"pagein", "mapin"}
    BY <1>11 DEF Fill
  <2>2. /\ j.pid = job[p].pid /\ j.page = job[p].page /\ j.frame = job[p].frame
        /\ j.outPage = job[p].outPage /\ j.outPid = job[p].outPid
    BY <1>0 DEF Job
  <2> HIDE DEF j, to
  <2> QED
    BY <2>1, <2>2, FramesPagerStep DEF Placing, TakingOut
<1>12. CASE CopyIn(p)
  <2>1. CASE mmu[job[p].page] = EMPTY
    BY <1>12, <2>1, FramesHalt DEF CopyIn
  <2>2. CASE mmu[job[p].page] # EMPTY
    <3>1. Answer(p, "copyin", faults[job[p].pid]) /\ UNCHANGED <<pte, FrameTable>>
      BY <1>12, <2>2 DEF CopyIn
    <3> QED
      BY <3>1, FramesFail
  <2> QED
    BY <2>1, <2>2
<1> QED
  BY <1>1, <1>2, <1>3, <1>4, <1>5, <1>6, <1>7, <1>8, <1>9, <1>10, <1>11, <1>12,
     FramesReceive, FramesVictim, FramesAssigned DEF Pager

LEMMA FramesDiskDone ==
  ASSUME Inv, FrameInv, NEW p \in Pagers, DiskDone(p)
  PROVE  FrameInv'
<1>1. PICK from, to, content :
         /\ Transferred(p, from, to, content)
         /\ \/ from = "writing" /\ to = "fill"
            \/ from = "reading" /\ to = "mapin"
  BY DEF DiskDone, WriteDone, ReadDone
<1>2. /\ UNCHANGED <<offset, sem, faults, FrameTable, pte, upc>>
      /\ ppc[p] = from /\ ppc' = [ppc EXCEPT ![p] = to]
      /\ job' = [q \in Pagers |-> [job[q] EXCEPT !.ahead = @ \ {p},
                                               !.buffer = IF q = p THEN content ELSE @]]
  BY <1>1 DEF Transferred, comm
<1>3. \A q \in Pagers : \/ ppc'[q] = ppc[q]
                        \/ /\ ppc[q] \in Placing /\ ppc'[q] \in Placing
                           /\ ppc'[q] \in TakingOut => ppc[q] \in TakingOut
  BY <1>1, <1>2 DEF Inv, TypeInv, TypeOK, Placing, TakingOut
<1>4. \A q \in Pagers : /\ job'[q].pid = job[q].pid /\ job'[q].page = job[q].page
                        /\ job'[q].frame = job[q].frame
                        /\ job'[q].outPage = job[q].outPage
                        /\ job'[q].outPid = job[q].outPid
  <2> SUFFICES ASSUME NEW q \in Pagers
               PROVE  /\ job'[q].pid = job[q].pid /\ job'[q].page = job[q].page
                      /\ job'[q].frame = job[q].frame
                      /\ job'[q].outPage = job[q].outPage
                      /\ job'[q].outPid = job[q].outPid
    OBVIOUS
  <2> DEFINE b == IF q = p THEN content ELSE job[q].buffer
  <2>1. job[q] \in Job
    BY DEF Inv, TypeInv, TypeOK
  <2>2. job'[q] = [job[q] EXCEPT !.ahead = @ \ {p}, !.buffer = b]
    BY <1>2
  <2> HIDE DEF b
  <2> QED
    BY <2>1, <2>2 DEF Job
<1> QED
  BY <1>2, <1>3, <1>4, FramesQuiet

-----------------------------------------------------------------------------
(* The invariant.                                                            *)

LEMMA FramesInit == Init => FrameInv
<1> SUFFICES ASSUME Init PROVE FrameInv
  OBVIOUS
<1>1. \A u \in Users : ~ Placed(u) /\ ~ Answered(u)
  BY DEF Init, Placed, Answered, Woken, Placing, TakingOut
<1>2. OwnersInv
  BY DEF Init, OwnersInv
<1>3. MessageInv /\ FaultingInv
  BY DEF Init, MessageInv, FaultingInv
<1>4. JobInv /\ VictimOwnerInv
  BY DEF Init, JobInv, VictimOwnerInv, Placing, TakingOut
<1>5. AnsweredInv
  BY <1>1 DEF AnsweredInv
<1>6. LockInv
  BY DEF Init, LockInv
<1> QED
  BY <1>2, <1>3, <1>4, <1>5, <1>6 DEF FrameInv

LEMMA FramesNext ==
  ASSUME OnePager, UsersBelow
  PROVE  Inv /\ FrameInv /\ [Next]_vars => FrameInv'
<1> SUFFICES ASSUME Inv, FrameInv, [Next]_vars PROVE FrameInv'
  OBVIOUS
<1>1. CASE UNCHANGED vars
  <2>1. UNCHANGED <<offset, sem, faults, FrameTable, pte, upc, ppc, job>>
    BY <1>1 DEF vars, comm
  <2> QED
    BY <2>1, FramesQuiet
<1>2. CASE Next
  BY <1>2, FramesSwitch, FramesFork, FramesQuit, FramesUser, FramesPager, FramesDiskDone
  DEF Next
<1> QED
  BY <1>1, <1>2

LEMMA FramesAlways ==
  ASSUME OnePager, UsersBelow
  PROVE  Spec => [](Inv /\ FrameInv)
<1>1. Init => FrameInv
  BY FramesInit
<1>2. Inv /\ FrameInv /\ [Next]_vars => FrameInv'
  BY FramesNext
<1>3. Spec => []Inv
  BY TablesAlways
<1> QED
  BY <1>1, <1>2, <1>3, PTL DEF Spec

\* A process the pager has answered finds its page in the frame its message names, and the
\* frame locked, whatever quits, forks and faults come between the answer and its next
\* time slice (phase5.c:399-405).
THEOREM AnsweredIsResident ==
  ASSUME OnePager, UsersBelow
  PROVE  Spec => []AnsweredPageIsResident
<1>1. ASSUME Inv, FrameInv PROVE AnsweredPageIsResident
  <2> SUFFICES ASSUME NEW u \in Users, upc[u] \in {"unlock", "unlocking"}
               PROVE  LET f == faults[getProc(u)].frame
                      IN  /\ pte[getProc(u)][offset[u]].frame = f
                          /\ FrameTable[f] = [page |-> offset[u], pid |-> u, locked |-> TRUE]
    BY DEF AnsweredPageIsResident
  <2> DEFINE f == faults[getProc(u)].frame
  <2>1. f \in Frame /\ offset[u] \in Page /\ offset[u] # EMPTY
    BY <1>1, UserSlot DEF Inv, TypeInv, TypeOK, FaultMsg, Page, EMPTY
  <2>2. FrameTable[f] = [page |-> offset[u], pid |-> u, locked |-> TRUE]
    BY <1>1 DEF FrameInv, AnsweredInv, Answered, Message
  <2> HIDE DEF f
  <2>3. FrameTable[f].page = offset[u] /\ FrameTable[f].pid = u
    BY <2>2
  <2>4. pte[getProc(u)][offset[u]].frame = f
    BY <1>1, <2>1, <2>3, FrameOwner
  <2> QED
    BY <2>2, <2>4 DEF f
<1>2. Spec => [](Inv /\ FrameInv)
  BY FramesAlways
<1> QED
  BY <1>1, <1>2, PTL

\* A frame with a page is locked exactly for the fault of its owner on that page, from the
\* update of the tables (phase5.c:495) to the end of FaultHandler (phase5.c:403): a fault
\* that fails or a process that quits leaves no such lock behind, and nobody else's step
\* takes it off.
THEOREM LocksAreForFaults ==
  ASSUME OnePager, UsersBelow
  PROVE  Spec => []LocksBelongToFaults
<1>1. ASSUME Inv, FrameInv PROVE LocksBelongToFaults
  <2> SUFFICES ASSUME NEW f \in Frame, FrameTable[f].page # EMPTY
               PROVE  LET e == FrameTable[f] IN e.locked <=> InFault(e.pid, e.page)
    BY DEF LocksBelongToFaults
  <2> DEFINE u == FrameTable[f].pid
             i == FrameTable[f].page
  <2>1. u \in Users /\ u \in Live /\ pte[getProc(u)][i].frame = f /\ f # EMPTY
    BY <1>1, FrameOwner DEF Frame, EMPTY
  <2>2. ASSUME FrameTable[f].locked PROVE InFault(u, i)
    BY <1>1, <2>1, <2>2 DEF FrameInv, LockInv, InFault
  <2>3. ASSUME InFault(u, i) PROVE FrameTable[f].locked
    <3>1. Placed(u) \/ Answered(u)
      BY <1>1, <2>1, <2>3 DEF InFault, Answered, FrameInv, FaultingInv
    <3>2. PICK g \in Frame : FrameTable[g] = [page |-> i, pid |-> u, locked |-> TRUE]
      <4>1. CASE Answered(u)
        <5>1. Message(u).frame \in Frame
          BY <1>1, <2>1, UserSlot DEF Inv, TypeInv, TypeOK, FaultMsg, Message
        <5> QED
          BY <1>1, <2>1, <2>3, <4>1, <5>1 DEF FrameInv, AnsweredInv, InFault
      <4>2. CASE Placed(u) /\ ~ Answered(u)
        <5>1. PICK p \in Pagers : ppc[p] \in Placing /\ job[p].pid = u
          BY <4>2 DEF Placed, Answered, AfterFault
        <5>2. job[p].page = i /\ job[p].frame \in Frame
          BY <1>1, <2>3, <5>1 DEF FrameInv, JobInv, InFault, Placing, TakingOut, Inv, TypeInv,
                                  TypeOK, Job
        <5> QED
          BY <1>1, <5>1, <5>2 DEF FrameInv, JobInv
      <4> QED
        BY <3>1, <4>1, <4>2
    <3>3. FrameTable[g].page = i /\ FrameTable[g].pid = u /\ FrameTable[g].locked
      BY <3>2
    <3>4. pte[getProc(u)][i].frame = g
      BY <1>1, <2>1, <3>3, FrameOwner
    <3> QED
      BY <2>1, <3>3, <3>4
  <2> QED
    BY <2>2, <2>3
<1>2. Spec => [](Inv /\ FrameInv)
  BY FramesAlways
<1> QED
  BY <1>1, <1>2, PTL
=============================================================================
