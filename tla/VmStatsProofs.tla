---------------------------- MODULE VmStatsProofs ----------------------------
(***************************************************************************)
(* Programs that run on VirtualMemory, with the counters.  They are        *)
(* behaviours of VirtualMemory, so that what is proved of Spec holds of    *)
(* the tests; the counters fit the tables, with any number of pagers; and  *)
(* with one pager every process reads what it wrote last.                  *)
(***************************************************************************)
EXTENDS VmStats, VmMemoryProofs

\* What a user does next, when it is an access.
LEMMA NextAccess ==
    ASSUME program \in Programs, NEW u \in Users
    PROVE  /\ Now(u).op \in {"read", "write"} => Now(u).page \in Page
           /\ Now(u).op = "write" => Now(u).value \in Values
<1>1. CASE at[u] \in DOMAIN program.code[u]
  <2>1. Now(u) = program.code[u][at[u]]
    BY <1>1 DEF Now
  <2>. QED  BY <1>1, <2>1, ProgramAssumption
<1>2. CASE at[u] \notin DOMAIN program.code[u]
  <2>1. Now(u).op = "end"
    BY <1>2 DEF Now
  <2>. QED  BY <2>1
<1>. QED  BY <1>1, <1>2

\* An access is one of the program's actions in VirtualMemory.
LEMMA AccessStep ==
    ASSUME program \in Programs, NEW u \in Users, Access(u)
    PROVE  Program(u)
<1>1. CASE Now(u).op = "read" /\ Load(u, Now(u).page)
  BY <1>1, NextAccess DEF Program
<1>2. CASE Now(u).op = "write" /\ Store(u, Now(u).page, Now(u).value)
  BY <1>2, NextAccess DEF Program
<1>3. CASE Now(u).op \in {"read", "write"} /\ PageFault(u, Now(u).page)
  BY <1>3, NextAccess DEF Program
<1>. QED  BY <1>1, <1>2, <1>3 DEF Access

\* Every step of a user, with what it counts, is a step of VirtualMemory or leaves its
\* variables alone (phase5.c:343-407, p1.c:26-49, p1.c:177-218).
LEMMA UserSteps ==
    ASSUME program \in Programs, NEW u \in Users, UserNext(u)
    PROVE  p1_fork(u) \/ p1_quit(u) \/ Program(u) \/ Handler(u) \/ UNCHANGED vars
<1>1. Access(u) => Program(u)
  BY AccessStep
<1>2. Asserts(u) => UNCHANGED vars
  BY DEF Asserts
<1>3. CountedFault(u) => Handler(u)
  BY DEF CountedFault, Handler
<1>4. LockVmStats(u) \/ SendFault(u) \/ Resume(u) \/ LockFrames(u) \/ UnlockFrame(u) => Handler(u)
  BY DEF Handler
<1>5. Quit(u) => p1_quit(u)
  BY DEF Quit
<1>. QED  BY <1>1, <1>2, <1>3, <1>4, <1>5 DEF UserNext

\* Every step of a pager, with what it counts, is a step of VirtualMemory (phase5.c:424-602).
LEMMA PagerSteps ==
    ASSUME NEW p \in Pagers, PagerNext(p)
    PROVE  Pager(p) \/ DiskDone(p)
BY DEF PagerNext, CountedNew, CountedPageIn, CountedPageOut, Pager

\* The program stays the one that was chosen.
ProgramInv == program \in Programs

LEMMA ProgramKept == ProgramInv /\ [StatsNext]_allVars => ProgramInv'
BY DEF ProgramInv, StatsNext, allVars, statVars, UserNext, PagerNext, Access, Asserts, Quit, Done,
       Count, CountedFault, CountedNew, CountedPageIn, CountedPageOut

LEMMA StatsSteps == ProgramInv /\ [StatsNext]_allVars => [Next]_vars
<1>. SUFFICES ASSUME program \in Programs, [StatsNext]_allVars PROVE [Next]_vars
  BY DEF ProgramInv
<1>1. CASE UNCHANGED allVars
  BY <1>1 DEF allVars
<1>2. CASE \E x \in Process : p1_switch(x)
  BY <1>2 DEF Next
<1>3. CASE \E u \in Users : UserNext(u)
  BY <1>3, UserSteps DEF Next
<1>4. CASE \E p \in Pagers : PagerNext(p)
  BY <1>4, PagerSteps DEF Next
<1>. QED  BY <1>1, <1>2, <1>3, <1>4 DEF StatsNext

\* Any program, with its counters, behaves as VirtualMemory allows: the counting adds
\* nothing to what the processes can do and takes nothing away (phase5.c:356-358,
\* phase5.c:480-485, phase5utility.c:268-270, phase5utility.c:301-303).
THEOREM ProgramsAreBehaviours == StatsSpec => Spec
<1>1. StatsInit => Init /\ ProgramInv
  BY DEF StatsInit, ProgramInv
<1>. QED  BY <1>1, ProgramKept, StatsSteps, PTL DEF StatsSpec, Spec

\* In the tests, whatever they access and however long their programs are, a process that
\* waits in FaultHandler has exactly one answer on its way (phase5.c:376-394).
THEOREM OneAnswerInPrograms == StatsSpec => []OneAnswerPerFault
BY ProgramsAreBehaviours, OneAnswer, PTL
-----------------------------------------------------------------------------
(* What the counters count.                                                  *)

NoneDead == \A u \in Users : upc[u] # "dead"

\* Page i of the process with this pid is in use.
IsUsed(pid, i) == <<getProc(pid), i>> \in Used

\* The pages that have been counted as new, and are about to be.
AboutToUse == {p \in Pagers : ppc[p] = "update" /\ ~job[p].exists}

\* While no process has quit, whatever a frame or a pager holds is a page in use.
UsedInv ==
    NoneDead =>
        /\ \A s \in Slot : ProcPid[s] = EMPTY => pte[s] = EmptyTable
        /\ \A f \in Frame : FrameTable[f].page # EMPTY =>
                                IsUsed(FrameTable[f].pid, FrameTable[f].page)
        /\ \A p \in Pagers : job[p].outPage # EMPTY => IsUsed(job[p].outPid, job[p].outPage)
        /\ \A p \in Pagers : ppc[p] \in {"select", "victim", "count", "update"} =>
                                (job[p].exists <=> IsUsed(job[p].pid, job[p].page))

NewInv == NoneDead => vmStats.new = Cardinality(Used) + Cardinality(AboutToUse)

\* Only a message that is not on its way says that its fault has failed.
FailedInv ==
    /\ \A p \in Pagers : ppc[p] # "receive" => ~faults[job[p].pid].failed
    /\ \A k \in 1 .. Len(FaultsMbox) : ~faults[getProc(FaultsMbox[k])].failed

\* The fault of u has been counted, and no pager has begun with it since it was sent (again).
Asks(u) ==
    \/ upc[u] = "send"
    \/ InMail(u)
    \/ upc[u] = "wait" /\ sem[getProc(u)] > 0 /\ faults[getProc(u)].failed

\* The pager may still count the fault it serves as a new page or a page in, or a page out.
MayCount(p) ==
    \/ ppc[p] \in {"select", "victim", "count", "pagein"}
    \/ /\ job[p].exists
       /\ ppc[p] \in {"update", "access", "block", "alloc", "mapout", "copyout", "pageout",
                      "writing", "fill"}
MayWrite(p) ==
    ppc[p] \in {"select", "victim", "count", "update", "access", "block", "alloc", "mapout",
                "copyout", "pageout"}

NotCounted == {u \in Users : Asks(u) \/ \E p \in Pagers : job[p].pid = u /\ MayCount(p)}
NotWritten == {u \in Users : Asks(u) \/ \E p \in Pagers : job[p].pid = u /\ MayWrite(p)}

\* Every fault has been counted once before it is counted as of one kind.
KindsInv ==
    /\ \A p \in Pagers : ppc[p] = "count" => ~job[p].exists
    /\ vmStats.new + vmStats.pageIns <= vmStats.faults
    /\ vmStats.pageOuts <= vmStats.faults
    /\ halted = "no" =>
            /\ vmStats.new + vmStats.pageIns + Cardinality(NotCounted) <= vmStats.faults
            /\ vmStats.pageOuts + Cardinality(NotWritten) <= vmStats.faults

\* Every block given out has been written, or a pager is about to write it.
WithBlock == {p \in Pagers : ppc[p] \in {"mapout", "copyout", "pageout"}}
BlocksInv == NextBlock <= vmStats.pageOuts + Cardinality(WithBlock)
\* The types of the counters that count.
CountersInv ==
    vmStats \in [pages : {NumPages}, frames : {NumFrames}, diskBlocks : {DiskBlocks},
                 freeFrames : {NumFrames}, freeDiskBlocks : {DiskBlocks}, faults : Nat, new : Nat,
                 pageIns : Nat, pageOuts : Nat, replaced : {0}]

-----------------------------------------------------------------------------
(* Cardinalities.                                                            *)

LEMMA SmallerSet ==
  ASSUME NEW B, IsFiniteSet(B), NEW A \in SUBSET B
  PROVE  /\ IsFiniteSet(A) /\ Cardinality(A) \in Nat /\ Cardinality(B) \in Nat
         /\ Cardinality(A) <= Cardinality(B)
BY FS_Subset, FS_CardinalityType

LEMMA SetWithout ==
  ASSUME NEW B, IsFiniteSet(B), NEW x \in B, NEW A \in SUBSET (B \ {x})
  PROVE  Cardinality(A) + 1 <= Cardinality(B)
<1>1. IsFiniteSet(B \ {x}) /\ Cardinality(B \ {x}) = Cardinality(B) - 1
  BY FS_RemoveElement
<1>2. Cardinality(A) <= Cardinality(B \ {x}) /\ Cardinality(A) \in Nat
  BY <1>1, SmallerSet
<1>3. Cardinality(B) \in Nat
  BY FS_CardinalityType
<1>. QED  BY <1>1, <1>2, <1>3

LEMMA SetWith ==
  ASSUME NEW B, IsFiniteSet(B), NEW x, NEW A \in SUBSET (B \cup {x})
  PROVE  Cardinality(A) <= Cardinality(B) + 1
<1>0. Cardinality(B) \in Nat
  BY FS_CardinalityType
<1>1. IsFiniteSet(B \cup {x}) /\ Cardinality(B \cup {x}) <= Cardinality(B) + 1
  BY <1>0, FS_AddElement
<1>2. Cardinality(A) <= Cardinality(B \cup {x}) /\ Cardinality(A) \in Nat
      /\ Cardinality(B \cup {x}) \in Nat
  BY <1>1, SmallerSet
<1>. QED  BY <1>0, <1>1, <1>2

LEMMA OneMore ==
  ASSUME NEW B, IsFiniteSet(B), NEW x, x \notin B
  PROVE  Cardinality(B \cup {x}) = Cardinality(B) + 1
BY FS_AddElement

LEMMA OneLess ==
  ASSUME NEW B, IsFiniteSet(B), NEW x \in B
  PROVE  Cardinality(B \ {x}) = Cardinality(B) - 1
BY FS_RemoveElement

-----------------------------------------------------------------------------
(* The steps, as far as the counters are concerned.                          *)

Counted(counter) == vmStats' = [vmStats EXCEPT ![counter] = @ + 1]

\* A counter goes up by one, and the others stay.
LEMMA CountedUp ==
  ASSUME CountersInv
  PROVE  /\ Counted("faults")   => /\ vmStats'.faults = vmStats.faults + 1
                                   /\ vmStats'.new = vmStats.new
                                   /\ vmStats'.pageIns = vmStats.pageIns
                                   /\ vmStats'.pageOuts = vmStats.pageOuts
         /\ Counted("new")      => /\ vmStats'.faults = vmStats.faults
                                   /\ vmStats'.new = vmStats.new + 1
                                   /\ vmStats'.pageIns = vmStats.pageIns
                                   /\ vmStats'.pageOuts = vmStats.pageOuts
         /\ Counted("pageIns")  => /\ vmStats'.faults = vmStats.faults
                                   /\ vmStats'.new = vmStats.new
                                   /\ vmStats'.pageIns = vmStats.pageIns + 1
                                   /\ vmStats'.pageOuts = vmStats.pageOuts
         /\ Counted("pageOuts") => /\ vmStats'.faults = vmStats.faults
                                   /\ vmStats'.new = vmStats.new
                                   /\ vmStats'.pageIns = vmStats.pageIns
                                   /\ vmStats'.pageOuts = vmStats.pageOuts + 1
         /\ \A c \in {"faults", "new", "pageIns", "pageOuts"} : Counted(c) => CountersInv'
         /\ vmStats.faults \in Nat /\ vmStats.new \in Nat
         /\ vmStats.pageIns \in Nat /\ vmStats.pageOuts \in Nat
<1>1. vmStats.faults \in Nat /\ vmStats.new \in Nat
      /\ vmStats.pageIns \in Nat /\ vmStats.pageOuts \in Nat
  BY DEF CountersInv
<1>2. \A c \in {"faults", "new", "pageIns", "pageOuts"} : Counted(c) => CountersInv'
  BY DEF CountersInv, Counted
<1>3. Counted("faults") => /\ vmStats'.faults = vmStats.faults + 1
                           /\ vmStats'.new = vmStats.new
                           /\ vmStats'.pageIns = vmStats.pageIns
                           /\ vmStats'.pageOuts = vmStats.pageOuts
  BY DEF CountersInv, Counted
<1>4. Counted("new") => /\ vmStats'.faults = vmStats.faults
                        /\ vmStats'.new = vmStats.new + 1
                        /\ vmStats'.pageIns = vmStats.pageIns
                        /\ vmStats'.pageOuts = vmStats.pageOuts
  BY DEF CountersInv, Counted
<1>5. Counted("pageIns") => /\ vmStats'.faults = vmStats.faults
                            /\ vmStats'.new = vmStats.new
                            /\ vmStats'.pageIns = vmStats.pageIns + 1
                            /\ vmStats'.pageOuts = vmStats.pageOuts
  BY DEF CountersInv, Counted
<1>6. Counted("pageOuts") => /\ vmStats'.faults = vmStats.faults
                             /\ vmStats'.new = vmStats.new
                             /\ vmStats'.pageIns = vmStats.pageIns
                             /\ vmStats'.pageOuts = vmStats.pageOuts + 1
  BY DEF CountersInv, Counted
<1>. QED  BY <1>1, <1>2, <1>3, <1>4, <1>5, <1>6

\* Nothing the counters depend on changes.
Rests ==
    /\ UNCHANGED <<upc, ProcPid, pte, FrameTable, sem, faults, FaultsMbox, NextBlock, ppc, job>>
    /\ halted' = "no" => halted = "no"

\* A pager goes on with the fault it serves.
GoesOn ==
    {<<"select", "victim">>, <<"victim", "update">>, <<"victim", "count">>, <<"count", "update">>,
     <<"update", "access">>, <<"access", "block">>, <<"access", "fill">>, <<"block", "alloc">>,
     <<"block", "mapout">>, <<"alloc", "mapout">>, <<"mapout", "copyout">>,
     <<"copyout", "pageout">>, <<"pageout", "writing">>, <<"writing", "fill">>,
     <<"fill", "pagein">>, <<"fill", "mapin">>, <<"pagein", "reading">>, <<"reading", "mapin">>,
     <<"mapin", "copyin">>}

Goes(p, from, to) ==
    /\ <<from, to>> \in GoesOn
    /\ ppc[p] = from /\ ppc' = [ppc EXCEPT ![p] = to]
    /\ UNCHANGED <<halted, upc, ProcPid, sem, FaultsMbox>>
    /\ \A s \in Slot : faults'[s].failed = faults[s].failed
    /\ \A q \in Pagers : /\ job'[q].pid = job[q].pid /\ job'[q].page = job[q].page
                         /\ job'[q].exists = job[q].exists

\* Of a step of a pager, what the counters depend on.
KeepsTables ==
    /\ UNCHANGED <<pte, FrameTable>>
    /\ \A q \in Pagers : job'[q].outPage = job[q].outPage /\ job'[q].outPid = job[q].outPid

Moves(p, from, to) ==
    /\ Goes(p, from, to)
    /\ from \notin {"victim", "update", "alloc"} => KeepsTables
    /\ from # "alloc" => NextBlock' = NextBlock
    /\ from \notin {"count", "pagein", "pageout"} => vmStats' = vmStats
    /\ from = "victim" => TakeVictim(p) /\ (to = "count" <=> ~job[p].exists)
    /\ from = "count" => Counted("new")
    /\ from = "update" => UpdateTables(p)
    /\ from = "alloc" => AllocateBlock(p) /\ NextBlock' = NextBlock + 1
    /\ from = "pageout" => Counted("pageOuts")
    /\ to = "pagein" => job[p].exists
    /\ from = "pagein" => Counted("pageIns")

\* A pager's Step between two places of its loop that leaves the tables and counters alone.
LEMMA MovesOn ==
  ASSUME TypeInv, NEW p \in Pagers, NEW from, NEW to, NEW j \in Job, Step(p, from, to, j),
         <<from, to>> \in GoesOn,
         from \notin {"victim", "count", "update", "alloc", "pageout", "pagein"},
         to = "pagein" => job[p].exists,
         UNCHANGED <<sem, FaultsMbox, pte, FrameTable, NextBlock, vmStats>>,
         \A s \in Slot : faults'[s].failed = faults[s].failed,
         j.pid = job[p].pid, j.page = job[p].page, j.exists = job[p].exists,
         j.outPage = job[p].outPage, j.outPid = job[p].outPid
  PROVE  Moves(p, from, to)
<1>1. Goes(p, from, to)
  BY DEF Goes, Step, At, TypeInv, TypeOK
<1>2. KeepsTables
  BY DEF KeepsTables, Step, TypeInv, TypeOK
<1>. QED  BY <1>1, <1>2 DEF Moves

\* Each step of a pager is one of these: it moves from one place of its loop to the next, or
\* stays where it is, or the machine halts, or it receives a message, or answers one
\* (phase5.c:424-602).
LEMMA PagerMoves ==
  ASSUME TypeInv, NEW p \in Pagers, PagerNext(p)
  PROVE  \/ Rests /\ vmStats' = vmStats
         \/ /\ Rests /\ halted' # "no"
            /\ \/ ppc[p] = "pagein" /\ Counted("pageIns")
               \/ ppc[p] = "pageout" /\ Counted("pageOuts")
         \/ Receive(p) /\ ~Rests /\ vmStats' = vmStats
         \/ \E from \in {"select", "block", "copyin"} : \E msg :
                /\ Answer(p, from, msg)
                /\ msg.failed = (from = "select" \/ faults[job[p].pid].failed)
                /\ UNCHANGED <<pte, FrameTable, NextBlock, vmStats>>
         \/ \E from, to : Moves(p, from, to)
<1>. USE DEF comm
<1>0. job[p] \in Job /\ faults \in [Slot -> FaultMsg]
  BY DEF TypeInv, TypeOK
<1>1. ASSUME NEW m, NEW pcs, BlockOnMutex(p, m, pcs), UNCHANGED statVars
      PROVE  Rests /\ vmStats' = vmStats
  BY <1>1 DEF BlockOnMutex, Rests, statVars
<1>h. ASSUME NEW why \in {"mappings", "transfer", "process"}, Halt(why) PROVE Rests
  BY <1>h DEF Halt, Rests
<1>2. ASSUME GetNextFrame(p), UNCHANGED statVars
      PROVE  \/ \E msg : /\ Answer(p, "select", msg)
                         /\ msg.failed = TRUE
                         /\ UNCHANGED <<pte, FrameTable, NextBlock, vmStats>>
             \/ Moves(p, "select", "victim")
  <2> DEFINE c == NextFrame(FrameTable, ref, NextCheckedFrame)
             j == [job[p] EXCEPT !.frame = c.frame]
             pid == job[p].pid
             msg == [faults[pid] EXCEPT !.failed = TRUE]
  <2>0. pid \in Slot
    BY <1>0, ProcessAssumption DEF Job, Slot, NOBODY
  <2>1. CASE c.frame = EMPTY
    <3>1. Answer(p, "select", msg) /\ UNCHANGED <<pte, FrameTable, NextBlock, vmStats>>
      BY <1>2, <2>1 DEF GetNextFrame, statVars
    <3>2. msg.failed = TRUE
      BY <1>0, <2>0 DEF FaultMsg
    <3>. HIDE DEF msg
    <3>. QED  BY <3>1, <3>2
  <2>2. CASE c.frame # EMPTY
    <3>1. Step(p, "select", "victim", j)
          /\ UNCHANGED <<sem, FaultsMbox, pte, FrameTable, NextBlock, vmStats>>
          /\ faults' = [faults EXCEPT ![pid].frame = c.frame]
      BY <1>2, <2>2 DEF GetNextFrame, statVars
    <3>2. \A s \in Slot : faults'[s].failed = faults[s].failed
      BY <3>1, <1>0, <2>0 DEF FaultMsg
    <3>3. c.frame \in Frame
      BY <2>2, NextFrameType DEF TypeInv, TypeOK, Choice
    <3>4. j \in Job /\ j.pid = job[p].pid /\ j.page = job[p].page /\ j.exists = job[p].exists
          /\ j.outPage = job[p].outPage /\ j.outPid = job[p].outPid
      BY <1>0, <3>3 DEF Job
    <3>5. <<"select", "victim">> \in GoesOn
      BY DEF GoesOn
    <3>. HIDE DEF j
    <3>. QED  BY <3>1, <3>2, <3>4, <3>5, MovesOn
  <2>. QED  BY <2>1, <2>2
<1>3. ASSUME TakeVictim(p), UNCHANGED statVars
      PROVE  \E to : Moves(p, "victim", to)
  <2> DEFINE to == IF job[p].exists THEN "update" ELSE "count"
             j == [job[p] EXCEPT !.outPage = FrameTable[job[p].frame].page,
                                 !.outPid = FrameTable[job[p].frame].pid]
  <2>1. Step(p, "victim", to, j) /\ UNCHANGED <<comm, pte, FrameTable, NextBlock, vmStats>>
    BY <1>3 DEF TakeVictim, statVars
  <2>2. j.pid = job[p].pid /\ j.page = job[p].page /\ j.exists = job[p].exists
    BY <1>0 DEF Job
  <2>3. <<"victim", to>> \in GoesOn /\ (to = "count" <=> ~job[p].exists) /\ to # "pagein"
    BY DEF GoesOn
  <2>. HIDE DEF to, j
  <2>4. Goes(p, "victim", to)
    BY <2>1, <2>2, <2>3 DEF Goes, Step, At, TypeInv, TypeOK
  <2>. QED  BY <1>3, <2>1, <2>3, <2>4 DEF Moves
<1>4. ASSUME CountedNew(p)
      PROVE  Moves(p, "count", "update")
  <2>1. Step(p, "count", "update", job[p]) /\ UNCHANGED <<comm, pte, FrameTable, NextBlock>>
        /\ Counted("new")
    BY <1>4 DEF CountedNew, CountNew, Count, Counted
  <2>2. Goes(p, "count", "update")
    BY <2>1 DEF Goes, GoesOn, Step, At, TypeInv, TypeOK
  <2>3. KeepsTables
    BY <2>1 DEF KeepsTables, Step, TypeInv, TypeOK
  <2>. QED  BY <2>1, <2>2, <2>3 DEF Moves
<1>5. ASSUME UpdateTables(p), UNCHANGED statVars
      PROVE  Moves(p, "update", "access")
  <2>1. Step(p, "update", "access", job[p]) /\ UNCHANGED <<comm, NextBlock, vmStats>>
    BY <1>5 DEF UpdateTables, statVars
  <2>2. Goes(p, "update", "access")
    BY <2>1 DEF Goes, GoesOn, Step, At, TypeInv, TypeOK
  <2>. QED  BY <1>5, <2>1, <2>2 DEF Moves
<1>6. ASSUME CheckAccess(p), UNCHANGED statVars
      PROVE  \E to : Moves(p, "access", to)
  <2> DEFINE to == IF MustWrite(job[p]) THEN "block" ELSE "fill"
             j == [job[p] EXCEPT !.accessRef = ref[job[p].frame]]
  <2>1. Step(p, "access", to, j) /\ UNCHANGED <<comm, pte, FrameTable, NextBlock, vmStats>>
    BY <1>6 DEF CheckAccess, statVars
  <2>2. ref[job[p].frame] \in BOOLEAN
    BY <1>0 DEF TypeInv, TypeOK, Job
  <2>3. j \in Job /\ j.pid = job[p].pid /\ j.page = job[p].page /\ j.exists = job[p].exists
        /\ j.outPage = job[p].outPage /\ j.outPid = job[p].outPid
    BY <1>0, <2>2 DEF Job
  <2>4. <<"access", to>> \in GoesOn /\ to # "pagein"
    BY DEF GoesOn
  <2>. HIDE DEF to, j
  <2>. QED  BY <2>1, <2>3, <2>4, MovesOn
<1>7. ASSUME FindBlock(p), UNCHANGED statVars
      PROVE  \/ \E msg : /\ Answer(p, "block", msg)
                         /\ msg.failed = faults[job[p].pid].failed
                         /\ UNCHANGED <<pte, FrameTable, NextBlock, vmStats>>
             \/ \E to : Moves(p, "block", to)
  <2> DEFINE to == IF OutEntry(job[p]).diskBlock = EMPTY THEN "alloc" ELSE "mapout"
             pid == job[p].pid
             msg == [faults[pid] EXCEPT !.shouldTerminate = TRUE]
  <2>0. pid \in Slot
    BY <1>0, ProcessAssumption DEF Job, Slot, NOBODY
  <2>1. CASE OutEntry(job[p]).diskBlock = EMPTY /\ NextBlock = DiskBlocks
    <3>1. Answer(p, "block", msg) /\ UNCHANGED <<pte, FrameTable, NextBlock, vmStats>>
      BY <1>7, <2>1 DEF FindBlock, statVars
    <3>2. msg.failed = faults[pid].failed
      BY <1>0, <2>0 DEF FaultMsg
    <3>. HIDE DEF msg
    <3>. QED  BY <3>1, <3>2
  <2>2. CASE ~(OutEntry(job[p]).diskBlock = EMPTY /\ NextBlock = DiskBlocks)
    <3>1. Step(p, "block", to, job[p])
          /\ UNCHANGED <<comm, pte, FrameTable, NextBlock, vmStats>>
      BY <1>7, <2>2 DEF FindBlock, statVars
    <3>2. <<"block", to>> \in GoesOn /\ to # "pagein"
      BY DEF GoesOn
    <3>. HIDE DEF to
    <3>. QED  BY <1>0, <3>1, <3>2, MovesOn
  <2>. QED  BY <2>1, <2>2
<1>8. ASSUME AllocateBlock(p), UNCHANGED statVars
      PROVE  Moves(p, "alloc", "mapout")
  <2>1. Step(p, "alloc", "mapout", job[p]) /\ UNCHANGED <<comm, FrameTable, vmStats>>
        /\ NextBlock' = NextBlock + 1
    BY <1>8 DEF AllocateBlock, BlockAfter, statVars
  <2>2. Goes(p, "alloc", "mapout")
    BY <2>1 DEF Goes, GoesOn, Step, At, TypeInv, TypeOK
  <2>. QED  BY <1>8, <2>1, <2>2 DEF Moves
<1>9. ASSUME NEW from, NEW to, NEW i, MmuMap(p, from, to, i), UNCHANGED statVars,
             <<from, to>> \in {<<"mapout", "copyout">>, <<"mapin", "copyin">>}
      PROVE  (Rests /\ vmStats' = vmStats) \/ Moves(p, from, to)
  <2>1. CASE mmu[i] # EMPTY
    BY <1>9, <1>h, <2>1 DEF MmuMap, statVars
  <2>2. CASE mmu[i] = EMPTY
    <3>1. Step(p, from, to, job[p]) /\ UNCHANGED <<comm, pte, FrameTable, NextBlock, vmStats>>
      BY <1>9, <2>2 DEF MmuMap, statVars
    <3>2. <<from, to>> \in GoesOn /\ from \in {"mapout", "mapin"} /\ to # "pagein"
      BY <1>9 DEF GoesOn
    <3>. QED  BY <1>0, <3>1, <3>2, MovesOn
  <2>. QED  BY <2>1, <2>2
<1>10. ASSUME CopyOut(p), UNCHANGED statVars
       PROVE  (Rests /\ vmStats' = vmStats) \/ Moves(p, "copyout", "pageout")
  <2> DEFINE f == mmu[job[p].outPage]
             j == [job[p] EXCEPT !.buffer = ram[f], !.owner = ProcPid[getProc(job[p].outPid)]]
  <2>1. CASE f = EMPTY
    BY <1>10, <1>h, <2>1 DEF CopyOut, statVars
  <2>2. CASE f # EMPTY
    <3>1. Step(p, "copyout", "pageout", j)
          /\ UNCHANGED <<comm, pte, FrameTable, NextBlock, vmStats>> /\ ppc[p] = "copyout"
      BY <1>10, <2>2 DEF CopyOut, statVars, At
    <3>2. job[p].outPage \in Page
      BY <1>0, <3>1 DEF TypeInv, AtWork, Job
    <3>3. ram[f] \in PageData /\ ProcPid[getProc(job[p].outPid)] \in Users \cup {EMPTY}
      BY <1>0, <2>2, <3>2, OutSlot DEF TypeInv, TypeOK
    <3>4. j \in Job /\ j.pid = job[p].pid /\ j.page = job[p].page /\ j.exists = job[p].exists
          /\ j.outPage = job[p].outPage /\ j.outPid = job[p].outPid
      BY <1>0, <3>3 DEF Job
    <3>5. <<"copyout", "pageout">> \in GoesOn
      BY DEF GoesOn
    <3>. HIDE DEF j
    <3>. QED  BY <3>1, <3>4, <3>5, MovesOn
  <2>. QED  BY <2>1, <2>2
<1>t. ASSUME NEW from, NEW to, NEW e, NEW state, Transfer(p, from, to, e, state),
             <<from, to>> \in {<<"pageout", "writing">>, <<"pagein", "reading">>}
      PROVE  \/ Rests /\ halted' # "no"
             \/ Goes(p, from, to) /\ KeepsTables /\ NextBlock' = NextBlock
  <2> DEFINE j == [job[p] EXCEPT !.block = e.diskBlock, !.ahead = Ahead(e.diskBlock)]
  <2>1. CASE e.diskBlock = EMPTY \/ e.state # state
    BY <1>t, <1>h, <2>1 DEF Transfer, Refuse, Halt
  <2>2. CASE ~(e.diskBlock = EMPTY \/ e.state # state)
    <3>1. Step(p, from, to, j) /\ UNCHANGED <<comm, pte, FrameTable, NextBlock>>
      BY <1>t, <2>2 DEF Transfer
    <3>2. j.pid = job[p].pid /\ j.page = job[p].page /\ j.exists = job[p].exists
          /\ j.outPage = job[p].outPage /\ j.outPid = job[p].outPid
      BY <1>0 DEF Job
    <3>3. <<from, to>> \in GoesOn
      BY <1>t DEF GoesOn
    <3>. HIDE DEF j
    <3>4. Goes(p, from, to)
      BY <3>1, <3>2, <3>3 DEF Goes, Step, At, TypeInv, TypeOK
    <3>5. KeepsTables
      BY <3>1, <3>2 DEF KeepsTables, Step, TypeInv, TypeOK
    <3>. QED  BY <3>1, <3>4, <3>5
  <2>. QED  BY <2>1, <2>2
<1>11. ASSUME CountedPageOut(p)
       PROVE  \/ Rests /\ halted' # "no" /\ ppc[p] = "pageout" /\ Counted("pageOuts")
              \/ Moves(p, "pageout", "writing")
  <2>1. ppc[p] = "pageout" /\ Counted("pageOuts")
    BY <1>11 DEF CountedPageOut, PageOut, At, Count, Counted
  <2>2. CASE job[p].owner = EMPTY
    BY <1>11, <1>h, <2>1, <2>2 DEF CountedPageOut, PageOut, Refuse, Halt
  <2>3. CASE job[p].owner # EMPTY
    <3>1. \/ Rests /\ halted' # "no"
          \/ Goes(p, "pageout", "writing") /\ KeepsTables /\ NextBlock' = NextBlock
      BY <1>11, <1>t, <2>3 DEF CountedPageOut, PageOut
    <3>. QED  BY <2>1, <3>1 DEF Moves
  <2>. QED  BY <2>2, <2>3
<1>12. ASSUME CountedPageIn(p)
       PROVE  \/ Rests /\ halted' # "no" /\ ppc[p] = "pagein" /\ Counted("pageIns")
              \/ Moves(p, "pagein", "reading")
  <2>1. ppc[p] = "pagein" /\ Counted("pageIns")
    BY <1>12 DEF CountedPageIn, PageIn, At, Count, Counted
  <2>2. \/ Rests /\ halted' # "no"
        \/ Goes(p, "pagein", "reading") /\ KeepsTables /\ NextBlock' = NextBlock
    BY <1>12, <1>t DEF CountedPageIn, PageIn
  <2>. QED  BY <2>1, <2>2 DEF Moves
<1>13. ASSUME Fill(p), UNCHANGED statVars
       PROVE  \E to : Moves(p, "fill", to)
  <2> DEFINE to == IF MustRead(job[p]) THEN "pagein" ELSE "mapin"
             j == [job[p] EXCEPT !.buffer = Zero]
  <2>1. Step(p, "fill", to, j) /\ UNCHANGED <<comm, pte, FrameTable, NextBlock, vmStats>>
    BY <1>13 DEF Fill, statVars
  <2>2. j \in Job /\ j.pid = job[p].pid /\ j.page = job[p].page /\ j.exists = job[p].exists
        /\ j.outPage = job[p].outPage /\ j.outPid = job[p].outPid
    BY <1>0 DEF Job, PageData
  <2>3. <<"fill", to>> \in GoesOn /\ (to = "pagein" => job[p].exists)
    BY DEF GoesOn, MustRead
  <2>. HIDE DEF to, j
  <2>. QED  BY <2>1, <2>2, <2>3, MovesOn
<1>14. ASSUME CopyIn(p), UNCHANGED statVars
       PROVE  \/ Rests /\ vmStats' = vmStats
              \/ \E msg : /\ Answer(p, "copyin", msg)
                          /\ msg.failed = faults[job[p].pid].failed
                          /\ UNCHANGED <<pte, FrameTable, NextBlock, vmStats>>
  BY <1>14, <1>h DEF CopyIn, statVars
<1>15. ASSUME NEW from, NEW to, NEW content, Transferred(p, from, to, content), UNCHANGED statVars,
              <<from, to>> \in {<<"writing", "fill">>, <<"reading", "mapin">>}
       PROVE  Moves(p, from, to)
  <2>1. \A q \in Pagers :
            /\ job'[q].pid = job[q].pid /\ job'[q].page = job[q].page
            /\ job'[q].exists = job[q].exists
            /\ job'[q].outPage = job[q].outPage /\ job'[q].outPid = job[q].outPid
    <3> TAKE q \in Pagers
    <3> DEFINE buffer == IF q = p THEN content ELSE job[q].buffer
               ahead  == job[q].ahead \ {p}
    <3>1. job'[q] = [job[q] EXCEPT !.ahead = ahead, !.buffer = buffer]
      BY <1>15 DEF Transferred
    <3>2. job[q] \in Job
      BY DEF TypeInv, TypeOK
    <3>. HIDE DEF buffer, ahead
    <3>. QED  BY <3>1, <3>2 DEF Job
  <2>2. ppc[p] = from /\ ppc' = [ppc EXCEPT ![p] = to] /\ vmStats' = vmStats
        /\ UNCHANGED <<halted, upc, ProcPid, comm, pte, FrameTable, NextBlock>>
    BY <1>15 DEF Transferred, statVars
  <2>3. Goes(p, from, to) /\ KeepsTables
    BY <1>15, <2>1, <2>2 DEF Goes, GoesOn, KeepsTables
  <2>4. from \in {"writing", "reading"} /\ to # "pagein"
    BY <1>15
  <2>. QED  BY <2>2, <2>3, <2>4 DEF Moves
<1>16. DiskDone(p) /\ UNCHANGED statVars => \E from, to : Moves(p, from, to)
  BY <1>15 DEF DiskDone, WriteDone, ReadDone
<1>17. Receive(p) /\ UNCHANGED statVars =>
          (Rests /\ vmStats' = vmStats) \/ (Receive(p) /\ ~Rests /\ vmStats' = vmStats)
  BY DEF statVars
<1>18. (MapOut(p) \/ MapIn(p)) /\ UNCHANGED statVars =>
          (Rests /\ vmStats' = vmStats) \/ \E from, to : Moves(p, from, to)
  BY <1>9 DEF MapOut, MapIn
<1> DEFINE Goal ==
         \/ Rests /\ vmStats' = vmStats
         \/ /\ Rests /\ halted' # "no"
            /\ \/ ppc[p] = "pagein" /\ Counted("pageIns")
               \/ ppc[p] = "pageout" /\ Counted("pageOuts")
         \/ Receive(p) /\ ~Rests /\ vmStats' = vmStats
         \/ \E from \in {"select", "block", "copyin"} : \E msg :
                /\ Answer(p, from, msg)
                /\ msg.failed = (from = "select" \/ faults[job[p].pid].failed)
                /\ UNCHANGED <<pte, FrameTable, NextBlock, vmStats>>
         \/ \E from, to : Moves(p, from, to)
<1>a. ASSUME NEW from, NEW to, Moves(p, from, to) PROVE Goal
  BY <1>a
<1>b. ASSUME NEW from \in {"select", "block", "copyin"}, NEW msg, Answer(p, from, msg),
             msg.failed = (from = "select" \/ faults[job[p].pid].failed),
             UNCHANGED <<pte, FrameTable, NextBlock, vmStats>>
      PROVE  Goal
  BY <1>b
<1>c. Rests /\ vmStats' = vmStats => Goal
  OBVIOUS
<1>d. faults[job[p].pid].failed \in BOOLEAN
  BY <1>0, ProcessAssumption DEF Job, Slot, NOBODY, FaultMsg
<1>e. CountedPageOut(p) => Goal
  BY <1>11, <1>a
<1>f. CountedPageIn(p) => Goal
  BY <1>12, <1>a
<1>g. Receive(p) /\ UNCHANGED statVars => Goal
  BY <1>17
<1>i. CopyIn(p) /\ UNCHANGED statVars => Goal
  BY <1>14, <1>b, <1>c, <1>d
<1>j. FindBlock(p) /\ UNCHANGED statVars => Goal
  BY <1>7, <1>a, <1>b, <1>d
<1>k. GetNextFrame(p) /\ UNCHANGED statVars => Goal
  BY <1>2, <1>a, <1>b, <1>d
<1>. HIDE DEF Goal
<1>l. (MapOut(p) \/ MapIn(p) \/ CopyOut(p) \/ Fill(p)) /\ UNCHANGED statVars => Goal
  BY <1>10, <1>13, <1>18, <1>a, <1>c
<1>m. (UpdateTables(p) \/ TakeVictim(p) \/ CheckAccess(p) \/ AllocateBlock(p) \/ DiskDone(p))
      /\ UNCHANGED statVars => Goal
  BY <1>3, <1>5, <1>6, <1>8, <1>16, <1>a
<1>n. Goal
  BY <1>1, <1>4, <1>a, <1>c, <1>e, <1>f, <1>g, <1>i, <1>j, <1>k, <1>l, <1>m DEF PagerNext
<1>. QED  BY <1>n DEF Goal

\* A user goes on in its program or in FaultHandler, and neither sends a fault nor is woken.
UserGoes(u, from, to) ==
    /\ {from, to} \cap {"unborn", "wait", "dead"} = {} /\ from # "send"
    /\ upc[u] = from /\ upc' = [upc EXCEPT ![u] = to]
    /\ UNCHANGED <<halted, ProcPid, pte, sem, FaultsMbox, NextBlock, ppc, job>>
    /\ \A f \in Frame : FrameTable'[f].page = FrameTable[f].page
                        /\ FrameTable'[f].pid = FrameTable[f].pid
    /\ \A s \in Slot : faults'[s].failed => faults[s].failed

\* Each step of a user is one of these (phase5.c:343-407, p1.c:26-49, p1.c:177-218).
LEMMA UserMoves ==
  ASSUME TypeInv, ProgramInv, NEW u \in Users, UserNext(u)
  PROVE  \/ (p1_fork(u) \/ p1_quit(u) \/ SendFault(u) \/ Resume(u)) /\ vmStats' = vmStats
         \/ UserGoes(u, "counting", "send") /\ Counted("faults")
         \/ \E from, to : UserGoes(u, from, to) /\ to # "send" /\ vmStats' = vmStats
<1>. USE DEF comm
<1>1. ASSUME NEW i \in Page, Load(u, i) PROVE UserGoes(u, "user", "user")
  BY <1>1 DEF Load, UserStep, UserGoes
<1>2. ASSUME NEW i \in Page, NEW v \in Values, Store(u, i, v) PROVE UserGoes(u, "user", "user")
  BY <1>2 DEF Store, UserStep, UserGoes
<1>3. ASSUME NEW i \in Page, PageFault(u, i) PROVE UserGoes(u, "user", "count")
  BY <1>3 DEF PageFault, UserStep, UserGoes
<1>4. ASSUME Access(u)
      PROVE  \E from, to : UserGoes(u, from, to) /\ to # "send" /\ vmStats' = vmStats
  <2>1. vmStats' = vmStats
    BY <1>4 DEF Access, Done, statVars
  <2>2. CASE Now(u).op = "read" /\ Load(u, Now(u).page)
    BY <1>1, <2>1, <2>2, NextAccess DEF ProgramInv
  <2>3. CASE Now(u).op = "write" /\ Store(u, Now(u).page, Now(u).value)
    BY <1>2, <2>1, <2>3, NextAccess DEF ProgramInv
  <2>4. CASE Now(u).op \in {"read", "write"} /\ PageFault(u, Now(u).page)
    BY <1>3, <2>1, <2>4, NextAccess DEF ProgramInv
  <2>. QED  BY <1>4, <2>2, <2>3, <2>4 DEF Access
<1>5. Asserts(u) => UserGoes(u, "user", "user") /\ vmStats' = vmStats
  BY DEF Asserts, Done, vars, UserGoes, TypeInv, TypeOK
<1>6. CountedFault(u) => UserGoes(u, "counting", "send") /\ Counted("faults")
  BY DEF CountedFault, CountFault, UserStep, UserGoes, Count, Counted
<1>7. LockVmStats(u) => UserGoes(u, "count", "counting")
  BY DEF LockVmStats, UserStep, UserGoes
<1>8. LockFrames(u) => UserGoes(u, "unlock", "unlocking")
  BY DEF LockFrames, UserStep, UserGoes
<1>9. UnlockFrame(u) => UserGoes(u, "unlocking", "user")
  <2>. SUFFICES ASSUME UnlockFrame(u) PROVE UserGoes(u, "unlocking", "user")
    OBVIOUS
  <2>1. PICK g : FrameTable' = [FrameTable EXCEPT ![g].locked = FALSE]
    BY DEF UnlockFrame, Unlocked
  <2>2. \A f \in Frame : FrameTable'[f].page = FrameTable[f].page
                         /\ FrameTable'[f].pid = FrameTable[f].pid
    BY <2>1 DEF TypeInv, TypeOK, Entry
  <2>3. \A s \in Slot : faults'[s].failed => faults[s].failed
    BY UserSlot DEF UnlockFrame, Forget, NoFault, TypeInv, TypeOK
  <2>4. upc[u] = "unlocking" /\ upc' = [upc EXCEPT ![u] = "user"]
        /\ UNCHANGED <<halted, ProcPid, pte, sem, FaultsMbox, NextBlock, ppc, job>>
    BY DEF UnlockFrame, UserStep
  <2>. QED  BY <2>2, <2>3, <2>4 DEF UserGoes
<1>10. Quit(u) => p1_quit(u) /\ vmStats' = vmStats
  BY DEF Quit, statVars
<1>a. ASSUME NEW from, NEW to, UserGoes(u, from, to), to # "send", vmStats' = vmStats
      PROVE  \E x, y : UserGoes(u, x, y) /\ y # "send" /\ vmStats' = vmStats
  BY <1>a
<1>11. (LockVmStats(u) \/ LockFrames(u) \/ UnlockFrame(u)) /\ vmStats' = vmStats =>
           \E from, to : UserGoes(u, from, to) /\ to # "send" /\ vmStats' = vmStats
  BY <1>7, <1>8, <1>9, <1>a
<1>12. Asserts(u) => \E from, to : UserGoes(u, from, to) /\ to # "send" /\ vmStats' = vmStats
  BY <1>5, <1>a
<1>. QED  BY <1>4, <1>6, <1>10, <1>11, <1>12 DEF UserNext, statVars

\* A switch, and a step of nobody.
LEMMA OthersRest ==
  ASSUME (\E x \in Process : p1_switch(x) /\ UNCHANGED statVars) \/ UNCHANGED allVars
  PROVE  Rests /\ vmStats' = vmStats
<1>1. CASE UNCHANGED allVars
  BY <1>1 DEF allVars, vars, statVars, comm, Rests
<1>2. CASE \E x \in Process : p1_switch(x) /\ UNCHANGED statVars
  BY <1>2 DEF p1_switch, Halt, comm, statVars, Rests
<1>. QED  BY <1>1, <1>2

-----------------------------------------------------------------------------
(* The messages that have not failed.                                        *)

LEMMA SlotOfSlot == \A s \in Slot : getProc(s) = s
  BY ProcessAssumption DEF Slot, getProc

\* The process a pager serves waits, in the slot of its own pid, and nobody else serves it.
LEMMA JobSlot ==
  ASSUME TypeInv, AnswerInv, NEW p \in Pagers, ppc[p] # "receive"
  PROVE  /\ job[p].pid \in Users /\ job[p].pid \in Slot /\ getProc(job[p].pid) = job[p].pid
         /\ upc[job[p].pid] = "wait" /\ job[p].pid \in Live /\ ~InMail(job[p].pid)
         /\ sem[job[p].pid] = 0
         /\ \A q \in Pagers \ {p} : ppc[q] # "receive" => job[q].pid # job[p].pid
         /\ \A v \in Live \ {job[p].pid} : getProc(v) # job[p].pid
<1>1. job[p].pid \in Users /\ job[p].pid \in Slot
  BY AnswerTypes DEF TypeInv, TypeOK, AtWork, Job, NOBODY
<1>2. getProc(job[p].pid) = job[p].pid
  BY <1>1, SlotOfSlot
<1>3. Served(p) = job[p].pid /\ job[p].pid # NOBODY
  BY <1>1, AnswerTypes DEF Served
<1>4. upc[job[p].pid] = "wait" /\ job[p].pid \in Live /\ ~InMail(job[p].pid)
  BY <1>1, <1>3, AnswerTypes DEF AnswerInv, ServedInv, MailInv
<1>5. \A q \in Pagers \ {p} : ppc[q] # "receive" => job[q].pid # job[p].pid
  BY <1>3 DEF Served, AnswerInv, ServedInv
<1>6. \A v \in Live \ {job[p].pid} : getProc(v) # job[p].pid
  BY <1>2, <1>4 DEF AnswerInv, OwnSlots
<1>7. sem[job[p].pid] = 0
  BY <1>2, <1>3, <1>4 DEF AnswerInv, SemInv
<1>. QED  BY <1>1, <1>2, <1>4, <1>5, <1>6, <1>7

\* What an answer changes.
LEMMA AnswerChanges ==
  ASSUME TypeInv, AnswerInv, NEW p \in Pagers, NEW from, NEW msg, Answer(p, from, msg),
         from # "receive"
  PROVE  /\ ppc[p] = from /\ ppc' = [ppc EXCEPT ![p] = "receive"]
         /\ \A q \in Pagers \ {p} : job'[q] = job[q]
         /\ job'[p] = NoJob
         /\ UNCHANGED <<halted, upc, ProcPid, FaultsMbox>>
         /\ faults'[job[p].pid] = msg
         /\ \A s \in Slot \ {job[p].pid} : faults'[s] = faults[s] /\ sem'[s] = sem[s]
BY JobSlot DEF Answer, Step, At, semVProc, TypeInv, TypeOK

\* What receiving a message changes.
LEMMA ReceiveChanges ==
  ASSUME TypeInv, AnswerInv, NEW p \in Pagers, Receive(p), ~Rests
  PROVE  \E u \in Users : \E j :
            /\ u \in Slot /\ getProc(u) = u /\ InMail(u)
            /\ j.pid = u /\ j.page = faults[u].page /\ j.outPage = EMPTY
            /\ j.exists = (pte[u][faults[u].page].state # "UNUSED")
            /\ ppc[p] = "receive" /\ ppc' = [ppc EXCEPT ![p] = "select"]
            /\ job' = [job EXCEPT ![p] = j]
            /\ UNCHANGED <<halted, upc, ProcPid, pte, FrameTable, sem, faults, NextBlock>>
            /\ \A k \in 1 .. Len(FaultsMbox') : FaultsMbox'[k] = FaultsMbox[k + 1]
                                               /\ k + 1 \in 1 .. Len(FaultsMbox)
            /\ u = FaultsMbox[1] /\ 1 \in 1 .. Len(FaultsMbox)
<1>0. PICK u : u = Head(FaultsMbox)
  OBVIOUS
<1>1. CASE u >= MAXPROC
  <2>1. Halt("faults")
    BY <1>0, <1>1 DEF Receive
  <2>. QED  BY <2>1 DEF Halt, Rests, comm
<1>2. CASE ~(u >= MAXPROC)
  <2>1. PICK j : j = [NoJob EXCEPT !.pid = u, !.page = faults[u].page,
                        !.exists = pte[getProc(u)][faults[u].page].state # "UNUSED"]
    OBVIOUS
  <2>2. /\ FaultsMbox # <<>> /\ FaultsMbox \in Seq(Users) /\ FaultsMbox' = Tail(FaultsMbox)
        /\ ppc[p] = "receive" /\ ppc' = [ppc EXCEPT ![p] = "select"]
        /\ job' = [job EXCEPT ![p] = j]
        /\ UNCHANGED <<halted, upc, ProcPid, pte, FrameTable, sem, faults, NextBlock>>
    BY <1>0, <1>2, <2>1 DEF TypeInv, TypeOK, Receive, Step, At
  <2>3. /\ \A k \in 1 .. Len(FaultsMbox') : FaultsMbox'[k] = FaultsMbox[k + 1]
                                           /\ k + 1 \in 1 .. Len(FaultsMbox)
        /\ u = FaultsMbox[1] /\ u \in Users /\ 1 \in 1 .. Len(FaultsMbox)
    BY <1>0, <2>2
  <2>4. u \in Slot
    BY <1>2, <2>3, ProcessAssumption DEF Slot
  <2>5. getProc(u) = u /\ InMail(u)
    BY <2>3, <2>4, SlotOfSlot DEF InMail
  <2>6. /\ j.pid = u /\ j.page = faults[u].page /\ j.outPage = EMPTY
        /\ j.exists = (pte[u][faults[u].page].state # "UNUSED")
    BY <2>1, <2>5 DEF NoJob
  <2>. QED  BY <2>2, <2>3, <2>4, <2>5, <2>6
<1>. QED  BY <1>1, <1>2

LEMMA FailedKept ==
  ASSUME TypeInv, AnswerInv, FailedInv, UNCHANGED <<FaultsMbox>>,
         \A p \in Pagers : ppc'[p] # "receive" => ppc[p] # "receive" /\ job'[p].pid = job[p].pid,
         \A s \in Slot : faults'[s].failed => faults[s].failed
  PROVE  FailedInv'
<1>1. \A p \in Pagers : ppc'[p] # "receive" => ~faults'[job'[p].pid].failed
  BY JobSlot DEF FailedInv
<1>2. \A k \in 1 .. Len(FaultsMbox) : ~faults'[getProc(FaultsMbox[k])].failed
  BY UserSlot, AnswerTypes DEF FailedInv
<1>. QED  BY <1>1, <1>2 DEF FailedInv

\* The pagers' part of it.
LEMMA FailedPager ==
  ASSUME TypeInv, AnswerInv, FailedInv, NEW p \in Pagers, PagerNext(p)
  PROVE  FailedInv'
<1>1. CASE Rests
  BY <1>1, FailedKept DEF Rests
<1>2. CASE Receive(p) /\ ~Rests
  <2>1. PICK u, j :
            /\ u \in Users
            /\ u \in Slot /\ getProc(u) = u /\ j.pid = u
            /\ ppc' = [ppc EXCEPT ![p] = "select"] /\ job' = [job EXCEPT ![p] = j]
            /\ faults' = faults
            /\ \A k \in 1 .. Len(FaultsMbox') : FaultsMbox'[k] = FaultsMbox[k + 1]
                                               /\ k + 1 \in 1 .. Len(FaultsMbox)
            /\ u = FaultsMbox[1] /\ 1 \in 1 .. Len(FaultsMbox)
    BY <1>2, ReceiveChanges
  <2>2. ~faults[u].failed
    BY <2>1 DEF FailedInv
  <2>3. \A q \in Pagers : ppc'[q] # "receive" => ~faults'[job'[q].pid].failed
    BY <2>1, <2>2 DEF FailedInv, TypeInv, TypeOK
  <2>4. \A k \in 1 .. Len(FaultsMbox') : ~faults'[getProc(FaultsMbox'[k])].failed
    BY <2>1 DEF FailedInv
  <2>. QED  BY <2>3, <2>4 DEF FailedInv
<1>3. ASSUME NEW from \in {"select", "block", "copyin"}, NEW msg, Answer(p, from, msg)
      PROVE  FailedInv'
  <2>1. /\ ppc[p] # "receive" /\ ppc' = [ppc EXCEPT ![p] = "receive"]
        /\ FaultsMbox' = FaultsMbox
        /\ \A q \in Pagers \ {p} : job'[q] = job[q]
        /\ \A s \in Slot \ {job[p].pid} : faults'[s] = faults[s]
    BY <1>3, AnswerChanges
  <2>2. \A q \in Pagers : ppc'[q] # "receive" => ~faults'[job'[q].pid].failed
    BY <2>1, JobSlot DEF FailedInv, TypeInv, TypeOK
  <2>3. ASSUME NEW k \in 1 .. Len(FaultsMbox) PROVE ~faults'[getProc(FaultsMbox[k])].failed
    <3>1. FaultsMbox[k] \in Live /\ FaultsMbox[k] # job[p].pid /\ getProc(FaultsMbox[k]) \in Slot
      BY <2>1, JobSlot, AnswerTypes, UserSlot DEF AnswerInv, MailInv, InMail
    <3>2. getProc(FaultsMbox[k]) # job[p].pid
      BY <2>1, <3>1, JobSlot
    <3>. QED  BY <2>1, <3>1, <3>2 DEF FailedInv
  <2>. QED  BY <2>1, <2>2, <2>3 DEF FailedInv
<1>4. ASSUME NEW from, NEW to, Moves(p, from, to) PROVE FailedInv'
  <2>1. from # "receive"
    BY <1>4 DEF Moves, Goes, GoesOn
  <2>. QED  BY <1>4, <2>1, FailedKept DEF Moves, Goes, TypeInv, TypeOK
<1>. QED  BY <1>1, <1>2, <1>3, <1>4, PagerMoves

LEMMA FailedUser ==
  ASSUME TypeInv, ProgramInv, AnswerInv, FailedInv, NEW u \in Users, UserNext(u)
  PROVE  FailedInv'
<1>1. ASSUME NEW from, NEW to, UserGoes(u, from, to) PROVE FailedInv'
  BY <1>1, FailedKept DEF UserGoes
<1>2. CASE p1_fork(u)
  BY <1>2, FailedKept DEF p1_fork
<1>3. CASE p1_quit(u)
  <2>1. CASE CanUnload(u)
    <3>1. /\ UNCHANGED <<FaultsMbox, ppc, job>>
          /\ faults' = [faults EXCEPT ![getProc(u)] = NoFault]
      BY <1>3, <2>1 DEF p1_quit, Forget
    <3>2. \A s \in Slot : faults'[s].failed => faults[s].failed
      BY <3>1, UserSlot DEF NoFault, TypeInv, TypeOK
    <3>. QED  BY <3>1, <3>2, FailedKept
  <2>2. CASE ~CanUnload(u)
    BY <1>3, <2>2, FailedKept DEF p1_quit, Halt, comm
  <2>. QED  BY <2>1, <2>2
<1>4. CASE SendFault(u)
  <2>1. /\ UNCHANGED <<ppc, job>> /\ FaultsMbox' = Append(FaultsMbox, u)
        /\ faults' = [faults EXCEPT ![getProc(u)] =
                        [@ EXCEPT !.page = offset[u], !.failed = FALSE, !.shouldTerminate = FALSE]]
    BY <1>4 DEF SendFault, UserStep, Posted
  <2>2. ~faults'[getProc(u)].failed /\ \A s \in Slot : faults'[s].failed => faults[s].failed
    BY <2>1, UserSlot DEF TypeInv, TypeOK, FaultMsg
  <2>3. \A p \in Pagers : ppc'[p] # "receive" => ~faults'[job'[p].pid].failed
    BY <2>1, <2>2, JobSlot DEF FailedInv
  <2>4. FaultsMbox \in Seq(Users)
    BY DEF TypeInv, TypeOK
  <2>5. \A k \in 1 .. Len(FaultsMbox') : ~faults'[getProc(FaultsMbox'[k])].failed
    BY <2>1, <2>2, <2>4, UserSlot DEF FailedInv
  <2>. QED  BY <2>3, <2>5 DEF FailedInv
<1>5. CASE Resume(u)
  BY <1>5, FailedKept DEF Resume, UserStep
<1>. QED  BY <1>1, <1>2, <1>3, <1>4, <1>5, UserMoves

-----------------------------------------------------------------------------
(* No fault is counted as two kinds.                                         *)

LEMMA SetsShrink ==
  ASSUME \A v \in Users : Asks(v)' => Asks(v),
         \A q \in Pagers : /\ MayCount(q)' => MayCount(q) /\ job'[q].pid = job[q].pid
                           /\ MayWrite(q)' => MayWrite(q) /\ job'[q].pid = job[q].pid
  PROVE  NotCounted' \subseteq NotCounted /\ NotWritten' \subseteq NotWritten
BY DEF NotCounted, NotWritten

\* A step that counts nothing, and after which no more faults may be counted than before.
LEMMA KindsKept ==
  ASSUME CountersInv, KindsInv, IsFiniteSet(Users), vmStats' = vmStats,
         halted' = "no" => halted = "no",
         \A p \in Pagers : ppc'[p] = "count" => ~job'[p].exists,
         NotCounted' \subseteq NotCounted, NotWritten' \subseteq NotWritten
  PROVE  KindsInv'
<1>1. PICK A, B : A = NotCounted' /\ B = NotWritten'
  OBVIOUS
<1>2. NotCounted \in SUBSET Users /\ NotWritten \in SUBSET Users
  BY DEF NotCounted, NotWritten
<1>3. IsFiniteSet(NotCounted) /\ IsFiniteSet(NotWritten)
  BY <1>2, SmallerSet
<1>4. /\ Cardinality(A) <= Cardinality(NotCounted) /\ Cardinality(A) \in Nat
      /\ Cardinality(B) <= Cardinality(NotWritten) /\ Cardinality(B) \in Nat
      /\ Cardinality(NotCounted) \in Nat /\ Cardinality(NotWritten) \in Nat
  BY <1>1, <1>3, SmallerSet
<1>5. halted' = "no" =>
         /\ vmStats.new + vmStats.pageIns + Cardinality(A) <= vmStats.faults
         /\ vmStats.pageOuts + Cardinality(B) <= vmStats.faults
  BY <1>4, CountedUp DEF KindsInv
<1>. QED  BY <1>1, <1>5 DEF KindsInv

\* A pager counts the fault it serves, which then may not be counted again.
LEMMA KindsCounted ==
  ASSUME CountersInv, KindsInv, IsFiniteSet(Users), halted = "no", NEW u \in Users,
         \A p \in Pagers : ppc'[p] = "count" => ~job'[p].exists,
         \/ /\ Counted("new") \/ Counted("pageIns")
            /\ u \in NotCounted
            /\ halted' = "no" => /\ NotCounted' \subseteq NotCounted \ {u}
                                 /\ NotWritten' \subseteq NotWritten
         \/ /\ Counted("pageOuts")
            /\ u \in NotWritten
            /\ halted' = "no" => /\ NotWritten' \subseteq NotWritten \ {u}
                                 /\ NotCounted' \subseteq NotCounted
  PROVE  KindsInv'
<1>1. PICK A, B : A = NotCounted' /\ B = NotWritten'
  OBVIOUS
<1>2. NotCounted \in SUBSET Users /\ NotWritten \in SUBSET Users
  BY DEF NotCounted, NotWritten
<1>3. IsFiniteSet(NotCounted) /\ IsFiniteSet(NotWritten)
      /\ Cardinality(NotCounted) \in Nat /\ Cardinality(NotWritten) \in Nat
  BY <1>2, SmallerSet
<1>4. /\ vmStats.new + vmStats.pageIns + Cardinality(NotCounted) <= vmStats.faults
      /\ vmStats.pageOuts + Cardinality(NotWritten) <= vmStats.faults
  BY DEF KindsInv
<1>5. CASE /\ Counted("new") \/ Counted("pageIns")
           /\ u \in NotCounted
           /\ halted' = "no" => /\ NotCounted' \subseteq NotCounted \ {u}
                                /\ NotWritten' \subseteq NotWritten
  <2>1. 1 <= Cardinality(NotCounted)
    <3>1. {} \in SUBSET (NotCounted \ {u})
      OBVIOUS
    <3>2. Cardinality({}) = 0
      BY FS_EmptySet
    <3>. QED  BY <1>3, <1>5, <3>1, <3>2, SetWithout
  <2>2. halted' = "no" => /\ Cardinality(A) + 1 <= Cardinality(NotCounted)
                          /\ Cardinality(B) <= Cardinality(NotWritten)
                          /\ Cardinality(A) \in Nat /\ Cardinality(B) \in Nat
    <3>. SUFFICES ASSUME halted' = "no"
                  PROVE  /\ Cardinality(A) + 1 <= Cardinality(NotCounted)
                         /\ Cardinality(B) <= Cardinality(NotWritten)
                         /\ Cardinality(A) \in Nat /\ Cardinality(B) \in Nat
      OBVIOUS
    <3>1. A \in SUBSET (NotCounted \ {u}) /\ A \in SUBSET NotCounted /\ B \in SUBSET NotWritten
      BY <1>1, <1>5
    <3>2. Cardinality(A) + 1 <= Cardinality(NotCounted)
      BY <1>3, <1>5, <3>1, SetWithout
    <3>. QED  BY <1>3, <3>1, <3>2, SmallerSet
  <2>3. /\ vmStats'.new + vmStats'.pageIns = vmStats.new + vmStats.pageIns + 1
        /\ vmStats'.pageOuts = vmStats.pageOuts /\ vmStats'.faults = vmStats.faults
        /\ vmStats.new + vmStats.pageIns \in Nat
    BY <1>5, CountedUp
  <2>4. /\ vmStats'.new + vmStats'.pageIns <= vmStats'.faults
        /\ halted' = "no" =>
              /\ vmStats'.new + vmStats'.pageIns + Cardinality(A) <= vmStats'.faults
              /\ vmStats'.pageOuts + Cardinality(B) <= vmStats'.faults
    BY <1>3, <1>4, <2>1, <2>2, <2>3, CountedUp
  <2>5. vmStats'.pageOuts <= vmStats'.faults
    BY <2>3 DEF KindsInv
  <2>. QED  BY <1>1, <2>4, <2>5 DEF KindsInv
<1>6. CASE /\ Counted("pageOuts")
           /\ u \in NotWritten
           /\ halted' = "no" => /\ NotWritten' \subseteq NotWritten \ {u}
                                /\ NotCounted' \subseteq NotCounted
  <2>1. 1 <= Cardinality(NotWritten)
    <3>1. {} \in SUBSET (NotWritten \ {u})
      OBVIOUS
    <3>2. Cardinality({}) = 0
      BY FS_EmptySet
    <3>. QED  BY <1>3, <1>6, <3>1, <3>2, SetWithout
  <2>2. halted' = "no" => /\ Cardinality(B) + 1 <= Cardinality(NotWritten)
                          /\ Cardinality(A) <= Cardinality(NotCounted)
                          /\ Cardinality(A) \in Nat /\ Cardinality(B) \in Nat
    <3>. SUFFICES ASSUME halted' = "no"
                  PROVE  /\ Cardinality(B) + 1 <= Cardinality(NotWritten)
                         /\ Cardinality(A) <= Cardinality(NotCounted)
                         /\ Cardinality(A) \in Nat /\ Cardinality(B) \in Nat
      OBVIOUS
    <3>1. B \in SUBSET (NotWritten \ {u}) /\ B \in SUBSET NotWritten /\ A \in SUBSET NotCounted
      BY <1>1, <1>6
    <3>2. Cardinality(B) + 1 <= Cardinality(NotWritten)
      BY <1>3, <1>6, <3>1, SetWithout
    <3>. QED  BY <1>3, <3>1, <3>2, SmallerSet
  <2>3. /\ vmStats'.new + vmStats'.pageIns = vmStats.new + vmStats.pageIns
        /\ vmStats'.pageOuts = vmStats.pageOuts + 1 /\ vmStats'.faults = vmStats.faults
        /\ vmStats.new + vmStats.pageIns \in Nat
    BY <1>6, CountedUp
  <2>4. /\ vmStats'.pageOuts <= vmStats'.faults
        /\ halted' = "no" =>
              /\ vmStats'.new + vmStats'.pageIns + Cardinality(A) <= vmStats'.faults
              /\ vmStats'.pageOuts + Cardinality(B) <= vmStats'.faults
    BY <1>3, <1>4, <2>1, <2>2, <2>3, CountedUp
  <2>5. vmStats'.new + vmStats'.pageIns <= vmStats'.faults
    BY <2>3 DEF KindsInv
  <2>. QED  BY <1>1, <2>4, <2>5 DEF KindsInv
<1>. QED  BY <1>5, <1>6

\* The machine goes on with the pager it runs.
LEMMA PagerRuns ==
  ASSUME NEW p \in Pagers, PagerNext(p)
  PROVE  halted = "no"
BY DEF PagerNext, CountedNew, CountedPageIn, CountedPageOut, BlockOnMutex, Receive, GetNextFrame,
       TakeVictim, CountNew, UpdateTables, CheckAccess, FindBlock, AllocateBlock, MapOut, MapIn,
       MmuMap, CopyOut, PageOut, PageIn, Fill, CopyIn, DiskDone, WriteDone, ReadDone, Transferred,
       Answer, Step, At, Running

\* What a pager's move leaves to count.
LEMMA MovesCount ==
  ASSUME TypeInv, KindsInv, NEW p \in Pagers, NEW from, NEW to, Moves(p, from, to)
  PROVE  /\ \A v \in Users : Asks(v)' => Asks(v)
         /\ \A q \in Pagers : MayCount(q)' => MayCount(q)
         /\ \A q \in Pagers : MayWrite(q)' => MayWrite(q)
         /\ \A q \in Pagers : ppc'[q] = "count" => ~job'[q].exists
         /\ from = "count" => MayCount(p) /\ ~MayCount(p)'
         /\ from = "pagein" => MayCount(p) /\ ~MayCount(p)'
         /\ from = "pageout" => MayWrite(p) /\ ~MayWrite(p)'
<1>1. /\ ppc[p] = from /\ ppc' = [ppc EXCEPT ![p] = to] /\ <<from, to>> \in GoesOn
      /\ UNCHANGED <<upc, sem, FaultsMbox>>
      /\ \A s \in Slot : faults'[s].failed = faults[s].failed
      /\ \A q \in Pagers : job'[q].exists = job[q].exists
      /\ to = "pagein" => job[p].exists
      /\ to = "count" => ~job[p].exists
  BY DEF Moves, Goes, GoesOn
<1>2. ppc'[p] = to /\ \A q \in Pagers \ {p} : ppc'[q] = ppc[q]
  BY <1>1 DEF TypeInv, TypeOK
<1>3. \A v \in Users : Asks(v)' => Asks(v)
  BY <1>1, UserSlot DEF Asks, InMail
<1>4. \A q \in Pagers \ {p} : /\ MayCount(q)' => MayCount(q)
                              /\ MayWrite(q)' => MayWrite(q)
                              /\ ppc'[q] = "count" => ~job'[q].exists
  BY <1>1, <1>2 DEF MayCount, MayWrite, KindsInv
<1>5. MayCount(p)' => MayCount(p)
  BY <1>1, <1>2 DEF MayCount, GoesOn
<1>6. MayWrite(p)' => MayWrite(p)
  BY <1>1, <1>2 DEF MayWrite, GoesOn
<1>7. from = "count" => MayCount(p) /\ ~MayCount(p)'
  BY <1>1, <1>2 DEF MayCount, GoesOn, KindsInv
<1>8. from = "pagein" => MayCount(p) /\ ~MayCount(p)'
  BY <1>1, <1>2 DEF MayCount, GoesOn
<1>9. from = "pageout" => MayWrite(p) /\ ~MayWrite(p)'
  BY <1>1, <1>2 DEF MayWrite, GoesOn
<1>. QED  BY <1>1, <1>2, <1>3, <1>4, <1>5, <1>6, <1>7, <1>8, <1>9

LEMMA AtWorkWhenCounting ==
  ASSUME NEW p \in Pagers, MayCount(p) \/ MayWrite(p)
  PROVE  ppc[p] # "receive"
BY DEF MayCount, MayWrite

LEMMA KindsPager ==
  ASSUME TypeInv, AnswerInv, CountersInv, FailedInv, KindsInv, IsFiniteSet(Users),
         NEW p \in Pagers, PagerNext(p)
  PROVE  KindsInv'
<1> DEFINE u == job[p].pid
<1>0. halted = "no"
  BY PagerRuns
<1>u. ppc[p] # "receive" => u \in Users
  BY JobSlot
<1>1. CASE Rests /\ vmStats' = vmStats
  <2>1. NotCounted' = NotCounted /\ NotWritten' = NotWritten
    BY <1>1 DEF Rests, NotCounted, NotWritten, Asks, MayCount, MayWrite, InMail
  <2>2. \A q \in Pagers : ppc'[q] = "count" => ~job'[q].exists
    BY <1>1 DEF Rests, KindsInv
  <2>. QED  BY <1>0, <1>1, <2>1, <2>2, KindsKept
<1>2. CASE /\ Rests /\ halted' # "no"
           /\ \/ ppc[p] = "pagein" /\ Counted("pageIns")
              \/ ppc[p] = "pageout" /\ Counted("pageOuts")
  <2>1. \A q \in Pagers : ppc'[q] = "count" => ~job'[q].exists
    BY <1>2 DEF Rests, KindsInv
  <2>2. ppc[p] = "pagein" => u \in NotCounted
    BY <1>u DEF NotCounted, MayCount
  <2>3. ppc[p] = "pageout" => u \in NotWritten
    BY <1>u DEF NotWritten, MayWrite
  <2>. QED  BY <1>0, <1>2, <1>u, <2>1, <2>2, <2>3, KindsCounted
<1>3. CASE Receive(p) /\ ~Rests /\ vmStats' = vmStats
  <2>1. PICK v, j :
            /\ v \in Users
            /\ InMail(v) /\ j.pid = v
            /\ ppc' = [ppc EXCEPT ![p] = "select"] /\ job' = [job EXCEPT ![p] = j]
            /\ UNCHANGED <<halted, upc, sem, faults>>
            /\ \A k \in 1 .. Len(FaultsMbox') : FaultsMbox'[k] = FaultsMbox[k + 1]
                                               /\ k + 1 \in 1 .. Len(FaultsMbox)
    BY <1>3, ReceiveChanges
  <2>2. ppc'[p] = "select" /\ job'[p] = j
        /\ \A q \in Pagers \ {p} : ppc'[q] = ppc[q] /\ job'[q] = job[q]
    BY <2>1 DEF TypeInv, TypeOK
  <2>3. \A w \in Users : Asks(w)' => Asks(w)
    BY <2>1 DEF Asks, InMail
  <2>4. \A q \in Pagers \ {p} : /\ MayCount(q)' => MayCount(q)
                                /\ MayWrite(q)' => MayWrite(q)
                                /\ job'[q].pid = job[q].pid
    BY <2>2 DEF MayCount, MayWrite
  <2>5. NotCounted' \subseteq NotCounted
    <3>. SUFFICES ASSUME NEW w \in Users,
                         Asks(w)' \/ \E q \in Pagers : job'[q].pid = w /\ MayCount(q)'
                  PROVE  Asks(w) \/ \E q \in Pagers : job[q].pid = w /\ MayCount(q)
      BY DEF NotCounted
    <3>1. CASE w = v
      BY <2>1, <3>1 DEF Asks
    <3>2. ASSUME w # v, NEW q \in Pagers, job'[q].pid = w, MayCount(q)'
          PROVE  job[q].pid = w /\ MayCount(q)
      <4>1. q # p
        BY <2>1, <2>2, <3>2
      <4>. QED  BY <2>4, <3>2, <4>1
    <3>. QED  BY <2>3, <3>1, <3>2
  <2>6. NotWritten' \subseteq NotWritten
    <3>. SUFFICES ASSUME NEW w \in Users,
                         Asks(w)' \/ \E q \in Pagers : job'[q].pid = w /\ MayWrite(q)'
                  PROVE  Asks(w) \/ \E q \in Pagers : job[q].pid = w /\ MayWrite(q)
      BY DEF NotWritten
    <3>1. CASE w = v
      BY <2>1, <3>1 DEF Asks
    <3>2. ASSUME w # v, NEW q \in Pagers, job'[q].pid = w, MayWrite(q)'
          PROVE  job[q].pid = w /\ MayWrite(q)
      <4>1. q # p
        BY <2>1, <2>2, <3>2
      <4>. QED  BY <2>4, <3>2, <4>1
    <3>. QED  BY <2>3, <3>1, <3>2
  <2>7. \A q \in Pagers : ppc'[q] = "count" => ~job'[q].exists
    BY <2>2 DEF KindsInv
  <2>. QED  BY <1>0, <1>3, <2>5, <2>6, <2>7, KindsKept
<1>4. ASSUME NEW from \in {"select", "block", "copyin"}, NEW msg, Answer(p, from, msg),
             msg.failed = (from = "select" \/ faults[job[p].pid].failed),
             vmStats' = vmStats
      PROVE  KindsInv'
  <2>0. PICK x : x = u
    OBVIOUS
  <2>1. /\ ppc[p] = from /\ ppc' = [ppc EXCEPT ![p] = "receive"]
        /\ \A q \in Pagers \ {p} : job'[q] = job[q]
        /\ UNCHANGED <<halted, upc, FaultsMbox>>
        /\ faults'[x] = msg
        /\ \A s \in Slot \ {x} : faults'[s] = faults[s] /\ sem'[s] = sem[s]
    BY <1>4, <2>0, AnswerChanges
  <2>2. ppc'[p] = "receive" /\ \A q \in Pagers \ {p} : ppc'[q] = ppc[q]
    BY <2>1 DEF TypeInv, TypeOK
  <2>3. /\ x \in Users /\ upc[x] = "wait" /\ getProc(x) = x
        /\ \A v \in Live \ {x} : getProc(v) # x
    BY <2>0, <2>1, JobSlot
  <2>4. ASSUME NEW v \in Users \ {x}, Asks(v)' PROVE Asks(v)
    <3>1. CASE upc'[v] = "send" \/ InMail(v)'
      BY <2>1, <3>1 DEF Asks, InMail
    <3>2. CASE upc'[v] = "wait" /\ sem'[getProc(v)] > 0 /\ faults'[getProc(v)].failed
      <4>1. v \in Live
        BY <2>1, <3>2, AnswerTypes
      <4>2. getProc(v) \in Slot \ {x}
        BY <4>1, <2>3, UserSlot
      <4>. QED  BY <2>1, <3>2, <4>2 DEF Asks
    <3>. QED  BY <2>4, <3>1, <3>2 DEF Asks
  <2>5. Asks(x)' => MayCount(p) /\ MayWrite(p)
    <3>1. Asks(x)' => InMail(x) \/ msg.failed
      BY <2>1, <2>3 DEF Asks, InMail
    <3>2. ~InMail(x) /\ ~faults[x].failed
      BY <2>0, <2>1, JobSlot DEF FailedInv
    <3>3. Asks(x)' => from = "select"
      BY <1>4, <2>0, <3>1, <3>2
    <3>. QED  BY <2>1, <3>3 DEF MayCount, MayWrite
  <2>6. \A q \in Pagers : /\ MayCount(q)' => MayCount(q) /\ job'[q].pid = job[q].pid
                          /\ MayWrite(q)' => MayWrite(q) /\ job'[q].pid = job[q].pid
    BY <2>1, <2>2 DEF MayCount, MayWrite
  <2>7. NotCounted' \subseteq NotCounted /\ NotWritten' \subseteq NotWritten
    BY <2>0, <2>4, <2>5, <2>6 DEF NotCounted, NotWritten
  <2>8. \A q \in Pagers : ppc'[q] = "count" => ~job'[q].exists
    BY <2>1, <2>2 DEF KindsInv
  <2>. QED  BY <1>0, <1>4, <2>7, <2>8, KindsKept
<1>5. ASSUME NEW from, NEW to, Moves(p, from, to) PROVE KindsInv'
  <2>1. /\ \A v \in Users : Asks(v)' => Asks(v)
        /\ \A q \in Pagers : MayCount(q)' => MayCount(q)
        /\ \A q \in Pagers : MayWrite(q)' => MayWrite(q)
        /\ \A q \in Pagers : ppc'[q] = "count" => ~job'[q].exists
        /\ from = "count" => MayCount(p) /\ ~MayCount(p)'
        /\ from = "pagein" => MayCount(p) /\ ~MayCount(p)'
        /\ from = "pageout" => MayWrite(p) /\ ~MayWrite(p)'
    BY <1>5, MovesCount
  <2>2. /\ \A q \in Pagers : job'[q].pid = job[q].pid
        /\ ppc[p] = from /\ from # "receive"
        /\ UNCHANGED <<upc, sem, FaultsMbox>>
        /\ from = "count" => Counted("new")
        /\ from = "pagein" => Counted("pageIns")
        /\ from = "pageout" => Counted("pageOuts")
        /\ from \notin {"count", "pagein", "pageout"} => vmStats' = vmStats
    BY <1>5 DEF Moves, Goes, GoesOn
  <2>3. NotCounted' \subseteq NotCounted /\ NotWritten' \subseteq NotWritten
    BY <2>1, <2>2, SetsShrink
  <2>4. u \in Users /\ ~Asks(u)
    BY <2>2, JobSlot DEF Asks
  <2>5. \A q \in Pagers \ {p} : ppc[q] # "receive" => job[q].pid # u
    BY <2>2, JobSlot
  <2>6. MayCount(p) /\ ~MayCount(p)' => u \in NotCounted /\ u \notin NotCounted'
    BY <2>1, <2>2, <2>4, <2>5, AtWorkWhenCounting DEF NotCounted
  <2>7. MayWrite(p) /\ ~MayWrite(p)' => u \in NotWritten /\ u \notin NotWritten'
    BY <2>1, <2>2, <2>4, <2>5, AtWorkWhenCounting DEF NotWritten
  <2>8. CASE from \in {"count", "pagein"}
    BY <1>0, <2>1, <2>2, <2>3, <2>4, <2>6, <2>8, KindsCounted
  <2>9. CASE from = "pageout"
    BY <1>0, <2>1, <2>2, <2>3, <2>4, <2>7, <2>9, KindsCounted
  <2>10. CASE from \notin {"count", "pagein", "pageout"}
    BY <1>0, <2>1, <2>2, <2>3, <2>10, KindsKept
  <2>. QED  BY <2>8, <2>9, <2>10
<1>. QED  BY <1>1, <1>2, <1>3, <1>4, <1>5, PagerMoves

\* A fault is counted before it is sent.
LEMMA KindsFault ==
  ASSUME CountersInv, KindsInv, IsFiniteSet(Users), halted' = halted, Counted("faults"),
         NEW u \in Users, \A p \in Pagers : ppc'[p] = "count" => ~job'[p].exists,
         NotCounted' \subseteq NotCounted \cup {u}, NotWritten' \subseteq NotWritten \cup {u}
  PROVE  KindsInv'
<1>1. PICK A, B : A = NotCounted' /\ B = NotWritten'
  OBVIOUS
<1>2. NotCounted \in SUBSET Users /\ NotWritten \in SUBSET Users
      /\ NotCounted \cup {u} \in SUBSET Users /\ NotWritten \cup {u} \in SUBSET Users
  BY DEF NotCounted, NotWritten
<1>3. IsFiniteSet(NotCounted) /\ IsFiniteSet(NotWritten)
      /\ IsFiniteSet(NotCounted \cup {u}) /\ IsFiniteSet(NotWritten \cup {u})
      /\ Cardinality(NotCounted) \in Nat /\ Cardinality(NotWritten) \in Nat
  BY <1>2, SmallerSet
<1>4. /\ Cardinality(A) <= Cardinality(NotCounted) + 1 /\ Cardinality(A) \in Nat
      /\ Cardinality(B) <= Cardinality(NotWritten) + 1 /\ Cardinality(B) \in Nat
  BY <1>1, <1>3, SmallerSet, SetWith
<1>5. /\ vmStats'.new = vmStats.new /\ vmStats'.pageIns = vmStats.pageIns
      /\ vmStats'.pageOuts = vmStats.pageOuts /\ vmStats'.faults = vmStats.faults + 1
      /\ vmStats.faults \in Nat /\ vmStats.new \in Nat
      /\ vmStats.pageIns \in Nat /\ vmStats.pageOuts \in Nat
  BY CountedUp
<1>6. /\ vmStats'.new + vmStats'.pageIns <= vmStats'.faults
      /\ vmStats'.pageOuts <= vmStats'.faults
  BY <1>5 DEF KindsInv
<1>7. halted' = "no" =>
         /\ vmStats'.new + vmStats'.pageIns + Cardinality(A) <= vmStats'.faults
         /\ vmStats'.pageOuts + Cardinality(B) <= vmStats'.faults
  BY <1>3, <1>4, <1>5 DEF KindsInv
<1>. QED  BY <1>1, <1>6, <1>7 DEF KindsInv

LEMMA KindsUser ==
  ASSUME TypeInv, ProgramInv, AnswerInv, CountersInv, KindsInv, IsFiniteSet(Users),
         NEW u \in Users, UserNext(u)
  PROVE  KindsInv'
<1>. USE UserSlot
<1>0. UNCHANGED <<ppc, job>> =>
         /\ \A q \in Pagers : /\ (MayCount(q)' => MayCount(q)) /\ job'[q].pid = job[q].pid
                              /\ (MayWrite(q)' => MayWrite(q)) /\ job'[q].pid = job[q].pid
         /\ \A p \in Pagers : ppc'[p] = "count" => ~job'[p].exists
  BY DEF MayCount, MayWrite, KindsInv
<1>1. ASSUME NEW from, NEW to, UserGoes(u, from, to),
             \/ to # "send" /\ vmStats' = vmStats
             \/ to = "send" /\ Counted("faults")
      PROVE  KindsInv'
  <2>1. /\ upc' = [upc EXCEPT ![u] = to] /\ to # "wait"
        /\ UNCHANGED <<halted, sem, FaultsMbox, ppc, job>>
        /\ \A s \in Slot : faults'[s].failed => faults[s].failed
    BY <1>1 DEF UserGoes
  <2>2. \A v \in Users : Asks(v)' => Asks(v) \/ (to = "send" /\ v = u)
    BY <2>1 DEF Asks, InMail, TypeInv, TypeOK
  <2>3. CASE to # "send"
    <3>1. NotCounted' \subseteq NotCounted /\ NotWritten' \subseteq NotWritten
      BY <1>0, <2>1, <2>2, <2>3, SetsShrink
    <3>. QED  BY <1>0, <1>1, <2>1, <2>3, <3>1, KindsKept
  <2>4. CASE to = "send"
    <3>1. NotCounted' \subseteq NotCounted \cup {u} /\ NotWritten' \subseteq NotWritten \cup {u}
      BY <1>0, <2>1, <2>2 DEF NotCounted, NotWritten
    <3>. QED  BY <1>0, <1>1, <2>1, <2>4, <3>1, KindsFault
  <2>. QED  BY <2>3, <2>4
<1>a. ASSUME UNCHANGED <<ppc, job, vmStats>>, halted' = "no" => halted = "no",
             \A v \in Users : Asks(v)' => Asks(v)
      PROVE  KindsInv'
  <2>1. NotCounted' \subseteq NotCounted /\ NotWritten' \subseteq NotWritten
    BY <1>0, <1>a, SetsShrink
  <2>. QED  BY <1>0, <1>a, <2>1, KindsKept
<1>2. CASE p1_fork(u) /\ vmStats' = vmStats
  <2>1. /\ upc' = [upc EXCEPT ![u] = "user"] /\ sem' = [sem EXCEPT ![getProc(u)] = 0]
        /\ UNCHANGED <<halted, faults, FaultsMbox, ppc, job>>
    BY <1>2 DEF p1_fork
  <2>2. \A v \in Users : Asks(v)' => Asks(v)
    BY <2>1 DEF Asks, InMail, TypeInv, TypeOK
  <2>. QED  BY <1>2, <1>a, <2>1, <2>2
<1>3. CASE p1_quit(u) /\ vmStats' = vmStats
  <2>0. halted = "no"
    BY <1>3 DEF p1_quit, Running
  <2>1. CASE CanUnload(u)
    <3>1. /\ upc' = [upc EXCEPT ![u] = "dead"] /\ sem' = [sem EXCEPT ![getProc(u)] = 0]
          /\ UNCHANGED <<halted, FaultsMbox, ppc, job>>
          /\ faults' = [faults EXCEPT ![getProc(u)] = NoFault]
      BY <1>3, <2>1 DEF p1_quit, Forget
    <3>2. \A s \in Slot : faults'[s].failed => faults[s].failed
      BY <3>1 DEF NoFault, TypeInv, TypeOK
    <3>3. \A v \in Users : Asks(v)' => Asks(v)
      BY <3>1, <3>2 DEF Asks, InMail, TypeInv, TypeOK
    <3>. QED  BY <1>3, <1>a, <3>1, <3>3
  <2>2. CASE ~CanUnload(u)
    <3>1. UNCHANGED <<upc, sem, faults, FaultsMbox, ppc, job>>
      BY <1>3, <2>2 DEF p1_quit, Halt, comm
    <3>2. \A v \in Users : Asks(v)' => Asks(v)
      BY <3>1 DEF Asks, InMail
    <3>. QED  BY <1>3, <1>a, <2>0, <3>1, <3>2
  <2>. QED  BY <2>1, <2>2
<1>4. CASE SendFault(u) /\ vmStats' = vmStats
  <2>1. /\ upc[u] = "send" /\ upc' = [upc EXCEPT ![u] = "wait"]
        /\ FaultsMbox' = Append(FaultsMbox, u)
        /\ UNCHANGED <<halted, sem, ppc, job>>
        /\ faults' = [faults EXCEPT ![getProc(u)] =
                        [@ EXCEPT !.page = offset[u], !.failed = FALSE, !.shouldTerminate = FALSE]]
    BY <1>4 DEF SendFault, UserStep, Posted
  <2>2. \A s \in Slot : faults'[s].failed => faults[s].failed
    BY <2>1 DEF TypeInv, TypeOK, FaultMsg
  <2>3. FaultsMbox \in Seq(Users)
    BY DEF TypeInv, TypeOK
  <2>4. \A v \in Users : InMail(v)' => InMail(v) \/ v = u
    BY <2>1, <2>3 DEF InMail
  <2>5. \A v \in Users \ {u} : Asks(v)' => Asks(v)
    BY <2>1, <2>2, <2>4 DEF Asks, TypeInv, TypeOK
  <2>6. Asks(u)
    BY <2>1 DEF Asks
  <2>. QED  BY <1>4, <1>a, <2>1, <2>5, <2>6
<1>5. CASE Resume(u) /\ vmStats' = vmStats
  <2>1. /\ upc[u] = "wait" /\ upc' = [upc EXCEPT ![u] = AfterFault(faults[getProc(u)])]
        /\ UNCHANGED <<halted, faults, FaultsMbox, ppc, job>>
        /\ sem' = [sem EXCEPT ![getProc(u)] = @ - 1]
        /\ sem[getProc(u)] > 0
    BY <1>5 DEF Resume, UserStep, Running, Schedulable, Runnable
  <2>2. AfterFault(faults[getProc(u)]) = "send" => faults[getProc(u)].failed
    BY DEF AfterFault
  <2>3. \A s \in Slot : sem'[s] <= sem[s] /\ sem'[s] \in Int /\ sem[s] \in Int
    BY <2>1 DEF TypeInv, TypeOK
  <2>4. \A v \in Users \ {u} : Asks(v)' => Asks(v)
    BY <2>1, <2>3 DEF Asks, InMail, TypeInv, TypeOK
  <2>5. Asks(u)' => Asks(u)
    <3>1. upc'[u] = AfterFault(faults[getProc(u)])
          /\ AfterFault(faults[getProc(u)]) \in {"exit", "send", "unlock"}
      BY <2>1 DEF TypeInv, TypeOK, AfterFault
    <3>. QED  BY <2>1, <2>2, <3>1 DEF Asks, InMail
  <2>. QED  BY <1>5, <1>a, <2>1, <2>4, <2>5
<1>. QED  BY <1>1, <1>2, <1>3, <1>4, <1>5, UserMoves

LEMMA KindsOthers ==
  ASSUME CountersInv, KindsInv, IsFiniteSet(Users), Rests, vmStats' = vmStats
  PROVE  KindsInv'
<1>1. NotCounted' = NotCounted /\ NotWritten' = NotWritten
  BY DEF Rests, NotCounted, NotWritten, Asks, MayCount, MayWrite, InMail
<1>2. \A q \in Pagers : ppc'[q] = "count" => ~job'[q].exists
  BY DEF Rests, KindsInv
<1>. QED  BY <1>1, <1>2, KindsKept DEF Rests

-----------------------------------------------------------------------------
(* Every block given out is written.                                         *)

LEMMA BlocksKept ==
  ASSUME BlocksInv, IsFiniteSet(Pagers), UNCHANGED <<NextBlock, vmStats>>,
         WithBlock' = WithBlock
  PROVE  BlocksInv'
BY DEF BlocksInv

LEMMA NextBlockPager ==
  ASSUME TypeInv, AnswerInv, CountersInv, BlocksInv, IsFiniteSet(Pagers),
         NEW p \in Pagers, PagerNext(p)
  PROVE  BlocksInv'
<1>0. WithBlock \in SUBSET Pagers
  BY DEF WithBlock
<1>f. IsFiniteSet(WithBlock) /\ Cardinality(WithBlock) \in Nat
  BY <1>0, SmallerSet
<1>a. PICK W : W = WithBlock'
  OBVIOUS
<1>b. NextBlock \in Nat
  BY DEF TypeInv, TypeOK
<1>1. CASE Rests /\ vmStats' = vmStats
  BY <1>1, BlocksKept DEF Rests, WithBlock
<1>2. CASE /\ Rests
           /\ Counted("pageIns") \/ Counted("pageOuts")
  <2>1. WithBlock' = WithBlock /\ NextBlock' = NextBlock
    BY <1>2 DEF Rests, WithBlock
  <2>2. vmStats'.pageOuts >= vmStats.pageOuts
        /\ vmStats'.pageOuts \in Nat /\ vmStats.pageOuts \in Nat
    BY <1>2, CountedUp
  <2>3. NextBlock <= vmStats'.pageOuts + Cardinality(WithBlock)
    BY <1>b, <1>f, <2>2 DEF BlocksInv
  <2>. QED  BY <2>1, <2>3 DEF BlocksInv
<1>3. CASE Receive(p) /\ ~Rests /\ vmStats' = vmStats
  <2>1. ppc[p] = "receive" /\ ppc' = [ppc EXCEPT ![p] = "select"] /\ NextBlock' = NextBlock
    BY <1>3, ReceiveChanges
  <2>2. WithBlock' = WithBlock
    BY <2>1 DEF WithBlock, TypeInv, TypeOK
  <2>. QED  BY <1>3, <2>1, <2>2, BlocksKept
<1>4. ASSUME NEW from \in {"select", "block", "copyin"}, NEW msg, Answer(p, from, msg),
             UNCHANGED <<NextBlock, vmStats>>
      PROVE  BlocksInv'
  <2>1. ppc[p] = from /\ ppc' = [ppc EXCEPT ![p] = "receive"]
    BY <1>4, AnswerChanges
  <2>2. WithBlock' = WithBlock
    BY <2>1 DEF WithBlock, TypeInv, TypeOK
  <2>. QED  BY <1>4, <2>2, BlocksKept
<1>5. ASSUME NEW from, NEW to, Moves(p, from, to) PROVE BlocksInv'
  <2>1. /\ ppc[p] = from /\ ppc' = [ppc EXCEPT ![p] = to] /\ <<from, to>> \in GoesOn
        /\ from # "alloc" => NextBlock' = NextBlock
        /\ from \notin {"count", "pagein", "pageout"} => vmStats' = vmStats
        /\ from = "count" => Counted("new")
        /\ from = "alloc" => NextBlock' = NextBlock + 1
        /\ from = "pageout" => Counted("pageOuts")
        /\ from = "pagein" => Counted("pageIns")
    BY <1>5 DEF Moves, Goes
  <2>2. ppc'[p] = to /\ \A q \in Pagers \ {p} : ppc'[q] = ppc[q]
    BY <2>1 DEF TypeInv, TypeOK
  <2>3. CASE to = "mapout"
    <3>1. from \in {"block", "alloc"}
      BY <2>1, <2>3 DEF GoesOn
    <3>2. WithBlock' = WithBlock \cup {p} /\ p \notin WithBlock
      BY <2>1, <2>2, <2>3, <3>1 DEF WithBlock
    <3>3. Cardinality(W) = Cardinality(WithBlock) + 1
      BY <1>a, <1>f, <3>2, OneMore
    <3>4. (NextBlock' = NextBlock \/ NextBlock' = NextBlock + 1) /\ vmStats' = vmStats
      BY <2>1, <3>1
    <3>5. NextBlock' <= vmStats'.pageOuts + Cardinality(W)
      BY <1>b, <1>f, <3>3, <3>4, CountedUp DEF BlocksInv
    <3>. QED  BY <1>a, <3>5 DEF BlocksInv
  <2>4. CASE from = "pageout"
    <3>1. to = "writing"
      BY <2>1, <2>4 DEF GoesOn
    <3>2. WithBlock' = WithBlock \ {p} /\ p \in WithBlock
      BY <2>1, <2>2, <2>4, <3>1 DEF WithBlock
    <3>3. Cardinality(W) = Cardinality(WithBlock) - 1
      BY <1>a, <1>f, <3>2, OneLess
    <3>4. NextBlock' = NextBlock /\ vmStats'.pageOuts = vmStats.pageOuts + 1
          /\ vmStats.pageOuts \in Nat
      BY <2>1, <2>4, CountedUp
    <3>5. NextBlock' <= vmStats'.pageOuts + Cardinality(W)
      BY <1>b, <1>f, <3>3, <3>4 DEF BlocksInv
    <3>. QED  BY <1>a, <3>5 DEF BlocksInv
  <2>5. CASE to # "mapout" /\ from # "pageout"
    <3>1. from # "alloc"
      BY <2>1, <2>5 DEF GoesOn
    <3>2. from \in {"mapout", "copyout"} <=> to \in {"copyout", "pageout"}
      BY <2>1, <2>5 DEF GoesOn
    <3>3. \A q \in Pagers : ppc'[q] \in {"mapout", "copyout", "pageout"}
                                <=> ppc[q] \in {"mapout", "copyout", "pageout"}
      BY <2>1, <2>2, <2>5, <3>2
    <3>4. WithBlock' = WithBlock
      BY <3>3 DEF WithBlock
    <3>5. vmStats'.pageOuts = vmStats.pageOuts
      BY <2>1, <2>5, CountedUp
    <3>. QED  BY <2>1, <3>1, <3>4, <3>5 DEF BlocksInv
  <2>. QED  BY <2>3, <2>4, <2>5
<1>. QED  BY <1>1, <1>2, <1>3, <1>4, <1>5, PagerMoves

\* No step of a user changes what BlocksInv is about.
LEMMA BlocksOthers ==
  ASSUME CountersInv, BlocksInv, UNCHANGED <<NextBlock, ppc>>,
         vmStats' = vmStats \/ Counted("faults")
  PROVE  BlocksInv'
<1>1. WithBlock' = WithBlock
  BY DEF WithBlock
<1>2. vmStats'.pageOuts = vmStats.pageOuts
  BY CountedUp
<1>. QED  BY <1>1, <1>2 DEF BlocksInv

-----------------------------------------------------------------------------
(* A page is counted as new once, when it is first used.                     *)

LEMMA InUse ==
  \A s, i : <<s, i>> \in Used <=> s \in Slot /\ i \in Page /\ pte[s][i].state # "UNUSED"
BY DEF Used

\* A slot nobody is in has no page in use.
LEMMA UnusedSlot ==
  ASSUME UsedInv, NoneDead, NEW s \in Slot, ProcPid[s] = EMPTY
  PROVE  \A i : <<s, i>> \notin Used
BY InUse DEF UsedInv, EmptyTable, UnusedPTE

\* Steps that leave the tables alone, and what the pagers have in hand.
LEMMA UsedKept ==
  ASSUME UsedInv, NoneDead' => NoneDead, UNCHANGED <<ProcPid, pte>>,
         \A f \in Frame : FrameTable'[f].page = FrameTable[f].page
                          /\ FrameTable'[f].pid = FrameTable[f].pid,
         \A p \in Pagers : \/ job'[p].outPage = EMPTY
                           \/ job'[p].outPage = job[p].outPage /\ job'[p].outPid = job[p].outPid,
         \A p \in Pagers : ppc'[p] \in {"select", "victim", "count", "update"} =>
             \/ job'[p].exists <=> IsUsed(job'[p].pid, job'[p].page)
             \/ /\ ppc[p] \in {"select", "victim", "count", "update"}
                /\ job'[p].exists = job[p].exists /\ job'[p].pid = job[p].pid
                /\ job'[p].page = job[p].page
  PROVE  UsedInv' /\ Used' = Used
<1>1. Used' = Used
  BY DEF Used
<1>2. ASSUME NoneDead'
      PROVE  /\ \A s \in Slot : ProcPid'[s] = EMPTY => pte'[s] = EmptyTable
             /\ \A f \in Frame : FrameTable'[f].page # EMPTY =>
                                    <<getProc(FrameTable'[f].pid), FrameTable'[f].page>> \in Used'
             /\ \A p \in Pagers : job'[p].outPage # EMPTY =>
                                    <<getProc(job'[p].outPid), job'[p].outPage>> \in Used'
             /\ \A p \in Pagers : ppc'[p] \in {"select", "victim", "count", "update"} =>
                   (job'[p].exists <=> <<getProc(job'[p].pid), job'[p].page>> \in Used')
  BY <1>1, <1>2 DEF UsedInv, IsUsed
<1>. QED  BY <1>1, <1>2 DEF UsedInv, IsUsed

\* The entry of a page, after the tables have been updated (phase5.c:488-497).
LEMMA UsedAfterUpdate ==
  ASSUME TypeInv, NEW p \in Pagers, UpdateTables(p),
         job[p].outPage # EMPTY => IsUsed(job[p].outPid, job[p].outPage)
  PROVE  /\ Used' = Used \cup {<<getProc(job[p].pid), job[p].page>>}
         /\ \A s \in Slot : s # getProc(job[p].pid) /\ (\A i : <<s, i>> \notin Used) =>
                pte'[s] = pte[s]
<1> DEFINE j == job[p]
           tbl == Evicted(pte, j)
           s1 == getProc(j.pid)
           s2 == getProc(j.outPid)
<1>1. job[p] \in Job /\ pte \in [Slot -> [Page -> PTE]]
  BY DEF TypeInv, TypeOK
<1>2. j.page \in Page /\ s1 \in Slot /\ s2 \in Slot
  BY <1>1, UserSlot, OutSlot, SlotOfSlot DEF TypeInv, AtWork, Job, UpdateTables, Step, At
<1>3. pte' = [tbl EXCEPT ![s1][j.page] = [@ EXCEPT !.state = "INMEM", !.frame = j.frame]]
  BY DEF UpdateTables, Assigned
<1>4. \A s \in Slot, i \in Page : tbl[s][i].state # "UNUSED" <=> pte[s][i].state # "UNUSED"
  <2>1. CASE j.outPage = EMPTY
    BY <2>1 DEF Evicted
  <2>2. CASE j.outPage # EMPTY
    <3>1. tbl = [pte EXCEPT ![s2][j.outPage] = [@ EXCEPT !.state = "ONDISK", !.frame = EMPTY]]
      BY <2>2 DEF Evicted
    <3>2. pte[s2][j.outPage].state # "UNUSED" /\ j.outPage \in Page
      BY <1>2, <2>2, InUse DEF IsUsed
    <3>. HIDE DEF s1, s2
    <3>3. tbl[s2][j.outPage].state = "ONDISK"
      BY <1>1, <1>2, <3>1, <3>2 DEF PTE
    <3>4. \A s \in Slot, i \in Page : <<s, i>> # <<s2, j.outPage>> => tbl[s][i] = pte[s][i]
      BY <1>1, <1>2, <3>1, <3>2
    <3>. QED  BY <3>2, <3>3, <3>4
  <2>. QED  BY <2>1, <2>2
<1>5. tbl \in [Slot -> [Page -> PTE]]
  <2>1. CASE j.outPage = EMPTY
    BY <1>1, <2>1 DEF Evicted
  <2>2. CASE j.outPage # EMPTY
    <3>0. PICK old : old = pte[s2][j.outPage]
      OBVIOUS
    <3>1. PICK e : e = [old EXCEPT !.state = "ONDISK", !.frame = EMPTY]
      OBVIOUS
    <3>2. j.outPage \in Page
      BY <1>1, <2>2 DEF Job
    <3>5. old \in PTE
      BY <1>1, <1>2, <3>0, <3>2
    <3>3. e \in PTE
      BY <3>1, <3>5 DEF PTE
    <3>4. tbl = [pte EXCEPT ![s2][j.outPage] = e]
      BY <2>2, <3>0, <3>1 DEF Evicted
    <3>. HIDE DEF tbl, s1, s2
    <3>. QED  BY <1>1, <1>2, <3>2, <3>3, <3>4
  <2>. QED  BY <2>1, <2>2
<1>6. \A s \in Slot : (\A i : <<s, i>> \notin Used) => tbl[s] = pte[s]
  <2>1. CASE j.outPage = EMPTY
    BY <2>1 DEF Evicted
  <2>2. CASE j.outPage # EMPTY
    BY <1>1, <1>2, <2>2 DEF Evicted, IsUsed
  <2>. QED  BY <2>1, <2>2
<1>. HIDE DEF tbl, s1, s2
<1>7. pte'[s1][j.page].state = "INMEM"
  BY <1>2, <1>3, <1>5 DEF PTE
<1>8. \A s \in Slot, i \in Page : <<s, i>> # <<s1, j.page>> => pte'[s][i] = tbl[s][i]
  BY <1>2, <1>3, <1>5
<1>9. \A s \in Slot : s # s1 => pte'[s] = tbl[s]
  BY <1>2, <1>3, <1>5
<1>10. \A s \in Slot, i \in Page :
          pte'[s][i].state # "UNUSED" <=> pte[s][i].state # "UNUSED" \/ <<s, i>> = <<s1, j.page>>
  BY <1>4, <1>7, <1>8
<1>11. Used' = Used \cup {<<s1, j.page>>}
  BY <1>2, <1>10 DEF Used
<1>. QED  BY <1>6, <1>9, <1>11 DEF s1

LEMMA UsedPager ==
  ASSUME TypeInv, AnswerInv, KindsInv, UsedInv, NEW p \in Pagers, PagerNext(p)
  PROVE  UsedInv'
<1> DEFINE u == job[p].pid
<1>1. CASE Rests
  <2>1. NoneDead' = NoneDead
    BY <1>1 DEF Rests, NoneDead
  <2>. QED  BY <1>1, <2>1, UsedKept DEF Rests
<1>2. CASE Receive(p) /\ ~Rests
  <2>1. PICK v, j :
            /\ v \in Users
            /\ v \in Slot /\ getProc(v) = v
            /\ j.pid = v /\ j.page = faults[v].page /\ j.outPage = EMPTY
            /\ j.exists = (pte[v][faults[v].page].state # "UNUSED")
            /\ ppc' = [ppc EXCEPT ![p] = "select"]
            /\ job' = [job EXCEPT ![p] = j]
            /\ UNCHANGED <<upc, ProcPid, pte, FrameTable>>
    BY <1>2, ReceiveChanges
  <2>2. NoneDead' = NoneDead /\ Used' = Used
    BY <2>1 DEF NoneDead, Used
  <2>3. faults[v].page \in Page
    BY <2>1 DEF TypeInv, TypeOK, FaultMsg
  <2>4. j.exists <=> <<getProc(v), j.page>> \in Used
    BY <2>1, <2>3, InUse
  <2>5. job'[p] = j /\ ppc'[p] = "select"
        /\ \A q \in Pagers \ {p} : job'[q] = job[q] /\ ppc'[q] = ppc[q]
    BY <2>1 DEF TypeInv, TypeOK
  <2>6. job'[p].exists <=> IsUsed(job'[p].pid, job'[p].page)
    BY <2>1, <2>2, <2>4, <2>5 DEF IsUsed
  <2>. QED  BY <2>1, <2>2, <2>5, <2>6, UsedKept
<1>3. ASSUME NEW from \in {"select", "block", "copyin"}, NEW msg, Answer(p, from, msg),
             UNCHANGED <<pte, FrameTable>>
      PROVE  UsedInv'
  <2>1. /\ ppc' = [ppc EXCEPT ![p] = "receive"]
        /\ \A q \in Pagers \ {p} : job'[q] = job[q]
        /\ job'[p] = NoJob
        /\ UNCHANGED <<upc, ProcPid>>
    BY <1>3, AnswerChanges
  <2>2. NoneDead' = NoneDead
    BY <2>1 DEF NoneDead
  <2>3. job'[p].outPage = EMPTY /\ ppc'[p] = "receive"
        /\ \A q \in Pagers \ {p} : ppc'[q] = ppc[q]
    BY <2>1 DEF NoJob, TypeInv, TypeOK
  <2>. QED  BY <1>3, <2>1, <2>2, <2>3, UsedKept
<1>4. ASSUME NEW from, NEW to, Moves(p, from, to) PROVE UsedInv'
  <2>1. /\ <<from, to>> \in GoesOn
        /\ ppc[p] = from /\ from # "receive" /\ ppc' = [ppc EXCEPT ![p] = to]
        /\ UNCHANGED <<upc, ProcPid>>
        /\ \A q \in Pagers : /\ job'[q].pid = job[q].pid /\ job'[q].page = job[q].page
                             /\ job'[q].exists = job[q].exists
    BY <1>4 DEF Moves, Goes, GoesOn
  <2>2. NoneDead' = NoneDead
    BY <2>1 DEF NoneDead
  <2>3. \A q \in Pagers : ppc'[q] \in {"select", "victim", "count", "update"} =>
                              ppc[q] \in {"select", "victim", "count", "update"}
    <3>1. to \in {"victim", "count", "update"} => from \in {"select", "victim", "count", "update"}
      BY <2>1 DEF GoesOn
    <3>2. to # "select"
      BY <2>1 DEF GoesOn
    <3>. QED  BY <2>1, <3>1, <3>2 DEF TypeInv, TypeOK
  <2>4. CASE from \notin {"victim", "update", "alloc"}
    BY <1>4, <2>1, <2>2, <2>3, <2>4, UsedKept DEF Moves, KeepsTables
  <2>5. CASE from = "victim"
    <3>1. PICK old : old = FrameTable[job[p].frame]
      OBVIOUS
    <3>2. job[p] \in Job /\ job[p].frame \in Frame
      BY DEF TypeInv, TypeOK, Job
    <3>3. UNCHANGED <<pte, FrameTable>>
          /\ job' = [job EXCEPT ![p] = [job[p] EXCEPT !.outPage = old.page, !.outPid = old.pid]]
      BY <1>4, <2>5, <3>1 DEF Moves, TakeVictim, Step
    <3>4. job'[p].outPage = old.page /\ job'[p].outPid = old.pid
          /\ \A q \in Pagers \ {p} : job'[q] = job[q]
      BY <3>2, <3>3 DEF TypeInv, TypeOK, Job
    <3>5. Used' = Used
      BY <3>3 DEF Used
    <3>6. ASSUME NoneDead', NEW q \in Pagers, job'[q].outPage # EMPTY
          PROVE  <<getProc(job'[q].outPid), job'[q].outPage>> \in Used
      BY <2>2, <3>1, <3>2, <3>4, <3>6 DEF UsedInv, IsUsed
    <3>7. ASSUME NoneDead', NEW q \in Pagers, ppc'[q] \in {"select", "victim", "count", "update"}
          PROVE  job'[q].exists <=> <<getProc(job'[q].pid), job'[q].page>> \in Used
      BY <2>1, <2>2, <2>3, <3>7 DEF UsedInv, IsUsed
    <3>8. NoneDead' => /\ \A s \in Slot : ProcPid'[s] = EMPTY => pte'[s] = EmptyTable
                       /\ \A f \in Frame : FrameTable'[f].page # EMPTY =>
                              <<getProc(FrameTable'[f].pid), FrameTable'[f].page>> \in Used
      BY <2>1, <2>2, <3>3 DEF UsedInv, IsUsed
    <3>. QED  BY <3>5, <3>6, <3>7, <3>8 DEF UsedInv, IsUsed
  <2>6. CASE from = "update"
    <3>0. SUFFICES ASSUME NoneDead
                   PROVE  UsedInv'
      BY <2>2 DEF UsedInv
    <3>1. UpdateTables(p) /\ to = "access"
      BY <1>4, <2>1, <2>6 DEF Moves, GoesOn
    <3>2. PICK w, i : w = u /\ i = job[p].page
      OBVIOUS
    <3>3. /\ w \in Slot /\ getProc(w) = w /\ w \in Live /\ w # EMPTY
          /\ \A q \in Pagers \ {p} : ppc[q] # "receive" => job[q].pid # w
      BY <2>1, <3>2, JobSlot, AnswerTypes
    <3>4. Used' = Used \cup {<<w, i>>}
          /\ \A s \in Slot : s # w /\ (\A k : <<s, k>> \notin Used) => pte'[s] = pte[s]
      BY <3>0, <3>1, <3>2, <3>3, UsedAfterUpdate DEF UsedInv
    <3>5. ASSUME NEW s \in Slot, ProcPid'[s] = EMPTY PROVE pte'[s] = EmptyTable
      <4>1. s # w
        BY <2>1, <3>3, <3>5 DEF AnswerInv, OwnSlots
      <4>2. \A k : <<s, k>> \notin Used
        BY <2>1, <3>0, <3>5, UnusedSlot
      <4>3. pte'[s] = pte[s]
        BY <3>4, <4>1, <4>2
      <4>. QED  BY <2>1, <3>0, <3>5, <4>3 DEF UsedInv
    <3>6. ASSUME NEW f \in Frame, FrameTable'[f].page # EMPTY
          PROVE  <<getProc(FrameTable'[f].pid), FrameTable'[f].page>> \in Used'
      <4>1. PICK e : e = Occupied(job[p])
        OBVIOUS
      <4>2. e.page = i /\ e.pid = w
        BY <3>2, <4>1 DEF Occupied
      <4>3. FrameTable' = [FrameTable EXCEPT ![job[p].frame] = e]
        BY <3>1, <4>1 DEF UpdateTables
      <4>4. CASE f = job[p].frame
        BY <3>3, <3>4, <4>2, <4>3, <4>4 DEF TypeInv, TypeOK
      <4>5. CASE f # job[p].frame
        BY <3>0, <3>4, <3>6, <4>3, <4>5 DEF UsedInv, IsUsed, TypeInv, TypeOK
      <4>. QED  BY <4>4, <4>5
    <3>7. ASSUME NEW q \in Pagers, job'[q].outPage # EMPTY
          PROVE  <<getProc(job'[q].outPid), job'[q].outPage>> \in Used'
      <4>1. job'[q].outPage = job[q].outPage /\ job'[q].outPid = job[q].outPid
        BY <3>1 DEF UpdateTables, Step, TypeInv, TypeOK
      <4>. QED  BY <3>0, <3>4, <3>7, <4>1 DEF UsedInv, IsUsed
    <3>8. ASSUME NEW q \in Pagers, ppc'[q] \in {"select", "victim", "count", "update"}
          PROVE  job'[q].exists <=> <<getProc(job'[q].pid), job'[q].page>> \in Used'
      <4>1. q # p
        BY <2>1, <3>1, <3>8 DEF TypeInv, TypeOK
      <4>2. ppc[q] \in {"select", "victim", "count", "update"}
        BY <2>3, <3>8
      <4>3. getProc(job[q].pid) # w
        BY <3>3, <4>1, <4>2, JobSlot
      <4>. QED  BY <2>1, <3>0, <3>4, <4>2, <4>3 DEF UsedInv, IsUsed
    <3>. QED  BY <3>5, <3>6, <3>7, <3>8 DEF UsedInv, IsUsed
  <2>7. CASE from = "alloc"
    <3>0. SUFFICES ASSUME NoneDead
                   PROVE  UsedInv'
      BY <2>2 DEF UsedInv
    <3>1. AllocateBlock(p)
      BY <1>4, <2>7 DEF Moves
    <3>2. PICK s1, i1 : s1 = getProc(job[p].outPid) /\ i1 = job[p].outPage
      OBVIOUS
    <3>3. s1 \in Slot /\ i1 \in Page /\ <<s1, i1>> \in Used
      BY <2>1, <2>7, <3>0, <3>2, InUse DEF TypeInv, AtWork, UsedInv, IsUsed
    <3>4. pte' = [pte EXCEPT ![s1][i1].diskBlock = NextBlock]
          /\ FrameTable' = FrameTable /\ job' = [job EXCEPT ![p] = job[p]]
      BY <3>1, <3>2 DEF AllocateBlock, Step
    <3>5. \A s \in Slot, i \in Page : pte'[s][i].state = pte[s][i].state
      BY <3>3, <3>4 DEF TypeInv, TypeOK, PTE
    <3>6. Used' = Used
      BY <3>5 DEF Used
    <3>7. ASSUME NEW s \in Slot, ProcPid'[s] = EMPTY PROVE pte'[s] = EmptyTable
      <4>1. s # s1
        BY <2>1, <3>0, <3>3, <3>7, UnusedSlot
      <4>2. pte'[s] = pte[s]
        BY <3>3, <3>4, <4>1 DEF TypeInv, TypeOK
      <4>. QED  BY <2>1, <3>0, <3>7, <4>2 DEF UsedInv
    <3>8. \A q \in Pagers : job'[q].outPage = job[q].outPage /\ job'[q].outPid = job[q].outPid
      BY <3>4 DEF TypeInv, TypeOK
    <3>9. ASSUME NEW f \in Frame, FrameTable'[f].page # EMPTY
          PROVE  <<getProc(FrameTable'[f].pid), FrameTable'[f].page>> \in Used'
      BY <3>0, <3>4, <3>6, <3>9 DEF UsedInv, IsUsed
    <3>10. ASSUME NEW q \in Pagers, job'[q].outPage # EMPTY
           PROVE  <<getProc(job'[q].outPid), job'[q].outPage>> \in Used'
      BY <3>0, <3>6, <3>8, <3>10 DEF UsedInv, IsUsed
    <3>11. ASSUME NEW q \in Pagers, ppc'[q] \in {"select", "victim", "count", "update"}
           PROVE  job'[q].exists <=> <<getProc(job'[q].pid), job'[q].page>> \in Used'
      <4>1. job'[q] = job[q]
        BY <3>4 DEF TypeInv, TypeOK
      <4>. QED  BY <2>3, <3>0, <3>6, <3>11, <4>1 DEF UsedInv, IsUsed
    <3>. QED  BY <3>7, <3>9, <3>10, <3>11 DEF UsedInv, IsUsed
  <2>. QED  BY <2>4, <2>5, <2>6, <2>7
<1>. QED  BY <1>1, <1>2, <1>3, <1>4, PagerMoves

LEMMA UsedFinite == IsFiniteSet(Used) /\ Cardinality(Used) \in Nat
<1>1. IsFiniteSet(Slot) /\ IsFiniteSet(Page)
  BY ProcessAssumption, FS_Interval DEF Slot, Page
<1>2. IsFiniteSet(Slot \X Page)
  BY <1>1, FS_Product
<1>3. Used \in SUBSET (Slot \X Page)
  BY DEF Used
<1>. QED  BY <1>2, <1>3, SmallerSet

LEMMA NewKept ==
  ASSUME NewInv, NoneDead' => NoneDead, vmStats'.new = vmStats.new, Used' = Used,
         AboutToUse' = AboutToUse
  PROVE  NewInv'
BY DEF NewInv

LEMMA NewPager ==
  ASSUME TypeInv, AnswerInv, CountersInv, KindsInv, UsedInv, NewInv, IsFiniteSet(Pagers),
         NEW p \in Pagers, PagerNext(p)
  PROVE  NewInv'
<1> DEFINE u == job[p].pid
<1>0. AboutToUse \in SUBSET Pagers
  BY DEF AboutToUse
<1>f. IsFiniteSet(AboutToUse) /\ Cardinality(AboutToUse) \in Nat
  BY <1>0, SmallerSet
<1>a. PICK A, S : A = AboutToUse' /\ S = Used'
  OBVIOUS
<1>1. CASE Rests /\ (vmStats' = vmStats \/ Counted("pageIns") \/ Counted("pageOuts"))
  <2>1. NoneDead' = NoneDead /\ Used' = Used /\ AboutToUse' = AboutToUse
    BY <1>1 DEF Rests, NoneDead, Used, AboutToUse
  <2>. QED  BY <1>1, <2>1, CountedUp, NewKept
<1>2. CASE Receive(p) /\ ~Rests /\ vmStats' = vmStats
  <2>1. PICK j :
            /\ ppc[p] = "receive" /\ ppc' = [ppc EXCEPT ![p] = "select"]
            /\ job' = [job EXCEPT ![p] = j]
            /\ UNCHANGED <<upc, pte>>
    BY <1>2, ReceiveChanges
  <2>2. NoneDead' = NoneDead /\ Used' = Used
    BY <2>1 DEF NoneDead, Used
  <2>3. AboutToUse' = AboutToUse
    BY <2>1 DEF AboutToUse, TypeInv, TypeOK
  <2>. QED  BY <1>2, <2>2, <2>3, NewKept
<1>3. ASSUME NEW from \in {"select", "block", "copyin"}, NEW msg, Answer(p, from, msg),
             UNCHANGED <<pte, vmStats>>
      PROVE  NewInv'
  <2>1. /\ ppc[p] = from /\ ppc' = [ppc EXCEPT ![p] = "receive"]
        /\ \A q \in Pagers \ {p} : job'[q] = job[q]
        /\ UNCHANGED upc
    BY <1>3, AnswerChanges
  <2>2. NoneDead' = NoneDead /\ Used' = Used
    BY <1>3, <2>1 DEF NoneDead, Used
  <2>3. AboutToUse' = AboutToUse
    BY <2>1 DEF AboutToUse, TypeInv, TypeOK
  <2>. QED  BY <1>3, <2>2, <2>3, NewKept
<1>4. ASSUME NEW from, NEW to, Moves(p, from, to) PROVE NewInv'
  <2>1. /\ <<from, to>> \in GoesOn
        /\ ppc[p] = from /\ from # "receive" /\ ppc' = [ppc EXCEPT ![p] = to]
        /\ UNCHANGED upc
        /\ \A q \in Pagers : job'[q].exists = job[q].exists
    BY <1>4 DEF Moves, Goes, GoesOn
  <2>2. NoneDead' = NoneDead
    BY <2>1 DEF NoneDead
  <2>3. ppc'[p] = to /\ \A q \in Pagers \ {p} : ppc'[q] = ppc[q]
    BY <2>1 DEF TypeInv, TypeOK
  <2>4. CASE from = "count"
    <3>1. to = "update" /\ Counted("new") /\ UNCHANGED pte
      BY <1>4, <2>1, <2>4 DEF Moves, KeepsTables, GoesOn
    <3>2. AboutToUse' = AboutToUse \cup {p} /\ p \notin AboutToUse
      BY <2>1, <2>3, <2>4, <3>1 DEF AboutToUse, KindsInv
    <3>3. Cardinality(A) = Cardinality(AboutToUse) + 1
      BY <1>a, <1>f, <3>2, OneMore
    <3>4. Used' = Used /\ vmStats'.new = vmStats.new + 1
      BY <3>1, CountedUp DEF Used
    <3>5. NoneDead' => vmStats'.new = Cardinality(S) + Cardinality(A)
      BY <1>a, <1>f, <2>2, <3>3, <3>4, UsedFinite DEF NewInv
    <3>. QED  BY <1>a, <3>5 DEF NewInv
  <2>5. CASE from = "update"
    <3>0. SUFFICES ASSUME NoneDead
                   PROVE  NewInv'
      BY <2>2 DEF NewInv
    <3>1. UpdateTables(p) /\ to = "access" /\ vmStats' = vmStats
      BY <1>4, <2>1, <2>5 DEF Moves, GoesOn
    <3>2. PICK x : x = <<getProc(u), job[p].page>>
      OBVIOUS
    <3>3. Used' = Used \cup {x}
      BY <3>0, <3>1, <3>2, UsedAfterUpdate DEF UsedInv
    <3>4. job[p].exists <=> x \in Used
      BY <2>1, <2>5, <3>0, <3>2 DEF UsedInv, IsUsed
    <3>5. CASE job[p].exists
      <4>1. Used' = Used
        BY <3>3, <3>4, <3>5
      <4>2. AboutToUse' = AboutToUse
        BY <2>1, <2>3, <2>5, <3>1, <3>5 DEF AboutToUse
      <4>. QED  BY <2>2, <3>1, <4>1, <4>2, NewKept
    <3>6. CASE ~job[p].exists
      <4>1. Cardinality(S) = Cardinality(Used) + 1
        BY <1>a, <3>3, <3>4, <3>6, UsedFinite, OneMore
      <4>2. AboutToUse' = AboutToUse \ {p} /\ p \in AboutToUse
        BY <2>1, <2>3, <2>5, <3>1, <3>6 DEF AboutToUse
      <4>3. Cardinality(A) = Cardinality(AboutToUse) - 1
        BY <1>a, <1>f, <4>2, OneLess
      <4>4. vmStats'.new = Cardinality(S) + Cardinality(A)
        BY <1>f, <3>0, <3>1, <4>1, <4>3, UsedFinite DEF NewInv
      <4>. QED  BY <1>a, <4>4 DEF NewInv
    <3>. QED  BY <3>5, <3>6
  <2>6. CASE from \notin {"count", "update"}
    <3>1. to = "update" => from = "victim" /\ job[p].exists
      BY <1>4, <2>1, <2>6 DEF Moves, GoesOn
    <3>2. AboutToUse' = AboutToUse
      BY <2>1, <2>3, <2>6, <3>1 DEF AboutToUse
    <3>3. vmStats'.new = vmStats.new
      BY <1>4, <2>6, CountedUp DEF Moves
    <3>4. Used' = Used
      <4>1. CASE from = "victim"
        BY <1>4, <4>1 DEF Moves, TakeVictim, Used
      <4>2. CASE from = "alloc"
        <5>1. PICK s1, i1 : s1 = getProc(job[p].outPid) /\ i1 = job[p].outPage
          OBVIOUS
        <5>2. s1 \in Slot /\ i1 \in Page
          BY <2>1, <4>2, <5>1, OutSlot DEF TypeInv, TypeOK, AtWork, Job
        <5>3. pte' = [pte EXCEPT ![s1][i1].diskBlock = NextBlock]
          BY <1>4, <4>2, <5>1 DEF Moves, AllocateBlock
        <5>4. \A s \in Slot, i \in Page : pte'[s][i].state = pte[s][i].state
          BY <5>2, <5>3 DEF TypeInv, TypeOK, PTE
        <5>. QED  BY <5>4 DEF Used
      <4>3. CASE from \notin {"victim", "alloc"}
        BY <1>4, <2>6, <4>3 DEF Moves, KeepsTables, Used
      <4>. QED  BY <4>1, <4>2, <4>3
    <3>. QED  BY <2>2, <3>2, <3>3, <3>4, NewKept
  <2>. QED  BY <2>4, <2>5, <2>6
<1>. QED  BY <1>1, <1>2, <1>3, <1>4, PagerMoves

\* The users' part of both.
LEMMA UsedNewUser ==
  ASSUME TypeInv, ProgramInv, CountersInv, UsedInv, NewInv, NEW u \in Users, UserNext(u)
  PROVE  UsedInv' /\ NewInv'
<1>1. ASSUME UNCHANGED <<ProcPid, pte, ppc, job>>, NoneDead' => NoneDead,
             \A f \in Frame : FrameTable'[f].page = FrameTable[f].page
                              /\ FrameTable'[f].pid = FrameTable[f].pid,
             vmStats' = vmStats \/ Counted("faults")
      PROVE  UsedInv' /\ NewInv'
  <2>1. UsedInv' /\ Used' = Used
    BY <1>1, UsedKept
  <2>2. AboutToUse' = AboutToUse /\ vmStats'.new = vmStats.new
    BY <1>1, CountedUp DEF AboutToUse
  <2>. QED  BY <1>1, <2>1, <2>2, NewKept
<1>2. ASSUME NEW from, NEW to, UserGoes(u, from, to), vmStats' = vmStats \/ Counted("faults")
      PROVE  UsedInv' /\ NewInv'
  <2>1. NoneDead' => NoneDead
    BY <1>2 DEF UserGoes, NoneDead, TypeInv, TypeOK
  <2>. QED  BY <1>1, <1>2, <2>1 DEF UserGoes
<1>3. CASE p1_fork(u) /\ vmStats' = vmStats
  <2>1. PICK s : s = getProc(u)
    OBVIOUS
  <2>2. /\ upc[u] = "unborn" /\ upc' = [upc EXCEPT ![u] = "user"]
        /\ ProcPid[s] = EMPTY /\ ProcPid' = [ProcPid EXCEPT ![s] = u]
        /\ pte' = [pte EXCEPT ![s] = EmptyTable]
        /\ UNCHANGED <<FrameTable, ppc, job>>
    BY <1>3, <2>1 DEF p1_fork
  <2>3. NoneDead' => NoneDead
    BY <2>2 DEF NoneDead, TypeInv, TypeOK
  <2>4. CASE ~NoneDead
    BY <2>3, <2>4 DEF UsedInv, NewInv
  <2>5. CASE NoneDead
    <3>1. s \in Slot /\ u # EMPTY
      BY <2>1, UserSlot, ProcessAssumption DEF EMPTY
    <3>2. pte' = pte
      BY <2>2, <2>5, <3>1 DEF UsedInv, TypeInv, TypeOK
    <3>3. Used' = Used /\ AboutToUse' = AboutToUse
      BY <2>2, <3>2 DEF Used, AboutToUse
    <3>4. \A r \in Slot : ProcPid'[r] = EMPTY => ProcPid[r] = EMPTY
      BY <2>2, <3>1 DEF TypeInv, TypeOK
    <3>5. UsedInv'
      BY <2>2, <2>5, <3>2, <3>3, <3>4 DEF UsedInv, IsUsed
    <3>. QED  BY <1>3, <2>3, <3>3, <3>5, NewKept
  <2>. QED  BY <2>4, <2>5
<1>4. CASE p1_quit(u) /\ vmStats' = vmStats
  <2>1. CASE CanUnload(u)
    <3>1. upc' = [upc EXCEPT ![u] = "dead"]
      BY <1>4, <2>1 DEF p1_quit
    <3>2. ~NoneDead'
      BY <3>1 DEF NoneDead, TypeInv, TypeOK
    <3>. QED  BY <3>2 DEF UsedInv, NewInv
  <2>2. CASE ~CanUnload(u)
    BY <1>1, <1>4, <2>2 DEF p1_quit, Halt, NoneDead
  <2>. QED  BY <2>1, <2>2
<1>5. CASE SendFault(u) /\ vmStats' = vmStats
  <2>1. upc[u] = "send" /\ upc' = [upc EXCEPT ![u] = "wait"]
        /\ UNCHANGED <<ProcPid, pte, FrameTable, ppc, job>>
    BY <1>5 DEF SendFault, UserStep
  <2>2. NoneDead' => NoneDead
    BY <2>1 DEF NoneDead, TypeInv, TypeOK
  <2>. QED  BY <1>1, <1>5, <2>1, <2>2
<1>6. CASE Resume(u) /\ vmStats' = vmStats
  <2>1. upc[u] = "wait" /\ upc' = [upc EXCEPT ![u] = AfterFault(faults[getProc(u)])]
        /\ UNCHANGED <<ProcPid, pte, FrameTable, ppc, job>>
    BY <1>6 DEF Resume, UserStep
  <2>2. NoneDead' => NoneDead
    BY <2>1 DEF NoneDead, TypeInv, TypeOK
  <2>. QED  BY <1>1, <1>6, <2>1, <2>2
<1>. QED  BY <1>2, <1>3, <1>4, <1>5, <1>6, UserMoves

-----------------------------------------------------------------------------
\* The inductive invariant of the counters.
StatsInv ==
    CountersInv /\ FailedInv /\ KindsInv /\ BlocksInv /\ UsedInv /\ NewInv

LEMMA CountInit ==
  ASSUME StatsInit, IsFiniteSet(Users), IsFiniteSet(Pagers)
  PROVE  StatsInv
<1>1. /\ vmStats = initVmStats /\ upc = [u \in Users |-> "unborn"] /\ FaultsMbox = <<>>
      /\ ppc = [p \in Pagers |-> "receive"] /\ job = [p \in Pagers |-> NoJob]
      /\ NextBlock = 0 /\ ProcPid = [s \in Slot |-> EMPTY] /\ pte = [s \in Slot |-> EmptyTable]
      /\ FrameTable = [f \in Frame |-> [page |-> EMPTY, pid |-> EMPTY, locked |-> FALSE]]
  BY DEF StatsInit, Init
<1>2. CountersInv
  BY <1>1 DEF CountersInv, initVmStats
<1>3. FailedInv
  BY <1>1 DEF FailedInv
<1>4. vmStats.faults = 0 /\ vmStats.new = 0 /\ vmStats.pageIns = 0 /\ vmStats.pageOuts = 0
  BY <1>1 DEF initVmStats
<1>5. NotCounted = {} /\ NotWritten = {} /\ WithBlock = {} /\ AboutToUse = {}
  BY <1>1 DEF NotCounted, NotWritten, WithBlock, AboutToUse, Asks, MayCount, MayWrite, InMail
<1>6. Used = {}
  BY <1>1 DEF Used, EmptyTable, UnusedPTE
<1>7. KindsInv
  BY <1>1, <1>4, <1>5, FS_EmptySet DEF KindsInv
<1>8. BlocksInv /\ NewInv
  BY <1>1, <1>4, <1>5, <1>6, FS_EmptySet DEF BlocksInv, NewInv
<1>9. UsedInv
  BY <1>1 DEF UsedInv, NoJob
<1>. QED  BY <1>2, <1>3, <1>7, <1>8, <1>9 DEF StatsInv

LEMMA CountersKept ==
  ASSUME TypeInv, ProgramInv, CountersInv, [StatsNext]_allVars
  PROVE  CountersInv'
<1>1. vmStats' = vmStats => CountersInv'
  BY DEF CountersInv
<1>2. ASSUME NEW u \in Users, UserNext(u) PROVE CountersInv'
  BY <1>1, <1>2, UserMoves, CountedUp
<1>3. ASSUME NEW p \in Pagers, PagerNext(p) PROVE CountersInv'
  <2>1. ASSUME NEW from, NEW to, Moves(p, from, to) PROVE CountersInv'
    BY <1>1, <2>1, CountedUp DEF Moves
  <2>. QED  BY <1>1, <1>3, <2>1, PagerMoves, CountedUp
<1>. QED  BY <1>1, <1>2, <1>3, OthersRest DEF StatsNext

LEMMA CountNext ==
  ASSUME TypeInv, AnswerInv, ProgramInv, StatsInv, [StatsNext]_allVars,
         IsFiniteSet(Users), IsFiniteSet(Pagers)
  PROVE  StatsInv'
<1>. USE DEF StatsInv
<1>0. CountersInv'
  BY CountersKept
<1>1. ASSUME NEW u \in Users, UserNext(u) PROVE StatsInv'
  <2>1. FailedInv' /\ KindsInv' /\ UsedInv' /\ NewInv'
    BY <1>1, FailedUser, KindsUser, UsedNewUser
  <2>2. UNCHANGED <<NextBlock, ppc>> /\ (vmStats' = vmStats \/ Counted("faults"))
    <3>1. p1_fork(u) \/ p1_quit(u) \/ SendFault(u) \/ Resume(u) => UNCHANGED <<NextBlock, ppc>>
      BY DEF p1_fork, p1_quit, Halt, SendFault, Resume, UserStep
    <3>. QED  BY <1>1, <3>1, UserMoves DEF UserGoes
  <2>3. BlocksInv'
    BY <2>2, BlocksOthers
  <2>. QED  BY <1>0, <2>1, <2>3
<1>2. ASSUME NEW p \in Pagers, PagerNext(p) PROVE StatsInv'
  BY <1>0, <1>2, FailedPager, KindsPager, UsedPager, NewPager, NextBlockPager
<1>3. CASE (\E x \in Process : p1_switch(x) /\ UNCHANGED statVars) \/ UNCHANGED allVars
  <2>1. Rests /\ vmStats' = vmStats
    BY <1>3, OthersRest
  <2>2. FailedInv' /\ KindsInv' /\ BlocksInv'
    BY <2>1, FailedKept, KindsOthers, BlocksOthers DEF Rests
  <2>3. UsedInv' /\ NewInv'
    <3>1. NoneDead' = NoneDead /\ AboutToUse' = AboutToUse
      BY <2>1 DEF Rests, NoneDead, AboutToUse
    <3>2. UsedInv' /\ Used' = Used
      BY <2>1, <3>1, UsedKept DEF Rests
    <3>. QED  BY <2>1, <3>1, <3>2, NewKept
  <2>. QED  BY <1>0, <2>2, <2>3
<1>. QED  BY <1>1, <1>2, <1>3 DEF StatsNext

LEMMA CountsFit ==
  ASSUME StatsInv
  PROVE  CountersFitTables
BY DEF StatsInv, NewInv, KindsInv, BlocksInv, CountersFitTables, NoneDead, AboutToUse, WithBlock

\* Whatever the programs do, with any number of pagers, on every schedule and with quits at
\* any time: a page is counted as new once, when it is first used; no fault is counted twice;
\* and every block given out is written (phase5.c:356-359, phase5.c:480-485, phase5.c:528-531,
\* phase5utility.c:268-270, phase5utility.c:301-303).
THEOREM CountersAlwaysFit ==
  ASSUME IsFiniteSet(Users), IsFiniteSet(Pagers)
  PROVE  StatsSpec => []CountersFitTables
<1> DEFINE All == TypeInv /\ AnswerInv /\ ProgramInv /\ StatsInv
<1>1. StatsInit => All
  BY CountInit, TypeInit, AnswerInit DEF StatsInit, ProgramInv
<1>2. All /\ [StatsNext]_allVars => All'
  BY StatsSteps, ProgramKept, TypeNext, AnswerNext, CountNext
<1>3. All => CountersFitTables
  BY CountsFit
<1>. QED  BY <1>1, <1>2, <1>3, PTL DEF StatsSpec
-----------------------------------------------------------------------------
(* What the programs read.                                                   *)

\* Every page of a process holds what the process wrote there last.
WrittenInv ==
    /\ at \in [Users -> Nat \ {0}]
    /\ \A u \in Users : upc[u] # "dead" =>
            \A i \in Page : Content(u, i) = LastWritten(program.code[u], i, at[u])

\* What a place of the code adds to what was written.
LEMMA LastAfterWrite ==
  ASSUME NEW code, NEW i, NEW k \in Nat \ {0}, code[k].op = "write", code[k].page = i
  PROVE  LastWritten(code, i, k + 1) = code[k].value
<1> DEFINE W == WritesTo(code, i, k + 1)
<1>1. k \in W /\ \A n \in W : n \in Int /\ n <= k
  BY DEF WritesTo
<1>2. \A m \in W : (\A n \in W : n <= m) => m = k
  BY <1>1
<1> HIDE DEF W
<1>3. (CHOOSE m \in W : \A n \in W : n <= m) = k
  BY <1>1, <1>2
<1>. QED  BY <1>1, <1>3 DEF LastWritten, LastOf, W

LEMMA LastAfterOther ==
  ASSUME NEW code, NEW i, NEW k \in Nat, ~(code[k].op = "write" /\ code[k].page = i)
  PROVE  LastWritten(code, i, k + 1) = LastWritten(code, i, k)
<1>1. WritesTo(code, i, k + 1) = WritesTo(code, i, k)
  <2>1. \A m : m \in 1 .. (k + 1) - 1 /\ m # k <=> m \in 1 .. k - 1
    OBVIOUS
  <2>2. WritesTo(code, i, k + 1) \subseteq WritesTo(code, i, k)
    BY <2>1 DEF WritesTo
  <2>3. WritesTo(code, i, k) \subseteq WritesTo(code, i, k + 1)
    BY <2>1 DEF WritesTo
  <2>. QED  BY <2>2, <2>3
<1>. QED  BY <1>1 DEF LastWritten

\* No page of a process changes its content.
SameContent == \A u \in Users : \A i \in Page : Content(u, i)' = Content(u, i)

LEMMA UnmovedContent ==
  ASSUME OnePager, NEW p \in Pagers, Unmoved(p)
  PROVE  SameContent
<1>. SUFFICES ASSUME NEW u \in Users, NEW i \in Page PROVE Content(u, i)' = Content(u, i)
  BY DEF SameContent
<1>. QED  BY ContentIs, ContentIsNext DEF Unmoved

\* The user goes from one item of its code to the next.
NextItem(u) == at' = [at EXCEPT ![u] = @ + 1] /\ program' = program

\* A step that leaves all contents and places alone, apart from a process that quits.
LEMMA WrittenKept ==
  ASSUME WrittenInv, program' = program, at' = at,
         \A u \in Users : upc'[u] # "dead" =>
            /\ upc[u] # "dead"
            /\ \A i \in Page : Content(u, i)' = Content(u, i)
  PROVE  WrittenInv'
BY DEF WrittenInv

\* A user goes on to its next item without having written.
LEMMA WrittenSkip ==
  ASSUME WrittenInv, NEW u \in Users, NextItem(u), upc' = upc, SameContent,
         Now(u).op \in {"read", "assert"}
  PROVE  WrittenInv'
<1>1. at[u] \in Nat /\ at'[u] = at[u] + 1 /\ at' \in [Users -> Nat \ {0}]
      /\ \A w \in Users \ {u} : at'[w] = at[w]
  BY DEF WrittenInv, NextItem
<1>2. program.code[u][at[u]].op # "write"
  BY DEF Now
<1>3. \A i : LastWritten(program.code[u], i, at[u] + 1) = LastWritten(program.code[u], i, at[u])
  BY <1>1, <1>2, LastAfterOther
<1>. QED  BY <1>1, <1>3 DEF WrittenInv, SameContent, NextItem

\* A user writes, and goes on to its next item.
LEMMA WrittenStore ==
  ASSUME WrittenInv, NEW u \in Users, NextItem(u), upc' = upc,
         Now(u).op = "write", NEW j \in Page, j = Now(u).page,
         Content(u, j)' = Now(u).value,
         \A w \in Users : \A i \in Page : ~(w = u /\ i = j) => Content(w, i)' = Content(w, i)
  PROVE  WrittenInv'
<1> DEFINE code == program.code[u]
           k == at[u]
<1>1. k \in Nat \ {0} /\ at'[u] = k + 1 /\ at' \in [Users -> Nat \ {0}]
      /\ \A w \in Users \ {u} : at'[w] = at[w]
  BY DEF WrittenInv, NextItem
<1>2. Now(u) = code[k]
  BY DEF Now
<1>3. LastWritten(code, j, k + 1) = Now(u).value
  BY <1>1, <1>2, LastAfterWrite
<1>4. \A i \in Page \ {j} : LastWritten(code, i, k + 1) = LastWritten(code, i, k)
  BY <1>1, <1>2, LastAfterOther
<1>. QED  BY <1>1, <1>3, <1>4 DEF WrittenInv, NextItem
\* A store changes the content of the page it goes to, and of no other.
LEMMA StoreContent ==
  ASSUME FlatInv, OnePager, UsersBelow, NEW p \in Pagers,
         NEW u \in Users, NEW j \in Page, NEW v \in Values, Store(u, j, v)
  PROVE  /\ Content(u, j)' = v
         /\ \A w \in Users : \A i \in Page :
                ~(w = u /\ i = j) => Content(w, i)' = Content(w, i)
<1>1. /\ Live' = Live /\ u \in Live /\ Kept(p, u, j)' = v
      /\ \A w \in Live : \A i \in Page : ~(w = u /\ i = j) => Kept(p, w, i)' = Kept(p, w, i)
  BY SwapStore
<1>2. Content(u, j)' = v
  BY <1>1, ContentIsNext
<1>3. ASSUME NEW w \in Users, NEW i \in Page, ~(w = u /\ i = j)
      PROVE  Content(w, i)' = Content(w, i)
  BY <1>1, <1>3, ContentIs, ContentIsNext
<1>. QED  BY <1>2, <1>3

\* What a process does in its program and in FaultHandler, unless it writes, changes no page.
LEMMA HandlerContent ==
  ASSUME FlatInv, OnePager, NEW p \in Pagers, NEW u \in Users,
         Program(u) \/ Handler(u), UNCHANGED <<ram, dirty>>
  PROVE  SameContent /\ \A w \in Users : upc'[w] = "dead" <=> upc[w] = "dead"
<1>1. /\ UNCHANGED <<ProcPid, pte, disk, ppc, job>> /\ Live' = Live
      /\ \A w \in Users : upc'[w] = "dead" <=> upc[w] = "dead"
  BY UserLeaves DEF FlatInv, MemoryInv, Inv
<1>. QED  BY <1>1, SwapQuiet, UnmovedContent DEF FlatInv

LEMMA WrittenAccess ==
  ASSUME FlatInv, ProgramInv, WrittenInv, OnePager, UsersBelow, NEW p \in Pagers,
         NEW u \in Users, Access(u)
  PROVE  WrittenInv'
<1>1. Now(u).op \in {"read", "write"} => Now(u).page \in Page
      /\ (Now(u).op = "write" => Now(u).value \in Values)
  BY NextAccess DEF ProgramInv
<1>2. Program(u) /\ upc \in [Users -> UserPc]
  BY AccessStep DEF ProgramInv, FlatInv, MemoryInv, Inv, TypeInv, TypeOK
<1>3. CASE Now(u).op = "read" /\ Load(u, Now(u).page) /\ Done(u)
  <2>1. UNCHANGED <<ram, dirty, upc>> /\ NextItem(u)
    BY <1>2, <1>3 DEF Load, UserStep, Done, NextItem
  <2>. QED  BY <1>2, <1>3, <2>1, HandlerContent, WrittenSkip
<1>4. CASE Now(u).op = "write" /\ Store(u, Now(u).page, Now(u).value) /\ Done(u)
  <2>1. upc' = upc /\ NextItem(u)
    BY <1>2, <1>4 DEF Store, UserStep, Done, NextItem
  <2>2. PICK j, v : j = Now(u).page /\ v = Now(u).value
    OBVIOUS
  <2>3. j \in Page /\ v \in Values /\ Store(u, j, v)
    BY <1>1, <1>4, <2>2
  <2>4. /\ Content(u, j)' = v
        /\ \A w \in Users : \A i \in Page :
                ~(w = u /\ i = j) => Content(w, i)' = Content(w, i)
    BY <2>3, StoreContent
  <2>. QED  BY <1>4, <2>1, <2>2, <2>3, <2>4, WrittenStore
<1>5. CASE PageFault(u, Now(u).page) /\ UNCHANGED statVars
  <2>1. UNCHANGED <<ram, dirty, program, at>>
    BY <1>5 DEF PageFault, memory, statVars
  <2>. QED  BY <1>2, <2>1, HandlerContent, WrittenKept DEF SameContent
<1>. QED  BY <1>3, <1>4, <1>5 DEF Access

LEMMA WrittenUser ==
  ASSUME FlatInv, ProgramInv, WrittenInv, OnePager, UsersBelow, PidsAreSlots, NEW p \in Pagers,
         NEW u \in Users, UserNext(u)
  PROVE  WrittenInv'
<1>0. upc \in [Users -> UserPc]
  BY DEF FlatInv, MemoryInv, Inv, TypeInv, TypeOK
<1>1. CASE p1_fork(u) /\ UNCHANGED statVars
  <2>1. Flat!Start(u)
    BY <1>1, FlatFork
  <2>2. SameContent
    <3> DEFINE m == [w \in Users |-> [k \in Page |-> Content(w, k)]]
    <3>1. m' = m
      BY <2>1 DEF Flat!Start
    <3>2. ASSUME NEW w \in Users, NEW i \in Page PROVE m'[w][i] = Content(w, i)'
      OBVIOUS
    <3>3. ASSUME NEW w \in Users, NEW i \in Page PROVE m[w][i] = Content(w, i)
      OBVIOUS
    <3> HIDE DEF m
    <3>. QED  BY <3>1, <3>2, <3>3 DEF SameContent
  <2>3. \A w \in Users : upc'[w] # "dead" => upc[w] # "dead"
    BY <1>0, <1>1 DEF p1_fork
  <2>. QED  BY <1>1, <2>2, <2>3, WrittenKept DEF SameContent, statVars
<1>2. CASE Quit(u)
  <2>1. p1_quit(u) /\ UNCHANGED statVars
    BY <1>2 DEF Quit
  <2>2. /\ u \in Live /\ Live' = Live \ {u}
        /\ \A w \in Live' : \A k \in Page : Kept(p, w, k)' = Kept(p, w, k)
    BY <2>1, SwapQuit
  <2>3. upc' = [upc EXCEPT ![u] = "dead"]
    BY <2>1, <2>2 DEF p1_quit, Halt, Live
  <2>4. ASSUME NEW w \in Users, upc'[w] # "dead", NEW i \in Page
        PROVE  upc[w] # "dead" /\ Content(w, i)' = Content(w, i)
    <3>1. w # u /\ upc[w] # "dead" /\ (w \in Live' <=> w \in Live)
      BY <1>0, <2>2, <2>3, <2>4
    <3>2. Content(w, i) = IF w \in Live THEN Kept(p, w, i) ELSE Zero
      BY ContentIs
    <3>3. Content(w, i)' = IF w \in Live' THEN Kept(p, w, i)' ELSE Zero
      BY ContentIsNext
    <3>. QED  BY <2>2, <3>1, <3>2, <3>3
  <2>5. 0 \in Page
    BY ProcessAssumption DEF Page
  <2>. QED  BY <2>1, <2>4, <2>5, WrittenKept DEF statVars
<1>3. CASE Access(u)
  BY <1>3, WrittenAccess
<1>4. CASE Asserts(u)
  <2>1. NextItem(u) /\ UNCHANGED vars /\ Now(u).op = "assert"
    BY <1>4 DEF Asserts, Done, NextItem
  <2>2. UNCHANGED <<ProcPid, pte, ram, dirty, disk, ppc, job, upc>>
    BY <2>1 DEF vars, memory
  <2>3. Live' = Live
    BY <2>2 DEF Live
  <2>. QED  BY <2>1, <2>2, <2>3, SwapQuiet, UnmovedContent, WrittenSkip DEF FlatInv
<1>5. CASE \/ CountedFault(u)
           \/ /\ LockVmStats(u) \/ SendFault(u) \/ Resume(u) \/ LockFrames(u) \/ UnlockFrame(u)
              /\ UNCHANGED statVars
  <2>1. Handler(u) /\ UNCHANGED <<program, at>>
    BY <1>5 DEF CountedFault, Count, Handler, statVars
  <2>2. UNCHANGED <<ram, dirty>>
    BY <1>5 DEF CountedFault, LockVmStats, CountFault, SendFault, Resume, LockFrames,
                UnlockFrame, memory
  <2>. QED  BY <2>1, <2>2, HandlerContent, WrittenKept DEF SameContent
<1>. QED  BY <1>1, <1>2, <1>3, <1>4, <1>5 DEF UserNext
LEMMA WrittenPager ==
  ASSUME FlatInv, WrittenInv, OnePager, PidsAreSlots, RoomOnDisk, WritesWhereItReads,
         NEW p \in Pagers, PagerNext(p)
  PROVE  WrittenInv'
<1>1. Pager(p) \/ DiskDone(p)
  BY PagerSteps
<1>2. UNCHANGED <<program, at>>
  BY DEF PagerNext, CountedNew, CountedPageIn, CountedPageOut, Count, statVars
<1>3. Unmoved(p)
  BY <1>1, SwapPager, SwapReadDone, SwapWriteDone DEF DiskDone
<1>4. upc' = upc
  BY <1>1, PagerLeaves DEF DiskDone, WriteDone, ReadDone, Transferred
<1>. QED  BY <1>2, <1>3, <1>4, UnmovedContent, WrittenKept DEF SameContent

LEMMA WrittenNext ==
  ASSUME OnePager, UsersBelow, PidsAreSlots
  PROVE  /\ FlatInv /\ ProgramInv /\ WrittenInv /\ RoomOnDisk /\ WritesWhereItReads
         /\ [StatsNext]_allVars
         => WrittenInv'
<1>. SUFFICES ASSUME FlatInv, ProgramInv, WrittenInv, RoomOnDisk, WritesWhereItReads,
                     [StatsNext]_allVars
              PROVE  WrittenInv'
  OBVIOUS
<1>0. PICK p : p \in Pagers /\ Pagers = {p}
  BY DEF OnePager
<1>1. CASE (\E x \in Process : p1_switch(x) /\ UNCHANGED statVars) \/ UNCHANGED allVars
  <2>1. UNCHANGED <<ProcPid, pte, ram, dirty, disk, ppc, job, upc, program, at>>
    BY <1>1 DEF p1_switch, Halt, memory, allVars, vars, statVars
  <2>2. Live' = Live
    BY <2>1 DEF Live
  <2>. QED  BY <1>0, <2>1, <2>2, SwapQuiet, UnmovedContent, WrittenKept DEF FlatInv, SameContent
<1>2. ASSUME NEW u \in Users, UserNext(u) PROVE WrittenInv'
  BY <1>0, <1>2, WrittenUser
<1>3. ASSUME NEW q \in Pagers, PagerNext(q) PROVE WrittenInv'
  BY <1>3, WrittenPager
<1>. QED  BY <1>1, <1>2, <1>3 DEF StatsNext

LEMMA WrittenInit == StatsInit => WrittenInv
<1>. SUFFICES ASSUME StatsInit PROVE WrittenInv
  OBVIOUS
<1>1. at = [u \in Users |-> 1] /\ Live = {}
  BY DEF StatsInit, Init, Live
<1>2. \A u, i : Content(u, i) = Zero
  BY <1>1 DEF Content
<1>3. \A code, i : LastWritten(code, i, 1) = Zero
  <2>1. \A code, i : WritesTo(code, i, 1) = {}
    BY DEF WritesTo
  <2>. QED  BY <2>1 DEF LastWritten, LastOf
<1>. QED  BY <1>1, <1>2, <1>3 DEF WrittenInv

\* A process that reads finds the content of its page, which is what it wrote last, which is
\* what it expects.
LEMMA ReadsFollow ==
  ASSUME ProgramInv, WrittenInv, ReadsSeeContent
  PROVE  ReadsAreRight
<1>. SUFFICES ASSUME NEW u \in Users, Running(u), upc[u] = "user", Now(u).op = "read",
                     mmu[Now(u).page] # EMPTY
              PROVE  ram[mmu[Now(u).page]] = Now(u).value
  BY DEF ReadsAreRight
<1>1. halted = "no" /\ cur = u
  BY DEF Running
<1>2. PICK i : i = Now(u).page
  OBVIOUS
<1>3. i \in Page
  BY <1>2, NextAccess DEF ProgramInv
<1>4. ram[mmu[i]] = Content(u, i)
  BY <1>1, <1>2, <1>3 DEF ReadsSeeContent
<1>5. Content(u, i) = LastWritten(program.code[u], i, at[u])
  BY <1>3 DEF WrittenInv
<1>6. at[u] \in DOMAIN program.code[u] /\ Now(u) = program.code[u][at[u]]
  BY DEF Now
<1>7. Now(u).value = LastWritten(program.code[u], i, at[u])
  BY <1>2, <1>6, ReadAssumption DEF ProgramInv
<1>. QED  BY <1>2, <1>4, <1>5, <1>7

\* Whatever the programs are, a process reads what it wrote last, or zeros, on every schedule
\* and whatever was done to its pages in between: as long as no page-out finds the disk full
\* and none goes to another place than it is read from (simple10.c:84-98; phase5.c:440-600,
\* phase5utility.c:261-325).
THEOREM ReadsAlwaysRight ==
  ASSUME OnePager, UsersBelow, PidsAreSlots
  PROVE  StatsSpec /\ []RoomOnDisk /\ []WritesWhereItReads => []ReadsAreRight
<1>1. StatsInit => Init /\ ProgramInv /\ WrittenInv
  BY WrittenInit DEF StatsInit, ProgramInv
<1>2. ProgramInv /\ [StatsNext]_allVars => [Next]_vars /\ ProgramInv'
  BY StatsSteps, ProgramKept
<1>3. Init => SwapInv
  BY SwapInit
<1>4. FlatInv /\ RoomOnDisk /\ WritesWhereItReads /\ [Next]_vars => SwapInv'
  BY SwapNext
<1>5. FlatInv /\ ProgramInv /\ WrittenInv /\ RoomOnDisk /\ WritesWhereItReads
      /\ [StatsNext]_allVars => WrittenInv'
  BY WrittenNext
<1>6. ProgramInv /\ WrittenInv /\ ReadsSeeContent => ReadsAreRight
  BY ReadsFollow
<1>7. FlatInv <=> MemoryInv /\ BlockInv /\ SwapInv
  BY DEF FlatInv
<1>. QED  BY <1>1, <1>2, <1>3, <1>4, <1>5, <1>6, <1>7, ProgramsAreBehaviours, MemoryAlways,
             BlocksAlways, ReadsAlwaysSeeContent, PTL DEF StatsSpec, Spec

\* With a frame for every page of every process reads are right whatever the programs do, on
\* any disk: no page ever leaves its frame but with its process (phase5.c:466-477 and 509,
\* phase5utility.c:206-215).
THEOREM EnoughFramesReadsRight ==
  ASSUME OnePager, UsersBelow, PidsAreSlots, FramesForAll
  PROVE  StatsSpec => []ReadsAreRight
BY FreshAlways, ReadsAlwaysRight, ProgramsAreBehaviours, PTL
=============================================================================
