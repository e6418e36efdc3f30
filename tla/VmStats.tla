------------------------------- MODULE VmStats -------------------------------
(***************************************************************************)
(* The counters of VmStats, and programs that do something in particular   *)
(* with the VM region: the behaviours of VirtualMemory in which each user  *)
(* goes through its own list of accesses and then terminates, and every    *)
(* step that updates a counter in the code does so.                        *)
(*                                                                         *)
(* vmStats.switches is left out: it grows for ever and nothing reads it.   *)
(***************************************************************************)
EXTENDS VirtualMemory, FiniteSets, Functions

CONSTANTS
    Programs,       \* the programs to choose from: [code, asserts], see below
    MaxRefaults     \* bound: faults beyond one for each access so far.  Processes with too
                    \* few frames could take them from each other for ever

VARIABLES
    program,        \* the one that runs
    at,             \* where each user is in its code
    vmStats

statVars == <<program, at, vmStats>>
allVars  == <<vars, statVars>>

(* program.code[u] is the sequence of the things user u does, and            *)
(* program.asserts what start5 finds in vmStats when the users are gone.     *)
Write(i, v)      == [op |-> "write", page |-> i, value |-> v]
Read(i, v)       == [op |-> "read", page |-> i, value |-> v]    \* v: what it expects
Asserting(c)     == [op |-> "assert", counters |-> c]

\* What u does next.
Now(u) == IF at[u] \in DOMAIN program.code[u] THEN program.code[u][at[u]] ELSE [op |-> "end"]

\* A program uses the pages of the region, and writes what may be written.
ASSUME ProgramAssumption ==
    \A g \in Programs, u \in Users : \A k \in DOMAIN g.code[u] :
        LET do == g.code[u][k]
        IN  /\ do.op \in {"read", "write"} => do.page \in Page
            /\ do.op = "write" => do.value \in Values

\* The writes to page i in a code before place k, and what the last of them wrote.
WritesTo(code, i, k) == {m \in 1 .. k - 1 : code[m].op = "write" /\ code[m].page = i}
LastOf(code, W) == IF W = {} THEN Zero ELSE code[CHOOSE m \in W : \A n \in W : n <= m].value
LastWritten(code, i, k) == LastOf(code, WritesTo(code, i, k))

\* What a program expects to read is what it wrote there last, or zeros.
ASSUME ReadAssumption ==
    \A g \in Programs, u \in Users : \A k \in DOMAIN g.code[u] :
        LET do == g.code[u][k]
        IN  do.op = "read" => do.value = LastWritten(g.code[u], do.page, k)

initVmStats ==
    [pages |-> NumPages, frames |-> NumFrames, diskBlocks |-> DiskBlocks, freeFrames |-> NumFrames,
     freeDiskBlocks |-> DiskBlocks, faults |-> 0, new |-> 0, pageIns |-> 0, pageOuts |-> 0,
     replaced |-> 0]

StatsInit ==
    /\ Init
    /\ program \in Programs
    /\ at = [u \in Users |-> 1]
    /\ vmStats = initVmStats

-----------------------------------------------------------------------------
Count(counter) ==
    /\ vmStats' = [vmStats EXCEPT ![counter] = @ + 1]
    /\ UNCHANGED <<program, at>>

\* The counters change under vmStatsMutex; FaultHandler's and the pager's of lines 482-484.
CountedFault(u) == CountFault(u) /\ Count("faults")
CountedNewAsPageIn(p) == CountNew(p) /\ Count("pageIns")         \* mutant: another counter
CountedNew(p)   == CountNew(p) /\ Count("new")

\* readPageFromDisk and writePageToDisk count before they check anything.
CountedPageOutAsIn(p) == PageOut(p) /\ Count("pageIns")         \* mutant: copied line 269
CountedPageIn(p)  == PageIn(p) /\ Count("pageIns")
CountedPageOut(p) == PageOut(p) /\ Count("pageOuts")

\* The user has done what it was at.
Done(u) == at' = [at EXCEPT ![u] = @ + 1] /\ UNCHANGED <<program, vmStats>>

\* start5 spawns all the users before it lets one run: its priority is better.
Spawned == \A u \in Users : program.code[u] # <<>> => upc[u] # "unborn"

Access(u) ==
    /\ Spawned
    /\ \/ Now(u).op = "read"  /\ Load(u, Now(u).page) /\ Done(u)
       \/ Now(u).op = "write" /\ Store(u, Now(u).page, Now(u).value) /\ Done(u)
       \/ /\ Now(u).op \in {"read", "write"} /\ PageFault(u, Now(u).page)
          /\ vmStats.faults < FoldFunction(+, 0, at) + MaxRefaults /\ UNCHANGED statVars

\* The program looks at vmStats.
Asserts(u) ==
    /\ Running(u) /\ upc[u] = "user"
    /\ Now(u).op = "assert"
    /\ Done(u)
    /\ UNCHANGED vars

\* Terminate at the end of the code, or terminateReal in FaultHandler.
Quit(u) == (upc[u] = "user" => Now(u).op = "end") /\ p1_quit(u) /\ UNCHANGED statVars

UserNext(u) ==
    \/ p1_fork(u) /\ program.code[u] # <<>> /\ UNCHANGED statVars
    \/ Access(u) \/ Asserts(u) \/ Quit(u)
    \/ CountedFault(u)
    \/ /\ LockVmStats(u) \/ SendFault(u) \/ Resume(u) \/ LockFrames(u) \/ UnlockFrame(u)
       /\ UNCHANGED statVars

PagerNext(p) ==
    \/ CountedNew(p) \/ CountedPageIn(p) \/ CountedPageOut(p)
    \/ /\ \/ BlockOnMutex(p, "FramesMutex", {"select"})
          \/ BlockOnMutex(p, "vmStatsMutex", {"count", "pageout", "pagein"})
          \/ Receive(p) \/ GetNextFrame(p) \/ TakeVictim(p) \/ UpdateTables(p)
          \/ CheckAccess(p) \/ FindBlock(p) \/ AllocateBlock(p) \/ MapOut(p) \/ CopyOut(p)
          \/ Fill(p) \/ MapIn(p) \/ CopyIn(p) \/ DiskDone(p)
       /\ UNCHANGED statVars

StatsNext ==
    \/ \E x \in Process : p1_switch(x) /\ UNCHANGED statVars
    \/ \E u \in Users : UserNext(u)
    \/ \E p \in Pagers : PagerNext(p)

StatsSpec == StatsInit /\ [][StatsNext]_allVars

-----------------------------------------------------------------------------
\* Whenever a child reads a page it reads what it wrote there last, or zeros, whatever
\* was done to the page in between and on every schedule ("Wrong string read",
\* simple10.c:84-98; simple4.c:66, simple5.c:60, simple8.c:62).
ReadsAreRight ==
    \A u \in Users :
        (Running(u) /\ upc[u] = "user" /\ Now(u).op = "read" /\ mmu[Now(u).page] # EMPTY) =>
            ram[mmu[Now(u).page]] = Now(u).value

\* The counters fit the tables: while no process has terminated, a page has been counted
\* as new exactly once if it has been used, however often it was replaced; no fault is
\* counted as two kinds of fault (phase5.h:34-36), also when it is sent again; and every
\* block of the swap disk that was given out has been written or is about to be.
Used == {b \in Slot \X Page : pte[b[1]][b[2]].state # "UNUSED"}
CountersFitTables ==
    /\ (\A u \in Users : upc[u] # "dead") =>
            vmStats.new = Cardinality(Used)
                          + Cardinality({p \in Pagers : ppc[p] = "update" /\ ~job[p].exists})
    /\ vmStats.new + vmStats.pageIns <= vmStats.faults
    /\ vmStats.pageOuts <= vmStats.faults
    /\ NextBlock <= vmStats.pageOuts
                    + Cardinality({p \in Pagers : ppc[p] \in {"mapout", "copyout", "pageout"}})
=============================================================================
