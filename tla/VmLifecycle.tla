----------------------------- MODULE VmLifecycle -----------------------------
(***************************************************************************)
(* The VM region from before VmInit to after VmDestroy, and again: the     *)
(* system calls of syscallHandlers.c and libuser5.c, vmInitReal and        *)
(* vmDestroyReal of phase5.c, the pagers they start and stop, and the hooks*)
(* of p1.c, which phase 1 calls all the time and which look at             *)
(* VMInitialized first.  start5 makes the calls, as in the repository's    *)
(* programs; its children use the region.                                  *)
(*                                                                         *)
(* How a fault is served is the matter of VirtualMemory.  Here a pager only*)
(* goes through the places where it uses what VmInit makes and VmDestroy   *)
(* takes away.  A process is a slot of ProcTable: a new process may take   *)
(* the slot of a dead one.                                                 *)
(***************************************************************************)
EXTENDS Integers, Sequences, FiniteSets

CONSTANTS
    Users,          \* slots of start5's children
    Pagers,         \* slots of the pagers
    Start5, System, \* start5; the device drivers and the sentinel
    MAXPAGERS,
    InitArgs,       \* the <<mappings, pages, frames, pagers>> VmInit is called with
    MAXMBOX,        \* bound: mailboxes phase 2 can still create
    MAXSEMS,        \* bound: semaphores phase 3 can still create
    Sessions,       \* bound: times VmInit succeeds
    Disciplined,    \* start5 pairs its calls, and waits for its children before VmDestroy
    Zappable        \* the pagers another process may zap

Process == Users \cup Pagers \cup {Start5, System}
KILL    == -1       \* the message that ends a pager
MutexesAndMailbox == {"FramesMutex", "FaultsMbox", "vmStatsMutex"}
Objects == MutexesAndMailbox \cup {"PagerKillSem"}

ASSUME LifecycleAssumption ==
    /\ Users \cup Pagers \cup {Start5, System} \subseteq Nat /\ IsFiniteSet(Pagers)
    /\ Users \cap Pagers = {} /\ {Start5, System} \cap (Users \cup Pagers) = {}
    /\ Start5 # System
    /\ MAXPAGERS \in Nat /\ MAXPAGERS <= Cardinality(Pagers)
    /\ InitArgs \subseteq Int \X Int \X Int \X Int
    /\ MAXMBOX \in Nat /\ MAXSEMS \in Nat /\ Sessions \in Nat
    /\ Disciplined \in BOOLEAN /\ Zappable \subseteq Pagers

VARIABLES
    cur, halted,
    s5,             \* where start5 is
    mode,           \* the processor mode of start5
    status,         \* what its last VmInit returned, NONE when it called VmDestroy since
    mmuOn,
    VMInitialized,
    tables,         \* the page tables and FrameTable: "none", "allocated" or "freed"
    handle,         \* the ids in FramesMutex .. PagerKillSem: never set, good, or an error code
    FaultsMbox,     \* the messages in the mailbox
    killSem,        \* the count of PagerKillSem
    mboxes, sems,   \* mailboxes and semaphores created and not released
    sessions,       \* how often VmInit has succeeded
    NumPagers,
    i,              \* the loop counter of vmInitReal and vmDestroyReal
    ppc, job,       \* where each pager is, the process it serves
    zapped,         \* the pagers that have been zapped
    upc,            \* where each child is: in its program, or in FaultHandler
    answer,         \* failed and shouldTerminate of its fault message
    entry,          \* the slots whose ProcTable entry has the pid of their process
    privateSem,     \* the slots whose privateSem is a semaphore of their own
    sem,            \* its count
    resident        \* the slots whose page table names a frame

calls   == <<s5, mode, status, i>>
machine == <<mmuOn, tables>>
objects == <<handle, FaultsMbox, killSem, mboxes>>
slots   == <<entry, privateSem, sem, resident>>
vars    == <<cur, halted, calls, machine, VMInitialized, objects, sems, sessions, NumPagers,
             ppc, job, zapped, upc, answer, slots>>

NONE == -2
S5Pc == {"program", "sleep", "mailbox", "fork", "stats", "diskSize", "killSem", "kill", "await",
         "free"}
PagerPc == {"none", "receive", "old", "frame", "full", "transfer", "map", "leave", "gone"}
UserPc  == {"unborn", "user", "count", "send", "wait", "unlock", "exit", "dead"}

Init ==
    /\ cur = Start5 /\ halted = "no"
    /\ s5 = "program" /\ mode = "user" /\ status = NONE /\ i = 0
    /\ mmuOn = FALSE /\ tables = "none" /\ VMInitialized = FALSE
    /\ handle = [o \in Objects |-> "unset"]
    /\ FaultsMbox = <<>> /\ killSem = 0 /\ mboxes = 0 /\ sems = 0
    /\ sessions = 0 /\ NumPagers = 0
    /\ ppc = [p \in Pagers |-> "none"] /\ job = [p \in Pagers |-> System] /\ zapped = {}
    /\ upc = [u \in Users |-> "unborn"] /\ answer = [u \in Users |-> "ok"]
    /\ entry = {} /\ privateSem = {} /\ sem = [u \in Users |-> 0] /\ resident = {}

Live == {u \in Users : upc[u] \notin {"unborn", "dead"}}

-----------------------------------------------------------------------------
(* Phase 1: the dispatcher, and its calls of the hooks.  start5 and the      *)
(* pagers have priority 2, the children a worse one.                         *)

Runnable(x) ==
    \/ x = System
    \/ x = Start5 /\ s5 \notin {"sleep", "diskSize"}
                  /\ (s5 = "await" /\ handle["PagerKillSem"] = "good" => killSem > 0)
    \/ x \in Pagers /\ \/ ppc[x] \in {"frame", "full", "map", "leave"}
                       \/ ppc[x] = "receive" /\ \/ FaultsMbox # <<>> \/ x \in zapped
                                                \/ handle["FaultsMbox"] # "good"
                       \/ ppc[x] = "old" /\ x \in zapped
    \/ x \in Live /\ (upc[x] = "wait" /\ x \in privateSem => sem[x] > 0)

Schedulable(x) ==
    Runnable(x) /\ (x \in Users => \A y \in Pagers \cup {Start5} : ~Runnable(y))

Running(x) == halted = "no" /\ cur = x /\ Schedulable(x)

\* USLOSS_Halt, a failed assertion, or undefined behaviour.
Halt(why) ==
    /\ halted' = why
    /\ UNCHANGED <<cur, calls, machine, VMInitialized, objects, sems, sessions, NumPagers, ppc,
                   job, zapped, upc, answer, slots>>

p1_switch(new) ==
    /\ halted = "no" /\ cur # new /\ Schedulable(new)
    /\ IF VMInitialized /\ {cur, new} \cap resident # {} /\ ~mmuOn
       THEN Halt("mmu")
       ELSE /\ cur' = new
            /\ UNCHANGED <<halted, calls, machine, VMInitialized, objects, sems, sessions,
                           NumPagers, ppc, job, zapped, upc, answer, slots>>

\* p1_fork, for a slot that becomes x's.
p1_fork(x) ==
    IF ~VMInitialized
    THEN UNCHANGED <<slots, sems>>
    ELSE /\ entry' = entry \cup {x}
         /\ privateSem' = privateSem \cup {x} /\ sems' = sems + 1
         /\ sem' = [sem EXCEPT ![x] = 0]
         /\ resident' = resident \ {x}

QuitHalts(x) == VMInitialized /\ x \in resident /\ ~mmuOn

\* p1_quit.  A process without an entry has nothing but frames to give back.
p1_quitFreesAll(x) ==               \* mutant: no lines 205-209
    IF ~VMInitialized
    THEN UNCHANGED <<slots, sems>>
    ELSE /\ entry' = entry \ {x} /\ privateSem' = privateSem \ {x} /\ sems' = sems - 1
         /\ resident' = resident \ {x} /\ UNCHANGED sem
p1_quit(x) ==
    IF ~VMInitialized \/ x \notin entry
    THEN UNCHANGED <<slots, sems>>
    ELSE /\ entry' = entry \ {x}
         /\ privateSem' = privateSem \ {x} /\ sems' = sems - 1
         /\ resident' = resident \ {x}
         /\ UNCHANGED sem

-----------------------------------------------------------------------------
(* start5, in its program.                                                   *)

InProgram == Running(Start5) /\ s5 = "program"
IsUp == status = 0      \* all the program knows of the VM region

Spawn(u) ==
    /\ InProgram
    /\ upc[u] \in {"unborn", "dead"}
    /\ IF VMInitialized /\ sems = MAXSEMS
       THEN Halt("semaphore")
       ELSE /\ upc' = [upc EXCEPT ![u] = "user"]
            /\ p1_fork(u)
            /\ UNCHANGED <<cur, halted, calls, machine, VMInitialized, objects, sessions,
                           NumPagers, ppc, job, zapped, answer>>

\* Wait, or SemP on a semaphore of the program.
Sleep ==
    /\ InProgram
    /\ Live # {}
    /\ s5' = "sleep"
    /\ UNCHANGED <<cur, halted, mode, status, i, machine, VMInitialized, objects, sems, sessions,
                   NumPagers, ppc, job, zapped, upc, answer, slots>>

\* The processor mode a call insists on: it halts the machine in the other one.
ModeOf(call) == IF call = "MboxSend" THEN "kernel" ELSE "user"

\* lockMutex: the call of phase 2, or the system call of the library.
LockCallAlwaysUser(m) == "Mbox_Send"        \* mutant: one branch of lockMutex
LockCall(m) == IF m = "kernel" THEN "MboxSend" ELSE "Mbox_Send"
LockHalts(m) == ModeOf(LockCall(m)) # m

\* The program prints the statistics: all that it changes is undone when it returns.
PrintStats ==
    /\ InProgram /\ IsUp
    /\ IF LockHalts(mode) THEN Halt("mode") ELSE UNCHANGED vars

-----------------------------------------------------------------------------
(* VmInit.                                                                   *)

\* What changes besides when start5 goes on inside a system call.
Continue(from, to) ==
    /\ Running(Start5) /\ s5 = from
    /\ s5' = to
    /\ UNCHANGED <<cur, halted, upc, answer, zapped>>

\* The end of a system call: setToUserMode, and the wrapper returns.
ReturnInKernelMode == mode' = mode          \* mutant: no setToUserMode
Return == mode' = "user"

BadArgsAnyPagers(a) == (\E n \in 1 .. 4 : a[n] < 0) \/ a[1] # a[2]     \* mutant: no lines 153-156
BadArgs(a) ==
    \/ \E n \in 1 .. 4 : a[n] < 0
    \/ a[1] # a[2]
    \/ a[4] > MAXPAGERS

\* MboxCreate for the object o.
Created(o, ok) == handle' = [handle EXCEPT ![o] = IF ok THEN "good" ELSE "error"]
MboxCreate(o) ==
    /\ Created(o, mboxes < MAXMBOX)
    /\ mboxes' = IF mboxes < MAXMBOX THEN mboxes + 1 ELSE mboxes

\* From the call to the return for bad arguments, or to line 196.  The wrapper and the
\* handler insist on the processor mode; USLOSS_MmuInit refuses an MMU that is on.
VmInit(a) ==
    /\ InProgram
    /\ Disciplined => ~IsUp
    /\ sessions < Sessions
    /\ IF mode # "user" THEN Halt("mode")
       ELSE IF BadArgs(a)
       THEN /\ Continue("program", "program")
            /\ status' = -1 /\ Return
            /\ UNCHANGED <<i, machine, VMInitialized, objects, sems, sessions, NumPagers, ppc, job,
                           slots>>
       ELSE IF mmuOn THEN Halt("mmu")
       ELSE /\ Continue("program", "mailbox")
            /\ mode' = "kernel"
            /\ entry' = {} /\ resident' = {}
            /\ mmuOn' = TRUE /\ tables' = "allocated"
            /\ MboxCreate("FramesMutex")
            /\ NumPagers' = a[4] /\ i' = 0
            \* the slots of the pagers that have quit are free again
            /\ ppc' = [p \in Pagers |-> IF ppc[p] = "gone" THEN "none" ELSE ppc[p]]
            /\ UNCHANGED <<status, VMInitialized, FaultsMbox, killSem, sems, sessions, job,
                           privateSem, sem>>

\* A pager of an earlier VmInit that is blocked on the old mailbox stays there, and one that
\* has yet to call MboxReceive comes to the new one.  What the old mailbox handed to a blocked
\* pager it has taken before: that step touches nothing else that anybody reads.
CreateFaultsMbox ==
    /\ Continue("mailbox", "fork")
    /\ \E behind \in SUBSET {p \in Pagers : ppc[p] = "receive"} :
        /\ behind # {} => handle["FaultsMbox"] = "good" /\ FaultsMbox = <<>>
        /\ ppc' = [p \in Pagers |-> IF p \in behind THEN "old" ELSE ppc[p]]
    /\ MboxCreate("FaultsMbox")
    /\ FaultsMbox' = <<>>
    /\ UNCHANGED <<mode, status, i, machine, VMInitialized, killSem, sems, sessions, NumPagers,
                   job, slots>>

\* fork1 calls p1_fork, which does nothing yet.
ForkPager(p) ==
    /\ i < NumPagers
    /\ ppc[p] = "none"
    /\ Continue("fork", "fork")
    /\ ppc' = [ppc EXCEPT ![p] = "receive"]
    /\ p1_fork(p)
    /\ i' = i + 1
    /\ UNCHANGED <<mode, status, machine, VMInitialized, objects, sessions, NumPagers, job>>

InitVmStatsNoMutex ==               \* mutant: vmStatsMutex is never created
    /\ i = NumPagers
    /\ Continue("fork", "diskSize")
    /\ UNCHANGED <<mode, status, i, machine, VMInitialized, objects, sems, sessions, NumPagers, ppc,
                   job, slots>>

\* initVmStats: the mutex, and the size of the disk, which the driver is asked for.
InitVmStats ==
    /\ i = NumPagers
    /\ Continue("fork", "diskSize")
    /\ MboxCreate("vmStatsMutex")
    /\ UNCHANGED <<mode, status, i, machine, VMInitialized, FaultsMbox, killSem, sems, sessions,
                   NumPagers, ppc, job, slots>>

DiskSize ==
    /\ Running(System) /\ s5 = "diskSize"
    /\ s5' = "stats"
    /\ UNCHANGED <<cur, halted, mode, status, i, machine, VMInitialized, objects, sems, sessions,
                   NumPagers, ppc, job, zapped, upc, answer, slots>>

\* The address of the region is positive: the handler makes it arg1, and arg4 is 0.
VmInitDone ==
    /\ Continue("stats", "program")
    /\ VMInitialized' = TRUE
    /\ status' = 0 /\ Return
    /\ sessions' = sessions + 1
    /\ UNCHANGED <<i, machine, objects, sems, NumPagers, ppc, job, slots>>

-----------------------------------------------------------------------------
(* VmDestroy.                                                                *)

VmDestroy ==
    /\ InProgram
    /\ sessions > 0
    /\ Disciplined => IsUp /\ Live = {}
    /\ IF mode # "user" THEN Halt("mode")
       ELSE /\ Continue("program", "killSem")
            /\ mode' = "kernel" /\ status' = NONE
            /\ mmuOn' = FALSE
            /\ UNCHANGED <<i, tables, VMInitialized, objects, sems, sessions, NumPagers, ppc, job,
                           slots>>

CreateKillSemOne ==                 \* mutant: semcreateReal(1)
    /\ Continue("killSem", "kill")
    /\ Created("PagerKillSem", sems < MAXSEMS)
    /\ sems' = IF sems < MAXSEMS THEN sems + 1 ELSE sems
    /\ killSem' = 1 /\ i' = 0
    /\ UNCHANGED <<mode, status, machine, VMInitialized, FaultsMbox, mboxes, sessions, NumPagers,
                   ppc, job, slots>>
CreateKillSem ==
    /\ Continue("killSem", "kill")
    /\ Created("PagerKillSem", sems < MAXSEMS)
    /\ sems' = IF sems < MAXSEMS THEN sems + 1 ELSE sems
    /\ killSem' = 0 /\ i' = 0
    /\ UNCHANGED <<mode, status, machine, VMInitialized, FaultsMbox, mboxes, sessions, NumPagers,
                   ppc, job, slots>>

\* MboxSend to the pagers; its result is not looked at.
Post(x) == FaultsMbox' = IF handle["FaultsMbox"] = "good" THEN Append(FaultsMbox, x)
                         ELSE FaultsMbox

SendKillNoWait ==                   \* mutant: no sempReal
    /\ i < NumPagers
    /\ Continue("kill", "kill")
    /\ Post(KILL)
    /\ i' = i + 1
    /\ UNCHANGED <<mode, status, machine, VMInitialized, handle, killSem, mboxes, sems, sessions,
                   NumPagers, ppc, job, slots>>
SendKill ==
    /\ i < NumPagers
    /\ Continue("kill", "await")
    /\ Post(KILL)
    /\ UNCHANGED <<mode, status, i, machine, VMInitialized, handle, killSem, mboxes, sems, sessions,
                   NumPagers, ppc, job, slots>>

\* sempReal, which fails at once on an error code.
AwaitPager ==
    /\ Continue("await", "kill")
    /\ killSem' = IF handle["PagerKillSem"] = "good" THEN killSem - 1 ELSE killSem
    /\ i' = i + 1
    /\ UNCHANGED <<mode, status, machine, VMInitialized, handle, FaultsMbox, mboxes, sems, sessions,
                   NumPagers, ppc, job, slots>>

\* PrintStats from vmDestroyReal: in kernel mode.
LastStats ==
    /\ i = NumPagers
    /\ IF LockHalts(mode) THEN Running(Start5) /\ s5 = "kill" /\ Halt("mode")
       ELSE /\ Continue("kill", "free")
            /\ UNCHANGED <<mode, status, i, machine, VMInitialized, objects, sems, sessions,
                           NumPagers, ppc, job, slots>>

FreeTablesStaysActive ==            \* mutant: VMInitialized is not reset
    IF tables = "freed" THEN Running(Start5) /\ s5 = "free" /\ Halt("freed")
    ELSE /\ Continue("free", "program")
         /\ tables' = "freed"
         /\ Return
         /\ UNCHANGED <<status, i, mmuOn, VMInitialized, objects, sems, sessions, NumPagers, ppc,
                        job, slots>>

\* What was freed may not be freed again.
FreeTables ==
    IF tables = "freed" THEN Running(Start5) /\ s5 = "free" /\ Halt("freed")
    ELSE /\ Continue("free", "program")
         /\ VMInitialized' = FALSE
         /\ tables' = "freed"
         /\ Return
         /\ UNCHANGED <<status, i, mmuOn, objects, sems, sessions, NumPagers, ppc, job, slots>>

-----------------------------------------------------------------------------
(* A pager.                                                                  *)

PagerStep(p, from, to, pid) ==
    /\ Running(p) /\ ppc[p] = from
    /\ ppc' = [ppc EXCEPT ![p] = to]
    /\ job' = [job EXCEPT ![p] = pid]
    /\ UNCHANGED <<cur, halted, calls, machine, VMInitialized, handle, mboxes, sessions, NumPagers,
                   upc>>

\* The three ways out of the loop: zapped, no mailbox, the kill message.
GiveUp(p) ==
    /\ \/ p \in zapped /\ PagerStep(p, "old", "leave", System)
       \/ /\ p \in zapped \/ handle["FaultsMbox"] # "good"
          /\ PagerStep(p, "receive", "leave", System)
    /\ UNCHANGED <<FaultsMbox, killSem, sems, zapped, answer, slots>>

Receive(p) ==
    /\ p \notin zapped /\ handle["FaultsMbox"] = "good" /\ FaultsMbox # <<>>
    /\ LET pid == Head(FaultsMbox)
       IN  IF pid = KILL THEN PagerStep(p, "receive", "leave", System)
           ELSE PagerStep(p, "receive", "frame", pid)
    /\ FaultsMbox' = Tail(FaultsMbox)
    /\ UNCHANGED <<killSem, sems, zapped, answer, slots>>

\* The process is woken, through its private semaphore.
Answer(p, from, how) ==
    /\ PagerStep(p, from, "receive", System)
    /\ answer' = [answer EXCEPT ![job[p]] = how]
    /\ sem' = IF job[p] \in privateSem THEN [sem EXCEPT ![job[p]] = @ + 1] ELSE sem
    /\ UNCHANGED <<FaultsMbox, killSem, sems, zapped, entry, privateSem, resident>>

\* No frame is found.
NoFrame(p) == tables = "allocated" /\ Answer(p, "frame", "failed")

\* The tables are updated: another process may lose its last page; the access bits are
\* read.  Then the transfers, or the end of the swap disk.
UpdateTables(p) ==
    /\ Running(p) /\ ppc[p] = "frame"
    /\ IF tables # "allocated" THEN Halt("freed")
       ELSE IF ~mmuOn THEN Halt("mmu")
       ELSE /\ \E to \in {"full", "transfer", "map"} : PagerStep(p, "frame", to, job[p])
            /\ \E lost \in SUBSET resident :
                    /\ Cardinality(lost) <= 1
                    /\ resident' = (resident \ lost) \cup {job[p]}
            /\ UNCHANGED <<FaultsMbox, killSem, sems, zapped, answer, entry, privateSem, sem>>

\* Lines 520-525.
NoBlock(p) == Answer(p, "full", "terminate")

Transferred(p) ==
    /\ Running(System) /\ ppc[p] = "transfer"
    /\ ppc' = [ppc EXCEPT ![p] = "map"]
    /\ UNCHANGED <<cur, halted, calls, machine, VMInitialized, objects, sems, sessions, NumPagers,
                   job, zapped, upc, answer, slots>>

MapAndAnswer(p) ==
    IF ~mmuOn THEN Running(p) /\ ppc[p] = "map" /\ Halt("mmu")
    ELSE Answer(p, "map", answer[job[p]])

\* After the loop; then the pager returns, and quits as a process without an entry.
VKillSemForgets == killSem          \* mutant: no semvReal
VKillSem == IF handle["PagerKillSem"] = "good" THEN killSem + 1 ELSE killSem
LeaveLoop(p) ==
    /\ PagerStep(p, "leave", "gone", System)
    /\ killSem' = VKillSem
    /\ zapped' = zapped \ {p}
    /\ p1_quit(p)
    /\ UNCHANGED <<FaultsMbox, answer>>

\* zap, by a process that is not described.
Zap(p) ==
    /\ Running(System)
    /\ p \in Zappable \ zapped /\ ppc[p] \notin {"none", "gone"}
    /\ zapped' = zapped \cup {p}
    /\ UNCHANGED <<cur, halted, calls, machine, VMInitialized, objects, sems, sessions, NumPagers,
                   ppc, job, upc, answer, slots>>

-----------------------------------------------------------------------------
(* A child of start5.                                                        *)

UserStep(u, from, to) ==
    /\ Running(u) /\ upc[u] = from
    /\ upc' = [upc EXCEPT ![u] = to]
    /\ UNCHANGED <<cur, halted, mode, status, i, machine, VMInitialized, handle, killSem, mboxes,
                   sessions, NumPagers, ppc, job, zapped>>

\* A child that was spawned after VmInit touches a page that is not mapped.
PageFault(u) ==
    /\ u \in entry
    /\ IF ~mmuOn THEN Running(u) /\ upc[u] = "user" /\ Halt("mmu")
       ELSE UserStep(u, "user", "count") /\ UNCHANGED <<s5, FaultsMbox, sems, answer, slots>>

CountFault(u) ==
    /\ UserStep(u, "count", "send")
    /\ UNCHANGED <<s5, FaultsMbox, sems, answer, slots>>

SendFault(u) ==
    /\ UserStep(u, "send", "wait")
    /\ answer' = [answer EXCEPT ![u] = "ok"]
    /\ Post(u)
    /\ UNCHANGED <<s5, sems, slots>>

AfterFault(how) == CASE how = "ok" -> "unlock" [] how = "failed" -> "send" [] OTHER -> "exit"

Resume(u) ==
    /\ UserStep(u, "wait", AfterFault(answer[u]))
    /\ sem' = IF u \in privateSem THEN [sem EXCEPT ![u] = @ - 1] ELSE sem
    /\ UNCHANGED <<s5, FaultsMbox, sems, answer, entry, privateSem, resident>>

UnlockFrame(u) ==
    IF tables # "allocated" THEN Running(u) /\ upc[u] = "unlock" /\ Halt("freed")
    ELSE UserStep(u, "unlock", "user") /\ UNCHANGED <<s5, FaultsMbox, sems, answer, slots>>

\* SemV on the semaphore start5 sleeps on.
WakeStart5(u) ==
    /\ ~Disciplined /\ s5 = "sleep"
    /\ UserStep(u, "user", "user")
    /\ s5' = "program"
    /\ UNCHANGED <<FaultsMbox, sems, answer, slots>>

\* The last child to terminate ends the Wait of start5.
Terminate(u) ==
    /\ Running(u) /\ upc[u] \in {"user", "exit"}
    /\ IF QuitHalts(u) THEN Halt("mmu")
       ELSE /\ upc' = [upc EXCEPT ![u] = "dead"]
            /\ cur' = System
            /\ p1_quit(u)
            /\ s5' = IF s5 = "sleep" /\ Live = {u} THEN "program" ELSE s5
            /\ UNCHANGED <<halted, mode, status, i, machine, VMInitialized, objects, sessions,
                           NumPagers, ppc, job, zapped, answer>>

-----------------------------------------------------------------------------
InCall ==
    \/ CreateFaultsMbox \/ (\E p \in Pagers : ForkPager(p)) \/ InitVmStats \/ VmInitDone
    \/ CreateKillSem \/ SendKill \/ AwaitPager \/ LastStats \/ FreeTables

Pager(p) ==
    \/ GiveUp(p) \/ Receive(p) \/ NoFrame(p) \/ UpdateTables(p) \/ NoBlock(p)
    \/ MapAndAnswer(p) \/ LeaveLoop(p)

Handler(u) == CountFault(u) \/ SendFault(u) \/ Resume(u) \/ UnlockFrame(u)

Next ==
    \/ \E x \in Process : p1_switch(x)
    \/ \E a \in InitArgs : VmInit(a)
    \/ VmDestroy \/ PrintStats \/ Sleep \/ InCall \/ DiskSize
    \/ \E p \in Pagers : Pager(p) \/ Transferred(p) \/ Zap(p)
    \/ \E u \in Users : \/ Spawn(u) \/ PageFault(u) \/ Handler(u)
                        \/ WakeStart5(u) \/ Terminate(u)

Spec == Init /\ [][Next]_vars

\* As in VirtualMemory: round robin, a system call or a pager in progress goes on, the
\* driver answers.  Nothing is assumed of the programs.
Fairness ==
    /\ \A x \in Process \ Users : SF_vars(p1_switch(x))
    /\ SF_vars(InCall) /\ SF_vars(DiskSize)
    /\ \A p \in Pagers : SF_vars(Pager(p))

FairSpec == Spec /\ Fairness
=============================================================================
