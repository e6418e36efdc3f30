--------------------------- MODULE LifecycleProofs ---------------------------
(***************************************************************************)
(* Types, no pager outlives the tables, and what can halt the machine, for *)
(* any program: any number of children, pagers, mailboxes, semaphores and  *)
(* calls of VmInit and VmDestroy, in any order, pagers zapped or not; then *)
(* what holds of programs that keep the order of the calls.                *)
(***************************************************************************)
EXTENDS LifecycleProperties, FiniteSetTheorems, TLAPS

\* A pager that serves a fault knows whose.
Serving == \A p \in Pagers : ppc[p] \in {"frame", "full", "transfer", "map"} => job[p] \in Users
TypeInv == LifecycleTypeOK /\ Serving

Forked == {p \in Pagers : ppc[p] # "none"}
Gone   == {p \in Pagers : ppc[p] = "gone"}

InInit    == s5 \in {"mailbox", "fork", "diskSize", "stats"}
InDestroy == s5 \in {"killSem", "kill", "await", "free"}

\* Where start5 is, and what it has set and made by then.
PhaseInv ==
    /\ InInit => mmuOn /\ tables = "allocated" /\ ~VMInitialized /\ entry = {}
    /\ InDestroy => ~mmuOn
    /\ ~InInit /\ ~InDestroy => (tables = "allocated" <=> mmuOn) /\ (VMInitialized => mmuOn)
    /\ tables = "none" => Forked = {}
    /\ entry \cap Pagers = {}

\* Without a semaphore for the kills once, there is none for ever after.
ExhaustedInv ==
    /\ sems <= MAXSEMS
    /\ handle["PagerKillSem"] = "error" =>
            /\ sems = MAXSEMS
            /\ entry = {} \/ ~VMInitialized \/ s5 \in {"kill", "await", "free"}

\* Otherwise every kill that start5 has waited for, or that is waiting for it, is the last
\* step of another pager.
CountInv ==
    handle["PagerKillSem"] # "error" =>
        /\ Cardinality(Forked) = IF s5 \in {"mailbox", "fork"} THEN i ELSE NumPagers
        /\ s5 = "mailbox" => i = 0
        /\ InDestroy /\ s5 # "killSem" => handle["PagerKillSem"] = "good"
        /\ s5 \in {"kill", "await"} => killSem >= 0 /\ i + killSem <= Cardinality(Gone)
        /\ s5 = "free" \/ tables = "freed" => Forked = Gone

KillInv == TypeInv /\ PhaseInv /\ ExhaustedInv /\ CountInv

-----------------------------------------------------------------------------
(* Types.                                                                    *)

LEMMA InitTypes == Init => TypeInv
<1> SUFFICES ASSUME Init PROVE TypeInv
  OBVIOUS
<1>1. /\ cur \in Process /\ FaultsMbox \in Seq(Users \cup {KILL})
      /\ NumPagers \in 0 .. MAXPAGERS
  BY LifecycleAssumption DEF Init, Process
<1>2. /\ ppc \in [Pagers -> PagerPc] /\ job \in [Pagers -> Users \cup {System}] /\ Serving
      /\ upc \in [Users -> UserPc] /\ answer \in [Users -> {"ok", "failed", "terminate"}]
      /\ sem \in [Users -> Int] /\ handle \in [Objects -> {"unset", "good", "error"}]
  BY DEF Init, PagerPc, UserPc, Serving
<1>3. /\ halted = "no" /\ s5 \in S5Pc /\ mode = "user" /\ status = NONE /\ i \in Nat
      /\ tables = "none" /\ killSem \in Int /\ mboxes \in Nat /\ sems \in Int /\ sessions \in Nat
      /\ zapped = {} /\ entry = {} /\ privateSem = {} /\ resident = {}
  BY DEF Init, S5Pc
<1>4. mmuOn \in BOOLEAN /\ VMInitialized \in BOOLEAN
  BY Zenon DEF Init
<1> QED BY <1>1, <1>2, <1>3, <1>4 DEF TypeInv, LifecycleTypeOK

LEMMA HaltTypes ==
    ASSUME TypeInv, NEW why \in {"mode", "mmu", "freed", "semaphore"}, Halt(why)
    PROVE  TypeInv'
BY DEF Halt, calls, machine, objects, slots, TypeInv, LifecycleTypeOK, Serving

LEMMA SwitchTypes ==
    ASSUME TypeInv, NEW x \in Process, p1_switch(x)
    PROVE  TypeInv'
<1>1. CASE VMInitialized /\ {cur, x} \cap resident # {} /\ ~mmuOn
  BY <1>1, HaltTypes DEF p1_switch
<1>2. CASE ~(VMInitialized /\ {cur, x} \cap resident # {} /\ ~mmuOn)
  BY <1>2 DEF p1_switch, calls, machine, objects, slots, TypeInv, LifecycleTypeOK, Serving
<1> QED BY <1>1, <1>2

\* The id or the error code of a new object.
LEMMA CreatedTypes ==
    ASSUME handle \in [Objects -> {"unset", "good", "error"}], NEW o \in Objects,
           NEW ok \in BOOLEAN, Created(o, ok)
    PROVE  /\ handle' \in [Objects -> {"unset", "good", "error"}]
           /\ handle'[o] = IF ok THEN "good" ELSE "error"
           /\ \A x \in Objects \ {o} : handle'[x] = handle[x]
<1>1. CASE ok
  BY <1>1 DEF Created
<1>2. CASE ~ok
  BY <1>2 DEF Created
<1> QED BY <1>1, <1>2

LEMMA MboxCreateTypes ==
    ASSUME TypeInv, NEW o \in MutexesAndMailbox, MboxCreate(o)
    PROVE  /\ handle' \in [Objects -> {"unset", "good", "error"}] /\ mboxes' \in Nat
           /\ handle'["PagerKillSem"] = handle["PagerKillSem"]
<1>1. /\ o \in Objects /\ "PagerKillSem" \in Objects \ {o} /\ (mboxes < MAXMBOX) \in BOOLEAN
      /\ handle \in [Objects -> {"unset", "good", "error"}]
  BY DEF Objects, MutexesAndMailbox, TypeInv, LifecycleTypeOK
<1>2. /\ handle' \in [Objects -> {"unset", "good", "error"}]
      /\ \A x \in Objects \ {o} : handle'[x] = handle[x]
  BY <1>1, CreatedTypes DEF MboxCreate
<1> QED BY <1>1, <1>2 DEF MboxCreate, TypeInv, LifecycleTypeOK

LEMMA VmInitTypes ==
    ASSUME TypeInv, NEW a \in InitArgs, VmInit(a)
    PROVE  TypeInv'
<1> USE DEF TypeInv, LifecycleTypeOK, Serving
<1>1. CASE mode # "user"
  BY <1>1, HaltTypes DEF VmInit
<1>2. CASE mode = "user" /\ BadArgs(a)
  BY <1>2 DEF VmInit, Continue, Return, machine, objects, slots, S5Pc
<1>3. CASE mode = "user" /\ ~BadArgs(a) /\ mmuOn
  BY <1>3, HaltTypes DEF VmInit
<1>4. CASE mode = "user" /\ ~BadArgs(a) /\ ~mmuOn
  <2>1. a \in Int \X Int \X Int \X Int
    BY LifecycleAssumption
  <2>2. NumPagers' \in 0 .. MAXPAGERS
    <3>1. a[4] \in Int /\ ~(a[4] < 0) /\ ~(a[4] > MAXPAGERS)
      BY <1>4, <2>1 DEF BadArgs
    <3>2. MAXPAGERS \in Nat
      BY LifecycleAssumption
    <3> QED BY <1>4, <3>1, <3>2 DEF VmInit
  <2>3. ppc' \in [Pagers -> PagerPc] /\ Serving'
    BY <1>4 DEF VmInit, PagerPc
  <2>4. handle' \in [Objects -> {"unset", "good", "error"}] /\ mboxes' \in Nat
    BY <1>4, MboxCreateTypes DEF VmInit, MutexesAndMailbox
  <2> QED BY <1>4, <2>2, <2>3, <2>4 DEF VmInit, Continue, S5Pc
<1> QED BY <1>1, <1>2, <1>3, <1>4

\* The pagers of an earlier mailbox.
LEMMA LeftBehind ==
    ASSUME TypeInv, CreateFaultsMbox
    PROVE  /\ ppc' \in [Pagers -> PagerPc] /\ Forked' = Forked /\ Gone' = Gone
           /\ \A p \in Pagers : ppc'[p] = ppc[p] \/ (ppc[p] = "receive" /\ ppc'[p] = "old")
<1>1. ppc \in [Pagers -> PagerPc]
  BY DEF TypeInv, LifecycleTypeOK
<1>2. PICK behind \in SUBSET {p \in Pagers : ppc[p] = "receive"} :
            ppc' = [p \in Pagers |-> IF p \in behind THEN "old" ELSE ppc[p]]
  BY DEF CreateFaultsMbox
<1>3. ppc' \in [Pagers -> PagerPc]
  BY <1>1, <1>2 DEF PagerPc
<1>4. \A p \in Pagers : ppc'[p] = ppc[p] \/ (ppc[p] = "receive" /\ ppc'[p] = "old")
  BY <1>2
<1>5. Forked' = Forked /\ Gone' = Gone
  BY <1>4 DEF Forked, Gone
<1> QED BY <1>3, <1>4, <1>5

\* lockMutex makes the call of its mode, so that printing the statistics changes nothing.
LEMMA LockIsRight == ASSUME TypeInv PROVE ~LockHalts(mode)
<1>1. mode \in {"user", "kernel"}
  BY DEF TypeInv, LifecycleTypeOK
<1> QED BY <1>1 DEF LockHalts, ModeOf, LockCall

LEMMA PrintChangesNothing == ASSUME TypeInv, PrintStats PROVE UNCHANGED vars
BY LockIsRight DEF PrintStats

LEMMA InCallTypes ==
    ASSUME TypeInv, InCall
    PROVE  TypeInv'
<1> USE DEF TypeInv, LifecycleTypeOK, Serving, Continue, S5Pc, machine, objects, slots
<1>1. CASE CreateFaultsMbox
  <2>1. handle' \in [Objects -> {"unset", "good", "error"}] /\ mboxes' \in Nat
    BY <1>1, MboxCreateTypes DEF CreateFaultsMbox, MutexesAndMailbox
  <2>2. ppc' \in [Pagers -> PagerPc]
    BY <1>1, LeftBehind
  <2>3. Serving'
    BY <1>1, LeftBehind DEF CreateFaultsMbox
  <2> QED BY <1>1, <2>1, <2>2, <2>3 DEF CreateFaultsMbox
<1>2. ASSUME NEW p \in Pagers, ForkPager(p) PROVE TypeInv'
  <2>1. /\ entry' \subseteq Process /\ privateSem' \subseteq Process
        /\ sem' \in [Users -> Int] /\ resident' \subseteq Users /\ sems' \in Int
    BY <1>2 DEF ForkPager, p1_fork, Process
  <2> QED BY <1>2, <2>1 DEF ForkPager, PagerPc
<1>3. CASE InitVmStats
  <2>1. handle' \in [Objects -> {"unset", "good", "error"}] /\ mboxes' \in Nat
    BY <1>3, MboxCreateTypes DEF InitVmStats, MutexesAndMailbox
  <2> QED BY <1>3, <2>1 DEF InitVmStats
<1>4. CASE VmInitDone
  BY <1>4 DEF VmInitDone, Return
<1>5. CASE CreateKillSem
  <2>1. handle' \in [Objects -> {"unset", "good", "error"}]
    <3>1. "PagerKillSem" \in Objects /\ (sems < MAXSEMS) \in BOOLEAN
      BY DEF Objects
    <3> QED BY <1>5, <3>1, CreatedTypes DEF CreateKillSem
  <2> QED BY <1>5, <2>1 DEF CreateKillSem
<1>6. CASE SendKill
  BY <1>6 DEF SendKill, Post
<1>7. CASE AwaitPager
  BY <1>7 DEF AwaitPager
<1>8. CASE LastStats
  <2>1. CASE LockHalts(mode)
    BY <1>8, <2>1, HaltTypes DEF LastStats
  <2>2. CASE ~LockHalts(mode)
    BY <1>8, <2>2 DEF LastStats
  <2> QED BY <2>1, <2>2
<1>9. CASE FreeTables
  <2>1. CASE tables = "freed"
    BY <1>9, <2>1, HaltTypes DEF FreeTables
  <2>2. CASE tables # "freed"
    BY <1>9, <2>2 DEF FreeTables, Return
  <2> QED BY <2>1, <2>2
<1> QED BY <1>1, <1>2, <1>3, <1>4, <1>5, <1>6, <1>7, <1>8, <1>9 DEF InCall

LEMMA ProgramTypes ==
    ASSUME TypeInv, VmDestroy \/ Sleep \/ DiskSize \/ (\E u \in Users : Spawn(u))
    PROVE  TypeInv'
<1> USE DEF TypeInv, LifecycleTypeOK, Serving, S5Pc, calls, machine, objects, slots
<1>1. CASE VmDestroy
  <2>1. CASE mode # "user"
    BY <1>1, <2>1, HaltTypes DEF VmDestroy
  <2>2. CASE mode = "user"
    BY <1>1, <2>2 DEF VmDestroy, Continue
  <2> QED BY <2>1, <2>2
<1>2. CASE Sleep
  BY <1>2 DEF Sleep
<1>3. CASE DiskSize
  BY <1>3 DEF DiskSize
<1>4. ASSUME NEW u \in Users, Spawn(u) PROVE TypeInv'
  <2>1. CASE VMInitialized /\ sems = MAXSEMS
    BY <1>4, <2>1, HaltTypes DEF Spawn
  <2>2. CASE ~(VMInitialized /\ sems = MAXSEMS)
    <3>1. /\ entry' \subseteq Process /\ privateSem' \subseteq Process
          /\ sem' \in [Users -> Int] /\ resident' \subseteq Users /\ sems' \in Int
      BY <1>4, <2>2 DEF Spawn, p1_fork, Process
    <3>2. upc' \in [Users -> UserPc]
      BY <1>4, <2>2 DEF Spawn, UserPc
    <3> QED BY <1>4, <2>2, <3>1, <3>2 DEF Spawn
  <2> QED BY <2>1, <2>2
<1> QED BY <1>1, <1>2, <1>3, <1>4

LEMMA PagerTypes ==
    ASSUME TypeInv, NEW p \in Pagers, Pager(p) \/ Transferred(p) \/ Zap(p)
    PROVE  TypeInv'
<1> USE DEF TypeInv, LifecycleTypeOK, Serving, PagerPc, calls, machine, objects, slots, PagerStep
<1>1. CASE GiveUp(p)
  BY <1>1 DEF GiveUp
<1>2. CASE Receive(p)
  <2>1. Head(FaultsMbox) \in Users \cup {KILL} /\ FaultsMbox' \in Seq(Users \cup {KILL})
    BY <1>2 DEF Receive
  <2>2. ASSUME NEW to \in {"leave", "frame"}, NEW pid \in Users \cup {System},
               PagerStep(p, "receive", to, pid), to = "frame" => pid \in Users
        PROVE  /\ ppc' \in [Pagers -> PagerPc] /\ job' \in [Pagers -> Users \cup {System}]
               /\ Serving'
    BY <2>2
  <2>3. CASE Head(FaultsMbox) = KILL
    <3>1. /\ ppc' \in [Pagers -> PagerPc] /\ job' \in [Pagers -> Users \cup {System}]
          /\ Serving'
      BY <1>2, <2>2, <2>3 DEF Receive
    <3> QED BY <1>2, <2>1, <2>3, <3>1 DEF Receive
  <2>4. CASE Head(FaultsMbox) # KILL
    <3>1. /\ ppc' \in [Pagers -> PagerPc] /\ job' \in [Pagers -> Users \cup {System}]
          /\ Serving'
      BY <1>2, <2>1, <2>2, <2>4 DEF Receive
    <3> QED BY <1>2, <2>1, <2>4, <3>1 DEF Receive
  <2> QED BY <2>3, <2>4
<1>3. ASSUME NEW from \in {"frame", "full", "map"}, NEW how \in {"ok", "failed", "terminate"},
             Answer(p, from, how)
      PROVE  TypeInv'
  BY <1>3 DEF Answer
<1>4. CASE NoFrame(p)
  BY <1>3, <1>4 DEF NoFrame
<1>5. CASE UpdateTables(p)
  <2>1. CASE tables # "allocated" \/ ~mmuOn
    BY <1>5, <2>1, HaltTypes DEF UpdateTables
  <2>2. CASE tables = "allocated" /\ mmuOn
    <3>1. PICK to \in {"full", "transfer", "map"} : PagerStep(p, "frame", to, job[p])
      BY <1>5, <2>2 DEF UpdateTables
    <3>2. job[p] \in Users
      BY <3>1
    <3>3. resident' \subseteq Users
      BY <1>5, <2>2, <3>2 DEF UpdateTables
    <3> QED BY <1>5, <2>2, <3>1, <3>2, <3>3 DEF UpdateTables
  <2> QED BY <2>1, <2>2
<1>6. CASE NoBlock(p)
  BY <1>3, <1>6 DEF NoBlock
<1>7. CASE MapAndAnswer(p)
  <2>1. CASE ~mmuOn
    BY <1>7, <2>1, HaltTypes DEF MapAndAnswer
  <2>2. CASE mmuOn
    <3>1. ppc[p] = "map"
      BY <1>7, <2>2 DEF MapAndAnswer, Answer
    <3>2. answer[job[p]] \in {"ok", "failed", "terminate"}
      BY <3>1
    <3> QED BY <1>3, <1>7, <2>2, <3>2 DEF MapAndAnswer
  <2> QED BY <2>1, <2>2
<1>8. CASE LeaveLoop(p)
  <2>1. /\ entry' \subseteq Process /\ privateSem' \subseteq Process
        /\ sem' \in [Users -> Int] /\ resident' \subseteq Users /\ sems' \in Int
    BY <1>8 DEF LeaveLoop, p1_quit
  <2> QED BY <1>8, <2>1 DEF LeaveLoop, VKillSem
<1>9. CASE Transferred(p)
  BY <1>9 DEF Transferred
<1>10. CASE Zap(p)
  BY <1>10 DEF Zap
<1> QED BY <1>1, <1>2, <1>4, <1>5, <1>6, <1>7, <1>8, <1>9, <1>10 DEF Pager

LEMMA UserTypes ==
    ASSUME TypeInv, NEW u \in Users, PageFault(u) \/ Handler(u) \/ WakeStart5(u) \/ Terminate(u)
    PROVE  TypeInv'
<1> USE DEF TypeInv, LifecycleTypeOK, Serving, UserPc, calls, machine, objects, slots, UserStep
<1>1. CASE PageFault(u)
  <2>1. CASE ~mmuOn
    BY <1>1, <2>1, HaltTypes DEF PageFault
  <2>2. CASE mmuOn
    BY <1>1, <2>2 DEF PageFault
  <2> QED BY <2>1, <2>2
<1>2. CASE CountFault(u)
  BY <1>2 DEF CountFault
<1>3. CASE SendFault(u)
  BY <1>3 DEF SendFault, Post
<1>4. CASE Resume(u)
  <2>1. AfterFault(answer[u]) \in UserPc
    BY DEF AfterFault
  <2> QED BY <1>4, <2>1 DEF Resume
<1>5. CASE UnlockFrame(u)
  <2>1. CASE tables # "allocated"
    BY <1>5, <2>1, HaltTypes DEF UnlockFrame
  <2>2. CASE tables = "allocated"
    BY <1>5, <2>2 DEF UnlockFrame
  <2> QED BY <2>1, <2>2
<1>6. CASE WakeStart5(u)
  BY <1>6 DEF WakeStart5, S5Pc
<1>7. CASE Terminate(u)
  <2>1. CASE QuitHalts(u)
    BY <1>7, <2>1, HaltTypes DEF Terminate
  <2>2. CASE ~QuitHalts(u)
    <3>1. /\ entry' \subseteq Process /\ privateSem' \subseteq Process
          /\ sem' \in [Users -> Int] /\ resident' \subseteq Users /\ sems' \in Int
      BY <1>7, <2>2 DEF Terminate, p1_quit
    <3>2. s5' \in S5Pc /\ cur' \in Process
      BY <1>7, <2>2 DEF Terminate, S5Pc, Process
    <3> QED BY <1>7, <2>2, <3>1, <3>2 DEF Terminate
  <2> QED BY <2>1, <2>2
<1> QED BY <1>1, <1>2, <1>3, <1>4, <1>5, <1>6, <1>7 DEF Handler

LEMMA NextTypes == TypeInv /\ [Next]_vars => TypeInv'
<1> SUFFICES ASSUME TypeInv, [Next]_vars PROVE TypeInv'
  OBVIOUS
<1>1. CASE UNCHANGED vars
  BY <1>1 DEF vars, calls, machine, objects, slots, TypeInv, LifecycleTypeOK, Serving
<1>2. CASE Next /\ ~PrintStats
  BY <1>2, SwitchTypes, VmInitTypes, InCallTypes, ProgramTypes, PagerTypes, UserTypes DEF Next
<1> QED BY <1>1, <1>2, PrintChangesNothing

\* In every state of every behaviour the variables have their types, and a pager that
\* serves a fault serves that of a child: the messages in the mailbox are pids and kills.
THEOREM LifecycleTypes == Spec => []LifecycleTypeOK
<1>1. TypeInv => LifecycleTypeOK
  BY DEF TypeInv
<1> QED BY <1>1, InitTypes, NextTypes, PTL DEF Spec


-----------------------------------------------------------------------------
(* No pager outlives the tables.                                             *)

\* Steps that change nothing the invariant speaks of.
LEMMA Elsewhere ==
    ASSUME KillInv,
           UNCHANGED <<s5, i, mmuOn, tables, VMInitialized, handle, killSem, sems, NumPagers,
                       entry>>,
           Forked' = Forked, Gone' = Gone
    PROVE  PhaseInv' /\ ExhaustedInv' /\ CountInv'
BY DEF KillInv, PhaseInv, ExhaustedInv, CountInv, InInit, InDestroy

LEMMA HaltKeeps ==
    ASSUME KillInv, NEW why, Halt(why)
    PROVE  PhaseInv' /\ ExhaustedInv' /\ CountInv'
<1>1. Forked' = Forked /\ Gone' = Gone
  BY DEF Halt, Forked, Gone
<1> QED BY <1>1, Elsewhere DEF Halt, calls, machine, objects, slots

LEMMA PagersCounted ==
    ASSUME TypeInv
    PROVE  /\ IsFiniteSet(Forked) /\ IsFiniteSet(Gone) /\ Gone \subseteq Forked
           /\ Cardinality(Forked) \in Nat /\ Cardinality(Gone) \in Nat
<1>1. Forked \subseteq Pagers /\ Gone \subseteq Forked
  BY DEF Forked, Gone
<1>2. IsFiniteSet(Pagers)
  BY LifecycleAssumption
<1> QED BY <1>1, <1>2, FS_Subset, FS_CardinalityType

LEMMA SwitchKeeps ==
    ASSUME KillInv, NEW x \in Process, p1_switch(x)
    PROVE  PhaseInv' /\ ExhaustedInv' /\ CountInv'
<1>1. CASE VMInitialized /\ {cur, x} \cap resident # {} /\ ~mmuOn
  BY <1>1, HaltKeeps DEF p1_switch
<1>2. CASE ~(VMInitialized /\ {cur, x} \cap resident # {} /\ ~mmuOn)
  <2>1. Forked' = Forked /\ Gone' = Gone
    BY <1>2 DEF p1_switch, Forked, Gone
  <2> QED BY <1>2, <2>1, Elsewhere DEF p1_switch, calls, machine, objects, slots
<1> QED BY <1>1, <1>2

\* The MMU is off, so the tables were freed or never made: the pagers there were are gone.
LEMMA VmInitKeeps ==
    ASSUME KillInv, NEW a \in InitArgs, VmInit(a)
    PROVE  PhaseInv' /\ ExhaustedInv' /\ CountInv'
<1>1. CASE mode # "user"
  BY <1>1, HaltKeeps DEF VmInit
<1>2. CASE mode = "user" /\ BadArgs(a)
  <2>1. Forked' = Forked /\ Gone' = Gone
    BY <1>2 DEF VmInit, Continue, Forked, Gone
  <2> QED BY <1>2, <2>1, Elsewhere DEF VmInit, Continue, InProgram, machine, objects, slots
<1>3. CASE mode = "user" /\ ~BadArgs(a) /\ mmuOn
  BY <1>3, HaltKeeps DEF VmInit
<1>4. CASE mode = "user" /\ ~BadArgs(a) /\ ~mmuOn
  <2>1. /\ s5 = "program" /\ s5' = "mailbox" /\ i' = 0 /\ mmuOn' /\ tables' = "allocated"
        /\ entry' = {} /\ UNCHANGED <<VMInitialized, sems>>
    BY <1>4 DEF VmInit, Continue, InProgram
  <2>2. handle'["PagerKillSem"] = handle["PagerKillSem"]
    BY <1>4, MboxCreateTypes DEF VmInit, MutexesAndMailbox, KillInv
  <2>3. tables # "allocated" /\ ~VMInitialized
    BY <1>4, <2>1 DEF KillInv, PhaseInv, InInit, InDestroy
  <2>4. handle["PagerKillSem"] # "error" => Cardinality(Forked') = 0
    <3>1. SUFFICES ASSUME handle["PagerKillSem"] # "error" PROVE Forked' = {}
      BY FS_EmptySet
    <3>2. Forked = {} \/ Forked = Gone
      BY <2>3, <3>1 DEF KillInv, TypeInv, LifecycleTypeOK, PhaseInv, CountInv
    <3> QED BY <1>4, <3>2 DEF VmInit, Forked, Gone
  <2> QED BY <2>1, <2>2, <2>3, <2>4 DEF KillInv, PhaseInv, ExhaustedInv, CountInv, InInit, InDestroy
<1> QED BY <1>1, <1>2, <1>3, <1>4

LEMMA ForkPagerKeeps ==
    ASSUME KillInv, NEW p \in Pagers, ForkPager(p)
    PROVE  PhaseInv' /\ ExhaustedInv' /\ CountInv'
<1>1. /\ s5 = "fork" /\ s5' = "fork" /\ i' = i + 1 /\ ~VMInitialized
      /\ UNCHANGED <<mmuOn, tables, VMInitialized, handle, entry, sems, killSem, NumPagers>>
  BY DEF ForkPager, Continue, p1_fork, machine, objects, slots, KillInv, PhaseInv, InInit
<1>2. p \notin Forked /\ Forked' = Forked \cup {p}
  BY DEF ForkPager, Forked, KillInv, TypeInv, LifecycleTypeOK
<1>3. Cardinality(Forked') = Cardinality(Forked) + 1
  BY <1>2, PagersCounted, FS_AddElement DEF KillInv
<1> QED BY <1>1, <1>3 DEF KillInv, PhaseInv, ExhaustedInv, CountInv, InInit, InDestroy

\* The steps of a system call that leave the pagers alone.
LEMMA CallKeeps ==
    ASSUME KillInv, CreateFaultsMbox \/ InitVmStats \/ VmInitDone \/ DiskSize
    PROVE  PhaseInv' /\ ExhaustedInv' /\ CountInv'
<1>1. Forked' = Forked /\ Gone' = Gone
  BY LeftBehind DEF InitVmStats, VmInitDone, DiskSize, Forked, Gone, KillInv
<1>2. handle'["PagerKillSem"] = handle["PagerKillSem"]
  BY MboxCreateTypes DEF CreateFaultsMbox, InitVmStats, VmInitDone, DiskSize, objects,
     MutexesAndMailbox, KillInv
<1>3. UNCHANGED <<i, mmuOn, tables, entry, sems, killSem, NumPagers>>
  BY DEF CreateFaultsMbox, InitVmStats, VmInitDone, DiskSize, machine, slots, objects
<1> USE <1>1, <1>2, <1>3 DEF KillInv, PhaseInv, ExhaustedInv, CountInv, InInit, InDestroy
<1>4. CASE CreateFaultsMbox
  BY <1>4 DEF CreateFaultsMbox, Continue
<1>5. CASE InitVmStats
  BY <1>5 DEF InitVmStats, Continue
<1>6. CASE VmInitDone
  BY <1>6 DEF VmInitDone, Continue
<1>7. CASE DiskSize
  BY <1>7 DEF DiskSize
<1> QED BY <1>4, <1>5, <1>6, <1>7

LEMMA VmDestroyKeeps ==
    ASSUME KillInv, VmDestroy
    PROVE  PhaseInv' /\ ExhaustedInv' /\ CountInv'
<1>1. CASE mode # "user"
  BY <1>1, HaltKeeps DEF VmDestroy
<1>2. CASE mode = "user"
  <2>1. Forked' = Forked /\ Gone' = Gone
    BY <1>2 DEF VmDestroy, Forked, Gone
  <2> QED BY <1>2, <2>1 DEF VmDestroy, Continue, InProgram, objects, slots, KillInv, PhaseInv,
             ExhaustedInv, CountInv, InInit, InDestroy
<1> QED BY <1>1, <1>2

LEMMA CreateKillSemKeeps ==
    ASSUME KillInv, CreateKillSem
    PROVE  PhaseInv' /\ ExhaustedInv' /\ CountInv'
<1>1. Forked' = Forked /\ Gone' = Gone
  BY DEF CreateKillSem, Forked, Gone
<1>2. /\ s5 = "killSem" /\ s5' = "kill" /\ killSem' = 0 /\ i' = 0
      /\ UNCHANGED <<mmuOn, tables, VMInitialized, NumPagers, entry>>
      /\ sems' = IF sems < MAXSEMS THEN sems + 1 ELSE sems
  BY DEF CreateKillSem, Continue, machine, slots
<1>3. handle'["PagerKillSem"] = IF sems < MAXSEMS THEN "good" ELSE "error"
  <2>1. "PagerKillSem" \in Objects /\ (sems < MAXSEMS) \in BOOLEAN
    BY DEF Objects
  <2> QED BY <2>1, CreatedTypes DEF CreateKillSem, KillInv, TypeInv, LifecycleTypeOK
<1>4. sems \in Int /\ MAXSEMS \in Nat /\ Cardinality(Gone) \in Nat
  BY LifecycleAssumption, PagersCounted DEF KillInv, TypeInv, LifecycleTypeOK
<1> QED BY <1>1, <1>2, <1>3, <1>4 DEF KillInv, PhaseInv, ExhaustedInv, CountInv, InInit, InDestroy

LEMMA SendKillKeeps ==
    ASSUME KillInv, SendKill
    PROVE  PhaseInv' /\ ExhaustedInv' /\ CountInv'
<1>1. Forked' = Forked /\ Gone' = Gone
  BY DEF SendKill, Forked, Gone
<1> QED BY <1>1 DEF SendKill, Continue, machine, slots, KillInv, PhaseInv, ExhaustedInv, CountInv,
           InInit, InDestroy

\* start5 runs because the semaphore has been signalled, or cannot be.
LEMMA AwaitPagerKeeps ==
    ASSUME KillInv, AwaitPager
    PROVE  PhaseInv' /\ ExhaustedInv' /\ CountInv'
<1>1. Forked' = Forked /\ Gone' = Gone
  BY DEF AwaitPager, Forked, Gone
<1>2. /\ s5 = "await" /\ s5' = "kill" /\ i' = i + 1
      /\ UNCHANGED <<mmuOn, tables, VMInitialized, handle, sems, NumPagers, entry>>
      /\ killSem' = IF handle["PagerKillSem"] = "good" THEN killSem - 1 ELSE killSem
  BY DEF AwaitPager, Continue, machine, slots
<1>3. handle["PagerKillSem"] = "good" => killSem > 0
  <2>1. Runnable(Start5)
    BY DEF AwaitPager, Continue, Running, Schedulable
  <2> QED BY <1>2, <2>1, LifecycleAssumption DEF Runnable, Live
<1>4. killSem \in Int /\ i \in Nat /\ Cardinality(Gone) \in Nat
  BY PagersCounted DEF KillInv, TypeInv, LifecycleTypeOK
<1> QED BY <1>1, <1>2, <1>3, <1>4 DEF KillInv, PhaseInv, ExhaustedInv, CountInv, InInit, InDestroy

\* As many pagers are gone as were forked: all of them.
LEMMA LastStatsKeeps ==
    ASSUME KillInv, LastStats
    PROVE  PhaseInv' /\ ExhaustedInv' /\ CountInv'
<1>1. CASE LockHalts(mode)
  BY <1>1, HaltKeeps DEF LastStats
<1>2. CASE ~LockHalts(mode)
  <2>1. Forked' = Forked /\ Gone' = Gone
    BY <1>2 DEF LastStats, Forked, Gone
  <2>2. /\ i = NumPagers /\ s5 = "kill" /\ s5' = "free"
        /\ UNCHANGED <<i, mmuOn, tables, VMInitialized, handle, killSem, sems, NumPagers, entry>>
    BY <1>2 DEF LastStats, Continue, machine, objects, slots
  <2>3. handle["PagerKillSem"] # "error" => Forked = Gone
    <3>1. SUFFICES ASSUME handle["PagerKillSem"] # "error" PROVE Forked = Gone
      OBVIOUS
    <3>2. Cardinality(Forked) = NumPagers /\ killSem >= 0 /\ i + killSem <= Cardinality(Gone)
      BY <2>2, <3>1 DEF KillInv, CountInv
    <3>3. killSem \in Int /\ i \in Nat /\ NumPagers \in Nat
      BY <2>2 DEF KillInv, TypeInv, LifecycleTypeOK
    <3>4. Cardinality(Forked) <= Cardinality(Gone)
      BY <2>2, <3>2, <3>3, PagersCounted DEF KillInv
    <3>5. Cardinality(Gone) = Cardinality(Forked) => Gone = Forked
      BY PagersCounted, FS_Subset DEF KillInv
    <3>6. Cardinality(Gone) <= Cardinality(Forked)
      BY PagersCounted, FS_Subset DEF KillInv
    <3> QED BY <3>4, <3>5, <3>6, PagersCounted DEF KillInv
  <2> QED BY <2>1, <2>2, <2>3 DEF KillInv, PhaseInv, ExhaustedInv, CountInv, InInit, InDestroy
<1> QED BY <1>1, <1>2

LEMMA FreeTablesKeeps ==
    ASSUME KillInv, FreeTables
    PROVE  PhaseInv' /\ ExhaustedInv' /\ CountInv'
<1>1. CASE tables = "freed"
  BY <1>1, HaltKeeps DEF FreeTables
<1>2. CASE tables # "freed"
  <2>1. Forked' = Forked /\ Gone' = Gone
    BY <1>2 DEF FreeTables, Forked, Gone
  <2>2. /\ s5 = "free" /\ s5' = "program" /\ ~VMInitialized' /\ tables' = "freed"
        /\ UNCHANGED <<i, mmuOn, handle, killSem, sems, NumPagers, entry>>
    BY <1>2 DEF FreeTables, Continue, objects, slots
  <2> QED BY <2>1, <2>2 DEF KillInv, PhaseInv, ExhaustedInv, CountInv, InInit, InDestroy
<1> QED BY <1>1, <1>2

-----------------------------------------------------------------------------

LEMMA SleepKeeps ==
    ASSUME KillInv, Sleep \/ (\E u \in Users : WakeStart5(u))
    PROVE  PhaseInv' /\ ExhaustedInv' /\ CountInv'
<1>1. Forked' = Forked /\ Gone' = Gone
  BY DEF Sleep, WakeStart5, UserStep, Forked, Gone
<1>2. /\ s5 \in {"program", "sleep"} /\ s5' \in {"program", "sleep"}
      /\ UNCHANGED <<i, mmuOn, tables, VMInitialized, handle, killSem, sems, NumPagers, entry>>
  BY DEF Sleep, WakeStart5, UserStep, InProgram, machine, objects, slots
<1> QED BY <1>1, <1>2 DEF KillInv, PhaseInv, ExhaustedInv, CountInv, InInit, InDestroy

\* No child is forked with a semaphore when there is none left.
LEMMA SpawnKeeps ==
    ASSUME KillInv, NEW u \in Users, Spawn(u)
    PROVE  PhaseInv' /\ ExhaustedInv' /\ CountInv'
<1>1. CASE VMInitialized /\ sems = MAXSEMS
  BY <1>1, HaltKeeps DEF Spawn
<1>2. CASE VMInitialized /\ sems # MAXSEMS
  <2>1. Forked' = Forked /\ Gone' = Gone
    BY <1>2 DEF Spawn, Forked, Gone
  <2>2. /\ s5 = "program" /\ sems' = sems + 1 /\ entry' = entry \cup {u}
        /\ UNCHANGED <<s5, i, mmuOn, tables, VMInitialized, handle, killSem, NumPagers>>
    BY <1>2 DEF Spawn, InProgram, p1_fork, calls, machine, objects
  <2>3. u \notin Pagers /\ sems \in Int /\ MAXSEMS \in Nat
    BY LifecycleAssumption DEF KillInv, TypeInv, LifecycleTypeOK
  <2> QED BY <1>2, <2>1, <2>2, <2>3 DEF KillInv, PhaseInv, ExhaustedInv, CountInv, InInit, InDestroy
<1>3. CASE ~VMInitialized
  <2>1. Forked' = Forked /\ Gone' = Gone
    BY <1>3 DEF Spawn, Forked, Gone
  <2> QED BY <1>3, <2>1, Elsewhere DEF Spawn, p1_fork, calls, machine, objects, slots
<1> QED BY <1>1, <1>2, <1>3

\* A child that gives a semaphore back does not run while start5 goes on without one for
\* the kills.
LEMMA TerminateKeeps ==
    ASSUME KillInv, NEW u \in Users, Terminate(u)
    PROVE  PhaseInv' /\ ExhaustedInv' /\ CountInv'
<1>1. CASE QuitHalts(u)
  BY <1>1, HaltKeeps DEF Terminate
<1>2. CASE ~QuitHalts(u)
  <2>1. Forked' = Forked /\ Gone' = Gone
    BY <1>2 DEF Terminate, Forked, Gone
  <2>2. UNCHANGED <<i, mmuOn, tables, VMInitialized, handle, killSem, NumPagers>>
    BY <1>2 DEF Terminate, machine, objects
  <2>3. s5' = s5 \/ (s5 = "sleep" /\ s5' = "program")
    BY <1>2 DEF Terminate
  <2>4. \/ UNCHANGED <<entry, sems>>
        \/ VMInitialized /\ u \in entry /\ entry' = entry \ {u} /\ sems' = sems - 1
    BY <1>2 DEF Terminate, p1_quit, slots
  <2>5. ASSUME handle["PagerKillSem"] = "error", s5 \in {"kill", "await", "free"}
        PROVE  FALSE
    <3>1. ~Runnable(Start5)
      BY <1>2 DEF Terminate, Running, Schedulable
    <3> QED BY <2>5, <3>1 DEF Runnable
  <2>6. sems \in Int /\ MAXSEMS \in Nat
    BY LifecycleAssumption DEF KillInv, TypeInv, LifecycleTypeOK
  <2>7. PhaseInv'
    BY <2>1, <2>2, <2>3, <2>4 DEF KillInv, PhaseInv, InInit, InDestroy
  <2>8. ExhaustedInv'
    BY <2>2, <2>3, <2>4, <2>5, <2>6 DEF KillInv, ExhaustedInv
  <2>9. CountInv'
    BY <2>1, <2>2, <2>3 DEF KillInv, CountInv, InDestroy
  <2> QED BY <2>7, <2>8, <2>9
<1> QED BY <1>1, <1>2

LEMMA UserKeeps ==
    ASSUME KillInv, NEW u \in Users, PageFault(u) \/ Handler(u)
    PROVE  PhaseInv' /\ ExhaustedInv' /\ CountInv'
<1>1. ASSUME NEW from, NEW to, UserStep(u, from, to), UNCHANGED <<s5, sems, entry>>
      PROVE  PhaseInv' /\ ExhaustedInv' /\ CountInv'
  <2>1. Forked' = Forked /\ Gone' = Gone
    BY <1>1 DEF UserStep, Forked, Gone
  <2> QED BY <1>1, <2>1, Elsewhere DEF UserStep, machine
<1>2. CASE PageFault(u)
  <2>1. CASE ~mmuOn
    BY <1>2, <2>1, HaltKeeps DEF PageFault
  <2>2. CASE mmuOn
    BY <1>1, <1>2, <2>2 DEF PageFault, slots
  <2> QED BY <2>1, <2>2
<1>3. CASE CountFault(u)
  BY <1>1, <1>3 DEF CountFault, slots
<1>4. CASE SendFault(u)
  BY <1>1, <1>4 DEF SendFault, slots
<1>5. CASE Resume(u)
  BY <1>1, <1>5 DEF Resume
<1>6. CASE UnlockFrame(u)
  <2>1. CASE tables # "allocated"
    BY <1>6, <2>1, HaltKeeps DEF UnlockFrame
  <2>2. CASE tables = "allocated"
    BY <1>1, <1>6, <2>2 DEF UnlockFrame, slots
  <2> QED BY <2>1, <2>2
<1> QED BY <1>2, <1>3, <1>4, <1>5, <1>6 DEF Handler

\* A pager that stays in its loop.
LEMMA ServeKeeps ==
    ASSUME KillInv, NEW p \in Pagers,
           \/ GiveUp(p) \/ Receive(p) \/ NoFrame(p) \/ UpdateTables(p) \/ NoBlock(p)
           \/ MapAndAnswer(p) \/ Transferred(p) \/ Zap(p)
    PROVE  PhaseInv' /\ ExhaustedInv' /\ CountInv'
<1> DEFINE Loop == PagerPc \ {"none", "gone"}
<1>1. ASSUME NEW from \in Loop, NEW to \in Loop, NEW pid, PagerStep(p, from, to, pid),
             UNCHANGED <<killSem, sems, entry>>
      PROVE  PhaseInv' /\ ExhaustedInv' /\ CountInv'
  <2>1. ppc \in [Pagers -> PagerPc]
    BY DEF KillInv, TypeInv, LifecycleTypeOK
  <2>2. Forked' = Forked /\ Gone' = Gone
    BY <1>1, <2>1 DEF PagerStep, Forked, Gone
  <2>3. UNCHANGED <<s5, i, mmuOn, tables, VMInitialized, handle, NumPagers>>
    BY <1>1 DEF PagerStep, calls, machine
  <2> QED BY <1>1, <2>2, <2>3, Elsewhere
<1>2. {"receive", "old", "frame", "full", "transfer", "map", "leave"} \subseteq Loop
  BY DEF PagerPc
<1> HIDE DEF Loop
<1>3. ASSUME NEW from \in Loop, NEW how, Answer(p, from, how)
      PROVE  PhaseInv' /\ ExhaustedInv' /\ CountInv'
  BY <1>1, <1>2, <1>3 DEF Answer
<1>4. CASE GiveUp(p)
  BY <1>1, <1>2, <1>4 DEF GiveUp, slots
<1>5. CASE Receive(p)
  BY <1>1, <1>2, <1>5 DEF Receive, slots
<1>6. CASE NoFrame(p)
  BY <1>2, <1>3, <1>6 DEF NoFrame
<1>7. CASE UpdateTables(p)
  <2>1. CASE tables # "allocated" \/ ~mmuOn
    BY <1>7, <2>1, HaltKeeps DEF UpdateTables
  <2>2. CASE tables = "allocated" /\ mmuOn
    BY <1>1, <1>2, <1>7, <2>2 DEF UpdateTables
  <2> QED BY <2>1, <2>2
<1>8. CASE NoBlock(p)
  BY <1>2, <1>3, <1>8 DEF NoBlock
<1>9. CASE MapAndAnswer(p)
  BY <1>2, <1>3, <1>9, HaltKeeps DEF MapAndAnswer
<1>10. CASE Transferred(p)
  <2>1. ppc \in [Pagers -> PagerPc]
    BY DEF KillInv, TypeInv, LifecycleTypeOK
  <2>2. Forked' = Forked /\ Gone' = Gone
    BY <1>10, <2>1 DEF Transferred, Forked, Gone
  <2> QED BY <1>10, <2>2, Elsewhere DEF Transferred, calls, machine, objects, slots
<1>11. CASE Zap(p)
  <2>1. Forked' = Forked /\ Gone' = Gone
    BY <1>11 DEF Zap, Forked, Gone
  <2> QED BY <1>11, <2>1, Elsewhere DEF Zap, calls, machine, objects, slots
<1> QED BY <1>4, <1>5, <1>6, <1>7, <1>8, <1>9, <1>10, <1>11

\* The last step of a pager: it is gone, and has signalled that it is.
LEMMA LeaveLoopKeeps ==
    ASSUME KillInv, NEW p \in Pagers, LeaveLoop(p)
    PROVE  PhaseInv' /\ ExhaustedInv' /\ CountInv'
<1>1. ppc[p] = "leave" /\ ppc' = [ppc EXCEPT ![p] = "gone"] /\ ppc \in [Pagers -> PagerPc]
  BY DEF LeaveLoop, PagerStep, KillInv, TypeInv, LifecycleTypeOK
<1>2. Forked' = Forked /\ p \notin Gone /\ Gone' = Gone \cup {p} /\ p \in Forked
  BY <1>1 DEF Forked, Gone
<1>3. Cardinality(Gone') = Cardinality(Gone) + 1
  BY <1>2, PagersCounted, FS_AddElement DEF KillInv
<1>4. UNCHANGED <<s5, i, mmuOn, tables, VMInitialized, handle, NumPagers>>
  BY DEF LeaveLoop, PagerStep, calls, machine
<1>5. UNCHANGED <<entry, sems>>
  <2>1. p \notin entry
    BY DEF KillInv, PhaseInv
  <2> QED BY <2>1 DEF LeaveLoop, p1_quit, slots
<1>6. killSem' = IF handle["PagerKillSem"] = "good" THEN killSem + 1 ELSE killSem
  BY DEF LeaveLoop, VKillSem
<1>7. killSem \in Int /\ i \in Nat /\ Cardinality(Gone) \in Nat
  BY PagersCounted DEF KillInv, TypeInv, LifecycleTypeOK
<1>8. Forked # Gone
  BY <1>2
<1>9. PhaseInv'
  BY <1>2, <1>4, <1>5 DEF KillInv, PhaseInv, InInit, InDestroy
<1>10. ExhaustedInv'
  BY <1>4, <1>5 DEF KillInv, ExhaustedInv
<1>11. CountInv'
  BY <1>2, <1>3, <1>4, <1>6, <1>7, <1>8 DEF KillInv, CountInv, InDestroy
<1> QED BY <1>9, <1>10, <1>11

-----------------------------------------------------------------------------

LEMMA InitKills == Init => KillInv
<1> SUFFICES ASSUME Init PROVE KillInv
  OBVIOUS
<1>1. Forked = {} /\ Gone = {} /\ Cardinality({}) = 0
  BY FS_EmptySet DEF Init, Forked, Gone
<1>2. handle["PagerKillSem"] = "unset" /\ MAXSEMS \in Nat
  BY LifecycleAssumption DEF Init, Objects
<1>3. TypeInv
  BY InitTypes
<1>4. PhaseInv
  BY <1>1 DEF Init, PhaseInv, InInit, InDestroy
<1>5. ExhaustedInv /\ CountInv
  BY <1>1, <1>2 DEF Init, ExhaustedInv, CountInv, InDestroy
<1> QED BY <1>3, <1>4, <1>5 DEF KillInv

LEMMA NextKills == KillInv /\ [Next]_vars => KillInv'
<1> SUFFICES ASSUME KillInv, [Next]_vars PROVE PhaseInv' /\ ExhaustedInv' /\ CountInv'
  BY NextTypes DEF KillInv
<1>1. CASE UNCHANGED vars
  <2>1. Forked' = Forked /\ Gone' = Gone
    BY <1>1 DEF vars, Forked, Gone
  <2> QED BY <1>1, <2>1, Elsewhere DEF vars, calls, machine, objects, slots
<1>2. CASE InCall
  BY <1>2, CallKeeps, ForkPagerKeeps, CreateKillSemKeeps, SendKillKeeps, AwaitPagerKeeps,
     LastStatsKeeps, FreeTablesKeeps DEF InCall
<1>3. CASE \/ \E x \in Process : p1_switch(x)
           \/ \E a \in InitArgs : VmInit(a)
           \/ VmDestroy \/ Sleep \/ DiskSize
  BY <1>3, SwitchKeeps, VmInitKeeps, VmDestroyKeeps, SleepKeeps, CallKeeps
<1>4. ASSUME NEW p \in Pagers, Pager(p) \/ Transferred(p) \/ Zap(p)
      PROVE  PhaseInv' /\ ExhaustedInv' /\ CountInv'
  BY <1>4, ServeKeeps, LeaveLoopKeeps DEF Pager
<1>5. ASSUME NEW u \in Users,
             Spawn(u) \/ PageFault(u) \/ Handler(u) \/ WakeStart5(u) \/ Terminate(u)
      PROVE  PhaseInv' /\ ExhaustedInv' /\ CountInv'
  BY <1>5, SpawnKeeps, UserKeeps, SleepKeeps, TerminateKeeps
<1>6. PrintStats => UNCHANGED vars
  BY PrintChangesNothing DEF KillInv
<1> QED BY <1>1, <1>2, <1>3, <1>4, <1>5, <1>6 DEF Next

LEMMA KillInvAlways == Spec => []KillInv
BY InitKills, NextKills, PTL DEF Spec

\* When vmDestroyReal frees the tables every pager has left its loop, for any number of
\* pagers and children and any program: faults waiting in the mailbox before the kill
\* messages, pagers that were zapped and VM regions before this one included.  Only a
\* VmDestroy that got no semaphore to wait on frees them earlier.
THEOREM PagersEndFirst == Spec => []NoPagerOutlivesTables
<1>1. KillInv => NoPagerOutlivesTables
  BY DEF KillInv, CountInv, NoPagerOutlivesTables, InLoop, Forked, Gone
<1> QED BY <1>1, KillInvAlways, PTL

-----------------------------------------------------------------------------
(* What can halt the machine, for any program.                               *)

Serves(p) == ppc[p] \in {"frame", "full", "transfer", "map"}
Asks(u)   == upc[u] = "wait" /\ sem[u] = 0
AsksNext(u) == upc'[u] = "wait" /\ sem'[u] = 0
InHandler(u) == upc[u] \in {"count", "send", "wait", "unlock", "exit"}

\* A fault message is in the mailbox, with a pager, answered, or lost with a mailbox.
AskInv ==
    /\ entry \subseteq privateSem
    /\ \A u \in Users : InHandler(u) => u \in privateSem
    /\ \A u \in Users : sem[u] = 0 \/ (sem[u] = 1 /\ upc[u] = "wait")
    /\ \A k \in 1 .. Len(FaultsMbox) : FaultsMbox[k] \in Users => Asks(FaultsMbox[k])
    /\ \A j, k \in 1 .. Len(FaultsMbox) :
            j # k /\ FaultsMbox[j] \in Users => FaultsMbox[j] # FaultsMbox[k]
    /\ \A p \in Pagers : Serves(p) =>
            Asks(job[p]) /\ \A k \in 1 .. Len(FaultsMbox) : FaultsMbox[k] # job[p]
    /\ \A p, q \in Pagers : p # q /\ Serves(p) /\ Serves(q) => job[p] # job[q]

\* The running child is alive, and start5 is in kernel mode in its system calls only.
RunInv ==
    /\ cur \in Users => cur \in Live
    /\ mode = IF s5 \in {"program", "sleep"} THEN "user" ELSE "kernel"

MachineInv == KillInv /\ AskInv /\ RunInv

-----------------------------------------------------------------------------
(* A child that waits is asked for once.                                     *)

LEMMA MailTypes ==
    ASSUME TypeInv
    PROVE  /\ FaultsMbox \in Seq(Users \cup {KILL}) /\ Len(FaultsMbox) \in Nat
           /\ KILL \notin Users /\ sem \in [Users -> Int] /\ upc \in [Users -> UserPc]
           /\ ppc \in [Pagers -> PagerPc] /\ job \in [Pagers -> Users \cup {System}]
           /\ \A p \in Pagers : Serves(p) => job[p] \in Users
BY LifecycleAssumption DEF TypeInv, LifecycleTypeOK, Serving, Serves, KILL

\* No child moves, and no pager begins to serve one.
LEMMA AskPagers ==
    ASSUME TypeInv, AskInv, UNCHANGED <<upc, sem, FaultsMbox, privateSem>>, entry' \subseteq entry,
           \A p \in Pagers : Serves(p)' => Serves(p) /\ job'[p] = job[p]
    PROVE  AskInv'
<1>1. \A p \in Pagers : Serves(p)' =>
            Serves(p) /\ job'[p] = job[p] /\ Asks(job[p])
                      /\ \A k \in 1 .. Len(FaultsMbox) : FaultsMbox[k] # job[p]
  BY DEF AskInv
<1>2. \A p, q \in Pagers : p # q /\ Serves(p)' /\ Serves(q)' => job'[p] # job'[q]
  BY <1>1 DEF AskInv
<1>3. entry' \subseteq privateSem'
  BY DEF AskInv
<1> QED BY <1>1, <1>2, <1>3 DEF AskInv, Asks, InHandler

\* A child moves that does not wait.
LEMMA AskUser ==
    ASSUME TypeInv, AskInv, NEW u \in Users, NEW to, UNCHANGED <<sem, FaultsMbox, ppc, job>>,
           upc[u] # "wait", to # "wait", upc' = [upc EXCEPT ![u] = to],
           entry' \subseteq privateSem', privateSem \ {u} \subseteq privateSem',
           to \in {"count", "send", "unlock", "exit"} => u \in privateSem'
    PROVE  AskInv'
<1>1. \A v \in Users : upc'[v] = IF v = u THEN to ELSE upc[v]
  BY MailTypes
<1>2. \A v \in Users : Asks(v) => v # u /\ AsksNext(v)
  BY <1>1 DEF Asks, AsksNext
<1>3. \A v \in Users : InHandler(v)' => v \in privateSem'
  BY <1>1 DEF AskInv, InHandler
<1>4. \A v \in Users : sem'[v] = 0 \/ (sem'[v] = 1 /\ upc'[v] = "wait")
  BY <1>1 DEF AskInv
<1>5. \A p \in Pagers : Serves(p)' <=> Serves(p)
  BY DEF Serves
<1> QED BY <1>2, <1>3, <1>4, <1>5, MailTypes DEF AskInv, Asks, AsksNext, InHandler

LEMMA AskSwitch ==
    ASSUME TypeInv, AskInv, NEW x \in Process, p1_switch(x)
    PROVE  AskInv'
<1>1. UNCHANGED <<upc, sem, FaultsMbox, privateSem, entry, ppc, job>>
  BY DEF p1_switch, Halt, objects, slots
<1> QED BY <1>1, AskPagers DEF Serves

LEMMA AskHalt ==
    ASSUME TypeInv, AskInv, NEW why, Halt(why)
    PROVE  AskInv'
BY AskPagers DEF Halt, objects, slots, Serves

LEMMA AskVmInit ==
    ASSUME TypeInv, AskInv, NEW a \in InitArgs, VmInit(a)
    PROVE  AskInv'
<1>1. CASE mode # "user" \/ (~BadArgs(a) /\ mmuOn)
  BY <1>1, AskHalt DEF VmInit
<1>2. CASE mode = "user" /\ BadArgs(a)
  BY <1>2, AskPagers DEF VmInit, Continue, objects, slots, Serves
<1>3. CASE mode = "user" /\ ~BadArgs(a) /\ ~mmuOn
  <2>1. /\ UNCHANGED <<upc, sem, FaultsMbox, privateSem, job>> /\ entry' = {}
        /\ ppc' = [p \in Pagers |-> IF ppc[p] = "gone" THEN "none" ELSE ppc[p]]
    BY <1>3 DEF VmInit, Continue
  <2>2. \A p \in Pagers : Serves(p)' => Serves(p) /\ job'[p] = job[p]
    BY <2>1 DEF Serves
  <2> QED BY <2>1, <2>2, AskPagers
<1> QED BY <1>1, <1>2, <1>3

LEMMA AskForkPager ==
    ASSUME TypeInv, PhaseInv, AskInv, NEW p \in Pagers, ForkPager(p)
    PROVE  AskInv'
<1>1. /\ UNCHANGED <<upc, sem, FaultsMbox, privateSem, entry, job>>
      /\ ppc' = [ppc EXCEPT ![p] = "receive"]
  BY DEF ForkPager, Continue, PhaseInv, InInit, p1_fork, objects, slots
<1>2. \A q \in Pagers : Serves(q)' => Serves(q) /\ job'[q] = job[q]
  BY <1>1, MailTypes DEF Serves
<1> QED BY <1>1, <1>2, AskPagers

\* The new mailbox is empty.
LEMMA AskMailbox ==
    ASSUME TypeInv, AskInv, CreateFaultsMbox
    PROVE  AskInv'
<1>1. FaultsMbox' = <<>> /\ UNCHANGED <<upc, sem, privateSem, entry, job>>
  BY DEF CreateFaultsMbox, Continue, slots
<1>2. 1 .. Len(FaultsMbox') = {}
  BY <1>1
<1>3. \A p \in Pagers : Serves(p)' => Serves(p)
  BY LeftBehind DEF Serves
<1> QED BY <1>1, <1>2, <1>3 DEF AskInv, Asks, AsksNext, InHandler

\* A message at the end of the mailbox.
LEMMA AskAppend ==
    ASSUME TypeInv, AskInv, NEW x \in Users \cup {KILL}, FaultsMbox' = Append(FaultsMbox, x),
           UNCHANGED <<ppc, job, sem, entry, privateSem>>,
           \A v \in Users \ {x} : upc'[v] = upc[v],
           x \in Users => /\ upc[x] = "send" /\ upc'[x] = "wait"
    PROVE  AskInv'
<1>1. /\ Len(FaultsMbox') = Len(FaultsMbox) + 1 /\ FaultsMbox'[Len(FaultsMbox) + 1] = x
      /\ \A k \in 1 .. Len(FaultsMbox) : FaultsMbox'[k] = FaultsMbox[k]
  BY MailTypes
<1>2. \A k \in 1 .. Len(FaultsMbox') : k \in 1 .. Len(FaultsMbox) \/ k = Len(FaultsMbox) + 1
  BY <1>1, MailTypes
<1>3. \A v \in Users : Asks(v) => v # x
  BY DEF Asks, AsksNext
<1>4. \A v \in Users : Asks(v) \/ v = x => AsksNext(v)
  <2>1. x \in Users => sem[x] = 0
    BY DEF AskInv
  <2> QED BY <1>3, <2>1 DEF Asks, AsksNext
<1>5. \A k \in 1 .. Len(FaultsMbox) : FaultsMbox[k] \in Users => FaultsMbox[k] # x
  BY <1>3 DEF AskInv
<1>6. \A v \in Users : InHandler(v)' => v \in privateSem'
  BY DEF AskInv, InHandler
<1>7. \A v \in Users : sem'[v] = 0 \/ (sem'[v] = 1 /\ upc'[v] = "wait")
  BY DEF AskInv
<1>8. \A p \in Pagers : (Serves(p)' <=> Serves(p)) /\ (Serves(p) => job[p] # x)
  BY <1>3, MailTypes DEF AskInv, Serves
<1>9. \A k \in 1 .. Len(FaultsMbox') : FaultsMbox'[k] \in Users => AsksNext(FaultsMbox'[k])
  BY <1>1, <1>2, <1>4 DEF AskInv
<1>10. \A j, k \in 1 .. Len(FaultsMbox') :
            j # k /\ FaultsMbox'[j] \in Users => FaultsMbox'[j] # FaultsMbox'[k]
  <2> SUFFICES ASSUME NEW j \in 1 .. Len(FaultsMbox'), NEW k \in 1 .. Len(FaultsMbox'),
                      j # k, FaultsMbox'[j] \in Users
               PROVE  FaultsMbox'[j] # FaultsMbox'[k]
    OBVIOUS
  <2>1. CASE j \in 1 .. Len(FaultsMbox) /\ k \in 1 .. Len(FaultsMbox)
    BY <1>1, <2>1 DEF AskInv
  <2>2. CASE j \in 1 .. Len(FaultsMbox) /\ k = Len(FaultsMbox) + 1
    BY <1>1, <1>5, <2>2
  <2>3. CASE j = Len(FaultsMbox) + 1 /\ k \in 1 .. Len(FaultsMbox)
    BY <1>1, <1>5, <2>3
  <2> QED BY <1>2, <2>1, <2>2, <2>3
<1>11. \A p \in Pagers : Serves(p)' =>
            AsksNext(job'[p]) /\ \A k \in 1 .. Len(FaultsMbox') : FaultsMbox'[k] # job'[p]
  <2> SUFFICES ASSUME NEW p \in Pagers, Serves(p)
               PROVE  AsksNext(job[p]) /\ \A k \in 1 .. Len(FaultsMbox') : FaultsMbox'[k] # job[p]
    BY <1>8
  <2>1. AsksNext(job[p])
    BY <1>4, MailTypes DEF AskInv
  <2>2. \A k \in 1 .. Len(FaultsMbox') : FaultsMbox'[k] # job[p]
    BY <1>1, <1>2, <1>8 DEF AskInv
  <2> QED BY <2>1, <2>2
<1>12. \A p, q \in Pagers : p # q /\ Serves(p)' /\ Serves(q)' => job'[p] # job'[q]
  BY <1>8 DEF AskInv
<1>13. entry' \subseteq privateSem'
  BY DEF AskInv
<1> QED BY <1>6, <1>7, <1>9, <1>10, <1>11, <1>12, <1>13
        DEF AskInv, Asks, AsksNext, InHandler, Serves

LEMMA AskSendKill ==
    ASSUME TypeInv, AskInv, SendKill
    PROVE  AskInv'
<1>1. UNCHANGED <<ppc, job, sem, entry, privateSem, upc>>
  BY DEF SendKill, Continue, slots
<1>2. CASE handle["FaultsMbox"] = "good"
  <2>1. FaultsMbox' = Append(FaultsMbox, KILL)
    BY <1>2 DEF SendKill, Post
  <2> QED BY <1>1, <2>1, AskAppend, MailTypes
<1>3. CASE handle["FaultsMbox"] # "good"
  BY <1>1, <1>3, AskPagers DEF SendKill, Post, Serves
<1> QED BY <1>2, <1>3

LEMMA AskSendFault ==
    ASSUME TypeInv, AskInv, NEW u \in Users, SendFault(u)
    PROVE  AskInv'
<1>1. /\ UNCHANGED <<ppc, job, sem, entry, privateSem>> /\ upc[u] = "send"
      /\ upc' = [upc EXCEPT ![u] = "wait"]
  BY DEF SendFault, UserStep, slots
<1>2. \A v \in Users : upc'[v] = IF v = u THEN "wait" ELSE upc[v]
  BY <1>1, MailTypes
<1>3. CASE handle["FaultsMbox"] = "good"
  <2>1. FaultsMbox' = Append(FaultsMbox, u)
    BY <1>3 DEF SendFault, Post
  <2> QED BY <1>1, <1>2, <2>1, AskAppend
<1>4. CASE handle["FaultsMbox"] # "good"     \* the message is lost
  <2>1. FaultsMbox' = FaultsMbox
    BY <1>4 DEF SendFault, Post
  <2>2. \A v \in Users : Asks(v) => v # u /\ AsksNext(v)
    BY <1>1, <1>2 DEF Asks, AsksNext
  <2>3. \A v \in Users : InHandler(v)' => v \in privateSem'
    BY <1>1, <1>2 DEF AskInv, InHandler
  <2>4. \A v \in Users : sem'[v] = 0 \/ (sem'[v] = 1 /\ upc'[v] = "wait")
    BY <1>1, <1>2 DEF AskInv
  <2>5. \A p \in Pagers : Serves(p)' <=> Serves(p)
    BY <1>1 DEF Serves
  <2> QED BY <1>1, <2>1, <2>2, <2>3, <2>4, <2>5, MailTypes DEF AskInv, Asks, AsksNext
<1> QED BY <1>3, <1>4

\* It has been answered: no pager has it, and no message.
LEMMA AskResume ==
    ASSUME TypeInv, AskInv, NEW u \in Users, Resume(u)
    PROVE  AskInv'
<1>1. /\ UNCHANGED <<ppc, job, FaultsMbox, entry, privateSem>> /\ upc[u] = "wait"
      /\ upc' = [upc EXCEPT ![u] = AfterFault(answer[u])]
      /\ sem' = IF u \in privateSem THEN [sem EXCEPT ![u] = @ - 1] ELSE sem
  BY DEF Resume, UserStep
<1>2. u \in privateSem
  BY <1>1 DEF AskInv, InHandler
<1>3. sem[u] = 1
  <2>1. Runnable(u)
    BY DEF Resume, UserStep, Running, Schedulable
  <2>2. u # System /\ u # Start5 /\ u \notin Pagers
    BY LifecycleAssumption
  <2>3. sem[u] > 0
    BY <1>1, <1>2, <2>1, <2>2 DEF Runnable
  <2> QED BY <2>3 DEF AskInv
<1>4. AfterFault(answer[u]) \in {"unlock", "send", "exit"}
  BY DEF AfterFault
<1>5. \A v \in Users : /\ upc'[v] = IF v = u THEN AfterFault(answer[u]) ELSE upc[v]
                       /\ sem'[v] = IF v = u THEN 0 ELSE sem[v]
  BY <1>1, <1>2, <1>3, MailTypes
<1>6. \A v \in Users : Asks(v) => v # u /\ AsksNext(v)
  BY <1>3, <1>5 DEF Asks, AsksNext
<1>7. \A v \in Users : InHandler(v)' => v \in privateSem'
  BY <1>1, <1>2, <1>5 DEF AskInv, InHandler
<1>8. \A v \in Users : sem'[v] = 0 \/ (sem'[v] = 1 /\ upc'[v] = "wait")
  BY <1>5 DEF AskInv
<1>9. \A p \in Pagers : Serves(p)' <=> Serves(p)
  BY <1>1 DEF Serves
<1>10. UNCHANGED <<job, FaultsMbox, entry, privateSem>>
  BY <1>1
<1> HIDE DEF Serves
<1>11. \A p \in Pagers : Serves(p)' => Asks(job[p]) /\ AsksNext(job[p])
  BY <1>6, <1>9, MailTypes DEF AskInv
<1> QED BY <1>6, <1>7, <1>8, <1>9, <1>10, <1>11 DEF AskInv, Asks, AsksNext

\* The first message leaves the mailbox and, unless it is a kill, is with the pager.
LEMMA AskReceive ==
    ASSUME TypeInv, AskInv, NEW p \in Pagers, Receive(p)
    PROVE  AskInv'
<1>1. /\ UNCHANGED <<upc, sem, entry, privateSem>> /\ ppc[p] = "receive"
      /\ FaultsMbox # <<>> /\ FaultsMbox' = Tail(FaultsMbox)
  BY DEF Receive, PagerStep, slots
<1>2. PICK x : x = Head(FaultsMbox)
  OBVIOUS
<1>3. /\ Len(FaultsMbox') = Len(FaultsMbox) - 1 /\ Len(FaultsMbox) \in Nat \ {0}
      /\ x = FaultsMbox[1] /\ x \in Users \cup {KILL}
      /\ \A k \in 1 .. Len(FaultsMbox') : FaultsMbox'[k] = FaultsMbox[k + 1]
  BY <1>1, <1>2, MailTypes
<1>4. \A k \in 1 .. Len(FaultsMbox') : k + 1 \in 1 .. Len(FaultsMbox) /\ k + 1 # 1
  BY <1>3
<1>5. 1 \in 1 .. Len(FaultsMbox)
  BY <1>3
<1>6. \A k \in 1 .. Len(FaultsMbox') : FaultsMbox'[k] \in Users => Asks(FaultsMbox'[k])
  BY <1>3, <1>4 DEF AskInv
<1>7. \A j, k \in 1 .. Len(FaultsMbox') :
            j # k /\ FaultsMbox'[j] \in Users => FaultsMbox'[j] # FaultsMbox'[k]
  <2> SUFFICES ASSUME NEW j \in 1 .. Len(FaultsMbox'), NEW k \in 1 .. Len(FaultsMbox'),
                      j # k, FaultsMbox'[j] \in Users
               PROVE  FaultsMbox'[j] # FaultsMbox'[k]
    OBVIOUS
  <2>1. j + 1 # k + 1
    OBVIOUS
  <2> QED BY <1>3, <1>4, <2>1 DEF AskInv
<1>8. \A q \in Pagers \ {p} : Serves(q)' => Serves(q) /\ job'[q] = job[q]
  BY <1>2, MailTypes DEF Receive, PagerStep, Serves
<1>9. Serves(p)' => x \in Users /\ job'[p] = x
  BY <1>2, <1>3, MailTypes DEF Receive, PagerStep, Serves
<1>10. x \in Users => Asks(x) /\ \A k \in 1 .. Len(FaultsMbox') : FaultsMbox'[k] # x
  BY <1>3, <1>4, <1>5 DEF AskInv
<1>11. \A q \in Pagers : Serves(q) =>
            Asks(job[q]) /\ job[q] # x /\ \A k \in 1 .. Len(FaultsMbox') : FaultsMbox'[k] # job[q]
  BY <1>3, <1>4, <1>5 DEF AskInv
<1>12. \A v : AsksNext(v) <=> Asks(v)
  BY <1>1 DEF Asks, AsksNext
<1>13. \A q \in Pagers : Serves(q)' =>
            AsksNext(job'[q]) /\ \A k \in 1 .. Len(FaultsMbox') : FaultsMbox'[k] # job'[q]
  <2> SUFFICES ASSUME NEW q \in Pagers, Serves(q)'
               PROVE  AsksNext(job'[q]) /\ \A k \in 1 .. Len(FaultsMbox') : FaultsMbox'[k] # job'[q]
    OBVIOUS
  <2>1. CASE q = p
    BY <1>9, <1>10, <1>12, <2>1
  <2>2. CASE q # p
    BY <1>8, <1>11, <1>12, <2>2
  <2> QED BY <2>1, <2>2
<1>14. \A q, r \in Pagers : q # r /\ Serves(q)' /\ Serves(r)' => job'[q] # job'[r]
  BY <1>8, <1>9, <1>11 DEF AskInv
<1> QED BY <1>1, <1>6, <1>7, <1>12, <1>13, <1>14 DEF AskInv, InHandler, Asks, AsksNext, Serves

\* The child a pager has served is woken, once.
LEMMA AskAnswer ==
    ASSUME TypeInv, AskInv, NEW p \in Pagers, NEW from \in {"frame", "full", "map"}, NEW how,
           Answer(p, from, how)
    PROVE  AskInv'
<1>1. PICK u : u = job[p]
  OBVIOUS
<1>2. /\ UNCHANGED <<upc, FaultsMbox, entry, privateSem>> /\ ppc[p] = from
      /\ ppc' = [ppc EXCEPT ![p] = "receive"] /\ job' = [job EXCEPT ![p] = System]
      /\ sem' = IF u \in privateSem THEN [sem EXCEPT ![u] = @ + 1] ELSE sem
  BY <1>1 DEF Answer, PagerStep
<1>3. Serves(p) /\ u \in Users /\ Asks(u)
  BY <1>1, <1>2, MailTypes DEF AskInv, Serves
<1>4. u \in privateSem
  BY <1>3 DEF AskInv, InHandler, Asks, AsksNext
<1>5. \A v \in Users : sem'[v] = IF v = u THEN 1 ELSE sem[v]
  BY <1>2, <1>3, <1>4, MailTypes DEF Asks, AsksNext
<1>6. \A v \in Users : Asks(v) /\ v # u => AsksNext(v)
  BY <1>2, <1>5 DEF Asks, AsksNext
<1>7. \A k \in 1 .. Len(FaultsMbox) : FaultsMbox[k] # u
  BY <1>1, <1>3 DEF AskInv
<1>8. \A q \in Pagers : Serves(q)' => q # p /\ Serves(q) /\ job'[q] = job[q]
  BY <1>2, MailTypes DEF Serves
<1>9. \A q \in Pagers \ {p} : Serves(q) => job[q] # u
  BY <1>1, <1>3 DEF AskInv
<1>10. \A v \in Users : sem'[v] = 0 \/ (sem'[v] = 1 /\ upc'[v] = "wait")
  BY <1>2, <1>3, <1>5 DEF AskInv, Asks, AsksNext
<1>11. \A v \in Users : InHandler(v)' => v \in privateSem'
  BY <1>2 DEF AskInv, InHandler
<1>12. \A q \in Pagers : Serves(q)' =>
            AsksNext(job'[q]) /\ \A k \in 1 .. Len(FaultsMbox') : FaultsMbox'[k] # job'[q]
  BY <1>2, <1>6, <1>8, <1>9, MailTypes DEF AskInv
<1>13. \A k \in 1 .. Len(FaultsMbox') : FaultsMbox'[k] \in Users => AsksNext(FaultsMbox'[k])
  BY <1>2, <1>6, <1>7 DEF AskInv
<1>14. \A q, r \in Pagers : q # r /\ Serves(q)' /\ Serves(r)' => job'[q] # job'[r]
  BY <1>8 DEF AskInv
<1> QED BY <1>2, <1>10, <1>11, <1>12, <1>13, <1>14 DEF AskInv, Asks, AsksNext, InHandler, Serves

\* The other steps of start5, of a child and of a pager.
LEMMA AskCall ==
    ASSUME TypeInv, AskInv,
           \/ InitVmStats \/ VmInitDone \/ DiskSize \/ VmDestroy \/ CreateKillSem \/ AwaitPager
           \/ LastStats \/ FreeTables \/ Sleep \/ (\E u \in Users : WakeStart5(u))
    PROVE  AskInv'
<1>1. \/ \E why : Halt(why)
      \/ UNCHANGED <<upc, sem, FaultsMbox, privateSem, entry, ppc, job>>
  <2>1. CASE InitVmStats \/ VmInitDone \/ DiskSize \/ Sleep \/ AwaitPager
    BY <2>1 DEF InitVmStats, VmInitDone, DiskSize, Sleep, AwaitPager, Continue, objects, slots
  <2>2. CASE VmDestroy \/ CreateKillSem \/ LastStats \/ FreeTables
    BY <2>2 DEF VmDestroy, CreateKillSem, LastStats, FreeTables, Continue, objects, slots
  <2>3. ASSUME NEW u \in Users, WakeStart5(u)
        PROVE  UNCHANGED <<upc, sem, FaultsMbox, privateSem, entry, ppc, job>>
    <3>1. upc' = upc
      BY <2>3, MailTypes DEF WakeStart5, UserStep
    <3> QED BY <2>3, <3>1 DEF WakeStart5, UserStep, slots
  <2> QED BY <2>1, <2>2, <2>3
<1>2. CASE \E why : Halt(why)
  BY <1>2, AskHalt
<1>3. CASE UNCHANGED <<upc, sem, FaultsMbox, privateSem, entry, ppc, job>>
  BY <1>3, AskPagers DEF Serves
<1> QED BY <1>1, <1>2, <1>3

LEMMA AskUserSteps ==
    ASSUME TypeInv, AskInv, NEW u \in Users,
           PageFault(u) \/ CountFault(u) \/ UnlockFrame(u) \/ Spawn(u) \/ Terminate(u)
    PROVE  AskInv'
<1>1. CASE \E why : Halt(why)
  BY <1>1, AskHalt
<1>2. CASE PageFault(u) /\ mmuOn
  <2>1. /\ UNCHANGED <<sem, FaultsMbox, ppc, job, entry, privateSem>> /\ upc[u] = "user"
        /\ upc' = [upc EXCEPT ![u] = "count"] /\ u \in entry
    BY <1>2 DEF PageFault, UserStep, slots
  <2>2. u \in privateSem /\ entry \subseteq privateSem
    BY <2>1 DEF AskInv
  <2> QED BY <2>1, <2>2, AskUser
<1>3. CASE CountFault(u)
  <2>1. /\ UNCHANGED <<sem, FaultsMbox, ppc, job, entry, privateSem>> /\ upc[u] = "count"
        /\ upc' = [upc EXCEPT ![u] = "send"]
    BY <1>3 DEF CountFault, UserStep, slots
  <2>2. u \in privateSem /\ entry \subseteq privateSem
    BY <2>1 DEF AskInv, InHandler
  <2> QED BY <2>1, <2>2, AskUser
<1>4. CASE UnlockFrame(u) /\ tables = "allocated"
  <2>1. /\ UNCHANGED <<sem, FaultsMbox, ppc, job, entry, privateSem>> /\ upc[u] = "unlock"
        /\ upc' = [upc EXCEPT ![u] = "user"]
    BY <1>4 DEF UnlockFrame, UserStep, slots
  <2>2. entry \subseteq privateSem
    BY DEF AskInv
  <2> QED BY <2>1, <2>2, AskUser
<1>5. CASE Spawn(u) /\ ~(VMInitialized /\ sems = MAXSEMS)
  <2>1. /\ UNCHANGED <<FaultsMbox, ppc, job>> /\ upc[u] \in {"unborn", "dead"}
        /\ upc' = [upc EXCEPT ![u] = "user"] /\ p1_fork(u)
    BY <1>5 DEF Spawn, objects
  <2>2. sem' = sem
    <3>1. sem[u] = 0
      BY <2>1 DEF AskInv
    <3> QED BY <2>1, <3>1, MailTypes DEF p1_fork, slots
  <2>3. entry' \subseteq privateSem' /\ privateSem \ {u} \subseteq privateSem'
    BY <2>1 DEF p1_fork, slots, AskInv
  <2> QED BY <2>1, <2>2, <2>3, AskUser
<1>6. CASE Terminate(u) /\ ~QuitHalts(u)
  <2>1. /\ UNCHANGED <<FaultsMbox, ppc, job>> /\ upc[u] \in {"user", "exit"}
        /\ upc' = [upc EXCEPT ![u] = "dead"] /\ p1_quit(u)
    BY <1>6 DEF Terminate, objects
  <2>2. sem' = sem /\ entry' \subseteq privateSem' /\ privateSem \ {u} \subseteq privateSem'
    BY <2>1 DEF p1_quit, slots, AskInv
  <2> QED BY <2>1, <2>2, AskUser
<1> QED BY <1>1, <1>2, <1>3, <1>4, <1>5, <1>6
        DEF PageFault, UnlockFrame, Spawn, Terminate

LEMMA AskPagerSteps ==
    ASSUME TypeInv, PhaseInv, AskInv, NEW p \in Pagers, Pager(p) \/ Transferred(p) \/ Zap(p)
    PROVE  AskInv'
<1>1. CASE \E why : Halt(why)
  BY <1>1, AskHalt
<1>2. CASE GiveUp(p) \/ LeaveLoop(p)
  <2>1. UNCHANGED <<upc, sem, FaultsMbox, entry, privateSem>>
    BY <1>2 DEF GiveUp, LeaveLoop, PagerStep, p1_quit, slots, PhaseInv
  <2>2. \A q \in Pagers : Serves(q)' => Serves(q) /\ job'[q] = job[q]
    BY <1>2, MailTypes DEF GiveUp, LeaveLoop, PagerStep, Serves
  <2> QED BY <2>1, <2>2, AskPagers
<1>3. CASE Receive(p)
  BY <1>3, AskReceive
<1>4. CASE \E from \in {"frame", "full", "map"} : \E how : Answer(p, from, how)
  BY <1>4, AskAnswer
<1>5. CASE UpdateTables(p) /\ tables = "allocated" /\ mmuOn
  <2>1. UNCHANGED <<upc, sem, FaultsMbox, entry, privateSem>>
    BY <1>5 DEF UpdateTables, PagerStep
  <2>2. PICK to \in {"full", "transfer", "map"} : PagerStep(p, "frame", to, job[p])
    BY <1>5 DEF UpdateTables
  <2>3. \A q \in Pagers : Serves(q)' => Serves(q) /\ job'[q] = job[q]
    BY <2>2, MailTypes DEF PagerStep, Serves
  <2> QED BY <2>1, <2>3, AskPagers
<1>6. CASE Transferred(p) \/ Zap(p)
  <2>1. UNCHANGED <<upc, sem, FaultsMbox, entry, privateSem>>
    BY <1>6 DEF Transferred, Zap, objects, slots
  <2>2. \A q \in Pagers : Serves(q)' => Serves(q) /\ job'[q] = job[q]
    BY <1>6, MailTypes DEF Transferred, Zap, Serves
  <2> QED BY <2>1, <2>2, AskPagers
<1> QED BY <1>1, <1>2, <1>3, <1>4, <1>5, <1>6
        DEF Pager, NoFrame, UpdateTables, NoBlock, MapAndAnswer

LEMMA NextAsks == TypeInv /\ PhaseInv /\ AskInv /\ Next /\ ~PrintStats => AskInv'
<1> SUFFICES ASSUME TypeInv, PhaseInv, AskInv, Next, ~PrintStats PROVE AskInv'
  OBVIOUS
<1>1. CASE InCall
  BY <1>1, AskMailbox, AskForkPager, AskSendKill, AskCall DEF InCall
<1>2. CASE \/ \E x \in Process : p1_switch(x)
           \/ \E a \in InitArgs : VmInit(a)
           \/ VmDestroy \/ Sleep \/ DiskSize
  BY <1>2, AskSwitch, AskVmInit, AskCall
<1>3. ASSUME NEW p \in Pagers, Pager(p) \/ Transferred(p) \/ Zap(p) PROVE AskInv'
  BY <1>3, AskPagerSteps
<1>4. ASSUME NEW u \in Users,
             Spawn(u) \/ PageFault(u) \/ Handler(u) \/ WakeStart5(u) \/ Terminate(u)
      PROVE  AskInv'
  BY <1>4, AskUserSteps, AskSendFault, AskResume, AskCall DEF Handler
<1> QED BY <1>1, <1>2, <1>3, <1>4 DEF Next

-----------------------------------------------------------------------------
(* Who runs, and in which mode.                                              *)

LEMMA Distinct ==
    /\ \A u \in Users : u # System /\ u # Start5 /\ u \notin Pagers
    /\ Start5 # System /\ Start5 \notin Pagers
BY LifecycleAssumption

LEMMA RunHalt ==
    ASSUME RunInv, NEW why, Halt(why)
    PROVE  RunInv'
BY DEF Halt, calls, RunInv, Live

LEMMA RunCall ==
    ASSUME RunInv,
           \/ InCall \/ VmDestroy \/ Sleep \/ DiskSize \/ \E a \in InitArgs : VmInit(a)
    PROVE  RunInv'
<1>1. CASE \E why : Halt(why)
  BY <1>1, RunHalt
<1>2. ASSUME UNCHANGED <<cur, upc>>,
             mode' = IF s5' \in {"program", "sleep"} THEN "user" ELSE "kernel"
      PROVE  RunInv'
  BY <1>2 DEF RunInv, Live
<1>3. CASE Sleep \/ DiskSize
  BY <1>2, <1>3 DEF Sleep, DiskSize, InProgram, RunInv
<1>4. CASE VmDestroy /\ mode = "user"
  BY <1>2, <1>4 DEF VmDestroy, Continue
<1>5. ASSUME NEW a \in InitArgs, VmInit(a), mode = "user", BadArgs(a) \/ ~mmuOn
      PROVE  RunInv'
  BY <1>2, <1>5 DEF VmInit, Continue, Return
<1>6. CASE CreateFaultsMbox \/ (\E p \in Pagers : ForkPager(p)) \/ InitVmStats \/ VmInitDone
  BY <1>2, <1>6 DEF CreateFaultsMbox, ForkPager, InitVmStats, VmInitDone, Continue, Return, RunInv
<1>7. CASE CreateKillSem \/ SendKill \/ AwaitPager
  BY <1>2, <1>7 DEF CreateKillSem, SendKill, AwaitPager, Continue, RunInv
<1>8. CASE LastStats \/ FreeTables
  <2>1. CASE LastStats /\ ~LockHalts(mode)
    BY <1>2, <2>1 DEF LastStats, Continue, RunInv
  <2>2. CASE FreeTables /\ tables # "freed"
    BY <1>2, <2>2 DEF FreeTables, Continue, Return
  <2> QED BY <1>1, <1>8, <2>1, <2>2 DEF LastStats, FreeTables
<1> QED BY <1>1, <1>3, <1>4, <1>5, <1>6, <1>7, <1>8 DEF InCall, VmInit, VmDestroy

LEMMA RunUser ==
    ASSUME TypeInv, RunInv, NEW u \in Users,
           Spawn(u) \/ PageFault(u) \/ Handler(u) \/ WakeStart5(u) \/ Terminate(u)
    PROVE  RunInv'
<1>1. CASE \E why : Halt(why)
  BY <1>1, RunHalt
<1>2. ASSUME NEW to \in UserPc \ {"unborn", "dead"}, upc' = [upc EXCEPT ![u] = to], cur' = cur,
             mode' = mode, s5' = s5 \/ (s5 = "sleep" /\ s5' = "program")
      PROVE  RunInv'
  <2>1. Live \subseteq Live'
    BY <1>2, MailTypes DEF Live
  <2> QED BY <1>2, <2>1 DEF RunInv
<1>3. {"user", "count", "send", "wait", "unlock", "exit"} \subseteq UserPc \ {"unborn", "dead"}
  BY DEF UserPc
<1>4. CASE Spawn(u) /\ ~(VMInitialized /\ sems = MAXSEMS)
  <2>1. /\ upc' = [upc EXCEPT ![u] = "user"]
        /\ UNCHANGED <<cur, mode, s5>>
    BY <1>4 DEF Spawn, calls
  <2> QED BY <1>2, <1>3, <2>1
<1>5. CASE PageFault(u) /\ mmuOn
  <2>1. upc' = [upc EXCEPT ![u] = "count"] /\ UNCHANGED <<cur, mode, s5>>
    BY <1>5 DEF PageFault, UserStep
  <2> QED BY <1>2, <1>3, <2>1
<1>6. CASE CountFault(u)
  <2>1. upc' = [upc EXCEPT ![u] = "send"] /\ UNCHANGED <<cur, mode, s5>>
    BY <1>6 DEF CountFault, UserStep
  <2> QED BY <1>2, <1>3, <2>1
<1>7. CASE SendFault(u)
  <2>1. upc' = [upc EXCEPT ![u] = "wait"] /\ UNCHANGED <<cur, mode, s5>>
    BY <1>7 DEF SendFault, UserStep
  <2> QED BY <1>2, <1>3, <2>1
<1>8. CASE Resume(u)
  <2>1. upc' = [upc EXCEPT ![u] = AfterFault(answer[u])] /\ UNCHANGED <<cur, mode, s5>>
    BY <1>8 DEF Resume, UserStep
  <2>2. AfterFault(answer[u]) \in {"unlock", "send", "exit"}
    BY DEF AfterFault
  <2> QED BY <1>2, <1>3, <2>1, <2>2
<1>9. CASE UnlockFrame(u) /\ tables = "allocated"
  <2>1. upc' = [upc EXCEPT ![u] = "user"] /\ UNCHANGED <<cur, mode, s5>>
    BY <1>9 DEF UnlockFrame, UserStep
  <2> QED BY <1>2, <1>3, <2>1
<1>10. CASE WakeStart5(u)
  <2>1. /\ upc' = [upc EXCEPT ![u] = "user"] /\ UNCHANGED <<cur, mode>>
        /\ s5 = "sleep" /\ s5' = "program"
    BY <1>10 DEF WakeStart5, UserStep
  <2> QED BY <1>2, <1>3, <2>1
<1>11. CASE Terminate(u) /\ ~QuitHalts(u)
  <2>1. cur' = System /\ mode' = mode /\ (s5' = s5 \/ (s5 = "sleep" /\ s5' = "program"))
    BY <1>11 DEF Terminate
  <2> QED BY <2>1, Distinct DEF RunInv
<1> QED BY <1>1, <1>4, <1>5, <1>6, <1>7, <1>8, <1>9, <1>10, <1>11
        DEF Spawn, PageFault, Handler, UnlockFrame, Terminate

LEMMA RunPager ==
    ASSUME RunInv, NEW p \in Pagers, Pager(p) \/ Transferred(p) \/ Zap(p)
    PROVE  RunInv'
<1>1. CASE \E why : Halt(why)
  BY <1>1, RunHalt
<1>2. CASE UNCHANGED <<cur, upc, mode, s5>>
  BY <1>2 DEF RunInv, Live
<1>3. CASE \E from, to, pid : PagerStep(p, from, to, pid)
  BY <1>2, <1>3 DEF PagerStep, calls
<1>4. CASE Transferred(p) \/ Zap(p)
  BY <1>2, <1>4 DEF Transferred, Zap, calls
<1> QED BY <1>1, <1>3, <1>4 DEF Pager, GiveUp, Receive, NoFrame, UpdateTables, NoBlock,
        MapAndAnswer, LeaveLoop, Answer

LEMMA RunSwitch ==
    ASSUME RunInv, NEW x \in Process, p1_switch(x)
    PROVE  RunInv'
<1>1. CASE \E why : Halt(why)
  BY <1>1, RunHalt
<1>2. CASE cur' = x /\ UNCHANGED <<mode, s5, upc>>
  <2>1. x \in Users => x \in Live
    BY Distinct DEF p1_switch, Schedulable, Runnable
  <2> QED BY <1>2, <2>1 DEF RunInv, Live
<1> QED BY <1>1, <1>2 DEF p1_switch, calls

LEMMA NextRuns == TypeInv /\ RunInv /\ Next /\ ~PrintStats => RunInv'
BY RunSwitch, RunCall, RunPager, RunUser DEF Next

-----------------------------------------------------------------------------
(* What halts the machine.                                                   *)

\* The cases of HaltsNeedMisuse, before the step that halts.
Misused(why) ==
    \/ s5 = "program" /\ mmuOn /\ tables = "allocated" /\ why = "mmu"
    \/ s5 = "free" /\ tables = "freed"
    \/ ~mmuOn /\ \E u \in Live : u \in entry \cup resident \/ upc[u] # "user"
    \/ why = "semaphore" /\ sems = MAXSEMS

LEMMA HaltOfMisuse ==
    ASSUME NEW why, Halt(why), Misused(why)
    PROVE  HaltsNeedMisuse'
BY DEF Halt, Misused, HaltsNeedMisuse, Live, calls, machine, slots

\* Without the tables the MMU is off.
LEMMA TablesWithMmu ==
    ASSUME PhaseInv, tables # "allocated"
    PROVE  ~mmuOn
BY DEF PhaseInv, InInit, InDestroy

LEMMA MmuInHook ==
    ASSUME MachineInv, NEW x \in Process, p1_switch(x)
    PROVE  HaltsNeedMisuse'
<1>1. CASE halted' = "no"
  BY <1>1 DEF HaltsNeedMisuse
<1>2. CASE VMInitialized /\ {cur, x} \cap resident # {} /\ ~mmuOn
  <2>1. Halt("mmu")
    BY <1>2 DEF p1_switch
  <2>2. PICK u \in {cur, x} : u \in resident
    BY <1>2
  <2>3. u \in Users
    BY <2>2 DEF MachineInv, KillInv, TypeInv, LifecycleTypeOK
  <2>4. u \in Live
    BY <2>2, <2>3, Distinct DEF p1_switch, Schedulable, Runnable, MachineInv, RunInv
  <2>5. Misused("mmu")
    BY <1>2, <2>2, <2>4 DEF Misused
  <2> QED BY <2>1, <2>5, HaltOfMisuse
<1> QED BY <1>1, <1>2 DEF p1_switch

LEMMA HaltInCall ==
    ASSUME MachineInv, halted = "no",
           \/ InCall \/ VmDestroy \/ Sleep \/ DiskSize \/ \E a \in InitArgs : VmInit(a)
    PROVE  HaltsNeedMisuse'
<1>1. CASE halted' = "no"
  BY <1>1 DEF HaltsNeedMisuse
<1>2. s5 = "program" => mode = "user"
  BY DEF MachineInv, RunInv
<1>3. ASSUME NEW a \in InitArgs, VmInit(a), mmuOn, ~BadArgs(a)
      PROVE  HaltsNeedMisuse'
  <2>1. s5 = "program" /\ Halt("mmu")
    BY <1>2, <1>3 DEF VmInit, InProgram
  <2>2. Misused("mmu")
    BY <1>3, <2>1 DEF Misused, MachineInv, KillInv, PhaseInv, InInit, InDestroy
  <2> QED BY <2>1, <2>2, HaltOfMisuse
<1>4. CASE FreeTables /\ tables = "freed"
  <2>1. s5 = "free" /\ Halt("freed")
    BY <1>4 DEF FreeTables
  <2> QED BY <1>4, <2>1, HaltOfMisuse DEF Misused
<1>5. ASSUME NEW a \in InitArgs, VmInit(a), BadArgs(a) \/ ~mmuOn
      PROVE  halted' = "no"
  BY <1>2, <1>5 DEF VmInit, Continue, InProgram
<1>6. CASE LastStats
  <2>1. ~LockHalts(mode)
    BY LockIsRight DEF MachineInv, KillInv
  <2> QED BY <1>1, <1>6, <2>1 DEF LastStats, Continue
<1>7. CASE VmDestroy \/ Sleep \/ DiskSize
  BY <1>1, <1>2, <1>7 DEF VmDestroy, Sleep, DiskSize, Continue, InProgram
<1>8. CASE CreateFaultsMbox \/ (\E p \in Pagers : ForkPager(p)) \/ InitVmStats \/ VmInitDone
  BY <1>1, <1>8 DEF CreateFaultsMbox, ForkPager, InitVmStats, VmInitDone, Continue
<1>9. CASE CreateKillSem \/ SendKill \/ AwaitPager \/ (FreeTables /\ tables # "freed")
  BY <1>1, <1>9 DEF CreateKillSem, SendKill, AwaitPager, FreeTables, Continue
<1> QED BY <1>1, <1>3, <1>4, <1>5, <1>6, <1>7, <1>8, <1>9 DEF InCall

\* A pager that serves a child, in a VM region that is being destroyed or has been: the child
\* is alive.  Where the tables have been freed, VmDestroy had no semaphore.
LEMMA HaltInPager ==
    ASSUME MachineInv, halted = "no", NEW p \in Pagers, Pager(p) \/ Transferred(p) \/ Zap(p)
    PROVE  HaltsNeedMisuse'
<1>1. CASE halted' = "no"
  BY <1>1 DEF HaltsNeedMisuse
<1>2. ASSUME ~mmuOn, Serves(p), NEW why, Halt(why)
      PROVE  HaltsNeedMisuse'
  <2>1. job[p] \in Users /\ upc[job[p]] = "wait"
    BY <1>2, MailTypes DEF MachineInv, KillInv, AskInv, Asks
  <2>2. job[p] \in Live
    BY <2>1 DEF Live
  <2>3. Misused(why)
    BY <1>2, <2>1, <2>2 DEF Misused
  <2> QED BY <1>2, <2>3, HaltOfMisuse
<1>3. CASE UpdateTables(p)
  <2>1. Serves(p)
    BY <1>3 DEF UpdateTables, Serves
  <2>2. tables # "allocated" => ~mmuOn
    BY TablesWithMmu DEF MachineInv, KillInv
  <2> QED BY <1>1, <1>2, <1>3, <2>1, <2>2 DEF UpdateTables, PagerStep
<1>4. CASE MapAndAnswer(p)
  <2>1. Serves(p)
    BY <1>4 DEF MapAndAnswer, Answer, PagerStep, Serves
  <2> QED BY <1>1, <1>2, <1>4, <2>1 DEF MapAndAnswer, Answer, PagerStep
<1>5. CASE GiveUp(p) \/ Receive(p) \/ NoFrame(p) \/ NoBlock(p) \/ LeaveLoop(p)
  BY <1>1, <1>5 DEF GiveUp, Receive, NoFrame, NoBlock, LeaveLoop, Answer, PagerStep
<1>6. CASE Transferred(p) \/ Zap(p)
  BY <1>1, <1>6 DEF Transferred, Zap
<1> QED BY <1>3, <1>4, <1>5, <1>6 DEF Pager

LEMMA HaltInUser ==
    ASSUME MachineInv, halted = "no", NEW u \in Users,
           Spawn(u) \/ PageFault(u) \/ Handler(u) \/ WakeStart5(u) \/ Terminate(u)
    PROVE  HaltsNeedMisuse'
<1>1. CASE halted' = "no"
  BY <1>1 DEF HaltsNeedMisuse
<1>2. CASE Spawn(u)
  <2>1. CASE VMInitialized /\ sems = MAXSEMS
    BY <1>2, <2>1, HaltOfMisuse DEF Spawn, Misused
  <2>2. CASE ~(VMInitialized /\ sems = MAXSEMS)
    BY <1>1, <1>2, <2>2 DEF Spawn
  <2> QED BY <2>1, <2>2
<1>3. CASE PageFault(u)
  <2>1. CASE ~mmuOn
    <3>1. u \in Live /\ u \in entry /\ Halt("mmu")
      BY <1>3, <2>1 DEF PageFault, Live
    <3>2. Misused("mmu")
      BY <2>1, <3>1 DEF Misused
    <3> QED BY <3>1, <3>2, HaltOfMisuse
  <2>2. CASE mmuOn
    BY <1>1, <1>3, <2>2 DEF PageFault, UserStep
  <2> QED BY <2>1, <2>2
<1>4. CASE UnlockFrame(u)
  <2>1. CASE tables # "allocated"
    <3>1. u \in Live /\ upc[u] # "user" /\ Halt("freed") /\ ~mmuOn
      BY <1>4, <2>1, TablesWithMmu DEF UnlockFrame, Live, MachineInv, KillInv
    <3>2. Misused("freed")
      BY <3>1 DEF Misused
    <3> QED BY <3>1, <3>2, HaltOfMisuse
  <2>2. CASE tables = "allocated"
    BY <1>1, <1>4, <2>2 DEF UnlockFrame, UserStep
  <2> QED BY <2>1, <2>2
<1>5. CASE Terminate(u)
  <2>1. CASE QuitHalts(u)
    <3>1. u \in Live /\ u \in resident /\ Halt("mmu") /\ ~mmuOn
      BY <1>5, <2>1 DEF Terminate, QuitHalts, Live
    <3>2. Misused("mmu")
      BY <3>1 DEF Misused
    <3> QED BY <3>1, <3>2, HaltOfMisuse
  <2>2. CASE ~QuitHalts(u)
    BY <1>1, <1>5, <2>2 DEF Terminate
  <2> QED BY <2>1, <2>2
<1>6. CASE CountFault(u) \/ SendFault(u) \/ Resume(u) \/ WakeStart5(u)
  BY <1>1, <1>6 DEF CountFault, SendFault, Resume, WakeStart5, UserStep
<1> QED BY <1>2, <1>3, <1>4, <1>5, <1>6 DEF Handler

\* A machine that has halted takes no step.
LEMMA StepsOfMachine == Next => halted = "no"
<1>1. ASSUME InCall \/ VmDestroy \/ Sleep \/ DiskSize \/ \E a \in InitArgs : VmInit(a)
      PROVE  halted = "no"
  BY <1>1 DEF InCall, CreateFaultsMbox, ForkPager, InitVmStats, VmInitDone, CreateKillSem,
     SendKill, AwaitPager, LastStats, FreeTables, VmDestroy, Sleep, DiskSize, VmInit, InProgram,
     Continue, Running
<1>2. ASSUME NEW p \in Pagers, Pager(p) \/ Transferred(p) \/ Zap(p)
      PROVE  halted = "no"
  BY <1>2 DEF Pager, GiveUp, Receive, NoFrame, UpdateTables, NoBlock, MapAndAnswer, LeaveLoop,
     Answer, Transferred, Zap, PagerStep, Running
<1>3. ASSUME NEW u \in Users,
             Spawn(u) \/ PageFault(u) \/ Handler(u) \/ WakeStart5(u) \/ Terminate(u)
      PROVE  halted = "no"
  BY <1>3 DEF Spawn, PageFault, Handler, CountFault, SendFault, Resume, UnlockFrame, WakeStart5,
     Terminate, UserStep, InProgram, Running
<1>4. ASSUME NEW x \in Process, p1_switch(x) PROVE halted = "no"
  BY <1>4 DEF p1_switch
<1>5. CASE PrintStats
  BY <1>5 DEF PrintStats, InProgram, Running
<1> QED BY <1>1, <1>2, <1>3, <1>4, <1>5 DEF Next

-----------------------------------------------------------------------------

LEMMA InitMachine == Init => MachineInv /\ HaltsNeedMisuse
<1> SUFFICES ASSUME Init PROVE AskInv /\ RunInv /\ HaltsNeedMisuse
  BY InitKills DEF MachineInv
<1>1. AskInv
  <2>1. 1 .. Len(FaultsMbox) = {}
    BY DEF Init
  <2> QED BY <2>1 DEF Init, AskInv, InHandler, Serves
<1>2. RunInv
  BY Distinct DEF Init, RunInv
<1> QED BY <1>1, <1>2 DEF Init, HaltsNeedMisuse

LEMMA NextMachine ==
    MachineInv /\ HaltsNeedMisuse /\ [Next]_vars => (MachineInv /\ HaltsNeedMisuse)'
<1> SUFFICES ASSUME MachineInv, HaltsNeedMisuse, [Next]_vars
             PROVE  (MachineInv /\ HaltsNeedMisuse)'
  OBVIOUS
<1>1. KillInv'
  BY NextKills DEF MachineInv
<1>2. CASE UNCHANGED vars
  BY <1>1, <1>2 DEF vars, calls, machine, objects, slots, MachineInv, AskInv, RunInv,
     HaltsNeedMisuse, Live, Asks, InHandler, Serves
<1>3. CASE Next /\ ~PrintStats
  <2>1. AskInv' /\ RunInv'
    BY <1>3, NextAsks, NextRuns DEF MachineInv, KillInv
  <2>2. HaltsNeedMisuse'
    BY <1>3, StepsOfMachine, MmuInHook, HaltInCall, HaltInPager, HaltInUser DEF Next
  <2> QED BY <1>1, <2>1, <2>2 DEF MachineInv
<1>4. PrintStats => UNCHANGED vars
  BY PrintChangesNothing DEF MachineInv, KillInv
<1> QED BY <1>2, <1>3, <1>4

\* Whatever start5 and its children do, and whoever zaps the pagers, only four things halt
\* the machine: a second VmInit, a second VmDestroy, a VmDestroy with a child of the VM
\* region alive, and a child forked when phase 3 has no semaphore left.  A VmDestroy that
\* gets no semaphore does not halt it.
THEOREM OnlyMisuseHalts == Spec => []HaltsNeedMisuse
<1>1. Spec => [](MachineInv /\ HaltsNeedMisuse)
  BY InitMachine, NextMachine, PTL DEF Spec
<1> QED BY <1>1, PTL

-----------------------------------------------------------------------------
(* A program that pairs its calls of VmInit and VmDestroy, waits for its     *)
(* children before VmDestroy and zaps no pager, with mailboxes and semaphores *)
(* enough for it: nothing halts the machine, what VmInit makes is there when *)
(* it is used and the semaphores balance.                                    *)

Orderly ==
    /\ Disciplined /\ Zappable = {} /\ IsFiniteSet(Users)
    /\ 3 * Sessions <= MAXMBOX /\ Cardinality(Users) + Sessions <= MAXSEMS

\* What start5 has set, and what it knows.
PairInv ==
    /\ InInit \/ InDestroy => ~IsUp
    /\ VMInitialized <=> IsUp \/ InDestroy
    /\ mmuOn <=> IsUp \/ InInit
    /\ tables = "allocated" <=> IsUp \/ InInit \/ InDestroy
    /\ sessions <= Sessions /\ (InInit => sessions < Sessions)

NewMailboxes ==
    CASE s5 = "mailbox" -> 1 [] s5 = "fork" -> 2 [] s5 \in {"diskSize", "stats"} -> 3 [] OTHER -> 0

\* Every object is made before it is needed: three mailboxes a session.
MadeInv ==
    /\ mboxes = 3 * sessions + NewMailboxes
    /\ InInit \/ IsUp \/ InDestroy => handle["FramesMutex"] = "good"
    /\ s5 \in {"fork", "diskSize", "stats"} \/ IsUp \/ InDestroy => handle["FaultsMbox"] = "good"
    /\ s5 \in {"diskSize", "stats"} \/ IsUp \/ InDestroy => handle["vmStatsMutex"] = "good"
    /\ handle["PagerKillSem"] # "error"

\* The children with an entry are alive, while the VM region is up.
ChildInv ==
    /\ privateSem = entry /\ entry \subseteq Live /\ resident \subseteq entry
    /\ ~IsUp => entry = {}
    /\ InDestroy => Live = {}
    /\ SemaphoresBalance

\* One kill at a time, and none but start5's: in the mailbox, with a pager, or signalled.
QuietInv ==
    /\ zapped = {} /\ killSem \in {0, 1}
    /\ InInit \/ IsUp \/ s5 = "killSem" => Gone = {}
    /\ \A p \in Pagers : ppc[p] = "leave" => s5 = "await" /\ killSem = 0 /\ FaultsMbox = <<>>
    /\ \A p, q \in Pagers : ppc[p] = "leave" /\ ppc[q] = "leave" => p = q
    /\ s5 # "await" => killSem = 0 /\ \A k \in 1 .. Len(FaultsMbox) : FaultsMbox[k] # KILL
    /\ s5 = "await" => FaultsMbox = <<>> \/ (FaultsMbox = <<KILL>> /\ killSem = 0)

OrderInv == MachineInv /\ NothingHalts /\ PairInv /\ MadeInv /\ ChildInv /\ QuietInv

-----------------------------------------------------------------------------
(* Nothing halts.                                                            *)

LEMMA MboxTypes ==
    ASSUME TypeInv, Orderly
    PROVE  /\ sessions \in Nat /\ mboxes \in Nat /\ Sessions \in Nat /\ MAXMBOX \in Nat
           /\ MAXSEMS \in Nat /\ sems \in Int /\ Cardinality(Users) \in Nat
           /\ entry \subseteq Process /\ s5 \in S5Pc
BY LifecycleAssumption, FS_CardinalityType DEF TypeInv, LifecycleTypeOK, Orderly

\* A child in FaultHandler, or served by a pager, has an entry: the VM region is up.
LEMMA InHandlerIsUp ==
    ASSUME OrderInv, NEW u \in Users, InHandler(u) \/ (\E p \in Pagers : Serves(p) /\ job[p] = u)
    PROVE  u \in entry /\ u \in privateSem /\ IsUp /\ mmuOn /\ tables = "allocated"
<1>1. InHandler(u)
  BY DEF OrderInv, MachineInv, AskInv, Asks, InHandler
<1>2. u \in privateSem
  BY <1>1 DEF OrderInv, MachineInv, AskInv
<1>3. u \in entry /\ IsUp
  BY <1>2 DEF OrderInv, ChildInv
<1>4. mmuOn
  BY <1>3 DEF OrderInv, PairInv
<1> QED BY <1>2, <1>3, <1>4 DEF OrderInv, PairInv

\* While VmInit and VmDestroy are at work no mapping is in use.
LEMMA HooksAgree ==
    ASSUME OrderInv, VMInitialized, ~mmuOn
    PROVE  resident = {}
BY DEF OrderInv, PairInv, ChildInv

\* There is a semaphore for the next child.
LEMMA SemaphoreLeft ==
    ASSUME OrderInv, Orderly, NEW u \in Users \ entry, VMInitialized, s5 = "program"
    PROVE  sems < MAXSEMS
<1>1. IsUp /\ sessions <= Sessions
  BY DEF OrderInv, PairInv, InDestroy
<1>2. sems = Cardinality(entry) + sessions - 1
  BY <1>1 DEF OrderInv, ChildInv, SemaphoresBalance
<1>3. IsFiniteSet(Users) /\ entry \subseteq Users /\ entry # Users
  BY DEF Orderly, OrderInv, ChildInv, Live
<1>4. Cardinality(entry) \in Nat /\ Cardinality(entry) <= Cardinality(Users)
  BY <1>3, FS_Subset, FS_CardinalityType
<1>5. Cardinality(Users) \in Nat /\ sessions \in Nat /\ Sessions \in Nat /\ MAXSEMS \in Nat
  BY MboxTypes DEF OrderInv, MachineInv, KillInv
<1> QED BY <1>1, <1>2, <1>4, <1>5 DEF Orderly

LEMMA CallsDoNotHalt ==
    ASSUME OrderInv, Orderly,
           \/ InCall \/ VmDestroy \/ Sleep \/ DiskSize \/ \E a \in InitArgs : VmInit(a)
    PROVE  NothingHalts'
<1>1. halted = "no" /\ (s5 = "program" => mode = "user")
  BY DEF OrderInv, NothingHalts, MachineInv, RunInv
<1>2. ASSUME NEW a \in InitArgs, VmInit(a) PROVE halted' = "no"
  <2>1. s5 = "program" /\ ~IsUp
    BY <1>2 DEF VmInit, InProgram, Orderly
  <2>2. ~mmuOn
    BY <2>1 DEF OrderInv, PairInv, InInit
  <2> QED BY <1>1, <1>2, <2>1, <2>2 DEF VmInit, Continue
<1>3. CASE FreeTables
  <2>1. tables = "allocated"
    <3>1. s5 = "free"
      BY <1>3 DEF FreeTables, Continue
    <3> QED BY <3>1 DEF OrderInv, PairInv, InDestroy
  <2> QED BY <1>1, <1>3, <2>1 DEF FreeTables, Continue, NothingHalts
<1>4. CASE LastStats
  <2>1. ~LockHalts(mode)
    BY LockIsRight DEF OrderInv, MachineInv, KillInv
  <2> QED BY <1>1, <1>4, <2>1 DEF LastStats, Continue, NothingHalts
<1>5. CASE VmDestroy \/ Sleep \/ DiskSize
  BY <1>1, <1>5 DEF VmDestroy, Sleep, DiskSize, Continue, InProgram, NothingHalts
<1>6. CASE CreateFaultsMbox \/ (\E p \in Pagers : ForkPager(p)) \/ InitVmStats \/ VmInitDone
  BY <1>1, <1>6 DEF CreateFaultsMbox, ForkPager, InitVmStats, VmInitDone, Continue, NothingHalts
<1>7. CASE CreateKillSem \/ SendKill \/ AwaitPager
  BY <1>1, <1>7 DEF CreateKillSem, SendKill, AwaitPager, Continue, NothingHalts
<1> QED BY <1>2, <1>3, <1>4, <1>5, <1>6, <1>7 DEF InCall, NothingHalts

LEMMA PagersDoNotHalt ==
    ASSUME OrderInv, NEW p \in Pagers, Pager(p) \/ Transferred(p) \/ Zap(p)
    PROVE  NothingHalts'
<1>1. halted = "no"
  BY DEF OrderInv, NothingHalts
<1>2. Serves(p) => mmuOn /\ tables = "allocated"
  BY InHandlerIsUp, MailTypes DEF OrderInv, MachineInv, KillInv
<1>3. CASE UpdateTables(p)
  <2>1. Serves(p)
    BY <1>3 DEF UpdateTables, Serves
  <2> QED BY <1>1, <1>2, <1>3, <2>1 DEF UpdateTables, PagerStep, NothingHalts
<1>4. CASE MapAndAnswer(p)
  <2>1. Serves(p)
    BY <1>4 DEF MapAndAnswer, Answer, PagerStep, Serves
  <2> QED BY <1>1, <1>2, <1>4, <2>1 DEF MapAndAnswer, Answer, PagerStep, NothingHalts
<1>5. CASE GiveUp(p) \/ Receive(p) \/ NoFrame(p) \/ NoBlock(p) \/ LeaveLoop(p)
  BY <1>1, <1>5 DEF GiveUp, Receive, NoFrame, NoBlock, LeaveLoop, Answer, PagerStep, NothingHalts
<1>6. CASE Transferred(p) \/ Zap(p)
  BY <1>1, <1>6 DEF Transferred, Zap, NothingHalts
<1> QED BY <1>3, <1>4, <1>5, <1>6 DEF Pager

LEMMA UsersDoNotHalt ==
    ASSUME OrderInv, Orderly, NEW u \in Users,
           Spawn(u) \/ PageFault(u) \/ Handler(u) \/ WakeStart5(u) \/ Terminate(u)
    PROVE  NothingHalts'
<1>1. halted = "no"
  BY DEF OrderInv, NothingHalts
<1>2. CASE Spawn(u)
  <2>1. s5 = "program" /\ u \notin entry
    BY <1>2 DEF Spawn, InProgram, OrderInv, ChildInv, Live
  <2>2. ~(VMInitialized /\ sems = MAXSEMS)
    <3>1. VMInitialized => sems < MAXSEMS
      BY <2>1, SemaphoreLeft
    <3>2. sems \in Int /\ MAXSEMS \in Nat
      BY MboxTypes DEF OrderInv, MachineInv, KillInv
    <3> QED BY <3>1, <3>2
  <2> QED BY <1>1, <1>2, <2>2 DEF Spawn, NothingHalts
<1>3. CASE PageFault(u)
  <2>1. mmuOn
    <3>1. IsUp
      BY <1>3 DEF PageFault, OrderInv, ChildInv
    <3> QED BY <3>1 DEF OrderInv, PairInv
  <2> QED BY <1>1, <1>3, <2>1 DEF PageFault, UserStep, NothingHalts
<1>4. CASE UnlockFrame(u)
  <2>1. InHandler(u)
    BY <1>4 DEF UnlockFrame, UserStep, InHandler
  <2>2. tables = "allocated"
    BY <2>1, InHandlerIsUp
  <2> QED BY <1>1, <1>4, <2>2 DEF UnlockFrame, UserStep, NothingHalts
<1>5. CASE Terminate(u)
  <2>1. ~QuitHalts(u)
    BY HooksAgree DEF QuitHalts
  <2> QED BY <1>1, <1>5, <2>1 DEF Terminate, NothingHalts
<1>6. CASE CountFault(u) \/ SendFault(u) \/ Resume(u) \/ WakeStart5(u)
  BY <1>1, <1>6 DEF CountFault, SendFault, Resume, WakeStart5, UserStep, NothingHalts
<1> QED BY <1>2, <1>3, <1>4, <1>5, <1>6 DEF Handler

LEMMA SwitchDoesNotHalt ==
    ASSUME OrderInv, NEW x \in Process, p1_switch(x)
    PROVE  NothingHalts'
BY HooksAgree DEF p1_switch, OrderInv, NothingHalts
-----------------------------------------------------------------------------
(* The calls are paired, and find and leave what they made.                  *)

SameCall == s5' = s5 \/ {s5, s5'} \subseteq {"program", "sleep"}

LEMMA PairKept ==
    ASSUME PairInv, MadeInv, SameCall,
           UNCHANGED <<status, VMInitialized, mmuOn, tables, sessions, handle, mboxes>>
    PROVE  PairInv' /\ MadeInv'
<1>1. PairInv'
  BY DEF PairInv, InInit, InDestroy, IsUp, SameCall
<1>2. NewMailboxes' = NewMailboxes
  BY DEF SameCall, NewMailboxes
<1>3. MadeInv'
  BY <1>2 DEF MadeInv, InInit, InDestroy, IsUp, SameCall
<1> QED BY <1>1, <1>3

\* There is a mailbox for each of the three objects.
LEMMA MailboxMade ==
    ASSUME TypeInv, Orderly, PairInv, MadeInv, NEW o \in MutexesAndMailbox, MboxCreate(o),
           IF s5 = "program" THEN sessions < Sessions ELSE s5 \in {"mailbox", "fork"}
    PROVE  /\ handle'[o] = "good" /\ mboxes' = mboxes + 1
           /\ \A x \in Objects \ {o} : handle'[x] = handle[x]
<1>1. mboxes < MAXMBOX
  <2>1. sessions < Sessions
    BY DEF PairInv, InInit
  <2>2. mboxes <= 3 * sessions + 2
    BY MboxTypes DEF MadeInv, NewMailboxes
  <2> QED BY <2>1, <2>2, MboxTypes DEF Orderly
<1>2. o \in Objects /\ (mboxes < MAXMBOX) \in BOOLEAN
      /\ handle \in [Objects -> {"unset", "good", "error"}]
  BY DEF Objects, TypeInv, LifecycleTypeOK
<1>3. /\ handle'[o] = IF mboxes < MAXMBOX THEN "good" ELSE "error"
      /\ \A x \in Objects \ {o} : handle'[x] = handle[x]
  BY <1>2, CreatedTypes DEF MboxCreate
<1> QED BY <1>1, <1>3 DEF MboxCreate

LEMMA PairVmInit ==
    ASSUME TypeInv, Orderly, PairInv, MadeInv, NothingHalts', NEW a \in InitArgs, VmInit(a)
    PROVE  PairInv' /\ MadeInv'
<1>1. s5 = "program" /\ ~IsUp /\ sessions < Sessions /\ mode = "user"
  BY DEF VmInit, InProgram, Orderly, Halt, NothingHalts
<1>2. CASE BadArgs(a)
  <2>1. /\ UNCHANGED <<VMInitialized, mmuOn, tables, sessions, handle, mboxes, s5>>
        /\ status' = -1
    BY <1>1, <1>2 DEF VmInit, Continue, machine, objects
  <2>2. PairInv'
    BY <1>1, <2>1 DEF PairInv, InInit, InDestroy, IsUp
  <2>3. MadeInv'
    BY <1>1, <2>1 DEF MadeInv, InInit, InDestroy, IsUp, NewMailboxes
  <2> QED BY <2>2, <2>3
<1>3. CASE ~BadArgs(a)
  <2>1. /\ s5' = "mailbox" /\ mmuOn' = TRUE /\ tables' = "allocated"
        /\ MboxCreate("FramesMutex") /\ UNCHANGED <<status, VMInitialized, sessions>>
    BY <1>1, <1>3 DEF VmInit, Continue, Halt, NothingHalts
  <2>2. PairInv'
    BY <1>1, <2>1 DEF PairInv, InInit, InDestroy, IsUp
  <2>3. /\ handle'["FramesMutex"] = "good" /\ mboxes' = mboxes + 1
        /\ handle'["PagerKillSem"] = handle["PagerKillSem"]
    BY <1>1, <2>1, MailboxMade DEF MutexesAndMailbox, Objects
  <2>4. MadeInv'
    BY <1>1, <2>1, <2>3, MboxTypes DEF MadeInv, InInit, InDestroy, IsUp, NewMailboxes
  <2> QED BY <2>2, <2>4
<1> QED BY <1>2, <1>3

LEMMA PairCreate ==
    ASSUME TypeInv, Orderly, PairInv, MadeInv, CreateFaultsMbox \/ InitVmStats
    PROVE  PairInv' /\ MadeInv'
<1>1. UNCHANGED <<status, VMInitialized, mmuOn, tables, sessions>>
  BY DEF CreateFaultsMbox, InitVmStats, Continue, machine
<1>2. CASE CreateFaultsMbox
  <2>1. s5 = "mailbox" /\ s5' = "fork" /\ MboxCreate("FaultsMbox")
    BY <1>2 DEF CreateFaultsMbox, Continue
  <2>2. /\ handle'["FaultsMbox"] = "good" /\ mboxes' = mboxes + 1
        /\ \A x \in {"FramesMutex", "PagerKillSem"} : handle'[x] = handle[x]
    BY <2>1, MailboxMade DEF MutexesAndMailbox, Objects
  <2>3. PairInv'
    BY <1>1, <2>1 DEF PairInv, InInit, InDestroy, IsUp
  <2>4. MadeInv'
    BY <1>1, <2>1, <2>2, MboxTypes DEF PairInv, MadeInv, InInit, InDestroy, IsUp, NewMailboxes
  <2> QED BY <2>3, <2>4
<1>3. CASE InitVmStats
  <2>1. s5 = "fork" /\ s5' = "diskSize" /\ MboxCreate("vmStatsMutex")
    BY <1>3 DEF InitVmStats, Continue
  <2>2. /\ handle'["vmStatsMutex"] = "good" /\ mboxes' = mboxes + 1
        /\ \A x \in {"FramesMutex", "FaultsMbox", "PagerKillSem"} : handle'[x] = handle[x]
    BY <2>1, MailboxMade DEF MutexesAndMailbox, Objects
  <2>3. PairInv'
    BY <1>1, <2>1 DEF PairInv, InInit, InDestroy, IsUp
  <2>4. MadeInv'
    BY <1>1, <2>1, <2>2, MboxTypes DEF PairInv, MadeInv, InInit, InDestroy, IsUp, NewMailboxes
  <2> QED BY <2>3, <2>4
<1> QED BY <1>2, <1>3

\* VmInit to its end.
LEMMA PairInitEnds ==
    ASSUME TypeInv, Orderly, PairInv, MadeInv,
           (\E p \in Pagers : ForkPager(p)) \/ DiskSize \/ VmInitDone
    PROVE  PairInv' /\ MadeInv'
<1>1. CASE \E p \in Pagers : ForkPager(p)
  <2>1. /\ s5' = s5
        /\ UNCHANGED <<status, VMInitialized, mmuOn, tables, sessions, handle, mboxes>>
    BY <1>1 DEF ForkPager, Continue, machine, objects
  <2> QED BY <2>1, PairKept DEF SameCall
<1>2. UNCHANGED <<mmuOn, tables, handle, mboxes>>
  BY DEF ForkPager, DiskSize, VmInitDone, machine, objects
<1>3. CASE DiskSize
  <2>1. s5 = "diskSize" /\ s5' = "stats" /\ UNCHANGED <<status, VMInitialized, sessions>>
    BY <1>3 DEF DiskSize
  <2>2. PairInv'
    BY <1>2, <2>1 DEF PairInv, InInit, InDestroy, IsUp
  <2>3. MadeInv'
    BY <1>2, <2>1 DEF MadeInv, InInit, InDestroy, IsUp, NewMailboxes
  <2> QED BY <2>2, <2>3
<1>4. CASE VmInitDone
  <2>1. s5 = "stats" /\ s5' = "program" /\ status' = 0 /\ VMInitialized' = TRUE
        /\ sessions' = sessions + 1
    BY <1>4 DEF VmInitDone, Continue
  <2>2. PairInv'
    BY <1>2, <2>1, MboxTypes DEF PairInv, InInit, InDestroy, IsUp
  <2>3. MadeInv'
    BY <1>2, <2>1, MboxTypes DEF MadeInv, InInit, InDestroy, IsUp, NewMailboxes
  <2> QED BY <2>2, <2>3
<1> QED BY <1>1, <1>3, <1>4

LEMMA PairVmDestroy ==
    ASSUME TypeInv, Orderly, PairInv, MadeInv, NothingHalts', VmDestroy
    PROVE  PairInv' /\ MadeInv'
<1>1. s5 = "program" /\ IsUp /\ mode = "user"
  BY DEF VmDestroy, InProgram, Orderly, Halt, NothingHalts
<1>2. /\ s5' = "killSem" /\ status' = NONE /\ mmuOn' = FALSE
      /\ UNCHANGED <<VMInitialized, tables, sessions, handle, mboxes>>
  BY <1>1 DEF VmDestroy, Continue, objects
<1>3. PairInv'
  BY <1>1, <1>2 DEF PairInv, InInit, InDestroy, IsUp, NONE
<1>4. MadeInv'
  BY <1>1, <1>2 DEF MadeInv, InInit, InDestroy, IsUp, NONE, NewMailboxes
<1> QED BY <1>3, <1>4

\* VmDestroy from its semaphore to its end.
LEMMA PairCreateKillSem ==
    ASSUME TypeInv, Orderly, PairInv, MadeInv, ChildInv, CreateKillSem
    PROVE  /\ PairInv' /\ MadeInv'
           /\ sems' = sems + 1
<1>1. /\ s5 = "killSem" /\ s5' = "kill"
      /\ UNCHANGED <<status, VMInitialized, mmuOn, tables, sessions, mboxes>>
  BY DEF CreateKillSem, Continue, machine
<1>2. sems < MAXSEMS
  <2>1. entry = {} /\ sems = Cardinality(entry) + sessions - 1 /\ sessions <= Sessions
    BY <1>1 DEF PairInv, ChildInv, SemaphoresBalance, InDestroy
  <2> QED BY <2>1, MboxTypes, FS_EmptySet DEF Orderly
<1>3. /\ handle'["PagerKillSem"] = IF sems < MAXSEMS THEN "good" ELSE "error"
      /\ \A x \in Objects \ {"PagerKillSem"} : handle'[x] = handle[x]
  <2>1. "PagerKillSem" \in Objects /\ (sems < MAXSEMS) \in BOOLEAN
        /\ handle \in [Objects -> {"unset", "good", "error"}]
    BY DEF Objects, TypeInv, LifecycleTypeOK
  <2> QED BY <2>1, CreatedTypes DEF CreateKillSem
<1>4. handle'["PagerKillSem"] = "good" /\ \A x \in MutexesAndMailbox : handle'[x] = handle[x]
  BY <1>2, <1>3 DEF Objects, MutexesAndMailbox
<1>5. PairInv'
  BY <1>1 DEF PairInv, InInit, InDestroy, IsUp
<1>6. MadeInv'
  BY <1>1, <1>4 DEF MadeInv, InInit, InDestroy, IsUp, NewMailboxes, MutexesAndMailbox
<1> QED BY <1>2, <1>5, <1>6 DEF CreateKillSem

LEMMA PairDestroyEnds ==
    ASSUME TypeInv, Orderly, PairInv, MadeInv, NothingHalts',
           SendKill \/ AwaitPager \/ LastStats \/ FreeTables
    PROVE  PairInv' /\ MadeInv'
<1>1. /\ s5 \in {"kill", "await", "free"} /\ s5' \in {"kill", "await", "free", "program"}
      /\ s5' = "program" <=> s5 = "free"
  BY DEF SendKill, AwaitPager, LastStats, FreeTables, Continue, Halt, NothingHalts
<1>2. /\ UNCHANGED <<status, mmuOn, sessions, handle, mboxes>>
      /\ VMInitialized' = IF s5 = "free" THEN FALSE ELSE VMInitialized
      /\ tables' = IF s5 = "free" THEN "freed" ELSE tables
  <2>1. CASE FreeTables
    BY <2>1 DEF FreeTables, Continue, objects, Halt, NothingHalts
  <2>2. CASE LastStats
    BY <2>2 DEF LastStats, Continue, machine, objects, Halt, NothingHalts
  <2>3. CASE SendKill \/ AwaitPager
    BY <2>3 DEF SendKill, AwaitPager, Continue, machine
  <2> QED BY <2>1, <2>2, <2>3
<1>3. PairInv'
  BY <1>1, <1>2 DEF PairInv, InInit, InDestroy, IsUp
<1>4. MadeInv'
  BY <1>1, <1>2 DEF PairInv, MadeInv, InInit, InDestroy, IsUp, NewMailboxes
<1> QED BY <1>3, <1>4

LEMMA NextPairs ==
    ASSUME OrderInv, Orderly, Next, ~PrintStats, NothingHalts'
    PROVE  PairInv' /\ MadeInv'
<1> USE DEF OrderInv, MachineInv, KillInv
<1>1. CASE InCall \/ VmDestroy \/ DiskSize \/ \E a \in InitArgs : VmInit(a)
  BY <1>1, PairVmInit, PairCreate, PairInitEnds, PairVmDestroy, PairCreateKillSem,
     PairDestroyEnds DEF InCall
<1>2. CASE Sleep
  BY <1>2, PairKept DEF Sleep, InProgram, SameCall, machine, objects
<1>3. ASSUME NEW x \in Process, p1_switch(x) PROVE PairInv' /\ MadeInv'
  BY <1>3, PairKept DEF p1_switch, Halt, NothingHalts, SameCall, calls, machine, objects
<1>4. ASSUME NEW p \in Pagers, Pager(p) \/ Transferred(p) \/ Zap(p) PROVE PairInv' /\ MadeInv'
  <2>1. /\ s5' = s5
        /\ UNCHANGED <<status, VMInitialized, mmuOn, tables, sessions, handle, mboxes>>
    BY <1>4 DEF Pager, GiveUp, Receive, NoFrame, UpdateTables, NoBlock, MapAndAnswer, LeaveLoop,
       Answer, PagerStep, Transferred, Zap, Halt, NothingHalts, calls, machine, objects
  <2> QED BY <2>1, PairKept DEF SameCall
<1>5. ASSUME NEW u \in Users,
             Spawn(u) \/ PageFault(u) \/ Handler(u) \/ WakeStart5(u) \/ Terminate(u)
      PROVE  PairInv' /\ MadeInv'
  <2>1. UNCHANGED <<status, VMInitialized, mmuOn, tables, sessions, handle, mboxes>>
    BY <1>5 DEF Spawn, PageFault, Handler, CountFault, SendFault, Resume, UnlockFrame, WakeStart5,
       Terminate, UserStep, Halt, NothingHalts, calls, machine, objects
  <2>2. SameCall
    BY <1>5 DEF Spawn, PageFault, Handler, CountFault, SendFault, Resume, UnlockFrame, WakeStart5,
       Terminate, UserStep, Halt, NothingHalts, calls, SameCall
  <2> QED BY <2>1, <2>2, PairKept
<1> QED BY <1>1, <1>2, <1>3, <1>4, <1>5 DEF Next
-----------------------------------------------------------------------------
(* The children of the VM region, and its semaphores.                        *)

LEMMA ChildKept ==
    ASSUME ChildInv, SameCall, UNCHANGED <<privateSem, entry, sems, sessions, status>>,
           Live' = Live, resident' \subseteq entry
    PROVE  ChildInv'
<1>1. SemaphoresBalance'
  BY DEF ChildInv, SemaphoresBalance, SameCall, IsUp
<1> QED BY <1>1 DEF ChildInv, SameCall, IsUp, InDestroy

\* Inside a call of VmInit or VmDestroy there is no entry.
LEMMA ChildNone ==
    ASSUME ChildInv, ~IsUp, ~IsUp', UNCHANGED <<privateSem, sems, sessions, Live>>,
           entry' = {}, resident' = {}, s5 # "killSem", s5' # "killSem",
           InDestroy' => InDestroy
    PROVE  ChildInv'
BY DEF ChildInv, SemaphoresBalance

LEMMA ChildVmInit ==
    ASSUME Orderly, ChildInv, NothingHalts', NEW a \in InitArgs, VmInit(a)
    PROVE  ChildInv'
<1>1. s5 = "program" /\ ~IsUp /\ mode = "user" /\ entry = {} /\ resident = {}
  BY DEF VmInit, InProgram, Orderly, Halt, NothingHalts, ChildInv
<1>2. UNCHANGED <<privateSem, sems, sessions, Live>>
  BY <1>1 DEF VmInit, Continue, Live, slots, Halt, NothingHalts
<1>3. ~IsUp' /\ entry' = {} /\ resident' = {} /\ s5' \in {"program", "mailbox"}
  BY <1>1 DEF VmInit, Continue, IsUp, slots, Halt, NothingHalts
<1> QED BY <1>1, <1>2, <1>3, ChildNone DEF InDestroy

LEMMA ChildInInit ==
    ASSUME PairInv, ChildInv,
           \/ CreateFaultsMbox \/ (\E p \in Pagers : ForkPager(p)) \/ InitVmStats \/ DiskSize
    PROVE  ChildInv'
<1>1. InInit /\ InInit' /\ ~IsUp /\ ~VMInitialized
  BY DEF CreateFaultsMbox, ForkPager, InitVmStats, DiskSize, Continue, InInit, PairInv, InDestroy
<1>2. /\ UNCHANGED <<privateSem, entry, resident, sems, sessions>> /\ Live' = Live
      /\ status' = status
  BY <1>1 DEF CreateFaultsMbox, ForkPager, InitVmStats, DiskSize, Continue, Live, slots, p1_fork
<1>3. entry = {} /\ resident = {} /\ ~IsUp'
  BY <1>1, <1>2 DEF ChildInv, IsUp
<1> QED BY <1>1, <1>2, <1>3, ChildNone DEF InInit, InDestroy

LEMMA ChildVmInitDone ==
    ASSUME TypeInv, Orderly, PairInv, ChildInv, VmInitDone
    PROVE  ChildInv'
<1>1. /\ s5 = "stats" /\ s5' = "program" /\ status' = 0 /\ sessions' = sessions + 1
      /\ UNCHANGED <<privateSem, entry, resident, sems>> /\ Live' = Live
  BY DEF VmInitDone, Continue, Live, slots
<1>2. ~IsUp /\ entry = {}
  BY <1>1 DEF PairInv, InInit, ChildInv
<1>3. SemaphoresBalance'
  BY <1>1, <1>2, MboxTypes DEF ChildInv, SemaphoresBalance, IsUp
<1> QED BY <1>1, <1>2, <1>3 DEF ChildInv, IsUp, InDestroy

LEMMA ChildVmDestroy ==
    ASSUME Orderly, ChildInv, NothingHalts', VmDestroy
    PROVE  ChildInv'
<1>1. s5 = "program" /\ IsUp /\ mode = "user" /\ Live = {}
  BY DEF VmDestroy, InProgram, Orderly, Halt, NothingHalts
<1>2. /\ s5' = "killSem" /\ status' = NONE /\ Live' = Live
      /\ UNCHANGED <<privateSem, entry, resident, sems, sessions>>
  BY <1>1 DEF VmDestroy, Continue, Live, slots
<1>3. SemaphoresBalance'
  BY <1>1, <1>2 DEF ChildInv, SemaphoresBalance, IsUp, NONE
<1> QED BY <1>1, <1>2, <1>3 DEF ChildInv

LEMMA ChildInDestroy ==
    ASSUME TypeInv, Orderly, PairInv, MadeInv, ChildInv, NothingHalts',
           CreateKillSem \/ SendKill \/ AwaitPager \/ LastStats \/ FreeTables
    PROVE  ChildInv'
<1>1. InDestroy /\ s5' \notin {"killSem", "sleep"}
  BY DEF CreateKillSem, SendKill, AwaitPager, LastStats, FreeTables, Continue, InDestroy, Halt,
     NothingHalts
<1>2. UNCHANGED <<privateSem, entry, resident, sessions, status>> /\ Live' = Live
  <2>1. CASE CreateKillSem \/ SendKill \/ AwaitPager
    BY <2>1 DEF CreateKillSem, SendKill, AwaitPager, Continue, Live, slots
  <2>2. CASE LastStats \/ FreeTables
    BY <2>2 DEF LastStats, FreeTables, Continue, Live, slots, Halt, NothingHalts
  <2> QED BY <2>1, <2>2
<1>3. ~IsUp /\ ~IsUp' /\ entry = {} /\ resident = {}
  BY <1>1, <1>2 DEF PairInv, ChildInv, IsUp
<1>4. CASE CreateKillSem
  <2>1. sems' = sems + 1 /\ s5 = "killSem"
    BY <1>4, PairCreateKillSem DEF CreateKillSem, Continue
  <2>2. SemaphoresBalance'
    <3>1. sems = Cardinality(entry) + sessions - 1 /\ sems \in Int /\ sessions \in Nat
      BY <2>1, MboxTypes DEF ChildInv, SemaphoresBalance
    <3>2. entry' = {} /\ entry = {} /\ Cardinality({}) = 0 /\ sessions' = sessions
      BY <1>2, <1>3, FS_EmptySet
    <3> QED BY <1>1, <1>3, <2>1, <3>1, <3>2 DEF SemaphoresBalance
  <2> QED BY <1>1, <1>2, <1>3, <2>2 DEF ChildInv
<1>5. CASE SendKill \/ AwaitPager \/ LastStats \/ FreeTables
  <2>1. sems' = sems /\ s5 # "killSem"
    BY <1>5 DEF SendKill, AwaitPager, LastStats, FreeTables, Continue, Halt, NothingHalts
  <2> QED BY <1>1, <1>2, <1>3, <2>1, ChildNone
<1> QED BY <1>4, <1>5

\* A page table names a frame only when it is that of a child with an entry.
LEMMA ChildPager ==
    ASSUME OrderInv, NothingHalts', NEW p \in Pagers, Pager(p) \/ Transferred(p) \/ Zap(p)
    PROVE  ChildInv'
<1>1. s5' = s5 /\ upc' = upc /\ UNCHANGED <<sessions, status>>
  BY DEF Pager, GiveUp, Receive, NoFrame, UpdateTables, NoBlock, MapAndAnswer, LeaveLoop,
     Answer, PagerStep, Transferred, Zap, Halt, NothingHalts, calls
<1>2. p \notin entry
  BY Distinct DEF OrderInv, ChildInv, Live
<1>3. UNCHANGED <<privateSem, entry, sems>>
  BY <1>2 DEF Pager, GiveUp, Receive, NoFrame, UpdateTables, NoBlock, MapAndAnswer, LeaveLoop,
     Answer, PagerStep, Transferred, Zap, p1_quit, Halt, NothingHalts, slots
<1>4. resident' \subseteq entry
  <2>1. resident \subseteq entry
    BY DEF OrderInv, ChildInv
  <2>2. CASE UpdateTables(p)
    <3>1. Serves(p)
      BY <2>2 DEF UpdateTables, Halt, NothingHalts, PagerStep, Serves
    <3>2. job[p] \in entry
      BY <3>1, MailTypes, InHandlerIsUp DEF OrderInv, MachineInv, KillInv
    <3>3. resident' \subseteq resident \cup {job[p]}
      BY <2>2 DEF UpdateTables, Halt, NothingHalts
    <3> QED BY <2>1, <3>2, <3>3
  <2>3. CASE ~UpdateTables(p)
    <3>1. resident' = resident
      BY <1>2, <2>3 DEF Pager, GiveUp, Receive, NoFrame, NoBlock, MapAndAnswer, LeaveLoop,
         Answer, PagerStep, Transferred, Zap, p1_quit, Halt, NothingHalts, slots
    <3> QED BY <2>1, <3>1
  <2> QED BY <2>2, <2>3
<1>5. Live' = Live
  BY <1>1 DEF Live
<1> QED BY <1>1, <1>3, <1>4, <1>5, ChildKept DEF SameCall, OrderInv

LEMMA ChildSpawn ==
    ASSUME OrderInv, Orderly, NothingHalts', NEW u \in Users, Spawn(u)
    PROVE  ChildInv'
<1>1. /\ s5 = "program" /\ s5' = s5 /\ upc[u] \in {"unborn", "dead"} /\ p1_fork(u)
      /\ upc' = [upc EXCEPT ![u] = "user"] /\ UNCHANGED <<sessions, status>>
  BY DEF Spawn, InProgram, Halt, NothingHalts, calls
<1>2. upc \in [Users -> UserPc]
  BY DEF OrderInv, MachineInv, KillInv, TypeInv, LifecycleTypeOK
<1>3. Live' = Live \cup {u} /\ u \notin entry
  BY <1>1, <1>2 DEF Live, OrderInv, ChildInv
<1>4. IsUp <=> VMInitialized
  BY <1>1 DEF OrderInv, PairInv, InDestroy
<1>5. CASE VMInitialized
  <2>1. /\ entry' = entry \cup {u} /\ privateSem' = privateSem \cup {u} /\ sems' = sems + 1
        /\ resident' = resident \ {u}
    BY <1>1, <1>5 DEF p1_fork
  <2>2. Cardinality(entry') = Cardinality(entry) + 1 /\ Cardinality(entry) \in Nat
    <3>1. IsFiniteSet(entry)
      BY FS_Subset DEF Orderly, OrderInv, ChildInv, Live
    <3> QED BY <1>3, <2>1, <3>1, FS_AddElement, FS_CardinalityType
  <2>3. sessions \in Nat /\ sems \in Int
    BY MboxTypes DEF OrderInv, MachineInv, KillInv
  <2>4. SemaphoresBalance'
    BY <1>1, <2>1, <2>2, <2>3 DEF OrderInv, ChildInv, SemaphoresBalance, IsUp
  <2> QED BY <1>1, <1>3, <1>4, <1>5, <2>1, <2>4 DEF OrderInv, ChildInv, IsUp, InDestroy
<1>6. CASE ~VMInitialized
  <2>1. UNCHANGED <<entry, privateSem, sems, resident>>
    BY <1>1, <1>6 DEF p1_fork, slots
  <2> QED BY <1>1, <1>3, <1>4, <1>6, <2>1
          DEF OrderInv, ChildInv, SemaphoresBalance, IsUp, InDestroy
<1> QED BY <1>5, <1>6

LEMMA ChildTerminate ==
    ASSUME OrderInv, Orderly, NothingHalts', NEW u \in Users, Terminate(u)
    PROVE  ChildInv'
<1>1. /\ SameCall /\ upc[u] \in {"user", "exit"} /\ p1_quit(u)
      /\ upc' = [upc EXCEPT ![u] = "dead"] /\ UNCHANGED <<sessions, status>>
  BY DEF Terminate, SameCall, Halt, NothingHalts
<1>2. upc \in [Users -> UserPc]
  BY DEF OrderInv, MachineInv, KillInv, TypeInv, LifecycleTypeOK
<1>3. Live' = Live \ {u} /\ u \in Live
  BY <1>1, <1>2 DEF Live
<1>4. ~InDestroy /\ ~InDestroy'
  BY <1>1, <1>3 DEF OrderInv, ChildInv, SameCall, InDestroy
<1>5. CASE u \in entry
  <2>1. VMInitialized
    BY <1>5 DEF OrderInv, ChildInv, PairInv
  <2>2. /\ entry' = entry \ {u} /\ privateSem' = privateSem \ {u} /\ sems' = sems - 1
        /\ resident' = resident \ {u}
    BY <1>1, <1>5, <2>1 DEF p1_quit
  <2>3. Cardinality(entry') = Cardinality(entry) - 1 /\ Cardinality(entry) \in Nat
    <3>1. IsFiniteSet(entry)
      BY FS_Subset DEF Orderly, OrderInv, ChildInv, Live
    <3> QED BY <1>5, <2>2, <3>1, FS_RemoveElement, FS_CardinalityType
  <2>4. sessions \in Nat /\ sems \in Int
    BY MboxTypes DEF OrderInv, MachineInv, KillInv
  <2>5. SemaphoresBalance'
    BY <1>1, <1>4, <2>2, <2>3, <2>4
       DEF OrderInv, ChildInv, SemaphoresBalance, IsUp, InDestroy
  <2> QED BY <1>1, <1>3, <1>4, <2>2, <2>5 DEF OrderInv, ChildInv, IsUp
<1>6. CASE u \notin entry
  <2>1. UNCHANGED <<entry, privateSem, sems, resident>>
    BY <1>1, <1>6 DEF p1_quit, slots
  <2>2. SemaphoresBalance'
    BY <1>1, <1>4, <2>1 DEF OrderInv, ChildInv, SemaphoresBalance, IsUp, InDestroy
  <2> QED BY <1>1, <1>3, <1>4, <1>6, <2>1, <2>2 DEF OrderInv, ChildInv, IsUp
<1> QED BY <1>5, <1>6

LEMMA ChildUser ==
    ASSUME OrderInv, NothingHalts', NEW u \in Users, PageFault(u) \/ Handler(u) \/ WakeStart5(u)
    PROVE  ChildInv'
<1>1. /\ SameCall /\ UNCHANGED <<privateSem, entry, sems, sessions, status, resident>>
  BY DEF PageFault, Handler, CountFault, SendFault, Resume, UnlockFrame, WakeStart5, UserStep,
     Halt, NothingHalts, SameCall, slots
<1>2. \E from, to \in UserPc \ {"unborn", "dead"} :
            upc[u] = from /\ upc' = [upc EXCEPT ![u] = to]
  <2>1. {"user", "count", "send", "wait", "unlock", "exit"} \subseteq UserPc \ {"unborn", "dead"}
    BY DEF UserPc
  <2>2. CASE Resume(u)
    <3>1. AfterFault(answer[u]) \in {"unlock", "send", "exit"}
      BY DEF AfterFault
    <3> QED BY <2>1, <2>2, <3>1 DEF Resume, UserStep
  <2>3. CASE PageFault(u) \/ CountFault(u) \/ SendFault(u) \/ UnlockFrame(u) \/ WakeStart5(u)
    BY <2>1, <2>3 DEF PageFault, CountFault, SendFault, UnlockFrame, WakeStart5, UserStep, Halt,
       NothingHalts
  <2> QED BY <2>2, <2>3 DEF Handler
<1>3. Live' = Live
  <2>1. upc \in [Users -> UserPc]
    BY DEF OrderInv, MachineInv, KillInv, TypeInv, LifecycleTypeOK
  <2> QED BY <1>2, <2>1 DEF Live
<1>4. resident' \subseteq entry
  BY <1>1 DEF OrderInv, ChildInv
<1> QED BY <1>1, <1>3, <1>4, ChildKept DEF OrderInv

LEMMA NextChildren ==
    ASSUME OrderInv, Orderly, Next, ~PrintStats, NothingHalts'
    PROVE  ChildInv'
<1>1. CASE InCall \/ VmDestroy \/ DiskSize \/ \E a \in InitArgs : VmInit(a)
  BY <1>1, ChildVmInit, ChildInInit, ChildVmInitDone, ChildVmDestroy, ChildInDestroy
     DEF InCall, OrderInv, MachineInv, KillInv
<1>2. ASSUME NEW x \in Process, Sleep \/ p1_switch(x) PROVE ChildInv'
  <2>1. /\ SameCall /\ UNCHANGED <<privateSem, entry, sems, sessions, status, resident>>
        /\ Live' = Live
    BY <1>2 DEF Sleep, InProgram, p1_switch, Halt, NothingHalts, SameCall, calls, slots, Live
  <2>2. resident' \subseteq entry
    BY <2>1 DEF OrderInv, ChildInv
  <2> QED BY <2>1, <2>2, ChildKept DEF OrderInv
<1>3. Start5 \in Process
  BY DEF Process
<1> QED BY <1>1, <1>2, <1>3, ChildPager, ChildSpawn, ChildUser, ChildTerminate DEF Next
-----------------------------------------------------------------------------
(* One kill at a time.                                                       *)

LEMMA QuietKept ==
    ASSUME QuietInv, SameCall, UNCHANGED <<zapped, killSem, status, FaultsMbox>>, Gone' = Gone,
           \A p \in Pagers : ppc'[p] = "leave" => ppc[p] = "leave"
    PROVE  QuietInv'
BY DEF QuietInv, SameCall, InInit, IsUp

\* No pager is leaving, and none is asked to.
LEMMA NoKills ==
    ASSUME QuietInv, s5 # "await", UNCHANGED <<zapped, FaultsMbox, ppc>>, s5' # "await",
           killSem' = 0, InInit' \/ IsUp' \/ s5' = "killSem" => Gone = {}
    PROVE  QuietInv'
<1>1. Gone' = Gone
  BY DEF Gone
<1> QED BY <1>1 DEF QuietInv

LEMMA QuietVmInit ==
    ASSUME TypeInv, Orderly, QuietInv, NothingHalts', NEW a \in InitArgs, VmInit(a)
    PROVE  QuietInv'
<1>1. /\ s5 = "program" /\ s5' # "await" /\ ~IsUp /\ mode = "user"
      /\ UNCHANGED <<zapped, FaultsMbox, killSem>>
  BY DEF VmInit, InProgram, Continue, Orderly, objects, Halt, NothingHalts
<1>2. CASE BadArgs(a)
  <2>1. s5' = "program" /\ ~IsUp' /\ ppc' = ppc
    BY <1>1, <1>2 DEF VmInit, Continue, IsUp
  <2> QED BY <1>1, <2>1, NoKills DEF QuietInv, InInit
<1>3. CASE ~BadArgs(a)
  <2>1. ppc' = [p \in Pagers |-> IF ppc[p] = "gone" THEN "none" ELSE ppc[p]]
    BY <1>1, <1>3 DEF VmInit, Halt, NothingHalts
  <2>2. Gone' = {} /\ \A p \in Pagers : ppc'[p] = "leave" => ppc[p] = "leave"
    BY <2>1 DEF Gone
  <2> QED BY <1>1, <2>2 DEF QuietInv
<1> QED BY <1>2, <1>3

LEMMA QuietInInit ==
    ASSUME TypeInv, Orderly, QuietInv,
           \/ CreateFaultsMbox \/ (\E p \in Pagers : ForkPager(p)) \/ InitVmStats \/ DiskSize
           \/ VmInitDone
    PROVE  QuietInv'
<1>1. /\ InInit /\ s5 # "await" /\ s5' # "await" /\ UNCHANGED <<zapped, killSem>>
      /\ Gone = {} /\ killSem = 0
  BY DEF CreateFaultsMbox, ForkPager, InitVmStats, DiskSize, VmInitDone, Continue, objects, InInit,
     QuietInv
<1>2. CASE CreateFaultsMbox
  <2>1. FaultsMbox' = <<>> /\ 1 .. Len(FaultsMbox') = {}
    BY <1>2 DEF CreateFaultsMbox
  <2>2. Gone' = Gone /\ \A p \in Pagers : ppc'[p] = "leave" => ppc[p] = "leave"
    BY <1>2, LeftBehind
  <2> QED BY <1>1, <2>1, <2>2 DEF QuietInv
<1>3. ASSUME NEW p \in Pagers, ForkPager(p) PROVE QuietInv'
  <2>1. ppc' = [ppc EXCEPT ![p] = "receive"] /\ ppc \in [Pagers -> PagerPc]
        /\ FaultsMbox' = FaultsMbox
    BY <1>3 DEF ForkPager, objects, TypeInv, LifecycleTypeOK
  <2>2. Gone' = {} /\ \A q \in Pagers : ppc'[q] = "leave" => ppc[q] = "leave"
    BY <1>1, <2>1 DEF Gone
  <2> QED BY <1>1, <2>1, <2>2 DEF QuietInv
<1>4. CASE InitVmStats \/ DiskSize \/ VmInitDone
  <2>1. UNCHANGED <<FaultsMbox, ppc>>
    BY <1>4 DEF InitVmStats, DiskSize, VmInitDone, objects
  <2> QED BY <1>1, <2>1, NoKills
<1> QED BY <1>2, <1>3, <1>4

\* In VmDestroy the mailbox holds no fault messages: nobody is alive to send one.
LEMMA NoFaultsInDestroy ==
    ASSUME OrderInv, s5 = "kill"
    PROVE  FaultsMbox = <<>>
<1>1. \A k \in 1 .. Len(FaultsMbox) : FaultsMbox[k] \in Users /\ FaultsMbox[k] \in Live
  <2>1. \A k \in 1 .. Len(FaultsMbox) : FaultsMbox[k] \in Users
    BY MailTypes DEF OrderInv, MachineInv, KillInv, QuietInv
  <2> QED BY <2>1 DEF OrderInv, MachineInv, AskInv, Asks, Live
<1>2. Live = {}
  BY DEF OrderInv, ChildInv, InDestroy
<1>3. 1 \notin 1 .. Len(FaultsMbox)
  BY <1>1, <1>2
<1> QED BY <1>3, MailTypes DEF OrderInv, MachineInv, KillInv

LEMMA QuietInDestroy ==
    ASSUME OrderInv, Orderly, NothingHalts',
           VmDestroy \/ CreateKillSem \/ SendKill \/ AwaitPager \/ LastStats \/ FreeTables
    PROVE  QuietInv'
<1>1. zapped' = zapped /\ ppc' = ppc /\ Gone' = Gone
  BY DEF VmDestroy, CreateKillSem, SendKill, AwaitPager, LastStats, FreeTables, Continue, Halt,
     NothingHalts, Gone
<1>2. QuietInv
  BY DEF OrderInv
<1>3. CASE VmDestroy
  <2>1. /\ s5 = "program" /\ s5' = "killSem" /\ UNCHANGED <<FaultsMbox, killSem>>
        /\ IsUp /\ status' = NONE
    BY <1>3 DEF VmDestroy, InProgram, Continue, Orderly, objects, Halt, NothingHalts
  <2> QED BY <1>1, <1>2, <2>1, NoKills DEF QuietInv
<1>4. ~VmDestroy => InDestroy /\ ~IsUp /\ ~IsUp'
  <2>1. SUFFICES ASSUME ~VmDestroy PROVE InDestroy /\ ~IsUp /\ status' = status
    BY DEF IsUp
  <2>2. InDestroy /\ status' = status
    BY <2>1 DEF CreateKillSem, SendKill, AwaitPager, LastStats, FreeTables, Continue, InDestroy,
       Halt, NothingHalts
  <2> QED BY <2>2 DEF OrderInv, PairInv
<1>5. CASE CreateKillSem
  <2>1. s5 = "killSem" /\ s5' = "kill" /\ killSem' = 0 /\ FaultsMbox' = FaultsMbox
    BY <1>5 DEF CreateKillSem, Continue
  <2>2. ~IsUp'
    BY <1>4, <2>1 DEF VmDestroy, InProgram
  <2> QED BY <1>1, <1>2, <2>1, <2>2, NoKills DEF InInit
<1>6. CASE SendKill
  <2>1. s5 = "kill" /\ s5' = "await" /\ killSem' = killSem
    BY <1>6 DEF SendKill, Continue
  <2>2. FaultsMbox = <<>> /\ handle["FaultsMbox"] = "good"
    BY <2>1, NoFaultsInDestroy DEF OrderInv, MadeInv, InDestroy
  <2>3. FaultsMbox' = <<KILL>>
    BY <1>6, <2>2 DEF SendKill, Post
  <2>4. ~IsUp'
    BY <1>4, <2>1 DEF VmDestroy, InProgram
  <2> QED BY <1>1, <1>2, <2>1, <2>3, <2>4 DEF QuietInv, InInit
<1>7. CASE AwaitPager
  <2>1. /\ s5 = "await" /\ s5' = "kill" /\ FaultsMbox' = FaultsMbox
        /\ killSem' = IF handle["PagerKillSem"] = "good" THEN killSem - 1 ELSE killSem
    BY <1>7 DEF AwaitPager, Continue
  <2>2. handle["PagerKillSem"] = "good"
    BY <2>1 DEF OrderInv, MadeInv, MachineInv, KillInv, CountInv, InDestroy
  <2>3. killSem > 0
    <3>1. Runnable(Start5)
      BY <1>7 DEF AwaitPager, Continue, Running, Schedulable
    <3> QED BY <2>1, <2>2, <3>1, Distinct DEF Runnable, Live
  <2>4. killSem = 1 /\ killSem' = 0
    BY <1>2, <2>1, <2>2, <2>3 DEF QuietInv
  <2>5. FaultsMbox = <<>> /\ \A p \in Pagers : ppc[p] # "leave"
    BY <1>2, <2>1, <2>4 DEF QuietInv
  <2>6. ~IsUp' /\ 1 .. Len(FaultsMbox') = {}
    BY <1>4, <2>1, <2>5 DEF VmDestroy, InProgram
  <2> QED BY <1>1, <1>2, <2>1, <2>4, <2>5, <2>6 DEF QuietInv, InInit
<1>8. CASE LastStats \/ FreeTables
  <2>1. /\ s5 \in {"kill", "free"} /\ s5' \in {"free", "program"}
        /\ UNCHANGED <<FaultsMbox, killSem>>
    BY <1>8 DEF LastStats, FreeTables, Continue, objects, Halt, NothingHalts
  <2>2. ~IsUp'
    BY <1>4, <2>1 DEF VmDestroy, Continue, InProgram, Halt, NothingHalts
  <2> QED BY <1>1, <1>2, <2>1, <2>2, NoKills DEF InInit, QuietInv
<1> QED BY <1>3, <1>5, <1>6, <1>7, <1>8

\* A pager leaves its loop for no other reason than a kill.
LEMMA NoGiveUp ==
    ASSUME OrderInv, NEW p \in Pagers
    PROVE  ~GiveUp(p)
<1> SUFFICES ASSUME GiveUp(p) PROVE FALSE
  OBVIOUS
<1>1. ppc[p] = "receive" /\ handle["FaultsMbox"] # "good"
  BY DEF GiveUp, PagerStep, OrderInv, QuietInv
<1>2. p \in Forked /\ p \notin Gone
  BY <1>1 DEF Forked, Gone
<1>3. handle["PagerKillSem"] # "error"
  BY DEF OrderInv, MadeInv
<1>4. CASE s5 = "mailbox"
  <2>1. Cardinality(Forked) = 0
    BY <1>3, <1>4 DEF OrderInv, MachineInv, KillInv, CountInv
  <2>2. Forked = {}
    BY <2>1, PagersCounted, FS_EmptySet DEF OrderInv, MachineInv, KillInv
  <2> QED BY <1>2, <2>2
<1>5. CASE s5 # "mailbox"
  <2>1. ~IsUp /\ ~InInit /\ ~InDestroy
    BY <1>1, <1>5 DEF OrderInv, MadeInv, InInit
  <2>2. tables # "allocated"
    BY <2>1 DEF OrderInv, PairInv
  <2>3. Forked = {} \/ Forked = Gone
    BY <1>3, <2>2 DEF OrderInv, MachineInv, KillInv, TypeInv, LifecycleTypeOK, PhaseInv, CountInv
  <2> QED BY <1>2, <2>3
<1> QED BY <1>4, <1>5

LEMMA QuietReceive ==
    ASSUME OrderInv, NEW p \in Pagers, Receive(p)
    PROVE  QuietInv'
<1>1. /\ UNCHANGED <<s5, status, zapped, killSem>> /\ FaultsMbox # <<>>
      /\ FaultsMbox' = Tail(FaultsMbox) /\ ppc[p] = "receive"
      /\ ppc' = [ppc EXCEPT ![p] = IF Head(FaultsMbox) = KILL THEN "leave" ELSE "frame"]
  BY DEF Receive, PagerStep, calls
<1>2. /\ FaultsMbox \in Seq(Users \cup {KILL}) /\ Len(FaultsMbox) \in Nat \ {0}
      /\ Head(FaultsMbox) = FaultsMbox[1] /\ ppc \in [Pagers -> PagerPc]
      /\ Len(FaultsMbox') = Len(FaultsMbox) - 1
      /\ \A k \in 1 .. Len(FaultsMbox') : FaultsMbox'[k] = FaultsMbox[k + 1]
  BY <1>1, MailTypes DEF OrderInv, MachineInv, KillInv
<1>3. \A q \in Pagers \ {p} : ppc'[q] = ppc[q]
  BY <1>1, <1>2
<1>4. ppc'[p] = IF Head(FaultsMbox) = KILL THEN "leave" ELSE "frame"
  BY <1>1, <1>2
<1>5. Gone' = Gone
  BY <1>1, <1>3, <1>4 DEF Gone
<1>6. \A q \in Pagers : ppc[q] # "leave"
  BY <1>1 DEF OrderInv, QuietInv
<1>7. CASE s5 = "await"
  <2>1. FaultsMbox = <<KILL>> /\ killSem = 0
    BY <1>1, <1>7 DEF OrderInv, QuietInv
  <2>2. FaultsMbox' = <<>>
    BY <1>1, <2>1
  <2>3. \A q \in Pagers : ppc'[q] = "leave" => q = p
    BY <1>3, <1>6
  <2> QED BY <1>1, <1>5, <1>7, <2>1, <2>2, <2>3 DEF OrderInv, QuietInv, InInit, IsUp
<1>8. CASE s5 # "await"
  <2>1. \A k \in 1 .. Len(FaultsMbox) : FaultsMbox[k] # KILL
    BY <1>8 DEF OrderInv, QuietInv
  <2>2. Head(FaultsMbox) # KILL
    BY <1>2, <2>1
  <2>3. \A q \in Pagers : ppc'[q] # "leave"
    BY <1>3, <1>4, <1>6, <2>2
  <2>4. \A k \in 1 .. Len(FaultsMbox') : FaultsMbox'[k] # KILL
    BY <1>2, <2>1
  <2> QED BY <1>1, <1>5, <1>8, <2>3, <2>4 DEF OrderInv, QuietInv, InInit, IsUp
<1> QED BY <1>7, <1>8

LEMMA QuietLeave ==
    ASSUME OrderInv, NEW p \in Pagers, LeaveLoop(p)
    PROVE  QuietInv'
<1>1. /\ UNCHANGED <<s5, status, FaultsMbox>> /\ ppc[p] = "leave" /\ zapped' = zapped \ {p}
      /\ killSem' = VKillSem /\ ppc' = [ppc EXCEPT ![p] = "gone"]
  BY DEF LeaveLoop, PagerStep, calls
<1>2. s5 = "await" /\ killSem = 0 /\ FaultsMbox = <<>> /\ zapped = {}
      /\ \A q \in Pagers \ {p} : ppc[q] # "leave"
  BY <1>1 DEF OrderInv, QuietInv
<1>3. handle["PagerKillSem"] = "good" /\ ~IsUp
  BY <1>2 DEF OrderInv, MadeInv, PairInv, MachineInv, KillInv, CountInv, InDestroy
<1>4. killSem' = 1
  BY <1>1, <1>2, <1>3 DEF VKillSem
<1>5. \A q \in Pagers : ppc'[q] # "leave"
  BY <1>1, <1>2 DEF OrderInv, MachineInv, KillInv, TypeInv, LifecycleTypeOK
<1> QED BY <1>1, <1>2, <1>3, <1>4, <1>5 DEF QuietInv, InInit, IsUp

LEMMA QuietPager ==
    ASSUME OrderInv, Orderly, NothingHalts', NEW p \in Pagers, Pager(p) \/ Transferred(p) \/ Zap(p)
    PROVE  QuietInv'
<1>1. ~GiveUp(p) /\ ~Zap(p)
  BY NoGiveUp DEF Zap, Orderly
<1>2. CASE NoFrame(p) \/ UpdateTables(p) \/ NoBlock(p) \/ MapAndAnswer(p) \/ Transferred(p)
  <2>1. /\ s5' = s5 /\ UNCHANGED <<status, zapped, killSem, FaultsMbox>> /\ Serves(p)
        /\ \E to \in {"receive", "full", "transfer", "map"} : ppc' = [ppc EXCEPT ![p] = to]
    BY <1>2 DEF NoFrame, UpdateTables, NoBlock, MapAndAnswer, Transferred, Answer, PagerStep, Halt,
       NothingHalts, Serves, calls, objects
  <2>2. ppc \in [Pagers -> PagerPc]
    BY DEF OrderInv, MachineInv, KillInv, TypeInv, LifecycleTypeOK
  <2>3. Gone' = Gone /\ \A q \in Pagers : ppc'[q] = "leave" => ppc[q] = "leave"
    BY <2>1, <2>2 DEF Gone, Serves
  <2> QED BY <2>1, <2>3, QuietKept DEF OrderInv, SameCall
<1> QED BY <1>1, <1>2, QuietReceive, QuietLeave DEF Pager

LEMMA QuietUser ==
    ASSUME OrderInv, NothingHalts', NEW u \in Users,
           Spawn(u) \/ PageFault(u) \/ Handler(u) \/ WakeStart5(u) \/ Terminate(u)
    PROVE  QuietInv'
<1>1. SameCall /\ UNCHANGED <<status, zapped, killSem, ppc>> /\ Gone' = Gone
  BY DEF Spawn, PageFault, Handler, CountFault, SendFault, Resume, UnlockFrame, WakeStart5,
     Terminate, UserStep, Halt, NothingHalts, SameCall, calls, objects, Gone
<1>2. CASE SendFault(u)
  <2>1. u \in Live /\ u # KILL /\ s5' = s5
    BY <1>2, MailTypes
       DEF SendFault, UserStep, Live, OrderInv, MachineInv, KillInv
  <2>2. s5 # "await"
    BY <2>1 DEF OrderInv, ChildInv, InDestroy
  <2>3. FaultsMbox' \in {FaultsMbox, Append(FaultsMbox, u)}
    BY <1>2 DEF SendFault, Post
  <2>4. \A k \in 1 .. Len(FaultsMbox') : FaultsMbox'[k] # KILL
    <3>1. \A k \in 1 .. Len(FaultsMbox) : FaultsMbox[k] # KILL
      BY <2>2 DEF OrderInv, QuietInv
    <3> QED BY <2>1, <2>3, <3>1, MailTypes DEF OrderInv, MachineInv, KillInv
  <2> QED BY <1>1, <2>1, <2>2, <2>4 DEF OrderInv, QuietInv, InInit, IsUp
<1>3. CASE ~SendFault(u)
  <2>1. FaultsMbox' = FaultsMbox
    BY <1>3 DEF Spawn, PageFault, Handler, CountFault, Resume, UnlockFrame, WakeStart5,
       Terminate, UserStep, Halt, NothingHalts, objects
  <2> QED BY <1>1, <2>1, QuietKept DEF OrderInv
<1> QED BY <1>2, <1>3

LEMMA NextQuiet ==
    ASSUME OrderInv, Orderly, Next, ~PrintStats, NothingHalts'
    PROVE  QuietInv'
<1>1. CASE InCall \/ VmDestroy \/ DiskSize \/ \E a \in InitArgs : VmInit(a)
  BY <1>1, QuietVmInit, QuietInInit, QuietInDestroy DEF InCall, OrderInv, MachineInv, KillInv
<1>2. ASSUME NEW x \in Process, Sleep \/ p1_switch(x) PROVE QuietInv'
  <2>1. SameCall /\ UNCHANGED <<status, zapped, killSem, FaultsMbox, ppc>> /\ Gone' = Gone
    BY <1>2 DEF Sleep, InProgram, p1_switch, Halt, NothingHalts, SameCall, calls, objects, Gone
  <2> QED BY <2>1, QuietKept DEF OrderInv
<1>3. Start5 \in Process
  BY DEF Process
<1> QED BY <1>1, <1>2, <1>3, QuietPager, QuietUser DEF Next
-----------------------------------------------------------------------------

LEMMA InitOrder == ASSUME Orderly PROVE Init => OrderInv
<1> SUFFICES ASSUME Init PROVE OrderInv
  OBVIOUS
<1>1. MachineInv /\ NothingHalts
  BY InitMachine DEF Init, NothingHalts
<1>2. /\ s5 = "program" /\ ~IsUp /\ entry = {} /\ privateSem = {} /\ resident = {}
      /\ Live = {} /\ sems = 0 /\ sessions = 0 /\ killSem = 0 /\ zapped = {} /\ mboxes = 0
  BY DEF Init, IsUp, NONE, Live
<1>3. PairInv
  <2>1. ~VMInitialized /\ ~mmuOn
    BY Zenon DEF Init
  <2>2. tables = "none" /\ Sessions \in Nat
    BY LifecycleAssumption DEF Init
  <2> QED BY <1>2, <2>1, <2>2 DEF PairInv, InInit, InDestroy
<1>4. MadeInv
  BY <1>2 DEF Init, MadeInv, InInit, InDestroy, NewMailboxes, Objects
<1>5. ChildInv
  BY <1>2, FS_EmptySet DEF ChildInv, SemaphoresBalance, InDestroy
<1>6. QuietInv
  <2>1. 1 .. Len(FaultsMbox) = {} /\ Gone = {} /\ \A p \in Pagers : ppc[p] # "leave"
    BY DEF Init, Gone
  <2> QED BY <1>2, <2>1 DEF QuietInv
<1> QED BY <1>1, <1>3, <1>4, <1>5, <1>6 DEF OrderInv

LEMMA NextOrder == ASSUME Orderly PROVE OrderInv /\ [Next]_vars => OrderInv'
<1> SUFFICES ASSUME OrderInv, [Next]_vars PROVE OrderInv'
  OBVIOUS
<1>1. CASE UNCHANGED vars
  <2>1. MachineInv'
    BY <1>1, NextKills DEF vars, calls, machine, objects, slots, OrderInv, MachineInv, AskInv,
       RunInv, Live, Asks, InHandler, Serves
  <2>2. NothingHalts' /\ SameCall /\ Live' = Live /\ Gone' = Gone /\ resident' \subseteq entry
    BY <1>1 DEF vars, calls, slots, OrderInv, NothingHalts, SameCall, Live, Gone, ChildInv
  <2>3. PairInv' /\ MadeInv'
    BY <1>1, <2>2, PairKept DEF vars, calls, machine, objects, OrderInv
  <2>4. ChildInv'
    BY <1>1, <2>2, ChildKept DEF vars, calls, slots, OrderInv
  <2>5. QuietInv'
    BY <1>1, <2>2, QuietKept DEF vars, calls, objects, OrderInv
  <2> QED BY <2>1, <2>2, <2>3, <2>4, <2>5 DEF OrderInv
<1>2. CASE Next /\ ~PrintStats
  <2>1. MachineInv'
    BY <1>2, NextKills, NextAsks, NextRuns DEF OrderInv, MachineInv, KillInv
  <2>2. NothingHalts'
    BY <1>2, SwitchDoesNotHalt, CallsDoNotHalt, PagersDoNotHalt, UsersDoNotHalt DEF Next
  <2>3. PairInv' /\ MadeInv' /\ ChildInv' /\ QuietInv'
    BY <1>2, <2>2, NextPairs, NextChildren, NextQuiet
  <2> QED BY <2>1, <2>2, <2>3 DEF OrderInv
<1>3. PrintStats => UNCHANGED vars
  BY PrintChangesNothing DEF OrderInv, MachineInv, KillInv
<1> QED BY <1>1, <1>2, <1>3

LEMMA OrderAlways == ASSUME Orderly PROVE Spec => []OrderInv
BY InitOrder, NextOrder, PTL DEF Spec

\* In a program that pairs its calls nothing halts the machine, for any number of children,
\* pagers and sessions and any bad arguments of VmInit: no hook, pager or handler meets an
\* MMU that is off or tables that are freed, and the processor mode is always the right one.
THEOREM OrderlyNeverHalts == ASSUME Orderly PROVE Spec => []NothingHalts
<1>1. OrderInv => NothingHalts
  BY DEF OrderInv
<1> QED BY <1>1, OrderAlways, PTL

\* Each mutex, mailbox and semaphore is made before its first use and the tables are there
\* until the last: the pagers run before vmStatsMutex is made and after the kills are sent,
\* but not with a fault to serve.
THEOREM OrderlyUsesWhatExists == ASSUME Orderly PROVE Spec => []UsedWhileItExists
<1>1. OrderInv => UsedWhileItExists
  <2> SUFFICES ASSUME OrderInv PROVE UsedWhileItExists
    OBVIOUS
  <2>1. IsUp => /\ handle["FramesMutex"] = "good" /\ handle["FaultsMbox"] = "good"
                /\ handle["vmStatsMutex"] = "good"
    BY DEF OrderInv, MadeInv
  <2>2. ASSUME NEW u \in Users, upc[u] \in {"count", "send", "wait", "unlock"}
        PROVE  /\ handle["FramesMutex"] = "good" /\ handle["FaultsMbox"] = "good"
               /\ handle["vmStatsMutex"] = "good" /\ u \in privateSem /\ tables = "allocated"
    <3>1. InHandler(u)
      BY <2>2 DEF InHandler
    <3> QED BY <2>1, <3>1, InHandlerIsUp
  <2>3. ASSUME NEW p \in Pagers, Serves(p)
        PROVE  /\ handle["FramesMutex"] = "good" /\ handle["vmStatsMutex"] = "good"
               /\ tables = "allocated" /\ job[p] \in privateSem
    <3>1. job[p] \in Users
      BY <2>3, MailTypes DEF OrderInv, MachineInv, KillInv
    <3> QED BY <2>1, <2>3, <3>1, InHandlerIsUp
  <2>4. ASSUME NEW p \in Pagers, ppc[p] = "leave" PROVE handle["PagerKillSem"] = "good"
    <3>1. s5 = "await"
      BY <2>4 DEF OrderInv, QuietInv
    <3> QED BY <3>1 DEF OrderInv, MadeInv, MachineInv, KillInv, CountInv, InDestroy
  <2>5. s5 = "kill" => handle["vmStatsMutex"] = "good"
    BY DEF OrderInv, MadeInv, InDestroy
  <2> QED BY <2>2, <2>3, <2>4, <2>5 DEF UsedWhileItExists, Serves
<1> QED BY <1>1, OrderAlways, PTL

\* A program can trust what VmInit returned: 0 and no VmDestroy since means hooks, MMU and
\* tables, and all NumPagers pagers in their loops; otherwise nothing of this is there.
THEOREM StatusIsAlwaysTrue == ASSUME Orderly PROVE Spec => []StatusIsTrue
<1>1. OrderInv => StatusIsTrue
  <2> SUFFICES ASSUME OrderInv, s5 \in {"program", "sleep"}
               PROVE  /\ IsUp <=> VMInitialized
                      /\ IsUp <=> mmuOn
                      /\ IsUp <=> tables = "allocated"
                      /\ Cardinality({p \in Pagers : InLoop(p)}) = IF IsUp THEN NumPagers ELSE 0
    BY DEF StatusIsTrue
  <2>1. ~InInit /\ ~InDestroy
    BY DEF InInit, InDestroy
  <2>2. (IsUp <=> VMInitialized) /\ (IsUp <=> mmuOn) /\ (IsUp <=> tables = "allocated")
    BY <2>1 DEF OrderInv, PairInv
  <2>3. {p \in Pagers : InLoop(p)} = Forked \ Gone
    BY DEF InLoop, Forked, Gone
  <2>4. handle["PagerKillSem"] # "error"
    BY DEF OrderInv, MadeInv
  <2>5. CASE IsUp
    <3>1. Gone = {}
      BY <2>5 DEF OrderInv, QuietInv
    <3>2. Cardinality(Forked) = NumPagers
      BY <2>4 DEF OrderInv, MachineInv, KillInv, CountInv
    <3>3. Forked \ Gone = Forked
      BY <3>1
    <3> QED BY <2>2, <2>3, <2>5, <3>2, <3>3
  <2>6. CASE ~IsUp
    <3>1. tables # "allocated"
      BY <2>2, <2>6
    <3>2. Forked = {} \/ Forked = Gone
      BY <2>4, <3>1
         DEF OrderInv, MachineInv, KillInv, TypeInv, LifecycleTypeOK, PhaseInv, CountInv
    <3>3. Forked \ Gone = {}
      BY <3>2
    <3> QED BY <2>2, <2>3, <2>6, <3>3, FS_EmptySet
  <2> QED BY <2>5, <2>6
<1> QED BY <1>1, OrderAlways, PTL

\* The private semaphores are those of the processes with an entry, whoever was forked before
\* VmInit: none is lost and none freed twice.
THEOREM SemaphoresAlwaysBalance == ASSUME Orderly PROVE Spec => []SemaphoresBalance
<1>1. OrderInv => SemaphoresBalance
  BY DEF OrderInv, ChildInv
<1> QED BY <1>1, OrderAlways, PTL
==============================================================================
