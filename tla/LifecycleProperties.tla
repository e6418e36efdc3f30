------------------------- MODULE LifecycleProperties -------------------------
(***************************************************************************)
(* The properties of VmLifecycle.                                          *)
(***************************************************************************)
EXTENDS VmLifecycle

\* The types of the variables.
LifecycleTypeOK ==
    /\ cur \in Process /\ halted \in {"no", "mode", "mmu", "freed", "semaphore"}
    /\ s5 \in S5Pc /\ mode \in {"user", "kernel"} /\ status \in {NONE, -1, 0} /\ i \in Nat
    /\ mmuOn \in BOOLEAN /\ VMInitialized \in BOOLEAN
    /\ tables \in {"none", "allocated", "freed"}
    /\ handle \in [Objects -> {"unset", "good", "error"}]
    /\ FaultsMbox \in Seq(Users \cup {KILL})
    /\ killSem \in Int /\ mboxes \in Nat /\ sems \in Int
    /\ sessions \in Nat /\ NumPagers \in 0 .. MAXPAGERS
    /\ ppc \in [Pagers -> PagerPc] /\ job \in [Pagers -> Users \cup {System}]
    /\ zapped \subseteq Pagers
    /\ upc \in [Users -> UserPc] /\ answer \in [Users -> {"ok", "failed", "terminate"}]
    /\ entry \subseteq Process /\ privateSem \subseteq Process
    /\ sem \in [Users -> Int] /\ resident \subseteq Users

InLoop(p) == ppc[p] \notin {"none", "gone"}

\* When vmDestroyReal frees the page tables and the frame table (phase5.c:317-322) every
\* pager has left its loop: each has been sent a kill message and has been waited for
\* (phase5.c:299-304), whatever faults were before the messages in the mailbox, and also
\* when a pager has left the loop another way.
NoPagerOutlivesTables ==
    (tables = "freed" /\ handle["PagerKillSem"] = "good") => \A p \in Pagers : ~InLoop(p)

-----------------------------------------------------------------------------
(* For a program that calls VmDestroy after VmInit and after the last child. *)

\* No step of VmInit, VmDestroy, a hook, a pager or FaultHandler halts the machine or
\* touches what has been freed: the MMU is on whenever a mapping changes, semaphores are
\* freed once, system calls are made in user mode and return to it
\* (phase5utility.c:31-42, phase5utility.c:70-95, p1.c:88, phase5.c:503-588).
NothingHalts == halted = "no"

\* What VmInit makes exists wherever it is used: no mutex, mailbox or semaphore is used
\* with an id that was never set, and the pagers' tables are there, although the pagers
\* run before vmStatsMutex is created (phase5.c:211, phase5.c:224) and until VmDestroy
\* is almost done (phase5.c:299-322).
UsedWhileItExists ==
    /\ \A u \in Users :
        /\ upc[u] = "count"  => handle["vmStatsMutex"] = "good"
        /\ upc[u] = "send"   => handle["FaultsMbox"] = "good"
        /\ upc[u] = "wait"   => u \in privateSem
        /\ upc[u] = "unlock" => handle["FramesMutex"] = "good" /\ tables = "allocated"
    /\ \A p \in Pagers :
        /\ ppc[p] \in {"frame", "full", "transfer", "map"} =>
                /\ handle["FramesMutex"] = "good" /\ handle["vmStatsMutex"] = "good"
                /\ tables = "allocated" /\ job[p] \in privateSem
        /\ ppc[p] = "leave" => handle["PagerKillSem"] = "good"
    /\ s5 = "kill" => handle["vmStatsMutex"] = "good"

\* The program can rely on what VmInit returned (syscallHandlers.c:40-49): it got 0 and
\* has not called VmDestroy since exactly when the hooks are active, the MMU is on, the
\* tables are there and all the pagers are in their loops.
StatusIsTrue ==
    s5 \in {"program", "sleep"} =>
        /\ IsUp <=> VMInitialized
        /\ IsUp <=> mmuOn
        /\ IsUp <=> tables = "allocated"
        /\ Cardinality({p \in Pagers : InLoop(p)}) = IF IsUp THEN NumPagers ELSE 0

\* No private semaphore is lost and none is freed twice, by any process, those forked
\* before VmInit and the pagers included (p1.c:42, p1.c:205-216): the semaphores in use are
\* those of the processes with an entry and one PagerKillSem for each VmDestroy so far.
SemaphoresBalance ==
    sems = Cardinality(entry) + sessions - IF IsUp \/ s5 = "killSem" THEN 1 ELSE 0

\* Every VmInit and VmDestroy returns: the pagers all come for their kill messages, one
\* message ends one pager and each wakes start5 once (phase5.c:299-304, phase5.c:600).
CallsReturn == s5 \notin {"program", "sleep"} ~> s5 = "program"

-----------------------------------------------------------------------------
(* For any program.                                                          *)

\* The machine only halts when VmInit is called twice, when VmDestroy is called twice or
\* with a child of this VM region alive, or when a child is forked and phase 3 has no
\* semaphore left for it (p1.c:42-47).  The window from phase5.c:293 to phase5.c:314, in
\* which the hooks are active and the MMU is not, is closed to everybody else; a pager that
\* leaves early breaks nothing, nor does one that VmDestroy cannot wait for, because it got
\* no PagerKillSem and does not look (phase5.c:298), unless that pager serves a child.
HaltsNeedMisuse ==
    halted # "no" =>
        \/ s5 = "program" /\ mmuOn /\ tables = "allocated" /\ halted = "mmu"
        \/ s5 = "free" /\ tables = "freed"
        \/ ~mmuOn /\ \E u \in Live : u \in entry \cup resident \/ upc[u] # "user"
        \/ halted = "semaphore" /\ sems = MAXSEMS
=============================================================================
