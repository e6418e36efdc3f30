# The phase 5 virtual memory system, in TLA+

This directory specifies and checks the virtual memory layer of the repository
(`phase5.c`, `p1.c`, `phase5utility.c`, `syscallHandlers.c`, `vm.h`): demand paging
for user processes on the USLOSS machine, with pager processes, a clock replacement
and a swap disk; how it is started and stopped; and the programs of `testcases/` that
run on it. Line numbers refer to the files of the repository.

## Inventory

| Component | State | Operations | Talks to |
|---|---|---|---|
| FaultHandler (`phase5.c:343-407`) | `faults[]`, a private semaphore per process | runs in the process that touched an unmapped page: counts the fault, fills in its message, sends its pid, waits, unlocks the frame; retries or terminates | pagers through `FaultsMbox`, `faults[]` and the semaphore; `FramesMutex`, `vmStatsMutex` |
| Pager (`phase5.c:424-602`) | `FrameTable`, page tables, `NextBlock`, its locals | receives a pid, finds a frame, updates the tables, writes the old page out, reads the new one in, answers | everything |
| Frame search (`phase5utility.c:206-251`) | `NextCheckedFrame`, REF bits | free frame, else clock | called by the pager under `FramesMutex` |
| Swap disk (`phase5utility.c:264-325`) | disk sectors, `diskBlock` of the page table entries | read, write a page | disk driver of phase 4 (blocks the pager) |
| Phase 1 hooks (`p1.c`) | `ProcTable`, the mappings in the MMU | `p1_fork`, `p1_switch`, `p1_quit`, called by phase 1 at every fork, switch and quit; they check the tables and halt when these disagree | dispatcher, MMU |
| Mutexes (`phase5utility.c:61-95`) | a mailbox of one slot | lock = send, unlock = receive | phase 2 mailboxes |
| VmInit, VmDestroy (`phase5.c:135-324`, `syscallHandlers.c`, `libuser5.c:195-241`) | all of the above, `VMInitialized`, `NumPagers`, `PagerKillSem` | called by start5: check the arguments and the processor mode, allocate and free, fork and kill the pagers | phase 1, 2, 3; the MMU; the disk driver (its size) |
| VmStats, PrintStats (`phase5.c:246-267`, `phase5.h:27-41`) | counters | incremented here and there, most of them under `vmStatsMutex` | |
| test programs (`testcases/`) | the pages of their children | start5 calls VmInit, spawns children, waits, asserts counters, calls VmDestroy; a child writes, reads, asserts | everything |
| start4, the rest of `libuser5.c`, debugging | none of interest | system call glue | |

What is hard here:

* **Concurrency on one processor.** A process runs until it blocks, is
  preempted by a better priority, or its time slice ends. Mutexes, the mailbox,
  the semaphore and the disk are the points where a pager loses the processor,
  and users run and quit in between with the pager's local copies of the tables
  in its hands.
* **Two views of one mapping.** A page's place is in its page table entry, in
  the frame table, in the MMU (for the current process only) and in the pager's
  locals; each is written at a different line.
* **Start and stop.** The pagers run before VmInit has finished (they have the better or
  an equal priority) and after VmDestroy has turned the MMU off; processes are forked
  before, during and after the region's life, and the hooks look only at
  `VMInitialized`. Ids of mailboxes and semaphores are used without a look at the
  error codes.
* **Failure paths.** A search may fail (retry), the swap disk may be full (the
  process is terminated), consistency checks halt the machine.

What makes it correct: no frame serves two pages; the MMU follows the tables; an
answered page stays until its process has run; a page's content changes only by
its process's stores; every fault is answered once; what VmInit makes exists as long as
it is used, and VmDestroy returns; the counters count what happened; nothing halts.
`PROJECT.json` lists every hazard at its line.

## Modules

| Module | What it is |
|---|---|
| `ClockReplacement` | `getNextFrame` as an operator, `NextFrame`, in closed form: the look the loop stops at is the least one whose test succeeds. |
| `FrameSearch` | the abstract specification of a search: the answer of `NextFrame`, in one step. |
| `ClockLoop` | the two loops of `getNextFrame`, look by look, on every frame table its callers can build; implements `FrameSearch`. |
| `SwapDisk` | sectors, the addresses both transfers compute, what a read returns after a write. The driver is external: it refuses an address off the track and goes on over the end of one. |
| `VirtualMemory` | the system after VmInit: users, FaultHandler, pagers, hooks, dispatcher, MMU, disk. Extends the two above. |
| `FlatMemory` | the abstract specification: every process has pages that keep what it stored. |
| `VmProperties` | type invariant, safety and liveness properties, the refinement mapping to `FlatMemory`. |
| `VmAnswerProofs` | TLAPS: type correctness, and one answer for every fault, for every value of the constants. |
| `ClockProofs` | TLAPS: what `NextFrame` returns, and which REF bits it clears. |
| `ClockLoopProofs` | TLAPS: the loop is the search, and the search is a clock, for any number of frames. |
| `VmTablesProofs` | TLAPS: with one pager the tables and the MMU agree, no mapping is refused, and whose the frames and their locks are. |
| `VmContentProofs` | TLAPS: with one pager, the disk blocks, what a running process reads, what can halt the machine. |
| `VmMemoryProofs` | TLAPS: with one pager the region implements `FlatMemory`; when the disk has room for it. |
| `VmLifecycle` | from before VmInit to after VmDestroy, several times over: start5's calls, the pagers' start and end, the hooks before and after, children of every age. |
| `LifecycleProperties` | its type invariant, safety and liveness properties. |
| `LifecycleProofs` | TLAPS: types, no pager outlives the tables, what can halt the machine, for every program and every value of the constants; a program that keeps the order of the calls halts nothing, uses nothing that is gone, gets true statuses and leaves no count behind. |
| `VmStats` | the counters of `VmStats`, and users that run given programs: the behaviours of `VirtualMemory` in which they do; what must hold of counters and reads. |
| `TestPrograms` | the ten programs of `testcases/`, and what they assert. |
| `VmStatsProofs` | TLAPS: programs with counters are behaviours of `VirtualMemory`; the counters fit the tables; reads are right. |
| `MCVirtualMemory`, `MCVmLifecycle`, `MCTestPrograms` | instances for TLC (`ClockLoop` is its own). |

### How `ClockLoop` corresponds to the code

`pc` is the loop of `getNextFrame` that runs (`free`: lines 208-215, `clock`: lines 218-250)
and `look` its `i`; a step is one look. The frame table keeps what the loops test: whether a
frame has a page, and whether it is locked. `Others` are those who change it between two
searches: a process unlocks its frame, uses it, or quits. During a search nobody does when
there is one pager: it has FramesMutex, and no user can run. (A second pager could: it writes the
entry of its frame and the access bits without the mutex, `phase5.c:476-497` and `585`. These
interleavings are left out.) A search is one step of `FrameSearch`, and of
`VirtualMemory`'s `GetNextFrame`: until the loop returns, the REF bits seen from outside are those
it began with (the history variable `before`).

### How `VirtualMemory` corresponds to the code

* `upc[u]` is where a user is: `user` is its program, the rest are the points of
  FaultHandler (and of PrintStats) where it can lose the processor. `ppc[p]` is
  the same for a pager; `job[p]` are the pager's locals (`pid`, `incomingPage`,
  `incomingPageExists`, `frame`, `outgoingPage`, the pid behind
  `outgoingPageProc`, the REF bit of `access`, `buffer`).
* One action is the code between two such points. Two critical sections of a
  pager (`Critical`) are one step when the mutex is free. With one pager this is exact:
  nobody else touches what they read and change without the same mutex. With several it
  leaves out the schedules in which another pager writes FrameTable and the access bits
  (`phase5.c:476-497`, `585`, no mutex) between two looks of a search; the runs with two
  pagers check the mailbox, the semaphores and the answers, or show what goes wrong
  already without them. The update of the tables (`phase5.c:488-497`) is one step.
* `Running(x)` is the dispatcher: a step needs the processor (`cur = x`) and
  that nobody of a better priority can run. `p1_switch` may happen between any
  two steps, to any process the dispatcher could choose, so time slices and
  preemption are covered. Pagers have priority 2 (`phase5.c:211`).
* `Halt(why)` is `USLOSS_Halt`, or an access outside a table: `mappings` (checks
  of `p1.c`, calls of the MMU), `transfer` (checks of the disk transfers),
  `faults` (`faults[pid]` past its end), `process` (`ProcTable[-1]`). Nothing
  happens afterwards.
* The MMU holds one tag's mappings and refuses to map a mapped page or to unmap
  one that is not. An access sets REF, a store DIRTY; so do the pager's copies,
  which go through a mapping of its own (`phase5.c:535`, `phase5.c:570`).
* A page's content is a value; zero pages are `Zero`, garbage `Torn`. The disk is
  a function of sectors, so that an overlap of two blocks shows.
* `System` stands for start5, the drivers and the sentinel: it forks the users,
  and the disk's interrupts are served on its time.

Left out of `VirtualMemory`: the parts before VmInit has returned and from
VmDestroy on, which are `VmLifecycle`; the counters (not their mutex), which are
`VmStats`; zap; `FaultMsg.pid`, which nobody reads; a pager preempted inside
`phase5.c:488-497`.

### How `VmLifecycle` corresponds to the code

* `s5` is where start5 is: in its program, asleep (in Wait or SemP), or at a point of
  VmInit or VmDestroy where a process of the same priority or the drivers may run. The
  points of VmInit: after FramesMutex, after FaultsMbox, between two forks, waiting for
  the disk's size, before `VMInitialized` is set. Of VmDestroy: after MmuDone, before a
  kill message, waiting on PagerKillSem, before the tables are freed.
* `mode` is start5's processor mode. The wrappers halt in kernel mode, and so does
  lockMutex when the call it makes insists on the other mode (`LockHalts`): PrintStats is
  called by the program in user mode (`PrintStats`) and by vmDestroyReal in kernel mode
  (`LastStats`). `setToUserMode` ends a call.
* `handle` says of each id whether it was never set, is good, or is the error code of a
  creation that failed: `MAXMBOX` and `MAXSEMS` are the mailboxes and semaphores phases 2
  and 3 still have. A send to a bad mailbox and a P or V of a bad semaphore do nothing,
  a receive ends the pager, as the code has it. `FaultsMbox` is the mailbox whose id is in
  the variable: a pager of an earlier session that is blocked when VmInit makes a new one
  stays on the old one (`old`), which nobody sends to any more, and one that has not called
  MboxReceive yet comes to the new one.
* A pager is at one of the places where it uses what VmInit made: receiving, holding a
  frame, at the disk, mapping, leaving. `resident` is the set of slots whose page table
  names a frame: what p1_switch and p1_quit would unmap.
* `entry`, `privateSem` and `sem` are the slots of `ProcTable` and their semaphores. A
  process that is spawned takes any free slot, also one used before.
* `Halt(why)`: `mode`, a system call in the wrong mode; `mmu`, a call of the MMU while it
  is off, or MmuInit while it is on; `freed`, the frame table or a page table used, or
  freed, after `free`; `semaphore`, p1_fork without one.
* `Disciplined` chooses between programs that pair their calls and wait for their
  children, as all in `testcases/` do, and any programs. `Zappable` are the pagers some
  other process zaps.

How a fault is served is abstracted: any pager may find no frame, a full disk, or a frame
of another process. A process forked before VmInit does not touch the region, and
VmDestroy is not called before the first VmInit. The mutexes are not held over in this
module; their contention is in `VirtualMemory`.

### How `VmStats` and `TestPrograms` correspond to the code

A program is a list of reads, writes and assertions for each user. `StatsNext` is `Next`
of `VirtualMemory` with the action of every line that counts joined to its counter
(`phase5.c:358`, `phase5.c:483`, `phase5utility.c:269`, `phase5utility.c:302`), and users
restricted to the next item of their list. SemV and SemP are left out: the model may switch
processes at any step, so it has the schedules they force and the others. `start5` spawns
all children before one of them runs (its priority is better).

All ten run on two frames, which the operators' parameters allow for: simple4, simple5,
simple6 and simple8 define `FRAMES` as `PAGES - 1` and have three pages here (of seven, two,
seven and four), simple3 has as many pages as frames, simple8 goes round twice instead of ten
times, and simple7 has two of its three children. simple10's final counters depend on when
the children are switched and are left out. A value stands for the bytes a test writes to
a page.

## Runs

| Run | Instance | Shows |
|---|---|---|
| `clock` | 3 frames | `SearchIsTheLoop`, `SecondChance`, `TakesTurns`, `FailsAtALock`, `LoopTypeOK` |
| `quits` | 1 pager, 3 users, 1 page, 2 frames, 2 disk blocks for 3 dirty pages; users 3 and 4 quit, one prints | `TablesAgree`, `NoMappingHalt`, `HaltsNeedAQuit`, `LocksBelongToFaults`, `BlocksAreDistinct` |
| `memory` | 1 pager, 2 users, 2 pages, 2 frames, 4 sectors a page, 3 tracks of 3 | `IsFlatMemory`, `ReadsSeeContent`, `MmuFollowsTables`, `AnsweredPageIsResident` |
| `answers` | 2 pagers, 2 users, 1 page, 1 frame, one quits, one prints, fairness | `FaultsAreAnswered`, `TypeOK`, `OneAnswerPerFault` |
| `lifecycle` | 2 children, 2 pagers, 2 sessions, 7 argument lists; paired calls, fairness | `NothingHalts`, `UsedWhileItExists`, `StatusIsTrue`, `SemaphoresBalance`, `NoPagerOutlivesTables`, `LifecycleTypeOK`, `CallsReturn` |
| `misuse` | 2 children, 2 pagers, 3 sessions, 7 mailboxes, 1 semaphore, pager 5 may be zapped; any calls | `HaltsNeedMisuse`, `NoPagerOutlivesTables` |
| `tests` | the ten programs on 2 frames, 3 pages; 1 pager, up to 2 children | `AssertsHold`, `ReadsAreRight`, `CountersFitTables` |
| `big_pid` | one user with pid 8, MAXPROC 5 | `FaultsAreInTheTable` violated |
| `quit_race` | 1 pager, 3 users, one prints, one quits | `PagesOutHaveAnOwner` violated |
| `two_pagers` | 2 pagers, 3 users, one prints, 1 page, 2 frames | `TablesAgree` violated |
| `sectors` | 1 pager, 2 users, 1 frame, two blocks on one track | `IsFlatMemory` violated |
| `gives_up` | 1 pager, 2 users, 2 frames | `SearchFindsUnlocked` violated |

Bounds. Two frames and three or four pages make every kind of replacement happen
(a free frame, a clean page, a dirty one with and without a block, the process's
own page and another's); two frames are the least for which the clock has a
choice, and three (`clock`) the least for which the hand's order shows. Three
users are needed for a page to go out, one to come in and a third process to hold
a mutex. In `VirtualMemory` users are spawned once: each pid is used for one life. The stores of
`Writable` and the one value of `Values` keep the instances small; content other
than zero is only needed in the `memory` and `sectors` runs. `CHECK_DEADLOCK
FALSE`, where it is given, is because the machine stops: it halts, or all users have
quit.

Two sessions are the least in which something of the first can be in the way of the second
(an old mailbox, an old count, a slot used before), two pagers the least for which the
order of the kill messages matters. `misuse` has a third session, seven mailboxes, which are used
up by its FramesMutex, and one semaphore: a child has it, or the first VmDestroy, and the next
VmDestroy waits for no pager at all. It takes three sessions until a pager is left on a mailbox
that has no kill message for it: the first must leave one pager too many to the second.

The tests of one child (simple1 to simple6) have one order of accesses, but the pager,
the dispatcher and the disk are as free as in `VirtualMemory`. `MaxRefaults` bounds the faults
of the tests with two children to one more than their accesses so far: a frame is unlocked
(`phase5.c:403`) before the access is tried again, so two processes may take it from each
other for ever. simple5 and simple6 read a page back right after the write and cannot see a
wrong swap; simple10 can, and `ReadsAreRight` checks its reads on every schedule. The
geometry is one where reads and writes agree, as in `memory`, and the disk has a block more
than there are pages: with these `RoomOnDisk` and `WritesWhereItReads` hold, the hypotheses of
`ReadsAlwaysRight`.

The geometry of `memory` (4 sectors a page, tracks of 3) is one where the quotient
of a write and the remainder of a read are the same for both blocks: it shows that
the rest of the system keeps a page's content. `sectors` has the geometry of a
track with two blocks, where they differ.

Priorities: the users of all runs have priority 5, as the tests spawn them, below
the pagers' 2. The safety properties of one pager rest on it: with users of
priority 2 a time slice can end between the pager's mapping and its copy.

Fairness (`FairSpec`, the run `answers`): round robin gives every process that can
run at the best priority the processor again and again, a process that has it
executes its handler, every disk transfer ends. It is strong because a process's
turn comes and goes with the other processes of its priority. Nothing is assumed of
a user's program. In `lifecycle` the same, as far as start5 and the pagers go. With one
frame this includes searches that fail and are tried
again.

## Disagreements

The five violation runs are the places where the code does not do what the
repository says; `PROJECT.json` ("findings") quotes each. In short: `faults[pid]`
is indexed with a pid (`phase5.c:454`); a page may go out for a process that has
quit (`phase5.c:548`); a frame found is not locked at once, so two pagers share it
(`phase5.c:468`); writes go to the wrong sector (`phase5utility.c:321`); the search
can miss an unlocked frame (`phase5utility.c:218`).

Not runs, but to be seen in the code:

* Two pagers also get in each other's way in the MMU: when the time slice of one ends between
  its map and its unmap and the other maps the same page number under the one tag,
  USLOSS_MmuMap refuses and the machine halts (`phase5.c:535-543`, `phase5.c:570-582`; "All
  processes use the same tag", `vm.h:15`). The instance `two_pagers` shows it as a violation of
  `NoMappingHalt`.
* With the swap disk full the process that faulted is terminated, and the outgoing page of
  another process is lost as well (`phase5.c:520-525`): it has left its page table at
  lines 488-492. The instance `sectors` with `TrackSize = Tracks = 1` shows it as a
  violation of `IsFlatMemory`.
* VmDestroy "Frees all of the global data structures" (`phase5.c:275`) and releases
  neither the three mailboxes nor PagerKillSem. A program that calls VmInit often enough
  gets error codes nobody looks at (`misuse` has this).
* `freeFrames`, `freeDiskBlocks` and `replaced` (`phase5.h:31-41`) are never updated.
* VmInit's comment promises the address of the region (`libuser5.c:192`) and the function
  returns a status; VmDestroy returns `arg1`, which nobody has set (`libuser5.c:241`).

## Proofs

`ClockProofs` is about the closed form of the search, for any frame table: the frame it
returns (`NextFrameType`), and which look it stops at and which REF bits it has cleared by
then. `ClockLoopProofs` proves `LoopIsTheSearch`, `LoopSpec` implements `FrameSearch`, so the
closed form that `VirtualMemory` uses is what the loops compute. The loop is a state machine
of its own, so that no induction is needed: the invariant (`LoopInv`) says that after `look`
looks no look so far could have stopped the loop and the REF bits are `Swept(ft, before, hand,
look)`; the look that stops it is therefore the least. `UsedPagesGetAChance`, `FramesTakeTurns`
and `SearchFailsAtALock` (`[]SecondChance`, `[]TakesTurns`, `[]FailsAtALock`) say what kind of
search it is; the second needs `HandInv`, the hand is one past the frame replaced last. All of
this is for any number of frames (`NumFramesAssumption`).

`VmAnswerProofs` first proves `TypeCorrect`, `Spec => []TypeOK`, from the named assumptions on
the constants alone (`NumFramesAssumption`, `GeometryAssumption`,
`ProcessAssumption`). The inductive invariant is `TypeOK /\ AtWork`: a pager that is
not waiting for a message knows whose fault it serves, and one that writes a page out
knows which. Without `AtWork` a page table could be indexed with a local that has not
been set.

It then proves `OneAnswer`, `Spec => []OneAnswerPerFault`, from the same
assumptions: for any number of users and pagers, with quits, failed searches, a full
disk and halts. The counts of the property are not inductive as they stand, so the
invariant, `AnswerInv`, says it without them: live processes are in slots of their own
(`OwnSlots`, or a count of one process's semaphore would be another's); the messages in
the mailbox are of waiting processes, all different, and no pager serves one of them
(`MailInv`); no two pagers serve the same process, and it waits (`ServedInv`); a
semaphore is 0 or 1, and 1 only for a process that waits and is neither in the mailbox
nor served (`SemInv`); a process that waits has one of the three (`SomeAnswer`). Five
steps matter: a fault is sent, received, answered, its process goes on, a process comes or
goes; every other step leaves what the invariant speaks of as it is (`AnswerFrame`).
`AnswerCount` turns the invariant into the counts. A process waits while its pid is in
the mailbox, so it cannot quit with a message on the way; the model has no zap, which
would let it.

`VmTablesProofs` proves `TablesAlwaysAgree`, `MmuAlwaysFollows` and
`MappingsNeverRefused`: `Spec` implies `[]TablesAgree`, `[]MmuFollowsTables` and
`[]NoMappingHalt` from two assumptions more, `OnePager` and `UsersBelow` (every user's
priority is worse than the pagers'). Nothing is assumed of pids: a process whose pid is not
below MAXPROC may stop the machine (`faults`), but never gets a page. The invariant adds
`TablesInv` to the two above:

* `FramesInv`: a page table entry with a frame and that frame's entry name each other,
  and the owner lives. It is stated for slots, because the evicting line
  (`phase5.c:488-492`) writes into whatever process is in the victim's slot by then.
* `VictimInv`: between the choice of a frame and the update of the tables the frame
  holds the page the pager remembers, or none (its owner has quit). This is what makes
  `FramesUpdate`, the step that gives the frame away, leave no third page on it; it fails
  with two pagers, and so does the theorem (`two_pagers`).
* `MmuInv`: what the MMU holds, for a user and for anybody else: the pager's own mapping
  at `copyout` and `copyin`, nothing otherwise.
* `WaitInv`: the pager waits for a mutex at four places only, and no copy is one of
  them. With `UsersBelow` it gives `UsersWait`, no user is switched to while the
  pager's mapping is loaded.

It also proves `AnsweredIsResident` and `LocksAreForFaults`, from the same two
assumptions: `Spec` implies `[]AnsweredPageIsResident` and `[]LocksBelongToFaults`. Both are
about a frame between line 495, where the pager locks it, and line 403, where the process
unlocks it; what lies between is spread over the process's place, the message, the
semaphore and the pager's locals. `FrameInv`, on top of `TablesInv`, ties them together:

* `OwnersInv`: a frame with a page is of a live process whose page table names it (the
  converse of `FramesInv`).
* `MessageInv`, `FaultingInv`, `JobInv`: a waiting process's message is about the page it
  touched, that page has no frame until the pager has placed it, and the pager's locals
  agree with message and frame. That a page has no frame is why a pager never evicts the page
  it is about to bring in.
* `VictimOwnerInv`: the owner of the page that goes out has been born; when it has quit, the
  slot the evicting line writes to (`phase5.c:488-492`) is empty.
* `AnsweredInv`, `LockInv`: a process that has been answered has its page in the frame its
  message names, locked; and nobody else has a locked frame with a page in it. (A frame
  without one may be locked: when the disk is full its process is terminated without the
  unlock of line 403. The search takes it as a free one.)

`VmContentProofs` proves three things. `BlocksAlwaysDistinct` (one pager, any priorities): no
two pages share a block. `ReadsAlwaysSeeContent`: what a user reads through the MMU is the
content of its page; it needs `CurInv`, no pager is at work for the process that has the
processor. `OnlyQuitsHalt`: with pids below MAXPROC (`PidsAreSlots`) the machine halts only
when the pager is about to write out a page whose owner has quit; it needs `OutInv`, the entry of a page that goes out says what
the transfer's checks ask (`phase5utility.c:277-316`) unless its owner has quit.
`PidsAreSlots` is there because a larger pid halts the machine at its first fault
(`big_pid`).

`VmMemoryProofs` proves that the region implements `FlatMemory`. The abstract state is
`Live` and `Content`, which follows a page from its frame through the pager's buffer to its
block and back. The invariant is `SwapInv`, with `MemoryInv` and `BlockInv`:

* `EntryInv`: an entry that says INMEM has a frame, one that is UNUSED has no block; a slot
  is its own process's.
* `CleanInv`: a page in a frame that is not dirty is what the disk has. This is what makes it
  right to drop a clean page (`phase5.c:509`).
* `SaveInv`: the block a page is written to is in the entry of that page and in no other.
* `FetchInv`: what the buffer holds when it is copied into the frame is what the disk has, or
  zeros for a page without a block, which is not read (`phase5.c:553`).

Every action of the system is shown to be a step of `FlatMemory` (`FlatStore`, `FlatFork`,
`FlatQuit`) or to leave its variables alone (`FlatUnmoved`). The code does not implement
`FlatMemory` on every disk, so the theorem has to say when. `RegionIsFlatMemory` assumes it of
the behaviour: no page-out finds the disk full (`RoomOnDisk`: a full disk loses the page
of another process, see above), and none goes to another place than it is read from
(`WritesWhereItReads`: `sectors` shows what happens otherwise; with whole pages on a track, as the
program assumes, the two lines agree for block 0 and for no other block of its track).

Two theorems replace these by assumptions on the constants. `LargeDiskHasRoom`: `RoomOnDisk`
always holds, on any geometry, when the disk has more blocks than there are pages stored to
(`DiskIsLarge`). For this, `RoomInv` says that only pages that may be stored to are written out
(`StoredInv`), and counts (`CountInv`): there are no more blocks given than pages that have one or
whose process has quit, but for one. That one is for a page whose process quits when its frame has
been chosen already (the pager may wait for `vmStatsMutex` there): its page table is gone and with
it the block it may have had, so that it is given another, and the pager halts at line 548 before
it asks for a third. `DiskIsLarge` cannot be weakened to as many blocks as pages: with one frame,
two blocks and two such pages TLC finds `RoomOnDisk` violated in just this way, and there the
disk is full and the process that faulted is terminated.

`EnoughFramesIsFlatMemory`: the region implements `FlatMemory`, on any disk, when there is a frame
for every page of every process (`FramesForAll`; simple1, simple2 and simple3 run so). `FrameFree`
counts: the pages in frames are different, and the page the pager works for is
none of them, so a free frame is left, the search takes it, and nothing ever goes out
(`FreshInv`). Between the two, with replacement, the region is a flat memory or not depending on
where the disk puts a block, and the hypothesis stays one on the behaviour.

`LifecycleProofs` proves `LifecycleTypes` and `PagersEndFirst`: `Spec` of `VmLifecycle`
implies `[]LifecycleTypeOK` and `[]NoPagerOutlivesTables`, from `LifecycleAssumption`
alone: any program, disciplined or not, pagers zapped or not. The inductive invariant is
`KillInv`: the types, with `Serving` (a pager at work knows for whom); what the MMU, the
tables and `VMInitialized` are at each point of start5's calls (`PhaseInv`); and the count.
If PagerKillSem could not be created, phase 3 has no semaphore left, and none ever after
(`ExhaustedInv`: a semaphore is freed only when a process with an entry quits under an
active hook, and from then on there is none), and the property asks nothing. Otherwise start5
has been woken once for each pager that has left: `i + killSem` is at most the number of pagers gone, and the
number of pagers forked is `NumPagers` (`CountInv`); when `i` has reached `NumPagers` all
of them are gone. The count must be an inequality, because a pager that was zapped may have
left before the semaphore existed.

It also proves `OnlyMisuseHalts`, `Spec => []HaltsNeedMisuse`. A pager halts
the machine when it works on a fault while the MMU is off or the tables are gone; the
property says that then a child is alive, also where VmDestroy got no semaphore and went on
without waiting (`misuse`). So the invariant, `MachineInv`, adds to `KillInv`
that every fault a pager works on, or that is in the mailbox, is of a live child that waits
for it and is asked for once (`AskInv`), and that start5 is in kernel mode inside its calls
only and a child that has the processor is alive (`RunInv`).

The second half of `LifecycleProofs` is about programs that are `Orderly`: they pair their
calls of VmInit and VmDestroy and wait for their children before VmDestroy (`Disciplined`), nobody zaps a
pager, and there are mailboxes and semaphores enough for all they ask for. It proves
`OrderlyNeverHalts`, `OrderlyUsesWhatExists`, `StatusIsAlwaysTrue` and
`SemaphoresAlwaysBalance`, for any number of children, pagers and sessions. `OrderInv` adds to
`MachineInv`:

* `PairInv`: what start5 has set at each point of its calls: `VMInitialized`, the MMU, the
  tables.
* `MadeInv`: each session has taken three mailboxes, so every creation has succeeded, and
  an object exists from where it is made.
* `ChildInv`: a process with an entry is alive and has a private semaphore; nobody has an entry
  while the region is not up; no child lives during VmDestroy.
* `QuietInv`: there is at most one kill at a time, and it is start5's: in the mailbox, with a
  pager on its way out, or signalled. So no pager is left behind for the next
  session, and the count of PagerKillSem is spent.

`VmStatsProofs` proves `ProgramsAreBehaviours`, `StatsSpec => Spec`: joining the counters
and a program to `VirtualMemory` adds no behaviour to it. With it `OneAnswer` holds of the
test programs (`OneAnswerInPrograms`).

It proves `CountersAlwaysFit`, `StatsSpec => []CountersFitTables`, for any programs, any
finite number of users and of pagers, with quits at any time; nothing is assumed of pids or
priorities. What makes it hold is spread over FaultHandler and the pagers, so
the invariant, `StatsInv` (on top of `TypeInv` and `AnswerInv`), says for each process whose fault
has been counted what may still be counted of it:

* `KindsInv`: `new + pageIns` and the number of processes in `NotCounted` are at most
  `faults`: a process that has counted its fault and is about to send it, is in the mailbox, or has
  been told that the search failed (`Asks`), or whose pager may still count it (`MayCount`).
  The same for `pageOuts` with `NotWritten`. Each step that counts takes a process out of
  the set; a fault that is sent again puts nobody in it who was not there, because a search
  fails before anything is counted (`FailedInv`: only a message that is not on its way says
  failed). After a halt only the inequality of the counters is left.
* `UsedInv`: while nobody has quit, what a frame or a pager's locals name is a page in use,
  and `exists` is true until the tables are updated: two pagers never serve one page (one answer
  for every fault), so what line 463 read is not stale at line 483.
* `NewInv` and `BlocksInv`: the counts of the property.

And it proves what the tests check by hand (`simple10.c:84-98`): `ReadsAlwaysRight`, a process
reads what it wrote to that page last, or zeros, for any programs, with the assumptions of
`RegionIsFlatMemory`; `EnoughFramesReadsRight`, with those of `EnoughFramesIsFlatMemory`. The
invariant is `WrittenInv`: the `Content` of every page of every process that has not
quit is `LastWritten` at the place where its code is. It follows the steps of `FlatMemory`; the
read itself is `ReadsAlwaysSeeContent`. That a program expects what it wrote last is
`ReadAssumption`, which TLC evaluates for the ten tests.

Only model-checked: `AssertsHold`, which is about ten given programs, each with its own numbers.
Out of the prover's reach: liveness (`FaultsAreAnswered`, `CallsReturn`).

All theorems about `VirtualMemory` but `TypeCorrect`, `OneAnswer` and `CountersAlwaysFit` are for
one pager. With two most of them are false: a frame found is not locked at once (`two_pagers`),
and two mappings of one page number are in each other's way (Disagreements).

## Not modelled

* Zap of a process in FaultHandler: what semP and MboxSend then do is phase 1 to 3's
  matter, which are not in the repository. A zapped pager is modelled as far as its own
  loop goes (it does not start another round).
* `start4`, the other wrappers of `libuser5.c`, `enableInterrupts`, the debugging output:
  sequential, without state of their own.
* `vmStats.switches`, which only PrintStats reads.
* VmInit with no frames (`NumFramesAssumption`), and a region of other than
  `mappings` pages, which VmInit refuses.
* A slot of `ProcTable` used again by another pid, with page contents: in `VirtualMemory`
  such a pid stops the machine at its first fault (`big_pid`); in `VmLifecycle` slots are
  used again, without contents.

## Plan

1. Done: the modules above, their runs, and a theorem for every safety property and refinement
   that a passing run checks, but for `AssertsHold`.
2. Next: `VirtualMemory` without `phase5.c:454`'s early stop, so that slots are used again by
   other pids, and the proofs with it (`PidsAreSlots` would go).
3. The pagers' part of VmDestroy joined to `VirtualMemory`, so that a kill message may arrive
   behind a fault whose page is on its way.
