--------------------------- MODULE VmMemoryProofs ---------------------------
(***************************************************************************)
(* The VM region implements FlatMemory, with one pager of a better         *)
(* priority than every user and pids that are numbers of slots.            *)
(***************************************************************************)
EXTENDS VmContentProofs

\* A page goes out to the place it is read from.  The two computations of that place agree
\* on block 0 of any disk, and on the first TrackSize blocks when a page has one sector more
\* than a track; where they do not the region is no flat memory (run sectors).
WritesWhereItReads ==
    \A p \in Pagers : ppc[p] = "writing" =>
        WriteAddress(job[p].block) = ReadAddress(job[p].block)

\* No pager that needs a block finds the disk full.
RoomOnDisk ==
    halted = "no" => \A p \in Pagers : ppc[p] = "block" =>
        OutEntry(job[p]).diskBlock # EMPTY \/ NextBlock < DiskBlocks

\* Entries: what the parts of an entry say of each other, and whose slot it is.
EntryInv ==
    /\ \A s \in Slot : ProcPid[s] \in {EMPTY, s}
    /\ \A u \in Live : \A i \in Page :
         LET e == pte[getProc(u)][i]
         IN  /\ e.state = "INMEM" => e.frame # EMPTY
             /\ e.state = "UNUSED" => e.diskBlock = EMPTY

\* A page that is in a frame and has not been stored to since is also on the disk.
CleanInv ==
    \A u \in Live : \A i \in Page :
        LET e == pte[getProc(u)][i]
        IN  /\ e.frame # EMPTY
            /\ \A p \in Pagers : ~ Into(p, u, i)
            /\ ~ dirty[e.frame]
            => ram[e.frame] = Stored(e)

\* The page that goes out: only its own entry names the block it is written to.
SaveInv ==
    \A p \in Pagers :
        /\ ppc[p] = "pageout" => job[p].owner \in {EMPTY, job[p].outPid}
        /\ ppc[p] = "writing" =>
            /\ job[p].block \in 0 .. DiskBlocks - 1
            /\ \A u \in Live : \A i \in Page :
                pte[getProc(u)][i].diskBlock = job[p].block =>
                    u = job[p].outPid /\ i = job[p].outPage
            /\ job[p].outPid \in Live => OutEntry(job[p]).diskBlock = job[p].block

\* The page that comes in: what the buffer holds when it is copied.
FetchInv ==
    \A p \in Pagers :
        /\ ppc[p] # "receive" /\ ~ job[p].exists => InEntry(job[p]).diskBlock = EMPTY
        /\ ppc[p] = "reading" => job[p].block = InEntry(job[p]).diskBlock
        /\ ppc[p] \in {"mapin", "copyin"} => job[p].buffer = Stored(InEntry(job[p]))

SwapInv == EntryInv /\ CleanInv /\ SaveInv /\ FetchInv

-----------------------------------------------------------------------------
(* Where a block is on the disk.                                             *)

LEMMA Division ==
  ASSUME NEW n \in Nat, NEW d \in Nat \ {0}
  PROVE  /\ n \div d \in Nat /\ n % d \in 0 .. d - 1
         /\ (n \div d) * d + (n % d) = n
BY SMT

LEMMA ProductGrows ==
  ASSUME NEW a \in Int, NEW b \in Int, NEW c \in Nat, a <= b
  PROVE  a * c <= b * c /\ c * a <= c * b /\ a * c \in Int
BY SMT

LEMMA BlockPlace ==
  ASSUME NEW b \in 0 .. DiskBlocks - 1
  PROVE  /\ Accepts(ReadAddress(b))
         /\ \A i \in Part : /\ SectorOf(ReadAddress(b), i) = SectorsPerPage * b + i
                            /\ SectorsPerPage * b + i \in Sectors
         /\ SectorsPerPage * b \in Nat
<1> DEFINE n == SectorsPerPage * b
           all == Tracks * TrackSize
<1>1. /\ SectorsPerPage \in Nat \ {0} /\ TrackSize \in Nat \ {0} /\ Tracks \in Nat \ {0}
      /\ all \in Nat
  BY GeometryAssumption
<1>2. DiskBlocks \in Nat /\ DiskBlocks * SectorsPerPage <= all
  BY <1>1, Division DEF DiskBlocks
<1>3. b \in Nat /\ b + 1 <= DiskBlocks
  BY <1>2
<1>4. n \in Nat /\ n + SectorsPerPage <= all
  <2>1. SectorsPerPage * (b + 1) <= SectorsPerPage * DiskBlocks
    BY <1>1, <1>2, <1>3, ProductGrows
  <2>2. SectorsPerPage * (b + 1) = n + SectorsPerPage /\ n \in Nat
    BY <1>1, <1>3
  <2>3. SectorsPerPage * DiskBlocks = DiskBlocks * SectorsPerPage
    BY <1>1, <1>2
  <2> HIDE DEF n, all
  <2> QED
    BY <1>1, <1>2, <2>1, <2>2, <2>3
<1> DEFINE t == n \div TrackSize
           r == n % TrackSize
<1>5. t \in Nat /\ r \in 0 .. TrackSize - 1 /\ t * TrackSize + r = n
  BY <1>1, <1>4, Division
<1>6. t < Tracks
  <2> SUFFICES ASSUME Tracks <= t PROVE FALSE
    BY <1>1, <1>5
  <2>1. Tracks * TrackSize <= t * TrackSize
    BY <1>1, <1>5, ProductGrows
  <2>2. t * TrackSize \in Int
    BY <1>1, <1>5
  <2> HIDE DEF t, r, n, all
  <2>3. all = Tracks * TrackSize
    BY DEF all
  <2> QED
    BY <1>1, <1>4, <1>5, <2>1, <2>2, <2>3
<1>7. ReadAddress(b) = [track |-> t, sector |-> r]
  BY DEF ReadAddress
<1> HIDE DEF n, all, t, r
<1>8. Accepts(ReadAddress(b))
  BY <1>1, <1>5, <1>6, <1>7 DEF Accepts
<1>9. ASSUME NEW i \in Part
      PROVE  SectorOf(ReadAddress(b), i) = n + i /\ n + i \in Sectors
  <2>1. i \in Nat /\ i < SectorsPerPage
    BY <1>1 DEF Part
  <2>2. SectorOf(ReadAddress(b), i) = t * TrackSize + r + i
    BY <1>7 DEF SectorOf
  <2>3. t * TrackSize \in Int
    BY <1>1, <1>5
  <2>4. n + i \in 0 .. all - 1
    BY <1>1, <1>4, <2>1
  <2> QED
    BY <1>5, <2>1, <2>2, <2>3, <2>4 DEF Sectors, all
<1> QED
  BY <1>4, <1>8, <1>9 DEF n

\* Two blocks have no sector in common.
LEMMA BlocksApart ==
  ASSUME NEW a \in 0 .. DiskBlocks - 1, NEW b \in 0 .. DiskBlocks - 1, a # b, NEW i \in Part
  PROVE  (SectorsPerPage * a + i) - SectorsPerPage * b \notin Part
<1>1. SectorsPerPage \in Nat \ {0} /\ a \in Nat /\ b \in Nat /\ i \in Nat /\ i < SectorsPerPage
  BY GeometryAssumption DEF Part
<1> DEFINE m == SectorsPerPage * a
           n == SectorsPerPage * b
<1>2. m \in Nat /\ n \in Nat
  BY <1>1
<1>3. m + SectorsPerPage <= n \/ n + SectorsPerPage <= m
  <2>1. CASE a < b
    <3>1. SectorsPerPage * (a + 1) <= n
      BY <1>1, <2>1, ProductGrows
    <3>2. SectorsPerPage * (a + 1) = m + SectorsPerPage
      BY <1>1
    <3> QED
      BY <3>1, <3>2
  <2>2. CASE b < a
    <3>1. SectorsPerPage * (b + 1) <= m
      BY <1>1, <2>2, ProductGrows
    <3>2. SectorsPerPage * (b + 1) = n + SectorsPerPage
      BY <1>1
    <3> QED
      BY <3>1, <3>2
  <2> QED
    BY <1>1, <2>1, <2>2
<1> HIDE DEF m, n
<1>4. (m + i) - n \notin 0 .. SectorsPerPage - 1
  BY <1>1, <1>2, <1>3
<1> QED
  BY <1>4 DEF Part, m, n

\* What is written to a block is read from it, and nothing else on the disk changes.
LEMMA DiskKeeps ==
  ASSUME NEW d \in Disk, NEW b \in 0 .. DiskBlocks - 1, NEW c, WriteAddress(b) = ReadAddress(b)
  PROVE  /\ DiskRead(DiskWrite(d, b, c), b) = c
         /\ \A a \in 0 .. DiskBlocks - 1 :
                a # b => DiskRead(DiskWrite(d, b, c), a) = DiskRead(d, a)
<1> DEFINE W == DiskWrite(d, b, c)
           n(x) == SectorsPerPage * x
<1>1. 0 \in Part /\ Part \subseteq Int
  BY GeometryAssumption DEF Part
<1>2. \A a \in 0 .. DiskBlocks - 1 : n(a) \in Int
  BY BlockPlace
<1>3. ASSUME NEW s \in Sectors PROVE W[s] = IF s - n(b) \in Part THEN <<c, s - n(b)>> ELSE d[s]
  <2>1. SectorOf(WriteAddress(b), 0) = n(b) /\ Accepts(WriteAddress(b))
    BY <1>1, <1>2, BlockPlace
  <2>2. W = [x \in Sectors |-> IF x - n(b) \in Part THEN <<c, x - n(b)>> ELSE d[x]]
    BY <2>1 DEF DiskWrite
  <2> HIDE DEF W, n
  <2> QED
    BY <2>2
<1>4. \A a \in 0 .. DiskBlocks - 1 : \A e : DiskRead(e, a) =
        IF \A i \in Part : e[n(a) + i] = <<e[n(a)][1], i>> THEN e[n(a)][1] ELSE Torn
  BY <1>1, <1>2, BlockPlace DEF DiskRead
<1>5. \A a \in 0 .. DiskBlocks - 1 : \A i \in Part : n(a) + i \in Sectors
  BY BlockPlace
<1>6. \A a \in 0 .. DiskBlocks - 1 : n(a) \in Sectors /\ n(a) + 0 = n(a)
  BY <1>1, <1>2, <1>5
<1>7. ASSUME NEW i \in Part PROVE W[n(b) + i] = <<c, i>>
  <2> DEFINE s == n(b) + i
  <2>1. s - n(b) = i
    BY <1>1, <1>2
  <2>2. s \in Sectors
    BY <1>5
  <2> HIDE DEF W, n, s
  <2>3. W[s] = IF s - n(b) \in Part THEN <<c, s - n(b)>> ELSE d[s]
    BY <1>3, <2>2
  <2> QED
    BY <2>1, <2>3 DEF s
<1>8. ASSUME NEW a \in 0 .. DiskBlocks - 1, a # b, NEW i \in Part
      PROVE  W[n(a) + i] = d[n(a) + i]
  <2> DEFINE s == n(a) + i
  <2>1. s - n(b) \notin Part
    BY <1>8, BlocksApart
  <2>2. s \in Sectors
    BY <1>5
  <2> HIDE DEF W, n, s
  <2>3. W[s] = IF s - n(b) \in Part THEN <<c, s - n(b)>> ELSE d[s]
    BY <1>3, <2>2
  <2> QED
    BY <2>1, <2>3 DEF s
<1>9. W[n(b)][1] = c
  <2>1. W[n(b) + 0] = <<c, 0>>
    BY <1>1, <1>7
  <2> HIDE DEF W, n
  <2> QED
    BY <1>6, <2>1
<1> HIDE DEF W, n
<1>10. DiskRead(W, b) = c
  <2>1. \A i \in Part : W[n(b) + i] = <<W[n(b)][1], i>>
    BY <1>7, <1>9
  <2> QED
    BY <1>4, <1>9, <2>1
<1>11. ASSUME NEW a \in 0 .. DiskBlocks - 1, a # b PROVE DiskRead(W, a) = DiskRead(d, a)
  <2>1. \A i \in Part : W[n(a) + i] = d[n(a) + i]
    BY <1>8, <1>11
  <2>2. W[n(a)] = d[n(a)]
    BY <1>1, <1>6, <2>1
  <2> QED
    BY <1>4, <2>1, <2>2
<1> QED
  BY <1>10, <1>11 DEF W
-----------------------------------------------------------------------------
(* The content of a page when there is one pager.                            *)

Kept(p, u, i) ==
    LET e == pte[getProc(u)][i]
    IN  IF OutOf(p, u, i)
        THEN IF ppc[p] \in {"pageout", "writing"} THEN job[p].buffer
             ELSE IF ppc[p] = "access" /\ ~ MustWrite(job[p]) THEN Stored(e)
             ELSE ram[job[p].frame]
        ELSE IF e.state = "INMEM" /\ ~ Into(p, u, i) THEN ram[e.frame]
        ELSE Stored(e)

LEMMA ContentIs ==
  ASSUME OnePager, NEW p \in Pagers, NEW u, NEW i
  PROVE  Content(u, i) = IF u \in Live THEN Kept(p, u, i) ELSE Zero
<1>1. Pagers = {p}
  BY DEF OnePager
<1>2. (\E q \in Pagers : OutOf(q, u, i)) <=> OutOf(p, u, i)
  BY <1>1
<1>3. (\E q \in Pagers : Into(q, u, i)) <=> Into(p, u, i)
  BY <1>1
<1>4. OutOf(p, u, i) => (CHOOSE q \in Pagers : OutOf(q, u, i)) = p
  BY <1>1
<1> QED
  BY <1>2, <1>3, <1>4 DEF Content, Kept

LEMMA ContentIsNext ==
  ASSUME OnePager, NEW p \in Pagers, NEW u, NEW i
  PROVE  Content(u, i)' = IF u \in Live' THEN Kept(p, u, i)' ELSE Zero
<1>1. Pagers = {p}
  BY DEF OnePager
<1>2. (\E q \in Pagers : OutOf(q, u, i)') <=> OutOf(p, u, i)'
  BY <1>1
<1>3. (\E q \in Pagers : Into(q, u, i)') <=> Into(p, u, i)'
  BY <1>1
<1>4. OutOf(p, u, i)' => (CHOOSE q \in Pagers : OutOf(q, u, i)') = p
  BY <1>1
<1> QED
  BY <1>2, <1>3, <1>4 DEF Content, Kept

FlatInv == MemoryInv /\ BlockInv /\ SwapInv

\* No page of a live process changes.
Unmoved(p) ==
    Live' = Live /\ \A u \in Live : \A i \in Page : Kept(p, u, i)' = Kept(p, u, i)

LEMMA StoredSame ==
  ASSUME UNCHANGED disk, NEW e, NEW f, e.diskBlock = f.diskBlock
  PROVE  Stored(e)' = Stored(f)
BY DEF Stored

\* The page table entries of the live processes.
LEMMA LiveEntry ==
  ASSUME Inv, NEW u \in Live, NEW i \in Page
  PROVE  /\ u \in Users /\ getProc(u) \in Slot /\ pte[getProc(u)][i] \in PTE
         /\ pte[getProc(u)][i].frame \in Frame \cup {EMPTY}
         /\ pte[getProc(u)][i].diskBlock \in Nat \cup {EMPTY}
<1>1. u \in Users /\ getProc(u) \in Slot
  BY UserSlot DEF Live
<1>2. pte[getProc(u)][i] \in PTE
  BY <1>1 DEF Inv, TypeInv, TypeOK
<1> QED
  BY <1>1, <1>2 DEF PTE

LEMMA SwapQuiet ==
  ASSUME SwapInv, NEW p \in Pagers, UNCHANGED <<ProcPid, pte, ram, dirty, disk, ppc, job>>,
         Live' = Live
  PROVE  SwapInv' /\ Unmoved(p)
<1>1. EntryInv'
  BY DEF SwapInv, EntryInv
<1>2. CleanInv'
  BY DEF SwapInv, CleanInv, Into, Stored
<1>3. SaveInv'
  BY DEF SwapInv, SaveInv, OutEntry
<1>4. FetchInv'
  BY DEF SwapInv, FetchInv, InEntry, Stored
<1>5. Unmoved(p)
  BY DEF Unmoved, Kept, OutOf, Into, MustWrite, Stored
<1> QED
  BY <1>1, <1>2, <1>3, <1>4, <1>5 DEF SwapInv

\* A step of the pager that changes no page table, no frame and nothing on the disk.
LEMMA SwapStep ==
  ASSUME FlatInv, OnePager, NEW p \in Pagers, NEW from, NEW to, NEW j, Step(p, from, to, j),
         UNCHANGED <<pte, ram, dirty>>, to \in PagerPc,
         from \in Placing <=> to \in Placing,
         from \in Placing => j.pid = job[p].pid /\ j.page = job[p].page,
         \A u \in Live : \A i \in Page :
            OutOf(p, u, i) \/ OutOf(p, u, i)' => Kept(p, u, i)' = Kept(p, u, i),
         SaveInv', FetchInv'
  PROVE  SwapInv' /\ Unmoved(p)
<1>1. /\ Pagers = {p} /\ ppc[p] = from /\ ppc'[p] = to /\ job'[p] = j
      /\ UNCHANGED <<upc, ProcPid, disk>>
  BY DEF OnePager, Step, At, FlatInv, MemoryInv, Inv, TypeInv, TypeOK
<1>2. Live' = Live
  BY <1>1 DEF Live
<1>3. \A u, i : Into(p, u, i)' <=> Into(p, u, i)
  <2>1. \A x : x \in Placing <=> x \in PagerPc \ {"receive", "select", "victim", "count", "update"}
    BY DEF Placing, TakingOut, PagerPc
  <2> QED
    BY <1>1, <2>1 DEF Into
<1>4. EntryInv'
  BY <1>1, <1>2 DEF FlatInv, SwapInv, EntryInv
<1>5. CleanInv'
  BY <1>1, <1>2, <1>3 DEF FlatInv, SwapInv, CleanInv, Stored
<1>6. ASSUME NEW u \in Live, NEW i \in Page PROVE Kept(p, u, i)' = Kept(p, u, i)
  <2>1. CASE OutOf(p, u, i) \/ OutOf(p, u, i)'
    BY <2>1
  <2>2. CASE ~ (OutOf(p, u, i) \/ OutOf(p, u, i)')
    BY <1>1, <1>3, <2>2 DEF Kept, Stored
  <2> QED
    BY <2>1, <2>2
<1> QED
  BY <1>2, <1>4, <1>5, <1>6 DEF SwapInv, Unmoved

LEMMA SaveNothing ==
  ASSUME Inv, OnePager, NEW p \in Pagers, NEW from, NEW to, NEW j, Step(p, from, to, j),
         to \notin {"pageout", "writing"}
  PROVE  SaveInv'
<1>1. Pagers = {p} /\ ppc'[p] = to
  BY DEF OnePager, Step, Inv, TypeInv, TypeOK
<1> QED
  BY <1>1 DEF SaveInv

LEMMA FetchSame ==
  ASSUME Inv, OnePager, FetchInv, NEW p \in Pagers, NEW from, NEW to, NEW j, Step(p, from, to, j),
         UNCHANGED pte, from # "receive", to \notin {"reading", "mapin", "copyin"},
         j.pid = job[p].pid, j.page = job[p].page, j.exists = job[p].exists
  PROVE  FetchInv'
<1>1. Pagers = {p} /\ ppc[p] = from /\ ppc'[p] = to /\ job'[p] = j
  BY DEF OnePager, Step, At, Inv, TypeInv, TypeOK
<1>2. ~ job[p].exists => InEntry(job[p]).diskBlock = EMPTY
  BY <1>1 DEF FetchInv
<1>3. InEntry(job[p])' = InEntry(job[p])
  BY <1>1 DEF InEntry
<1> QED
  BY <1>1, <1>2, <1>3 DEF FetchInv

LEMMA FetchNothing ==
  ASSUME Inv, OnePager, NEW p \in Pagers, NEW from, NEW j, Step(p, from, "receive", j)
  PROVE  FetchInv'
<1>1. Pagers = {p} /\ ppc'[p] = "receive"
  BY DEF OnePager, Step, Inv, TypeInv, TypeOK
<1> QED
  BY <1>1 DEF FetchInv

\* A step before the tables are updated, or back to the mailbox from there.
LEMMA SwapBefore ==
  ASSUME FlatInv, OnePager, NEW p \in Pagers, NEW from, NEW to, NEW j, Step(p, from, to, j),
         UNCHANGED <<pte, ram, dirty>>, to \in PagerPc,
         from \notin Placing, to \notin Placing, FetchInv'
  PROVE  SwapInv' /\ Unmoved(p)
<1>1. ppc[p] = from /\ ppc'[p] = to
  BY DEF Step, At, FlatInv, MemoryInv, Inv, TypeInv, TypeOK
<1>2. \A u, i : ~ OutOf(p, u, i) /\ ~ OutOf(p, u, i)'
  BY <1>1 DEF OutOf, Placing, TakingOut
<1>3. SaveInv'
  BY SaveNothing DEF Placing, TakingOut, FlatInv, MemoryInv
<1> QED
  BY <1>2, <1>3, SwapStep

LEMMA SwapHalt ==
  ASSUME SwapInv, NEW p \in Pagers, NEW why, Halt(why)
  PROVE  SwapInv' /\ Unmoved(p)
<1>1. UNCHANGED <<ProcPid, pte, ram, dirty, disk, ppc, job, upc>>
  BY DEF Halt, memory
<1>2. Live' = Live
  BY <1>1 DEF Live
<1> QED
  BY <1>1, <1>2, SwapQuiet

LEMMA SwapReceive ==
  ASSUME FlatInv, OnePager, NEW p \in Pagers, Receive(p)
  PROVE  SwapInv' /\ Unmoved(p)
<1> DEFINE pid == Head(FaultsMbox)
           j == [NoJob EXCEPT !.pid = pid, !.page = faults[pid].page,
                              !.exists = pte[getProc(pid)][faults[pid].page].state # "UNUSED"]
<1>1. CASE pid >= MAXPROC
  BY <1>1, SwapHalt DEF Receive, FlatInv
<1>2. CASE ~ (pid >= MAXPROC)
  <2>1. /\ Step(p, "receive", "select", j) /\ UNCHANGED <<pte, ram, dirty>>
        /\ FaultsMbox # <<>>
    BY <1>2 DEF Receive, memory
  <2>2. pid \in Live /\ pid \in Slot /\ faults[pid].page \in Page
    <3>1. Len(FaultsMbox) \in Nat /\ Len(FaultsMbox) # 0 /\ FaultsMbox[1] = pid
      BY <2>1 DEF FlatInv, MemoryInv, Inv, TypeInv, TypeOK
    <3>2. pid \in Users /\ upc[pid] = "wait"
      BY <3>1, AnswerTypes DEF FlatInv, MemoryInv, Inv, AnswerInv, MailInv
    <3>3. pid \in Live
      BY <3>2 DEF Live
    <3>4. pid \in Slot
      <4>1. pid \in Nat /\ MAXPROC \in Nat
        BY <3>2, ProcessAssumption
      <4> HIDE DEF pid
      <4> QED
        BY <1>2, <4>1 DEF Slot
    <3>5. faults[pid] \in FaultMsg
      BY <3>4 DEF FlatInv, MemoryInv, Inv, TypeInv, TypeOK
    <3> QED
      BY <3>3, <3>4, <3>5 DEF FaultMsg
  <2>3. /\ j.pid = pid /\ j.page = faults[pid].page
        /\ j.exists = (pte[getProc(pid)][faults[pid].page].state # "UNUSED")
    BY DEF NoJob
  <2>4. ~ j.exists => InEntry(j).diskBlock = EMPTY
    BY <2>2, <2>3 DEF FlatInv, SwapInv, EntryInv, InEntry
  <2>5. FetchInv'
    <3>1. Pagers = {p} /\ ppc'[p] = "select" /\ job'[p] = j
      BY <2>1 DEF OnePager, Step, FlatInv, MemoryInv, Inv, TypeInv, TypeOK
    <3> HIDE DEF j
    <3>2. InEntry(job[p])' = InEntry(j)
      BY <2>1, <3>1 DEF InEntry
    <3> QED
      BY <2>4, <3>1, <3>2 DEF FetchInv
  <2> HIDE DEF j
  <2> QED
    BY <2>1, <2>5, SwapBefore DEF Placing, TakingOut, PagerPc
<1> QED
  BY <1>1, <1>2

LEMMA SwapChoose ==
  ASSUME FlatInv, OnePager, NEW p \in Pagers, GetNextFrame(p) \/ TakeVictim(p) \/ CountNew(p)
  PROVE  SwapInv' /\ Unmoved(p)
<1>0. job[p] \in Job /\ FetchInv /\ Inv
  BY DEF FlatInv, MemoryInv, SwapInv, Inv, TypeInv, TypeOK
<1>1. PICK from, to, j :
        /\ Step(p, from, to, j) /\ UNCHANGED <<pte, ram, dirty>>
        /\ from \in {"select", "victim", "count"}
        /\ \/ to = "receive"
           \/ /\ to \in {"victim", "update", "count"}
              /\ j.pid = job[p].pid /\ j.page = job[p].page /\ j.exists = job[p].exists
  <2>1. CASE CountNew(p)
    <3>1. Step(p, "count", "update", job[p]) /\ UNCHANGED <<pte, ram, dirty>>
      BY <2>1 DEF CountNew, memory
    <3> QED
      BY <3>1
  <2>2. CASE TakeVictim(p)
    <3> DEFINE old == FrameTable[job[p].frame]
               j == [job[p] EXCEPT !.outPage = old.page, !.outPid = old.pid]
               to == IF job[p].exists THEN "update" ELSE "count"
    <3>1. Step(p, "victim", to, j) /\ UNCHANGED <<pte, ram, dirty>> /\ to \in {"update", "count"}
      BY <2>2 DEF TakeVictim, memory
    <3>2. j.pid = job[p].pid /\ j.page = job[p].page /\ j.exists = job[p].exists
      BY <1>0 DEF Job
    <3> HIDE DEF j, to
    <3> QED
      BY <3>1, <3>2
  <2>3. CASE GetNextFrame(p)
    <3> DEFINE c == NextFrame(FrameTable, ref, NextCheckedFrame)
               j == [job[p] EXCEPT !.frame = c.frame]
    <3>1. UNCHANGED <<pte, ram, dirty>>
      BY <2>3 DEF GetNextFrame
    <3>2. CASE c.frame = EMPTY
      <4>1. Step(p, "select", "receive", NoJob)
        BY <2>3, <3>2 DEF GetNextFrame, Answer
      <4> QED
        BY <3>1, <4>1
    <3>3. CASE c.frame # EMPTY
      <4>1. Step(p, "select", "victim", j)
        BY <2>3, <3>3 DEF GetNextFrame
      <4>2. j.pid = job[p].pid /\ j.page = job[p].page /\ j.exists = job[p].exists
        BY <1>0 DEF Job
      <4> HIDE DEF j
      <4> QED
        BY <3>1, <4>1, <4>2
    <3> QED
      BY <3>2, <3>3
  <2> QED
    BY <2>1, <2>2, <2>3
<1>2. FetchInv'
  <2>1. CASE to = "receive"
    BY <1>0, <1>1, <2>1, FetchNothing
  <2>2. CASE to # "receive"
    BY <1>0, <1>1, <2>2, FetchSame
  <2> QED
    BY <2>1, <2>2
<1> QED
  BY <1>1, <1>2, SwapBefore DEF Placing, TakingOut, PagerPc

\* A step with the page that goes out still in its frame, or in the buffer.
Gone == {"pageout", "writing"}

LEMMA SwapTaking ==
  ASSUME FlatInv, OnePager, NEW p \in Pagers, NEW from, NEW to, NEW j, Step(p, from, to, j),
         UNCHANGED <<pte, ram, dirty>>, from \in TakingOut, to \in TakingOut \ {"access"},
         j.pid = job[p].pid, j.page = job[p].page, j.exists = job[p].exists,
         j.frame = job[p].frame, j.outPage = job[p].outPage, j.outPid = job[p].outPid,
         from = "access" => MustWrite(job[p]),
         from \in Gone => to \in Gone,
         to \in Gone => j.buffer = IF from \in Gone THEN job[p].buffer ELSE ram[job[p].frame],
         SaveInv'
  PROVE  SwapInv' /\ Unmoved(p)
<1>1. /\ ppc[p] = from /\ ppc'[p] = to /\ job'[p] = j
      /\ Inv /\ FetchInv
  BY DEF Step, At, FlatInv, MemoryInv, Inv, TypeInv, TypeOK, SwapInv
<1>2. \A u, i : OutOf(p, u, i)' <=> OutOf(p, u, i)
  BY <1>1 DEF OutOf, TakingOut
<1>3. \A u, i : OutOf(p, u, i) => Kept(p, u, i)' = Kept(p, u, i)
  <2> SUFFICES ASSUME NEW u, NEW i, OutOf(p, u, i) PROVE Kept(p, u, i)' = Kept(p, u, i)
    OBVIOUS
  <2>1. Kept(p, u, i) = IF from \in Gone THEN job[p].buffer ELSE ram[job[p].frame]
    BY <1>1 DEF Kept, Gone
  <2>2. Kept(p, u, i)' = IF to \in Gone THEN j.buffer ELSE ram[job[p].frame]
    BY <1>1, <1>2 DEF Kept, Gone
  <2> QED
    BY <2>1, <2>2
<1>4. FetchInv'
  BY <1>1, FetchSame DEF TakingOut
<1> QED
  BY <1>2, <1>3, <1>4, SwapStep DEF Placing, TakingOut, PagerPc

\* A step after the page has gone out.
LEMMA SwapPutting ==
  ASSUME FlatInv, OnePager, NEW p \in Pagers, NEW from, NEW to, NEW j, Step(p, from, to, j),
         UNCHANGED <<pte, ram, dirty>>,
         from \in Placing \ TakingOut, to \in Placing \ TakingOut,
         j.pid = job[p].pid, j.page = job[p].page, FetchInv'
  PROVE  SwapInv' /\ Unmoved(p)
<1>1. ppc[p] = from /\ ppc'[p] = to /\ Inv
  BY DEF Step, At, FlatInv, MemoryInv, Inv, TypeInv, TypeOK
<1>2. \A u, i : ~ OutOf(p, u, i) /\ ~ OutOf(p, u, i)'
  BY <1>1 DEF OutOf, TakingOut
<1>3. SaveInv'
  BY <1>1, SaveNothing DEF TakingOut
<1> QED
  BY <1>2, <1>3, SwapStep DEF Placing, TakingOut, PagerPc

LEMMA SwapCheck ==
  ASSUME FlatInv, OnePager, NEW p \in Pagers, CheckAccess(p)
  PROVE  SwapInv' /\ Unmoved(p)
<1> DEFINE j == [job[p] EXCEPT !.accessRef = ref[job[p].frame]]
<1>0. Inv /\ OutInv /\ FetchInv /\ job[p] \in Job
  BY DEF FlatInv, MemoryInv, SwapInv, Inv, TypeInv, TypeOK
<1>1. /\ j.pid = job[p].pid /\ j.page = job[p].page /\ j.exists = job[p].exists
      /\ j.frame = job[p].frame /\ j.outPage = job[p].outPage /\ j.outPid = job[p].outPid
  BY <1>0 DEF Job
<1>2. UNCHANGED <<pte, ram, dirty>>
  BY DEF CheckAccess, memory
<1>3. CASE MustWrite(job[p])
  <2>1. Step(p, "access", "block", j)
    BY <1>3 DEF CheckAccess
  <2>2. SaveInv'
    BY <1>0, <2>1, SaveNothing
  <2> HIDE DEF j
  <2> QED
    BY <1>1, <1>2, <1>3, <2>1, <2>2, SwapTaking DEF TakingOut, Gone
<1>4. CASE ~ MustWrite(job[p])
  <2>1. Step(p, "access", "fill", j)
    BY <1>4 DEF CheckAccess
  <2>2. ppc[p] = "access" /\ ppc'[p] = "fill" /\ disk' = disk
    BY <1>0, <2>1 DEF Step, At, Inv, TypeInv, TypeOK
  <2> HIDE DEF j
  <2>3. SaveInv'
    BY <1>0, <2>1, SaveNothing
  <2>4. FetchInv'
    BY <1>0, <1>1, <1>2, <2>1, FetchSame
  <2>5. ASSUME NEW u \in Live, NEW i \in Page, OutOf(p, u, i) \/ OutOf(p, u, i)'
        PROVE  Kept(p, u, i)' = Kept(p, u, i)
    <3>1. ~ OutOf(p, u, i)'
      BY <2>2 DEF OutOf
    <3>2. OutOf(p, u, i) /\ Kept(p, u, i) = Stored(pte[getProc(u)][i])
      BY <1>4, <2>2, <2>5, <3>1 DEF Kept
    <3>3. pte[getProc(u)][i].state = "ONDISK"
      <4>1. OutReady(p) /\ job[p].outPage = i /\ i # EMPTY /\ job[p].outPid = u
        BY <1>0, <3>2 DEF OutInv, OutOf, Page, EMPTY
      <4> QED
        BY <2>2, <4>1 DEF OutReady, OutEntry, TakingOut
    <3>4. Kept(p, u, i)' = Stored(pte[getProc(u)][i])
      BY <1>2, <2>2, <3>1, <3>3 DEF Kept, Stored
    <3> QED
      BY <3>2, <3>4
  <2>6. /\ "access" \in Placing <=> "fill" \in Placing
        /\ "fill" \in PagerPc
    BY DEF Placing, TakingOut, PagerPc
  <2> QED
    BY <1>1, <1>2, <2>1, <2>3, <2>4, <2>5, <2>6, SwapStep
<1> QED
  BY <1>3, <1>4

LEMMA SwapFind ==
  ASSUME FlatInv, OnePager, RoomOnDisk, NEW p \in Pagers, FindBlock(p)
  PROVE  SwapInv' /\ Unmoved(p)
<1>0. Inv
  BY DEF FlatInv, MemoryInv
<1>1. ppc[p] = "block" /\ halted = "no" /\ DiskBlocks \in Int
  BY GeometryAssumption DEF FindBlock, At, Running, DiskBlocks
<1>2. ~ (OutEntry(job[p]).diskBlock = EMPTY /\ NextBlock = DiskBlocks)
  BY <1>0, <1>1 DEF RoomOnDisk, Inv, TypeInv, TypeOK
<1>3. PICK to \in {"alloc", "mapout"} : Step(p, "block", to, job[p])
  BY <1>2 DEF FindBlock
<1>4. UNCHANGED <<pte, ram, dirty>>
  BY DEF FindBlock, memory
<1>5. SaveInv'
  BY <1>0, <1>3, SaveNothing
<1> QED
  BY <1>3, <1>4, <1>5, SwapTaking DEF TakingOut, Gone

LEMMA SwapMapOut ==
  ASSUME FlatInv, OnePager, NEW p \in Pagers, MapOut(p)
  PROVE  SwapInv' /\ Unmoved(p)
<1>0. Inv
  BY DEF FlatInv, MemoryInv
<1>1. CASE mmu[job[p].outPage] # EMPTY
  BY <1>1, SwapHalt DEF MapOut, MmuMap, FlatInv
<1>2. CASE mmu[job[p].outPage] = EMPTY
  <2>1. Step(p, "mapout", "copyout", job[p]) /\ UNCHANGED <<pte, ram, dirty>>
    BY <1>2 DEF MapOut, MmuMap
  <2>2. SaveInv'
    BY <1>0, <2>1, SaveNothing
  <2> QED
    BY <2>1, <2>2, SwapTaking DEF TakingOut, Gone
<1> QED
  BY <1>1, <1>2

LEMMA SwapMapIn ==
  ASSUME FlatInv, OnePager, NEW p \in Pagers, MapIn(p)
  PROVE  SwapInv' /\ Unmoved(p)
<1>0. Inv /\ FetchInv
  BY DEF FlatInv, MemoryInv, SwapInv
<1>1. CASE mmu[job[p].page] # EMPTY
  BY <1>1, SwapHalt DEF MapIn, MmuMap, FlatInv
<1>2. CASE mmu[job[p].page] = EMPTY
  <2>1. Step(p, "mapin", "copyin", job[p]) /\ UNCHANGED <<pte, ram, dirty>>
    BY <1>2 DEF MapIn, MmuMap
  <2>2. Pagers = {p} /\ ppc[p] = "mapin" /\ ppc'[p] = "copyin" /\ job' = job /\ disk' = disk
    BY <1>0, <2>1 DEF OnePager, Step, At, Inv, TypeInv, TypeOK
  <2>3. FetchInv'
    BY <1>0, <2>1, <2>2 DEF FetchInv, InEntry, Stored
  <2> QED
    BY <2>1, <2>3, SwapPutting DEF Placing, TakingOut
<1> QED
  BY <1>1, <1>2

LEMMA PidSlot ==
  ASSUME PidsAreSlots, NEW u \in Users
  PROVE  getProc(u) = u /\ u \in Slot
<1>1. u \in Nat /\ MAXPROC \in Nat /\ u < MAXPROC
  BY ProcessAssumption DEF PidsAreSlots
<1> QED
  BY <1>1 DEF getProc, Slot

LEMMA SwapCopyOut ==
  ASSUME FlatInv, OnePager, PidsAreSlots, NEW p \in Pagers, CopyOut(p)
  PROVE  SwapInv' /\ Unmoved(p)
<1> DEFINE f == mmu[job[p].outPage]
           o == ProcPid[getProc(job[p].outPid)]
           j == [job[p] EXCEPT !.buffer = ram[f], !.owner = o]
<1>0. /\ Inv /\ FrameInv /\ EntryInv /\ job[p] \in Job
      /\ ppc[p] = "copyout" /\ cur = p /\ p \notin Users
  BY ProcessAssumption DEF FlatInv, MemoryInv, SwapInv, Inv, TypeInv, TypeOK, CopyOut, At, Running
<1>1. CASE f = EMPTY
  BY <1>1, SwapHalt DEF CopyOut, FlatInv
<1>2. CASE f # EMPTY
  <2>1. Step(p, "copyout", "pageout", j) /\ UNCHANGED <<pte, ram, dirty>>
    BY <1>2 DEF CopyOut
  <2>2. /\ j.pid = job[p].pid /\ j.page = job[p].page /\ j.exists = job[p].exists
        /\ j.frame = job[p].frame /\ j.outPage = job[p].outPage /\ j.outPid = job[p].outPid
        /\ j.owner = o /\ j.buffer = ram[f]
    BY <1>0 DEF Job
  <2>3. f = job[p].frame
    <3>1. job[p].outPage \in Page
      BY <1>0 DEF Job, Inv, TypeInv, AtWork
    <3> QED
      BY <1>0, <3>1 DEF Inv, TablesInv, MmuInv, OwnMap
  <2>4. o \in {EMPTY, job[p].outPid}
    <3>1. job[p].outPid \in Users
      BY <1>0 DEF FrameInv, VictimOwnerInv, TakingOut, Inv, TypeInv, AtWork
    <3>2. getProc(job[p].outPid) = job[p].outPid /\ job[p].outPid \in Slot
      BY <3>1, PidSlot
    <3> QED
      BY <1>0, <3>2 DEF EntryInv
  <2>5. SaveInv'
    <3>1. Pagers = {p} /\ ppc'[p] = "pageout" /\ job'[p] = j
      BY <1>0, <2>1 DEF OnePager, Step, Inv, TypeInv, TypeOK
    <3> HIDE DEF j, o
    <3> QED
      BY <2>2, <2>4, <3>1 DEF SaveInv
  <2> HIDE DEF j, f, o
  <2> QED
    BY <2>1, <2>2, <2>3, <2>5, SwapTaking DEF TakingOut, Gone
<1> QED
  BY <1>1, <1>2

\* The block a page is written to is in the entry of that page and in no other.
LEMMA SwapPageOut ==
  ASSUME FlatInv, OnePager, PidsAreSlots, NEW p \in Pagers, PageOut(p)
  PROVE  SwapInv' /\ Unmoved(p)
<1> DEFINE e == pte[getProc(job[p].owner)][job[p].outPage]
           b == e.diskBlock
           j == [job[p] EXCEPT !.block = b, !.ahead = Ahead(b)]
<1>0. /\ Inv /\ FrameInv /\ OutInv /\ SaveInv /\ BlocksAreDistinct /\ job[p] \in Job
      /\ ppc[p] = "pageout" /\ job[p].outPage \in Page
  BY DEF FlatInv, MemoryInv, SwapInv, BlockInv, Inv, TypeInv, TypeOK, AtWork, PageOut, At, Job
<1>1. CASE \E why : Halt(why)
  BY <1>1, SwapHalt DEF FlatInv
<1>2. CASE ~ \E why : Halt(why)
  <2>1. /\ Step(p, "pageout", "writing", j) /\ UNCHANGED <<pte, ram, dirty>>
        /\ job[p].owner # EMPTY /\ b # EMPTY
    BY <1>2 DEF PageOut, Transfer, Refuse, memory
  <2>2. /\ j.pid = job[p].pid /\ j.page = job[p].page /\ j.exists = job[p].exists
        /\ j.frame = job[p].frame /\ j.outPage = job[p].outPage /\ j.outPid = job[p].outPid
        /\ j.block = b /\ j.buffer = job[p].buffer
    BY <1>0 DEF Job
  <2>3. job[p].owner = job[p].outPid
    BY <1>0, <2>1 DEF SaveInv
  <2>4. job[p].outPid \in Users /\ getProc(job[p].outPid) \in Slot
    BY <1>0, UserSlot DEF FrameInv, VictimOwnerInv, TakingOut, Page, EMPTY
  <2>5. e = OutEntry(job[p]) /\ e \in PTE
    BY <1>0, <2>3, <2>4 DEF OutEntry, Inv, TypeInv, TypeOK
  <2>6. b \in Nat /\ b \in 0 .. DiskBlocks - 1
    <3>1. <<getProc(job[p].outPid), job[p].outPage>> \in OwnedBlocks
      BY <1>0, <2>1, <2>4, <2>5 DEF OwnedBlocks, OutEntry
    <3>2. b < NextBlock /\ NextBlock <= DiskBlocks
      BY <1>0, <2>5, <3>1 DEF BlocksAreDistinct, OutEntry
    <3>3. b \in Nat
      BY <2>1, <2>5 DEF PTE
    <3>4. NextBlock \in Nat /\ DiskBlocks \in Int
      BY <1>0, GeometryAssumption DEF Inv, TypeInv, TypeOK, DiskBlocks
    <3> HIDE DEF b
    <3> QED
      BY <3>2, <3>3, <3>4
  <2>7. ASSUME NEW u \in Live, NEW i \in Page, pte[getProc(u)][i].diskBlock = b
        PROVE  u = job[p].outPid /\ i = job[p].outPage
    <3> DEFINE x == <<getProc(u), i>>
               y == <<getProc(job[p].outPid), job[p].outPage>>
    <3>1. x \in OwnedBlocks /\ y \in OwnedBlocks
      BY <1>0, <2>1, <2>4, <2>5, <2>7, LiveEntry DEF OwnedBlocks, OutEntry
    <3>2. x = y
      <4>1. pte[x[1]][x[2]].diskBlock = pte[y[1]][y[2]].diskBlock
        BY <2>5, <2>7 DEF OutEntry
      <4> HIDE DEF x, y
      <4> QED
        BY <1>0, <3>1, <4>1 DEF BlocksAreDistinct
    <3>3. getProc(u) = getProc(job[p].outPid) /\ i = job[p].outPage
      BY <3>2
    <3>4. u \in Users /\ u = getProc(u)
      BY PidSlot DEF Live
    <3>5. job[p].outPid = getProc(job[p].outPid)
      BY <2>4, PidSlot
    <3> QED
      BY <3>3, <3>4, <3>5
  <2>8. SaveInv'
    <3>1. Pagers = {p} /\ ppc'[p] = "writing" /\ job'[p] = j /\ upc' = upc
      BY <1>0, <2>1 DEF OnePager, Step, Inv, TypeInv, TypeOK
    <3>2. Live' = Live
      BY <3>1 DEF Live
    <3>3. OutEntry(job[p])' = OutEntry(job[p])
      BY <2>1, <2>2, <3>1 DEF OutEntry
    <3> HIDE DEF j
    <3>4. OutEntry(job[p]).diskBlock = b
      BY <2>5
    <3> HIDE DEF e, b
    <3> QED
      BY <2>1, <2>2, <2>6, <2>7, <3>1, <3>2, <3>3, <3>4 DEF SaveInv
  <2> HIDE DEF j
  <2> QED
    BY <2>1, <2>2, <2>8, SwapTaking DEF TakingOut, Gone
<1> QED
  BY <1>1, <1>2

\* A page that is not read is zero.
LEMMA SwapFill ==
  ASSUME FlatInv, OnePager, NEW p \in Pagers, Fill(p)
  PROVE  SwapInv' /\ Unmoved(p)
<1> DEFINE j  == [job[p] EXCEPT !.buffer = Zero]
           to == IF MustRead(job[p]) THEN "pagein" ELSE "mapin"
<1>0. Inv /\ FetchInv /\ job[p] \in Job
  BY DEF FlatInv, MemoryInv, SwapInv, Inv, TypeInv, TypeOK
<1>1. Step(p, "fill", to, j) /\ UNCHANGED <<pte, ram, dirty>>
  BY DEF Fill, memory
<1>2. /\ j.pid = job[p].pid /\ j.page = job[p].page /\ j.exists = job[p].exists
      /\ j.buffer = Zero
  BY <1>0 DEF Job
<1>3. /\ Pagers = {p} /\ ppc[p] = "fill" /\ ppc'[p] = to /\ job'[p] = j /\ disk' = disk
  BY <1>0, <1>1 DEF OnePager, Step, At, Inv, TypeInv, TypeOK
<1>4. to \in {"pagein", "mapin"} /\ (to = "mapin" => ~ MustRead(job[p]))
  OBVIOUS
<1> HIDE DEF j, to
<1>5. InEntry(job[p])' = InEntry(job[p])
  BY <1>1, <1>2, <1>3 DEF InEntry
<1>6. ~ job[p].exists => InEntry(job[p]).diskBlock = EMPTY
  BY <1>0, <1>3 DEF FetchInv
<1>7. to = "mapin" => Stored(InEntry(job[p]))' = Zero
  <2>1. to = "mapin" => InEntry(job[p]).diskBlock = EMPTY
    BY <1>4, <1>6 DEF MustRead
  <2> QED
    BY <1>5, <2>1 DEF Stored
<1>8. FetchInv'
  BY <1>2, <1>3, <1>4, <1>5, <1>6, <1>7 DEF FetchInv
<1> QED
  BY <1>1, <1>2, <1>4, <1>8, SwapPutting DEF Placing, TakingOut

LEMMA SwapPageIn ==
  ASSUME FlatInv, OnePager, NEW p \in Pagers, PageIn(p)
  PROVE  SwapInv' /\ Unmoved(p)
<1> DEFINE b == InEntry(job[p]).diskBlock
           j == [job[p] EXCEPT !.block = b, !.ahead = Ahead(b)]
<1>0. Inv /\ FetchInv /\ job[p] \in Job
  BY DEF FlatInv, MemoryInv, SwapInv, Inv, TypeInv, TypeOK
<1>1. CASE \E why : Halt(why)
  BY <1>1, SwapHalt DEF FlatInv
<1>2. CASE ~ \E why : Halt(why)
  <2>1. Step(p, "pagein", "reading", j) /\ UNCHANGED <<pte, ram, dirty>>
    BY <1>2 DEF PageIn, Transfer, Refuse, memory
  <2>2. /\ j.pid = job[p].pid /\ j.page = job[p].page /\ j.exists = job[p].exists
        /\ j.block = b
    BY <1>0 DEF Job
  <2>3. Pagers = {p} /\ ppc[p] = "pagein" /\ ppc'[p] = "reading" /\ job'[p] = j
    BY <1>0, <2>1 DEF OnePager, Step, At, Inv, TypeInv, TypeOK
  <2> HIDE DEF j
  <2>4. InEntry(job[p])' = InEntry(job[p])
    BY <2>1, <2>2, <2>3 DEF InEntry
  <2>5. ~ job[p].exists => b = EMPTY
    BY <1>0, <2>3 DEF FetchInv
  <2>6. FetchInv'
    BY <2>2, <2>3, <2>4, <2>5 DEF FetchInv
  <2> QED
    BY <2>1, <2>2, <2>6, SwapPutting DEF Placing, TakingOut
<1> QED
  BY <1>1, <1>2

\* The entries of the live processes before and after the tables are updated: the page
\* that comes in had no frame, the page that goes out was in the frame.
LEMMA UpdatedEntries ==
  ASSUME MemoryInv, OnePager, PidsAreSlots, NEW p \in Pagers, UpdateTables(p),
         NEW u \in Live, NEW i \in Page
  PROVE  LET e == pte[getProc(u)][i]
             n == pte'[getProc(u)][i]
             f == job[p].frame
         IN  /\ ~ OutOf(p, u, i) /\ ~ Into(p, u, i)
             /\ n.diskBlock = e.diskBlock
             /\ Into(p, u, i)' => e.frame = EMPTY /\ n.frame = f /\ n.state = "INMEM"
             /\ OutOf(p, u, i)' => e.frame = f /\ n.frame = EMPTY /\ n.state = "ONDISK"
             /\ ~ Into(p, u, i)' /\ ~ OutOf(p, u, i)' => n = e
<1> DEFINE s   == getProc(u)
           in  == s = getProc(job[p].pid) /\ i = job[p].page
           out == job[p].outPage # EMPTY /\ s = getProc(job[p].outPid) /\ i = job[p].outPage
<1>0. /\ TypeInv /\ Inv /\ FrameInv /\ job[p] \in Job
      /\ ppc[p] = "update" /\ ppc'[p] = "access" /\ job' = job
  BY DEF MemoryInv, Inv, TypeInv, TypeOK, UpdateTables, Step, At
<1>1. s \in Slot /\ u \in Users /\ job[p].frame \in Frame /\ job[p].frame # EMPTY
  BY <1>0, LiveEntry DEF Job, Frame, EMPTY
<1>2. ~ OutOf(p, u, i) /\ ~ Into(p, u, i)
  BY <1>0 DEF OutOf, Into
<1>3. Into(p, u, i)' <=> in
  <2>1. Into(p, u, i)' <=> job[p].page = i /\ job[p].pid = u
    BY <1>0 DEF Into, PagerPc
  <2>2. job[p].pid \in Live
    BY <1>0, ServedWaits
  <2>3. getProc(job[p].pid) = s => job[p].pid = u
    BY <1>0, <2>2, SlotsApart
  <2> QED
    BY <2>1, <2>3
<1>4. OutOf(p, u, i)' <=> out
  <2>1. OutOf(p, u, i)' <=> job[p].outPage = i /\ job[p].outPid = u
    BY <1>0 DEF OutOf
  <2>2. i # EMPTY
    BY DEF Page, EMPTY
  <2>3. job[p].outPage # EMPTY => job[p].outPid \in Users
    BY <1>0 DEF FrameInv, VictimOwnerInv
  <2>4. job[p].outPage # EMPTY /\ s = getProc(job[p].outPid) => u = job[p].outPid
    BY <1>1, <2>3, PidSlot
  <2> QED
    BY <2>1, <2>2, <2>4
<1>5. out => pte[s][i].frame = job[p].frame
  <2> SUFFICES ASSUME out PROVE pte[s][i].frame = job[p].frame
    OBVIOUS
  <2>1. job[p].outPid = u
    BY <1>0, <1>4 DEF OutOf
  <2>2. FrameTable[job[p].frame].page # EMPTY
    BY <1>0, <2>1 DEF FrameInv, VictimOwnerInv
  <2>3. FrameTable[job[p].frame].page = i /\ FrameTable[job[p].frame].pid = u
    BY <1>0, <2>1, <2>2 DEF Inv, TablesInv, VictimInv
  <2> QED
    BY <1>0, <1>1, <2>2, <2>3, FrameOwner
<1>6. in => pte[s][i].frame = EMPTY
  BY <1>0, JobHasNoFrame DEF Placing, TakingOut
<1>7. ~ (in /\ out)
  BY <1>1, <1>5, <1>6
<1>8. /\ pte'[s][i].diskBlock = pte[s][i].diskBlock
      /\ in => pte'[s][i].frame = job[p].frame /\ pte'[s][i].state = "INMEM"
      /\ out /\ ~ in => pte'[s][i].frame = EMPTY /\ pte'[s][i].state = "ONDISK"
      /\ ~ out /\ ~ in => pte'[s][i] = pte[s][i]
  BY <1>0, <1>1, AssignedEntries
<1> HIDE DEF in, out, s
<1>9. /\ Into(p, u, i)' => /\ pte[s][i].frame = EMPTY
                           /\ pte'[s][i].frame = job[p].frame /\ pte'[s][i].state = "INMEM"
      /\ OutOf(p, u, i)' => /\ pte[s][i].frame = job[p].frame
                            /\ pte'[s][i].frame = EMPTY /\ pte'[s][i].state = "ONDISK"
      /\ ~ Into(p, u, i)' /\ ~ OutOf(p, u, i)' => pte'[s][i] = pte[s][i]
  BY <1>3, <1>4, <1>5, <1>6, <1>7, <1>8
<1> QED
  BY <1>2, <1>8, <1>9 DEF s

LEMMA SwapUpdate ==
  ASSUME FlatInv, OnePager, PidsAreSlots, NEW p \in Pagers, UpdateTables(p)
  PROVE  SwapInv' /\ Unmoved(p)
<1> DEFINE f == job[p].frame
<1>0. /\ Inv /\ FrameInv /\ EntryInv /\ CleanInv /\ FetchInv /\ job[p] \in Job
      /\ Pagers = {p} /\ ppc[p] = "update" /\ ppc'[p] = "access" /\ job' = job
      /\ Step(p, "update", "access", job[p])
      /\ UNCHANGED <<upc, ProcPid, disk, ram, dirty>>
  BY DEF FlatInv, MemoryInv, SwapInv, Inv, TypeInv, TypeOK, OnePager, UpdateTables, Step,
         At, memory
<1>1. Live' = Live
  BY <1>0 DEF Live
<1>2. f \in Frame /\ f # EMPTY
  BY <1>0 DEF Job, Frame, EMPTY
<1>3. EntryInv'
  <2>1. ASSUME NEW u \in Live, NEW i \in Page
        PROVE  LET n == pte'[getProc(u)][i]
               IN  /\ n.state = "INMEM" => n.frame # EMPTY
                   /\ n.state = "UNUSED" => n.diskBlock = EMPTY
    BY <1>0, <1>2, UpdatedEntries DEF EntryInv, FlatInv
  <2> QED
    BY <1>0, <1>1, <2>1 DEF EntryInv
<1>4. CleanInv'
  <2> SUFFICES ASSUME NEW u \in Live, NEW i \in Page,
                      pte'[getProc(u)][i].frame # EMPTY, ~ Into(p, u, i)',
                      ~ dirty[pte'[getProc(u)][i].frame]
               PROVE  ram[pte'[getProc(u)][i].frame] = Stored(pte[getProc(u)][i])
                      /\ pte'[getProc(u)][i] = pte[getProc(u)][i]
    BY <1>0, <1>1 DEF CleanInv, Stored
  <2>1. ~ OutOf(p, u, i)'
    BY UpdatedEntries DEF FlatInv
  <2>2. pte'[getProc(u)][i] = pte[getProc(u)][i] /\ ~ Into(p, u, i)
    BY <2>1, UpdatedEntries DEF FlatInv
  <2> QED
    BY <1>0, <2>2 DEF CleanInv
<1>5. SaveInv'
  BY <1>0, SaveNothing
<1>6. FetchInv'
  <2>1. job[p].pid \in Live /\ job[p].page \in Page
    BY <1>0, ServedWaits DEF Job
  <2>2. pte'[getProc(job[p].pid)][job[p].page].diskBlock =
        pte[getProc(job[p].pid)][job[p].page].diskBlock
    BY <2>1, UpdatedEntries DEF FlatInv
  <2> QED
    BY <1>0, <2>2 DEF FetchInv, InEntry
<1>7. ASSUME NEW u \in Live, NEW i \in Page PROVE Kept(p, u, i)' = Kept(p, u, i)
  <2> DEFINE e == pte[getProc(u)][i]
             n == pte'[getProc(u)][i]
  <2>1. ~ OutOf(p, u, i) /\ ~ Into(p, u, i) /\ n.diskBlock = e.diskBlock
    BY UpdatedEntries DEF FlatInv
  <2>2. Kept(p, u, i) = IF e.state = "INMEM" THEN ram[e.frame] ELSE Stored(e)
    BY <2>1 DEF Kept
  <2>3. Stored(pte[getProc(u)][i])' = Stored(e)
    BY <1>0, <2>1 DEF Stored
  <2>4. CASE Into(p, u, i)' /\ ~ OutOf(p, u, i)'
    <3>1. Kept(p, u, i)' = Stored(e)
      BY <2>3, <2>4 DEF Kept
    <3>2. e.frame = EMPTY
      BY <2>4, UpdatedEntries DEF FlatInv
    <3>3. e.state # "INMEM"
      BY <1>0, <3>2 DEF EntryInv
    <3> QED
      BY <2>2, <3>1, <3>3
  <2>5. CASE OutOf(p, u, i)'
    <3>1. e.frame = f
      BY <2>5, UpdatedEntries DEF FlatInv
    <3>2. e.state = "INMEM"
      BY <1>0, <1>2, <3>1, LiveEntry DEF Inv, TablesInv, FramesInv
    <3>3. Kept(p, u, i) = ram[f]
      BY <2>2, <3>1, <3>2
    <3>4. job[p].outPage = i /\ i # EMPTY
      BY <1>0, <2>5 DEF OutOf, Page, EMPTY
    <3>5. Kept(p, u, i)' = IF ~ dirty[f] THEN Stored(e) ELSE ram[f]
      BY <1>0, <2>3, <2>5, <3>4 DEF Kept, MustWrite
    <3>6. ~ dirty[f] => Stored(e) = ram[f]
      BY <1>0, <1>2, <2>1, <3>1 DEF CleanInv
    <3> QED
      BY <3>3, <3>5, <3>6
  <2>6. CASE ~ Into(p, u, i)' /\ ~ OutOf(p, u, i)'
    <3>1. n = e
      BY <2>6, UpdatedEntries DEF FlatInv
    <3>2. Kept(p, u, i)' = IF n.state = "INMEM" THEN ram[n.frame] ELSE Stored(e)
      BY <1>0, <2>3, <2>6 DEF Kept
    <3> QED
      BY <2>2, <3>1, <3>2
  <2> QED
    BY <2>4, <2>5, <2>6
<1> QED
  BY <1>1, <1>3, <1>4, <1>5, <1>6, <1>7 DEF SwapInv, Unmoved

\* The page a pager brings in is in its frame for everybody else.
LEMMA PlacedEntry ==
  ASSUME Inv, FrameInv, NEW p \in Pagers, ppc[p] \in Placing
  PROVE  LET e == InEntry(job[p])
         IN  /\ job[p].pid \in Live /\ job[p].page \in Page /\ job[p].frame \in Frame
             /\ e.frame = job[p].frame /\ e.frame # EMPTY /\ e.state = "INMEM"
             /\ FrameTable[job[p].frame].page = job[p].page
             /\ FrameTable[job[p].frame].pid = job[p].pid
<1>1. ppc[p] # "receive" /\ job[p] \in Job
  BY DEF Placing, TakingOut, Inv, TypeInv, TypeOK
<1>2. job[p].pid \in Live /\ job[p].page \in Page /\ job[p].frame \in Frame
  BY <1>1, ServedWaits DEF Job
<1>3. FrameTable[job[p].frame] = [page |-> job[p].page, pid |-> job[p].pid, locked |-> TRUE]
  BY Zenon DEF FrameInv, JobInv
<1>4. FrameTable[job[p].frame].page = job[p].page /\ FrameTable[job[p].frame].pid = job[p].pid
  BY <1>3
<1>5. job[p].page # EMPTY /\ job[p].frame # EMPTY
  BY <1>2 DEF Page, Frame, EMPTY
<1>6. InEntry(job[p]).frame = job[p].frame
  BY <1>2, <1>4, <1>5, FrameOwner DEF InEntry
<1>7. InEntry(job[p]).state = "INMEM"
  BY <1>2, <1>5, <1>6, LiveEntry DEF InEntry, Inv, TablesInv, FramesInv
<1> QED
  BY <1>2, <1>4, <1>5, <1>6, <1>7

\* No other live process has an entry for that frame.
LEMMA OtherFrame ==
  ASSUME Inv, NEW u \in Live, NEW i \in Page, NEW v \in Live, NEW k \in Page,
         pte[getProc(u)][i].frame # EMPTY,
         pte[getProc(u)][i].frame = pte[getProc(v)][k].frame
  PROVE  u = v /\ i = k
<1> DEFINE f == pte[getProc(u)][i].frame
<1>1. getProc(u) \in Slot /\ getProc(v) \in Slot
  BY LiveEntry
<1>2. FrameTable[f].page = i /\ getProc(FrameTable[f].pid) = getProc(u)
  BY <1>1 DEF Inv, TablesInv, FramesInv
<1>3. FrameTable[f].page = k /\ getProc(FrameTable[f].pid) = getProc(v)
  BY <1>1 DEF Inv, TablesInv, FramesInv
<1> QED
  BY <1>2, <1>3, SlotsApart

LEMMA AllocatedEntry ==
  ASSUME MemoryInv, OnePager, PidsAreSlots, NEW p \in Pagers, AllocateBlock(p),
         NEW u \in Live, NEW i \in Page
  PROVE  \/ ~ OutOf(p, u, i) /\ pte'[getProc(u)][i] = pte[getProc(u)][i]
         \/ /\ OutOf(p, u, i)
            /\ pte[getProc(u)][i].frame = EMPTY /\ pte[getProc(u)][i].state = "ONDISK"
            /\ pte'[getProc(u)][i].frame = EMPTY /\ pte'[getProc(u)][i].state = "ONDISK"
            /\ pte'[getProc(u)][i].diskBlock = NextBlock
<1> DEFINE o == getProc(job[p].outPid)
           k == job[p].outPage
<1>0. /\ Inv /\ FrameInv /\ OutInv
      /\ ppc[p] = "alloc" /\ pte' = [pte EXCEPT ![o][k].diskBlock = NextBlock]
  BY DEF MemoryInv, AllocateBlock, Step, At
<1>1. job[p].outPid \in Users /\ o \in Slot /\ k \in Page /\ k # EMPTY
  <2>1. k \in Page /\ k # EMPTY
    BY <1>0 DEF Inv, TypeInv, TypeOK, AtWork, Job
  <2>2. job[p].outPid \in Users
    BY <1>0, <2>1 DEF FrameInv, VictimOwnerInv, TakingOut
  <2> QED
    BY <2>1, <2>2, UserSlot
<1>2. OutOf(p, u, i) <=> job[p].outPage = i /\ job[p].outPid = u
  BY <1>0 DEF OutOf
<1>3. CASE OutOf(p, u, i)
  <2>1. getProc(u) = o /\ i = k /\ OutReady(p)
    BY <1>0, <1>2, <1>3 DEF OutInv
  <2>2. pte[o][k].frame = EMPTY /\ pte[o][k].state = "ONDISK"
    BY <1>0, <1>1, <1>2, <1>3, <2>1 DEF OutReady, OutEntry, TakingOut
  <2>3. pte[o][k] \in PTE /\ pte'[o][k] = [pte[o][k] EXCEPT !.diskBlock = NextBlock]
    BY <1>0, <1>1 DEF Inv, TypeInv, TypeOK
  <2>4. pte'[o][k].frame = pte[o][k].frame /\ pte'[o][k].state = pte[o][k].state
    BY <2>3, Zenon DEF PTE
  <2>5. pte'[o][k].diskBlock = NextBlock
    BY <2>3 DEF PTE
  <2> HIDE DEF o, k
  <2> QED
    BY <1>3, <2>1, <2>2, <2>4, <2>5
<1>4. CASE ~ OutOf(p, u, i)
  <2>1. u \in Users /\ getProc(u) = u /\ o = job[p].outPid
    BY <1>1, PidSlot DEF Live
  <2>2. ~ (getProc(u) = o /\ i = k)
    BY <1>2, <1>4, <2>1
  <2>3. getProc(u) \in Slot
    BY <1>0, LiveEntry
  <2>4. pte'[getProc(u)][i] = pte[getProc(u)][i]
    BY <1>0, <1>1, <2>2, <2>3 DEF Inv, TypeInv, TypeOK
  <2> QED
    BY <1>4, <2>4
<1> QED
  BY <1>3, <1>4

LEMMA SwapAllocate ==
  ASSUME FlatInv, OnePager, PidsAreSlots, NEW p \in Pagers, AllocateBlock(p)
  PROVE  SwapInv' /\ Unmoved(p)
<1>0. /\ Inv /\ FrameInv /\ OutInv /\ EntryInv /\ CleanInv /\ FetchInv /\ job[p] \in Job
      /\ Pagers = {p} /\ ppc[p] = "alloc" /\ ppc'[p] = "mapout" /\ job' = job
      /\ Step(p, "alloc", "mapout", job[p])
      /\ UNCHANGED <<upc, ProcPid, disk, ram, dirty>>
  BY DEF FlatInv, MemoryInv, SwapInv, Inv, TypeInv, TypeOK, OnePager, AllocateBlock, Step,
         At, memory
<1>1. Live' = Live
  BY <1>0 DEF Live
<1>2. ASSUME NEW u \in Live, NEW i \in Page
      PROVE  \/ ~ OutOf(p, u, i) /\ pte'[getProc(u)][i] = pte[getProc(u)][i]
             \/ /\ OutOf(p, u, i)
                /\ pte[getProc(u)][i].frame = EMPTY /\ pte[getProc(u)][i].state = "ONDISK"
                /\ pte'[getProc(u)][i].frame = EMPTY /\ pte'[getProc(u)][i].state = "ONDISK"
  BY AllocatedEntry DEF FlatInv
<1>3. Pagers = {p} /\ UNCHANGED <<ProcPid, disk, ram, dirty, job>>
  BY <1>0
<1>4. EntryInv'
  <2>1. ASSUME NEW u \in Live, NEW i \in Page
        PROVE  LET n == pte'[getProc(u)][i]
               IN  /\ n.state = "INMEM" => n.frame # EMPTY
                   /\ n.state = "UNUSED" => n.diskBlock = EMPTY
    <3>1. CASE pte'[getProc(u)][i] = pte[getProc(u)][i]
      <4>1. EntryInv
        BY <1>0
      <4> QED
        BY <3>1, <4>1 DEF EntryInv
    <3> QED
      BY <1>2, <3>1
  <2> QED
    BY <1>0, <1>1, <2>1 DEF EntryInv
<1>5. \A u, i : (OutOf(p, u, i)' <=> OutOf(p, u, i)) /\ (Into(p, u, i)' <=> Into(p, u, i))
  BY <1>0 DEF OutOf, Into, PagerPc
<1>6. CleanInv'
  <2> SUFFICES ASSUME NEW u \in Live, NEW i \in Page,
                      pte'[getProc(u)][i].frame # EMPTY, ~ Into(p, u, i),
                      ~ dirty[pte'[getProc(u)][i].frame]
               PROVE  /\ pte'[getProc(u)][i] = pte[getProc(u)][i]
                      /\ ram[pte[getProc(u)][i].frame] = Stored(pte[getProc(u)][i])
    BY <1>1, <1>5, <1>3 DEF CleanInv, Stored
  <2>1. pte'[getProc(u)][i] = pte[getProc(u)][i]
    BY <1>2
  <2> QED
    BY <1>0, <2>1 DEF CleanInv
<1>7. SaveInv'
  BY <1>0, SaveNothing
<1>8. FetchInv'
  <2>1. job[p].pid \in Live /\ job[p].page \in Page /\ InEntry(job[p]).frame # EMPTY
    BY <1>0, PlacedEntry DEF Placing, TakingOut
  <2>2. pte'[getProc(job[p].pid)][job[p].page] = pte[getProc(job[p].pid)][job[p].page]
    BY <1>2, <2>1 DEF InEntry
  <2> QED
    BY <1>0, <2>2 DEF FetchInv, InEntry
<1>9. ASSUME NEW u \in Live, NEW i \in Page PROVE Kept(p, u, i)' = Kept(p, u, i)
  <2>1. CASE OutOf(p, u, i)
    BY <1>0, <1>5, <2>1 DEF Kept
  <2>2. CASE ~ OutOf(p, u, i)
    <3>1. pte'[getProc(u)][i] = pte[getProc(u)][i]
      BY <1>2, <2>2
    <3> QED
      BY <1>5, <1>3, <2>2, <3>1 DEF Kept, Stored
  <2> QED
    BY <2>1, <2>2
<1> QED
  BY <1>1, <1>4, <1>6, <1>7, <1>8, <1>9 DEF SwapInv, Unmoved

LEMMA SwapCopyIn ==
  ASSUME FlatInv, OnePager, NEW p \in Pagers, CopyIn(p)
  PROVE  SwapInv' /\ Unmoved(p)
<1> DEFINE f == mmu[job[p].page]
<1>0. /\ Inv /\ FrameInv /\ EntryInv /\ CleanInv /\ FetchInv /\ job[p] \in Job
      /\ Pagers = {p} /\ ppc[p] = "copyin" /\ cur = p /\ p \notin Users
  BY ProcessAssumption
  DEF FlatInv, MemoryInv, SwapInv, Inv, TypeInv, TypeOK, OnePager, CopyIn, Answer, Step, At, Halt,
      Running
<1>1. CASE f = EMPTY
  BY <1>1, SwapHalt DEF CopyIn, FlatInv
<1>2. CASE f # EMPTY
  <2>1. f = job[p].frame
    <3>1. job[p].page \in Page
      BY <1>0 DEF Job
    <3> QED
      BY <1>0, <3>1 DEF Inv, TablesInv, MmuInv, OwnMap
  <2>2. /\ Step(p, "copyin", "receive", NoJob)
        /\ ram' = [ram EXCEPT ![f] = job[p].buffer]
        /\ dirty' = [[dirty EXCEPT ![f] = TRUE] EXCEPT ![job[p].frame] = FALSE]
        /\ pte' = pte
    BY <1>2 DEF CopyIn, Answer
  <2>3. /\ ppc'[p] = "receive" /\ UNCHANGED <<upc, ProcPid, disk>>
    BY <1>0, <2>2 DEF Step, Inv, TypeInv, TypeOK
  <2>4. Live' = Live
    BY <2>3 DEF Live
  <2>5. f \in Frame /\ InEntry(job[p]).frame = f /\ job[p].pid \in Live
    BY <1>0, <2>1, PlacedEntry DEF Placing
  <2>6. /\ ram'[f] = job[p].buffer
        /\ \A g \in Frame \ {f} : ram'[g] = ram[g] /\ dirty'[g] = dirty[g]
    BY <1>0, <2>1, <2>2, <2>5 DEF Inv, TypeInv, TypeOK
  <2>7. \A u, i : /\ ~ OutOf(p, u, i) /\ ~ OutOf(p, u, i)' /\ ~ Into(p, u, i)'
                  /\ Into(p, u, i) <=> u = job[p].pid /\ i = job[p].page
    BY <1>0, <2>3 DEF OutOf, Into, PagerPc
  <2>8. ASSUME NEW u \in Live, NEW i \in Page, ~ Into(p, u, i), pte[getProc(u)][i].frame # EMPTY
        PROVE  pte[getProc(u)][i].frame \in Frame \ {f}
    <3>1. pte[getProc(u)][i].frame # f
      BY <1>0, <1>2, <2>5, <2>7, <2>8, OtherFrame DEF InEntry, Job
    <3> QED
      BY <1>0, <2>8, <3>1, LiveEntry
  <2>9. job[p].buffer = Stored(InEntry(job[p]))
    BY <1>0 DEF FetchInv
  <2>10. EntryInv'
    BY <1>0, <2>2, <2>3, <2>4 DEF EntryInv
  <2>11. SaveInv' /\ FetchInv'
    BY <1>0, <2>2, SaveNothing, FetchNothing
  <2>12. ASSUME NEW u \in Live, NEW i \in Page
         PROVE  LET e == pte[getProc(u)][i]
                IN  /\ e.frame # EMPTY /\ ~ dirty'[e.frame] => ram'[e.frame] = Stored(e)
                    /\ Kept(p, u, i)' = Kept(p, u, i)
    <3> DEFINE e == pte[getProc(u)][i]
    <3>1. /\ Kept(p, u, i)' = IF e.state = "INMEM" THEN ram'[e.frame] ELSE Stored(e)
          /\ Kept(p, u, i) = IF e.state = "INMEM" /\ ~ Into(p, u, i) THEN ram[e.frame]
                             ELSE Stored(e)
      BY <2>2, <2>3, <2>7 DEF Kept, Stored
    <3>2. CASE Into(p, u, i)
      <4>1. e = InEntry(job[p])
        BY <2>7, <3>2 DEF InEntry
      <4>2. ram'[e.frame] = Stored(e)
        BY <2>5, <2>6, <2>9, <4>1
      <4> QED
        BY <3>1, <3>2, <4>2
    <3>3. CASE ~ Into(p, u, i)
      <4>1. CASE e.frame = EMPTY
        <5>1. e.state # "INMEM"
          BY <1>0, <4>1 DEF EntryInv
        <5> QED
          BY <3>1, <4>1, <5>1
      <4>2. CASE e.frame # EMPTY
        <5>1. e.frame \in Frame \ {f}
          BY <2>8, <3>3, <4>2
        <5>2. ram'[e.frame] = ram[e.frame] /\ dirty'[e.frame] = dirty[e.frame]
          BY <2>6, <5>1
        <5>3. ~ dirty[e.frame] => ram[e.frame] = Stored(e)
          BY <1>0, <3>3, <4>2 DEF CleanInv
        <5> QED
          BY <3>1, <3>3, <5>2, <5>3
      <4> QED
        BY <4>1, <4>2
    <3> QED
      BY <3>2, <3>3
  <2>13. CleanInv'
    BY <2>2, <2>3, <2>4, <2>12 DEF CleanInv, Stored
  <2> QED
    BY <2>4, <2>10, <2>11, <2>12, <2>13 DEF SwapInv, Unmoved
<1> QED
  BY <1>1, <1>2

\* What a finished transfer leaves alone.
LEMMA TransferLeaves ==
  ASSUME Inv, OnePager, NEW p \in Pagers, NEW from, NEW to, NEW content,
         Transferred(p, from, to, content)
  PROVE  /\ Pagers = {p} /\ ppc[p] = from /\ ppc'[p] = to /\ Live' = Live
         /\ UNCHANGED <<ProcPid, pte, ram, dirty>>
         /\ job'[p].pid = job[p].pid /\ job'[p].page = job[p].page
         /\ job'[p].exists = job[p].exists /\ job'[p].buffer = content
         /\ \A u, i : (Into(p, u, i)' <=> to \in Placing /\ job[p].page = i /\ job[p].pid = u)
<1>1. /\ Pagers = {p} /\ ppc[p] = from /\ ppc'[p] = to
      /\ UNCHANGED <<upc, ProcPid, pte, ram, dirty>>
      /\ job' = [q \in Pagers |-> [job[q] EXCEPT !.ahead = @ \ {p},
                                                 !.buffer = IF q = p THEN content ELSE @]]
  BY DEF OnePager, Transferred, Inv, TypeInv, TypeOK, memory
<1>2. Live' = Live
  BY <1>1 DEF Live
<1>3. job'[p] = [job[p] EXCEPT !.ahead = @ \ {p}, !.buffer = content] /\ job[p] \in Job
  BY <1>1 DEF Inv, TypeInv, TypeOK
<1>4. /\ job'[p].pid = job[p].pid /\ job'[p].page = job[p].page
      /\ job'[p].exists = job[p].exists /\ job'[p].buffer = content
  BY <1>3 DEF Job
<1>5. \A x : x \in Placing <=> x \in PagerPc \ {"receive", "select", "victim", "count", "update"}
  BY DEF Placing, TakingOut, PagerPc
<1>6. \A u, i : (Into(p, u, i)' <=> to \in Placing /\ job[p].page = i /\ job[p].pid = u)
  BY <1>1, <1>4, <1>5 DEF Into
<1> QED
  BY <1>1, <1>2, <1>4, <1>6

LEMMA SwapReadDone ==
  ASSUME FlatInv, OnePager, NEW p \in Pagers, ReadDone(p)
  PROVE  SwapInv' /\ Unmoved(p)
<1> DEFINE c == DiskRead(disk, job[p].block)
<1>0. /\ Inv /\ EntryInv /\ CleanInv /\ FetchInv /\ job[p] \in Job
      /\ Transferred(p, "reading", "mapin", c) /\ disk' = disk
  BY DEF FlatInv, MemoryInv, SwapInv, Inv, TypeInv, TypeOK, ReadDone
<1>1. /\ Pagers = {p} /\ ppc[p] = "reading" /\ ppc'[p] = "mapin" /\ Live' = Live
      /\ UNCHANGED <<ProcPid, pte, ram, dirty>>
      /\ job'[p].pid = job[p].pid /\ job'[p].page = job[p].page
      /\ job'[p].exists = job[p].exists /\ job'[p].buffer = c
      /\ \A u, i : (Into(p, u, i)' <=> "mapin" \in Placing /\ job[p].page = i /\ job[p].pid = u)
  BY <1>0, TransferLeaves
<1> HIDE DEF c
<1>2. \A u, i : /\ ~ OutOf(p, u, i) /\ ~ OutOf(p, u, i)'
                /\ Into(p, u, i)' <=> Into(p, u, i)
  BY <1>1 DEF OutOf, Into, Placing, PagerPc
<1>3. EntryInv'
  BY <1>0, <1>1 DEF EntryInv
<1>4. CleanInv'
  BY <1>0, <1>1, <1>2 DEF CleanInv, Stored
<1>5. SaveInv'
  BY <1>1 DEF SaveInv
<1>6. FetchInv'
  <2>1. InEntry(job[p])' = InEntry(job[p])
    BY <1>1 DEF InEntry
  <2>2. job[p].block = InEntry(job[p]).diskBlock /\ job[p].block # EMPTY
    BY <1>0, <1>1 DEF FetchInv, Job, EMPTY
  <2>3. Stored(InEntry(job[p]))' = c
    BY <1>0, <2>1, <2>2 DEF Stored, c
  <2>4. ~ job[p].exists => InEntry(job[p]).diskBlock = EMPTY
    BY <1>0, <1>1 DEF FetchInv
  <2> QED
    BY <1>1, <2>1, <2>3, <2>4 DEF FetchInv
<1>7. ASSUME NEW u \in Live, NEW i \in Page PROVE Kept(p, u, i)' = Kept(p, u, i)
  BY <1>0, <1>1, <1>2 DEF Kept, Stored
<1> QED
  BY <1>1, <1>3, <1>4, <1>5, <1>6, <1>7 DEF SwapInv, Unmoved

LEMMA SwapWriteDone ==
  ASSUME FlatInv, OnePager, WritesWhereItReads, NEW p \in Pagers, WriteDone(p)
  PROVE  SwapInv' /\ Unmoved(p)
<1> DEFINE b == job[p].block
           c == job[p].buffer
<1>0. /\ Inv /\ OutInv /\ EntryInv /\ CleanInv /\ FetchInv /\ SaveInv /\ BlocksAreDistinct
      /\ disk \in Disk
      /\ Transferred(p, "writing", "fill", c) /\ disk' = DiskWrite(disk, b, c)
  BY DEF FlatInv, MemoryInv, SwapInv, BlockInv, Inv, TypeInv, TypeOK, WriteDone
<1>1. /\ Pagers = {p} /\ ppc[p] = "writing" /\ ppc'[p] = "fill" /\ Live' = Live
      /\ UNCHANGED <<ProcPid, pte, ram, dirty>>
      /\ job'[p].pid = job[p].pid /\ job'[p].page = job[p].page
      /\ job'[p].exists = job[p].exists
      /\ \A u, i : (Into(p, u, i)' <=> "fill" \in Placing /\ job[p].page = i /\ job[p].pid = u)
  BY <1>0, TransferLeaves
<1>2. \A u, i : /\ ~ OutOf(p, u, i)'
                /\ OutOf(p, u, i) <=> job[p].outPage = i /\ job[p].outPid = u
                /\ Into(p, u, i)' <=> Into(p, u, i)
  BY <1>1 DEF OutOf, Into, Placing, PagerPc
<1>3. /\ b \in 0 .. DiskBlocks - 1
      /\ \A u \in Live : \A i \in Page :
            pte[getProc(u)][i].diskBlock = b => u = job[p].outPid /\ i = job[p].outPage
      /\ job[p].outPid \in Live => OutEntry(job[p]).diskBlock = b
  BY <1>0, <1>1 DEF SaveInv
<1>4. /\ DiskRead(disk', b) = c
      /\ \A a \in 0 .. DiskBlocks - 1 : a # b => DiskRead(disk', a) = DiskRead(disk, a)
  BY <1>0, <1>1, <1>3, DiskKeeps DEF WritesWhereItReads
<1> HIDE DEF b, c
<1>5. ASSUME NEW u \in Live, NEW i \in Page, ~ OutOf(p, u, i)
      PROVE  Stored(pte[getProc(u)][i])' = Stored(pte[getProc(u)][i])
  <2> DEFINE d == pte[getProc(u)][i].diskBlock
  <2>1. CASE d = EMPTY
    BY <1>1, <2>1 DEF Stored
  <2>2. CASE d # EMPTY
    <3>1. d # b
      BY <1>2, <1>3, <1>5
    <3>2. d \in 0 .. DiskBlocks - 1
      <4>1. d \in Nat /\ getProc(u) \in Slot
        BY <1>0, <2>2, LiveEntry
      <4>2. <<getProc(u), i>> \in OwnedBlocks
        BY <2>2, <4>1 DEF OwnedBlocks
      <4>3. d < NextBlock /\ NextBlock <= DiskBlocks
        BY <1>0, <4>2 DEF BlocksAreDistinct
      <4>4. NextBlock \in Nat /\ DiskBlocks \in Int
        BY <1>0, GeometryAssumption DEF Inv, TypeInv, TypeOK, DiskBlocks
      <4> HIDE DEF d
      <4> QED
        BY <4>1, <4>3, <4>4
    <3>3. DiskRead(disk', d) = DiskRead(disk, d)
      BY <1>4, <3>1, <3>2
    <3> QED
      BY <1>1, <3>3 DEF Stored
  <2> QED
    BY <2>1, <2>2
<1>6. ASSUME NEW u \in Live, NEW i \in Page, OutOf(p, u, i)
      PROVE  /\ pte[getProc(u)][i].frame = EMPTY /\ pte[getProc(u)][i].state = "ONDISK"
             /\ Stored(pte[getProc(u)][i])' = c /\ Kept(p, u, i) = c
  <2>1. job[p].outPage = i /\ job[p].outPid = u /\ i # EMPTY /\ OutReady(p)
    BY <1>0, <1>2, <1>6 DEF OutInv, Page, EMPTY
  <2>2. OutEntry(job[p]) = pte[getProc(u)][i]
    BY <2>1 DEF OutEntry
  <2>3. /\ pte[getProc(u)][i].frame = EMPTY /\ pte[getProc(u)][i].state = "ONDISK"
        /\ pte[getProc(u)][i].diskBlock = b
    BY <1>1, <1>3, <2>1, <2>2 DEF OutReady, TakingOut
  <2>4. b # EMPTY
    BY <1>3, GeometryAssumption DEF EMPTY, DiskBlocks
  <2>5. Stored(pte[getProc(u)][i])' = c
    BY <1>1, <1>4, <2>3, <2>4 DEF Stored
  <2>6. Kept(p, u, i) = c
    BY <1>1, <1>6 DEF Kept, c
  <2> QED
    BY <2>3, <2>5, <2>6
<1>7. EntryInv'
  BY <1>0, <1>1 DEF EntryInv
<1>8. CleanInv'
  <2> SUFFICES ASSUME NEW u \in Live, NEW i \in Page, pte[getProc(u)][i].frame # EMPTY,
                      ~ Into(p, u, i), ~ dirty[pte[getProc(u)][i].frame]
               PROVE  ram[pte[getProc(u)][i].frame] = Stored(pte[getProc(u)][i])'
    BY <1>1, <1>2 DEF CleanInv
  <2>1. ~ OutOf(p, u, i)
    BY <1>6
  <2>2. ram[pte[getProc(u)][i].frame] = Stored(pte[getProc(u)][i])
    BY <1>0, <1>1 DEF CleanInv
  <2> QED
    BY <1>5, <2>1, <2>2
<1>9. SaveInv'
  BY <1>1 DEF SaveInv
<1>10. FetchInv'
  BY <1>0, <1>1 DEF FetchInv, InEntry
<1>11. ASSUME NEW u \in Live, NEW i \in Page PROVE Kept(p, u, i)' = Kept(p, u, i)
  <2>1. Kept(p, u, i)' = IF pte[getProc(u)][i].state = "INMEM" /\ ~ Into(p, u, i)
                         THEN ram[pte[getProc(u)][i].frame] ELSE Stored(pte[getProc(u)][i])'
    BY <1>1, <1>2 DEF Kept
  <2>2. CASE OutOf(p, u, i)
    BY <1>6, <2>1, <2>2
  <2>3. CASE ~ OutOf(p, u, i)
    BY <1>5, <2>1, <2>3 DEF Kept
  <2> QED
    BY <2>2, <2>3
<1> QED
  BY <1>1, <1>7, <1>8, <1>9, <1>10, <1>11 DEF SwapInv, Unmoved

\* While a user runs, a page on its way out of its frame is in the buffer already.
LEMMA UserRuns ==
  ASSUME Inv, UsersBelow, NEW u \in Users, Schedulable(u), NEW p \in Pagers
  PROVE  ppc[p] \notin {"access", "block", "alloc", "mapout", "copyout"}
<1> SUFFICES ASSUME ppc[p] \in {"access", "block", "alloc", "mapout", "copyout"} PROVE FALSE
  OBVIOUS
<1>1. ~ Waiting(p)
  BY DEF Inv, TablesInv, WaitInv
<1>2. p \notin Users /\ u # System
  BY ProcessAssumption
<1>3. Runnable(p)
  BY <1>1, <1>2 DEF Runnable
<1>4. PriorityOf(u) <= PriorityOf(p)
  BY <1>2, <1>3 DEF Schedulable
<1>5. PriorityOf(u) = Priority[u] /\ PriorityOf(p) = PAGER_PRIORITY
  BY <1>2 DEF PriorityOf
<1>6. Priority[u] \in 1 .. 5 /\ Priority[u] > PAGER_PRIORITY
  BY ProcessAssumption DEF UsersBelow
<1> QED
  BY <1>4, <1>5, <1>6 DEF PAGER_PRIORITY

\* A store changes the content of the page it goes to, and of no other.
LEMMA SwapStore ==
  ASSUME FlatInv, OnePager, UsersBelow, NEW p \in Pagers,
         NEW u \in Users, NEW i \in Page, NEW v \in Values, Store(u, i, v)
  PROVE  /\ SwapInv' /\ Live' = Live /\ u \in Live
         /\ Kept(p, u, i)' = v
         /\ \A w \in Live : \A k \in Page :
                ~ (w = u /\ k = i) => Kept(p, w, k)' = Kept(p, w, k)
<1> DEFINE f == mmu[i]
<1>0. /\ Inv /\ OutInv /\ CurInv /\ EntryInv /\ CleanInv /\ FetchInv /\ SaveInv
      /\ UserStep(u, "user", "user") /\ f # EMPTY
      /\ dirty' = [dirty EXCEPT ![f] = TRUE] /\ ram' = [ram EXCEPT ![f] = v]
  BY DEF FlatInv, MemoryInv, SwapInv, Store
<1>1. /\ Pagers = {p} /\ cur = u /\ Schedulable(u) /\ upc' = upc /\ upc[u] = "user"
      /\ UNCHANGED <<ProcPid, pte, disk, ppc, job>>
  BY <1>0 DEF OnePager, UserStep, Running, Inv, TypeInv, TypeOK
<1>2. Live' = Live /\ u \in Live
  BY <1>1 DEF Live
<1>3. f = pte[getProc(u)][i].frame
  BY <1>0, <1>1 DEF Inv, TablesInv, MmuInv
<1>4. f \in Frame
  BY <1>0, <1>2, <1>3, LiveEntry
<1>5. /\ ram'[f] = v /\ dirty'[f] = TRUE
      /\ \A g \in Frame \ {f} : ram'[g] = ram[g] /\ dirty'[g] = dirty[g]
  BY <1>0, <1>4 DEF Inv, TypeInv, TypeOK
<1>6. ppc[p] \notin {"access", "block", "alloc", "mapout", "copyout"}
  BY <1>0, <1>1, UserRuns
<1>7. \A w, k : (OutOf(p, w, k)' <=> OutOf(p, w, k)) /\ (Into(p, w, k)' <=> Into(p, w, k))
  BY <1>1 DEF OutOf, Into
<1>8. ASSUME NEW w \in Live, NEW k \in Page, ~ (w = u /\ k = i), pte[getProc(w)][k].frame # EMPTY
      PROVE  pte[getProc(w)][k].frame \in Frame \ {f}
  <2>1. pte[getProc(w)][k].frame # f
    BY <1>0, <1>2, <1>3, <1>8, OtherFrame
  <2> QED
    BY <1>0, <1>8, <2>1, LiveEntry
<1>9. EntryInv' /\ SaveInv' /\ FetchInv'
  <2>1. EntryInv'
    BY <1>0, <1>1, <1>2 DEF EntryInv
  <2>2. SaveInv'
    BY <1>0, <1>1, <1>2 DEF SaveInv, OutEntry
  <2>3. FetchInv'
    BY <1>0, <1>1 DEF FetchInv, InEntry, Stored
  <2> QED
    BY <2>1, <2>2, <2>3
<1>10. CleanInv'
  <2> SUFFICES ASSUME NEW w \in Live, NEW k \in Page, pte[getProc(w)][k].frame # EMPTY,
                      ~ Into(p, w, k), ~ dirty'[pte[getProc(w)][k].frame]
               PROVE  ram'[pte[getProc(w)][k].frame] = Stored(pte[getProc(w)][k])
    BY <1>1, <1>2, <1>7 DEF CleanInv, Stored
  <2>1. ~ (w = u /\ k = i)
    BY <1>3, <1>5
  <2>2. pte[getProc(w)][k].frame \in Frame \ {f}
    BY <1>8, <2>1
  <2>3. ~ dirty[pte[getProc(w)][k].frame]
    BY <1>5, <2>2
  <2>4. ram[pte[getProc(w)][k].frame] = Stored(pte[getProc(w)][k])
    BY <1>0, <1>1, <2>3 DEF CleanInv
  <2> QED
    BY <1>5, <2>2, <2>4
<1>11. \A w, k : Kept(p, w, k)' = IF OutOf(p, w, k) THEN job[p].buffer
                                  ELSE IF pte[getProc(w)][k].state = "INMEM" /\ ~ Into(p, w, k)
                                  THEN ram'[pte[getProc(w)][k].frame]
                                  ELSE Stored(pte[getProc(w)][k])
  BY <1>1, <1>6, <1>7 DEF Kept, OutOf, Stored
<1>12. \A w, k : Kept(p, w, k) = IF OutOf(p, w, k) THEN job[p].buffer
                                 ELSE IF pte[getProc(w)][k].state = "INMEM" /\ ~ Into(p, w, k)
                                 THEN ram[pte[getProc(w)][k].frame]
                                 ELSE Stored(pte[getProc(w)][k])
  BY <1>1, <1>6 DEF Kept, OutOf
<1>13. Kept(p, u, i)' = v
  <2>1. pte[getProc(u)][i].state = "INMEM"
    BY <1>0, <1>2, <1>3, LiveEntry DEF Inv, TablesInv, FramesInv
  <2>2. ~ OutOf(p, u, i)
    <3> SUFFICES ASSUME OutOf(p, u, i) PROVE FALSE
      OBVIOUS
    <3>1. /\ ppc[p] \in TakingOut /\ job[p].outPage = i /\ job[p].outPid = u /\ i # EMPTY
          /\ OutReady(p)
      BY <1>0 DEF OutOf, TakingOut, Page, EMPTY, OutInv
    <3> QED
      BY <1>2, <2>1, <3>1 DEF OutReady, OutEntry
  <2>3. ~ Into(p, u, i)
    BY <1>0, <1>1 DEF CurInv, Into
  <2> QED
    BY <1>3, <1>5, <1>11, <2>1, <2>2, <2>3
<1>14. ASSUME NEW w \in Live, NEW k \in Page, ~ (w = u /\ k = i)
       PROVE  Kept(p, w, k)' = Kept(p, w, k)
  <2>1. pte[getProc(w)][k].state = "INMEM" => pte[getProc(w)][k].frame \in Frame \ {f}
    BY <1>0, <1>8, <1>14 DEF EntryInv
  <2> QED
    BY <1>5, <1>11, <1>12, <2>1
<1> QED
  BY <1>2, <1>9, <1>10, <1>13, <1>14 DEF SwapInv

\* A process starts with pages of zeros.
LEMMA SwapFork ==
  ASSUME FlatInv, OnePager, PidsAreSlots, NEW p \in Pagers, NEW u \in Users, p1_fork(u)
  PROVE  /\ SwapInv' /\ u \notin Live /\ Live' = Live \cup {u}
         /\ \A i \in Page : Kept(p, u, i)' = Zero
         /\ \A w \in Live : \A k \in Page : Kept(p, w, k)' = Kept(p, w, k)
<1>0. /\ Inv /\ FrameInv /\ EntryInv /\ CleanInv /\ FetchInv /\ SaveInv
      /\ getProc(u) = u /\ u \in Slot
  BY PidSlot DEF FlatInv, MemoryInv, SwapInv
<1>1. /\ Pagers = {p} /\ upc[u] = "unborn" /\ upc' = [upc EXCEPT ![u] = "user"]
      /\ pte' = [pte EXCEPT ![u] = EmptyTable] /\ ProcPid' = [ProcPid EXCEPT ![u] = u]
      /\ UNCHANGED <<disk, ppc, job, ram, dirty>>
  BY <1>0 DEF OnePager, p1_fork, memory
<1>2. u \notin Live /\ Live' = Live \cup {u}
  BY <1>0, <1>1 DEF Live, Inv, TypeInv, TypeOK
<1>3. \A w \in Live : getProc(w) = w /\ w \in Slot \ {u} /\ pte'[getProc(w)] = pte[getProc(w)]
  <2>1. \A w \in Live : getProc(w) = w /\ w \in Slot /\ w # u
    BY <1>2, PidSlot DEF Live
  <2> QED
    BY <1>0, <1>1, <2>1 DEF Inv, TypeInv, TypeOK
<1>4. \A i \in Page : /\ pte'[getProc(u)][i].state = "UNUSED" /\ pte'[getProc(u)][i].frame = EMPTY
                      /\ pte'[getProc(u)][i].diskBlock = EMPTY
  BY <1>0, <1>1 DEF EmptyTable, UnusedPTE, Inv, TypeInv, TypeOK
<1>5. \A w, k : (OutOf(p, w, k)' <=> OutOf(p, w, k)) /\ (Into(p, w, k)' <=> Into(p, w, k))
  BY <1>1 DEF OutOf, Into
<1>6. \A i \in Page : ~ OutOf(p, u, i)
  <2> SUFFICES ASSUME NEW i \in Page, OutOf(p, u, i) PROVE FALSE
    OBVIOUS
  <2>1. ppc[p] \in TakingOut /\ job[p].outPage # EMPTY /\ job[p].outPid = u
    BY DEF OutOf, TakingOut, Page, EMPTY
  <2> QED
    BY <1>0, <1>1, <2>1 DEF FrameInv, VictimOwnerInv
<1>7. EntryInv'
  <2>1. \A s \in Slot : ProcPid'[s] \in {EMPTY, s}
    BY <1>0, <1>1 DEF EntryInv, Inv, TypeInv, TypeOK
  <2>2. ASSUME NEW w \in Live', NEW i \in Page
        PROVE  LET e == pte'[getProc(w)][i]
               IN  /\ e.state = "INMEM" => e.frame # EMPTY
                   /\ e.state = "UNUSED" => e.diskBlock = EMPTY
    <3>1. CASE w = u
      BY <1>4, <3>1
    <3>2. CASE w \in Live
      BY <1>0, <1>3, <3>2 DEF EntryInv
    <3> QED
      BY <1>2, <3>1, <3>2
  <2> QED
    BY <2>1, <2>2 DEF EntryInv
<1>8. CleanInv'
  <2> SUFFICES ASSUME NEW w \in Live', NEW k \in Page, pte'[getProc(w)][k].frame # EMPTY,
                      ~ Into(p, w, k), ~ dirty[pte'[getProc(w)][k].frame]
               PROVE  ram[pte'[getProc(w)][k].frame] = Stored(pte[getProc(w)][k])
                      /\ pte'[getProc(w)][k] = pte[getProc(w)][k]
    BY <1>1, <1>5 DEF CleanInv, Stored
  <2>1. w \in Live
    BY <1>2, <1>4
  <2>2. pte'[getProc(w)][k] = pte[getProc(w)][k]
    BY <1>3, <2>1
  <2> QED
    BY <1>0, <1>1, <2>1, <2>2 DEF CleanInv
<1>9. SaveInv'
  <2>1. ppc[p] = "writing" => /\ job[p].block # EMPTY
                              /\ job[p].outPage # EMPTY /\ job[p].outPid # u
    BY <1>0, <1>1 DEF Inv, TypeInv, TypeOK, AtWork, Job, EMPTY, FrameInv, VictimOwnerInv, TakingOut
  <2>2. ASSUME ppc[p] = "writing", NEW w \in Live', NEW k \in Page,
               pte'[getProc(w)][k].diskBlock = job[p].block
        PROVE  w = job[p].outPid /\ k = job[p].outPage
    <3>1. w \in Live
      BY <1>2, <1>4, <2>1, <2>2
    <3> QED
      BY <1>0, <1>3, <2>2, <3>1 DEF SaveInv
  <2>3. ppc[p] = "writing" /\ job[p].outPid \in Live' =>
            pte'[getProc(job[p].outPid)][job[p].outPage].diskBlock = job[p].block
    BY <1>0, <1>2, <1>3, <2>1 DEF SaveInv, OutEntry
  <2>4. /\ ppc[p] = "pageout" => job[p].owner \in {EMPTY, job[p].outPid}
        /\ ppc[p] = "writing" => job[p].block \in 0 .. DiskBlocks - 1
    BY <1>0 DEF SaveInv
  <2> QED
    BY <1>1, <2>2, <2>3, <2>4 DEF SaveInv, OutEntry
<1>10. FetchInv'
  <2>1. ppc[p] # "receive" => job[p].pid \in Live
    BY <1>0, ServedWaits
  <2>2. ppc[p] # "receive" => InEntry(job[p])' = InEntry(job[p])
    BY <1>1, <1>3, <2>1 DEF InEntry
  <2> QED
    BY <1>0, <1>1, <2>2 DEF FetchInv, Stored
<1>11. ASSUME NEW i \in Page PROVE Kept(p, u, i)' = Zero
  BY <1>4, <1>5, <1>6 DEF Kept, Stored
<1>12. ASSUME NEW w \in Live, NEW k \in Page PROVE Kept(p, w, k)' = Kept(p, w, k)
  <2>1. pte'[getProc(w)][k] = pte[getProc(w)][k]
    BY <1>3
  <2>2. UNCHANGED <<disk, ppc, job, ram, dirty>>
    BY <1>1
  <2> QED
    BY <1>5, <2>1, <2>2 DEF Kept, Stored, MustWrite
<1> QED
  BY <1>2, <1>7, <1>8, <1>9, <1>10, <1>11, <1>12 DEF SwapInv

\* A process that quits takes nothing of the others with it.
LEMMA SwapQuit ==
  ASSUME FlatInv, OnePager, PidsAreSlots, NEW p \in Pagers, NEW u \in Users, p1_quit(u)
  PROVE  /\ SwapInv' /\ u \in Live /\ Live' = Live \ {u}
         /\ \A w \in Live' : \A k \in Page : Kept(p, w, k)' = Kept(p, w, k)
<1>0. /\ Inv /\ EntryInv /\ CleanInv /\ FetchInv /\ SaveInv
      /\ getProc(u) = u /\ u \in Slot
  BY PidSlot DEF FlatInv, MemoryInv, SwapInv
<1>1. CanUnload(u) /\ upc[u] \in {"exit", "user"}
  BY <1>0, UserUnloads DEF p1_quit, Running
<1>2. /\ Pagers = {p} /\ upc' = [upc EXCEPT ![u] = "dead"]
      /\ pte' = [pte EXCEPT ![u] = EmptyTable] /\ ProcPid' = [ProcPid EXCEPT ![u] = EMPTY]
      /\ UNCHANGED <<disk, ppc, job, ram, dirty>>
  BY <1>0, <1>1 DEF OnePager, p1_quit
<1>3. u \in Live /\ Live' = Live \ {u}
  BY <1>0, <1>1, <1>2 DEF Live, Inv, TypeInv, TypeOK
<1>4. \A w \in Live' : w \in Live /\ getProc(w) = w /\ pte'[getProc(w)] = pte[getProc(w)]
  <2>1. \A w \in Live' : w \in Live /\ getProc(w) = w /\ w \in Slot /\ w # u
    BY <1>3, PidSlot DEF Live
  <2> QED
    BY <1>0, <1>2, <2>1 DEF Inv, TypeInv, TypeOK
<1>5. \A w, k : (OutOf(p, w, k)' <=> OutOf(p, w, k)) /\ (Into(p, w, k)' <=> Into(p, w, k))
  BY <1>2 DEF OutOf, Into
<1>6. EntryInv'
  <2>1. \A s \in Slot : ProcPid'[s] \in {EMPTY, s}
    BY <1>0, <1>2 DEF EntryInv, Inv, TypeInv, TypeOK
  <2>2. \A w \in Live' : \A i \in Page :
            LET e == pte'[getProc(w)][i]
            IN  /\ e.state = "INMEM" => e.frame # EMPTY
                /\ e.state = "UNUSED" => e.diskBlock = EMPTY
    BY <1>0, <1>4 DEF EntryInv
  <2> QED
    BY <2>1, <2>2 DEF EntryInv
<1>7. CleanInv'
  <2> SUFFICES ASSUME NEW w \in Live', NEW k \in Page, pte'[getProc(w)][k].frame # EMPTY,
                      ~ Into(p, w, k), ~ dirty[pte'[getProc(w)][k].frame]
               PROVE  ram[pte'[getProc(w)][k].frame] = Stored(pte[getProc(w)][k])
                      /\ pte'[getProc(w)][k] = pte[getProc(w)][k]
    BY <1>2, <1>5 DEF CleanInv, Stored
  <2>1. w \in Live /\ pte'[getProc(w)][k] = pte[getProc(w)][k]
    BY <1>4
  <2> QED
    BY <1>0, <1>2, <2>1 DEF CleanInv
<1>8. SaveInv'
  <2>1. ASSUME ppc[p] = "writing", NEW w \in Live', NEW k \in Page,
               pte'[getProc(w)][k].diskBlock = job[p].block
        PROVE  w = job[p].outPid /\ k = job[p].outPage
    BY <1>0, <1>4, <2>1 DEF SaveInv
  <2>2. ppc[p] = "writing" /\ job[p].outPid \in Live' =>
            pte'[getProc(job[p].outPid)][job[p].outPage].diskBlock = job[p].block
    BY <1>0, <1>4 DEF SaveInv, OutEntry
  <2>3. /\ ppc[p] = "pageout" => job[p].owner \in {EMPTY, job[p].outPid}
        /\ ppc[p] = "writing" => job[p].block \in 0 .. DiskBlocks - 1
    BY <1>0 DEF SaveInv
  <2> QED
    BY <1>2, <2>1, <2>2, <2>3 DEF SaveInv, OutEntry
<1>9. FetchInv'
  <2>1. ppc[p] # "receive" => job[p].pid \in Live'
    <3>1. ppc[p] # "receive" => job[p].pid \in Live /\ upc[job[p].pid] = "wait"
      BY <1>0, ServedWaits
    <3> QED
      BY <1>1, <1>3, <3>1
  <2>2. ppc[p] # "receive" => InEntry(job[p])' = InEntry(job[p])
    BY <1>2, <1>4, <2>1 DEF InEntry
  <2> QED
    BY <1>0, <1>2, <2>2 DEF FetchInv, Stored
<1>10. ASSUME NEW w \in Live', NEW k \in Page PROVE Kept(p, w, k)' = Kept(p, w, k)
  <2>1. pte'[getProc(w)][k] = pte[getProc(w)][k]
    BY <1>4
  <2>2. UNCHANGED <<disk, ppc, job, ram, dirty>>
    BY <1>2
  <2> QED
    BY <1>5, <2>1, <2>2 DEF Kept, Stored, MustWrite
<1> QED
  BY <1>3, <1>6, <1>7, <1>8, <1>9, <1>10 DEF SwapInv
-----------------------------------------------------------------------------
(* Every step is a step of FlatMemory, or none.                              *)

LEMMA SwapPager ==
  ASSUME FlatInv, OnePager, PidsAreSlots, RoomOnDisk, NEW p \in Pagers, Pager(p)
  PROVE  SwapInv' /\ Unmoved(p)
<1>1. CASE \/ BlockOnMutex(p, "FramesMutex", {"select"})
           \/ BlockOnMutex(p, "vmStatsMutex", {"count", "pageout", "pagein"})
  <2>1. UNCHANGED <<ProcPid, pte, ram, dirty, disk, ppc, job, upc>>
    BY <1>1 DEF BlockOnMutex, memory
  <2>2. Live' = Live
    BY <2>1 DEF Live
  <2> QED
    BY <2>1, <2>2, SwapQuiet DEF FlatInv
<1>2. CASE Receive(p) \/ GetNextFrame(p) \/ TakeVictim(p) \/ CountNew(p) \/ UpdateTables(p)
  BY <1>2, SwapReceive, SwapChoose, SwapUpdate
<1>3. CASE CheckAccess(p) \/ FindBlock(p) \/ AllocateBlock(p) \/ MapOut(p) \/ CopyOut(p)
  BY <1>3, SwapCheck, SwapFind, SwapAllocate, SwapMapOut, SwapCopyOut
<1>4. CASE PageOut(p) \/ Fill(p) \/ PageIn(p) \/ MapIn(p) \/ CopyIn(p)
  BY <1>4, SwapPageOut, SwapFill, SwapPageIn, SwapMapIn, SwapCopyIn
<1> QED
  BY <1>1, <1>2, <1>3, <1>4 DEF Pager

LEMMA UserCopies ==
  ASSUME NEW u \in Users, Program(u) \/ Handler(u),
         \A i \in Page, v \in Values : ~ Store(u, i, v)
  PROVE  UNCHANGED <<ram, dirty>>
<1>1. CASE LockVmStats(u) \/ CountFault(u) \/ SendFault(u) \/ Resume(u)
  BY <1>1 DEF LockVmStats, CountFault, SendFault, Resume, memory
<1>2. CASE LockFrames(u) \/ UnlockFrame(u) \/ PrintStatsDone(u) \/ PrintStats(u)
  BY <1>2 DEF LockFrames, UnlockFrame, PrintStatsDone, PrintStats, memory
<1>3. ASSUME NEW i \in Page, Load(u, i) \/ PageFault(u, i)
      PROVE  UNCHANGED <<ram, dirty>>
  BY <1>3 DEF Load, PageFault, memory
<1> QED
  BY <1>1, <1>2, <1>3 DEF Program, Handler

LEMMA SwapHandler ==
  ASSUME FlatInv, NEW p \in Pagers, NEW u \in Users, Program(u) \/ Handler(u),
         \A i \in Page, v \in Values : ~ Store(u, i, v)
  PROVE  SwapInv' /\ Unmoved(p)
<1>1. UNCHANGED <<ProcPid, pte, disk, ppc, job>> /\ Live' = Live
  BY UserLeaves DEF FlatInv, MemoryInv, Inv
<1>2. UNCHANGED <<ram, dirty>>
  BY UserCopies
<1> QED
  BY <1>1, <1>2, SwapQuiet DEF FlatInv

LEMMA FlatUnmoved ==
  ASSUME OnePager, NEW p \in Pagers, Unmoved(p)
  PROVE  UNCHANGED Flat!memVars
<1>1. Live' = Live
  BY DEF Unmoved
<1>2. ASSUME NEW u, NEW i \in Page PROVE Content(u, i)' = Content(u, i)
  BY <1>1, ContentIs, ContentIsNext DEF Unmoved
<1> QED
  BY <1>1, <1>2 DEF Flat!memVars

LEMMA FlatFork ==
  ASSUME FlatInv, OnePager, PidsAreSlots, NEW p \in Pagers, NEW u \in Users, p1_fork(u)
  PROVE  SwapInv' /\ Flat!Start(u)
<1>1. /\ SwapInv' /\ u \notin Live /\ Live' = Live \cup {u}
      /\ \A i \in Page : Kept(p, u, i)' = Zero
      /\ \A w \in Live : \A k \in Page : Kept(p, w, k)' = Kept(p, w, k)
  BY SwapFork
<1>2. ASSUME NEW w, NEW k \in Page PROVE Content(w, k)' = Content(w, k)
  <2>1. Content(w, k) = IF w \in Live THEN Kept(p, w, k) ELSE Zero
    BY ContentIs
  <2>2. Content(w, k)' = IF w \in Live' THEN Kept(p, w, k)' ELSE Zero
    BY ContentIsNext
  <2> QED
    BY <1>1, <2>1, <2>2
<1> QED
  BY <1>1, <1>2 DEF Flat!Start

LEMMA FlatQuit ==
  ASSUME FlatInv, OnePager, PidsAreSlots, NEW p \in Pagers, NEW u \in Users, p1_quit(u)
  PROVE  SwapInv' /\ Flat!End(u)
<1>1. /\ SwapInv' /\ u \in Live /\ Live' = Live \ {u}
      /\ \A w \in Live' : \A k \in Page : Kept(p, w, k)' = Kept(p, w, k)
  BY SwapQuit
<1>2. ASSUME NEW w, NEW k \in Page
      PROVE  Content(w, k)' = IF w = u THEN Zero ELSE Content(w, k)
  <2>1. Content(w, k) = IF w \in Live THEN Kept(p, w, k) ELSE Zero
    BY ContentIs
  <2>2. Content(w, k)' = IF w \in Live' THEN Kept(p, w, k)' ELSE Zero
    BY ContentIsNext
  <2> QED
    BY <1>1, <2>1, <2>2
<1> DEFINE m == [w \in Users |-> [k \in Page |-> Content(w, k)]]
<1>3. m' = [m EXCEPT ![u] = [k \in Page |-> Zero]]
  <2>1. m' = [w \in Users |-> [k \in Page |-> Content(w, k)']]
    OBVIOUS
  <2> QED
    BY <1>2, <2>1
<1> QED
  BY <1>1, <1>3 DEF Flat!End, Flat!ZeroPages

LEMMA FlatStore ==
  ASSUME FlatInv, OnePager, UsersBelow, NEW p \in Pagers,
         NEW u \in Users, NEW i \in Page, NEW v \in Values, Store(u, i, v)
  PROVE  SwapInv' /\ Flat!Write(u, i, v)
<1>1. /\ SwapInv' /\ Live' = Live /\ u \in Live
      /\ Kept(p, u, i)' = v
      /\ \A w \in Live : \A k \in Page : ~ (w = u /\ k = i) => Kept(p, w, k)' = Kept(p, w, k)
  BY SwapStore
<1>2. ASSUME NEW w, NEW k \in Page
      PROVE  Content(w, k)' = IF w = u /\ k = i THEN v ELSE Content(w, k)
  <2>1. Content(w, k) = IF w \in Live THEN Kept(p, w, k) ELSE Zero
    BY ContentIs
  <2>2. Content(w, k)' = IF w \in Live' THEN Kept(p, w, k)' ELSE Zero
    BY ContentIsNext
  <2> QED
    BY <1>1, <2>1, <2>2
<1> DEFINE m == [w \in Users |-> [k \in Page |-> Content(w, k)]]
<1>3. m' = [m EXCEPT ![u][i] = v]
  <2>1. m' = [w \in Users |-> [k \in Page |-> Content(w, k)']]
    OBVIOUS
  <2> QED
    BY <1>2, <2>1
<1>4. <<u, i>> \in Writable
  BY DEF Store
<1> QED
  BY <1>1, <1>3, <1>4 DEF Flat!Write

LEMMA SwapInit ==
  ASSUME OnePager
  PROVE  Init => SwapInv /\ Flat!Init
<1> SUFFICES ASSUME Init PROVE SwapInv /\ Flat!Init
  OBVIOUS
<1>1. Live = {}
  BY DEF Init, Live
<1>2. EntryInv
  BY <1>1 DEF Init, EntryInv
<1>3. CleanInv
  BY <1>1 DEF CleanInv
<1>4. SaveInv /\ FetchInv
  BY DEF Init, SaveInv, FetchInv
<1>5. Flat!Init
  <2>1. \A u, i : Content(u, i) = Zero
    BY <1>1 DEF Content
  <2> QED
    BY <1>1, <2>1 DEF Flat!Init, Flat!ZeroPages
<1> QED
  BY <1>2, <1>3, <1>4, <1>5 DEF SwapInv

LEMMA SwapNext ==
  ASSUME OnePager, UsersBelow, PidsAreSlots
  PROVE  FlatInv /\ RoomOnDisk /\ WritesWhereItReads /\ [Next]_vars =>
            SwapInv' /\ [Flat!Next]_(Flat!memVars)
<1> SUFFICES ASSUME FlatInv, RoomOnDisk, WritesWhereItReads, [Next]_vars
             PROVE  SwapInv' /\ [Flat!Next]_(Flat!memVars)
  OBVIOUS
<1>0. PICK p : p \in Pagers /\ Pagers = {p}
  BY DEF OnePager
<1>1. ASSUME SwapInv' /\ Unmoved(p) PROVE SwapInv' /\ [Flat!Next]_(Flat!memVars)
  BY <1>0, <1>1, FlatUnmoved
<1>2. CASE UNCHANGED vars
  <2>1. UNCHANGED <<ProcPid, pte, ram, dirty, disk, ppc, job, upc>>
    BY <1>2 DEF vars, memory
  <2>2. Live' = Live
    BY <2>1 DEF Live
  <2> QED
    BY <1>0, <1>1, <2>1, <2>2, SwapQuiet DEF FlatInv
<1>3. ASSUME NEW x \in Process, p1_switch(x) PROVE SwapInv' /\ [Flat!Next]_(Flat!memVars)
  <2>1. UNCHANGED <<ProcPid, pte, ram, dirty, disk, ppc, job, upc>>
    BY <1>3 DEF p1_switch, Halt, memory
  <2>2. Live' = Live
    BY <2>1 DEF Live
  <2> QED
    BY <1>0, <1>1, <2>1, <2>2, SwapQuiet DEF FlatInv
<1>4. ASSUME NEW u \in Users, p1_fork(u) PROVE SwapInv' /\ [Flat!Next]_(Flat!memVars)
  BY <1>0, <1>4, FlatFork DEF Flat!Next
<1>5. ASSUME NEW u \in Users, p1_quit(u) PROVE SwapInv' /\ [Flat!Next]_(Flat!memVars)
  BY <1>0, <1>5, FlatQuit DEF Flat!Next
<1>6. ASSUME NEW u \in Users, Program(u) \/ Handler(u)
      PROVE  SwapInv' /\ [Flat!Next]_(Flat!memVars)
  <2>1. ASSUME NEW i \in Page, NEW v \in Values, Store(u, i, v)
        PROVE  SwapInv' /\ [Flat!Next]_(Flat!memVars)
    BY <1>0, <2>1, FlatStore DEF Flat!Next
  <2>2. CASE \A i \in Page, v \in Values : ~ Store(u, i, v)
    BY <1>0, <1>1, <1>6, <2>2, SwapHandler
  <2> QED
    BY <2>1, <2>2
<1>7. ASSUME NEW q \in Pagers, Pager(q) PROVE SwapInv' /\ [Flat!Next]_(Flat!memVars)
  <2>1. q = p
    BY <1>0
  <2> QED
    BY <1>0, <1>1, <1>7, <2>1, SwapPager
<1>8. ASSUME NEW q \in Pagers, DiskDone(q) PROVE SwapInv' /\ [Flat!Next]_(Flat!memVars)
  <2>1. q = p
    BY <1>0
  <2> QED
    BY <1>0, <1>1, <1>8, <2>1, SwapReadDone, SwapWriteDone DEF DiskDone
<1> QED
  BY <1>2, <1>3, <1>4, <1>5, <1>6, <1>7, <1>8 DEF Next

\* The VM region is a flat memory as long as no page-out finds the disk full and none goes to
\* another place than it is read from: no page of a live process ever changes but by the
\* process's own stores, whichever frame, buffer or block the pager holds it in, whoever is
\* switched to, born or quits meanwhile (phase5.c:440-600, p1.c:56-161,
\* phase5utility.c:261-325).
THEOREM RegionIsFlatMemory ==
  ASSUME OnePager, UsersBelow, PidsAreSlots
  PROVE  Spec /\ []RoomOnDisk /\ []WritesWhereItReads => IsFlatMemory
<1>1. Init => SwapInv /\ Flat!Init
  BY SwapInit
<1>2. FlatInv /\ RoomOnDisk /\ WritesWhereItReads /\ [Next]_vars =>
        SwapInv' /\ [Flat!Next]_(Flat!memVars)
  BY SwapNext
<1>3. Spec => []MemoryInv
  BY MemoryAlways
<1>4. Spec => []BlockInv
  BY BlocksAlways
<1>5. FlatInv <=> MemoryInv /\ BlockInv /\ SwapInv
  BY DEF FlatInv
<1> QED
  BY <1>1, <1>2, <1>3, <1>4, <1>5, PTL DEF Spec, IsFlatMemory, Flat!Spec

-----------------------------------------------------------------------------
(* A disk with a block for every page that is stored to, and one more, is    *)
(* never full.                                                               *)

\* Only a page that may be stored to is written out, and it has no block while it is about
\* to be given one.
StoredInv ==
    /\ \A u \in Live : \A i \in Page :
         LET e == pte[getProc(u)][i]
         IN  /\ e.frame # EMPTY
             /\ \A p \in Pagers : ~ Into(p, u, i)
             /\ dirty[e.frame]
             => <<u, i>> \in Writable
    /\ \A p \in Pagers :
         /\ job[p].outPid \in Live
         /\ (ppc[p] = "access" /\ MustWrite(job[p])) \/ ppc[p] \in {"block", "alloc"}
         => <<job[p].outPid, job[p].outPage>> \in Writable
    /\ \A p \in Pagers : ppc[p] = "alloc" => OutEntry(job[p]).diskBlock = EMPTY

\* The pid in a slot is that of a live process, and the number of the slot.
SlotInv == \A s \in Slot : ProcPid[s] # EMPTY => ProcPid[s] \in Live /\ ProcPid[s] = s

\* The pages that have a block, and those whose process has quit.
Given ==
    {w \in Writable \cap (Users \X Page) :
        \/ upc[w[1]] = "dead"
        \/ w[1] \in Live /\ pte[getProc(w[1])][w[2]].diskBlock # EMPTY}

\* The machine has stopped, or will when the page that goes out turns out to be nobody's.
Doomed ==
    \/ halted # "no"
    \/ \E p \in Pagers : \/ ppc[p] \in {"mapout", "copyout"} /\ upc[job[p].outPid] = "dead"
                         \/ ppc[p] = "pageout" /\ job[p].owner = EMPTY

\* A page gets one block.  One more can go to a page whose process quits on its way out,
\* and that is the last one: the pager stops the machine before it asks for another.
CountInv ==
    /\ NextBlock <= Cardinality(Given) + 1
    /\ Doomed \/ NextBlock <= Cardinality(Given)

RoomInv == StoredInv /\ SlotInv /\ CountInv

Safe == MemoryInv /\ RoomInv /\ IsFiniteSet(Writable)

LEMMA GivenIsFinite ==
  ASSUME IsFiniteSet(Writable)
  PROVE  /\ IsFiniteSet(Given) /\ Cardinality(Given) \in Nat
         /\ Cardinality(Given) <= Cardinality(Writable)
<1>1. Given \in SUBSET Writable
  BY DEF Given
<1> QED
  BY <1>1, FS_Subset, FS_CardinalityType

LEMMA CountKeeps ==
  ASSUME Safe, UNCHANGED NextBlock, Doomed => Doomed',
         \A u \in Users : upc[u] = "dead" => upc'[u] = "dead",
         \A u \in Live : u \in Live' \/ upc'[u] = "dead",
         \A u \in Live \cap Live' : \A i \in Page :
            pte'[getProc(u)][i].diskBlock = pte[getProc(u)][i].diskBlock
  PROVE  CountInv'
<1>1. PICK G : G = Given'
  OBVIOUS
<1>2. Given \subseteq G /\ G \subseteq Writable
  BY <1>1 DEF Given
<1>3. /\ IsFiniteSet(G) /\ Cardinality(G) \in Nat /\ Cardinality(Given) \in Nat
      /\ Cardinality(Given) <= Cardinality(G)
  BY <1>2, FS_Subset, FS_CardinalityType DEF Safe
<1>4. NextBlock \in Nat
  BY DEF Safe, MemoryInv, Inv, TypeInv, TypeOK
<1>5. CountInv' <=> /\ NextBlock <= Cardinality(G) + 1
                    /\ Doomed' \/ NextBlock <= Cardinality(G)
  BY <1>1 DEF CountInv
<1> QED
  BY <1>3, <1>4, <1>5 DEF Safe, RoomInv, CountInv

\* The page that goes out, from line 517 on.
LEMMA OutPage ==
  ASSUME MemoryInv, NEW p \in Pagers, ppc[p] \in {"block", "alloc", "mapout", "copyout", "pageout"}
  PROVE  /\ job[p].outPage \in Page /\ job[p].outPage # EMPTY
         /\ job[p].outPid \in Users /\ getProc(job[p].outPid) \in Slot
         /\ job[p].outPid \in Live \/ upc[job[p].outPid] = "dead"
<1>1. job[p] \in Job /\ job[p].outPage # EMPTY
  BY DEF MemoryInv, Inv, TypeInv, TypeOK, AtWork
<1>2. job[p].outPid \in Users /\ upc[job[p].outPid] # "unborn"
  BY <1>1 DEF MemoryInv, FrameInv, VictimOwnerInv, TakingOut
<1> QED
  BY <1>1, <1>2, UserSlot DEF Job, Live

LEMMA NotDoomed ==
  ASSUME OnePager, NEW p \in Pagers, halted = "no",
         ppc[p] \notin {"mapout", "copyout"}, ppc[p] = "pageout" => job[p].owner # EMPTY
  PROVE  ~ Doomed
BY DEF OnePager, Doomed

LEMMA RoomQuiet ==
  ASSUME Safe, UNCHANGED <<ProcPid, pte, dirty, ppc, job, NextBlock>>, Live' = Live,
         \A u \in Users : upc[u] = "dead" => upc'[u] = "dead",
         halted # "no" => halted' # "no"
  PROVE  RoomInv'
<1>1. StoredInv'
  BY DEF Safe, RoomInv, StoredInv, Into, MustWrite, OutEntry
<1>2. SlotInv'
  BY DEF Safe, RoomInv, SlotInv
<1>3. Doomed => Doomed'
  <2>1. \A p \in Pagers : ppc[p] \in {"mapout", "copyout"} => job[p].outPid \in Users
    BY OutPage DEF Safe
  <2> QED
    BY <2>1 DEF Doomed
<1>4. CountInv'
  BY <1>3, CountKeeps
<1> QED
  BY <1>1, <1>2, <1>4 DEF RoomInv

LEMMA RoomHalt ==
  ASSUME Safe, NEW why, why # "no", Halt(why)
  PROVE  RoomInv'
<1>1. UNCHANGED <<ProcPid, pte, dirty, ppc, job, NextBlock, upc>> /\ halted' # "no"
  BY DEF Halt, memory
<1>2. Live' = Live
  BY <1>1 DEF Live
<1> QED
  BY <1>1, <1>2, RoomQuiet

\* A step of the pager that changes no page table and dirties no frame.
LEMMA RoomStep ==
  ASSUME Safe, OnePager, NEW p \in Pagers, NEW from, NEW to, NEW j, Step(p, from, to, j),
         UNCHANGED <<pte, dirty, NextBlock>>, to \in PagerPc \ {"access"},
         from \in Placing <=> to \in Placing,
         from \in Placing => j.pid = job[p].pid /\ j.page = job[p].page,
         j.outPid \in Live /\ to \in {"block", "alloc"} => <<j.outPid, j.outPage>> \in Writable,
         to = "alloc" => OutEntry(j).diskBlock = EMPTY,
         Doomed => Doomed'
  PROVE  RoomInv'
<1>1. /\ Pagers = {p} /\ ppc[p] = from /\ ppc'[p] = to /\ job'[p] = j
      /\ UNCHANGED <<upc, ProcPid>>
  BY DEF OnePager, Step, At, Safe, MemoryInv, Inv, TypeInv, TypeOK
<1>2. Live' = Live
  BY <1>1 DEF Live
<1>3. \A u, i : Into(p, u, i)' <=> Into(p, u, i)
  <2>1. \A x : x \in Placing <=> x \in PagerPc \ {"receive", "select", "victim", "count", "update"}
    BY DEF Placing, TakingOut, PagerPc
  <2> QED
    BY <1>1, <2>1 DEF Into
<1>4. StoredInv'
  <2>1. OutEntry(job[p])' = OutEntry(j)
    BY <1>1 DEF OutEntry
  <2>2. ASSUME NEW u \in Live, NEW i \in Page, pte[getProc(u)][i].frame # EMPTY,
               ~ Into(p, u, i), dirty[pte[getProc(u)][i].frame]
        PROVE  <<u, i>> \in Writable
    BY <1>1, <2>2 DEF Safe, RoomInv, StoredInv
  <2> QED
    BY <1>1, <1>2, <1>3, <2>1, <2>2 DEF StoredInv
<1>5. SlotInv'
  BY <1>1, <1>2 DEF Safe, RoomInv, SlotInv
<1>6. CountInv'
  BY <1>1, <1>2, CountKeeps
<1> QED
  BY <1>4, <1>5, <1>6 DEF RoomInv

\* A step on which none of this bears.
LEMMA RoomCalm ==
  ASSUME Safe, OnePager, NEW p \in Pagers, NEW from, NEW to, NEW j, Step(p, from, to, j),
         UNCHANGED <<pte, dirty, NextBlock>>,
         from \notin {"mapout", "copyout", "pageout"},
         to \in PagerPc \ {"access", "block", "alloc"},
         from \in Placing <=> to \in Placing,
         from \in Placing => j.pid = job[p].pid /\ j.page = job[p].page
  PROVE  RoomInv'
<1>1. ppc[p] = from /\ halted = "no"
  BY DEF Step, At, Running
<1>2. ~ Doomed
  BY <1>1, NotDoomed
<1> QED
  BY <1>2, RoomStep

LEMMA RoomReceive ==
  ASSUME Safe, OnePager, NEW p \in Pagers, Receive(p)
  PROVE  RoomInv'
<1>1. CASE Halt("faults")
  BY <1>1, RoomHalt
<1>2. CASE ~ Halt("faults")
  <2>1. \E j : Step(p, "receive", "select", j) /\ UNCHANGED <<pte, dirty, NextBlock>>
    BY <1>2 DEF Receive, memory
  <2> QED
    BY <2>1, RoomCalm DEF Placing, TakingOut, PagerPc
<1> QED
  BY <1>1, <1>2

LEMMA RoomChoose ==
  ASSUME Safe, OnePager, NEW p \in Pagers, GetNextFrame(p) \/ TakeVictim(p) \/ CountNew(p)
  PROVE  RoomInv'
<1>1. UNCHANGED <<pte, dirty, NextBlock>>
  BY DEF GetNextFrame, TakeVictim, CountNew, memory
<1>2. CASE GetNextFrame(p)
  <2>1. \E j : Step(p, "select", "receive", j) \/ Step(p, "select", "victim", j)
    BY <1>2 DEF GetNextFrame, Answer
  <2> QED
    BY <1>1, <2>1, RoomCalm DEF Placing, TakingOut, PagerPc
<1>3. CASE TakeVictim(p)
  <2>1. \E j : Step(p, "victim", "update", j) \/ Step(p, "victim", "count", j)
    BY <1>3 DEF TakeVictim
  <2> QED
    BY <1>1, <2>1, RoomCalm DEF Placing, TakingOut, PagerPc
<1>4. CASE CountNew(p)
  <2>1. Step(p, "count", "update", job[p])
    BY <1>4 DEF CountNew
  <2> QED
    BY <1>1, <2>1, RoomCalm DEF Placing, TakingOut, PagerPc
<1> QED
  BY <1>2, <1>3, <1>4

\* The page that goes out was in the frame, and the frame is as dirty as it was.
LEMMA RoomUpdate ==
  ASSUME Safe, OnePager, PidsAreSlots, NEW p \in Pagers, UpdateTables(p)
  PROVE  RoomInv'
<1>0. /\ MemoryInv /\ StoredInv /\ job[p] \in Job
      /\ Pagers = {p} /\ ppc[p] = "update" /\ ppc'[p] = "access" /\ job' = job /\ halted = "no"
      /\ UNCHANGED <<upc, ProcPid, dirty, NextBlock>>
  BY DEF Safe, RoomInv, MemoryInv, Inv, TypeInv, TypeOK, OnePager, UpdateTables, Step,
         At, Running, memory
<1>1. Live' = Live
  BY <1>0 DEF Live
<1>2. ASSUME NEW u \in Live, NEW i \in Page, pte'[getProc(u)][i].frame # EMPTY,
             ~ Into(p, u, i)', dirty[pte'[getProc(u)][i].frame]
      PROVE  <<u, i>> \in Writable
  <2>1. ~ OutOf(p, u, i)'
    BY <1>0, <1>2, UpdatedEntries
  <2>2. pte'[getProc(u)][i] = pte[getProc(u)][i] /\ ~ Into(p, u, i)
    BY <1>0, <1>2, <2>1, UpdatedEntries
  <2> QED
    BY <1>0, <1>2, <2>2 DEF StoredInv
<1>3. job[p].outPid \in Live /\ MustWrite(job[p]) => <<job[p].outPid, job[p].outPage>> \in Writable
  <2> SUFFICES ASSUME job[p].outPid \in Live, MustWrite(job[p])
               PROVE  <<job[p].outPid, job[p].outPage>> \in Writable
    OBVIOUS
  <2>1. job[p].outPage \in Page /\ dirty[job[p].frame]
    BY <1>0 DEF MustWrite, Job
  <2>2. OutOf(p, job[p].outPid, job[p].outPage)'
    BY <1>0 DEF OutOf
  <2>3. /\ pte[getProc(job[p].outPid)][job[p].outPage].frame = job[p].frame
        /\ ~ Into(p, job[p].outPid, job[p].outPage)
    BY <1>0, <2>1, <2>2, UpdatedEntries
  <2>4. job[p].frame # EMPTY
    BY <1>0 DEF Job, Frame, EMPTY
  <2> QED
    BY <1>0, <2>1, <2>3, <2>4 DEF StoredInv
<1>4. StoredInv'
  BY <1>0, <1>1, <1>2, <1>3 DEF StoredInv, MustWrite
<1>5. SlotInv'
  BY <1>0, <1>1 DEF Safe, RoomInv, SlotInv
<1>6. ~ Doomed
  BY <1>0, NotDoomed
<1>7. CountInv'
  BY <1>0, <1>1, <1>6, UpdatedEntries, CountKeeps
<1> QED
  BY <1>4, <1>5, <1>7 DEF RoomInv

LEMMA RoomCheck ==
  ASSUME Safe, OnePager, NEW p \in Pagers, CheckAccess(p)
  PROVE  RoomInv'
<1> DEFINE j == [job[p] EXCEPT !.accessRef = ref[job[p].frame]]
<1>0. job[p] \in Job /\ StoredInv /\ ppc[p] = "access" /\ halted = "no"
  BY DEF Safe, RoomInv, MemoryInv, Inv, TypeInv, TypeOK, CheckAccess, Step, At, Running
<1>1. /\ j.pid = job[p].pid /\ j.page = job[p].page
      /\ j.outPid = job[p].outPid /\ j.outPage = job[p].outPage
  BY <1>0 DEF Job
<1>2. UNCHANGED <<pte, dirty, NextBlock>>
  BY DEF CheckAccess, memory
<1>3. ~ Doomed
  BY <1>0, NotDoomed
<1>4. "access" \in Placing /\ "block" \in Placing /\ "fill" \in Placing
  BY DEF Placing, TakingOut
<1>5. CASE MustWrite(job[p])
  <2>1. Step(p, "access", "block", j)
    BY <1>5 DEF CheckAccess
  <2>2. j.outPid \in Live => <<j.outPid, j.outPage>> \in Writable
    BY <1>0, <1>1, <1>5 DEF StoredInv
  <2> HIDE DEF j
  <2> QED
    BY <1>1, <1>2, <1>3, <1>4, <2>1, <2>2, RoomStep DEF PagerPc
<1>6. CASE ~ MustWrite(job[p])
  <2>1. Step(p, "access", "fill", j)
    BY <1>6 DEF CheckAccess
  <2> HIDE DEF j
  <2> QED
    BY <1>1, <1>2, <1>4, <2>1, RoomCalm DEF PagerPc
<1> QED
  BY <1>5, <1>6

LEMMA RoomFind ==
  ASSUME Safe, OnePager, RoomOnDisk, NEW p \in Pagers, FindBlock(p)
  PROVE  RoomInv'
<1>1. /\ ppc[p] = "block" /\ halted = "no" /\ DiskBlocks \in Int /\ NextBlock \in Nat
      /\ StoredInv
  BY GeometryAssumption
  DEF FindBlock, At, Running, DiskBlocks, Safe, RoomInv, MemoryInv, Inv, TypeInv, TypeOK
<1>2. ~ (OutEntry(job[p]).diskBlock = EMPTY /\ NextBlock = DiskBlocks)
  BY <1>1 DEF RoomOnDisk
<1>3. PICK to \in {"alloc", "mapout"} :
        Step(p, "block", to, job[p]) /\ (to = "alloc" => OutEntry(job[p]).diskBlock = EMPTY)
  BY <1>2 DEF FindBlock
<1>4. UNCHANGED <<pte, dirty, NextBlock>>
  BY DEF FindBlock, memory
<1>5. ~ Doomed
  BY <1>1, NotDoomed
<1>6. job[p].outPid \in Live => <<job[p].outPid, job[p].outPage>> \in Writable
  BY <1>1 DEF StoredInv
<1> QED
  BY <1>3, <1>4, <1>5, <1>6, RoomStep DEF Placing, TakingOut, PagerPc

\* The page that goes out gets a block of its own, and is from then on one of those that have.
LEMMA RoomAllocate ==
  ASSUME Safe, OnePager, PidsAreSlots, NEW p \in Pagers, AllocateBlock(p)
  PROVE  RoomInv'
<1> DEFINE x == job[p].outPid
           k == job[p].outPage
<1>0. /\ MemoryInv /\ StoredInv /\ CountInv
      /\ Pagers = {p} /\ ppc[p] = "alloc" /\ ppc'[p] = "mapout" /\ job' = job /\ halted = "no"
      /\ UNCHANGED <<upc, ProcPid, dirty>> /\ NextBlock' = NextBlock + 1
      /\ NextBlock \in Nat
  BY DEF Safe, RoomInv, MemoryInv, Inv, TypeInv, TypeOK, OnePager, AllocateBlock, Step,
         At, Running, memory, BlockAfter
<1>1. Live' = Live
  BY <1>0 DEF Live
<1>2. k \in Page /\ x \in Users /\ (x \in Live \/ upc[x] = "dead") /\ getProc(x) = x
  BY <1>0, OutPage, PidSlot
<1>3. ASSUME NEW u \in Live, NEW i \in Page
      PROVE  \/ ~ (u = x /\ i = k) /\ pte'[getProc(u)][i] = pte[getProc(u)][i]
             \/ /\ u = x /\ i = k
                /\ pte'[getProc(u)][i].frame = EMPTY
                /\ pte'[getProc(u)][i].diskBlock = NextBlock
  <2>1. OutOf(p, u, i) <=> k = i /\ x = u
    BY <1>0 DEF OutOf
  <2> QED
    BY <1>0, <2>1, AllocatedEntry
<1>4. StoredInv'
  <2>1. \A u, i : Into(p, u, i)' <=> Into(p, u, i)
    BY <1>0 DEF Into, PagerPc
  <2>2. ASSUME NEW u \in Live, NEW i \in Page, pte'[getProc(u)][i].frame # EMPTY,
               ~ Into(p, u, i), dirty[pte'[getProc(u)][i].frame]
        PROVE  <<u, i>> \in Writable
    <3>1. pte'[getProc(u)][i] = pte[getProc(u)][i]
      BY <1>3, <2>2
    <3> QED
      BY <1>0, <2>2, <3>1 DEF StoredInv
  <2> QED
    BY <1>0, <1>1, <2>1, <2>2 DEF StoredInv
<1>5. SlotInv'
  BY <1>0, <1>1 DEF Safe, RoomInv, SlotInv
<1>6. NextBlock <= Cardinality(Given)
  BY <1>0, NotDoomed DEF CountInv
<1>7. PICK G : G = Given'
  OBVIOUS
<1>8. Given \subseteq G /\ G \subseteq Writable
  <2>1. ASSUME NEW u \in Live, NEW i \in Page, pte[getProc(u)][i].diskBlock # EMPTY
        PROVE  pte'[getProc(u)][i].diskBlock # EMPTY
    BY <1>0, <1>3, <2>1 DEF EMPTY
  <2> QED
    BY <1>0, <1>1, <1>7, <2>1 DEF Given
<1>9. /\ IsFiniteSet(G) /\ Cardinality(G) \in Nat
      /\ IsFiniteSet(Given) /\ Cardinality(Given) \in Nat /\ Cardinality(Given) <= Cardinality(G)
  BY <1>8, FS_Subset, FS_CardinalityType DEF Safe
<1>10. Doomed' \/ Cardinality(Given) + 1 <= Cardinality(G)
  <2>1. CASE upc[x] = "dead"
    BY <1>0, <2>1 DEF Doomed
  <2>2. CASE x \in Live
    <3>1. <<x, k>> \in Writable \cap (Users \X Page)
      BY <1>0, <1>2, <2>2 DEF StoredInv
    <3>2. <<x, k>> \notin Given
      <4>1. pte[getProc(x)][k].diskBlock = EMPTY /\ upc[x] # "dead"
        BY <1>0, <2>2 DEF StoredInv, OutEntry, Live
      <4> QED
        BY <4>1 DEF Given
    <3>3. <<x, k>> \in G
      <4>1. pte'[getProc(x)][k].diskBlock # EMPTY
        BY <1>0, <1>2, <1>3, <2>2 DEF EMPTY
      <4> QED
        BY <1>1, <1>7, <2>2, <3>1, <4>1 DEF Given
    <3>4. Given \cup {<<x, k>>} \in SUBSET G
      BY <1>8, <3>3
    <3>5. Cardinality(Given \cup {<<x, k>>}) = Cardinality(Given) + 1
      BY <1>9, <3>2, FS_AddElement
    <3> QED
      BY <1>9, <3>4, <3>5, FS_Subset
  <2> QED
    BY <1>2, <2>1, <2>2
<1>11. CountInv'
  <2>1. CountInv' <=> /\ NextBlock' <= Cardinality(G) + 1
                      /\ Doomed' \/ NextBlock' <= Cardinality(G)
    BY <1>7 DEF CountInv
  <2> QED
    BY <1>0, <1>6, <1>9, <1>10, <2>1
<1> QED
  BY <1>4, <1>5, <1>11 DEF RoomInv

LEMMA RoomMapOut ==
  ASSUME Safe, OnePager, NEW p \in Pagers, MapOut(p)
  PROVE  RoomInv'
<1>1. CASE Halt("mappings")
  BY <1>1, RoomHalt
<1>2. CASE ~ Halt("mappings")
  <2>1. Step(p, "mapout", "copyout", job[p]) /\ UNCHANGED <<pte, dirty, NextBlock>>
    BY <1>2 DEF MapOut, MmuMap
  <2>2. /\ Pagers = {p} /\ ppc[p] = "mapout" /\ ppc'[p] = "copyout" /\ job' = job
        /\ upc' = upc /\ halted = "no"
    BY <2>1 DEF Safe, MemoryInv, Inv, TypeInv, TypeOK, OnePager, Step, At, Running
  <2>3. Doomed => Doomed'
    BY <2>2 DEF Doomed
  <2> QED
    BY <2>1, <2>3, RoomStep DEF Placing, TakingOut, PagerPc
<1> QED
  BY <1>1, <1>2

\* The slot of a process that has quit is empty.
LEMMA RoomCopyOut ==
  ASSUME Safe, OnePager, PidsAreSlots, NEW p \in Pagers, CopyOut(p)
  PROVE  RoomInv'
<1> DEFINE f == mmu[job[p].outPage]
           o == ProcPid[getProc(job[p].outPid)]
           j == [job[p] EXCEPT !.buffer = ram[f], !.owner = o]
<1>1. CASE Halt("mappings")
  BY <1>1, RoomHalt
<1>2. CASE ~ Halt("mappings")
  <2>1. Step(p, "copyout", "pageout", j) /\ UNCHANGED <<pte, dirty, NextBlock>>
    BY <1>2 DEF CopyOut
  <2>2. /\ Pagers = {p} /\ ppc[p] = "copyout" /\ ppc'[p] = "pageout" /\ job'[p] = j
        /\ job[p] \in Job /\ upc' = upc /\ halted = "no" /\ MemoryInv /\ SlotInv
    BY <2>1 DEF Safe, RoomInv, MemoryInv, Inv, TypeInv, TypeOK, OnePager, Step, At, Running
  <2>3. j.pid = job[p].pid /\ j.page = job[p].page /\ j.owner = o
    BY <2>2 DEF Job
  <2> HIDE DEF j
  <2>4. upc[job[p].outPid] = "dead" => o = EMPTY
    <3>1. job[p].outPid \in Slot /\ getProc(job[p].outPid) = job[p].outPid
      BY <2>2, OutPage, PidSlot
    <3>2. o \in {EMPTY, job[p].outPid} /\ (o # EMPTY => o \in Live)
      BY <2>2, <3>1 DEF SlotInv
    <3> QED
      BY <3>2 DEF Live
  <2>5. Doomed => Doomed'
    BY <2>2, <2>3, <2>4 DEF Doomed
  <2> QED
    BY <2>1, <2>3, <2>5, RoomStep DEF Placing, TakingOut, PagerPc
<1> QED
  BY <1>1, <1>2

LEMMA RoomPageOut ==
  ASSUME Safe, OnePager, NEW p \in Pagers, PageOut(p)
  PROVE  RoomInv'
<1> DEFINE b == pte[getProc(job[p].owner)][job[p].outPage].diskBlock
           j == [job[p] EXCEPT !.block = b, !.ahead = Ahead(b)]
<1>1. CASE Halt("process") \/ Halt("transfer")
  BY <1>1, RoomHalt
<1>2. CASE ~ (Halt("process") \/ Halt("transfer"))
  <2>1. /\ Step(p, "pageout", "writing", j) /\ UNCHANGED <<pte, dirty, NextBlock>>
        /\ job[p].owner # EMPTY
    BY <1>2 DEF PageOut, Transfer, Refuse, memory
  <2>2. job[p] \in Job /\ ppc[p] = "pageout" /\ halted = "no"
    BY <2>1 DEF Safe, MemoryInv, Inv, TypeInv, TypeOK, Step, At, Running
  <2>3. j.pid = job[p].pid /\ j.page = job[p].page
    BY <2>2 DEF Job
  <2>4. ~ Doomed
    BY <2>1, <2>2, NotDoomed
  <2> HIDE DEF j
  <2> QED
    BY <2>1, <2>3, <2>4, RoomStep DEF Placing, TakingOut, PagerPc
<1> QED
  BY <1>1, <1>2

LEMMA RoomIn ==
  ASSUME Safe, OnePager, NEW p \in Pagers, Fill(p) \/ PageIn(p) \/ MapIn(p)
  PROVE  RoomInv'
<1>0. job[p] \in Job
  BY DEF Safe, MemoryInv, Inv, TypeInv, TypeOK
<1>1. CASE Fill(p)
  <2> DEFINE j == [job[p] EXCEPT !.buffer = Zero]
  <2>1. /\ Step(p, "fill", "pagein", j) \/ Step(p, "fill", "mapin", j)
        /\ UNCHANGED <<pte, dirty, NextBlock>>
    BY <1>1 DEF Fill, memory
  <2>2. j.pid = job[p].pid /\ j.page = job[p].page
    BY <1>0 DEF Job
  <2> HIDE DEF j
  <2> QED
    BY <2>1, <2>2, RoomCalm DEF Placing, TakingOut, PagerPc
<1>2. CASE PageIn(p)
  <2> DEFINE b == InEntry(job[p]).diskBlock
             j == [job[p] EXCEPT !.block = b, !.ahead = Ahead(b)]
  <2>1. CASE Halt("transfer")
    BY <2>1, RoomHalt
  <2>2. CASE ~ Halt("transfer")
    <3>1. Step(p, "pagein", "reading", j) /\ UNCHANGED <<pte, dirty, NextBlock>>
      BY <1>2, <2>2 DEF PageIn, Transfer, Refuse, memory
    <3>2. j.pid = job[p].pid /\ j.page = job[p].page
      BY <1>0 DEF Job
    <3> HIDE DEF j
    <3> QED
      BY <3>1, <3>2, RoomCalm DEF Placing, TakingOut, PagerPc
  <2> QED
    BY <2>1, <2>2
<1>3. CASE MapIn(p)
  <2>1. CASE Halt("mappings")
    BY <2>1, RoomHalt
  <2>2. CASE ~ Halt("mappings")
    <3>1. Step(p, "mapin", "copyin", job[p]) /\ UNCHANGED <<pte, dirty, NextBlock>>
      BY <1>3, <2>2 DEF MapIn, MmuMap
    <3> QED
      BY <3>1, RoomCalm DEF Placing, TakingOut, PagerPc
  <2> QED
    BY <2>1, <2>2
<1> QED
  BY <1>1, <1>2, <1>3

LEMMA RoomCopyIn ==
  ASSUME Safe, OnePager, NEW p \in Pagers, CopyIn(p)
  PROVE  RoomInv'
<1> DEFINE f == mmu[job[p].page]
<1>0. /\ Inv /\ FrameInv /\ StoredInv /\ job[p] \in Job
      /\ Pagers = {p} /\ ppc[p] = "copyin" /\ cur = p /\ p \notin Users /\ halted = "no"
  BY ProcessAssumption
  DEF Safe, RoomInv, MemoryInv, Inv, TypeInv, TypeOK, OnePager, CopyIn, Answer, Step, At,
      Running
<1>1. CASE Halt("mappings")
  BY <1>1, RoomHalt
<1>2. CASE ~ Halt("mappings")
  <2>1. /\ Step(p, "copyin", "receive", NoJob) /\ f # EMPTY
        /\ dirty' = [[dirty EXCEPT ![f] = TRUE] EXCEPT ![job[p].frame] = FALSE]
        /\ UNCHANGED <<pte, NextBlock>>
    BY <1>2 DEF CopyIn, Answer
  <2>2. f = job[p].frame /\ f \in Frame
    BY <1>0 DEF Inv, TablesInv, MmuInv, OwnMap, Job
  <2>3. dirty'[f] = FALSE /\ \A g \in Frame \ {f} : dirty'[g] = dirty[g]
    <3>1. /\ dirty' = [[dirty EXCEPT ![f] = TRUE] EXCEPT ![f] = FALSE]
            /\ dirty \in [Frame -> BOOLEAN]
      BY <1>0, <2>1, <2>2 DEF Inv, TypeInv, TypeOK
    <3> HIDE DEF f
    <3> QED
      BY <2>2, <3>1
  <2>4. ppc'[p] = "receive" /\ UNCHANGED <<upc, ProcPid>>
    BY <1>0, <2>1 DEF Step, Inv, TypeInv, TypeOK
  <2>5. Live' = Live
    BY <2>4 DEF Live
  <2>6. ASSUME NEW u \in Live, NEW i \in Page, pte[getProc(u)][i].frame # EMPTY,
               dirty'[pte[getProc(u)][i].frame]
        PROVE  <<u, i>> \in Writable
    <3>1. pte[getProc(u)][i].frame \in Frame \ {f}
      BY <1>0, <2>3, <2>6, LiveEntry
    <3>2. ~ Into(p, u, i)
      <4> SUFFICES ASSUME Into(p, u, i) PROVE FALSE
        OBVIOUS
      <4>1. pte[getProc(u)][i] = InEntry(job[p])
        BY DEF Into, InEntry
      <4> QED
        BY <1>0, <2>2, <3>1, <4>1, PlacedEntry DEF Placing
    <3> QED
      BY <1>0, <2>3, <2>6, <3>1, <3>2 DEF StoredInv
  <2>7. StoredInv'
    BY <1>0, <2>1, <2>4, <2>5, <2>6 DEF StoredInv
  <2>8. SlotInv'
    BY <2>4, <2>5 DEF Safe, RoomInv, SlotInv
  <2>9. ~ Doomed
    BY <1>0, NotDoomed
  <2>10. CountInv'
    BY <2>1, <2>4, <2>5, <2>9, CountKeeps
  <2> QED
    BY <2>7, <2>8, <2>10 DEF RoomInv
<1> QED
  BY <1>1, <1>2

LEMMA RoomDone ==
  ASSUME Safe, OnePager, NEW p \in Pagers, DiskDone(p)
  PROVE  RoomInv'
<1>1. PICK from, to, content :
        /\ Transferred(p, from, to, content)
        /\ from \in {"writing", "reading"} /\ to \in {"fill", "mapin"}
  BY DEF DiskDone, WriteDone, ReadDone
<1>2. Inv /\ halted = "no" /\ StoredInv
  BY <1>1 DEF Safe, RoomInv, MemoryInv, Transferred, Running
<1>3. /\ Pagers = {p} /\ ppc[p] = from /\ ppc'[p] = to /\ Live' = Live
      /\ UNCHANGED <<ProcPid, pte, dirty>>
      /\ \A u, i : (Into(p, u, i)' <=> to \in Placing /\ job[p].page = i /\ job[p].pid = u)
  BY <1>1, <1>2, TransferLeaves
<1>4. UNCHANGED <<upc, NextBlock>>
  BY <1>1 DEF Transferred
<1>5. \A u, i : Into(p, u, i)' <=> Into(p, u, i)
  BY <1>1, <1>3 DEF Into, Placing, PagerPc
<1>6. StoredInv'
  BY <1>1, <1>2, <1>3, <1>5 DEF StoredInv
<1>7. SlotInv'
  BY <1>3 DEF Safe, RoomInv, SlotInv
<1>8. ~ Doomed
  BY <1>1, <1>2, <1>3, NotDoomed
<1>9. CountInv'
  BY <1>3, <1>4, <1>8, CountKeeps
<1> QED
  BY <1>6, <1>7, <1>9 DEF RoomInv

\* A store dirties the frame of a page that may be stored to.
LEMMA RoomStore ==
  ASSUME Safe, OnePager, UsersBelow, NEW p \in Pagers,
         NEW u \in Users, NEW i \in Page, NEW v \in Values, Store(u, i, v)
  PROVE  RoomInv'
<1> DEFINE f == mmu[i]
<1>0. /\ Inv /\ StoredInv /\ UserStep(u, "user", "user") /\ f # EMPTY
      /\ dirty' = [dirty EXCEPT ![f] = TRUE] /\ <<u, i>> \in Writable
  BY DEF Safe, RoomInv, MemoryInv, Store
<1>1. /\ Pagers = {p} /\ cur = u /\ Schedulable(u) /\ upc' = upc /\ upc[u] = "user"
      /\ UNCHANGED <<halted, ProcPid, pte, NextBlock, ppc, job>>
  BY <1>0 DEF OnePager, UserStep, Running, Inv, TypeInv, TypeOK
<1>2. Live' = Live /\ u \in Live
  BY <1>1 DEF Live
<1>3. f = pte[getProc(u)][i].frame
  BY <1>0, <1>1 DEF Inv, TablesInv, MmuInv
<1>4. f \in Frame
  BY <1>0, <1>2, <1>3, LiveEntry
<1>5. \A g \in Frame \ {f} : dirty'[g] = dirty[g]
  BY <1>0, <1>4 DEF Inv, TypeInv, TypeOK
<1>6. ppc[p] \notin {"access", "block", "alloc", "mapout", "copyout"}
  BY <1>0, <1>1, UserRuns
<1>7. ASSUME NEW w \in Live, NEW k \in Page, pte[getProc(w)][k].frame # EMPTY,
             ~ Into(p, w, k), dirty'[pte[getProc(w)][k].frame]
      PROVE  <<w, k>> \in Writable
  <2>1. CASE w = u /\ k = i
    BY <1>0, <2>1
  <2>2. CASE ~ (w = u /\ k = i)
    <3>1. pte[getProc(w)][k].frame # f
      BY <1>0, <1>2, <1>3, <1>7, <2>2, OtherFrame
    <3>2. pte[getProc(w)][k].frame \in Frame \ {f}
      BY <1>0, <1>7, <3>1, LiveEntry
    <3> QED
      BY <1>0, <1>1, <1>5, <1>7, <3>2 DEF StoredInv
  <2> QED
    BY <2>1, <2>2
<1>8. StoredInv'
  BY <1>1, <1>2, <1>6, <1>7 DEF StoredInv, Into
<1>9. SlotInv'
  BY <1>1, <1>2 DEF Safe, RoomInv, SlotInv
<1>10. Doomed => Doomed'
  BY <1>1 DEF Doomed
<1>11. CountInv'
  BY <1>1, <1>2, <1>10, CountKeeps
<1> QED
  BY <1>8, <1>9, <1>11 DEF RoomInv

LEMMA RoomUser ==
  ASSUME Safe, OnePager, UsersBelow, NEW p \in Pagers, NEW u \in Users, Program(u) \/ Handler(u)
  PROVE  RoomInv'
<1>1. ASSUME NEW i \in Page, NEW v \in Values, Store(u, i, v)
      PROVE  RoomInv'
  BY <1>1, RoomStore
<1>2. CASE \A i \in Page, v \in Values : ~ Store(u, i, v)
  <2>1. /\ Live' = Live /\ \A v \in Users : upc'[v] = "dead" <=> upc[v] = "dead"
        /\ UNCHANGED <<halted, ProcPid, pte, NextBlock, ppc, job>>
    BY UserLeaves DEF Safe, MemoryInv, Inv
  <2>2. dirty' = dirty
    BY <1>2, UserCopies
  <2> QED
    BY <2>1, <2>2, RoomQuiet
<1> QED
  BY <1>1, <1>2

LEMMA RoomFork ==
  ASSUME Safe, OnePager, PidsAreSlots, NEW p \in Pagers, NEW u \in Users, p1_fork(u)
  PROVE  RoomInv'
<1>0. /\ MemoryInv /\ StoredInv /\ SlotInv /\ Inv /\ getProc(u) = u /\ u \in Slot
  BY PidSlot DEF Safe, RoomInv, MemoryInv
<1>1. /\ Pagers = {p} /\ upc[u] = "unborn" /\ upc' = [upc EXCEPT ![u] = "user"]
      /\ pte' = [pte EXCEPT ![u] = EmptyTable] /\ ProcPid' = [ProcPid EXCEPT ![u] = u]
      /\ UNCHANGED <<ppc, job, dirty, halted, NextBlock>>
  BY <1>0 DEF OnePager, p1_fork, memory
<1>2. u \notin Live /\ Live' = Live \cup {u}
  BY <1>0, <1>1 DEF Live, Inv, TypeInv, TypeOK
<1>3. \A w \in Live : w # u /\ getProc(w) \in Slot \ {u} /\ pte'[getProc(w)] = pte[getProc(w)]
  <2>1. \A w \in Live : w # u /\ getProc(w) \in Slot \ {u}
    BY <1>2, PidSlot DEF Live
  <2> QED
    BY <1>0, <1>1, <2>1 DEF Inv, TypeInv, TypeOK
<1>4. \A i \in Page : pte'[getProc(u)][i].frame = EMPTY
  BY <1>0, <1>1 DEF EmptyTable, UnusedPTE, Inv, TypeInv, TypeOK
<1>5. ppc[p] \in {"block", "alloc", "mapout", "copyout", "pageout"} =>
            job[p].outPid \in Users \ {u} /\ getProc(job[p].outPid) # u
  <2>1. ppc[p] \in {"block", "alloc", "mapout", "copyout", "pageout"} =>
            job[p].outPid \in Users \ {u}
    BY <1>0, <1>1, <1>2, OutPage
  <2> QED
    BY <2>1, PidSlot
<1>6. ppc[p] = "access" /\ MustWrite(job[p]) => job[p].outPid \in Users \ {u}
  BY <1>0, <1>1 DEF MustWrite, MemoryInv, FrameInv, VictimOwnerInv, TakingOut
<1>7. StoredInv'
  <2>1. ASSUME NEW w \in Live', NEW i \in Page, pte'[getProc(w)][i].frame # EMPTY,
               ~ Into(p, w, i), dirty[pte'[getProc(w)][i].frame]
        PROVE  <<w, i>> \in Writable
    <3>1. w \in Live
      BY <1>2, <1>4, <2>1
    <3> QED
      BY <1>0, <1>1, <1>3, <2>1, <3>1 DEF StoredInv
  <2>2. /\ job[p].outPid \in Live'
        /\ (ppc[p] = "access" /\ MustWrite(job[p])) \/ ppc[p] \in {"block", "alloc"}
        => job[p].outPid \in Live
    BY <1>2, <1>5, <1>6
  <2>3. ppc[p] = "alloc" => OutEntry(job[p])' = OutEntry(job[p])
    <3>1. \A s \in Slot \ {u} : pte'[s] = pte[s]
      BY <1>0, <1>1 DEF Inv, TypeInv, TypeOK
    <3> QED
      BY <1>1, <1>5, <3>1, UserSlot DEF OutEntry
  <2> QED
    BY <1>0, <1>1, <2>1, <2>2, <2>3 DEF StoredInv, Into, MustWrite
<1>8. SlotInv'
  BY <1>0, <1>1, <1>2 DEF SlotInv, Inv, TypeInv, TypeOK
<1>9. /\ \A w \in Users : upc[w] = "dead" => upc'[w] = "dead"
      /\ Doomed => Doomed'
  <2>1. \A w \in Users : upc[w] = "dead" => upc'[w] = "dead"
    BY <1>0, <1>1 DEF Inv, TypeInv, TypeOK
  <2> QED
    BY <1>1, <1>5, <2>1 DEF Doomed
<1>10. CountInv'
  BY <1>1, <1>2, <1>3, <1>9, CountKeeps
<1> QED
  BY <1>7, <1>8, <1>10 DEF RoomInv

\* The pages of a process that quits count as having a block from then on.
LEMMA RoomQuit ==
  ASSUME Safe, OnePager, PidsAreSlots, NEW p \in Pagers, NEW u \in Users, p1_quit(u)
  PROVE  RoomInv'
<1>0. /\ MemoryInv /\ StoredInv /\ SlotInv /\ Inv /\ getProc(u) = u /\ u \in Slot
  BY PidSlot DEF Safe, RoomInv, MemoryInv
<1>1. CanUnload(u) /\ upc[u] \in {"exit", "user"}
  BY <1>0, UserUnloads DEF p1_quit, Running
<1>2. /\ Pagers = {p} /\ upc' = [upc EXCEPT ![u] = "dead"]
      /\ pte' = [pte EXCEPT ![u] = EmptyTable] /\ ProcPid' = [ProcPid EXCEPT ![u] = EMPTY]
      /\ UNCHANGED <<ppc, job, dirty, halted, NextBlock>>
  BY <1>0, <1>1 DEF OnePager, p1_quit
<1>3. u \in Live /\ Live' = Live \ {u}
  BY <1>0, <1>1, <1>2 DEF Live, Inv, TypeInv, TypeOK
<1>4. \A w \in Live' : w \in Live /\ pte'[getProc(w)] = pte[getProc(w)]
  <2>1. \A w \in Live' : w \in Live /\ getProc(w) = w /\ w \in Slot /\ w # u
    BY <1>3, PidSlot DEF Live
  <2> QED
    BY <1>0, <1>2, <2>1 DEF Inv, TypeInv, TypeOK
<1>5. StoredInv'
  <2>1. ASSUME NEW w \in Live', NEW i \in Page, pte'[getProc(w)][i].frame # EMPTY,
               ~ Into(p, w, i), dirty[pte'[getProc(w)][i].frame]
        PROVE  <<w, i>> \in Writable
    BY <1>0, <1>2, <1>4, <2>1 DEF StoredInv
  <2>2. ppc[p] = "alloc" => OutEntry(job[p])'.diskBlock = EMPTY
    <3> SUFFICES ASSUME ppc[p] = "alloc"
                 PROVE  pte'[getProc(job[p].outPid)][job[p].outPage].diskBlock = EMPTY
      BY <1>2 DEF OutEntry
    <3>1. job[p].outPage \in Page /\ getProc(job[p].outPid) \in Slot
      BY <1>0, OutPage
    <3>2. \A i \in Page : EmptyTable[i].diskBlock = EMPTY
      BY DEF EmptyTable, UnusedPTE
    <3>3. pte[getProc(job[p].outPid)][job[p].outPage].diskBlock = EMPTY
      BY <1>0 DEF StoredInv, OutEntry
    <3> QED
      BY <1>0, <1>2, <3>1, <3>2, <3>3 DEF Inv, TypeInv, TypeOK
  <2> QED
    BY <1>0, <1>2, <1>3, <2>1, <2>2 DEF StoredInv, Into, MustWrite
<1>6. SlotInv'
  BY <1>0, <1>2, <1>3 DEF SlotInv, Inv, TypeInv, TypeOK
<1>7. \A w \in Users : upc'[w] = "dead" <=> upc[w] = "dead" \/ w = u
  BY <1>0, <1>2 DEF Inv, TypeInv, TypeOK
<1>8. Doomed => Doomed'
  <2>1. ppc[p] \in {"mapout", "copyout"} => job[p].outPid \in Users
    BY <1>0, OutPage
  <2> QED
    BY <1>2, <1>7, <2>1 DEF Doomed
<1>9. CountInv'
  BY <1>2, <1>3, <1>4, <1>7, <1>8, CountKeeps
<1> QED
  BY <1>5, <1>6, <1>9 DEF RoomInv

LEMMA RoomPager ==
  ASSUME Safe, OnePager, PidsAreSlots, RoomOnDisk, NEW p \in Pagers, Pager(p)
  PROVE  RoomInv'
<1>1. CASE \/ BlockOnMutex(p, "FramesMutex", {"select"})
           \/ BlockOnMutex(p, "vmStatsMutex", {"count", "pageout", "pagein"})
  <2>1. UNCHANGED <<ProcPid, pte, dirty, ppc, job, NextBlock, upc, halted>>
    BY <1>1 DEF BlockOnMutex, memory
  <2>2. Live' = Live
    BY <2>1 DEF Live
  <2> QED
    BY <2>1, <2>2, RoomQuiet
<1>2. CASE Receive(p) \/ GetNextFrame(p) \/ TakeVictim(p) \/ CountNew(p) \/ UpdateTables(p)
  BY <1>2, RoomReceive, RoomChoose, RoomUpdate
<1>3. CASE CheckAccess(p) \/ FindBlock(p) \/ AllocateBlock(p) \/ MapOut(p) \/ CopyOut(p)
  BY <1>3, RoomCheck, RoomFind, RoomAllocate, RoomMapOut, RoomCopyOut
<1>4. CASE PageOut(p) \/ Fill(p) \/ PageIn(p) \/ MapIn(p) \/ CopyIn(p)
  BY <1>4, RoomPageOut, RoomIn, RoomCopyIn
<1> QED
  BY <1>1, <1>2, <1>3, <1>4 DEF Pager

LEMMA RoomInit ==
  ASSUME IsFiniteSet(Writable)
  PROVE  Init => RoomInv
<1> SUFFICES ASSUME Init PROVE RoomInv
  OBVIOUS
<1>1. Live = {} /\ NextBlock = 0
  BY DEF Init, Live
<1>2. StoredInv
  BY <1>1 DEF Init, StoredInv
<1>3. SlotInv
  BY DEF Init, SlotInv
<1>4. CountInv
  BY <1>1, GivenIsFinite DEF CountInv
<1> QED
  BY <1>2, <1>3, <1>4 DEF RoomInv

LEMMA RoomNext ==
  ASSUME Safe, OnePager, UsersBelow, PidsAreSlots, RoomOnDisk, [Next]_vars
  PROVE  RoomInv'
<1>0. PICK p : p \in Pagers /\ Pagers = {p}
  BY DEF OnePager
<1>1. CASE UNCHANGED vars
  <2>1. UNCHANGED <<ProcPid, pte, dirty, ppc, job, NextBlock, upc, halted>>
    BY <1>1 DEF vars, memory
  <2>2. Live' = Live
    BY <2>1 DEF Live
  <2> QED
    BY <2>1, <2>2, RoomQuiet
<1>2. ASSUME NEW x \in Process, p1_switch(x) PROVE RoomInv'
  <2>1. UNCHANGED <<ProcPid, pte, dirty, ppc, job, NextBlock, upc>> /\ halted = "no"
    BY <1>2 DEF p1_switch, Halt, memory
  <2>2. Live' = Live
    BY <2>1 DEF Live
  <2> QED
    BY <2>1, <2>2, RoomQuiet
<1>3. ASSUME NEW u \in Users, p1_fork(u) \/ p1_quit(u) PROVE RoomInv'
  BY <1>0, <1>3, RoomFork, RoomQuit
<1>4. ASSUME NEW u \in Users, Program(u) \/ Handler(u) PROVE RoomInv'
  BY <1>0, <1>4, RoomUser
<1>5. ASSUME NEW q \in Pagers, Pager(q) PROVE RoomInv'
  BY <1>0, <1>5, RoomPager
<1>6. ASSUME NEW q \in Pagers, DiskDone(q) PROVE RoomInv'
  BY <1>0, <1>6, RoomDone
<1> QED
  BY <1>1, <1>2, <1>3, <1>4, <1>5, <1>6 DEF Next

\* The swap disk has a block for every page that is ever stored to, and one more.  The one
\* is for a page whose process quits when its frame has been chosen already: the entry that
\* named its block is gone, and it is given another.
DiskIsLarge == IsFiniteSet(Writable) /\ Cardinality(Writable) < DiskBlocks

LEMMA RoomSuffices ==
  ASSUME MemoryInv, RoomInv, OnePager, DiskIsLarge
  PROVE  RoomOnDisk
<1> SUFFICES ASSUME halted = "no", NEW p \in Pagers, ppc[p] = "block" PROVE NextBlock < DiskBlocks
  BY DEF RoomOnDisk
<1>1. NextBlock <= Cardinality(Given)
  BY NotDoomed DEF RoomInv, CountInv
<1>2. /\ Cardinality(Given) \in Nat /\ Cardinality(Given) <= Cardinality(Writable)
      /\ Cardinality(Writable) \in Nat
  BY GivenIsFinite, FS_CardinalityType DEF DiskIsLarge
<1>3. NextBlock \in Nat /\ DiskBlocks \in Int
  BY GeometryAssumption DEF MemoryInv, Inv, TypeInv, TypeOK, DiskBlocks
<1> QED
  BY <1>1, <1>2, <1>3 DEF DiskIsLarge

\* On a disk that large, of any geometry and wherever a transfer puts a page, no page-out ever
\* finds the disk full (phase5.c:517-530): a block is given once to each page that is stored to,
\* and when a process quits on the way of its page to the disk the one more it takes is the
\* last, since the pager then stops the machine.
THEOREM LargeDiskHasRoom ==
  ASSUME OnePager, UsersBelow, PidsAreSlots, DiskIsLarge
  PROVE  Spec => []RoomOnDisk
<1>1. Init => RoomInv
  BY RoomInit DEF DiskIsLarge
<1>2. MemoryInv /\ RoomInv => RoomOnDisk
  BY RoomSuffices
<1>3. MemoryInv /\ RoomInv /\ [Next]_vars => RoomInv'
  BY <1>2, RoomNext DEF Safe, DiskIsLarge
<1> QED
  BY <1>1, <1>2, <1>3, MemoryAlways, PTL DEF Spec

-----------------------------------------------------------------------------
(* With a frame for every page of every process nothing is ever replaced.    *)

\* No two pages ever need the same frame.
FramesForAll == IsFiniteSet(Users) /\ Cardinality(Users \X Page) <= NumFrames

\* No pager takes a frame that holds a page.
FreshInv ==
    \A p \in Pagers :
        /\ ppc[p] = "victim" => FrameTable[job[p].frame].page = EMPTY
        /\ ppc[p] \in {"count", "update"} \cup TakingOut => job[p].outPage = EMPTY

\* The pages in frames are pages of the processes, each in one frame, and the page of the
\* fault is not among them: there are fewer than frames.
LEMMA FrameFree ==
  ASSUME MemoryInv, OnePager, FramesForAll, NEW p \in Pagers, ppc[p] = "select"
  PROVE  FreeFrames(FrameTable) # {}
<1> SUFFICES ASSUME FreeFrames(FrameTable) = {} PROVE FALSE
  OBVIOUS
<1>0. Inv /\ FrameInv
  BY DEF MemoryInv
<1> DEFINE all == Users \X Page
           x == <<job[p].pid, job[p].page>>
           g == [f \in Frame |-> <<FrameTable[f].pid, FrameTable[f].page>>]
<1>1. \A f \in Frame : FrameTable[f].page # EMPTY
  BY DEF FreeFrames
<1>2. \A f \in Frame : /\ g[f] \in all \ {x}
                       /\ pte[getProc(g[f][1])][g[f][2]].frame = f
  <2> TAKE f \in Frame
  <2>1. /\ FrameTable[f].page \in Page /\ FrameTable[f].pid \in Users
        /\ pte[getProc(FrameTable[f].pid)][FrameTable[f].page].frame = f
    BY <1>0, <1>1, FrameOwner
  <2>2. pte[getProc(job[p].pid)][job[p].page].frame = EMPTY
    BY <1>0, JobHasNoFrame DEF Placing, TakingOut
  <2>3. f # EMPTY
    BY DEF Frame, EMPTY
  <2> QED
    BY <2>1, <2>2, <2>3
<1>3. x \in all
  BY <1>0 DEF Inv, TypeInv, TypeOK, AtWork, Job
<1>4. IsFiniteSet(Page)
  BY ProcessAssumption, FS_Interval DEF Page
<1>5. IsFiniteSet(all) /\ Cardinality(all) \in Nat /\ Cardinality(all) <= NumFrames
  BY <1>4, FS_Product, FS_CardinalityType DEF FramesForAll
<1>6. DOMAIN g = Frame
  OBVIOUS
<1> HIDE DEF all, x, g
<1>7. IsFiniteSet(all \ {x}) /\ Cardinality(all \ {x}) = Cardinality(all) - 1
  BY <1>3, <1>5, FS_RemoveElement
<1>8. g \in Injection(Frame, all \ {x})
  <2>1. \A a, b \in Frame : g[a] = g[b] => a = b
    BY <1>2
  <2>2. g \in [Frame -> all \ {x}]
    BY <1>2, <1>6 DEF g
  <2> QED
    BY <2>1, <2>2 DEF Injection, IsInjective
<1>9. Cardinality(Frame) <= Cardinality(all \ {x})
  BY <1>7, <1>8, FS_Injection
<1>10. Cardinality(Frame) = NumFrames
  BY NumFramesAssumption, FS_Interval DEF Frame
<1> QED
  BY <1>5, <1>7, <1>9, <1>10, NumFramesAssumption

LEMMA FreshSame ==
  ASSUME Inv, FreshInv, UNCHANGED <<ppc, job>>,
         \A f \in Frame : FrameTable'[f].page \in {EMPTY, FrameTable[f].page}
  PROVE  FreshInv'
BY DEF Inv, TypeInv, TypeOK, Job, FreshInv

\* A step of the pager: the frame it has taken and the page it takes out.
LEMMA FreshStep ==
  ASSUME Inv, OnePager, NEW p \in Pagers, NEW from, NEW to, NEW j, Step(p, from, to, j),
         to = "victim" => FrameTable'[j.frame].page = EMPTY,
         to \in {"count", "update"} \cup TakingOut => j.outPage = EMPTY
  PROVE  FreshInv'
<1>1. Pagers = {p} /\ ppc'[p] = to /\ job'[p] = j
  BY DEF OnePager, Step, Inv, TypeInv, TypeOK
<1> QED
  BY <1>1 DEF FreshInv

LEMMA FreshChoose ==
  ASSUME MemoryInv, OnePager, FramesForAll, NEW p \in Pagers, GetNextFrame(p)
  PROVE  FreshInv'
<1>1. PICK c : c = NextFrame(FrameTable, ref, NextCheckedFrame)
  OBVIOUS
<1>2. ppc[p] = "select" /\ UNCHANGED FrameTable
  BY DEF GetNextFrame, Answer, Step, At
<1>3. FreeFrames(FrameTable) # {} /\ FreeFrames(FrameTable) \in SUBSET Nat
  BY <1>2, FrameFree, NumFramesAssumption DEF FreeFrames, Frame
<1>4. c.frame \in FreeFrames(FrameTable)
  BY <1>1, <1>3, LeastIsLeast DEF NextFrame
<1>5. c.frame \in Frame /\ c.frame # EMPTY /\ FrameTable[c.frame].page = EMPTY
  BY <1>4 DEF FreeFrames, Frame, EMPTY
<1> DEFINE j == [job[p] EXCEPT !.frame = c.frame]
<1>6. Step(p, "select", "victim", j)
  BY <1>1, <1>5, Zenon DEF GetNextFrame
<1>7. j.frame = c.frame
  BY DEF MemoryInv, Inv, TypeInv, TypeOK, Job
<1> HIDE DEF j
<1> QED
  BY <1>2, <1>5, <1>6, <1>7, FreshStep DEF MemoryInv, TakingOut

LEMMA FreshPager ==
  ASSUME MemoryInv, FreshInv, OnePager, FramesForAll, NEW p \in Pagers, Pager(p)
  PROVE  FreshInv'
<1>0. Inv /\ Pagers = {p}
  BY DEF MemoryInv, OnePager
<1>1. CASE \/ BlockOnMutex(p, "FramesMutex", {"select"})
           \/ BlockOnMutex(p, "vmStatsMutex", {"count", "pageout", "pagein"})
  BY <1>0, <1>1, FreshSame DEF BlockOnMutex
<1>2. CASE \E why : Halt(why)
  BY <1>0, <1>2, FreshSame DEF Halt
<1>3. CASE GetNextFrame(p)
  BY <1>3, FreshChoose
<1>4. CASE TakeVictim(p)
  <2> DEFINE j == [job[p] EXCEPT !.outPage = FrameTable[job[p].frame].page,
                                 !.outPid = FrameTable[job[p].frame].pid]
  <2>1. /\ ppc[p] = "victim"
        /\ Step(p, "victim", IF job[p].exists THEN "update" ELSE "count", j)
    BY <1>4 DEF TakeVictim, Step, At
  <2>2. j.outPage = EMPTY
    BY <1>0, <2>1 DEF FreshInv, Inv, TypeInv, TypeOK, Job
  <2> HIDE DEF j
  <2> QED
    BY <1>0, <2>1, <2>2, FreshStep
<1>5. CASE CountNew(p) \/ UpdateTables(p)
  <2>1. PICK from, to : /\ Step(p, from, to, job[p]) /\ ppc[p] = from
                        /\ from \in {"count", "update"} /\ to \in {"update", "access"}
    BY <1>5 DEF CountNew, UpdateTables, Step, At
  <2>2. job[p].outPage = EMPTY
    BY <2>1 DEF FreshInv
  <2> QED
    BY <1>0, <2>1, <2>2, FreshStep
<1>6. CASE CheckAccess(p)
  <2> DEFINE j == [job[p] EXCEPT !.accessRef = ref[job[p].frame]]
  <2>1. /\ ppc[p] = "access"
        /\ Step(p, "access", IF MustWrite(job[p]) THEN "block" ELSE "fill", j)
    BY <1>6 DEF CheckAccess, Step, At
  <2>2. j.outPage = EMPTY
    BY <1>0, <2>1 DEF FreshInv, TakingOut, Inv, TypeInv, TypeOK, Job
  <2> HIDE DEF j
  <2> QED
    BY <1>0, <2>1, <2>2, FreshStep
<1>7. CASE FindBlock(p) \/ AllocateBlock(p) \/ MapOut(p) \/ CopyOut(p) \/ PageOut(p)
  <2>1. ppc[p] \in {"block", "alloc", "mapout", "copyout", "pageout"} \/ \E why : Halt(why)
    BY <1>7 DEF FindBlock, AllocateBlock, MapOut, CopyOut, PageOut, MmuMap, Transfer, Refuse,
                Answer, Step, At
  <2>2. CASE ppc[p] \in {"block", "alloc", "mapout", "copyout", "pageout"}
    BY <1>0, <2>2 DEF FreshInv, TakingOut, Inv, TypeInv, AtWork
  <2> QED
    BY <1>2, <2>1, <2>2
<1>8. CASE Receive(p) \/ Fill(p) \/ PageIn(p) \/ MapIn(p) \/ CopyIn(p)
  <2>1. \/ \E why : Halt(why)
        \/ \E from, j : \E to \in {"receive", "select", "pagein", "reading", "mapin", "copyin"} :
              Step(p, from, to, j)
    BY <1>8 DEF Receive, Fill, PageIn, MapIn, CopyIn, MmuMap, Transfer, Refuse, Answer
  <2>2. CASE \E from, j :
               \E to \in {"receive", "select", "pagein", "reading", "mapin", "copyin"} :
                  Step(p, from, to, j)
    BY <1>0, <2>2, FreshStep DEF TakingOut
  <2> QED
    BY <1>2, <2>1, <2>2
<1> QED
  BY <1>1, <1>3, <1>4, <1>5, <1>6, <1>7, <1>8 DEF Pager

LEMMA FreshNext ==
  ASSUME OnePager, FramesForAll
  PROVE  MemoryInv /\ FreshInv /\ [Next]_vars => FreshInv'
<1> SUFFICES ASSUME MemoryInv, FreshInv, [Next]_vars PROVE FreshInv'
  OBVIOUS
<1>0. Inv /\ TypeInv
  BY DEF MemoryInv, Inv
<1>1. CASE UNCHANGED vars
  BY <1>0, <1>1, FreshSame DEF vars
<1>2. ASSUME NEW x \in Process, p1_switch(x) PROVE FreshInv'
  BY <1>0, <1>2, FreshSame DEF p1_switch, Halt
<1>3. ASSUME NEW u \in Users, p1_fork(u) PROVE FreshInv'
  BY <1>0, <1>3, FreshSame DEF p1_fork
<1>4. ASSUME NEW u \in Users, p1_quit(u) PROVE FreshInv'
  <2>1. UNCHANGED <<ppc, job>>
    BY <1>4 DEF p1_quit, Halt
  <2>2. FrameTable' = FrameTable \/ FrameTable' = FramesCleared(u)
    BY <1>4 DEF p1_quit, Halt
  <2>3. \A f \in Frame : FramesCleared(u)[f].page \in {EMPTY, FrameTable[f].page}
    BY <1>0 DEF FramesCleared, TypeInv, TypeOK, Entry
  <2> QED
    BY <1>0, <2>1, <2>2, <2>3, FreshSame
<1>5. ASSUME NEW u \in Users, Program(u) \/ Handler(u) PROVE FreshInv'
  <2>1. UNCHANGED <<ppc, job>>
    BY <1>0, <1>5, UserLeaves
  <2>2. FrameTable' = FrameTable \/ \E f : FrameTable' = Unlocked(f)
    BY <1>5 DEF Program, Handler, Load, Store, PageFault, PrintStats, LockVmStats, CountFault,
                SendFault, Resume, LockFrames, UnlockFrame, PrintStatsDone
  <2>3. \A g, f \in Frame : Unlocked(g)[f].page = FrameTable[f].page
    BY <1>0 DEF Unlocked, TypeInv, TypeOK, Entry
  <2>4. \A g : \A f \in Frame : Unlocked(g)[f].page = FrameTable[f].page
    BY <1>0, <2>3 DEF Unlocked, TypeInv, TypeOK, Entry
  <2> QED
    BY <1>0, <2>1, <2>2, <2>4, FreshSame
<1>6. ASSUME NEW p \in Pagers, Pager(p) PROVE FreshInv'
  BY <1>6, FreshPager
<1>7. ASSUME NEW p \in Pagers, DiskDone(p) PROVE FreshInv'
  <2>1. PICK from, to, content : Transferred(p, from, to, content) /\ to \in {"fill", "mapin"}
    BY <1>7 DEF DiskDone, WriteDone, ReadDone
  <2>2. ppc'[p] = to /\ Pagers = {p}
    BY <1>0, <2>1 DEF Transferred, TypeInv, TypeOK, OnePager
  <2> QED
    BY <2>1, <2>2 DEF FreshInv, TakingOut
<1> QED
  BY <1>1, <1>2, <1>3, <1>4, <1>5, <1>6, <1>7 DEF Next

LEMMA FreshAlways ==
  ASSUME OnePager, UsersBelow, FramesForAll
  PROVE  Spec => []RoomOnDisk /\ []WritesWhereItReads
<1>1. Init => FreshInv
  BY DEF Init, FreshInv, TakingOut
<1>2. MemoryInv /\ FreshInv => RoomOnDisk /\ WritesWhereItReads
  BY DEF MemoryInv, Inv, TypeInv, AtWork, FreshInv, TakingOut, RoomOnDisk, WritesWhereItReads
<1> QED
  BY <1>1, <1>2, FreshNext, MemoryAlways, PTL DEF Spec

\* With a frame for every page of every process the VM region is a flat memory, whatever the
\* geometry and the size of the disk and whatever the processes do: no frame with a page is
\* ever taken, so nothing goes out (phase5utility.c:206-215, phase5.c:466-477 and 509).
THEOREM EnoughFramesIsFlatMemory ==
  ASSUME OnePager, UsersBelow, PidsAreSlots, FramesForAll
  PROVE  Spec => IsFlatMemory
BY FreshAlways, RegionIsFlatMemory, PTL
=============================================================================
