------------------------------ MODULE SwapDisk ------------------------------
(***************************************************************************)
(* The swap disk as phase5utility.c uses it: a page is SectorsPerPage      *)
(* consecutive sectors, disk block b is the b-th such group, and both      *)
(* transfers turn the number of the block into a track and a sector.  The  *)
(* driver itself (diskReadReal, diskWriteReal) is outside the sources: it  *)
(* refuses a first sector that is not on a track, and a transfer that      *)
(* passes the end of a track goes on with the next one.                    *)
(*                                                                         *)
(* A sector holds <<content, i>>: the i-th part of a page of that content. *)
(* The content of a page is a data value.                                  *)
(***************************************************************************)
EXTENDS Integers

CONSTANTS
    SectorsPerPage,     \* USLOSS_MmuPageSize() / USLOSS_DISK_SECTOR_SIZE
    TrackSize,          \* USLOSS_DISK_TRACK_SIZE: the sectors of a track
    Tracks,             \* the tracks of disk SWAPDISK
    Values,             \* the contents a process may store in a page
    Zero,               \* the content of a page of zero bytes
    Torn                \* any content no process stored: garbage, mixed parts

ASSUME GeometryAssumption ==
    /\ SectorsPerPage \in Nat \ {0}
    /\ TrackSize \in Nat \ {0}
    /\ Tracks \in Nat \ {0}

PageData == Values \cup {Zero, Torn}
Sectors  == 0 .. Tracks * TrackSize - 1
Part     == 0 .. SectorsPerPage - 1
Disk     == [Sectors -> PageData \X Part]

\* initVmStats: the size of the disk in bytes divided by the size of a page.
DiskBlocks == (Tracks * TrackSize) \div SectorsPerPage

\* What is on the disk before anything is written: nothing a process stored.
BlankDisk == [s \in Sectors |-> <<Torn, 0>>]

\* A transfer is started at a track and a sector of it; the driver refuses others.
Accepts(at) == at.track \in 0 .. Tracks - 1 /\ at.sector \in 0 .. TrackSize - 1

\* The i-th sector the transfer reaches.
SectorOf(at, i) == at.track * TrackSize + at.sector + i

\* readPageFromDisk, lines 285-288.
ReadAddress(block) ==
    [track  |-> (SectorsPerPage * block) \div TrackSize,
     sector |-> (SectorsPerPage * block) % TrackSize]

\* writePageToDisk, lines 318-321: the sector is a quotient, not a remainder.
WriteAddress(block) ==
    [track  |-> (SectorsPerPage * block) \div TrackSize,
     sector |-> (SectorsPerPage * block) \div TrackSize]

\* The result of diskReadReal is not looked at: a refused transfer leaves the
\* caller's buffer as it was, uninitialised.
DiskRead(disk, block) ==
    LET at    == ReadAddress(block)
        first == SectorOf(at, 0)
    IN  IF /\ Accepts(at)
           /\ \A i \in Part : /\ SectorOf(at, i) \in Sectors
                              /\ disk[SectorOf(at, i)] = <<disk[first][1], i>>
        THEN disk[first][1]
        ELSE Torn

\* The result of diskWriteReal is not looked at either.
DiskWrite(disk, block, content) ==
    LET at == WriteAddress(block)
    IN  IF Accepts(at)
        THEN [s \in Sectors |-> IF s - SectorOf(at, 0) \in Part
                                THEN <<content, s - SectorOf(at, 0)>>
                                ELSE disk[s]]
        ELSE disk
=============================================================================
