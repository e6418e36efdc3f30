----------------------------- MODULE TestPrograms -----------------------------
(***************************************************************************)
(* The test programs of testcases/: what the children of start5 do with    *)
(* the VM region, and what is asserted of vmStats.  The calls of SemV that *)
(* are to force a context switch are not written out: VirtualMemory may    *)
(* switch at any step.  A number stands for what is written to a page; a   *)
(* test with fewer pages than the region leaves the others alone.          *)
(***************************************************************************)
EXTENDS VmStats, SequencesExt

NoCounters == <<>>

\* CHILDREN users run child; these are the counters start5 asserts at the end.
Test(CHILDREN, child, counters) ==
    LET children == CHOOSE S \in SUBSET Users : Cardinality(S) = CHILDREN
    IN  [code |-> [u \in Users |-> IF u \in children THEN child[u] ELSE <<>>],
         asserts |-> counters]
OneChild(code) == Test(1, [u \in Users |-> code], NoCounters)

ForPages(PAGES, body)   == FlattenSeq([k \in 1 .. PAGES |-> body[k - 1]])   \* pages 0, 1, ..
WriteAndReadTwice(i, v) == <<Write(i, v), Read(i, v), Read(i, v)>>
ReadZeros(PAGES)        == ForPages(PAGES, [i \in Page |-> <<Read(i, Zero)>>])

FirstPage  == 1         \* "This is the first page"

-----------------------------------------------------------------------------
Simple1 ==
    OneChild(<<Write(0, FirstPage), Read(0, FirstPage), Asserting([faults |-> 1, new |-> 1]),
               Read(0, FirstPage),
               Asserting([faults |-> 1, new |-> 1, pageOuts |-> 0, pageIns |-> 0])>>)

Simple2 == OneChild(<<Read(0, Zero), Asserting([faults |-> 1])>>)

Simple3(PAGES) ==
    OneChild(Append(ForPages(PAGES, [i \in Page |-> <<Write(i, 1)>>]),
                    Asserting([faults |-> PAGES])))

\* In each iteration "The number of faults should equal the number of pages".
Simple4(PAGES, ITERATIONS) ==
    OneChild(FlattenSeq([k \in 1 .. ITERATIONS |->
        Append(ReadZeros(PAGES), Asserting([faults |-> k * PAGES]))]))

\* Each page is written and read at once.  The int 0 is zero bytes.
Simple5(PAGES, ITERATIONS) ==
    LET Bytes(i) == IF i = 0 THEN Zero ELSE i
        body     == [i \in Page |-> <<Write(i, Bytes(i)), Read(i, Bytes(i))>>]
    IN  OneChild(Append(FlattenSeq([k \in 1 .. ITERATIONS |->
                            Append(ForPages(PAGES, body), Asserting([faults |-> k * PAGES]))]),
                        Asserting([faults   |-> PAGES * ITERATIONS,
                                   new      |-> PAGES,
                                   pageIns  |-> PAGES * (ITERATIONS - 1),
                                   pageOuts |-> PAGES * ITERATIONS - NumFrames])))
Simple6(PAGES, ITERATIONS) == Simple5(PAGES, ITERATIONS)

Simple7(CHILDREN) ==
    Test(CHILDREN, [u \in Users |-> WriteAndReadTwice(0, FirstPage)], NoCounters)

Simple8(PAGES, ITERATIONS) ==
    Test(2, [u \in Users |-> FlattenSeq([k \in 1 .. ITERATIONS |-> ReadZeros(PAGES)])], NoCounters)

Simple9 ==
    Test(2, [u \in Users |-> WriteAndReadTwice(0, u)],
         [faults |-> 2, new |-> 2, pageOuts |-> 0, pageIns |-> 0])

\* start5's counters depend on when the children are switched, and are left out.
Simple10(PAGES) ==
    Test(2, [u \in Users |-> ForPages(PAGES, [i \in Page |-> WriteAndReadTwice(i, 10 * u + i)])],
         NoCounters)

-----------------------------------------------------------------------------
(* The properties.                                                           *)

Agree(counters) == \A c \in DOMAIN counters : vmStats[c] = counters[c]

\* The assertions of the tests about vmStats hold, on every schedule: a page faults once
\* when it is new and once each time it comes back (simple1.c:62-76, simple2.c:59,
\* simple3.c:53, simple4.c:71, simple5.c:62-67, simple6.c:68-73, simple9.c:120-123).
AssertsHold ==
    /\ \A u \in Users : (upc[u] = "user" /\ Now(u).op = "assert") => Agree(Now(u).counters)
    /\ (\A u \in Users : program.code[u] # <<>> => upc[u] = "dead") => Agree(program.asserts)
===============================================================================
