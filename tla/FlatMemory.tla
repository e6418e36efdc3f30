----------------------------- MODULE FlatMemory -----------------------------
(***************************************************************************)
(* What the VM region promises the processes that use it: each has pages   *)
(* of its own, zero when it starts, whose content changes only by its own  *)
(* stores, however many frames there are and whoever else runs.            *)
(***************************************************************************)
CONSTANTS Procs, Pages, Contents, ZeroContent, StorePairs

VARIABLES
    live,       \* the processes that have started and not terminated
    mem         \* mem[u][i]: the content of page i of process u

memVars == <<live, mem>>

ZeroPages == [i \in Pages |-> ZeroContent]

Init == live = {} /\ mem = [u \in Procs |-> ZeroPages]

Start(u) == u \notin live /\ live' = live \cup {u} /\ UNCHANGED mem

Write(u, i, c) ==
    /\ u \in live /\ <<u, i>> \in StorePairs
    /\ mem' = [mem EXCEPT ![u][i] = c]
    /\ UNCHANGED live

End(u) ==
    /\ u \in live
    /\ live' = live \ {u}
    /\ mem' = [mem EXCEPT ![u] = ZeroPages]

Next == \E u \in Procs : \/ Start(u) \/ End(u)
                         \/ \E i \in Pages, c \in Contents : Write(u, i, c)

Spec == Init /\ [][Next]_memVars
=============================================================================
