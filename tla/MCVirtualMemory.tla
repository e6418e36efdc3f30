-------------------------- MODULE MCVirtualMemory --------------------------
(* Values of the constants for the TLC instances of VirtualMemory.         *)
EXTENDS VmProperties

Five     == [u \in Users |-> 5]
Three    == {<<3, 0>>}
FirstPages == Users \X {0}
=============================================================================
