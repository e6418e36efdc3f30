---------------------------- MODULE MCVmLifecycle ----------------------------
(***************************************************************************)
(* The instances of VmLifecycle that TLC checks.  Processes are numbered:  *)
(* children 1, 2; pagers 5, 6; start5 8; the rest of the system 9.      *)
(***************************************************************************)
EXTENDS LifecycleProperties

\* Good calls, and each of the mistakes vmInitReal looks for.
AllArgs == {<<2, 2, 1, 2>>, <<2, 2, 1, 1>>, <<2, 2, 1, 3>>, <<2, 1, 1, 1>>, <<-1, -1, 1, 1>>,
            <<2, 2, -1, 1>>, <<2, 2, 1, -1>>}
OneOrTwo == {<<2, 2, 1, 1>>, <<2, 2, 1, 2>>}
==============================================================================
