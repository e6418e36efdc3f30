---------------------------- MODULE MCTestPrograms ----------------------------
(* The tests on two frames, and values of the constants.                    *)
EXTENDS TestPrograms

Five   == [u \in Users |-> 5]
AllPages == Users \X Page
Numbers  == 1 .. 60 \cup {Zero}

OnTwoFrames == {Simple1, Simple2, Simple3(2), Simple4(3, 10), Simple5(3, 2), Simple6(3, 10),
                Simple7(2), Simple8(3, 2), Simple9, Simple10(2)}
===============================================================================
