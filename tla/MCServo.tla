------------------------------ MODULE MCServo ------------------------------
(***************************************************************************)
(* control and servo for TLC, with the stack sizes of the configuration    *)
(* files and the range of the counter in the code.                         *)
(***************************************************************************)
EXTENDS Servo

Both == {control, servo}
BothReq == [n \in Both |-> IF n = control THEN <<servo>> ELSE << >>]
BothHook == [n \in Both |-> [s \in State |->
               IF n = control /\ s = "READY" THEN {FALSE} ELSE {TRUE}]]
BackToReady == {"ready", "reset"}
=============================================================================
