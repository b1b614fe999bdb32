---------------------------- MODULE StateMachine ----------------------------
(***************************************************************************)
(* The state machine of the README, as the nodes promise it to their       *)
(* users: five states that are announced, UNCONFIGURED before them, and    *)
(* TRANSITING on the arrows. A change is made at once or takes its time on *)
(* the arrow, and then arrives or falls back to where it came from.        *)
(***************************************************************************)

CONSTANT Nodes

VARIABLES mode,   (* mode[n]: the state of node n                          *)
          from,   (* the origin of the last arrow it stayed on             *)
          to      (* and its end                                           *)

machineVars == <<mode, from, to>>

(* The arrows between states in normal operation.                          *)
Arrow == {<<"UNCONFIGURED", "INITIALIZING">>, <<"INITIALIZING", "READY">>,
          <<"READY", "STABLE">>, <<"READY", "REPAIR">>,
          <<"STABLE", "READY">>, <<"STABLE", "REPAIR">>,
          <<"REPAIR", "READY">>, <<"REPAIR", "STABLE">>}

Enter(n, s) == mode' = [mode EXCEPT ![n] = s] /\ UNCHANGED <<from, to>>

Wait(n, s) == /\ mode' = [mode EXCEPT ![n] = "TRANSITING"]
              /\ from' = [from EXCEPT ![n] = mode[n]]
              /\ to' = [to EXCEPT ![n] = s]

Change(n) == \E a \in Arrow : a[1] = mode[n] /\ Enter(n, a[2])

Depart(n) == \E a \in Arrow : a[1] = mode[n] /\ Wait(n, a[2])

OnArrow(n) == mode[n] = "TRANSITING" /\ <<from[n], to[n]>> \in Arrow

Arrive(n) == OnArrow(n) /\ Enter(n, to[n])

Return(n) == OnArrow(n) /\ Enter(n, from[n])

(* A force stop has no arrow to wait on and none that leads out again. One *)
(* that cannot be carried out makes the node quit.                         *)
ForceStop(n) == /\ mode[n] \notin {"TRANSITING", "FORCE_STOP"}
                /\ Enter(n, "FORCE_STOP") \/ Wait(n, "FORCE_STOP")

Quit(n) == Enter(n, "UNCONFIGURED")

MachineNext ==
  \E n \in Nodes : Change(n) \/ Depart(n) \/ Arrive(n) \/ Return(n)
                   \/ ForceStop(n) \/ Quit(n)

(* The nodes start anywhere but on an arrow.                               *)
MachineInit == \A n \in Nodes : mode[n] # "TRANSITING"

MachineSpec == MachineInit /\ [][MachineNext]_machineVars
=============================================================================
