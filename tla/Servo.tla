-------------------------------- MODULE Servo --------------------------------
(***************************************************************************)
(* The pair of nodes that the documentation explains the system with       *)
(* (doc/example_sub_pub.md): servo, b_example_sub_servo, keeps a counter   *)
(* and obeys commands from its command stack; control,                     *)
(* b_example_pub_control, requires servo, brings it to STABLE and then     *)
(* steers the counter to zero. Both are behaviour nodes and work in the    *)
(* cycles of BNode; what their own xxx_processing does comes here, in      *)
(* steps of its own: that of control reads what servo has published before *)
(* it acts on it. Calls from outside take the pair out of STABLE again.    *)
(***************************************************************************)
EXTENDS BNode, Integers

CONSTANTS control, servo,
          CmdCap,      (* cmd_stack_size of servo                          *)
          MaxCount,    (* the counter starts in -MaxCount .. MaxCount      *)
          Calls,       (* the public operations that are called on control *)
          MaxCalls     (* how many of those calls                          *)

(* The hooks of both return true, except that control waits for servo      *)
(* before it gets READY.                                                   *)
ASSUME ServoAssumption ==
  /\ control # servo /\ Nodes = {control, servo}
  /\ Req = [n \in Nodes |-> IF n = control THEN <<servo>> ELSE << >>]
  /\ Hook = [n \in Nodes |-> [s \in State |->
               IF n = control /\ s = "READY" THEN {FALSE} ELSE {TRUE}]]
  /\ CmdCap \in Nat /\ MaxCount \in Nat
  /\ Calls \subseteq Signal /\ MaxCalls \in Nat

VARIABLES
  user,      (* user[n]: n has its own xxx_processing still to do          *)
  intent,    (* what control is about to do, having looked at servo        *)
  cmdq,      (* node_cmd_->cmd_stack_ of servo                             *)
  count,     (* encoder_count                                              *)
  last,      (* the node that ended its own processing last                *)
  calls      (* the calls so far                                           *)

servoVars == <<user, intent, cmdq, count, last, calls>>
vars == <<nodeVars, servoVars>>

(* cmd_example_servo_type; the other commands are sent by nobody.          *)
Cmd == {"ADD_COUNT", "SUB_COUNT", "CHANGE_SM_STABLE"}

(* What control may be about to do: push a command, or ChangeStable().     *)
Intent == Cmd \union {"ChangeStable", "none"}

(* servo has come up to READY with a counter set at random; control waits  *)
(* on the way to READY for it.                                             *)
Up == [sm |-> "READY", cmd |-> "READY", change |-> FALSE, flags |-> {},
       prev |-> "UNCONFIGURED", dest |-> "READY", expired |-> FALSE,
       running |-> TRUE]

Init ==
  /\ node = [n \in Nodes |-> IF n = servo THEN Up
               ELSE [Up EXCEPT !.sm = "TRANSITING", !.prev = "INITIALIZING"]]
  /\ pc = [n \in Nodes |-> "top"]
  /\ left = [n \in Nodes |-> {}]
  /\ pub = [n \in Nodes |-> node[n].sm]
  /\ sysq = [n \in Nodes |-> << >>]
  /\ stateMap = [n \in Nodes |-> RequiredBy(n)]
  /\ sysMap = [n \in Nodes |-> RequiredBy(n)]
  /\ hubq = << >>
  /\ user = [n \in Nodes |-> FALSE]
  /\ intent = "none"
  /\ cmdq = << >>
  /\ count \in -MaxCount .. MaxCount
  /\ last = servo
  /\ calls = 0
-----------------------------------------------------------------------------
(* The steps of a cycle that BNode has. The processing of a state, and     *)
(* that of the previous state in transit, leave the user's part to do.     *)
SystemPart(n) ==
  /\ ~user[n]
  /\ \/ (LoopProcess(n) \/ Transit(n)) /\ user' = [user EXCEPT ![n] = TRUE]
     \/ /\ \/ GiveOrders(n) \/ ChangeState(n)
           \/ RollBack(n) \/ ReadState(n) \/ Commit(n)
        /\ UNCHANGED user
  /\ UNCHANGED <<intent, cmdq, count, last, calls>>

(* The state whose processing n runs.                                      *)
Runs(n) == IF node[n].sm = "TRANSITING" THEN node[n].prev ELSE node[n].sm

(* Mistakes; only the mutation tests use them and those below.             *)
Steer_PastZero == IF count < 0 THEN "ADD_COUNT" ELSE "SUB_COUNT"

(* The command with which control answers the counter.                     *)
Steer == IF count < 0 THEN "ADD_COUNT"
         ELSE IF count > 0 THEN "SUB_COUNT" ELSE "none"

(* _ready_processing and _stable_processing of control, up to the          *)
(* decision; in the other states there is none to take.                    *)
Wish ==
  CASE Runs(control) = "READY" /\ pub[servo] = "READY"
                                           -> "CHANGE_SM_STABLE"
    [] Runs(control) = "READY" /\ pub[servo] = "STABLE"
                                           -> "ChangeStable"
    [] Runs(control) = "STABLE" /\ pub[servo] = "STABLE"
                                           -> Steer
    [] OTHER                               -> "none"

Done(n) == user' = [user EXCEPT ![n] = FALSE] /\ last' = n

(* control reads what servo has published.                                 *)
Look ==
  /\ user[control] /\ intent = "none"
  /\ intent' = Wish
  /\ IF Wish = "none" THEN Done(control) ELSE UNCHANGED <<user, last>>
  /\ UNCHANGED <<nodeVars, cmdq, count, calls>>

(* And does what it decided on; a full stack drops the command.            *)
Act ==
  /\ user[control] /\ intent # "none"
  /\ IF intent = "ChangeStable"
     THEN Request(control, "stable") /\ UNCHANGED cmdq
     ELSE cmdq' = Stack!Offer(cmdq, CmdCap, intent) /\ UNCHANGED nodeVars
  /\ intent' = "none"
  /\ Done(control)
  /\ UNCHANGED <<count, calls>>

(* _update_servo_state                                                     *)
Moved(by) == count' = IF node[servo].sm \in {"STABLE", "REPAIR"}
                      THEN count + by ELSE count

(* cmd_executor of servo executes c.                                       *)
Obey(c) ==
  \/ c = "ADD_COUNT" /\ Moved(1) /\ UNCHANGED nodeVars
  \/ c = "SUB_COUNT" /\ Moved(-1) /\ UNCHANGED nodeVars
  \/ c = "CHANGE_SM_STABLE" /\ Request(servo, "stable") /\ UNCHANGED count

Serve_NotInReady ==
  /\ user[servo]
  /\ IF Runs(servo) = "STABLE" /\ cmdq # << >>
     THEN Obey(Head(cmdq)) /\ cmdq' = Tail(cmdq)
     ELSE UNCHANGED <<nodeVars, cmdq, count>>
  /\ Done(servo)
  /\ UNCHANGED <<intent, calls>>

(* _ready_processing and _stable_processing of servo: one command, if      *)
(* there is one. The processing of the other states does nothing.          *)
Serve ==
  /\ user[servo]
  /\ IF Runs(servo) \in {"READY", "STABLE"} /\ cmdq # << >>
     THEN Obey(Head(cmdq)) /\ cmdq' = Tail(cmdq)
     ELSE UNCHANGED <<nodeVars, cmdq, count>>
  /\ Done(servo)
  /\ UNCHANGED <<intent, calls>>
-----------------------------------------------------------------------------
ControlThread == SystemPart(control) \/ Look \/ Act
ServoThread == SystemPart(servo) \/ Serve

(* Any other thread calls a public operation of control.                   *)
Call ==
  /\ calls < MaxCalls /\ calls' = calls + 1
  /\ \E s \in Calls : Request(control, s)
  /\ UNCHANGED <<user, intent, cmdq, count, last>>

(* The watch dog of control, 20 periods of either loop, expires when servo *)
(* has acted on its orders and yet is not where control waits for it.      *)
InVain ==
  /\ pub[servo] # node[control].dest
  /\ pc[servo] = "top" /\ sysq[servo] = << >> /\ ~Generated(servo).change
WatchDog == InVain /\ Elapse(control) /\ UNCHANGED servoVars

Next == ControlThread \/ ServoThread \/ Call \/ WatchDog

(* Both main threads run their loops, and the watch dog works; nobody has  *)
(* to call.                                                                *)
Spec == /\ Init /\ [][Next]_vars
        /\ WF_vars(ControlThread) /\ WF_vars(ServoThread) /\ WF_vars(WatchDog)
-----------------------------------------------------------------------------
TypeOK ==
  /\ node \in [Nodes -> NodeRecord]
  /\ pc \in [Nodes -> {"top", "hook", "back", "scan"}]
  /\ left \in [Nodes -> SUBSET Nodes]
  /\ pub \in [Nodes -> State]
  /\ sysq \in [Nodes -> Seq(SysCmd)]
  /\ user \in [Nodes -> BOOLEAN]
  /\ intent \in Intent
  /\ cmdq \in Seq(Cmd) /\ Len(cmdq) <= CmdCap
  /\ count \in Int
  /\ last \in Nodes
  /\ calls \in 0 .. MaxCalls

(* A step up never takes the counter beyond what the stack holds, nor a    *)
(* step down, whatever the speeds of the two loops: control acts on a      *)
(* counter that may be as old as a full stack of commands and overshoots   *)
(* zero, but it does not run away, wherever it started; nor does it when   *)
(* servo leaves STABLE with steps in its stack, which it then swallows.    *)
OvershootBounded ==
  [][/\ count' > count => count' <= CmdCap
     /\ count' < count => count' >= -CmdCap]_vars

(* Both nodes get STABLE and stay there, although commands for it are      *)
(* dropped by a full stack, and executed again when they are outdated.     *)
BothGetStable ==
  <>[](\A n \in Nodes : node[n].sm = "STABLE")

(* The counter comes as near to zero as the delay of a full stack allows,  *)
(* and stays there, whatever the speeds of the two loops.                  *)
SettlesInBand == <>[](-CmdCap <= count /\ count <= CmdCap)

(* doc/example_sub_pub.md: control makes the state of servo converge to 0. *)
(* It does when, from some time on, the two loops, which have the same     *)
(* period, take turns: all that is left of commands sent too late is       *)
(* worked off in ever smaller swings around zero.                          *)
TakeTurns == <>[][ (Look => last = servo) /\ (Serve => last = control) ]_vars
ConvergesInTurn == TakeTurns => <>[](count = 0)
=============================================================================
