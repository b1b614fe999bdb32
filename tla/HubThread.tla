----------------------------- MODULE HubThread -----------------------------
(***************************************************************************)
(* The hub as a node of its own (bp_system/b_system/hub.cpp over           *)
(* bp_system/_common/node.cpp): a thread outside calls Start, which runs   *)
(* the main thread of the hub and polls until it runs, and then the other  *)
(* public operations; the nodes push commands onto the hub's stack, which  *)
(* is the ring buffer of CircularStacker; the main thread works in cycles, *)
(* and executes at most one command in each. What the execution of a       *)
(* command does is the subject of Hub.                                     *)
(*                                                                         *)
(* Start is several steps here, as is a cycle that pops: the other threads *)
(* come in between. The nodes push only after _configure has made the      *)
(* stack: main.cpp executes the first of them two seconds after Start.     *)
(***************************************************************************)
EXTENDS CircularStacker, NodeCore

CONSTANT MaxCalls   (* how many public operations are called after Start   *)

ASSUME BoundAssumption == MaxCalls \in Nat

VARIABLES
  hub,      (* the private members of the hub                              *)
  at,       (* where its main thread is                                    *)
  caller,   (* where the thread is that calls Start                        *)
  ended,    (* End has been called                                         *)
  calls     (* the public operations called since, apart from End          *)

hubThreadVars == <<vars, hub, at, caller, ended, calls>>

(* In its loop the main thread begins a cycle at "top" and pops at "pop".  *)
InLoop == at \in {"top", "pop"}

(* The hub as its constructor leaves it; the requests, uninitialized, are  *)
(* not read before _reset_internal_status.                                 *)
HubInit ==
  /\ Init
  /\ hub = [sm |-> "UNCONFIGURED", cmd |-> "UNCONFIGURED", change |-> FALSE,
            flags |-> {}, prev |-> "UNCONFIGURED", dest |-> "READY",
            expired |-> FALSE, running |-> FALSE]
  /\ at = "off" /\ caller = "new" /\ ended = FALSE
  /\ calls = 0
-----------------------------------------------------------------------------
(* A mistake; only the mutation tests use it and the others that say so.   *)
StartThread_NoPoll ==
  /\ caller = "new" /\ ~hub.running
  /\ at' = "spawned"
  /\ caller' = "free"
  /\ UNCHANGED <<vars, hub, ended, calls>>

(* Start, up to the wait for the thread it has made.                       *)
StartThread ==
  /\ caller = "new" /\ ~hub.running
  /\ at' = "spawned"
  /\ caller' = "polling"
  /\ UNCHANGED <<vars, hub, ended, calls>>

(* The wait of Start sees is_main_thread_running_.                         *)
Poll ==
  /\ caller = "polling" /\ hub.running
  /\ caller' = "free"
  /\ UNCHANGED <<vars, hub, at, ended, calls>>

(* PushForceStop, ChangeStable, ...: one flag each.                        *)
Call(s) ==
  /\ caller = "free" /\ calls < MaxCalls
  /\ hub' = [hub EXCEPT !.flags = @ \union {s}]
  /\ calls' = calls + 1
  /\ UNCHANGED <<vars, at, caller, ended>>

(* End; the hub's end_processing is empty.                                 *)
EndHub ==
  /\ caller = "free" /\ ~ended
  /\ hub' = [hub EXCEPT !.running = FALSE]
  /\ ended' = TRUE
  /\ UNCHANGED <<vars, at, caller, calls>>

(* A node sends a command to the hub.                                      *)
Send(v) ==
  /\ InLoop
  /\ Push(v)
  /\ UNCHANGED <<hub, at, caller, ended, calls>>
-----------------------------------------------------------------------------
(* _task_main starts.                                                      *)
Begin ==
  /\ at = "spawned"
  /\ hub' = [hub EXCEPT !.running = TRUE]
  /\ at' = "reset"
  /\ UNCHANGED <<vars, caller, ended, calls>>

ResetStatus_StopsToo ==
  /\ at = "reset"
  /\ hub' = [hub EXCEPT !.flags = {}, !.change = FALSE, !.dest = "READY",
                        !.running = FALSE]
  /\ at' = "configure"
  /\ UNCHANGED <<vars, caller, ended, calls>>

(* _reset_internal_status: a request made since Start returned is lost.    *)
ResetStatus ==
  /\ at = "reset"
  /\ hub' = [hub EXCEPT !.flags = {}, !.change = FALSE, !.dest = "READY"]
  /\ at' = "configure"
  /\ UNCHANGED <<vars, caller, ended, calls>>

(* _configure makes the stack, empty.                                      *)
Configure ==
  /\ at = "configure"
  /\ head' = 0 /\ tail' = 0 /\ count' = 0
  /\ buffer' = [i \in Slots |-> Default]
  /\ at' = "top"
  /\ UNCHANGED <<armed, out, hub, caller, ended, calls>>

AtTop == at = "top" /\ hub.running
Generated == generate_signal(hub)

HookReturns_NotForRepair(s) == s # "REPAIR"

(* The hooks of the hub for a change to s: all return true.                *)
HookReturns(s) == TRUE

(* A cycle that changes the state.                                         *)
ChangeState ==
  /\ AtTop /\ Generated.change /\ Generated.sm # "TRANSITING"
  /\ hub' = change_node_state(Generated, HookReturns(Generated.cmd))
  /\ UNCHANGED <<vars, at, caller, ended, calls>>

(* The states whose processing calls cmd_executor. In UNCONFIGURED there   *)
(* is none; transit_processing of the hub is empty.                        *)
Executing == {"INITIALIZING", "READY", "STABLE", "REPAIR", "FORCE_STOP"}

(* What node_loop_processing does after the processing of the hub; the     *)
(* processing itself leaves these members alone.                           *)
AfterProcessing(m) ==
  CASE m.sm = "UNCONFIGURED" -> [m EXCEPT !.change = TRUE, !.cmd = "INITIALIZING"]
    [] m.sm = "INITIALIZING" -> [m EXCEPT !.change = TRUE, !.cmd = "READY"]
    [] OTHER -> m

LoopProcess_NotInForceStop ==
  /\ AtTop /\ ~(Generated.change /\ Generated.sm # "TRANSITING")
  /\ hub' = AfterProcessing(Generated)
  /\ \/ hub.sm \in Executing \ {"FORCE_STOP"} /\ Check /\ at' = "pop"
     \/ (hub.sm \notin Executing \ {"FORCE_STOP"} \/ count = 0) /\ UNCHANGED <<vars, at>>
  /\ UNCHANGED <<caller, ended, calls>>

(* A cycle that does not: the processing of the current state looks at the *)
(* stack, if it does so in this state.                                     *)
LoopProcess ==
  /\ AtTop /\ ~(Generated.change /\ Generated.sm # "TRANSITING")
  /\ hub' = AfterProcessing(Generated)
  /\ \/ hub.sm \in Executing /\ Check /\ at' = "pop"
     \/ (hub.sm \notin Executing \/ count = 0) /\ UNCHANGED <<vars, at>>
  /\ UNCHANGED <<caller, ended, calls>>

(* cmd_executor, the rest: the hub pops a command and executes it. A hub   *)
(* told to end meanwhile still does.                                       *)
PopCommand ==
  /\ at = "pop"
  /\ Pop
  /\ at' = "top"
  /\ UNCHANGED <<hub, caller, ended, calls>>

(* The main thread leaves its loop.                                        *)
Leave ==
  /\ at = "top" /\ ~hub.running
  /\ hub' = [hub EXCEPT !.sm = "UNCONFIGURED"]
  /\ at' = "gone"
  /\ UNCHANGED <<vars, caller, ended, calls>>
-----------------------------------------------------------------------------
MainThread == Begin \/ ResetStatus \/ Configure \/ ChangeState \/ LoopProcess
              \/ PopCommand \/ Leave
Outside == EndHub \/ (\E s \in Signal : Call(s)) \/ (\E v \in Values : Send(v))

HubNext == StartThread \/ Poll \/ MainThread \/ Outside

(* The hub's main thread runs its loop, and Start polls. Nobody has to     *)
(* call anything after Start, or to send.                                  *)
HubSpec == /\ HubInit /\ [][HubNext]_hubThreadVars
           /\ WF_hubThreadVars(MainThread) /\ WF_hubThreadVars(Poll)
-----------------------------------------------------------------------------
HubTypeOK ==
  /\ TypeOK
  /\ hub \in NodeRecord
  /\ at \in {"off", "spawned", "reset", "configure", "top", "pop", "gone"}
  /\ caller \in {"new", "polling", "free"}
  /\ ended \in BOOLEAN
  /\ calls \in 0 .. MaxCalls

(* The hub is never in transit, whatever it is asked and whenever: there   *)
(* it would read no commands and, its transit_processing being empty, no   *)
(* watch dog would bring it back.                                          *)
NeverInTransit == hub.sm # "TRANSITING"

(* An End is not undone: wherever the main thread is in its own start, no  *)
(* step of it makes a hub run that was told to end.                        *)
EndNotUndone == ended => ~hub.running

(* What Start polls for does not go away between two looks of it: once the *)
(* new thread has started to run, no change of state that the start goes   *)
(* through, refused or not, ends it before Start has come back.            *)
PolledRuns == caller = "polling" => hub.running \/ at = "spawned"

(* The hub executes every command it accepted, whatever state it is put    *)
(* into, unless it ends first. Its nodes wait for that in order to start.  *)
AcceptedIsServed ==
  \A v \in Values : (\E i \in 1 .. count : Contents[i] = v)
                      ~> (out = v \/ at = "gone")

(* Start comes back to its caller.                                         *)
StartReturns == caller = "polling" ~> caller = "free"

(* An End after Start is final: the main thread, wherever it is in its own *)
(* start, leaves its loop and does not undo it.                            *)
EndIsFinal == ended ~> [](at = "gone")

(* A hub in its loop that is asked for STABLE, as main does, gets there,   *)
(* whatever else it is asked, unless it is stopped or ended.               *)
StableServed ==
  (InLoop /\ "stable" \in hub.flags)
    ~> (hub.sm \in {"STABLE", "FORCE_STOP"} \/ at = "gone")
=============================================================================
