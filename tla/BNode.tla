------------------------------- MODULE BNode -------------------------------
(***************************************************************************)
(* The behaviour nodes (bp_system/b_system/b_node.cpp over                 *)
(* bp_system/_common/node.cpp): the main loop of each node, the orders a   *)
(* node pushes onto the system command stacks of the nodes it requires,    *)
(* its requests to the hub, and the published state through which the      *)
(* nodes see each other.                                                   *)
(*                                                                         *)
(* A cycle of the main loop that only runs the processing of the state is  *)
(* one step. A change of state takes two: the orders are pushed before the *)
(* user's hook is asked (GiveOrders), and the state is set and published   *)
(* after it has returned (ChangeState); the required nodes may act on the  *)
(* orders in between. A roll back is two steps likewise (RollBack, then    *)
(* the rest of the cycle). And in TRANSITING the states of the required    *)
(* nodes are read one by one while they run: Transit, then ReadState for   *)
(* each of them, then Commit. What else a cycle touches is written by this *)
(* thread alone, or is a stack with one reader, or a request flag that     *)
(* others only raise and that only the read acting on it lowers. What one  *)
(* step pushes, it pushes at once: that a node or the hub acts on the      *)
(* first of several commands while the next is being pushed is left out.   *)
(***************************************************************************)
EXTENDS NodeCore, Sequences, Naturals, FiniteSets
Stack == INSTANCE Fifo

CONSTANTS
  Nodes,     (* the behaviour nodes                                        *)
  Req,       (* Req[n]: requirement_node_list of n                         *)
  SysCap,    (* sys_cmd_stack_size                                         *)
  HubCap,    (* cmd_stack_size of the hub                                  *)
  Hook       (* Hook[n][s]: what the user's hook for a change to s returns *)

ASSUME ReqAssumption == Req \in [Nodes -> Seq(Nodes)]
ASSUME CapAssumption == SysCap \in Nat /\ HubCap \in Nat
ASSUME HookAssumption == Hook \in [Nodes -> [State -> SUBSET BOOLEAN]]

VARIABLES
  node,      (* node[n]: the private members of n                          *)
  pc,        (* where the main thread of n is                              *)
  left,      (* the states the transit scan of n has still to read         *)
  pub,       (* node_state_->state_code.state_machine                      *)
  sysq,      (* node_sys_cmd_->cmd_stack_, as a sequence                   *)
  stateMap,  (* the keys of b_node_state_map                               *)
  sysMap,    (* the keys of b_node_sys_cmd_map                             *)
  hubq       (* the command stack of the hub, as a sequence                *)

nodeVars == <<node, pc, left, pub, sysq, stateMap, sysMap, hubq>>

RequiredBy(n) == {Req[n][i] : i \in 1 .. Len(Req[n])}

(* The state machine of the README, as the nodes show it.                  *)
Machine == INSTANCE StateMachine
  WITH mode <- [n \in Nodes |-> node[n].sm],
       from <- [n \in Nodes |-> node[n].prev],
       to <- [n \in Nodes |-> node[n].dest]

(* b_node_sys_cmd_list; SET_SHARED_PTR and START are sent by nobody.       *)
SysCmd == {"CHANGE_STABLE", "CHANGE_REPAIR", "CHANGE_READY",
           "PUSH_FORCE_STOP", "RELEASE_FORCE_STOP", "RESET", "END",
           "REQUIRE_NODE_LIST"}

(* What a node asks of the hub; only START_NODE has a node to name.        *)
HubCmd == [type : {"START_NODE", "PICK_SHARED_PTR", "DELETE_SHARED_PTR"},
           source : Nodes, target : Nodes]
ToHub(type, n) == << [type |-> type, source |-> n, target |-> n] >>

(* A mistake; only the mutation tests use it and those below.              *)
Order_NoForceStop(s) ==
  CASE s = "READY"  -> "CHANGE_READY"
    [] s = "REPAIR" -> "CHANGE_REPAIR"
    [] OTHER        -> "CHANGE_STABLE"

(* The order for the required nodes that a change to s starts with, and    *)
(* that a roll back to s sends: cmd_type keeps its initial value 0, which  *)
(* is CHANGE_STABLE, when s has no order of its own.                       *)
Order(s) ==
  CASE s = "READY"      -> "CHANGE_READY"
    [] s = "REPAIR"     -> "CHANGE_REPAIR"
    [] s = "FORCE_STOP" -> "PUSH_FORCE_STOP"
    [] OTHER            -> "CHANGE_STABLE"
RollBackOrder_State(s) == s
RollBackOrder(s) == IF s = "FORCE_STOP" THEN "CHANGE_STABLE" ELSE Order(s)

(* The stacks after n has pushed c onto those of the nodes wired to it.    *)
Broadcast(n, c) ==
  [k \in Nodes |-> IF k \in sysMap[n] THEN Stack!Offer(sysq[k], SysCap, c)
                   ELSE sysq[k]]

Post(cmds) == hubq' = Stack!OfferAll(hubq, HubCap, cmds)
-----------------------------------------------------------------------------
Raises_NotInReady(c, s) ==
  CASE c = "CHANGE_STABLE" /\ s = "REPAIR"              -> {"stable"}
    [] c = "CHANGE_REPAIR"                               -> {"repair"}
    [] c = "CHANGE_READY" /\ s \in {"STABLE", "REPAIR"}  -> {"ready"}
    [] c = "PUSH_FORCE_STOP"                             -> {"force_stop"}
    [] c = "RESET"                                       -> {"reset"}
    [] OTHER                                             -> {}

(* _sys_cmd_executor: the request that command c raises in a node whose    *)
(* node_state_machine_ is s. user_b_node_state_map is never filled, so the *)
(* loops over it find no user to wait for.                                 *)
Raises(c, s) ==
  CASE c = "CHANGE_STABLE" /\ s \in {"READY", "REPAIR"}  -> {"stable"}
    [] c = "CHANGE_REPAIR"                               -> {"repair"}
    [] c = "CHANGE_READY" /\ s \in {"STABLE", "REPAIR"}  -> {"ready"}
    [] c = "PUSH_FORCE_STOP"                             -> {"force_stop"}
    [] c = "RELEASE_FORCE_STOP" /\ s = "FORCE_STOP"      -> {"release"}
    [] c = "RESET"                                       -> {"reset"}
    [] OTHER                                             -> {}

Execute(m, c) ==
  [m EXCEPT !.flags = @ \union Raises(c, m.sm), !.running = @ /\ c # "END"]

(* The commands to the hub that executing c sends: _start_node, End.       *)
Sends(n, c) ==
  CASE c = "REQUIRE_NODE_LIST" ->
         [i \in 1 .. Len(Req[n]) |->
            [type |-> "START_NODE", source |-> n, target |-> Req[n][i]]]
    [] c = "END" -> ToHub("DELETE_SHARED_PTR", n)
    [] OTHER     -> << >>

(* xxx_processing: n, whose members are m so far, pops and executes one    *)
(* system command, if there is one.                                        *)
Processing(n, m, queues) ==
  IF queues[n] = << >>
  THEN /\ node' = [node EXCEPT ![n] = m]
       /\ sysq' = queues
       /\ UNCHANGED hubq
  ELSE /\ node' = [node EXCEPT ![n] = Execute(m, Head(queues[n]))]
       /\ sysq' = [queues EXCEPT ![n] = Tail(@)]
       /\ Post(Sends(n, Head(queues[n])))

(* A mistake; only the mutation tests use it.                              *)
ThenChangeTo_Ready(s, m) == [m EXCEPT !.change = TRUE, !.cmd = "READY"]

(* node_loop_processing asks for the next change of the start itself, in   *)
(* INITIALIZING after the processing (no command touches these members).   *)
ThenChangeTo(s, m) == [m EXCEPT !.change = TRUE, !.cmd = s]
-----------------------------------------------------------------------------
(* The beginning of a cycle: while (is_main_thread_running_), then         *)
(* generate_signal_to_chenge_node_state.                                   *)
AtTop(n) == pc[n] = "top" /\ node[n].running
Generated(n) == generate_signal(node[n])

(* The end of a cycle: _set_state publishes the state, which every user    *)
(* node of the repository does.                                            *)
Publish(n) == pub' = [pub EXCEPT ![n] = node'[n].sm]

Maps == <<stateMap, sysMap>>

(* The user's hook is asked about this change.                             *)
Hooked(m) == m.cmd # m.sm /\ CallsHook(m)

(* A cycle that changes the state begins with the hook of b_node, which    *)
(* pushes its orders first. The user's hook has not returned yet.          *)
GiveOrders(n) ==
  LET g == Generated(n)
  IN  /\ AtTop(n)
      /\ g.change /\ g.sm # "TRANSITING" /\ Hooked(g)
      /\ node' = [node EXCEPT ![n] = g]
      /\ pc' = [pc EXCEPT ![n] = "hook"]
      /\ sysq' = IF g.cmd = "INITIALIZING" THEN sysq
                 ELSE Broadcast(n, Order(g.cmd))
      /\ Post(IF g.cmd = "INITIALIZING" THEN ToHub("PICK_SHARED_PTR", n)
              ELSE << >>)
      /\ UNCHANGED <<left, pub, Maps>>

(* And ends when the user's hook has returned ok, or at once where none is *)
(* asked. (A request that arrives meanwhile waits for the next cycle.)     *)
ChangeState(n) ==
  LET m == IF pc[n] = "hook" THEN node[n] ELSE Generated(n)
  IN  /\ \/ pc[n] = "hook"
         \/ AtTop(n) /\ m.change /\ m.sm # "TRANSITING" /\ ~Hooked(m)
      /\ \E ok \in Hook[n][m.cmd] :
           /\ node' = [node EXCEPT ![n] = change_node_state(m, ok)]
           /\ Post(IF Hooked(m) /\ m.cmd = "FORCE_STOP" /\ ~ok
                   THEN ToHub("DELETE_SHARED_PTR", n) ELSE << >>)
      /\ pc' = [pc EXCEPT ![n] = "top"]
      /\ Publish(n)
      /\ UNCHANGED <<left, sysq, Maps>>

(* A cycle that runs the processing of the current state.                  *)
LoopProcess(n) ==
  LET g == Generated(n)
  IN  /\ AtTop(n)
      /\ ~g.change /\ g.sm # "TRANSITING"
      /\ CASE g.sm = "UNCONFIGURED" ->
                /\ node' = [node EXCEPT ![n] = ThenChangeTo("INITIALIZING", g)]
                /\ UNCHANGED <<sysq, hubq>>
           [] g.sm = "INITIALIZING" ->
                Processing(n, ThenChangeTo("READY", g), sysq)
           [] OTHER -> Processing(n, g, sysq)
      /\ Publish(n)
      /\ UNCHANGED <<pc, left, Maps>>

(* transit_processing with an expired watch dog puts the node back into    *)
(* its previous state and orders the required nodes back as well.          *)
RollBack_NoReturn(n) ==
  LET g == Generated(n)
  IN  /\ AtTop(n) /\ g.sm = "TRANSITING" /\ g.expired
      /\ node' = [node EXCEPT ![n] = [g EXCEPT !.expired = FALSE]]
      /\ sysq' = Broadcast(n, RollBackOrder(g.prev))
      /\ pc' = [pc EXCEPT ![n] = "back"]
      /\ UNCHANGED <<left, pub, hubq, Maps>>

RollBack(n) ==
  LET g == Generated(n)
  IN  /\ AtTop(n) /\ g.sm = "TRANSITING" /\ g.expired
      /\ node' = [node EXCEPT ![n] = [g EXCEPT !.sm = g.prev, !.expired = FALSE]]
      /\ sysq' = Broadcast(n, RollBackOrder(g.prev))
      /\ pc' = [pc EXCEPT ![n] = "back"]
      /\ UNCHANGED <<left, pub, hubq, Maps>>

Transit_ScansAtOnce(n) ==
  LET m == IF pc[n] = "back" THEN node[n] ELSE Generated(n)
  IN  /\ \/ pc[n] = "back"
         \/ AtTop(n) /\ m.sm = "TRANSITING" /\ ~m.expired
      /\ IF m.prev = "UNCONFIGURED"
         THEN node' = [node EXCEPT ![n] = m] /\ UNCHANGED <<sysq, hubq>>
         ELSE Processing(n, m, sysq)
      /\ Publish(n)
      /\ pc' = [pc EXCEPT ![n] = "scan"]
      /\ left' = [left EXCEPT ![n] = stateMap[n]]
      /\ UNCHANGED Maps

(* transit_processing, up to the scan of the required nodes: the           *)
(* processing of the previous state runs in any case, after a roll back as *)
(* well, and publishes the state (that of UNCONFIGURED is empty). The scan *)
(* follows even after a roll back, if all required nodes are known.        *)
Transit(n) ==
  LET m == IF pc[n] = "back" THEN node[n] ELSE Generated(n)
      scans == Cardinality(stateMap[n]) = Len(Req[n])
  IN  /\ \/ pc[n] = "back"
         \/ AtTop(n) /\ m.sm = "TRANSITING" /\ ~m.expired
      /\ IF m.prev = "UNCONFIGURED"
         THEN node' = [node EXCEPT ![n] = m] /\ UNCHANGED <<sysq, hubq>>
         ELSE Processing(n, m, sysq)
      /\ IF scans /\ m.prev = "UNCONFIGURED" THEN UNCHANGED pub ELSE Publish(n)
      /\ pc' = [pc EXCEPT ![n] = IF scans THEN "scan" ELSE "top"]
      /\ left' = [left EXCEPT ![n] = IF scans THEN stateMap[n] ELSE {}]
      /\ UNCHANGED Maps

(* A mistake; only the mutation tests use it.                              *)
ReadState_UnderWay(n) ==
  /\ pc[n] = "scan"
  /\ \E k \in left[n] :
       IF pub[k] \in {node[n].dest, "TRANSITING"}
       THEN left' = [left EXCEPT ![n] = @ \ {k}] /\ UNCHANGED <<pc, pub>>
       ELSE /\ left' = [left EXCEPT ![n] = {}]
            /\ pc' = [pc EXCEPT ![n] = "top"]
            /\ UNCHANGED pub
  /\ UNCHANGED <<node, sysq, hubq, Maps>>

(* The scan reads one published state. Having seen one that differs from   *)
(* the destination it cannot succeed any more, and the cycle ends. The     *)
(* code reads in the order of the ids, which the hub decides; any order is *)
(* allowed here.                                                           *)
ReadState(n) ==
  /\ pc[n] = "scan"
  /\ \E k \in left[n] :
       IF pub[k] = node[n].dest
       THEN left' = [left EXCEPT ![n] = @ \ {k}] /\ UNCHANGED <<pc, pub>>
       ELSE /\ left' = [left EXCEPT ![n] = {}]
            /\ pc' = [pc EXCEPT ![n] = "top"]
            /\ pub' = [pub EXCEPT ![n] = node[n].sm]
  /\ UNCHANGED <<node, sysq, hubq, Maps>>

Commit_ToCommand(n) ==
  /\ pc[n] = "scan" /\ left[n] = {}
  /\ node' = [node EXCEPT ![n].sm = node[n].cmd, ![n].expired = FALSE]
  /\ pc' = [pc EXCEPT ![n] = "top"]
  /\ Publish(n)
  /\ UNCHANGED <<left, sysq, hubq, Maps>>

(* All of them were seen in the destination state: the node follows.       *)
(* (The after-hooks of _change_node_state only matter for FORCE_STOP,      *)
(* which no running node is in transit to.)                                *)
Commit(n) ==
  /\ pc[n] = "scan" /\ left[n] = {}
  /\ node' = [node EXCEPT ![n].sm = node[n].dest, ![n].expired = FALSE]
  /\ pc' = [pc EXCEPT ![n] = "top"]
  /\ Publish(n)
  /\ UNCHANGED <<left, sysq, hubq, Maps>>

(* The main thread leaves its loop. The state it published last stays.     *)
Exit(n) ==
  /\ pc[n] = "top" /\ ~node[n].running
  /\ node' = [node EXCEPT ![n].sm = "UNCONFIGURED"]
  /\ pc' = [pc EXCEPT ![n] = "off"]
  /\ UNCHANGED <<left, pub, sysq, hubq, Maps>>

(* transit_watch_dog_time passes. The next cycle of the node sees it, if   *)
(* the node is still in transit then. (The clock is not a monotonic one:   *)
(* it may pass at once.)                                                   *)
Elapse(n) ==
  /\ node[n].sm = "TRANSITING" /\ ~node[n].expired
  /\ node' = [node EXCEPT ![n].expired = TRUE]
  /\ UNCHANGED <<pc, left, pub, sysq, hubq, Maps>>

(* The main loop of n: its steps exclude each other.                       *)
Cycle(n) ==
  \/ GiveOrders(n) \/ ChangeState(n)
  \/ LoopProcess(n)
  \/ RollBack(n) \/ Transit(n) \/ ReadState(n) \/ Commit(n)
-----------------------------------------------------------------------------
(* The public operations, called by any thread, one flag each.             *)
Request(n, s) ==
  /\ node' = [node EXCEPT ![n].flags = @ \union {s}]
  /\ UNCHANGED <<pc, left, pub, sysq, hubq, Maps>>

(* End                                                                     *)
End(n) ==
  /\ node' = [node EXCEPT ![n].running = FALSE]
  /\ Post(ToHub("DELETE_SHARED_PTR", n))
  /\ UNCHANGED <<pc, left, pub, sysq, Maps>>

(* A system command that arrives by UDP (_task_recv).                      *)
Receive(n, c) ==
  /\ sysq' = [sysq EXCEPT ![n] = Stack!Offer(@, SysCap, c)]
  /\ UNCHANGED <<node, pc, left, pub, hubq, Maps>>

(* A hook of the user notices, or no longer sees, an error or a warning.   *)
Notice(n, f) ==
  /\ pc[n] = "top" /\ node[n].running
  /\ \/ f \notin node[n].flags
        /\ node' = [node EXCEPT ![n].flags = @ \union {f}]
     \/ f \in node[n].flags
        /\ node' = [node EXCEPT ![n].flags = @ \ {f}]
  /\ UNCHANGED <<pc, left, pub, sysq, hubq, Maps>>
=============================================================================
