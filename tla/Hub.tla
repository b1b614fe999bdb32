-------------------------------- MODULE Hub --------------------------------
(***************************************************************************)
(* The start of a system (bp_system/b_system/hub.cpp): main executes the   *)
(* root nodes, each node that starts makes itself known to the hub, the    *)
(* hub wires it to the node that waits for it and asks it for its own      *)
(* requirements, which the hub then executes in turn. exec_node runs in    *)
(* two threads, the caller's and the hub's, over the same maps.            *)
(*                                                                         *)
(* A node is known in the maps by an id. Commands and wires name the node  *)
(* here, and idOf gives the id: the two agree while OwnIds holds.          *)
(***************************************************************************)
EXTENDS BNode

CONSTANTS
  Roots,     (* the nodes that main passes to exec_node                    *)
  Ended,     (* the nodes that get an END by UDP, at some time             *)
  WatchDogs  (* the nodes whose watch dog time may be too short            *)

(* No root is required by a node or named twice: exec_node would end the   *)
(* program (std::exit).                                                    *)
ASSUME RootAssumption ==
  Roots \subseteq Nodes /\ \A n \in Nodes : RequiredBy(n) \intersect Roots = {}

ASSUME EnvironmentAssumption == Ended \subseteq Nodes /\ WatchDogs \subseteq Nodes

Thread == {"main", "hub"}

VARIABLES
  todo,      (* the roots that main has not executed yet                   *)
  job,       (* what a thread does: exec_node, pick_shared_ptr, or nothing *)
  claimed,   (* the keys of running_node_name2type_list                    *)
  next,      (* allocated_node_id                                          *)
  idOf,      (* running_node_name2id_list; BEHAVIOR_HUB_ID if it is not in *)
  listed,    (* the nodes in running_node_list                             *)
  waiting    (* waiting_node_list: the node that waits for n, if any       *)

hubVars == <<todo, job, claimed, next, idOf, listed, waiting>>
vars == <<nodeVars, hubVars>>

BEHAVIOR_HUB_ID == 0
Idle == [at |-> "idle", for |-> {}, waiter |-> {}]
Job(at, n, w) == [at |-> at, for |-> {n}, waiter |-> w]
Busy(t, at) == job[t].at = at
Becomes(t, j) == job' = [job EXCEPT ![t] = j]

(* The keys of running_node_id2name_list; the hub itself has one.          *)
Taken == {BEHAVIOR_HUB_ID} \union {idOf[n] : n \in Nodes}

(* The nodes that exec_node has started: it no longer works on them.       *)
Started ==
  {n \in claimed : \A t \in Thread :
     n \in job[t].for => job[t].at \notin {"named", "found", "listed"}}

(* A node as its constructor leaves it (prev is not set, and is written    *)
(* before it is read).                                                     *)
NewNode == [sm |-> "UNCONFIGURED", cmd |-> "UNCONFIGURED", change |-> FALSE,
            flags |-> {}, prev |-> "UNCONFIGURED", dest |-> "READY",
            expired |-> FALSE, running |-> FALSE]

Init ==
  /\ node = [n \in Nodes |-> NewNode]
  /\ pc = [n \in Nodes |-> "off"]
  /\ left = [n \in Nodes |-> {}]
  /\ pub = [n \in Nodes |-> "UNCONFIGURED"]
  /\ sysq = [n \in Nodes |-> << >>]
  /\ stateMap = [n \in Nodes |-> {}]
  /\ sysMap = [n \in Nodes |-> {}]
  /\ hubq = << >>
  /\ todo = Roots
  /\ job = [t \in Thread |-> Idle]
  /\ claimed = {}
  /\ next = 0
  /\ idOf = [n \in Nodes |-> BEHAVIOR_HUB_ID]
  /\ listed = {}
  /\ waiting = [n \in Nodes |-> {}]
-----------------------------------------------------------------------------
(* A mistake; only the mutation tests use it and the others that say so.   *)
ClaimName_NoCheck(t, n, waiter) ==
  claimed' = claimed \union {n} /\ Becomes(t, Job("named", n, waiter))

(* exec_node, first part: the name must not be in use.                     *)
ClaimName(t, n, waiter) ==
  IF n \in claimed THEN UNCHANGED <<job, claimed>>
  ELSE claimed' = claimed \union {n} /\ Becomes(t, Job("named", n, waiter))

(* main calls exec_node.                                                   *)
MainExecutes(n) ==
  /\ Busy("main", "idle") /\ n \in todo
  /\ todo' = todo \ {n}
  /\ ClaimName("main", n, {})
  /\ UNCHANGED <<nodeVars, next, idOf, listed, waiting>>

HubExecutes_WaitsForItself(c) ==
  /\ c.type = "START_NODE"
  /\ ClaimName("hub", c.target, {c.target})
  /\ UNCHANGED <<sysq, waiting>>

(* The hub pops START_NODE.                                                *)
HubExecutes(c) ==
  /\ c.type = "START_NODE"
  /\ ClaimName("hub", c.target, {c.source})
  /\ UNCHANGED <<sysq, waiting>>

FindId_NoCheck(t) ==
  /\ Busy(t, "named")
  /\ job' = [job EXCEPT ![t].at = "found"]
  /\ UNCHANGED <<nodeVars, todo, claimed, next, idOf, listed, waiting>>

(* "Check unique node id": one turn of the loop that looks for a free one. *)
(* Both threads move the same allocated_node_id.                           *)
FindId(t) ==
  /\ Busy(t, "named")
  /\ IF next \in Taken THEN next' = next + 1 /\ UNCHANGED job
     ELSE job' = [job EXCEPT ![t].at = "found"] /\ UNCHANGED next
  /\ UNCHANGED <<nodeVars, todo, claimed, idOf, listed, waiting>>

Register_RootNotListed(t) ==
  /\ Busy(t, "found")
  /\ \E n \in job[t].for :
       /\ idOf' = [idOf EXCEPT ![n] = next]
       /\ listed' = IF t = "main" THEN listed ELSE listed \union {n}
       /\ waiting' = [waiting EXCEPT ![n] = job[t].waiter]
  /\ job' = [job EXCEPT ![t].at = "listed"]
  /\ UNCHANGED <<nodeVars, todo, claimed, next>>

(* The node enters the maps, under the id that allocated_node_id has now.  *)
(* (The code reads allocated_node_id once for each map. Between two reads  *)
(* the other thread could move it: one more way to the counterexample of   *)
(* the run two_roots; with a single root it does not happen.)              *)
Register(t) ==
  /\ Busy(t, "found")
  /\ \E n \in job[t].for :
       /\ idOf' = [idOf EXCEPT ![n] = next]
       /\ listed' = listed \union {n}
       /\ waiting' = [waiting EXCEPT ![n] = job[t].waiter]
  /\ job' = [job EXCEPT ![t].at = "listed"]
  /\ UNCHANGED <<nodeVars, todo, claimed, next>>

(* Start_Node: Start runs the main thread of the node and waits for it.    *)
Start(t) ==
  /\ Busy(t, "listed")
  /\ \E n \in job[t].for :
       IF node[n].running THEN UNCHANGED <<node, pc>>
       ELSE /\ node' = [node EXCEPT ![n] =
                         [@ EXCEPT !.running = TRUE, !.flags = {},
                                   !.change = FALSE, !.dest = "READY"]]
            /\ pc' = [pc EXCEPT ![n] = "top"]
  /\ Becomes(t, Idle)
  /\ UNCHANGED <<left, pub, sysq, hubq, Maps, todo, claimed, next, idOf,
                 listed, waiting>>
-----------------------------------------------------------------------------
AskRequirements_HubCode(n) ==
  sysq' = [sysq EXCEPT ![n] = Stack!Offer(@, SysCap, "START_NODE")]

(* send_your_requirement_node_list                                         *)
AskRequirements(n) ==
  sysq' = [sysq EXCEPT ![n] = Stack!Offer(@, SysCap, "REQUIRE_NODE_LIST")]

(* The hub pops PICK_SHARED_PTR: pick_shared_ptr, if nobody waits for the  *)
(* node. If a node does, it is wired first, while it runs.                 *)
Pick(c) ==
  /\ c.type = "PICK_SHARED_PTR"
  /\ IF waiting[c.source] = {}
     THEN AskRequirements(c.source) /\ UNCHANGED job
     ELSE Becomes("hub", Job("wire", c.source, waiting[c.source]))
          /\ UNCHANGED sysq
  /\ UNCHANGED <<claimed, waiting>>

(* Of a node that ended the hub forgets its own copies of the pointers.    *)
Delete(c) ==
  c.type = "DELETE_SHARED_PTR" /\ UNCHANGED <<job, sysq, claimed, waiting>>

(* cmd_executor: one command per cycle of the hub.                         *)
HubPops ==
  /\ Busy("hub", "idle") /\ hubq # << >>
  /\ hubq' = Tail(hubq)
  /\ LET c == Head(hubq) IN HubExecutes(c) \/ Pick(c) \/ Delete(c)
  /\ UNCHANGED <<node, pc, left, pub, Maps, todo, next, idOf, listed>>

(* set_relative_node_state_ptr                                             *)
WireState ==
  /\ Busy("hub", "wire")
  /\ stateMap' = [n \in Nodes |-> IF n \in job["hub"].waiter
                                  THEN stateMap[n] \union job["hub"].for
                                  ELSE stateMap[n]]
  /\ job' = [job EXCEPT !["hub"].at = "wired"]
  /\ UNCHANGED <<node, pc, left, pub, sysq, sysMap, hubq, todo, claimed, next,
                 idOf, listed, waiting>>

WireOrders_NoRequest ==
  /\ Busy("hub", "wired")
  /\ sysMap' = [n \in Nodes |-> IF n \in job["hub"].waiter
                                THEN sysMap[n] \union job["hub"].for
                                ELSE sysMap[n]]
  /\ \E n \in job["hub"].for : waiting' = [waiting EXCEPT ![n] = {}]
  /\ Becomes("hub", Idle)
  /\ UNCHANGED <<node, pc, left, pub, sysq, stateMap, hubq, todo, claimed,
                 next, idOf, listed>>

(* set_relative_node_sys_cmd_ptr, and the rest of pick_shared_ptr          *)
WireOrders ==
  /\ Busy("hub", "wired")
  /\ sysMap' = [n \in Nodes |-> IF n \in job["hub"].waiter
                                THEN sysMap[n] \union job["hub"].for
                                ELSE sysMap[n]]
  /\ \E n \in job["hub"].for :
       waiting' = [waiting EXCEPT ![n] = {}] /\ AskRequirements(n)
  /\ Becomes("hub", Idle)
  /\ UNCHANGED <<node, pc, left, pub, stateMap, hubq, todo, claimed, next,
                 idOf, listed>>
-----------------------------------------------------------------------------
MainStep == (\E n \in Roots : MainExecutes(n))
            \/ FindId("main") \/ Register("main") \/ Start("main")
HubStep == HubPops \/ WireState \/ WireOrders
           \/ FindId("hub") \/ Register("hub") \/ Start("hub")
NodeStep(n) == (Cycle(n) \/ Exit(n)) /\ UNCHANGED hubVars
WatchDog(n) == Elapse(n) /\ UNCHANGED hubVars

(* A node gets an END by UDP, once. Its stacks exist once it runs.         *)
ToldToEnd(n) ==
  /\ pc[n] # "off" /\ \A i \in DOMAIN sysq[n] : sysq[n][i] # "END"
  /\ Receive(n, "END") /\ UNCHANGED hubVars

Next == \/ MainStep \/ HubStep
        \/ \E n \in Nodes : NodeStep(n)
        \/ \E n \in WatchDogs : WatchDog(n)
        \/ \E n \in Ended : ToldToEnd(n)

(* main, the hub and the nodes run, and time passes.                       *)
Fairness == /\ WF_vars(MainStep) /\ WF_vars(HubStep)
            /\ \A n \in Nodes : WF_vars(NodeStep(n))
            /\ \A n \in WatchDogs : WF_vars(WatchDog(n))

Spec == Init /\ [][Next]_vars /\ Fairness
-----------------------------------------------------------------------------
TypeOK ==
  /\ node \in [Nodes -> NodeRecord]
  /\ pc \in [Nodes -> {"top", "hook", "back", "scan", "off"}]
  /\ left \in [Nodes -> SUBSET Nodes]
  /\ pub \in [Nodes -> State]
  /\ sysq \in [Nodes -> Seq(SysCmd)]
  /\ stateMap \in [Nodes -> SUBSET Nodes]
  /\ sysMap \in [Nodes -> SUBSET Nodes]
  /\ hubq \in Seq(HubCmd)
  /\ todo \subseteq Nodes
  /\ job \in [Thread -> [at : {"idle", "named", "found", "listed", "wire", "wired"},
                         for : SUBSET Nodes, waiter : SUBSET Nodes]]
  /\ claimed \subseteq Nodes
  /\ next \in Nat
  /\ idOf \in [Nodes -> Nat]
  /\ listed \subseteq Nodes
  /\ waiting \in [Nodes -> SUBSET Nodes]

(* No two nodes, and no node and the hub, share an id ("Check unique node  *)
(* id"): commands, wires and the maps of the hub all go by it.             *)
OwnIds ==
  \A m, n \in listed : idOf[n] # BEHAVIOR_HUB_ID /\ (m # n => idOf[m] # idOf[n])

(* A node whose pointers the hub is asked to pick is in running_node_list, *)
(* and so is the node that waits for it: pick_shared_ptr calls both        *)
(* without looking.                                                        *)
PickFindsNode ==
  \A i \in DOMAIN hubq : hubq[i].type = "PICK_SHARED_PTR" =>
    hubq[i].source \in listed /\ waiting[hubq[i].source] \subseteq listed

(* However often a node asks for the nodes it requires, none of them is    *)
(* started while it runs, or again after it has ended.                     *)
NoSecondStart ==
  \A t \in Thread : job[t].at \in {"named", "found", "listed"} =>
    \A n \in job[t].for :
      /\ pc[n] = "off" /\ sysq[n] = << >>
      /\ \A u \in Thread \ {t} : n \notin job[u].for

(* A node watches and commands only nodes it requires, commands only what  *)
(* it watches, and no node takes its orders from two nodes.                *)
WiredAsRequired ==
  /\ \A n \in Nodes : sysMap[n] \subseteq stateMap[n]
                      /\ stateMap[n] \subseteq RequiredBy(n)
  /\ \A m, n \in Nodes : m # n => stateMap[m] \intersect stateMap[n] = {}

(* Whatever the nodes ask for, and in whatever order their commands reach  *)
(* the hub, the two threads that run exec_node start nodes from the roots  *)
(* downwards, each once, and the hub hands a node over to a running node   *)
(* that requires it, its state before its stack, and to no second one.     *)
Ordered == INSTANCE StartOrder
  WITH Requires <- [n \in Nodes |-> RequiredBy(n)],
       started <- Started, watches <- stateMap, commands <- sysMap
StartsInOrder == Ordered!OrderSpec

(* A node that waits before it gets READY has all the nodes it requires    *)
(* from then on, and commands all of them but the one that the hub is just *)
(* handing to it: the hub wires it while it already waits and scans.       *)
BeingWired(n) ==
  IF Busy("hub", "wired") /\ n \in job["hub"].waiter THEN job["hub"].for ELSE {}
ReadyIsWired ==
  \A n \in Nodes :
    (Hook[n]["READY"] = {FALSE} /\ node[n].sm \in {"READY", "STABLE", "REPAIR"})
      => /\ stateMap[n] = RequiredBy(n)
         /\ RequiredBy(n) \ sysMap[n] \subseteq BeingWired(n)

(* The nodes keep to the state machine of the README from their start on.  *)
FollowsStateMachine == Machine!MachineSpec

(* Nothing that the start needs is forgotten on the way: as long as no     *)
(* stack is filled up, whenever the hub, its stack and those of the nodes  *)
(* are at rest, every node that a node in its work requires has been       *)
(* started, and is wired to it once it has made itself known.              *)
WithRoom == Len(hubq) < HubCap /\ \A n \in Nodes : Len(sysq[n]) < SysCap
AtRest == /\ hubq = << >> /\ \A n \in Nodes : sysq[n] = << >>
          /\ \A t \in Thread : Busy(t, "idle")
Known(n) ==
  /\ node[n].sm \notin {"UNCONFIGURED", "FORCE_STOP"}
  /\ node[n].sm = "TRANSITING" => node[n].dest # "FORCE_STOP"
Served(n, k) == /\ k \in Started
                /\ Known(k) => k \in stateMap[n] /\ k \in sysMap[n]
NothingForgotten ==
  []WithRoom =>
    [](AtRest => \A n \in Nodes : Known(n) => \A k \in RequiredBy(n) : Served(n, k))

(* The start never hangs: unless the hub's stack overflows or a hook       *)
(* refuses to initialize for ever, all nodes get READY in the end (unless  *)
(* they are ended) and are wired to the nodes they require.                *)
Initialized(n) ==
  /\ node[n].sm # "UNCONFIGURED"
  /\ node[n].sm = "TRANSITING" => node[n].dest = "READY"
StartCompletes ==
  ([](Len(hubq) < HubCap) /\ \A n \in Nodes : node[n].running ~> Initialized(n))
    => <>[](\A n \in Nodes : /\ pub[n] = "READY" \/ n \in Ended
                             /\ stateMap[n] = RequiredBy(n)
                             /\ sysMap[n] = RequiredBy(n))
-----------------------------------------------------------------------------
(* doc/design/abstruct_of_b_system.md: a node that lists another one in    *)
(* requirement_node_list gets its shared memory without further ado. So    *)
(* every node gets that of all the nodes it requires, also when another    *)
(* node requires one of them too.                                          *)
EveryRequirementWired == <>(\A n \in Nodes : stateMap[n] = RequiredBy(n))

(* README, "node A calls node B when it starts": the nodes that a running  *)
(* node requires are started, also when its hook for INITIALIZING returns  *)
(* false in order to wait for them.                                        *)
RequiredNodesStart ==
  \A n \in Nodes : \A k \in RequiredBy(n) : node[n].running ~> node[k].running

(* README, "State Machine": a node that waited in vain returns to the      *)
(* state before the transition. Nobody asks for STABLE during the start,   *)
(* so no node may ever leave for it.                                       *)
NobodyStable == \A n \in Nodes : node[n].sm # "STABLE"
=============================================================================
