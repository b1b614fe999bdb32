--------------------------- MODULE NodeTreeProofs ---------------------------
(***************************************************************************)
(* For every system of nodes, whatever they require, whatever their hooks  *)
(* return and whatever calls, commands and errors arrive: the types, the   *)
(* invariants of the state machine, that every node implements it, and     *)
(* that no node goes on against an error it knows of. And that a node that *)
(* waits and a node that it alone steers move together, and that what it   *)
(* orders gets there, whatever happens in the rest of the system.          *)
(***************************************************************************)
EXTENDS NodeTree, BNodeProofs

(* The inductive invariant.                                                *)
Inv == TypeOK /\ \A n \in Nodes : NodeOK(n)
-----------------------------------------------------------------------------
(* Every step of the system is a step of one node, or the hub's.           *)
LEMMA NextIsStep ==
  Inv /\ Next => (\E n \in Nodes : StepOK(n)) \/ (HubTakes /\ UNCHANGED given)
<1> SUFFICES ASSUME Inv, Next
             PROVE  (\E n \in Nodes : StepOK(n)) \/ (HubTakes /\ UNCHANGED given)
  OBVIOUS
<1>1. NodeTypes /\ \A n \in Nodes : NodeOK(n)
  BY DEF Inv, TypeOK, NodeTypes
<1>2. CASE Call
  <2>1. PICK r \in Requests :
          IF r[2] = "end" THEN End(r[1]) ELSE Request(r[1], r[2])
    BY <1>2 DEF Call
  <2>2. r[1] \in Nodes /\ r[2] \in Signal \union {"end"}
    BY <2>1, InputAssumption
  <2> QED
    BY <1>1, <2>1, <2>2, EndOK, RequestOK
<1>3. CASE Arrival
  <2>1. PICK r \in Received : Receive(r[1], r[2])
    BY <1>3 DEF Arrival
  <2>2. r[1] \in Nodes /\ r[2] \in SysCmd
    BY <2>1, InputAssumption
  <2> QED
    BY <1>1, <2>1, <2>2, ReceiveOK
<1>4. CASE Internal
  <2>1. CASE \E n \in Nodes : Cycle(n) \/ Exit(n)
    BY <1>1, <2>1, GiveOrdersOK, ChangeStateOK, LoopProcessOK, RollBackOK,
       TransitStepOK, ReadStateOK, CommitOK, ExitOK DEF Cycle
  <2>2. CASE \E n \in WatchDogs : Elapse(n)
    BY <1>1, <2>2, InputAssumption, ElapseOK
  <2>3. CASE \E r \in Noticed : Notice(r[1], r[2])
    <3>1. PICK r \in Noticed : Notice(r[1], r[2])
      BY <2>3
    <3>2. r[1] \in Nodes /\ r[2] \in {"error", "warning"}
      BY <3>1, InputAssumption
    <3> QED
      BY <1>1, <3>1, <3>2, NoticeOK
  <2>4. CASE HubTakes
    BY <1>4, <2>4 DEF Internal
  <2> QED
    BY <1>4, <2>1, <2>2, <2>3, <2>4 DEF Internal
<1> QED
  BY <1>2, <1>3, <1>4 DEF Next

LEMMA InitInv == Init => Inv
<1> SUFFICES ASSUME Init PROVE Inv
  OBVIOUS
<1>1. ReadyNode \in NodeRecord
  BY DEF ReadyNode, NodeRecord, State
<1>2. \A n \in Nodes : RequiredBy(n) \in SUBSET Nodes
  BY ReqAssumption DEF RequiredBy
<1>3. TypeOK
  BY <1>1, <1>2 DEF Init, TypeOK, State
<1>4. ASSUME NEW n \in Nodes PROVE NodeOK(n)
  <2>1. node[n] = ReadyNode /\ pc[n] = "top"
    BY DEF Init
  <2> QED
    BY <2>1 DEF NodeOK, TransitOK, PendingOK, StopPending, ReadyNode
<1> QED
  BY <1>3, <1>4 DEF Inv

LEMMA NextInv == Inv /\ [Next]_vars => Inv'
<1> SUFFICES ASSUME Inv, [Next]_vars PROVE Inv'
  OBVIOUS
<1>1. NodeTypes /\ given \in Nat /\ \A n \in Nodes : NodeOK(n)
  BY DEF Inv, TypeOK, NodeTypes
<1>2. given' \in Nat
  BY <1>1 DEF Next, Call, Arrival, Internal, vars
<1>3. CASE UNCHANGED vars
  BY <1>1, <1>3 DEF vars, nodeVars, Inv, TypeOK, NodeTypes, NodeOK
<1>4. CASE HubTakes /\ UNCHANGED given
  <2>1. hubq' \in Seq(HubCmd)
    BY <1>1, <1>4 DEF HubTakes, NodeTypes
  <2> QED
    BY <1>1, <1>2, <1>4, <2>1
       DEF HubTakes, Maps, Inv, TypeOK, NodeTypes, NodeOK
<1>5. CASE \E n \in Nodes : StepOK(n)
  <2>1. PICK n \in Nodes : StepOK(n)
    BY <1>5
  <2>2. ASSUME NEW k \in Nodes PROVE NodeOK(k)'
    <3>1. CASE k = n
      BY <2>1, <3>1 DEF StepOK
    <3>2. CASE k # n
      <4>1. node'[k] = node[k] /\ pc'[k] = pc[k]
        BY <1>1, <2>1, <3>2 DEF StepOK, NodeTypes
      <4> QED
        BY <1>1, <4>1 DEF NodeOK
    <3> QED
      BY <3>1, <3>2
  <2>3. NodeTypes'
    BY <2>1 DEF StepOK
  <2> QED
    BY <1>2, <2>2, <2>3 DEF Inv, TypeOK, NodeTypes
<1> QED
  BY <1>3, <1>4, <1>5, NextIsStep

(* The invariant above holds in every system of nodes.                     *)
THEOREM InvHolds == Spec => []Inv
BY InitInv, NextInv, PTL DEF Spec

(* Every member, stack and published state keeps its type.                 *)
THEOREM TypeOKHolds == Spec => []TypeOK
<1>1. Inv => TypeOK
  BY DEF Inv
<1> QED
  BY <1>1, InvHolds, PTL

(* A node only ever waits on an arrow of the state machine.                *)
THEOREM WaitsOnArrowHolds == Spec => []WaitsOnArrow
<1>1. Inv => WaitsOnArrow
  BY DEF Inv, NodeOK, TransitOK, WaitsOnArrow, Arrow
<1> QED
  BY <1>1, InvHolds, PTL

(* Only a force stop can be pending in a node that is in transit.          *)
THEOREM OnlyForceStopPendingHolds == Spec => []OnlyForceStopPending
<1>1. Inv => OnlyForceStopPending
  <2> SUFFICES ASSUME Inv, NEW n \in Nodes,
                      node[n].sm = "TRANSITING", node[n].change
               PROVE  node[n].cmd = "FORCE_STOP"
    BY DEF OnlyForceStopPending
  <2>1. pc[n] # "off"
    BY DEF Inv, NodeOK
  <2> QED
    BY <2>1, ArrowFacts DEF Inv, NodeOK, PendingOK
<1> QED
  BY <1>1, InvHolds, PTL
-----------------------------------------------------------------------------
(* Every behaviour of every system of nodes is, seen through the states    *)
(* alone, a behaviour of the state machine of the README.                  *)
THEOREM ImplementsStateMachine == Spec => FollowsStateMachine
<1>1. Init => Machine!MachineInit
  BY DEF Init, ReadyNode, Machine!MachineInit
<1>2. Inv /\ [Next]_vars => [Machine!MachineNext]_(Machine!machineVars)
  <2> SUFFICES ASSUME Inv, [Next]_vars
               PROVE  [Machine!MachineNext]_(Machine!machineVars)
    OBVIOUS
  <2>1. CASE UNCHANGED vars
    BY <2>1 DEF vars, nodeVars, Machine!machineVars
  <2>2. CASE HubTakes
    BY <2>2 DEF HubTakes, Machine!machineVars
  <2>3. CASE \E n \in Nodes : StepOK(n)
    BY <2>3, StepRefines DEF Inv, TypeOK, NodeTypes
  <2> QED
    BY <2>1, <2>2, <2>3, NextIsStep
<1> QED
  BY <1>1, <1>2, InvHolds, PTL DEF Spec, FollowsStateMachine, Machine!MachineSpec
-----------------------------------------------------------------------------
(* An error that a node knows of is decided for before any request, and    *)
(* nothing but a force stop can have been pending.                         *)
LEMMA ErrorDecides ==
  ASSUME NEW b \in NodeRecord, "error" \in b.flags, StopPending(b),
         b.sm \in {"READY", "STABLE", "REPAIR"}, generate_signal(b).change
  PROVE  generate_signal(b).cmd = "FORCE_STOP"
<1>1. Decision(b) = Nothing \/ Decision(b).to = "FORCE_STOP"
  BY DEF Decision, FromStable, FromRepair, FromReady, Decide
<1>2. CASE Decision(b) = Nothing
  BY <1>2 DEF generate_signal, StopPending
<1>3. CASE Decision(b) # Nothing
  <2> DEFINE d == Decision(b)
  <2>1. generate_signal(b) = [b EXCEPT !.change = TRUE, !.cmd = d.to,
                                      !.flags = @ \ d.uses]
    BY <1>3 DEF generate_signal
  <2>2. d.to = "FORCE_STOP"
    BY <1>1, <1>3
  <2> HIDE DEF d
  <2> QED
    BY <2>1, <2>2 DEF NodeRecord
<1> QED
  BY <1>2, <1>3

(* What holds while the user's hook is being asked: a node that knew of an *)
(* error has decided for a force stop.                                     *)
ErrorOK(n) ==
  (pc[n] = "hook" /\ "error" \in node[n].flags /\ node[n].sm \in Work)
    => node[n].cmd = "FORCE_STOP"

(* Any step of node m, the inputs of m included.                           *)
StepOf(m) == \/ Cycle(m) \/ Exit(m) \/ End(m) \/ Elapse(m)
             \/ \E s \in Signal : Request(m, s)
             \/ \E c \in SysCmd : Receive(m, c)
             \/ \E f \in {"error", "warning"} : Notice(m, f)

LEMMA OtherStep ==
  ASSUME Inv, NEW n \in Nodes, NEW m \in Nodes, m # n, StepOf(m)
  PROVE  node'[n] = node[n] /\ pc'[n] = pc[n]
<1>1. NodeTypes /\ NodeOK(m)
  BY DEF Inv, TypeOK, NodeTypes
<1>2. StepOK(m)
  BY <1>1, GiveOrdersOK, ChangeStateOK, LoopProcessOK, RollBackOK, TransitStepOK,
     ReadStateOK, CommitOK, ExitOK, EndOK, ElapseOK, RequestOK, ReceiveOK, NoticeOK
     DEF Cycle, StepOf
<1> QED
  BY <1>1, <1>2 DEF StepOK, NodeTypes

(* Inputs and the watch dog leave the thread of a node and its decision    *)
(* alone, and only between two cycles its errors.                          *)
LEMMA InputsLeave ==
  ASSUME Inv, NEW n \in Nodes, StepOf(n), ~Cycle(n), ~Exit(n)
  PROVE  /\ pc'[n] = pc[n] /\ node'[n].sm = node[n].sm /\ node'[n].cmd = node[n].cmd
         /\ pc[n] = "hook" /\ "error" \in node'[n].flags => "error" \in node[n].flags
<1> DEFINE b == node[n]
<1>1. b \in NodeRecord /\ node \in [Nodes -> NodeRecord]
  BY DEF Inv, TypeOK
<1>2. CASE End(n) \/ Elapse(n)
  <2>1. /\ pc' = pc
        /\ \/ node' = [node EXCEPT ![n] = [b EXCEPT !.running = FALSE]]
           \/ node' = [node EXCEPT ![n] = [b EXCEPT !.expired = TRUE]]
    BY <1>2 DEF End, Elapse
  <2> QED
    BY <1>1, <2>1 DEF NodeRecord
<1>3. CASE \E s \in Signal : Request(n, s)
  <2>1. PICK s \in Signal : /\ pc' = pc
          /\ node' = [node EXCEPT ![n] = [b EXCEPT !.flags = @ \union {s}]]
    BY <1>3 DEF Request
  <2>2. s # "error"
    BY DEF Signal
  <2> QED
    BY <1>1, <2>1, <2>2 DEF NodeRecord
<1>4. CASE \E c \in SysCmd : Receive(n, c)
  BY <1>4 DEF Receive
<1>5. CASE \E f \in {"error", "warning"} : Notice(n, f)
  <2>1. /\ pc[n] = "top" /\ pc' = pc
        /\ \E F : node' = [node EXCEPT ![n] = [b EXCEPT !.flags = F]]
    BY <1>5 DEF Notice
  <2> QED
    BY <1>1, <2>1 DEF NodeRecord
<1> QED
  BY <1>2, <1>3, <1>4, <1>5 DEF StepOf

LEMMA ErrorOKStep ==
  ASSUME Inv, NEW n \in Nodes, ErrorOK(n), NEW m \in Nodes, StepOf(m)
  PROVE  ErrorOK(n)'
<1>1. node[n] \in NodeRecord /\ node \in [Nodes -> NodeRecord] /\ NodeOK(n)
      /\ pc \in [Nodes -> {"top", "hook", "back", "scan", "off"}]
  BY DEF Inv, TypeOK
<1>2. CASE m # n
  BY <1>2, OtherStep DEF ErrorOK
<1>3. CASE m = n /\ GiveOrders(n)
  <2> DEFINE g == Generated(n)
  <2>1. pc[n] = "top" /\ g.change /\ node' = [node EXCEPT ![n] = g]
    BY <1>3 DEF GiveOrders, AtTop
  <2>2. g.sm = node[n].sm
    BY <1>1, GenerateOK DEF Generated
  <2>3. ASSUME "error" \in g.flags, g.sm \in Work PROVE g.cmd = "FORCE_STOP"
    <3>1. "error" \in node[n].flags
      BY <1>1, <2>3 DEF Generated, generate_signal, NodeRecord
    <3> QED
      BY <1>1, <2>1, <2>2, <2>3, <3>1, ErrorDecides DEF Generated, NodeOK, Work
  <2> HIDE DEF g
  <2>4. node'[n] = g
    BY <1>1, <2>1
  <2> QED
    BY <2>3, <2>4 DEF ErrorOK
<1>4. CASE m = n /\ (Cycle(n) \/ Exit(n)) /\ ~GiveOrders(n)
  <2>1. pc'[n] # "hook"
    BY <1>1, <1>4 DEF Cycle, Exit, ChangeState, LoopProcess, AtTop, RollBack,
       Transit, ReadState, Commit
  <2> QED
    BY <2>1 DEF ErrorOK
<1>5. CASE m = n /\ ~Cycle(n) /\ ~Exit(n)
  BY <1>5, InputsLeave DEF ErrorOK
<1> QED
  BY <1>2, <1>3, <1>4, <1>5 DEF Cycle

LEMMA ErrorChange ==
  ASSUME Inv, NEW n \in Nodes, ErrorOK(n), ChangeState(n),
         "error" \in node[n].flags, node[n].sm \in Work
  PROVE  \/ node'[n].sm = "FORCE_STOP"
         \/ node'[n].sm = "TRANSITING" /\ node'[n].dest = "FORCE_STOP"
<1> DEFINE g == IF pc[n] = "hook" THEN node[n] ELSE Generated(n)
<1>1. node[n] \in NodeRecord /\ node \in [Nodes -> NodeRecord] /\ NodeOK(n)
  BY DEF Inv, TypeOK
<1>2. g \in NodeRecord /\ g.sm # "TRANSITING" /\ g.cmd = "FORCE_STOP"
  <2>1. CASE pc[n] = "hook"
    BY <1>1, <2>1 DEF ErrorOK, NodeOK, HookOK
  <2>2. CASE pc[n] # "hook"
    <3>1. pc[n] = "top" /\ g = generate_signal(node[n]) /\ g.change
      BY <2>2 DEF ChangeState, AtTop, Generated
    <3>2. g \in NodeRecord /\ g.sm = node[n].sm
      BY <1>1, <3>1, GenerateOK
    <3>3. g.cmd = "FORCE_STOP"
      BY <1>1, <3>1, ErrorDecides DEF NodeOK, Work
    <3> QED
      BY <3>2, <3>3 DEF Work
  <2> QED
    BY <2>1, <2>2
<1>3. PICK ok \in Hook[n]["FORCE_STOP"] :
        node' = [node EXCEPT ![n] = change_node_state(g, ok)]
  BY <1>2 DEF ChangeState
<1>4. ok \in BOOLEAN
  BY <1>3, HookAssumption DEF State
<1> DEFINE r == change_node_state(g, ok)
<1>5. \/ r.sm = "FORCE_STOP"
      \/ r.sm = "TRANSITING" /\ r.dest = "FORCE_STOP"
  BY <1>2, <1>4, ChangeOK
<1>6. node'[n] = r
  BY <1>1, <1>3
<1> QED
  BY <1>5, <1>6

(* The other steps of a node outside its scan leave such a state only by   *)
(* ending.                                                                 *)
LEMMA ErrorElsewhere ==
  ASSUME Inv, NEW n \in Nodes, pc[n] # "scan", node[n].sm \in Work,
         StepOf(n), ~ChangeState(n)
  PROVE  node'[n].sm = node[n].sm \/ node'[n].sm = "UNCONFIGURED"
<1>1. /\ node[n] \in NodeRecord /\ node \in [Nodes -> NodeRecord] /\ NodeTypes
      /\ Generated(n) \in NodeRecord /\ Generated(n).sm = node[n].sm
      /\ node[n].sm \notin {"TRANSITING", "UNCONFIGURED", "INITIALIZING"}
  BY GenerateOK DEF Inv, TypeOK, NodeTypes, Generated, Work
<1>2. ASSUME NEW g \in NodeRecord, g.sm = node[n].sm, Processing(n, g, sysq)
      PROVE  node'[n].sm = node[n].sm
  <2>1. PICK e : Executed(g, e) /\ node' = [node EXCEPT ![n] = e]
    BY <1>1, <1>2, ProcessingOK DEF NodeTypes
  <2> QED
    BY <1>1, <1>2, <2>1 DEF Executed
<1>3. CASE LoopProcess(n)
  <2>1. Processing(n, Generated(n), sysq)
    BY <1>1, <1>3 DEF LoopProcess
  <2> QED
    BY <1>1, <1>2, <2>1
<1>4. CASE GiveOrders(n)
  <2>1. node' = [node EXCEPT ![n] = Generated(n)]
    BY <1>4 DEF GiveOrders
  <2> QED
    BY <1>1, <2>1
<1>5. CASE Exit(n)
  <2>1. node' = [node EXCEPT ![n] = [node[n] EXCEPT !.sm = "UNCONFIGURED"]]
    BY <1>5 DEF Exit
  <2> QED
    BY <1>1, <2>1 DEF NodeRecord
<1>6. ~RollBack(n) /\ ~ReadState(n) /\ ~Commit(n)
  BY <1>1 DEF RollBack, ReadState, Commit
<1>7. CASE Transit(n)
  <2>1. pc[n] = "back"
    BY <1>1, <1>7 DEF Transit
  <2>2. \/ node' = [node EXCEPT ![n] = node[n]]
        \/ Processing(n, node[n], sysq)
    BY <1>7, <2>1 DEF Transit
  <2> QED
    BY <1>1, <1>2, <2>2
<1>8. CASE ~Cycle(n) /\ ~Exit(n)
  BY <1>8, InputsLeave
<1> QED
  BY <1>3, <1>4, <1>5, <1>6, <1>7, <1>8 DEF Cycle

(* Whatever is asked of it at the same time, and whatever was decided or   *)
(* ordered before, a node that knows of an error goes from READY, STABLE   *)
(* or REPAIR nowhere but to FORCE_STOP, or ends.                           *)
THEOREM ErrorObeyedHolds == Spec => ErrorObeyed
<1> DEFINE A(n) ==
      ("error" \in node[n].flags /\ node[n].sm \in Work
       /\ pc[n] # "scan" /\ node'[n].sm # node[n].sm)
        => \/ node'[n].sm \in {"FORCE_STOP", "UNCONFIGURED"}
           \/ node'[n].sm = "TRANSITING" /\ node'[n].dest = "FORCE_STOP"
           ErrorInv == \A n \in Nodes : ErrorOK(n)
<1>1. Init => ErrorInv
  BY DEF Init, ErrorOK
<1>2. Inv /\ ErrorInv /\ [Next]_vars => ErrorInv' /\ [\A n \in Nodes : A(n)]_vars
  <2> SUFFICES ASSUME Inv, ErrorInv, [Next]_vars
               PROVE  ErrorInv' /\ [\A n \in Nodes : A(n)]_vars
    OBVIOUS
  <2>1. ASSUME NEW m \in Nodes, StepOf(m), NEW n \in Nodes
        PROVE  ErrorOK(n)' /\ A(n)
    <3>1. ErrorOK(n)'
      BY <2>1, ErrorOKStep
    <3>2. CASE m # n
      BY <2>1, <3>1, <3>2, OtherStep
    <3>3. CASE m = n /\ ChangeState(n)
      BY <3>1, <3>3, ErrorChange
    <3>4. CASE m = n /\ ~ChangeState(n)
      BY <2>1, <3>1, <3>4, ErrorElsewhere
    <3> QED
      BY <3>2, <3>3, <3>4
  <2>2. CASE UNCHANGED vars
    BY <2>2 DEF vars, nodeVars, ErrorOK
  <2>3. CASE HubTakes
    BY <2>3 DEF HubTakes, ErrorOK
  <2> HIDE DEF A
  <2>4. CASE Call
    <3>1. PICK r \in Requests :
            IF r[2] = "end" THEN End(r[1]) ELSE Request(r[1], r[2])
      BY <2>4 DEF Call
    <3>2. r[1] \in Nodes /\ r[2] \in Signal \union {"end"}
      BY <3>1, InputAssumption
    <3>3. StepOf(r[1])
      BY <3>1, <3>2 DEF StepOf
    <3> QED
      BY <2>1, <3>2, <3>3
  <2>5. CASE Arrival
    <3>1. PICK r \in Received : Receive(r[1], r[2])
      BY <2>5 DEF Arrival
    <3>2. r[1] \in Nodes /\ r[2] \in SysCmd
      BY <3>1, InputAssumption
    <3>3. StepOf(r[1])
      BY <3>1, <3>2 DEF StepOf
    <3> QED
      BY <2>1, <3>2, <3>3
  <2>6. CASE \E m \in Nodes : Cycle(m) \/ Exit(m)
    BY <2>1, <2>6 DEF StepOf
  <2>7. CASE \E m \in WatchDogs : Elapse(m)
    BY <2>1, <2>7, InputAssumption DEF StepOf
  <2>8. CASE \E r \in Noticed : Notice(r[1], r[2])
    <3>1. PICK r \in Noticed : Notice(r[1], r[2])
      BY <2>8
    <3>2. r[1] \in Nodes /\ r[2] \in {"error", "warning"}
      BY <3>1, InputAssumption
    <3>3. StepOf(r[1])
      BY <3>1, <3>2 DEF StepOf
    <3> QED
      BY <2>1, <3>2, <3>3
  <2>9. HubTakes => \A n \in Nodes : A(n)
    BY DEF HubTakes, A
  <2> QED
    BY <2>2, <2>3, <2>4, <2>5, <2>6, <2>7, <2>8, <2>9 DEF Next, Internal
<1> QED
  BY <1>1, <1>2, InvHolds, PTL DEF Spec, ErrorObeyed
-----------------------------------------------------------------------------
(* What holds of every node of the running system, of one that has no      *)
(* watch dog in particular.                                                *)
LocalOK(n) ==
  /\ node[n].sm \in Work \union {"FORCE_STOP", "TRANSITING", "UNCONFIGURED"}
  /\ node[n].sm = "UNCONFIGURED" => pc[n] = "off"
  /\ node[n].sm = "TRANSITING" \/ pc[n] \in {"back", "scan"} => node[n].prev \in Work
  /\ pc[n] = "off" => ~node[n].running
  /\ pc[n] \notin {"off", "back"} => pub[n] = node[n].sm
  /\ n \notin WatchDogs =>
       /\ ~node[n].expired /\ pc[n] # "back"
       /\ pc[n] = "scan" => node[n].sm = "TRANSITING"

(* The request that the order of a change to t raises.                     *)
SignalFor(t) == CASE t = "READY" -> "ready" [] t = "STABLE" -> "stable"
                  [] t = "REPAIR" -> "repair"

(* k is in s, and nothing is asked of it.                                  *)
Settled(k, s) ==
  /\ node[k].sm = s /\ node[k].flags = {} /\ ~node[k].change /\ node[k].running
  /\ sysq[k] = << >>

(* k has been told to follow from p to t; or the order was dropped, which  *)
(* takes a stack without any room.                                         *)
Dropped == IF SysCap = 0 THEN {<< >>} ELSE {}
Follows(k, p, t) ==
  \/ /\ ~node[k].change /\ node[k].running
     /\ \/ node[k].sm = p /\ node[k].flags = {} /\ sysq[k] \in Dropped \union {<<Order(t)>>}
        \/ node[k].sm = p /\ node[k].flags = {SignalFor(t)} /\ sysq[k] = << >>
        \/ /\ node[k].sm = "TRANSITING" /\ node[k].dest = t
           /\ node[k].flags = {} /\ sysq[k] = << >>
  \/ /\ pc[k] = "hook" /\ node[k].sm = p /\ node[k].cmd = t /\ node[k].running
     /\ node[k].flags = {} /\ sysq[k] = << >>
  \/ Settled(k, t)

(* k stops, has been told to (unless the order was dropped, as above), or  *)
(* is on its way out.                                                      *)
Stopped(k) == node[k].sm = "FORCE_STOP" \/ ~node[k].running
ToldToStop(k) ==
  /\ node[k].sm \in Work /\ node[k].running
  /\ \/ /\ ~node[k].change
        /\ \/ node[k].flags = {} /\ sysq[k] \in Dropped \union {<<"PUSH_FORCE_STOP">>}
           \/ node[k].flags = {"force_stop"} /\ sysq[k] = << >>
     \/ pc[k] = "hook" /\ node[k].cmd = "FORCE_STOP"

(* A node n that waits, and a node k that it alone steers: k is where n    *)
(* is, or on the way to where n goes. What n has seen in its scan stays.   *)
Edge(n, k) ==
  /\ Stopping(n) => Stopped(k) \/ ToldToStop(k)
  /\ node[n].sm \in Work /\ ~UnderWay(n) => Settled(k, node[n].sm)
  /\ UnderWay(n) /\ To(n) \in Work => Follows(k, From(n), To(n))
  /\ (pc[n] = "scan" /\ k \notin left[n]) => node[k].sm = node[n].dest

Together ==
  /\ Inv
  /\ \A n \in Nodes : LocalOK(n)
  /\ stateMap = [n \in Nodes |-> RequiredBy(n)]
  /\ sysMap = [n \in Nodes |-> RequiredBy(n)]
  /\ \A n \in Nodes : \A k \in RequiredBy(n) :
       WaitingNode(n) /\ Steady(n, k) => Edge(n, k)

(* What a step of the system is for the members a of the node that makes   *)
(* it, which become r.                                                     *)
Stays(m, a, r) ==
  /\ r.sm = a.sm /\ r.prev = a.prev /\ r.dest = a.dest
  /\ pc'[m] = "hook" <=> pc[m] = "hook"
  /\ pc[m] = "hook" => r.cmd = a.cmd
  /\ \A k \in Nodes \ {m} : sysq'[k] = sysq[k]
Orders(m, a, r) ==
  /\ pc[m] = "top" /\ pc'[m] = "hook"
  /\ a.sm \in Work /\ r.sm = a.sm
  /\ \/ r.cmd \in Work /\ <<a.sm, r.cmd>> \in Arrow
     \/ r.cmd = "FORCE_STOP"
  /\ sysq' = Broadcast(m, Order(r.cmd))
Goes(m, a, r) ==
  /\ pc[m] = "hook" /\ pc'[m] = "top"
  /\ \/ r.sm = a.cmd /\ TRUE \in Hook[m][a.cmd]
     \/ r.sm = "TRANSITING" /\ r.prev = a.sm /\ r.dest = a.cmd
  /\ sysq' = sysq
Arrives(m, a, r) ==
  /\ pc[m] = "scan" /\ left[m] = {} /\ pc'[m] = "top" /\ r.sm = a.dest
  /\ \A k \in Nodes \ {m} : sysq'[k] = sysq[k]
Ends(m, r) == r.sm = "UNCONFIGURED"

(* What the step does to the scan of m.                                    *)
Scans(m) ==
  pc'[m] = "scan" =>
    \/ left'[m] = RequiredBy(m)
    \/ /\ pc[m] = "scan" /\ node'[m].dest = node[m].dest
       /\ \/ left'[m] = left[m]
          \/ \E k \in left[m] : pub[k] = node[m].dest /\ left'[m] = left[m] \ {k}

Kind(m) ==
  /\ \A k \in Nodes \ {m} : /\ node'[k] = node[k] /\ pc'[k] = pc[k]
                            /\ left'[k] = left[k] /\ pub'[k] = pub[k]
  /\ \A k \in Nodes : k \notin RequiredBy(m) /\ k # m => sysq'[k] = sysq[k]
  /\ UNCHANGED <<stateMap, sysMap>>
  /\ ~node[m].running => ~node'[m].running
  /\ LocalOK(m)'
  /\ Scans(m)
  /\ m \notin WatchDogs =>
       \/ Stays(m, node[m], node'[m])
       \/ Orders(m, node[m], node'[m])
       \/ Goes(m, node[m], node'[m])
       \/ Arrives(m, node[m], node'[m])
       \/ Ends(m, node'[m])

(* The types and local facts of a step of m, once for all its actions.     *)
LEMMA AtStep ==
  ASSUME Together, NEW m \in Nodes
  PROVE  /\ node[m] \in NodeRecord /\ LocalOK(m) /\ NodeOK(m) /\ NodeTypes
         /\ node \in [Nodes -> NodeRecord]
         /\ pc \in [Nodes -> {"top", "hook", "back", "scan", "off"}]
         /\ left \in [Nodes -> SUBSET Nodes] /\ pub \in [Nodes -> State]
         /\ sysq \in [Nodes -> Seq(SysCmd)] /\ hubq \in Seq(HubCmd)
         /\ stateMap[m] = RequiredBy(m) /\ sysMap[m] = RequiredBy(m)
BY DEF Together, Inv, TypeOK, NodeTypes

(* Arrows that start at work end there.                                    *)
LEMMA WorkArrow ==
  \A s, t : <<s, t>> \in Arrow /\ s \in Work
              => t \in Work /\ s # t /\ t \notin {"FORCE_STOP", "INITIALIZING"}
BY DEF Arrow, Machine!Arrow, Work

(* A hook is only asked about a change that begins at work.                *)
LEMMA HookAtWork ==
  ASSUME Together, NEW m \in Nodes, pc[m] = "hook"
  PROVE  /\ node[m].sm \in Work /\ node[m].change
         /\ \/ node[m].cmd \in Work /\ <<node[m].sm, node[m].cmd>> \in Arrow
            \/ node[m].cmd = "FORCE_STOP"
<1>1. HookOK(node[m]) /\ PendingOK(node[m]) /\ LocalOK(m)
  BY AtStep DEF NodeOK
<1>2. node[m].sm \in Work \union {"FORCE_STOP"}
  BY <1>1 DEF HookOK, LocalOK
<1>3. node[m].cmd = "FORCE_STOP" \/ <<node[m].sm, node[m].cmd>> \in Arrow
  BY <1>1 DEF HookOK, PendingOK
<1>4. node[m].sm # "FORCE_STOP"
  BY <1>1, <1>3, ArrowFacts DEF HookOK
<1> QED
  BY <1>1, <1>2, <1>3, <1>4, WorkArrow DEF HookOK

(* A step of m that leaves its state, its thread and the stacks of the     *)
(* others alone.                                                           *)
LEMMA StayKind ==
  ASSUME Together, NEW m \in Nodes, NEW r \in NodeRecord,
         node' = [node EXCEPT ![m] = r],
         r.sm = node[m].sm, r.prev = node[m].prev, r.dest = node[m].dest,
         r.expired => node[m].expired \/ m \in WatchDogs,
         pc[m] = "hook" => r.cmd = node[m].cmd, r.running => node[m].running,
         UNCHANGED <<pc, left, stateMap, sysMap>>,
         pub' = pub \/ (pub' = [pub EXCEPT ![m] = r.sm] /\ pc[m] # "off"),
         \A k \in Nodes \ {m} : sysq'[k] = sysq[k]
  PROVE  Kind(m)
<1>1. node'[m] = r /\ \A k \in Nodes \ {m} : node'[k] = node[k] /\ pub'[k] = pub[k]
  BY AtStep
<1>2. pub'[m] \in {pub[m], r.sm} /\ (pc[m] = "off" => pub'[m] = pub[m])
  BY AtStep
<1>3. LocalOK(m)'
  BY <1>1, <1>2, AtStep DEF LocalOK
<1>4. Scans(m)
  BY <1>1 DEF Scans
<1> QED
  BY <1>1, <1>3, <1>4 DEF Kind, Stays

(* A change that follows an arrow from there was decided for in the same   *)
(* cycle, and what is decided for has a hook.                              *)
LEMMA WorkChangeHasHook ==
  ASSUME NEW b \in NodeRecord, StopPending(b), b.sm \in Work,
         generate_signal(b).change, generate_signal(b).cmd # "FORCE_STOP"
  PROVE  CallsHook(generate_signal(b))
<1> DEFINE d == Decision(b)
           g == generate_signal(b)
<1>1. d # Nothing
  BY DEF generate_signal, StopPending, Work
<1>2. g = [b EXCEPT !.change = TRUE, !.cmd = d.to, !.flags = @ \ d.uses]
  BY <1>1 DEF generate_signal
<1>3. g.sm = b.sm /\ g.cmd = d.to /\ g.flags \subseteq b.flags
  <2> HIDE DEF d
  <2> QED
    BY <1>2 DEF NodeRecord
<1>4. d.to # "FORCE_STOP"
  BY <1>3
<1> HIDE DEF g
<1>5. "force_stop" \notin b.flags
  BY <1>4 DEF Decision, Decide
<1>6. CASE b.sm = "STABLE"
  <2>1. d.to \in {"READY", "REPAIR"}
    BY <1>1, <1>4, <1>5, <1>6 DEF Decision, FromStable, Decide
  <2> QED
    BY <1>3, <1>6, <2>1 DEF CallsHook, g
<1>7. CASE b.sm = "REPAIR"
  <2>1. d.to \in {"READY", "STABLE"} /\ "error" \notin b.flags
    BY <1>1, <1>4, <1>5, <1>7 DEF Decision, FromRepair, Decide
  <2> QED
    BY <1>3, <1>7, <2>1 DEF CallsHook, g
<1>8. CASE b.sm = "READY"
  <2>1. \/ d.to = "STABLE" /\ {"warning", "error"} \intersect b.flags = {}
        \/ d.to = "REPAIR" /\ "error" \notin b.flags
    BY <1>1, <1>4, <1>5, <1>8 DEF Decision, FromReady, Decide
  <2> QED
    BY <1>3, <1>8, <2>1 DEF CallsHook, g
<1> QED
  BY <1>6, <1>7, <1>8 DEF Work

LEMMA GiveOrdersKind ==
  ASSUME Together, NEW m \in Nodes, GiveOrders(m)
  PROVE  Kind(m)
<1> DEFINE a == node[m]
           g == Generated(m)
<1>1. /\ a \in NodeRecord /\ LocalOK(m) /\ NodeOK(m) /\ sysMap[m] = RequiredBy(m)
      /\ node \in [Nodes -> NodeRecord] /\ sysq \in [Nodes -> Seq(SysCmd)]
      /\ pc \in [Nodes -> {"top", "hook", "back", "scan", "off"}]
  BY AtStep
<1>2. /\ pc[m] = "top" /\ g.change /\ g.sm # "TRANSITING" /\ g.cmd # g.sm
      /\ node' = [node EXCEPT ![m] = g] /\ pc' = [pc EXCEPT ![m] = "hook"]
      /\ UNCHANGED <<left, pub, stateMap, sysMap>>
      /\ g.cmd # "INITIALIZING" => sysq' = Broadcast(m, Order(g.cmd))
  BY DEF GiveOrders, AtTop, Maps, Hooked
<1>3. /\ g.sm = a.sm /\ g.prev = a.prev /\ g.running = a.running
      /\ g.expired = a.expired /\ PendingOK(g)
  BY <1>1, <1>2, GenerateOK DEF Generated, NodeOK
<1> HIDE DEF g
<1>4. /\ a.sm \in Work
      /\ \/ g.cmd \in Work /\ <<a.sm, g.cmd>> \in Arrow
         \/ g.cmd = "FORCE_STOP"
  <2>1. g.cmd = "FORCE_STOP" \/ <<a.sm, g.cmd>> \in Arrow
    BY <1>2, <1>3 DEF PendingOK
  <2>2. a.sm \in Work
    BY <1>1, <1>2, <1>3, <2>1, ArrowFacts DEF LocalOK
  <2> QED
    BY <2>1, <2>2, WorkArrow
<1>5. /\ node'[m] = g /\ pc'[m] = "hook"
      /\ \A k \in Nodes \ {m} : node'[k] = node[k] /\ pc'[k] = pc[k]
  BY <1>1, <1>2
<1>6. sysq' = Broadcast(m, Order(g.cmd))
  BY <1>2, <1>4 DEF Work
<1>7. \A k \in Nodes : k \notin RequiredBy(m) => sysq'[k] = sysq[k]
  BY <1>1, <1>6 DEF Broadcast
<1>8. LocalOK(m)'
  BY <1>1, <1>2, <1>3, <1>4, <1>5 DEF LocalOK, Work
<1>9. Scans(m) /\ Orders(m, a, g)
  BY <1>2, <1>3, <1>4, <1>5, <1>6 DEF Scans, Orders
<1> QED
  BY <1>2, <1>3, <1>5, <1>7, <1>8, <1>9 DEF Kind

(* The hook has been asked; or the node is in FORCE_STOP already.          *)
LEMMA ChangeStateKind ==
  ASSUME Together, NEW m \in Nodes, ChangeState(m)
  PROVE  Kind(m)
<1> DEFINE a == node[m]
           g == IF pc[m] = "hook" THEN node[m] ELSE Generated(m)
<1>1. /\ a \in NodeRecord /\ LocalOK(m) /\ NodeOK(m)
      /\ node \in [Nodes -> NodeRecord] /\ pub \in [Nodes -> State]
      /\ pc \in [Nodes -> {"top", "hook", "back", "scan", "off"}]
  BY AtStep
<1>2. /\ pc[m] = "hook" \/ (pc[m] = "top" /\ ~Hooked(g))
      /\ pc' = [pc EXCEPT ![m] = "top"]
      /\ UNCHANGED <<left, sysq, stateMap, sysMap>> /\ Publish(m)
  BY DEF ChangeState, AtTop, Maps
<1>3. /\ g \in NodeRecord /\ g.sm = a.sm /\ g.prev = a.prev /\ g.dest = a.dest
      /\ g.expired = a.expired /\ g.running = a.running
      /\ PendingOK(g) /\ g.change /\ g.sm # "TRANSITING"
  <2>1. CASE pc[m] = "hook"
    BY <1>1, <2>1 DEF NodeOK, HookOK
  <2>2. CASE pc[m] # "hook"
    BY <1>1, <1>2, <2>2, GenerateOK DEF ChangeState, AtTop, Generated, NodeOK
  <2> QED
    BY <2>1, <2>2
<1>4. /\ g.cmd = "FORCE_STOP" \/ <<g.sm, g.cmd>> \in Arrow
      /\ g.sm \in Work \union {"FORCE_STOP"}
  BY <1>1, <1>2, <1>3 DEF PendingOK, LocalOK
<1>5. PICK ok \in Hook[m][g.cmd] :
        node' = [node EXCEPT ![m] = change_node_state(g, ok)]
  BY DEF ChangeState
<1> DEFINE r == change_node_state(g, ok)
<1>6. ok \in BOOLEAN
  <2>1. g.cmd \in State
    BY <1>3 DEF NodeRecord
  <2> QED
    BY <1>5, <2>1, HookAssumption
<1>7. pc[m] = "top" => g.sm = "FORCE_STOP" /\ g.cmd = "FORCE_STOP"
  <2> SUFFICES ASSUME pc[m] = "top"
               PROVE  g.sm = "FORCE_STOP" /\ g.cmd = "FORCE_STOP"
    OBVIOUS
  <2>1. g = generate_signal(a) /\ ~Hooked(g)
    BY <1>2 DEF Generated
  <2>2. StopPending(a)
    BY <1>1 DEF NodeOK
  <2>3. g.cmd = "FORCE_STOP"
    <3> SUFFICES ASSUME g.cmd # "FORCE_STOP" PROVE FALSE
      OBVIOUS
    <3>1. <<g.sm, g.cmd>> \in Arrow /\ g.sm \in Work /\ g.cmd # g.sm
      BY <1>4, ArrowFacts
    <3>2. CallsHook(g)
      BY <1>1, <1>3, <2>1, <2>2, <3>1, WorkChangeHasHook
    <3> QED
      BY <2>1, <3>1, <3>2 DEF Hooked
  <2> QED
    BY <1>4, <2>1, <2>3 DEF Hooked, CallsHook
<1> HIDE DEF g
<1>8. /\ r \in NodeRecord
      /\ \/ r.sm = g.cmd /\ r.prev = g.prev /\ r.dest = g.dest
         \/ r.sm = "TRANSITING" /\ r.prev = g.sm /\ r.dest = g.cmd /\ g.sm # g.cmd
      /\ g.expired \/ ~r.expired
      /\ r.sm = g.cmd /\ g.cmd # g.sm /\ g.cmd # "TRANSITING" => ok
  BY <1>3, <1>4, <1>6, ChangeOK, ChangeMore
<1>9. ~g.running => ~r.running
  <2>1. CASE r = [g EXCEPT !.change = FALSE]
    BY <1>3, <2>1 DEF NodeRecord
  <2>2. CASE r = [g EXCEPT !.change = FALSE, !.sm = g.cmd, !.flags = @ \ Spent(g)]
    BY <1>3, <2>2 DEF NodeRecord
  <2>3. CASE r = [g EXCEPT !.change = FALSE, !.sm = "TRANSITING", !.prev = g.sm,
                           !.dest = g.cmd, !.expired = FALSE, !.flags = @ \ Spent(g),
                           !.running = @ /\ g.cmd # "FORCE_STOP"]
    BY <1>3, <2>3 DEF NodeRecord
  <2> QED
    BY <2>1, <2>2, <2>3 DEF change_node_state
<1> HIDE DEF r
<1>10. node'[m] = r /\ pub'[m] = r.sm /\ pc'[m] = "top"
       /\ \A k \in Nodes \ {m} : node'[k] = node[k] /\ pub'[k] = pub[k] /\ pc'[k] = pc[k]
  BY <1>1, <1>2, <1>5 DEF Publish, r
<1>11. Scans(m)
  BY <1>10 DEF Scans
<1>12. /\ g.cmd \in Work \union {"FORCE_STOP"}
       /\ g.sm # g.cmd => g.sm \in Work
  BY <1>4, WorkArrow, ArrowFacts
<1>13. LocalOK(m)'
  <2>1. ~r.expired \/ m \in WatchDogs
    BY <1>1, <1>3, <1>8 DEF LocalOK
  <2>2. CASE r.sm = g.cmd
    BY <1>10, <1>12, <2>1, <2>2 DEF LocalOK, Work
  <2>3. CASE r.sm = "TRANSITING" /\ r.prev = g.sm /\ g.sm # g.cmd
    BY <1>10, <1>12, <2>1, <2>3 DEF LocalOK, Work
  <2> QED
    BY <1>8, <2>2, <2>3
<1>14. Stays(m, a, r) \/ Goes(m, a, r)
  <2>1. CASE pc[m] = "hook"
    <3>1. g = a /\ g.cmd # g.sm
      BY <1>1, <2>1 DEF g, NodeOK, HookOK
    <3>2. r.sm = g.cmd => TRUE \in Hook[m][g.cmd]
      <4>1. g.cmd # "TRANSITING"
        BY <1>12 DEF Work
      <4> QED
        BY <1>5, <1>6, <1>8, <3>1, <4>1
    <3> QED
      BY <1>2, <1>8, <1>10, <2>1, <3>1, <3>2 DEF Goes
  <2>2. CASE pc[m] = "top"
    <3>1. r.sm = g.sm /\ r.prev = a.prev /\ r.dest = a.dest
      BY <1>3, <1>7, <1>8, <2>2
    <3> QED
      BY <1>2, <1>3, <1>10, <2>2, <3>1 DEF Stays
  <2> QED
    BY <1>2, <2>1, <2>2
<1> QED
  BY <1>2, <1>3, <1>9, <1>10, <1>11, <1>13, <1>14 DEF Kind

(* One processing concerns the members and the stack of its node alone.    *)
LEMMA ProcessingKeeps ==
  ASSUME NodeTypes, NEW m \in Nodes, NEW g \in NodeRecord, Processing(m, g, sysq)
  PROVE  /\ \E r \in NodeRecord :
               /\ node' = [node EXCEPT ![m] = r]
               /\ r.sm = g.sm /\ r.prev = g.prev /\ r.dest = g.dest
               /\ r.expired = g.expired /\ (r.running => g.running)
         /\ \A k \in Nodes \ {m} : sysq'[k] = sysq[k]
<1>1. sysq \in [Nodes -> Seq(SysCmd)] /\ hubq \in Seq(HubCmd)
  BY DEF NodeTypes
<1>2. PICK r : Executed(g, r) /\ node' = [node EXCEPT ![m] = r]
  BY <1>1, ProcessingOK
<1>3. node' = [node EXCEPT ![m] = g]
      \/ \E c : node' = [node EXCEPT ![m] = Execute(g, c)]
  BY DEF Processing
<1>4. \A c : Execute(g, c).expired = g.expired
  BY DEF Execute, NodeRecord
<1>5. r = node'[m] /\ r.expired = g.expired
  BY <1>2, <1>3, <1>4 DEF NodeTypes
<1>6. \A k \in Nodes \ {m} : sysq'[k] = sysq[k]
  BY <1>1 DEF Processing
<1> QED
  BY <1>2, <1>5, <1>6 DEF Executed

LEMMA LoopProcessKind ==
  ASSUME Together, NEW m \in Nodes, LoopProcess(m)
  PROVE  Kind(m)
<1> DEFINE g == Generated(m)
<1>1. /\ node[m] \in NodeRecord /\ LocalOK(m) /\ NodeTypes
      /\ node \in [Nodes -> NodeRecord] /\ pc[m] = "top"
  BY AtStep DEF LoopProcess, AtTop
<1>2. /\ g \in NodeRecord /\ g.sm = node[m].sm /\ g.prev = node[m].prev
      /\ g.dest = node[m].dest /\ g.running = node[m].running
      /\ g.expired = node[m].expired
  BY <1>1, GenerateOK DEF Generated
<1>3. g.sm \notin {"UNCONFIGURED", "INITIALIZING"}
  BY <1>1, <1>2 DEF LocalOK, Work
<1>4. Processing(m, g, sysq) /\ Publish(m) /\ UNCHANGED <<pc, left, stateMap, sysMap>>
  BY <1>3 DEF LoopProcess, Maps
<1> HIDE DEF g
<1>5. PICK r \in NodeRecord :
               /\ node' = [node EXCEPT ![m] = r]
               /\ r.sm = g.sm /\ r.prev = g.prev /\ r.dest = g.dest
               /\ r.expired = g.expired /\ (r.running => g.running)
  BY <1>1, <1>2, <1>4, ProcessingKeeps
<1>6. \A k \in Nodes \ {m} : sysq'[k] = sysq[k]
  BY <1>1, <1>2, <1>4, ProcessingKeeps
<1>7. pub' = [pub EXCEPT ![m] = r.sm]
  BY <1>1, <1>4, <1>5 DEF Publish
<1>8. /\ r.sm = node[m].sm /\ r.prev = node[m].prev /\ r.dest = node[m].dest
      /\ r.expired = node[m].expired
  BY <1>2, <1>5
<1>9. r.running => node[m].running
  BY <1>2, <1>5, Zenon
<1>10. r.expired => node[m].expired \/ m \in WatchDogs
  BY <1>8, Zenon
<1> QED
  BY <1>1, <1>4, <1>5, <1>6, <1>7, <1>8, <1>9, <1>10, StayKind

LEMMA TransitKind ==
  ASSUME Together, NEW m \in Nodes, Transit(m)
  PROVE  Kind(m)
<1> DEFINE g == IF pc[m] = "back" THEN node[m] ELSE Generated(m)
<1>1. /\ node[m] \in NodeRecord /\ LocalOK(m) /\ NodeTypes /\ stateMap[m] = RequiredBy(m)
      /\ node \in [Nodes -> NodeRecord] /\ pub \in [Nodes -> State]
      /\ pc \in [Nodes -> {"top", "hook", "back", "scan", "off"}]
      /\ left \in [Nodes -> SUBSET Nodes] /\ pc[m] \in {"top", "back"}
  BY AtStep DEF Transit, AtTop
<1>2. /\ g \in NodeRecord /\ g.sm = node[m].sm /\ g.prev = node[m].prev
      /\ g.dest = node[m].dest /\ g.running = node[m].running
      /\ g.expired = node[m].expired
  BY <1>1, GenerateOK DEF Generated
<1>3. pc[m] = "top" => g.sm = "TRANSITING"
  BY DEF Transit
<1>4. g.prev \in Work /\ g.prev # "UNCONFIGURED"
      /\ (m \notin WatchDogs => g.sm = "TRANSITING" /\ ~g.expired)
  BY <1>1, <1>2, <1>3 DEF LocalOK, Work
<1>5. /\ Processing(m, g, sysq) /\ Publish(m) /\ UNCHANGED <<stateMap, sysMap>>
      /\ \/ pc' = [pc EXCEPT ![m] = "scan"] /\ left' = [left EXCEPT ![m] = stateMap[m]]
         \/ pc' = [pc EXCEPT ![m] = "top"] /\ left' = [left EXCEPT ![m] = {}]
  BY <1>4 DEF Transit, Maps
<1> HIDE DEF g
<1>6. PICK r \in NodeRecord :
               /\ node' = [node EXCEPT ![m] = r]
               /\ r.sm = g.sm /\ r.prev = g.prev /\ r.dest = g.dest
               /\ r.expired = g.expired /\ (r.running => g.running)
  BY <1>1, <1>2, <1>5, ProcessingKeeps
<1>7. \A k \in Nodes \ {m} : sysq'[k] = sysq[k]
  BY <1>1, <1>2, <1>5, ProcessingKeeps
<1>8. /\ node'[m] = r /\ pub'[m] = r.sm /\ pc'[m] \in {"top", "scan"}
      /\ \A k \in Nodes \ {m} : /\ node'[k] = node[k] /\ pub'[k] = pub[k]
                                /\ pc'[k] = pc[k] /\ left'[k] = left[k]
      /\ pc'[m] = "scan" => left'[m] = stateMap[m]
  BY <1>1, <1>5, <1>6 DEF Publish
<1>9. g.sm # "UNCONFIGURED"
  BY <1>1, <1>2 DEF LocalOK
<1>10. LocalOK(m)'
  BY <1>4, <1>6, <1>8, <1>9, <1>1, <1>2 DEF LocalOK
<1>11. Scans(m)
  BY <1>1, <1>8 DEF Scans
<1>12. Stays(m, node[m], node'[m])
  BY <1>1, <1>2, <1>6, <1>7, <1>8 DEF Stays
<1>13. ~node[m].running => ~r.running
  BY <1>2, <1>6, Zenon
<1> QED
  BY <1>5, <1>7, <1>8, <1>10, <1>11, <1>12, <1>13 DEF Kind

(* Only a node with a watch dog is ever put back.                          *)
LEMMA RollBackKind ==
  ASSUME Together, NEW m \in Nodes, RollBack(m)
  PROVE  Kind(m)
<1> DEFINE g == Generated(m)
           r == [g EXCEPT !.sm = g.prev, !.expired = FALSE]
<1>1. /\ node[m] \in NodeRecord /\ LocalOK(m) /\ node \in [Nodes -> NodeRecord]
      /\ sysq \in [Nodes -> Seq(SysCmd)] /\ sysMap[m] = RequiredBy(m)
      /\ pc \in [Nodes -> {"top", "hook", "back", "scan", "off"}]
  BY AtStep
<1>2. /\ g \in NodeRecord /\ g.sm = node[m].sm /\ g.prev = node[m].prev
      /\ g.running = node[m].running /\ g.expired = node[m].expired
  BY <1>1, GenerateOK DEF Generated
<1>3. /\ g.sm = "TRANSITING" /\ g.expired
      /\ node' = [node EXCEPT ![m] = r] /\ pc' = [pc EXCEPT ![m] = "back"]
      /\ sysq' = Broadcast(m, RollBackOrder(g.prev))
      /\ UNCHANGED <<left, pub, stateMap, sysMap>>
  BY DEF RollBack, Maps
<1>4. g.prev \in Work /\ m \in WatchDogs
  BY <1>1, <1>2, <1>3 DEF LocalOK
<1> HIDE DEF g
<1>5. r.sm = g.prev /\ r.prev = g.prev /\ r.running = g.running
  BY <1>2 DEF NodeRecord
<1> HIDE DEF r
<1>6. /\ node'[m] = r /\ pc'[m] = "back"
      /\ \A k \in Nodes \ {m} : node'[k] = node[k] /\ pc'[k] = pc[k]
  BY <1>1, <1>3
<1>7. \A k \in Nodes : k \notin RequiredBy(m) => sysq'[k] = sysq[k]
  BY <1>1, <1>3 DEF Broadcast
<1>8. LocalOK(m)'
  BY <1>4, <1>5, <1>6 DEF LocalOK, Work
<1>9. Scans(m)
  BY <1>6 DEF Scans
<1> QED
  BY <1>2, <1>3, <1>4, <1>5, <1>6, <1>7, <1>8, <1>9 DEF Kind

LEMMA ReadStateKind ==
  ASSUME Together, NEW m \in Nodes, ReadState(m)
  PROVE  Kind(m)
<1>1. /\ node[m] \in NodeRecord /\ LocalOK(m) /\ left \in [Nodes -> SUBSET Nodes]
      /\ pub \in [Nodes -> State] /\ pc \in [Nodes -> {"top", "hook", "back", "scan", "off"}]
  BY AtStep
<1>2. /\ pc[m] = "scan" /\ UNCHANGED <<node, sysq, hubq, stateMap, sysMap>>
  BY DEF ReadState, Maps
<1>3. PICK k \in left[m] :
        \/ /\ pub[k] = node[m].dest
           /\ left' = [left EXCEPT ![m] = @ \ {k}] /\ UNCHANGED <<pc, pub>>
        \/ /\ left' = [left EXCEPT ![m] = {}] /\ pc' = [pc EXCEPT ![m] = "top"]
           /\ pub' = [pub EXCEPT ![m] = node[m].sm]
  BY DEF ReadState
<1>4. /\ \A j \in Nodes \ {m} : left'[j] = left[j] /\ pub'[j] = pub[j] /\ pc'[j] = pc[j]
      /\ \/ pub[k] = node[m].dest /\ left'[m] = left[m] \ {k} /\ pc'[m] = "scan"
            /\ pub'[m] = pub[m]
         \/ pc'[m] = "top" /\ pub'[m] = node[m].sm
  BY <1>1, <1>2, <1>3
<1>5. LocalOK(m)'
  BY <1>1, <1>2, <1>4 DEF LocalOK
<1>6. Scans(m)
  BY <1>2, <1>4 DEF Scans
<1>7. Stays(m, node[m], node'[m])
  BY <1>2, <1>4 DEF Stays
<1> QED
  BY <1>2, <1>4, <1>5, <1>6, <1>7 DEF Kind

LEMMA CommitKind ==
  ASSUME Together, NEW m \in Nodes, Commit(m)
  PROVE  Kind(m)
<1> DEFINE a == node[m]
           r == [a EXCEPT !.sm = a.dest, !.expired = FALSE]
<1>1. /\ a \in NodeRecord /\ LocalOK(m) /\ NodeOK(m) /\ node \in [Nodes -> NodeRecord]
      /\ pub \in [Nodes -> State]
      /\ pc \in [Nodes -> {"top", "hook", "back", "scan", "off"}]
  BY AtStep
<1>2. /\ pc[m] = "scan" /\ left[m] = {} /\ UNCHANGED <<left, sysq, stateMap, sysMap>>
      /\ node' = [node EXCEPT ![m] = r] /\ pc' = [pc EXCEPT ![m] = "top"]
      /\ Publish(m)
  BY DEF Commit, Maps
<1>3. a.dest \in Work
  BY <1>1, <1>2, WorkArrow DEF LocalOK, NodeOK, ScanOK
<1>4. r.sm = a.dest /\ r.prev = a.prev /\ ~r.expired /\ r.running = a.running
  BY <1>1 DEF NodeRecord
<1> HIDE DEF r
<1>5. /\ node'[m] = r /\ pub'[m] = r.sm /\ pc'[m] = "top"
      /\ \A k \in Nodes \ {m} : /\ node'[k] = node[k] /\ pub'[k] = pub[k]
                                /\ pc'[k] = pc[k]
  BY <1>1, <1>2 DEF Publish
<1>6. LocalOK(m)'
  BY <1>3, <1>4, <1>5 DEF LocalOK, Work
<1>7. Scans(m)
  BY <1>5 DEF Scans
<1>8. Arrives(m, a, r)
  BY <1>2, <1>4, <1>5 DEF Arrives
<1> QED
  BY <1>2, <1>4, <1>5, <1>6, <1>7, <1>8 DEF Kind

LEMMA ExitKind ==
  ASSUME Together, NEW m \in Nodes, Exit(m)
  PROVE  Kind(m)
<1> DEFINE r == [node[m] EXCEPT !.sm = "UNCONFIGURED"]
<1>1. /\ node[m] \in NodeRecord /\ LocalOK(m) /\ node \in [Nodes -> NodeRecord]
      /\ pc \in [Nodes -> {"top", "hook", "back", "scan", "off"}]
  BY AtStep
<1>2. /\ ~node[m].running /\ UNCHANGED <<left, pub, sysq, stateMap, sysMap>>
      /\ node' = [node EXCEPT ![m] = r] /\ pc' = [pc EXCEPT ![m] = "off"]
  BY DEF Exit, Maps
<1>3. r.sm = "UNCONFIGURED" /\ r.expired = node[m].expired /\ ~r.running
      /\ r.prev = node[m].prev
  BY <1>1, <1>2 DEF NodeRecord
<1> HIDE DEF r
<1>4. /\ node'[m] = r /\ pc'[m] = "off"
      /\ \A k \in Nodes \ {m} : node'[k] = node[k] /\ pc'[k] = pc[k]
  BY <1>1, <1>2
<1>5. LocalOK(m)'
  BY <1>1, <1>3, <1>4 DEF LocalOK
<1>6. Scans(m) /\ Ends(m, r)
  BY <1>3, <1>4 DEF Scans, Ends
<1> QED
  BY <1>2, <1>3, <1>4, <1>5, <1>6 DEF Kind

(* Calls, commands, errors and time-outs concern only a node's requests,   *)
(* its watch dog and its own stack.                                        *)
LEMMA InputKind ==
  ASSUME Together, NEW m \in Nodes,
         \/ \E s \in Signal : Request(m, s)
         \/ End(m)
         \/ \E c \in SysCmd : Receive(m, c)
         \/ \E f \in {"error", "warning"} : Notice(m, f)
         \/ m \in WatchDogs /\ Elapse(m)
  PROVE  Kind(m)
<1>1. /\ node[m] \in NodeRecord /\ node \in [Nodes -> NodeRecord]
      /\ sysq \in [Nodes -> Seq(SysCmd)]
  BY AtStep
<1> DEFINE a == node[m]
<1>2. CASE \E s \in Signal : Request(m, s)
  <2>1. PICK s \in Signal : Request(m, s)
    BY <1>2
  <2> DEFINE r == [a EXCEPT !.flags = @ \union {s}]
  <2>2. /\ r \in NodeRecord /\ r.sm = a.sm /\ r.prev = a.prev /\ r.dest = a.dest
        /\ r.expired = a.expired /\ r.running = a.running /\ r.cmd = a.cmd
    BY <1>1 DEF NodeRecord, Flag
  <2>3. /\ node' = [node EXCEPT ![m] = r]
        /\ UNCHANGED <<pc, left, pub, sysq, stateMap, sysMap>>
    BY <2>1 DEF Request, Maps
  <2> HIDE DEF r
  <2> QED
    BY <2>2, <2>3, StayKind
<1>3. CASE End(m)
  <2> DEFINE r == [a EXCEPT !.running = FALSE]
  <2>1. /\ r \in NodeRecord /\ r.sm = a.sm /\ r.prev = a.prev /\ r.dest = a.dest
        /\ r.expired = a.expired /\ ~r.running /\ r.cmd = a.cmd
    BY <1>1 DEF NodeRecord
  <2>2. /\ node' = [node EXCEPT ![m] = r]
        /\ UNCHANGED <<pc, left, pub, sysq, stateMap, sysMap>>
    BY <1>3 DEF End, Maps
  <2> HIDE DEF r
  <2> QED
    BY <2>1, <2>2, StayKind
<1>4. CASE \E c \in SysCmd : Receive(m, c)
  <2>1. /\ node' = [node EXCEPT ![m] = a]
        /\ UNCHANGED <<pc, left, pub, stateMap, sysMap>>
        /\ \A k \in Nodes \ {m} : sysq'[k] = sysq[k]
    BY <1>1, <1>4 DEF Receive, Maps
  <2> QED
    BY <1>1, <2>1, StayKind
<1>5. CASE \E f \in {"error", "warning"} : Notice(m, f)
  <2>1. PICK f \in {"error", "warning"} : Notice(m, f)
    BY <1>5
  <2>2. UNCHANGED <<pc, left, pub, sysq, stateMap, sysMap>>
    BY <2>1 DEF Notice, Maps
  <2>3. ASSUME NEW F \in SUBSET Flag, node' = [node EXCEPT ![m] = [a EXCEPT !.flags = F]]
        PROVE  Kind(m)
    <3> DEFINE r == [a EXCEPT !.flags = F]
    <3>1. /\ r \in NodeRecord /\ r.sm = a.sm /\ r.prev = a.prev /\ r.dest = a.dest
          /\ r.expired = a.expired /\ r.running = a.running /\ r.cmd = a.cmd
      BY <1>1 DEF NodeRecord
    <3>2. node' = [node EXCEPT ![m] = r]
      BY <2>3
    <3> HIDE DEF r
    <3> QED
      BY <2>2, <3>1, <3>2, StayKind
  <2>4. a.flags \union {f} \in SUBSET Flag /\ a.flags \ {f} \in SUBSET Flag
    BY <1>1 DEF NodeRecord, Flag
  <2>5. \/ node' = [node EXCEPT ![m] = [a EXCEPT !.flags = a.flags \union {f}]]
        \/ node' = [node EXCEPT ![m] = [a EXCEPT !.flags = a.flags \ {f}]]
    BY <2>1 DEF Notice
  <2> QED
    BY <2>3, <2>4, <2>5
<1>6. CASE m \in WatchDogs /\ Elapse(m)
  <2> DEFINE r == [a EXCEPT !.expired = TRUE]
  <2>1. /\ r \in NodeRecord /\ r.sm = a.sm /\ r.prev = a.prev /\ r.dest = a.dest
        /\ r.running = a.running /\ r.cmd = a.cmd
    BY <1>1 DEF NodeRecord
  <2>2. /\ node' = [node EXCEPT ![m] = r]
        /\ UNCHANGED <<pc, left, pub, sysq, stateMap, sysMap>>
    BY <1>6 DEF Elapse, Maps
  <2> HIDE DEF r
  <2> QED
    BY <1>6, <2>1, <2>2, StayKind
<1> QED
  BY <1>2, <1>3, <1>4, <1>5, <1>6
-----------------------------------------------------------------------------
(* Without requests nothing is decided.                                    *)
LEMMA QuietDecision ==
  ASSUME NEW b \in NodeRecord, b.flags = {}
  PROVE  generate_signal(b) = b
<1>1. Decision(b) = Nothing
  BY DEF Decision, FromStable, FromRepair, FromReady
<1> QED
  BY <1>1 DEF generate_signal

(* A node without watch dog that is in READY, STABLE or REPAIR, runs and   *)
(* has no change to make is at the beginning of its cycle.                 *)
LEMMA FreeAtTop ==
  ASSUME Together, NEW k \in Nodes \ WatchDogs, node[k].sm \in Work,
         ~node[k].change, node[k].running, Cycle(k) \/ Exit(k)
  PROVE  pc[k] = "top" /\ (GiveOrders(k) \/ ChangeState(k) \/ LoopProcess(k))
<1>1. LocalOK(k) /\ NodeOK(k) /\ node[k] \in NodeRecord
      /\ pc \in [Nodes -> {"top", "hook", "back", "scan", "off"}]
  BY AtStep
<1>2. node[k].sm \notin {"TRANSITING", "UNCONFIGURED"}
  BY DEF Work
<1>3. pc[k] = "top"
  BY <1>1, <1>2 DEF LocalOK, NodeOK, HookOK
<1>4. ~RollBack(k) /\ ~Transit(k)
  BY <1>1, <1>2, <1>3, GenerateOK DEF RollBack, Transit, Generated
<1>5. ~ReadState(k) /\ ~Commit(k) /\ ~Exit(k)
  BY <1>3 DEF ReadState, Commit, Exit
<1> QED
  BY <1>3, <1>4, <1>5 DEF Cycle

(* What one cycle of a node makes of itself when it is where its parent    *)
(* is, and nothing is asked of it: nothing.                                *)
LEMMA SettledStays ==
  ASSUME Together, NEW k \in Nodes \ WatchDogs, NEW s \in Work, Settled(k, s),
         Cycle(k) \/ Exit(k)
  PROVE  Settled(k, s)'
<1> DEFINE b == node[k]
<1>1. /\ b \in NodeRecord /\ LocalOK(k) /\ node \in [Nodes -> NodeRecord]
      /\ b.sm = s /\ b.flags = {} /\ ~b.change /\ b.running /\ sysq[k] = << >>
  BY AtStep DEF Settled
<1>2. s \notin {"TRANSITING", "UNCONFIGURED", "INITIALIZING"}
  BY DEF Work
<1>3. Generated(k) = b
  BY <1>1, QuietDecision DEF Generated
<1>4. LoopProcess(k)
  BY <1>1, <1>3, FreeAtTop DEF GiveOrders, ChangeState
<1>5. Processing(k, b, sysq)
  BY <1>1, <1>2, <1>3, <1>4 DEF LoopProcess
<1>6. node' = [node EXCEPT ![k] = b] /\ sysq' = sysq
  BY <1>1, <1>5 DEF Processing
<1>7. node'[k] = b
  BY <1>1, <1>6
<1> QED
  BY <1>1, <1>6, <1>7 DEF Settled

(* The order of a change, in the state before it, raises its request.      *)
LEMMA OrderRaises ==
  ASSUME NEW p \in Work, NEW t \in Work, <<p, t>> \in Arrow
  PROVE  /\ Raises(Order(t), p) = {SignalFor(t)} /\ Order(t) # "END"
         /\ SignalFor(t) \in Signal
<1>1. <<p, t>> \in {<<"READY", "STABLE">>, <<"READY", "REPAIR">>,
                    <<"STABLE", "READY">>, <<"STABLE", "REPAIR">>,
                    <<"REPAIR", "READY">>, <<"REPAIR", "STABLE">>}
  BY DEF Arrow, Machine!Arrow, Work
<1> QED
  BY <1>1 DEF Order, Raises, SignalFor, Signal

(* And the request alone is decided for, and reaches the hook.             *)
LEMMA RequestDecides ==
  ASSUME NEW b \in NodeRecord, NEW t \in Work, <<b.sm, t>> \in Arrow, b.sm \in Work,
         b.flags = {SignalFor(t)}
  PROVE  LET g == generate_signal(b) IN
         /\ g = [b EXCEPT !.change = TRUE, !.cmd = t, !.flags = {}]
         /\ CallsHook(g)
<1> DEFINE u == SignalFor(t)
           w == [b EXCEPT !.change = TRUE, !.cmd = t, !.flags = {}]
<1>1. <<b.sm, t>> \in {<<"READY", "STABLE">>, <<"READY", "REPAIR">>,
                       <<"STABLE", "READY">>, <<"STABLE", "REPAIR">>,
                       <<"REPAIR", "READY">>, <<"REPAIR", "STABLE">>}
  BY DEF Arrow, Machine!Arrow, Work
<1>2. u = CASE t = "READY" -> "ready" [] t = "STABLE" -> "stable" [] t = "REPAIR" -> "repair"
  BY DEF SignalFor
<1>3. {"warning", "error"} \intersect b.flags = {}
  BY <1>1, <1>2
<1>4. Decision(b) = Decide(t, {u})
  <2>1. CASE b.sm = "READY"
    BY <1>1, <1>2, <1>3, <2>1 DEF Decision, FromReady
  <2>2. CASE b.sm = "STABLE"
    BY <1>1, <1>2, <2>2 DEF Decision, FromStable
  <2>3. CASE b.sm = "REPAIR"
    BY <1>1, <1>2, <2>3 DEF Decision, FromRepair
  <2> QED
    BY <2>1, <2>2, <2>3 DEF Work
<1>5. Decide(t, {u}) # Nothing /\ Decide(t, {u}).to = t /\ Decide(t, {u}).uses = {u}
  BY <1>1 DEF Decide, Nothing
<1>6. b.flags \ {u} = {}
  OBVIOUS
<1>7. generate_signal(b) = w
  BY <1>4, <1>5, <1>6 DEF generate_signal
<1>8. w.sm = b.sm /\ w.cmd = t /\ w.flags = {} /\ {"warning", "error"} \intersect w.flags = {}
  BY DEF NodeRecord
<1> HIDE DEF w
<1>9. CallsHook(w)
  BY <1>1, <1>8 DEF CallsHook
<1> QED
  BY <1>7, <1>9 DEF w

(* A node that was ordered to follow does.                                 *)
LEMMA FollowsOn ==
  ASSUME Together, NEW k \in Nodes \ WatchDogs, k \notin RequiredBy(k),
         NEW p \in Work, NEW t \in Work,
         <<p, t>> \in Arrow, Follows(k, p, t), Cycle(k) \/ Exit(k)
  PROVE  Follows(k, p, t)'
<1> DEFINE b == node[k]
<1>1. /\ b \in NodeRecord /\ LocalOK(k) /\ NodeOK(k) /\ node \in [Nodes -> NodeRecord]
      /\ sysq \in [Nodes -> Seq(SysCmd)] /\ sysMap[k] = RequiredBy(k)
      /\ pc \in [Nodes -> {"top", "hook", "back", "scan", "off"}]
  BY AtStep
<1>2. CASE Settled(k, t)
  BY <1>2, SettledStays DEF Follows
<1> SUFFICES ASSUME ~Settled(k, t) PROVE Follows(k, p, t)'
  BY <1>2
<1>3. b.running /\ ~b.expired /\ ~Exit(k)
  BY <1>1 DEF Follows, LocalOK, Exit
<1>4. p \notin {"TRANSITING", "UNCONFIGURED", "INITIALIZING"}
  BY DEF Work
<1>5. CASE b.sm = p /\ ~b.change
  <2>1. pc[k] = "top" /\ (GiveOrders(k) \/ ChangeState(k) \/ LoopProcess(k))
    BY <1>3, <1>5, FreeAtTop
  <2>3. CASE b.flags = {} /\ sysq[k] \in Dropped \union {<<Order(t)>>}
    <3>1. Generated(k) = b
      BY <1>1, <2>3, QuietDecision DEF Generated
    <3>2. Processing(k, b, sysq)
      BY <1>4, <1>5, <2>1, <3>1 DEF GiveOrders, ChangeState, LoopProcess
    <3>3. CASE sysq[k] = << >>
      <4>1. node' = [node EXCEPT ![k] = b] /\ sysq' = sysq
        BY <3>2, <3>3 DEF Processing
      <4>2. node'[k] = b
        BY <1>1, <4>1
      <4> QED
        BY <1>3, <1>5, <2>3, <4>1, <4>2 DEF Follows
    <3>4. CASE sysq[k] = <<Order(t)>>
      <4> DEFINE r == Execute(b, Order(t))
      <4>1. sysq[k] # << >> /\ Head(sysq[k]) = Order(t) /\ Tail(sysq[k]) = << >>
        BY <3>4
      <4>2. node' = [node EXCEPT ![k] = r] /\ sysq' = [sysq EXCEPT ![k] = << >>]
        BY <3>2, <4>1 DEF Processing
      <4>3. r = [b EXCEPT !.flags = @ \union Raises(Order(t), p), !.running = @ /\ TRUE]
        BY <1>5, OrderRaises DEF Execute
      <4>4. b.flags \union Raises(Order(t), p) = {SignalFor(t)}
        BY <2>3, OrderRaises
      <4>5. r.sm = p /\ r.flags = {SignalFor(t)} /\ r.change = b.change /\ r.running
        BY <1>1, <1>3, <1>5, <4>3, <4>4 DEF NodeRecord
      <4> HIDE DEF r
      <4>6. node'[k] = r /\ sysq'[k] = << >>
        BY <1>1, <4>2
      <4> QED
        BY <1>3, <1>5, <4>5, <4>6 DEF Follows
    <3> QED
      BY <2>3, <3>3, <3>4 DEF Dropped
  <2>4. CASE b.flags = {SignalFor(t)} /\ sysq[k] = << >>
    <3> DEFINE g == [b EXCEPT !.change = TRUE, !.cmd = t, !.flags = {}]
    <3>1. Generated(k) = g /\ CallsHook(g)
      BY <1>1, <1>5, <2>4, RequestDecides DEF Generated
    <3>2. /\ g.sm = p /\ g.cmd = t /\ g.flags = {} /\ g.change /\ g.running
          /\ g \in NodeRecord
      BY <1>1, <1>3, <1>5 DEF NodeRecord, State, Work
    <3> HIDE DEF g
    <3>3. t # p /\ t # "INITIALIZING"
      BY WorkArrow
    <3>4. GiveOrders(k)
      BY <2>1, <3>1, <3>2, <3>3 DEF LoopProcess, ChangeState, Hooked
    <3>5. node' = [node EXCEPT ![k] = g] /\ pc' = [pc EXCEPT ![k] = "hook"]
      BY <3>1, <3>4 DEF GiveOrders
    <3>6. sysq' = sysq \/ sysq' = Broadcast(k, Order(t))
      BY <3>1, <3>2, <3>4 DEF GiveOrders
    <3>7. sysq'[k] = << >>
      BY <1>1, <2>4, <3>6 DEF Broadcast
    <3>8. node'[k] = g /\ pc'[k] = "hook"
      BY <1>1, <3>5
    <3> QED
      BY <3>2, <3>7, <3>8 DEF Follows
  <2> QED
    BY <1>4, <1>5, <2>1, <2>3, <2>4 DEF Follows
<1>6. CASE pc[k] = "hook" /\ b.sm = p /\ b.cmd = t /\ b.flags = {} /\ sysq[k] = << >>
  <2>1. ChangeState(k)
    BY <1>6 DEF Cycle, Exit, GiveOrders, LoopProcess, RollBack, Transit, ReadState,
                Commit, AtTop
  <2>2. PICK ok \in Hook[k][t] :
          node' = [node EXCEPT ![k] = change_node_state(b, ok)] /\ sysq' = sysq
    BY <1>6, <2>1 DEF ChangeState
  <2> DEFINE r == change_node_state(b, ok)
  <2>3. t # p /\ t # "FORCE_STOP"
    BY WorkArrow
  <2>4. Spent(b) = {}
    BY <1>4, <1>6 DEF Spent, Work
  <2>5. /\ ~r.change /\ r.running /\ r.flags = {}
        /\ r.sm = t \/ (r.sm = "TRANSITING" /\ r.dest = t)
    <3>1. CASE r = [b EXCEPT !.change = FALSE, !.sm = b.cmd, !.flags = @ \ Spent(b)]
      BY <1>1, <1>3, <1>6, <2>4, <3>1 DEF NodeRecord
    <3>2. CASE r = [b EXCEPT !.change = FALSE, !.sm = "TRANSITING", !.prev = b.sm,
                             !.dest = b.cmd, !.expired = FALSE, !.flags = @ \ Spent(b),
                             !.running = @ /\ b.cmd # "FORCE_STOP"]
      BY <1>1, <1>3, <1>6, <2>3, <2>4, <3>2 DEF NodeRecord
    <3> QED
      BY <1>6, <2>3, <3>1, <3>2 DEF change_node_state
  <2> HIDE DEF r
  <2>6. node'[k] = r
    BY <1>1, <2>2 DEF r
  <2> QED
    BY <1>6, <2>2, <2>5, <2>6 DEF Follows, Settled
<1>7. CASE /\ b.sm = "TRANSITING" /\ b.dest = t /\ b.flags = {} /\ ~b.change
           /\ sysq[k] = << >>
  <2>1. Generated(k) = b
    BY <1>1, <1>7, QuietDecision DEF Generated
  <2>2. Transit(k) \/ ReadState(k) \/ Commit(k)
    BY <1>1, <1>3, <1>7, <2>1
       DEF Cycle, GiveOrders, ChangeState, LoopProcess, RollBack, NodeOK, HookOK
  <2>3. CASE Transit(k)
    <3>1. b.prev # "UNCONFIGURED"
      BY <1>1, <1>7 DEF LocalOK, Work
    <3>2. Processing(k, b, sysq)
      BY <1>1, <2>1, <2>3, <3>1 DEF Transit, LocalOK
    <3>3. node' = [node EXCEPT ![k] = b] /\ sysq' = sysq
      BY <1>7, <3>2 DEF Processing
    <3>4. node'[k] = b
      BY <1>1, <3>3
    <3> QED
      BY <1>3, <1>7, <3>3, <3>4 DEF Follows
  <2>4. CASE ReadState(k)
    BY <1>3, <1>7, <2>4 DEF ReadState, Follows
  <2>5. CASE Commit(k)
    <3> DEFINE r == [b EXCEPT !.sm = b.dest, !.expired = FALSE]
    <3>1. node' = [node EXCEPT ![k] = r] /\ sysq' = sysq
      BY <2>5 DEF Commit
    <3>2. r.sm = t /\ r.flags = {} /\ r.change = b.change /\ r.running = b.running
      BY <1>1, <1>7 DEF NodeRecord
    <3> HIDE DEF r
    <3>3. node'[k] = r
      BY <1>1, <3>1
    <3> QED
      BY <1>3, <1>7, <3>1, <3>2, <3>3 DEF Follows, Settled
  <2> QED
    BY <2>2, <2>3, <2>4, <2>5
<1> QED
  BY <1>5, <1>6, <1>7 DEF Follows

(* And a node told to stop does, or ends first.                            *)
LEMMA StopsOn ==
  ASSUME Together, NEW k \in Nodes \ WatchDogs, k \notin RequiredBy(k), Kind(k),
         Stopped(k) \/ ToldToStop(k), Cycle(k) \/ Exit(k)
  PROVE  (Stopped(k) \/ ToldToStop(k))'
<1> DEFINE b == node[k]
<1>1. /\ b \in NodeRecord /\ LocalOK(k) /\ NodeOK(k) /\ node \in [Nodes -> NodeRecord]
      /\ sysq \in [Nodes -> Seq(SysCmd)] /\ sysMap[k] = RequiredBy(k)
      /\ pc \in [Nodes -> {"top", "hook", "back", "scan", "off"}]
  BY AtStep
<1>2. CASE ~b.running
  BY <1>2 DEF Kind, Stopped
<1>3. CASE b.sm = "FORCE_STOP"
  <2>1. pc[k] \notin {"scan", "hook"} /\ b.sm \notin Work
    BY <1>1, <1>3, HookAtWork DEF LocalOK, Work
  <2>2. Stays(k, b, node'[k]) \/ Ends(k, node'[k])
    BY <2>1 DEF Kind, Orders, Goes, Arrives
  <2>3. CASE Ends(k, node'[k])
    BY <2>3 DEF Kind, Ends, LocalOK, Stopped
  <2> QED
    BY <1>3, <2>2, <2>3 DEF Stays, Stopped
<1>4. CASE pc[k] = "hook" /\ b.cmd = "FORCE_STOP"
  <2>1. ChangeState(k)
    BY <1>4 DEF Cycle, Exit, GiveOrders, LoopProcess, RollBack, Transit, ReadState,
                Commit, AtTop
  <2>2. PICK ok \in Hook[k]["FORCE_STOP"] :
          node' = [node EXCEPT ![k] = change_node_state(b, ok)]
    BY <1>4, <2>1 DEF ChangeState
  <2> DEFINE r == change_node_state(b, ok)
  <2>3. ok \in BOOLEAN /\ b.sm # "TRANSITING"
    BY <1>1, <1>4, <2>2, HookAssumption DEF State, NodeOK, HookOK
  <2>4. r.sm = "FORCE_STOP" \/ ~r.running
    BY <1>1, <1>4, <2>3, ChangeOK
  <2> HIDE DEF r
  <2>5. node'[k] = r
    BY <1>1, <2>2 DEF r
  <2> QED
    BY <2>4, <2>5 DEF Stopped
<1>5. CASE ToldToStop(k) /\ ~b.change
  <2>1. /\ b.sm \in Work /\ b.running
        /\ b.sm \notin {"TRANSITING", "UNCONFIGURED", "INITIALIZING", "FORCE_STOP"}
    BY <1>5 DEF ToldToStop, Work
  <2>2. pc[k] = "top" /\ (GiveOrders(k) \/ ChangeState(k) \/ LoopProcess(k))
    BY <1>5, <2>1, FreeAtTop
  <2>3. CASE b.flags = {} /\ sysq[k] \in Dropped \union {<<"PUSH_FORCE_STOP">>}
    <3>1. Generated(k) = b
      BY <1>1, <2>3, QuietDecision DEF Generated
    <3>2. Processing(k, b, sysq)
      BY <1>5, <2>1, <2>2, <3>1 DEF GiveOrders, ChangeState, LoopProcess
    <3>3. CASE sysq[k] = << >>
      <4>1. node' = [node EXCEPT ![k] = b] /\ sysq' = sysq
        BY <3>2, <3>3 DEF Processing
      <4>2. node'[k] = b
        BY <1>1, <4>1
      <4> QED
        BY <1>5, <2>1, <2>3, <4>1, <4>2 DEF ToldToStop
    <3>4. CASE sysq[k] = <<"PUSH_FORCE_STOP">>
      <4> DEFINE r == Execute(b, "PUSH_FORCE_STOP")
      <4>1. /\ sysq[k] # << >> /\ Head(sysq[k]) = "PUSH_FORCE_STOP"
            /\ Tail(sysq[k]) = << >>
        BY <3>4
      <4>2. node' = [node EXCEPT ![k] = r] /\ sysq' = [sysq EXCEPT ![k] = << >>]
        BY <3>2, <4>1 DEF Processing
      <4>3. r = [b EXCEPT !.flags = @ \union {"force_stop"}, !.running = @ /\ TRUE]
        BY DEF Execute, Raises
      <4>4. r.sm = b.sm /\ r.flags = {"force_stop"} /\ r.change = b.change /\ r.running
        BY <1>1, <2>1, <2>3, <4>3 DEF NodeRecord
      <4> HIDE DEF r
      <4>5. node'[k] = r /\ sysq'[k] = << >>
        BY <1>1, <4>2
      <4> QED
        BY <1>5, <2>1, <4>4, <4>5 DEF ToldToStop
    <3> QED
      BY <2>3, <3>3, <3>4 DEF Dropped
  <2>4. CASE b.flags = {"force_stop"} /\ sysq[k] = << >>
    <3> DEFINE g == Generated(k)
    <3>1. Decision(b) = Decide("FORCE_STOP", {"force_stop"})
      BY <2>4 DEF Decision
    <3>2. g = [b EXCEPT !.change = TRUE, !.cmd = "FORCE_STOP", !.flags = {}]
      <4>1. LET d == Decide("FORCE_STOP", {"force_stop"})
            IN  d # Nothing /\ d.to = "FORCE_STOP" /\ b.flags \ d.uses = {}
        BY <2>4 DEF Decide, Nothing
      <4> QED
        BY <3>1, <4>1 DEF Generated, generate_signal
    <3>3. g.change /\ g.cmd = "FORCE_STOP" /\ g.sm = b.sm /\ g.running
      BY <1>1, <2>1, <3>2 DEF NodeRecord
    <3> HIDE DEF g
    <3>4. GiveOrders(k)
      BY <2>1, <2>2, <3>3 DEF LoopProcess, ChangeState, Hooked, CallsHook, g
    <3>5. node' = [node EXCEPT ![k] = g] /\ pc' = [pc EXCEPT ![k] = "hook"]
      BY <3>4 DEF GiveOrders, g
    <3>6. node'[k] = g /\ pc'[k] = "hook"
      BY <1>1, <3>5
    <3> QED
      BY <2>1, <3>3, <3>6 DEF ToldToStop
  <2> QED
    BY <1>5, <2>2, <2>3, <2>4 DEF ToldToStop
<1> QED
  BY <1>2, <1>3, <1>4, <1>5 DEF Stopped, ToldToStop
-----------------------------------------------------------------------------
(* A step of the node that waits: it stays, orders k to go where it is to  *)
(* go, goes, or arrives where it has seen k.                               *)
LEMMA EdgeParent ==
  ASSUME Together, NEW n \in Nodes, WaitingNode(n), NEW k \in RequiredBy(n),
         Steady(n, k), Kind(n)
  PROVE  Edge(n, k)'
<1> DEFINE a == node[n]
           r == node'[n]
<1>1. k \in Nodes /\ k # n /\ n \notin WatchDogs
  BY ReqAssumption DEF RequiredBy, Steady
<1>2. /\ LocalOK(n) /\ LocalOK(k) /\ NodeOK(n) /\ NodeOK(k) /\ Edge(n, k)
      /\ sysq \in [Nodes -> Seq(SysCmd)] /\ sysMap[n] = RequiredBy(n)
  BY <1>1, AtStep DEF Together
<1>3. node'[k] = node[k] /\ pc'[k] = pc[k] /\ LocalOK(n)' /\ Scans(n)
  BY <1>1 DEF Kind
<1>4. pc[n] = "scan" =>
        /\ a.sm = "TRANSITING" /\ a.dest \in Work /\ a.prev \in Work /\ a.prev # a.dest
        /\ Follows(k, a.prev, a.dest)
  BY <1>1, <1>2, WorkArrow DEF LocalOK, NodeOK, ScanOK, Edge, UnderWay, From, To
<1>5. pc[n] = "scan" /\ pub[k] = a.dest => node[k].sm = a.dest
  <2> SUFFICES ASSUME pc[n] = "scan", pub[k] = a.dest PROVE node[k].sm = a.dest
    OBVIOUS
  <2>1. node[k].running /\ k \notin WatchDogs
    BY <1>4 DEF Follows, Settled, Steady
  <2> QED
    BY <1>2, <2>1 DEF LocalOK
<1>6. pc'[n] = "scan" => r.sm = "TRANSITING"
  BY <1>1, <1>3 DEF LocalOK
<1>7. (pc'[n] = "scan" /\ k \notin left'[n]) =>
        /\ pc[n] = "scan" /\ r.dest = a.dest /\ node[k].sm = a.dest
  <2> SUFFICES ASSUME pc'[n] = "scan", k \notin left'[n]
               PROVE  pc[n] = "scan" /\ r.dest = a.dest /\ node[k].sm = a.dest
    OBVIOUS
  <2>1. pc[n] = "scan" /\ r.dest = a.dest
    BY <1>3 DEF Scans
  <2>2. CASE k \notin left[n]
    BY <1>2, <2>1, <2>2 DEF Edge
  <2>3. CASE k \in left[n]
    BY <1>3, <1>5, <2>1, <2>3 DEF Scans
  <2> QED
    BY <2>1, <2>2, <2>3
<1>8. ASSUME sysq'[k] = sysq[k]
      PROVE  /\ (Stopped(k) \/ ToldToStop(k))' <=> Stopped(k) \/ ToldToStop(k)
             /\ \A s : Settled(k, s)' <=> Settled(k, s)
             /\ \A p, t : Follows(k, p, t)' <=> Follows(k, p, t)
  BY <1>3, <1>8 DEF Stopped, ToldToStop, Settled, Follows
<1>9. CASE Stays(n, a, r)
  <2>1. /\ sysq'[k] = sysq[k] /\ r.sm = a.sm /\ r.prev = a.prev /\ r.dest = a.dest
        /\ pc'[n] = "hook" <=> pc[n] = "hook"
        /\ pc[n] = "hook" => r.cmd = a.cmd
    BY <1>1, <1>9 DEF Stays
  <2>2. /\ UnderWay(n)' <=> UnderWay(n)
        /\ UnderWay(n) => From(n)' = From(n) /\ To(n)' = To(n)
    BY <2>1 DEF UnderWay, From, To
  <2>3. Stopping(n)' <=> Stopping(n)
    BY <2>1, <2>2 DEF Stopping
  <2> QED
    BY <1>2, <1>3, <1>7, <1>8, <2>1, <2>2, <2>3 DEF Edge
<1>10. CASE Orders(n, a, r)
  <2>1. /\ pc[n] = "top" /\ a.sm \in Work /\ a.sm # "TRANSITING" /\ a.sm # "FORCE_STOP"
    BY <1>10 DEF Orders, Work
  <2>2. PICK p \in Work, t \in State : p = a.sm /\ t = r.cmd
    BY <1>10, <2>1 DEF Orders, Work, State
  <2>3. /\ UnderWay(n)' /\ From(n)' = p /\ To(n)' = t /\ pc'[n] = "hook"
        /\ node'[n].sm = p /\ t \in Work \union {"FORCE_STOP"}
        /\ sysq' = Broadcast(n, Order(t))
    BY <1>10, <2>2 DEF Orders, UnderWay, From, To
  <2>4. Settled(k, p)
    BY <1>2, <2>1, <2>2 DEF Edge, UnderWay
  <2>5. sysq'[k] \in Dropped \union {<<Order(t)>>}
    <3>1. sysq[k] = << >> /\ Len(<< >>) = 0
      BY <2>4 DEF Settled
    <3>2. sysq'[k] = Stack!Offer(<< >>, SysCap, Order(t))
      BY <1>1, <1>2, <2>3, <3>1 DEF Broadcast
    <3>3. Append(<< >>, Order(t)) = <<Order(t)>>
      OBVIOUS
    <3> QED
      BY <3>1, <3>2, <3>3, CapAssumption DEF Stack!Offer, Dropped
  <2>6. t \in Work => Follows(k, p, t)'
    BY <1>3, <2>4, <2>5 DEF Settled, Follows
  <2>7. t = "FORCE_STOP" => ToldToStop(k)'
    <3> SUFFICES ASSUME t = "FORCE_STOP" PROVE ToldToStop(k)'
      OBVIOUS
    <3>1. Order(t) = "PUSH_FORCE_STOP"
      BY DEF Order
    <3> QED
      BY <1>3, <2>2, <2>4, <2>5, <3>1 DEF Settled, ToldToStop
  <2>8. Stopping(n)' => t = "FORCE_STOP"
    BY <2>1, <2>2, <2>3 DEF Stopping
  <2>9. t \in Work => Follows(k, From(n), To(n))'
    BY <2>3, <2>6 DEF Follows, Settled
  <2> QED
    BY <2>3, <2>7, <2>8, <2>9 DEF Edge
<1>11. CASE Goes(n, a, r)
  <2>1. /\ pc[n] = "hook" /\ pc'[n] = "top" /\ sysq'[k] = sysq[k]
        /\ UnderWay(n) /\ From(n) = a.sm /\ To(n) = a.cmd
    BY <1>11 DEF Goes, UnderWay, From, To
  <2>2. a.cmd \in Work \union {"FORCE_STOP"}
    BY <2>1, HookAtWork
  <2>3. CASE r.sm = a.cmd /\ TRUE \in Hook[n][a.cmd]
    <3>1. a.cmd = "FORCE_STOP"
      BY <2>2, <2>3 DEF WaitingNode, Work, State
    <3>2. Stopping(n)
      BY <2>1, <3>1 DEF Stopping
    <3>3. ~UnderWay(n)' /\ r.sm \notin Work /\ pc'[n] # "scan"
      BY <2>1, <2>3, <3>1 DEF UnderWay, Work
    <3> QED
      BY <1>2, <1>8, <2>1, <3>2, <3>3 DEF Edge
  <2>4. CASE r.sm = "TRANSITING" /\ r.prev = a.sm /\ r.dest = a.cmd
    <3>1. UnderWay(n)' /\ From(n)' = From(n) /\ To(n)' = To(n) /\ pc'[n] # "scan"
      BY <2>1, <2>4 DEF UnderWay, From, To
    <3>2. Stopping(n)' => Stopping(n)
      BY <2>1, <2>4, <3>1 DEF Stopping
    <3> QED
      BY <1>2, <1>8, <2>1, <3>1, <3>2 DEF Edge
  <2> QED
    BY <1>11, <2>3, <2>4 DEF Goes
<1>12. CASE Arrives(n, a, r)
  <2>1. /\ pc[n] = "scan" /\ k \notin left[n] /\ r.sm = a.dest /\ sysq'[k] = sysq[k]
        /\ pc'[n] = "top"
    BY <1>1, <1>12 DEF Arrives
  <2>2. Settled(k, a.dest)
    <3>1. node[k].sm = a.dest
      BY <1>2, <2>1 DEF Edge
    <3> QED
      BY <1>4, <2>1, <3>1 DEF Follows, Work
  <2>3. ~UnderWay(n)' /\ ~Stopping(n)'
    BY <1>4, <2>1 DEF UnderWay, Stopping, Work
  <2> QED
    BY <1>8, <2>1, <2>2, <2>3 DEF Edge
<1>13. CASE Ends(n, r)
  <2>1. r.sm = "UNCONFIGURED" /\ pc'[n] = "off"
    BY <1>3, <1>13 DEF Ends, LocalOK
  <2> QED
    BY <2>1 DEF Edge, UnderWay, Stopping, Work
<1> QED
  BY <1>1, <1>9, <1>10, <1>11, <1>12, <1>13 DEF Kind

(* A step of the node that is waited for: it follows, or stays.            *)
LEMMA EdgeChild ==
  ASSUME Together, NEW n \in Nodes, WaitingNode(n), NEW k \in RequiredBy(n),
         Steady(n, k), Kind(k), Cycle(k) \/ Exit(k)
  PROVE  Edge(n, k)'
<1>1. k \in Nodes \ WatchDogs /\ k # n /\ k \notin RequiredBy(k) /\ n \notin WatchDogs
  BY ReqAssumption DEF RequiredBy, Steady
<1>2. LocalOK(n) /\ NodeOK(n) /\ Edge(n, k)
  BY AtStep DEF Together
<1>3. /\ node'[n] = node[n] /\ pc'[n] = pc[n] /\ left'[n] = left[n]
      /\ UnderWay(n)' = UnderWay(n) /\ From(n)' = From(n) /\ To(n)' = To(n)
      /\ Stopping(n)' = Stopping(n)
  BY <1>1 DEF Kind, UnderWay, From, To, Stopping
<1>4. Stopping(n) => (Stopped(k) \/ ToldToStop(k))'
  BY <1>1, <1>2, StopsOn DEF Edge
<1>5. node[n].sm \in Work /\ ~UnderWay(n) => Settled(k, node[n].sm)'
  <2> SUFFICES ASSUME node[n].sm \in Work, ~UnderWay(n)
               PROVE  Settled(k, node[n].sm)'
    OBVIOUS
  <2>1. PICK s \in Work : s = node[n].sm
    OBVIOUS
  <2>2. Settled(k, s)'
    BY <1>1, <1>2, <2>1, SettledStays DEF Edge
  <2> QED
    BY <1>3, <2>1, <2>2 DEF Settled
<1>6. ASSUME UnderWay(n), To(n) \in Work
      PROVE  \E p, t \in Work : /\ p = From(n) /\ t = To(n) /\ <<p, t>> \in Arrow
                                /\ Follows(k, p, t)
  <2>1. From(n) \in Work /\ <<From(n), To(n)>> \in Arrow
    <3>1. CASE pc[n] = "hook"
      <4>1. To(n) = node[n].cmd /\ From(n) = node[n].sm /\ To(n) # "FORCE_STOP"
        BY <1>6, <3>1 DEF To, From, Work
      <4> QED
        BY <3>1, <4>1, HookAtWork
    <3>2. CASE pc[n] # "hook"
      BY <1>2, <1>6, <3>2 DEF UnderWay, From, To, LocalOK, NodeOK, TransitOK, Work
    <3> QED
      BY <3>1, <3>2
  <2> QED
    BY <1>2, <1>6, <2>1 DEF Edge
<1>7. UnderWay(n) /\ To(n) \in Work => Follows(k, From(n), To(n))'
  <2> SUFFICES ASSUME UnderWay(n), To(n) \in Work
               PROVE  Follows(k, From(n), To(n))'
    OBVIOUS
  <2>1. PICK p, t \in Work : /\ p = From(n) /\ t = To(n) /\ <<p, t>> \in Arrow
                             /\ Follows(k, p, t)
    BY <1>6
  <2>2. Follows(k, p, t)'
    BY <1>1, <2>1, FollowsOn
  <2> QED
    BY <1>3, <2>1, <2>2 DEF Follows, Settled
<1>8. pc[n] = "scan" /\ k \notin left[n] => node'[k].sm = node[n].dest
  <2> SUFFICES ASSUME pc[n] = "scan", k \notin left[n] PROVE node'[k].sm = node[n].dest
    OBVIOUS
  <2>1. node[n].sm = "TRANSITING" /\ node[n].dest \in Work
    BY <1>1, <1>2, WorkArrow DEF LocalOK, NodeOK, ScanOK
  <2>2. UnderWay(n) /\ To(n) = node[n].dest /\ From(n) = node[n].prev
    BY <2>1 DEF UnderWay, To, From
  <2>3. PICK p, t \in Work : /\ p = From(n) /\ t = To(n) /\ <<p, t>> \in Arrow
                             /\ Follows(k, p, t)
    BY <1>6, <2>1, <2>2
  <2>4. node[k].sm = t /\ p # t /\ t # "TRANSITING"
    BY <1>2, <2>2, <2>3, WorkArrow DEF Edge, Work
  <2>5. Settled(k, t)
    BY <2>3, <2>4 DEF Follows
  <2> QED
    BY <1>1, <2>2, <2>3, <2>5, SettledStays DEF Settled
<1> QED
  BY <1>3, <1>4, <1>5, <1>7, <1>8 DEF Edge

(* A step of any other node is not seen by the two.                        *)
LEMMA EdgeOther ==
  ASSUME Together, NEW n \in Nodes, WaitingNode(n), NEW k \in RequiredBy(n),
         Steady(n, k), NEW m \in Nodes, m # n, m # k, Kind(m)
  PROVE  Edge(n, k)'
<1>1. k \in Nodes /\ k \notin RequiredBy(m)
  BY ReqAssumption DEF RequiredBy, Steady
<1>2. /\ node'[n] = node[n] /\ node'[k] = node[k] /\ sysq'[k] = sysq[k]
      /\ pc'[n] = pc[n] /\ left'[n] = left[n] /\ pc'[k] = pc[k]
  BY <1>1 DEF Kind
<1>3. Edge(n, k)
  BY DEF Together
<1> QED
  BY <1>2, <1>3 DEF Edge, Follows, Settled, Stopping, Stopped, ToldToStop,
                    UnderWay, From, To

(* So a step of a node keeps them all together, if it is a cycle of the    *)
(* node, or the node is alone steered by nobody.                           *)
LEMMA NodeKeepsTogether ==
  ASSUME Together, Inv', NEW m \in Nodes, Kind(m),
         Cycle(m) \/ Exit(m) \/ (\A n \in Nodes : ~Steady(n, m))
  PROVE  Together'
<1>1. ASSUME NEW n \in Nodes PROVE LocalOK(n)'
  <2>1. CASE n = m
    BY <2>1 DEF Kind
  <2>2. CASE n # m
    BY <1>1, <2>2 DEF Kind, LocalOK, Together
  <2> QED
    BY <2>1, <2>2
<1>2. ASSUME NEW n \in Nodes, NEW k \in RequiredBy(n), WaitingNode(n), Steady(n, k)
      PROVE  Edge(n, k)'
  <2>1. CASE m = n
    BY <1>2, <2>1, EdgeParent
  <2>2. CASE m = k
    BY <1>2, <2>2, EdgeChild
  <2>3. CASE m # n /\ m # k
    BY <1>2, <2>3, EdgeOther
  <2> QED
    BY <2>1, <2>2, <2>3
<1> QED
  BY <1>1, <1>2 DEF Together, Kind

LEMMA TogetherStep ==
  ASSUME Together, [Next]_vars
  PROVE  Together'
<1>1. Inv'
  BY NextInv DEF Together
<1>2. CASE UNCHANGED vars
  BY <1>1, <1>2 DEF vars, nodeVars, Together, LocalOK, Edge, Follows, Settled,
                  Stopping, Stopped, ToldToStop, UnderWay, From, To
<1>3. CASE HubTakes
  BY <1>1, <1>3 DEF HubTakes, Maps, Together, LocalOK, Edge, Follows, Settled,
                  Stopping, Stopped, ToldToStop, UnderWay, From, To
<1>4. CASE \E n \in Nodes : Cycle(n) \/ Exit(n)
  <2>1. PICK n \in Nodes : Cycle(n) \/ Exit(n)
    BY <1>4
  <2>2. Kind(n)
    BY <2>1, GiveOrdersKind, ChangeStateKind, LoopProcessKind, RollBackKind,
       TransitKind, ReadStateKind, CommitKind, ExitKind DEF Cycle
  <2> QED
    BY <1>1, <2>1, <2>2, NodeKeepsTogether
<1>5. ASSUME NEW m \in Nodes, \A n \in Nodes : ~Steady(n, m),
             \/ \E s \in Signal : Request(m, s)
             \/ End(m)
             \/ \E c \in SysCmd : Receive(m, c)
             \/ \E f \in {"error", "warning"} : Notice(m, f)
             \/ m \in WatchDogs /\ Elapse(m)
      PROVE  Together'
  <2>1. Kind(m)
    BY <1>5, InputKind
  <2> QED
    BY <1>1, <1>5, <2>1, NodeKeepsTogether
<1>6. CASE Call
  <2>1. PICK r \in Requests :
          IF r[2] = "end" THEN End(r[1]) ELSE Request(r[1], r[2])
    BY <1>6 DEF Call
  <2>2. /\ r[1] \in Nodes /\ r[2] \in Signal \union {"end"}
        /\ \A n \in Nodes : ~Steady(n, r[1])
    BY <2>1, InputAssumption DEF Steady
  <2>3. End(r[1]) \/ \E s \in Signal : Request(r[1], s)
    BY <2>1, <2>2
  <2> QED
    BY <1>5, <2>2, <2>3
<1>7. CASE Arrival
  <2>1. PICK r \in Received : Receive(r[1], r[2])
    BY <1>7 DEF Arrival
  <2>2. /\ r[1] \in Nodes /\ r[2] \in SysCmd
        /\ \A n \in Nodes : ~Steady(n, r[1])
    BY <2>1, InputAssumption DEF Steady
  <2> QED
    BY <1>5, <2>1, <2>2
<1>8. CASE \E r \in Noticed : Notice(r[1], r[2])
  <2>1. PICK r \in Noticed : Notice(r[1], r[2])
    BY <1>8
  <2>2. /\ r[1] \in Nodes /\ r[2] \in {"error", "warning"}
        /\ \A n \in Nodes : ~Steady(n, r[1])
    BY <2>1, InputAssumption DEF Steady
  <2> QED
    BY <1>5, <2>1, <2>2
<1>9. CASE \E m \in WatchDogs : Elapse(m)
  <2>1. PICK m \in WatchDogs : Elapse(m)
    BY <1>9
  <2>2. m \in Nodes /\ \A n \in Nodes : ~Steady(n, m)
    BY InputAssumption DEF Steady
  <2> QED
    BY <1>5, <2>1, <2>2
<1> QED
  BY <1>2, <1>3, <1>4, <1>6, <1>7, <1>8, <1>9 DEF Next, Internal

LEMMA TogetherInit ==
  ASSUME Init
  PROVE  Together
<1>1. Inv
  BY InitInv
<1>2. ASSUME NEW n \in Nodes
      PROVE  /\ node[n] = ReadyNode /\ pc[n] = "top" /\ pub[n] = "READY"
             /\ sysq[n] = << >>
  BY DEF Init
<1>3. ASSUME NEW n \in Nodes PROVE LocalOK(n)
  BY <1>2 DEF LocalOK, ReadyNode, Work
<1>4. ASSUME NEW n \in Nodes, NEW k \in RequiredBy(n) PROVE Edge(n, k)
  <2>1. k \in Nodes
    BY ReqAssumption DEF RequiredBy
  <2> QED
    BY <1>2, <2>1 DEF Edge, Settled, ReadyNode, Stopping, UnderWay
<1> QED
  BY <1>1, <1>3, <1>4 DEF Together, Init

(* In every system, a node that waits is in READY, STABLE or REPAIR        *)
(* together with every node that it alone steers, from the moment it       *)
(* arrives until it gives its next orders.                                 *)
THEOREM MovesTogetherHolds == Spec => []MovesTogether
<1>1. Init => Together
  BY TogetherInit
<1>2. Together /\ [Next]_vars => Together'
  BY TogetherStep
<1>3. Together => MovesTogether
  BY DEF Together, Edge, Settled, MovesTogether
<1> QED
  BY <1>1, <1>2, <1>3, PTL DEF Spec

(* And if a stack holds one order at least, none is lost on its way to     *)
(* them: whatever else the nodes do, the stack is empty when it is pushed, *)
(* and whether they act on it before or after the node itself has left.    *)
THEOREM NobodyWaitsInVainHolds == ASSUME SysCap # 0 PROVE Spec => []NobodyWaitsInVain
<1>1. Init => Together
  BY TogetherInit
<1>2. Together /\ [Next]_vars => Together'
  BY TogetherStep
<1>3. Together => NobodyWaitsInVain
  <2> SUFFICES ASSUME Together, NEW n \in Nodes, NEW k \in RequiredBy(n),
                      WaitingNode(n), Steady(n, k), UnderWay(n), To(n) \in Work
               PROVE  node[k].running /\ OnItsWay(k, From(n), To(n))
    BY DEF NobodyWaitsInVain
  <2>1. <<From(n), To(n)>> \in Arrow /\ From(n) \in Work
    <3>1. CASE pc[n] = "hook"
      <4>1. To(n) = node[n].cmd /\ From(n) = node[n].sm /\ To(n) # "FORCE_STOP"
        BY <3>1 DEF To, From, Work
      <4> QED
        BY <3>1, <4>1, HookAtWork
    <3>2. CASE pc[n] # "hook"
      BY <3>2, AtStep DEF UnderWay, From, To, LocalOK, NodeOK, TransitOK, Work
    <3> QED
      BY <3>1, <3>2
  <2>2. PICK p \in Work, t \in Work : p = From(n) /\ t = To(n)
    BY <2>1
  <2>3. Follows(k, p, t)
    BY <2>2 DEF Together, Edge
  <2>4. Raises(Order(t), p) = {SignalFor(t)} /\ Dropped = {}
    BY <2>1, <2>2, OrderRaises DEF Dropped
  <2>5. pc[k] = "hook" => node[k].sm \in Work
    <3>1. k \in Nodes
      BY ReqAssumption DEF RequiredBy
    <3> QED
      BY <3>1, HookAtWork
  <2>6. CASE node[k].sm = p /\ node[k].running /\ sysq[k] = <<Order(t)>>
    <3>1. 1 \in DOMAIN sysq[k] /\ sysq[k][1] = Order(t)
      BY <2>6
    <3> QED
      BY <2>2, <2>6, <3>1 DEF OnItsWay
  <2>7. CASE node[k].sm = p /\ node[k].flags = {SignalFor(t)} /\ node[k].running
    BY <2>2, <2>4, <2>7 DEF OnItsWay
  <2>8. CASE pc[k] = "hook" /\ node[k].cmd = t /\ node[k].running
    BY <2>2, <2>8 DEF OnItsWay, UnderWay, To
  <2>9. CASE node[k].sm = "TRANSITING" /\ node[k].dest = t /\ node[k].running
    BY <2>2, <2>5, <2>9 DEF OnItsWay, UnderWay, To, Work
  <2> QED
    BY <2>2, <2>3, <2>4, <2>6, <2>7, <2>8, <2>9 DEF Follows, Settled, OnItsWay
<1> QED
  BY <1>1, <1>2, <1>3, PTL DEF Spec

(* Nor is a force stop: the nodes that a stopped node steers are stopped,  *)
(* on their way out, or have what will stop them.                          *)
THEOREM ForceStopTravelsHolds == ASSUME SysCap # 0 PROVE Spec => []ForceStopTravels
<1>1. Init => Together
  BY TogetherInit
<1>2. Together /\ [Next]_vars => Together'
  BY TogetherStep
<1>3. Together => ForceStopTravels
  <2> SUFFICES ASSUME Together, NEW n \in Nodes, NEW k \in RequiredBy(n),
                      WaitingNode(n), Steady(n, k), Stopping(n), ~Stopped(k)
               PROVE  \/ Stopping(k)
                      \/ "force_stop" \in node[k].flags
                      \/ \E i \in DOMAIN sysq[k] : sysq[k][i] = "PUSH_FORCE_STOP"
    BY DEF ForceStopTravels, Stopped, Stopping
  <2>1. ToldToStop(k) /\ Dropped = {}
    BY DEF Together, Edge, Dropped
  <2>2. CASE sysq[k] = <<"PUSH_FORCE_STOP">>
    <3>1. 1 \in DOMAIN sysq[k] /\ sysq[k][1] = "PUSH_FORCE_STOP"
      BY <2>2
    <3> QED
      BY <3>1
  <2>3. CASE pc[k] = "hook" /\ node[k].cmd = "FORCE_STOP"
    BY <2>3 DEF Stopping, UnderWay, To
  <2> QED
    BY <2>1, <2>2, <2>3 DEF ToldToStop
<1> QED
  BY <1>1, <1>2, <1>3, PTL DEF Spec
=============================================================================
