---------------------------- MODULE BNodeProofs ----------------------------
(***************************************************************************)
(* What every step of one node preserves, in whatever system the node is:  *)
(* the types, that it moves along the arrows of the state machine, and     *)
(* that it decides only for what may follow.                               *)
(***************************************************************************)
EXTENDS BNode, SequenceTheorems, TLAPS

Arrow == Machine!Arrow

(* A pending change is a force stop or follows an arrow from here.         *)
PendingOK(m) == m.change => m.cmd = "FORCE_STOP" \/ <<m.sm, m.cmd>> \in Arrow

(* From READY on, what is pending between two cycles is a force stop: any  *)
(* other decision is carried out in the cycle that took it.                *)
StopPending(m) ==
  m.change /\ m.sm \notin {"UNCONFIGURED", "INITIALIZING"} => m.cmd = "FORCE_STOP"

(* A node in transit is on an arrow, or refused a force stop and ends.     *)
TransitOK(m) == m.sm = "TRANSITING" =>
                  \/ <<m.prev, m.dest>> \in Arrow
                  \/ m.dest = "FORCE_STOP" /\ ~m.running

(* While the user's hook is being asked, the change is still to be made.   *)
HookOK(m) == m.change /\ m.sm # "TRANSITING" /\ m.cmd # m.sm

(* While the scan of the required nodes goes on, the node is on the arrow  *)
(* or, its watch dog having expired, back at its origin; what it decided   *)
(* before the scan was decided on the arrow.                               *)
ScanOK(m) == /\ <<m.prev, m.dest>> \in Arrow
             /\ m.sm \in {"TRANSITING", m.prev}
             /\ m.change => m.cmd = "FORCE_STOP"

NodeOK(n) ==
  /\ TransitOK(node[n])
  /\ pc[n] # "off" => PendingOK(node[n])
  /\ pc[n] \notin {"hook", "off"} => StopPending(node[n])
  /\ pc[n] = "hook" => HookOK(node[n])
  /\ pc[n] \in {"back", "scan"} => ScanOK(node[n])
  /\ pc[n] = "back" => node[n].sm = node[n].prev
  /\ pc[n] = "off" => node[n].sm = "UNCONFIGURED"

-----------------------------------------------------------------------------
(* Arrows join two different states, neither of them TRANSITING, and lead  *)
(* neither into nor out of FORCE_STOP.                                     *)
LEMMA ArrowFacts ==
  \A s, t : <<s, t>> \in Arrow =>
     /\ s \in State \ {"TRANSITING", "FORCE_STOP"}
     /\ t \in State \ {"TRANSITING", "FORCE_STOP", "UNCONFIGURED"}
     /\ s # t
BY DEF Arrow, Machine!Arrow, State

(* What generate_signal_to_chenge_node_state decides for follows an arrow  *)
(* or is a force stop.                                                     *)
LEMMA DecisionOK ==
  ASSUME NEW m \in NodeRecord
  PROVE  /\ Decision(m).uses \subseteq Flag
         /\ Decision(m) = Nothing \/ Decision(m).to = "FORCE_STOP"
              \/ <<m.sm, Decision(m).to>> \in Arrow
         /\ Decision(m) # Nothing => Decision(m).to \in State
<1>1. CASE "force_stop" \in m.flags
  BY <1>1 DEF Decision, Decide, Nothing, Flag, Signal, State
<1>2. CASE "force_stop" \notin m.flags /\ m.sm = "STABLE"
  BY <1>2 DEF Decision, FromStable, Decide, Nothing, Flag, Signal, State,
     Arrow, Machine!Arrow
<1>3. CASE "force_stop" \notin m.flags /\ m.sm = "REPAIR"
  BY <1>3 DEF Decision, FromRepair, Decide, Nothing, Flag, Signal, State,
     Arrow, Machine!Arrow
<1>4. CASE "force_stop" \notin m.flags /\ m.sm = "READY"
  BY <1>4 DEF Decision, FromReady, Decide, Nothing, Flag, Signal, State,
     Arrow, Machine!Arrow
<1>5. CASE "force_stop" \notin m.flags /\ m.sm \notin {"STABLE", "REPAIR", "READY"}
  BY <1>5 DEF Decision, Decide, Nothing, Flag
<1> QED
  BY <1>1, <1>2, <1>3, <1>4, <1>5

LEMMA GenerateOK ==
  ASSUME NEW m \in NodeRecord
  PROVE  LET g == generate_signal(m) IN
         /\ g \in NodeRecord
         /\ g.sm = m.sm /\ g.prev = m.prev /\ g.dest = m.dest
         /\ g.running = m.running /\ g.expired = m.expired
         /\ PendingOK(m) => PendingOK(g)
<1>1. CASE Decision(m) = Nothing
  BY <1>1 DEF generate_signal
<1>2. CASE Decision(m) # Nothing
  <2> DEFINE d == Decision(m)
             g == [m EXCEPT !.change = TRUE, !.cmd = d.to, !.flags = @ \ d.uses]
  <2>1. d.to \in State /\ (d.to = "FORCE_STOP" \/ <<m.sm, d.to>> \in Arrow)
    BY <1>2, DecisionOK
  <2>2. generate_signal(m) = g
    BY <1>2 DEF generate_signal
  <2> HIDE DEF d
  <2>3. /\ g \in NodeRecord
        /\ g.sm = m.sm /\ g.prev = m.prev /\ g.dest = m.dest
        /\ g.running = m.running /\ g.expired = m.expired
        /\ g.cmd = d.to
    BY <2>1 DEF NodeRecord
  <2> QED
    BY <2>1, <2>2, <2>3 DEF PendingOK
<1> QED
  BY <1>1, <1>2

(* change_node_state follows the arrow at once or waits on it; only a      *)
(* force stop that was refused makes it wait for FORCE_STOP.               *)
LEMMA ChangeOK ==
  ASSUME NEW g \in NodeRecord, NEW ok \in BOOLEAN,
         g.sm # "TRANSITING", g.cmd = "FORCE_STOP" \/ <<g.sm, g.cmd>> \in Arrow
  PROVE  LET r == change_node_state(g, ok) IN
         /\ r \in NodeRecord /\ ~r.change
         /\ \/ r.sm = g.cmd /\ r.prev = g.prev /\ r.dest = g.dest
            \/ /\ r.sm = "TRANSITING" /\ r.prev = g.sm /\ r.dest = g.cmd
               /\ g.sm # g.cmd
               /\ r.dest = "FORCE_STOP" => ~r.running
<1>1. CASE g.cmd = g.sm
  BY <1>1 DEF change_node_state, NodeRecord
<1>2. CASE g.cmd # g.sm /\ CallsHook(g) /\ ok
  BY <1>2 DEF change_node_state, NodeRecord, Spent
<1>3. CASE g.cmd # g.sm /\ ~(CallsHook(g) /\ ok)
  BY <1>3 DEF change_node_state, NodeRecord, Spent, State
<1> QED
  BY <1>1, <1>2, <1>3

(* What change_node_state says of the watch dog and of the hook.           *)
LEMMA ChangeMore ==
  ASSUME NEW g \in NodeRecord, NEW ok \in BOOLEAN
  PROVE  LET r == change_node_state(g, ok) IN
         /\ ~g.expired => ~r.expired
         /\ r.sm = g.cmd /\ g.cmd # g.sm /\ g.cmd # "TRANSITING" => ok
<1>1. CASE g.cmd = g.sm
  BY <1>1 DEF change_node_state, NodeRecord
<1>2. CASE g.cmd # g.sm /\ CallsHook(g) /\ ok
  BY <1>2 DEF change_node_state, NodeRecord
<1>3. CASE g.cmd # g.sm /\ ~(CallsHook(g) /\ ok)
  BY <1>3 DEF change_node_state, NodeRecord
<1> QED
  BY <1>1, <1>2, <1>3
-----------------------------------------------------------------------------
(* The variables of BNode have their types.                                *)
NodeTypes ==
  /\ node \in [Nodes -> NodeRecord]
  /\ pc \in [Nodes -> {"top", "hook", "back", "scan", "off"}]
  /\ left \in [Nodes -> SUBSET Nodes]
  /\ pub \in [Nodes -> State]
  /\ sysq \in [Nodes -> Seq(SysCmd)]
  /\ stateMap \in [Nodes -> SUBSET Nodes]
  /\ sysMap \in [Nodes -> SUBSET Nodes]
  /\ hubq \in Seq(HubCmd)

(* What one system command leaves alone.                                   *)
Executed(m, r) ==
  /\ r \in NodeRecord
  /\ r.sm = m.sm /\ r.prev = m.prev /\ r.dest = m.dest
  /\ r.cmd = m.cmd /\ r.change = m.change
  /\ r.running => m.running

LEMMA ExecuteOK ==
  ASSUME NEW m \in NodeRecord, NEW c \in SysCmd
  PROVE  Executed(m, Execute(m, c))
<1>1. Raises(c, m.sm) \subseteq Flag
  BY DEF Raises, Flag, Signal
<1> DEFINE f == Raises(c, m.sm)
<1>2. Execute(m, c) = [m EXCEPT !.flags = @ \union f, !.running = @ /\ c # "END"]
  BY DEF Execute
<1> HIDE DEF f
<1>3. f \subseteq Flag
  BY <1>1 DEF f
<1> QED
  BY <1>2, <1>3 DEF Executed, NodeRecord

LEMMA SendsOK ==
  ASSUME NEW n \in Nodes, NEW c \in SysCmd
  PROVE  Sends(n, c) \in Seq(HubCmd)
<1>1. CASE c = "REQUIRE_NODE_LIST"
  <2>1. Req[n] \in Seq(Nodes)
    BY ReqAssumption
  <2>2. Len(Req[n]) \in Nat /\ \A i \in 1 .. Len(Req[n]) : Req[n][i] \in Nodes
    BY <2>1
  <2>3. [i \in 1 .. Len(Req[n]) |->
            [type |-> "START_NODE", source |-> n, target |-> Req[n][i]]]
          \in [1 .. Len(Req[n]) -> HubCmd]
    BY <2>2 DEF HubCmd
  <2> QED
    BY <1>1, <2>2, <2>3 DEF Sends
<1>2. CASE c = "END"
  BY <1>2 DEF Sends, ToHub, HubCmd
<1>3. CASE c \notin {"REQUIRE_NODE_LIST", "END"}
  BY <1>3 DEF Sends
<1> QED
  BY <1>1, <1>2, <1>3

LEMMA ToHubOK ==
  ASSUME NEW n \in Nodes, NEW t \in {"PICK_SHARED_PTR", "DELETE_SHARED_PTR"}
  PROVE  ToHub(t, n) \in Seq(HubCmd)
BY DEF ToHub, HubCmd

(* What a push adds to the hub's stack are commands like those pushed.     *)
LEMMA PostOK ==
  ASSUME NEW S, hubq \in Seq(S), NEW cmds \in Seq(S), Post(cmds)
  PROVE  hubq' \in Seq(S)
<1> DEFINE room == HubCap - Len(hubq)
           k == IF Len(cmds) < room THEN Len(cmds) ELSE room
<1>1. room \in Int /\ k \in Int /\ k <= Len(cmds) /\ Len(cmds) \in Nat
  BY CapAssumption
<1>2. hubq' = hubq \o SubSeq(cmds, 1, k)
  BY DEF Post, Stack!OfferAll
<1> HIDE DEF k
<1>3. \A i \in 1 .. k : cmds[i] \in S
  BY <1>1
<1>4. SubSeq(cmds, 1, k) \in Seq(S)
  BY <1>1, <1>3, SubSeqProperties
<1> QED
  BY <1>2, <1>4, ConcatProperties

LEMMA OfferOK ==
  ASSUME NEW q \in Seq(SysCmd), NEW c \in SysCmd
  PROVE  Stack!Offer(q, SysCap, c) \in Seq(SysCmd)
BY CapAssumption DEF Stack!Offer

LEMMA BroadcastOK ==
  ASSUME sysq \in [Nodes -> Seq(SysCmd)], NEW n \in Nodes, NEW c \in SysCmd
  PROVE  Broadcast(n, c) \in [Nodes -> Seq(SysCmd)]
BY OfferOK DEF Broadcast

LEMMA OrderOK == \A s : Order(s) \in SysCmd /\ RollBackOrder(s) \in SysCmd
BY DEF Order, RollBackOrder, SysCmd

(* One xxx_processing: it gives the members of n a new value, made from    *)
(* what one command left of them.                                          *)
LEMMA ProcessingOK ==
  ASSUME NEW n \in Nodes, NEW m \in NodeRecord,
         NEW queues \in [Nodes -> Seq(SysCmd)], hubq \in Seq(HubCmd),
         Processing(n, m, queues)
  PROVE  /\ \E r : Executed(m, r) /\ node' = [node EXCEPT ![n] = r]
         /\ sysq' \in [Nodes -> Seq(SysCmd)] /\ hubq' \in Seq(HubCmd)
<1> DEFINE c == Head(queues[n])
<1>1. CASE queues[n] = << >>
  <2>1. Executed(m, m)
    BY DEF Executed
  <2> QED
    BY <1>1, <2>1 DEF Processing
<1>2. CASE queues[n] # << >>
  <2>1. queues[n] \in Seq(SysCmd)
    OBVIOUS
  <2>2. c \in SysCmd /\ Tail(queues[n]) \in Seq(SysCmd)
    BY <1>2, <2>1
  <2> HIDE DEF c
  <2>3. Executed(m, Execute(m, c)) /\ Sends(n, c) \in Seq(HubCmd)
    BY <2>2, ExecuteOK, SendsOK
  <2>4. Post(Sends(n, c)) => hubq' \in Seq(HubCmd)
    BY <2>3, PostOK
  <2>5. [queues EXCEPT ![n] = Tail(@)] \in [Nodes -> Seq(SysCmd)]
    BY <2>2
  <2> QED
    BY <1>2, <2>3, <2>4, <2>5 DEF Processing, c
<1> QED
  BY <1>1, <1>2
-----------------------------------------------------------------------------
(* What a step of one node may make of its members: the abstract steps of  *)
(* StateMachine, on one record.                                            *)
MachineStep(m, r) ==
  \/ r.sm = m.sm /\ r.prev = m.prev /\ r.dest = m.dest
  \/ /\ r.prev = m.prev /\ r.dest = m.dest
     /\ \/ <<m.sm, r.sm>> \in Arrow
        \/ /\ m.sm = "TRANSITING" /\ <<m.prev, m.dest>> \in Arrow
           /\ r.sm \in {m.prev, m.dest}
        \/ m.sm \notin {"TRANSITING", "FORCE_STOP"} /\ r.sm = "FORCE_STOP"
        \/ r.sm = "UNCONFIGURED"
  \/ /\ r.sm = "TRANSITING" /\ r.prev = m.sm
     /\ \/ <<m.sm, r.dest>> \in Arrow
        \/ /\ m.sm \notin {"TRANSITING", "FORCE_STOP"}
           /\ r.dest = "FORCE_STOP"

(* A step of node n: it gives n a new record, keeps the other threads      *)
(* where they are, and preserves what the invariant says of n.             *)
StepOK(n) ==
  /\ \E r \in NodeRecord : node' = [node EXCEPT ![n] = r] /\ MachineStep(node[n], r)
  /\ \A k \in Nodes \ {n} : pc'[k] = pc[k]
  /\ NodeTypes'
  /\ NodeOK(n)'

LEMMA GiveOrdersOK ==
  ASSUME NEW n \in Nodes, NodeTypes, NodeOK(n), GiveOrders(n)
  PROVE  StepOK(n)
<1> DEFINE g == Generated(n)
<1>1. /\ node[n] \in NodeRecord /\ g \in NodeRecord
      /\ g.sm = node[n].sm /\ g.prev = node[n].prev /\ g.dest = node[n].dest
      /\ PendingOK(g)
  BY GenerateOK DEF NodeTypes, NodeOK, Generated, GiveOrders, AtTop
<1>2. /\ pc[n] = "top" /\ g.change /\ g.sm # "TRANSITING" /\ g.cmd # g.sm
      /\ UNCHANGED <<left, pub, stateMap, sysMap>>
  BY DEF GiveOrders, AtTop, Maps, Hooked
<1>3. node' = [node EXCEPT ![n] = g] /\ pc' = [pc EXCEPT ![n] = "hook"]
  BY DEF GiveOrders
<1>4. hubq' \in Seq(HubCmd)
  <2> DEFINE cmds == IF g.cmd = "INITIALIZING" THEN ToHub("PICK_SHARED_PTR", n)
                     ELSE << >>
  <2>1. ToHub("PICK_SHARED_PTR", n) \in Seq(HubCmd) /\ << >> \in Seq(HubCmd)
    BY ToHubOK
  <2>2. cmds \in Seq(HubCmd)
    BY <2>1
  <2>3. Post(cmds)
    BY DEF GiveOrders
  <2> HIDE DEF cmds
  <2> QED
    BY <2>2, <2>3, PostOK DEF NodeTypes
<1>5. sysq' \in [Nodes -> Seq(SysCmd)]
  BY BroadcastOK, OrderOK DEF GiveOrders, NodeTypes
<1> HIDE DEF g
<1>6. node'[n] = g /\ pc'[n] = "hook" /\ \A k \in Nodes \ {n} : pc'[k] = pc[k]
  BY <1>3 DEF NodeTypes
<1>7. NodeTypes'
  BY <1>1, <1>2, <1>3, <1>4, <1>5 DEF NodeTypes
<1>8. MachineStep(node[n], g)
  BY <1>1 DEF MachineStep
<1>9. NodeOK(n)'
  BY <1>1, <1>2, <1>6 DEF NodeOK, TransitOK, HookOK
<1> QED
  BY <1>1, <1>3, <1>6, <1>7, <1>8, <1>9 DEF StepOK

LEMMA ChangeStateOK ==
  ASSUME NEW n \in Nodes, NodeTypes, NodeOK(n), ChangeState(n)
  PROVE  StepOK(n)
<1> DEFINE g == IF pc[n] = "hook" THEN node[n] ELSE Generated(n)
<1>1. /\ node[n] \in NodeRecord /\ g \in NodeRecord
      /\ g.sm = node[n].sm /\ g.prev = node[n].prev /\ g.dest = node[n].dest
      /\ PendingOK(g)
  BY GenerateOK DEF NodeTypes, NodeOK, Generated, ChangeState, AtTop
<1>2. /\ pc[n] \in {"top", "hook"} /\ g.change /\ g.sm # "TRANSITING"
      /\ pc' = [pc EXCEPT ![n] = "top"]
      /\ UNCHANGED <<left, sysq, stateMap, sysMap>>
  BY DEF ChangeState, AtTop, Maps, NodeOK, HookOK
<1>3. g.cmd = "FORCE_STOP" \/ <<g.sm, g.cmd>> \in Arrow
  BY <1>1, <1>2 DEF PendingOK
<1>4. PICK ok \in Hook[n][g.cmd] :
        /\ node' = [node EXCEPT ![n] = change_node_state(g, ok)]
        /\ Post(IF Hooked(g) /\ g.cmd = "FORCE_STOP" /\ ~ok
                THEN ToHub("DELETE_SHARED_PTR", n) ELSE << >>)
  BY DEF ChangeState
<1>5. ok \in BOOLEAN
  BY <1>1, HookAssumption DEF NodeRecord
<1> DEFINE r == change_node_state(g, ok)
<1>6. /\ r \in NodeRecord /\ ~r.change
      /\ \/ r.sm = g.cmd /\ r.prev = g.prev /\ r.dest = g.dest
         \/ /\ r.sm = "TRANSITING" /\ r.prev = g.sm /\ r.dest = g.cmd
            /\ g.sm # g.cmd
            /\ r.dest = "FORCE_STOP" => ~r.running
  BY <1>1, <1>2, <1>3, <1>5, ChangeOK
<1>7. node' = [node EXCEPT ![n] = r] /\ node'[n] = r
  BY <1>4 DEF NodeTypes
<1>8. hubq' \in Seq(HubCmd)
  <2> DEFINE cmds == IF Hooked(g) /\ g.cmd = "FORCE_STOP" /\ ~ok
                     THEN ToHub("DELETE_SHARED_PTR", n) ELSE << >>
  <2>1. ToHub("DELETE_SHARED_PTR", n) \in Seq(HubCmd) /\ << >> \in Seq(HubCmd)
    BY ToHubOK
  <2>2. cmds \in Seq(HubCmd)
    BY <2>1
  <2>3. Post(cmds)
    BY <1>4
  <2> HIDE DEF cmds
  <2> QED
    BY <2>2, <2>3, PostOK DEF NodeTypes
<1>9. pub' = [pub EXCEPT ![n] = r.sm]
  BY <1>7 DEF ChangeState, Publish
<1> HIDE DEF g, r
<1>10. NodeTypes'
  BY <1>2, <1>6, <1>7, <1>8, <1>9 DEF NodeTypes, NodeRecord
<1>11. MachineStep(node[n], r)
  BY <1>1, <1>2, <1>3, <1>6, ArrowFacts DEF MachineStep
<1>12. pc'[n] = "top" /\ \A k \in Nodes \ {n} : pc'[k] = pc[k]
  BY <1>2 DEF NodeTypes
<1>13. NodeOK(n)'
  BY <1>2, <1>3, <1>6, <1>7, <1>12, ArrowFacts
     DEF NodeOK, TransitOK, PendingOK, StopPending
<1> QED
  BY <1>6, <1>7, <1>10, <1>11, <1>12, <1>13 DEF StepOK

LEMMA LoopProcessOK ==
  ASSUME NEW n \in Nodes, NodeTypes, NodeOK(n), LoopProcess(n)
  PROVE  StepOK(n)
<1> DEFINE g == Generated(n)
<1>1. /\ node[n] \in NodeRecord /\ g \in NodeRecord
      /\ g.sm = node[n].sm /\ g.prev = node[n].prev /\ g.dest = node[n].dest
      /\ PendingOK(g)
  BY GenerateOK DEF NodeTypes, NodeOK, Generated, LoopProcess, AtTop
<1>2. /\ pc[n] = "top" /\ ~g.change /\ g.sm # "TRANSITING"
      /\ UNCHANGED <<pc, left, stateMap, sysMap>>
  BY DEF LoopProcess, AtTop, Maps
<1>3. \E r \in NodeRecord :
        /\ node' = [node EXCEPT ![n] = r]
        /\ r.sm = g.sm /\ r.prev = g.prev /\ r.dest = g.dest
        /\ PendingOK(r) /\ StopPending(r)
        /\ sysq' \in [Nodes -> Seq(SysCmd)] /\ hubq' \in Seq(HubCmd)
  <2>1. CASE g.sm = "UNCONFIGURED"
    <3> DEFINE r == ThenChangeTo("INITIALIZING", g)
    <3>1. /\ r \in NodeRecord /\ r.sm = g.sm /\ r.prev = g.prev /\ r.dest = g.dest
          /\ r.cmd = "INITIALIZING"
      BY <1>1 DEF ThenChangeTo, NodeRecord, State
    <3>2. PendingOK(r) /\ StopPending(r)
      BY <2>1, <3>1 DEF PendingOK, StopPending, Arrow, Machine!Arrow
    <3>3. node' = [node EXCEPT ![n] = r] /\ UNCHANGED <<sysq, hubq>>
      BY <2>1 DEF LoopProcess
    <3> QED
      BY <3>1, <3>2, <3>3 DEF NodeTypes
  <2>2. CASE g.sm = "INITIALIZING"
    <3> DEFINE m == ThenChangeTo("READY", g)
    <3>1. Processing(n, m, sysq)
      BY <2>2 DEF LoopProcess
    <3>2. /\ m \in NodeRecord /\ m.sm = g.sm /\ m.prev = g.prev /\ m.dest = g.dest
          /\ m.cmd = "READY"
      BY <1>1 DEF ThenChangeTo, NodeRecord, State
    <3> HIDE DEF m
    <3>3. PICK e : Executed(m, e) /\ node' = [node EXCEPT ![n] = e]
      BY <3>1, <3>2, ProcessingOK DEF NodeTypes
    <3>4. PendingOK(e) /\ StopPending(e)
      BY <2>2, <3>2, <3>3 DEF Executed, PendingOK, StopPending, Arrow, Machine!Arrow
    <3>5. sysq' \in [Nodes -> Seq(SysCmd)] /\ hubq' \in Seq(HubCmd)
      BY <3>1, <3>2, ProcessingOK DEF NodeTypes
    <3> QED
      BY <3>2, <3>3, <3>4, <3>5 DEF Executed
  <2>3. CASE g.sm \notin {"UNCONFIGURED", "INITIALIZING"}
    <3>1. Processing(n, g, sysq)
      BY <2>3 DEF LoopProcess
    <3>2. PICK e : Executed(g, e) /\ node' = [node EXCEPT ![n] = e]
      BY <1>1, <3>1, ProcessingOK DEF NodeTypes
    <3>3. sysq' \in [Nodes -> Seq(SysCmd)] /\ hubq' \in Seq(HubCmd)
      BY <1>1, <3>1, ProcessingOK DEF NodeTypes
    <3> QED
      BY <1>2, <3>2, <3>3 DEF Executed, PendingOK, StopPending
  <2> QED
    BY <2>1, <2>2, <2>3
<1>4. PICK r \in NodeRecord :
        /\ node' = [node EXCEPT ![n] = r]
        /\ r.sm = g.sm /\ r.prev = g.prev /\ r.dest = g.dest
        /\ PendingOK(r) /\ StopPending(r)
        /\ sysq' \in [Nodes -> Seq(SysCmd)] /\ hubq' \in Seq(HubCmd)
  BY <1>3
<1>5. node'[n] = r /\ r.sm \in State
  BY <1>4 DEF NodeTypes, NodeRecord
<1>6. pub' = [pub EXCEPT ![n] = r.sm]
  BY <1>5 DEF LoopProcess, Publish
<1> HIDE DEF g
<1>7. NodeTypes'
  BY <1>2, <1>4, <1>5, <1>6 DEF NodeTypes
<1>8. MachineStep(node[n], r)
  BY <1>1, <1>4 DEF MachineStep
<1>9. NodeOK(n)'
  BY <1>2, <1>4, <1>5 DEF NodeOK, TransitOK
<1> QED
  BY <1>2, <1>4, <1>7, <1>8, <1>9 DEF StepOK

(* A node in transit is on an arrow, and stays there when it decides.      *)
LEMMA OnArrow ==
  ASSUME NEW n \in Nodes, NodeTypes, NodeOK(n),
         AtTop(n), Generated(n).sm = "TRANSITING"
  PROVE  LET g == Generated(n)
         IN  /\ g \in NodeRecord /\ node[n].sm = "TRANSITING"
             /\ g.prev = node[n].prev /\ g.dest = node[n].dest
             /\ <<g.prev, g.dest>> \in Arrow
             /\ g.change => g.cmd = "FORCE_STOP"
<1> DEFINE g == Generated(n)
<1>1. /\ node[n] \in NodeRecord /\ g \in NodeRecord
      /\ g.sm = node[n].sm /\ g.prev = node[n].prev /\ g.dest = node[n].dest
      /\ PendingOK(g)
  BY GenerateOK DEF NodeTypes, NodeOK, Generated, AtTop
<1>2. <<g.prev, g.dest>> \in Arrow
  BY <1>1 DEF NodeOK, TransitOK, AtTop
<1>3. g.change => g.cmd = "FORCE_STOP"
  BY <1>1, ArrowFacts DEF PendingOK
<1> QED
  BY <1>1, <1>2, <1>3

(* Only the watch dog puts the node back to where it came from.            *)
LEMMA RollBackOK ==
  ASSUME NEW n \in Nodes, NodeTypes, NodeOK(n), RollBack(n)
  PROVE  StepOK(n)
<1> DEFINE g == Generated(n)
           r == [g EXCEPT !.sm = g.prev, !.expired = FALSE]
<1>1. /\ g \in NodeRecord /\ node[n].sm = "TRANSITING"
      /\ g.prev = node[n].prev /\ g.dest = node[n].dest
      /\ <<g.prev, g.dest>> \in Arrow
      /\ g.change => g.cmd = "FORCE_STOP"
  BY OnArrow DEF RollBack
<1>2. /\ node' = [node EXCEPT ![n] = r] /\ pc' = [pc EXCEPT ![n] = "back"]
      /\ UNCHANGED <<left, pub, hubq, stateMap, sysMap>>
      /\ sysq' = Broadcast(n, RollBackOrder(g.prev))
  BY DEF RollBack, Maps
<1>3. /\ r \in NodeRecord /\ r.sm = g.prev /\ r.prev = g.prev /\ r.dest = g.dest
      /\ r.cmd = g.cmd /\ r.change = g.change
  BY <1>1 DEF NodeRecord
<1>4. sysq' \in [Nodes -> Seq(SysCmd)]
  <2>1. RollBackOrder(g.prev) \in SysCmd
    BY OrderOK
  <2> QED
    BY <1>2, <2>1, BroadcastOK DEF NodeTypes
<1> HIDE DEF g, r
<1>5. /\ node'[n] = r /\ pc'[n] = "back"
      /\ \A k \in Nodes \ {n} : pc'[k] = pc[k]
  BY <1>2 DEF NodeTypes
<1>6. NodeTypes'
  BY <1>2, <1>3, <1>4 DEF NodeTypes
<1>7. MachineStep(node[n], r)
  BY <1>1, <1>3 DEF MachineStep
<1>8. TransitOK(r) /\ PendingOK(r) /\ StopPending(r) /\ ScanOK(r)
  BY <1>1, <1>3, ArrowFacts DEF TransitOK, PendingOK, StopPending, ScanOK
<1>9. NodeOK(n)'
  BY <1>3, <1>5, <1>8 DEF NodeOK
<1> QED
  BY <1>2, <1>3, <1>5, <1>6, <1>7, <1>9 DEF StepOK

(* The rest of the cycle of a node in transit, or just put back, leaves it *)
(* where it is.                                                            *)
LEMMA TransitStepOK ==
  ASSUME NEW n \in Nodes, NodeTypes, NodeOK(n), Transit(n)
  PROVE  StepOK(n)
<1> DEFINE m == IF pc[n] = "back" THEN node[n] ELSE Generated(n)
<1>1. /\ m \in NodeRecord /\ m.sm = node[n].sm
      /\ m.prev = node[n].prev /\ m.dest = node[n].dest
      /\ m.sm \in {"TRANSITING", m.prev}
      /\ <<m.prev, m.dest>> \in Arrow
      /\ m.change => m.cmd = "FORCE_STOP"
  <2>1. CASE pc[n] = "back"
    BY <2>1 DEF NodeOK, ScanOK, NodeTypes
  <2>2. CASE pc[n] # "back"
    <3>1. AtTop(n) /\ Generated(n).sm = "TRANSITING" /\ m = Generated(n)
      BY <2>2 DEF Transit
    <3> QED
      BY <3>1, OnArrow
  <2> QED
    BY <2>1, <2>2
<1>2. UNCHANGED <<stateMap, sysMap>>
  BY DEF Transit, Maps
<1>3. IF m.prev = "UNCONFIGURED"
      THEN node' = [node EXCEPT ![n] = m] /\ UNCHANGED <<sysq, hubq>>
      ELSE Processing(n, m, sysq)
  BY DEF Transit
<1>4. /\ \/ pub' = pub
         \/ pub' = [pub EXCEPT ![n] = node'[n].sm]
      /\ pc' = [pc EXCEPT ![n] = "scan"] \/ pc' = [pc EXCEPT ![n] = "top"]
      /\ left' = [left EXCEPT ![n] = stateMap[n]] \/ left' = [left EXCEPT ![n] = {}]
  BY DEF Transit, Publish
<1> HIDE DEF m
<1>5. \E r \in NodeRecord :
        /\ node' = [node EXCEPT ![n] = r]
        /\ r.sm = m.sm /\ r.prev = m.prev /\ r.dest = m.dest
        /\ r.cmd = m.cmd /\ r.change = m.change
        /\ sysq' \in [Nodes -> Seq(SysCmd)] /\ hubq' \in Seq(HubCmd)
  <2>1. CASE m.prev = "UNCONFIGURED"
    BY <1>1, <1>3, <2>1 DEF NodeTypes
  <2>2. CASE m.prev # "UNCONFIGURED"
    <3>1. Processing(n, m, sysq)
      BY <1>3, <2>2
    <3>2. hubq \in Seq(HubCmd) /\ sysq \in [Nodes -> Seq(SysCmd)]
      BY DEF NodeTypes
    <3>3. PICK e : Executed(m, e) /\ node' = [node EXCEPT ![n] = e]
      BY <1>1, <3>1, <3>2, ProcessingOK
    <3>4. sysq' \in [Nodes -> Seq(SysCmd)] /\ hubq' \in Seq(HubCmd)
      BY <1>1, <3>1, <3>2, ProcessingOK
    <3> QED
      BY <3>3, <3>4 DEF Executed
  <2> QED
    BY <2>1, <2>2
<1>6. PICK r \in NodeRecord :
        /\ node' = [node EXCEPT ![n] = r]
        /\ r.sm = m.sm /\ r.prev = m.prev /\ r.dest = m.dest
        /\ r.cmd = m.cmd /\ r.change = m.change
        /\ sysq' \in [Nodes -> Seq(SysCmd)] /\ hubq' \in Seq(HubCmd)
  BY <1>5
<1>7. node'[n] = r /\ r.sm \in State
  BY <1>6 DEF NodeTypes, NodeRecord
<1>8. NodeTypes'
  <2>1. pub' \in [Nodes -> State]
    BY <1>4, <1>7 DEF NodeTypes
  <2>2. pc' \in [Nodes -> {"top", "hook", "back", "scan", "off"}]
    BY <1>4 DEF NodeTypes
  <2>3. left' \in [Nodes -> SUBSET Nodes]
    BY <1>4 DEF NodeTypes
  <2>4. node' \in [Nodes -> NodeRecord]
    BY <1>6 DEF NodeTypes
  <2> QED
    BY <1>2, <1>6, <2>1, <2>2, <2>3, <2>4 DEF NodeTypes
<1>9. MachineStep(node[n], r)
  BY <1>1, <1>6 DEF MachineStep
<1>10. NodeOK(n)'
  <2>1. pc'[n] \in {"scan", "top"}
    BY <1>4 DEF NodeTypes
  <2>2. TransitOK(r) /\ PendingOK(r) /\ StopPending(r) /\ ScanOK(r)
    BY <1>1, <1>6, ArrowFacts DEF TransitOK, PendingOK, StopPending, ScanOK
  <2> QED
    BY <1>7, <2>1, <2>2 DEF NodeOK
<1>11. \A k \in Nodes \ {n} : pc'[k] = pc[k]
  BY <1>4 DEF NodeTypes
<1> QED
  BY <1>6, <1>8, <1>9, <1>10, <1>11 DEF StepOK

LEMMA ReadStateOK ==
  ASSUME NEW n \in Nodes, NodeTypes, NodeOK(n), ReadState(n)
  PROVE  StepOK(n)
<1>1. /\ pc[n] = "scan" /\ UNCHANGED <<node, sysq, hubq, stateMap, sysMap>>
  BY DEF ReadState, Maps
<1>2. /\ pc' = pc \/ pc' = [pc EXCEPT ![n] = "top"]
      /\ pub' = pub \/ pub' = [pub EXCEPT ![n] = node[n].sm]
  BY DEF ReadState
<1>3. left' \in [Nodes -> SUBSET Nodes]
  <2>1. PICK k \in left[n] :
          \/ left' = [left EXCEPT ![n] = @ \ {k}]
          \/ left' = [left EXCEPT ![n] = {}]
    BY DEF ReadState
  <2>2. left[n] \ {k} \in SUBSET Nodes
    BY DEF NodeTypes
  <2> QED
    BY <2>1, <2>2 DEF NodeTypes
<1>4. node[n] \in NodeRecord /\ node' = [node EXCEPT ![n] = node[n]]
  BY <1>1 DEF NodeTypes
<1>5. node[n].sm \in State
  BY <1>4 DEF NodeRecord
<1>6. NodeTypes'
  BY <1>1, <1>2, <1>3, <1>5 DEF NodeTypes
<1>7. NodeOK(n)'
  BY <1>1, <1>2 DEF NodeOK, NodeTypes
<1>8. MachineStep(node[n], node[n])
  BY DEF MachineStep
<1>9. \A k \in Nodes \ {n} : pc'[k] = pc[k]
  BY <1>2 DEF NodeTypes
<1> QED
  BY <1>4, <1>6, <1>7, <1>8, <1>9 DEF StepOK

LEMMA CommitOK ==
  ASSUME NEW n \in Nodes, NodeTypes, NodeOK(n), Commit(n)
  PROVE  StepOK(n)
<1> DEFINE m == node[n]
           r == [m EXCEPT !.sm = m.dest, !.expired = FALSE]
<1>1. /\ pc[n] = "scan" /\ UNCHANGED <<left, sysq, hubq, stateMap, sysMap>>
      /\ pc' = [pc EXCEPT ![n] = "top"]
  BY DEF Commit, Maps
<1>2. m \in NodeRecord
  BY DEF NodeTypes
<1>3. /\ r \in NodeRecord /\ r.sm = m.dest /\ r.prev = m.prev
      /\ r.dest = m.dest /\ r.cmd = m.cmd /\ r.change = m.change
  BY <1>2 DEF NodeRecord
<1>4. node' = [node EXCEPT ![n] = r] /\ node'[n] = r
  BY DEF Commit, NodeTypes
<1>5. pub' = [pub EXCEPT ![n] = r.sm]
  BY <1>4 DEF Commit, Publish
<1>6. ScanOK(m) /\ PendingOK(m)
  BY <1>1 DEF NodeOK
<1> HIDE DEF m, r
<1>7. NodeTypes'
  BY <1>1, <1>3, <1>4, <1>5 DEF NodeTypes, NodeRecord
<1>8. MachineStep(m, r)
  BY <1>3, <1>6 DEF MachineStep, ScanOK
<1>9. NodeOK(n)'
  <2>1. pc'[n] = "top"
    BY <1>1 DEF NodeTypes
  <2>2. TransitOK(r)
    BY <1>3, <1>6, ArrowFacts DEF TransitOK, ScanOK
  <2>3. PendingOK(r) /\ StopPending(r)
    BY <1>3, <1>6, ArrowFacts DEF PendingOK, StopPending, ScanOK
  <2> QED
    BY <1>4, <2>1, <2>2, <2>3 DEF NodeOK
<1>10. \A k \in Nodes \ {n} : pc'[k] = pc[k]
  BY <1>1 DEF NodeTypes
<1> QED
  BY <1>3, <1>4, <1>7, <1>8, <1>9, <1>10 DEF StepOK, m

LEMMA ExitOK ==
  ASSUME NEW n \in Nodes, NodeTypes, NodeOK(n), Exit(n)
  PROVE  StepOK(n)
<1> DEFINE m == node[n]
           r == [m EXCEPT !.sm = "UNCONFIGURED"]
<1>1. /\ pc' = [pc EXCEPT ![n] = "off"]
      /\ UNCHANGED <<left, pub, sysq, hubq, stateMap, sysMap>>
  BY DEF Exit, Maps
<1>2. /\ r \in NodeRecord /\ r.sm = "UNCONFIGURED"
      /\ r.prev = m.prev /\ r.dest = m.dest
  <2>1. m \in NodeRecord
    BY DEF NodeTypes
  <2> HIDE DEF m
  <2> QED
    BY <2>1 DEF NodeRecord, State
<1>3. node' = [node EXCEPT ![n] = r] /\ node'[n] = r
  BY DEF Exit, NodeTypes
<1> HIDE DEF m, r
<1>4. NodeTypes'
  BY <1>1, <1>2, <1>3 DEF NodeTypes
<1>5. MachineStep(m, r)
  BY <1>2 DEF MachineStep
<1>6. pc'[n] = "off" /\ \A k \in Nodes \ {n} : pc'[k] = pc[k]
  BY <1>1 DEF NodeTypes
<1>7. NodeOK(n)'
  BY <1>2, <1>3, <1>6 DEF NodeOK, TransitOK
<1> QED
  BY <1>2, <1>3, <1>4, <1>5, <1>6, <1>7 DEF StepOK, m

(* A step of another thread on the members of n: it moves no thread, and   *)
(* changes neither the state of n nor what is decided.                     *)
LEMMA OutsideOK ==
  ASSUME NEW n \in Nodes, NodeTypes, NodeOK(n), NEW r \in NodeRecord,
         node' = [node EXCEPT ![n] = r],
         r.sm = node[n].sm, r.prev = node[n].prev, r.dest = node[n].dest,
         r.cmd = node[n].cmd, r.change = node[n].change,
         r.running => node[n].running,
         UNCHANGED <<pc, left, pub, sysq, stateMap, sysMap>>,
         hubq' \in Seq(HubCmd)
  PROVE  StepOK(n)
<1>1. node'[n] = r
  BY DEF NodeTypes
<1>2. NodeTypes'
  BY DEF NodeTypes
<1>3. MachineStep(node[n], r)
  BY DEF MachineStep
<1>4. NodeOK(n)'
  BY <1>1 DEF NodeOK, TransitOK, PendingOK, StopPending, HookOK, ScanOK
<1> QED
  BY <1>2, <1>3, <1>4 DEF StepOK

LEMMA ElapseOK ==
  ASSUME NEW n \in Nodes, NodeTypes, NodeOK(n), Elapse(n)
  PROVE  StepOK(n)
<1> DEFINE r == [node[n] EXCEPT !.expired = TRUE]
<1>1. /\ node' = [node EXCEPT ![n] = r]
      /\ UNCHANGED <<pc, left, pub, sysq, hubq, stateMap, sysMap>>
  BY DEF Elapse, Maps
<1>2. /\ r \in NodeRecord /\ r.sm = node[n].sm /\ r.prev = node[n].prev
      /\ r.dest = node[n].dest /\ r.cmd = node[n].cmd
      /\ r.change = node[n].change /\ r.running = node[n].running
  BY DEF NodeTypes, NodeRecord
<1> HIDE DEF r
<1> QED
  BY <1>1, <1>2, OutsideOK DEF NodeTypes

LEMMA RequestOK ==
  ASSUME NEW n \in Nodes, NEW s \in Signal, NodeTypes, NodeOK(n), Request(n, s)
  PROVE  StepOK(n)
<1> DEFINE m == node[n]
           r == [m EXCEPT !.flags = @ \union {s}]
<1>1. /\ node' = [node EXCEPT ![n] = r]
      /\ UNCHANGED <<pc, left, pub, sysq, hubq, stateMap, sysMap>>
  BY DEF Request, Maps
<1>2. /\ r \in NodeRecord /\ r.sm = m.sm /\ r.prev = m.prev
      /\ r.dest = m.dest /\ r.cmd = m.cmd
      /\ r.change = m.change /\ r.running = m.running
  <2>1. m \in NodeRecord
    BY DEF NodeTypes
  <2> HIDE DEF m
  <2> QED
    BY <2>1 DEF NodeRecord, Flag
<1> HIDE DEF r
<1> QED
  BY <1>1, <1>2, OutsideOK DEF NodeTypes

LEMMA NoticeOK ==
  ASSUME NEW n \in Nodes, NEW f \in {"error", "warning"},
         NodeTypes, NodeOK(n), Notice(n, f)
  PROVE  StepOK(n)
<1> DEFINE m == node[n]
           raised == [m EXCEPT !.flags = @ \union {f}]
           gone == [m EXCEPT !.flags = @ \ {f}]
<1>1. /\ \/ node' = [node EXCEPT ![n] = raised]
         \/ node' = [node EXCEPT ![n] = gone]
      /\ UNCHANGED <<pc, left, pub, sysq, hubq, stateMap, sysMap>>
  BY DEF Notice, Maps
<1>2. \A r \in {raised, gone} :
         /\ r \in NodeRecord /\ r.sm = m.sm /\ r.prev = m.prev
         /\ r.dest = m.dest /\ r.cmd = m.cmd
         /\ r.change = m.change /\ r.running = m.running
  <2>1. m \in NodeRecord
    BY DEF NodeTypes
  <2> HIDE DEF m
  <2> QED
    BY <2>1 DEF NodeRecord, Flag
<1> HIDE DEF raised, gone
<1>3. CASE node' = [node EXCEPT ![n] = raised]
  BY <1>1, <1>2, <1>3, OutsideOK DEF NodeTypes
<1>4. CASE node' = [node EXCEPT ![n] = gone]
  BY <1>1, <1>2, <1>4, OutsideOK DEF NodeTypes
<1> QED
  BY <1>1, <1>3, <1>4

LEMMA EndOK ==
  ASSUME NEW n \in Nodes, NodeTypes, NodeOK(n), End(n)
  PROVE  StepOK(n)
<1> DEFINE r == [node[n] EXCEPT !.running = FALSE]
<1>1. /\ node' = [node EXCEPT ![n] = r]
      /\ UNCHANGED <<pc, left, pub, sysq, stateMap, sysMap>>
      /\ Post(ToHub("DELETE_SHARED_PTR", n))
  BY DEF End, Maps
<1>2. /\ r \in NodeRecord /\ r.sm = node[n].sm /\ r.prev = node[n].prev
      /\ r.dest = node[n].dest /\ r.cmd = node[n].cmd
      /\ r.change = node[n].change /\ ~r.running
  BY DEF NodeTypes, NodeRecord
<1>3. ToHub("DELETE_SHARED_PTR", n) \in Seq(HubCmd)
  BY ToHubOK
<1>4. hubq' \in Seq(HubCmd)
  BY <1>1, <1>3, PostOK DEF NodeTypes
<1> HIDE DEF r
<1> QED
  BY <1>1, <1>2, <1>4, OutsideOK

LEMMA ReceiveOK ==
  ASSUME NEW n \in Nodes, NEW c \in SysCmd, NodeTypes, NodeOK(n), Receive(n, c)
  PROVE  StepOK(n)
<1>1. /\ sysq' = [sysq EXCEPT ![n] = Stack!Offer(sysq[n], SysCap, c)]
      /\ UNCHANGED <<node, pc, left, pub, hubq, stateMap, sysMap>>
  BY DEF Receive, Maps
<1>2. Stack!Offer(sysq[n], SysCap, c) \in Seq(SysCmd)
  BY OfferOK DEF NodeTypes
<1>3. NodeTypes'
  BY <1>1, <1>2 DEF NodeTypes
<1>4. /\ node[n] \in NodeRecord /\ node' = [node EXCEPT ![n] = node[n]]
      /\ MachineStep(node[n], node[n])
  BY <1>1 DEF NodeTypes, MachineStep
<1>5. NodeOK(n)'
  BY <1>1 DEF NodeOK
<1> QED
  BY <1>1, <1>3, <1>4, <1>5 DEF StepOK
-----------------------------------------------------------------------------
(* One step of one node is a step of the abstract state machine, or none.  *)
LEMMA StepRefines ==
  ASSUME NEW n \in Nodes, NodeTypes, StepOK(n)
  PROVE  [Machine!MachineNext]_(Machine!machineVars)
<1>1. PICK r \in NodeRecord :
        node' = [node EXCEPT ![n] = r] /\ MachineStep(node[n], r)
  BY DEF StepOK
<1> DEFINE m == node[n]
           mode == [k \in Nodes |-> node[k].sm]
           from == [k \in Nodes |-> node[k].prev]
           to == [k \in Nodes |-> node[k].dest]
<1>2. \A k \in Nodes : node'[k] = IF k = n THEN r ELSE node[k]
  BY <1>1 DEF NodeTypes
<1>3. mode' = [mode EXCEPT ![n] = r.sm]
  BY <1>2
<1>4. from' = [from EXCEPT ![n] = r.prev]
  BY <1>2
<1>5. to' = [to EXCEPT ![n] = r.dest]
  BY <1>2
<1>6. mode[n] = m.sm /\ from[n] = m.prev /\ to[n] = m.dest
  OBVIOUS
<1>7. r.prev = m.prev => from' = from
  BY <1>2
<1>8. r.dest = m.dest => to' = to
  BY <1>2
<1>9. r.sm = m.sm => mode' = mode
  BY <1>2
<1>10. CASE r.sm = m.sm /\ r.prev = m.prev /\ r.dest = m.dest
  BY <1>7, <1>8, <1>9, <1>10 DEF Machine!machineVars
<1>11. CASE r.prev = m.prev /\ r.dest = m.dest /\
            \/ <<m.sm, r.sm>> \in Arrow
            \/ /\ m.sm = "TRANSITING" /\ <<m.prev, m.dest>> \in Arrow
               /\ r.sm \in {m.prev, m.dest}
            \/ m.sm \notin {"TRANSITING", "FORCE_STOP"} /\ r.sm = "FORCE_STOP"
            \/ r.sm = "UNCONFIGURED"
  <2>1. Machine!Enter(n, r.sm)
    BY <1>3, <1>7, <1>8, <1>11 DEF Machine!Enter
  <2> HIDE DEF mode, from, to
  <2>2. CASE <<m.sm, r.sm>> \in Arrow
    <3>1. Machine!Change(n)
      BY <1>6, <2>1, <2>2 DEF Machine!Change, Arrow, mode
    <3> QED
      BY <3>1 DEF Machine!MachineNext
  <2>3. CASE /\ m.sm = "TRANSITING" /\ <<m.prev, m.dest>> \in Arrow
             /\ r.sm \in {m.prev, m.dest}
    <3>1. Machine!OnArrow(n)
      BY <1>6, <2>3 DEF Machine!OnArrow, Arrow, mode, from, to
    <3>2. Machine!Arrive(n) \/ Machine!Return(n)
      BY <1>3, <1>7, <1>8, <1>11, <2>3, <3>1
         DEF Machine!Arrive, Machine!Return, Machine!Enter, mode, from, to
    <3> QED
      BY <3>2 DEF Machine!MachineNext
  <2>4. CASE m.sm \notin {"TRANSITING", "FORCE_STOP"} /\ r.sm = "FORCE_STOP"
    <3>1. Machine!ForceStop(n)
      BY <1>6, <2>1, <2>4 DEF Machine!ForceStop, mode
    <3> QED
      BY <3>1 DEF Machine!MachineNext
  <2>5. CASE r.sm = "UNCONFIGURED"
    <3>1. Machine!Quit(n)
      BY <2>1, <2>5 DEF Machine!Quit
    <3> QED
      BY <3>1 DEF Machine!MachineNext
  <2> QED
    BY <1>11, <2>2, <2>3, <2>4, <2>5
<1>12. CASE /\ r.sm = "TRANSITING" /\ r.prev = m.sm
            /\ \/ <<m.sm, r.dest>> \in Arrow
               \/ /\ m.sm \notin {"TRANSITING", "FORCE_STOP"}
                  /\ r.dest = "FORCE_STOP"
  <2>1. Machine!Wait(n, r.dest)
    BY <1>3, <1>4, <1>5, <1>6, <1>12 DEF Machine!Wait
  <2>2. CASE <<m.sm, r.dest>> \in Arrow
    <3>1. Machine!Depart(n)
      BY <1>6, <2>1, <2>2 DEF Machine!Depart, Arrow
    <3> QED
      BY <3>1 DEF Machine!MachineNext
  <2>3. CASE m.sm \notin {"TRANSITING", "FORCE_STOP"} /\ r.dest = "FORCE_STOP"
    <3>1. Machine!ForceStop(n)
      BY <1>6, <2>1, <2>3 DEF Machine!ForceStop
    <3> QED
      BY <3>1 DEF Machine!MachineNext
  <2> QED
    BY <1>12, <2>2, <2>3
<1> QED
  BY <1>1, <1>10, <1>11, <1>12 DEF MachineStep
=============================================================================
