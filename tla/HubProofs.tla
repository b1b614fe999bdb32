------------------------------ MODULE HubProofs ------------------------------
(***************************************************************************)
(* For every start of a system, whatever its nodes require and its hooks   *)
(* return: no node is started twice, and from their start on the nodes     *)
(* keep to the state machine.                                              *)
(***************************************************************************)
EXTENDS Hub, BNodeProofs

(* Thread t is executing n, and n does not run yet.                        *)
Starts(t, n) == job[t].at \in {"named", "found", "listed"} /\ n \in job[t].for
Fresh(n) == n \notin claimed \/ \E t \in Thread : Starts(t, n)

(* The hub is wiring n to the node that waits for it.                      *)
Wiring(n) == job["hub"].at \in {"wire", "wired"} /\ n \in job["hub"].for

(* Nobody has seen a node that does not run yet.                           *)
Untouched(n) ==
  /\ node[n] = NewNode /\ pc[n] = "off" /\ sysq[n] = << >>
  /\ ~Wiring(n)
  /\ \A m \in Nodes : n \notin sysMap[m]

(* The commands to the hub that n may send.                                *)
OwnCmds(n) == {c \in HubCmd : /\ c.source = n
                              /\ c.type = "START_NODE" => c.target \in RequiredBy(n)}
Cmds == UNION {OwnCmds(n) : n \in {m \in Nodes : ~Fresh(m)}}

(* What a thread does, it does for one node, which no other thread has.    *)
JobsOK ==
  /\ job["main"].at \notin {"wire", "wired"}
  /\ \A t \in Thread :
       /\ IF Busy(t, "idle") THEN job[t].for = {}
          ELSE \E n \in Nodes : job[t].for = {n}
       /\ \A n \in Nodes : Starts(t, n) =>
            n \in claimed /\ \A u \in Thread \ {t} : ~Starts(u, n)

(* The inductive invariant.                                                *)
StartInv ==
  /\ TypeOK
  /\ \A n \in Nodes : NodeOK(n)
  /\ JobsOK
  /\ \A n \in Nodes : Fresh(n) => Untouched(n)
  /\ hubq \in Seq(Cmds)
-----------------------------------------------------------------------------
(* What a step of one node leaves alone.                                   *)
LEMMA SendsOwn ==
  ASSUME NEW n \in Nodes, NEW c \in SysCmd
  PROVE  Sends(n, c) \in Seq(OwnCmds(n))
<1>1. CASE c = "REQUIRE_NODE_LIST"
  <2>1. Req[n] \in Seq(Nodes)
    BY ReqAssumption
  <2>2. Len(Req[n]) \in Nat
        /\ \A i \in 1 .. Len(Req[n]) : Req[n][i] \in Nodes /\ Req[n][i] \in RequiredBy(n)
    BY <2>1 DEF RequiredBy
  <2>3. [i \in 1 .. Len(Req[n]) |->
            [type |-> "START_NODE", source |-> n, target |-> Req[n][i]]]
          \in [1 .. Len(Req[n]) -> OwnCmds(n)]
    BY <2>2 DEF HubCmd, OwnCmds
  <2> QED
    BY <1>1, <2>2, <2>3 DEF Sends
<1>2. CASE c = "END"
  BY <1>2 DEF Sends, ToHub, HubCmd, OwnCmds
<1>3. CASE c \notin {"REQUIRE_NODE_LIST", "END"}
  BY <1>3 DEF Sends
<1> QED
  BY <1>1, <1>2, <1>3

LEMMA ToHubOwn ==
  ASSUME NEW n \in Nodes, NEW t \in {"PICK_SHARED_PTR", "DELETE_SHARED_PTR"}
  PROVE  ToHub(t, n) \in Seq(OwnCmds(n))
BY DEF ToHub, HubCmd, OwnCmds

LEMMA SeqSubset ==
  ASSUME NEW S, NEW T, S \subseteq T, NEW q \in Seq(S)
  PROVE  q \in Seq(T)
<1>1. q \in [1 .. Len(q) -> S] /\ Len(q) \in Nat
  OBVIOUS
<1>2. q \in [1 .. Len(q) -> T]
  BY <1>1
<1> QED
  BY <1>1, <1>2

(* The other stacks and the commands to the hub, after the processing of   *)
(* a state.                                                                *)
LEMMA ProcessingLocal ==
  ASSUME NEW n \in Nodes, NEW m, NEW queues \in [Nodes -> Seq(SysCmd)],
         NEW S, hubq \in Seq(S), OwnCmds(n) \subseteq S,
         Processing(n, m, queues)
  PROVE  hubq' \in Seq(S) /\ \A k \in Nodes \ {n} : sysq'[k] = queues[k]
<1>1. CASE queues[n] = << >>
  BY <1>1 DEF Processing
<1>2. CASE queues[n] # << >>
  <2>1. Head(queues[n]) \in SysCmd
    BY <1>2
  <2>2. Sends(n, Head(queues[n])) \in Seq(S)
    BY <2>1, SendsOwn, SeqSubset
  <2>3. Post(Sends(n, Head(queues[n])))
    BY <1>2 DEF Processing
  <2>4. hubq' \in Seq(S)
    BY <2>2, <2>3, PostOK
  <2> QED
    BY <1>2, <2>4 DEF Processing
<1> QED
  BY <1>1, <1>2

LEMMA BroadcastLocal ==
  ASSUME NEW n \in Nodes, NEW c
  PROVE  \A k \in Nodes : k \notin sysMap[n] => Broadcast(n, c)[k] = sysq[k]
BY DEF Broadcast

LEMMA CycleLocal ==
  ASSUME NEW n \in Nodes, NodeTypes, NEW S, hubq \in Seq(S),
         OwnCmds(n) \subseteq S, Cycle(n) \/ Exit(n) \/ Elapse(n)
  PROVE  /\ hubq' \in Seq(S)
         /\ \A k \in Nodes : k # n /\ k \notin sysMap[n] => sysq'[k] = sysq[k]
         /\ UNCHANGED <<stateMap, sysMap>>
         /\ pc[n] # "off" \/ node[n].sm = "TRANSITING"
<1> DEFINE pick == ToHub("PICK_SHARED_PTR", n)
           gone == ToHub("DELETE_SHARED_PTR", n)
<1>1. pick \in Seq(S) /\ gone \in Seq(S) /\ << >> \in Seq(S)
  BY ToHubOwn, SeqSubset
<1> HIDE DEF pick, gone
<1>2. CASE GiveOrders(n)
  <2>1. Post(pick) \/ Post(<< >>)
    BY <1>2 DEF GiveOrders, pick
  <2>2. hubq' \in Seq(S)
    BY <1>1, <2>1, PostOK
  <2>3. sysq' = sysq \/ \E c : sysq' = Broadcast(n, c)
    BY <1>2 DEF GiveOrders
  <2>4. UNCHANGED <<stateMap, sysMap>> /\ pc[n] # "off"
    BY <1>2 DEF GiveOrders, AtTop, Maps
  <2> QED
    BY <2>2, <2>3, <2>4, BroadcastLocal
<1>3. CASE ChangeState(n)
  <2>1. Post(gone) \/ Post(<< >>)
    BY <1>3 DEF ChangeState, gone
  <2>2. hubq' \in Seq(S)
    BY <1>1, <2>1, PostOK
  <2> QED
    BY <1>3, <2>2 DEF ChangeState, AtTop, Maps
<1>4. CASE LoopProcess(n)
  <2>1. UNCHANGED <<stateMap, sysMap>> /\ pc[n] # "off"
    BY <1>4 DEF LoopProcess, AtTop, Maps
  <2>2. \/ UNCHANGED <<sysq, hubq>>
        \/ \E m : Processing(n, m, sysq)
    BY <1>4 DEF LoopProcess
  <2> QED
    BY <2>1, <2>2, ProcessingLocal DEF NodeTypes
<1>5. CASE RollBack(n)
  <2>1. \E c : sysq' = Broadcast(n, c)
    BY <1>5 DEF RollBack
  <2>2. UNCHANGED <<hubq, stateMap, sysMap>> /\ pc[n] # "off"
    BY <1>5 DEF RollBack, AtTop, Maps
  <2> QED
    BY <2>1, <2>2, BroadcastLocal
<1>6. CASE Transit(n)
  <2>1. UNCHANGED <<stateMap, sysMap>> /\ pc[n] # "off"
    BY <1>6 DEF Transit, AtTop, Maps
  <2>2. \/ UNCHANGED <<sysq, hubq>>
        \/ \E m : Processing(n, m, sysq)
    BY <1>6 DEF Transit
  <2> QED
    BY <2>1, <2>2, ProcessingLocal DEF NodeTypes
<1>7. CASE ReadState(n) \/ Commit(n) \/ Exit(n) \/ Elapse(n)
  BY <1>7 DEF ReadState, Commit, Exit, Elapse, Maps
<1> QED
  BY <1>2, <1>3, <1>4, <1>5, <1>6, <1>7 DEF Cycle
-----------------------------------------------------------------------------
(* A step keeps the invariant if it brings nothing new to a node that does *)
(* not run, and adds no commands of such a node.                           *)
LEMMA KeepsInv ==
  ASSUME StartInv, TypeOK', \A n \in Nodes : NodeOK(n)', JobsOK',
         \A n \in Nodes : Fresh(n)' => Fresh(n) /\ Untouched(n)',
         hubq' \in Seq(Cmds)
  PROVE  StartInv'
<1>1. Cmds \subseteq Cmds'
  BY DEF Cmds, OwnCmds
<1>2. hubq' \in Seq(Cmds')
  BY <1>1, SeqSubset
<1>3. Seq(Cmds)' = Seq(Cmds')
  OBVIOUS
<1> QED
  BY <1>2, <1>3 DEF StartInv

(* The first part of exec_node, in an idle thread.                         *)
LEMMA ClaimOK ==
  ASSUME StartInv, NEW t \in Thread, NEW n \in Nodes,
         NEW w \in SUBSET Nodes, Busy(t, "idle"), ClaimName(t, n, w)
  PROVE  /\ claimed' \subseteq Nodes
         /\ job' \in [Thread -> [at : {"idle", "named", "found", "listed", "wire", "wired"},
                                 for : SUBSET Nodes, waiter : SUBSET Nodes]]
         /\ JobsOK'
         /\ \A k \in Nodes : Fresh(k)' => Fresh(k)
         /\ \A k \in Nodes : Wiring(k)' => Wiring(k)
<1>1. CASE n \in claimed
  BY <1>1 DEF ClaimName, StartInv, TypeOK, JobsOK, Fresh, Starts, Wiring, Busy
<1>2. CASE n \notin claimed
  <2>1. claimed' = claimed \union {n} /\ job' = [job EXCEPT ![t] = Job("named", n, w)]
    BY <1>2 DEF ClaimName, Becomes
  <2>2. job'[t] = Job("named", n, w) /\ \A u \in Thread \ {t} : job'[u] = job[u]
    BY <2>1 DEF StartInv, TypeOK
  <2>3. \A u \in Thread, k \in Nodes : Starts(u, k)' <=> Starts(u, k) \/ (u = t /\ k = n)
    BY <2>2 DEF Starts, Job, Busy
  <2>4. \A u \in Thread : ~Starts(u, n)
    BY <1>2 DEF StartInv, JobsOK
  <2>5. \A k \in Nodes : ~Starts(t, k)
    BY DEF Starts, Busy
  <2>6. \A u \in Thread : IF Busy(u, "idle")' THEN job'[u].for = {}
                           ELSE \E k \in Nodes : job'[u].for = {k}
    BY <2>2 DEF StartInv, JobsOK, Busy, Job
  <2>7. JobsOK'
    BY <2>1, <2>2, <2>3, <2>4, <2>5, <2>6 DEF StartInv, JobsOK, Job
  <2>8. \A k \in Nodes : Fresh(k)' => Fresh(k)
    BY <1>2, <2>1, <2>3 DEF Fresh
  <2>9. \A k \in Nodes : Wiring(k)' => Wiring(k)
    BY <2>2 DEF Wiring, Job, Thread
  <2>10. Job("named", n, w) \in [at : {"idle", "named", "found", "listed", "wire", "wired"},
                                 for : SUBSET Nodes, waiter : SUBSET Nodes]
    BY DEF Job
  <2> QED
    BY <2>1, <2>7, <2>8, <2>9, <2>10 DEF StartInv, TypeOK
<1> QED
  BY <1>1, <1>2

LEMMA MainExecutesOK ==
  ASSUME StartInv, NEW n \in Roots, MainExecutes(n)
  PROVE  StartInv'
<1>1. /\ n \in Nodes /\ Busy("main", "idle") /\ ClaimName("main", n, {})
      /\ todo' = todo \ {n}
      /\ UNCHANGED <<nodeVars, next, idOf, listed, waiting>>
  BY RootAssumption DEF MainExecutes
<1>2. /\ claimed' \subseteq Nodes
      /\ job' \in [Thread -> [at : {"idle", "named", "found", "listed", "wire", "wired"},
                              for : SUBSET Nodes, waiter : SUBSET Nodes]]
      /\ JobsOK'
      /\ \A k \in Nodes : Fresh(k)' => Fresh(k)
      /\ \A k \in Nodes : Wiring(k)' => Wiring(k)
  <2>1. "main" \in Thread /\ {} \in SUBSET Nodes
    BY DEF Thread
  <2> QED
    BY <1>1, <2>1, ClaimOK
<1>3. TypeOK' /\ hubq' \in Seq(Cmds) /\ \A k \in Nodes : NodeOK(k)'
  BY <1>1, <1>2 DEF StartInv, TypeOK, nodeVars, NodeOK
<1>4. \A k \in Nodes : Fresh(k) => Untouched(k)'
  BY <1>1, <1>2 DEF StartInv, Untouched, nodeVars
<1> QED
  BY <1>2, <1>3, <1>4, KeepsInv

(* The commands that the hub pops, each under the same frame.              *)
LEMMA HubPopsOK ==
  ASSUME StartInv, HubPops
  PROVE  StartInv'
<1> DEFINE c == Head(hubq)
<1>1. /\ Busy("hub", "idle") /\ hubq # << >> /\ hubq' = Tail(hubq)
      /\ HubExecutes(c) \/ Pick(c) \/ Delete(c)
      /\ UNCHANGED <<node, pc, left, pub, stateMap, sysMap, todo, next, idOf, listed>>
  BY DEF HubPops, Maps
<1>2. hubq' \in Seq(Cmds) /\ hubq' \in Seq(HubCmd) /\ c \in Cmds
  BY <1>1 DEF StartInv, TypeOK
<1>3. c \in HubCmd /\ ~Fresh(c.source)
  BY <1>2 DEF Cmds, OwnCmds
<1>4. c.source \in Nodes /\ c.target \in Nodes
  BY <1>3 DEF HubCmd
<1> HIDE DEF c
<1>5. \A k \in Nodes : NodeOK(k)'
  BY <1>1 DEF StartInv, NodeOK
<1>6. CASE HubExecutes(c)
  <2>1. ClaimName("hub", c.target, {c.source}) /\ UNCHANGED <<sysq, waiting>>
    BY <1>6 DEF HubExecutes
  <2>2. "hub" \in Thread /\ {c.source} \in SUBSET Nodes
    BY <1>4 DEF Thread
  <2>3. /\ claimed' \subseteq Nodes
        /\ job' \in [Thread -> [at : {"idle", "named", "found", "listed", "wire", "wired"},
                                for : SUBSET Nodes, waiter : SUBSET Nodes]]
        /\ JobsOK'
        /\ \A k \in Nodes : Fresh(k)' => Fresh(k)
        /\ \A k \in Nodes : Wiring(k)' => Wiring(k)
    BY <1>1, <1>4, <2>1, <2>2, ClaimOK
  <2>4. TypeOK'
    BY <1>1, <1>2, <2>1, <2>3 DEF StartInv, TypeOK
  <2>5. \A k \in Nodes : Fresh(k) => Untouched(k)'
    BY <1>1, <2>1, <2>3 DEF StartInv, Untouched
  <2> QED
    BY <1>2, <1>5, <2>3, <2>4, <2>5, KeepsInv
<1>7. CASE Pick(c) \/ Delete(c)
  <2>1. /\ \/ sysq' = [sysq EXCEPT ![c.source] = Stack!Offer(@, SysCap, "REQUIRE_NODE_LIST")]
              /\ UNCHANGED job
           \/ UNCHANGED sysq
              /\ job' = [job EXCEPT !["hub"] = Job("wire", c.source, waiting[c.source])]
           \/ UNCHANGED <<job, sysq>>
        /\ UNCHANGED <<claimed, waiting>>
    BY <1>7 DEF Pick, Delete, AskRequirements, Becomes
  <2>2. Stack!Offer(sysq[c.source], SysCap, "REQUIRE_NODE_LIST") \in Seq(SysCmd)
    BY <1>4, OfferOK DEF StartInv, TypeOK, SysCmd
  <2>3. sysq' \in [Nodes -> Seq(SysCmd)]
    BY <1>4, <2>1, <2>2 DEF StartInv, TypeOK
  <2>4. Job("wire", c.source, waiting[c.source])
          \in [at : {"idle", "named", "found", "listed", "wire", "wired"},
              for : SUBSET Nodes, waiter : SUBSET Nodes]
    BY <1>4 DEF Job, StartInv, TypeOK
  <2>5. TypeOK'
    BY <1>1, <1>2, <2>1, <2>3, <2>4 DEF StartInv, TypeOK
  <2>6. /\ job'["main"] = job["main"]
        /\ job'["hub"] = job["hub"] \/ job'["hub"] = Job("wire", c.source, waiting[c.source])
    BY <2>1 DEF StartInv, TypeOK, Thread
  <2>7. \A t \in Thread, k \in Nodes : Starts(t, k)' <=> Starts(t, k)
    BY <1>1, <2>6 DEF Starts, Job, Busy, Thread
  <2>8. JobsOK'
    <3>1. \A t \in Thread : IF Busy(t, "idle")' THEN job'[t].for = {}
                             ELSE \E k \in Nodes : job'[t].for = {k}
      BY <1>4, <2>6 DEF StartInv, JobsOK, Busy, Job, Thread
    <3> QED
      BY <2>1, <2>6, <2>7, <3>1 DEF StartInv, JobsOK
  <2>9. \A k \in Nodes : Fresh(k)' => Fresh(k)
    BY <2>1, <2>7 DEF Fresh
  <2>10. \A k \in Nodes : Wiring(k)' => Wiring(k) \/ k = c.source
    BY <2>6 DEF Wiring, Job
  <2>11. \A k \in Nodes : Fresh(k) => Untouched(k)'
    BY <1>1, <1>3, <2>1, <2>10 DEF StartInv, Untouched, TypeOK
  <2> QED
    BY <1>2, <1>5, <2>5, <2>8, <2>9, <2>11, KeepsInv
<1> QED
  BY <1>1, <1>6, <1>7

(* A thread goes on with exec_node for the same node.                      *)
LEMMA GoesOn ==
  ASSUME StartInv, NEW t \in Thread, NEW at \in {"named", "found", "listed"},
         job[t].at \in {"named", "found", "listed"},
         job' = [job EXCEPT ![t].at = at], UNCHANGED <<nodeVars, claimed>>
  PROVE  /\ job' \in [Thread -> [at : {"idle", "named", "found", "listed", "wire", "wired"},
                                 for : SUBSET Nodes, waiter : SUBSET Nodes]]
         /\ JobsOK'
         /\ hubq' \in Seq(Cmds)
         /\ \A k \in Nodes : NodeOK(k)'
         /\ \A k \in Nodes : Fresh(k)' => Fresh(k) /\ Untouched(k)'
<1>1. /\ job'[t] = [job[t] EXCEPT !.at = at]
      /\ \A u \in Thread \ {t} : job'[u] = job[u]
  BY DEF StartInv, TypeOK
<1>2. /\ job[t] \in [at : {"idle", "named", "found", "listed", "wire", "wired"},
                     for : SUBSET Nodes, waiter : SUBSET Nodes]
      /\ job'[t] \in [at : {"idle", "named", "found", "listed", "wire", "wired"},
                      for : SUBSET Nodes, waiter : SUBSET Nodes]
      /\ job'[t].at = at /\ job'[t].for = job[t].for
  BY <1>1 DEF StartInv, TypeOK
<1>3. job' \in [Thread -> [at : {"idle", "named", "found", "listed", "wire", "wired"},
                          for : SUBSET Nodes, waiter : SUBSET Nodes]]
  BY <1>1, <1>2 DEF StartInv, TypeOK
<1>4. \A u \in Thread, k \in Nodes : Starts(u, k)' <=> Starts(u, k)
  BY <1>1, <1>2 DEF Starts
<1>5. \A u \in Thread : IF Busy(u, "idle")' THEN job'[u].for = {}
                         ELSE \E k \in Nodes : job'[u].for = {k}
  BY <1>1, <1>2 DEF StartInv, JobsOK, Busy
<1>6. JobsOK'
  BY <1>1, <1>2, <1>4, <1>5 DEF StartInv, JobsOK
<1>7. \A k \in Nodes : Fresh(k)' <=> Fresh(k)
  BY <1>4 DEF Fresh
<1>8. \A k \in Nodes : Wiring(k)' => Wiring(k)
  BY <1>1, <1>2 DEF Wiring, Thread
<1>9. \A k \in Nodes : Untouched(k) => Untouched(k)'
  BY <1>8 DEF Untouched, nodeVars
<1> QED
  BY <1>3, <1>6, <1>7, <1>9 DEF StartInv, NodeOK, nodeVars

LEMMA FindIdOK ==
  ASSUME StartInv, NEW t \in Thread, FindId(t)
  PROVE  StartInv'
<1>1. /\ job[t].at = "named" /\ UNCHANGED <<nodeVars, todo, claimed, idOf, listed, waiting>>
      /\ \/ next' = next + 1 /\ UNCHANGED job
         \/ next' = next /\ job' = [job EXCEPT ![t].at = "found"]
  BY DEF FindId, Busy
<1>2. CASE job' = [job EXCEPT ![t].at = "found"] /\ next' = next
  BY <1>1, <1>2, GoesOn, KeepsInv DEF StartInv, TypeOK, nodeVars
<1>3. CASE UNCHANGED job /\ next' = next + 1
  BY <1>1, <1>3 DEF StartInv, TypeOK, JobsOK, Fresh, Starts, Wiring, Untouched,
     NodeOK, nodeVars, Cmds, OwnCmds, Busy
<1> QED
  BY <1>1, <1>2, <1>3

LEMMA RegisterOK ==
  ASSUME StartInv, NEW t \in Thread, Register(t)
  PROVE  StartInv'
<1>1. /\ job[t].at = "found" /\ job' = [job EXCEPT ![t].at = "listed"]
      /\ UNCHANGED <<nodeVars, todo, claimed, next>>
  BY DEF Register, Busy
<1>2. PICK n \in job[t].for :
        /\ idOf' = [idOf EXCEPT ![n] = next]
        /\ listed' = listed \union {n}
        /\ waiting' = [waiting EXCEPT ![n] = job[t].waiter]
  BY DEF Register
<1>3. n \in Nodes /\ job[t].waiter \in SUBSET Nodes
  BY DEF StartInv, TypeOK
<1>4. /\ idOf' \in [Nodes -> Nat] /\ listed' \subseteq Nodes
      /\ waiting' \in [Nodes -> SUBSET Nodes]
  BY <1>2, <1>3 DEF StartInv, TypeOK
<1> QED
  BY <1>1, <1>4, GoesOn, KeepsInv DEF StartInv, TypeOK, nodeVars

(* Start_Node: the node that it runs is none of those that must not.       *)
LEMMA StartOK ==
  ASSUME StartInv, NEW t \in Thread, Start(t)
  PROVE  /\ StartInv'
         /\ UNCHANGED Machine!machineVars
<1>1. /\ job[t].at = "listed" /\ job' = [job EXCEPT ![t] = Idle]
      /\ UNCHANGED <<left, pub, sysq, hubq, stateMap, sysMap, todo, claimed, next,
                     idOf, listed, waiting>>
  BY DEF Start, Busy, Becomes, Maps
<1>2. PICK n \in Nodes : job[t].for = {n}
  BY <1>1 DEF StartInv, JobsOK, Busy
<1>3. /\ Starts(t, n) /\ Fresh(n) /\ n \in claimed
      /\ \A u \in Thread \ {t} : ~Starts(u, n)
  <2>1. Starts(t, n)
    BY <1>1, <1>2 DEF Starts
  <2> QED
    BY <2>1 DEF Fresh, StartInv, JobsOK
<1>4. node[n] = NewNode /\ pc[n] = "off"
  BY <1>3 DEF StartInv, Untouched
<1> DEFINE r == [NewNode EXCEPT !.running = TRUE, !.flags = {},
                               !.change = FALSE, !.dest = "READY"]
<1>5. /\ node' = [node EXCEPT ![n] = r]
      /\ pc' = [pc EXCEPT ![n] = "top"]
  <2>1. ~node[n].running
    BY <1>4 DEF NewNode
  <2>2. /\ node' = [node EXCEPT ![n] =
                     [node[n] EXCEPT !.running = TRUE, !.flags = {},
                                     !.change = FALSE, !.dest = "READY"]]
        /\ pc' = [pc EXCEPT ![n] = "top"]
    <3>1. PICK k \in job[t].for :
            IF node[k].running THEN UNCHANGED <<node, pc>>
            ELSE /\ node' = [node EXCEPT ![k] =
                     [@ EXCEPT !.running = TRUE, !.flags = {},
                               !.change = FALSE, !.dest = "READY"]]
                 /\ pc' = [pc EXCEPT ![k] = "top"]
      BY DEF Start
    <3>2. k = n
      BY <1>2
    <3> QED
      BY <2>1, <3>1, <3>2
  <2> QED
    BY <1>4, <2>2
<1>6. /\ r \in NodeRecord /\ r.sm = "UNCONFIGURED" /\ r.prev = NewNode.prev
      /\ r.dest = NewNode.dest /\ r.change = FALSE /\ NewNode.sm = "UNCONFIGURED"
  BY DEF NewNode, NodeRecord, State
<1> HIDE DEF r
<1>7. /\ job'[t] = Idle
      /\ \A u \in Thread \ {t} : job'[u] = job[u]
  BY <1>1 DEF StartInv, TypeOK
<1>8. TypeOK'
  <2>1. Idle \in [at : {"idle", "named", "found", "listed", "wire", "wired"},
                  for : SUBSET Nodes, waiter : SUBSET Nodes]
    BY DEF Idle
  <2> QED
    BY <1>1, <1>5, <1>6, <2>1 DEF StartInv, TypeOK
<1>9. \A k \in Nodes : NodeOK(k)'
  <2>1. node'[n] = r /\ pc'[n] = "top"
    BY <1>5 DEF StartInv, TypeOK
  <2>2. NodeOK(n)'
    BY <1>6, <2>1 DEF NodeOK, TransitOK, PendingOK, StopPending
  <2>3. \A k \in Nodes \ {n} : node'[k] = node[k] /\ pc'[k] = pc[k]
    BY <1>5 DEF StartInv, TypeOK
  <2> QED
    BY <2>2, <2>3 DEF StartInv, NodeOK
<1>10. \A u \in Thread, k \in Nodes : Starts(u, k)' <=> Starts(u, k) /\ k # n
  BY <1>2, <1>3, <1>7 DEF Starts, Idle
<1>11. JobsOK'
  <2>1. \A u \in Thread : IF Busy(u, "idle")' THEN job'[u].for = {}
                           ELSE \E k \in Nodes : job'[u].for = {k}
    BY <1>7 DEF StartInv, JobsOK, Busy, Idle
  <2>2. job'["main"].at \notin {"wire", "wired"}
    BY <1>7 DEF StartInv, JobsOK, Idle, Thread
  <2> QED
    BY <1>1, <1>10, <2>1, <2>2 DEF StartInv, JobsOK
<1>12. \A k \in Nodes : Fresh(k)' => Fresh(k) /\ k # n
  BY <1>1, <1>3, <1>10 DEF Fresh
<1>13. \A k \in Nodes : Wiring(k)' => Wiring(k)
  BY <1>7 DEF Wiring, Idle, Thread
<1>14. \A k \in Nodes : Fresh(k) /\ k # n => Untouched(k)'
  BY <1>1, <1>5, <1>13 DEF StartInv, Untouched
<1>15. hubq' \in Seq(Cmds)
  BY <1>1 DEF StartInv
<1>16. UNCHANGED Machine!machineVars
  <2>1. \A k \in Nodes : /\ node'[k].sm = node[k].sm /\ node'[k].prev = node[k].prev
                          /\ node'[k].dest = node[k].dest
    BY <1>4, <1>5, <1>6 DEF StartInv, TypeOK
  <2> QED
    BY <2>1 DEF Machine!machineVars
<1> QED
  BY <1>8, <1>9, <1>11, <1>12, <1>14, <1>15, <1>16, KeepsInv

LEMMA WireStateOK ==
  ASSUME StartInv, WireState
  PROVE  StartInv'
<1>1. /\ job["hub"].at = "wire" /\ job' = [job EXCEPT !["hub"].at = "wired"]
      /\ UNCHANGED <<node, pc, left, pub, sysq, sysMap, hubq, todo, claimed, next,
                     idOf, listed, waiting>>
      /\ stateMap' = [n \in Nodes |-> IF n \in job["hub"].waiter
                                      THEN stateMap[n] \union job["hub"].for
                                      ELSE stateMap[n]]
  BY DEF WireState, Busy
<1>2. /\ job'["hub"] \in [at : {"idle", "named", "found", "listed", "wire", "wired"},
                          for : SUBSET Nodes, waiter : SUBSET Nodes]
      /\ job'["hub"].at = "wired" /\ job'["hub"].for = job["hub"].for
      /\ job'["main"] = job["main"]
      /\ job["hub"].for \in SUBSET Nodes
  <2>1. job["hub"] \in [at : {"idle", "named", "found", "listed", "wire", "wired"},
                       for : SUBSET Nodes, waiter : SUBSET Nodes]
    BY DEF StartInv, TypeOK, Thread
  <2>2. job'["hub"] = [job["hub"] EXCEPT !.at = "wired"] /\ job'["main"] = job["main"]
    BY <1>1 DEF StartInv, TypeOK, Thread
  <2> QED
    BY <2>1, <2>2
<1>3. TypeOK'
  <2>1. job' \in [Thread -> [at : {"idle", "named", "found", "listed", "wire", "wired"},
                            for : SUBSET Nodes, waiter : SUBSET Nodes]]
    BY <1>1, <1>2 DEF StartInv, TypeOK, Thread
  <2>2. stateMap' \in [Nodes -> SUBSET Nodes]
    <3>1. \A n \in Nodes : stateMap[n] \in SUBSET Nodes
      BY DEF StartInv, TypeOK
    <3> QED
      BY <1>1, <1>2, <3>1
  <2> QED
    BY <1>1, <2>1, <2>2 DEF StartInv, TypeOK
<1>4. \A t \in Thread, k \in Nodes : Starts(t, k)' <=> Starts(t, k)
  BY <1>1, <1>2 DEF Starts, Thread
<1>5. JobsOK'
  <2>1. \A t \in Thread : IF Busy(t, "idle")' THEN job'[t].for = {}
                           ELSE \E k \in Nodes : job'[t].for = {k}
    BY <1>1, <1>2 DEF StartInv, JobsOK, Busy, Thread
  <2> QED
    BY <1>1, <1>2, <1>4, <2>1 DEF StartInv, JobsOK
<1>6. \A k \in Nodes : (Fresh(k)' <=> Fresh(k)) /\ (Wiring(k)' <=> Wiring(k))
  BY <1>1, <1>2, <1>4 DEF Fresh, Wiring
<1>7. \A k \in Nodes : NodeOK(k)' /\ (Fresh(k)' => Fresh(k) /\ Untouched(k)')
  BY <1>1, <1>6 DEF StartInv, NodeOK, Untouched
<1> QED
  BY <1>1, <1>3, <1>5, <1>7, KeepsInv DEF StartInv

LEMMA WireOrdersOK ==
  ASSUME StartInv, WireOrders
  PROVE  StartInv'
<1>1. /\ job["hub"].at = "wired" /\ job' = [job EXCEPT !["hub"] = Idle]
      /\ UNCHANGED <<node, pc, left, pub, stateMap, hubq, todo, claimed, next,
                     idOf, listed>>
      /\ sysMap' = [n \in Nodes |-> IF n \in job["hub"].waiter
                                    THEN sysMap[n] \union job["hub"].for
                                    ELSE sysMap[n]]
  BY DEF WireOrders, Busy, Becomes
<1>2. PICK n \in Nodes : job["hub"].for = {n}
  BY <1>1 DEF StartInv, JobsOK, Busy, Thread
<1>3. /\ waiting' = [waiting EXCEPT ![n] = {}]
      /\ sysq' = [sysq EXCEPT ![n] = Stack!Offer(@, SysCap, "REQUIRE_NODE_LIST")]
  BY <1>2 DEF WireOrders, AskRequirements
<1>4. ~Fresh(n)
  BY <1>1, <1>2 DEF StartInv, Untouched, Wiring
<1>5. Stack!Offer(sysq[n], SysCap, "REQUIRE_NODE_LIST") \in Seq(SysCmd)
  BY OfferOK DEF StartInv, TypeOK, SysCmd
<1>6. job'["hub"] = Idle /\ job'["main"] = job["main"]
  BY <1>1 DEF StartInv, TypeOK, Thread
<1>7. TypeOK'
  <2>1. Idle \in [at : {"idle", "named", "found", "listed", "wire", "wired"},
                  for : SUBSET Nodes, waiter : SUBSET Nodes]
    BY DEF Idle
  <2>2. job' \in [Thread -> [at : {"idle", "named", "found", "listed", "wire", "wired"},
                            for : SUBSET Nodes, waiter : SUBSET Nodes]]
    BY <1>1, <2>1 DEF StartInv, TypeOK
  <2>3. /\ waiting' \in [Nodes -> SUBSET Nodes]
        /\ sysq' \in [Nodes -> Seq(SysCmd)]
    BY <1>3, <1>5 DEF StartInv, TypeOK
  <2>4. sysMap' \in [Nodes -> SUBSET Nodes]
    <3>1. \A k \in Nodes : sysMap[k] \in SUBSET Nodes
      BY DEF StartInv, TypeOK
    <3> QED
      BY <1>1, <1>2, <3>1
  <2> QED
    BY <1>1, <2>2, <2>3, <2>4 DEF StartInv, TypeOK
<1>8. \A t \in Thread, k \in Nodes : Starts(t, k)' <=> Starts(t, k)
  BY <1>1, <1>6 DEF Starts, Thread, Idle
<1>9. JobsOK'
  <2>1. \A t \in Thread : IF Busy(t, "idle")' THEN job'[t].for = {}
                           ELSE \E k \in Nodes : job'[t].for = {k}
    BY <1>6 DEF StartInv, JobsOK, Busy, Thread, Idle
  <2> QED
    BY <1>1, <1>6, <1>8, <2>1 DEF StartInv, JobsOK
<1>10. \A k \in Nodes : (Fresh(k)' <=> Fresh(k)) /\ ~Wiring(k)'
  BY <1>1, <1>6, <1>8 DEF Fresh, Wiring, Idle
<1>11. \A k \in Nodes : NodeOK(k)'
  BY <1>1 DEF StartInv, NodeOK
<1>12. \A k \in Nodes : Fresh(k) => Untouched(k)'
  BY <1>1, <1>2, <1>3, <1>4, <1>10 DEF StartInv, Untouched, TypeOK
<1> QED
  BY <1>1, <1>7, <1>9, <1>10, <1>11, <1>12, KeepsInv DEF StartInv

(* A step of one node that runs, or an END that it gets.                   *)
LEMMA NodeStepOK ==
  ASSUME StartInv, NEW n \in Nodes, UNCHANGED hubVars,
         Cycle(n) \/ Exit(n) \/ Elapse(n) \/ (pc[n] # "off" /\ Receive(n, "END"))
  PROVE  StartInv' /\ StepOK(n)
<1>1. NodeTypes /\ NodeOK(n)
  BY DEF StartInv, TypeOK, NodeTypes
<1>2. StepOK(n)
  <2>1. "END" \in SysCmd
    BY DEF SysCmd
  <2> QED
    BY <1>1, <2>1, GiveOrdersOK, ChangeStateOK, LoopProcessOK, RollBackOK,
       TransitStepOK, ReadStateOK, CommitOK, ExitOK, ElapseOK, ReceiveOK DEF Cycle
<1>3. pc[n] # "off" \/ node[n].sm = "TRANSITING" => ~Fresh(n)
  BY DEF StartInv, Untouched, NewNode
<1>4. /\ ~Fresh(n)
      /\ hubq' \in Seq(Cmds)
      /\ \A k \in Nodes : k # n /\ k \notin sysMap[n] => sysq'[k] = sysq[k]
      /\ UNCHANGED <<stateMap, sysMap>>
  <2>1. CASE Cycle(n) \/ Exit(n) \/ Elapse(n)
    <3>1. ~Fresh(n)
      BY <1>3, <2>1 DEF Cycle, GiveOrders, ChangeState, LoopProcess, RollBack, Transit,
         ReadState, Commit, Exit, Elapse, AtTop
    <3>2. OwnCmds(n) \subseteq Cmds /\ hubq \in Seq(Cmds)
      BY <3>1 DEF Cmds, StartInv
    <3> QED
      BY <1>1, <2>1, <3>1, <3>2, CycleLocal
  <2>2. CASE pc[n] # "off" /\ Receive(n, "END")
    BY <1>3, <2>2 DEF Receive, StartInv, Maps
  <2> QED
    BY <2>1, <2>2
<1>5. TypeOK'
  BY <1>2 DEF StartInv, TypeOK, StepOK, NodeTypes, hubVars
<1>6. \A k \in Nodes \ {n} : node'[k] = node[k] /\ pc'[k] = pc[k]
  BY <1>2 DEF StepOK, StartInv, TypeOK
<1>7. \A k \in Nodes : NodeOK(k)'
  BY <1>2, <1>6 DEF StepOK, StartInv, NodeOK
<1>8. JobsOK'
  BY DEF StartInv, JobsOK, Starts, Busy, hubVars
<1>9. \A k \in Nodes : (Fresh(k)' <=> Fresh(k)) /\ (Wiring(k)' <=> Wiring(k))
  BY DEF Fresh, Starts, Wiring, hubVars
<1>10. \A k \in Nodes : Fresh(k) => Untouched(k)'
  BY <1>4, <1>6, <1>9 DEF StartInv, Untouched
<1> QED
  BY <1>2, <1>4, <1>5, <1>7, <1>8, <1>9, <1>10, KeepsInv
-----------------------------------------------------------------------------
LEMMA InitStartInv == Init => StartInv
<1> SUFFICES ASSUME Init PROVE StartInv
  OBVIOUS
<1>1. NewNode \in NodeRecord
  BY DEF NewNode, NodeRecord, State
<1>2. TypeOK
  BY <1>1, RootAssumption DEF Init, TypeOK, State, Idle, BEHAVIOR_HUB_ID
<1>3. \A n \in Nodes : NodeOK(n)
  BY DEF Init, NodeOK, TransitOK, NewNode
<1>4. JobsOK /\ \A n \in Nodes : Untouched(n)
  BY DEF Init, JobsOK, Starts, Busy, Idle, Untouched, Wiring, Thread
<1> QED
  BY <1>2, <1>3, <1>4 DEF StartInv, Init

(* A step of the system is one of those above.                             *)
LEMMA NextStartInv ==
  ASSUME StartInv, [Next]_vars
  PROVE  StartInv' /\ [Machine!MachineNext]_(Machine!machineVars)
<1>1. CASE UNCHANGED vars
  BY <1>1 DEF vars, nodeVars, hubVars, StartInv, TypeOK, JobsOK, Fresh, Starts,
     Wiring, Untouched, NodeOK, Cmds, OwnCmds, Busy, Machine!machineVars
<1>2. CASE \E t \in Thread : Start(t)
  BY <1>2, StartOK
<1>3. CASE \/ \E n \in Roots : MainExecutes(n)
           \/ HubPops \/ WireState \/ WireOrders
           \/ \E t \in Thread : FindId(t) \/ Register(t)
  <2>1. UNCHANGED Machine!machineVars
    BY <1>3 DEF MainExecutes, HubPops, WireState, WireOrders, FindId, Register,
       nodeVars, Machine!machineVars
  <2> QED
    BY <1>3, <2>1, MainExecutesOK, HubPopsOK, WireStateOK, WireOrdersOK, FindIdOK,
       RegisterOK
<1>4. CASE \E n \in Nodes : NodeStep(n) \/ WatchDog(n) \/ ToldToEnd(n)
  <2>1. PICK n \in Nodes : NodeStep(n) \/ WatchDog(n) \/ ToldToEnd(n)
    BY <1>4
  <2>2. /\ UNCHANGED hubVars
        /\ Cycle(n) \/ Exit(n) \/ Elapse(n) \/ (pc[n] # "off" /\ Receive(n, "END"))
    BY <2>1 DEF NodeStep, WatchDog, ToldToEnd
  <2>3. StartInv' /\ StepOK(n)
    BY <2>2, NodeStepOK
  <2>4. NodeTypes
    BY DEF StartInv, TypeOK, NodeTypes
  <2> QED
    BY <2>3, <2>4, StepRefines
<1> QED
  BY <1>1, <1>2, <1>3, <1>4, EnvironmentAssumption DEF Next, MainStep, HubStep, Thread

(* The invariant above holds in every start of a system.                   *)
THEOREM StartInvHolds == Spec => []StartInv
BY InitStartInv, NextStartInv, PTL DEF Spec

(* Every variable of the nodes and of the hub keeps its type (TypeOK).     *)
THEOREM StartTypeOKHolds == Spec => []TypeOK
<1>1. StartInv => TypeOK
  BY DEF StartInv
<1> QED
  BY <1>1, StartInvHolds, PTL

(* No node that exec_node works on has been started before, and the two    *)
(* threads that run exec_node never work on the same one.                  *)
THEOREM NoSecondStartHolds == Spec => []NoSecondStart
<1>1. StartInv => NoSecondStart
  <2> SUFFICES ASSUME StartInv, NEW t \in Thread,
                      job[t].at \in {"named", "found", "listed"},
                      NEW n \in job[t].for
               PROVE  /\ pc[n] = "off" /\ sysq[n] = << >>
                      /\ \A u \in Thread \ {t} : n \notin job[u].for
    BY DEF NoSecondStart
  <2>1. n \in Nodes
    BY DEF StartInv, TypeOK
  <2>2. Starts(t, n) /\ Fresh(n)
    BY DEF Starts, Fresh
  <2>3. Untouched(n)
    BY <2>1, <2>2 DEF StartInv
  <2>4. ASSUME NEW u \in Thread \ {t}, n \in job[u].for
        PROVE  FALSE
    <3>1. ~Starts(u, n) /\ ~Busy(u, "idle")
      BY <2>1, <2>2, <2>4 DEF StartInv, JobsOK
    <3>2. job[u].at \in {"wire", "wired"}
      BY <2>4, <3>1 DEF Starts, Busy, StartInv, TypeOK
    <3>3. u = "hub"
      BY <3>2 DEF StartInv, JobsOK, Thread
    <3> QED
      BY <2>3, <2>4, <3>2, <3>3 DEF Untouched, Wiring
  <2> QED
    BY <2>3, <2>4 DEF Untouched
<1> QED
  BY <1>1, StartInvHolds, PTL

(* From its construction on, through its start by whichever thread and     *)
(* whenever it is ended, every node keeps to the state machine of the      *)
(* README.                                                                 *)
THEOREM StartImplementsStateMachine == Spec => FollowsStateMachine
<1>1. Init => Machine!MachineInit
  BY DEF Init, NewNode, Machine!MachineInit
<1>2. StartInv /\ [Next]_vars => [Machine!MachineNext]_(Machine!machineVars)
  BY NextStartInv
<1> QED
  BY <1>1, <1>2, StartInvHolds, PTL DEF Spec, FollowsStateMachine, Machine!MachineSpec
=============================================================================
