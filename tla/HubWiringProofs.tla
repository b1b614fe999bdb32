--------------------------- MODULE HubWiringProofs ---------------------------
(***************************************************************************)
(* For every start of a system: the hub wires a node to one node at most,  *)
(* to one that requires it, its state before its stack; it finds the nodes *)
(* whose pointers it picks; it starts the nodes in the order, and hands    *)
(* them over in the way, that StartOrder promises; a node that waits for   *)
(* READY has all it requires; and, if no node is required by two, nothing  *)
(* that the start needs is forgotten.                                      *)
(***************************************************************************)
EXTENDS HubProofs, FiniteSetTheorems

(* The nodes that use n, wait for it, or are to be wired to it.            *)
Users(n) == {m \in Nodes : \/ n \in stateMap[m]
                           \/ m \in waiting[n]
                           \/ \E t \in Thread : n \in job[t].for /\ m \in job[t].waiter}

(* One user at most, for all times, a node that runs or ran; and none      *)
(* before n is executed.                                                   *)
UsersOK ==
  \A n \in Nodes :
    /\ n \notin claimed => Users(n) = {}
    /\ \A w \in Users(n) : n \in RequiredBy(w) /\ Users(n) = {w}
    /\ \A w \in Users(n) : ~Fresh(w)

(* What is being started is a root, or required by a started node.         *)
WantedOK ==
  \A t \in Thread, n \in Nodes : Starts(t, n) =>
    n \in Roots \/ \E w \in Nodes : ~Fresh(w) /\ n \in RequiredBy(w)

OrdersOK ==
  /\ \A n \in Nodes : sysMap[n] \subseteq stateMap[n]
  /\ Busy("hub", "wired") =>
       \A w \in job["hub"].waiter : job["hub"].for \subseteq stateMap[w]

(* A node is in running_node_list before it starts.                        *)
ListedOK ==
  /\ \A n \in Nodes : ~Fresh(n) => n \in listed
  /\ \A t \in Thread : Busy(t, "listed") => job[t].for \subseteq listed

WiringInv == StartInv /\ UsersOK /\ WantedOK /\ OrdersOK /\ ListedOK
-----------------------------------------------------------------------------
LEMMA FewerUsers ==
  ASSUME UsersOK, claimed \subseteq claimed',
         \A n \in Nodes : Fresh(n)' => Fresh(n),
         \A n \in Nodes : Users(n)' \subseteq Users(n)
  PROVE  UsersOK'
<1> SUFFICES ASSUME NEW n \in Nodes
             PROVE  /\ n \notin claimed' => Users(n)' = {}
                    /\ \A w \in Users(n)' : n \in RequiredBy(w) /\ Users(n)' = {w}
                    /\ \A w \in Users(n)' : ~Fresh(w)'
  BY DEF UsersOK
<1>1. Users(n)' \subseteq Users(n) /\ Users(n) \subseteq Nodes
  BY DEF Users
<1> QED
  BY <1>1 DEF UsersOK

LEMMA FewerStarts ==
  ASSUME WantedOK, \A n \in Nodes : Fresh(n)' => Fresh(n),
         \A t \in Thread, n \in Nodes : Starts(t, n)' => Starts(t, n)
  PROVE  WantedOK'
<1> SUFFICES ASSUME NEW t \in Thread, NEW n \in Nodes, Starts(t, n)'
             PROVE  n \in Roots \/ \E w \in Nodes : ~Fresh(w)' /\ n \in RequiredBy(w)
  BY DEF WantedOK, RequiredBy
<1> QED
  BY DEF WantedOK

(* What changes nothing in the hub.                                        *)
LEMMA NodesKeepWiring ==
  ASSUME UsersOK, WantedOK, OrdersOK, ListedOK,
         UNCHANGED <<hubVars, stateMap, sysMap>>
  PROVE  UsersOK' /\ WantedOK' /\ OrdersOK' /\ ListedOK'
BY DEF UsersOK, WantedOK, OrdersOK, ListedOK, Users, Fresh, Starts, Busy, hubVars

LEMMA ClaimKeepsWiring ==
  ASSUME WiringInv, NEW t \in Thread, NEW n \in Nodes, NEW w \in SUBSET Nodes,
         Busy(t, "idle"), ClaimName(t, n, w),
         UNCHANGED <<stateMap, sysMap, listed, waiting>>,
         \A u \in w : ~Fresh(u) /\ n \in RequiredBy(u) /\ w = {u},
         n \in Roots \/ w # {}
  PROVE  UsersOK' /\ WantedOK' /\ OrdersOK' /\ ListedOK'
<1>1. CASE n \in claimed
  BY <1>1 DEF ClaimName, WiringInv, UsersOK, WantedOK, OrdersOK, ListedOK, Users,
     Fresh, Starts, Busy
<1>2. CASE n \notin claimed
  <2>1. claimed' = claimed \union {n} /\ job' = [job EXCEPT ![t] = Job("named", n, w)]
    BY <1>2 DEF ClaimName, Becomes
  <2>2. job'[t] = Job("named", n, w) /\ \A u \in Thread \ {t} : job'[u] = job[u]
    BY <2>1 DEF WiringInv, StartInv, TypeOK
  <2>3. \A u \in Thread, k \in Nodes : Starts(u, k)' <=> Starts(u, k) \/ (u = t /\ k = n)
    BY <2>2 DEF Starts, Job, Busy
  <2>4. \A k \in Nodes : Fresh(k) <=> Fresh(k)'
    BY <1>2, <2>1, <2>3 DEF Fresh
  <2>5. ListedOK'
    BY <2>2, <2>4 DEF WiringInv, ListedOK, Busy, Job
  <2>6. OrdersOK'
    BY <2>2 DEF WiringInv, OrdersOK, Busy, Job, Thread
  <2>7. \A k \in Nodes : Users(k)' = IF k = n THEN Users(n) \union w ELSE Users(k)
    <3>1. job[t].for = {}
      BY DEF WiringInv, StartInv, JobsOK
    <3> QED
      BY <2>2, <3>1 DEF Users, Job
  <2>8. Users(n) = {}
    BY <1>2 DEF WiringInv, UsersOK
  <2>9. UsersOK'
    <3> SUFFICES ASSUME NEW k \in Nodes
                 PROVE  /\ k \notin claimed' => Users(k)' = {}
                        /\ \A u \in Users(k)' : k \in RequiredBy(u) /\ Users(k)' = {u}
                        /\ \A u \in Users(k)' : ~Fresh(u)'
      BY DEF UsersOK
    <3>1. CASE k = n
      BY <2>1, <2>4, <2>7, <2>8, <3>1
    <3>2. CASE k # n
      <4>1. Users(k)' = Users(k) /\ Users(k) \subseteq Nodes
        BY <2>7, <3>2 DEF Users
      <4> QED
        BY <2>1, <2>4, <3>2, <4>1 DEF WiringInv, UsersOK
    <3> QED
      BY <3>1, <3>2
  <2>10. WantedOK'
    <3> SUFFICES ASSUME NEW u \in Thread, NEW k \in Nodes, Starts(u, k)'
                 PROVE  k \in Roots \/ \E v \in Nodes : ~Fresh(v)' /\ k \in RequiredBy(v)
      BY DEF WantedOK, RequiredBy
    <3>1. CASE k = n
      BY <2>4, <3>1
    <3>2. CASE k # n
      BY <2>3, <2>4, <3>2 DEF WiringInv, WantedOK
    <3> QED
      BY <3>1, <3>2
  <2> QED
    BY <2>5, <2>6, <2>9, <2>10
<1> QED
  BY <1>1, <1>2

(* exec_node after its first part: the thread t goes on for the node n.    *)
LEMMA ExecKeepsWiring ==
  ASSUME WiringInv, NEW t \in Thread, FindId(t) \/ Register(t) \/ Start(t)
  PROVE  UsersOK' /\ WantedOK' /\ OrdersOK' /\ ListedOK'
<1>1. /\ job[t].at \in {"named", "found", "listed"}
      /\ UNCHANGED <<stateMap, sysMap, claimed>>
  BY DEF FindId, Register, Start, Busy, nodeVars, Maps
<1>2. PICK n \in Nodes : job[t].for = {n}
  BY <1>1 DEF WiringInv, StartInv, JobsOK, Busy
<1>3. \/ UNCHANGED job
      \/ job' = [job EXCEPT ![t].at = "found"] /\ Busy(t, "named")
      \/ job' = [job EXCEPT ![t].at = "listed"] /\ Busy(t, "found")
      \/ job' = [job EXCEPT ![t] = Idle] /\ Busy(t, "listed")
  BY DEF FindId, Register, Start, Becomes
<1>4. /\ \A u \in Thread \ {t} : job'[u] = job[u]
      /\ \/ /\ job'[t].for = job[t].for /\ job'[t].waiter = job[t].waiter
            /\ job'[t].at \in {"named", "found", "listed"}
         \/ job'[t] = Idle /\ Busy(t, "listed")
      /\ job'[t].at \notin {"wire", "wired"}
  <2>1. job[t] \in [at : {"idle", "named", "found", "listed", "wire", "wired"},
                    for : SUBSET Nodes, waiter : SUBSET Nodes]
    BY DEF WiringInv, StartInv, TypeOK
  <2>2. CASE UNCHANGED job
    BY <1>1, <2>2
  <2>3. CASE job' = [job EXCEPT ![t] = Idle] /\ Busy(t, "listed")
    BY <2>3 DEF Idle, WiringInv, StartInv, TypeOK
  <2>4. ASSUME NEW a \in {"found", "listed"}, job' = [job EXCEPT ![t].at = a]
        PROVE  /\ job'[t].for = job[t].for /\ job'[t].waiter = job[t].waiter
               /\ job'[t].at \in {"named", "found", "listed"}
               /\ \A u \in Thread \ {t} : job'[u] = job[u]
    <3>1. /\ job'[t] = [job[t] EXCEPT !.at = a]
          /\ \A u \in Thread \ {t} : job'[u] = job[u]
      BY <2>4 DEF WiringInv, StartInv, TypeOK
    <3> QED
      BY <2>1, <3>1
  <2> QED
    BY <1>3, <2>2, <2>3, <2>4
<1>5. \/ UNCHANGED <<listed, waiting>> /\ (Busy(t, "listed")' => Busy(t, "listed"))
      \/ /\ listed' = listed \union {n}
         /\ waiting' = [waiting EXCEPT ![n] = job[t].waiter]
  <2>1. CASE FindId(t)
    <3>1. job' = job \/ job'[t].at = "found"
      <4>1. job[t] \in [at : {"idle", "named", "found", "listed", "wire", "wired"},
                        for : SUBSET Nodes, waiter : SUBSET Nodes]
        BY DEF WiringInv, StartInv, TypeOK
      <4> QED
        BY <2>1, <4>1 DEF FindId, WiringInv, StartInv, TypeOK
    <3> QED
      BY <2>1, <3>1 DEF FindId, Busy
  <2>2. CASE Register(t)
    BY <1>2, <2>2 DEF Register
  <2>3. CASE Start(t)
    BY <2>3 DEF Start
  <2> QED
    BY <2>1, <2>2, <2>3
<1>6. listed \subseteq listed' /\ \A k \in Nodes : Users(k)' \subseteq Users(k)
  <2>1. \A k \in Nodes, m \in Nodes : m \in waiting'[k] => m \in Users(k)
    BY <1>2, <1>5 DEF Users, WiringInv, StartInv, TypeOK
  <2>2. \A u \in Thread, k \in Nodes, m \in Nodes :
          k \in job'[u].for /\ m \in job'[u].waiter => m \in Users(k)
    BY <1>4 DEF Users, Idle
  <2>3. \A k \in Nodes, m \in Nodes : k \in stateMap'[m] => m \in Users(k)
    BY <1>1 DEF Users
  <2>4. \A k \in Nodes : \A m \in Users(k)' : m \in Nodes /\ m \in Users(k)
    BY <2>1, <2>2, <2>3 DEF Users
  <2> QED
    BY <1>5, <2>4
<1>7. UsersOK' /\ WantedOK'
  <2>1. \A u \in Thread, k \in Nodes : Starts(u, k)' => Starts(u, k)
    BY <1>1, <1>4 DEF Starts, Idle
  <2>2. \A k \in Nodes : Fresh(k)' => Fresh(k)
    BY <1>1, <2>1 DEF Fresh
  <2> QED
    BY <1>1, <1>6, <2>1, <2>2, FewerUsers, FewerStarts DEF WiringInv
<1>8. OrdersOK'
  BY <1>1, <1>4 DEF WiringInv, OrdersOK, Busy, Thread
<1>9. ListedOK'
  <2>1. \A u \in Thread, k \in Nodes : Starts(u, k) /\ ~(Busy(t, "listed") /\ k = n) =>
          Starts(u, k)'
    BY <1>1, <1>2, <1>4 DEF Starts, Busy
  <2>2. \A k \in Nodes : Fresh(k) /\ ~Fresh(k)' => k = n /\ Busy(t, "listed")
    BY <1>1, <2>1 DEF Fresh
  <2>3. \A k \in Nodes : ~Fresh(k)' => k \in listed'
    BY <1>2, <1>6, <2>2 DEF WiringInv, ListedOK
  <2>4. \A u \in Thread : Busy(u, "listed")' => job'[u].for \subseteq listed'
    BY <1>2, <1>4, <1>5, <1>6 DEF WiringInv, ListedOK, Busy, Idle
  <2> QED
    BY <2>3, <2>4 DEF ListedOK
<1> QED
  BY <1>7, <1>8, <1>9

LEMMA HubPopsKeepsWiring ==
  ASSUME WiringInv, HubPops
  PROVE  UsersOK' /\ WantedOK' /\ OrdersOK' /\ ListedOK'
<1> DEFINE c == Head(hubq)
<1>1. /\ Busy("hub", "idle") /\ hubq # << >>
      /\ HubExecutes(c) \/ Pick(c) \/ Delete(c)
      /\ UNCHANGED <<stateMap, sysMap, listed>>
  BY DEF HubPops, Maps
<1>2. c \in Cmds
  BY <1>1 DEF WiringInv, StartInv
<1>3. /\ c \in HubCmd /\ ~Fresh(c.source)
      /\ c.type = "START_NODE" => c.target \in RequiredBy(c.source)
  BY <1>2 DEF Cmds, OwnCmds
<1>4. c.source \in Nodes /\ c.target \in Nodes /\ c.source \in listed
  BY <1>3 DEF HubCmd, WiringInv, ListedOK
<1> HIDE DEF c
<1>5. CASE HubExecutes(c)
  <2>1. /\ c.target \in RequiredBy(c.source) /\ UNCHANGED waiting
        /\ ClaimName("hub", c.target, {c.source})
    BY <1>3, <1>5 DEF HubExecutes
  <2>2. "hub" \in Thread /\ {c.source} \in SUBSET Nodes /\ {c.source} # {}
    BY <1>4 DEF Thread
  <2> QED
    BY <1>1, <1>3, <1>4, <2>1, <2>2, ClaimKeepsWiring
<1>6. CASE Pick(c) \/ Delete(c)
  <2>1. /\ job' = job
           \/ job' = [job EXCEPT !["hub"] = Job("wire", c.source, waiting[c.source])]
        /\ UNCHANGED <<claimed, waiting>>
    BY <1>6 DEF Pick, Delete, Becomes
  <2>2. /\ job'["main"] = job["main"]
        /\ job'["hub"] = job["hub"] \/ job'["hub"] = Job("wire", c.source, waiting[c.source])
    BY <2>1 DEF WiringInv, StartInv, TypeOK, Thread
  <2>3. \A k \in Nodes : Users(k)' \subseteq Users(k)
    BY <1>1, <2>1, <2>2 DEF Users, Job, Thread
  <2>4. \A t \in Thread, k \in Nodes : Starts(t, k)' <=> Starts(t, k)
    BY <1>1, <2>2 DEF Starts, Job, Busy, Thread
  <2>5. OrdersOK'
    BY <1>1, <2>2 DEF WiringInv, OrdersOK, Busy, Job
  <2>6. UsersOK' /\ WantedOK'
    <3>1. \A k \in Nodes : Fresh(k)' => Fresh(k)
      BY <2>1, <2>4 DEF Fresh
    <3> QED
      BY <2>1, <2>3, <2>4, <3>1, FewerUsers, FewerStarts DEF WiringInv
  <2>7. ListedOK'
    BY <1>1, <2>1, <2>2, <2>4 DEF WiringInv, ListedOK, Fresh, Busy, Job, Thread
  <2> QED
    BY <2>5, <2>6, <2>7
<1> QED
  BY <1>1, <1>5, <1>6

LEMMA WireStateKeepsWiring ==
  ASSUME WiringInv, WireState
  PROVE  UsersOK' /\ WantedOK' /\ OrdersOK' /\ ListedOK'
<1>1. /\ Busy("hub", "wire") /\ UNCHANGED <<sysMap, claimed, listed, waiting>>
      /\ job' = [job EXCEPT !["hub"].at = "wired"]
      /\ \A m \in Nodes : stateMap'[m] = IF m \in job["hub"].waiter
                                         THEN stateMap[m] \union job["hub"].for
                                         ELSE stateMap[m]
  BY DEF WireState
<1>2. /\ job'["main"] = job["main"] /\ job'["hub"].at = "wired"
      /\ job'["hub"].for = job["hub"].for
      /\ job'["hub"].waiter = job["hub"].waiter /\ job["hub"].waiter \subseteq Nodes
  <2>1. job["hub"] \in [at : {"idle", "named", "found", "listed", "wire", "wired"},
                       for : SUBSET Nodes, waiter : SUBSET Nodes]
    BY DEF WiringInv, StartInv, TypeOK, Thread
  <2>2. job'["hub"] = [job["hub"] EXCEPT !.at = "wired"] /\ job'["main"] = job["main"]
    BY <1>1 DEF WiringInv, StartInv, TypeOK, Thread
  <2> QED
    BY <2>1, <2>2
<1>3. \A k \in Nodes : Users(k)' \subseteq Users(k)
  BY <1>1, <1>2 DEF Users, Thread
<1>4. OrdersOK'
  BY <1>1, <1>2 DEF WiringInv, OrdersOK
<1>5. \A t \in Thread, k \in Nodes : Starts(t, k)' <=> Starts(t, k)
  BY <1>1, <1>2 DEF Starts, Busy, Thread
<1>6. UsersOK' /\ WantedOK'
  <2>1. \A k \in Nodes : Fresh(k)' => Fresh(k)
    BY <1>1, <1>5 DEF Fresh
  <2> QED
    BY <1>1, <1>3, <1>5, <2>1, FewerUsers, FewerStarts DEF WiringInv
<1>7. ListedOK'
  BY <1>1, <1>2, <1>5 DEF WiringInv, ListedOK, Fresh, Busy, Thread
<1> QED
  BY <1>4, <1>6, <1>7

LEMMA WireOrdersKeepsWiring ==
  ASSUME WiringInv, WireOrders
  PROVE  UsersOK' /\ WantedOK' /\ OrdersOK' /\ ListedOK'
<1>1. /\ Busy("hub", "wired") /\ UNCHANGED <<stateMap, claimed, listed>>
      /\ job' = [job EXCEPT !["hub"] = Idle]
      /\ \A m \in Nodes : sysMap'[m] = IF m \in job["hub"].waiter
                                       THEN sysMap[m] \union job["hub"].for
                                       ELSE sysMap[m]
  BY DEF WireOrders, Becomes
<1>2. \E n \in Nodes : waiting' = [waiting EXCEPT ![n] = {}]
  BY DEF WireOrders, WiringInv, StartInv, TypeOK, Thread
<1>3. job'["hub"] = Idle /\ job'["main"] = job["main"]
  BY <1>1 DEF WiringInv, StartInv, TypeOK, Thread
<1>4. \A k \in Nodes : waiting'[k] \subseteq waiting[k]
  BY <1>2 DEF WiringInv, StartInv, TypeOK
<1>5. \A k \in Nodes : Users(k)' \subseteq Users(k)
  BY <1>1, <1>3, <1>4 DEF Users, Thread, Idle
<1>6. \A t \in Thread, k \in Nodes : Starts(t, k)' <=> Starts(t, k)
  BY <1>1, <1>3 DEF Starts, Busy, Thread, Idle
<1>7. OrdersOK'
  <2>1. \A m \in Nodes : sysMap'[m] \subseteq stateMap[m]
    BY <1>1 DEF WiringInv, OrdersOK
  <2>2. ~Busy("hub", "wired")'
    BY <1>3 DEF Busy, Idle
  <2> QED
    BY <1>1, <2>1, <2>2 DEF OrdersOK
<1>8. UsersOK' /\ WantedOK'
  <2>1. \A k \in Nodes : Fresh(k)' => Fresh(k)
    BY <1>1, <1>6 DEF Fresh
  <2> QED
    BY <1>1, <1>5, <1>6, <2>1, FewerUsers, FewerStarts DEF WiringInv
<1>9. ListedOK'
  BY <1>1, <1>3, <1>6 DEF WiringInv, ListedOK, Fresh, Busy, Thread, Idle
<1> QED
  BY <1>7, <1>8, <1>9
-----------------------------------------------------------------------------
LEMMA InitWiringInv == Init => WiringInv
<1> SUFFICES ASSUME Init PROVE WiringInv
  OBVIOUS
<1>1. StartInv
  BY InitStartInv
<1>2. \A n \in Nodes : Users(n) = {}
  BY DEF Init, Users, Idle
<1>3. UsersOK
  BY <1>2 DEF UsersOK
<1>4. WantedOK /\ OrdersOK /\ ListedOK
  BY DEF Init, WantedOK, OrdersOK, ListedOK, Fresh, Starts, Busy, Idle, Thread
<1> QED
  BY <1>1, <1>3, <1>4 DEF WiringInv

LEMMA NextWiringInv ==
  ASSUME WiringInv, [Next]_vars
  PROVE  WiringInv'
<1>1. StartInv'
  BY NextStartInv DEF WiringInv
<1>2. UsersOK' /\ WantedOK' /\ OrdersOK' /\ ListedOK'
  <2>1. CASE UNCHANGED <<hubVars, stateMap, sysMap>>
    BY <2>1, NodesKeepWiring DEF WiringInv
  <2>2. CASE \E n \in Roots : MainExecutes(n)
    <3>1. PICK n \in Roots : MainExecutes(n)
      BY <2>2
    <3>2. n \in Nodes /\ "main" \in Thread /\ {} \in SUBSET Nodes
      BY RootAssumption DEF Thread
    <3> QED
      BY <3>1, <3>2, ClaimKeepsWiring DEF MainExecutes, nodeVars
  <2>3. CASE \E t \in Thread : FindId(t) \/ Register(t) \/ Start(t)
    BY <2>3, ExecKeepsWiring
  <2>4. CASE HubPops \/ WireState \/ WireOrders
    BY <2>4, HubPopsKeepsWiring, WireStateKeepsWiring, WireOrdersKeepsWiring
  <2>5. CASE \E n \in Nodes : NodeStep(n) \/ WatchDog(n) \/ ToldToEnd(n)
    BY <2>1, <2>5 DEF NodeStep, WatchDog, ToldToEnd, Cycle, GiveOrders, ChangeState,
       LoopProcess, RollBack, Transit, ReadState, Commit, Exit, Elapse, Receive, Maps
  <2>6. CASE UNCHANGED vars
    BY <2>1, <2>6 DEF vars, nodeVars
  <2> QED
    BY <2>2, <2>3, <2>4, <2>5, <2>6, EnvironmentAssumption
       DEF Next, MainStep, HubStep, Thread
<1> QED
  BY <1>1, <1>2 DEF WiringInv

(* So do the invariants of the wiring.                                     *)
THEOREM WiringInvHolds == Spec => []WiringInv
BY InitWiringInv, NextWiringInv, PTL DEF Spec

(* A node watches and commands only nodes it requires, commands only what  *)
(* it watches, and no node is wired to two nodes, in whatever order the    *)
(* requests reach the hub.                                                 *)
THEOREM WiredAsRequiredHolds == Spec => []WiredAsRequired
<1>1. WiringInv => WiredAsRequired
  <2> SUFFICES ASSUME WiringInv PROVE WiredAsRequired
    OBVIOUS
  <2>1. ASSUME NEW m \in Nodes, NEW k \in stateMap[m]
        PROVE  k \in Nodes /\ k \in RequiredBy(m) /\ Users(k) = {m}
    <3>1. k \in Nodes
      BY DEF WiringInv, StartInv, TypeOK
    <3>2. m \in Users(k)
      BY DEF Users
    <3> QED
      BY <3>1, <3>2 DEF WiringInv, UsersOK
  <2>2. \A m, n \in Nodes : m # n => stateMap[m] \intersect stateMap[n] = {}
    <3> SUFFICES ASSUME NEW m \in Nodes, NEW n \in Nodes, m # n,
                        NEW k \in stateMap[m] \intersect stateMap[n]
                 PROVE  FALSE
      OBVIOUS
    <3>1. Users(k) = {m} /\ Users(k) = {n}
      BY <2>1
    <3> QED
      BY <3>1
  <2> QED
    BY <2>1, <2>2 DEF WiredAsRequired, WiringInv, OrdersOK
<1> QED
  BY <1>1, WiringInvHolds, PTL

(* pick_shared_ptr finds the node it is called for, and the one that waits *)
(* for it, in running_node_list.                                           *)
THEOREM PickFindsNodeHolds == Spec => []PickFindsNode
<1>1. WiringInv => PickFindsNode
  <2> SUFFICES ASSUME WiringInv, NEW i \in DOMAIN hubq
               PROVE  /\ hubq[i].source \in listed
                      /\ waiting[hubq[i].source] \subseteq listed
    BY DEF PickFindsNode
  <2>1. hubq[i] \in Cmds
    BY DEF WiringInv, StartInv
  <2>2. ~Fresh(hubq[i].source) /\ hubq[i].source \in Nodes
    BY <2>1 DEF Cmds, OwnCmds
  <2>3. \A w \in waiting[hubq[i].source] : w \in Nodes /\ w \in Users(hubq[i].source)
    BY <2>2 DEF Users, WiringInv, StartInv, TypeOK
  <2>4. \A w \in waiting[hubq[i].source] : w \in Nodes /\ ~Fresh(w)
    BY <2>2, <2>3 DEF WiringInv, UsersOK
  <2> QED
    BY <2>2, <2>4 DEF WiringInv, ListedOK
<1> QED
  BY <1>1, WiringInvHolds, PTL
-----------------------------------------------------------------------------
(* The start of a system implements StartOrder. The nodes that exec_node   *)
(* has started are those that are not fresh any more.                      *)
LEMMA StartedIs ==
  ASSUME claimed \subseteq Nodes, claimed' \subseteq Nodes
  PROVE  /\ Started = {n \in Nodes : ~Fresh(n)}
         /\ Started' = {n \in Nodes : ~Fresh(n)'}
<1>1. Started = {n \in Nodes : ~Fresh(n)}
  BY DEF Started, Fresh, Starts
<1>2. Started' = {n \in Nodes : ~Fresh(n)'}
  BY DEF Started, Fresh, Starts
<1> QED
  BY <1>1, <1>2

LEMMA ClaimKeepsFresh ==
  ASSUME StartInv, NEW t \in Thread, NEW n \in Nodes, NEW w,
         Busy(t, "idle"), ClaimName(t, n, w)
  PROVE  \A k \in Nodes : Fresh(k)' <=> Fresh(k)
<1>1. CASE n \in claimed
  BY <1>1 DEF ClaimName, Fresh, Starts
<1>2. CASE n \notin claimed
  <2>1. claimed' = claimed \union {n} /\ job' = [job EXCEPT ![t] = Job("named", n, w)]
    BY <1>2 DEF ClaimName, Becomes
  <2>2. job'[t] = Job("named", n, w) /\ \A u \in Thread \ {t} : job'[u] = job[u]
    BY <2>1 DEF StartInv, TypeOK
  <2>3. \A u \in Thread, k \in Nodes : Starts(u, k)' <=> Starts(u, k) \/ (u = t /\ k = n)
    BY <2>2 DEF Starts, Job, Busy
  <2> QED
    BY <1>2, <2>1, <2>3 DEF Fresh
<1> QED
  BY <1>1, <1>2

(* The part of exec_node that looks for an id and enters the node in the   *)
(* maps, and the commands that the hub pops, start and hand over nothing.  *)
LEMMA ExecKeepsFresh ==
  ASSUME StartInv, NEW t \in Thread, FindId(t) \/ Register(t)
  PROVE  \A k \in Nodes : Fresh(k)' <=> Fresh(k)
<1>1. /\ job[t].at \in {"named", "found"} /\ UNCHANGED claimed
      /\ \/ UNCHANGED job
         \/ job' = [job EXCEPT ![t].at = "found"]
         \/ job' = [job EXCEPT ![t].at = "listed"]
  BY DEF FindId, Register, Busy
<1>2. CASE UNCHANGED job
  BY <1>1, <1>2 DEF Fresh, Starts
<1>3. ASSUME NEW a \in {"found", "listed"}, job' = [job EXCEPT ![t].at = a]
      PROVE  \A k \in Nodes : Fresh(k)' <=> Fresh(k)
  <2>1. job[t] \in [at : {"idle", "named", "found", "listed", "wire", "wired"},
                    for : SUBSET Nodes, waiter : SUBSET Nodes]
    BY DEF StartInv, TypeOK
  <2>2. /\ job'[t] = [job[t] EXCEPT !.at = a]
        /\ \A u \in Thread \ {t} : job'[u] = job[u]
    BY <1>3 DEF StartInv, TypeOK
  <2>3. job'[t].at = a /\ job'[t].for = job[t].for
    BY <2>1, <2>2
  <2>4. \A u \in Thread, k \in Nodes : Starts(u, k)' <=> Starts(u, k)
    BY <1>1, <2>2, <2>3 DEF Starts
  <2> QED
    BY <1>1, <2>4 DEF Fresh
<1> QED
  BY <1>1, <1>2, <1>3

LEMMA PopKeepsFresh ==
  ASSUME StartInv, HubPops
  PROVE  \A k \in Nodes : Fresh(k)' <=> Fresh(k)
<1> DEFINE c == Head(hubq)
<1>1. /\ Busy("hub", "idle") /\ hubq # << >>
      /\ HubExecutes(c) \/ Pick(c) \/ Delete(c)
  BY DEF HubPops
<1>2. c \in Cmds
  BY <1>1 DEF StartInv
<1>3. c.target \in Nodes
  BY <1>2 DEF Cmds, OwnCmds, HubCmd
<1> HIDE DEF c
<1>4. CASE HubExecutes(c)
  BY <1>1, <1>3, <1>4, ClaimKeepsFresh DEF HubExecutes, Thread
<1>5. CASE Pick(c) \/ Delete(c)
  <2>1. /\ job' = job
           \/ job' = [job EXCEPT !["hub"] = Job("wire", c.source, waiting[c.source])]
        /\ UNCHANGED claimed
    BY <1>5 DEF Pick, Delete, Becomes
  <2>2. /\ job'["main"] = job["main"]
        /\ job'["hub"] = job["hub"] \/ job'["hub"] = Job("wire", c.source, waiting[c.source])
    BY <2>1 DEF StartInv, TypeOK, Thread
  <2>3. \A t \in Thread, k \in Nodes : Starts(t, k)' <=> Starts(t, k)
    BY <1>1, <2>2 DEF Starts, Job, Busy, Thread
  <2> QED
    BY <2>1, <2>3 DEF Fresh
<1> QED
  BY <1>1, <1>4, <1>5

(* exec_node starts a node that is wanted, and none that was started.      *)
LEMMA StartIsStartNode ==
  ASSUME WiringInv, StartInv', NEW t \in Thread, Start(t)
  PROVE  \E n \in Nodes : Ordered!StartNode(n)
<1>1. /\ job[t].at = "listed" /\ job' = [job EXCEPT ![t] = Idle]
      /\ UNCHANGED <<stateMap, sysMap, claimed>>
  BY DEF Start, Busy, Becomes, Maps
<1>2. PICK n \in Nodes : job[t].for = {n}
  BY <1>1 DEF WiringInv, StartInv, JobsOK, Busy
<1>3. Starts(t, n)
  BY <1>1, <1>2 DEF Starts
<1>4. /\ Fresh(n) /\ n \in claimed
      /\ \A u \in Thread \ {t} : ~Starts(u, n)
  BY <1>3 DEF Fresh, WiringInv, StartInv, JobsOK
<1>5. job'[t] = Idle /\ \A u \in Thread \ {t} : job'[u] = job[u]
  BY <1>1 DEF WiringInv, StartInv, TypeOK
<1>6. \A u \in Thread, k \in Nodes : Starts(u, k)' <=> Starts(u, k) /\ k # n
  BY <1>2, <1>4, <1>5 DEF Starts, Idle
<1>7. \A k \in Nodes : Fresh(k)' <=> Fresh(k) /\ k # n
  BY <1>1, <1>4, <1>6 DEF Fresh
<1>8. /\ Started = {k \in Nodes : ~Fresh(k)}
      /\ Started' = {k \in Nodes : ~Fresh(k)'}
  BY StartedIs DEF WiringInv, StartInv, TypeOK
<1>9. n \notin Started /\ Started' = Started \union {n}
  BY <1>4, <1>7, <1>8
<1>10. n \in Roots \/ \E w \in Nodes : ~Fresh(w) /\ n \in RequiredBy(w)
  BY <1>3 DEF WiringInv, WantedOK
<1>11. Ordered!Wanted(n)
  BY <1>8, <1>10 DEF Ordered!Wanted
<1> QED
  BY <1>1, <1>9, <1>11 DEF Ordered!StartNode

(* set_relative_node_state_ptr hands over the state of a started node to a *)
(* started node that requires it, the only one that may have it.           *)
LEMMA WireIsHandState ==
  ASSUME WiringInv, StartInv', WireState
  PROVE  \/ \E n \in Nodes, w \in Nodes : Ordered!HandState(w, n)
         \/ UNCHANGED Ordered!orderVars
<1>1. /\ job["hub"].at = "wire" /\ UNCHANGED <<sysMap, claimed>>
      /\ job' = [job EXCEPT !["hub"].at = "wired"]
      /\ stateMap' = [m \in Nodes |-> IF m \in job["hub"].waiter
                                      THEN stateMap[m] \union job["hub"].for
                                      ELSE stateMap[m]]
  BY DEF WireState, Busy
<1>2. PICK n \in Nodes : job["hub"].for = {n}
  BY <1>1 DEF WiringInv, StartInv, JobsOK, Busy, Thread
<1>3. /\ job'["main"] = job["main"] /\ job'["hub"].at = "wired"
      /\ job["hub"].waiter \subseteq Nodes
  <2>1. job["hub"] \in [at : {"idle", "named", "found", "listed", "wire", "wired"},
                       for : SUBSET Nodes, waiter : SUBSET Nodes]
    BY DEF WiringInv, StartInv, TypeOK, Thread
  <2>2. job'["hub"] = [job["hub"] EXCEPT !.at = "wired"] /\ job'["main"] = job["main"]
    BY <1>1 DEF WiringInv, StartInv, TypeOK, Thread
  <2> QED
    BY <2>1, <2>2
<1>4. \A t \in Thread, k \in Nodes : Starts(t, k)' <=> Starts(t, k)
  BY <1>1, <1>3 DEF Starts, Thread
<1>5. \A k \in Nodes : Fresh(k)' <=> Fresh(k)
  BY <1>1, <1>4 DEF Fresh
<1>6. /\ Started = {k \in Nodes : ~Fresh(k)}
      /\ Started' = {k \in Nodes : ~Fresh(k)'}
  BY StartedIs DEF WiringInv, StartInv, TypeOK
<1>7. Started' = Started
  BY <1>5, <1>6
<1>8. \A m \in Nodes : stateMap[m] \in SUBSET Nodes
  BY DEF WiringInv, StartInv, TypeOK
<1>9. stateMap = [m \in Nodes |-> stateMap[m]]
  BY DEF WiringInv, StartInv, TypeOK
<1>10. \A w \in job["hub"].waiter : w \in Users(n)
  BY <1>2, <1>3 DEF Users, Thread
<1>11. CASE \A w \in job["hub"].waiter : n \in stateMap[w]
  <2>1. stateMap' = stateMap
    BY <1>1, <1>2, <1>9, <1>11
  <2> QED
    BY <1>1, <1>7, <2>1 DEF Ordered!orderVars
<1>12. ASSUME NEW w \in job["hub"].waiter, n \notin stateMap[w]
       PROVE  Ordered!HandState(w, n)
  <2>1. w \in Nodes /\ n \in RequiredBy(w) /\ Users(n) = {w} /\ ~Fresh(w)
    BY <1>3, <1>10 DEF WiringInv, UsersOK
  <2>2. ~Fresh(n)
    BY <1>1, <1>2 DEF Wiring, WiringInv, StartInv, Untouched
  <2>3. \A m \in Nodes : n \notin stateMap[m]
    BY <1>12, <2>1 DEF Users
  <2>4. job["hub"].waiter = {w}
    BY <1>10, <2>1
  <2>5. stateMap' = [stateMap EXCEPT ![w] = @ \union {n}]
    BY <1>1, <1>2, <1>9, <2>1, <2>4
  <2> QED
    BY <1>1, <1>6, <1>7, <2>1, <2>2, <2>3, <2>5 DEF Ordered!HandState
<1> QED
  BY <1>3, <1>11, <1>12

(* set_relative_node_sys_cmd_ptr follows.                                  *)
LEMMA WireIsHandOrders ==
  ASSUME WiringInv, StartInv', WireOrders
  PROVE  \/ \E n \in Nodes, w \in Nodes : Ordered!HandOrders(w, n)
         \/ UNCHANGED Ordered!orderVars
<1>1. /\ job["hub"].at = "wired" /\ UNCHANGED <<stateMap, claimed>>
      /\ job' = [job EXCEPT !["hub"] = Idle]
      /\ sysMap' = [m \in Nodes |-> IF m \in job["hub"].waiter
                                    THEN sysMap[m] \union job["hub"].for
                                    ELSE sysMap[m]]
  BY DEF WireOrders, Becomes, Busy
<1>2. PICK n \in Nodes : job["hub"].for = {n}
  BY <1>1 DEF WiringInv, StartInv, JobsOK, Busy, Thread
<1>3. /\ job'["hub"] = Idle /\ job'["main"] = job["main"]
      /\ job["hub"].waiter \subseteq Nodes
  BY <1>1 DEF WiringInv, StartInv, TypeOK, Thread
<1>4. \A t \in Thread, k \in Nodes : Starts(t, k)' <=> Starts(t, k)
  BY <1>1, <1>3 DEF Starts, Thread, Idle
<1>5. \A k \in Nodes : Fresh(k)' <=> Fresh(k)
  BY <1>1, <1>4 DEF Fresh
<1>6. /\ Started = {k \in Nodes : ~Fresh(k)}
      /\ Started' = {k \in Nodes : ~Fresh(k)'}
  BY StartedIs DEF WiringInv, StartInv, TypeOK
<1>7. Started' = Started
  BY <1>5, <1>6
<1>9. sysMap = [m \in Nodes |-> sysMap[m]]
  BY DEF WiringInv, StartInv, TypeOK
<1>10. \A w \in job["hub"].waiter : w \in Users(n) /\ n \in stateMap[w]
  BY <1>1, <1>2, <1>3 DEF Users, Thread, WiringInv, OrdersOK, Busy
<1>11. CASE \A w \in job["hub"].waiter : n \in sysMap[w]
  <2>1. sysMap' = sysMap
    BY <1>1, <1>2, <1>9, <1>11
  <2> QED
    BY <1>1, <1>7, <2>1 DEF Ordered!orderVars
<1>12. ASSUME NEW w \in job["hub"].waiter, n \notin sysMap[w]
       PROVE  Ordered!HandOrders(w, n)
  <2>1. w \in Nodes /\ Users(n) = {w}
    BY <1>3, <1>10 DEF WiringInv, UsersOK
  <2>2. job["hub"].waiter = {w}
    BY <1>10, <2>1
  <2>3. sysMap' = [sysMap EXCEPT ![w] = @ \union {n}]
    BY <1>1, <1>2, <1>9, <2>1, <2>2
  <2> QED
    BY <1>1, <1>7, <1>10, <1>12, <2>3 DEF Ordered!HandOrders
<1> QED
  BY <1>3, <1>11, <1>12

(* A step of the system is a step of StartOrder, or none.                  *)
LEMMA NextInOrder ==
  ASSUME WiringInv, [Next]_vars
  PROVE  [Ordered!OrderNext]_(Ordered!orderVars)
<1>1. StartInv /\ StartInv'
  BY NextStartInv DEF WiringInv
<1>2. ASSUME \A k \in Nodes : Fresh(k)' <=> Fresh(k), UNCHANGED <<stateMap, sysMap>>
      PROVE  UNCHANGED Ordered!orderVars
  <2>1. /\ Started = {k \in Nodes : ~Fresh(k)}
        /\ Started' = {k \in Nodes : ~Fresh(k)'}
    BY <1>1, StartedIs DEF StartInv, TypeOK
  <2> QED
    BY <1>2, <2>1 DEF Ordered!orderVars
<1>3. CASE UNCHANGED vars \/ \E n \in Nodes : NodeStep(n) \/ WatchDog(n) \/ ToldToEnd(n)
  <2>1. UNCHANGED <<hubVars, stateMap, sysMap>>
    BY <1>3 DEF vars, nodeVars, NodeStep, WatchDog, ToldToEnd, Cycle, GiveOrders,
       ChangeState, LoopProcess, RollBack, Transit, ReadState, Commit, Exit, Elapse,
       Receive, Maps
  <2> QED
    BY <1>2, <2>1 DEF Fresh, Starts, hubVars
<1>4. CASE \E n \in Roots : MainExecutes(n)
  <2>1. PICK n \in Roots : MainExecutes(n)
    BY <1>4
  <2>2. \A k \in Nodes : Fresh(k)' <=> Fresh(k)
    BY <1>1, <2>1, ClaimKeepsFresh, RootAssumption DEF MainExecutes, Thread
  <2> QED
    BY <1>2, <2>1, <2>2 DEF MainExecutes, nodeVars
<1>5. CASE \E t \in Thread : FindId(t) \/ Register(t)
  BY <1>1, <1>2, <1>5, ExecKeepsFresh DEF FindId, Register, nodeVars
<1>6. CASE HubPops
  BY <1>1, <1>2, <1>6, PopKeepsFresh DEF HubPops, Maps
<1>7. CASE \E t \in Thread : Start(t)
  BY <1>1, <1>7, StartIsStartNode DEF Ordered!OrderNext
<1>8. CASE WireState \/ WireOrders
  BY <1>1, <1>8, WireIsHandState, WireIsHandOrders DEF Ordered!OrderNext
<1> QED
  BY <1>3, <1>4, <1>5, <1>6, <1>7, <1>8, EnvironmentAssumption
     DEF Next, MainStep, HubStep, Thread

(* Whatever the nodes ask for, in whatever order their commands reach the  *)
(* hub and whichever of the two threads executes them, the start of a      *)
(* system is a start that StartOrder allows: from the roots downwards,     *)
(* each node once, each handed to one started node that requires it, its   *)
(* state first.                                                            *)
THEOREM StartsInOrderHolds == Spec => StartsInOrder
<1>1. Init => Ordered!OrderInit
  BY DEF Init, Started, Ordered!OrderInit
<1>2. WiringInv /\ [Next]_vars => [Ordered!OrderNext]_(Ordered!orderVars)
  BY NextInOrder
<1> QED
  BY <1>1, <1>2, WiringInvHolds, PTL DEF Spec, StartsInOrder, Ordered!OrderSpec
-----------------------------------------------------------------------------
(* A node that waits before it gets READY does so until the nodes it       *)
(* requires are wired: transit_processing counts them, and counts right.   *)
Full(n) == stateMap[n] = RequiredBy(n)
AtWork(s) == s \in {"READY", "STABLE", "REPAIR"}
ComesFromWork(m) == AtWork(m.sm) \/ (m.sm = "TRANSITING" /\ AtWork(m.prev))

WiredFirst ==
  \A n \in Nodes :
    /\ pc[n] = "scan" => Full(n)
    /\ Hook[n]["READY"] = {FALSE} /\ ComesFromWork(node[n]) => Full(n)

(* What n watches and does not command yet is what it is being wired to.   *)
LastWire == \A n \in Nodes : stateMap[n] \ sysMap[n] \subseteq BeingWired(n)

FullInv == WiringInv /\ WiredFirst /\ LastWire

LEMMA AllRequired ==
  ASSUME NEW n \in Nodes, NEW S \in SUBSET RequiredBy(n),
         Cardinality(S) = Len(Req[n])
  PROVE  S = RequiredBy(n)
<1> DEFINE L == 1 .. Len(Req[n])
           f == [i \in L |-> Req[n][i]]
<1>1. Len(Req[n]) \in Nat
  BY ReqAssumption
<1>2. IsFiniteSet(L) /\ Cardinality(L) = Len(Req[n])
  <2>1. ASSUME NEW b \in Nat PROVE IsFiniteSet(1 .. b) /\ Cardinality(1 .. b) = b
    <3>1. 1 \in Int /\ b \in Int
      OBVIOUS
    <3>2. IsFiniteSet(1 .. b) /\ Cardinality(1 .. b) = IF 1 > b THEN 0 ELSE b - 1 + 1
      BY <3>1, FS_Interval
    <3> QED
      BY <3>2
  <2> QED
    BY <1>1, <2>1
<1>3. f \in Surjection(L, RequiredBy(n))
  BY DEF Surjection, RequiredBy
<1> HIDE DEF f, L
<1>4. IsFiniteSet(RequiredBy(n)) /\ Cardinality(RequiredBy(n)) <= Cardinality(L)
  BY <1>2, <1>3, FS_Surjection
<1>5. /\ Cardinality(S) <= Cardinality(RequiredBy(n))
      /\ Cardinality(S) = Cardinality(RequiredBy(n)) => S = RequiredBy(n)
  BY <1>4, FS_Subset
<1>6. Cardinality(RequiredBy(n)) \in Nat
  BY <1>4, FS_CardinalityType
<1> QED
  BY <1>1, <1>2, <1>4, <1>5, <1>6

(* How a node comes to READY, STABLE or REPAIR, or to an arrow from there. *)
LEMMA ChangeComes ==
  ASSUME NEW n \in Nodes, NodeTypes, NodeOK(n), ChangeState(n),
         Hook[n]["READY"] = {FALSE}
  PROVE  ComesFromWork(node'[n]) => AtWork(node[n].sm)
<1> DEFINE g == IF pc[n] = "hook" THEN node[n] ELSE Generated(n)
<1>1. /\ g \in NodeRecord /\ g.sm = node[n].sm /\ g.prev = node[n].prev
      /\ PendingOK(g)
  BY GenerateOK DEF NodeTypes, NodeOK, Generated, ChangeState, AtTop
<1>2. g.change /\ g.sm # "TRANSITING"
  BY DEF ChangeState, NodeOK, HookOK
<1>3. g.cmd = "FORCE_STOP" \/ <<g.sm, g.cmd>> \in Arrow
  BY <1>1, <1>2 DEF PendingOK
<1>4. PICK ok \in Hook[n][g.cmd] : node' = [node EXCEPT ![n] = change_node_state(g, ok)]
  BY DEF ChangeState
<1>5. ok \in BOOLEAN /\ (g.cmd = "READY" => ~ok)
  <2>1. g.cmd \in State
    BY <1>1 DEF NodeRecord
  <2>2. Hook[n][g.cmd] \in SUBSET BOOLEAN
    BY <2>1, HookAssumption
  <2>3. ASSUME g.cmd = "READY" PROVE ok = FALSE
    BY <2>3
  <2> QED
    BY <2>2, <2>3
<1> DEFINE r == change_node_state(g, ok)
<1>6. /\ \/ r.sm = g.cmd
         \/ r.sm = "TRANSITING" /\ r.prev = g.sm
      /\ r.sm = g.cmd /\ g.cmd # g.sm /\ g.cmd # "TRANSITING" => ok
  BY <1>1, <1>2, <1>3, <1>5, ChangeOK, ChangeMore
<1>7. node'[n] = r
  BY <1>4 DEF NodeTypes
<1> HIDE DEF g, r
<1>8. <<g.sm, g.cmd>> \in Arrow /\ AtWork(g.cmd) /\ g.cmd # "READY" => AtWork(g.sm)
  BY DEF Arrow, Machine!Arrow, AtWork
<1>9. <<g.sm, g.cmd>> \in Arrow => g.sm # g.cmd /\ g.cmd # "TRANSITING"
  BY ArrowFacts
<1> QED
  BY <1>1, <1>3, <1>5, <1>6, <1>7, <1>8, <1>9 DEF ComesFromWork, AtWork

LEMMA LoopComes ==
  ASSUME NEW n \in Nodes, NodeTypes, NodeOK(n), LoopProcess(n)
  PROVE  ComesFromWork(node'[n]) => AtWork(node[n].sm)
<1> DEFINE g == Generated(n)
<1>1. g \in NodeRecord /\ g.sm = node[n].sm /\ g.sm # "TRANSITING"
  BY GenerateOK DEF NodeTypes, Generated, LoopProcess
<1>2. node'[n].sm = g.sm
  <2>1. CASE g.sm = "UNCONFIGURED"
    <3>1. node' = [node EXCEPT ![n] = ThenChangeTo("INITIALIZING", g)]
      BY <2>1 DEF LoopProcess
    <3> QED
      BY <1>1, <3>1 DEF NodeTypes, ThenChangeTo, NodeRecord
  <2>2. CASE g.sm = "INITIALIZING"
    <3> DEFINE m == ThenChangeTo("READY", g)
    <3>1. Processing(n, m, sysq)
      BY <2>2 DEF LoopProcess
    <3>2. m \in NodeRecord /\ m.sm = g.sm
      BY <1>1 DEF ThenChangeTo, NodeRecord, State
    <3> HIDE DEF m
    <3>3. PICK e : Executed(m, e) /\ node' = [node EXCEPT ![n] = e]
      BY <3>1, <3>2, ProcessingOK DEF NodeTypes
    <3> QED
      BY <3>2, <3>3 DEF Executed, NodeTypes
  <2>3. CASE g.sm \notin {"UNCONFIGURED", "INITIALIZING"}
    <3>1. Processing(n, g, sysq)
      BY <2>3 DEF LoopProcess
    <3>2. PICK e : Executed(g, e) /\ node' = [node EXCEPT ![n] = e]
      BY <1>1, <3>1, ProcessingOK DEF NodeTypes
    <3> QED
      BY <3>2 DEF Executed, NodeTypes
  <2> QED
    BY <2>1, <2>2, <2>3
<1> QED
  BY <1>1, <1>2 DEF ComesFromWork

LEMMA RollBackComes ==
  ASSUME NEW n \in Nodes, NodeTypes, NodeOK(n), RollBack(n)
  PROVE  ComesFromWork(node'[n]) => ComesFromWork(node[n])
<1> DEFINE g == Generated(n)
           r == [g EXCEPT !.sm = g.prev, !.expired = FALSE]
<1>1. /\ g \in NodeRecord /\ node[n].sm = "TRANSITING" /\ g.prev = node[n].prev
      /\ <<g.prev, g.dest>> \in Arrow
  BY OnArrow DEF RollBack
<1>2. node' = [node EXCEPT ![n] = r]
  BY DEF RollBack
<1>3. r.sm = g.prev /\ r.prev = g.prev
  BY <1>1 DEF NodeRecord
<1> HIDE DEF g, r
<1>4. node'[n] = r
  BY <1>2 DEF NodeTypes
<1> QED
  BY <1>1, <1>3, <1>4, ArrowFacts DEF ComesFromWork, AtWork

LEMMA TransitComes ==
  ASSUME NEW n \in Nodes, NodeTypes, NodeOK(n), Transit(n)
  PROVE  ComesFromWork(node'[n]) => ComesFromWork(node[n])
<1> DEFINE m == IF pc[n] = "back" THEN node[n] ELSE Generated(n)
<1>1. m \in NodeRecord /\ m.sm = node[n].sm /\ m.prev = node[n].prev
  BY GenerateOK DEF NodeTypes, Generated
<1>2. IF m.prev = "UNCONFIGURED" THEN node' = [node EXCEPT ![n] = m]
      ELSE Processing(n, m, sysq)
  BY DEF Transit
<1> HIDE DEF m
<1>3. node'[n].sm = m.sm /\ node'[n].prev = m.prev
  <2>1. CASE m.prev = "UNCONFIGURED"
    BY <1>2, <2>1 DEF NodeTypes
  <2>2. CASE m.prev # "UNCONFIGURED"
    <3>1. PICK e : Executed(m, e) /\ node' = [node EXCEPT ![n] = e]
      BY <1>1, <1>2, <2>2, ProcessingOK DEF NodeTypes
    <3> QED
      BY <3>1 DEF Executed, NodeTypes
  <2> QED
    BY <2>1, <2>2
<1> QED
  BY <1>1, <1>3 DEF ComesFromWork

(* Together: a node gets there from such a state, or after its scan.       *)
LEMMA NodeComes ==
  ASSUME NEW n \in Nodes, NodeTypes, NodeOK(n), Hook[n]["READY"] = {FALSE},
         Cycle(n) \/ Exit(n) \/ Elapse(n) \/ Receive(n, "END")
  PROVE  ComesFromWork(node'[n]) => ComesFromWork(node[n]) \/ pc[n] = "scan"
<1>1. CASE ChangeState(n) \/ LoopProcess(n) \/ RollBack(n) \/ Transit(n)
  BY <1>1, ChangeComes, LoopComes, RollBackComes, TransitComes DEF ComesFromWork
<1>2. CASE ReadState(n) \/ Commit(n)
  BY <1>2 DEF ReadState, Commit
<1>3. CASE Exit(n)
  <2>1. node[n] \in NodeRecord /\ node' = [node EXCEPT ![n].sm = "UNCONFIGURED"]
    BY <1>3 DEF Exit, NodeTypes
  <2> QED
    BY <2>1 DEF NodeTypes, NodeRecord, ComesFromWork, AtWork
<1>4. CASE Elapse(n)
  <2>1. node[n] \in NodeRecord /\ node' = [node EXCEPT ![n].expired = TRUE]
    BY <1>4 DEF Elapse, NodeTypes
  <2> QED
    BY <2>1 DEF NodeTypes, NodeRecord, ComesFromWork
<1>5. CASE Receive(n, "END")
  BY <1>5 DEF Receive
<1>6. CASE GiveOrders(n)
  <2>1. /\ Generated(n).sm = node[n].sm /\ Generated(n).prev = node[n].prev
        /\ node' = [node EXCEPT ![n] = Generated(n)]
    BY <1>6, GenerateOK DEF NodeTypes, Generated, GiveOrders
  <2>2. node'[n] = Generated(n)
    BY <2>1 DEF NodeTypes
  <2> QED
    BY <2>1, <2>2 DEF ComesFromWork
<1> QED
  BY <1>1, <1>2, <1>3, <1>4, <1>5, <1>6 DEF Cycle

(* A scan begins only when the number of wired nodes is that of the list.  *)
LEMMA ScanBegins ==
  ASSUME NEW n \in Nodes, NodeTypes,
         Cycle(n) \/ Exit(n) \/ Elapse(n) \/ Receive(n, "END")
  PROVE  pc'[n] = "scan" => pc[n] = "scan" \/ Cardinality(stateMap[n]) = Len(Req[n])
<1>1. CASE Transit(n)
  <2>1. pc' = [pc EXCEPT ![n] = IF Cardinality(stateMap[n]) = Len(Req[n])
                                THEN "scan" ELSE "top"]
    BY <1>1 DEF Transit
  <2> QED
    BY <2>1 DEF NodeTypes
<1>2. CASE GiveOrders(n) \/ ChangeState(n) \/ LoopProcess(n) \/ RollBack(n)
  BY <1>2 DEF GiveOrders, ChangeState, LoopProcess, RollBack, NodeTypes
<1>3. CASE ReadState(n) \/ Commit(n)
  BY <1>3 DEF ReadState, Commit
<1>4. CASE Exit(n) \/ Elapse(n) \/ Receive(n, "END")
  BY <1>4 DEF Exit, Elapse, Receive, NodeTypes
<1> QED
  BY <1>1, <1>2, <1>3, <1>4 DEF Cycle

LEMMA NodesKeepFull ==
  ASSUME FullInv, NEW n \in Nodes, NodeStep(n) \/ WatchDog(n) \/ ToldToEnd(n)
  PROVE  WiredFirst' /\ LastWire'
<1>1. /\ UNCHANGED <<hubVars, stateMap, sysMap>>
      /\ Cycle(n) \/ Exit(n) \/ Elapse(n) \/ (pc[n] # "off" /\ Receive(n, "END"))
  BY DEF NodeStep, WatchDog, ToldToEnd, Cycle, GiveOrders, ChangeState, LoopProcess,
     RollBack, Transit, ReadState, Commit, Exit, Elapse, Receive, Maps
<1>2. LastWire'
  BY <1>1 DEF FullInv, LastWire, BeingWired, Busy, hubVars
<1>3. NodeTypes /\ NodeOK(n) /\ StartInv
  BY DEF FullInv, WiringInv, StartInv, TypeOK, NodeTypes
<1>4. StepOK(n)
  BY <1>1, <1>3, NodeStepOK
<1>5. \A k \in Nodes \ {n} : node'[k] = node[k] /\ pc'[k] = pc[k]
  BY <1>3, <1>4 DEF StepOK, NodeTypes
<1>6. \A k \in Nodes : Full(k)' <=> Full(k)
  BY <1>1 DEF Full
<1>7. pc'[n] = "scan" => Full(n)
  <2>1. CASE pc[n] = "scan"
    BY <2>1 DEF FullInv, WiredFirst
  <2>2. CASE Cardinality(stateMap[n]) = Len(Req[n])
    <3>1. stateMap[n] \in SUBSET RequiredBy(n)
      <4>1. \A k \in stateMap[n] : k \in Nodes /\ n \in Users(k)
        BY <1>3 DEF NodeTypes, Users
      <4> QED
        BY <4>1 DEF FullInv, WiringInv, UsersOK
    <3> QED
      BY <2>2, <3>1, AllRequired DEF Full
  <2> QED
    BY <1>1, <1>3, <2>1, <2>2, ScanBegins
<1>8. Hook[n]["READY"] = {FALSE} /\ ComesFromWork(node'[n]) => Full(n)
  BY <1>1, <1>3, NodeComes DEF FullInv, WiredFirst
<1>9. WiredFirst'
  BY <1>5, <1>6, <1>7, <1>8 DEF FullInv, WiredFirst, ComesFromWork
<1> QED
  BY <1>2, <1>9

(* The hub and main: they start nodes and wire them, and no more.          *)
LEMMA WireStateKeepsFull ==
  ASSUME FullInv, WireState
  PROVE  WiredFirst' /\ LastWire'
<1>1. /\ Busy("hub", "wire") /\ UNCHANGED <<node, pc, sysMap>>
      /\ job' = [job EXCEPT !["hub"].at = "wired"]
      /\ \A m \in Nodes : stateMap'[m] = IF m \in job["hub"].waiter
                                         THEN stateMap[m] \union job["hub"].for
                                         ELSE stateMap[m]
  BY DEF WireState
<1>2. /\ job'["hub"].at = "wired" /\ job'["hub"].for = job["hub"].for
      /\ job'["hub"].waiter = job["hub"].waiter
  <2>1. job["hub"] \in [at : {"idle", "named", "found", "listed", "wire", "wired"},
                       for : SUBSET Nodes, waiter : SUBSET Nodes]
    BY DEF FullInv, WiringInv, StartInv, TypeOK, Thread
  <2>2. job'["hub"] = [job["hub"] EXCEPT !.at = "wired"]
    BY <1>1 DEF FullInv, WiringInv, StartInv, TypeOK, Thread
  <2> QED
    BY <2>1, <2>2
<1>3. LastWire'
  <2>1. \A m \in Nodes : stateMap[m] \subseteq sysMap[m]
    BY <1>1 DEF FullInv, LastWire, BeingWired, Busy
  <2> QED
    BY <1>1, <1>2, <2>1 DEF LastWire, BeingWired, Busy
<1>4. \A m \in Nodes : Full(m) => Full(m)'
  <2> SUFFICES ASSUME NEW m \in Nodes, Full(m)
               PROVE  stateMap'[m] = RequiredBy(m)
    BY DEF Full, RequiredBy
  <2>1. CASE m \in job["hub"].waiter
    <3>1. \A k \in job["hub"].for : k \in Nodes /\ m \in Users(k)
      BY <2>1 DEF Users, Thread, FullInv, WiringInv, StartInv, TypeOK
    <3>2. job["hub"].for \subseteq RequiredBy(m)
      BY <3>1 DEF FullInv, WiringInv, UsersOK
    <3> QED
      BY <1>1, <2>1, <3>2 DEF Full
  <2>2. CASE m \notin job["hub"].waiter
    BY <1>1, <2>2 DEF Full
  <2> QED
    BY <2>1, <2>2
<1>5. WiredFirst'
  BY <1>1, <1>4 DEF FullInv, WiredFirst, ComesFromWork
<1> QED
  BY <1>3, <1>5

LEMMA WireOrdersKeepsFull ==
  ASSUME FullInv, WireOrders
  PROVE  WiredFirst' /\ LastWire'
<1>1. /\ Busy("hub", "wired") /\ UNCHANGED <<node, pc, stateMap>>
      /\ \A m \in Nodes : sysMap'[m] = IF m \in job["hub"].waiter
                                       THEN sysMap[m] \union job["hub"].for
                                       ELSE sysMap[m]
  BY DEF WireOrders
<1>2. LastWire'
  <2>1. \A m \in Nodes : stateMap[m] \subseteq sysMap'[m]
    BY <1>1 DEF FullInv, LastWire, BeingWired
  <2> QED
    BY <1>1, <2>1 DEF LastWire, BeingWired
<1>3. WiredFirst'
  BY <1>1 DEF FullInv, WiredFirst, Full, ComesFromWork
<1> QED
  BY <1>2, <1>3

LEMMA ExecKeepsFull ==
  ASSUME FullInv, NEW t \in Thread, ~Busy(t, "wired"), UNCHANGED <<stateMap, sysMap>>,
         \A u \in Thread \ {t} : job'[u] = job[u],
         \A n \in Nodes : /\ pc'[n] = "scan" => pc[n] = "scan"
                          /\ ComesFromWork(node'[n]) => ComesFromWork(node[n])
  PROVE  WiredFirst' /\ LastWire'
<1>1. \A n \in Nodes : Full(n) => Full(n)'
  BY DEF Full
<1>2. WiredFirst'
  BY <1>1 DEF FullInv, WiredFirst, ComesFromWork
<1>3. \A n \in Nodes : BeingWired(n) \subseteq BeingWired(n)'
  BY DEF BeingWired, Busy, Thread
<1>4. LastWire'
  BY <1>3 DEF FullInv, LastWire
<1> QED
  BY <1>2, <1>4

LEMMA StartKeepsFull ==
  ASSUME FullInv, NEW t \in Thread, Start(t)
  PROVE  WiredFirst' /\ LastWire'
<1>1. /\ job' = [job EXCEPT ![t] = Idle] /\ ~Busy(t, "wired")
      /\ UNCHANGED <<stateMap, sysMap>>
  BY DEF Start, Becomes, Busy, Maps
<1>2. PICK k \in job[t].for :
        IF node[k].running THEN UNCHANGED <<node, pc>>
        ELSE /\ node' = [node EXCEPT ![k] =
                 [node[k] EXCEPT !.running = TRUE, !.flags = {},
                                 !.change = FALSE, !.dest = "READY"]]
             /\ pc' = [pc EXCEPT ![k] = "top"]
  BY DEF Start
<1>3. k \in Nodes /\ node[k] \in NodeRecord
  BY DEF FullInv, WiringInv, StartInv, TypeOK
<1> DEFINE r == [node[k] EXCEPT !.running = TRUE, !.flags = {},
                               !.change = FALSE, !.dest = "READY"]
<1>4. r.sm = node[k].sm /\ r.prev = node[k].prev
  BY <1>3 DEF NodeRecord
<1> HIDE DEF r
<1>5. \A n \in Nodes : /\ pc'[n] = "scan" => pc[n] = "scan"
                       /\ ComesFromWork(node'[n]) => ComesFromWork(node[n])
  <2>1. CASE node[k].running
    BY <1>2, <2>1
  <2>2. CASE ~node[k].running
    <3>1. node' = [node EXCEPT ![k] = r] /\ pc' = [pc EXCEPT ![k] = "top"]
      BY <1>2, <2>2 DEF r
    <3> QED
      BY <1>4, <3>1 DEF FullInv, WiringInv, StartInv, TypeOK, ComesFromWork
  <2> QED
    BY <2>1, <2>2
<1>6. \A u \in Thread \ {t} : job'[u] = job[u]
  BY <1>1 DEF FullInv, WiringInv, StartInv, TypeOK
<1> QED
  BY <1>1, <1>5, <1>6, ExecKeepsFull

LEMMA NextFullInv ==
  ASSUME FullInv, [Next]_vars
  PROVE  FullInv'
<1>1. WiringInv'
  BY NextWiringInv DEF FullInv
<1>2. WiredFirst' /\ LastWire'
  <2>1. CASE UNCHANGED vars
    BY <2>1 DEF vars, nodeVars, hubVars, FullInv, WiredFirst, LastWire, Full,
       ComesFromWork, BeingWired, Busy
  <2>2. CASE \E n \in Nodes : NodeStep(n) \/ WatchDog(n) \/ ToldToEnd(n)
    BY <2>2, NodesKeepFull
  <2>3. ASSUME NEW t \in Thread, ~Busy(t, "wired"), UNCHANGED <<stateMap, sysMap, node, pc>>,
               \A u \in Thread \ {t} : job'[u] = job[u]
        PROVE  WiredFirst' /\ LastWire'
    BY <2>3, ExecKeepsFull
  <2>4. CASE \E n \in Roots : MainExecutes(n)
    <3>1. /\ UNCHANGED <<stateMap, sysMap, node, pc>> /\ Busy("main", "idle")
          /\ \/ job' = job
             \/ \E j : job' = [job EXCEPT !["main"] = j]
      BY <2>4 DEF MainExecutes, ClaimName, Becomes, nodeVars
    <3>2. \A u \in Thread \ {"main"} : job'[u] = job[u]
      BY <3>1 DEF FullInv, WiringInv, StartInv, TypeOK
    <3> QED
      BY <2>3, <3>1, <3>2 DEF Busy, Thread
  <2>5. CASE \E t \in Thread : FindId(t) \/ Register(t)
    <3>1. PICK t \in Thread : FindId(t) \/ Register(t)
      BY <2>5
    <3>2. /\ UNCHANGED <<stateMap, sysMap, node, pc>> /\ ~Busy(t, "wired")
          /\ \A u \in Thread \ {t} : job'[u] = job[u]
      BY <3>1 DEF FindId, Register, nodeVars, Busy, FullInv, WiringInv, StartInv, TypeOK
    <3> QED
      BY <2>3, <3>2
  <2>6. CASE \E t \in Thread : Start(t)
    BY <2>6, StartKeepsFull
  <2>7. CASE HubPops
    <3>1. /\ UNCHANGED <<stateMap, sysMap, node, pc>> /\ Busy("hub", "idle")
          /\ \/ job' = job
             \/ \E j : job' = [job EXCEPT !["hub"] = j]
      BY <2>7 DEF HubPops, HubExecutes, Pick, Delete, ClaimName, Becomes, Maps
    <3>2. \A u \in Thread \ {"hub"} : job'[u] = job[u]
      BY <3>1 DEF FullInv, WiringInv, StartInv, TypeOK
    <3> QED
      BY <2>3, <3>1, <3>2 DEF Busy, Thread
  <2>8. CASE WireState \/ WireOrders
    BY <2>8, WireStateKeepsFull, WireOrdersKeepsFull
  <2> QED
    BY <2>1, <2>2, <2>4, <2>5, <2>6, <2>7, <2>8, EnvironmentAssumption
       DEF Next, MainStep, HubStep, Thread
<1> QED
  BY <1>1, <1>2 DEF FullInv

LEMMA InitFullInv == Init => FullInv
<1> SUFFICES ASSUME Init PROVE FullInv
  OBVIOUS
<1>1. WiringInv
  BY InitWiringInv
<1>2. WiredFirst /\ LastWire
  BY DEF Init, NewNode, WiredFirst, LastWire, ComesFromWork, AtWork
<1> QED
  BY <1>1, <1>2 DEF FullInv

(* A node whose hook keeps it waiting before READY is not READY, or        *)
(* anywhere beyond, before it is wired to all the nodes it requires, and   *)
(* can order all of them but the one that the hub is just handing to it.   *)
THEOREM ReadyIsWiredHolds == Spec => []ReadyIsWired
<1>1. FullInv => ReadyIsWired
  <2> SUFFICES ASSUME FullInv, NEW n \in Nodes, Hook[n]["READY"] = {FALSE},
                      node[n].sm \in {"READY", "STABLE", "REPAIR"}
               PROVE  /\ stateMap[n] = RequiredBy(n)
                      /\ RequiredBy(n) \ sysMap[n] \subseteq BeingWired(n)
    BY DEF ReadyIsWired
  <2>1. stateMap[n] = RequiredBy(n)
    BY DEF FullInv, WiredFirst, Full, ComesFromWork, AtWork
  <2> QED
    BY <2>1 DEF FullInv, LastWire
<1>2. Spec => []FullInv
  BY InitFullInv, NextFullInv, PTL DEF Spec
<1> QED
  BY <1>1, <1>2, PTL
-----------------------------------------------------------------------------
(* While no stack is filled up, the request to wire a node, and then the   *)
(* one for its list and the commands to start what is on it, are always on *)
(* the way somewhere, until they are carried out.                          *)
Has(q, e) == \E i \in DOMAIN q : q[i] = e
PickCmd(n) == [type |-> "PICK_SHARED_PTR", source |-> n, target |-> n]
StartCmd(n, k) == [type |-> "START_NODE", source |-> n, target |-> k]

(* n has made itself known to the hub: it has, since its hook for          *)
(* INITIALIZING was called, and also where its watch dog has put it back   *)
(* and its scan may yet take it on to INITIALIZING.                        *)
Here(n) == \/ Known(n) \/ pc[n] \in {"back", "scan"}
           \/ pc[n] = "hook" /\ node[n].cmd = "INITIALIZING"

Asked(n) ==
  \/ Has(hubq, PickCmd(n)) \/ Wiring(n)
  \/ Has(sysq[n], "REQUIRE_NODE_LIST")
  \/ \A k \in RequiredBy(n) : k \in claimed \/ Has(hubq, StartCmd(n, k))

Asking == \A n \in Nodes : Here(n) => Asked(n)

(* A required node is started, and wired, for the node that requires it.   *)
Waiters ==
  \A t \in Thread, n \in Nodes : \A k \in RequiredBy(n) :
    k \in job[t].for => job[t].waiter = {n}

Executing(k) ==
  \E t \in Thread : job[t].at \in {"named", "found"} /\ k \in job[t].for

Expected(n, k) ==
  waiting[k] = {n} /\ (Here(k) => Has(hubq, PickCmd(k)) \/ Wiring(k))

Handed(n, k) ==
  Executing(k) \/ Expected(n, k) \/ (k \in stateMap[n] /\ k \in sysMap[n])

Handing ==
  \A n \in Nodes : \A k \in RequiredBy(n) : k \in claimed => Handed(n, k)

NeedsInv == WiringInv /\ Asking /\ Waiters /\ Handing

(* Nobody requires a node that another one requires: the hub wires a node  *)
(* to the first that asks for it, and to no other.                         *)
OneUser ==
  \A m, n \in Nodes : RequiredBy(m) \intersect RequiredBy(n) # {} => m = n
-----------------------------------------------------------------------------
LEMMA HasAppend ==
  ASSUME NEW S, NEW q \in Seq(S), NEW r \in Seq(S), NEW e, Has(q, e) \/ Has(r, e)
  PROVE  Has(q \o r, e)
<1>1. /\ Len(q) \in Nat /\ Len(r) \in Nat /\ DOMAIN q = 1 .. Len(q)
      /\ DOMAIN r = 1 .. Len(r) /\ DOMAIN (q \o r) = 1 .. Len(q) + Len(r)
  BY ConcatProperties
<1>2. CASE Has(q, e)
  <2>1. PICK i \in 1 .. Len(q) : q[i] = e
    BY <1>1, <1>2 DEF Has
  <2>2. i \in 1 .. Len(q) + Len(r) /\ (q \o r)[i] = e
    BY <1>1, <2>1
  <2> QED
    BY <1>1, <2>2 DEF Has
<1>3. CASE Has(r, e)
  <2>1. PICK i \in 1 .. Len(r) : r[i] = e
    BY <1>1, <1>3 DEF Has
  <2>2. Len(q) + i \in 1 .. Len(q) + Len(r) /\ (q \o r)[Len(q) + i] = e
    BY <1>1, <2>1
  <2> QED
    BY <1>1, <2>2 DEF Has
<1> QED
  BY <1>2, <1>3

LEMMA HasTail ==
  ASSUME NEW S, NEW q \in Seq(S), q # << >>, NEW e, Has(q, e)
  PROVE  e = Head(q) \/ Has(Tail(q), e)
<1>1. PICK i \in 1 .. Len(q) : q[i] = e
  BY DEF Has
<1>2. CASE i = 1
  BY <1>1, <1>2
<1>3. CASE i # 1
  <2>1. /\ i - 1 \in 1 .. Len(q) - 1 /\ Tail(q) \in Seq(S)
        /\ Len(Tail(q)) = Len(q) - 1
    BY <1>3
  <2>2. i - 1 \in DOMAIN Tail(q) /\ Tail(q)[i - 1] = e
    BY <1>1, <2>1
  <2> QED
    BY <2>2 DEF Has
<1> QED
  BY <1>2, <1>3

(* With room, a stack takes what is pushed, and loses nothing.             *)
LEMMA OfferWhole ==
  ASSUME NEW q \in Seq(SysCmd), NEW c \in SysCmd, Len(q) < SysCap, NEW e
  PROVE  /\ Has(Stack!Offer(q, SysCap, c), c)
         /\ Has(q, e) => Has(Stack!Offer(q, SysCap, c), e)
<1>1. Stack!Offer(q, SysCap, c) = q \o <<c>>
  BY DEF Stack!Offer
<1>2. <<c>> \in Seq(SysCmd) /\ Has(<<c>>, c)
  BY DEF Has
<1> QED
  BY <1>1, <1>2, HasAppend

LEMMA PostWhole ==
  ASSUME NEW S, hubq \in Seq(S), NEW cmds \in Seq(S), Post(cmds),
         Len(hubq) < HubCap, Len(hubq') < HubCap
  PROVE  \A e : Has(hubq, e) \/ Has(cmds, e) => Has(hubq', e)
<1> DEFINE room == HubCap - Len(hubq)
<1>1. Len(cmds) \in Nat /\ Len(hubq) \in Nat /\ room \in Nat /\ room > 0
  BY CapAssumption
<1>2. Len(cmds) < room
  <2> SUFFICES ASSUME ~(Len(cmds) < room) PROVE FALSE
    OBVIOUS
  <2>1. hubq' = hubq \o SubSeq(cmds, 1, room)
    BY DEF Post, Stack!OfferAll
  <2> HIDE DEF room
  <2>2. SubSeq(cmds, 1, room) \in Seq(S) /\ Len(SubSeq(cmds, 1, room)) = room
    <3>1. \A i \in 1 .. room : cmds[i] \in S
      BY <1>1
    <3> QED
      BY <1>1, <3>1, SubSeqProperties
  <2>3. Len(hubq') = Len(hubq) + room
    BY <2>1, <2>2, ConcatProperties
  <2> QED
    BY <1>1, <2>3, CapAssumption DEF room
<1>3. hubq' = hubq \o SubSeq(cmds, 1, Len(cmds))
  BY <1>2 DEF Post, Stack!OfferAll
<1>4. SubSeq(cmds, 1, Len(cmds)) = cmds
  BY <1>1
<1> QED
  BY <1>3, <1>4, HasAppend
-----------------------------------------------------------------------------
(* A node that pops the request for its list answers it at once.           *)
LEMMA ProcessingAsks ==
  ASSUME NEW n \in Nodes, NEW m, NEW queues \in [Nodes -> Seq(SysCmd)],
         hubq \in Seq(HubCmd), Processing(n, m, queues),
         Len(hubq) < HubCap, Len(hubq') < HubCap
  PROVE  /\ \A e : Has(hubq, e) => Has(hubq', e)
         /\ \A k \in Nodes \ {n} : sysq'[k] = queues[k]
         /\ Has(queues[n], "REQUIRE_NODE_LIST") =>
              \/ Has(sysq'[n], "REQUIRE_NODE_LIST")
              \/ \A k \in RequiredBy(n) : Has(hubq', StartCmd(n, k))
<1>1. CASE queues[n] = << >>
  BY <1>1 DEF Processing
<1>2. CASE queues[n] # << >>
  <2> DEFINE c == Head(queues[n])
  <2>1. /\ sysq' = [queues EXCEPT ![n] = Tail(queues[n])]
        /\ Post(Sends(n, c))
    BY <1>2 DEF Processing
  <2>2. queues[n] \in Seq(SysCmd) /\ c \in SysCmd
    BY <1>2
  <2>3. c = Head(queues[n])
    OBVIOUS
  <2> HIDE DEF c
  <2>4. Sends(n, c) \in Seq(HubCmd)
    BY <2>2, SendsOK
  <2>5. \A e : Has(hubq, e) \/ Has(Sends(n, c), e) => Has(hubq', e)
    BY <2>1, <2>4, PostWhole
  <2>6. ASSUME c = "REQUIRE_NODE_LIST", NEW k \in RequiredBy(n)
        PROVE  Has(Sends(n, c), StartCmd(n, k))
    <3>1. PICK i \in 1 .. Len(Req[n]) : k = Req[n][i]
      BY DEF RequiredBy
    <3>2. Sends(n, c) = [j \in 1 .. Len(Req[n]) |->
            [type |-> "START_NODE", source |-> n, target |-> Req[n][j]]]
      BY <2>6 DEF Sends
    <3> QED
      BY <3>1, <3>2 DEF Has, StartCmd
  <2>7. Has(queues[n], "REQUIRE_NODE_LIST") =>
          c = "REQUIRE_NODE_LIST" \/ Has(Tail(queues[n]), "REQUIRE_NODE_LIST")
    BY <1>2, <2>2, <2>3, HasTail
  <2> QED
    BY <2>1, <2>5, <2>6, <2>7
<1> QED
  BY <1>1, <1>2

LEMMA BroadcastAsks ==
  ASSUME NEW n \in Nodes, sysq \in [Nodes -> Seq(SysCmd)], NEW c \in SysCmd,
         \A k \in Nodes : Len(sysq[k]) < SysCap, NEW k \in Nodes, NEW e,
         Has(sysq[k], e)
  PROVE  Has(Broadcast(n, c)[k], e)
<1>1. /\ sysq[k] \in Seq(SysCmd) /\ Len(sysq[k]) < SysCap
      /\ Broadcast(n, c)[k] = IF k \in sysMap[n] THEN Stack!Offer(sysq[k], SysCap, c)
                              ELSE sysq[k]
  BY DEF Broadcast
<1> QED
  BY <1>1, OfferWhole

(* A node becomes known when its hook for INITIALIZING has returned.       *)
LEMMA ChangeAsks ==
  ASSUME NEW n \in Nodes, NodeTypes, NodeOK(n), ChangeState(n), Known(n)', ~Known(n)
  PROVE  pc[n] = "hook" /\ node[n].cmd = "INITIALIZING"
<1> DEFINE g == IF pc[n] = "hook" THEN node[n] ELSE Generated(n)
<1>1. /\ g \in NodeRecord /\ g.sm = node[n].sm /\ PendingOK(g)
      /\ g.change /\ g.sm # "TRANSITING"
  BY GenerateOK DEF NodeTypes, NodeOK, HookOK, Generated, ChangeState, AtTop
<1>2. g.cmd = "FORCE_STOP" \/ <<g.sm, g.cmd>> \in Arrow
  BY <1>1 DEF PendingOK
<1>3. PICK ok \in Hook[n][g.cmd] : node' = [node EXCEPT ![n] = change_node_state(g, ok)]
  BY DEF ChangeState
<1>4. ok \in BOOLEAN
  BY <1>1, HookAssumption DEF NodeRecord
<1> DEFINE r == change_node_state(g, ok)
<1>5. \/ r.sm = g.cmd
      \/ r.sm = "TRANSITING" /\ r.dest = g.cmd
  BY <1>1, <1>2, <1>4, ChangeOK
<1>6. node'[n] = r
  BY <1>3 DEF NodeTypes
<1> HIDE DEF r
<1>7. g.sm \in {"UNCONFIGURED", "FORCE_STOP"}
  BY <1>1 DEF Known
<1>8. g.cmd # "FORCE_STOP"
  BY <1>5, <1>6 DEF Known
<1>9. g.sm = "UNCONFIGURED" /\ g.cmd = "INITIALIZING"
  BY <1>2, <1>7, <1>8 DEF Arrow, Machine!Arrow
<1>10. Hooked(g)
  BY <1>9 DEF CallsHook, Hooked
<1>11. pc[n] = "hook" \/ ~Hooked(g)
  BY DEF ChangeState
<1> QED
  BY <1>9, <1>10, <1>11

(* And it is the call of that hook that posts the request.                 *)
LEMMA OrdersAsk ==
  ASSUME NEW n \in Nodes, NodeTypes, GiveOrders(n), ~Here(n), Here(n)',
         Len(hubq) < HubCap, Len(hubq') < HubCap
  PROVE  Has(hubq', PickCmd(n))
<1> DEFINE g == Generated(n)
<1>1. /\ g.sm = node[n].sm /\ g.dest = node[n].dest
      /\ node' = [node EXCEPT ![n] = g] /\ pc' = [pc EXCEPT ![n] = "hook"]
  BY GenerateOK DEF NodeTypes, Generated, GiveOrders
<1>2. Post(IF g.cmd = "INITIALIZING" THEN ToHub("PICK_SHARED_PTR", n) ELSE << >>)
  BY DEF GiveOrders
<1> HIDE DEF g
<1>3. node'[n] = g /\ pc'[n] = "hook"
  BY <1>1 DEF NodeTypes
<1>4. g.cmd = "INITIALIZING"
  BY <1>1, <1>3 DEF Here, Known
<1>5. Post(ToHub("PICK_SHARED_PTR", n))
  BY <1>2, <1>4
<1>6. ToHub("PICK_SHARED_PTR", n) \in Seq(HubCmd)
  BY ToHubOK
<1>7. Has(ToHub("PICK_SHARED_PTR", n), PickCmd(n))
  BY DEF Has, ToHub, PickCmd
<1> QED
  BY <1>5, <1>6, <1>7, PostWhole DEF NodeTypes

(* Any other step of a node is one of a node that is here already.         *)
LEMMA NodeComesHere ==
  ASSUME NEW n \in Nodes, NodeTypes, NodeOK(n), ~Here(n), Here(n)',
         Cycle(n) \/ Exit(n) \/ Elapse(n) \/ Receive(n, "END"),
         Len(hubq) < HubCap, Len(hubq') < HubCap
  PROVE  Has(hubq', PickCmd(n))
<1>1. CASE ChangeState(n)
  <2>1. pc'[n] = "top"
    BY <1>1 DEF ChangeState, NodeTypes
  <2> QED
    BY <1>1, <2>1, ChangeAsks DEF Here
<1>2. CASE LoopProcess(n)
  <2> DEFINE g == Generated(n)
  <2>1. g \in NodeRecord /\ g.sm = node[n].sm /\ g.sm # "TRANSITING"
    BY <1>2, GenerateOK DEF NodeTypes, Generated, LoopProcess
  <2>2. UNCHANGED pc /\ pc[n] = "top"
    BY <1>2 DEF LoopProcess, AtTop
  <2>3. node'[n].sm = g.sm
    <3>1. CASE g.sm = "UNCONFIGURED"
      <4>1. node' = [node EXCEPT ![n] = ThenChangeTo("INITIALIZING", g)]
        BY <1>2, <3>1 DEF LoopProcess
      <4> QED
        BY <2>1, <4>1 DEF NodeTypes, ThenChangeTo, NodeRecord
    <3>2. CASE g.sm # "UNCONFIGURED"
      <4> DEFINE m == IF g.sm = "INITIALIZING" THEN ThenChangeTo("READY", g) ELSE g
      <4>1. Processing(n, m, sysq)
        BY <1>2, <3>2 DEF LoopProcess
      <4>2. m \in NodeRecord /\ m.sm = g.sm
        <5>1. \A r \in NodeRecord :
                ThenChangeTo("READY", r) \in NodeRecord /\ ThenChangeTo("READY", r).sm = r.sm
          BY DEF ThenChangeTo, NodeRecord, State
        <5> QED
          BY <2>1, <5>1
      <4> HIDE DEF m
      <4>3. PICK e : Executed(m, e) /\ node' = [node EXCEPT ![n] = e]
        BY <4>1, <4>2, ProcessingOK DEF NodeTypes
      <4> QED
        BY <4>2, <4>3 DEF Executed, NodeTypes
    <3> QED
      BY <3>1, <3>2
  <2> QED
    BY <2>1, <2>2, <2>3 DEF Here, Known
<1>3. CASE RollBack(n) \/ Transit(n)
  <2>1. node[n].sm = "TRANSITING" /\ node[n].running
    BY <1>3, GenerateOK DEF RollBack, Transit, AtTop, Generated, NodeTypes, Here
  <2>2. node[n].dest # "FORCE_STOP"
    BY <2>1, ArrowFacts DEF NodeOK, TransitOK
  <2> QED
    BY <2>1, <2>2 DEF Here, Known
<1>4. CASE ReadState(n) \/ Commit(n)
  BY <1>4 DEF ReadState, Commit, Here
<1>5. CASE Exit(n)
  <2>1. /\ node' = [node EXCEPT ![n].sm = "UNCONFIGURED"]
        /\ pc' = [pc EXCEPT ![n] = "off"]
    BY <1>5 DEF Exit
  <2>2. node'[n].sm = "UNCONFIGURED" /\ pc'[n] = "off"
    BY <2>1 DEF NodeTypes, NodeRecord
  <2> QED
    BY <2>2 DEF Here, Known
<1>6. CASE Elapse(n)
  <2>1. node' = [node EXCEPT ![n].expired = TRUE] /\ UNCHANGED pc
    BY <1>6 DEF Elapse
  <2>2. /\ node'[n].sm = node[n].sm /\ node'[n].dest = node[n].dest
        /\ node'[n].cmd = node[n].cmd
    BY <2>1 DEF NodeTypes, NodeRecord
  <2> QED
    BY <2>1, <2>2 DEF Here, Known
<1>7. CASE Receive(n, "END")
  BY <1>7 DEF Receive, Here, Known
<1>8. CASE GiveOrders(n)
  BY <1>8, OrdersAsk
<1> QED
  BY <1>1, <1>2, <1>3, <1>4, <1>5, <1>6, <1>7, <1>8 DEF Cycle

(* No step of a node loses a request, and the one for the list is lost     *)
(* only to its answer.                                                     *)
LEMMA NodeKeepsAsked ==
  ASSUME NEW n \in Nodes, NodeTypes,
         Cycle(n) \/ Exit(n) \/ Elapse(n) \/ Receive(n, "END"),
         \A k \in Nodes : Len(sysq[k]) < SysCap,
         Len(hubq) < HubCap, Len(hubq') < HubCap
  PROVE  /\ \A e : Has(hubq, e) => Has(hubq', e)
         /\ \A m \in Nodes : Has(sysq[m], "REQUIRE_NODE_LIST") =>
              \/ Has(sysq'[m], "REQUIRE_NODE_LIST")
              \/ \A k \in RequiredBy(m) : Has(hubq', StartCmd(m, k))
<1>1. CASE GiveOrders(n) \/ ChangeState(n)
  <2>1. \E cmds \in Seq(HubCmd) : Post(cmds)
    <3>1. /\ ToHub("PICK_SHARED_PTR", n) \in Seq(HubCmd)
          /\ ToHub("DELETE_SHARED_PTR", n) \in Seq(HubCmd) /\ << >> \in Seq(HubCmd)
      BY ToHubOK
    <3>2. \/ Post(ToHub("PICK_SHARED_PTR", n)) \/ Post(ToHub("DELETE_SHARED_PTR", n))
          \/ Post(<< >>)
      BY <1>1 DEF GiveOrders, ChangeState
    <3> QED
      BY <3>1, <3>2
  <2>2. \A e : Has(hubq, e) => Has(hubq', e)
    BY <2>1, PostWhole DEF NodeTypes
  <2>3. sysq' = sysq \/ \E c \in SysCmd : sysq' = Broadcast(n, c)
    BY <1>1, OrderOK DEF GiveOrders, ChangeState
  <2> QED
    BY <2>2, <2>3, BroadcastAsks DEF NodeTypes
<1>2. CASE LoopProcess(n)
  <2>1. \/ UNCHANGED <<sysq, hubq>>
        \/ \E m : Processing(n, m, sysq)
    BY <1>2 DEF LoopProcess
  <2>2. CASE UNCHANGED <<sysq, hubq>>
    BY <2>2
  <2>3. CASE \E m : Processing(n, m, sysq)
    BY <2>3, ProcessingAsks DEF NodeTypes
  <2> QED
    BY <2>1, <2>2, <2>3
<1>3. CASE Transit(n)
  <2>1. \/ UNCHANGED <<sysq, hubq>>
        \/ \E m : Processing(n, m, sysq)
    BY <1>3 DEF Transit
  <2>2. CASE UNCHANGED <<sysq, hubq>>
    BY <2>2
  <2>3. CASE \E m : Processing(n, m, sysq)
    BY <2>3, ProcessingAsks DEF NodeTypes
  <2> QED
    BY <2>1, <2>2, <2>3
<1>4. CASE ReadState(n) \/ Commit(n) \/ Exit(n) \/ Elapse(n)
  BY <1>4 DEF ReadState, Commit, Exit, Elapse
<1>5. CASE Receive(n, "END")
  <2>1. /\ sysq' = [sysq EXCEPT ![n] = Stack!Offer(sysq[n], SysCap, "END")]
        /\ UNCHANGED hubq
    BY <1>5 DEF Receive
  <2>2. "END" \in SysCmd /\ sysq[n] \in Seq(SysCmd)
    BY DEF NodeTypes, SysCmd
  <2> QED
    BY <2>1, <2>2, OfferWhole DEF NodeTypes
<1>6. CASE RollBack(n)
  <2>1. UNCHANGED hubq /\ \E c \in SysCmd : sysq' = Broadcast(n, c)
    BY <1>6, OrderOK DEF RollBack
  <2> QED
    BY <2>1, BroadcastAsks DEF NodeTypes
<1> QED
  BY <1>1, <1>2, <1>3, <1>4, <1>5, <1>6 DEF Cycle

LEMMA NodesKeepNeeds ==
  ASSUME NeedsInv, NEW n \in Nodes, NodeStep(n) \/ WatchDog(n) \/ ToldToEnd(n),
         WithRoom, WithRoom'
  PROVE  Asking' /\ Waiters' /\ Handing'
<1>1. /\ UNCHANGED <<hubVars, stateMap, sysMap>>
      /\ Cycle(n) \/ Exit(n) \/ Elapse(n) \/ (pc[n] # "off" /\ Receive(n, "END"))
  BY DEF NodeStep, WatchDog, ToldToEnd, Cycle, GiveOrders, ChangeState, LoopProcess,
     RollBack, Transit, ReadState, Commit, Exit, Elapse, Receive, Maps
<1>2. NodeTypes /\ NodeOK(n) /\ StartInv
  BY DEF NeedsInv, WiringInv, StartInv, TypeOK, NodeTypes
<1>3. StepOK(n)
  BY <1>1, <1>2, NodeStepOK
<1>4. \A k \in Nodes \ {n} : node'[k] = node[k] /\ pc'[k] = pc[k]
  BY <1>2, <1>3 DEF StepOK, NodeTypes
<1>5. /\ \A k \in Nodes : Len(sysq[k]) < SysCap
      /\ Len(hubq) < HubCap /\ Len(hubq') < HubCap
  BY DEF WithRoom
<1>6. /\ \A e : Has(hubq, e) => Has(hubq', e)
      /\ \A m \in Nodes : Has(sysq[m], "REQUIRE_NODE_LIST") =>
           \/ Has(sysq'[m], "REQUIRE_NODE_LIST")
           \/ \A k \in RequiredBy(m) : Has(hubq', StartCmd(m, k))
  BY <1>1, <1>2, <1>5, NodeKeepsAsked
<1>7. \A m \in Nodes : Here(m)' => Here(m) \/ Has(hubq', PickCmd(m))
  BY <1>1, <1>2, <1>4, <1>5, NodeComesHere DEF Here, Known
<1>8. \A m \in Nodes : Asked(m) => Asked(m)'
  BY <1>1, <1>6 DEF Asked, Wiring, hubVars, RequiredBy
<1>9. Asking'
  BY <1>7, <1>8 DEF NeedsInv, Asking, Asked
<1>10. Waiters'
  BY <1>1 DEF NeedsInv, Waiters, hubVars, RequiredBy
<1>11. Handing'
  <2> SUFFICES ASSUME NEW m \in Nodes, NEW k \in RequiredBy(m), k \in claimed'
               PROVE  Handed(m, k)'
    BY DEF Handing, RequiredBy
  <2>1. Handed(m, k)
    BY <1>1 DEF NeedsInv, Handing, hubVars
  <2>2. Expected(m, k) => Expected(m, k)'
    <3>1. k \in Nodes
      BY <1>1, <1>2 DEF hubVars, StartInv, TypeOK
    <3> QED
      BY <1>1, <1>6, <1>7, <3>1 DEF Expected, Wiring, hubVars
  <2> QED
    BY <1>1, <2>1, <2>2 DEF Handed, Executing, hubVars
<1> QED
  BY <1>9, <1>10, <1>11

(* The hub and main. A thread begins with exec_node: what it claims is     *)
(* what the command that is carried out asked for.                         *)
LEMMA ClaimKeepsNeeds ==
  ASSUME NeedsInv, NEW t \in Thread, NEW n \in Nodes, NEW w \in SUBSET Nodes,
         Busy(t, "idle"), ClaimName(t, n, w),
         UNCHANGED <<node, pc, sysq, stateMap, sysMap, waiting>>,
         \A m \in Nodes : n \in RequiredBy(m) => w = {m},
         \A m \in Nodes : Has(hubq, PickCmd(m)) => Has(hubq', PickCmd(m)),
         \A m \in Nodes, k \in Nodes :
           Has(hubq, StartCmd(m, k)) => k = n \/ Has(hubq', StartCmd(m, k))
  PROVE  Asking' /\ Waiters' /\ Handing'
<1>1. /\ claimed' = claimed \union {n}
      /\ \/ n \in claimed /\ job' = job
         \/ n \notin claimed /\ job' = [job EXCEPT ![t] = Job("named", n, w)]
  BY DEF ClaimName, Becomes
<1>2. /\ \A u \in Thread \ {t} : job'[u] = job[u]
      /\ n \in claimed => job'[t] = job[t]
      /\ n \notin claimed => job'[t] = Job("named", n, w)
  BY <1>1 DEF NeedsInv, WiringInv, StartInv, TypeOK
<1>3. \A k \in Nodes : Here(k)' <=> Here(k)
  BY DEF Here, Known
<1>4. \A k \in Nodes : /\ Wiring(k) => Wiring(k)'
                       /\ Executing(k) => Executing(k)'
  BY <1>2 DEF Wiring, Executing, Busy, Thread
<1>5. Asking'
  <2> SUFFICES ASSUME NEW m \in Nodes, Here(m) PROVE Asked(m)'
    BY <1>3 DEF Asking
  <2>1. Asked(m)
    BY DEF NeedsInv, Asking
  <2>2. RequiredBy(m) \subseteq Nodes
    BY ReqAssumption DEF RequiredBy
  <2>3. \A k \in RequiredBy(m) : k \in claimed \/ Has(hubq, StartCmd(m, k)) =>
          k \in claimed' \/ Has(hubq', StartCmd(m, k))
    BY <1>1, <2>2
  <2> QED
    BY <1>4, <2>1, <2>3 DEF Asked, RequiredBy
<1>6. Waiters'
  <2> SUFFICES ASSUME NEW u \in Thread, NEW m \in Nodes, NEW k \in RequiredBy(m),
                      k \in job'[u].for
               PROVE  job'[u].waiter = {m}
    BY DEF Waiters, RequiredBy
  <2>1. CASE u = t /\ n \notin claimed
    BY <1>2, <2>1 DEF Job
  <2>2. CASE ~(u = t /\ n \notin claimed)
    BY <1>2, <2>2 DEF NeedsInv, Waiters
  <2> QED
    BY <2>1, <2>2
<1>7. Handing'
  <2> SUFFICES ASSUME NEW m \in Nodes, NEW k \in RequiredBy(m), k \in claimed'
               PROVE  Handed(m, k)'
    BY DEF Handing, RequiredBy
  <2>1. k \in Nodes
    BY ReqAssumption DEF RequiredBy
  <2>2. CASE k \in claimed
    <3>1. Handed(m, k)
      BY <2>2 DEF NeedsInv, Handing
    <3>2. Expected(m, k) => Expected(m, k)'
      BY <1>3, <1>4, <2>1 DEF Expected
    <3> QED
      BY <1>4, <2>1, <3>1, <3>2 DEF Handed
  <2>3. CASE k \notin claimed
    <3>1. k = n /\ job'[t] = Job("named", n, w)
      BY <1>1, <1>2, <2>3
    <3> QED
      BY <3>1 DEF Handed, Executing, Job
  <2> QED
    BY <2>2, <2>3
<1> QED
  BY <1>5, <1>6, <1>7

(* Then it goes on with it, and starts a node that nobody knows yet.       *)
LEMMA GoesOnKeepsNeeds ==
  ASSUME NeedsInv, NEW t \in Thread, FindId(t) \/ Register(t)
  PROVE  Asking' /\ Waiters' /\ Handing'
<1>1. /\ job[t].at \in {"named", "found"}
      /\ UNCHANGED <<node, pc, sysq, stateMap, sysMap, hubq, claimed>>
  BY DEF FindId, Register, Busy, nodeVars
<1>2. PICK n \in Nodes : job[t].for = {n}
  BY <1>1 DEF NeedsInv, WiringInv, StartInv, JobsOK, Busy
<1>3. /\ \A u \in Thread \ {t} : job'[u] = job[u]
      /\ job'[t].for = job[t].for /\ job'[t].waiter = job[t].waiter
      /\ FindId(t) => job'[t].at \in {"named", "found"}
      /\ job'[t].at \in {"named", "found", "listed"}
  <2>1. job[t] \in [at : {"idle", "named", "found", "listed", "wire", "wired"},
                    for : SUBSET Nodes, waiter : SUBSET Nodes]
    BY DEF NeedsInv, WiringInv, StartInv, TypeOK
  <2>2. CASE UNCHANGED job
    BY <1>1, <2>2 DEF FindId, Register, Busy
  <2>3. ASSUME NEW a \in {"found", "listed"}, job' = [job EXCEPT ![t].at = a]
        PROVE  /\ \A u \in Thread \ {t} : job'[u] = job[u]
               /\ job'[t].for = job[t].for /\ job'[t].waiter = job[t].waiter
               /\ job'[t].at = a
    <3>1. /\ job'[t] = [job[t] EXCEPT !.at = a]
          /\ \A u \in Thread \ {t} : job'[u] = job[u]
      BY <2>3 DEF NeedsInv, WiringInv, StartInv, TypeOK
    <3> QED
      BY <2>1, <3>1
  <2>4. /\ FindId(t) => UNCHANGED job \/ job' = [job EXCEPT ![t].at = "found"]
        /\ Register(t) => job' = [job EXCEPT ![t].at = "listed"]
    BY DEF FindId, Register
  <2>5. CASE FindId(t)
    BY <2>2, <2>3, <2>4, <2>5
  <2>6. CASE Register(t) /\ ~FindId(t)
    BY <2>3, <2>4, <2>6
  <2> QED
    BY <2>5, <2>6
<1>4. \/ UNCHANGED waiting /\ FindId(t)
      \/ waiting' = [waiting EXCEPT ![n] = job[t].waiter]
  BY <1>2 DEF FindId, Register
<1>5. \A k \in Nodes : (Here(k)' <=> Here(k)) /\ (Wiring(k)' <=> Wiring(k))
  BY <1>1, <1>3 DEF Here, Known, Wiring, Thread
<1>6. ~Here(n)
  <2>1. Fresh(n)
    BY <1>1, <1>2 DEF Fresh, Starts
  <2> QED
    BY <2>1 DEF NeedsInv, WiringInv, StartInv, Untouched, NewNode, Here, Known
<1>7. Asking'
  BY <1>1, <1>5 DEF NeedsInv, Asking, Asked, RequiredBy
<1>8. Waiters'
  BY <1>3 DEF NeedsInv, Waiters, RequiredBy
<1>9. Handing'
  <2> SUFFICES ASSUME NEW m \in Nodes, NEW k \in RequiredBy(m), k \in claimed'
               PROVE  Handed(m, k)'
    BY DEF Handing, RequiredBy
  <2>1. k \in Nodes
    BY ReqAssumption DEF RequiredBy
  <2>2. Handed(m, k)
    BY <1>1 DEF NeedsInv, Handing
  <2>3. CASE k = n /\ ~FindId(t)
    <3>1. job[t].waiter = {m}
      BY <1>2, <2>3 DEF NeedsInv, Waiters
    <3>2. waiting'[k] = {m}
      BY <1>4, <2>3, <3>1 DEF NeedsInv, WiringInv, StartInv, TypeOK
    <3> QED
      BY <1>5, <1>6, <2>3, <3>2 DEF Handed, Expected
  <2>4. CASE ~(k = n /\ ~FindId(t))
    <3>1. waiting'[k] = waiting[k] \/ k = n
      BY <1>4, <2>1 DEF NeedsInv, WiringInv, StartInv, TypeOK
    <3>2. Executing(k) => Executing(k)'
      BY <1>2, <1>3, <2>4 DEF Executing
    <3>3. Expected(m, k) => Expected(m, k)' \/ k = n
      BY <1>1, <1>5, <2>1, <3>1 DEF Expected
    <3>4. k = n => Executing(k)'
      BY <1>2, <1>3, <2>4 DEF Executing
    <3> QED
      BY <1>1, <2>2, <3>2, <3>3, <3>4 DEF Handed
  <2> QED
    BY <2>3, <2>4
<1> QED
  BY <1>7, <1>8, <1>9

LEMMA StartKeepsNeeds ==
  ASSUME NeedsInv, NEW t \in Thread, Start(t)
  PROVE  Asking' /\ Waiters' /\ Handing'
<1>1. /\ job[t].at = "listed" /\ job' = [job EXCEPT ![t] = Idle]
      /\ UNCHANGED <<sysq, stateMap, sysMap, hubq, claimed, waiting>>
  BY DEF Start, Busy, Becomes, Maps
<1>2. PICK n \in Nodes : job[t].for = {n}
  BY <1>1 DEF NeedsInv, WiringInv, StartInv, JobsOK, Busy
<1>3. Untouched(n)
  BY <1>1, <1>2 DEF NeedsInv, WiringInv, StartInv, Fresh, Starts
<1> DEFINE r == [node[n] EXCEPT !.running = TRUE, !.flags = {},
                               !.change = FALSE, !.dest = "READY"]
<1>4. /\ node' = [node EXCEPT ![n] = r] /\ r.sm = "UNCONFIGURED"
      /\ pc' = [pc EXCEPT ![n] = "top"]
  <2>1. IF node[n].running THEN UNCHANGED <<node, pc>>
        ELSE node' = [node EXCEPT ![n] = r] /\ pc' = [pc EXCEPT ![n] = "top"]
    BY <1>2 DEF Start
  <2>2. node[n] = NewNode
    BY <1>3 DEF Untouched
  <2>3. ~node[n].running /\ r.sm = "UNCONFIGURED"
    BY <2>2 DEF NewNode
  <2> QED
    BY <2>1, <2>3
<1> HIDE DEF r
<1>5. \A k \in Nodes : Here(k)' => Here(k)
  <2>1. node'[n].sm = "UNCONFIGURED" /\ pc'[n] = "top"
    BY <1>4 DEF NeedsInv, WiringInv, StartInv, TypeOK
  <2>2. \A k \in Nodes \ {n} : node'[k] = node[k] /\ pc'[k] = pc[k]
    BY <1>4 DEF NeedsInv, WiringInv, StartInv, TypeOK
  <2> QED
    BY <2>1, <2>2 DEF Here, Known
<1>6. job'[t] = Idle /\ \A u \in Thread \ {t} : job'[u] = job[u]
  BY <1>1 DEF NeedsInv, WiringInv, StartInv, TypeOK
<1>7. \A k \in Nodes : /\ Wiring(k) => Wiring(k)'
                       /\ Executing(k) => Executing(k)'
  BY <1>1, <1>6 DEF Wiring, Executing, Thread
<1>8. Asking'
  BY <1>1, <1>5, <1>7 DEF NeedsInv, Asking, Asked, RequiredBy
<1>9. Waiters'
  BY <1>6 DEF NeedsInv, Waiters, RequiredBy, Idle
<1>10. Handing'
  <2> SUFFICES ASSUME NEW m \in Nodes, NEW k \in RequiredBy(m), k \in claimed'
               PROVE  Handed(m, k)'
    BY DEF Handing, RequiredBy
  <2>1. k \in Nodes /\ Handed(m, k)
    BY <1>1, ReqAssumption DEF RequiredBy, NeedsInv, Handing
  <2> QED
    BY <1>1, <1>5, <1>7, <2>1 DEF Handed, Expected
<1> QED
  BY <1>8, <1>9, <1>10

(* The hub pops a command, and does what it asks for or begins it.         *)
LEMMA PopKeepsNeeds ==
  ASSUME OneUser, NeedsInv, HubPops, WithRoom
  PROVE  Asking' /\ Waiters' /\ Handing'
<1> DEFINE c == Head(hubq)
<1>1. /\ Busy("hub", "idle") /\ hubq # << >> /\ hubq' = Tail(hubq)
      /\ HubExecutes(c) \/ Pick(c) \/ Delete(c)
      /\ UNCHANGED <<node, pc, stateMap, sysMap>>
  BY DEF HubPops, Maps
<1>2. c \in Cmds /\ hubq \in Seq(HubCmd)
  BY <1>1 DEF NeedsInv, WiringInv, StartInv, TypeOK
<1>3. /\ c \in HubCmd
      /\ c.type = "START_NODE" => c.target \in RequiredBy(c.source)
  BY <1>2 DEF Cmds, OwnCmds
<1>4. c.source \in Nodes /\ c.target \in Nodes
  BY <1>3 DEF HubCmd
<1>5. \A e : Has(hubq, e) => e = c \/ Has(hubq', e)
  BY <1>1, <1>2, HasTail
<1> HIDE DEF c
<1>6. CASE HubExecutes(c)
  <2>1. /\ c.type = "START_NODE" /\ UNCHANGED <<sysq, waiting>>
        /\ ClaimName("hub", c.target, {c.source})
    BY <1>6 DEF HubExecutes
  <2>2. \A m \in Nodes : c.target \in RequiredBy(m) => {c.source} = {m}
    BY <1>3, <1>4, <2>1 DEF OneUser
  <2>3. /\ \A m \in Nodes : Has(hubq, PickCmd(m)) => Has(hubq', PickCmd(m))
        /\ \A m \in Nodes, k \in Nodes :
             Has(hubq, StartCmd(m, k)) => k = c.target \/ Has(hubq', StartCmd(m, k))
    BY <1>5, <2>1 DEF PickCmd, StartCmd
  <2>4. "hub" \in Thread /\ {c.source} \in SUBSET Nodes
    BY <1>4 DEF Thread
  <2> QED
    BY <1>1, <1>4, <2>1, <2>2, <2>3, <2>4, ClaimKeepsNeeds
<1>7. CASE Pick(c) \/ Delete(c)
  <2> DEFINE w == c.source
  <2>1. /\ UNCHANGED <<claimed, waiting>> /\ c.type # "START_NODE"
        /\ \/ /\ c.type = "PICK_SHARED_PTR" /\ waiting[w] = {} /\ job' = job
              /\ sysq' = [sysq EXCEPT ![w] = Stack!Offer(sysq[w], SysCap, "REQUIRE_NODE_LIST")]
           \/ /\ c.type = "PICK_SHARED_PTR" /\ waiting[w] # {} /\ sysq' = sysq
              /\ job' = [job EXCEPT !["hub"] = Job("wire", w, waiting[w])]
           \/ c.type = "DELETE_SHARED_PTR" /\ job' = job /\ sysq' = sysq
    BY <1>7 DEF Pick, Delete, AskRequirements, Becomes
  <2>2. w \in Nodes
    BY <1>4
  <2>3. \A m \in Nodes, k \in Nodes :
          Has(hubq, StartCmd(m, k)) => Has(hubq', StartCmd(m, k))
    BY <1>5, <2>1 DEF StartCmd
  <2>4. \A m \in Nodes : Has(hubq, PickCmd(m)) =>
          Has(hubq', PickCmd(m)) \/ (c.type = "PICK_SHARED_PTR" /\ m = w)
    BY <1>5 DEF PickCmd
  <2> HIDE DEF w
  <2>5. \A m \in Nodes : /\ Has(sysq[m], "REQUIRE_NODE_LIST") =>
                              Has(sysq'[m], "REQUIRE_NODE_LIST")
                         /\ waiting[w] = {} /\ m = w /\ c.type = "PICK_SHARED_PTR" =>
                              Has(sysq'[m], "REQUIRE_NODE_LIST")
    <3>1. "REQUIRE_NODE_LIST" \in SysCmd /\ sysq \in [Nodes -> Seq(SysCmd)]
          /\ sysq[w] \in Seq(SysCmd) /\ Len(sysq[w]) < SysCap
      BY <2>2 DEF SysCmd, NeedsInv, WiringInv, StartInv, TypeOK, WithRoom
    <3> DEFINE q == Stack!Offer(sysq[w], SysCap, "REQUIRE_NODE_LIST")
    <3>2. /\ Has(q, "REQUIRE_NODE_LIST")
          /\ Has(sysq[w], "REQUIRE_NODE_LIST") => Has(q, "REQUIRE_NODE_LIST")
      BY <3>1, OfferWhole
    <3> HIDE DEF q
    <3> QED
      BY <2>1, <2>2, <3>1, <3>2 DEF q
  <2>6. /\ job'["main"] = job["main"]
        /\ \/ job'["hub"] = job["hub"]
           \/ job'["hub"] = Job("wire", w, waiting[w]) /\ c.type = "PICK_SHARED_PTR"
                /\ waiting[w] # {}
        /\ c.type = "PICK_SHARED_PTR" /\ waiting[w] # {} =>
             job'["hub"] = Job("wire", w, waiting[w])
    BY <2>1 DEF NeedsInv, WiringInv, StartInv, TypeOK, Thread
  <2>7. \A k \in Nodes : /\ Here(k)' <=> Here(k)
                         /\ ~Wiring(k)
                         /\ Executing(k) => Executing(k)'
                         /\ c.type = "PICK_SHARED_PTR" /\ waiting[w] # {} /\ k = w =>
                              Wiring(k)'
    BY <1>1, <2>6 DEF Here, Known, Wiring, Executing, Busy, Job, Thread
  <2>8. Asking'
    <3> SUFFICES ASSUME NEW m \in Nodes, Here(m) PROVE Asked(m)'
      BY <2>7 DEF Asking
    <3>1. Asked(m) /\ ~Wiring(m)
      BY <2>7 DEF NeedsInv, Asking
    <3>2. RequiredBy(m) \subseteq Nodes
      BY ReqAssumption DEF RequiredBy
    <3>3. (\A k \in RequiredBy(m) : k \in claimed \/ Has(hubq, StartCmd(m, k))) =>
            \A k \in RequiredBy(m) : k \in claimed' \/ Has(hubq', StartCmd(m, k))
      BY <2>1, <2>3, <3>2
    <3> QED
      BY <2>4, <2>5, <2>7, <3>1, <3>3 DEF Asked, RequiredBy
  <2>9. Waiters'
    <3> SUFFICES ASSUME NEW u \in Thread, NEW m \in Nodes, NEW k \in RequiredBy(m),
                        k \in job'[u].for
                 PROVE  job'[u].waiter = {m}
      BY DEF Waiters, RequiredBy
    <3>1. CASE job'[u] = job[u]
      BY <3>1 DEF NeedsInv, Waiters
    <3>2. CASE job'[u] # job[u]
      <4>1. job'[u] = Job("wire", w, waiting[w]) /\ waiting[w] # {} /\ k = w
        BY <2>6, <3>2 DEF Thread, Job
      <4>2. \A v \in waiting[w] : v \in Nodes /\ v \in Users(w)
        BY <2>2 DEF Users, NeedsInv, WiringInv, StartInv, TypeOK
      <4>3. \A v \in waiting[w] : v = m
        BY <2>2, <4>1, <4>2 DEF NeedsInv, WiringInv, UsersOK, OneUser
      <4>4. waiting[w] = {m}
        BY <4>1, <4>3
      <4> QED
        BY <4>1, <4>4 DEF Job
    <3> QED
      BY <3>1, <3>2
  <2>10. Handing'
    <3> SUFFICES ASSUME NEW m \in Nodes, NEW k \in RequiredBy(m), k \in claimed'
                 PROVE  Handed(m, k)'
      BY DEF Handing, RequiredBy
    <3>1. k \in Nodes /\ Handed(m, k)
      BY <2>1, ReqAssumption DEF RequiredBy, NeedsInv, Handing
    <3>2. Expected(m, k) => Expected(m, k)'
      <4>1. waiting[k] = {m} => waiting[k] # {}
        OBVIOUS
      <4> QED
        BY <2>1, <2>4, <2>7, <3>1, <4>1 DEF Expected
    <3> QED
      BY <1>1, <2>7, <3>1, <3>2 DEF Handed
  <2> QED
    BY <2>8, <2>9, <2>10
<1> QED
  BY <1>1, <1>6, <1>7

LEMMA WireStateKeepsNeeds ==
  ASSUME NeedsInv, WireState
  PROVE  Asking' /\ Waiters' /\ Handing'
<1>1. /\ Busy("hub", "wire")
      /\ UNCHANGED <<node, pc, sysq, hubq, sysMap, claimed, waiting>>
      /\ job' = [job EXCEPT !["hub"].at = "wired"]
      /\ \A m \in Nodes : stateMap[m] \subseteq stateMap'[m]
  BY DEF WireState
<1>2. /\ job'["main"] = job["main"] /\ job'["hub"].at = "wired"
      /\ job'["hub"].for = job["hub"].for /\ job'["hub"].waiter = job["hub"].waiter
  <2>1. job["hub"] \in [at : {"idle", "named", "found", "listed", "wire", "wired"},
                       for : SUBSET Nodes, waiter : SUBSET Nodes]
    BY DEF NeedsInv, WiringInv, StartInv, TypeOK, Thread
  <2>2. job'["hub"] = [job["hub"] EXCEPT !.at = "wired"] /\ job'["main"] = job["main"]
    BY <1>1 DEF NeedsInv, WiringInv, StartInv, TypeOK, Thread
  <2> QED
    BY <2>1, <2>2
<1>3. \A k \in Nodes : /\ Here(k)' <=> Here(k)
                       /\ Wiring(k) => Wiring(k)'
                       /\ Executing(k) => Executing(k)'
  BY <1>1, <1>2 DEF Here, Known, Wiring, Executing, Busy, Thread
<1>4. Asking'
  BY <1>1, <1>3 DEF NeedsInv, Asking, Asked, RequiredBy
<1>5. Waiters'
  BY <1>2 DEF NeedsInv, Waiters, RequiredBy, Thread
<1>6. Handing'
  <2> SUFFICES ASSUME NEW m \in Nodes, NEW k \in RequiredBy(m), k \in claimed'
               PROVE  Handed(m, k)'
    BY DEF Handing, RequiredBy
  <2>1. k \in Nodes /\ Handed(m, k)
    BY <1>1, ReqAssumption DEF RequiredBy, NeedsInv, Handing
  <2>2. Expected(m, k) => Expected(m, k)'
    BY <1>1, <1>3, <2>1 DEF Expected
  <2> QED
    BY <1>1, <1>3, <2>1, <2>2 DEF Handed
<1> QED
  BY <1>4, <1>5, <1>6

LEMMA WireOrdersKeepsNeeds ==
  ASSUME NeedsInv, WireOrders, WithRoom
  PROVE  Asking' /\ Waiters' /\ Handing'
<1>1. /\ Busy("hub", "wired") /\ UNCHANGED <<node, pc, hubq, stateMap, claimed>>
      /\ job' = [job EXCEPT !["hub"] = Idle]
      /\ \A m \in Nodes : sysMap'[m] = IF m \in job["hub"].waiter
                                       THEN sysMap[m] \union job["hub"].for
                                       ELSE sysMap[m]
  BY DEF WireOrders, Becomes
<1>2. PICK n \in Nodes : job["hub"].for = {n}
  BY <1>1 DEF NeedsInv, WiringInv, StartInv, JobsOK, Busy, Thread
<1>3. /\ waiting' = [waiting EXCEPT ![n] = {}]
      /\ sysq' = [sysq EXCEPT ![n] = Stack!Offer(sysq[n], SysCap, "REQUIRE_NODE_LIST")]
  BY <1>2 DEF WireOrders, AskRequirements
<1>4. job'["hub"] = Idle /\ job'["main"] = job["main"]
  BY <1>1 DEF NeedsInv, WiringInv, StartInv, TypeOK, Thread
<1>5. \A m \in Nodes : Has(sysq[m], "REQUIRE_NODE_LIST") \/ m = n =>
                         Has(sysq'[m], "REQUIRE_NODE_LIST")
  <2>1. "REQUIRE_NODE_LIST" \in SysCmd /\ sysq \in [Nodes -> Seq(SysCmd)]
        /\ sysq[n] \in Seq(SysCmd) /\ Len(sysq[n]) < SysCap
    BY DEF SysCmd, NeedsInv, WiringInv, StartInv, TypeOK, WithRoom
  <2> DEFINE q == Stack!Offer(sysq[n], SysCap, "REQUIRE_NODE_LIST")
  <2>2. Has(q, "REQUIRE_NODE_LIST")
    BY <2>1, OfferWhole
  <2> HIDE DEF q
  <2> QED
    BY <1>3, <2>1, <2>2 DEF q
<1>6. \A k \in Nodes : /\ Here(k)' <=> Here(k)
                       /\ Wiring(k) <=> k = n
                       /\ Executing(k) => Executing(k)'
  BY <1>1, <1>2, <1>4 DEF Here, Known, Wiring, Executing, Busy, Thread
<1>7. Asking'
  BY <1>1, <1>5, <1>6 DEF NeedsInv, Asking, Asked, RequiredBy
<1>8. Waiters'
  BY <1>4 DEF NeedsInv, Waiters, RequiredBy, Thread, Idle
<1>9. Handing'
  <2> SUFFICES ASSUME NEW m \in Nodes, NEW k \in RequiredBy(m), k \in claimed'
               PROVE  Handed(m, k)'
    BY DEF Handing, RequiredBy
  <2>1. k \in Nodes /\ Handed(m, k)
    BY <1>1, ReqAssumption DEF RequiredBy, NeedsInv, Handing
  <2>2. CASE k = n
    <3>1. job["hub"].waiter = {m}
      BY <1>2, <2>2 DEF NeedsInv, Waiters, Thread
    <3>2. k \in stateMap'[m] /\ k \in sysMap'[m]
      BY <1>1, <1>2, <2>2, <3>1 DEF NeedsInv, WiringInv, OrdersOK
    <3> QED
      BY <3>2 DEF Handed
  <2>3. CASE k # n
    <3>1. waiting'[k] = waiting[k]
      BY <1>3, <2>1, <2>3 DEF NeedsInv, WiringInv, StartInv, TypeOK
    <3>2. Expected(m, k) => Expected(m, k)'
      BY <1>1, <1>6, <2>1, <2>3, <3>1 DEF Expected
    <3> QED
      BY <1>1, <1>6, <2>1, <3>2 DEF Handed
  <2> QED
    BY <2>2, <2>3
<1> QED
  BY <1>7, <1>8, <1>9

LEMMA NextNeedsInv ==
  ASSUME OneUser, NeedsInv, [Next]_vars, WithRoom, WithRoom'
  PROVE  NeedsInv'
<1>1. WiringInv'
  BY NextWiringInv DEF NeedsInv
<1>2. Asking' /\ Waiters' /\ Handing'
  <2>1. CASE UNCHANGED vars
    BY <2>1 DEF vars, nodeVars, hubVars, NeedsInv, Asking, Asked, Waiters, Handing,
       Handed, Expected, Executing, Here, Known, Wiring, RequiredBy
  <2>2. CASE \E n \in Nodes : NodeStep(n) \/ WatchDog(n) \/ ToldToEnd(n)
    BY <2>2, NodesKeepNeeds
  <2>3. CASE \E n \in Roots : MainExecutes(n)
    <3>1. PICK n \in Roots : MainExecutes(n)
      BY <2>3
    <3>2. /\ n \in Nodes /\ {} \in SUBSET Nodes /\ "main" \in Thread
          /\ \A m \in Nodes : n \notin RequiredBy(m)
      BY RootAssumption DEF Thread
    <3>3. /\ Busy("main", "idle") /\ ClaimName("main", n, {})
          /\ UNCHANGED <<node, pc, sysq, stateMap, sysMap, hubq, waiting>>
      BY <3>1 DEF MainExecutes, nodeVars
    <3> QED
      BY <3>2, <3>3, ClaimKeepsNeeds
  <2>4. CASE \E t \in Thread : FindId(t) \/ Register(t) \/ Start(t)
    BY <2>4, GoesOnKeepsNeeds, StartKeepsNeeds
  <2>5. CASE HubPops \/ WireState \/ WireOrders
    BY <2>5, PopKeepsNeeds, WireStateKeepsNeeds, WireOrdersKeepsNeeds
  <2> QED
    BY <2>1, <2>2, <2>3, <2>4, <2>5, EnvironmentAssumption
       DEF Next, MainStep, HubStep, Thread
<1> QED
  BY <1>1, <1>2 DEF NeedsInv

LEMMA InitNeedsInv == Init => NeedsInv
<1> SUFFICES ASSUME Init PROVE NeedsInv
  OBVIOUS
<1>1. WiringInv
  BY InitWiringInv
<1>2. Asking
  <2>1. \A n \in Nodes : ~Here(n)
    BY DEF Init, NewNode, Here, Known
  <2> QED
    BY <2>1 DEF Asking
<1>3. Waiters /\ Handing
  BY DEF Init, Waiters, Handing, Idle
<1> QED
  BY <1>1, <1>2, <1>3 DEF NeedsInv

(* Nothing that the start needs is forgotten on the way, whatever the      *)
(* hooks return and whenever watch dogs expire and nodes end: as long as   *)
(* no stack is filled up, the start comes to rest only with the nodes that *)
(* a node in its work requires started, and with those of them that are in *)
(* their work wired to it.                                                 *)
THEOREM NothingForgottenHolds == ASSUME OneUser PROVE Spec => NothingForgotten
<1>1. NeedsInv =>
        (AtRest => \A n \in Nodes : Known(n) => \A k \in RequiredBy(n) : Served(n, k))
  <2> SUFFICES ASSUME NeedsInv, AtRest, NEW n \in Nodes, Known(n),
                      NEW k \in RequiredBy(n)
               PROVE  Served(n, k)
    OBVIOUS
  <2>1. k \in Nodes
    BY ReqAssumption DEF RequiredBy
  <2>2. /\ \A e : ~Has(hubq, e)
        /\ \A m \in Nodes, e \in SysCmd : ~Has(sysq[m], e)
        /\ \A t \in Thread : job[t].at = "idle"
    BY DEF AtRest, Has, Busy
  <2>3. \A m \in Nodes : ~Wiring(m) /\ ~Executing(m)
    BY <2>2 DEF Wiring, Executing, Thread
  <2>4. Asked(n)
    BY DEF NeedsInv, Asking, Here
  <2>5. k \in claimed
    BY <2>2, <2>3, <2>4 DEF Asked, SysCmd
  <2>6. k \in Started
    BY <2>2, <2>5 DEF Started
  <2>7. Handed(n, k)
    BY <2>5 DEF NeedsInv, Handing
  <2>8. Known(k) => k \in stateMap[n] /\ k \in sysMap[n]
    BY <2>1, <2>2, <2>3, <2>7 DEF Handed, Expected, Here
  <2> QED
    BY <2>6, <2>8 DEF Served
<1>2. NeedsInv /\ WithRoom /\ WithRoom' /\ [Next]_vars => NeedsInv'
  BY NextNeedsInv
<1>3. Spec /\ []WithRoom => []NeedsInv
  BY <1>2, InitNeedsInv, PTL DEF Spec
<1> QED
  BY <1>1, <1>3, PTL DEF NothingForgotten
=============================================================================
