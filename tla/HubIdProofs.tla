----------------------------- MODULE HubIdProofs -----------------------------
(***************************************************************************)
(* With one root the two threads never run exec_node at the same time, and *)
(* the ids are unique. With two roots they need not be: the run two_roots. *)
(***************************************************************************)
EXTENDS HubProofs

ExecutesNode(t) == job[t].at \in {"named", "found", "listed"}

(* As long as main has something to execute, nothing else happens.         *)
MainFirst == todo # {} \/ ExecutesNode("main") =>
               Busy("hub", "idle") /\ \A n \in Nodes : Fresh(n)

IdsOK ==
  /\ todo # {} => Busy("main", "idle")
  /\ MainFirst
  /\ \A t \in Thread : Busy(t, "found") => next \notin Taken
  /\ OwnIds

IdInv == StartInv /\ IdsOK
-----------------------------------------------------------------------------
(* Before anything runs there is nothing to do for the hub and the nodes.  *)
LEMMA OnlyMain ==
  ASSUME StartInv, MainFirst, todo # {} \/ ExecutesNode("main")
  PROVE  /\ hubq = << >> /\ Busy("hub", "idle")
         /\ \A n \in Nodes : Fresh(n) /\ pc[n] = "off" /\ node[n].sm = "UNCONFIGURED"
<1>1. Busy("hub", "idle") /\ \A n \in Nodes : Fresh(n)
  BY DEF MainFirst
<1>2. Cmds = {}
  BY <1>1 DEF Cmds
<1>3. hubq = << >>
  BY <1>2 DEF StartInv
<1> QED
  BY <1>1, <1>3 DEF StartInv, Untouched, NewNode

LEMMA ExclusiveThreads ==
  ASSUME IdInv, NEW t \in Thread, NEW u \in Thread, t # u,
         ExecutesNode(t), ExecutesNode(u)
  PROVE  FALSE
<1>1. ExecutesNode("main") /\ ExecutesNode("hub")
  BY DEF Thread
<1> QED
  BY <1>1 DEF IdInv, IdsOK, MainFirst, ExecutesNode, Busy

(* What concerns neither the ids nor main.                                 *)
LEMMA OthersKeepIds ==
  ASSUME IdInv, todo = {}, ~ExecutesNode("main"),
         UNCHANGED <<todo, next, idOf, listed>>, job'["main"] = job["main"],
         Busy("hub", "found")' => Busy("hub", "found")
  PROVE  IdsOK'
BY DEF IdInv, IdsOK, MainFirst, ExecutesNode, Busy, Thread, OwnIds, Taken

LEMMA MainExecutesIds ==
  ASSUME NEW r, Roots = {r}, IdInv, todo \subseteq Roots, MainExecutes(r)
  PROVE  IdsOK'
<1>1. /\ Busy("main", "idle") /\ r \in todo /\ todo' = {} /\ r \in Nodes
      /\ ClaimName("main", r, {})
      /\ UNCHANGED <<next, idOf, listed>>
  BY RootAssumption DEF MainExecutes
<1>2. Busy("hub", "idle") /\ \A n \in Nodes : Fresh(n)
  BY <1>1 DEF IdInv, IdsOK, MainFirst
<1>3. CASE r \in claimed
  <2>1. Starts("main", r) \/ Starts("hub", r)
    BY <1>1, <1>2, <1>3 DEF Fresh, Thread
  <2> QED
    BY <1>1, <1>2, <2>1 DEF Starts, Busy
<1>4. CASE r \notin claimed
  <2>1. claimed' = claimed \union {r}
        /\ job' = [job EXCEPT !["main"] = Job("named", r, {})]
    BY <1>1, <1>4 DEF ClaimName, Becomes
  <2>2. job'["main"] = Job("named", r, {}) /\ job'["hub"] = job["hub"]
    BY <2>1 DEF IdInv, StartInv, TypeOK, Thread
  <2>3. \A u \in Thread, k \in Nodes : Starts(u, k) => Starts(u, k)'
    BY <1>1, <2>2 DEF Starts, Busy, Thread
  <2>4. Starts("main", r)'
    BY <2>2 DEF Starts, Job
  <2>5. \A k \in Nodes : Fresh(k)'
    <3> SUFFICES ASSUME NEW k \in Nodes PROVE Fresh(k)'
      OBVIOUS
    <3>1. CASE k = r
      BY <2>4, <3>1 DEF Fresh, Thread
    <3>2. CASE k # r /\ k \notin claimed
      BY <2>1, <3>2 DEF Fresh
    <3>3. CASE \E u \in Thread : Starts(u, k)
      BY <2>3, <3>3 DEF Fresh
    <3> QED
      BY <1>2, <3>1, <3>2, <3>3 DEF Fresh
  <2>6. MainFirst' /\ \A t \in Thread : ~Busy(t, "found")'
    BY <1>2, <2>2, <2>5 DEF MainFirst, Busy, Job, Thread
  <2>7. OwnIds'
    BY <1>1 DEF IdInv, IdsOK, OwnIds
  <2> QED
    BY <1>1, <2>6, <2>7 DEF IdsOK
<1> QED
  BY <1>3, <1>4

LEMMA ExecIds ==
  ASSUME IdInv, NEW t \in Thread, FindId(t) \/ Register(t)
  PROVE  IdsOK'
<1>1. /\ ExecutesNode(t) /\ UNCHANGED <<todo, claimed>>
      /\ \A u \in Thread \ {t} : ~ExecutesNode(u)
  <2>1. ExecutesNode(t) /\ UNCHANGED <<todo, claimed>>
    BY DEF FindId, Register, Busy, ExecutesNode
  <2> QED
    BY <2>1, ExclusiveThreads
<1>2. PICK n \in Nodes : job[t].for = {n}
  BY <1>1 DEF IdInv, StartInv, JobsOK, ExecutesNode, Busy
<1>3. job[t] \in [at : {"idle", "named", "found", "listed", "wire", "wired"},
                  for : SUBSET Nodes, waiter : SUBSET Nodes]
  BY DEF IdInv, StartInv, TypeOK
<1>4. /\ \A u \in Thread \ {t} : job'[u] = job[u]
      /\ job'[t].for = job[t].for /\ job'[t].at \in {"named", "found", "listed"}
  <2>1. CASE UNCHANGED job
    BY <1>1, <2>1 DEF ExecutesNode
  <2>2. ASSUME NEW a \in {"found", "listed"}, job' = [job EXCEPT ![t].at = a]
        PROVE  /\ \A u \in Thread \ {t} : job'[u] = job[u]
               /\ job'[t].for = job[t].for /\ job'[t].at \in {"named", "found", "listed"}
    <3>1. /\ job'[t] = [job[t] EXCEPT !.at = a]
          /\ \A u \in Thread \ {t} : job'[u] = job[u]
      BY <2>2 DEF IdInv, StartInv, TypeOK
    <3> QED
      BY <1>3, <3>1
  <2> QED
    BY <2>1, <2>2 DEF FindId, Register
<1>5. \A u \in Thread, k \in Nodes : Starts(u, k)' <=> Starts(u, k)
  BY <1>1, <1>4 DEF Starts, ExecutesNode
<1>6. \A k \in Nodes : Fresh(k)' <=> Fresh(k)
  BY <1>1, <1>5 DEF Fresh
<1>7. (todo' # {} => Busy("main", "idle")') /\ MainFirst'
  BY <1>1, <1>4, <1>6 DEF IdInv, IdsOK, MainFirst, ExecutesNode, Busy, Thread
<1>8. \A u \in Thread \ {t} : ~Busy(u, "found")'
  BY <1>1, <1>4 DEF ExecutesNode, Busy
<1>9. CASE FindId(t)
  <2>1. UNCHANGED <<idOf, listed>>
    BY <1>9 DEF FindId
  <2>2. OwnIds'
    BY <2>1 DEF IdInv, IdsOK, OwnIds
  <2>3. Busy(t, "found")' => next' \notin Taken'
    BY <1>9, <2>1 DEF FindId, Busy, Taken
  <2> QED
    BY <1>7, <1>8, <2>2, <2>3 DEF IdsOK
<1>10. CASE Register(t)
  <2>1. /\ next \notin Taken /\ idOf' = [idOf EXCEPT ![n] = next]
        /\ listed' = listed \union {n} /\ job' = [job EXCEPT ![t].at = "listed"]
    BY <1>2, <1>10 DEF Register, IdInv, IdsOK
  <2>2. OwnIds'
    <3>1. /\ idOf'[n] = next /\ \A k \in Nodes \ {n} : idOf'[k] = idOf[k]
          /\ next # BEHAVIOR_HUB_ID /\ \A k \in Nodes : next # idOf[k]
          /\ listed \subseteq Nodes
      BY <2>1 DEF IdInv, StartInv, TypeOK, Taken
    <3> QED
      BY <2>1, <3>1 DEF IdInv, IdsOK, OwnIds
  <2>3. ~Busy(t, "found")'
    <3>1. job'[t] = [job[t] EXCEPT !.at = "listed"]
      BY <2>1 DEF IdInv, StartInv, TypeOK
    <3> QED
      BY <1>3, <3>1 DEF Busy
  <2> QED
    BY <1>7, <1>8, <2>2, <2>3 DEF IdsOK
<1> QED
  BY <1>9, <1>10

LEMMA StartIds ==
  ASSUME IdInv, NEW t \in Thread, Start(t)
  PROVE  IdsOK'
<1>1. /\ Busy(t, "listed") /\ job' = [job EXCEPT ![t] = Idle]
      /\ UNCHANGED <<todo, claimed, next, idOf, listed>>
  BY DEF Start, Becomes
<1>2. job'[t] = Idle /\ \A u \in Thread \ {t} : job'[u] = job[u]
  BY <1>1 DEF IdInv, StartInv, TypeOK
<1>3. todo = {} /\ ~ExecutesNode("main")'
  <2>1. CASE t = "main"
    BY <1>1, <1>2, <2>1 DEF IdInv, IdsOK, ExecutesNode, Idle, Busy
  <2>2. CASE t = "hub"
    <3>1. todo = {} /\ ~ExecutesNode("main")
      BY <1>1, <2>2 DEF IdInv, IdsOK, MainFirst, Busy
    <3> QED
      BY <1>2, <2>2, <3>1 DEF ExecutesNode, Thread
  <2> QED
    BY <2>1, <2>2 DEF Thread
<1>4. \A u \in Thread : Busy(u, "found")' => Busy(u, "found")
  BY <1>2 DEF Busy, Idle
<1> QED
  BY <1>1, <1>3, <1>4 DEF IdInv, IdsOK, MainFirst, OwnIds, Taken
-----------------------------------------------------------------------------
(* Main may always be the first: it has the one root, or it is done.       *)
LEMMA NextIds ==
  ASSUME NEW r, Roots = {r}, IdInv, todo \subseteq Roots, [Next]_vars
  PROVE  IdInv' /\ todo' \subseteq Roots
<1>1. StartInv'
  BY NextStartInv DEF IdInv
<1>2. todo' \subseteq Roots
  BY DEF Next, MainStep, HubStep, MainExecutes, HubPops, WireState, WireOrders,
     FindId, Register, Start, NodeStep, WatchDog, ToldToEnd, hubVars, vars
<1>3. IdsOK'
  <2>1. CASE \E n \in Roots : MainExecutes(n)
    BY <2>1, MainExecutesIds
  <2>2. CASE \E t \in Thread : FindId(t) \/ Register(t) \/ Start(t)
    BY <2>2, ExecIds, StartIds
  <2>3. CASE HubPops \/ WireState \/ WireOrders
    <3>1. todo = {} /\ ~ExecutesNode("main")
      BY <2>3, OnlyMain DEF IdInv, IdsOK, HubPops, WireState, WireOrders, Busy
    <3>2. /\ UNCHANGED <<todo, next, idOf, listed>>
          /\ \/ UNCHANGED job
             \/ \E n, w : job' = [job EXCEPT !["hub"] = Job("named", n, w)]
             \/ \E n, w : job' = [job EXCEPT !["hub"] = Job("wire", n, w)]
             \/ job' = [job EXCEPT !["hub"].at = "wired"]
             \/ job' = [job EXCEPT !["hub"] = Idle]
      BY <2>3 DEF HubPops, HubExecutes, ClaimName, Pick, Delete, WireState, WireOrders,
         Becomes
    <3>3. job'["main"] = job["main"] /\ (Busy("hub", "found")' => Busy("hub", "found"))
      <4>1. job["hub"] \in [at : {"idle", "named", "found", "listed", "wire", "wired"},
                            for : SUBSET Nodes, waiter : SUBSET Nodes]
        BY DEF IdInv, StartInv, TypeOK, Thread
      <4> QED
        BY <3>2, <4>1 DEF Busy, Job, Idle, IdInv, StartInv, TypeOK, Thread
    <3> QED
      BY <3>1, <3>2, <3>3, OthersKeepIds
  <2>4. CASE \E n \in Nodes : NodeStep(n) \/ WatchDog(n) \/ ToldToEnd(n)
    <3>1. todo = {} /\ ~ExecutesNode("main")
      BY <2>4, OnlyMain DEF IdInv, IdsOK, NodeStep, WatchDog, ToldToEnd, Cycle,
         GiveOrders, ChangeState, LoopProcess, RollBack, Transit, ReadState, Commit,
         Exit, Elapse, AtTop
    <3>2. UNCHANGED hubVars
      BY <2>4 DEF NodeStep, WatchDog, ToldToEnd
    <3> QED
      BY <3>1, <3>2, OthersKeepIds DEF hubVars, Busy
  <2>5. CASE UNCHANGED vars
    BY <2>5 DEF vars, hubVars, IdInv, IdsOK, MainFirst, ExecutesNode, Fresh, Starts,
       Busy, OwnIds, Taken
  <2> QED
    BY <2>1, <2>2, <2>3, <2>4, <2>5, EnvironmentAssumption
       DEF Next, MainStep, HubStep, Thread
<1> QED
  BY <1>1, <1>2, <1>3 DEF IdInv

(* "Check unique node id": in a system with a single root no two nodes,    *)
(* and no node and the hub, ever share an id.                              *)
THEOREM OwnIdsHolds == ASSUME NEW CONSTANT r, Roots = {r} PROVE Spec => []OwnIds
<1>1. Init => IdInv /\ todo \subseteq Roots
  <2> SUFFICES ASSUME Init PROVE IdInv /\ todo \subseteq Roots
    OBVIOUS
  <2>1. \A n \in Nodes : Fresh(n)
    BY DEF Init, Fresh
  <2>2. IdsOK
    BY <2>1 DEF Init, IdsOK, MainFirst, Busy, Idle, OwnIds, Thread
  <2> QED
    BY <2>2, InitStartInv DEF IdInv, Init
<1>2. (IdInv /\ todo \subseteq Roots) /\ [Next]_vars => (IdInv /\ todo \subseteq Roots)'
  <2>1. Roots' = Roots
    OBVIOUS
  <2> QED
    BY NextIds, <2>1
<1>3. IdInv => OwnIds
  BY DEF IdInv, IdsOK
<1> QED
  BY <1>1, <1>2, <1>3, PTL DEF Spec
=============================================================================
