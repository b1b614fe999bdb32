------------------------------ MODULE NodeTree ------------------------------
(***************************************************************************)
(* A system of nodes after start-up: every node is READY and wired to the  *)
(* nodes it requires. Threads outside the nodes call the public            *)
(* operations, commands arrive by UDP, the hooks of the user report errors *)
(* and warnings, and the hub empties its stack.                            *)
(***************************************************************************)
EXTENDS BNode

CONSTANTS
  Requests,    (* the calls that are made: <<node, request or "end">>      *)
  Received,    (* the UDP commands that arrive: <<node, command>>          *)
  MaxInputs,   (* how many calls and UDP commands in all                   *)
  Noticed,     (* what hooks report: <<node, "error" or "warning">>        *)
  WatchDogs    (* the nodes whose watch dog time may be too short          *)

ASSUME InputAssumption ==
  /\ Requests \subseteq Nodes \X (Signal \union {"end"})
  /\ Received \subseteq Nodes \X SysCmd
  /\ MaxInputs \in Nat
  /\ Noticed \subseteq Nodes \X {"error", "warning"}
  /\ WatchDogs \subseteq Nodes

VARIABLE given   (* the calls and UDP commands so far                      *)

vars == <<nodeVars, given>>

(* The record of a node whose start-up met no wait: prev and dest keep     *)
(* what the start left in them, and are written before they are read.      *)
ReadyNode == [sm |-> "READY", cmd |-> "READY", change |-> FALSE, flags |-> {},
              prev |-> "UNCONFIGURED", dest |-> "READY",
              expired |-> FALSE, running |-> TRUE]

Init ==
  /\ node = [n \in Nodes |-> ReadyNode]
  /\ pc = [n \in Nodes |-> "top"]
  /\ left = [n \in Nodes |-> {}]
  /\ pub = [n \in Nodes |-> "READY"]
  /\ sysq = [n \in Nodes |-> << >>]
  /\ stateMap = [n \in Nodes |-> RequiredBy(n)]
  /\ sysMap = [n \in Nodes |-> RequiredBy(n)]
  /\ hubq = << >>
  /\ given = 0

Call ==
  /\ given < MaxInputs /\ given' = given + 1
  /\ \E r \in Requests : IF r[2] = "end" THEN End(r[1]) ELSE Request(r[1], r[2])

Arrival ==
  /\ given < MaxInputs /\ given' = given + 1
  /\ \E r \in Received : Receive(r[1], r[2])

(* The hub pops a command. That a node is gone changes only maps of the    *)
(* hub, and a node that already runs is not started again.                 *)
HubTakes ==
  /\ hubq # << >>
  /\ hubq' = Tail(hubq)
  /\ UNCHANGED <<node, pc, left, pub, sysq, Maps>>

Internal ==
  /\ \/ \E n \in Nodes : Cycle(n) \/ Exit(n)
     \/ \E n \in WatchDogs : Elapse(n)
     \/ \E r \in Noticed : Notice(r[1], r[2])
     \/ HubTakes
  /\ UNCHANGED given

Next == Call \/ Arrival \/ Internal

(* Every thread keeps running its periodic loop, the hub as well, and time *)
(* passes for a node whose watch dog time is finite. Nobody has to call,   *)
(* send or fail.                                                           *)
Fairness ==
  /\ \A n \in Nodes : WF_vars(Cycle(n) /\ UNCHANGED given)
                      /\ WF_vars(Exit(n) /\ UNCHANGED given)
  /\ \A n \in WatchDogs : WF_vars(Elapse(n) /\ UNCHANGED given)
  /\ WF_vars(HubTakes /\ UNCHANGED given)

Spec == Init /\ [][Next]_vars /\ Fairness
-----------------------------------------------------------------------------
TypeOK ==
  /\ node \in [Nodes -> NodeRecord]
  /\ pc \in [Nodes -> {"top", "hook", "back", "scan", "off"}]
  /\ left \in [Nodes -> SUBSET Nodes]
  /\ pub \in [Nodes -> State]
  /\ sysq \in [Nodes -> Seq(SysCmd)]
  /\ stateMap \in [Nodes -> SUBSET Nodes]
  /\ sysMap \in [Nodes -> SUBSET Nodes]
  /\ hubq \in Seq(HubCmd)
  /\ given \in Nat

(* Every node keeps to the state machine of the README, whatever order its *)
(* requests, orders, errors and time-outs come in: it changes state only   *)
(* along the arrows, waits only on an arrow, reaches FORCE_STOP from       *)
(* anywhere but TRANSITING and leaves it only by ending.                   *)
FollowsStateMachine == Machine!MachineSpec

(* The destination of a transition in progress is never in doubt: what a   *)
(* node waits for is an arrow of the state machine, and a node that waits  *)
(* for FORCE_STOP is one that refused it and is on its way out. So the     *)
(* scan can only commit to a state that may follow the one before.         *)
WaitsOnArrow ==
  \A n \in Nodes : node[n].sm = "TRANSITING" =>
    \/ <<node[n].prev, node[n].dest>> \in Machine!Arrow
    \/ node[n].dest = "FORCE_STOP" /\ ~node[n].running

(* A change that had to be put off because the node was in transit is a    *)
(* force stop, never a change computed for a state it has left meanwhile.  *)
OnlyForceStopPending ==
  \A n \in Nodes :
    (node[n].sm = "TRANSITING" /\ node[n].change) => node[n].cmd = "FORCE_STOP"

Work == {"READY", "STABLE", "REPAIR"}

(* A node that knows of an error goes from READY, STABLE or REPAIR nowhere *)
(* but to FORCE_STOP, or ends, whatever is asked of it at the same time,   *)
(* and whatever was decided or ordered before. (Not so in a scan: with its *)
(* watch dog expired, a node may still arrive; see ExpiryIsFinal.)         *)
ErrorObeyed ==
  [][\A n \in Nodes :
       ("error" \in node[n].flags /\ node[n].sm \in Work
        /\ pc[n] # "scan" /\ node'[n].sm # node[n].sm)
         => \/ node'[n].sm \in {"FORCE_STOP", "UNCONFIGURED"}
            \/ node'[n].sm = "TRANSITING" /\ node'[n].dest = "FORCE_STOP"]_vars

(* n gives orders to the node k that it requires, and nothing else does:   *)
(* no other node, no call, UDP command, error or time-out of either.       *)
Steady(n, k) ==
  /\ n # k
  /\ \A m \in Nodes : k \in RequiredBy(m) => m = n
  /\ \A r \in Requests \union Received \union Noticed : r[1] # k
  /\ {n, k} \intersect WatchDogs = {}

WaitingNode(n) == \A s \in State \ {"FORCE_STOP"} : Hook[n][s] = {FALSE}

(* A change of n is under way from the moment it gives its orders, while   *)
(* it still is in the old state, until it arrives.                         *)
UnderWay(n) == pc[n] = "hook" \/ node[n].sm = "TRANSITING"
From(n) == IF pc[n] = "hook" THEN node[n].sm ELSE node[n].prev
To(n)   == IF pc[n] = "hook" THEN node[n].cmd ELSE node[n].dest

(* A node that waits is in READY, STABLE or REPAIR together with the nodes *)
(* that it alone steers: it does not arrive before they have, and they do  *)
(* not leave before it has begun to give the order for it. (From then on   *)
(* they may be ahead, even of the state that it still announces; see       *)
(* NobodyWaitsInVain for where they are.)                                  *)
MovesTogether ==
  \A n \in Nodes : \A k \in RequiredBy(n) :
    (WaitingNode(n) /\ Steady(n, k) /\ node[n].sm \in Work /\ ~UnderWay(n))
      => node[k].sm = node[n].sm

(* No order of a node that waits gets lost on its way: as long as the      *)
(* change is under way, each node that it alone steers runs and is at the  *)
(* destination, under way to it as well, or still where both came from     *)
(* with the order in its stack or the request that the order raises.       *)
(* (Where it is dropped, in a full stack, the node would wait for its      *)
(* watch dog.)                                                             *)
OnItsWay(k, p, t) ==
  \/ node[k].sm = t
  \/ UnderWay(k) /\ To(k) = t
  \/ /\ node[k].sm = p
     /\ \/ \E i \in DOMAIN sysq[k] : sysq[k][i] = Order(t)
        \/ Raises(Order(t), p) \intersect node[k].flags # {}
NobodyWaitsInVain ==
  \A n \in Nodes : \A k \in RequiredBy(n) :
    (WaitingNode(n) /\ Steady(n, k) /\ UnderWay(n) /\ To(n) \in Work)
      => node[k].running /\ OnItsWay(k, From(n), To(n))

(* Nor does a force stop: once a node that waits stops, each node that it  *)
(* alone steers stops too, is on its way out, or is bound to stop, by the  *)
(* order in its stack or the request that the order raised.                *)
Stopping(n) == \/ node[n].sm = "FORCE_STOP"
               \/ UnderWay(n) /\ To(n) = "FORCE_STOP"
ForceStopTravels ==
  \A n \in Nodes : \A k \in RequiredBy(n) :
    (WaitingNode(n) /\ Steady(n, k) /\ Stopping(n))
      => \/ Stopping(k)
         \/ ~node[k].running
         \/ "force_stop" \in node[k].flags
         \/ \E i \in DOMAIN sysq[k] : sysq[k][i] = "PUSH_FORCE_STOP"
-----------------------------------------------------------------------------
Gone(n) == pc[n] = "off"

(* A force stop asked of a node that has no change under way is carried    *)
(* out, or the node quits, whatever else is asked of it. (One that arrives *)
(* while the user's hook for a change is being asked may meet a node in    *)
(* transit in the next cycle already; see ForceStopKept.)                  *)
ForceStopObeyed ==
  \A n \in Nodes :
    ("force_stop" \in node[n].flags /\ ~UnderWay(n))
      ~> (node[n].sm = "FORCE_STOP" \/ Gone(n))

(* No node stays on an arrow for ever, although the nodes it requires may  *)
(* be stopped, gone, or in a state of their own.                           *)
TransitEnds ==
  \A n \in WatchDogs : node[n].sm = "TRANSITING" ~> node[n].sm # "TRANSITING"

(* An error that stays ends the work of the node for good: it does not     *)
(* stay in STABLE or REPAIR, or on the way there, and is not brought back  *)
(* by a request or order left over from before.                            *)
PersistentErrorEndsWork ==
  \A n \in WatchDogs :
    <>[]("error" \in node[n].flags)
      => <>[](node[n].sm \notin {"STABLE", "REPAIR", "TRANSITING"})

(* A force stop of a node reaches the nodes it requires, and theirs.       *)
ForceStopCascades ==
  \A n \in Nodes : \A k \in RequiredBy(n) :
    node[n].sm = "FORCE_STOP" ~> (node[k].sm = "FORCE_STOP" \/ Gone(k))

(* An order to leave READY for STABLE is carried out by the whole tree.    *)
StableReached ==
  \A n \in Nodes :
    (node[n].sm = "READY" /\ "stable" \in node[n].flags)
      ~> (node[n].sm \in {"STABLE", "FORCE_STOP"} \/ Gone(n))
-----------------------------------------------------------------------------
(* README, "State Machine": a node that waited in vain returns to the      *)
(* state before the transition. transit_processing orders the required     *)
(* nodes back as well, so a node whose watch dog has expired must not      *)
(* arrive in the same cycle after all.                                     *)
ExpiryIsFinal ==
  [][\A n \in Nodes : Commit(n) => node[n].sm = "TRANSITING"]_vars

(* generate_signal_to_chenge_node_state must not drop a change that is     *)
(* pending (its comment); so a force stop, once asked for, is carried out, *)
(* unless the node ends first.                                             *)
ForceStopKept ==
  \A n \in Nodes : "force_stop" \in node[n].flags
                     ~> (node[n].sm = "FORCE_STOP" \/ Gone(n))
=============================================================================
