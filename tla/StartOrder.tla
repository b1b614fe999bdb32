----------------------------- MODULE StartOrder -----------------------------
(***************************************************************************)
(* What the hub promises of the start of a system: every node is started   *)
(* once at most, and only if main executes it or a node that was started   *)
(* requires it; a node is handed the state of another one only when both   *)
(* were started, it requires the other one and nobody has been handed it   *)
(* before; and the right to command a node follows its state.              *)
(***************************************************************************)
CONSTANTS Nodes,
          Roots,      (* the nodes that main executes                      *)
          Requires    (* Requires[n]: the nodes that n requires            *)

VARIABLES started,    (* the nodes that have been started                  *)
          watches,    (* watches[n]: the nodes whose state n sees          *)
          commands    (* commands[n]: the nodes that n commands            *)

orderVars == <<started, watches, commands>>

OrderInit == /\ started = {}
             /\ watches = [n \in Nodes |-> {}]
             /\ commands = [n \in Nodes |-> {}]

Wanted(n) == n \in Roots \/ \E u \in started : n \in Requires[u]

StartNode(n) == /\ n \notin started /\ Wanted(n)
                /\ started' = started \union {n}
                /\ UNCHANGED <<watches, commands>>

HandState(u, n) == /\ {u, n} \subseteq started /\ n \in Requires[u]
                   /\ \A m \in Nodes : n \notin watches[m]
                   /\ watches' = [watches EXCEPT ![u] = @ \union {n}]
                   /\ UNCHANGED <<started, commands>>

HandOrders(u, n) == /\ n \in watches[u] \ commands[u]
                    /\ commands' = [commands EXCEPT ![u] = @ \union {n}]
                    /\ UNCHANGED <<started, watches>>

OrderNext == \E n \in Nodes :
               StartNode(n) \/ \E u \in Nodes : HandState(u, n) \/ HandOrders(u, n)

OrderSpec == OrderInit /\ [][OrderNext]_orderVars
=============================================================================
