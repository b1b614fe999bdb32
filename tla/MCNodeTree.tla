----------------------------- MODULE MCNodeTree -----------------------------
(***************************************************************************)
(* Small systems of nodes for TLC: a parent with one required node, and a  *)
(* tree of three levels: a parent with two nodes, one of which has a leaf. *)
(* A node that requires others waits for them (its hooks return false),    *)
(* the others change at once.                                              *)
(***************************************************************************)
EXTENDS NodeTree

CONSTANTS parent, child, other, leaf

Pair  == {parent, child}
Tree  == {parent, child, other, leaf}

PairReq  == [n \in Pair |-> IF n = parent THEN <<child>> ELSE << >>]
TreeReq  == [n \in Tree |-> CASE n = parent -> <<child, other>>
                              [] n = child  -> <<leaf>>
                              [] OTHER      -> << >>]

(* What the README asks of a node that waits: false from the hooks of the  *)
(* arrows; its force stop hook succeeds.                                   *)
Waits == [s \in State |-> IF s = "FORCE_STOP" THEN {TRUE} ELSE {FALSE}]
AtOnce == [s \in State |-> {TRUE}]
(* A user's hooks that may return anything at any time.                    *)
Either == [s \in State |-> BOOLEAN]

PairAnyHook  == [n \in Pair |-> Either]
PairWaitHook == [n \in Pair |-> IF n = parent THEN Waits ELSE AtOnce]
TreeWaitHook == [n \in Tree |-> IF Req[n] = << >> THEN AtOnce ELSE Waits]

Everything == Nodes \X (Signal \union {"end"})
ToParent   == {parent} \X {"stable", "repair", "ready", "reset"}
AnyCommand == Nodes \X SysCmd
ParentFaults == {parent} \X {"error", "warning"}
Steering   == {parent} \X {"stable", "repair", "ready", "reset", "force_stop"}
StopInTransit == {parent} \X {"stable", "reset", "force_stop"}
NoInput    == {}
Nobody     == {}
=============================================================================
