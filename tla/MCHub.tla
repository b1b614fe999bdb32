------------------------------- MODULE MCHub -------------------------------
(***************************************************************************)
(* Small starts for TLC: a chain of three nodes under one root, a node     *)
(* that two others require, and two roots.                                 *)
(***************************************************************************)
EXTENDS Hub

CONSTANTS root, middle, leaf

Chain == {root, middle, leaf}
Duo   == {root, leaf}

ChainReq   == [n \in Chain |-> CASE n = root   -> <<middle>>
                                [] n = middle -> <<leaf>>
                                [] n = leaf   -> << >>]
DiamondReq == [n \in Chain |-> CASE n = root   -> <<middle, leaf>>
                                [] n = middle -> <<leaf>>
                                [] n = leaf   -> << >>]
RootsReq   == [n \in Chain |-> IF n = root THEN <<leaf>> ELSE << >>]
DuoReq     == [n \in Duo |-> IF n = root THEN <<leaf>> ELSE << >>]

AtOnce == [s \in State |-> {TRUE}]
WaitsFor(t) == [s \in State |-> IF s = t THEN {FALSE} ELSE {TRUE}]

(* root waits for READY; middle takes its time to initialize; leaf waits,  *)
(* for nobody.                                                             *)
ChainHook == [n \in Chain |->
  CASE n = root   -> WaitsFor("READY")
    [] n = middle -> [s \in State |-> IF s = "INITIALIZING" THEN BOOLEAN ELSE {TRUE}]
    [] n = leaf   -> WaitsFor("INITIALIZING")]
AtOnceHook == [n \in Nodes |-> AtOnce]
InitWaitHook == [n \in Nodes |->
  IF Req[n] = << >> THEN AtOnce ELSE WaitsFor("INITIALIZING")]
ReadyWaitHook == [n \in Nodes |->
  IF Req[n] = << >> THEN AtOnce ELSE WaitsFor("READY")]

OneRoot  == {root}
TwoRoots == {root, middle}
Below    == {middle, leaf}
JustRoot == {root}
JustLeaf == {leaf}
Nobody   == {}
=============================================================================
