---------------------------- MODULE MCHubThread ----------------------------
(***************************************************************************)
(* A small hub for TLC: a stack of three slots under commands of two kinds,  *)
(* and calls of all the public operations. T() is a third value, so that a *)
(* phantom command would show.                                             *)
(***************************************************************************)
EXTENDS HubThread

CONSTANTS start, pick, none

Commands == {start, pick}
=============================================================================
