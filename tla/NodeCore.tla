------------------------------ MODULE NodeCore ------------------------------
(***************************************************************************)
(* The state machine every node inherits (bp_system/_common/node.cpp), as  *)
(* operators on the private members of one node: what one call of          *)
(* generate_signal_to_chenge_node_state and of change_node_state makes of  *)
(* them. No variables here; BNode gives every node such a record.          *)
(***************************************************************************)

(* node_state_machine                                                      *)
State == {"UNCONFIGURED", "INITIALIZING", "READY", "STABLE", "REPAIR",
          "FORCE_STOP", "TRANSITING"}

(* The signal_to_* requests that the public operations raise.              *)
Signal == {"force_stop", "release", "reset", "stable", "repair", "ready"}

(* What a node records about itself: the requests and is_occured_error_,   *)
(* is_occured_warning_, which only the user's hooks write.                 *)
Flag == Signal \union {"error", "warning"}

NodeRecord ==
  [sm      : State,        (* node_state_machine_                          *)
   cmd     : State,        (* cmd_node_state_machine_                      *)
   change  : BOOLEAN,      (* signal_to_change_node_state                  *)
   flags   : SUBSET Flag,
   prev    : State,        (* prev_node_state_machine_                     *)
   dest    : State,        (* transit_destination_node_state_machine_      *)
   expired : BOOLEAN,      (* now - transit_start_time_ > watch dog time   *)
   running : BOOLEAN]      (* is_main_thread_running_                      *)
-----------------------------------------------------------------------------
(* A decision to change to state "to" that consumes the requests "uses".   *)
Decide(to, uses) == [to |-> to, uses |-> uses]

(* "TRANSITING" is never decided for; it stands for no decision.           *)
Nothing == Decide("TRANSITING", {})

FromStable(f) ==
  IF "error" \in f        THEN Decide("FORCE_STOP", {})
  ELSE IF "warning" \in f THEN Decide("REPAIR", {})
  ELSE IF "reset" \in f   THEN Decide("READY", {"reset"})
  ELSE IF "repair" \in f  THEN Decide("REPAIR", {"repair"})
  ELSE IF "ready" \in f   THEN Decide("READY", {"ready"})
  ELSE Nothing

(* Mistakes that these decisions could contain, here and below; only the   *)
(* mutation tests use the definitions whose names say so.                  *)
FromRepair_NoErrorCheck(f) ==
  IF "reset" \in f      THEN Decide("READY", {"reset"})
  ELSE IF "stable" \in f /\ "warning" \notin f
                        THEN Decide("STABLE", {"stable"})
  ELSE IF "ready" \in f THEN Decide("READY", {"ready"})
  ELSE Nothing

FromRepair_NoStable(f) ==
  IF "error" \in f      THEN Decide("FORCE_STOP", {})
  ELSE IF "reset" \in f THEN Decide("READY", {"reset"})
  ELSE IF "ready" \in f THEN Decide("READY", {"ready"})
  ELSE Nothing

FromRepair(f) ==
  IF "error" \in f      THEN Decide("FORCE_STOP", {})
  ELSE IF "reset" \in f THEN Decide("READY", {"reset"})
  ELSE IF "stable" \in f /\ "warning" \notin f
                        THEN Decide("STABLE", {"stable"})
  ELSE IF "ready" \in f THEN Decide("READY", {"ready"})
  ELSE Nothing

FromReady(f) ==
  IF "stable" \in f /\ {"warning", "error"} \intersect f = {}
                        THEN Decide("STABLE", {"stable"})
  ELSE IF "repair" \in f /\ "error" \notin f
                        THEN Decide("REPAIR", {"repair"})
  ELSE Nothing

Decision_Overridden(n) ==
  LET d == CASE n.sm = "STABLE" -> FromStable(n.flags)
             [] n.sm = "REPAIR" -> FromRepair(n.flags)
             [] n.sm = "READY"  -> FromReady(n.flags)
             [] OTHER           -> Nothing
  IN  IF "force_stop" \notin n.flags THEN d
      ELSE IF d = Nothing THEN Decide("FORCE_STOP", {"force_stop"})
      ELSE Decide(d.to, d.uses \union {"force_stop"})

(* A force stop is asked for first, in any state; a node in FORCE_STOP     *)
(* looks at nothing else, its release request included.                    *)
Decision(n) ==
  CASE "force_stop" \in n.flags -> Decide("FORCE_STOP", {"force_stop"})
    [] "force_stop" \notin n.flags /\ n.sm = "STABLE" -> FromStable(n.flags)
    [] "force_stop" \notin n.flags /\ n.sm = "REPAIR" -> FromRepair(n.flags)
    [] "force_stop" \notin n.flags /\ n.sm = "READY"  -> FromReady(n.flags)
    [] OTHER -> Nothing

(* generate_signal_to_chenge_node_state: a decision overwrites a command   *)
(* that was still pending; no decision leaves it pending.                  *)
generate_signal(n) ==
  LET d == Decision(n)
  IN  IF d = Nothing THEN n
      ELSE [n EXCEPT !.change = TRUE,
                     !.cmd = d.to,
                     !.flags = @ \ d.uses]
-----------------------------------------------------------------------------
(* The transitions whose xxx_to_yyy_processing hook change_node_state      *)
(* calls; in every other case the hook is not reached and is_success stays *)
(* false.                                                                  *)
CallsHook(n) ==
  \/ n.cmd = "INITIALIZING" /\ n.sm # "FORCE_STOP"
  \/ n.cmd = "READY" /\ \/ n.sm \in {"STABLE", "REPAIR", "INITIALIZING"}
                        \/ n.sm = "FORCE_STOP" /\ "release" \in n.flags
  \/ n.cmd = "STABLE" /\ \/ n.sm = "REPAIR" /\ "error" \notin n.flags
                         \/ /\ n.sm = "READY"
                            /\ {"warning", "error"} \intersect n.flags = {}
  \/ n.cmd = "REPAIR" /\ \/ n.sm = "STABLE"
                         \/ n.sm = "READY" /\ "error" \notin n.flags
  \/ n.cmd = "FORCE_STOP"

(* The requests that change_node_state itself takes back.                  *)
Spent(n) ==
  IF n.cmd = "READY" /\ n.sm = "FORCE_STOP" THEN {"release"} ELSE {}

change_node_state_NoEnd(n, ok) ==
  IF n.cmd = n.sm THEN [n EXCEPT !.change = FALSE]
  ELSE IF CallsHook(n) /\ ok
  THEN [n EXCEPT !.change = FALSE, !.sm = n.cmd, !.flags = @ \ Spent(n)]
  ELSE [n EXCEPT !.change = FALSE, !.sm = "TRANSITING", !.prev = n.sm,
                 !.dest = n.cmd, !.expired = FALSE, !.flags = @ \ Spent(n)]

change_node_state_KeepSignal(n, ok) ==
  IF n.cmd = n.sm THEN n
  ELSE IF CallsHook(n) /\ ok THEN [n EXCEPT !.sm = n.cmd]
  ELSE [n EXCEPT !.sm = "TRANSITING", !.prev = n.sm, !.dest = n.cmd,
                 !.expired = FALSE, !.running = @ /\ n.cmd # "FORCE_STOP"]

(* change_node_state(cmd_node_state_machine_, true) when the hook, if it   *)
(* is called, returns ok; node_processing then drops the change signal.    *)
(* What does not succeed at once becomes a transition in progress, under a *)
(* watch dog that starts now. A force stop that its hook refuses ends the  *)
(* node.                                                                   *)
change_node_state(n, ok) ==
  LET settled == [n EXCEPT !.change = FALSE]
      hooked  == n.cmd # n.sm /\ CallsHook(n)
  IN  CASE n.cmd = n.sm -> settled
        [] hooked /\ ok -> [settled EXCEPT !.sm = n.cmd,
                                           !.flags = @ \ Spent(n)]
        [] OTHER ->
                    [settled EXCEPT
                       !.sm = "TRANSITING",
                       !.prev = n.sm,
                       !.dest = n.cmd,
                       !.expired = FALSE,
                       !.flags = @ \ Spent(n),
                       !.running = @ /\ n.cmd # "FORCE_STOP"]
=============================================================================
