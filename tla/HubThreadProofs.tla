--------------------------- MODULE HubThreadProofs ---------------------------
(***************************************************************************)
(* For every stack size, any commands and any number of calls: the hub and *)
(* the threads around it use the stack as CircularStacker says, so that    *)
(* what is proved of the stack holds of the one in the hub; the hub is     *)
(* never in transit; an End is not undone, and Start does not miss what it *)
(* polls for.                                                              *)
(***************************************************************************)
EXTENDS HubThread, CircularStackerProofs

Starting == {"off", "spawned", "reset", "configure"}

(* Until _configure has made the stack it is as a fresh one, so that the   *)
(* step of _configure is a stuttering step of the stack.                   *)
Fresh == /\ caller = "new" => at = "off"
         /\ at \in Starting => Init

LEMMA FreshInit == HubInit => Fresh
BY DEF HubInit, Fresh

(* Every step of the hub and its surroundings is one of the stack or none. *)
LEMMA RingStep ==
  ASSUME Fresh, HubNext
  PROVE  [Next]_vars /\ Fresh'
<1>1. CASE StartThread
  <2>1. UNCHANGED vars /\ at = "off" /\ caller' = "polling" /\ Init
    BY <1>1 DEF StartThread, Fresh, Starting
  <2> QED
    BY <2>1 DEF Fresh, Init, vars
<1>2. CASE Poll
  <2>1. UNCHANGED vars /\ at' = at /\ caller' = "free"
    BY <1>2 DEF Poll
  <2> QED
    BY <2>1 DEF Fresh, Init, vars
<1>3. CASE Begin \/ ResetStatus
  <2>1. UNCHANGED vars /\ at \in Starting /\ at # "off" /\ caller' = caller
    BY <1>3 DEF Begin, ResetStatus, Starting
  <2>2. at' \in {"reset", "configure"}
    BY <1>3 DEF Begin, ResetStatus
  <2>3. Init /\ caller # "new"
    BY <2>1 DEF Fresh
  <2> QED
    BY <2>1, <2>2, <2>3 DEF Fresh, Init, vars
<1>4. CASE Configure
  <2>1. Init /\ at' = "top" /\ caller' = caller /\ caller # "new"
    BY <1>4 DEF Configure, Fresh, Starting
  <2>2. UNCHANGED vars
    BY <1>4, <2>1 DEF Configure, Init, vars
  <2> QED
    BY <2>1, <2>2 DEF Fresh, Starting
<1>5. CASE ChangeState \/ EndHub \/ \E s \in Signal : Call(s)
  <2>1. UNCHANGED <<vars, at, caller>>
    <3>1. CASE ChangeState
      BY <3>1 DEF ChangeState
    <3>2. CASE EndHub
      BY <3>2 DEF EndHub
    <3>3. CASE \E s \in Signal : Call(s)
      BY <3>3 DEF Call
    <3> QED
      BY <1>5, <3>1, <3>2, <3>3
  <2> QED
    BY <2>1 DEF Fresh, Init, vars
<1>6. CASE LoopProcess
  <2>1. at = "top" /\ at' \in {"top", "pop"} /\ caller' = caller
        /\ (Check \/ UNCHANGED vars)
    BY <1>6 DEF LoopProcess, AtTop
  <2> QED
    BY <2>1 DEF Fresh, Starting, Next
<1>7. CASE PopCommand
  <2>1. at = "pop" /\ at' = "top" /\ caller' = caller /\ Pop
    BY <1>7 DEF PopCommand
  <2> QED
    BY <2>1 DEF Fresh, Starting, Next
<1>8. ASSUME NEW v \in Values, Send(v) PROVE [Next]_vars /\ Fresh'
  <2>1. at \in {"top", "pop"} /\ at' = at /\ caller' = caller /\ Push(v)
    BY <1>8 DEF Send, InLoop
  <2> QED
    BY <2>1 DEF Fresh, Starting, Next
<1>9. CASE Leave
  <2>1. UNCHANGED <<vars, caller>> /\ at = "top" /\ at' = "gone"
    BY <1>9 DEF Leave
  <2> QED
    BY <2>1 DEF Fresh, Starting, vars
<1> QED
  BY <1>1, <1>2, <1>3, <1>4, <1>5, <1>6, <1>7, <1>8, <1>9
  DEF HubNext, MainThread, Outside

(* The stack inside the hub behaves as a CircularStacker of its own: the   *)
(* hub looks before it pops, one command at a time, and makes the stack    *)
(* only once.                                                              *)
THEOREM StackInHub == HubSpec => Spec
<1>1. HubInit => Init /\ Fresh
  BY FreshInit DEF HubInit
<1>2. Fresh /\ [HubNext]_hubThreadVars => [Next]_vars /\ Fresh'
  <2>1. ASSUME Fresh, UNCHANGED hubThreadVars PROVE [Next]_vars /\ Fresh'
    BY <2>1 DEF hubThreadVars, vars, Fresh, Init
  <2> QED
    BY <2>1, RingStep
<1> QED
  BY <1>1, <1>2, PTL DEF HubSpec, Spec

(* size() and pop() around the pushes of the nodes: the hub pops no        *)
(* command that nobody sent, and the indices of its ring agree.            *)
THEOREM HubStackConsistent == HubSpec => [](RingConsistent /\ NoPhantomCommand)
BY StackInHub, RingConsistentHolds, NoPhantomCommandHolds, PTL

(* The hub's stack delivers what it accepted, once each and in order.      *)
THEOREM HubStackIsFifo == HubSpec => IsBoundedFifo
BY StackInHub, ImplementsFifo, PTL
-----------------------------------------------------------------------------
(* A change that waits for the next cycle belongs to the start.            *)
StartChange == {<<"UNCONFIGURED", "INITIALIZING">>, <<"INITIALIZING", "READY">>}

(* What the hub's members are while it runs, apart from their types: not   *)
(* in transit, and with no change pending but those of the start.          *)
Settled(m) == /\ m.sm # "TRANSITING"
              /\ m.change => <<m.sm, m.cmd>> \in StartChange

(* The types outside the ring.                                             *)
HubTypes ==
  /\ hub \in NodeRecord
  /\ at \in {"off", "spawned", "reset", "configure", "top", "pop", "gone"}
  /\ caller \in {"new", "polling", "free"}
  /\ ended \in BOOLEAN
  /\ calls \in 0 .. MaxCalls

HubInv ==
  /\ HubTypes
  /\ hub.sm # "TRANSITING"
  /\ at # "gone" => Settled(hub)
  /\ at \in Starting => ~hub.change
  /\ caller = "new" => at = "off"

(* Whatever generate_signal_to_chenge_node_state decides in a state other  *)
(* than TRANSITING is a transition that change_node_state has a hook for.  *)
LEMMA DecisionHasHook ==
  ASSUME NEW m \in NodeRecord, Settled(m), generate_signal(m).change
  PROVE  LET g == generate_signal(m) IN g.cmd \in State \ {"TRANSITING"} /\ CallsHook(g)
<1> DEFINE d == Decision(m)
           g == generate_signal(m)
<1>1. m.flags \subseteq Flag /\ m.sm \in State
  BY DEF NodeRecord
<1>2. CASE d = Nothing
  <2>1. g = m /\ <<m.sm, m.cmd>> \in StartChange
    BY <1>2 DEF generate_signal, Settled
  <2> QED
    BY <2>1 DEF StartChange, CallsHook, State
<1>3. CASE d # Nothing
  <2>1. g = [m EXCEPT !.change = TRUE, !.cmd = d.to, !.flags = @ \ d.uses]
    BY <1>3 DEF generate_signal
  <2>2. g.cmd = d.to /\ g.sm = m.sm /\ g.flags = m.flags \ d.uses
    BY <2>1 DEF NodeRecord
  <2> HIDE DEF d, g
  <2> SUFFICES d.to \in State \ {"TRANSITING"} /\ CallsHook(g)
    BY <2>2 DEF g
  <2>3. CASE d.to = "FORCE_STOP"
    BY <2>2, <2>3 DEF CallsHook, State
  <2>4. CASE d.to # "FORCE_STOP" /\ m.sm = "STABLE"
    <3>1. d.to \in {"READY", "REPAIR"}
      BY <1>3, <2>4 DEF d, Decision, FromStable, Decide, Nothing
    <3> QED
      BY <2>2, <2>4, <3>1 DEF CallsHook, State
  <2>5. CASE d.to # "FORCE_STOP" /\ m.sm = "REPAIR"
    <3>1. d.to = "READY" \/ (d.to = "STABLE" /\ "error" \notin m.flags)
      BY <1>3, <2>5 DEF d, Decision, FromRepair, Decide, Nothing
    <3> QED
      BY <2>2, <2>5, <3>1 DEF CallsHook, State
  <2>6. CASE d.to # "FORCE_STOP" /\ m.sm = "READY"
    <3>1. \/ d.to = "STABLE" /\ "warning" \notin m.flags /\ "error" \notin m.flags
          \/ d.to = "REPAIR" /\ "error" \notin m.flags
      BY <1>3, <2>6 DEF d, Decision, FromReady, Decide, Nothing
    <3>2. CASE d.to = "STABLE" /\ "warning" \notin m.flags /\ "error" \notin m.flags
      <4>1. {"warning", "error"} \intersect g.flags = {}
        BY <2>2, <3>2
      <4> QED
        BY <2>2, <2>6, <3>2, <4>1 DEF CallsHook, State
    <3>3. CASE d.to = "REPAIR" /\ "error" \notin m.flags
      BY <2>2, <2>6, <3>3 DEF CallsHook, State
    <3> QED
      BY <3>1, <3>2, <3>3
  <2>7. CASE d.to # "FORCE_STOP" /\ m.sm \notin {"STABLE", "REPAIR", "READY"}
    BY <1>3, <2>7 DEF d, Decision, Decide, Nothing
  <2> QED
    BY <2>3, <2>4, <2>5, <2>6, <2>7
<1> QED
  BY <1>2, <1>3

(* The decision itself moves nothing.                                      *)
LEMMA GeneratedOK ==
  ASSUME NEW m \in NodeRecord
  PROVE  LET g == generate_signal(m) IN
         g \in NodeRecord /\ g.sm = m.sm /\ g.running = m.running
         /\ (~g.change => g = m)
<1> DEFINE d == Decision(m)
<1>1. CASE d = Nothing
  BY <1>1 DEF generate_signal
<1>2. CASE d # Nothing
  <2>1. d.to \in State
    BY <1>2 DEF Decision, FromStable, FromRepair, FromReady, Decide, Nothing, State
  <2>2. generate_signal(m) = [m EXCEPT !.change = TRUE, !.cmd = d.to, !.flags = @ \ d.uses]
    BY <1>2 DEF generate_signal
  <2> HIDE DEF d
  <2> QED
    BY <2>1, <2>2 DEF NodeRecord
<1> QED
  BY <1>1, <1>2

(* A hook that returns true makes the change at once.                      *)
LEMMA ChangeAtOnce ==
  ASSUME NEW g \in NodeRecord, CallsHook(g)
  PROVE  LET r == change_node_state(g, TRUE) IN
         r \in NodeRecord /\ r.sm = g.cmd /\ ~r.change
<1>1. CASE g.cmd = g.sm
  BY <1>1 DEF change_node_state, NodeRecord
<1>2. CASE g.cmd # g.sm
  BY <1>2 DEF change_node_state, NodeRecord, Spent
<1> QED
  BY <1>1, <1>2

LEMMA HubInvInit == HubInit => HubInv
<1> SUFFICES ASSUME HubInit PROVE HubInv
  OBVIOUS
<1>1. hub \in NodeRecord /\ hub.sm = "UNCONFIGURED" /\ ~hub.change
  BY DEF HubInit, NodeRecord, State, Flag, Signal
<1>2. at = "off" /\ caller = "new" /\ ended = FALSE /\ calls = 0
  BY DEF HubInit
<1>3. calls \in 0 .. MaxCalls
  BY <1>2, BoundAssumption
<1>4. HubTypes
  BY <1>1, <1>2, <1>3 DEF HubTypes
<1> QED
  BY <1>1, <1>2, <1>4 DEF HubInv, Settled

(* One lemma per action that changes the members of the hub.               *)
LEMMA ChangeStateInv ==
  ASSUME HubInv, ChangeState
  PROVE  HubInv'
<1> DEFINE g == generate_signal(hub)
<1>1. hub \in NodeRecord /\ at = "top" /\ Settled(hub) /\ g.change
  BY DEF HubInv, HubTypes, ChangeState, AtTop, Generated
<1>2. g \in NodeRecord /\ g.cmd \in State \ {"TRANSITING"} /\ CallsHook(g)
  BY <1>1, GeneratedOK, DecisionHasHook
<1>3. hub' = change_node_state(g, TRUE)
  BY DEF ChangeState, Generated, HookReturns
<1>4. hub' \in NodeRecord /\ hub'.sm = g.cmd /\ ~hub'.change
  BY <1>2, <1>3, ChangeAtOnce
<1>5. UNCHANGED <<at, caller, ended, calls>>
  BY DEF ChangeState
<1>6. hub'.sm # "TRANSITING"
  BY <1>2, <1>4
<1> QED
  BY <1>1, <1>4, <1>5, <1>6 DEF HubInv, HubTypes, Settled

LEMMA LoopProcessInv ==
  ASSUME HubInv, LoopProcess
  PROVE  HubInv'
<1> DEFINE g == generate_signal(hub)
<1>1. hub \in NodeRecord /\ at = "top" /\ Settled(hub) /\ hub.sm # "TRANSITING"
  BY DEF HubInv, HubTypes, LoopProcess, AtTop
<1>2. g \in NodeRecord /\ g.sm = hub.sm /\ ~g.change /\ g = hub
  BY <1>1, GeneratedOK DEF LoopProcess, Generated
<1>3. hub' = AfterProcessing(hub)
  BY <1>2 DEF LoopProcess, Generated
<1>4. hub' \in NodeRecord /\ hub'.sm = hub.sm /\ Settled(hub')
  <2>1. CASE hub.sm = "UNCONFIGURED"
    BY <1>1, <1>3, <2>1 DEF AfterProcessing, NodeRecord, State, Settled, StartChange
  <2>2. CASE hub.sm = "INITIALIZING"
    BY <1>1, <1>3, <2>2 DEF AfterProcessing, NodeRecord, State, Settled, StartChange
  <2>3. CASE hub.sm \notin {"UNCONFIGURED", "INITIALIZING"}
    BY <1>1, <1>3, <2>3 DEF AfterProcessing
  <2> QED
    BY <2>1, <2>2, <2>3
<1>5. at' \in {"top", "pop"} /\ UNCHANGED <<caller, ended, calls>>
  BY <1>1 DEF LoopProcess
<1> QED
  BY <1>1, <1>4, <1>5 DEF HubInv, HubTypes, Starting

LEMMA HubInvStep == HubInv /\ [HubNext]_hubThreadVars => HubInv'
<1> SUFFICES ASSUME HubInv, [HubNext]_hubThreadVars PROVE HubInv'
  OBVIOUS
<1>1. hub \in NodeRecord /\ at # "gone" => Settled(hub)
  BY DEF HubInv
<1>2. CASE StartThread
  <2>1. at' = "spawned" /\ caller' = "polling" /\ UNCHANGED <<hub, ended, calls>>
    BY <1>2 DEF StartThread
  <2>2. at = "off" /\ ~hub.change
    BY <1>2 DEF StartThread, HubInv, Starting
  <2> QED
    BY <2>1, <2>2 DEF HubInv, HubTypes, Settled
<1>3. CASE Poll
  <2>1. caller' = "free" /\ UNCHANGED <<hub, at, ended, calls>>
    BY <1>3 DEF Poll
  <2> QED
    BY <2>1 DEF HubInv, HubTypes, Settled
<1>4. CASE Begin
  <2>1. at = "spawned" /\ at' = "reset" /\ UNCHANGED <<caller, ended, calls>>
        /\ hub' = [hub EXCEPT !.running = TRUE]
    BY <1>4 DEF Begin
  <2>2. hub' \in NodeRecord /\ hub'.sm = hub.sm /\ ~hub'.change
    BY <2>1 DEF HubInv, HubTypes, NodeRecord, Starting
  <2> QED
    BY <2>1, <2>2 DEF HubInv, HubTypes, Settled
<1>5. CASE ResetStatus
  <2>1. at = "reset" /\ at' = "configure" /\ UNCHANGED <<caller, ended, calls>>
        /\ hub' = [hub EXCEPT !.flags = {}, !.change = FALSE, !.dest = "READY"]
    BY <1>5 DEF ResetStatus
  <2>2. hub' \in NodeRecord /\ hub'.sm = hub.sm /\ ~hub'.change
    BY <2>1 DEF HubInv, HubTypes, NodeRecord, State
  <2> QED
    BY <2>1, <2>2 DEF HubInv, HubTypes, Settled
<1>6. CASE Configure
  <2>1. at = "configure" /\ at' = "top" /\ UNCHANGED <<hub, caller, ended, calls>>
    BY <1>6 DEF Configure
  <2> QED
    BY <2>1 DEF HubInv, HubTypes, Settled, Starting
<1>7. CASE ChangeState
  BY <1>7, ChangeStateInv
<1>8. CASE LoopProcess
  BY <1>8, LoopProcessInv
<1>9. CASE PopCommand
  <2>1. at = "pop" /\ at' = "top" /\ UNCHANGED <<hub, caller, ended, calls>>
    BY <1>9 DEF PopCommand
  <2> QED
    BY <2>1 DEF HubInv, HubTypes, Settled, Starting
<1>10. CASE Leave
  <2>1. at = "top" /\ at' = "gone" /\ UNCHANGED <<caller, ended, calls>>
        /\ hub' = [hub EXCEPT !.sm = "UNCONFIGURED"]
    BY <1>10 DEF Leave
  <2>2. hub' \in NodeRecord /\ hub'.sm = "UNCONFIGURED"
    BY <2>1 DEF HubInv, HubTypes, NodeRecord, State
  <2> QED
    BY <2>1, <2>2 DEF HubInv, HubTypes, Starting
<1>11. CASE EndHub
  <2>1. ended' = TRUE /\ UNCHANGED <<at, caller, calls>>
        /\ hub' = [hub EXCEPT !.running = FALSE]
    BY <1>11 DEF EndHub
  <2>2. hub' \in NodeRecord /\ hub'.sm = hub.sm /\ hub'.change = hub.change
        /\ hub'.cmd = hub.cmd
    BY <2>1 DEF HubInv, HubTypes, NodeRecord
  <2> QED
    BY <2>1, <2>2 DEF HubInv, HubTypes, Settled
<1>12. ASSUME NEW s \in Signal, Call(s) PROVE HubInv'
  <2>1. calls' = calls + 1 /\ calls < MaxCalls /\ UNCHANGED <<at, caller, ended>>
        /\ hub' = [hub EXCEPT !.flags = @ \union {s}]
    BY <1>12 DEF Call
  <2>2. hub' \in NodeRecord /\ hub'.sm = hub.sm /\ hub'.change = hub.change
        /\ hub'.cmd = hub.cmd
    BY <2>1 DEF HubInv, HubTypes, NodeRecord, Flag
  <2>3. calls' \in 0 .. MaxCalls
    BY <2>1, BoundAssumption DEF HubInv, HubTypes
  <2> QED
    BY <2>1, <2>2, <2>3 DEF HubInv, HubTypes, Settled
<1>13. ASSUME NEW v \in Values, Send(v) PROVE HubInv'
  <2>1. UNCHANGED <<hub, at, caller, ended, calls>>
    BY <1>13 DEF Send
  <2> QED
    BY <2>1 DEF HubInv, HubTypes, Settled
<1>14. CASE UNCHANGED hubThreadVars
  <2>1. UNCHANGED <<hub, at, caller, ended, calls>>
    BY <1>14 DEF hubThreadVars
  <2> QED
    BY <2>1 DEF HubInv, HubTypes, Settled
<1> QED
  BY <1>2, <1>3, <1>4, <1>5, <1>6, <1>7, <1>8, <1>9, <1>10, <1>11, <1>12,
     <1>13, <1>14 DEF HubNext, MainThread, Outside

(* Whatever public operations are called, in any number and at any moment, *)
(* and wherever its main thread is, the hub is not in TRANSITING, where it *)
(* would read no commands and have no way out.                             *)
THEOREM NeverInTransitHolds == HubSpec => []NeverInTransit
<1>1. HubInv => NeverInTransit
  BY DEF HubInv, NeverInTransit
<1> QED
  BY <1>1, HubInvInit, HubInvStep, PTL DEF HubSpec

(* The members of the hub, the places of its threads and its stack keep    *)
(* their types throughout.                                                 *)
THEOREM HubTypeOKHolds == HubSpec => []HubTypeOK
<1>1. HubInv /\ TypeOK => HubTypeOK
  BY DEF HubInv, HubTypes, HubTypeOK
<1> QED
  BY <1>1, HubInvInit, HubInvStep, StackInHub, TypeOKHolds, PTL DEF HubSpec
-----------------------------------------------------------------------------
(* Why End is final: it comes only from a thread that Start returned to,   *)
(* Start returns only when the hub runs, and the hub runs only when its    *)
(* main thread has left the one place where it could still set it running. *)
EndInv ==
  /\ ended => ~hub.running /\ caller = "free"
  /\ at \in {"off", "spawned"} => ~hub.running /\ caller # "free"

LEMMA EndInvInit == HubInit => EndInv
BY DEF HubInit, EndInv

LEMMA EndInvStep == HubInv /\ EndInv /\ [HubNext]_hubThreadVars => EndInv'
<1> SUFFICES ASSUME HubInv, EndInv, [HubNext]_hubThreadVars PROVE EndInv'
  OBVIOUS
<1> USE DEF EndInv
<1>1. hub \in NodeRecord
  BY DEF HubInv, HubTypes
<1>2. CASE StartThread
  <2>1. at' = "spawned" /\ caller' = "polling" /\ UNCHANGED <<hub, ended>>
        /\ caller = "new" /\ ~hub.running
    BY <1>2 DEF StartThread
  <2> QED
    BY <2>1
<1>3. CASE Poll
  <2>1. caller' = "free" /\ UNCHANGED <<hub, at, ended>> /\ hub.running
    BY <1>3 DEF Poll
  <2> QED
    BY <2>1
<1>4. CASE Begin
  <2>1. at = "spawned" /\ at' = "reset" /\ UNCHANGED <<caller, ended>>
    BY <1>4 DEF Begin
  <2> QED
    BY <2>1
<1>5. CASE ResetStatus \/ Leave
  <2>1. UNCHANGED <<caller, ended>> /\ at \in {"reset", "top"} /\ at' \in {"configure", "gone"}
    BY <1>5 DEF ResetStatus, Leave
  <2>2. hub'.running = hub.running
    BY <1>1, <1>5 DEF ResetStatus, Leave, NodeRecord
  <2> QED
    BY <2>1, <2>2
<1>6. CASE Configure \/ PopCommand
  <2>1. at' = "top" /\ UNCHANGED <<hub, caller, ended>>
    BY <1>6 DEF Configure, PopCommand
  <2> QED
    BY <2>1
<1>7. CASE ChangeState
  <2>1. at = "top" /\ hub.running /\ UNCHANGED <<at, caller, ended>>
    BY <1>7 DEF ChangeState, AtTop
  <2> QED
    BY <2>1
<1>8. CASE LoopProcess
  <2>1. at = "top" /\ hub.running /\ at' \in {"top", "pop"} /\ UNCHANGED <<caller, ended>>
    BY <1>8 DEF LoopProcess, AtTop
  <2> QED
    BY <2>1
<1>9. CASE EndHub
  <2>1. caller = "free" /\ UNCHANGED <<at, caller>> /\ hub' = [hub EXCEPT !.running = FALSE]
    BY <1>9 DEF EndHub
  <2>2. ~hub'.running
    BY <1>1, <2>1 DEF NodeRecord
  <2> QED
    BY <2>1, <2>2
<1>10. ASSUME NEW s \in Signal, Call(s) PROVE EndInv'
  <2>1. UNCHANGED <<at, caller, ended>> /\ hub' = [hub EXCEPT !.flags = @ \union {s}]
    BY <1>10 DEF Call
  <2>2. hub'.running = hub.running
    BY <1>1, <2>1 DEF NodeRecord
  <2> QED
    BY <2>1, <2>2
<1>11. ASSUME NEW v \in Values, Send(v) PROVE EndInv'
  BY <1>11 DEF Send
<1>12. CASE UNCHANGED hubThreadVars
  BY <1>12 DEF hubThreadVars
<1> QED
  BY <1>2, <1>3, <1>4, <1>5, <1>6, <1>7, <1>8, <1>9, <1>10, <1>11, <1>12
  DEF HubNext, MainThread, Outside

(* Whenever End is called, also right after Start came back and in the     *)
(* middle of what the main thread does to start: the hub it told to end    *)
(* does not run again.                                                     *)
THEOREM EndNotUndoneHolds == HubSpec => []EndNotUndone
<1>1. EndInv => EndNotUndone
  BY DEF EndInv, EndNotUndone
<1> QED
  BY <1>1, HubInvInit, HubInvStep, EndInvInit, EndInvStep, PTL DEF HubSpec
-----------------------------------------------------------------------------
(* Why Start comes back: only End and a change without a hook could stop   *)
(* the hub, and there is neither while Start polls.                        *)
LEMMA ChangeKeepsRunning ==
  ASSUME NEW g \in NodeRecord, CallsHook(g)
  PROVE  change_node_state(g, TRUE).running = g.running
<1>1. CASE g.cmd = g.sm
  BY <1>1 DEF change_node_state, NodeRecord
<1>2. CASE g.cmd # g.sm
  BY <1>2 DEF change_node_state, NodeRecord
<1> QED
  BY <1>1, <1>2

LEMMA PolledRunsStep ==
  HubInv /\ PolledRuns /\ [HubNext]_hubThreadVars => PolledRuns'
<1> SUFFICES ASSUME HubInv, PolledRuns, [HubNext]_hubThreadVars PROVE PolledRuns'
  OBVIOUS
<1> USE DEF PolledRuns
<1>1. hub \in NodeRecord
  BY DEF HubInv, HubTypes
<1>2. CASE StartThread \/ Poll
  BY <1>2 DEF StartThread, Poll
<1>3. CASE Begin
  <2>1. hub' = [hub EXCEPT !.running = TRUE]
    BY <1>3 DEF Begin
  <2>2. hub'.running
    BY <1>1, <2>1 DEF NodeRecord
  <2> QED
    BY <2>2
<1>4. CASE ResetStatus
  <2>1. caller' = caller /\ at = "reset"
        /\ hub' = [hub EXCEPT !.flags = {}, !.change = FALSE, !.dest = "READY"]
    BY <1>4 DEF ResetStatus
  <2>2. hub'.running = hub.running
    BY <1>1, <2>1 DEF NodeRecord
  <2> QED
    BY <2>1, <2>2
<1>5. CASE Configure \/ PopCommand
  <2>1. at # "spawned" /\ UNCHANGED <<hub, caller>>
    BY <1>5 DEF Configure, PopCommand
  <2> QED
    BY <2>1
<1>6. CASE ChangeState
  <2> DEFINE g == generate_signal(hub)
  <2>1. at = "top" /\ hub.running /\ Settled(hub) /\ g.change
    BY <1>6 DEF HubInv, ChangeState, AtTop, Generated
  <2>2. g \in NodeRecord /\ CallsHook(g) /\ g.running = hub.running
    BY <1>1, <2>1, GeneratedOK, DecisionHasHook
  <2>3. hub' = change_node_state(g, TRUE)
    BY <1>6 DEF ChangeState, Generated, HookReturns
  <2>4. hub'.running = g.running
    BY <2>2, <2>3, ChangeKeepsRunning
  <2> QED
    BY <2>1, <2>2, <2>4
<1>7. CASE LoopProcess
  <2> DEFINE g == generate_signal(hub)
  <2>1. hub.running /\ hub' = AfterProcessing(g)
    BY <1>7 DEF LoopProcess, AtTop, Generated
  <2>2. g \in NodeRecord /\ g.running = hub.running
    BY <1>1, GeneratedOK
  <2> HIDE DEF g
  <2>3. AfterProcessing(g).running = g.running
    <3>1. CASE g.sm = "UNCONFIGURED"
      BY <2>2, <3>1 DEF AfterProcessing, NodeRecord
    <3>2. CASE g.sm = "INITIALIZING"
      BY <2>2, <3>2 DEF AfterProcessing, NodeRecord
    <3>3. CASE g.sm \notin {"UNCONFIGURED", "INITIALIZING"}
      BY <3>3 DEF AfterProcessing
    <3> QED
      BY <3>1, <3>2, <3>3
  <2> QED
    BY <2>1, <2>2, <2>3
<1>8. CASE Leave
  <2>1. caller' = caller /\ at = "top" /\ ~hub.running
    BY <1>8 DEF Leave
  <2> QED
    BY <2>1
<1>9. CASE EndHub \/ \E s \in Signal : Call(s)
  BY <1>9 DEF EndHub, Call
<1>10. ASSUME NEW v \in Values, Send(v) PROVE PolledRuns'
  BY <1>10 DEF Send
<1>11. CASE UNCHANGED hubThreadVars
  BY <1>11 DEF hubThreadVars
<1> QED
  BY <1>2, <1>3, <1>4, <1>5, <1>6, <1>7, <1>8, <1>9, <1>10, <1>11
  DEF HubNext, MainThread, Outside

(* The wait of Start is not in vain: once the thread it made runs, the hub *)
(* goes on running until Start has seen it. (That Start then comes back,   *)
(* needs fairness and stays with TLC.)                                     *)
THEOREM PolledRunsHolds == HubSpec => []PolledRuns
<1>1. HubInit => PolledRuns
  BY DEF HubInit, PolledRuns
<1> QED
  BY <1>1, HubInvInit, HubInvStep, PolledRunsStep, PTL DEF HubSpec
=============================================================================
