# bp_system in TLA+

A model of bp_system, the behaviour system for robot programs in `src/`: nodes
that each run a state machine in a thread of their own, a hub that starts them
and hands them each other's shared memory, and the command stacks between them.
TLC checks small instances; TLAPS proves the main invariants for every value of
the constants.

Paths without a directory are those of `bp_system/_common/` and
`bp_system/b_system/`.

## 1. The system: inventory

| part | state | operations | who calls it |
|---|---|---|---|
| `circular_stacker` (stacker.hpp) | ring buffer, head, tail, count, mutex | push, pop, size | any thread pushes; the owner's main thread looks at size() and pops |
| `node` (node.cpp) | state machine variables, six requests, error and warning, running flag | Start, End, Reset, PushForceStop, ReleaseForceStop, ChangeStable/Repair/Ready; one main thread, and a receive and a send thread if UDP is used | users, subclasses, the hub |
| `b_node` (b_node.cpp) | maps of the nodes it requires (state, command stack, system command stack), its id | one system command per cycle, orders to the required nodes with each change, transit with watch dog and scan, requests to the hub | its main thread; the hub fills the maps |
| `hub` (hub.cpp) | maps of names, ids, running and waiting nodes, the next id | exec_node, pick_shared_ptr, delete_shared_ptr, exit_node; one hub command per cycle | main, and the hub's own main thread |
| `NodeStore` | prototypes of the node types | set_node, get_node (a clone) | main, exec_node |
| `CommUdp` | sockets | send, receive | the receive and the send thread |
| example nodes | user data; the servo's counter and command stack | hooks for states and changes; the servo's commands | the framework |
| `main.cpp` | - | starts the hub, stores the types, executes the root, asks the hub for STABLE, ends it | - |

How they interact. A node publishes its state in shared memory
(`node_state_->state_code.state_machine`); the nodes that require it read that
memory while its thread writes it. Orders go the other way, as system commands
on the required node's stack. The hub is asked over its own command stack
(START_NODE, PICK_SHARED_PTR, DELETE_SHARED_PTR), and answers by writing into
the maps of a running node and by pushing REQUIRE_NODE_LIST. Nothing but the
stacks has a lock.

What is hard, and what makes each part correct:

* **Stack.** `size()` takes no lock. It must be a bounded FIFO queue all the
  same, and the owner must never pop an empty one (a default command is a real
  one: its type 0 is CHANGE_STABLE for a node and START_NODE for the hub).
* **Node.** Requests, orders, errors, time-outs and an END come in any order;
  the command a change was decided for and the state it is made in may differ.
  The node must keep to the arrows of the README's state machine, must not stay
  on one for ever, and must obey a force stop.
* **Tree of nodes.** Orders travel down through stacks of limited size, states
  travel up through memory that is read one node at a time, and an order may be
  carried out before the node that gives it has left its state. A node that
  waits must not arrive before all it requires have, nor may they leave before
  it begins to order them away; no order may be lost on the way; a force stop
  must get to the leaves; an order to go STABLE must not get stuck half-way.
* **Start.** `exec_node` runs in two threads over unlocked maps; nodes are wired
  while they run. Ids must be unique, nobody may be started twice, everybody must
  be wired to what it requires and to nothing else, and the start must end.

* **The hub as a node.** It has a start, a state machine and requests of its own,
  and all the others depend on it reading its stack. It must never be in
  TRANSITING (its `transit_processing` is empty), must execute what it accepted
  in whatever state it is put, and an END that comes during its own start must
  not be undone.
* **A pair at work** (doc/example_sub_pub.md). One node steers the other through
  a stack of five commands, on a state that may be as old as that stack is long,
  and servo swallows the steps that reach it outside STABLE. The overshoot must
  stay bounded, both must get STABLE, again after a call that took them out of
  it, and the counter must get to zero.

Every hazard is listed with its line and the properties aimed at it in
`PROJECT.json`.

## 2. The modules

| module | models | builds on |
|---|---|---|
| `Fifo` | what push does to the contents of a stack, as a value | - |
| `BoundedFifo` | abstract: what a stack promises its owner and the pushers | `Fifo` |
| `CircularStacker` | the ring buffer of stacker.hpp, step by step | refines `BoundedFifo` |
| `CircularStackerProofs` | its proofs | |
| `NodeCore` | node.cpp's two decision procedures as operators on one node's members | - |
| `StateMachine` | abstract: the state machine of README.md | - |
| `BNode` | the main loop of the nodes, orders, scan, watch dog, public operations, UDP arrival | `NodeCore`, `Fifo` |
| `NodeTree` | a running system: `BNode` under an environment of calls, errors, UDP | refines `StateMachine` |
| `BNodeProofs`, `NodeTreeProofs` | the proofs about both; the lemmas about `BNode` serve any system of nodes | |
| `StartOrder` | abstract: what the hub promises of the start of a system | - |
| `Hub` | the start of a system: `BNode` with main and the hub | refines `StateMachine` and `StartOrder` |
| `HubProofs`, `HubWiringProofs`, `HubIdProofs` | the proofs about it, on the lemmas of `BNodeProofs` | |
| `HubThread` | the hub as a node: Start and its wait, the main thread's own start, its states, stack and end, the calls of main | `CircularStacker`, `NodeCore` |
| `HubThreadProofs` | its proofs, on those of the stack | `CircularStackerProofs` |
| `Servo` | the example pair: control brings servo to STABLE and its counter to zero | `BNode` |
| `ServoProofs` | its proofs | `BNodeProofs` |
| `MCHubThread`, `MCNodeTree`, `MCHub`, `MCServo` | the instances for TLC | |

### State and code

* `CircularStacker`: head, tail, count, buffer are the members; `armed` is the
  owner between `size() != 0` and `pop()`; `out` is what it popped last. push
  and pop hold the mutex and are one step each.
* `BNode!node[n]`: `sm`, `cmd`, `prev`, `dest` are `node_state_machine_`,
  `cmd_node_state_machine_`, `prev_node_state_machine_`,
  `transit_destination_node_state_machine_`; `change` is
  `signal_to_change_node_state`; `flags` holds the six `signal_to_*` requests and
  the two `is_occured_*`; `expired` says that the watch dog time has passed since
  `transit_start_time_`; `running` is `is_main_thread_running_`.
* `pub[n]` is the published state, `sysq[n]` the system command stack,
  `stateMap[n]` and `sysMap[n]` the keys of `b_node_state_map` and
  `b_node_sys_cmd_map`, `hubq` the hub's stack. `pc[n]` and `left[n]` are the
  place in a cycle and what the scan has not read yet.
* `Hub`: `claimed`, `idOf`, `listed`, `waiting`, `next` are the hub's maps
  and its next id; `job[t]` is where thread t is in `exec_node` or
  `pick_shared_ptr`; `todo` is what main has still to execute.

* `HubThread`: `hub` are the hub's members (a record as `node[n]`), `at` is where
  its main thread is (from "off" over "spawned", "reset", "configure" to the loop,
  "top" and "pop", and "gone"), `caller` is the thread that called Start and
  polls; head to out are its ring of commands.
* `Servo`: the variables of `BNode` for control and servo, `user[n]` (the
  user's processing of this cycle is still to come), `intent` (what control
  decided, having looked at servo), `cmdq` (servo's `node_cmd_` stack), `count`
  (`encoder_count`); `last` only records which node ended a cycle last, and
  `calls` how many calls came from outside.

### The steps, and why they may be that large

A cycle of a main loop that runs the processing of a state is one action,
`LoopProcess` (publish, pop and execute one system command). A cycle that changes
the state is two: `GiveOrders`, where the hook of b_node pushes the orders
(b_node.cpp:427-539), and `ChangeState`, where the user's hook has returned, the
state is changed (node.cpp:369-380) and published (178). In between the required
nodes may act on the orders, and the node still is, and announces, where it was.
`pc` is "hook" then. A cycle in TRANSITING is `Transit` (processing of the
previous state), then `ReadState` for each required node and `Commit`; with an
expired watch dog `RollBack` comes first (back to the previous state, orders to
the required nodes; `pc` is "back" after it). What other threads can see of a
cycle are the published state, the pushes and the popped command. The published
states are read by the scan of other nodes, one step per read; a request flag is
only raised by others and only lowered by the read that acts on it; each stack
has one reader. Two approximations remain: the commands that one hook or one
execution pushes appear at once, and the maps of a node change in one step each
(section 7).

`Exit` is the end of the main thread. `Request`, `End`, `Receive` and `Notice`
are what comes from outside: a call, an END, a UDP system command, and a hook of
the user that sets or clears an error or a warning. What the user's hook for a
change to state s returns is the constant `Hook[n][s]`, a set of Booleans.

In `Hub`, `exec_node` is four steps in either thread: `ClaimName`, `FindId`,
`Register`, `Start`. They are the points between which the two threads (and
the node just started) can get in each other's way. (`Register` reads
`allocated_node_id` once, the code once for each map: with a single root nobody
moves it meanwhile, and with two the run `two_roots` has its counterexample
already.) `pick_shared_ptr` is
`HubPops`, then `WireState` and `WireOrders`, because the node wired is running.

In `HubThread`, Start is `StartThread` and `Poll` on the caller's side and
`Begin`, `ResetStatus`, `Configure` on the new thread's; a cycle that pops is two
steps, `LoopProcess` with `size()` and `PopCommand`, with pushes in between. The
commands are opaque there: what they do is `Hub`'s subject. In `Servo`, a cycle
that runs the processing of a state is followed by the user's part of it: `Look`
and `Act` for control (its reads of servo's state, then the push; the code reads
the counter once or twice for one command, the model once), `Serve` for servo.
`Call` is a call of control's public operations: one that leaves STABLE makes
control order servo out of it with steps still in servo's stack, which
`Moved` then swallows (b_example_sub_servo.cpp:11) or executes in a later stay
in STABLE.

### What `FollowsStateMachine` promises

`StateMachine` is the README's section "State Machine" as a specification:
five announced states, UNCONFIGURED before them, TRANSITING on the arrows; a
change is made at once or waits on its arrow, then arrives or returns. Two
things in it come from the code, where the README is silent: a force stop that
cannot be carried out makes the node quit, and there is no way out of FORCE_STOP
but the end of the node. (`ReleaseForceStop` and RELEASE_FORCE_STOP only raise
a flag: `generate_signal_to_chenge_node_state` has no case for FORCE_STOP, so
the branch of `change_node_state` that would use the flag, node.cpp:296-309, is
never reached. That looks like an oversight; but no text of the repository says
that a released node returns to READY: the README's diagram is an external image.
So it is stated here and in `StateMachine`, and is no run.)

### What `StartsInOrder` promises

`StartOrder` is the start of a system without `exec_node`, ids, commands and
stacks: three sets, the nodes started, whose state each one sees, and whom each
one commands. A node is started once, as a root or because a started node
requires it; its state is handed to one started node that requires it and to no
second one; its stack follows its state. The mapping of `Hub` onto it is the
keys of the maps of the nodes and `Started`, the nodes beyond the point in
`exec_node` where `Start` is called. That only one user is served is in the
promise because the code does so (run `shared`); it is no wish of the documents.

## 3. The runs

All bounds are constants of the cfg files. Runs that may stop (all nodes ended,
no inputs left) switch the deadlock check off; `servo` keeps it.

| run | instance | checks |
|---|---|---|
| `hub_thread` | the hub, a ring of 3 slots, 2 kinds of commands, 3 calls out of all public operations, and End | `HubTypeOK`, `RingConsistent`, `NoPhantomCommand`, `NeverInTransit`, `EndNotUndone`, `PolledRuns`, `IsBoundedFifo`, `AcceptedIsServed`, `StartReturns`, `EndIsFinal`, `StableServed` |
| `pair` | a parent and a child, all hooks arbitrary, 2 inputs out of all calls and UDP commands to either, errors and warnings of the parent, watch dogs on | `TypeOK`, `WaitsOnArrow`, `OnlyForceStopPending`, `FollowsStateMachine`, `ErrorObeyed` |
| `tree` | a parent that waits for 2 nodes, one of which waits for a leaf; 4 calls, no watch dog | `MovesTogether`, `NobodyWaitsInVain`, `ForceStopTravels`, `ForceStopCascades`, `StableReached` |
| `answers` | a waiting parent and its child, 2 calls, errors, watch dogs | `ForceStopObeyed`, `TransitEnds`, `PersistentErrorEndsWork` |
| `startup` | a chain of 3 nodes from nothing, one hook that takes its time, watch dogs below the root, an END by UDP | `TypeOK`, `OwnIds`, `PickFindsNode`, `NoSecondStart`, `WiredAsRequired`, `ReadyIsWired`, `FollowsStateMachine`, `StartsInOrder`, `NothingForgotten`, `StartCompletes` |
| `servo` | control and servo, stacks of 5, 2 and 10 as configured, a counter that starts anywhere in -20 .. 20, a call of ChangeReady or Reset at any time, the watch dog of control | `TypeOK`, `OvershootBounded`, `BothGetStable`, `SettlesInBand`, `ConvergesInTurn` |

What they show, beyond the types: `hub_thread`, that the missing lock around
`size()` does no harm, that no order of calls takes the hub where it stops
reading commands, and that an End that meets the start of the main thread is
not undone. `pair`, that a node stays on the arrows of the README whatever
meets in it, and that nothing decided or ordered before takes it past an error it
knows of. `tree`, that states travel up and orders down three levels without
anyone arriving too early or being left behind, though the required nodes may
carry an order out before the node that gave it has left its state, and that at
every moment of a transition, or of a force stop, each required node has what
will take it there. `answers`, that what must be answered is.
`startup`, that the two-step wiring of running nodes by an unlocked hub comes
out right with one root, that a node which waits for READY has everything it
requires when it gets there, and that no request, name or wire is left lying
when the hub and the stacks come to rest. `servo`, that the pair settles although
commands are dropped by full stacks and control acts on old counts, and that it
gets STABLE and settles again when it was taken out of STABLE with steps in the
stack.

Bounds. `SysCap` and `HubCap` are 2 (3 or 4 in the starts): stacks do fill
up and drop commands in `pair` and `servo`. Three slots make the ring wrap at every
distance between head and tail. `MaxInputs` bounds calls and UDP commands
together: two are enough for a request to meet another one in any state the
first one leads to, four steer a tree to STABLE, back, and into a force stop.
`MaxCalls` bounds the calls to the hub: three lead it through any two changes
and a third that meets them. Errors and warnings and expiries are not bounded,
nor are the commands sent to the hub. Two levels give every relation
between one parent and one child; the third level is there for a node that is
both.

`MovesTogether`, `NobodyWaitsInVain` and `ForceStopTravels` speak of a node whose
hooks wait, as the README asks of a node that wants to move together with others
(a node whose hook returns true does not wait), and of the nodes that it alone
steers (`Steady`): no other node requires them, no input goes to them directly,
and neither has a watch dog, because a roll back takes a parent out of step by
design. `MovesTogether` holds from the arrival of the node until it begins to
give its next orders (`~UnderWay`). After that a required node may be ahead: it may
have left the state that the other still announces, because the orders are on
the stacks before the user's hook is asked and the state changes (b_node.cpp:430,
443). What holds then is `NobodyWaitsInVain`. `ForceStopObeyed` speaks of a node
that has no change under way when the stop is asked for; a stop that arrives
while a hook is being asked may meet a node in transit in the next cycle, which is
the run `stop_in_transit`.
`StartCompletes` assumes what the code does not ensure: that the hub's stack
never fills, and that no hook refuses to initialize for ever. `NothingForgotten`
assumes that no stack is filled up (`WithRoom`; a command that the hub's full stack
drops is not sent again), and it speaks of the moments at which nothing is
on its way (`AtRest`): a node that waits for INITIALIZING leaves its
REQUIRE_NODE_LIST in its stack for ever, which is the run `init_wait` and not a
rest. `AcceptedIsServed`
rests on `MaxCalls`: a cycle that changes the state executes no command, so a
caller that asked for a change in each would keep the hub from its stack.
`Servo` begins when servo is READY and control waits for it. One call is enough to
take the pair out of STABLE with a full stack, and back; a force stop would end
its work for good and is left out, as is a call to servo itself. The watch dog of
control expires only when servo has acted on all its orders and requests and
still is not where control waits for it (`InVain`): transit_watch_dog_time is 20
periods of either loop, and servo needs a few to answer. An expiry at any time
would take control out of every transition before servo could arrive.

`SettlesInBand` and `OvershootBounded` hold for any speeds of the two loops:
the counter may start anywhere, but a step never takes it beyond zero by more than
the five commands of the stack.
That the counter gets to zero, as doc/example_sub_pub.md has it, does not: a
control that runs several cycles for one of servo's fills the stack, and
overshoots by as much, for ever. `ConvergesInTurn` states the condition: from
some time on the loops, which have the same period, take turns.

### Fairness

Every main thread is a loop with a sleep, as is the hub's: weak fairness for the
cycle of each node, its exit and the hub's step; main's calls are a straight
line. Time passes: weak fairness for `Elapse` of the nodes in `WatchDogs`, the
others have a watch dog time that never matters. The thread that calls
Start polls in a loop. In `Servo` both main threads are fair, each with its
part of BNode and of the user in turn, and so is the watch dog of control. Nobody is obliged to call, to send, to
fail, or to notice an error.

### Disagreements found

Six runs have a counterexample; each is a property that the documentation or a
comment states.

| run | property | what happens |
|---|---|---|
| `expiry` | `ExpiryIsFinal` | the watch dog expires: `transit_processing` sets the state back and orders the required nodes back (b_node.cpp:317-345), and the scan in the same call may still commit to the destination (391). Parent and children are now on different sides. README.md:55 promises the return. |
| `stop_in_transit` | `ForceStopKept` | PushForceStop in TRANSITING lowers the request and keeps it as a pending command only (node.cpp:186-188). After the transit a reset, an error or another request overwrites the command (208): the node never stops. The comment in line 183 wants a pending change kept. |
| `shared` | `EveryRequirementWired` | the second node that requires a common node is turned away with "node_name is already used" (hub.cpp:270) and never wired. abstruct_of_b_system.md:33 promises the shared memory to each. Its transitions can then only end by roll back. |
| `two_roots` | `OwnIds` | main's and the hub's `exec_node` look for a free id at the same time (hub.cpp:232, 278). |
| `init_wait` | `RequiredNodesStart` | false from the hook for INITIALIZING: in transit from UNCONFIGURED no system command is read (b_node.cpp:366), so REQUIRE_NODE_LIST is not, and nobody starts the nodes it waits for. |
| `start_timeout` | `NobodyStable` | false from the hook for READY during the start, and the watch dog expires: the roll back to INITIALIZING sends command type 0, CHANGE_STABLE (b_node.cpp:339). |

## 4. What is proved

All theorems hold for every value of the constants, under the assumptions
named in the modules: stack sizes are natural numbers (0 included),
requirement lists are sequences of nodes (cycles included), the hooks' answers
are any Booleans, the inputs any calls, commands and errors, and no root is
required by a node (the hub ends the program on a name that main uses twice).

* `CircularStackerProofs`. The inductive invariant is `TypeOK /\ RingConsistent
  /\ NoPhantomCommand`: the indices alone are not inductive, because nothing else
  says that the slot push writes is free. From it: `TypeOKHolds`,
  `NoPhantomCommandHolds`, and `ImplementsFifo`, that the ring implements the
  bounded FIFO queue, and `RingConsistentHolds`.
  The core of the refinement is `ContentsIs`, the contents of the ring without
  the remainder, so that push appends and pop takes the head. `Size = 0` is a
  case of its own: the ring then divides by zero nowhere, because push refuses.
* `BNodeProofs`. For each action of `BNode`, that it keeps the types and, for
  the one node it moves, `NodeOK`: a node in transit is on an arrow of the
  state machine, or refused a force stop and is on its way out (`TransitOK`);
  a pending command is a force stop or follows an arrow from the state the node is
  in (`PendingOK`). `PendingOK` is
  what makes `WaitsOnArrow` inductive: a change is made one cycle after it
  was decided, in a state that must still be the one it was decided for. In
  READY, STABLE and REPAIR no change is pending but a force stop
  (`StopPending`), except while a hook is being asked (`HookOK`): what those states
  do in a cycle was decided in that cycle. And
  `StepRefines`: each such step is a step of `StateMachine` or a stutter.
* `NodeTreeProofs`. `NextIsStep` shows that every step of the running system is
  one of those; `InvHolds`, `TypeOKHolds`, `WaitsOnArrowHolds`,
  `OnlyForceStopPendingHolds` and `ImplementsStateMachine` follow.
  `ErrorObeyedHolds` is an action property and needs `StopPending`: without it a
  change decided before the error could be made after it.
  `MovesTogetherHolds` holds of every system: what it needs is said of the two nodes
  that it speaks of (`Steady`), and the rest of the system may have cycles, second
  users, calls to any node and watch dogs. Without it the property does not
  hold: an order from a second user, a call to the child, or a roll back takes the
  child where its parent is not. Sizes of stacks (0 included), depth, width, the
  hooks of the nodes that do not wait, and the inputs are arbitrary. The
  inductive invariant `Together` says for each such edge (`Edge`) where the child is
  when the parent is at s: `Settled` at s, nothing being asked of it; and from the
  moment the parent has given the orders to leave p for t until it arrives: the
  child `Follows`, being still at p with the order in its stack (or dropped by
  it), with the request raised, in the middle of its own change, in transit
  itself, or already settled at t; and that what the parent has seen in its scan
  is still so. It does not matter for `Follows` whether the parent has left p
  yet. `Kind` sums up what a step can be for the node that makes it;
  from there the proof has three cases, the step of the parent, of the child,
  and of a third node (`EdgeParent`, `EdgeChild`, `EdgeOther`). That a dropped
  order leaves the parent waiting is no violation: that is liveness.
  `NobodyWaitsInVainHolds` and `ForceStopTravelsHolds` come from the same
  invariant, whose edges also say that the child of a stopping node is `Stopped`
  or `ToldToStop`. They assume `SysCap # 0`, a stack with room for one
  command: the invariant shows that the stack is empty whenever an order is
  pushed, so one place is enough for no order to be dropped. They are the
  part of `StableReached` and `ForceStopCascades` that needs no fairness.
* `HubProofs`. `StartInv` speaks of the nodes that are `Fresh`, not yet started:
  nobody has touched them (`Untouched`: as constructed, no command, nobody wired
  to them), no command to the hub comes from them, and at most one thread is
  executing each of them (`JobsOK`). Only `Start` ends this; every other step
  keeps it because commands and wires come from nodes that run. From it
  `StartTypeOKHolds`, `NoSecondStartHolds` and, with `StepRefines`,
  `StartImplementsStateMachine`.
* `HubWiringProofs`. `Users(n)` are the nodes that watch n, wait for it or are
  about to be wired to it, wherever the hub keeps that at the moment. It is empty
  until n is executed and one node at most from then on (`UsersOK`): the name
  check of `exec_node` is what the proof rests on. `WiredAsRequiredHolds` and
  `PickFindsNodeHolds` follow. `StartsInOrderHolds`, the refinement of
  `StartOrder`, needs `WantedOK` too: what a thread is executing is a root, or
  required by a started node. The proof has a step for each abstract action (`StartIsStartNode`,
  `WireIsHandState`, `WireIsHandOrders`), the others stutter.
  `ReadyIsWiredHolds` adds `FullInv`: a node whose hook for READY waits, and that
  is at work or comes from there, has all its states (`WiredFirst`), and what it sees but
  does not command is what the hub is just handing over (`LastWire`). The code
  compares only two numbers, the size of the map of states and the length of the
  requirement list, before it scans; `AllRequired` shows by counting that equal
  numbers mean equal sets.
  `NothingForgottenHolds` assumes `OneUser`, that no node is required by two; the
  run `shared` shows what happens otherwise. Its invariant `NeedsInv` says where
  each requirement is at any moment: for a node that has made itself known, its
  PICK_SHARED_PTR or the hub's REQUIRE_NODE_LIST is on its way, or each node it
  requires is claimed or its START_NODE is in the hub's stack (`Asking`); a node
  being executed is so for its user (`Waiters`); and a claimed one is being
  executed, is waited for, with its PICK_SHARED_PTR on its way once it is known,
  or is wired (`Handing`).
  At rest only "handed over" is left. A node is counted as known also from the
  order to initialize on, during a roll back and a scan (`Here`), because a node whose watch dog expired on the way to INITIALIZING
  may still arrive there (run `expiry`); without that the invariant is not
  inductive.
* `HubIdProofs`. `OwnIdsHolds` assumes a single root (`Roots = {r}`): the
  hub has nothing to execute before main has started that root, so that the two
  threads never search at the same time. The run `two_roots` shows why the
  assumption is there.
* `HubThreadProofs`. `StackInHub` shows that every behaviour of the hub and the
  threads around it is one of `CircularStacker`, so that the theorems of the stack
  hold in the hub (`HubStackConsistent`, `HubStackIsFifo`); `_configure` makes
  the stack, but does so before anyone uses it (`Fresh`). `NeverInTransitHolds`
  and `HubTypeOKHolds` need that the hub decides for a change along an arrow or
  for a force stop only, and makes it at once since every hook returns true.
  `EndNotUndoneHolds`: End comes from a thread that Start returned to, Start
  returns when the hub runs, and then the main thread is past the place where it
  sets the flag (`EndInv`). `PolledRunsHolds`: until then nothing clears it. The
  two are what `EndIsFinal` and `StartReturns` rest on apart from fairness.
* `ServoProofs`. `OvershootBoundedHolds` needs to know how far the commands on
  their way can still take the counter. `SwingInv` follows `Lowest` and `Highest`,
  where the counter would be after all the SUB_COUNT, or all the ADD_COUNT, in the
  stack: control pushes SUB_COUNT only when it saw the counter above zero, and
  between its look and its push the counter may only have moved by commands
  already counted. A step that servo swallows takes a command out and leaves the
  counter, which brings `Highest` and `Lowest` closer; so nothing need be known of
  the states of the two nodes, and the theorem holds for any calls.
  `TypeOKHolds` has the members of the nodes from the lemmas of `BNodeProofs`
  (`PairInv`). Both hold for all stack sizes, starts of the counter and calls.

## 5. What is only model-checked

Liveness (`AcceptedIsServed`, `StartReturns`, `EndIsFinal`, `StableServed`,
`ForceStopObeyed`, `TransitEnds`, `PersistentErrorEndsWork`, `ForceStopCascades`,
`StableReached`, `StartCompletes`, `BothGetStable`, `SettlesInBand`,
`ConvergesInTurn`): TLAPS does not prove properties from fairness. The six
counterexamples of section 3 are TLC's as well. Every invariant and action
property of a passing run, and all the refinements (`IsBoundedFifo`,
`FollowsStateMachine` twice, `StartsInOrder`), are proved for all constants,
`MovesTogether`, `NobodyWaitsInVain`, `ForceStopTravels`, `OwnIds` and
`NothingForgotten` under the assumptions named above.

## 6. The plan

1. (done) The stack and its refinement; `NodeCore`, `BNode`, `NodeTree` and the
   state machine; `Hub` and the start; `HubThread`; `Servo`.
2. (done) The proofs of section 4.
3. (done) What carries the arguments for liveness, as invariants: `PolledRuns`,
   `EndNotUndone`, `NobodyWaitsInVain`, `ForceStopTravels`, `ReadyIsWired`,
   `NothingForgotten`; the order of a start (`StartsInOrder`); `ErrorObeyed`.
4. What is left: that the hub, too, implements `StateMachine`; what of
   `MovesTogether` survives watch dogs; and for `Servo` that control's order for
   STABLE is never lost for good, though full stacks drop some of its copies.

## 7. What is not modelled

* `_extra/nlohmann/` is a vendored library; its 24,850 lines are seven eighths of
  the repository. `comm_udp` is sockets, and every configuration file of the
  repository switches it off: a UDP command is an arrival at any time (`Receive`).
* The payload of START_NODE: the msgpack encoding is represented by the node it
  names. Logging, names of states, json files and their errors, the send thread.
* `is_occured_error_` and `is_occured_warning_` are written by the user's hooks
  only; `Notice` does it between two cycles.
* Data races as such: a flag or an enum is read or written as a whole, and an
  insertion in a std::map that another thread iterates over is one step. The
  standard promises neither. `user_b_node_state_map` is never filled in the
  code, so the loops over it have nothing to say.
* The commands that one hook, one roll back or one command executed pushes reach
  the stacks together: that a node acts on the first while the next is being
  pushed is left out. The hub's `Register` is one step (section 2).
* `exit_node`, SET_SHARED_PTR, START and LOAD_NODE_LIST are used by nobody. Nor
  is a node that ended started again: `NoSecondStart` shows that the hub does not,
  and main starts the hub once. (A restarted node would have its requirement list
  twice, b_node.cpp:208, and never scan again.)
* The destruction of objects: main's hub goes, with the nodes it holds, while
  their detached threads run until the end of the process.
* The example pair is not in the build any more (CMakeLists.txt:34, 35), and its
  ids are those of an earlier `b_node`; `Servo` takes its processing as it stands
  and wires the two as the hub would. The commands of the servo that nobody sends
  (RESET, CHANGE_SM_READY, CHANGE_SM_FORCE_STOP, RELEASE_FORCE_STOP) are left out.
