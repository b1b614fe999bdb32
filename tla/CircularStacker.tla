-------------------------- MODULE CircularStacker --------------------------
(***************************************************************************)
(* circular_stacker<T> (bp_system/_common/stacker.hpp): the ring buffer    *)
(* behind node_cmd_ and node_sys_cmd_. Any thread pushes: the nodes that   *)
(* use the owner, the hub, the UDP receive thread. The main thread of the  *)
(* owner pops, always in the form                                          *)
(*       if (stack.size() != 0) { auto cmd = stack.pop(); ... }            *)
(* push and pop hold mtx_ for their whole body and are single steps here;  *)
(* size() does not take the lock, so pushes happen between Check and Pop.  *)
(* A size() that races with a push returns count_ from before or after it, *)
(* which the interleaving of Check with Push covers.                       *)
(***************************************************************************)
EXTENDS Integers

CONSTANTS Size,      (* size_: cmd_stack_size or sys_cmd_stack_size        *)
          Values,    (* the commands that are pushed                       *)
          Default    (* T()                                                *)

ASSUME SizeAssumption == Size \in Nat

VARIABLES head,      (* head_: the slot the next pop reads                 *)
          tail,      (* tail_: the slot the next push writes               *)
          count,     (* count_                                             *)
          buffer,    (* buffer_                                            *)
          armed,     (* the owner is between size() != 0 and pop()         *)
          out        (* the command the owner popped last                  *)

vars == <<head, tail, count, buffer, armed, out>>

Slots == 0 .. Size - 1

(* The slot after i in the ring.                                           *)
NextSlot(i) == (i + 1) % Size

Init ==
  /\ head = 0 /\ tail = 0 /\ count = 0
  /\ buffer = [i \in Slots |-> Default]
  /\ armed = FALSE
  /\ out = Default

(* Mistakes that push could contain; only the mutation tests use them.     *)
Push_Overwrites(v) ==
  /\ buffer' = [buffer EXCEPT ![tail] = v]
  /\ tail' = NextSlot(tail)
  /\ count' = IF count < Size THEN count + 1 ELSE count
  /\ UNCHANGED <<head, armed, out>>

Push_NoWrap(v) ==
  /\ IF count < Size
     THEN /\ buffer' = [buffer EXCEPT ![tail] = v]
          /\ tail' = tail + 1
          /\ count' = count + 1
     ELSE UNCHANGED <<buffer, tail, count>>
  /\ UNCHANGED <<head, armed, out>>

Push_TailFirst(v) ==
  /\ IF count < Size
     THEN /\ buffer' = [buffer EXCEPT ![NextSlot(tail)] = v]
          /\ tail' = NextSlot(tail)
          /\ count' = count + 1
     ELSE UNCHANGED <<buffer, tail, count>>
  /\ UNCHANGED <<head, armed, out>>

Push(v) ==
  /\ IF count < Size
     THEN /\ buffer' = [buffer EXCEPT ![tail] = v]
          /\ tail' = NextSlot(tail)
          /\ count' = count + 1
     ELSE UNCHANGED <<buffer, tail, count>>
  /\ UNCHANGED <<head, armed, out>>

Check_Always == ~armed /\ armed' = TRUE /\ UNCHANGED <<head, tail, count, buffer, out>>

Check ==
  /\ ~armed
  /\ count # 0
  /\ armed' = TRUE
  /\ UNCHANGED <<head, tail, count, buffer, out>>

Pop ==
  /\ armed
  /\ IF count > 0
     THEN /\ out' = buffer[head]
          /\ head' = NextSlot(head)
          /\ count' = count - 1
     ELSE out' = Default /\ UNCHANGED <<head, count>>
  /\ armed' = FALSE
  /\ UNCHANGED <<tail, buffer>>

Next == (\E v \in Values : Push(v)) \/ Check \/ Pop

(* Whether and when the owner looks at its stack is a matter of its main   *)
(* loop, see HubThread.                                                    *)
Spec == Init /\ [][Next]_vars
-----------------------------------------------------------------------------
TypeOK ==
  /\ head \in Slots \union {0}
  /\ tail \in Slots \union {0}
  /\ count \in 0 .. Size
  /\ buffer \in [Slots -> Values \union {Default}]
  /\ armed \in BOOLEAN
  /\ out \in Values \union {Default}

(* The three indices that push and pop update separately stay consistent:  *)
(* tail_ is always count_ slots after head_, around the ring. head_ = tail_*)
(* then means empty or full, and count_ tells which.                       *)
RingConsistent == Size > 0 => tail = (head + count) % Size

(* The owner never pops an empty stack, although size() is read without    *)
(* the lock: a pop on empty would execute T(), whose cmd_type 0 is a real  *)
(* command (START_NODE for the hub, CHANGE_STABLE for a node).             *)
NoPhantomCommand == armed => count > 0

(* The commands in the ring, oldest first.                                 *)
Contents == [i \in 1 .. count |-> buffer[(head + i - 1) % Size]]

Abstract == INSTANCE BoundedFifo WITH queue <- Contents

(* The ring buffer is a bounded FIFO queue: it loses nothing it accepted,  *)
(* duplicates nothing, keeps the order and refuses only when full.         *)
IsBoundedFifo == Abstract!FifoSpec
=============================================================================
