---------------------------- MODULE BoundedFifo ----------------------------
(***************************************************************************)
(* What a command stack promises the threads that share it: a bounded FIFO *)
(* queue that any thread may offer a command to and one thread, the owner  *)
(* of the stack, drains, first looking at its size and then taking one     *)
(* command. The owner never takes from an empty queue, and what was        *)
(* accepted is taken in the order it was accepted.                         *)
(***************************************************************************)
EXTENDS Fifo

CONSTANTS Size,      (* the capacity given to the constructor              *)
          Values,    (* the commands that are pushed                       *)
          Default    (* T(), what pop returns when there is nothing to pop *)

VARIABLES queue,     (* the accepted commands, oldest first                *)
          armed,     (* the owner has seen size() != 0 and will pop next   *)
          out        (* the command the owner popped last                  *)

fifoVars == <<queue, armed, out>>

FifoInit == queue = << >> /\ armed = FALSE /\ out = Default

Enqueue == \E v \in Values : /\ queue' = Offer(queue, Size, v)
                             /\ UNCHANGED <<armed, out>>

Look == /\ ~armed /\ queue # << >>
        /\ armed' = TRUE
        /\ UNCHANGED <<queue, out>>

Take == /\ armed /\ queue # << >>
        /\ out' = Head(queue)
        /\ queue' = Tail(queue)
        /\ armed' = FALSE

FifoNext == Enqueue \/ Look \/ Take

FifoSpec == FifoInit /\ [][FifoNext]_fifoVars
=============================================================================
