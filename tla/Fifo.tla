-------------------------------- MODULE Fifo --------------------------------
(***************************************************************************)
(* The command queues of the behaviour system, as values: what             *)
(* circular_stacker<T>::push does to the sequence of commands a stack      *)
(* holds. CircularStacker shows that the ring buffer of the code behaves   *)
(* like this, so the modules that only use a stack take it as a sequence.  *)
(***************************************************************************)
EXTENDS Sequences, Naturals

(* A mistake; only the mutation tests use it.                              *)
Offer_OneTooMany(queue, capacity, value) ==
  IF Len(queue) <= capacity THEN Append(queue, value) ELSE queue

(* push: a full stack refuses the element with nothing but a message on    *)
(* std::cerr; the caller is not told.                                      *)
Offer(queue, capacity, value) ==
  IF Len(queue) < capacity THEN Append(queue, value) ELSE queue

(* A loop of pushes: the stack takes the first ones, as many as fit.       *)
OfferAll(queue, capacity, values) ==
  LET room == capacity - Len(queue)
  IN  queue \o SubSeq(values, 1, IF Len(values) < room THEN Len(values) ELSE room)
=============================================================================
