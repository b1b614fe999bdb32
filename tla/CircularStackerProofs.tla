----------------------- MODULE CircularStackerProofs -----------------------
(***************************************************************************)
(* For every capacity and every set of commands: the owner of a stack      *)
(* never pops it empty, and the ring buffer implements the bounded FIFO    *)
(* queue.                                                                  *)
(***************************************************************************)
EXTENDS CircularStacker, SequenceTheorems, TLAPS

(* Advancing by one slot stays in the ring.                                *)
LEMMA NextSlotIs ==
  ASSUME Size > 0, NEW i \in Slots
  PROVE  /\ NextSlot(i) = IF i + 1 < Size THEN i + 1 ELSE 0
         /\ NextSlot(i) \in Slots
BY SizeAssumption DEF NextSlot, Slots

(* The slot c steps after h, free of %.                                    *)
LEMMA Consistent ==
  ASSUME Size > 0, NEW h \in Slots, NEW c \in 0 .. Size
  PROVE  (h + c) % Size = IF h + c < Size THEN h + c ELSE h + c - Size
BY SizeAssumption DEF Slots

(* The inductive invariant: the three invariants of the runs together.     *)
Inv == TypeOK /\ RingConsistent /\ NoPhantomCommand

(* The slot that tail names, free of %.                                    *)
LEMMA TailIs ==
  ASSUME Inv, Size > 0
  PROVE  /\ head \in Slots /\ tail \in Slots
         /\ tail = IF head + count < Size THEN head + count
                   ELSE head + count - Size
<1>1. head \in 0 .. Size - 1 /\ tail \in 0 .. Size - 1 /\ count \in 0 .. Size
  BY SizeAssumption DEF Inv, TypeOK, Slots
<1>2. head + count \in 0 .. 2 * Size - 1
  BY <1>1, SizeAssumption
<1> QED
  BY <1>1, <1>2, Consistent, SizeAssumption DEF Inv, RingConsistent, Slots

LEMMA InitInv == Init => Inv
<1> SUFFICES ASSUME Init PROVE Inv
  OBVIOUS
<1>1. TypeOK
  <2>1. buffer \in [Slots -> Values \union {Default}]
    BY DEF Init
  <2>2. head \in Slots \union {0} /\ tail \in Slots \union {0} /\ count \in 0 .. Size
    BY SizeAssumption DEF Init
  <2> QED
    BY <2>1, <2>2 DEF Init, TypeOK
<1>2. RingConsistent
  BY SizeAssumption, Consistent DEF Init, RingConsistent, Slots
<1> QED
  BY <1>1, <1>2 DEF Init, Inv, NoPhantomCommand

LEMMA NextInv == Inv /\ [Next]_vars => Inv'
<1> SUFFICES ASSUME Inv, [Next]_vars PROVE Inv'
  OBVIOUS
<1> USE SizeAssumption
<1>1. ASSUME NEW v \in Values, Push(v) PROVE Inv'
  <2>1. CASE count < Size
    <3>1. Size > 0 /\ tail \in Slots /\ count' = count + 1 /\ head' = head
      BY <1>1, <2>1, TailIs DEF Push, Inv, TypeOK
    <3>2. TypeOK'
      <4>1. tail' \in Slots
        BY <1>1, <2>1, <3>1, NextSlotIs DEF Push
      <4>2. count' \in 0 .. Size
        BY <2>1, <3>1 DEF Inv, TypeOK
      <4>3. buffer' \in [Slots -> Values \union {Default}]
        BY <1>1, <2>1 DEF Push, Inv, TypeOK
      <4> QED
        BY <1>1, <4>1, <4>2, <4>3 DEF Push, Inv, TypeOK
    <3>3. tail' = (head + (count + 1)) % Size
      <4>1. head \in Slots /\ count + 1 \in 0 .. Size
        BY <2>1, <3>1, TailIs DEF Inv, TypeOK
      <4>2. (head + (count + 1)) % Size
              = IF head + (count + 1) < Size THEN head + (count + 1)
                ELSE head + (count + 1) - Size
        BY <3>1, <4>1, Consistent, Zenon
      <4>3. tail' = IF tail + 1 < Size THEN tail + 1 ELSE 0
        BY <1>1, <2>1, <3>1, NextSlotIs DEF Push
      <4>4. tail = IF head + count < Size THEN head + count
                   ELSE head + count - Size
        BY <3>1, TailIs
      <4> QED
        BY <2>1, <3>1, <4>1, <4>2, <4>3, <4>4 DEF Inv, TypeOK, Slots
    <3> QED
      BY <1>1, <3>1, <3>2, <3>3
      DEF Push, Inv, TypeOK, RingConsistent, NoPhantomCommand
  <2>2. CASE ~(count < Size)
    BY <1>1, <2>2
    DEF Push, Inv, TypeOK, RingConsistent, NoPhantomCommand
  <2> QED
    BY <2>1, <2>2
<1>2. ASSUME Check PROVE Inv'
  BY <1>2 DEF Check, Inv, TypeOK, RingConsistent, NoPhantomCommand
<1>3. ASSUME Pop PROVE Inv'
  <2>1. count > 0 /\ Size > 0 /\ count' = count - 1 /\ tail' = tail
    BY <1>3 DEF Pop, Inv, TypeOK, NoPhantomCommand
  <2>2. head \in Slots /\ head' = NextSlot(head)
    BY <1>3, <2>1, TailIs DEF Pop
  <2>3. TypeOK'
    <3>1. head' \in Slots /\ buffer[head] \in Values \union {Default}
      BY <2>1, <2>2, NextSlotIs DEF Inv, TypeOK
    <3>2. count - 1 \in 0 .. Size
      BY <2>1 DEF Inv, TypeOK
    <3> QED
      BY <1>3, <2>1, <3>1, <3>2 DEF Pop, Inv, TypeOK
  <2>4. tail = (head' + (count - 1)) % Size
    <3>1. head' \in Slots /\ count - 1 \in 0 .. Size
      BY <2>1, <2>2, NextSlotIs DEF Inv, TypeOK
    <3>2. (head' + (count - 1)) % Size
            = IF head' + (count - 1) < Size THEN head' + (count - 1)
              ELSE head' + (count - 1) - Size
      BY <2>1, <3>1, Consistent, Zenon
    <3>3. head' = IF head + 1 < Size THEN head + 1 ELSE 0
      BY <2>1, <2>2, NextSlotIs
    <3>4. tail = IF head + count < Size THEN head + count
                 ELSE head + count - Size
      BY <2>1, TailIs
    <3> QED
      BY <2>1, <2>2, <3>2, <3>3, <3>4 DEF Inv, TypeOK, Slots
  <2> QED
    BY <1>3, <2>1, <2>3, <2>4 DEF Pop, Inv, RingConsistent, NoPhantomCommand
<1>4. CASE UNCHANGED vars
  BY <1>4 DEF vars, Inv, TypeOK, RingConsistent, NoPhantomCommand
<1> QED
  BY <1>1, <1>2, <1>3, <1>4 DEF Next

(* In every reachable state of a stack of any capacity the indices and the *)
(* count agree, and the owner that has seen a command finds one to pop.    *)
THEOREM InvHolds == Spec => []Inv
BY InitInv, NextInv, PTL DEF Spec

(* The types of the fields of circular_stacker hold throughout.            *)
THEOREM TypeOKHolds == Spec => []TypeOK
BY InvHolds, PTL DEF Inv

(* However pushes, looks and pops follow each other, the three indices     *)
(* that push and pop move on their own agree around the ring.              *)
THEOREM RingConsistentHolds == Spec => []RingConsistent
BY InvHolds, PTL DEF Inv

(* The owner never executes T() for want of a command: size() seen as      *)
(* non-zero, without the lock, is still non-zero when pop takes it.        *)
THEOREM NoPhantomCommandHolds == Spec => []NoPhantomCommand
BY InvHolds, PTL DEF Inv
-----------------------------------------------------------------------------
Value == Values \union {Default}

(* The slot of the i-th oldest command.                                    *)
SlotOf(i) == IF head + (i - 1) < Size THEN head + (i - 1)
             ELSE head + (i - 1) - Size

(* Contents is the sequence of the commands in the ring, without %.        *)
ContentsOK ==
  /\ Contents \in Seq(Value) /\ Len(Contents) = count
  /\ \A i \in 1 .. count : /\ SlotOf(i) \in Slots
                            /\ Contents[i] = buffer[SlotOf(i)]

LEMMA ContentsIs == Inv => ContentsOK
<1> SUFFICES ASSUME Inv PROVE ContentsOK
  OBVIOUS
<1>1. ASSUME NEW i \in 1 .. count
      PROVE  /\ (head + i - 1) % Size = SlotOf(i)
             /\ SlotOf(i) \in Slots
  <2>1. Size > 0 /\ count \in 0 .. Size /\ head \in 0 .. Size - 1 /\ i - 1 \in 0 .. Size
    BY SizeAssumption, TailIs DEF Inv, TypeOK, Slots
  <2>2. head + i - 1 = head + (i - 1)
    BY <2>1
  <2>3. (head + (i - 1)) % Size = SlotOf(i)
    BY <2>1, SizeAssumption DEF SlotOf
  <2> QED
    BY <2>1, <2>2, <2>3, SizeAssumption DEF SlotOf, Slots
<1>2. \A i \in 1 .. count : buffer[(head + i - 1) % Size] \in Value
  BY <1>1 DEF Inv, TypeOK, Value
<1>3. count \in Nat
  BY SizeAssumption DEF Inv, TypeOK
<1>4. Contents \in [1 .. count -> Value]
  BY <1>2 DEF Contents
<1>5. Contents \in Seq(Value) /\ Len(Contents) = count
  BY <1>3, <1>4
<1> QED
  BY <1>1, <1>5 DEF Contents, ContentsOK

LEMMA ContentsIsPrime == Inv' => ContentsOK'
BY ContentsIs, PTL

(* push offers its command to the queue.                                   *)
LEMMA PushEnqueues ==
  ASSUME Inv, Inv', NEW v \in Values, Push(v)
  PROVE  Abstract!Enqueue
<1> USE ContentsIs, ContentsIsPrime
<1>1. CASE count < Size
  <2>1. Size > 0 /\ count \in Nat /\ count' = count + 1 /\ head' = head
    BY <1>1, SizeAssumption DEF Push, Inv, TypeOK
  <2>2. \A i \in 1 .. count : SlotOf(i)' = SlotOf(i) /\ SlotOf(i) # tail
    BY <1>1, <2>1, TailIs, SizeAssumption DEF SlotOf, Slots
  <2>3. SlotOf(count)' = tail /\ tail \in Slots
    BY <2>1, <1>1, TailIs, SizeAssumption DEF SlotOf, Slots, Inv, TypeOK
  <2>4. buffer' = [buffer EXCEPT ![tail] = v] /\ DOMAIN buffer = Slots
    BY <1>1 DEF Push, Inv, TypeOK
  <2>5. \A i \in 1 .. count : Contents'[i] = Contents[i]
    BY <2>1, <2>2, <2>4 DEF ContentsOK
  <2>6. Contents'[count'] = v
    BY <2>1, <2>3, <2>4 DEF ContentsOK
  <2>7. v \in Value /\ Contents \in Seq(Value) /\ Contents' \in Seq(Value)
    BY DEF ContentsOK, Value
  <2>8. Len(Contents) = count /\ Len(Contents') = count + 1
    BY <2>1 DEF ContentsOK
  <2>9. Contents' = Append(Contents, v)
    <3>1. /\ Append(Contents, v) \in Seq(Value)
          /\ Len(Append(Contents, v)) = count + 1
          /\ Append(Contents, v)[count + 1] = v
          /\ \A i \in 1 .. count : Append(Contents, v)[i] = Contents[i]
      BY <2>1, <2>7, <2>8
    <3>2. \A i \in 1 .. count + 1 : Contents'[i] = Append(Contents, v)[i]
      BY <2>1, <2>5, <2>6, <3>1
    <3> QED
      BY <2>7, <2>8, <3>1, <3>2, SeqEqual
  <2> QED
    BY <1>1, <2>8, <2>9 DEF Push, Abstract!Enqueue, Abstract!Offer
<1>2. CASE ~(count < Size)
  <2>1. UNCHANGED <<head, count, buffer>>
    BY <1>1, <1>2 DEF Push
  <2>2. Contents' = Contents
    BY <2>1 DEF Contents
  <2> QED
    BY <1>2, <2>2 DEF ContentsOK, Push, Abstract!Enqueue, Abstract!Offer
<1> QED
  BY <1>1, <1>2

(* pop takes the oldest command.                                           *)
LEMMA PopTakes ==
  ASSUME Inv, Inv', Pop
  PROVE  Abstract!Take
<1> USE ContentsIs, ContentsIsPrime
<1>1. Size > 0 /\ count > 0 /\ count \in Nat /\ count' = count - 1 /\ buffer' = buffer
  BY SizeAssumption DEF Pop, Inv, TypeOK, NoPhantomCommand
<1>2. head \in Slots /\ head' = IF head + 1 < Size THEN head + 1 ELSE 0
  BY <1>1, TailIs, NextSlotIs DEF Pop
<1>3. SlotOf(1) = head
  BY <1>2, SizeAssumption DEF SlotOf, Slots
<1>4. \A i \in 1 .. count - 1 : SlotOf(i)' = SlotOf(i + 1)
  BY <1>1, <1>2, SizeAssumption DEF SlotOf, Slots, Inv, TypeOK
<1>5. /\ Contents \in Seq(Value) /\ Contents' \in Seq(Value)
      /\ Len(Contents) = count /\ Len(Contents') = count - 1
  BY <1>1 DEF ContentsOK
<1>6. Contents # << >> /\ Head(Contents) = buffer[head]
  BY <1>1, <1>3, <1>5 DEF ContentsOK
<1>7. Contents' = Tail(Contents)
  <2>1. /\ Tail(Contents) \in Seq(Value) /\ Len(Tail(Contents)) = count - 1
        /\ \A i \in 1 .. count - 1 : Tail(Contents)[i] = Contents[i + 1]
    BY <1>5, <1>6, HeadTailProperties
  <2>2. \A i \in 1 .. count - 1 : Contents'[i] = Contents[i + 1]
    BY <1>1, <1>4 DEF ContentsOK
  <2> QED
    BY <1>5, <2>1, <2>2, SeqEqual
<1> QED
  BY <1>1, <1>6, <1>7 DEF Pop, Abstract!Take

(* The ring buffer of any capacity does what a bounded FIFO queue may do,  *)
(* and nothing else: no command is lost once accepted, none is executed    *)
(* twice, none overtakes another, and only a full stack refuses.           *)
THEOREM ImplementsFifo == Spec => IsBoundedFifo
<1>1. Init => Abstract!FifoInit
  <2> SUFFICES ASSUME Init PROVE Abstract!FifoInit
    OBVIOUS
  <2>1. Contents \in Seq(Value) /\ Len(Contents) = 0
    BY InitInv, ContentsIs DEF ContentsOK, Init
  <2>2. Contents = << >>
    BY <2>1
  <2> QED
    BY <2>2 DEF Init, Abstract!FifoInit
<1>2. Inv /\ Inv' /\ [Next]_vars => [Abstract!FifoNext]_(Abstract!fifoVars)
  <2> SUFFICES ASSUME Inv, Inv', [Next]_vars
               PROVE  [Abstract!FifoNext]_(Abstract!fifoVars)
    OBVIOUS
  <2>1. ASSUME NEW v \in Values, Push(v) PROVE Abstract!FifoNext
    BY <2>1, PushEnqueues DEF Abstract!FifoNext
  <2>2. ASSUME Check PROVE Abstract!FifoNext
    <3>1. Contents' = Contents
      BY <2>2 DEF Check, Contents
    <3>2. Contents # << >>
      BY <2>2, ContentsIs DEF Check, ContentsOK
    <3> QED
      BY <2>2, <3>1, <3>2 DEF Check, Abstract!Look, Abstract!FifoNext
  <2>3. ASSUME Pop PROVE Abstract!FifoNext
    BY <2>3, PopTakes DEF Abstract!FifoNext
  <2>4. CASE UNCHANGED vars
    BY <2>4 DEF vars, Contents, Abstract!fifoVars
  <2> QED
    BY <2>1, <2>2, <2>3, <2>4 DEF Next
<1> QED
  BY <1>1, <1>2, InvHolds, PTL DEF Spec, IsBoundedFifo, Abstract!FifoSpec
=============================================================================
