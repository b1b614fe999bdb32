---------------------------- MODULE ServoProofs ----------------------------
(***************************************************************************)
(* For every size of the stacks, every range of the counter and whatever   *)
(* takes the pair out of STABLE: control, that steers by what it saw last  *)
(* and sends more than is obeyed at once, does not make the counter of     *)
(* servo run away.                                                         *)
(***************************************************************************)
EXTENDS Servo, BNodeProofs, FiniteSetTheorems, FunctionTheorems

(* How many commands c there are in the queue q.                           *)
Places(c, q) == {i \in 1 .. Len(q) : q[i] = c}
Count(c, q) == Cardinality(Places(c, q))

LEMMA PlacesFinite ==
  ASSUME NEW S, NEW q \in Seq(S), NEW c
  PROVE  /\ IsFiniteSet(Places(c, q))
         /\ Count(c, q) \in Nat /\ Count(c, q) <= Len(q)
<1>1. Len(q) \in Nat /\ Places(c, q) \in SUBSET (1 .. Len(q))
  BY DEF Places
<1>2. IsFiniteSet(1 .. Len(q)) /\ Cardinality(1 .. Len(q)) = Len(q)
  <2>1. \A n \in Nat : 1 \in Int /\ n \in Int /\ (1 > n => n = 0) /\ n - 1 + 1 = n
    OBVIOUS
  <2>2. \A n \in Nat : IsFiniteSet(1 .. n) /\ Cardinality(1 .. n) = n
    BY <2>1, FS_Interval
  <2> QED
    BY <1>1, <2>2
<1>3. IsFiniteSet(Places(c, q)) /\ Cardinality(Places(c, q)) <= Len(q)
  BY <1>1, <1>2, FS_Subset
<1>4. Cardinality(Places(c, q)) \in Nat
  BY <1>3, FS_CardinalityType
<1> QED
  BY <1>3, <1>4 DEF Count

(* A command more at the end.                                              *)
LEMMA CountAppend ==
  ASSUME NEW S, NEW q \in Seq(S), NEW d \in S, NEW c
  PROVE  Count(c, Append(q, d)) = IF d = c THEN Count(c, q) + 1 ELSE Count(c, q)
<1> DEFINE a == Append(q, d)
<1>1. /\ Len(q) \in Nat /\ Len(a) = Len(q) + 1 /\ a[Len(q) + 1] = d
      /\ \A i \in 1 .. Len(q) : a[i] = q[i]
  BY AppendProperties
<1> HIDE DEF a
<1>2. 1 .. Len(a) = (1 .. Len(q)) \union {Len(q) + 1}
  BY <1>1
<1>3. CASE d = c
  <2>1. Places(c, a) = Places(c, q) \union {Len(q) + 1}
    BY <1>1, <1>2, <1>3 DEF Places
  <2>2. Len(q) + 1 \notin Places(c, q)
    BY <1>1 DEF Places
  <2> QED
    BY <1>3, <2>1, <2>2, PlacesFinite, FS_AddElement DEF Count, a
<1>4. CASE d # c
  <2>1. Places(c, a) = Places(c, q)
    BY <1>1, <1>2, <1>4 DEF Places
  <2> QED
    BY <1>4, <2>1 DEF Count, a
<1> QED
  BY <1>3, <1>4

(* A command less at the front.                                            *)
LEMMA CountTail ==
  ASSUME NEW S, NEW q \in Seq(S), q # << >>, NEW c
  PROVE  Count(c, Tail(q)) = IF Head(q) = c THEN Count(c, q) - 1 ELSE Count(c, q)
<1> DEFINE t == Tail(q)
           rest == Places(c, q) \ {1}
           f == [i \in Places(c, t) |-> i + 1]
<1>1. /\ Len(q) \in Nat /\ Len(q) > 0 /\ t \in Seq(S) /\ Len(t) = Len(q) - 1
      /\ \A i \in 1 .. Len(t) : t[i] = q[i + 1]
      /\ Head(q) = q[1]
  BY HeadTailProperties
<1> HIDE DEF t
<1>2. f \in Bijection(Places(c, t), rest)
  <2>1. f \in [Places(c, t) -> rest]
    <3>1. \A i \in Places(c, t) : i + 1 \in rest
      BY <1>1 DEF Places
    <3> QED
      BY <3>1
  <2>2. \A i, j \in Places(c, t) : f[i] = f[j] => i = j
    BY <1>1 DEF Places
  <2>3. \A k \in rest : \E i \in Places(c, t) : f[i] = k
    <3> SUFFICES ASSUME NEW k \in rest
                 PROVE  \E i \in Places(c, t) : f[i] = k
      OBVIOUS
    <3>1. k \in 2 .. Len(q) /\ q[k] = c
      BY <1>1 DEF Places
    <3>2. k - 1 \in 1 .. Len(t) /\ (k - 1) + 1 = k
      BY <1>1, <3>1
    <3>3. t[k - 1] = c
      BY <1>1, <3>1, <3>2
    <3>4. k - 1 \in Places(c, t)
      BY <3>2, <3>3 DEF Places
    <3> QED
      BY <3>2, <3>4
  <2> HIDE DEF f, rest
  <2> QED
    BY <2>1, <2>2, <2>3, Fun_IsBij
<1>3. ExistsBijection(Places(c, t), rest)
  BY <1>2 DEF ExistsBijection
<1>4. IsFiniteSet(Places(c, t)) /\ IsFiniteSet(Places(c, q)) /\ Count(c, q) \in Nat
  BY <1>1, PlacesFinite
<1>5. Cardinality(rest) = Count(c, t)
  BY <1>3, <1>4, FS_Bijection DEF Count
<1>6. Cardinality(rest) = IF 1 \in Places(c, q) THEN Count(c, q) - 1 ELSE Count(c, q)
  BY <1>4, FS_RemoveElement DEF Count
<1>7. 1 \in Places(c, q) <=> Head(q) = c
  BY <1>1 DEF Places
<1> QED
  BY <1>5, <1>6, <1>7 DEF t
-----------------------------------------------------------------------------
(* The types of what the two nodes exchange.                               *)
StackTypes ==
  /\ cmdq \in Seq(Cmd) /\ Len(cmdq) <= CmdCap
  /\ intent \in Intent
  /\ count \in Int

(* What the counter would be if servo obeyed first all the commands that   *)
(* take it down, or all that take it up.                                   *)
Lowest == count - Count("SUB_COUNT", cmdq)
Highest == count + Count("ADD_COUNT", cmdq)

(* control sends a step up having seen the counter below zero, when the    *)
(* stack held no more than CmdCap of them: so the counter can rise to      *)
(* CmdCap at most with all that is in the stack and the one on its way.    *)
SwingInv ==
  /\ StackTypes
  /\ Count("ADD_COUNT", cmdq) > 0 => Highest <= CmdCap
  /\ Count("SUB_COUNT", cmdq) > 0 => Lowest >= -CmdCap
  /\ intent = "ADD_COUNT" => Highest < CmdCap
  /\ intent = "SUB_COUNT" => Lowest > -CmdCap

LEMMA SwingInit == Init => SwingInv
<1> SUFFICES ASSUME Init PROVE SwingInv
  OBVIOUS
<1>1. cmdq = << >> /\ intent = "none" /\ count \in -MaxCount .. MaxCount
  BY DEF Init
<1>2. cmdq \in Seq(Cmd) /\ Len(cmdq) = 0
  BY <1>1
<1>3. \A c : ~(Count(c, cmdq) > 0)
  <2> SUFFICES ASSUME NEW c PROVE ~(Count(c, cmdq) > 0)
    OBVIOUS
  <2>1. Count(c, cmdq) \in Nat /\ Count(c, cmdq) <= Len(cmdq)
    BY <1>2, PlacesFinite
  <2> QED
    BY <1>2, <2>1
<1>4. StackTypes
  BY <1>1, <1>2, ServoAssumption DEF StackTypes, Intent
<1> QED
  BY <1>1, <1>3, <1>4 DEF SwingInv

(* control looks: the stack holds no more than CmdCap commands, and the    *)
(* counter is on the other side of zero.                                   *)
LEMMA LookSwing == SwingInv /\ Look => SwingInv'
<1> SUFFICES ASSUME SwingInv, Look PROVE SwingInv'
  OBVIOUS
<1>1. intent' = Wish /\ cmdq' = cmdq /\ count' = count
  BY DEF Look
<1>2. cmdq \in Seq(Cmd) /\ Len(cmdq) <= CmdCap /\ Len(cmdq) \in Nat /\ count \in Int
  BY DEF SwingInv, StackTypes
<1>3. \A c : Count(c, cmdq) \in Nat /\ Count(c, cmdq) <= Len(cmdq)
  BY <1>2, PlacesFinite
<1>4. /\ Wish \in Intent
      /\ Wish = "SUB_COUNT" => count > 0
      /\ Wish = "ADD_COUNT" => count < 0
  BY <1>2 DEF Wish, Steer, Intent, Cmd
<1>5. StackTypes'
  BY <1>1, <1>2, <1>4 DEF StackTypes
<1>6. Lowest' = Lowest /\ Highest' = Highest /\ \A c : Count(c, cmdq') = Count(c, cmdq)
  BY <1>1 DEF Lowest, Highest
<1>7. CmdCap \in Nat
  BY ServoAssumption
<1>8. /\ Wish = "SUB_COUNT" => Lowest > -CmdCap
      /\ Wish = "ADD_COUNT" => Highest < CmdCap
  BY <1>2, <1>3, <1>4, <1>7 DEF Lowest, Highest
<1> QED
  BY <1>1, <1>5, <1>6, <1>8 DEF SwingInv

(* control acts: what it has in mind leaves room for one more.             *)
LEMMA ActSwing == SwingInv /\ Act => SwingInv'
<1> SUFFICES ASSUME SwingInv, Act PROVE SwingInv'
  OBVIOUS
<1>1. intent' = "none" /\ count' = count /\ intent # "none"
  BY DEF Act
<1>2. cmdq \in Seq(Cmd) /\ Len(cmdq) <= CmdCap /\ count \in Int /\ intent \in Intent
  BY DEF SwingInv, StackTypes
<1>3. CmdCap \in Nat /\ Len(cmdq) \in Nat
  BY <1>2, ServoAssumption
<1>4. CASE cmdq' = cmdq
  <2>1. Lowest' = Lowest /\ Highest' = Highest /\ \A c : Count(c, cmdq') = Count(c, cmdq)
    BY <1>1, <1>4 DEF Lowest, Highest
  <2>2. StackTypes'
    BY <1>1, <1>2, <1>4 DEF StackTypes, Intent
  <2> QED
    BY <1>1, <2>1, <2>2 DEF SwingInv
<1>5. CASE cmdq' # cmdq
  <2>1. intent \in Cmd /\ Len(cmdq) < CmdCap /\ cmdq' = Append(cmdq, intent)
    BY <1>1, <1>2, <1>5 DEF Act, Stack!Offer, Intent
  <2>2. cmdq' \in Seq(Cmd) /\ Len(cmdq') <= CmdCap
    BY <1>2, <1>3, <2>1
  <2>3. \A c : Count(c, cmdq') = IF intent = c THEN Count(c, cmdq) + 1 ELSE Count(c, cmdq)
    BY <1>2, <2>1, CountAppend
  <2>4. \A c : Count(c, cmdq) \in Nat
    BY <1>2, PlacesFinite
  <2>5. StackTypes'
    BY <1>1, <1>2, <2>2 DEF StackTypes, Intent
  <2>6. Lowest' = IF intent = "SUB_COUNT" THEN Lowest - 1 ELSE Lowest
    BY <1>1, <1>2, <2>3, <2>4 DEF Lowest
  <2>7. Highest' = IF intent = "ADD_COUNT" THEN Highest + 1 ELSE Highest
    BY <1>1, <1>2, <2>3, <2>4 DEF Highest
  <2>8. Lowest \in Int /\ Highest \in Int
    BY <1>2, <2>4 DEF Lowest, Highest
  <2>9. Count("ADD_COUNT", cmdq') > 0 => Highest' <= CmdCap
    <3>1. CASE intent = "ADD_COUNT"
      BY <1>3, <2>7, <2>8, <3>1 DEF SwingInv
    <3>2. CASE intent # "ADD_COUNT"
      BY <2>3, <2>7, <3>2 DEF SwingInv
    <3> QED
      BY <3>1, <3>2
  <2>10. Count("SUB_COUNT", cmdq') > 0 => Lowest' >= -CmdCap
    <3>1. CASE intent = "SUB_COUNT"
      BY <1>3, <2>6, <2>8, <3>1 DEF SwingInv
    <3>2. CASE intent # "SUB_COUNT"
      BY <2>3, <2>6, <3>2 DEF SwingInv
    <3> QED
      BY <3>1, <3>2
  <2> QED
    BY <1>1, <2>5, <2>9, <2>10 DEF SwingInv
<1> QED
  BY <1>4, <1>5

(* servo obeys the command at the front: a step it makes is one less in    *)
(* the stack, and one it does not make leaves more room.                   *)
LEMMA ObeySwing ==
  ASSUME SwingInv, cmdq # << >>, Obey(Head(cmdq)), cmdq' = Tail(cmdq)
  PROVE  /\ Lowest' >= Lowest /\ Highest' <= Highest
         /\ \A d : Count(d, cmdq') <= Count(d, cmdq)
         /\ Lowest \in Int /\ Highest \in Int /\ Lowest' \in Int /\ Highest' \in Int
         /\ \A d : Count(d, cmdq) \in Nat /\ Count(d, cmdq') \in Nat
         /\ cmdq' \in Seq(Cmd) /\ Len(cmdq') <= CmdCap /\ count' \in Int
         /\ count' > count => Count("ADD_COUNT", cmdq) > 0
         /\ count' < count => Count("SUB_COUNT", cmdq) > 0
<1> DEFINE c == Head(cmdq)
<1>1. cmdq \in Seq(Cmd) /\ Len(cmdq) <= CmdCap /\ count \in Int
  BY DEF SwingInv, StackTypes
<1>2. \A d : Count(d, cmdq') = IF c = d THEN Count(d, cmdq) - 1 ELSE Count(d, cmdq)
  BY <1>1, CountTail
<1>3. cmdq' \in Seq(Cmd) /\ Len(cmdq') <= CmdCap
  <2>1. cmdq' \in Seq(Cmd) /\ Len(cmdq') = Len(cmdq) - 1 /\ Len(cmdq) \in Nat
    BY <1>1, HeadTailProperties
  <2> QED
    BY <1>1, <2>1, ServoAssumption
<1>4. \A d : Count(d, cmdq) \in Nat /\ Count(d, cmdq') \in Nat
  BY <1>1, <1>3, PlacesFinite
<1>5. \/ count' = count
      \/ c = "ADD_COUNT" /\ count' = count + 1
      \/ c = "SUB_COUNT" /\ count' = count - 1
  BY <1>1 DEF Obey, Moved
<1> HIDE DEF c
<1>6. count' \in Int
  BY <1>1, <1>5
<1>7. Lowest' >= Lowest
  BY <1>1, <1>2, <1>4, <1>5 DEF Lowest
<1>8. Highest' <= Highest
  BY <1>1, <1>2, <1>4, <1>5 DEF Highest
<1>9. Lowest \in Int /\ Highest \in Int /\ Lowest' \in Int /\ Highest' \in Int
  BY <1>1, <1>4, <1>6 DEF Lowest, Highest
<1>10. \A d : Count(d, cmdq') <= Count(d, cmdq)
  BY <1>2, <1>4
<1>11. \A d : c = d => Count(d, cmdq) > 0
  BY <1>2, <1>4
<1>12. /\ count' > count => Count("ADD_COUNT", cmdq) > 0
       /\ count' < count => Count("SUB_COUNT", cmdq) > 0
  BY <1>1, <1>5, <1>11
<1> QED
  BY <1>3, <1>4, <1>6, <1>7, <1>8, <1>9, <1>10, <1>12

LEMMA ServeSwing == SwingInv /\ Serve => SwingInv'
<1> SUFFICES ASSUME SwingInv, Serve PROVE SwingInv'
  OBVIOUS
<1>1. intent' = intent /\ StackTypes /\ CmdCap \in Nat
  BY ServoAssumption DEF Serve, SwingInv
<1>2. CASE UNCHANGED <<cmdq, count>>
  BY <1>1, <1>2 DEF SwingInv, StackTypes, Lowest, Highest
<1>3. CASE cmdq # << >> /\ Obey(Head(cmdq)) /\ cmdq' = Tail(cmdq)
  <2>1. /\ Lowest' >= Lowest /\ Highest' <= Highest
        /\ Lowest \in Int /\ Highest \in Int /\ Lowest' \in Int /\ Highest' \in Int
        /\ \A d : /\ Count(d, cmdq') <= Count(d, cmdq)
                  /\ Count(d, cmdq) \in Nat /\ Count(d, cmdq') \in Nat
        /\ cmdq' \in Seq(Cmd) /\ Len(cmdq') <= CmdCap /\ count' \in Int
    BY <1>3, ObeySwing
  <2>2. StackTypes'
    BY <1>1, <2>1 DEF StackTypes
  <2>3. \A d : Count(d, cmdq') > 0 => Count(d, cmdq) > 0
    BY <2>1
  <2>4. /\ Count("ADD_COUNT", cmdq') > 0 => Highest' <= CmdCap
        /\ Count("SUB_COUNT", cmdq') > 0 => Lowest' >= -CmdCap
    BY <1>1, <2>1, <2>3 DEF SwingInv
  <2>5. /\ intent' = "ADD_COUNT" => Highest' < CmdCap
        /\ intent' = "SUB_COUNT" => Lowest' > -CmdCap
    BY <1>1, <2>1 DEF SwingInv
  <2> QED
    BY <2>2, <2>4, <2>5 DEF SwingInv
<1> QED
  BY <1>2, <1>3 DEF Serve

LEMMA OthersLeaveCount ==
  (\E n \in Nodes : SystemPart(n)) \/ Call \/ WatchDog \/ UNCHANGED vars
    => UNCHANGED <<intent, cmdq, count>>
BY DEF SystemPart, Call, WatchDog, vars, servoVars

LEMMA WhoSteps ==
  Next => Look \/ Act \/ Serve \/ Call \/ WatchDog \/ \E n \in Nodes : SystemPart(n)
BY ServoAssumption DEF Next, ControlThread, ServoThread

LEMMA SwingStep == SwingInv /\ [Next]_vars => SwingInv'
<1>1. SwingInv /\ UNCHANGED <<intent, cmdq, count>> => SwingInv'
  BY DEF SwingInv, StackTypes, Lowest, Highest
<1> QED
  BY <1>1, OthersLeaveCount, WhoSteps, LookSwing, ActSwing, ServeSwing

(* Whatever the size of the stack, however far from zero the counter       *)
(* starts, however slow either loop is and whoever takes the two out of    *)
(* STABLE: control, which goes on sending while its earlier commands wait  *)
(* in the stack, moves the counter past zero by what the stack holds at    *)
(* most.                                                                   *)
THEOREM OvershootBoundedHolds == Spec => OvershootBounded
<1> DEFINE Swing == /\ count' > count => count' <= CmdCap
                    /\ count' < count => count' >= -CmdCap
<1>1. SwingInv /\ [Next]_vars => [Swing]_vars
  <2> SUFFICES ASSUME SwingInv, [Next]_vars PROVE Swing
    OBVIOUS
  <2>1. count \in Int /\ cmdq \in Seq(Cmd) /\ CmdCap \in Nat
    BY ServoAssumption DEF SwingInv, StackTypes
  <2>2. CASE count' = count
    BY <2>1, <2>2
  <2>3. CASE count' # count
    <3>1. Serve
      BY <2>3, OthersLeaveCount, WhoSteps DEF Look, Act
    <3>2. cmdq # << >> /\ Obey(Head(cmdq)) /\ cmdq' = Tail(cmdq)
      BY <2>3, <3>1 DEF Serve
    <3>3. /\ count' > count => Count("ADD_COUNT", cmdq) > 0
          /\ count' < count => Count("SUB_COUNT", cmdq) > 0
          /\ Lowest' >= Lowest /\ Highest' <= Highest /\ count' \in Int
          /\ Lowest \in Int /\ Highest \in Int /\ Lowest' \in Int /\ Highest' \in Int
          /\ \A d : Count(d, cmdq') \in Nat
      BY <3>2, ObeySwing
    <3>4. Lowest' <= count' /\ count' <= Highest'
      BY <3>3 DEF Lowest, Highest
    <3> QED
      BY <2>1, <3>3, <3>4 DEF SwingInv
  <2> QED
    BY <2>2, <2>3
<1> QED
  BY <1>1, SwingInit, SwingStep, PTL DEF Spec, OvershootBounded
-----------------------------------------------------------------------------
(* What BNode says of the two nodes, and that both run on: nobody ends     *)
(* them.                                                                   *)
PairInv ==
  /\ NodeTypes
  /\ \A n \in Nodes : NodeOK(n) /\ pc[n] # "off"

UserTypes ==
  /\ user \in [Nodes -> BOOLEAN]
  /\ last \in Nodes
  /\ calls \in 0 .. MaxCalls

LEMMA Both == control \in Nodes /\ servo \in Nodes /\ Calls \subseteq Signal
BY ServoAssumption

LEMMA PairInit == Init => PairInv
<1> SUFFICES ASSUME Init PROVE PairInv
  OBVIOUS
<1> DEFINE w == [Up EXCEPT !.sm = "TRANSITING", !.prev = "INITIALIZING"]
<1>1. /\ Up \in NodeRecord /\ Up.sm = "READY" /\ ~Up.change
      /\ w \in NodeRecord /\ w.sm = "TRANSITING" /\ ~w.change
      /\ <<w.prev, w.dest>> \in Arrow
  BY DEF Up, NodeRecord, State, Arrow, Machine!Arrow
<1>2. node = [n \in Nodes |-> IF n = servo THEN Up ELSE w]
  BY DEF Init
<1> HIDE DEF w
<1>3. \A n \in Nodes : pc[n] = "top" /\ node[n] \in {Up, w}
  BY <1>2 DEF Init
<1>4. \A n \in Nodes : NodeOK(n) /\ pc[n] # "off"
  BY <1>1, <1>3 DEF NodeOK, TransitOK, PendingOK, StopPending
<1>5. NodeTypes
  <2>1. RequiredBy(control) \subseteq Nodes /\ \A n \in Nodes : RequiredBy(n) \subseteq Nodes
    BY ReqAssumption, Both DEF RequiredBy
  <2>2. node \in [Nodes -> NodeRecord]
    BY <1>1, <1>2
  <2>3. pub \in [Nodes -> State]
    BY <2>2 DEF Init, NodeRecord
  <2>4. stateMap \in [Nodes -> SUBSET Nodes] /\ sysMap \in [Nodes -> SUBSET Nodes]
    BY <2>1 DEF Init
  <2>5. /\ sysq \in [Nodes -> Seq(SysCmd)] /\ hubq \in Seq(HubCmd)
        /\ left \in [Nodes -> SUBSET Nodes]
        /\ pc \in [Nodes -> {"top", "hook", "back", "scan", "off"}]
    BY DEF Init
  <2> QED
    BY <2>2, <2>3, <2>4, <2>5 DEF NodeTypes
<1> QED
  BY <1>4, <1>5 DEF PairInv

(* A step that BNode knows of, and that no thread leaves its loop in.      *)
LEMMA PairStep ==
  ASSUME PairInv, NEW n \in Nodes, StepOK(n), pc'[n] # "off"
  PROVE  PairInv'
<1>1. \A k \in Nodes \ {n} : node'[k] = node[k] /\ pc'[k] = pc[k]
  BY DEF StepOK, PairInv, NodeTypes
<1>2. \A k \in Nodes \ {n} : NodeOK(k)' /\ pc'[k] # "off"
  BY <1>1 DEF PairInv, NodeOK
<1> QED
  BY <1>2 DEF StepOK, PairInv

LEMMA PairCycle ==
  ASSUME PairInv, NEW n \in Nodes, Cycle(n)
  PROVE  PairInv'
<1>1. NodeTypes /\ NodeOK(n) /\ pc[n] # "off"
  BY DEF PairInv
<1>2. StepOK(n)
  BY <1>1, GiveOrdersOK, ChangeStateOK, LoopProcessOK, RollBackOK, TransitStepOK,
     ReadStateOK, CommitOK DEF Cycle
<1>3. pc'[n] # "off"
  <2>1. \/ UNCHANGED pc
        \/ \E p \in {"top", "hook", "back", "scan"} : pc' = [pc EXCEPT ![n] = p]
    BY DEF Cycle, GiveOrders, ChangeState, LoopProcess, RollBack, Transit, ReadState,
       Commit
  <2> QED
    BY <1>1, <2>1 DEF NodeTypes
<1> QED
  BY <1>2, <1>3, PairStep

LEMMA PairOutside ==
  ASSUME PairInv, NEW n \in Nodes, NEW s \in Signal, Request(n, s) \/ Elapse(n)
  PROVE  PairInv'
<1>1. NodeTypes /\ NodeOK(n) /\ pc[n] # "off" /\ UNCHANGED pc
  BY DEF PairInv, Request, Elapse
<1> QED
  BY <1>1, RequestOK, ElapseOK, PairStep

LEMMA PairNext == PairInv /\ UserTypes /\ [Next]_vars => PairInv' /\ UserTypes'
<1> SUFFICES ASSUME PairInv, UserTypes, [Next]_vars PROVE PairInv' /\ UserTypes'
  OBVIOUS
<1>1. PairInv /\ UNCHANGED nodeVars => PairInv'
  BY DEF nodeVars, PairInv, NodeTypes, NodeOK
<1>2. "stable" \in Signal
  BY DEF Signal
<1>3. CASE \E n \in Nodes : SystemPart(n)
  <2>1. PICK n \in Nodes : SystemPart(n)
    BY <1>3
  <2>2. Cycle(n)
    BY <2>1 DEF SystemPart, Cycle
  <2>3. UserTypes'
    BY <2>1 DEF SystemPart, UserTypes
  <2> QED
    BY <2>2, <2>3, PairCycle
<1>4. CASE Look
  BY <1>1, <1>4, Both DEF Look, Done, UserTypes
<1>5. CASE Act
  <2>1. Request(control, "stable") \/ UNCHANGED nodeVars
    BY <1>5 DEF Act
  <2>2. UserTypes'
    BY <1>5, Both DEF Act, Done, UserTypes
  <2> QED
    BY <1>1, <1>2, <2>1, <2>2, Both, PairOutside
<1>6. CASE Serve
  <2>1. Request(servo, "stable") \/ UNCHANGED nodeVars
    BY <1>6 DEF Serve, Obey
  <2>2. UserTypes'
    BY <1>6, Both DEF Serve, Done, UserTypes
  <2> QED
    BY <1>1, <1>2, <2>1, <2>2, Both, PairOutside
<1>7. CASE Call
  <2>1. PICK s \in Calls : Request(control, s)
    BY <1>7 DEF Call
  <2>2. UserTypes'
    BY <1>7, ServoAssumption DEF Call, UserTypes
  <2> QED
    BY <2>1, <2>2, Both, PairOutside
<1>8. CASE WatchDog
  <2>1. Elapse(control) /\ UNCHANGED servoVars
    BY <1>8 DEF WatchDog
  <2>2. UserTypes'
    BY <2>1 DEF servoVars, UserTypes
  <2> QED
    BY <1>2, <2>1, <2>2, Both, PairOutside
<1>9. CASE UNCHANGED vars
  BY <1>1, <1>9 DEF vars, servoVars, UserTypes
<1> QED
  BY <1>3, <1>4, <1>5, <1>6, <1>7, <1>8, <1>9, WhoSteps

(* The members of both nodes and what is between them keep their types.    *)
THEOREM TypeOKHolds == Spec => []TypeOK
<1>1. Init => UserTypes
  BY Both, ServoAssumption DEF Init, UserTypes
<1>2. PairInv /\ UserTypes /\ SwingInv => TypeOK
  <2> SUFFICES ASSUME PairInv, UserTypes, SwingInv PROVE TypeOK
    OBVIOUS
  <2>1. pc \in [Nodes -> {"top", "hook", "back", "scan"}]
    BY DEF PairInv, NodeTypes
  <2> QED
    BY <2>1 DEF TypeOK, PairInv, UserTypes, SwingInv, NodeTypes, StackTypes
<1>3. Spec => [](PairInv /\ UserTypes)
  BY <1>1, PairInit, PairNext, PTL DEF Spec
<1>4. Spec => []SwingInv
  BY SwingInit, SwingStep, PTL DEF Spec
<1> QED
  BY <1>2, <1>3, <1>4, PTL
=============================================================================
