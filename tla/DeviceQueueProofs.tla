-------------------------- MODULE DeviceQueueProofs --------------------------
(***************************************************************************)
(* Proofs about DeviceQueue, for any number of contexts, units and         *)
(* semaphores: type correctness, the dependency order of the device queue, *)
(* what a settled unit has reported on its signal list, and that the queue *)
(* keeps the queue contract, step by step.                                 *)
(***************************************************************************)
EXTENDS QueueRefinement, TLAPS

USE DEF None

\* The values a submission asks for form a list of points, one per semaphore
\* of the signal list.
LEMMA NextPointsType ==
  ASSUME TypeOK, NEW list \in SignalLists, NEW wait, ClientRules(wait, NextPoints(list))
  PROVE  /\ NextPoints(list) \in Seq(Points)
         /\ DOMAIN NextPoints(list) = DOMAIN list
         /\ \A i \in DOMAIN list : /\ NextPoints(list)[i] = <<list[i], promised[list[i]] + 1>>
                                   /\ list[i] \in QueueSems
                                   /\ promised[list[i]] + 1 \in 1 .. MaxValue
<1>1. list \in Seq(QueueSems)
  BY ConstantsAssumption
<1>2. DOMAIN list = 1 .. Len(list) /\ Len(list) \in Nat
  BY <1>1
<1>3. DOMAIN NextPoints(list) = DOMAIN list
  BY DEF NextPoints
<1>4. ASSUME NEW i \in DOMAIN list
      PROVE  /\ NextPoints(list)[i] = <<list[i], promised[list[i]] + 1>>
             /\ list[i] \in QueueSems
             /\ promised[list[i]] + 1 \in 1 .. MaxValue
             /\ NextPoints(list)[i] \in Points
  <2>1. list[i] \in QueueSems
    BY <1>1, <1>2
  <2>2. NextPoints(list)[i] = <<list[i], promised[list[i]] + 1>>
    BY DEF NextPoints
  <2>3. promised[list[i]] \in 0 .. MaxValue
    BY <2>1 DEF TypeOK
  <2>4. NextPoints(list)[i][2] <= MaxValue
    BY <1>3 DEF ClientRules
  <2>5. promised[list[i]] + 1 \in 1 .. MaxValue
    BY <2>2, <2>3, <2>4, ConstantsAssumption
  <2> QED BY <2>1, <2>2, <2>5 DEF Points, Sems
<1>5. NextPoints(list) \in Seq(Points)
  <2>1. NextPoints(list) = [i \in 1 .. Len(list) |-> NextPoints(list)[i]]
    BY <1>2, <1>3 DEF NextPoints
  <2>2. \A i \in 1 .. Len(list) : NextPoints(list)[i] \in Points
    BY <1>2, <1>4
  <2> HIDE DEF NextPoints
  <2> QED BY <2>1, <2>2, <1>2
<1> QED BY <1>3, <1>4, <1>5

\* After Promise every promised value is again a payload value.
LEMMA PromiseType ==
  ASSUME TypeOK, NEW signal, Promise(signal),
         \A i \in DOMAIN signal : signal[i][1] \in QueueSems => promised[signal[i][1]] < MaxValue
  PROVE  promised' \in [QueueSems -> 0 .. MaxValue]
BY ConstantsAssumption DEF TypeOK, Promise
-----------------------------------------------------------------------------

\* The initial state satisfies the inductive invariant: nothing was submitted.
LEMMA InitInv == Init => IInv
<1> SUFFICES ASSUME Init PROVE IInv
  OBVIOUS
<1> USE DEF Init, NoUnit
<1>1. TypeOK
  <2>1. NoUnit \in UnitType
    BY ConstantsAssumption DEF UnitType, AllKinds, WorkerKinds, Contexts, Runners
  <2> QED BY <2>1, ConstantsAssumption DEF TypeOK, Units, Contexts, Stages, Settled, Active
<1>2. \A u \in Units : unit[u].signal = <<>> /\ unit[u].wait = <<>>
  OBVIOUS
<1>3. FreshInv
  BY DEF FreshInv, Units
<1>4. ListInv /\ ValueInv /\ DistinctInv /\ WaitOwnerInv /\ PendingInv /\ WaitedInv
  BY <1>2 DEF ListInv, ValueInv, DistinctInv, WaitOwnerInv, PendingInv, WaitedInv
<1>5. OwnerInv /\ VouchInv
  BY DEF OwnerInv, VouchInv, Sems
<1>6. ChannelInv /\ PlaceInv /\ InOrder
  BY DEF ChannelInv, PlaceInv, InOrder, Active
<1> QED BY <1>1, <1>3, <1>4, <1>5, <1>6 DEF IInv

-----------------------------------------------------------------------------

\* The shape of the lists a unit carries.
LEMMA UnitFacts ==
  ASSUME TypeOK, NEW u \in Units
  PROVE  /\ unit[u].wait \in Seq(Points) /\ Len(unit[u].wait) \in Nat
         /\ DOMAIN unit[u].wait = 1 .. Len(unit[u].wait)
         /\ \A i \in DOMAIN unit[u].wait :
              unit[u].wait[i][1] \in Sems /\ unit[u].wait[i][2] \in 1 .. MaxValue
         /\ unit[u].signal \in Seq(Points) /\ Len(unit[u].signal) \in Nat
         /\ DOMAIN unit[u].signal = 1 .. Len(unit[u].signal)
         /\ \A i \in DOMAIN unit[u].signal :
              unit[u].signal[i][1] \in Sems /\ unit[u].signal[i][2] \in 1 .. MaxValue
<1>1. unit[u] \in UnitType
  BY DEF TypeOK
<1>2. unit[u].wait \in Seq(Points) /\ unit[u].signal \in Seq(Points)
  BY <1>1 DEF UnitType
<1>3. \A i \in DOMAIN unit[u].wait : unit[u].wait[i] \in Points
  BY <1>2
<1>4. \A i \in DOMAIN unit[u].signal : unit[u].signal[i] \in Points
  BY <1>2
<1> QED BY <1>2, <1>3, <1>4 DEF Points

\* A unit submitted before another one is a unit.
LEMMA EarlierIsUnit == \A u \in Units : u \in Nat /\ \A p \in 1 .. u - 1 : p \in Units
BY ConstantsAssumption DEF Units

\* Most steps only move units along. They keep the invariant when no unit
\* becomes accepted or stops being so, no finished work is forgotten, no entry
\* becomes pending again, and no wait entry is passed before it was reached.
Moves ==
  \A x \in Units :
    /\ Accepted(x)' <=> Accepted(x)
    /\ Vouched(x) => Vouched(x)'
    /\ stage'[x] \in {"signal", "signalled"} => Vouched(x)'
    /\ \A i \in DOMAIN unit[x].signal : Pending(x, i)' => Pending(x, i)
    /\ \A i \in DOMAIN unit[x].wait :
         Passed(x, i)' => Passed(x, i) \/ timeline[unit[x].wait[i][1]] >= unit[x].wait[i][2]

\* What such a step keeps whatever it does to the promised values.
LEMMA MovesInv ==
  ASSUME IInv, UNCHANGED <<timeline, unit>>, Moves
  PROVE  ListInv' /\ DistinctInv' /\ WaitOwnerInv' /\ PendingInv' /\ WaitedInv' /\ VouchInv'
<1>1. \A x, p : Signals(x, p)' <=> Signals(x, p)
  BY DEF Signals
<1>2. ListInv'
  BY DEF IInv, ListInv
<1>3. DistinctInv'
  BY <1>1 DEF IInv, DistinctInv, Moves
<1>4. WaitOwnerInv'
  BY <1>1, EarlierIsUnit DEF IInv, WaitOwnerInv, Moves
<1>5. PendingInv'
  BY DEF IInv, PendingInv, Moves
<1>6. WaitedInv'
  BY DEF IInv, WaitedInv, Moves
<1>7. VouchInv'
  BY <1>1 DEF IInv, VouchInv, Moves
<1> QED BY <1>2, <1>3, <1>4, <1>5, <1>6, <1>7

\* ... and what it keeps when it leaves them alone.
LEMMA FrameInv ==
  ASSUME IInv, UNCHANGED <<timeline, promised, unit, caller>>, Moves
  PROVE  /\ ListInv' /\ ValueInv' /\ DistinctInv' /\ OwnerInv' /\ WaitOwnerInv'
         /\ PendingInv' /\ WaitedInv' /\ VouchInv'
<1>1. ValueInv'
  BY DEF IInv, ValueInv, Moves
<1>2. OwnerInv'
  BY DEF IInv, OwnerInv, Moves, Signals
<1> QED BY <1>1, <1>2, MovesInv

\* Steps that keep every unit where it is, queued, with its runner or settled,
\* keep the channels in order.
LEMMA PlaceFrameInv ==
  ASSUME IInv, UNCHANGED <<unit, queue, running, worker, caller>>,
         device' = "gone" => \A w \in Contexts : worker[w] # "alive",
         \A x \in Units :
           /\ stage'[x] = "queued" <=> stage[x] = "queued"
           /\ stage[x] = "queued" => pos'[x] = pos[x]
           /\ stage'[x] \in Active <=> stage[x] \in Active
           /\ stage[x] \in Settled => stage'[x] = stage[x]
           /\ stage'[x] \in Settled => stage[x] \in Settled
  PROVE  ChannelInv' /\ PlaceInv' /\ InOrder'
<1>1. \A w \in Contexts : \A i \in DOMAIN queue[w] : queue[w][i] \in Units
  BY DEF IInv, TypeOK
<1>2. \A w \in Contexts : running[w] # None => running[w] \in Units
  BY DEF IInv, TypeOK
<1>3. ChannelInv'
  BY <1>1, <1>2 DEF IInv, ChannelInv
<1>4. PlaceInv'
  BY DEF IInv, PlaceInv, Settled
<1>5. InOrder'
  BY DEF IInv, InOrder, Settled
<1> QED BY <1>3, <1>4, <1>5

-----------------------------------------------------------------------------

\* wait_all moves on by one entry, ends well or ends with a failure.
LEMMA WaitNextInv == ASSUME IInv, NEW u \in Units, WaitNext(u) PROVE IInv'
<1> USE DEF semVars, poolVars, hostVars
<1>1. TypeOK'
  <2>1. stage' \in [Units -> Stages]
    BY DEF WaitNext, IInv, TypeOK, Stages, Active, AfterWait
  <2>2. pos' \in [Units -> Nat \ {0}]
    BY DEF WaitNext, IInv, TypeOK
  <2> QED BY <2>1, <2>2 DEF WaitNext, IInv, TypeOK
<1>2. FreshInv'
  BY DEF WaitNext, IInv, TypeOK, FreshInv, AfterWait
<1>3. \A x \in Units :
        /\ Accepted(x)' <=> Accepted(x)
        /\ Vouched(x) => Vouched(x)'
        /\ stage'[x] \in {"signal", "signalled"} => Vouched(x)'
        /\ \A i \in DOMAIN unit[x].signal : Pending(x, i)' => Pending(x, i)
  BY DEF WaitNext, IInv, TypeOK, VouchInv, Accepted, Vouched, PastWait, AfterWait, Pending
<1>4. ASSUME NEW x \in Units, NEW i \in DOMAIN unit[x].wait, Passed(x, i)'
      PROVE  Passed(x, i) \/ timeline[unit[x].wait[i][1]] >= unit[x].wait[i][2]
  <2>1. /\ DOMAIN unit[x].wait = 1 .. Len(unit[x].wait) /\ Len(unit[x].wait) \in Nat
        /\ pos[x] \in Nat
    BY UnitFacts DEF IInv, TypeOK
  <2> QED BY <1>4, <2>1 DEF WaitNext, IInv, TypeOK, Passed, PastWait, AfterWait, Reached
<1>5. ChannelInv' /\ PlaceInv' /\ InOrder'
  BY PlaceFrameInv DEF WaitNext, IInv, TypeOK, PlaceInv, Active, Settled, AfterWait
<1> QED BY <1>1, <1>2, <1>3, <1>4, <1>5, FrameInv DEF WaitNext, IInv, Moves

\* The work of a unit returns OK.
LEMMA WorkOkInv == ASSUME IInv, NEW u \in Units, WorkOk(u) PROVE IInv'
<1> USE DEF semVars, poolVars, hostVars
<1>1. TypeOK'
  BY DEF WorkOk, IInv, TypeOK, Stages, Active
<1>2. FreshInv'
  BY DEF WorkOk, IInv, TypeOK, FreshInv
<1>3. \A x \in Units :
        /\ Accepted(x)' <=> Accepted(x)
        /\ Vouched(x) => Vouched(x)'
        /\ stage'[x] \in {"signal", "signalled"} => Vouched(x)'
        /\ \A i \in DOMAIN unit[x].signal : Pending(x, i)' => Pending(x, i)
        /\ \A i \in DOMAIN unit[x].wait : Passed(x, i)' => Passed(x, i)
  BY DEF WorkOk, IInv, TypeOK, VouchInv, Accepted, Vouched, PastWait, Pending, Passed
<1>4. ChannelInv' /\ PlaceInv' /\ InOrder'
  BY PlaceFrameInv DEF WorkOk, IInv, TypeOK, PlaceInv, Active, Settled
<1> QED BY <1>1, <1>2, <1>3, <1>4, FrameInv DEF WorkOk, IInv, Moves

\* fail_all fails one more semaphore of the signal list.
LEMMA FailNextInv == ASSUME IInv, NEW u \in Units, FailNext(u) PROVE IInv'
<1> USE DEF semVars, poolVars, hostVars
<1>1. TypeOK'
  <2>1. failed' \subseteq Sems
    BY UnitFacts DEF FailNext, IInv, TypeOK
  <2>2. pos' \in [Units -> Nat \ {0}]
    BY DEF FailNext, IInv, TypeOK
  <2> QED BY <2>1, <2>2 DEF FailNext, IInv, TypeOK
<1>2. FreshInv'
  BY DEF FailNext, IInv, TypeOK, FreshInv
<1>3. \A x \in Units :
        /\ Accepted(x)' <=> Accepted(x)
        /\ Vouched(x) => Vouched(x)'
        /\ stage'[x] \in {"signal", "signalled"} => Vouched(x)'
        /\ \A i \in DOMAIN unit[x].signal : Pending(x, i)' => Pending(x, i)
        /\ \A i \in DOMAIN unit[x].wait : Passed(x, i)' => Passed(x, i)
  BY DEF FailNext, IInv, TypeOK, VouchInv, Accepted, Vouched, PastWait, Pending, Passed
<1>4. ChannelInv' /\ PlaceInv' /\ InOrder'
  <2>1. \A x \in Units : stage[x] = "queued" => pos'[x] = pos[x]
    BY DEF FailNext, IInv, TypeOK
  <2> QED BY <2>1, PlaceFrameInv DEF FailNext, IInv, PlaceInv
<1> QED BY <1>1, <1>2, <1>3, <1>4, FrameInv DEF FailNext, IInv, Moves

\* The host fails a semaphore, the pool begins to shut down, or nothing moves.
LEMMA QuietInv ==
  ASSUME IInv,
         \/ \E s \in HostSems : HostFail(s)
         \/ Destroy \/ TakeSender \/ Joined \/ Finished \/ UNCHANGED vars
  PROVE  IInv'
<1> USE DEF semVars, poolVars, hostVars, HostFail, Destroy, TakeSender, Joined, Finished, vars
<1>1. /\ UNCHANGED <<timeline, promised, submitted, unit, stage, pos, result, queue,
                     running, worker, caller>>
      /\ failed' \subseteq Sems /\ sender' \subseteq Contexts
      /\ device' \in {"live", "closing", "joining", "gone"}
      /\ device' = "gone" => \A w \in Contexts : worker[w] # "alive"
  BY DEF IInv, TypeOK, Sems, PlaceInv
<1>2. TypeOK' /\ FreshInv'
  BY <1>1 DEF IInv, TypeOK, FreshInv
<1>3. \A x \in Units :
        /\ Accepted(x)' <=> Accepted(x)
        /\ Vouched(x) => Vouched(x)'
        /\ stage'[x] \in {"signal", "signalled"} => Vouched(x)'
        /\ \A i \in DOMAIN unit[x].signal : Pending(x, i)' => Pending(x, i)
        /\ \A i \in DOMAIN unit[x].wait : Passed(x, i)' => Passed(x, i)
  BY <1>1 DEF IInv, VouchInv, Accepted, Vouched, PastWait, Pending, Passed
<1>4. ChannelInv' /\ PlaceInv' /\ InOrder'
  BY <1>1, PlaceFrameInv
<1> QED BY <1>1, <1>2, <1>3, <1>4, FrameInv DEF IInv, Moves

\* A worker receives the next unit of its channel.
LEMMA ReceiveInv == ASSUME IInv, NEW w \in Contexts, Receive(w) PROVE IInv'
<1> DEFINE u == Head(queue[w])
<1> USE DEF semVars, poolVars, hostVars
<1>1. /\ queue[w] \in Seq(Units) /\ queue[w] # <<>> /\ Len(queue[w]) \in Nat \ {0}
      /\ DOMAIN queue[w] = 1 .. Len(queue[w])
      /\ u = queue[w][1] /\ 1 \in DOMAIN queue[w] /\ u \in Units
  BY DEF Receive, IInv, TypeOK
<1>2. /\ Tail(queue[w]) \in Seq(Units) /\ DOMAIN Tail(queue[w]) = 1 .. Len(queue[w]) - 1
      /\ \A i \in 1 .. Len(queue[w]) - 1 : Tail(queue[w])[i] = queue[w][i + 1]
  BY <1>1
<1>3. /\ stage[u] = "queued" /\ pos[u] = 1 /\ unit[u].runner = "worker" /\ unit[u].context = w
      /\ \A i \in DOMAIN queue[w] : i # 1 => u < queue[w][i]
  BY <1>1 DEF IInv, ChannelInv
<1>4. /\ running' = [running EXCEPT ![w] = u] /\ stage' = [stage EXCEPT ![u] = "wait"]
      /\ queue' = [queue EXCEPT ![w] = Tail(queue[w])] /\ running[w] = None
      /\ worker[w] = "alive"
      /\ UNCHANGED <<timeline, failed, unit, pos, result, sender, worker, promised,
                     submitted, caller, device>>
  BY DEF Receive
<1> HIDE DEF u
<1>5. TypeOK'
  BY <1>1, <1>2, <1>4 DEF IInv, TypeOK, Stages, Active
<1>6. FreshInv'
  BY <1>1, <1>3, <1>4 DEF IInv, TypeOK, FreshInv
<1>7. \A x \in Units :
        /\ Accepted(x)' <=> Accepted(x)
        /\ Vouched(x) => Vouched(x)'
        /\ stage'[x] \in {"signal", "signalled"} => Vouched(x)'
        /\ \A i \in DOMAIN unit[x].signal : Pending(x, i)' => Pending(x, i)
  BY <1>1, <1>3, <1>4 DEF IInv, TypeOK, VouchInv, Accepted, Vouched, PastWait, Pending
<1>8. ASSUME NEW x \in Units, NEW i \in DOMAIN unit[x].wait, Passed(x, i)'
      PROVE  Passed(x, i)
  <2>1. i \in Nat \ {0}
    BY UnitFacts DEF IInv
  <2> QED BY <1>3, <1>4, <1>8, <2>1 DEF IInv, TypeOK, Passed, PastWait
<1>9. ChannelInv'
  <2>1. \A v \in Contexts : \A i \in DOMAIN queue[v] : queue[v][i] \in Units /\ queue[v][i] \in Nat
    BY EarlierIsUnit DEF IInv, TypeOK
  <2>2. ASSUME NEW v \in Contexts, v # w
        PROVE  /\ queue'[v] = queue[v] /\ running'[v] = running[v]
               /\ \A i \in DOMAIN queue[v] : queue[v][i] # u
               /\ running[v] # u
    BY <1>1, <1>3, <1>4, <2>2 DEF IInv, TypeOK, ChannelInv, Active
  <2>3. ASSUME NEW v \in Contexts, v # w
        PROVE  /\ \A i \in DOMAIN queue'[v] :
                    LET x == queue'[v][i] IN
                    /\ stage'[x] = "queued" /\ pos'[x] = 1
                    /\ unit'[x].runner = "worker" /\ unit'[x].context = v
                    /\ running'[v] < x
                    /\ \A j \in DOMAIN queue'[v] : i < j => x < queue'[v][j]
               /\ running'[v] # None =>
                    /\ stage'[running'[v]] \in Active
                    /\ unit'[running'[v]].runner = "worker" /\ unit'[running'[v]].context = v
               /\ worker'[v] # "alive" => queue'[v] = <<>> /\ running'[v] = None
    BY <1>1, <1>4, <2>1, <2>2, <2>3 DEF IInv, TypeOK, ChannelInv
  <2>4. /\ queue'[w] = Tail(queue[w]) /\ running'[w] = u /\ worker'[w] = "alive"
    BY <1>4 DEF IInv, TypeOK
  <2>5. ASSUME NEW i \in DOMAIN queue'[w]
        PROVE  LET x == queue'[w][i] IN
               /\ stage'[x] = "queued" /\ pos'[x] = 1
               /\ unit'[x].runner = "worker" /\ unit'[x].context = w
               /\ running'[w] < x
               /\ \A j \in DOMAIN queue'[w] : i < j => x < queue'[w][j]
    <3>1. i \in 1 .. Len(queue[w]) - 1 /\ i + 1 \in DOMAIN queue[w] /\ i + 1 # 1
      BY <1>1, <1>2, <2>4
    <3>2. queue'[w][i] = queue[w][i + 1] /\ u < queue[w][i + 1] /\ u \in Nat
      BY <1>1, <1>2, <1>3, <2>4, <3>1, EarlierIsUnit
    <3>3. queue[w][i + 1] # u
      BY <3>2, <2>1, <3>1
    <3>4. \A j \in DOMAIN queue'[w] : i < j => queue[w][i + 1] < queue'[w][j]
      <4> SUFFICES ASSUME NEW j \in DOMAIN queue'[w], i < j
                   PROVE  queue[w][i + 1] < queue'[w][j]
        OBVIOUS
      <4>1. /\ j \in 1 .. Len(queue[w]) - 1 /\ j + 1 \in DOMAIN queue[w] /\ i + 1 < j + 1
            /\ queue'[w][j] = queue[w][j + 1]
        BY <1>1, <1>2, <2>4, <3>1
      <4> QED BY <3>1, <4>1 DEF IInv, ChannelInv
    <3>5. /\ stage[queue[w][i + 1]] = "queued" /\ pos[queue[w][i + 1]] = 1
          /\ unit[queue[w][i + 1]].runner = "worker" /\ unit[queue[w][i + 1]].context = w
      BY <3>1 DEF IInv, ChannelInv
    <3> QED BY <1>4, <2>1, <2>4, <3>1, <3>2, <3>3, <3>4, <3>5 DEF IInv, TypeOK
  <2>6. stage'[u] \in Active
    BY <1>1, <1>4 DEF IInv, TypeOK, Active
  <2> QED BY <1>3, <1>4, <2>3, <2>4, <2>5, <2>6 DEF ChannelInv
<1>10. PlaceInv'
  <2>1. ASSUME NEW x \in Units, stage'[x] = "queued"
        PROVE  /\ unit'[x].runner = "worker"
               /\ \E i \in DOMAIN queue'[unit'[x].context] : queue'[unit'[x].context][i] = x
    <3>1. x # u /\ stage[x] = "queued"
      BY <1>1, <1>4, <2>1 DEF IInv, TypeOK
    <3>2. /\ unit[x].runner = "worker" /\ unit[x].context \in Contexts
          /\ \E i \in DOMAIN queue[unit[x].context] : queue[unit[x].context][i] = x
      BY <3>1 DEF IInv, PlaceInv, TypeOK, UnitType
    <3>3. CASE unit[x].context = w
      <4>1. PICK i \in DOMAIN queue[w] : queue[w][i] = x
        BY <3>2, <3>3
      <4>2. i # 1 /\ i \in 1 .. Len(queue[w])
        BY <1>1, <3>1, <4>1
      <4>3. i - 1 \in 1 .. Len(queue[w]) - 1 /\ Tail(queue[w])[i - 1] = x
        BY <1>1, <1>2, <4>1, <4>2
      <4> QED BY <1>2, <1>4, <3>2, <3>3, <4>3 DEF IInv, TypeOK
    <3>4. CASE unit[x].context # w
      BY <1>4, <3>2, <3>4 DEF IInv, TypeOK
    <3> QED BY <3>3, <3>4
  <2>2. ASSUME NEW x \in Units, unit'[x].runner = "worker", stage'[x] \in Active
        PROVE  running'[unit'[x].context] = x
    <3>1. CASE x = u
      BY <1>3, <1>4, <3>1 DEF IInv, TypeOK
    <3>2. CASE x # u
      <4>1. stage[x] \in Active /\ running[unit[x].context] = x
        BY <1>1, <1>4, <2>2, <3>2 DEF IInv, TypeOK, PlaceInv
      <4>2. unit[x].context # w
        BY <1>4, <4>1, EarlierIsUnit DEF Units
      <4> QED BY <1>4, <4>1, <4>2 DEF IInv, TypeOK
    <3> QED BY <3>1, <3>2
  <2>3. \A x \in Units : stage'[x] = "lost" =>
          unit'[x].runner = "worker" /\ worker'[unit'[x].context] = "panicked"
    BY <1>4 DEF IInv, TypeOK, PlaceInv
  <2>4. /\ caller' # None => unit'[caller'].runner = "caller"
        /\ device' = "gone" => \A v \in Contexts : worker'[v] # "alive"
    BY <1>4 DEF IInv, PlaceInv
  <2>5. \A x \in Units : (unit'[x].runner = "caller" /\ stage'[x] \in Active) => caller' = x
    BY <1>1, <1>3, <1>4 DEF IInv, TypeOK, PlaceInv
  <2> QED BY <2>1, <2>2, <2>3, <2>4, <2>5 DEF PlaceInv
<1>11. InOrder'
  <2> SUFFICES ASSUME NEW x \in Units, NEW y \in Units, x < y,
                      unit[x].runner = "worker", unit[y].runner = "worker",
                      unit[x].context = unit[y].context,
                      stage'[y] \in Active \cup {"signalled", "failed"}
               PROVE  stage'[x] \in Settled
    BY <1>4 DEF InOrder
  <2>1. CASE y # u
    <3>1. stage[x] \in Settled
      BY <1>4, <2>1 DEF IInv, TypeOK, InOrder
    <3> QED BY <1>3, <1>4, <3>1 DEF IInv, TypeOK, Settled
  <2>2. CASE y = u
    <3>1. x # u /\ stage'[x] = stage[x] /\ unit[x].context = w
      BY <1>3, <1>4, <2>2, EarlierIsUnit DEF IInv, TypeOK
    <3>2. stage[x] # "none"
      BY <1>3, <2>2, EarlierIsUnit DEF IInv, FreshInv, TypeOK
    <3>3. stage[x] # "queued"
      <4> SUFFICES ASSUME stage[x] = "queued" PROVE FALSE
        OBVIOUS
      <4>1. PICK i \in DOMAIN queue[w] : queue[w][i] = x
        BY <3>1 DEF IInv, PlaceInv
      <4> QED BY <1>1, <1>3, <2>2, <4>1, <3>1, EarlierIsUnit
    <3>4. stage[x] \notin Active
      BY <1>4, <3>1, EarlierIsUnit DEF IInv, PlaceInv, Units
    <3> QED BY <3>1, <3>2, <3>3, <3>4 DEF IInv, TypeOK, Stages
  <2> QED BY <2>1, <2>2
<1> QED BY <1>4, <1>5, <1>6, <1>7, <1>8, <1>9, <1>10, <1>11, FrameInv DEF IInv, Moves

\* The host signals one of its semaphores.
LEMMA HostSignalInv == ASSUME IInv, NEW s \in HostSems, HostSignal(s) PROVE IInv'
<1> USE DEF semVars, poolVars, hostVars
<1>1. /\ timeline' = [timeline EXCEPT ![s] = timeline[s] + 1] /\ timeline[s] < MaxValue
      /\ UNCHANGED <<failed, unit, stage, pos, result, queue, running, sender, worker,
                     promised, submitted, caller, device>>
  BY ConstantsAssumption DEF HostSignal, IInv, TypeOK, Sems
<1>2. timeline' \in [Sems -> 0 .. MaxValue]
  BY <1>1, ConstantsAssumption DEF IInv, TypeOK, Sems
<1>3. TypeOK' /\ FreshInv'
  BY <1>1, <1>2 DEF IInv, TypeOK, FreshInv
<1>4. /\ \A x \in Sems : timeline'[x] >= timeline[x]
      /\ \A x \in QueueSems : timeline'[x] = timeline[x]
  BY <1>1, ConstantsAssumption DEF IInv, TypeOK, Sems
<1>5. \A x \in Units : /\ \A p : Signals(x, p)' <=> Signals(x, p)
                       /\ Accepted(x)' <=> Accepted(x)
                       /\ Vouched(x)' <=> Vouched(x)
                       /\ \A i : Pending(x, i)' <=> Pending(x, i)
                       /\ \A i : Passed(x, i)' <=> Passed(x, i)
  BY <1>1 DEF Signals, Accepted, Vouched, PastWait, Pending, Passed
<1>6. ListInv' /\ ValueInv' /\ DistinctInv' /\ OwnerInv' /\ WaitOwnerInv'
  BY <1>1, <1>5, EarlierIsUnit DEF IInv, ListInv, ValueInv, DistinctInv, OwnerInv, WaitOwnerInv
<1>7. PendingInv'
  BY <1>1, <1>4, <1>5 DEF IInv, PendingInv, ListInv
<1>8. WaitedInv'
  <2> SUFFICES ASSUME NEW x \in Units, NEW i \in DOMAIN unit[x].wait, Passed(x, i)
               PROVE  timeline'[unit[x].wait[i][1]] >= unit[x].wait[i][2]
    BY <1>1, <1>5 DEF WaitedInv
  <2>1. timeline[unit[x].wait[i][1]] >= unit[x].wait[i][2]
    BY DEF IInv, WaitedInv
  <2>2. unit[x].wait[i][1] \in Sems /\ unit[x].wait[i][2] \in 1 .. MaxValue
    BY UnitFacts DEF IInv
  <2> QED BY <1>2, <1>4, <2>1, <2>2 DEF IInv, TypeOK
<1>9. VouchInv'
  BY <1>1, <1>4, <1>5 DEF IInv, VouchInv
<1>10. ChannelInv' /\ PlaceInv' /\ InOrder'
  BY <1>1, PlaceFrameInv DEF IInv, PlaceInv
<1> QED BY <1>3, <1>6, <1>7, <1>8, <1>9, <1>10 DEF IInv

\* list_signal advances one timeline, or is refused. A value is signalled when
\* the one before it has been reached, so the timeline moves by one.
LEMMA SignalNextInv == ASSUME IInv, NEW u \in Units, SignalNext(u) PROVE IInv'
<1> DEFINE list == unit[u].signal
           s == list[pos[u]][1]
           v == list[pos[u]][2]
<1> USE DEF semVars, poolVars, hostVars
<1>1. /\ stage[u] = "signal" /\ pos[u] \in DOMAIN list
      /\ s \in QueueSems /\ s \in Sems /\ v \in 1 .. MaxValue /\ list[pos[u]] = <<s, v>>
      /\ pos[u] \in Nat \ {0} /\ Len(list) \in Nat /\ DOMAIN list = 1 .. Len(list)
  <2>1. pos[u] \in Nat \ {0} /\ stage[u] = "signal" /\ pos[u] <= Len(list)
    BY DEF SignalNext, IInv, TypeOK
  <2>2. DOMAIN list = 1 .. Len(list) /\ Len(list) \in Nat /\ pos[u] \in DOMAIN list
    BY <2>1, UnitFacts DEF IInv
  <2>3. list[pos[u]] \in Points
    BY <2>2, UnitFacts DEF IInv
  <2> QED BY <2>1, <2>2, <2>3 DEF IInv, ListInv, Points
<1>2. /\ UNCHANGED <<failed, unit, stage, result, queue, running, sender, worker, promised,
                     submitted, caller, device>>
      /\ pos' \in [Units -> Nat \ {0}] /\ pos'[u] > pos[u]
      /\ \A x \in Units : x # u => pos'[x] = pos[x]
  <2>1. UNCHANGED <<failed, unit, stage, result, queue, running, sender, worker, promised,
                    submitted, caller, device>>
    BY DEF SignalNext
  <2>2. \/ pos' = [pos EXCEPT ![u] = pos[u] + 1]
        \/ pos' = [pos EXCEPT ![u] = Len(list) + 1]
    BY DEF SignalNext
  <2>3. pos \in [Units -> Nat \ {0}]
    BY DEF IInv, TypeOK
  <2> HIDE DEF list
  <2> QED BY <1>1, <2>1, <2>2, <2>3
<1>3. \A x \in Units : /\ \A p : Signals(x, p)' <=> Signals(x, p)
                       /\ Accepted(x)' <=> Accepted(x)
                       /\ Vouched(x)' <=> Vouched(x)
                       /\ \A i \in DOMAIN unit[x].signal : Pending(x, i)' => Pending(x, i)
                       /\ \A i \in DOMAIN unit[x].wait : Passed(x, i)' => Passed(x, i)
  <2>1. \A x \in Units : \A i \in DOMAIN unit[x].signal : i \in Nat
    BY UnitFacts DEF IInv
  <2>2. \A x \in Units : /\ \A p : Signals(x, p)' <=> Signals(x, p)
                         /\ Accepted(x)' <=> Accepted(x)
                         /\ Vouched(x)' <=> Vouched(x)
    BY <1>2 DEF Signals, Accepted, Vouched, PastWait
  <2>3. \A x \in Units : \A i \in DOMAIN unit[x].signal : Pending(x, i)' => Pending(x, i)
    BY <1>1, <1>2, <2>1 DEF Pending
  <2>4. \A x \in Units : \A i \in DOMAIN unit[x].wait : Passed(x, i)' => Passed(x, i)
    BY <1>1, <1>2 DEF Passed, PastWait
  <2> QED BY <2>2, <2>3, <2>4
<1>4. FreshInv'
  BY <1>1, <1>2 DEF IInv, TypeOK, FreshInv
<1>5. ListInv' /\ ValueInv' /\ DistinctInv' /\ OwnerInv' /\ WaitOwnerInv'
  <2>1. ListInv' /\ ValueInv'
    BY <1>2, <1>3 DEF IInv, ListInv, ValueInv
  <2>2. DistinctInv'
    BY <1>2, <1>3 DEF IInv, DistinctInv
  <2>3. OwnerInv'
    BY <1>2, <1>3 DEF IInv, OwnerInv
  <2>4. WaitOwnerInv'
    BY <1>2, <1>3, EarlierIsUnit DEF IInv, WaitOwnerInv
  <2> QED BY <2>1, <2>2, <2>3, <2>4
<1>6. ChannelInv' /\ PlaceInv' /\ InOrder'
  <2>1. \A x \in Units : stage[x] = "queued" => pos'[x] = pos[x]
    BY <1>1, <1>2
  <2> QED BY <1>2, <2>1, PlaceFrameInv DEF IInv, PlaceInv
<1>7. CASE UNCHANGED timeline
  <2>1. TypeOK'
    BY <1>2, <1>7 DEF IInv, TypeOK
  <2>2. Moves
    BY <1>2, <1>3 DEF Moves, IInv, VouchInv
  <2> QED BY <1>2, <1>4, <1>5, <1>6, <1>7, <2>1, <2>2, MovesInv DEF IInv
<1>8. CASE timeline' = [timeline EXCEPT ![s] = v] /\ ~Refused(list[pos[u]])
  <2>1. timeline[s] \in 0 .. MaxValue /\ timeline[s] < v
    BY <1>1, <1>8 DEF Refused, IInv, TypeOK
  <2>2. timeline[s] = v - 1
    <3>1. CASE v = 1
      BY <2>1, <3>1, ConstantsAssumption
    <3>2. CASE v > 1
      <4>1. PICK j \in DOMAIN unit[u].wait : unit[u].wait[j] = <<s, v - 1>>
        BY <1>1, <3>2 DEF IInv, ListInv
      <4>2. timeline[s] >= v - 1
        BY <1>1, <4>1 DEF IInv, WaitedInv, Passed, PastWait
      <4> QED BY <1>1, <2>1, <4>2, ConstantsAssumption
    <3> QED BY <1>1, <3>1, <3>2, ConstantsAssumption
  <2>3. timeline' \in [Sems -> 0 .. MaxValue]
    BY <1>1, <1>8, ConstantsAssumption DEF IInv, TypeOK
  <2>4. TypeOK'
    BY <1>2, <2>3 DEF IInv, TypeOK
  <2>5. /\ timeline'[s] = v
        /\ \A x \in Sems : x # s => timeline'[x] = timeline[x]
        /\ \A x \in Sems : timeline'[x] >= timeline[x]
    BY <1>1, <1>8, <2>1, ConstantsAssumption DEF IInv, TypeOK
  <2>6. PendingInv'
    <3> SUFFICES ASSUME NEW x \in Units, NEW i \in DOMAIN unit[x].signal, Pending(x, i)'
                 PROVE  timeline'[unit[x].signal[i][1]] < unit[x].signal[i][2]
      BY <1>2 DEF PendingInv
    <3>1. Pending(x, i) /\ timeline[unit[x].signal[i][1]] < unit[x].signal[i][2]
      BY <1>3 DEF IInv, PendingInv
    <3>2. CASE unit[x].signal[i][1] # s
      BY <2>5, <3>1, <3>2, UnitFacts DEF IInv
    <3>3. CASE unit[x].signal[i][1] = s
      <4>1. unit[x].signal[i] \in Points /\ unit[x].signal[i][2] >= v
        <5>1. unit[x].signal[i] \in Points
          BY UnitFacts DEF IInv
        <5>2. unit[x].signal[i][2] \in 1 .. MaxValue /\ v \in 1 .. MaxValue
          BY <5>1, <1>1, ConstantsAssumption DEF Points
        <5>3. timeline[s] < unit[x].signal[i][2]
          BY <3>1, <3>3
        <5> QED BY <5>1, <5>2, <5>3, <2>1, <2>2, ConstantsAssumption
      <4>2. unit[x].signal[i][2] # v
        <5> SUFFICES ASSUME unit[x].signal[i][2] = v PROVE FALSE
          OBVIOUS
        <5>1. unit[x].signal[i] = <<s, v>>
          BY <3>3, <4>1 DEF Points
        <5>2. CASE x = u
          <6>1. i = pos[u]
            BY <1>1, <3>3, <5>2 DEF IInv, ListInv
          <6> QED BY <1>1, <1>2, <5>2, <6>1 DEF Pending, IInv, TypeOK
        <5>3. CASE x # u
          <6>1. Accepted(x) /\ Accepted(u)
            BY <1>1, <3>1 DEF Accepted, Pending
          <6>2. Signals(u, unit[x].signal[i])
            BY <1>1, <5>1 DEF Signals
          <6> QED BY <5>3, <6>1, <6>2 DEF IInv, DistinctInv
        <5> QED BY <5>2, <5>3
      <4> QED BY <1>1, <2>5, <3>3, <4>1, <4>2, ConstantsAssumption DEF Points
    <3> QED BY <3>2, <3>3
  <2>7. WaitedInv'
    <3> SUFFICES ASSUME NEW x \in Units, NEW i \in DOMAIN unit[x].wait, Passed(x, i)
                 PROVE  timeline'[unit[x].wait[i][1]] >= unit[x].wait[i][2]
      BY <1>2, <1>3 DEF WaitedInv
    <3>1. timeline[unit[x].wait[i][1]] >= unit[x].wait[i][2]
      BY DEF IInv, WaitedInv
    <3>2. unit[x].wait[i][1] \in Sems /\ unit[x].wait[i][2] \in 1 .. MaxValue
      BY UnitFacts DEF IInv
    <3> QED BY <2>3, <2>5, <3>1, <3>2 DEF IInv, TypeOK
  <2>8. VouchInv'
    <3>1. Vouched(u) /\ Accepted(u) /\ Signals(u, <<s, v>>)
      BY <1>1 DEF IInv, VouchInv, Accepted, Signals
    <3>2. ASSUME NEW x \in QueueSems, NEW n \in 1 .. timeline'[x]
          PROVE  \E p \in Units : Accepted(p) /\ Vouched(p) /\ Signals(p, <<x, n>>)
      <4>1. CASE x = s /\ n = v
        BY <3>1, <4>1
      <4>2. CASE x # s \/ n # v
        <5>1. n \in 1 .. timeline[x]
          BY <1>1, <2>1, <2>2, <2>5, <4>2, ConstantsAssumption DEF Sems, IInv, TypeOK
        <5> QED BY <5>1 DEF IInv, VouchInv
      <4> QED BY <4>1, <4>2
    <3>3. \A x \in Units : stage'[x] \in {"signal", "signalled"} => Vouched(x)'
      BY <1>2, <1>3 DEF IInv, VouchInv
    <3> QED BY <1>3, <3>2, <3>3 DEF VouchInv
  <2> QED BY <1>4, <1>5, <1>6, <2>4, <2>6, <2>7, <2>8 DEF IInv
<1> QED BY <1>7, <1>8 DEF SignalNext

\* The last semaphore has been signalled or failed: the unit is settled, its
\* runner is free and, if that was the caller, its values are promised.
LEMMA SettleInv == ASSUME IInv, NEW u \in Units, SignalDone(u) \/ FailDone(u) PROVE IInv'
<1> USE DEF semVars, poolVars, hostVars
<1>1. /\ stage[u] \in {"signal", "fail"}
      /\ stage' = [stage EXCEPT ![u] = IF stage[u] = "signal" THEN "signalled" ELSE "failed"]
      /\ result' \in {result, [result EXCEPT ![u] = "ok"]}
      /\ stage[u] = "fail" => result' = result
      /\ Release(u)
      /\ UNCHANGED <<timeline, failed, unit, pos, queue, sender, worker, submitted, device>>
  BY DEF SignalDone, FailDone
<1>2. running' = [w \in Contexts |-> IF running[w] = u THEN None ELSE running[w]]
  BY <1>1 DEF Release
<1>3. Moves
  BY <1>1 DEF Moves, IInv, TypeOK, VouchInv, Accepted, Vouched, PastWait, Pending, Passed
<1>4. promised' \in [QueueSems -> 0 .. MaxValue] /\ ValueInv' /\ OwnerInv' /\ caller' \in {caller, None}
  <2>1. CASE caller # u
    <3>1. UNCHANGED <<caller, promised>>
      BY <1>1, <2>1 DEF Release
    <3> QED BY <1>1, <1>3, <3>1, FrameInv DEF IInv, TypeOK
  <2>2. CASE caller = u
    <3>1. caller' = None /\ Promise(unit[u].signal)
      BY <1>1, <2>2 DEF Release
    <3>2. Accepted(u)
      BY <1>1 DEF Accepted
    <3>3. \A i \in DOMAIN unit[u].signal :
            LET p == unit[u].signal[i] IN
            p[1] \in QueueSems /\ p[2] = promised[p[1]] + 1 /\ p \in Points /\ p[2] \in 1 .. MaxValue
      <4> SUFFICES ASSUME NEW i \in DOMAIN unit[u].signal
                   PROVE  LET p == unit[u].signal[i] IN
                          /\ p[1] \in QueueSems /\ p[2] = promised[p[1]] + 1
                          /\ p \in Points /\ p[2] \in 1 .. MaxValue
        OBVIOUS
      <4>1. unit[u].signal[i] \in Points /\ unit[u].signal[i][2] \in 1 .. MaxValue
        BY UnitFacts DEF IInv
      <4>2. unit[u].signal[i][2] = promised[unit[u].signal[i][1]] + 1
        BY <2>2, <3>2 DEF IInv, ValueInv
      <4>3. unit[u].signal[i][1] \in QueueSems
        BY DEF IInv, ListInv
      <4> QED BY <4>1, <4>2, <4>3
    <3>4. promised' \in [QueueSems -> 0 .. MaxValue]
      <4>1. \A i \in DOMAIN unit[u].signal : unit[u].signal[i][1] \in QueueSems =>
              promised[unit[u].signal[i][1]] < MaxValue
        <5> SUFFICES ASSUME NEW i \in DOMAIN unit[u].signal
                     PROVE  promised[unit[u].signal[i][1]] < MaxValue
          OBVIOUS
        <5>1. promised[unit[u].signal[i][1]] \in 0 .. MaxValue
          BY <3>3 DEF IInv, TypeOK
        <5> QED BY <3>3, <5>1, ConstantsAssumption
      <4> QED BY <3>1, <4>1, PromiseType DEF IInv
    <3>5. \A s \in QueueSems :
            /\ promised'[s] = IF \E i \in DOMAIN unit[u].signal : unit[u].signal[i][1] = s
                              THEN promised[s] + 1 ELSE promised[s]
            /\ promised[s] \in 0 .. MaxValue /\ promised'[s] \in 0 .. MaxValue
            /\ promised'[s] >= promised[s]
      BY <3>1, <3>4, ConstantsAssumption DEF Promise, IInv, TypeOK
    <3>6. ValueInv'
      <4> SUFFICES ASSUME NEW x \in Units, Accepted(x), NEW i \in DOMAIN unit[x].signal
                   PROVE  unit[x].signal[i][2] <= promised'[unit[x].signal[i][1]]
        BY <1>1, <1>3, <3>1, ConstantsAssumption DEF ValueInv, Moves, Units
      <4>1. CASE x = u
        BY <3>3, <3>5, <4>1, ConstantsAssumption
      <4>2. CASE x # u
        <5>1. /\ unit[x].signal[i][2] <= promised[unit[x].signal[i][1]]
              /\ unit[x].signal[i][1] \in QueueSems
          BY <2>2, <4>2 DEF IInv, ValueInv, ListInv
        <5>2. unit[x].signal[i][2] \in 1 .. MaxValue
          BY UnitFacts DEF IInv
        <5> QED BY <3>5, <5>1, <5>2, ConstantsAssumption
      <4> QED BY <4>1, <4>2
    <3>7. OwnerInv'
      <4> SUFFICES ASSUME NEW s \in QueueSems, NEW n \in 1 .. promised'[s]
                   PROVE  \E p \in Units : Accepted(p)' /\ p # caller' /\ Signals(p, <<s, n>>)'
        BY DEF OwnerInv
      <4>1. \A p \in Units : p # caller'
        BY <3>1 DEF Units
      <4>2. CASE n \in 1 .. promised[s]
        BY <1>1, <1>3, <4>1, <4>2 DEF IInv, OwnerInv, Moves, Signals
      <4>3. CASE n \notin 1 .. promised[s]
        <5>1. n = promised[s] + 1 /\ \E i \in DOMAIN unit[u].signal : unit[u].signal[i][1] = s
          BY <3>5, <4>3, ConstantsAssumption
        <5>2. PICK i \in DOMAIN unit[u].signal : unit[u].signal[i][1] = s
          BY <5>1
        <5>3. unit[u].signal[i] = <<s, n>>
          BY <3>3, <5>1, <5>2 DEF Points
        <5>4. Signals(u, <<s, n>>)'
          BY <1>1, <5>3 DEF Signals
        <5> QED BY <1>3, <3>2, <4>1, <5>4 DEF Moves
      <4> QED BY <4>2, <4>3
    <3> QED BY <3>1, <3>4, <3>6, <3>7
  <2> QED BY <2>1, <2>2
<1>5. TypeOK'
  <2>1. stage' \in [Units -> Stages]
    BY <1>1 DEF IInv, TypeOK, Stages, Settled
  <2>2. result' \in [Units -> {"none", "ok", "error"}]
    BY <1>1 DEF IInv, TypeOK
  <2>3. running' \in [Contexts -> Units \cup {None}] /\ caller' \in Units \cup {None}
    BY <1>2, <1>4 DEF IInv, TypeOK
  <2> QED BY <1>1, <1>4, <2>1, <2>2, <2>3 DEF IInv, TypeOK
<1>6. FreshInv'
  <2>1. caller' # None => caller' = caller /\ caller # u
    BY <1>1, <1>4 DEF Release
  <2> QED BY <1>1, <2>1 DEF IInv, TypeOK, FreshInv
<1>7. ChannelInv'
  <2>1. \A w \in Contexts : \A i \in DOMAIN queue[w] :
          /\ queue[w][i] \in Units /\ queue[w][i] \in Nat \ {0}
          /\ queue[w][i] # u
    <3>1. \A w \in Contexts : \A i \in DOMAIN queue[w] : queue[w][i] \in Units
      BY DEF IInv, TypeOK
    <3>2. \A w \in Contexts : \A i \in DOMAIN queue[w] : stage[queue[w][i]] = "queued"
      BY DEF IInv, ChannelInv
    <3> QED BY <1>1, <3>1, <3>2 DEF Units
  <2>2. \A w \in Contexts : running'[w] # None => running'[w] = running[w] /\ running[w] # u /\ running[w] \in Units
    BY <1>2 DEF IInv, TypeOK
  <2>3. ASSUME NEW w \in Contexts, NEW i \in DOMAIN queue[w]
        PROVE  /\ stage'[queue[w][i]] = "queued"
               /\ running'[w] < queue[w][i]
    BY <1>1, <1>2, <2>1, <2>2 DEF IInv, TypeOK, ChannelInv
  <2>4. \A w \in Contexts : running'[w] # None => stage'[running'[w]] \in Active
    BY <1>1, <2>2 DEF IInv, TypeOK, ChannelInv
  <2>5. \A w \in Contexts : running[w] = None => running'[w] = None
    BY <1>2, EarlierIsUnit DEF Units
  <2> QED BY <1>1, <2>1, <2>2, <2>3, <2>4, <2>5 DEF IInv, ChannelInv
<1>8. PlaceInv'
  <2>1. \A x \in Units : stage'[x] = "queued" => stage[x] = "queued"
    BY <1>1 DEF IInv, TypeOK
  <2>2. \A x \in Units : stage'[x] \in Active => stage[x] \in Active /\ x # u
    BY <1>1 DEF IInv, TypeOK, Active
  <2>3. \A x \in Units : stage'[x] = "lost" => stage[x] = "lost"
    BY <1>1 DEF IInv, TypeOK
  <2>4. \A x \in Units : unit[x].context \in Contexts
    BY DEF IInv, TypeOK, UnitType
  <2>5. \A w \in Contexts : running[w] # u => running'[w] = running[w]
    BY <1>2
  <2>6. caller # u => caller' = caller
    BY <1>1 DEF Release
  <2> QED BY <1>1, <1>4, <2>1, <2>2, <2>3, <2>4, <2>5, <2>6 DEF IInv, PlaceInv
<1>9. InOrder'
  <2>1. \A x \in Units : stage'[x] \in Active \cup {"signalled", "failed"} =>
          stage[x] \in Active \cup {"signalled", "failed"}
    BY <1>1 DEF IInv, TypeOK, Active
  <2>2. \A x \in Units : stage[x] \in Settled => stage'[x] \in Settled
    BY <1>1 DEF IInv, TypeOK, Settled
  <2> QED BY <1>1, <2>1, <2>2 DEF IInv, InOrder
<1> QED BY <1>1, <1>3, <1>4, <1>5, <1>6, <1>7, <1>8, <1>9, MovesInv DEF IInv

\* The work of a unit returns an error: it fails its list, or, for a transfer
\* run by the caller, is as if it had never been accepted.
LEMMA WorkErrorInv == ASSUME IInv, NEW u \in Units, WorkError(u) PROVE IInv'
<1> USE DEF semVars, poolVars, hostVars
<1>1. /\ stage[u] = "work" /\ result' = [result EXCEPT ![u] = "error"]
      /\ UNCHANGED <<timeline, failed, unit, pos, queue, running, sender, worker, promised,
                     submitted, device>>
  BY DEF WorkError
<1>2. CASE stage' = [stage EXCEPT ![u] = "fail"] /\ UNCHANGED caller
  <2>1. TypeOK'
    BY <1>1, <1>2 DEF IInv, TypeOK, Stages, Active
  <2>2. FreshInv'
    BY <1>1, <1>2 DEF IInv, TypeOK, FreshInv
  <2>3. Moves
    <3>1. result[u] = "none"
      BY <1>1 DEF IInv, FreshInv
    <3> QED BY <1>1, <1>2, <3>1 DEF Moves, IInv, TypeOK, VouchInv, Accepted, Vouched, PastWait, Pending, Passed
  <2>4. ChannelInv' /\ PlaceInv' /\ InOrder'
    BY <1>1, <1>2, PlaceFrameInv DEF IInv, TypeOK, PlaceInv, Active, Settled
  <2> QED BY <1>1, <1>2, <2>1, <2>2, <2>3, <2>4, FrameInv DEF IInv
<1>3. CASE stage' = [stage EXCEPT ![u] = "returned"] /\ caller' = None /\ unit[u].runner = "caller"
  <2>1. TypeOK'
    BY <1>1, <1>3 DEF IInv, TypeOK, Stages, Settled
  <2>2. FreshInv'
    BY <1>1, <1>3 DEF IInv, TypeOK, FreshInv
  <2>3. \A x, p : Signals(x, p)' <=> Signals(x, p)
    BY <1>1 DEF Signals
  <2>4. ~Accepted(u)' /\ \A x \in Units \ {u} :
          /\ Accepted(x)' <=> Accepted(x)
          /\ Vouched(x)' <=> Vouched(x)
          /\ stage'[x] = stage[x]
    BY <1>1, <1>3 DEF IInv, TypeOK, Accepted, Vouched, PastWait
  <2>5. caller = u /\ u = submitted /\ \A x \in Units : x # None
    BY <1>1, <1>3 DEF IInv, PlaceInv, FreshInv, Active, Units
  <2>6. ListInv'
    BY <1>1 DEF IInv, ListInv
  <2>7. ValueInv'
    BY <1>1, <1>3, <2>4, <2>5 DEF IInv, ValueInv
  <2>8. DistinctInv'
    BY <1>1, <2>3, <2>4 DEF IInv, DistinctInv
  <2>9. OwnerInv'
    BY <1>1, <1>3, <2>3, <2>4, <2>5 DEF IInv, OwnerInv
  <2>10. WaitOwnerInv'
    <3> SUFFICES ASSUME NEW x \in Units, NEW i \in DOMAIN unit[x].wait,
                        unit[x].wait[i][1] \in QueueSems
                 PROVE  \E p \in 1 .. x - 1 : Accepted(p)' /\ Signals(p, unit[x].wait[i])'
      BY <1>1 DEF WaitOwnerInv
    <3>1. PICK p \in 1 .. x - 1 : Accepted(p) /\ Signals(p, unit[x].wait[i])
      BY DEF IInv, WaitOwnerInv
    <3>2. x <= submitted
      <4> SUFFICES ASSUME ~(x <= submitted) PROVE FALSE
        OBVIOUS
      <4>1. unit[x].wait = <<>>
        BY DEF IInv, FreshInv, NoUnit
      <4> QED BY <4>1
    <3>3. p \in Units /\ p # u
      BY <2>5, <3>2, EarlierIsUnit
    <3>4. Accepted(p)' /\ Signals(p, unit[x].wait[i])'
      BY <1>1, <2>4, <3>1, <3>3 DEF Signals
    <3> QED BY <3>4
  <2>11. PendingInv'
    BY <1>1, <1>3 DEF IInv, TypeOK, PendingInv, Pending
  <2>12. WaitedInv'
    BY <1>1, <1>3 DEF IInv, TypeOK, WaitedInv, Passed, PastWait
  <2>13. VouchInv'
    <3>1. ASSUME NEW s \in QueueSems, NEW n \in 1 .. timeline[s]
          PROVE  \E p \in Units : Accepted(p)' /\ Vouched(p)' /\ Signals(p, <<s, n>>)'
      <4>1. PICK p \in Units : Accepted(p) /\ Vouched(p) /\ Signals(p, <<s, n>>)
        BY DEF IInv, VouchInv
      <4>2. p # u
        <5> SUFFICES ASSUME p = u PROVE FALSE
          OBVIOUS
        <5>1. PICK i \in DOMAIN unit[u].signal : unit[u].signal[i] = <<s, n>>
          BY <4>1 DEF Signals
        <5>2. timeline[s] < n
          BY <1>1, <5>1 DEF IInv, PendingInv, Pending
        <5> QED BY <5>2 DEF IInv, TypeOK, Sems
      <4> QED BY <2>3, <2>4, <4>1, <4>2
    <3>2. \A x \in Units : stage'[x] \in {"signal", "signalled"} => Vouched(x)'
      BY <1>1, <1>3, <2>4 DEF IInv, TypeOK, VouchInv
    <3> QED BY <1>1, <3>1, <3>2 DEF VouchInv
  <2>14. ChannelInv'
    <3>1. \A w \in Contexts : \A i \in DOMAIN queue[w] :
            queue[w][i] \in Units /\ stage[queue[w][i]] = "queued"
      BY DEF IInv, TypeOK, ChannelInv
    <3>2. \A w \in Contexts : running[w] # None => running[w] \in Units /\ running[w] # u
      BY <1>3 DEF IInv, TypeOK, ChannelInv
    <3> QED BY <1>1, <1>3, <2>4, <3>1, <3>2 DEF IInv, ChannelInv
  <2>15. PlaceInv'
    <3>1. \A x \in Units : stage'[x] \in {"queued", "lost"} \cup Active => x # u
      BY <1>3 DEF IInv, TypeOK, Active
    <3> QED BY <1>1, <1>3, <2>4, <2>5, <3>1 DEF IInv, PlaceInv
  <2>16. InOrder'
    <3>1. stage'[u] \in Settled /\ stage'[u] \notin Active \cup {"signalled", "failed"}
      BY <1>3 DEF IInv, TypeOK, Settled, Active
    <3> QED BY <1>1, <2>4, <3>1 DEF IInv, InOrder
  <2> QED BY <2>1, <2>2, <2>6, <2>7, <2>8, <2>9, <2>10, <2>11, <2>12, <2>13, <2>14, <2>15, <2>16 DEF IInv
<1> QED BY <1>1, <1>2, <1>3 DEF WorkError

\* A worker thread unwinds: its unit and its channel are lost.
LEMMA PanicInv == ASSUME IInv, NEW w \in Contexts, Panic(w) PROVE IInv'
<1> DEFINE Lost(x) == x = running[w] \/ \E i \in DOMAIN queue[w] : queue[w][i] = x
<1> USE DEF semVars, poolVars, hostVars
<1>1. /\ running[w] # None /\ stage[running[w]] = "work"
      /\ worker' = [worker EXCEPT ![w] = "panicked"]
      /\ stage' = [x \in Units |-> IF Lost(x) THEN "lost" ELSE stage[x]]
      /\ running' = [running EXCEPT ![w] = None]
      /\ queue' = [queue EXCEPT ![w] = <<>>]
      /\ UNCHANGED <<timeline, failed, unit, pos, result, sender, promised, submitted, caller, device>>
  BY DEF Panic
<1>2. \A x \in Units : Lost(x) =>
        /\ stage[x] \in {"work", "queued"} /\ unit[x].runner = "worker" /\ unit[x].context = w
        /\ result[x] = "none" /\ (stage[x] = "work" => unit[x].kind = "execute")
  <2>1. unit[running[w]].kind = "execute"
    BY DEF Panic
  <2> QED BY <1>1, <2>1 DEF IInv, ChannelInv, FreshInv
<1>3. \A x \in Units : stage'[x] = IF Lost(x) THEN "lost" ELSE stage[x]
  BY <1>1
<1> HIDE DEF Lost
<1>4. TypeOK'
  <2>1. stage' \in [Units -> Stages]
    BY <1>1 DEF IInv, TypeOK, Stages, Settled
  <2> QED BY <1>1, <2>1 DEF IInv, TypeOK
<1>5. FreshInv'
  <2>1. caller # None => caller \in Units /\ ~Lost(caller)
    BY <1>2 DEF IInv, TypeOK, PlaceInv
  <2> QED BY <1>1, <1>2, <1>3, <2>1 DEF IInv, FreshInv
<1>6. Moves
  <2> SUFFICES ASSUME NEW x \in Units
               PROVE  /\ Accepted(x)' <=> Accepted(x)
                      /\ Vouched(x) => Vouched(x)'
                      /\ stage'[x] \in {"signal", "signalled"} => Vouched(x)'
                      /\ \A i \in DOMAIN unit[x].signal : Pending(x, i)' => Pending(x, i)
                      /\ \A i \in DOMAIN unit[x].wait : Passed(x, i)' => Passed(x, i)
    BY DEF Moves
  <2>1. CASE ~Lost(x)
    <3>1. stage'[x] = stage[x]
      BY <1>3, <2>1
    <3> QED BY <1>1, <3>1 DEF IInv, VouchInv, Accepted, Vouched, PastWait, Pending, Passed
  <2>2. CASE Lost(x)
    <3>1. stage'[x] = "lost" /\ stage[x] \in {"work", "queued"} /\ result[x] = "none"
      BY <1>2, <1>3, <2>2
    <3>2. stage[x] = "work" => unit[x].kind = "execute"
      BY <1>2, <2>2
    <3> QED BY <1>1, <3>1, <3>2 DEF IInv, VouchInv, Accepted, Vouched, PastWait, Pending, Passed
  <2> QED BY <2>1, <2>2
<1>7. ChannelInv'
  <2>1. queue'[w] = <<>> /\ running'[w] = None /\ worker'[w] # "alive"
    BY <1>1 DEF IInv, TypeOK
  <2>2. ASSUME NEW v \in Contexts, v # w
        PROVE  /\ queue'[v] = queue[v] /\ running'[v] = running[v] /\ worker'[v] = worker[v]
               /\ \A i \in DOMAIN queue[v] : stage'[queue[v][i]] = stage[queue[v][i]]
               /\ running[v] # None => stage'[running[v]] = stage[running[v]]
    <3>1. \A i \in DOMAIN queue[v] : queue[v][i] \in Units /\ unit[queue[v][i]].context = v
      BY DEF IInv, TypeOK, ChannelInv
    <3>2. running[v] # None => running[v] \in Units /\ unit[running[v]].context = v
      BY DEF IInv, TypeOK, ChannelInv
    <3>3. \A x \in Units : unit[x].context = v => stage'[x] = stage[x]
      BY <1>2, <1>3, <2>2
    <3>4. queue'[v] = queue[v] /\ running'[v] = running[v] /\ worker'[v] = worker[v]
      BY <1>1, <2>2 DEF IInv, TypeOK
    <3> QED BY <3>1, <3>2, <3>3, <3>4
  <2> QED BY <1>1, <2>1, <2>2 DEF IInv, ChannelInv
<1>8. PlaceInv'
  <2> SUFFICES ASSUME NEW x \in Units
               PROVE  /\ stage'[x] = "queued" =>
                           /\ unit[x].runner = "worker"
                           /\ \E i \in DOMAIN queue'[unit[x].context] : queue'[unit[x].context][i] = x
                      /\ (unit[x].runner = "worker" /\ stage'[x] \in Active) => running'[unit[x].context] = x
                      /\ (unit[x].runner = "caller" /\ stage'[x] \in Active) => caller = x
                      /\ stage'[x] = "lost" => unit[x].runner = "worker" /\ worker'[unit[x].context] = "panicked"
    BY <1>1 DEF IInv, PlaceInv, TypeOK
  <2>1. unit[x].context \in Contexts
    BY DEF IInv, TypeOK, UnitType
  <2>2. CASE Lost(x)
    BY <1>1, <1>2, <1>3, <2>2 DEF IInv, TypeOK, Active
  <2>3. CASE ~Lost(x)
    <3>1. stage'[x] = stage[x]
      BY <1>3, <2>3
    <3>2. CASE unit[x].context = w
      BY <1>1, <2>3, <3>1, <3>2 DEF IInv, TypeOK, PlaceInv, Lost
    <3>3. CASE unit[x].context # w
      BY <1>1, <2>1, <3>1, <3>3 DEF IInv, TypeOK, PlaceInv
    <3> QED BY <3>2, <3>3
  <2> QED BY <2>2, <2>3
<1>9. InOrder'
  <2>1. \A x \in Units : stage'[x] \in Active \cup {"signalled", "failed"} => stage'[x] = stage[x]
    BY <1>3 DEF Active
  <2>2. \A x \in Units : stage[x] \in Settled => stage'[x] \in Settled
    BY <1>3 DEF Settled
  <2> QED BY <1>1, <2>1, <2>2 DEF IInv, InOrder
<1> QED BY <1>1, <1>4, <1>5, <1>6, <1>7, <1>8, <1>9, FrameInv DEF IInv

\* A worker whose channel is empty and closed ends.
LEMMA WorkerExitInv == ASSUME IInv, NEW w \in Contexts, WorkerExit(w) PROVE IInv'
<1> USE DEF semVars, poolVars, hostVars
<1>1. /\ running[w] = None /\ queue[w] = <<>> /\ worker[w] = "alive"
      /\ worker' = [worker EXCEPT ![w] = "exited"]
      /\ UNCHANGED <<timeline, failed, unit, stage, pos, result, queue, running, sender,
                     promised, submitted, caller, device>>
  BY DEF WorkerExit
<1>2. TypeOK' /\ FreshInv'
  BY <1>1 DEF IInv, TypeOK, FreshInv
<1>3. Moves
  BY <1>1 DEF Moves, IInv, VouchInv, Accepted, Vouched, PastWait, Pending, Passed
<1>4. ChannelInv' /\ InOrder'
  BY <1>1 DEF IInv, TypeOK, ChannelInv, InOrder
<1>5. PlaceInv'
  <2>1. \A v \in Contexts : worker'[v] = IF v = w THEN "exited" ELSE worker[v]
    BY <1>1 DEF IInv, TypeOK
  <2>2. \A x \in Units : unit[x].context \in Contexts
    BY DEF IInv, TypeOK, UnitType
  <2> QED BY <1>1, <2>1, <2>2 DEF IInv, PlaceInv
<1> QED BY <1>1, <1>2, <1>3, <1>4, <1>5, FrameInv DEF IInv

-----------------------------------------------------------------------------

\* A new unit: its waits are promised by earlier units and its values lie
\* above everything promised so far.
LEMMA NewUnitFacts ==
  ASSUME IInv, caller = None, submitted < NumUnits,
         NEW list \in SignalLists, NEW wait \in WaitLists,
         ClientRules(wait, NextPoints(list))
  PROVE  LET u == submitted + 1
             signal == NextPoints(list)
         IN  /\ u \in Units /\ u \notin 1 .. submitted
             /\ wait \in Seq(Points) /\ signal \in Seq(Points)
             /\ \A i \in DOMAIN signal :
                  /\ signal[i][1] \in QueueSems
                  /\ signal[i] = <<signal[i][1], promised[signal[i][1]] + 1>>
                  /\ signal[i][2] = promised[signal[i][1]] + 1
                  /\ signal[i][2] \in 1 .. MaxValue
                  /\ timeline[signal[i][1]] < signal[i][2]
                  /\ \A j \in DOMAIN signal : signal[j][1] = signal[i][1] => j = i
                  /\ signal[i][2] > 1 =>
                       \E j \in DOMAIN wait : wait[j] = <<signal[i][1], signal[i][2] - 1>>
             /\ \A i \in DOMAIN wait : wait[i][1] \in QueueSems =>
                  \E p \in 1 .. submitted : Accepted(p) /\ Signals(p, wait[i])
             /\ \A x \in Units : Accepted(x) =>
                  \A i \in DOMAIN signal : ~Signals(x, signal[i])
<1> DEFINE u == submitted + 1
           signal == NextPoints(list)
<1>1. u \in Units /\ u \notin 1 .. submitted
  BY ConstantsAssumption DEF IInv, TypeOK, Units
<1>2. wait \in Seq(Points) /\ signal \in Seq(Points) /\ DOMAIN signal = DOMAIN list
  BY NextPointsType, ConstantsAssumption DEF IInv
<1>3. \A i \in DOMAIN signal : /\ signal[i] = <<list[i], promised[list[i]] + 1>>
                               /\ list[i] \in QueueSems
                               /\ promised[list[i]] + 1 \in 1 .. MaxValue
  BY NextPointsType DEF IInv
<1>4. \A i, j \in DOMAIN signal : list[i] = list[j] => i = j
  BY <1>2, ConstantsAssumption
<1>5. \A i \in DOMAIN signal : signal[i][2] > 1 =>
        \E j \in DOMAIN wait : wait[j] = <<signal[i][1], signal[i][2] - 1>>
  BY DEF ClientRules
<1> HIDE DEF signal
<1>6. ASSUME NEW s \in QueueSems PROVE timeline[s] <= promised[s]
  <2>1. timeline[s] \in 0 .. MaxValue /\ promised[s] \in 0 .. MaxValue
    BY DEF IInv, TypeOK, Sems
  <2>2. CASE timeline[s] = 0
    BY <2>1, <2>2, ConstantsAssumption
  <2>3. CASE timeline[s] # 0
    <3>1. PICK p \in Units : Accepted(p) /\ Signals(p, <<s, timeline[s]>>)
      BY <2>1, <2>3, ConstantsAssumption DEF IInv, VouchInv
    <3>2. PICK i \in DOMAIN unit[p].signal : unit[p].signal[i] = <<s, timeline[s]>>
      BY <3>1 DEF Signals
    <3> QED BY <3>1, <3>2 DEF IInv, ValueInv, Units
  <2> QED BY <2>2, <2>3
<1>7. ASSUME NEW i \in DOMAIN signal
      PROVE  /\ signal[i][1] \in QueueSems
             /\ signal[i] = <<signal[i][1], promised[signal[i][1]] + 1>>
             /\ signal[i][2] = promised[signal[i][1]] + 1
             /\ signal[i][2] \in 1 .. MaxValue
             /\ timeline[signal[i][1]] < signal[i][2]
             /\ \A j \in DOMAIN signal : signal[j][1] = signal[i][1] => j = i
  <2>1. timeline[list[i]] \in 0 .. MaxValue /\ promised[list[i]] \in 0 .. MaxValue
    BY <1>3 DEF IInv, TypeOK, Sems
  <2>2. timeline[list[i]] < promised[list[i]] + 1
    BY <1>3, <1>6, <2>1, ConstantsAssumption
  <2> QED BY <1>3, <1>4, <2>2
<1>8. ASSUME NEW i \in DOMAIN wait, wait[i][1] \in QueueSems
      PROVE  \E p \in 1 .. submitted : Accepted(p) /\ Signals(p, wait[i])
  <2>1. wait[i][2] <= promised[wait[i][1]]
    BY <1>8 DEF ClientRules
  <2>2. wait[i] \in Points
    BY <1>2
  <2>3. wait[i] = <<wait[i][1], wait[i][2]>> /\ wait[i][2] \in 1 .. promised[wait[i][1]]
    BY <1>8, <2>1, <2>2, ConstantsAssumption DEF Points, IInv, TypeOK
  <2>4. PICK p \in Units : Accepted(p) /\ Signals(p, <<wait[i][1], wait[i][2]>>)
    BY <1>8, <2>3 DEF IInv, OwnerInv
  <2>5. p <= submitted
    BY <2>4 DEF IInv, FreshInv, Accepted
  <2>6. p \in 1 .. submitted
    BY <2>5, ConstantsAssumption DEF Units, IInv, TypeOK
  <2> QED BY <2>3, <2>4, <2>6
<1>9. ASSUME NEW x \in Units, Accepted(x), NEW i \in DOMAIN signal
      PROVE  ~Signals(x, signal[i])
  <2> SUFFICES ASSUME Signals(x, signal[i]) PROVE FALSE
    OBVIOUS
  <2>1. PICK j \in DOMAIN unit[x].signal : unit[x].signal[j] = signal[i]
    BY DEF Signals
  <2>2. signal[i][2] <= promised[signal[i][1]]
    BY <1>9, <2>1 DEF IInv, ValueInv, Units
  <2>3. promised[signal[i][1]] \in 0 .. MaxValue
    BY <1>7 DEF IInv, TypeOK
  <2> QED BY <1>7, <2>2, <2>3, ConstantsAssumption
<1> QED BY <1>1, <1>2, <1>5, <1>7, <1>8, <1>9 DEF signal

\* What every submission keeps, whichever thread is to run it: the promises,
\* the values handed out and the order of the timelines. The channels and the
\* runners are the business of the two lemmas after it.
LEMMA SubmitInv ==
  ASSUME IInv, caller = None, submitted < NumUnits,
         NEW list \in SignalLists, NEW wait \in WaitLists,
         ClientRules(wait, NextPoints(list)),
         NEW kind \in AllKinds, NEW context \in Contexts, NEW runner \in Runners,
         NEW st \in {"queued", "wait", "work", "signal", "rejected"},
         NewUnit(kind, context, wait, NextPoints(list), runner),
         stage' = [stage EXCEPT ![submitted + 1] = st],
         UNCHANGED <<timeline, pos, result>>,
         IF st \in {"work", "signal"} THEN caller' = submitted + 1 ELSE UNCHANGED caller,
         IF st \in {"queued", "wait"} THEN Promise(NextPoints(list)) ELSE UNCHANGED promised,
         st = "signal" => kind = "notify",
         st \in {"work", "signal"} => Poll(wait)
  PROVE  /\ promised' \in [QueueSems -> 0 .. MaxValue] /\ submitted' \in 0 .. NumUnits
         /\ unit' \in [Units -> UnitType] /\ stage' \in [Units -> Stages]
         /\ caller' \in Units \cup {None}
         /\ FreshInv' /\ ListInv' /\ ValueInv' /\ DistinctInv' /\ OwnerInv'
         /\ WaitOwnerInv' /\ PendingInv' /\ WaitedInv' /\ VouchInv'
<1>0. PICK u : u = submitted + 1
  OBVIOUS
<1> DEFINE signal == NextPoints(list)
           new == [kind |-> kind, context |-> context, wait |-> wait,
                   signal |-> signal, runner |-> runner]
<1>1. /\ u \in Units /\ u \notin 1 .. submitted /\ wait \in Seq(Points) /\ signal \in Seq(Points)
      /\ \A i \in DOMAIN signal :
           /\ signal[i][1] \in QueueSems
           /\ signal[i] = <<signal[i][1], promised[signal[i][1]] + 1>>
           /\ signal[i][2] = promised[signal[i][1]] + 1
           /\ signal[i][2] \in 1 .. MaxValue
           /\ timeline[signal[i][1]] < signal[i][2]
           /\ \A j \in DOMAIN signal : signal[j][1] = signal[i][1] => j = i
           /\ signal[i][2] > 1 =>
                \E j \in DOMAIN wait : wait[j] = <<signal[i][1], signal[i][2] - 1>>
      /\ \A i \in DOMAIN wait : wait[i][1] \in QueueSems =>
           \E p \in 1 .. submitted : Accepted(p) /\ Signals(p, wait[i])
      /\ \A x \in Units : Accepted(x) => \A i \in DOMAIN signal : ~Signals(x, signal[i])
  BY <1>0, NewUnitFacts
<1>2. submitted' = u /\ unit' = [unit EXCEPT ![u] = new]
  BY <1>0 DEF NewUnit
<1>3. st \in {"queued", "wait"} => Promise(signal)
  OBVIOUS
<1> HIDE DEF signal
<1>4. new \in UnitType
  BY <1>1 DEF UnitType
<1>5. unit'[u] = new /\ stage'[u] = st /\ pos'[u] = 1 /\ result'[u] = "none" /\ stage[u] = "none"
  BY <1>0, <1>1, <1>2 DEF IInv, TypeOK, FreshInv, Units
<1>6. new.wait = wait /\ new.signal = signal /\ new.kind = kind
  OBVIOUS
<1>7. \A x \in Units \ {u} :
        unit'[x] = unit[x] /\ stage'[x] = stage[x] /\ pos'[x] = pos[x] /\ result'[x] = result[x]
  BY <1>0, <1>2 DEF IInv, TypeOK
<1> HIDE DEF new
<1>8. \A x \in Units \ {u} :
        /\ Accepted(x)' <=> Accepted(x)
        /\ Vouched(x)' <=> Vouched(x)
        /\ \A p : Signals(x, p)' <=> Signals(x, p)
        /\ \A i : (Pending(x, i)' <=> Pending(x, i)) /\ (Passed(x, i)' <=> Passed(x, i))
  BY <1>7 DEF Accepted, Vouched, PastWait, Signals, Pending, Passed
<1>9. ~Accepted(u) /\ (Accepted(u)' <=> st # "rejected")
  BY <1>5 DEF Accepted
<1>10. \A p : Signals(u, p)' <=> \E i \in DOMAIN signal : signal[i] = p
  BY <1>5, <1>6 DEF Signals
<1>11. \A x \in Units : x # u => x # caller'
  BY <1>0, <1>1 DEF Units
<1>12. promised' \in [QueueSems -> 0 .. MaxValue]
  <2>1. CASE st \in {"queued", "wait"}
    <3>1. \A i \in DOMAIN signal : signal[i][1] \in QueueSems => promised[signal[i][1]] < MaxValue
      BY <1>1, ConstantsAssumption DEF IInv, TypeOK
    <3> QED BY <1>3, <2>1, <3>1, PromiseType DEF IInv
  <2>2. CASE st \notin {"queued", "wait"}
    BY <2>2 DEF IInv, TypeOK
  <2> QED BY <2>1, <2>2
<1>13. submitted' \in 0 .. NumUnits
  BY <1>0, <1>2, ConstantsAssumption DEF IInv, TypeOK
<1>14. unit' \in [Units -> UnitType]
  BY <1>1, <1>2, <1>4 DEF IInv, TypeOK
<1>15. stage' \in [Units -> Stages]
  BY <1>0, <1>1 DEF IInv, TypeOK, Stages, Active, Settled
<1>16. caller' \in Units \cup {None}
  BY <1>0, <1>1
<1>17. FreshInv'
  <2>1. ASSUME NEW x \in Units, x # u PROVE x <= submitted' <=> x <= submitted
    BY <1>0, <1>2, <2>1, ConstantsAssumption DEF Units, IInv, TypeOK
  <2>2. u <= submitted'
    BY <1>0, <1>2, ConstantsAssumption DEF IInv, TypeOK
  <2>3. ASSUME NEW x \in Units
        PROVE  /\ IF x <= submitted' THEN stage'[x] # "none"
                  ELSE /\ stage'[x] = "none" /\ result'[x] = "none" /\ pos'[x] = 1
                       /\ unit'[x] = NoUnit
               /\ stage'[x] \in {"queued", "wait", "work"} => result'[x] = "none"
    BY <1>5, <1>7, <2>1, <2>2 DEF IInv, FreshInv
  <2>4. caller' # None => caller' = submitted' /\ stage'[caller'] \in {"work", "signal", "fail"}
    BY <1>0, <1>2, <1>5
  <2> QED BY <2>3, <2>4 DEF FreshInv
<1>18. ListInv'
  <2> SUFFICES ASSUME NEW x \in Units, NEW i \in DOMAIN unit'[x].signal
               PROVE  LET p == unit'[x].signal[i] IN
                      /\ p[1] \in QueueSems
                      /\ \A j \in DOMAIN unit'[x].signal : unit'[x].signal[j][1] = p[1] => j = i
                      /\ p[2] > 1 => \E j \in DOMAIN unit'[x].wait : unit'[x].wait[j] = <<p[1], p[2] - 1>>
    BY DEF ListInv
  <2>1. CASE x = u
    <3>1. unit'[x].signal = signal /\ unit'[x].wait = wait /\ i \in DOMAIN signal
      BY <1>5, <1>6, <2>1
    <3> QED BY <1>1, <3>1
  <2>2. CASE x # u
    BY <1>7, <2>2 DEF IInv, ListInv
  <2> QED BY <2>1, <2>2
<1>19. ASSUME NEW s \in QueueSems
       PROVE  /\ promised'[s] \in {promised[s], promised[s] + 1}
              /\ promised[s] \in Nat /\ promised'[s] \in Nat
              /\ st \in {"queued", "wait"} => \A i \in DOMAIN signal :
                   signal[i][1] = s => promised'[s] = promised[s] + 1
              /\ promised'[s] # promised[s] =>
                   /\ st \in {"queued", "wait"}
                   /\ \E i \in DOMAIN signal : signal[i][1] = s
  <2>1. promised[s] \in Nat /\ promised'[s] \in Nat
    BY <1>12, ConstantsAssumption DEF IInv, TypeOK
  <2>2. CASE st \in {"queued", "wait"}
    BY <1>3, <2>1, <2>2 DEF Promise
  <2>3. CASE st \notin {"queued", "wait"}
    BY <2>1, <2>3
  <2> QED BY <2>1, <2>2, <2>3
<1>20. ValueInv'
  <2> SUFFICES ASSUME NEW x \in Units, Accepted(x)', NEW i \in DOMAIN unit'[x].signal
               PROVE  LET p == unit'[x].signal[i] IN
                      IF x = caller' THEN p[2] = promised'[p[1]] + 1 ELSE p[2] <= promised'[p[1]]
    BY DEF ValueInv
  <2>1. CASE x = u
    <3>1. unit'[x].signal = signal /\ i \in DOMAIN signal /\ signal[i][1] \in QueueSems
          /\ signal[i][2] = promised[signal[i][1]] + 1
      BY <1>1, <1>5, <1>6, <2>1
    <3>2. CASE st \in {"work", "signal"}
      BY <1>0, <2>1, <3>1, <3>2
    <3>3. CASE st \in {"queued", "wait"}
      BY <1>0, <1>1, <1>19, <2>1, <3>1, <3>3 DEF Units
    <3> QED BY <1>9, <2>1, <3>2, <3>3
  <2>2. CASE x # u
    <3>1. Accepted(x) /\ unit'[x] = unit[x] /\ x # caller' /\ x # caller
      BY <1>7, <1>8, <1>11, <2>2 DEF Units
    <3>2. unit[x].signal[i][2] <= promised[unit[x].signal[i][1]]
      BY <3>1 DEF IInv, ValueInv
    <3>3. unit[x].signal[i][1] \in QueueSems /\ unit[x].signal[i][2] \in 1 .. MaxValue
      BY <3>1, UnitFacts DEF IInv, ListInv
    <3> QED BY <1>19, <3>1, <3>2, <3>3, ConstantsAssumption
  <2> QED BY <2>1, <2>2
<1>21. DistinctInv'
  <2> SUFFICES ASSUME NEW x \in Units, NEW y \in Units, x # y, Accepted(x)', Accepted(y)',
                      NEW i \in DOMAIN unit'[x].signal
               PROVE  ~Signals(y, unit[x].signal[i])'
    BY DEF DistinctInv
  <2>1. CASE x = u
    <3>1. unit'[x].signal[i] = signal[i] /\ i \in DOMAIN signal /\ Accepted(y) /\ ~Signals(y, signal[i])
      BY <1>1, <1>5, <1>6, <1>8, <2>1
    <3> QED BY <1>7, <2>1, <3>1 DEF Signals
  <2>2. CASE y = u
    <3>1. unit'[x] = unit[x] /\ Accepted(x)
      BY <1>7, <1>8, <2>2
    <3> SUFFICES ASSUME Signals(y, unit[x].signal[i])' PROVE FALSE
      OBVIOUS
    <3>2. PICK j \in DOMAIN signal : signal[j] = unit[x].signal[i]
      BY <1>5, <1>6, <2>2, <3>1 DEF Signals
    <3>3. Signals(x, signal[j])
      BY <3>1, <3>2 DEF Signals
    <3> QED BY <1>1, <3>1, <3>3
  <2>3. CASE x # u /\ y # u
    <3>1. unit'[x] = unit[x] /\ unit'[y] = unit[y] /\ Accepted(x) /\ Accepted(y)
      BY <1>7, <1>8, <2>3
    <3>2. ~Signals(y, unit[x].signal[i])
      BY <3>1 DEF IInv, DistinctInv
    <3> QED BY <3>1, <3>2 DEF Signals
  <2> QED BY <2>1, <2>2, <2>3
<1>22. OwnerInv'
  <2> SUFFICES ASSUME NEW s \in QueueSems, NEW n \in 1 .. promised'[s]
               PROVE  \E p \in Units : Accepted(p)' /\ p # caller' /\ Signals(p, <<s, n>>)'
    BY DEF OwnerInv
  <2>1. CASE n \in 1 .. promised[s]
    <3>1. PICK p \in Units : Accepted(p) /\ Signals(p, <<s, n>>)
      BY <2>1 DEF IInv, OwnerInv
    <3>2. p # u
      BY <1>9, <3>1
    <3> QED BY <1>8, <1>11, <3>1, <3>2
  <2>2. CASE n \notin 1 .. promised[s]
    <3>1. n = promised[s] + 1 /\ promised'[s] # promised[s]
      BY <1>19, <2>2
    <3>2. PICK i \in DOMAIN signal : signal[i][1] = s
      BY <1>19, <3>1
    <3>3. signal[i] = <<s, n>> /\ st \in {"queued", "wait"}
      BY <1>1, <1>19, <3>1, <3>2
    <3>4. Signals(u, <<s, n>>)' /\ Accepted(u)'
      BY <1>9, <1>10, <3>3
    <3>5. u # caller'
      BY <1>0, <1>1, <3>3 DEF Units
    <3> QED BY <1>1, <3>4, <3>5
  <2> QED BY <2>1, <2>2
<1>23. WaitOwnerInv'
  <2> SUFFICES ASSUME NEW x \in Units, NEW i \in DOMAIN unit'[x].wait,
                      unit'[x].wait[i][1] \in QueueSems
               PROVE  \E p \in 1 .. x - 1 : Accepted(p)' /\ Signals(p, unit[x].wait[i])'
    BY DEF WaitOwnerInv
  <2>1. CASE x = u
    <3>1. unit'[x].wait = wait /\ i \in DOMAIN wait
      BY <1>5, <1>6, <2>1
    <3>2. PICK p \in 1 .. submitted : Accepted(p) /\ Signals(p, wait[i])
      BY <1>1, <3>1
    <3>3. p \in 1 .. x - 1 /\ p \in Units /\ p # u
      BY <1>0, <1>1, <2>1, ConstantsAssumption DEF IInv, TypeOK, Units
    <3>4. unit'[p] = unit[p] /\ Accepted(p)'
      BY <1>7, <1>8, <3>2, <3>3
    <3> QED BY <3>1, <3>2, <3>3, <3>4 DEF Signals
  <2>2. CASE x # u
    <3>1. unit'[x] = unit[x]
      BY <1>7, <2>2
    <3>2. PICK p \in 1 .. x - 1 : Accepted(p) /\ Signals(p, unit[x].wait[i])
      BY <3>1 DEF IInv, WaitOwnerInv
    <3>3. p \in Units /\ p # u
      BY <1>9, <3>2, EarlierIsUnit
    <3>4. unit'[p] = unit[p] /\ Accepted(p)'
      BY <1>7, <1>8, <3>2, <3>3
    <3> QED BY <3>1, <3>2, <3>4 DEF Signals
  <2> QED BY <2>1, <2>2
<1>24. PendingInv'
  <2> SUFFICES ASSUME NEW x \in Units, NEW i \in DOMAIN unit'[x].signal, Pending(x, i)'
               PROVE  timeline[unit'[x].signal[i][1]] < unit'[x].signal[i][2]
    BY DEF PendingInv
  <2>1. CASE x = u
    BY <1>1, <1>5, <1>6, <2>1
  <2>2. CASE x # u
    BY <1>7, <1>8, <2>2 DEF IInv, PendingInv
  <2> QED BY <2>1, <2>2
<1>25. WaitedInv'
  <2> SUFFICES ASSUME NEW x \in Units, NEW i \in DOMAIN unit'[x].wait, Passed(x, i)'
               PROVE  timeline[unit'[x].wait[i][1]] >= unit'[x].wait[i][2]
    BY DEF WaitedInv
  <2>1. CASE x = u
    <3>1. unit'[x].wait = wait /\ i \in DOMAIN wait /\ i \in Nat \ {0}
      BY <1>1, <1>5, <1>6, <2>1
    <3>2. st \in {"work", "signal"}
      BY <1>5, <2>1, <3>1 DEF Passed, PastWait
    <3> QED BY <3>1, <3>2 DEF Poll, Reached
  <2>2. CASE x # u
    BY <1>7, <1>8, <2>2 DEF IInv, WaitedInv
  <2> QED BY <2>1, <2>2
<1>26. VouchInv'
  <2>1. ASSUME NEW x \in Units, stage'[x] \in {"signal", "signalled"} PROVE Vouched(x)'
    <3>1. CASE x = u
      BY <1>5, <1>6, <2>1, <3>1 DEF Vouched, PastWait
    <3>2. CASE x # u
      BY <1>7, <1>8, <2>1, <3>2 DEF IInv, VouchInv
    <3> QED BY <3>1, <3>2
  <2>2. ASSUME NEW s \in QueueSems, NEW n \in 1 .. timeline[s]
        PROVE  \E p \in Units : Accepted(p)' /\ Vouched(p)' /\ Signals(p, <<s, n>>)'
    <3>1. PICK p \in Units : Accepted(p) /\ Vouched(p) /\ Signals(p, <<s, n>>)
      BY DEF IInv, VouchInv
    <3>2. p # u
      BY <1>9, <3>1
    <3> QED BY <1>8, <3>1, <3>2
  <2> QED BY <2>1, <2>2 DEF VouchInv
<1> QED BY <1>12, <1>13, <1>14, <1>15, <1>16, <1>17, <1>18, <1>20, <1>21, <1>22, <1>23,
           <1>24, <1>25, <1>26

\* queue_execute hands a unit to a worker, or is refused by a panicked one.
LEMMA EnqueueInv ==
  ASSUME IInv, NEW list \in SignalLists, NEW wait \in WaitLists, NEW kind \in Kinds,
         NEW context \in Contexts, Enqueue(kind, context, wait, NextPoints(list))
  PROVE  IInv'
<1> USE DEF semVars, poolVars, hostVars
<1>0. PICK u : u = submitted + 1
  OBVIOUS
<1>1. /\ caller = None /\ submitted < NumUnits /\ kind \in AllKinds
      /\ ClientRules(wait, NextPoints(list))
      /\ NewUnit(kind, context, wait, NextPoints(list), "worker")
      /\ UNCHANGED <<timeline, failed, pos, result, running, sender, worker, caller, device>>
  BY ConstantsAssumption DEF Enqueue
<1>2. PICK st \in {"queued", "rejected"} :
        /\ stage' = [stage EXCEPT ![submitted + 1] = st]
        /\ st = "queued" =>
             /\ worker[context] = "alive" /\ Promise(NextPoints(list))
             /\ queue' = [queue EXCEPT ![context] = Append(@, submitted + 1)]
        /\ st = "rejected" => UNCHANGED <<queue, promised>>
  BY DEF Enqueue
<1>3. /\ promised' \in [QueueSems -> 0 .. MaxValue] /\ submitted' \in 0 .. NumUnits
      /\ unit' \in [Units -> UnitType] /\ stage' \in [Units -> Stages]
      /\ caller' \in Units \cup {None}
      /\ FreshInv' /\ ListInv' /\ ValueInv' /\ DistinctInv' /\ OwnerInv'
      /\ WaitOwnerInv' /\ PendingInv' /\ WaitedInv' /\ VouchInv'
  <2>1. "worker" \in Runners
    BY DEF Runners
  <2> QED BY <1>1, <1>2, <2>1, SubmitInv
<1>4. /\ u \in Units /\ stage[u] = "none" /\ pos[u] = 1 /\ u \in Nat \ {0}
      /\ \A x \in Units : stage[x] # "none" => x < u
  BY <1>0, <1>1, ConstantsAssumption DEF IInv, TypeOK, FreshInv, Units
<1>5. /\ stage'[u] = st /\ unit'[u].runner = "worker" /\ unit'[u].context = context
      /\ \A x \in Units \ {u} : stage'[x] = stage[x] /\ unit'[x] = unit[x]
  BY <1>0, <1>1, <1>2, <1>4 DEF NewUnit, IInv, TypeOK
<1>6. /\ queue' \in [Contexts -> Seq(Units)]
      /\ \A v \in Contexts : (v # context \/ st = "rejected") => queue'[v] = queue[v]
  <2>1. queue \in [Contexts -> Seq(Units)] /\ Append(queue[context], u) \in Seq(Units)
    BY <1>4 DEF IInv, TypeOK
  <2>2. CASE st = "queued"
    <3>1. queue' = [queue EXCEPT ![context] = Append(queue[context], u)]
      BY <1>0, <1>2, <2>2
    <3> QED BY <2>1, <2>2, <3>1
  <2>3. CASE st = "rejected"
    BY <1>2, <2>1, <2>3
  <2> QED BY <1>2, <2>2, <2>3
<1>7. st = "queued" =>
        /\ queue[context] \in Seq(Units) /\ Len(queue[context]) \in Nat
        /\ DOMAIN queue[context] = 1 .. Len(queue[context])
        /\ DOMAIN queue'[context] = 1 .. Len(queue[context]) + 1
        /\ \A i \in DOMAIN queue[context] : queue'[context][i] = queue[context][i]
        /\ queue'[context][Len(queue[context]) + 1] = u
  <2>1. queue[context] \in Seq(Units) /\ Len(queue[context]) \in Nat
        /\ DOMAIN queue[context] = 1 .. Len(queue[context])
    BY DEF IInv, TypeOK
  <2>2. st = "queued" => queue'[context] = Append(queue[context], u)
    BY <1>0, <1>2 DEF IInv, TypeOK
  <2> QED BY <1>4, <2>1, <2>2
<1>8. TypeOK'
  BY <1>1, <1>3, <1>6 DEF IInv, TypeOK
<1>9. \A v \in Contexts : \A i \in DOMAIN queue[v] :
        queue[v][i] \in Units /\ queue[v][i] < u /\ queue[v][i] # u
  <2>1. \A v \in Contexts : \A i \in DOMAIN queue[v] :
          queue[v][i] \in Units /\ stage[queue[v][i]] = "queued"
    BY DEF IInv, TypeOK, ChannelInv
  <2>2. \A x \in Units : stage[x] = "queued" => x < u /\ x # u
    BY <1>4 DEF Units
  <2> QED BY <2>1, <2>2
<1>10. \A v \in Contexts : /\ running[v] < u
                           /\ running[v] # None => running[v] \in Units /\ running[v] # u
  <2>1. \A v \in Contexts : running[v] # None => running[v] \in Units /\ stage[running[v]] \in Active
    BY DEF IInv, TypeOK, ChannelInv
  <2>2. \A x \in Units : stage[x] \in Active => x < u /\ x # u
    BY <1>4 DEF Units, Active
  <2>3. 0 < u
    BY <1>4
  <2> QED BY <2>1, <2>2, <2>3
<1>11. ChannelInv'
  <2> SUFFICES ASSUME NEW v \in Contexts
               PROVE  /\ \A i \in DOMAIN queue'[v] :
                           LET x == queue'[v][i] IN
                           /\ stage'[x] = "queued" /\ pos[x] = 1
                           /\ unit'[x].runner = "worker" /\ unit'[x].context = v
                           /\ running[v] < x
                           /\ \A j \in DOMAIN queue'[v] : i < j => x < queue'[v][j]
                      /\ running[v] # None =>
                           /\ stage'[running[v]] \in Active
                           /\ unit'[running[v]].runner = "worker" /\ unit'[running[v]].context = v
                      /\ worker[v] # "alive" => queue'[v] = <<>> /\ running[v] = None
    BY <1>1 DEF ChannelInv
  <2>1. running[v] # None =>
          /\ stage'[running[v]] \in Active
          /\ unit'[running[v]].runner = "worker" /\ unit'[running[v]].context = v
    BY <1>5, <1>10 DEF IInv, ChannelInv
  <2>2. CASE v # context \/ st = "rejected"
    <3>1. queue'[v] = queue[v]
      BY <1>6, <2>2
    <3>2. \A i \in DOMAIN queue[v] :
            LET x == queue[v][i] IN
            /\ x \in Units /\ x # u /\ stage[x] = "queued" /\ pos[x] = 1
            /\ unit[x].runner = "worker" /\ unit[x].context = v
            /\ running[v] < x
            /\ \A j \in DOMAIN queue[v] : i < j => x < queue[v][j]
      BY <1>9 DEF IInv, ChannelInv
    <3>3. \A i \in DOMAIN queue[v] :
            stage'[queue[v][i]] = "queued" /\ unit'[queue[v][i]] = unit[queue[v][i]]
      BY <1>5, <3>2
    <3>4. worker[v] # "alive" => queue[v] = <<>> /\ running[v] = None
      BY DEF IInv, ChannelInv
    <3> QED BY <2>1, <3>1, <3>2, <3>3, <3>4
  <2>3. CASE v = context /\ st = "queued"
    <3>1. ASSUME NEW i \in DOMAIN queue[v]
          PROVE  /\ stage'[queue[v][i]] = "queued" /\ pos[queue[v][i]] = 1
                 /\ unit'[queue[v][i]].runner = "worker" /\ unit'[queue[v][i]].context = v
                 /\ running[v] < queue[v][i] /\ queue[v][i] < u
                 /\ \A j \in DOMAIN queue[v] : i < j => queue[v][i] < queue[v][j]
      BY <1>5, <1>9 DEF IInv, ChannelInv
    <3>2. stage'[u] = "queued" /\ pos[u] = 1 /\ unit'[u].runner = "worker"
          /\ unit'[u].context = v /\ running[v] < u
      BY <1>4, <1>5, <1>10, <2>3
    <3>3. \A i \in DOMAIN queue'[v] : i \in DOMAIN queue[v] \/ i = Len(queue[v]) + 1
      BY <1>7, <2>3
    <3>4. \A i \in DOMAIN queue[v] : queue'[v][i] = queue[v][i] /\ i < Len(queue[v]) + 1
      BY <1>7, <2>3
    <3>5. queue'[v][Len(queue[v]) + 1] = u /\ Len(queue[v]) + 1 \in Nat
      BY <1>7, <2>3
    <3>6. ASSUME NEW i \in DOMAIN queue'[v], NEW j \in DOMAIN queue'[v], i < j
          PROVE  queue'[v][i] < queue'[v][j]
      <4>1. i \in DOMAIN queue[v]
        BY <1>7, <2>3, <3>6
      <4> QED BY <3>1, <3>3, <3>4, <3>5, <3>6, <4>1
    <3>7. \A i \in DOMAIN queue'[v] :
            /\ stage'[queue'[v][i]] = "queued" /\ pos[queue'[v][i]] = 1
            /\ unit'[queue'[v][i]].runner = "worker" /\ unit'[queue'[v][i]].context = v
            /\ running[v] < queue'[v][i]
      BY <3>1, <3>2, <3>3, <3>4, <3>5
    <3> QED BY <1>2, <2>1, <2>3, <3>6, <3>7
  <2> QED BY <2>2, <2>3
<1>12. PlaceInv'
  <2>1. ASSUME NEW x \in Units, stage'[x] = "queued"
        PROVE  /\ unit'[x].runner = "worker"
               /\ \E i \in DOMAIN queue'[unit'[x].context] : queue'[unit'[x].context][i] = x
    <3>1. CASE x = u
      BY <1>5, <1>7, <2>1, <3>1
    <3>2. CASE x # u
      <4>1. /\ stage[x] = "queued" /\ unit'[x] = unit[x] /\ unit[x].runner = "worker"
            /\ unit[x].context \in Contexts
        BY <1>5, <2>1, <3>2 DEF IInv, TypeOK, UnitType, PlaceInv
      <4>2. PICK i \in DOMAIN queue[unit[x].context] : queue[unit[x].context][i] = x
        BY <4>1 DEF IInv, PlaceInv
      <4>3. CASE unit[x].context = context /\ st = "queued"
        <5>1. i \in DOMAIN queue'[context] /\ queue'[context][i] = x
          BY <1>7, <4>2, <4>3
        <5> QED BY <4>1, <4>3, <5>1
      <4>4. CASE unit[x].context # context \/ st = "rejected"
        BY <1>6, <4>1, <4>2, <4>4
      <4> QED BY <1>2, <4>3, <4>4
    <3> QED BY <3>1, <3>2
  <2>2. ASSUME NEW x \in Units, stage'[x] \in Active \cup {"lost"}
        PROVE  stage[x] = stage'[x] /\ unit'[x] = unit[x]
    BY <1>2, <1>5, <2>2 DEF Active
  <2>3. \A x \in Units :
          /\ (unit'[x].runner = "worker" /\ stage'[x] \in Active) => running[unit'[x].context] = x
          /\ (unit'[x].runner = "caller" /\ stage'[x] \in Active) => caller = x
          /\ stage'[x] = "lost" => unit'[x].runner = "worker" /\ worker[unit'[x].context] = "panicked"
    BY <2>2 DEF IInv, PlaceInv
  <2>4. device = "gone" => \A w \in Contexts : worker[w] # "alive"
    BY DEF IInv, PlaceInv
  <2> QED BY <1>1, <2>1, <2>3, <2>4 DEF PlaceInv
<1>13. InOrder'
  <2>1. \A x \in Units : stage'[x] \in Active \cup {"signalled", "failed"} =>
          x # u /\ stage'[x] = stage[x] /\ unit'[x] = unit[x] /\ x < u
    BY <1>2, <1>4, <1>5 DEF Active
  <2>2. \A x, y \in Units : (x < y /\ y < u) => x # u
    BY <1>4 DEF Units
  <2> QED BY <1>5, <2>1, <2>2 DEF IInv, InOrder
<1> QED BY <1>3, <1>8, <1>11, <1>12, <1>13 DEF IInv

\* Any other queue_* call runs its unit at once or starts a thread for it.
LEMMA RunAfterWaitInv ==
  ASSUME IInv, NEW list \in SignalLists, NEW wait \in WaitLists, NEW kind \in Kinds,
         RunAfterWait(kind, wait, NextPoints(list))
  PROVE  IInv'
<1> USE DEF semVars, poolVars, hostVars
<1>0. PICK u : u = submitted + 1
  OBVIOUS
<1>1. /\ caller = None /\ submitted < NumUnits /\ kind \in AllKinds /\ 0 \in Contexts
      /\ ClientRules(wait, NextPoints(list))
      /\ UNCHANGED <<timeline, failed, pos, result, queue, running, sender, worker, device>>
  BY ConstantsAssumption DEF RunAfterWait, Contexts
<1>2. PICK runner \in {"caller", "thread"}, st \in {"wait", "work", "signal"} :
        /\ NewUnit(kind, 0, wait, NextPoints(list), runner)
        /\ stage' = [stage EXCEPT ![submitted + 1] = st]
        /\ IF runner = "caller"
           THEN st \in {"work", "signal"} /\ caller' = submitted + 1 /\ Poll(wait) /\ UNCHANGED promised
           ELSE st = "wait" /\ UNCHANGED caller /\ Promise(NextPoints(list))
        /\ st = "signal" => kind = "notify"
  BY DEF RunAfterWait
<1>3. /\ promised' \in [QueueSems -> 0 .. MaxValue] /\ submitted' \in 0 .. NumUnits
      /\ unit' \in [Units -> UnitType] /\ stage' \in [Units -> Stages]
      /\ caller' \in Units \cup {None}
      /\ FreshInv' /\ ListInv' /\ ValueInv' /\ DistinctInv' /\ OwnerInv'
      /\ WaitOwnerInv' /\ PendingInv' /\ WaitedInv' /\ VouchInv'
  <2>1. runner \in Runners
    BY <1>2 DEF Runners
  <2> QED BY <1>1, <1>2, <2>1, SubmitInv
<1>4. /\ u \in Units /\ stage[u] = "none" /\ u \in Nat \ {0}
      /\ \A x \in Units : stage[x] # "none" => x < u
  BY <1>0, <1>1, ConstantsAssumption DEF IInv, TypeOK, FreshInv, Units
<1>5. /\ stage'[u] = st /\ unit'[u].runner = runner
      /\ \A x \in Units \ {u} : stage'[x] = stage[x] /\ unit'[x] = unit[x]
  BY <1>0, <1>1, <1>2, <1>4 DEF NewUnit, IInv, TypeOK
<1>6. TypeOK'
  BY <1>1, <1>3 DEF IInv, TypeOK
<1>7. ChannelInv'
  <2>1. \A v \in Contexts : \A i \in DOMAIN queue[v] : queue[v][i] \in Units /\ queue[v][i] # u
    BY <1>4 DEF IInv, TypeOK, ChannelInv
  <2>2. \A v \in Contexts : running[v] # None => running[v] \in Units /\ running[v] # u
    <3>1. \A v \in Contexts : running[v] # None => running[v] \in Units /\ stage[running[v]] \in Active
      BY DEF IInv, TypeOK, ChannelInv
    <3> QED BY <1>4, <3>1 DEF Active
  <2> QED BY <1>1, <1>5, <2>1, <2>2 DEF IInv, ChannelInv
<1>8. PlaceInv'
  <2>1. ASSUME NEW x \in Units
        PROVE  /\ stage'[x] = "queued" =>
                    /\ unit'[x].runner = "worker"
                    /\ \E i \in DOMAIN queue[unit'[x].context] : queue[unit'[x].context][i] = x
               /\ (unit'[x].runner = "worker" /\ stage'[x] \in Active) => running[unit'[x].context] = x
               /\ (unit'[x].runner = "caller" /\ stage'[x] \in Active) => caller' = x
               /\ stage'[x] = "lost" =>
                    unit'[x].runner = "worker" /\ worker[unit'[x].context] = "panicked"
    <3>1. CASE x = u
      BY <1>0, <1>2, <1>5, <3>1
    <3>2. CASE x # u
      <4>1. stage'[x] = stage[x] /\ unit'[x] = unit[x] /\ caller # x
        BY <1>1, <1>5, <3>2 DEF Units
      <4> QED BY <4>1 DEF IInv, PlaceInv
    <3> QED BY <3>1, <3>2
  <2>2. caller' # None => unit'[caller'].runner = "caller"
    BY <1>0, <1>1, <1>2, <1>5
  <2>3. device = "gone" => \A w \in Contexts : worker[w] # "alive"
    BY DEF IInv, PlaceInv
  <2> QED BY <1>1, <2>1, <2>2, <2>3 DEF PlaceInv
<1>9. InOrder'
  <2>1. \A x \in Units : x # u /\ stage'[x] \in Active \cup {"signalled", "failed"} =>
          stage'[x] = stage[x] /\ unit'[x] = unit[x] /\ x < u
    BY <1>4, <1>5 DEF Active
  <2>2. \A x, y \in Units : (x < y /\ y < u) => x # u
    BY <1>4 DEF Units
  <2>3. unit'[u].runner # "worker"
    BY <1>2, <1>5
  <2> QED BY <1>5, <2>1, <2>2, <2>3 DEF IInv, InOrder
<1> QED BY <1>3, <1>6, <1>7, <1>8, <1>9 DEF IInv
-----------------------------------------------------------------------------

\* Every step of the device queue keeps the inductive invariant.
LEMMA NextInv == IInv /\ [Next]_vars => IInv'
<1> SUFFICES ASSUME IInv, [Next]_vars PROVE IInv'
  OBVIOUS
<1>1. CASE Submit
  BY <1>1, EnqueueInv, RunAfterWaitInv DEF Submit
<1>2. ASSUME NEW s \in HostSems, HostStep(s) PROVE IInv'
  BY <1>2, HostSignalInv, QuietInv DEF HostStep
<1>3. ASSUME NEW u \in Units, UnitStep(u) PROVE IInv'
  BY <1>3, WaitNextInv, WorkOkInv, WorkErrorInv, SignalNextInv, SettleInv, FailNextInv DEF UnitStep
<1>4. ASSUME NEW w \in Contexts, WorkerStep(w) PROVE IInv'
  BY <1>4, ReceiveInv, PanicInv, WorkerExitInv DEF WorkerStep
<1>5. CASE Destroy \/ Shutdown \/ Finished \/ UNCHANGED vars
  BY <1>5, QuietInv DEF Shutdown
<1> QED BY <1>1, <1>2, <1>3, <1>4, <1>5 DEF Next

\* IInv is an invariant of the device queue.
THEOREM Invariance == Spec => []IInv
<1> QED BY InitInv, NextInv, PTL DEF Spec

\* Type correctness: timelines stay within their values, channels hold units,
\* workers run units of the pool.
THEOREM TypeCorrect == Spec => []TypeOK
<1>1. IInv => TypeOK
  BY DEF IInv
<1> QED BY <1>1, Invariance, PTL

\* Dependencies between submissions survive the threads they run on: however
\* the contexts, detached threads and callers interleave, whatever fails and
\* whichever worker panics, no work starts before the work it waits for is done.
THEOREM DependenciesHold == Spec => []DependencyOrder
<1>1. ASSUME IInv, NEW u \in Units, PastWait(u), NEW i \in DOMAIN unit[u].wait,
             unit[u].wait[i][1] \in QueueSems
      PROVE  \E p \in 1 .. u - 1 : Signals(p, unit[u].wait[i]) /\ Vouched(p)
  <2> DEFINE s == unit[u].wait[i][1]
             n == unit[u].wait[i][2]
  <2>1. unit[u].wait[i] = <<s, n>> /\ n \in 1 .. MaxValue
    <3>1. unit[u].wait \in Seq(Points)
      BY <1>1, UnitFacts DEF IInv
    <3>2. unit[u].wait[i] \in Points
      BY <3>1
    <3> QED BY <3>2 DEF Points
  <2>2. PICK p \in 1 .. u - 1 : Accepted(p) /\ Signals(p, unit[u].wait[i])
    BY <1>1 DEF IInv, WaitOwnerInv
  <2>3. timeline[s] >= n
    BY <1>1 DEF IInv, WaitedInv, Passed
  <2>4. n \in 1 .. timeline[s]
    BY <1>1, <2>1, <2>3, ConstantsAssumption DEF IInv, TypeOK, Sems
  <2>5. PICK v \in Units : Accepted(v) /\ Vouched(v) /\ Signals(v, <<s, n>>)
    BY <1>1, <2>4 DEF IInv, VouchInv
  <2>6. p \in Units
    BY EarlierIsUnit
  <2>7. p = v
    BY <1>1, <2>1, <2>2, <2>5, <2>6 DEF IInv, DistinctInv, Signals
  <2> QED BY <2>2, <2>5, <2>7
<1>2. IInv => DependencyOrder
  BY <1>1 DEF DependencyOrder
<1> QED BY <1>2, Invariance, PTL

\* No signal is refused as going backwards: the statuses that worker_main and
\* the detached threads drop never hide an INVALID_ARGUMENT.
THEOREM NoSignalRegresses == Spec => []SignalsNeverRegress
<1>1. ASSUME IInv PROVE SignalsNeverRegress
  <2> SUFFICES ASSUME NEW u \in Units, stage[u] = "signal", pos[u] <= Len(unit[u].signal)
               PROVE  timeline[unit[u].signal[pos[u]][1]] < unit[u].signal[pos[u]][2]
    BY DEF SignalsNeverRegress
  <2>1. pos[u] \in DOMAIN unit[u].signal /\ pos[u] \in Nat
    BY <1>1, UnitFacts DEF IInv, TypeOK
  <2> QED BY <1>1, <2>1 DEF IInv, PendingInv, Pending
<1> QED BY <1>1, Invariance, PTL

\* A context runs its units in the order enqueue_on accepted them.
THEOREM ContextsInOrder == Spec => []InOrder
<1>1. IInv => InOrder
  BY DEF IInv
<1> QED BY <1>1, Invariance, PTL

\* A freed device left nothing in a channel or on a worker.
THEOREM ShutdownIsComplete == Spec => []ShutdownDrains
<1>1. ASSUME IInv, device = "gone", NEW u \in 1 .. submitted, unit[u].runner = "worker"
      PROVE  stage[u] \in Settled
  <2>1. u \in Units /\ u # None
    BY <1>1, ConstantsAssumption DEF IInv, TypeOK, Units
  <2>2. unit[u].context \in Contexts /\ stage[u] \in Stages
    BY <1>1, <2>1 DEF IInv, TypeOK, UnitType
  <2>3. queue[unit[u].context] = <<>> /\ running[unit[u].context] = None
    BY <1>1, <2>2 DEF IInv, PlaceInv, ChannelInv
  <2>4. stage[u] # "none"
    BY <1>1, <2>1 DEF IInv, FreshInv
  <2>5. stage[u] \notin Active /\ stage[u] # "queued"
    BY <1>1, <2>1, <2>3 DEF IInv, PlaceInv
  <2> QED BY <2>2, <2>4, <2>5 DEF Stages
<1>2. IInv => ShutdownDrains
  BY <1>1 DEF ShutdownDrains
<1> QED BY <1>2, Invariance, PTL

\* A panic takes only its own context down, and leaves nothing pending there.
THEOREM PanicsAreContained == Spec => []PanicContained
<1>1. ASSUME IInv, NEW u \in 1 .. submitted
      PROVE  /\ stage[u] = "lost" => worker[unit[u].context] = "panicked"
             /\ (unit[u].runner = "worker" /\ worker[unit[u].context] = "panicked")
                  => stage[u] \in Settled
  <2>1. u \in Units /\ u # None
    BY <1>1, ConstantsAssumption DEF IInv, TypeOK, Units
  <2>2. unit[u].context \in Contexts /\ stage[u] \in Stages /\ stage[u] # "none"
    BY <1>1, <2>1 DEF IInv, TypeOK, UnitType, FreshInv
  <2>3. ASSUME unit[u].runner = "worker", worker[unit[u].context] = "panicked"
        PROVE  stage[u] \in Settled
    <3>1. queue[unit[u].context] = <<>> /\ running[unit[u].context] = None
      BY <1>1, <2>2, <2>3 DEF IInv, ChannelInv
    <3>2. stage[u] \notin Active /\ stage[u] # "queued"
      BY <1>1, <2>1, <2>3, <3>1 DEF IInv, PlaceInv
    <3> QED BY <2>2, <3>2 DEF Stages
  <2> QED BY <1>1, <2>1, <2>3 DEF IInv, PlaceInv
<1>2. IInv => PanicContained
  BY <1>1 DEF PanicContained
<1> QED BY <1>2, Invariance, PTL
-----------------------------------------------------------------------------
(* What the invariant of the queue does not say: how far signal_all and     *)
(* fail_all have come, and why a unit fails.                               *)

\* Unit u has reported on entry i of its signal list: it has signalled it, or
\* found the list poisoned at it or before it.
Reported(u, i) ==
  LET list == unit[u].signal IN
  timeline[list[i][1]] >= list[i][2] \/ \E j \in 1 .. i : list[j][1] \in failed

\* The lists are gone through from their first entry on.
ReportAt(u) ==
  LET list == unit[u].signal IN
  /\ stage[u] = "work" => pos[u] = 1
  /\ stage[u] = "fail" => \A i \in DOMAIN list : i < pos[u] => list[i][1] \in failed
  /\ stage[u] = "failed" => \A i \in DOMAIN list : list[i][1] \in failed
  /\ stage[u] = "signal" => \A i \in DOMAIN list : i < pos[u] => Reported(u, i)
  /\ stage[u] = "signalled" => \A i \in DOMAIN list : Reported(u, i)

\* A unit that signals has not failed; one that fails has, or its wait list has.
CauseAt(u) ==
  /\ stage[u] \in {"signal", "signalled"} => result[u] # "error"
  /\ stage[u] = "fail" =>
       \/ result[u] = "error"
       \/ result[u] = "none" /\ \E i \in DOMAIN unit[u].wait : unit[u].wait[i][1] \in failed

ReportInv == \A u \in Units : ReportAt(u)
CauseInv  == \A u \in Units : CauseAt(u)
-----------------------------------------------------------------------------
(* A step extends timelines and failures.                                  *)

LEMMA Grows ==
  ASSUME IInv, Next
  PROVE  /\ failed \subseteq failed'
         /\ \A s \in Sems : timeline[s] \in Nat /\ timeline'[s] \in Nat /\ timeline'[s] >= timeline[s]
<1> USE DEF semVars, poolVars, hostVars
<1>1. timeline \in [Sems -> 0 .. MaxValue] /\ MaxValue \in Nat
  BY ConstantsAssumption DEF IInv, TypeOK
<1>2. \A s \in Sems : timeline[s] \in Nat
  BY <1>1
<1>3. ASSUME NEW s \in HostSems, HostSignal(s)
      PROVE  /\ failed \subseteq failed'
             /\ \A x \in Sems : timeline'[x] \in Nat /\ timeline'[x] >= timeline[x]
  BY <1>1, <1>2, <1>3 DEF HostSignal
<1>4. ASSUME NEW u \in Units, SignalNext(u)
      PROVE  /\ failed \subseteq failed'
             /\ \A x \in Sems : timeline'[x] \in Nat /\ timeline'[x] >= timeline[x]
  <2>1. failed' = failed
    BY <1>4 DEF SignalNext
  <2>2. CASE timeline' = timeline
    BY <1>2, <2>1, <2>2
  <2>3. CASE timeline' # timeline
    <3> DEFINE p == unit[u].signal[pos[u]]
    <3>1. /\ ~Refused(p) /\ timeline' = [timeline EXCEPT ![p[1]] = p[2]]
          /\ pos[u] <= Len(unit[u].signal) /\ pos[u] \in Nat \ {0}
      BY <1>4, <2>3 DEF SignalNext, IInv, TypeOK
    <3>2. pos[u] \in DOMAIN unit[u].signal
      BY <3>1, UnitFacts DEF IInv
    <3>3. p[1] \in Sems /\ p[2] \in Nat
      BY <3>2, UnitFacts, ConstantsAssumption DEF IInv
    <3>4. timeline[p[1]] < p[2]
      BY <1>2, <3>1, <3>3 DEF Refused
    <3> HIDE DEF p
    <3>5. \A x \in Sems : timeline'[x] = IF x = p[1] THEN p[2] ELSE timeline[x]
      BY <1>1, <3>1
    <3> QED  BY <1>2, <2>1, <3>3, <3>4, <3>5
  <2> QED  BY <2>2, <2>3
<1>5. \/ \E s \in HostSems : HostSignal(s)
      \/ \E u \in Units : SignalNext(u)
      \/ UNCHANGED timeline /\ failed \subseteq failed'
  BY DEF Next, Submit, Enqueue, RunAfterWait, HostStep, HostFail, UnitStep, WaitNext, WorkOk, WorkError,
         SignalDone, FailNext, FailDone, WorkerStep, Receive, Panic, WorkerExit, Destroy, Shutdown,
         TakeSender, Joined, Finished, vars
<1> QED  BY <1>2, <1>3, <1>4, <1>5

\* What has been reported stays so.
LEMMA ReportedGrows ==
  ASSUME IInv, Next, NEW u \in Units, unit'[u] = unit[u], NEW i \in DOMAIN unit[u].signal, Reported(u, i)
  PROVE  Reported(u, i)'
<1>1. unit[u].signal[i][1] \in Sems /\ unit[u].signal[i][2] \in 1 .. MaxValue
  BY UnitFacts DEF IInv
<1>2. /\ timeline[unit[u].signal[i][1]] \in Nat /\ timeline'[unit[u].signal[i][1]] \in Nat
      /\ timeline'[unit[u].signal[i][1]] >= timeline[unit[u].signal[i][1]]
      /\ failed \subseteq failed'
  BY <1>1, Grows
<1>3. timeline[unit[u].signal[i][1]] >= unit[u].signal[i][2] =>
        timeline'[unit[u].signal[i][1]] >= unit[u].signal[i][2]
  BY <1>1, <1>2, ConstantsAssumption
<1> QED  BY <1>2, <1>3 DEF Reported

\* A unit that does not move keeps what it has reported, and its cause.
LEMMA ReportKept ==
  ASSUME IInv, ReportInv, CauseInv, Next, NEW u \in Units,
         stage'[u] = stage[u], pos'[u] = pos[u], result'[u] = result[u], unit'[u] = unit[u]
  PROVE  ReportAt(u)' /\ CauseAt(u)'
<1>1. ReportAt(u) /\ CauseAt(u)
  BY DEF ReportInv, CauseInv
<1>2. failed \subseteq failed'
  BY Grows
<1>3. \A i \in DOMAIN unit[u].signal : Reported(u, i) => Reported(u, i)'
  BY ReportedGrows
<1>4. ReportAt(u)'
  BY <1>1, <1>2, <1>3 DEF ReportAt
<1>5. CauseAt(u)'
  BY <1>1, <1>2 DEF CauseAt
<1> QED  BY <1>4, <1>5

\* A submission makes a unit, with nothing done and everything it skips the wait
\* for reached, and leaves the others alone.
LEMMA SubmitFacts ==
  ASSUME IInv, Submit
  PROVE  \E n \in Units, st \in {"queued", "rejected", "wait", "work", "signal"} :
           /\ stage[n] = "none" /\ stage'[n] = st /\ result[n] = "none" /\ pos[n] = 1
           /\ UNCHANGED <<timeline, failed, pos, result>>
           /\ \A x \in Units \ {n} : stage'[x] = stage[x] /\ unit'[x] = unit[x]
           /\ unit'[n].wait \in Seq(Points) /\ unit'[n].signal \in Seq(Points)
           /\ unit'[n].kind \in AllKinds
           /\ st \in {"work", "signal"} => \A i \in DOMAIN unit'[n].wait :
                timeline[unit'[n].wait[i][1]] >= unit'[n].wait[i][2]
<1> USE DEF semVars, poolVars, hostVars
<1>1. PICK wait \in WaitLists, list \in SignalLists, kind \in Kinds :
        \/ \E context \in Contexts : Enqueue(kind, context, wait, NextPoints(list))
        \/ RunAfterWait(kind, wait, NextPoints(list))
  BY DEF Submit
<1>2. /\ caller = None /\ submitted < NumUnits /\ ClientRules(wait, NextPoints(list))
      /\ UNCHANGED <<timeline, failed, pos, result>>
  BY <1>1 DEF Enqueue, RunAfterWait
<1>11. PICK context, runner : NewUnit(kind, context, wait, NextPoints(list), runner)
  <2>1. CASE RunAfterWait(kind, wait, NextPoints(list))
    <3>1. \/ NewUnit(kind, 0, wait, NextPoints(list), "caller")
          \/ NewUnit(kind, 0, wait, NextPoints(list), "thread")
      BY <2>1 DEF RunAfterWait
    <3> QED  BY <3>1, Zenon
  <2>2. CASE \E context \in Contexts : Enqueue(kind, context, wait, NextPoints(list))
    <3>1. PICK context \in Contexts : Enqueue(kind, context, wait, NextPoints(list))
      BY <2>2
    <3>2. NewUnit(kind, context, wait, NextPoints(list), "worker")
      BY <3>1 DEF Enqueue
    <3> QED  BY <3>2, Zenon
  <2> QED  BY <1>1, <2>1, <2>2
<1>12. PICK st \in {"queued", "rejected", "wait", "work", "signal"} :
         /\ stage' = [stage EXCEPT ![submitted + 1] = st]
         /\ st \in {"work", "signal"} => Poll(wait)
  BY <1>1 DEF Enqueue, RunAfterWait
<1>3. PICK n : n = submitted + 1
  OBVIOUS
<1>4. n \in Units /\ wait \in Seq(Points) /\ NextPoints(list) \in Seq(Points)
  BY <1>2, <1>3, NewUnitFacts
<1>5. /\ stage \in [Units -> Stages] /\ unit \in [Units -> UnitType] /\ submitted \in Nat
  BY ConstantsAssumption DEF IInv, TypeOK
<1>6. stage[n] = "none" /\ result[n] = "none" /\ pos[n] = 1
  <2>1. ~(n <= submitted)
    BY <1>3, <1>5
  <2> QED  BY <1>4, <2>1 DEF IInv, FreshInv
<1>7. /\ unit'[n] = [kind |-> kind, context |-> context, wait |-> wait,
                     signal |-> NextPoints(list), runner |-> runner]
      /\ stage'[n] = st
      /\ \A x \in Units \ {n} : stage'[x] = stage[x] /\ unit'[x] = unit[x]
  BY <1>3, <1>4, <1>5, <1>11, <1>12 DEF NewUnit
<1>8. unit'[n].wait = wait /\ unit'[n].signal = NextPoints(list) /\ unit'[n].kind = kind
  BY <1>7
<1>9. kind \in AllKinds
  BY ConstantsAssumption
<1>10. st \in {"work", "signal"} => \A i \in DOMAIN wait : timeline[wait[i][1]] >= wait[i][2]
  BY <1>12 DEF Poll, Reached
<1> QED  BY <1>2, <1>4, <1>6, <1>7, <1>8, <1>9, <1>10

\* Every step moves one unit at most, or loses those of a worker.
LEMMA ReportStep ==
  ASSUME IInv, ReportInv, CauseInv, Next
  PROVE  ReportInv' /\ CauseInv'
<1> USE DEF semVars, poolVars, hostVars
<1>1. ASSUME NEW u \in Units, ReportAt(u)', CauseAt(u)',
             \A x \in Units \ {u} : /\ stage'[x] = stage[x] /\ pos'[x] = pos[x]
                                    /\ result'[x] = result[x] /\ unit'[x] = unit[x]
      PROVE  ReportInv' /\ CauseInv'
  BY <1>1, ReportKept DEF ReportInv, CauseInv
<1>2. ASSUME UNCHANGED <<pos, result, unit>>,
             \A x \in Units : stage'[x] = stage[x] \/ stage'[x] \in {"wait", "lost"}
      PROVE  ReportInv' /\ CauseInv'
  <2>1. ASSUME NEW x \in Units
        PROVE  ReportAt(x)' /\ CauseAt(x)'
    <3>1. CASE stage'[x] = stage[x]
      BY <1>2, <3>1, ReportKept
    <3>2. CASE stage'[x] \in {"wait", "lost"}
      BY <3>2 DEF ReportAt, CauseAt
    <3> QED  BY <1>2, <3>1, <3>2
  <2> QED  BY <2>1 DEF ReportInv, CauseInv
<1>3. CASE Submit
  <2>1. PICK n \in Units, st \in {"queued", "rejected", "wait", "work", "signal"} :
           /\ stage[n] = "none" /\ stage'[n] = st /\ result[n] = "none" /\ pos[n] = 1
           /\ UNCHANGED <<timeline, failed, pos, result>>
           /\ \A x \in Units \ {n} : stage'[x] = stage[x] /\ unit'[x] = unit[x]
           /\ unit'[n].wait \in Seq(Points) /\ unit'[n].signal \in Seq(Points)
    BY <1>3, SubmitFacts
  <2>2. \A i \in DOMAIN unit'[n].signal : ~(i < 1)
    BY <2>1
  <2>3. ReportAt(n)' /\ CauseAt(n)'
    BY <2>1, <2>2 DEF ReportAt, CauseAt
  <2> QED  BY <1>1, <2>1, <2>3
<1>4. ASSUME NEW u \in Units
      PROVE  /\ stage \in [Units -> Stages] /\ pos \in [Units -> Nat \ {0}]
             /\ result \in [Units -> {"none", "ok", "error"}]
             /\ pos[u] \in Nat \ {0} /\ Len(unit[u].signal) \in Nat
             /\ DOMAIN unit[u].signal = 1 .. Len(unit[u].signal)
             /\ DOMAIN unit[u].wait = 1 .. Len(unit[u].wait) /\ Len(unit[u].wait) \in Nat
             /\ ReportAt(u) /\ CauseAt(u)
             /\ stage[u] \in {"wait", "work"} => result[u] = "none"
  BY UnitFacts DEF IInv, TypeOK, ReportInv, CauseInv, FreshInv
<1>5. ASSUME NEW u \in Units, WaitNext(u)
      PROVE  ReportInv' /\ CauseInv'
  <2>1. UNCHANGED <<failed, timeline, unit, result>> /\ stage[u] = "wait" /\ result[u] = "none"
    BY <1>4, <1>5 DEF WaitNext
  <2>2. \/ stage'[u] \in {"signal", "work"} /\ pos'[u] = 1
        \/ stage'[u] = "wait"
        \/ stage'[u] = "fail" /\ pos'[u] = 1 /\ pos[u] <= Len(unit[u].wait) /\ unit[u].wait[pos[u]][1] \in failed
    BY <1>4, <1>5 DEF WaitNext, AfterWait
  <2>3. \A x \in Units \ {u} : stage'[x] = stage[x] /\ pos'[x] = pos[x]
    BY <1>4, <1>5 DEF WaitNext
  <2>4. \A i \in DOMAIN unit[u].signal : ~(i < 1)
    BY <1>4
  <2>5. pos[u] <= Len(unit[u].wait) => pos[u] \in DOMAIN unit[u].wait
    BY <1>4
  <2>6. ReportAt(u)'
    BY <2>1, <2>2, <2>4 DEF ReportAt
  <2>7. CauseAt(u)'
    BY <2>1, <2>2, <2>5 DEF CauseAt
  <2> QED  BY <1>1, <2>1, <2>3, <2>6, <2>7
<1>6. ASSUME NEW u \in Units, WorkOk(u) \/ WorkError(u)
      PROVE  ReportInv' /\ CauseInv'
  <2>1. /\ UNCHANGED <<failed, timeline, unit, pos>> /\ stage[u] = "work"
        /\ \/ stage'[u] = "signal" /\ result'[u] = "ok"
           \/ stage'[u] \in {"returned", "fail"} /\ result'[u] = "error"
    BY <1>4, <1>6 DEF WorkOk, WorkError
  <2>2. \A x \in Units \ {u} : stage'[x] = stage[x] /\ result'[x] = result[x]
    BY <1>4, <1>6 DEF WorkOk, WorkError
  <2>3. pos[u] = 1
    BY <1>4, <2>1 DEF ReportAt
  <2>4. \A i \in DOMAIN unit[u].signal : ~(i < 1)
    BY <1>4
  <2>5. ReportAt(u)'
    BY <2>1, <2>3, <2>4 DEF ReportAt
  <2>6. CauseAt(u)'
    BY <2>1 DEF CauseAt
  <2> QED  BY <1>1, <2>1, <2>2, <2>5, <2>6
<1>7. ASSUME NEW u \in Units, SignalNext(u)
      PROVE  ReportInv' /\ CauseInv'
  <2> DEFINE list == unit[u].signal
  <2>1. UNCHANGED <<failed, unit, stage, result>> /\ stage[u] = "signal" /\ pos[u] <= Len(list)
    BY <1>7 DEF SignalNext
  <2>2. \A x \in Units \ {u} : pos'[x] = pos[x]
    BY <1>4, <1>7 DEF SignalNext
  <2>3. pos[u] \in DOMAIN list
    BY <1>4, <2>1
  <2>4. timeline[list[pos[u]][1]] < list[pos[u]][2]
    <3>1. Pending(u, pos[u])
      BY <1>4, <2>1 DEF Pending
    <3> QED  BY <2>3, <3>1 DEF IInv, PendingInv
  <2>5. list[pos[u]][1] \in Sems /\ list[pos[u]][2] \in Nat
    BY <2>3, UnitFacts, ConstantsAssumption DEF IInv
  <2>6. timeline \in [Sems -> 0 .. MaxValue] /\ timeline[list[pos[u]][1]] \in Nat
    BY <2>5, Grows DEF IInv, TypeOK
  <2>7. \/ pos'[u] = pos[u] + 1 /\ timeline'[list[pos[u]][1]] = list[pos[u]][2]
        \/ list[pos[u]][1] \in failed
    <3>1. CASE ~Refused(list[pos[u]])
      <4>1. pos' = [pos EXCEPT ![u] = @ + 1] /\ timeline' = [timeline EXCEPT ![list[pos[u]][1]] = list[pos[u]][2]]
        BY <1>7, <3>1 DEF SignalNext
      <4> QED  BY <1>4, <2>5, <2>6, <4>1
    <3>2. CASE Refused(list[pos[u]])
      BY <2>4, <2>5, <2>6, <3>2 DEF Refused
    <3> QED  BY <3>1, <3>2
  <2>8. ASSUME NEW i \in DOMAIN list, i < pos'[u]
        PROVE  Reported(u, i)'
    <3>1. i \in Nat \ {0} /\ pos[u] \in Nat \ {0}
      BY <1>4
    <3>2. CASE i < pos[u]
      BY <1>4, <2>1, <3>2, ReportedGrows DEF ReportAt
    <3>3. CASE i >= pos[u] /\ list[pos[u]][1] \in failed
      <4>1. pos[u] \in 1 .. i
        BY <3>1, <3>3
      <4> QED  BY <2>1, <3>3, <4>1 DEF Reported
    <3>4. CASE i >= pos[u] /\ pos'[u] = pos[u] + 1 /\ timeline'[list[pos[u]][1]] = list[pos[u]][2]
      <4>1. i = pos[u]
        BY <2>8, <3>1, <3>4
      <4>2. timeline'[list[i][1]] >= list[i][2]
        BY <2>5, <3>4, <4>1
      <4> QED  BY <2>1, <4>2 DEF Reported
    <3> QED  BY <2>7, <3>1, <3>2, <3>3, <3>4
  <2>9. ReportAt(u)'
    BY <2>1, <2>8 DEF ReportAt
  <2>10. CauseAt(u)'
    BY <1>4, <2>1 DEF CauseAt
  <2> QED  BY <1>1, <2>1, <2>2, <2>9, <2>10
<1>8. ASSUME NEW u \in Units, SignalDone(u) \/ FailDone(u)
      PROVE  ReportInv' /\ CauseInv'
  <2>1. /\ UNCHANGED <<failed, timeline, unit, pos>> /\ pos[u] > Len(unit[u].signal)
        /\ \/ stage[u] = "signal" /\ stage'[u] = "signalled" /\ result'[u] = "ok"
           \/ stage[u] = "fail" /\ stage'[u] = "failed" /\ result'[u] = result[u]
    BY <1>4, <1>8 DEF SignalDone, FailDone
  <2>2. \A x \in Units \ {u} : stage'[x] = stage[x] /\ result'[x] = result[x]
    BY <1>4, <1>8 DEF SignalDone, FailDone
  <2>3. \A i \in DOMAIN unit[u].signal : i < pos[u]
    BY <1>4, <2>1
  <2>4. stage[u] = "signal" => \A i \in DOMAIN unit[u].signal : Reported(u, i)'
    BY <1>4, <2>1, <2>3, ReportedGrows DEF ReportAt
  <2>5. stage[u] = "fail" => \A i \in DOMAIN unit[u].signal : unit[u].signal[i][1] \in failed
    BY <1>4, <2>3 DEF ReportAt
  <2>6. ReportAt(u)'
    BY <2>1, <2>4, <2>5 DEF ReportAt
  <2>7. CauseAt(u)'
    BY <2>1 DEF CauseAt
  <2> QED  BY <1>1, <2>1, <2>2, <2>6, <2>7
<1>9. ASSUME NEW u \in Units, FailNext(u)
      PROVE  ReportInv' /\ CauseInv'
  <2>1. /\ UNCHANGED <<timeline, unit, stage, result>> /\ stage[u] = "fail"
        /\ failed' = failed \cup {unit[u].signal[pos[u]][1]} /\ pos'[u] = pos[u] + 1
        /\ \A x \in Units \ {u} : pos'[x] = pos[x]
    BY <1>4, <1>9 DEF FailNext
  <2>2. \A i \in DOMAIN unit[u].signal : i < pos[u] + 1 => i < pos[u] \/ i = pos[u]
    BY <1>4
  <2>3. ReportAt(u)'
    BY <1>4, <2>1, <2>2 DEF ReportAt
  <2>4. CauseAt(u)'
    BY <1>4, <2>1 DEF CauseAt
  <2> QED  BY <1>1, <2>1, <2>3, <2>4
<1>10. ASSUME NEW w \in Contexts, WorkerStep(w)
       PROVE  ReportInv' /\ CauseInv'
  <2>1. UNCHANGED <<pos, result, unit>>
    BY <1>10 DEF WorkerStep, Receive, Panic, WorkerExit
  <2>2. \A x \in Units : stage'[x] = stage[x] \/ stage'[x] \in {"wait", "lost"}
    <3>1. stage \in [Units -> Stages]
      BY DEF IInv, TypeOK
    <3> QED  BY <1>10, <3>1 DEF WorkerStep, Receive, Panic, WorkerExit
  <2> QED  BY <1>2, <2>1, <2>2
<1>11. ASSUME \/ \E s \in HostSems : HostStep(s)
              \/ Destroy \/ Shutdown \/ Finished
       PROVE  ReportInv' /\ CauseInv'
  <2>1. UNCHANGED <<pos, result, unit, stage>>
    BY <1>11 DEF HostStep, HostSignal, HostFail, Destroy, Shutdown, TakeSender, Joined, Finished, vars
  <2> QED  BY <1>2, <2>1
<1> QED  BY <1>3, <1>5, <1>6, <1>7, <1>8, <1>9, <1>10, <1>11 DEF Next, UnitStep

\* The invariant of the queue with its reports and causes.
LEMMA ReportInvariance == Spec => [](IInv /\ ReportInv /\ CauseInv)
<1>1. Init => IInv /\ ReportInv /\ CauseInv
  <2>1. Init => ReportInv /\ CauseInv
    BY DEF Init, ReportInv, ReportAt, CauseInv, CauseAt
  <2> QED  BY <2>1, InitInv
<1>2. IInv /\ ReportInv /\ CauseInv /\ [Next]_vars => (IInv /\ ReportInv /\ CauseInv)'
  <2> SUFFICES ASSUME IInv, ReportInv, CauseInv, [Next]_vars
               PROVE  IInv' /\ ReportInv' /\ CauseInv'
    OBVIOUS
  <2>1. IInv'
    BY NextInv
  <2>2. CASE Next
    BY <2>1, <2>2, ReportStep
  <2>3. CASE UNCHANGED vars
    BY <2>1, <2>3 DEF vars, ReportInv, ReportAt, Reported, CauseInv, CauseAt
  <2> QED  BY <2>2, <2>3
<1> QED  BY <1>1, <1>2, PTL DEF Spec

\* signal_all and fail_all leave no entry out, whoever runs them and whoever else
\* signals or fails in between: a settled unit has reported on its whole signal
\* list, unless another unit's failure had poisoned it.
THEOREM OutcomesAreReported == Spec => []OutcomeReported
<1>1. ReportInv => OutcomeReported
  BY DEF ReportInv, ReportAt, Reported, OutcomeReported
<1> QED  BY <1>1, ReportInvariance, PTL

-----------------------------------------------------------------------------
(* The refinement.                                                         *)

\* What TaskOf makes of a unit, as a function of its stage, result and lists.
State(st, res) ==
  IF st \in {"none", "rejected"} THEN "none"
  ELSE IF st = "lost" THEN "dropped"
  ELSE IF res # "none" THEN res
  ELSE IF st \in {"queued", "wait", "fail", "failed"} THEN "pending"
  ELSE "started"

View(st, res, un) ==
  IF State(st, res) = "none"
  THEN [state |-> "none", wait |-> <<>>, signal |-> <<>>, eager |-> FALSE]
  ELSE [state |-> State(st, res), wait |-> un.wait, signal |-> un.signal, eager |-> un.kind = "notify"]

LEMMA RecordState ==
  ASSUME NEW a, NEW b, NEW w, NEW s, NEW e
  PROVE  [[state |-> a, wait |-> w, signal |-> s, eager |-> e] EXCEPT !.state = b]
           = [state |-> b, wait |-> w, signal |-> s, eager |-> e]
OBVIOUS

LEMMA ViewFacts ==
  ASSUME NEW st, NEW res, NEW un, State(st, res) # "none"
  PROVE  /\ View(st, res, un).state = State(st, res)
         /\ View(st, res, un).wait = un.wait /\ View(st, res, un).signal = un.signal
         /\ View(st, res, un).eager = (un.kind = "notify")
BY DEF View

LEMMA ViewMoves ==
  ASSUME NEW st, NEW res, NEW st2, NEW res2, NEW un,
         State(st, res) # "none", State(st2, res2) # "none"
  PROVE  View(st2, res2, un) = [View(st, res, un) EXCEPT !.state = State(st2, res2)]
<1>1. PICK e : e = (un.kind = "notify")
  OBVIOUS
<1>2. View(st, res, un) = [state |-> State(st, res), wait |-> un.wait, signal |-> un.signal, eager |-> e]
  BY <1>1, Zenon DEF View
<1>3. View(st2, res2, un) = [state |-> State(st2, res2), wait |-> un.wait, signal |-> un.signal, eager |-> e]
  BY <1>1, Zenon DEF View
<1>4. [[state |-> State(st, res), wait |-> un.wait, signal |-> un.signal, eager |-> e]
           EXCEPT !.state = State(st2, res2)]
        = [state |-> State(st2, res2), wait |-> un.wait, signal |-> un.signal, eager |-> e]
  BY RecordState
<1> QED  BY <1>2, <1>3, <1>4, Zenon

\* The refinement mapping, before and after a step.
LEMMA TaskView ==
  ASSUME IInv, IInv', NEW u \in Units
  PROVE  /\ task[u] = View(stage[u], result[u], unit[u])
         /\ task'[u] = View(stage'[u], result'[u], unit'[u])
         /\ stage[u] \in Stages /\ stage'[u] \in Stages
         /\ result[u] \in {"none", "ok", "error"} /\ result'[u] \in {"none", "ok", "error"}
<1>1. /\ stage[u] \in Stages /\ stage'[u] \in Stages
      /\ result[u] \in {"none", "ok", "error"} /\ result'[u] \in {"none", "ok", "error"}
  BY DEF IInv, TypeOK
<1>2. Phase(u) = State(stage[u], result[u])
  BY <1>1 DEF Phase, State, Stages, Active, Settled
<1>3. Phase(u)' = State(stage'[u], result'[u])
  BY <1>1 DEF Phase, State, Stages, Active, Settled
<1>4. TaskOf(u) = View(stage[u], result[u], unit[u])
  BY <1>2 DEF TaskOf, View
<1>5. TaskOf(u)' = View(stage'[u], result'[u], unit'[u])
  BY <1>3 DEF TaskOf, View
<1> QED  BY <1>1, <1>4, <1>5 DEF task

\* A step that moves unit u only changes the task of u only.
LEMMA OneTask ==
  ASSUME IInv, IInv', NEW u \in Units,
         \A x \in Units \ {u} : stage'[x] = stage[x] /\ result'[x] = result[x] /\ unit'[x] = unit[x]
  PROVE  task' = [task EXCEPT ![u] = View(stage'[u], result'[u], unit'[u])]
<1>1. \A x \in Units \ {u} : task'[x] = task[x]
  BY TaskView
<1>2. task'[u] = View(stage'[u], result'[u], unit'[u])
  BY TaskView
<1>3. task = [x \in Units |-> task[x]] /\ task' = [x \in Units |-> task'[x]]
  BY DEF task
<1> QED  BY <1>1, <1>2, <1>3

\* ... and a step that moves none changes none.
LEMMA SameTasks ==
  ASSUME IInv, IInv',
         \A x \in Units : /\ unit'[x] = unit[x]
                          /\ State(stage'[x], result'[x]) = State(stage[x], result[x])
  PROVE  task' = task
<1>1. ASSUME NEW x \in Units
      PROVE  task'[x] = task[x]
  <2>1. /\ task[x] = View(stage[x], result[x], unit[x])
        /\ task'[x] = View(stage'[x], result'[x], unit'[x])
    BY TaskView
  <2>2. View(stage'[x], result'[x], unit'[x]) = View(stage[x], result[x], unit[x])
    BY Zenon DEF View
  <2> QED  BY <2>1, <2>2
<1>2. task = [x \in Units |-> task[x]] /\ task' = [x \in Units |-> task'[x]]
  BY DEF task
<1> QED  BY <1>1, <1>2

\* A submission is accepted, at once or later, or the contract never hears of it.
LEMMA SubmitKeeps ==
  ASSUME IInv, IInv', Submit
  PROVE  Contract!Next \/ UNCHANGED Contract!vars
<1>1. PICK n \in Units, st \in {"queued", "rejected", "wait", "work", "signal"} :
           /\ stage[n] = "none" /\ stage'[n] = st /\ result[n] = "none" /\ pos[n] = 1
           /\ UNCHANGED <<timeline, failed, pos, result>>
           /\ \A x \in Units \ {n} : stage'[x] = stage[x] /\ unit'[x] = unit[x]
           /\ st \in {"work", "signal"} => \A i \in DOMAIN unit'[n].wait :
                timeline[unit'[n].wait[i][1]] >= unit'[n].wait[i][2]
  BY SubmitFacts
<1>2. task' = [task EXCEPT ![n] = View(st, "none", unit'[n])] /\ task = [x \in Units |-> task[x]]
  <2>1. task = [x \in Units |-> task[x]]
    BY DEF task
  <2>2. stage'[n] = st /\ result'[n] = "none"
    BY <1>1
  <2>3. \A x \in Units \ {n} : stage'[x] = stage[x] /\ result'[x] = result[x] /\ unit'[x] = unit[x]
    BY <1>1
  <2> QED  BY <2>1, <2>2, <2>3, OneTask
<1>3. /\ task[n] = View("none", "none", unit[n]) /\ task'[n] = View(st, "none", unit'[n])
      /\ st \in Stages
  <2>1. stage[n] = "none" /\ stage'[n] = st /\ result[n] = "none" /\ result'[n] = "none"
    BY <1>1
  <2> QED  BY <2>1, TaskView
<1>4. task[n].state = "none"
  <2>1. State("none", "none") = "none"
    BY DEF State
  <2>2. View("none", "none", unit[n]).state = "none"
    BY <2>1 DEF View
  <2> QED  BY <1>3, <2>2
<1>5. CASE st = "rejected"
  <2>1. View(st, "none", unit'[n]) = View("none", "none", unit[n])
    BY <1>5 DEF View, State
  <2>2. task' = task
    BY <1>2, <1>3, <2>1
  <2> QED  BY <1>1, <2>2 DEF Contract!vars
<1>6. CASE st # "rejected"
  <2>1. State(st, "none") = IF st \in {"work", "signal"} THEN "started" ELSE "pending"
    BY <1>1, <1>6 DEF State
  <2>2. task'[n].state = State(st, "none") /\ task'[n].wait = unit'[n].wait
    BY <1>3, <2>1, ViewFacts
  <2>3. task'[n].state = "started" => Contract!Met(task'[n])
    BY <1>1, <2>1, <2>2 DEF Contract!Met
  <2>4. task' = [task EXCEPT ![n] = task'[n]]
    BY <1>2, <1>3
  <2>5. Contract!Accept(n)
    BY <1>1, <1>4, <2>1, <2>2, <2>3, <2>4 DEF Contract!Accept
  <2> QED  BY <2>5 DEF Contract!Next
<1> QED  BY <1>5, <1>6

\* A unit that comes along within its dispatch, as the contract sees it.
LEMMA MoveTask ==
  ASSUME IInv, IInv', NEW u \in Units, unit'[u] = unit[u],
         \A x \in Units \ {u} : stage'[x] = stage[x] /\ result'[x] = result[x] /\ unit'[x] = unit[x],
         State(stage[u], result[u]) # "none", State(stage'[u], result'[u]) # "none"
  PROVE  /\ task[u].state = State(stage[u], result[u])
         /\ task[u].wait = unit[u].wait /\ task[u].signal = unit[u].signal
         /\ task[u].eager = (unit[u].kind = "notify")
         /\ task' = [task EXCEPT ![u].state = State(stage'[u], result'[u])]
<1>1. /\ task[u] = View(stage[u], result[u], unit[u])
      /\ stage[u] \in Stages /\ stage'[u] \in Stages
      /\ result[u] \in {"none", "ok", "error"} /\ result'[u] \in {"none", "ok", "error"}
  BY TaskView
<1>2. task' = [task EXCEPT ![u] = View(stage'[u], result'[u], unit'[u])]
  BY OneTask
<1>3. View(stage'[u], result'[u], unit'[u]) = [task[u] EXCEPT !.state = State(stage'[u], result'[u])]
  <2>1. View(stage'[u], result'[u], unit[u])
          = [View(stage[u], result[u], unit[u]) EXCEPT !.state = State(stage'[u], result'[u])]
    BY ViewMoves
  <2> QED  BY <1>1, <2>1
<1>4. task' = [task EXCEPT ![u].state = State(stage'[u], result'[u])]
  BY <1>2, <1>3
<1>5. /\ task[u].state = State(stage[u], result[u])
      /\ task[u].wait = unit[u].wait /\ task[u].signal = unit[u].signal
      /\ task[u].eager = (unit[u].kind = "notify")
  BY <1>1, ViewFacts
<1> QED  BY <1>4, <1>5

\* wait_all lets a unit start once all it waits for is reached.
LEMMA WaitKeeps ==
  ASSUME IInv, IInv', NEW u \in Units, WaitNext(u)
  PROVE  Contract!Next \/ UNCHANGED Contract!vars
<1> USE DEF semVars, poolVars, hostVars
<1>1. /\ stage[u] = "wait" /\ result[u] = "none" /\ UNCHANGED <<timeline, failed, unit, result>>
      /\ stage \in [Units -> Stages] /\ pos[u] \in Nat
      /\ stage'[u] \in {"wait", "work", "signal", "fail"}
      /\ stage'[u] \in {"work", "signal"} => pos[u] > Len(unit[u].wait)
      /\ \A x \in Units \ {u} : stage'[x] = stage[x]
  <2>1. stage \in [Units -> Stages] /\ pos[u] \in Nat /\ (stage[u] = "wait" => result[u] = "none")
    BY DEF IInv, TypeOK, FreshInv
  <2> QED  BY <2>1 DEF WaitNext, AfterWait
<1>2. /\ State(stage[u], result[u]) = "pending"
      /\ State(stage'[u], result'[u]) = IF stage'[u] \in {"work", "signal"} THEN "started" ELSE "pending"
  BY <1>1 DEF State
<1>3. CASE stage'[u] \in {"wait", "fail"}
  <2>1. task' = task
    BY <1>1, <1>2, <1>3, SameTasks
  <2> QED  BY <1>1, <2>1 DEF Contract!vars
<1>4. CASE stage'[u] \in {"work", "signal"}
  <2>1. /\ task[u].state = "pending" /\ task[u].wait = unit[u].wait
        /\ task' = [task EXCEPT ![u].state = "started"]
    BY <1>1, <1>2, <1>4, MoveTask
  <2>2. Contract!Met(task[u])
    <3>1. ASSUME NEW i \in DOMAIN unit[u].wait
          PROVE  timeline[unit[u].wait[i][1]] >= unit[u].wait[i][2]
      <4>1. i < pos[u]
        BY <1>1, <1>4, UnitFacts DEF IInv
      <4>2. Passed(u, i)
        BY <1>1, <4>1 DEF Passed
      <4> QED  BY <4>2 DEF IInv, WaitedInv
    <3> QED  BY <2>1, <3>1 DEF Contract!Met
  <2>3. Contract!Start(u)
    BY <1>1, <2>1, <2>2 DEF Contract!Start
  <2> QED  BY <2>3 DEF Contract!Next
<1> QED  BY <1>1, <1>3, <1>4

\* The work of a unit finishes it, whatever it returns.
LEMMA WorkKeeps ==
  ASSUME IInv, IInv', NEW u \in Units, WorkOk(u) \/ WorkError(u)
  PROVE  Contract!Next
<1> USE DEF semVars, poolVars, hostVars
<1>1. /\ stage[u] = "work" /\ result[u] = "none" /\ UNCHANGED <<timeline, failed, unit>>
      /\ result'[u] \in {"ok", "error"} /\ stage'[u] \in {"signal", "returned", "fail"}
      /\ \A x \in Units \ {u} : stage'[x] = stage[x] /\ result'[x] = result[x]
  <2>1. /\ stage \in [Units -> Stages] /\ result \in [Units -> {"none", "ok", "error"}]
        /\ stage[u] = "work" => result[u] = "none"
    BY DEF IInv, TypeOK, FreshInv
  <2> QED  BY <2>1 DEF WorkOk, WorkError
<1>2. State(stage[u], result[u]) = "started" /\ State(stage'[u], result'[u]) = result'[u]
  BY <1>1 DEF State
<1>3. task[u].state = "started" /\ task' = [task EXCEPT ![u].state = result'[u]]
  BY <1>1, <1>2, MoveTask
<1>4. Contract!Finish(u)
  BY <1>1, <1>3 DEF Contract!Finish
<1> QED  BY <1>4 DEF Contract!Next

\* signal_all signals for a unit that has finished well, or for a call nobody
\* waits for.
LEMMA SignalKeeps ==
  ASSUME IInv, IInv', CauseInv, NEW u \in Units, SignalNext(u)
  PROVE  Contract!Next \/ UNCHANGED Contract!vars
<1> USE DEF semVars, poolVars, hostVars
<1> DEFINE p == unit[u].signal[pos[u]]
<1>1. /\ stage[u] = "signal" /\ UNCHANGED <<failed, unit, stage, result>> /\ pos[u] <= Len(unit[u].signal)
      /\ timeline' = timeline \/ (~Refused(p) /\ timeline' = [timeline EXCEPT ![p[1]] = p[2]])
  BY DEF SignalNext
<1>2. task' = task
  BY <1>1, SameTasks
<1>3. CASE timeline' = timeline
  BY <1>1, <1>2, <1>3 DEF Contract!vars
<1>4. CASE ~Refused(p) /\ timeline' = [timeline EXCEPT ![p[1]] = p[2]]
  <2>1. pos[u] \in DOMAIN unit[u].signal
    <3>1. pos[u] \in Nat \ {0}
      BY DEF IInv, TypeOK
    <3> QED  BY <1>1, <3>1, UnitFacts DEF IInv
  <2>2. p[1] \notin failed /\ timeline[p[1]] < p[2]
    <3>1. Pending(u, pos[u])
      <4>1. pos[u] \in Nat
        BY DEF IInv, TypeOK
      <4> QED  BY <1>1, <4>1 DEF Pending
    <3>2. timeline[p[1]] < p[2]
      BY <2>1, <3>1 DEF IInv, PendingInv
    <3> QED  BY <1>4, <3>2 DEF Refused
  <2>3. \/ result[u] = "ok"
        \/ result[u] = "none" /\ unit[u].kind = "notify"
    <3>1. result[u] \in {"none", "ok", "error"} /\ result[u] # "error"
      BY <1>1 DEF IInv, TypeOK, CauseInv, CauseAt
    <3>2. Vouched(u)
      BY <1>1 DEF IInv, VouchInv
    <3> QED  BY <3>1, <3>2 DEF Vouched
  <2>4. State(stage[u], result[u]) = IF result[u] = "ok" THEN "ok" ELSE "started"
    BY <1>1, <2>3 DEF State
  <2>5. /\ task[u].state = State(stage[u], result[u]) /\ task[u].signal = unit[u].signal
        /\ task[u].eager = (unit[u].kind = "notify")
    BY <2>4, TaskView, ViewFacts
  <2>6. task[u].state = "ok" \/ (task[u].eager /\ task[u].state = "started")
    BY <2>3, <2>4, <2>5
  <2>7. \E i \in DOMAIN task[u].signal :
          /\ task[u].signal[i][1] \notin failed /\ timeline[task[u].signal[i][1]] < task[u].signal[i][2]
          /\ timeline' = [timeline EXCEPT ![task[u].signal[i][1]] = task[u].signal[i][2]]
    BY <1>4, <2>1, <2>2, <2>5
  <2>8. Contract!Signal(u)
    BY <1>1, <1>2, <2>6, <2>7 DEF Contract!Signal
  <2> QED  BY <2>8 DEF Contract!Next
<1> QED  BY <1>1, <1>3, <1>4

\* fail_all fails semaphores for a unit whose work or whose wait list has failed.
LEMMA FailKeeps ==
  ASSUME IInv, IInv', CauseInv, NEW u \in Units, FailNext(u)
  PROVE  Contract!Next
<1> USE DEF semVars, poolVars, hostVars
<1>1. /\ stage[u] = "fail" /\ UNCHANGED <<timeline, unit, stage, result>> /\ pos[u] <= Len(unit[u].signal)
      /\ failed' = failed \cup {unit[u].signal[pos[u]][1]}
  BY DEF FailNext
<1>2. task' = task
  BY <1>1, SameTasks
<1>3. pos[u] \in DOMAIN unit[u].signal
  <2>1. pos[u] \in Nat \ {0}
    BY DEF IInv, TypeOK
  <2> QED  BY <1>1, <2>1, UnitFacts DEF IInv
<1>4. \/ result[u] = "error"
      \/ result[u] = "none" /\ \E i \in DOMAIN unit[u].wait : unit[u].wait[i][1] \in failed
  BY <1>1 DEF CauseInv, CauseAt
<1>5. State(stage[u], result[u]) = IF result[u] = "error" THEN "error" ELSE "pending"
  BY <1>1, <1>4 DEF State
<1>6. /\ task[u].state = State(stage[u], result[u]) /\ task[u].signal = unit[u].signal
      /\ task[u].wait = unit[u].wait
  BY <1>5, TaskView, ViewFacts
<1>7. task[u].state = "error" \/ (task[u].state = "pending" /\ Contract!WaitFailed(task[u]))
  BY <1>4, <1>5, <1>6 DEF Contract!WaitFailed
<1>8. Contract!Poison(u)
  BY <1>1, <1>2, <1>3, <1>6, <1>7 DEF Contract!Poison
<1> QED  BY <1>8 DEF Contract!Next

\* The end of a list changes nothing for the client, except that a call nobody
\* waited for has been made.
LEMMA SettleKeeps ==
  ASSUME IInv, IInv', CauseInv, NEW u \in Units, SignalDone(u) \/ FailDone(u)
  PROVE  Contract!Next \/ UNCHANGED Contract!vars
<1> USE DEF semVars, poolVars, hostVars
<1>1. /\ UNCHANGED <<timeline, failed, unit>>
      /\ \/ stage[u] = "signal" /\ stage'[u] = "signalled" /\ result'[u] = "ok"
         \/ stage[u] = "fail" /\ stage'[u] = "failed" /\ result'[u] = result[u]
      /\ \A x \in Units \ {u} : stage'[x] = stage[x] /\ result'[x] = result[x]
  <2>1. stage \in [Units -> Stages] /\ result \in [Units -> {"none", "ok", "error"}]
    BY DEF IInv, TypeOK
  <2> QED  BY <2>1 DEF SignalDone, FailDone
<1>2. CASE State(stage'[u], result'[u]) = State(stage[u], result[u])
  <2>1. task' = task
    BY <1>1, <1>2, SameTasks
  <2> QED  BY <1>1, <2>1 DEF Contract!vars
<1>3. CASE State(stage'[u], result'[u]) # State(stage[u], result[u])
  <2>1. State(stage[u], result[u]) = "started" /\ State(stage'[u], result'[u]) = "ok"
    <3>1. result[u] \in {"none", "ok", "error"} /\ (stage[u] = "signal" => result[u] # "error")
      BY DEF IInv, TypeOK, CauseInv, CauseAt
    <3> QED  BY <1>1, <1>3, <3>1 DEF State
  <2>2. task[u].state = "started" /\ task' = [task EXCEPT ![u].state = "ok"]
    BY <1>1, <2>1, MoveTask
  <2>3. Contract!Finish(u)
    BY <1>1, <2>2 DEF Contract!Finish
  <2> QED  BY <2>3 DEF Contract!Next
<1> QED  BY <1>2, <1>3

\* A worker that panics drops the unit it runs and those in its channel, none of
\* which has finished.
LEMMA PanicKeeps ==
  ASSUME IInv, IInv', NEW w \in Contexts, Panic(w)
  PROVE  Contract!Next
<1> USE DEF semVars, poolVars, hostVars
<1>1. /\ UNCHANGED <<timeline, failed, unit, result>> /\ running[w] # None
      /\ stage[running[w]] = "work"
      /\ stage' = [u \in Units |->
                     IF u = running[w] \/ \E i \in DOMAIN queue[w] : queue[w][i] = u
                     THEN "lost" ELSE stage[u]]
  BY DEF Panic
<1>2. ASSUME NEW u \in Units
      PROVE  \/ stage'[u] = stage[u]
             \/ stage'[u] = "lost" /\ stage[u] \in {"work", "queued"} /\ result[u] = "none"
  <2>1. \A i \in DOMAIN queue[w] : stage[queue[w][i]] = "queued"
    BY DEF IInv, ChannelInv
  <2>2. stage[u] \in {"work", "queued"} => result[u] = "none"
    BY DEF IInv, FreshInv
  <2> QED  BY <1>1, <2>1, <2>2
<1>3. ASSUME NEW u \in Units, task'[u] # task[u]
      PROVE  /\ task[u].state \in {"pending", "started"}
             /\ task'[u] = [task[u] EXCEPT !.state = "dropped"]
  <2>1. /\ task[u] = View(stage[u], result[u], unit[u])
        /\ task'[u] = View(stage'[u], result'[u], unit'[u])
    BY TaskView
  <2>2. stage'[u] = "lost" /\ stage[u] \in {"work", "queued"} /\ result[u] = "none"
        /\ result'[u] = result[u] /\ unit'[u] = unit[u]
    BY <1>1, <1>2, <1>3, <2>1
  <2>3. State(stage[u], result[u]) \in {"pending", "started"} /\ State(stage'[u], result'[u]) = "dropped"
    BY <2>2 DEF State
  <2>4. task[u].state = State(stage[u], result[u])
    BY <2>1, <2>3, ViewFacts
  <2>5. View(stage'[u], result'[u], unit[u])
          = [View(stage[u], result[u], unit[u]) EXCEPT !.state = State(stage'[u], result'[u])]
    BY <2>3, ViewMoves
  <2> QED  BY <2>1, <2>2, <2>3, <2>4, <2>5
<1>4. task' = [u \in Units |-> task'[u]]
  BY DEF task
<1>5. Contract!Drop
  BY <1>1, <1>3, <1>4 DEF Contract!Drop
<1> QED  BY <1>5 DEF Contract!Next

\* Every step of the driver is a step of the contract, or none.
LEMMA StepKeeps ==
  ASSUME IInv, IInv', CauseInv, [Next]_vars
  PROVE  [Contract!Next]_(Contract!vars)
<1> USE DEF semVars, poolVars, hostVars
<1>1. ASSUME UNCHANGED <<timeline, failed, unit, stage, result>>
      PROVE  UNCHANGED Contract!vars
  <2>1. task' = task
    BY <1>1, SameTasks
  <2> QED  BY <1>1, <2>1 DEF Contract!vars
<1>2. ASSUME NEW s \in HostSems, HostStep(s)
      PROVE  Contract!Next
  <2>1. /\ UNCHANGED <<unit, stage, result>>
        /\ \/ timeline' = [timeline EXCEPT ![s] = @ + 1] /\ UNCHANGED failed
           \/ failed' = failed \cup {s} /\ UNCHANGED timeline
    BY <1>2 DEF HostStep, HostSignal, HostFail
  <2>2. task' = task
    BY <2>1, SameTasks
  <2>3. Contract!Host(s)
    BY <2>1, <2>2 DEF Contract!Host
  <2> QED  BY <2>3 DEF Contract!Next
<1>3. ASSUME NEW w \in Contexts, Receive(w)
      PROVE  UNCHANGED Contract!vars
  <2>1. UNCHANGED <<timeline, failed, unit, result>> /\ queue[w] # <<>>
        /\ stage' = [stage EXCEPT ![Head(queue[w])] = "wait"]
    BY <1>3 DEF Receive
  <2>2. stage[Head(queue[w])] = "queued" /\ stage \in [Units -> Stages] /\ Head(queue[w]) \in Units
    <3>1. queue[w] \in Seq(Units) /\ stage \in [Units -> Stages]
      BY DEF IInv, TypeOK
    <3>2. 1 \in DOMAIN queue[w] /\ Head(queue[w]) = queue[w][1] /\ Head(queue[w]) \in Units
      BY <2>1, <3>1
    <3> QED  BY <3>1, <3>2 DEF IInv, ChannelInv
  <2>3. \A x \in Units : State(stage'[x], result'[x]) = State(stage[x], result[x])
    BY <2>1, <2>2 DEF State
  <2>4. task' = task
    BY <2>1, <2>3, SameTasks
  <2> QED  BY <2>1, <2>4 DEF Contract!vars
<1>4. ASSUME NEW u \in Units, UnitStep(u)
      PROVE  Contract!Next \/ UNCHANGED Contract!vars
  BY <1>4, WaitKeeps, WorkKeeps, SignalKeeps, SettleKeeps, FailKeeps DEF UnitStep
<1>5. CASE Destroy \/ Shutdown \/ Finished \/ UNCHANGED vars \/ (\E w \in Contexts : WorkerExit(w))
  <2>1. UNCHANGED <<timeline, failed, unit, stage, result>>
    BY <1>5 DEF Destroy, Shutdown, TakeSender, Joined, Finished, vars, WorkerExit
  <2> QED  BY <1>1, <2>1
<1>6. ASSUME NEW w \in Contexts, Panic(w)
      PROVE  Contract!Next
  BY <1>6, PanicKeeps
<1>7. CASE Submit
  BY <1>7, SubmitKeeps
<1> QED  BY <1>2, <1>3, <1>4, <1>5, <1>6, <1>7 DEF Next, WorkerStep

\* The device queue implements the queue contract: the initial states are its
\* initial states and every step of any thread is one of its steps or none.
THEOREM ContractIsKept == Spec => KeepsContract
<1>1. Init => Contract!Init
  <2> SUFFICES ASSUME Init
               PROVE  Contract!Init
    OBVIOUS
  <2>1. \A u \in Units : TaskOf(u) = Contract!NoTask
    BY DEF Init, TaskOf, Phase, Contract!NoTask
  <2>2. task = [u \in Units |-> Contract!NoTask]
    BY <2>1 DEF task
  <2> QED  BY <2>2 DEF Init, Contract!Init, Sems
<1>2. IInv /\ CauseInv /\ IInv' /\ [Next]_vars => [Contract!Next]_(Contract!vars)
  BY StepKeeps
<1> QED  BY <1>1, <1>2, ReportInvariance, PTL DEF Spec, KeepsContract, Contract!Spec
=============================================================================
