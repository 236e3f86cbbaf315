---------------------------- MODULE DispatchProofs ----------------------------
(***************************************************************************)
(* What the loop body of queue_execute guarantees for any number of        *)
(* contexts, cores, tiles and dispatches, whatever fails (Dispatch): the   *)
(* scratch pool never has a BO in two hands, OK means that every fence has *)
(* signalled and none by a reset, a residual epilogue runs after its       *)
(* tiles, the hardware reads the program written for it and a dense task   *)
(* ordered after a depthwise dispatch starts on a quiet core.              *)
(***************************************************************************)
EXTENDS Dispatch, TLAPS

-----------------------------------------------------------------------------
(* The inductive invariant, one part per question.                         *)

Phases   == {"idle", "dwell", "allocate", "write", "submit", "wait", "judge", "drop"}
Outcomes == {"none", "ok", "unavailable", "deadline_exceeded", "internal"}
Plans    == [mode : Modes, tiles : Nat, epilogue : BOOLEAN, targets : Seq(Contexts)]
Tasks    == [dispatch : Dispatches, index : Nat \ {0}, mode : Modes, bo : Buffers]
Names    == Dispatches \X (Nat \ {0})

TypeOK ==
  /\ begun \in 0 .. NumDispatches
  /\ plan \in [Dispatches -> Plans]
  /\ outcome \in [Dispatches -> Outcomes]
  /\ phase \in [Contexts -> Phases]
  /\ job \in [Contexts -> 0 .. NumDispatches]
  /\ next \in [Contexts -> Nat \ {0}]
  /\ cmdBufs \in [Contexts -> Seq(Buffers)]
  /\ dwell \in [Contexts -> 0 .. Quiescence]
  /\ elapsed \in [Contexts -> 0 .. Floor]
  /\ hazard \in 0 .. Quiescence
  /\ free \in [Contexts -> Seq(Buffers)]
  /\ created \in [Contexts -> 0 .. NumBuffers]
  /\ program \in [Buffers -> {<<>>} \cup Names]
  /\ pending \in [Contexts -> Seq(Tasks)]
  /\ running \in [Cores -> Tasks \cup {Idle}]
  /\ age \in [Cores -> 0 .. Watchdog]
  /\ done \subseteq Names
  /\ killed \subseteq Dispatches
  /\ quiet \in [Cores -> 0 .. Quiescence]
  /\ lastDw \in [Cores -> 0 .. NumDispatches]
  /\ gap \in [Cores -> 0 .. Quiescence]
  /\ before \in [Dispatches -> SUBSET Dispatches]

\* Worker w is between apply_ops_until_dispatch and the outcome of its dispatch.
Working(w) == phase[w] \notin {"idle", "drop"}

\* A dispatch has at most one worker, and one worker until it has an outcome.
JobInv ==
  /\ \A w \in Contexts : phase[w] = "idle" <=> job[w] = 0
  /\ \A w \in Contexts : job[w] <= begun
  /\ \A v, w \in Contexts : job[v] = job[w] /\ job[v] # 0 => v = w
  /\ \A w \in Contexts : Working(w) => outcome[job[w]] = "none"
  /\ \A w \in Contexts : phase[w] = "drop" => outcome[job[w]] # "none"
  /\ \A d \in Dispatches : d > begun => outcome[d] = "none"
  /\ \A d \in Dispatches : d <= begun /\ outcome[d] = "none" => \E w \in Contexts : job[w] = d

\* A dispatch has a task per tile; one with an epilogue has a task more and
\* stays on one file.
PlanInv ==
  \A d \in 1 .. begun :
    /\ plan[d].tiles >= 1
    /\ Len(plan[d].targets) = IF plan[d].epilogue THEN plan[d].tiles + 1 ELSE plan[d].tiles
    /\ plan[d].epilogue =>
         \A i, j \in DOMAIN plan[d].targets : plan[d].targets[i] = plan[d].targets[j]

\* The loops over the tasks of a dispatch.
LoopAt(w) ==
  /\ phase[w] \in {"idle", "dwell", "judge"} => next[w] = 1
  /\ phase[w] \in {"idle", "dwell"} => cmdBufs[w] = <<>>
  /\ phase[w] \in {"allocate", "write", "submit", "wait"} => next[w] <= Len(Targets(w))
  /\ phase[w] = "allocate" => Len(cmdBufs[w]) = next[w] - 1
  /\ phase[w] \in {"write", "submit", "wait", "judge"} => Len(cmdBufs[w]) = Len(Targets(w))
  /\ phase[w] = "drop" => Len(cmdBufs[w]) + next[w] = Len(Targets(w)) + 1
  /\ phase[w] # "dwell" => dwell[w] = 0
LoopInv == \A w \in Contexts : LoopAt(w)

\* The task whose BO is at position i of cmd_bufs: those before it are dropped.
TaskAt(w, i) == IF phase[w] = "drop" THEN i + next[w] - 1 ELSE i

\* BOs are on the file of their task, and have been created there.
FileInv ==
  /\ \A w \in Contexts : \A i \in DOMAIN cmdBufs[w] :
       /\ cmdBufs[w][i][1] = Targets(w)[TaskAt(w, i)]
       /\ cmdBufs[w][i][2] <= created[cmdBufs[w][i][1]]
  /\ \A c \in Contexts : \A i \in DOMAIN free[c] : free[c][i][2] <= created[c]

\* The worker of dispatch d, if it still has one, has submitted task i.
Posted(d, i) ==
  \A w \in Contexts : job[w] = d =>
    /\ phase[w] \in {"submit", "wait", "judge", "drop"}
    /\ phase[w] = "submit" => i < next[w]

\* A task in flight is a task of a dispatch, and its fence has not signalled.
Flying(t) ==
  /\ t.dispatch <= begun
  /\ t.index <= Len(plan[t.dispatch].targets)
  /\ t.mode = IF t.index <= plan[t.dispatch].tiles THEN plan[t.dispatch].mode ELSE "other"
  /\ <<t.dispatch, t.index>> \notin done
  /\ Posted(t.dispatch, t.index)

TaskInv ==
  /\ \A t \in InFlight : Flying(t)
  /\ \A x \in done : x[1] <= begun /\ Posted(x[1], x[2])

\* A file runs one task at a time, and those of one dispatch in their order.
OrderInv ==
  /\ \A c \in Contexts : \A i \in DOMAIN pending[c] : FileOf(pending[c][i]) = c
  /\ \A k, l \in Cores : running[k] # Idle /\ running[l] # Idle /\ k # l =>
       FileOf(running[k]) # FileOf(running[l])
  /\ \A c \in Contexts : \A i, j \in DOMAIN pending[c] :
       i < j /\ pending[c][i].dispatch = pending[c][j].dispatch =>
         pending[c][i].index < pending[c][j].index
  /\ \A k \in Cores, c \in Contexts : \A i \in DOMAIN pending[c] :
       running[k] # Idle /\ FileOf(running[k]) = c /\ running[k].dispatch = pending[c][i].dispatch =>
         running[k].index < pending[c][i].index

\* Tasks that have been submitted: through, or in flight.
Sent == done \cup {<<t.dispatch, t.index>> : t \in InFlight}

\* Tasks are submitted in order.
SentInv ==
  /\ \A x \in Sent : \A i \in 1 .. x[2] - 1 : <<x[1], i>> \in Sent
  /\ \A w \in Contexts : phase[w] = "submit" => \A i \in 1 .. next[w] - 1 : <<job[w], i>> \in Sent

\* The wait loop has passed the fences of its tasks, judge and what follows
\* from it those of all the tasks.
AllDone(d) == \A i \in DOMAIN plan[d].targets : <<d, i>> \in done
DoneInv ==
  /\ \A w \in Contexts : phase[w] = "wait" => \A i \in 1 .. next[w] - 1 : <<job[w], i>> \in done
  /\ \A w \in Contexts : phase[w] = "judge" => AllDone(job[w])
  /\ \A d \in Dispatches : outcome[d] \in {"ok", "deadline_exceeded", "internal"} => AllDone(d)
  /\ \A d \in Dispatches : outcome[d] \in {"unavailable", "internal"} => MayFail

\* A task has not been on a core for longer than its dispatch has waited, so that
\* one killed by the watchdog is past the floor.
KillInv ==
  /\ \A k \in Cores, w \in Contexts :
       running[k] # Idle /\ job[w] = running[k].dispatch /\ Working(w) =>
         elapsed[w] >= age[k] \/ elapsed[w] = Floor
  /\ \A d \in killed : d <= begun /\ outcome[d] # "ok"
  /\ \A w \in Contexts : job[w] \in killed =>
       /\ phase[w] \in {"submit", "wait", "judge", "drop"}
       /\ phase[w] # "drop" => elapsed[w] = Floor

\* The programs a worker has written are in its BOs, and its tasks in flight
\* have them.
Written(w) ==
  IF phase[w] = "write" THEN 1 .. next[w] - 1
  ELSE IF phase[w] \in {"submit", "wait", "judge"} THEN DOMAIN cmdBufs[w] ELSE {}
ProgramInv ==
  /\ \A w \in Contexts : \A i \in Written(w) : program[cmdBufs[w][i]] = <<job[w], i>>
  /\ \A t \in InFlight : \A w \in Contexts :
       job[w] = t.dispatch /\ Working(w) => t.bo = cmdBufs[w][t.index]

\* What a dense task of dispatch d finds on a core that last ran a depthwise task
\* it is ordered after: quiet for so long, within margin m.
Quieted(d, m) == \A k \in Cores : lastDw[k] \in before[d] => quiet[k] + m >= Quiescence
QuietInv ==
  /\ \A d \in Dispatches : \A e \in before[d] : outcome[e] = "ok"
  /\ \A k \in Cores : lastDw[k] # 0 =>
       plan[lastDw[k]].mode = "depthwise" /\ lastDw[k] <= begun
  /\ \A k \in Cores : lastDw[k] # 0 /\ outcome[lastDw[k]] = "ok" => quiet[k] >= hazard
  /\ \A w \in Contexts : Working(w) /\ Mode(w) = "dense" => Quieted(job[w], dwell[w])
  /\ \A t \in InFlight : t.mode = "dense" => Quieted(t.dispatch, 0)

IInv ==
  /\ TypeOK /\ JobInv /\ PlanInv /\ LoopInv /\ FileInv /\ PoolExclusive /\ TaskInv /\ OrderInv
  /\ SentInv /\ DoneInv /\ KillInv /\ ProgramInv /\ QuietInv /\ OrderedDenseQuiesced
-----------------------------------------------------------------------------
(* Sequences.                                                              *)

\* What Append does to a sequence (Vec::push).
LEMMA AppendFacts ==
  ASSUME NEW S, NEW s \in Seq(S), NEW x \in S
  PROVE  /\ Append(s, x) \in Seq(S)
         /\ Len(Append(s, x)) = Len(s) + 1
         /\ DOMAIN Append(s, x) = 1 .. Len(s) + 1
         /\ \A i \in 1 .. Len(s) : Append(s, x)[i] = s[i]
         /\ Append(s, x)[Len(s) + 1] = x
OBVIOUS

\* What is left of a sequence without its first element.
LEMMA TailFacts ==
  ASSUME NEW S, NEW s \in Seq(S), s # <<>>
  PROVE  /\ Tail(s) \in Seq(S)
         /\ Len(Tail(s)) = Len(s) - 1
         /\ Len(s) \in Nat \ {0}
         /\ DOMAIN Tail(s) = 1 .. Len(s) - 1
         /\ \A i \in 1 .. Len(s) - 1 : Tail(s)[i] = s[i + 1]
         /\ Head(s) = s[1] /\ Head(s) \in S
OBVIOUS

\* What is left of a sequence without its last element (Vec::pop).
LEMMA FrontFacts ==
  ASSUME NEW S, NEW s \in Seq(S), s # <<>>
  PROVE  /\ SubSeq(s, 1, Len(s) - 1) \in Seq(S)
         /\ Len(SubSeq(s, 1, Len(s) - 1)) = Len(s) - 1
         /\ DOMAIN SubSeq(s, 1, Len(s) - 1) = 1 .. Len(s) - 1
         /\ \A i \in 1 .. Len(s) - 1 : SubSeq(s, 1, Len(s) - 1)[i] = s[i]
         /\ s[Len(s)] \in S /\ Len(s) \in Nat \ {0}
<1>1. Len(s) \in Nat /\ Len(s) # 0
  OBVIOUS
<1>2. \A i \in 1 .. Len(s) - 1 : i \in 1 .. Len(s)
  BY <1>1
<1>4. \A i \in 1 .. Len(s) : s[i] \in S
  OBVIOUS
<1> DEFINE f == [i \in 1 .. Len(s) - 1 |-> s[i]]
<1>3. SubSeq(s, 1, Len(s) - 1) = f
  BY <1>1
<1>5. f \in Seq(S) /\ Len(f) = Len(s) - 1
  BY <1>1, <1>2, <1>4
<1>6. DOMAIN f = 1 .. Len(s) - 1 /\ \A i \in 1 .. Len(s) - 1 : f[i] = s[i]
  OBVIOUS
<1>7. s[Len(s)] \in S
  BY <1>1, <1>4
<1> HIDE DEF f
<1> QED  BY <1>1, <1>3, <1>5, <1>6, <1>7

-----------------------------------------------------------------------------
(* Workers.                                                                *)

\* The numbers the bounds stand for.
LEMMA Bounds ==
  /\ NumContexts \in Nat /\ NumContexts >= 1 /\ NumDispatches \in Nat /\ NumBuffers \in Nat
  /\ Quiescence \in Nat /\ Floor \in Nat /\ Watchdog \in Nat /\ Floor <= Watchdog
  /\ Contexts = 0 .. NumContexts - 1 /\ 0 \in Contexts
BY DispatchAssumption DEF Contexts

\* The ends of the clocks.
LEMMA Ends ==
  /\ 0 \in 0 .. Floor /\ 0 \in 0 .. Watchdog /\ 0 \in 0 .. NumDispatches
  /\ 0 \in 0 .. Quiescence /\ Quiescence \in 0 .. Quiescence
BY DispatchAssumption

\* Only worker w moves on.
Turns(w) ==
  /\ phase' \in [Contexts -> Phases]
  /\ next' \in [Contexts -> Nat \ {0}]
  /\ \A v \in Contexts \ {w} : phase'[v] = phase[v] /\ next'[v] = next[v]

\* A busy worker has a dispatch with tasks.
LEMMA WorkerFacts ==
  ASSUME TypeOK, JobInv, PlanInv, NEW w \in Contexts, phase[w] # "idle"
  PROVE  /\ job[w] \in Dispatches /\ job[w] \in 1 .. begun
         /\ plan[job[w]] \in Plans
         /\ Targets(w) \in Seq(Contexts)
         /\ Len(Targets(w)) \in Nat \ {0}
         /\ DOMAIN Targets(w) = 1 .. Len(Targets(w))
         /\ plan[job[w]].tiles \in Nat
         /\ Mode(w) \in Modes
<1>1. job[w] \in 1 .. begun /\ begun \in 0 .. NumDispatches
  <2>1. begun \in 0 .. NumDispatches /\ job[w] \in 0 .. NumDispatches
    BY DEF TypeOK
  <2>2. job[w] # 0 /\ job[w] <= begun
    BY DEF JobInv
  <2> QED  BY <2>1, <2>2, Bounds
<1>2. job[w] \in Dispatches
  BY <1>1, Bounds DEF Dispatches
<1>3. plan[job[w]] \in Plans
  BY <1>2 DEF TypeOK
<1>4. /\ plan[job[w]].targets \in Seq(Contexts) /\ plan[job[w]].tiles \in Nat
      /\ plan[job[w]].mode \in Modes
  BY <1>3 DEF Plans
<1>5. Len(plan[job[w]].targets) >= 1
  BY <1>1, <1>4 DEF PlanInv
<1> QED  BY <1>1, <1>2, <1>3, <1>4, <1>5 DEF Targets, Mode

\* The loops over the tasks.
LEMMA AdvanceTurns ==
  ASSUME TypeOK, JobInv, PlanInv, NEW w \in Contexts, NEW after \in Phases, Advance(w, after),
         phase[w] # "idle", next[w] <= Len(Targets(w))
  PROVE  /\ Turns(w)
         /\ \/ /\ phase'[w] = phase[w] /\ next'[w] = next[w] + 1
               /\ next[w] < Len(Targets(w))
            \/ /\ phase'[w] = after /\ next'[w] = 1
               /\ next[w] = Len(Targets(w))
<1>1. next \in [Contexts -> Nat \ {0}] /\ phase \in [Contexts -> Phases]
  BY DEF TypeOK
<1>2. Len(Targets(w)) \in Nat
  BY WorkerFacts
<1> QED  BY <1>1, <1>2 DEF Advance, Turns

\* break 'result.
LEMMA BreakTurns ==
  ASSUME TypeOK, NEW w \in Contexts, NEW st, Break(w, st)
  PROVE  Turns(w) /\ phase'[w] = "drop" /\ next'[w] = 1
BY DEF Break, Turns, TypeOK, Phases

\* A remainder by a positive number is below it.
LEMMA RemainderType == \A a \in Nat : \A n \in 1 .. 8 : a % n \in 0 .. n - 1
OBVIOUS

\* fanout_contexts and tile_contexts: the tasks of a dispatch are on files there
\* are, one per tile, and with an epilogue all on one.
LEMMA TaskTargetsFacts ==
  ASSUME NEW w \in Contexts, NEW shape \in Shapes
  PROVE  /\ TaskTargets(w, shape) \in Seq(Contexts)
         /\ Len(TaskTargets(w, shape)) = IF shape.epilogue THEN shape.tiles + 1 ELSE shape.tiles
         /\ shape.epilogue => \A i, j \in DOMAIN TaskTargets(w, shape) :
                                TaskTargets(w, shape)[i] = TaskTargets(w, shape)[j]
         /\ shape.mode \in Modes /\ shape.tiles \in Nat \ {0} /\ shape.epilogue \in BOOLEAN
<1> DEFINE ways == Replicas(shape.tiles, shape.epilogue) + 1
           tasks == IF shape.epilogue THEN shape.tiles + 1 ELSE shape.tiles
           off(i) == IF i <= shape.tiles THEN (i - 1) % ways ELSE 0
           file(i) == (w + off(i)) % NumContexts
<1>1. shape.mode \in Modes /\ shape.tiles \in Nat \ {0} /\ shape.epilogue \in BOOLEAN
  BY DispatchAssumption
<1>2. NumContexts \in 1 .. 8 /\ w \in Nat
  BY DispatchAssumption DEF Contexts
<1>3. ways \in 1 .. 8 /\ (shape.epilogue => ways = 1)
  BY <1>1, <1>2 DEF Replicas
<1>4. tasks \in Nat
  BY <1>1
<1> HIDE DEF ways
<1>5. ASSUME NEW i \in 1 .. tasks
      PROVE  file(i) \in Contexts /\ (shape.epilogue => file(i) = w % NumContexts)
  <2>1. i - 1 \in Nat
    BY <1>4
  <2>2. (i - 1) % ways \in 0 .. ways - 1
    BY <1>3, <2>1, RemainderType
  <2>3. off(i) \in Nat /\ (shape.epilogue => off(i) = 0)
    BY <1>3, <2>2
  <2> HIDE DEF off
  <2>4. w + off(i) \in Nat /\ (shape.epilogue => w + off(i) = w)
    BY <1>2, <2>3
  <2> QED  BY <1>2, <2>4, RemainderType DEF Contexts
<1> HIDE DEF file, tasks
<1>6. TaskTargets(w, shape) = [i \in 1 .. tasks |-> file(i)]
  BY DEF TaskTargets, tasks, file, ways
<1>7. TaskTargets(w, shape) \in Seq(Contexts) /\ Len(TaskTargets(w, shape)) = tasks
  BY <1>4, <1>5, <1>6
<1>8. \A i \in DOMAIN TaskTargets(w, shape) : i \in 1 .. tasks /\ TaskTargets(w, shape)[i] = file(i)
  BY <1>6
<1>9. shape.epilogue => \A i, j \in DOMAIN TaskTargets(w, shape) :
                          TaskTargets(w, shape)[i] = TaskTargets(w, shape)[j]
  BY <1>5, <1>8
<1> QED  BY <1>1, <1>7, <1>9 DEF tasks

-----------------------------------------------------------------------------
(* The scratch pool.                                                       *)

\* ScratchBuffer::new: the BO handed out is on the file asked for; it leaves the
\* free list, or is the next one created there.
LEMMA TakeFacts ==
  ASSUME TypeOK, NEW c \in Contexts, TakeBuffer(c),
         \A i \in DOMAIN free[c] : free[c][i][1] = c
  PROVE  /\ NextBuffer(c) \in Buffers /\ NextBuffer(c)[1] = c
         /\ free' \in [Contexts -> Seq(Buffers)] /\ created' \in [Contexts -> 0 .. NumBuffers]
         /\ \A e \in Contexts \ {c} : free'[e] = free[e] /\ created'[e] = created[e]
         /\ \/ /\ free[c] # <<>> /\ created' = created
               /\ Len(free[c]) \in Nat \ {0} /\ NextBuffer(c) = free[c][Len(free[c])]
               /\ DOMAIN free'[c] = 1 .. Len(free[c]) - 1
               /\ \A i \in 1 .. Len(free[c]) - 1 : free'[c][i] = free[c][i]
            \/ /\ free[c] = <<>> /\ free' = free
               /\ NextBuffer(c) = <<c, created[c] + 1>> /\ created'[c] = created[c] + 1
<1>1. /\ free \in [Contexts -> Seq(Buffers)] /\ created \in [Contexts -> 0 .. NumBuffers]
      /\ free[c] \in Seq(Buffers) /\ created[c] \in 0 .. NumBuffers
  BY DEF TypeOK
<1>2. CASE free[c] # <<>>
  <2> DEFINE n == Len(free[c])
             rest == SubSeq(free[c], 1, n - 1)
  <2>1. /\ rest \in Seq(Buffers) /\ DOMAIN rest = 1 .. n - 1
        /\ \A i \in 1 .. n - 1 : rest[i] = free[c][i]
        /\ free[c][n] \in Buffers /\ n \in Nat \ {0}
    BY <1>1, <1>2, FrontFacts
  <2>2. NextBuffer(c) = free[c][n] /\ free' = [free EXCEPT ![c] = rest] /\ created' = created
    BY <1>2 DEF NextBuffer, TakeBuffer, Pooled
  <2>3. n \in DOMAIN free[c]
    BY <1>1, <2>1
  <2> HIDE DEF n, rest
  <2>4. free' \in [Contexts -> Seq(Buffers)] /\ free'[c] = rest
        /\ \A e \in Contexts \ {c} : free'[e] = free[e]
    BY <1>1, <2>1, <2>2
  <2> QED  BY <1>1, <1>2, <2>1, <2>2, <2>3, <2>4 DEF n
<1>3. CASE free[c] = <<>>
  <2>1. /\ NextBuffer(c) = <<c, created[c] + 1>> /\ free' = free /\ created[c] < NumBuffers
        /\ created' = [created EXCEPT ![c] = @ + 1]
    BY <1>3 DEF NextBuffer, TakeBuffer, Pooled
  <2>2. created[c] + 1 \in 1 .. NumBuffers
    BY <1>1, <2>1, Bounds
  <2>3. <<c, created[c] + 1>> \in Buffers /\ <<c, created[c] + 1>>[1] = c
    BY <2>2 DEF Buffers
  <2>4. /\ created' \in [Contexts -> 0 .. NumBuffers] /\ created'[c] = created[c] + 1
        /\ \A e \in Contexts \ {c} : created'[e] = created[e]
    BY <1>1, <2>1, <2>2, Bounds
  <2> QED  BY <1>1, <1>3, <2>1, <2>3, <2>4
<1> QED  BY <1>2, <1>3

\* ScratchBuffer::drop: the BO goes to the end of its file's free list, or nowhere.
LEMMA GiveFacts ==
  ASSUME TypeOK, NEW c \in Contexts, NEW b \in Buffers, GiveBuffer(b, c)
  PROVE  /\ free' \in [Contexts -> Seq(Buffers)]
         /\ \A e \in Contexts \ {c} : free'[e] = free[e]
         /\ \/ free'[c] = free[c]
            \/ /\ Len(free[c]) \in Nat
               /\ DOMAIN free[c] = 1 .. Len(free[c])
               /\ DOMAIN free'[c] = 1 .. Len(free[c]) + 1
               /\ \A i \in 1 .. Len(free[c]) : free'[c][i] = free[c][i]
               /\ free'[c][Len(free[c]) + 1] = b
<1>1. free \in [Contexts -> Seq(Buffers)] /\ free[c] \in Seq(Buffers)
  BY DEF TypeOK
<1>2. CASE free' = free
  BY <1>1, <1>2
<1>3. CASE free' = [free EXCEPT ![c] = Append(@, b)]
  <2>1. /\ Append(free[c], b) \in Seq(Buffers)
        /\ DOMAIN Append(free[c], b) = 1 .. Len(free[c]) + 1
        /\ \A i \in 1 .. Len(free[c]) : Append(free[c], b)[i] = free[c][i]
        /\ Append(free[c], b)[Len(free[c]) + 1] = b
    BY <1>1, AppendFacts
  <2>2. Len(free[c]) \in Nat /\ DOMAIN free[c] = 1 .. Len(free[c])
    BY <1>1
  <2>3. /\ free'[c] = Append(free[c], b) /\ free' \in [Contexts -> Seq(Buffers)]
        /\ \A e \in Contexts \ {c} : free'[e] = free[e]
    BY <1>1, <1>3, <2>1
  <2> QED  BY <2>1, <2>2, <2>3
<1> QED  BY <1>2, <1>3 DEF GiveBuffer

-----------------------------------------------------------------------------
(* Types.                                                                  *)

\* A BO of cmd_bufs is a buffer, on a file there is.
LEMMA BufferFacts ==
  ASSUME TypeOK, NEW w \in Contexts, NEW i \in DOMAIN cmdBufs[w]
  PROVE  /\ cmdBufs[w][i] \in Buffers /\ cmdBufs[w][i][1] \in Contexts
         /\ cmdBufs[w][i] = <<cmdBufs[w][i][1], cmdBufs[w][i][2]>>
         /\ cmdBufs[w][i][2] \in Nat
         /\ DOMAIN cmdBufs[w] = 1 .. Len(cmdBufs[w]) /\ Len(cmdBufs[w]) \in Nat
         /\ i \in Nat \ {0} /\ i <= Len(cmdBufs[w])
<1>1. cmdBufs[w] \in Seq(Buffers)
  BY DEF TypeOK
<1>2. cmdBufs[w][i] \in Buffers
  BY <1>1
<1>3. DOMAIN cmdBufs[w] = 1 .. Len(cmdBufs[w]) /\ Len(cmdBufs[w]) \in Nat
  BY <1>1
<1> QED  BY <1>2, <1>3 DEF Buffers

\* While a worker writes, submits and waits, each of its tasks has a BO.
LEMMA LoopFacts ==
  ASSUME TypeOK, JobInv, PlanInv, LoopInv, NEW w \in Contexts,
         phase[w] \in {"allocate", "write", "submit", "wait"}
  PROVE  /\ next[w] \in Nat \ {0} /\ next[w] <= Len(Targets(w)) /\ next[w] \in DOMAIN Targets(w)
         /\ Targets(w)[next[w]] \in Contexts
         /\ phase[w] # "allocate" =>
              next[w] \in DOMAIN cmdBufs[w] /\ cmdBufs[w][next[w]] \in Buffers
<1>1. next[w] \in Nat \ {0} /\ cmdBufs[w] \in Seq(Buffers)
  BY DEF TypeOK
<1>2. next[w] <= Len(Targets(w)) /\ (phase[w] # "allocate" => Len(cmdBufs[w]) = Len(Targets(w)))
  BY DEF LoopInv, LoopAt
<1>3. Targets(w) \in Seq(Contexts) /\ DOMAIN Targets(w) = 1 .. Len(Targets(w))
      /\ Len(Targets(w)) \in Nat
  BY WorkerFacts
<1>4. next[w] \in DOMAIN Targets(w)
  BY <1>1, <1>2, <1>3
<1>5. Targets(w)[next[w]] \in Contexts
  BY <1>3, <1>4
<1>6. phase[w] # "allocate" => next[w] \in DOMAIN cmdBufs[w]
  BY <1>1, <1>2, <1>3
<1>7. phase[w] # "allocate" => cmdBufs[w][next[w]] \in Buffers
  BY <1>1, <1>6
<1> QED  BY <1>1, <1>2, <1>4, <1>5, <1>6, <1>7

\* Clocks stay below their limits.
LEMMA LaterFacts == \A limit \in Nat : \A t \in 0 .. limit :
                      /\ Later(t, limit) \in 0 .. limit /\ Later(t, limit) >= t
                      /\ Later(t, limit) = t + 1 \/ Later(t, limit) = limit
BY DEF Later

\* A worker's new task is a task.
LEMMA TaskType ==
  ASSUME TypeOK, JobInv, PlanInv, LoopInv, NEW w \in Contexts, phase[w] = "submit"
  PROVE  [dispatch |-> job[w], index |-> next[w], mode |-> TaskMode(w, next[w]),
          bo |-> cmdBufs[w][next[w]]] \in Tasks
<1>1. next[w] \in Nat \ {0} /\ cmdBufs[w][next[w]] \in Buffers
  BY LoopFacts
<1>2. job[w] \in Dispatches /\ Mode(w) \in Modes
  BY WorkerFacts
<1>3. TaskMode(w, next[w]) \in Modes
  BY <1>2 DEF TaskMode, Modes
<1> QED  BY <1>1, <1>2, <1>3 DEF Tasks

\* A task in flight is a task.
LEMMA FlightType ==
  ASSUME TypeOK, NEW t \in InFlight
  PROVE  t \in Tasks /\ t # Idle
<1>1. Idle \notin Tasks
  BY Bounds DEF Idle, Tasks, Dispatches
<1>2. running \in [Cores -> Tasks \cup {Idle}] /\ pending \in [Contexts -> Seq(Tasks)]
  BY DEF TypeOK
<1>3. CASE t \in {running[k] : k \in {i \in Cores : running[i] # Idle}}
  BY <1>1, <1>2, <1>3
<1>4. CASE t \in UNION {{pending[c][i] : i \in DOMAIN pending[c]} : c \in Contexts}
  <2>1. PICK c \in Contexts : \E i \in DOMAIN pending[c] : t = pending[c][i]
    BY <1>4
  <2>2. pending[c] \in Seq(Tasks)
    BY <1>2
  <2> QED  BY <1>1, <2>1, <2>2
<1> QED  BY <1>3, <1>4 DEF InFlight

\* A step keeps every variable in its type.
LEMMA TypeStep ==
  ASSUME TypeOK, JobInv, PlanInv, LoopInv, PoolExclusive, Next
  PROVE  TypeOK'
<1>1. ASSUME NEW w \in Contexts, NEW shape \in Shapes, Begin(w, shape)
      PROVE  TypeOK'
  <2>1. begun + 1 \in Dispatches /\ begun' = begun + 1 /\ begun' \in 0 .. NumDispatches
        /\ begun + 1 \in 0 .. NumDispatches
    <3>1. begun \in 0 .. NumDispatches /\ begun < NumDispatches /\ begun' = begun + 1
      BY <1>1 DEF TypeOK, Begin
    <3> QED  BY <3>1, Bounds DEF Dispatches
  <2>2. plan' \in [Dispatches -> Plans]
    <3>1. [mode |-> shape.mode, tiles |-> shape.tiles, epilogue |-> shape.epilogue,
           targets |-> TaskTargets(w, shape)] \in Plans
      BY TaskTargetsFacts DEF Plans
    <3> QED  BY <1>1, <2>1, <3>1 DEF TypeOK, Begin
  <2>3. before' \in [Dispatches -> SUBSET Dispatches]
    BY <1>1 DEF TypeOK, Begin
  <2>4. job' \in [Contexts -> 0 .. NumDispatches]
    BY <1>1, <2>1 DEF TypeOK, Begin
  <2>5. dwell' \in [Contexts -> 0 .. Quiescence]
    <3>1. hazard \in 0 .. Quiescence /\ dwell \in [Contexts -> 0 .. Quiescence]
      BY DEF TypeOK
    <3>2. DwellFor(shape.mode) \in 0 .. Quiescence
      BY <3>1, Bounds DEF DwellFor
    <3> QED  BY <1>1, <3>1, <3>2 DEF Begin
  <2>6. phase' \in [Contexts -> Phases]
    BY <1>1 DEF TypeOK, Begin, Phases
  <2> QED  BY <1>1, <2>1, <2>2, <2>3, <2>4, <2>5, <2>6 DEF TypeOK, Begin, poolVars, hwVars
<1>2. ASSUME NEW w \in Contexts, Wake(w)
      PROVE  TypeOK'
  <2>1. phase' \in [Contexts -> Phases]
    BY <1>2 DEF TypeOK, Wake, Phases
  <2> QED  BY <1>2, <2>1 DEF TypeOK, Wake, poolVars, hwVars, planVars
<1>3. ASSUME NEW w \in Contexts, Allocate(w)
      PROVE  TypeOK'
  <2> DEFINE c == Targets(w)[next[w]]
  <2>1. phase[w] = "allocate" /\ c \in Contexts /\ next[w] <= Len(Targets(w))
    BY <1>3, LoopFacts DEF Allocate
  <2>2. Turns(w)
    BY <1>3, <2>1, AdvanceTurns DEF Allocate, Phases
  <2>3. /\ NextBuffer(c) \in Buffers
        /\ free' \in [Contexts -> Seq(Buffers)] /\ created' \in [Contexts -> 0 .. NumBuffers]
    <3>1. TakeBuffer(c)
      BY <1>3 DEF Allocate
    <3> HIDE DEF c
    <3>2. \A i \in DOMAIN free[c] : free[c][i][1] = c
      BY <2>1 DEF PoolExclusive
    <3> QED  BY <2>1, <3>1, <3>2, TakeFacts
  <2>4. cmdBufs' \in [Contexts -> Seq(Buffers)]
    <3>1. cmdBufs' = [cmdBufs EXCEPT ![w] = Append(@, NextBuffer(c))]
      BY <1>3 DEF Allocate
    <3>2. cmdBufs \in [Contexts -> Seq(Buffers)]
      BY DEF TypeOK
    <3> QED  BY <2>3, <3>1, <3>2, AppendFacts
  <2> QED  BY <1>3, <2>2, <2>3, <2>4 DEF TypeOK, Allocate, Turns, hwVars, planVars
<1>4. ASSUME NEW w \in Contexts, Write(w)
      PROVE  TypeOK'
  <2>1. phase[w] = "write" /\ cmdBufs[w][next[w]] \in Buffers /\ next[w] <= Len(Targets(w))
        /\ next[w] \in Nat \ {0}
    BY <1>4, LoopFacts DEF Write
  <2>2. job[w] \in Dispatches
    BY <2>1, WorkerFacts
  <2>3. program' \in [Buffers -> {<<>>} \cup Names]
    <3>1. program \in [Buffers -> {<<>>} \cup Names]
      BY DEF TypeOK
    <3>2. <<job[w], next[w]>> \in Names
      BY <2>1, <2>2 DEF Names
    <3> QED  BY <1>4, <2>1, <3>1, <3>2 DEF Write
  <2>4. Turns(w)
    BY <1>4, <2>1, AdvanceTurns, BreakTurns DEF Write, Phases
  <2>5. outcome' \in [Dispatches -> Outcomes]
    BY <1>4, <2>2 DEF Write, Break, TypeOK, Outcomes
  <2>6. elapsed' \in [Contexts -> 0 .. Floor]
    <3>1. elapsed \in [Contexts -> 0 .. Floor]
      BY DEF TypeOK
    <3>2. elapsed' = elapsed \/ elapsed' = [elapsed EXCEPT ![w] = 0]
      BY <1>4 DEF Write
    <3> QED  BY <3>1, <3>2, Ends
  <2> QED  BY <1>4, <2>3, <2>4, <2>5, <2>6 DEF TypeOK, Write, Turns, hwVars
<1>5. ASSUME NEW w \in Contexts, Submit(w)
      PROVE  TypeOK'
  <2>1. phase[w] = "submit" /\ Targets(w)[next[w]] \in Contexts /\ next[w] <= Len(Targets(w))
    BY <1>5, LoopFacts DEF Submit
  <2>2. job[w] \in Dispatches
    BY <2>1, WorkerFacts
  <2>3. Turns(w)
    BY <1>5, <2>1, AdvanceTurns, BreakTurns DEF Submit, Phases
  <2>4. outcome' \in [Dispatches -> Outcomes]
    BY <1>5, <2>2 DEF Submit, Break, TypeOK, Outcomes
  <2>5. pending' \in [Contexts -> Seq(Tasks)]
    <3> DEFINE t == [dispatch |-> job[w], index |-> next[w], mode |-> TaskMode(w, next[w]),
                     bo |-> cmdBufs[w][next[w]]]
    <3>1. t \in Tasks
      BY <2>1, TaskType
    <3>2. pending' = pending \/ pending' = [pending EXCEPT ![Targets(w)[next[w]]] = Append(@, t)]
      BY <1>5 DEF Submit
    <3> HIDE DEF t
    <3>3. pending \in [Contexts -> Seq(Tasks)]
      BY DEF TypeOK
    <3>4. Append(pending[Targets(w)[next[w]]], t) \in Seq(Tasks)
      BY <2>1, <3>1, <3>3, AppendFacts
    <3> QED  BY <2>1, <3>2, <3>3, <3>4
  <2> QED  BY <1>5, <2>3, <2>4, <2>5 DEF TypeOK, Submit, Turns, poolVars
<1>6. ASSUME NEW w \in Contexts, Wait(w)
      PROVE  TypeOK'
  <2>1. phase[w] = "wait" /\ next[w] <= Len(Targets(w))
    BY <1>6, LoopFacts DEF Wait
  <2>2. job[w] \in Dispatches
    BY <2>1, WorkerFacts
  <2>3. Turns(w)
    BY <1>6, <2>1, AdvanceTurns, BreakTurns DEF Wait, Phases
  <2>4. outcome' \in [Dispatches -> Outcomes]
    BY <1>6, <2>2 DEF Wait, Break, TypeOK, Outcomes
  <2> QED  BY <1>6, <2>3, <2>4 DEF TypeOK, Wait, Turns, poolVars, hwVars
<1>7. ASSUME NEW w \in Contexts, Judge(w)
      PROVE  TypeOK'
  <2>1. phase[w] = "judge" /\ Turns(w)
    BY <1>7, BreakTurns DEF Judge
  <2>2. job[w] \in Dispatches
    BY <2>1, WorkerFacts
  <2>3. outcome' \in [Dispatches -> Outcomes]
    BY <1>7, <2>2 DEF Judge, Break, TypeOK, Outcomes
  <2>4. hazard' \in 0 .. Quiescence
    <3>1. hazard \in 0 .. Quiescence
      BY DEF TypeOK
    <3>2. hazard' \in {0, hazard}
      BY <1>7 DEF Judge
    <3> QED  BY <3>1, <3>2, Ends
  <2> QED  BY <1>7, <2>1, <2>3, <2>4 DEF TypeOK, Judge, Turns, poolVars, hwVars
<1>8. ASSUME NEW w \in Contexts, Drop(w)
      PROVE  TypeOK'
  <2>1. /\ next \in [Contexts -> Nat \ {0}] /\ phase \in [Contexts -> Phases]
        /\ job \in [Contexts -> 0 .. NumDispatches] /\ cmdBufs \in [Contexts -> Seq(Buffers)]
        /\ free \in [Contexts -> Seq(Buffers)] /\ phase[w] = "drop"
    BY <1>8 DEF TypeOK, Drop
  <2>2. CASE cmdBufs[w] # <<>>
    <3> DEFINE c == Targets(w)[next[w]]
    <3>1. cmdBufs[w] \in Seq(Buffers) /\ Head(cmdBufs[w]) \in Buffers /\ Tail(cmdBufs[w]) \in Seq(Buffers)
          /\ Len(cmdBufs[w]) \in Nat \ {0}
      BY <2>1, <2>2, TailFacts
    <3>2. c \in Contexts
      <4>1. Len(cmdBufs[w]) + next[w] = Len(Targets(w)) + 1
        BY <2>1 DEF LoopInv, LoopAt
      <4>2. Targets(w) \in Seq(Contexts) /\ Len(Targets(w)) \in Nat /\ next[w] \in Nat \ {0}
        BY <2>1, WorkerFacts
      <4>3. next[w] \in 1 .. Len(Targets(w))
        BY <3>1, <4>1, <4>2
      <4> QED  BY <4>2, <4>3
    <3>3. free' \in [Contexts -> Seq(Buffers)]
      <4>1. GiveBuffer(Head(cmdBufs[w]), c)
        BY <1>8, <2>2 DEF Drop
      <4> HIDE DEF c
      <4> QED  BY <3>1, <3>2, <4>1, GiveFacts
    <3>4. cmdBufs' \in [Contexts -> Seq(Buffers)] /\ next' \in [Contexts -> Nat \ {0}]
      <4>1. cmdBufs' = [cmdBufs EXCEPT ![w] = Tail(@)] /\ next' = [next EXCEPT ![w] = @ + 1]
        BY <1>8, <2>2 DEF Drop
      <4> QED  BY <2>1, <3>1, <4>1
    <3> QED  BY <1>8, <2>2, <3>3, <3>4 DEF TypeOK, Drop, hwVars, planVars
  <2>3. CASE cmdBufs[w] = <<>>
    <3>1. /\ phase' \in [Contexts -> Phases] /\ next' \in [Contexts -> Nat \ {0}]
          /\ job' \in [Contexts -> 0 .. NumDispatches]
      <4>1. /\ phase' = [phase EXCEPT ![w] = "idle"] /\ job' = [job EXCEPT ![w] = 0]
            /\ next' = [next EXCEPT ![w] = 1]
        BY <1>8, <2>3 DEF Drop
      <4> QED  BY <2>1, <4>1, Ends DEF Phases
    <3> QED  BY <1>8, <2>3, <3>1 DEF TypeOK, Drop, hwVars, planVars
  <2> QED  BY <2>2, <2>3
<1>9. ASSUME NEW k \in Cores, NEW c \in Contexts, Start(k, c)
      PROVE  TypeOK'
  <2>1. pending[c] \in Seq(Tasks) /\ pending[c] # <<>>
    BY <1>9 DEF TypeOK, Start
  <2>2. Head(pending[c]) \in Tasks /\ Tail(pending[c]) \in Seq(Tasks)
    BY <2>1, TailFacts
  <2>3. running' \in [Cores -> Tasks \cup {Idle}] /\ pending' \in [Contexts -> Seq(Tasks)]
    BY <1>9, <2>2 DEF TypeOK, Start
  <2>4. age' \in [Cores -> 0 .. Watchdog] /\ gap' \in [Cores -> 0 .. Quiescence]
    <3>1. age \in [Cores -> 0 .. Watchdog] /\ gap \in [Cores -> 0 .. Quiescence]
          /\ quiet[k] \in 0 .. Quiescence
      BY DEF TypeOK
    <3>2. age' = [age EXCEPT ![k] = 0] /\ gap' = [gap EXCEPT ![k] = quiet[k]]
      BY <1>9 DEF Start
    <3> QED  BY <3>1, <3>2, Ends
  <2> QED  BY <1>9, <2>3, <2>4 DEF TypeOK, Start, workerVars, poolVars, planVars
<1>10. ASSUME NEW k \in Cores, Complete(k) \/ Kill(k)
       PROVE  TypeOK'
  <2>1. running[k] \in Tasks /\ running[k] # Idle
    BY <1>10 DEF TypeOK, Complete, Kill, Signal
  <2>2. running[k].dispatch \in Dispatches /\ running[k].index \in Nat \ {0}
    BY <2>1 DEF Tasks
  <2>3. <<running[k].dispatch, running[k].index>> \in Names
        /\ running[k].dispatch \in 0 .. NumDispatches
    BY <2>2, Bounds DEF Names, Dispatches
  <2>4. running' \in [Cores -> Tasks \cup {Idle}] /\ done' \subseteq Names
        /\ age' \in [Cores -> 0 .. Watchdog]
    <3>1. /\ running \in [Cores -> Tasks \cup {Idle}] /\ done \subseteq Names
          /\ age \in [Cores -> 0 .. Watchdog]
      BY DEF TypeOK
    <3>2. /\ running' = [running EXCEPT ![k] = Idle] /\ age' = [age EXCEPT ![k] = 0]
          /\ done' = done \cup {<<running[k].dispatch, running[k].index>>}
      BY <1>10 DEF Complete, Kill, Signal
    <3> QED  BY <2>3, <3>1, <3>2, Ends
  <2>5. quiet' \in [Cores -> 0 .. Quiescence] /\ lastDw' \in [Cores -> 0 .. NumDispatches]
    <3>1. quiet \in [Cores -> 0 .. Quiescence] /\ lastDw \in [Cores -> 0 .. NumDispatches]
      BY DEF TypeOK
    <3>2. /\ \/ quiet' = quiet \/ quiet' = [quiet EXCEPT ![k] = 0]
             \/ quiet' = [quiet EXCEPT ![k] = Quiescence]
          /\ \/ lastDw' = lastDw \/ lastDw' = [lastDw EXCEPT ![k] = 0]
             \/ lastDw' = [lastDw EXCEPT ![k] = running[k].dispatch]
      BY <1>10 DEF Complete, Kill
    <3> QED  BY <2>3, <3>1, <3>2, Ends
  <2>6. killed' \subseteq Dispatches
    BY <1>10, <2>2 DEF TypeOK, Complete, Kill
  <2> QED  BY <1>10, <2>4, <2>5, <2>6
           DEF TypeOK, Complete, Kill, Signal, workerVars, poolVars, planVars
<1>11. ASSUME Tick
       PROVE  TypeOK'
  <2>1. /\ age \in [Cores -> 0 .. Watchdog] /\ quiet \in [Cores -> 0 .. Quiescence]
        /\ hazard \in 0 .. Quiescence /\ dwell \in [Contexts -> 0 .. Quiescence]
        /\ elapsed \in [Contexts -> 0 .. Floor]
    BY DEF TypeOK
  <2>2. age' \in [Cores -> 0 .. Watchdog]
    BY <1>11, <2>1, Bounds DEF Tick
  <2>3. quiet' \in [Cores -> 0 .. Quiescence] /\ hazard' \in 0 .. Quiescence
        /\ elapsed' \in [Contexts -> 0 .. Floor]
    BY <1>11, <2>1, Bounds, LaterFacts DEF Tick
  <2>4. dwell' \in [Contexts -> 0 .. Quiescence]
    BY <1>11, <2>1, Bounds DEF Tick
  <2> QED  BY <1>11, <2>2, <2>3, <2>4 DEF TypeOK, Tick, poolVars, planVars
<1> QED  BY <1>1, <1>2, <1>3, <1>4, <1>5, <1>6, <1>7, <1>8, <1>9, <1>10, <1>11
         DEF Next, WorkerStep

-----------------------------------------------------------------------------
(* Jobs and plans.                                                         *)

\* Every step of worker w between its dispatch's begin and its outcome goes on
\* with the dispatch, or breaks with an outcome.
Continues(w) ==
  /\ Working(w) /\ Turns(w) /\ UNCHANGED <<begun, plan, before, job, dwell>>
  /\ \/ phase'[w] \notin {"idle", "drop"} /\ UNCHANGED outcome
     \/ /\ phase'[w] = "drop" /\ next'[w] = 1
        /\ outcome' \in [Dispatches -> Outcomes]
        /\ outcome'[job[w]] # "none"
        /\ \A d \in Dispatches \ {job[w]} : outcome'[d] = outcome[d]

LEMMA WorkerContinues ==
  ASSUME TypeOK, JobInv, PlanInv, LoopInv, NEW w \in Contexts,
         Wake(w) \/ Allocate(w) \/ Write(w) \/ Submit(w) \/ Wait(w) \/ Judge(w)
  PROVE  Continues(w)
<1>1. Working(w) /\ UNCHANGED <<begun, plan, before, job, dwell>>
  BY DEF Wake, Allocate, Write, Submit, Wait, Judge, planVars, Working
<1>2. job[w] \in Dispatches /\ outcome \in [Dispatches -> Outcomes]
  BY <1>1, WorkerFacts DEF Working, TypeOK
<1>3. phase[w] \in {"allocate", "write", "submit", "wait"} => next[w] <= Len(Targets(w))
  BY LoopFacts
<1>4. ASSUME NEW st \in Outcomes \ {"none"}, Break(w, st)
      PROVE  Continues(w)
  <2>1. Turns(w) /\ phase'[w] = "drop" /\ next'[w] = 1
    BY <1>4, BreakTurns
  <2>2. outcome' = [outcome EXCEPT ![job[w]] = st]
    BY <1>4 DEF Break
  <2> QED  BY <1>1, <1>2, <2>1, <2>2 DEF Continues
<1>5. ASSUME NEW after \in Phases \ {"idle", "drop"}, Advance(w, after), UNCHANGED outcome,
             phase[w] \in {"allocate", "write", "submit", "wait"}
      PROVE  Continues(w)
  <2>1. Turns(w) /\ phase'[w] \in {phase[w], after}
    BY <1>3, <1>5, AdvanceTurns
  <2> QED  BY <1>1, <1>5, <2>1 DEF Continues
<1>6. CASE Wake(w)
  BY <1>1, <1>6 DEF Wake, Continues, Turns, TypeOK, Phases, planVars
<1>7. CASE Allocate(w)
  BY <1>5, <1>7 DEF Allocate, Phases, planVars
<1>8. CASE Write(w)
  BY <1>4, <1>5, <1>8 DEF Write, Phases, Outcomes
<1>9. CASE Submit(w)
  BY <1>4, <1>5, <1>9 DEF Submit, Phases, Outcomes
<1>10. CASE Wait(w)
  BY <1>4, <1>5, <1>10 DEF Wait, Phases, Outcomes
<1>11. CASE Judge(w)
  BY <1>4, <1>11 DEF Judge, Outcomes
<1> QED  BY <1>6, <1>7, <1>8, <1>9, <1>10, <1>11

\* Kernel, hardware and time leave the workers where they are.
Outside == \/ \E k \in Cores, c \in Contexts : Start(k, c)
           \/ \E k \in Cores : Complete(k) \/ Kill(k)
           \/ Tick

LEMMA OutsideFrame ==
  ASSUME Outside
  PROVE  UNCHANGED <<phase, job, next, cmdBufs, poolVars, planVars>>
BY DEF Outside, Start, Complete, Kill, Signal, Tick, workerVars

\* The steps there are.
LEMMA NextCases ==
  ASSUME TypeOK, JobInv, PlanInv, LoopInv, Next
  PROVE  \/ \E w \in Contexts, shape \in Shapes : Begin(w, shape)
         \/ \E w \in Contexts : Continues(w)
         \/ \E w \in Contexts : Drop(w)
         \/ Outside
BY WorkerContinues DEF Next, WorkerStep, Outside

\* A dispatch begins on an idle worker with a plan nobody has had yet.
LEMMA BeginFacts ==
  ASSUME TypeOK, JobInv, NEW w \in Contexts, NEW shape \in Shapes, Begin(w, shape)
  PROVE  /\ begun \in Nat /\ begun' = begun + 1 /\ begun + 1 \in Dispatches
         /\ phase[w] = "idle" /\ job[w] = 0
         /\ phase'[w] = "dwell" /\ job'[w] = begun + 1 /\ outcome[begun + 1] = "none"
         /\ dwell'[w] = DwellFor(shape.mode)
         /\ \A v \in Contexts \ {w} :
              phase'[v] = phase[v] /\ job'[v] = job[v] /\ dwell'[v] = dwell[v]
         /\ \A v \in Contexts : job[v] \in Nat /\ job[v] <= begun
         /\ \A d \in Dispatches \ {begun + 1} : plan'[d] = plan[d] /\ before'[d] = before[d]
         /\ plan'[begun + 1] = [mode |-> shape.mode, tiles |-> shape.tiles,
                                epilogue |-> shape.epilogue, targets |-> TaskTargets(w, shape)]
         /\ before'[begun + 1] = {d \in Dispatches : outcome[d] = "ok"}
         /\ \A d \in 1 .. begun : d \in Dispatches /\ d # begun + 1
<1>1. begun \in 0 .. NumDispatches /\ begun < NumDispatches /\ begun' = begun + 1
  BY DEF TypeOK, Begin
<1>2. begun \in Nat /\ begun + 1 \in Dispatches /\ \A d \in 1 .. begun : d \in Dispatches /\ d # begun + 1
  BY <1>1, Bounds DEF Dispatches
<1>3. /\ phase \in [Contexts -> Phases] /\ job \in [Contexts -> 0 .. NumDispatches]
      /\ dwell \in [Contexts -> 0 .. Quiescence] /\ plan \in [Dispatches -> Plans]
      /\ before \in [Dispatches -> SUBSET Dispatches]
  BY DEF TypeOK
<1>4. /\ phase[w] = "idle" /\ phase' = [phase EXCEPT ![w] = "dwell"]
      /\ job' = [job EXCEPT ![w] = begun + 1] /\ dwell' = [dwell EXCEPT ![w] = DwellFor(shape.mode)]
      /\ plan' = [plan EXCEPT ![begun + 1] =
                [mode |-> shape.mode, tiles |-> shape.tiles, epilogue |-> shape.epilogue,
                 targets |-> TaskTargets(w, shape)]]
      /\ before' = [before EXCEPT ![begun + 1] = {d \in Dispatches : outcome[d] = "ok"}]
  BY DEF Begin
<1>5. job[w] = 0 /\ \A v \in Contexts : job[v] <= begun
  BY <1>4 DEF JobInv
<1>6. outcome[begun + 1] = "none"
  <2>1. begun + 1 > begun
    BY <1>2
  <2> QED  BY <1>2, <2>1 DEF JobInv
<1>7. \A v \in Contexts : job[v] \in Nat
  BY <1>3, Bounds
<1> QED  BY <1>1, <1>2, <1>3, <1>4, <1>5, <1>6, <1>7

\* The drop of cmd_bufs ends with the worker idle.
LEMMA DropFacts ==
  ASSUME TypeOK, NEW w \in Contexts, Drop(w)
  PROVE  /\ phase[w] = "drop" /\ UNCHANGED <<dwell, elapsed, hazard, created, program, hwVars, planVars>>
         /\ \A v \in Contexts \ {w} : /\ phase'[v] = phase[v] /\ job'[v] = job[v]
                                      /\ next'[v] = next[v] /\ cmdBufs'[v] = cmdBufs[v]
         /\ \/ /\ cmdBufs[w] # <<>> /\ cmdBufs'[w] = Tail(cmdBufs[w])
               /\ phase' = phase /\ job' = job /\ next'[w] = next[w] + 1
               /\ GiveBuffer(Head(cmdBufs[w]), Targets(w)[next[w]])
            \/ /\ cmdBufs[w] = <<>> /\ cmdBufs' = cmdBufs /\ free' = free
               /\ phase'[w] = "idle" /\ job'[w] = 0 /\ next'[w] = 1
<1>1. /\ phase \in [Contexts -> Phases] /\ job \in [Contexts -> 0 .. NumDispatches]
      /\ next \in [Contexts -> Nat \ {0}] /\ cmdBufs \in [Contexts -> Seq(Buffers)]
  BY DEF TypeOK
<1> QED  BY <1>1 DEF Drop

\* A step keeps the jobs apart and every dispatch without an outcome in hand.
LEMMA JobStep ==
  ASSUME TypeOK, JobInv, PlanInv, LoopInv, Next
  PROVE  JobInv'
<1>1. ASSUME NEW w \in Contexts, NEW shape \in Shapes, Begin(w, shape)
      PROVE  JobInv'
  <2>1. outcome' = outcome
    BY <1>1 DEF Begin
  <2>2. /\ begun \in Nat /\ begun' = begun + 1 /\ begun + 1 \in Dispatches
        /\ phase[w] = "idle" /\ job[w] = 0
        /\ phase'[w] = "dwell" /\ job'[w] = begun + 1 /\ outcome[begun + 1] = "none"
        /\ \A v \in Contexts \ {w} : phase'[v] = phase[v] /\ job'[v] = job[v]
        /\ \A v \in Contexts : job[v] \in Nat /\ job[v] <= begun
    BY <1>1, BeginFacts
  <2>3. \A v \in Contexts : (phase'[v] = "idle" <=> job'[v] = 0) /\ job'[v] <= begun'
    BY <2>2 DEF JobInv
  <2>4. \A u, v \in Contexts : job'[u] = job'[v] /\ job'[u] # 0 => u = v
    BY <2>2 DEF JobInv
  <2>5. \A v \in Contexts : /\ Working(v)' => outcome'[job'[v]] = "none"
                            /\ phase'[v] = "drop" => outcome'[job'[v]] # "none"
    BY <2>1, <2>2 DEF JobInv, Working
  <2>6. \A d \in Dispatches : d > begun' => outcome'[d] = "none"
    BY <2>1, <2>2 DEF JobInv, Dispatches
  <2>7. ASSUME NEW d \in Dispatches, d <= begun', outcome'[d] = "none"
        PROVE  \E v \in Contexts : job'[v] = d
    <3>1. d = begun + 1 \/ d <= begun
      BY <2>2, <2>7 DEF Dispatches
    <3>2. d # 0
      BY DEF Dispatches
    <3> QED  BY <2>1, <2>2, <2>7, <3>1, <3>2 DEF JobInv
  <2> QED  BY <2>3, <2>4, <2>5, <2>6, <2>7 DEF JobInv
<1>2. ASSUME NEW w \in Contexts, Continues(w)
      PROVE  JobInv'
  <2>1. job[w] \in Dispatches /\ job[w] # 0 /\ job[w] <= begun
    BY <1>2, WorkerFacts DEF Continues, Working, Dispatches, JobInv
  <2>2. \A v \in Contexts \ {w} : job[v] # job[w]
    BY <2>1 DEF JobInv
  <2>3. \A v \in Contexts : phase[v] # "idle" => job[v] \in Dispatches
    BY WorkerFacts
  <2>4. \A v \in Contexts \ {w} : phase[v] # "idle" => outcome'[job[v]] = outcome[job[v]]
    BY <1>2, <2>2, <2>3 DEF Continues
  <2>5. /\ UNCHANGED <<begun, job>>
        /\ \A v \in Contexts \ {w} : phase'[v] = phase[v]
        /\ phase'[w] # "idle" /\ phase[w] # "idle"
        /\ phase'[w] # "drop" => outcome'[job[w]] = "none"
        /\ phase'[w] = "drop" => outcome'[job[w]] # "none"
    BY <1>2 DEF Continues, Turns, Working, JobInv
  <2>6. \A v \in Contexts : /\ phase'[v] = "idle" <=> job'[v] = 0
                            /\ job'[v] <= begun'
                            /\ Working(v)' => outcome'[job'[v]] = "none"
                            /\ phase'[v] = "drop" => outcome'[job'[v]] # "none"
    BY <2>4, <2>5 DEF JobInv, Working
  <2>7. \A d \in Dispatches : /\ d > begun' => outcome'[d] = "none"
                              /\ outcome'[d] = "none" => outcome[d] = "none"
    <3>1. begun \in Nat
      BY Bounds DEF TypeOK
    <3>2. \A d \in Dispatches : d > begun => d # job[w]
      BY <2>1, <3>1 DEF Dispatches
    <3>3. \A d \in Dispatches : d > begun => outcome[d] = "none"
      BY DEF JobInv
    <3>4. \A d \in Dispatches \ {job[w]} : outcome'[d] = outcome[d]
      BY <1>2 DEF Continues
    <3>5. outcome[job[w]] = "none"
      BY <1>2 DEF Continues, JobInv
    <3> QED  BY <2>5, <3>2, <3>3, <3>4, <3>5
  <2> QED  BY <2>5, <2>6, <2>7 DEF JobInv
<1>3. ASSUME NEW w \in Contexts, Drop(w)
      PROVE  JobInv'
  <2>1. /\ phase[w] = "drop" /\ UNCHANGED <<begun, outcome>>
        /\ \A v \in Contexts \ {w} : phase'[v] = phase[v] /\ job'[v] = job[v]
        /\ \/ phase' = phase /\ job' = job
           \/ phase'[w] = "idle" /\ job'[w] = 0
    BY <1>3, DropFacts DEF planVars
  <2>2. CASE phase' = phase /\ job' = job
    BY <2>1, <2>2 DEF JobInv, Working
  <2>3. CASE phase'[w] = "idle" /\ job'[w] = 0
    <3>1. \A v \in Contexts : /\ phase'[v] = "idle" <=> job'[v] = 0
                              /\ Working(v)' => outcome'[job'[v]] = "none"
                              /\ phase'[v] = "drop" => outcome'[job'[v]] # "none"
      BY <2>1, <2>3 DEF JobInv, Working
    <3>2. \A v \in Contexts : job'[v] <= begun'
      <4>1. begun \in Nat
        BY Bounds DEF TypeOK
      <4>2. \A v \in Contexts : job[v] <= begun
        BY DEF JobInv
      <4> QED  BY <2>1, <2>3, <4>1, <4>2
    <3>3. \A u, v \in Contexts : job'[u] = job'[v] /\ job'[u] # 0 => u = v
      BY <2>1, <2>3 DEF JobInv
    <3>4. \A d \in Dispatches : d <= begun' /\ outcome'[d] = "none" => \E v \in Contexts : job'[v] = d
      BY <2>1, <2>3 DEF JobInv
    <3> QED  BY <2>1, <3>1, <3>2, <3>3, <3>4 DEF JobInv
  <2> QED  BY <2>1, <2>2, <2>3
<1>4. ASSUME Outside
      PROVE  JobInv'
  BY <1>4, OutsideFrame DEF JobInv, Working, planVars
<1> QED  BY <1>1, <1>2, <1>3, <1>4, NextCases

\* The plan of a dispatch, and what it is ordered after, are fixed when it begins.
LEMMA PlanKept ==
  ASSUME TypeOK, JobInv, PlanInv, LoopInv, Next
  PROVE  /\ begun \in Nat /\ begun' \in Nat /\ begun' >= begun
         /\ \A d \in 1 .. begun : /\ d \in Dispatches /\ plan'[d] = plan[d] /\ before'[d] = before[d]
                                  /\ d \in 1 .. begun'
<1>1. begun \in Nat /\ \A d \in 1 .. begun : d \in Dispatches
  BY Bounds DEF TypeOK, Dispatches
<1>2. ASSUME NEW w \in Contexts, NEW shape \in Shapes, Begin(w, shape)
      PROVE  /\ begun' = begun + 1
             /\ \A d \in 1 .. begun : plan'[d] = plan[d] /\ before'[d] = before[d]
  BY <1>2, BeginFacts
<1>3. ASSUME NEW w \in Contexts, Continues(w)
      PROVE  UNCHANGED <<begun, plan, before>>
  BY <1>3 DEF Continues
<1>4. ASSUME NEW w \in Contexts, Drop(w)
      PROVE  UNCHANGED <<begun, plan, before>>
  BY <1>4 DEF Drop, planVars
<1>5. Outside => UNCHANGED <<begun, plan, before>>
  BY OutsideFrame DEF planVars
<1> QED  BY <1>1, <1>2, <1>3, <1>4, <1>5, NextCases

\* The targets of a worker's dispatch are fixed.
LEMMA TargetsKept ==
  ASSUME TypeOK, JobInv, PlanInv, LoopInv, Next, NEW w \in Contexts, phase[w] # "idle", job'[w] = job[w]
  PROVE  Targets(w)' = Targets(w) /\ Mode(w)' = Mode(w) /\ before'[job'[w]] = before[job[w]]
<1>1. job[w] \in 1 .. begun
  BY WorkerFacts
<1> QED  BY <1>1, PlanKept DEF Targets, Mode

\* A step plans tasks for every tile.
LEMMA PlanStep ==
  ASSUME TypeOK, JobInv, PlanInv, LoopInv, Next
  PROVE  PlanInv'
<1>1. ASSUME NEW w \in Contexts, NEW shape \in Shapes, Begin(w, shape)
      PROVE  PlanInv'
  <2>1. /\ begun \in Nat /\ begun' = begun + 1
        /\ plan'[begun + 1] = [mode |-> shape.mode, tiles |-> shape.tiles,
                                epilogue |-> shape.epilogue, targets |-> TaskTargets(w, shape)]
        /\ \A d \in 1 .. begun : plan'[d] = plan[d]
    BY <1>1, BeginFacts, PlanKept
  <2>2. \A d \in 1 .. begun' : d = begun + 1 \/ d \in 1 .. begun
    BY <2>1
  <2>3. /\ shape.tiles >= 1
        /\ Len(TaskTargets(w, shape)) = IF shape.epilogue THEN shape.tiles + 1 ELSE shape.tiles
        /\ shape.epilogue => \A i, j \in DOMAIN TaskTargets(w, shape) :
                                TaskTargets(w, shape)[i] = TaskTargets(w, shape)[j]
    BY TaskTargetsFacts
  <2> QED  BY <2>1, <2>2, <2>3 DEF PlanInv
<1>2. ASSUME UNCHANGED <<begun, plan>>
      PROVE  PlanInv'
  BY <1>2 DEF PlanInv
<1>3. ASSUME NEW w \in Contexts, Drop(w)
      PROVE  UNCHANGED <<begun, plan>>
  BY <1>3 DEF Drop, planVars
<1>4. Outside => UNCHANGED <<begun, plan>>
  BY OutsideFrame DEF planVars
<1>5. ASSUME NEW w \in Contexts, Continues(w)
      PROVE  UNCHANGED <<begun, plan>>
  BY <1>5 DEF Continues
<1> QED  BY <1>1, <1>2, <1>3, <1>4, <1>5, NextCases

\* A step by another worker leaves worker v's loop alone.
LEMMA LoopKept ==
  ASSUME TypeOK, JobInv, PlanInv, LoopInv, Next, NEW v \in Contexts,
         phase'[v] = phase[v], job'[v] = job[v], next'[v] = next[v], cmdBufs'[v] = cmdBufs[v],
         dwell[v] = 0 => dwell'[v] = 0
  PROVE  LoopAt(v)'
<1>1. LoopAt(v)
  BY DEF LoopInv
<1>2. CASE phase[v] = "idle"
  BY <1>1, <1>2 DEF LoopAt
<1>3. CASE phase[v] # "idle"
  <2>1. Targets(v)' = Targets(v)
    BY <1>3, TargetsKept
  <2> QED  BY <1>1, <2>1 DEF LoopAt
<1> QED  BY <1>2, <1>3

\* What a worker's step does to its loop: it goes on to the next task, from the
\* last task to the next loop, or breaks.
LEMMA WorkerMoves ==
  ASSUME TypeOK, JobInv, PlanInv, LoopInv, NEW w \in Contexts
  PROVE  /\ Allocate(w) \/ Write(w) \/ Submit(w) \/ Wait(w) =>
              /\ next[w] \in Nat \ {0} /\ Len(Targets(w)) \in Nat /\ next[w] <= Len(Targets(w))
              /\ \/ /\ phase'[w] = phase[w] /\ next'[w] = next[w] + 1
                    /\ next[w] < Len(Targets(w)) /\ outcome' = outcome
                 \/ /\ next'[w] = 1 /\ next[w] = Len(Targets(w)) /\ outcome' = outcome
                    /\ phase'[w] = CASE phase[w] = "allocate" -> "write"
                                     [] phase[w] = "write" -> "submit"
                                     [] phase[w] = "submit" -> "wait"
                                     [] phase[w] = "wait" -> "judge"
                 \/ /\ MayFail /\ phase[w] # "allocate" /\ phase'[w] = "drop" /\ next'[w] = 1
                    /\ outcome' = [outcome EXCEPT ![job[w]] = "unavailable"]
         /\ Judge(w) => phase'[w] = "drop" /\ next'[w] = 1
<1>1. Judge(w) => phase'[w] = "drop" /\ next'[w] = 1
  BY BreakTurns DEF Judge
<1>2. ASSUME Allocate(w) \/ Write(w) \/ Submit(w) \/ Wait(w)
      PROVE  /\ next[w] \in Nat \ {0} /\ Len(Targets(w)) \in Nat /\ next[w] <= Len(Targets(w))
             /\ phase[w] \in {"allocate", "write", "submit", "wait"}
  <2>1. phase[w] \in {"allocate", "write", "submit", "wait"}
    BY <1>2 DEF Allocate, Write, Submit, Wait
  <2> QED  BY <2>1, LoopFacts, WorkerFacts
<1>3. ASSUME NEW after \in Phases, Advance(w, after),
             phase[w] \in {"allocate", "write", "submit", "wait"}, next[w] <= Len(Targets(w))
      PROVE  \/ phase'[w] = phase[w] /\ next'[w] = next[w] + 1 /\ next[w] < Len(Targets(w))
             \/ phase'[w] = after /\ next'[w] = 1 /\ next[w] = Len(Targets(w))
  BY <1>3, AdvanceTurns
<1>4. ASSUME NEW st, Break(w, st)
      PROVE  phase'[w] = "drop" /\ next'[w] = 1 /\ outcome' = [outcome EXCEPT ![job[w]] = st]
  BY <1>4, BreakTurns DEF Break
<1>5. {"write", "submit", "wait", "judge"} \subseteq Phases
  BY DEF Phases
<1>6. CASE Allocate(w)
  BY <1>1, <1>2, <1>3, <1>5, <1>6 DEF Allocate, planVars
<1>7. CASE Write(w)
  BY <1>1, <1>2, <1>3, <1>4, <1>5, <1>7 DEF Write
<1>8. CASE Submit(w)
  BY <1>1, <1>2, <1>3, <1>4, <1>5, <1>8 DEF Submit
<1>9. CASE Wait(w)
  BY <1>1, <1>2, <1>3, <1>4, <1>5, <1>9 DEF Wait
<1> QED  BY <1>1, <1>6, <1>7, <1>8, <1>9

\* A step keeps the loops over the tasks in range and in step with cmd_bufs.
LEMMA LoopStep ==
  ASSUME TypeOK, JobInv, PlanInv, LoopInv, Next
  PROVE  LoopInv'
<1>1. ASSUME NEW w \in Contexts, NEW shape \in Shapes, Begin(w, shape)
      PROVE  LoopInv'
  <2>1. /\ phase[w] = "idle" /\ phase'[w] = "dwell" /\ next' = next /\ cmdBufs' = cmdBufs
        /\ \A v \in Contexts \ {w} : phase'[v] = phase[v] /\ job'[v] = job[v] /\ dwell'[v] = dwell[v]
    BY <1>1, BeginFacts DEF Begin
  <2>2. LoopAt(w)'
    BY <2>1 DEF LoopInv, LoopAt
  <2>3. \A v \in Contexts \ {w} : LoopAt(v)'
    BY <2>1, LoopKept
  <2> QED  BY <2>2, <2>3 DEF LoopInv
<1>2. ASSUME NEW w \in Contexts,
             Wake(w) \/ Allocate(w) \/ Write(w) \/ Submit(w) \/ Wait(w) \/ Judge(w)
      PROVE  LoopInv'
  <2>1. Continues(w)
    BY <1>2, WorkerContinues
  <2>2. /\ \A v \in Contexts \ {w} : phase'[v] = phase[v] /\ next'[v] = next[v]
        /\ UNCHANGED <<job, dwell>> /\ phase[w] # "idle"
    BY <2>1 DEF Continues, Turns, Working
  <2>3. \A v \in Contexts \ {w} : cmdBufs'[v] = cmdBufs[v]
    BY <1>2 DEF TypeOK, Wake, Allocate, Write, Submit, Wait, Judge
  <2>4. \A v \in Contexts \ {w} : LoopAt(v)'
    BY <2>2, <2>3, LoopKept
  <2>5. /\ Targets(w)' = Targets(w) /\ Len(Targets(w)) \in Nat \ {0}
    BY <2>2, TargetsKept, WorkerFacts
  <2>6. LoopAt(w)
    BY DEF LoopInv
  <2>7. ASSUME Wake(w)
        PROVE  LoopAt(w)'
    <3>1. phase[w] = "dwell" /\ phase'[w] = "allocate" /\ dwell[w] = 0 /\ UNCHANGED <<next, cmdBufs>>
      BY <2>7 DEF Wake, TypeOK
    <3>2. next[w] = 1 /\ cmdBufs[w] = <<>>
      BY <2>6, <3>1 DEF LoopAt
    <3> QED  BY <2>2, <2>5, <3>1, <3>2 DEF LoopAt
  <2>8. ASSUME Allocate(w)
        PROVE  LoopAt(w)'
    <3>1. /\ phase[w] = "allocate" /\ dwell[w] = 0 /\ Len(cmdBufs[w]) = next[w] - 1
      BY <2>6, <2>8 DEF Allocate, LoopAt
    <3>2. Len(cmdBufs'[w]) = next[w]
      <4>1. cmdBufs'[w] = Append(cmdBufs[w], NextBuffer(Targets(w)[next[w]]))
            /\ cmdBufs[w] \in Seq(Buffers) /\ next[w] \in Nat \ {0}
        BY <2>8 DEF Allocate, TypeOK
      <4>2. Len(cmdBufs'[w]) = Len(cmdBufs[w]) + 1 /\ Len(cmdBufs[w]) \in Nat
        BY <4>1
      <4> QED  BY <3>1, <4>1, <4>2
    <3>3. /\ next[w] \in Nat \ {0} /\ next[w] <= Len(Targets(w))
          /\ \/ phase'[w] = "allocate" /\ next'[w] = next[w] + 1 /\ next[w] < Len(Targets(w))
             \/ phase'[w] = "write" /\ next'[w] = 1 /\ next[w] = Len(Targets(w))
      BY <2>8, <3>1, WorkerMoves
    <3> QED  BY <2>2, <2>5, <3>1, <3>2, <3>3 DEF LoopAt
  <2>9. ASSUME Write(w) \/ Submit(w) \/ Wait(w)
        PROVE  LoopAt(w)'
    <3>1. /\ phase[w] \in {"write", "submit", "wait"} /\ cmdBufs' = cmdBufs
          /\ dwell[w] = 0 /\ Len(cmdBufs[w]) = Len(Targets(w))
      BY <2>6, <2>9 DEF Write, Submit, Wait, LoopAt
    <3>2. /\ next[w] \in Nat \ {0}
          /\ \/ phase'[w] = phase[w] /\ next'[w] = next[w] + 1 /\ next[w] < Len(Targets(w))
             \/ phase'[w] \in {"submit", "wait", "judge", "drop"} /\ next'[w] = 1
      BY <2>9, <3>1, WorkerMoves
    <3> QED  BY <2>2, <2>5, <3>1, <3>2 DEF LoopAt
  <2>10. ASSUME Judge(w)
         PROVE  LoopAt(w)'
    <3>1. /\ phase[w] = "judge" /\ cmdBufs' = cmdBufs
          /\ dwell[w] = 0 /\ Len(cmdBufs[w]) = Len(Targets(w))
      BY <2>6, <2>10 DEF Judge, LoopAt
    <3>2. phase'[w] = "drop" /\ next'[w] = 1
      BY <2>10, WorkerMoves
    <3> QED  BY <2>2, <2>5, <3>1, <3>2 DEF LoopAt
  <2>11. LoopAt(w)'
    BY <1>2, <2>7, <2>8, <2>9, <2>10
  <2> QED  BY <2>4, <2>11 DEF LoopInv
<1>3. ASSUME NEW w \in Contexts, Drop(w)
      PROVE  LoopInv'
  <2>1. /\ phase[w] = "drop" /\ dwell' = dwell
        /\ \A v \in Contexts \ {w} : /\ phase'[v] = phase[v] /\ job'[v] = job[v]
                                     /\ next'[v] = next[v] /\ cmdBufs'[v] = cmdBufs[v]
        /\ \/ /\ cmdBufs[w] # <<>> /\ cmdBufs'[w] = Tail(cmdBufs[w])
              /\ phase'[w] = "drop" /\ job' = job /\ next'[w] = next[w] + 1
           \/ cmdBufs[w] = <<>> /\ cmdBufs' = cmdBufs /\ phase'[w] = "idle" /\ next'[w] = 1
    BY <1>3, DropFacts
  <2>2. \A v \in Contexts \ {w} : LoopAt(v)'
    BY <2>1, LoopKept
  <2>3. dwell[w] = 0 /\ Len(cmdBufs[w]) + next[w] = Len(Targets(w)) + 1
    BY <2>1 DEF LoopInv, LoopAt
  <2>4. CASE cmdBufs[w] # <<>>
    <3>1. Len(cmdBufs'[w]) = Len(cmdBufs[w]) - 1 /\ Len(cmdBufs[w]) \in Nat \ {0}
      <4>1. cmdBufs[w] \in Seq(Buffers)
        BY DEF TypeOK
      <4> QED  BY <2>1, <2>4, <4>1, TailFacts
    <3>2. Targets(w)' = Targets(w) /\ next[w] \in Nat /\ Len(Targets(w)) \in Nat
      BY <2>1, <2>4, TargetsKept, WorkerFacts DEF TypeOK
    <3>3. Len(cmdBufs'[w]) + next'[w] = Len(Targets(w)) + 1
      BY <2>1, <2>3, <2>4, <3>1, <3>2
    <3>4. LoopAt(w)'
      BY <2>1, <2>3, <2>4, <3>2, <3>3 DEF LoopAt
    <3> QED  BY <2>2, <3>4 DEF LoopInv
  <2>5. CASE cmdBufs[w] = <<>>
    <3>1. LoopAt(w)'
      BY <2>1, <2>3, <2>5 DEF LoopAt
    <3> QED  BY <2>2, <3>1 DEF LoopInv
  <2> QED  BY <2>4, <2>5
<1>4. ASSUME Outside
      PROVE  LoopInv'
  <2>1. UNCHANGED <<phase, job, next, cmdBufs>>
    BY <1>4, OutsideFrame
  <2>2. \A v \in Contexts : dwell[v] = 0 => dwell'[v] = 0
    <3>1. dwell' = dwell \/ dwell' = [w \in Contexts |-> IF dwell[w] > 0 THEN dwell[w] - 1 ELSE 0]
      BY <1>4 DEF Outside, Start, Complete, Kill, Signal, Tick, workerVars
    <3> QED  BY <3>1
  <2> QED  BY <2>1, <2>2, LoopKept DEF LoopInv
<1> QED  BY <1>1, <1>2, <1>3, <1>4 DEF Next, WorkerStep, Outside

-----------------------------------------------------------------------------
(* BOs.                                                                    *)

\* The shape of a free list.
LEMMA FreeFacts ==
  ASSUME TypeOK, NEW c \in Contexts, NEW i \in DOMAIN free[c]
  PROVE  /\ free[c][i] \in Buffers /\ free[c][i] = <<free[c][i][1], free[c][i][2]>>
         /\ free[c][i][2] \in Nat /\ free[c][i] \in PooledBuffers
         /\ DOMAIN free[c] = 1 .. Len(free[c]) /\ Len(free[c]) \in Nat
         /\ i \in Nat \ {0} /\ i <= Len(free[c])
<1>1. free[c] \in Seq(Buffers)
  BY DEF TypeOK
<1>2. free[c][i] \in Buffers
  BY <1>1
<1>3. DOMAIN free[c] = 1 .. Len(free[c]) /\ Len(free[c]) \in Nat
  BY <1>1
<1>4. free[c][i] \in PooledBuffers
  BY <1>2 DEF PooledBuffers
<1>5. free[c][i] = <<free[c][i][1], free[c][i][2]>> /\ free[c][i][2] \in Nat
  BY <1>2 DEF Buffers
<1> QED  BY <1>2, <1>3, <1>4, <1>5

\* The BO a task is given is in nobody's hands, and not pooled any more.
LEMMA TakeFresh ==
  ASSUME TypeOK, FileInv, PoolExclusive, NEW c \in Contexts, TakeBuffer(c)
  PROVE  /\ \A v \in Contexts : \A i \in DOMAIN cmdBufs[v] : cmdBufs[v][i] # NextBuffer(c)
         /\ \A e \in Contexts : \A i \in DOMAIN free'[e] :
              i \in DOMAIN free[e] /\ free'[e][i] = free[e][i] /\ free'[e][i] # NextBuffer(c)
         /\ \A e \in Contexts : created[e] \in Nat /\ created'[e] \in Nat /\ created'[e] >= created[e]
         /\ NextBuffer(c)[2] \in Nat /\ NextBuffer(c)[2] <= created'[c]
<1> DEFINE b == NextBuffer(c)
<1>1. \A i \in DOMAIN free[c] : free[c][i][1] = c
  BY DEF PoolExclusive
<1>2. /\ b \in Buffers /\ b[1] = c /\ free' \in [Contexts -> Seq(Buffers)]
      /\ \A e \in Contexts \ {c} : free'[e] = free[e] /\ created'[e] = created[e]
      /\ \/ /\ free[c] # <<>> /\ created' = created
            /\ Len(free[c]) \in Nat \ {0} /\ b = free[c][Len(free[c])]
            /\ DOMAIN free'[c] = 1 .. Len(free[c]) - 1
            /\ \A i \in 1 .. Len(free[c]) - 1 : free'[c][i] = free[c][i]
         \/ /\ free[c] = <<>> /\ free' = free
            /\ b = <<c, created[c] + 1>> /\ created'[c] = created[c] + 1
  BY <1>1, TakeFacts
<1>3. \A e \in Contexts : created[e] \in Nat
  <2>1. created \in [Contexts -> 0 .. NumBuffers]
    BY DEF TypeOK
  <2> QED  BY <2>1, Bounds
<1>4. \A e \in Contexts : created'[e] \in Nat /\ created'[e] >= created[e]
  <2>1. created'[c] = created[c] \/ created'[c] = created[c] + 1
    BY <1>2
  <2>2. \A e \in Contexts : e # c => created'[e] = created[e]
    BY <1>2
  <2> QED  BY <1>3, <2>1, <2>2
<1> HIDE DEF b
<1>5. \A e \in Contexts \ {c} : \A i \in DOMAIN free[e] : free[e][i] # b
  BY <1>2 DEF PoolExclusive
<1>6. CASE free[c] # <<>>
  <2>1. Len(free[c]) \in DOMAIN free[c]
    BY <1>2, <1>6 DEF TypeOK
  <2>2. b \in PooledBuffers /\ b[2] \in Nat /\ b[2] <= created'[c]
        /\ DOMAIN free[c] = 1 .. Len(free[c])
    BY <1>2, <1>6, <2>1, FreeFacts DEF FileInv
  <2>3. \A v \in Contexts : \A i \in DOMAIN cmdBufs[v] : cmdBufs[v][i] # b
    BY <2>2 DEF PoolExclusive
  <2>4. \A i \in DOMAIN free'[c] : i \in DOMAIN free[c] /\ i # Len(free[c]) /\ free'[c][i] = free[c][i]
    BY <1>2, <1>6, <2>2
  <2>5. \A i \in DOMAIN free'[c] : free'[c][i] # b
    BY <1>2, <1>6, <2>1, <2>4 DEF PoolExclusive
  <2>6. \A e \in Contexts : \A i \in DOMAIN free'[e] :
          i \in DOMAIN free[e] /\ free'[e][i] = free[e][i] /\ free'[e][i] # b
    BY <1>2, <1>5, <2>4, <2>5
  <2> QED  BY <1>3, <1>4, <2>2, <2>3, <2>6 DEF b
<1>7. CASE free[c] = <<>>
  <2>1. /\ b = <<c, created[c] + 1>> /\ created'[c] = created[c] + 1 /\ free' = free
        /\ DOMAIN free[c] = {}
    BY <1>2, <1>7
  <2>2. b[2] = created[c] + 1 /\ b[2] \in Nat /\ b[2] <= created'[c]
    BY <1>3, <2>1
  <2>3. ASSUME NEW v \in Contexts, NEW i \in DOMAIN cmdBufs[v], cmdBufs[v][i] = b
        PROVE  FALSE
    <3>1. cmdBufs[v][i][2] <= created[c]
      BY <1>2, <2>3 DEF FileInv
    <3> QED  BY <1>3, <2>2, <2>3, <3>1
  <2>4. \A e \in Contexts : \A i \in DOMAIN free[e] : free[e][i] # b
    BY <1>5, <2>1
  <2> QED  BY <1>3, <1>4, <2>1, <2>2, <2>3, <2>4 DEF b
<1> QED  BY <1>6, <1>7

\* The task of a BO does not change while the worker goes through its loops, nor
\* when it breaks.
LEMMA TaskAtKept ==
  ASSUME TypeOK, JobInv, PlanInv, LoopInv, NEW w \in Contexts, Continues(w), NEW v \in Contexts,
         NEW i \in Nat
  PROVE  TaskAt(v, i)' = TaskAt(v, i)
<1>1. CASE v # w
  BY <1>1 DEF Continues, Turns, TaskAt
<1>2. CASE v = w
  BY <1>2 DEF Continues, Working, TaskAt
<1> QED  BY <1>1, <1>2

\* Steps that take and give no BO keep the pool as it is.
LEMMA PoolKept ==
  ASSUME TypeOK, JobInv, PlanInv, LoopInv, FileInv, PoolExclusive, Next,
         UNCHANGED <<cmdBufs, free, created>>,
         \A w \in Contexts : cmdBufs[w] # <<>> =>
           job'[w] = job[w] /\ \A i \in DOMAIN cmdBufs[w] : TaskAt(w, i)' = TaskAt(w, i)
  PROVE  FileInv' /\ PoolExclusive'
<1>1. PoolExclusive'
  BY DEF PoolExclusive, PooledBuffers
<1>2. ASSUME NEW w \in Contexts, NEW i \in DOMAIN cmdBufs[w]
      PROVE  cmdBufs'[w][i][1] = Targets(w)'[TaskAt(w, i)']
  <2>1. cmdBufs[w] # <<>>
    BY <1>2
  <2>2. phase[w] # "idle"
    BY <2>1 DEF LoopInv, LoopAt
  <2>3. Targets(w)' = Targets(w)
    BY <2>1, <2>2, TargetsKept
  <2> QED  BY <2>1, <2>3 DEF FileInv
<1>3. FileInv'
  BY <1>2 DEF FileInv
<1> QED  BY <1>1, <1>3

\* A step keeps every BO on its file and in one hand.
LEMMA PoolStep ==
  ASSUME TypeOK, JobInv, PlanInv, LoopInv, FileInv, PoolExclusive, Next
  PROVE  FileInv' /\ PoolExclusive'
<1>1. ASSUME NEW w \in Contexts, NEW shape \in Shapes, Begin(w, shape)
      PROVE  FileInv' /\ PoolExclusive'
  <2>1. /\ UNCHANGED <<cmdBufs, free, created, next>>
        /\ phase[w] = "idle" /\ \A v \in Contexts \ {w} : phase'[v] = phase[v] /\ job'[v] = job[v]
    BY <1>1, BeginFacts DEF Begin, poolVars
  <2>2. cmdBufs[w] = <<>>
    BY <2>1 DEF LoopInv, LoopAt
  <2> QED  BY <2>1, <2>2, PoolKept DEF TaskAt
<1>2. ASSUME NEW w \in Contexts, Wake(w) \/ Write(w) \/ Submit(w) \/ Wait(w) \/ Judge(w)
      PROVE  FileInv' /\ PoolExclusive'
  <2>1. UNCHANGED <<cmdBufs, free, created>>
    BY <1>2 DEF Wake, Write, Submit, Wait, Judge, poolVars
  <2>2. Continues(w) /\ UNCHANGED job
    BY <1>2, WorkerContinues DEF Continues
  <2>3. \A v \in Contexts : \A i \in DOMAIN cmdBufs[v] : i \in Nat
    BY BufferFacts
  <2> QED  BY <2>1, <2>2, <2>3, TaskAtKept, PoolKept
<1>3. ASSUME NEW w \in Contexts, Allocate(w)
      PROVE  FileInv' /\ PoolExclusive'
  <2> DEFINE c == Targets(w)[next[w]]
             b == NextBuffer(c)
  <2>1. /\ phase[w] = "allocate" /\ c \in Contexts /\ next[w] \in Nat \ {0}
        /\ Len(cmdBufs[w]) = next[w] - 1
    BY <1>3, LoopFacts DEF Allocate, LoopInv, LoopAt
  <2>2. TakeBuffer(c) /\ cmdBufs' = [cmdBufs EXCEPT ![w] = Append(@, b)]
    BY <1>3 DEF Allocate
  <2>3. Continues(w) /\ UNCHANGED job /\ phase'[w] # "drop"
    BY <1>3, <2>1, WorkerContinues, WorkerMoves DEF Continues
  <2>4. Targets(w)' = Targets(w) /\ Targets(w)[next[w]] = c
    BY <2>1, <2>3, TargetsKept
  <2> HIDE DEF c
  <2>5. /\ b \in Buffers /\ b[1] = c
        /\ free' \in [Contexts -> Seq(Buffers)]
        /\ \A e \in Contexts : \A i \in DOMAIN free[e] : free[e][i][1] = e
    <3>1. \A e \in Contexts : \A i \in DOMAIN free[e] : free[e][i][1] = e
      BY DEF PoolExclusive
    <3> QED  BY <2>1, <2>2, <3>1, TakeFacts
  <2>6. /\ \A v \in Contexts : \A i \in DOMAIN cmdBufs[v] : cmdBufs[v][i] # b
        /\ \A e \in Contexts : \A i \in DOMAIN free'[e] :
             i \in DOMAIN free[e] /\ free'[e][i] = free[e][i] /\ free'[e][i] # b
        /\ \A e \in Contexts : created[e] \in Nat /\ created'[e] \in Nat /\ created'[e] >= created[e]
        /\ b[2] \in Nat /\ b[2] <= created'[c]
    BY <2>1, <2>2, TakeFresh
  <2> HIDE DEF b
  <2>7. /\ \A v \in Contexts \ {w} : cmdBufs'[v] = cmdBufs[v]
        /\ DOMAIN cmdBufs[w] = 1 .. next[w] - 1 /\ DOMAIN cmdBufs'[w] = 1 .. next[w]
        /\ \A i \in 1 .. next[w] - 1 : cmdBufs'[w][i] = cmdBufs[w][i]
        /\ cmdBufs'[w][next[w]] = b
    <3>1. cmdBufs \in [Contexts -> Seq(Buffers)] /\ cmdBufs[w] \in Seq(Buffers)
      BY DEF TypeOK
    <3>2. /\ DOMAIN Append(cmdBufs[w], b) = 1 .. Len(cmdBufs[w]) + 1
          /\ \A i \in 1 .. Len(cmdBufs[w]) : Append(cmdBufs[w], b)[i] = cmdBufs[w][i]
          /\ Append(cmdBufs[w], b)[Len(cmdBufs[w]) + 1] = b
      BY <2>5, <3>1, AppendFacts
    <3>3. /\ cmdBufs'[w] = Append(cmdBufs[w], b) /\ \A v \in Contexts \ {w} : cmdBufs'[v] = cmdBufs[v]
          /\ DOMAIN cmdBufs[w] = 1 .. Len(cmdBufs[w]) /\ Len(cmdBufs[w]) + 1 = next[w]
      BY <2>1, <2>2, <3>1
    <3> QED  BY <2>1, <3>2, <3>3
  <2>8. \A v \in Contexts : \A i \in DOMAIN cmdBufs'[v] :
          \/ i \in DOMAIN cmdBufs[v] /\ cmdBufs'[v][i] = cmdBufs[v][i]
          \/ v = w /\ i = next[w] /\ cmdBufs'[v][i] = b
    BY <2>1, <2>7
  <2>9. \A x \in PooledBuffers' : x \in PooledBuffers /\ x # b
    BY <2>6 DEF PooledBuffers
  <2>10. PoolExclusive'
    <3>1. \A v \in Contexts : \A i, j \in DOMAIN cmdBufs'[v] : cmdBufs'[v][i] = cmdBufs'[v][j] => i = j
      BY <2>6, <2>8 DEF PoolExclusive
    <3>2. \A u, v \in Contexts : u # v =>
            \A i \in DOMAIN cmdBufs'[u], j \in DOMAIN cmdBufs'[v] : cmdBufs'[u][i] # cmdBufs'[v][j]
      BY <2>6, <2>8 DEF PoolExclusive
    <3>3. \A e \in Contexts : \A i, j \in DOMAIN free'[e] : free'[e][i] = free'[e][j] => i = j
      BY <2>6 DEF PoolExclusive
    <3>4. \A e \in Contexts : \A i \in DOMAIN free'[e] : free'[e][i][1] = e
      BY <2>5, <2>6
    <3>5. \A v \in Contexts : \A i \in DOMAIN cmdBufs'[v] : cmdBufs'[v][i] \notin PooledBuffers'
      BY <2>8, <2>9 DEF PoolExclusive
    <3> QED  BY <3>1, <3>2, <3>3, <3>4, <3>5 DEF PoolExclusive
  <2>11. FileInv'
    <3>1. ASSUME NEW v \in Contexts, NEW i \in DOMAIN cmdBufs[v]
          PROVE  /\ cmdBufs[v][i][1] = Targets(v)'[TaskAt(v, i)']
                 /\ cmdBufs[v][i][2] <= created'[cmdBufs[v][i][1]]
      <4>1. phase[v] # "idle" /\ i \in Nat
        BY <3>1, BufferFacts DEF LoopInv, LoopAt
      <4>2. Targets(v)' = Targets(v) /\ TaskAt(v, i)' = TaskAt(v, i)
        BY <2>3, <4>1, TargetsKept, TaskAtKept
      <4>3. /\ cmdBufs[v][i][1] = Targets(v)[TaskAt(v, i)]
            /\ cmdBufs[v][i][2] <= created[cmdBufs[v][i][1]]
        BY DEF FileInv
      <4>4. cmdBufs[v][i][1] \in Contexts /\ cmdBufs[v][i][2] \in Nat
        BY BufferFacts
      <4> QED  BY <2>6, <4>2, <4>3, <4>4
    <3>2. ASSUME NEW i, i = next[w]
          PROVE  b[1] = Targets(w)'[TaskAt(w, i)'] /\ b[2] <= created'[b[1]]
      <4>1. TaskAt(w, i)' = i
        BY <2>3 DEF TaskAt
      <4> QED  BY <2>4, <2>5, <2>6, <3>2, <4>1
    <3>4. ASSUME NEW v \in Contexts, NEW i \in DOMAIN cmdBufs'[v]
          PROVE  /\ cmdBufs'[v][i][1] = Targets(v)'[TaskAt(v, i)']
                 /\ cmdBufs'[v][i][2] <= created'[cmdBufs'[v][i][1]]
      <4>1. CASE i \in DOMAIN cmdBufs[v] /\ cmdBufs'[v][i] = cmdBufs[v][i]
        BY <3>1, <4>1
      <4>2. CASE v = w /\ i = next[w] /\ cmdBufs'[v][i] = b
        BY <3>2, <4>2
      <4> QED  BY <2>8, <4>1, <4>2
    <3>5. \A e \in Contexts : \A i \in DOMAIN free'[e] : free'[e][i][2] <= created'[e]
      <4>1. \A e \in Contexts : \A i \in DOMAIN free[e] :
              free[e][i][2] <= created[e] /\ free[e][i][2] \in Nat
        BY FreeFacts DEF FileInv
      <4> QED  BY <2>6, <4>1
    <3> QED  BY <3>4, <3>5 DEF FileInv
  <2> QED  BY <2>10, <2>11
<1>4. ASSUME NEW w \in Contexts, Drop(w)
      PROVE  FileInv' /\ PoolExclusive'
  <2>1. /\ phase[w] = "drop" /\ created' = created
        /\ \A v \in Contexts \ {w} : /\ phase'[v] = phase[v] /\ job'[v] = job[v]
                                     /\ next'[v] = next[v] /\ cmdBufs'[v] = cmdBufs[v]
        /\ \/ /\ cmdBufs[w] # <<>> /\ cmdBufs'[w] = Tail(cmdBufs[w])
              /\ phase' = phase /\ job' = job /\ next'[w] = next[w] + 1
              /\ GiveBuffer(Head(cmdBufs[w]), Targets(w)[next[w]])
           \/ cmdBufs[w] = <<>> /\ cmdBufs' = cmdBufs /\ free' = free
    BY <1>4, DropFacts
  <2>2. CASE cmdBufs[w] = <<>>
    BY <2>1, <2>2, PoolKept DEF TaskAt
  <2>3. CASE cmdBufs[w] # <<>>
    <3> DEFINE b == cmdBufs[w][1]
               c == Targets(w)[next[w]]
    <3>1. /\ DOMAIN cmdBufs[w] = 1 .. Len(cmdBufs[w]) /\ Len(cmdBufs[w]) \in Nat \ {0}
          /\ DOMAIN cmdBufs'[w] = 1 .. Len(cmdBufs[w]) - 1
          /\ \A i \in 1 .. Len(cmdBufs[w]) - 1 : cmdBufs'[w][i] = cmdBufs[w][i + 1]
          /\ Head(cmdBufs[w]) = b
      <4>1. cmdBufs[w] \in Seq(Buffers)
        BY DEF TypeOK
      <4>2. cmdBufs'[w] = Tail(cmdBufs[w])
        BY <2>1, <2>3
      <4>3. DOMAIN cmdBufs[w] = 1 .. Len(cmdBufs[w])
        BY <4>1
      <4> QED  BY <2>3, <4>1, <4>2, <4>3, TailFacts
    <3>2. 1 \in DOMAIN cmdBufs[w] /\ next[w] \in Nat \ {0}
      BY <3>1 DEF TypeOK
    <3>3. b \in Buffers /\ b[1] = c /\ b[1] \in Contexts /\ b[2] <= created[b[1]]
      <4>1. b[1] = Targets(w)[TaskAt(w, 1)] /\ b[2] <= created[b[1]]
        BY <3>2 DEF FileInv
      <4>2. TaskAt(w, 1) = next[w]
        BY <2>1, <3>2 DEF TaskAt
      <4> QED  BY <3>2, <4>1, <4>2, BufferFacts
    <3>4. GiveBuffer(b, c)
      BY <2>1, <2>3, <3>1
    <3> HIDE DEF b, c
    <3>5. /\ \A e \in Contexts \ {c} : free'[e] = free[e]
          /\ \/ free'[c] = free[c]
             \/ /\ Len(free[c]) \in Nat
                /\ DOMAIN free[c] = 1 .. Len(free[c])
                /\ DOMAIN free'[c] = 1 .. Len(free[c]) + 1
                /\ \A i \in 1 .. Len(free[c]) : free'[c][i] = free[c][i]
                /\ free'[c][Len(free[c]) + 1] = b
      BY <3>3, <3>4, GiveFacts
    <3>6. \A e \in Contexts : \A i \in DOMAIN free'[e] :
            \/ i \in DOMAIN free[e] /\ free'[e][i] = free[e][i]
            \/ e = c /\ i = Len(free[c]) + 1 /\ free'[e][i] = b
      BY <3>5
    <3>7. \A e \in Contexts : \A i \in DOMAIN free[e] : free[e][i] # b
      BY <3>2, FreeFacts DEF PoolExclusive, b
    <3>8. \A v \in Contexts : \A i \in DOMAIN cmdBufs'[v] :
            \/ v # w /\ i \in DOMAIN cmdBufs[v] /\ cmdBufs'[v][i] = cmdBufs[v][i]
            \/ v = w /\ i + 1 \in DOMAIN cmdBufs[v] /\ cmdBufs'[v][i] = cmdBufs[v][i + 1] /\ i \in Nat
               /\ i + 1 # 1
      <4>1. \A i \in DOMAIN cmdBufs'[w] : /\ i + 1 \in DOMAIN cmdBufs[w] /\ i \in Nat /\ i + 1 # 1
                                          /\ cmdBufs'[w][i] = cmdBufs[w][i + 1]
        BY <3>1
      <4> QED  BY <2>1, <4>1
    <3>9. \A v \in Contexts : \A i \in DOMAIN cmdBufs'[v] : cmdBufs'[v][i] # b
      BY <3>2, <3>8 DEF PoolExclusive, b
    <3>10. \A x \in PooledBuffers' : x \in PooledBuffers \/ x = b
      BY <3>6 DEF PooledBuffers
    <3>11. PoolExclusive'
      <4>1. \A v \in Contexts : \A i, j \in DOMAIN cmdBufs'[v] :
              cmdBufs'[v][i] = cmdBufs'[v][j] => i = j
        <5> SUFFICES ASSUME NEW v \in Contexts, NEW i \in DOMAIN cmdBufs'[v],
                            NEW j \in DOMAIN cmdBufs'[v], cmdBufs'[v][i] = cmdBufs'[v][j]
                     PROVE  i = j
          OBVIOUS
        <5>1. CASE v # w
          BY <2>1, <5>1 DEF PoolExclusive
        <5>2. CASE v = w
          <6>1. i + 1 = j + 1 /\ i \in Nat /\ j \in Nat
            BY <3>8, <5>2 DEF PoolExclusive
          <6> QED  BY <6>1
        <5> QED  BY <5>1, <5>2
      <4>2. \A u, v \in Contexts : u # v =>
              \A i \in DOMAIN cmdBufs'[u], j \in DOMAIN cmdBufs'[v] : cmdBufs'[u][i] # cmdBufs'[v][j]
        BY <3>8 DEF PoolExclusive
      <4>3. \A e \in Contexts : \A i, j \in DOMAIN free'[e] : free'[e][i] = free'[e][j] => i = j
        BY <3>6, <3>7 DEF PoolExclusive
      <4>4. \A e \in Contexts : \A i \in DOMAIN free'[e] : free'[e][i][1] = e
        BY <3>3, <3>6 DEF PoolExclusive
      <4>5. \A v \in Contexts : \A i \in DOMAIN cmdBufs'[v] : cmdBufs'[v][i] \notin PooledBuffers'
        BY <3>8, <3>9, <3>10 DEF PoolExclusive
      <4> QED  BY <4>1, <4>2, <4>3, <4>4, <4>5 DEF PoolExclusive
    <3>12. FileInv'
      <4>1. \A v \in Contexts : phase[v] # "idle" => Targets(v)' = Targets(v)
        BY <2>1, <2>3, TargetsKept
      <4>2. ASSUME NEW v \in Contexts, NEW i \in DOMAIN cmdBufs'[v]
            PROVE  /\ cmdBufs'[v][i][1] = Targets(v)'[TaskAt(v, i)']
                   /\ cmdBufs'[v][i][2] <= created'[cmdBufs'[v][i][1]]
        <5>1. CASE v # w
          <6>1. i \in DOMAIN cmdBufs[v] /\ cmdBufs'[v] = cmdBufs[v] /\ TaskAt(v, i)' = TaskAt(v, i)
            BY <2>1, <4>2, <5>1 DEF TaskAt
          <6>2. phase[v] # "idle"
            BY <6>1 DEF LoopInv, LoopAt
          <6> QED  BY <2>1, <4>1, <6>1, <6>2 DEF FileInv
        <5>2. CASE v = w
          <6>1. i + 1 \in DOMAIN cmdBufs[w] /\ cmdBufs'[w][i] = cmdBufs[w][i + 1] /\ i \in Nat
            BY <3>8, <4>2, <5>2
          <6>2. TaskAt(w, i)' = TaskAt(w, i + 1)
            BY <2>1, <2>3, <3>2, <6>1 DEF TaskAt
          <6>3. Targets(w)' = Targets(w)
            BY <2>1, <4>1
          <6> QED  BY <2>1, <5>2, <6>1, <6>2, <6>3 DEF FileInv
        <5> QED  BY <5>1, <5>2
      <4>3. \A e \in Contexts : \A i \in DOMAIN free'[e] : free'[e][i][2] <= created'[e]
        BY <2>1, <3>3, <3>6 DEF FileInv
      <4> QED  BY <4>2, <4>3 DEF FileInv
    <3> QED  BY <3>11, <3>12
  <2> QED  BY <2>2, <2>3
<1>5. ASSUME Outside
      PROVE  FileInv' /\ PoolExclusive'
  <2>1. UNCHANGED <<phase, job, next, cmdBufs, free, created>>
    BY <1>5, OutsideFrame DEF poolVars
  <2> QED  BY <2>1, PoolKept DEF TaskAt
<1> QED  BY <1>1, <1>2, <1>3, <1>4, <1>5 DEF Next, WorkerStep, Outside

-----------------------------------------------------------------------------
(* Tasks in flight.                                                        *)

\* The fields of a task, and its dispatch's plan.
LEMMA TaskFacts ==
  ASSUME TypeOK, NEW t \in Tasks, t.dispatch <= begun
  PROVE  /\ t.dispatch \in Dispatches /\ t.dispatch \in Nat \ {0} /\ t.dispatch \in 1 .. begun
         /\ t.index \in Nat \ {0} /\ t.bo \in Buffers /\ t.mode \in Modes
         /\ plan[t.dispatch].targets \in Seq(Contexts) /\ plan[t.dispatch].tiles \in Nat
         /\ Len(plan[t.dispatch].targets) \in Nat
         /\ DOMAIN plan[t.dispatch].targets = 1 .. Len(plan[t.dispatch].targets)
<1>1. t.dispatch \in Dispatches /\ t.index \in Nat \ {0} /\ t.bo \in Buffers /\ t.mode \in Modes
  BY DEF Tasks
<1>2. begun \in 0 .. NumDispatches
  BY DEF TypeOK
<1>3. t.dispatch \in Nat \ {0} /\ t.dispatch \in 1 .. begun
  BY <1>1, <1>2, Bounds DEF Dispatches
<1>4. plan[t.dispatch] \in Plans
  BY <1>1 DEF TypeOK
<1>5. plan[t.dispatch].targets \in Seq(Contexts) /\ plan[t.dispatch].tiles \in Nat
  BY <1>4 DEF Plans
<1>6. /\ Len(plan[t.dispatch].targets) \in Nat
      /\ DOMAIN plan[t.dispatch].targets = 1 .. Len(plan[t.dispatch].targets)
  BY <1>5
<1> QED  BY <1>1, <1>3, <1>5, <1>6

\* Where tasks in flight are.
LEMMA FlightPlaces ==
  ASSUME NEW t
  PROVE  t \in InFlight <=> \/ \E k \in Cores : running[k] # Idle /\ t = running[k]
                            \/ \E c \in Contexts : \E i \in DOMAIN pending[c] : t = pending[c][i]
BY DEF InFlight

\* The new task of worker w.
NewTask(w) == [dispatch |-> job[w], index |-> next[w], mode |-> TaskMode(w, next[w]),
               bo |-> cmdBufs[w][next[w]]]

\* SUBMIT appends one task to the queue of its file, and only SUBMIT does.
LEMMA SubmitFlight ==
  ASSUME TypeOK, JobInv, PlanInv, LoopInv, NEW w \in Contexts, Submit(w), pending' # pending
  PROVE  LET c == Targets(w)[next[w]] IN
         /\ c \in Contexts /\ NewTask(w) \in Tasks
         /\ phase'[w] \in {"submit", "wait"} /\ (phase'[w] = "submit" => next'[w] = next[w] + 1)
         /\ outcome' = outcome /\ running' = running
         /\ DOMAIN pending[c] = 1 .. Len(pending[c]) /\ Len(pending[c]) \in Nat
         /\ DOMAIN pending'[c] = 1 .. Len(pending[c]) + 1
         /\ \A i \in DOMAIN pending[c] : pending'[c][i] = pending[c][i]
         /\ pending'[c][Len(pending[c]) + 1] = NewTask(w)
         /\ \A e \in Contexts \ {c} : pending'[e] = pending[e]
         /\ \A t : t \in InFlight' <=> t \in InFlight \/ t = NewTask(w)
<1> DEFINE c == Targets(w)[next[w]]
<1>1. phase[w] = "submit" /\ c \in Contexts
  BY LoopFacts DEF Submit
<1>2. NewTask(w) \in Tasks
  BY <1>1, TaskType DEF NewTask
<1>3. /\ pending' = [pending EXCEPT ![c] = Append(@, NewTask(w))] /\ Advance(w, "wait")
      /\ outcome' = outcome /\ running' = running
  BY DEF Submit, NewTask
<1>4. phase'[w] \in {"submit", "wait"} /\ (phase'[w] = "submit" => next'[w] = next[w] + 1)
  <2>1. next[w] <= Len(Targets(w)) /\ "wait" \in Phases
    BY <1>1, LoopFacts DEF Phases
  <2> QED  BY <1>1, <1>3, <2>1, AdvanceTurns
<1> HIDE DEF c
<1>5. pending \in [Contexts -> Seq(Tasks)] /\ pending[c] \in Seq(Tasks)
  BY <1>1 DEF TypeOK
<1>6. /\ DOMAIN pending[c] = 1 .. Len(pending[c]) /\ Len(pending[c]) \in Nat
      /\ pending'[c] = Append(pending[c], NewTask(w))
      /\ \A e \in Contexts \ {c} : pending'[e] = pending[e]
  BY <1>1, <1>3, <1>5
<1>7. /\ DOMAIN pending'[c] = 1 .. Len(pending[c]) + 1
      /\ \A i \in DOMAIN pending[c] : pending'[c][i] = pending[c][i]
      /\ pending'[c][Len(pending[c]) + 1] = NewTask(w)
  BY <1>2, <1>5, <1>6, AppendFacts
<1>8. ASSUME NEW t
      PROVE  t \in InFlight' <=> t \in InFlight \/ t = NewTask(w)
  <2>1. ASSUME t \in InFlight'
        PROVE  t \in InFlight \/ t = NewTask(w)
    <3>1. CASE \E k \in Cores : running'[k] # Idle /\ t = running'[k]
      BY <1>3, <3>1, FlightPlaces
    <3>2. CASE \E e \in Contexts : \E i \in DOMAIN pending'[e] : t = pending'[e][i]
      <4>1. PICK e \in Contexts : \E i \in DOMAIN pending'[e] : t = pending'[e][i]
        BY <3>2
      <4>2. PICK i \in DOMAIN pending'[e] : t = pending'[e][i]
        BY <4>1
      <4>3. CASE e # c
        BY <1>6, <4>2, <4>3, FlightPlaces
      <4>4. CASE e = c
        <5>1. i = Len(pending[c]) + 1 \/ i \in DOMAIN pending[c]
          BY <1>6, <1>7, <4>4
        <5> QED  BY <1>1, <1>7, <4>2, <4>4, <5>1, FlightPlaces
      <4> QED  BY <4>3, <4>4
    <3> QED  BY <2>1, <3>1, <3>2 DEF InFlight
  <2>2. ASSUME t = NewTask(w)
        PROVE  t \in InFlight'
    <3>1. Len(pending[c]) + 1 \in DOMAIN pending'[c]
      BY <1>6, <1>7
    <3> QED  BY <1>1, <1>7, <2>2, <3>1 DEF InFlight
  <2>3. ASSUME t \in InFlight
        PROVE  t \in InFlight'
    <3>1. CASE \E k \in Cores : running[k] # Idle /\ t = running[k]
      BY <1>3, <3>1 DEF InFlight
    <3>2. CASE \E e \in Contexts : \E i \in DOMAIN pending[e] : t = pending[e][i]
      <4>1. PICK e \in Contexts : \E i \in DOMAIN pending[e] : t = pending[e][i]
        BY <3>2
      <4>2. PICK i \in DOMAIN pending[e] : t = pending[e][i]
        BY <4>1
      <4>3. i \in DOMAIN pending'[e] /\ pending'[e][i] = t
        BY <1>6, <1>7, <4>2
      <4> QED  BY <4>3 DEF InFlight
    <3> QED  BY <2>3, <3>1, <3>2, FlightPlaces
  <2> QED  BY <2>1, <2>2, <2>3
<1> QED  BY <1>1, <1>2, <1>3, <1>4, <1>6, <1>7, <1>8 DEF c

\* The scheduler moves the head of a queue to a core: the same tasks are in flight.
LEMMA StartFlight ==
  ASSUME TypeOK, NEW k \in Cores, NEW c \in Contexts, Start(k, c)
  PROVE  /\ DOMAIN pending[c] = 1 .. Len(pending[c]) /\ Len(pending[c]) \in Nat \ {0}
         /\ DOMAIN pending'[c] = 1 .. Len(pending[c]) - 1
         /\ \A i \in DOMAIN pending'[c] : /\ pending'[c][i] = pending[c][i + 1]
                                          /\ i + 1 \in DOMAIN pending[c] /\ i \in Nat /\ 1 < i + 1
         /\ \A e \in Contexts \ {c} : pending'[e] = pending[e]
         /\ 1 \in DOMAIN pending[c]
         /\ running[k] = Idle /\ running'[k] = pending[c][1] /\ running'[k] # Idle
         /\ \A l \in Cores \ {k} : running'[l] = running[l]
         /\ \A t : t \in InFlight' <=> t \in InFlight
<1>1. /\ pending \in [Contexts -> Seq(Tasks)] /\ pending[c] \in Seq(Tasks) /\ pending[c] # <<>>
      /\ running \in [Cores -> Tasks \cup {Idle}] /\ running[k] = Idle
  BY DEF TypeOK, Start
<1>2. /\ Tail(pending[c]) \in Seq(Tasks) /\ Len(pending[c]) \in Nat \ {0}
      /\ DOMAIN Tail(pending[c]) = 1 .. Len(pending[c]) - 1
      /\ \A i \in 1 .. Len(pending[c]) - 1 : Tail(pending[c])[i] = pending[c][i + 1]
      /\ Head(pending[c]) = pending[c][1]
  BY <1>1, TailFacts
<1>3. /\ pending'[c] = Tail(pending[c]) /\ \A e \in Contexts \ {c} : pending'[e] = pending[e]
      /\ running'[k] = pending[c][1] /\ \A l \in Cores \ {k} : running'[l] = running[l]
  BY <1>1, <1>2 DEF Start
<1>4. DOMAIN pending[c] = 1 .. Len(pending[c]) /\ 1 \in DOMAIN pending[c]
  BY <1>1, <1>2
<1>5. \A i \in DOMAIN pending'[c] : /\ pending'[c][i] = pending[c][i + 1]
                                    /\ i + 1 \in DOMAIN pending[c] /\ i \in Nat /\ 1 < i + 1
  BY <1>2, <1>3, <1>4
<1>6. pending[c][1] # Idle
  BY <1>4, FlightPlaces, FlightType
<1>7. \A i \in DOMAIN pending[c] : i = 1 \/ \E j \in DOMAIN pending'[c] : j + 1 = i
  <2> SUFFICES ASSUME NEW i \in DOMAIN pending[c], i # 1
               PROVE  i - 1 \in DOMAIN pending'[c] /\ (i - 1) + 1 = i
    OBVIOUS
  <2> QED  BY <1>2, <1>3, <1>4
<1>8. ASSUME NEW t
      PROVE  t \in InFlight' <=> t \in InFlight
  <2>1. ASSUME t \in InFlight'
        PROVE  t \in InFlight
    <3>1. CASE \E l \in Cores : running'[l] # Idle /\ t = running'[l]
      BY <1>3, <1>4, <3>1, FlightPlaces
    <3>2. CASE \E e \in Contexts : \E i \in DOMAIN pending'[e] : t = pending'[e][i]
      <4>1. PICK e \in Contexts : \E i \in DOMAIN pending'[e] : t = pending'[e][i]
        BY <3>2
      <4>2. PICK i \in DOMAIN pending'[e] : t = pending'[e][i]
        BY <4>1
      <4>3. CASE e # c
        BY <1>3, <4>2, <4>3, FlightPlaces
      <4>4. CASE e = c
        BY <1>5, <4>2, <4>4, FlightPlaces
      <4> QED  BY <4>3, <4>4
    <3> QED  BY <2>1, <3>1, <3>2 DEF InFlight
  <2>2. ASSUME t \in InFlight
        PROVE  t \in InFlight'
    <3>1. CASE \E l \in Cores : running[l] # Idle /\ t = running[l]
      <4>1. PICK l \in Cores : running[l] # Idle /\ t = running[l]
        BY <3>1
      <4>2. l # k /\ running'[l] = t
        BY <1>1, <1>3, <4>1
      <4> QED  BY <4>1, <4>2 DEF InFlight
    <3>2. CASE \E e \in Contexts : \E i \in DOMAIN pending[e] : t = pending[e][i]
      <4>1. PICK e \in Contexts : \E i \in DOMAIN pending[e] : t = pending[e][i]
        BY <3>2
      <4>2. PICK i \in DOMAIN pending[e] : t = pending[e][i]
        BY <4>1
      <4>3. CASE e # c
        BY <1>3, <4>2, <4>3 DEF InFlight
      <4>4. CASE e = c /\ i = 1
        BY <1>3, <1>6, <4>2, <4>4 DEF InFlight
      <4>5. CASE e = c /\ i # 1
        <5>1. PICK j \in DOMAIN pending'[c] : j + 1 = i
          BY <1>7, <4>2, <4>5
        <5> QED  BY <1>5, <4>2, <4>5, <5>1 DEF InFlight
      <4> QED  BY <4>3, <4>4, <4>5
    <3> QED  BY <2>2, <3>1, <3>2, FlightPlaces
  <2> QED  BY <2>1, <2>2
<1> QED  BY <1>1, <1>2, <1>3, <1>4, <1>5, <1>6, <1>8

\* A fence takes one task out of flight.
LEMMA SignalFlight ==
  ASSUME TypeOK, NEW k \in Cores, Signal(k)
  PROVE  /\ running[k] # Idle /\ running[k] \in InFlight /\ pending' = pending
         /\ running'[k] = Idle /\ \A l \in Cores \ {k} : running'[l] = running[l]
         /\ done' = done \cup {<<running[k].dispatch, running[k].index>>}
         /\ \A t \in InFlight : t \in InFlight' \/ t = running[k]
         /\ \A t \in InFlight' :
              \/ \E l \in Cores \ {k} : running[l] # Idle /\ t = running[l]
              \/ \E c \in Contexts : \E i \in DOMAIN pending[c] : t = pending[c][i]
         /\ InFlight' \subseteq InFlight
<1>1. running \in [Cores -> Tasks \cup {Idle}]
  BY DEF TypeOK
<1>2. /\ running[k] # Idle /\ pending' = pending
      /\ running'[k] = Idle /\ \A l \in Cores \ {k} : running'[l] = running[l]
      /\ done' = done \cup {<<running[k].dispatch, running[k].index>>}
  BY <1>1 DEF Signal
<1>3. running[k] \in InFlight
  BY <1>2, FlightPlaces
<1>4. \A t \in InFlight' :
        \/ \E l \in Cores \ {k} : running[l] # Idle /\ t = running[l]
        \/ \E c \in Contexts : \E i \in DOMAIN pending[c] : t = pending[c][i]
  <2> SUFFICES ASSUME NEW t \in InFlight'
               PROVE  \/ \E l \in Cores \ {k} : running[l] # Idle /\ t = running[l]
                      \/ \E c \in Contexts : \E i \in DOMAIN pending[c] : t = pending[c][i]
    OBVIOUS
  <2>1. CASE \E l \in Cores : running'[l] # Idle /\ t = running'[l]
    BY <1>2, <2>1
  <2>2. CASE \E c \in Contexts : \E i \in DOMAIN pending'[c] : t = pending'[c][i]
    BY <1>2, <2>2
  <2> QED  BY <2>1, <2>2 DEF InFlight
<1>5. \A t \in InFlight : t \in InFlight' \/ t = running[k]
  <2> SUFFICES ASSUME NEW t \in InFlight, t # running[k]
               PROVE  t \in InFlight'
    OBVIOUS
  <2>1. CASE \E l \in Cores : running[l] # Idle /\ t = running[l]
    <3>1. PICK l \in Cores : running[l] # Idle /\ t = running[l]
      BY <2>1
    <3>2. running'[l] # Idle /\ t = running'[l]
      BY <1>2, <3>1
    <3> QED  BY <3>2 DEF InFlight
  <2>2. CASE \E c \in Contexts : \E i \in DOMAIN pending[c] : t = pending[c][i]
    BY <1>2, <2>2 DEF InFlight
  <2> QED  BY <2>1, <2>2, FlightPlaces
<1>6. InFlight' \subseteq InFlight
  BY <1>4, FlightPlaces
<1> QED  BY <1>2, <1>3, <1>4, <1>5, <1>6

\* Every other step leaves the tasks in flight alone.
LEMMA FlightKept ==
  ASSUME UNCHANGED <<pending, running>>
  PROVE  InFlight' = InFlight
BY DEF InFlight

\* Only SUBMIT puts a task in flight.
LEMMA FlightGrows ==
  ASSUME TypeOK, JobInv, PlanInv, LoopInv, Next, NEW t \in InFlight', t \notin InFlight
  PROVE  \E w \in Contexts : Submit(w) /\ t = NewTask(w)
<1>1. PICK w \in Contexts : Submit(w) /\ pending' # pending
  <2>1. \A k \in Cores, c \in Contexts : Start(k, c) => t \in InFlight
    BY StartFlight
  <2>2. \A k \in Cores : Signal(k) => t \in InFlight
    BY SignalFlight
  <2>3. UNCHANGED <<pending, running>> => t \in InFlight
    BY FlightKept
  <2> QED  BY <2>1, <2>2, <2>3
           DEF Next, WorkerStep, Begin, Wake, Allocate, Write, Submit, Wait, Judge, Drop,
               Complete, Kill, Tick, hwVars
<1>2. t = NewTask(w)
  BY <1>1, SubmitFlight
<1> QED  BY <1>1, <1>2

\* A task that was submitted stays submitted.
LEMMA PostedKept ==
  ASSUME TypeOK, JobInv, PlanInv, LoopInv, Next, NEW d \in 1 .. begun, NEW i \in Nat, Posted(d, i)
  PROVE  Posted(d, i)'
<1> SUFFICES ASSUME NEW v \in Contexts, job'[v] = d
             PROVE  /\ phase'[v] \in {"submit", "wait", "judge", "drop"}
                    /\ phase'[v] = "submit" => i < next'[v]
  BY DEF Posted
<1>1. ASSUME job[v] = d, phase'[v] = phase[v], next'[v] = next[v]
      PROVE  /\ phase'[v] \in {"submit", "wait", "judge", "drop"}
             /\ phase'[v] = "submit" => i < next'[v]
  BY <1>1 DEF Posted
<1>2. ASSUME NEW w \in Contexts, NEW shape \in Shapes, Begin(w, shape)
      PROVE  job[v] = d /\ phase'[v] = phase[v] /\ next'[v] = next[v]
  <2>1. /\ begun \in Nat /\ job'[w] = begun + 1 /\ next' = next
        /\ \A u \in Contexts \ {w} : phase'[u] = phase[u] /\ job'[u] = job[u]
    BY <1>2, BeginFacts DEF Begin
  <2>2. v # w
    BY <2>1
  <2> QED  BY <2>1, <2>2
<1>3. ASSUME NEW w \in Contexts,
             Wake(w) \/ Allocate(w) \/ Write(w) \/ Submit(w) \/ Wait(w) \/ Judge(w)
      PROVE  /\ phase'[v] \in {"submit", "wait", "judge", "drop"}
             /\ phase'[v] = "submit" => i < next'[v]
  <2>1. Continues(w)
    BY <1>3, WorkerContinues
  <2>2. job[v] = d
    BY <2>1 DEF Continues
  <2>3. CASE v # w
    BY <1>1, <2>1, <2>2, <2>3 DEF Continues, Turns
  <2>4. CASE v = w
    <3>1. phase[w] \in {"submit", "wait", "judge", "drop"} /\ (phase[w] = "submit" => i < next[w])
      BY <2>2, <2>4 DEF Posted
    <3>2. Submit(w) \/ Wait(w) \/ Judge(w)
      BY <1>3, <3>1 DEF Wake, Allocate, Write
    <3>3. /\ phase'[w] \in {"submit", "wait", "judge", "drop"}
          /\ phase'[w] = "submit" =>
               phase[w] = "submit" /\ next'[w] = next[w] + 1 /\ next[w] \in Nat
      BY <3>2, WorkerMoves DEF Submit, Wait, Judge
    <3> QED  BY <2>4, <3>1, <3>3
  <2> QED  BY <2>3, <2>4
<1>4. ASSUME NEW w \in Contexts, Drop(w)
      PROVE  /\ phase'[v] \in {"submit", "wait", "judge", "drop"}
             /\ phase'[v] = "submit" => i < next'[v]
  <2>1. d # 0
    OBVIOUS
  <2> QED  BY <1>1, <1>4, <2>1, DropFacts
<1>5. ASSUME Outside
      PROVE  job[v] = d /\ phase'[v] = phase[v] /\ next'[v] = next[v]
  BY <1>5, OutsideFrame
<1> QED  BY <1>1, <1>2, <1>3, <1>4, <1>5 DEF Next, WorkerStep, Outside

\* A task in flight stays in flight until its fence signals.
LEMMA FlyingKept ==
  ASSUME TypeOK, JobInv, PlanInv, LoopInv, Next, NEW t \in Tasks, Flying(t),
         <<t.dispatch, t.index>> \notin done'
  PROVE  Flying(t)'
<1>1. t.dispatch <= begun /\ Posted(t.dispatch, t.index)
  BY DEF Flying
<1>2. t.dispatch \in 1 .. begun /\ t.index \in Nat /\ t.dispatch \in Nat
  BY <1>1, TaskFacts
<1>3. /\ begun' >= begun /\ begun \in Nat /\ begun' \in Nat
      /\ plan'[t.dispatch] = plan[t.dispatch]
  BY <1>2, PlanKept
<1>4. PICK d, i : d = t.dispatch /\ i = t.index
  OBVIOUS
<1>5. Posted(d, i)'
  BY <1>1, <1>2, <1>4, PostedKept
<1>6. t.dispatch <= begun'
  BY <1>2, <1>3, <1>1
<1> QED  BY <1>3, <1>4, <1>5, <1>6 DEF Flying

\* No other task in flight has the name of the one on core k.
LEMMA NamesApart ==
  ASSUME TypeOK, TaskInv, OrderInv, NEW k \in Cores, Signal(k), NEW t \in InFlight'
  PROVE  <<t.dispatch, t.index>> # <<running[k].dispatch, running[k].index>>
<1> DEFINE s == running[k]
<1>1. /\ s # Idle /\ s \in InFlight /\ t \in InFlight
      /\ \/ \E l \in Cores \ {k} : running[l] # Idle /\ t = running[l]
         \/ \E c \in Contexts : \E i \in DOMAIN pending[c] : t = pending[c][i]
  BY SignalFlight
<1>2. s \in Tasks /\ t \in Tasks /\ s.index \in Nat /\ s.dispatch <= begun
  BY <1>1, FlightType DEF TaskInv, Flying, Tasks
<1> SUFFICES ASSUME t.dispatch = s.dispatch, t.index = s.index
             PROVE  FALSE
  OBVIOUS
<1>3. FileOf(t) = FileOf(s)
  BY DEF FileOf
<1>4. CASE \E l \in Cores \ {k} : running[l] # Idle /\ t = running[l]
  BY <1>1, <1>3, <1>4 DEF OrderInv
<1>5. CASE \E c \in Contexts : \E i \in DOMAIN pending[c] : t = pending[c][i]
  <2>1. PICK c \in Contexts : \E i \in DOMAIN pending[c] : t = pending[c][i]
    BY <1>5
  <2>2. PICK i \in DOMAIN pending[c] : t = pending[c][i]
    BY <2>1
  <2>3. FileOf(s) = c
    BY <1>3, <2>2 DEF OrderInv
  <2>4. s.index < t.index
    BY <1>1, <2>2, <2>3 DEF OrderInv
  <2> QED  BY <1>2, <2>4
<1> QED  BY <1>1, <1>4, <1>5

\* A step keeps the tasks in flight tasks of dispatches that have posted them.
LEMMA TaskStep ==
  ASSUME TypeOK, JobInv, PlanInv, LoopInv, TaskInv, OrderInv, Next
  PROVE  TaskInv'
<1>1. ASSUME NEW x \in done
      PROVE  x[1] <= begun' /\ Posted(x[1], x[2])'
  <2>1. x[1] \in 1 .. begun /\ x[2] \in Nat /\ x[1] <= begun /\ Posted(x[1], x[2])
    <3>1. x \in Names
      BY DEF TypeOK
    <3>2. x[1] \in Dispatches /\ x[2] \in Nat
      BY <3>1 DEF Names
    <3>3. x[1] <= begun /\ Posted(x[1], x[2]) /\ begun \in Nat
      BY PlanKept DEF TaskInv
    <3> QED  BY <3>2, <3>3 DEF Dispatches
  <2>2. begun' >= begun /\ begun \in Nat /\ begun' \in Nat
    BY PlanKept
  <2>3. PICK d, i : d = x[1] /\ i = x[2]
    OBVIOUS
  <2>4. Posted(d, i)'
    BY <2>1, <2>3, PostedKept
  <2>5. x[1] <= begun'
    BY <2>1, <2>2
  <2> QED  BY <2>3, <2>4, <2>5
<1>2. ASSUME NEW t \in InFlight, <<t.dispatch, t.index>> \notin done'
      PROVE  Flying(t)'
  <2>1. t \in Tasks /\ Flying(t)
    BY FlightType DEF TaskInv
  <2> QED  BY <1>2, <2>1, FlyingKept
<1>3. ASSUME NEW t \in InFlight
      PROVE  <<t.dispatch, t.index>> \notin done
  BY DEF TaskInv, Flying
<1>4. ASSUME UNCHANGED <<pending, running, done>>
      PROVE  TaskInv'
  BY <1>1, <1>2, <1>3, <1>4, FlightKept DEF TaskInv
<1>5. ASSUME NEW w \in Contexts, Submit(w), pending' # pending
      PROVE  TaskInv'
  <2>1. /\ NewTask(w) \in Tasks
        /\ phase'[w] \in {"submit", "wait"} /\ (phase'[w] = "submit" => next'[w] = next[w] + 1)
        /\ \A t : t \in InFlight' <=> t \in InFlight \/ t = NewTask(w)
    BY <1>5, SubmitFlight
  <2>2. /\ phase[w] = "submit" /\ UNCHANGED <<begun, plan, done, job>>
    BY <1>5 DEF Submit
  <2>3. /\ job[w] \in Dispatches /\ job[w] <= begun /\ next[w] \in Nat \ {0}
        /\ next[w] <= Len(Targets(w))
    BY <2>2, WorkerFacts, LoopFacts DEF JobInv
  <2>4. <<job[w], next[w]>> \notin done
    <3> SUFFICES ASSUME <<job[w], next[w]>> \in done
                 PROVE  FALSE
      OBVIOUS
    <3>1. Posted(job[w], next[w])
      BY DEF TaskInv
    <3> QED  BY <2>2, <2>3, <3>1 DEF Posted
  <2>5. ASSUME NEW d, NEW i, d = job[w], i = next[w]
        PROVE  Posted(d, i)'
    <3>1. \A v \in Contexts : job'[v] = d => v = w
      BY <2>2, <2>3, <2>5 DEF JobInv, Dispatches
    <3> QED  BY <2>1, <2>3, <2>5, <3>1 DEF Posted
  <2>6. ASSUME NEW t, t = NewTask(w)
        PROVE  Flying(t)'
    <3>1. t.dispatch = job[w] /\ t.index = next[w] /\ t.mode = TaskMode(w, next[w])
      BY <2>6 DEF NewTask
    <3>2. PICK d, i : d = t.dispatch /\ i = t.index
      OBVIOUS
    <3>3. Posted(d, i)'
      BY <2>5, <3>1, <3>2
    <3>4. t.mode = IF t.index <= plan[t.dispatch].tiles THEN plan[t.dispatch].mode ELSE "other"
      BY <3>1 DEF TaskMode, Mode
    <3>5. t.index <= Len(plan[t.dispatch].targets)
      BY <2>3, <3>1 DEF Targets
    <3> QED  BY <2>2, <2>3, <2>4, <3>1, <3>2, <3>3, <3>4, <3>5 DEF Flying
  <2>7. \A t \in InFlight' : Flying(t)'
    BY <1>2, <1>3, <2>1, <2>2, <2>6
  <2> QED  BY <1>1, <2>2, <2>7 DEF TaskInv
<1>6. ASSUME NEW k \in Cores, NEW c \in Contexts, Start(k, c)
      PROVE  TaskInv'
  <2>1. done' = done
    BY <1>6 DEF Start
  <2>2. \A t : t \in InFlight' <=> t \in InFlight
    BY <1>6, StartFlight
  <2> QED  BY <1>1, <1>2, <1>3, <2>1, <2>2 DEF TaskInv
<1>7. ASSUME NEW k \in Cores, Signal(k)
      PROVE  TaskInv'
  <2>1. PICK s : /\ s = running[k]
                 /\ s \in InFlight /\ done' = done \cup {<<s.dispatch, s.index>>}
                 /\ InFlight' \subseteq InFlight
    BY <1>7, SignalFlight
  <2>2. \A t \in InFlight' : Flying(t)'
    BY <1>2, <1>3, <1>7, <2>1, NamesApart
  <2>3. s.dispatch <= begun' /\ Posted(s.dispatch, s.index)'
    <3>1. s \in Tasks /\ Flying(s)
      BY <2>1, FlightType DEF TaskInv
    <3>2. s.dispatch <= begun /\ Posted(s.dispatch, s.index)
      BY <3>1 DEF Flying
    <3>3. s.dispatch \in 1 .. begun /\ s.index \in Nat /\ s.dispatch \in Nat
      BY <3>1, <3>2, TaskFacts
    <3>4. begun' >= begun /\ begun \in Nat /\ begun' \in Nat
      BY PlanKept
    <3>5. s.dispatch <= begun'
      BY <3>2, <3>3, <3>4
    <3> QED  BY <3>2, <3>3, <3>5, PostedKept
  <2>4. \A x \in done' : x[1] <= begun' /\ Posted(x[1], x[2])'
    BY <1>1, <2>1, <2>3
  <2> QED  BY <2>2, <2>4 DEF TaskInv
<1>8. ASSUME NEW w \in Contexts, NEW shape \in Shapes, Begin(w, shape)
      PROVE  UNCHANGED <<pending, running, done>>
  BY <1>8 DEF Begin, hwVars
<1>9. ASSUME NEW w \in Contexts, Wake(w) \/ Allocate(w) \/ Write(w) \/ Wait(w) \/ Judge(w) \/ Drop(w)
      PROVE  UNCHANGED <<pending, running, done>>
  BY <1>9 DEF Wake, Allocate, Write, Wait, Judge, Drop, hwVars
<1>10. ASSUME NEW w \in Contexts, Submit(w), pending' = pending
       PROVE  UNCHANGED <<pending, running, done>>
  BY <1>10 DEF Submit
<1>11. Tick => UNCHANGED <<pending, running, done>>
  BY DEF Tick
<1> QED  BY <1>4, <1>5, <1>6, <1>7, <1>8, <1>9, <1>10, <1>11 DEF Next, WorkerStep, Complete, Kill

-----------------------------------------------------------------------------
(* The order of the tasks of a file.                                       *)

\* The file of a task in flight is fixed.
LEMMA FileKept ==
  ASSUME TypeOK, JobInv, PlanInv, LoopInv, TaskInv, Next, NEW t \in InFlight
  PROVE  FileOf(t)' = FileOf(t)
<1>1. t \in Tasks /\ t.dispatch <= begun
  BY FlightType DEF TaskInv, Flying
<1>2. t.dispatch \in 1 .. begun
  BY <1>1, TaskFacts
<1> QED  BY <1>2, PlanKept DEF FileOf

\* A step keeps the tasks of a dispatch in their order on every file.
LEMMA OrderStep ==
  ASSUME TypeOK, JobInv, PlanInv, LoopInv, TaskInv, OrderInv, Next
  PROVE  OrderInv'
<1>1. \A k \in Cores : running[k] # Idle => FileOf(running[k]) = plan'[running[k].dispatch].targets[running[k].index]
  <2> SUFFICES ASSUME NEW k \in Cores, running[k] # Idle
               PROVE  FileOf(running[k]) = plan'[running[k].dispatch].targets[running[k].index]
    OBVIOUS
  <2>1. PICK t \in InFlight : t = running[k]
    BY FlightPlaces
  <2>2. FileOf(t)' = FileOf(t)
    BY FileKept
  <2> QED  BY <2>1, <2>2 DEF FileOf
<1>2. \A c \in Contexts : \A i \in DOMAIN pending[c] :
        c = plan'[pending[c][i].dispatch].targets[pending[c][i].index]
  <2> SUFFICES ASSUME NEW c \in Contexts, NEW i \in DOMAIN pending[c]
               PROVE  c = plan'[pending[c][i].dispatch].targets[pending[c][i].index]
    OBVIOUS
  <2>1. PICK t \in InFlight : t = pending[c][i]
    BY FlightPlaces
  <2>2. FileOf(t)' = FileOf(t) /\ FileOf(t) = c
    BY <2>1, FileKept DEF OrderInv
  <2> QED  BY <2>1, <2>2 DEF FileOf
<1>3. ASSUME UNCHANGED <<pending, running>>
      PROVE  OrderInv'
  <2>1. \A k \in Cores : running[k] # Idle => FileOf(running[k])' = FileOf(running[k])
    BY <1>1, <1>3 DEF FileOf
  <2>2. \A c \in Contexts : \A i \in DOMAIN pending[c] : FileOf(pending[c][i])' = c
    BY <1>2, <1>3 DEF FileOf
  <2> QED  BY <1>3, <2>1, <2>2 DEF OrderInv
<1>4. ASSUME NEW w \in Contexts, Submit(w), pending' # pending
      PROVE  OrderInv'
  <2> DEFINE c == Targets(w)[next[w]]
             n == Len(pending[c]) + 1
  <2>1. /\ c \in Contexts /\ running' = running
        /\ DOMAIN pending[c] = 1 .. n - 1 /\ n \in Nat \ {0}
        /\ DOMAIN pending'[c] = 1 .. n
        /\ \A i \in DOMAIN pending[c] : pending'[c][i] = pending[c][i]
        /\ pending'[c][n] = NewTask(w)
        /\ \A e \in Contexts \ {c} : pending'[e] = pending[e]
    <3>1. /\ c \in Contexts /\ running' = running
          /\ DOMAIN pending[c] = 1 .. Len(pending[c]) /\ Len(pending[c]) \in Nat
          /\ DOMAIN pending'[c] = 1 .. n
          /\ \A i \in DOMAIN pending[c] : pending'[c][i] = pending[c][i]
          /\ pending'[c][n] = NewTask(w)
          /\ \A e \in Contexts \ {c} : pending'[e] = pending[e]
      BY <1>4, SubmitFlight
    <3>2. n \in Nat \ {0} /\ n - 1 = Len(pending[c])
      BY <3>1
    <3> HIDE DEF n, c
    <3> QED  BY <3>1, <3>2
  <2>2. phase[w] = "submit" /\ plan' = plan
    BY <1>4 DEF Submit
  <2>3. /\ NewTask(w).dispatch = job[w] /\ NewTask(w).index = next[w]
        /\ plan'[NewTask(w).dispatch].targets[NewTask(w).index] = c
    BY <2>2 DEF NewTask, Targets
  <2>4. \A t \in InFlight : t.dispatch = NewTask(w).dispatch => t.index < NewTask(w).index
    BY <2>2, <2>3 DEF TaskInv, Flying, Posted
  <2> HIDE DEF n, c
  <2>5. \A e \in Contexts : \A i \in DOMAIN pending'[e] :
          \/ i \in DOMAIN pending[e] /\ pending'[e][i] = pending[e][i]
          \/ e = c /\ i = n /\ pending'[e][i] = NewTask(w)
    <3>1. \A i \in 1 .. n : i \in 1 .. n - 1 \/ i = n
      BY <2>1
    <3> QED  BY <2>1, <3>1
  <2>6. \A e \in Contexts : \A i \in DOMAIN pending'[e] :
          e = plan'[pending'[e][i].dispatch].targets[pending'[e][i].index]
    BY <1>2, <2>3, <2>5
  <2>7. \A e \in Contexts : \A i, j \in DOMAIN pending'[e] :
          i < j /\ pending'[e][i].dispatch = pending'[e][j].dispatch =>
            pending'[e][i].index < pending'[e][j].index
    <3> SUFFICES ASSUME NEW e \in Contexts, NEW i \in DOMAIN pending'[e], NEW j \in DOMAIN pending'[e],
                        i < j, pending'[e][i].dispatch = pending'[e][j].dispatch
                 PROVE  pending'[e][i].index < pending'[e][j].index
      OBVIOUS
    <3>1. CASE i \in DOMAIN pending[e] /\ pending'[e][i] = pending[e][i]
               /\ j \in DOMAIN pending[e] /\ pending'[e][j] = pending[e][j]
      BY <3>1 DEF OrderInv
    <3>2. CASE i \in DOMAIN pending[e] /\ pending'[e][i] = pending[e][i]
               /\ pending'[e][j] = NewTask(w)
      BY <2>4, <3>2, FlightPlaces
    <3>3. ASSUME e = c, i = n
          PROVE  FALSE
      BY <2>1, <3>3
    <3> QED  BY <2>5, <3>1, <3>2, <3>3
  <2>8. \A k \in Cores, e \in Contexts : \A i \in DOMAIN pending'[e] :
          running[k] # Idle /\ FileOf(running[k]) = e /\ running[k].dispatch = pending'[e][i].dispatch =>
            running[k].index < pending'[e][i].index
    <3> SUFFICES ASSUME NEW k \in Cores, NEW e \in Contexts, NEW i \in DOMAIN pending'[e],
                        running[k] # Idle, FileOf(running[k]) = e,
                        running[k].dispatch = pending'[e][i].dispatch
                 PROVE  running[k].index < pending'[e][i].index
      OBVIOUS
    <3>1. CASE i \in DOMAIN pending[e] /\ pending'[e][i] = pending[e][i]
      BY <3>1 DEF OrderInv
    <3>2. CASE pending'[e][i] = NewTask(w)
      BY <2>4, <3>2, FlightPlaces
    <3> QED  BY <2>5, <3>1, <3>2
  <2>9. \A k \in Cores : running[k] # Idle => FileOf(running[k])' = FileOf(running[k])
    BY <1>1, <2>1 DEF FileOf
  <2>10. \A e \in Contexts : \A i \in DOMAIN pending'[e] : FileOf(pending[e][i])' = e
    BY <2>6 DEF FileOf
  <2>11. \A k, l \in Cores : running'[k] # Idle /\ running'[l] # Idle /\ k # l =>
           FileOf(running[k])' # FileOf(running[l])'
    BY <2>1, <2>9 DEF OrderInv
  <2>12. \A k \in Cores, e \in Contexts : \A i \in DOMAIN pending'[e] :
           running'[k] # Idle /\ FileOf(running[k])' = e /\ running'[k].dispatch = pending'[e][i].dispatch =>
             running'[k].index < pending'[e][i].index
    BY <2>1, <2>8, <2>9
  <2> QED  BY <2>7, <2>10, <2>11, <2>12 DEF OrderInv
<1>5. ASSUME NEW k \in Cores, NEW c \in Contexts, Start(k, c)
      PROVE  OrderInv'
  <2>1. /\ \A i \in DOMAIN pending'[c] : /\ pending'[c][i] = pending[c][i + 1]
                                         /\ i + 1 \in DOMAIN pending[c] /\ i \in Nat /\ 1 < i + 1
        /\ \A e \in Contexts \ {c} : pending'[e] = pending[e]
        /\ 1 \in DOMAIN pending[c]
        /\ running'[k] = pending[c][1] /\ running'[k] # Idle
        /\ \A l \in Cores \ {k} : running'[l] = running[l]
    BY <1>5, StartFlight
  <2>2. \A l \in Cores : running[l] # Idle => FileOf(running[l]) # c
    BY <1>5 DEF Start
  <2>3. FileOf(running[k])' = c
    BY <1>2, <2>1 DEF FileOf
  <2>4. \A l \in Cores \ {k} : running'[l] # Idle => /\ running[l] # Idle
                                                     /\ FileOf(running[l])' = FileOf(running[l])
    BY <1>1, <2>1 DEF FileOf
  <2>5. \A e \in Contexts : \A i \in DOMAIN pending'[e] : FileOf(pending[e][i])' = e
    BY <1>2, <2>1 DEF FileOf
  <2>6. \A l, m \in Cores : running'[l] # Idle /\ running'[m] # Idle /\ l # m =>
          FileOf(running[l])' # FileOf(running[m])'
    BY <2>2, <2>3, <2>4 DEF OrderInv
  <2>7. \A e \in Contexts : \A i, j \in DOMAIN pending'[e] :
          i < j /\ pending'[e][i].dispatch = pending'[e][j].dispatch =>
            pending'[e][i].index < pending'[e][j].index
    <3>1. \A i, j \in DOMAIN pending'[c] : i < j => i + 1 < j + 1
      BY <2>1
    <3> QED  BY <2>1, <3>1 DEF OrderInv
  <2>8. \A l \in Cores, e \in Contexts : \A i \in DOMAIN pending'[e] :
          running'[l] # Idle /\ FileOf(running[l])' = e /\ running'[l].dispatch = pending'[e][i].dispatch =>
            running'[l].index < pending'[e][i].index
    <3> SUFFICES ASSUME NEW l \in Cores, NEW e \in Contexts, NEW i \in DOMAIN pending'[e],
                        running'[l] # Idle, FileOf(running[l])' = e,
                        running'[l].dispatch = pending'[e][i].dispatch
                 PROVE  running'[l].index < pending'[e][i].index
      OBVIOUS
    <3>1. CASE l = k
      <4>1. e = c /\ running'[l] = pending[c][1]
        BY <2>1, <2>3, <3>1
      <4> QED  BY <2>1, <4>1 DEF OrderInv
    <3>2. CASE l # k
      <4>1. e # c /\ running'[l] = running[l] /\ FileOf(running[l]) = e /\ pending'[e] = pending[e]
        BY <2>1, <2>2, <2>4, <3>2
      <4> QED  BY <4>1 DEF OrderInv
    <3> QED  BY <3>1, <3>2
  <2> QED  BY <2>5, <2>6, <2>7, <2>8 DEF OrderInv
<1>6. ASSUME NEW k \in Cores, Signal(k)
      PROVE  OrderInv'
  <2>1. /\ pending' = pending
        /\ running'[k] = Idle /\ \A l \in Cores \ {k} : running'[l] = running[l]
    BY <1>6, SignalFlight
  <2>2. \A l \in Cores : running'[l] # Idle => /\ running'[l] = running[l]
                                               /\ FileOf(running[l])' = FileOf(running[l])
    BY <1>1, <2>1 DEF FileOf
  <2>3. \A c \in Contexts : \A i \in DOMAIN pending'[c] : FileOf(pending[c][i])' = c
    BY <1>2, <2>1 DEF FileOf
  <2> QED  BY <2>1, <2>2, <2>3 DEF OrderInv
<1>7. ASSUME NEW w \in Contexts, NEW shape \in Shapes, Begin(w, shape)
      PROVE  UNCHANGED <<pending, running>>
  BY <1>7 DEF Begin, hwVars
<1>8. ASSUME NEW w \in Contexts, Wake(w) \/ Allocate(w) \/ Write(w) \/ Wait(w) \/ Judge(w) \/ Drop(w)
      PROVE  UNCHANGED <<pending, running>>
  BY <1>8 DEF Wake, Allocate, Write, Wait, Judge, Drop, hwVars
<1>9. ASSUME NEW w \in Contexts, Submit(w), pending' = pending
      PROVE  UNCHANGED <<pending, running>>
  BY <1>9 DEF Submit
<1>10. Tick => UNCHANGED <<pending, running>>
  BY DEF Tick
<1> QED  BY <1>3, <1>4, <1>5, <1>6, <1>7, <1>8, <1>9, <1>10 DEF Next, WorkerStep, Complete, Kill

\* A residual epilogue starts when its tiles are through: they were submitted
\* before it, on the same file, and none of them is in flight any more.
LEMMA EpilogueOrdered ==
  ASSUME TypeOK, PlanInv, TaskInv, OrderInv, SentInv
  PROVE  EpilogueLast
<1> SUFFICES ASSUME NEW k \in Cores, running[k] # Idle,
                    running[k].index > plan[running[k].dispatch].tiles,
                    NEW i \in 1 .. plan[running[k].dispatch].tiles
             PROVE  <<running[k].dispatch, i>> \in done
  BY DEF EpilogueLast
<1> DEFINE s == running[k]
           d == s.dispatch
<1>1. s \in InFlight /\ s \in Tasks /\ d <= begun /\ s.index <= Len(plan[d].targets)
  BY FlightPlaces, FlightType DEF TaskInv, Flying
<1>2. /\ d \in 1 .. begun /\ s.index \in Nat \ {0} /\ plan[d].tiles \in Nat
      /\ Len(plan[d].targets) \in Nat /\ DOMAIN plan[d].targets = 1 .. Len(plan[d].targets)
  BY <1>1, TaskFacts
<1> HIDE DEF s
<1>3. plan[d].epilogue
  <2>1. Len(plan[d].targets) = IF plan[d].epilogue THEN plan[d].tiles + 1 ELSE plan[d].tiles
    BY <1>2 DEF PlanInv
  <2> QED  BY <1>1, <1>2, <2>1 DEF s
<1>4. i \in 1 .. s.index - 1 /\ i \in DOMAIN plan[d].targets /\ s.index \in DOMAIN plan[d].targets
      /\ i \in Nat
  BY <1>1, <1>2 DEF s
<1>5. <<d, i>> \in Sent
  <2>1. <<d, s.index>> \in Sent
    BY <1>1 DEF Sent
  <2> QED  BY <1>4, <2>1 DEF SentInv
<1> SUFFICES ASSUME <<d, i>> \notin done
             PROVE  FALSE
  BY DEF s
<1>6. PICK t \in InFlight : <<d, i>> = <<t.dispatch, t.index>>
  BY <1>5 DEF Sent
<1>7. t.dispatch = d /\ t.index = i
  BY <1>6
<1>8. FileOf(t) = FileOf(s)
  <2>1. plan[d].targets[i] = plan[d].targets[s.index]
    BY <1>2, <1>3, <1>4 DEF PlanInv
  <2> QED  BY <1>7, <2>1 DEF FileOf
<1>9. CASE \E l \in Cores : running[l] # Idle /\ t = running[l]
  <2>1. PICK l \in Cores : running[l] # Idle /\ t = running[l]
    BY <1>9
  <2>2. l = k
    BY <1>8, <2>1 DEF OrderInv, s
  <2> QED  BY <1>2, <1>4, <1>7, <2>1, <2>2 DEF s
<1>10. CASE \E c \in Contexts : \E j \in DOMAIN pending[c] : t = pending[c][j]
  <2>1. PICK c \in Contexts : \E j \in DOMAIN pending[c] : t = pending[c][j]
    BY <1>10
  <2>2. PICK j \in DOMAIN pending[c] : t = pending[c][j]
    BY <2>1
  <2>3. FileOf(s) = c
    BY <1>8, <2>2 DEF OrderInv
  <2>4. s.index < t.index
    BY <1>7, <2>2, <2>3 DEF OrderInv, s
  <2> QED  BY <1>2, <1>4, <1>7, <2>4
<1> QED  BY <1>9, <1>10, FlightPlaces

\* A step submits tasks in order and forgets none.
LEMMA SentStep ==
  ASSUME TypeOK, JobInv, PlanInv, LoopInv, TaskInv, SentInv, Next
  PROVE  SentInv'
<1>1. ASSUME NEW w \in Contexts, Submit(w), pending' # pending
      PROVE  SentInv'
  <2>1. /\ \A t : t \in InFlight' <=> t \in InFlight \/ t = NewTask(w)
        /\ phase'[w] \in {"submit", "wait"} /\ (phase'[w] = "submit" => next'[w] = next[w] + 1)
    BY <1>1, SubmitFlight
  <2>2. phase[w] = "submit" /\ UNCHANGED <<done, job>>
    BY <1>1 DEF Submit
  <2>3. NewTask(w).dispatch = job[w] /\ NewTask(w).index = next[w]
    BY DEF NewTask
  <2>4. \A x : x \in Sent' <=> x \in Sent \/ x = <<job[w], next[w]>>
    BY <2>1, <2>2, <2>3 DEF Sent
  <2>5. \A i \in 1 .. next[w] - 1 : <<job[w], i>> \in Sent
    BY <2>2 DEF SentInv
  <2>6. \A x \in Sent' : \A i \in 1 .. x[2] - 1 : <<x[1], i>> \in Sent'
    <3> SUFFICES ASSUME NEW x \in Sent', NEW i \in 1 .. x[2] - 1
                 PROVE  <<x[1], i>> \in Sent
      BY <2>4
    <3>1. CASE x \in Sent
      BY <3>1 DEF SentInv
    <3>2. CASE x = <<job[w], next[w]>>
      BY <2>5, <3>2
    <3> QED  BY <2>4, <3>1, <3>2
  <2>7. ASSUME NEW v \in Contexts, phase'[v] = "submit", NEW i \in 1 .. next'[v] - 1
        PROVE  <<job'[v], i>> \in Sent'
    <3>1. CASE v = w
      <4>1. next[w] \in Nat /\ next'[w] = next[w] + 1
        BY <2>1, <2>7, <3>1 DEF TypeOK
      <4>2. i = next[w] \/ i \in 1 .. next[w] - 1
        BY <2>7, <3>1, <4>1
      <4> QED  BY <2>2, <2>4, <2>5, <3>1, <4>2
    <3>2. CASE v # w
      <4>1. phase'[v] = phase[v] /\ next'[v] = next[v]
        BY <1>1, <3>2, WorkerContinues DEF Continues, Turns
      <4> QED  BY <2>2, <2>4, <2>7, <4>1 DEF SentInv
    <3> QED  BY <3>1, <3>2
  <2> QED  BY <2>6, <2>7 DEF SentInv
<1>2. ASSUME Sent' = Sent, \A v \in Contexts : phase'[v] = "submit" =>
               \/ next'[v] = 1
               \/ phase[v] = "submit" /\ next'[v] = next[v] /\ job'[v] = job[v]
      PROVE  SentInv'
  <2>1. \A x \in Sent' : \A i \in 1 .. x[2] - 1 : <<x[1], i>> \in Sent'
    BY <1>2 DEF SentInv
  <2>2. ASSUME NEW v \in Contexts, phase'[v] = "submit", NEW i \in 1 .. next'[v] - 1
        PROVE  <<job'[v], i>> \in Sent'
    BY <1>2, <2>2 DEF SentInv
  <2> QED  BY <2>1, <2>2 DEF SentInv
<1>3. ASSUME UNCHANGED <<pending, running, done>>
      PROVE  Sent' = Sent
  BY <1>3, FlightKept DEF Sent
<1>4. ASSUME NEW w \in Contexts, NEW shape \in Shapes, Begin(w, shape)
      PROVE  SentInv'
  <2>1. UNCHANGED <<pending, running, done, next>>
    BY <1>4 DEF Begin, hwVars
  <2>2. /\ phase'[w] = "dwell"
        /\ \A v \in Contexts \ {w} : phase'[v] = phase[v] /\ job'[v] = job[v]
    BY <1>4, BeginFacts
  <2> QED  BY <1>2, <1>3, <2>1, <2>2
<1>5. ASSUME NEW w \in Contexts, \/ Wake(w) \/ Allocate(w) \/ Write(w) \/ Wait(w) \/ Judge(w)
                                 \/ Submit(w) /\ pending' = pending
      PROVE  SentInv'
  <2>1. UNCHANGED <<pending, running, done>>
    BY <1>5 DEF Wake, Allocate, Write, Wait, Judge, Submit, hwVars
  <2>2. UNCHANGED job /\ \A v \in Contexts \ {w} : phase'[v] = phase[v] /\ next'[v] = next[v]
    BY <1>5, WorkerContinues DEF Continues, Turns
  <2>3. phase'[w] = "submit" => next'[w] = 1
    <3>1. CASE Wake(w)
      BY <3>1 DEF Wake, TypeOK
    <3>2. CASE Allocate(w) \/ Write(w) \/ Wait(w)
      BY <3>2, WorkerMoves DEF Allocate, Write, Wait
    <3>3. CASE Judge(w)
      BY <3>3, WorkerMoves
    <3>4. CASE Submit(w) /\ pending' = pending
      <4>1. PICK c \in Contexts : Break(w, "unavailable") \/ pending' = [pending EXCEPT ![c] = Append(@, NewTask(w))]
        BY <3>4, LoopFacts DEF Submit, NewTask
      <4>2. pending' # [pending EXCEPT ![c] = Append(@, NewTask(w))]
        <5>1. pending \in [Contexts -> Seq(Tasks)] /\ pending[c] \in Seq(Tasks)
          BY DEF TypeOK
        <5>2. NewTask(w) \in Tasks
          BY <3>4, TaskType DEF NewTask, Submit
        <5>3. Len(Append(pending[c], NewTask(w))) = Len(pending[c]) + 1 /\ Len(pending[c]) \in Nat
          BY <5>1, <5>2, AppendFacts
        <5> QED  BY <3>4, <5>1, <5>3
      <4> QED  BY <4>1, <4>2, BreakTurns
    <3> QED  BY <1>5, <3>1, <3>2, <3>3, <3>4
  <2> QED  BY <1>2, <1>3, <2>1, <2>2, <2>3
<1>6. ASSUME NEW w \in Contexts, Drop(w)
      PROVE  SentInv'
  <2>1. UNCHANGED <<pending, running, done>>
    BY <1>6 DEF Drop, hwVars
  <2>2. /\ phase'[w] \in {"drop", "idle"}
        /\ \A v \in Contexts \ {w} : phase'[v] = phase[v] /\ job'[v] = job[v] /\ next'[v] = next[v]
    BY <1>6, DropFacts
  <2> QED  BY <1>2, <1>3, <2>1, <2>2
<1>7. ASSUME Outside
      PROVE  SentInv'
  <2>1. UNCHANGED <<phase, job, next>>
    BY <1>7, OutsideFrame
  <2>2. Sent' = Sent
    <3>1. ASSUME NEW k \in Cores, NEW c \in Contexts, Start(k, c)
          PROVE  Sent' = Sent
      <4>1. done' = done /\ InFlight' = InFlight
        BY <3>1, StartFlight DEF Start
      <4> QED  BY <4>1 DEF Sent
    <3>2. ASSUME NEW k \in Cores, Signal(k)
          PROVE  Sent' = Sent
      <4>1. /\ running[k] \in InFlight /\ InFlight' \subseteq InFlight
            /\ done' = done \cup {<<running[k].dispatch, running[k].index>>}
            /\ \A t \in InFlight : t \in InFlight' \/ t = running[k]
        BY <3>2, SignalFlight
      <4>2. \A x : x \in Sent' <=> x \in Sent
        BY <4>1 DEF Sent
      <4> QED  BY <4>2
    <3>3. Tick => Sent' = Sent
      BY <1>3 DEF Tick
    <3> QED  BY <1>7, <3>1, <3>2, <3>3 DEF Outside, Complete, Kill
  <2> QED  BY <1>2, <2>1, <2>2
<1> QED  BY <1>1, <1>4, <1>5, <1>6, <1>7 DEF Next, WorkerStep, Outside

-----------------------------------------------------------------------------
(* Fences and outcomes.                                                    *)

\* A fence that has signalled stays so.
LEMMA DoneGrows ==
  ASSUME Next
  PROVE  done \subseteq done'
BY DEF Next, WorkerStep, Begin, Wake, Allocate, Write, Submit, Wait, Judge, Drop, Start, Complete,
       Kill, Signal, Tick, hwVars

\* A dispatch that is through stays so.
LEMMA AllDoneKept ==
  ASSUME TypeOK, JobInv, PlanInv, LoopInv, Next, NEW d \in 1 .. begun, AllDone(d)
  PROVE  AllDone(d)'
<1>1. plan'[d] = plan[d] /\ done \subseteq done'
  BY PlanKept, DoneGrows
<1> QED  BY <1>1 DEF AllDone

\* A dispatch with an outcome has begun.
LEMMA OutcomeBegun ==
  ASSUME TypeOK, JobInv, NEW d \in Dispatches, outcome[d] # "none"
  PROVE  d \in 1 .. begun
<1>1. begun \in 0 .. NumDispatches
  BY DEF TypeOK
<1>2. ~(d > begun)
  BY DEF JobInv
<1> QED  BY <1>1, <1>2, Bounds DEF Dispatches

\* A task in flight is not through.
LEMMA FlightNotDone ==
  ASSUME TypeOK, TaskInv, NEW t \in InFlight
  PROVE  ~AllDone(t.dispatch)
<1>1. t \in Tasks /\ t.dispatch <= begun /\ t.index <= Len(plan[t.dispatch].targets)
      /\ <<t.dispatch, t.index>> \notin done
  BY FlightType DEF TaskInv, Flying
<1>2. t.index \in DOMAIN plan[t.dispatch].targets
  BY <1>1, TaskFacts
<1> QED  BY <1>1, <1>2 DEF AllDone

\* A step waits for every fence before it judges.
LEMMA DoneStep ==
  ASSUME TypeOK, JobInv, PlanInv, LoopInv, DoneInv, Next
  PROVE  DoneInv'
<1>1. ASSUME NEW v \in Contexts, phase[v] = "wait", phase'[v] = "wait", job'[v] = job[v],
             next'[v] = next[v]
      PROVE  \A i \in 1 .. next'[v] - 1 : <<job'[v], i>> \in done'
  BY <1>1, DoneGrows DEF DoneInv
<1>2. ASSUME NEW v \in Contexts, phase[v] = "judge", job'[v] = job[v]
      PROVE  AllDone(job[v])'
  <2>1. PICK d \in 1 .. begun : d = job[v]
    BY <1>2, WorkerFacts
  <2>2. AllDone(d)'
    BY <1>2, <2>1, AllDoneKept DEF DoneInv
  <2> QED  BY <1>2, <2>1, <2>2 DEF AllDone
<1>3. ASSUME NEW d \in Dispatches, outcome[d] \in {"ok", "deadline_exceeded", "internal"}
      PROVE  AllDone(d)'
  BY <1>3, OutcomeBegun, AllDoneKept DEF DoneInv
<1>4. ASSUME UNCHANGED outcome,
             \A v \in Contexts : phase'[v] \in {"wait", "judge"} =>
               phase'[v] = phase[v] /\ job'[v] = job[v] /\ next'[v] = next[v]
      PROVE  DoneInv'
  <2>1. \A v \in Contexts : phase'[v] = "wait" => \A i \in 1 .. next'[v] - 1 : <<job'[v], i>> \in done'
    BY <1>1, <1>4
  <2>2. \A v \in Contexts : phase'[v] = "judge" => AllDone(job[v])'
    BY <1>2, <1>4
  <2> QED  BY <1>3, <1>4, <2>1, <2>2 DEF DoneInv
<1>5. ASSUME NEW w \in Contexts, NEW shape \in Shapes, Begin(w, shape)
      PROVE  DoneInv'
  <2>1. /\ UNCHANGED <<outcome, next>> /\ phase'[w] = "dwell"
        /\ \A v \in Contexts \ {w} : phase'[v] = phase[v] /\ job'[v] = job[v]
    BY <1>5, BeginFacts DEF Begin
  <2> QED  BY <1>4, <2>1
<1>6. ASSUME NEW w \in Contexts,
             Wake(w) \/ Allocate(w) \/ Write(w) \/ Submit(w) \/ Wait(w) \/ Judge(w)
      PROVE  DoneInv'
  <2>1. /\ Working(w) /\ UNCHANGED job
        /\ \A v \in Contexts \ {w} : phase'[v] = phase[v] /\ next'[v] = next[v]
    BY <1>6, WorkerContinues DEF Continues, Turns
  <2>2. job[w] \in Dispatches /\ job[w] \in 1 .. begun
    BY <2>1, WorkerFacts DEF Working
  <2>3. phase'[w] = "wait" => \A i \in 1 .. next'[w] - 1 : <<job'[w], i>> \in done'
    <3> SUFFICES ASSUME phase'[w] = "wait", NEW i \in 1 .. next'[w] - 1
                 PROVE  <<job[w], i>> \in done'
      BY <2>1
    <3>1. Wait(w) /\ phase[w] = "wait" /\ next'[w] = next[w] + 1 /\ next[w] \in Nat
      <4>1. ~Wake(w) /\ ~Judge(w)
        BY WorkerMoves DEF Wake, TypeOK
      <4>2. next'[w] # 1
        OBVIOUS
      <4>3. phase[w] = "wait" /\ next'[w] = next[w] + 1 /\ next[w] \in Nat
        BY <1>6, <4>1, <4>2, WorkerMoves
      <4> QED  BY <1>6, <4>1, <4>3 DEF Allocate, Write, Submit
    <3>2. <<job[w], next[w]>> \in done
      <4>1. next[w] \in DOMAIN Targets(w)
        BY <3>1, LoopFacts
      <4>2. phase'[w] # "drop"
        OBVIOUS
      <4> QED  BY <3>1, <4>1, <4>2, BreakTurns DEF Wait
    <3>3. i = next[w] \/ i \in 1 .. next[w] - 1
      BY <3>1
    <3> QED  BY <3>1, <3>2, <3>3, DoneGrows DEF DoneInv
  <2>4. phase'[w] = "judge" => AllDone(job[w])'
    <3> SUFFICES ASSUME phase'[w] = "judge"
                 PROVE  AllDone(job[w])'
      OBVIOUS
    <3>1. Wait(w) /\ phase[w] = "wait" /\ next[w] = Len(Targets(w)) /\ next[w] \in Nat \ {0}
      <4>1. ~Wake(w) /\ ~Judge(w)
        BY WorkerMoves DEF Wake, TypeOK
      <4>2. phase[w] = "wait" /\ next[w] = Len(Targets(w)) /\ next[w] \in Nat \ {0}
        <5>1. CASE Allocate(w)
          BY <5>1, WorkerMoves DEF Allocate
        <5>2. CASE Write(w)
          BY <5>2, WorkerMoves DEF Write
        <5>3. CASE Submit(w)
          BY <5>3, WorkerMoves DEF Submit
        <5>4. CASE Wait(w)
          BY <5>4, WorkerMoves DEF Wait
        <5> QED  BY <1>6, <4>1, <5>1, <5>2, <5>3, <5>4
      <4> QED  BY <1>6, <4>1, <4>2 DEF Allocate, Write, Submit
    <3>2. /\ DOMAIN Targets(w) = 1 .. Len(Targets(w)) /\ next[w] \in DOMAIN Targets(w)
      BY <3>1, WorkerFacts, LoopFacts
    <3>3. <<job[w], next[w]>> \in done
      BY <3>1, <3>2, BreakTurns DEF Wait
    <3>4. \A i \in DOMAIN Targets(w) : i = next[w] \/ i \in 1 .. next[w] - 1
      BY <3>1, <3>2
    <3>5. \A i \in DOMAIN Targets(w) : <<job[w], i>> \in done
      BY <3>1, <3>3, <3>4 DEF DoneInv
    <3>6. plan'[job[w]] = plan[job[w]]
      BY <2>2, PlanKept
    <3> QED  BY <2>1, <3>5, <3>6, DoneGrows DEF AllDone, Targets
  <2>5. /\ outcome'[job[w]] \in {"ok", "deadline_exceeded", "internal"} => AllDone(job[w])'
        /\ outcome'[job[w]] \in {"unavailable", "internal"} => MayFail
    <3>1. outcome[job[w]] = "none" /\ outcome \in [Dispatches -> Outcomes]
      BY <2>1 DEF JobInv, TypeOK
    <3>2. CASE Wake(w)
      BY <3>1, <3>2 DEF Wake, planVars
    <3>3. CASE Allocate(w) \/ Write(w) \/ Submit(w) \/ Wait(w)
      BY <2>2, <3>1, <3>3, WorkerMoves
    <3>4. CASE Judge(w)
      <4>1. AllDone(job[w])'
        BY <1>2, <2>1, <3>4 DEF Judge
      <4>2. outcome'[job[w]] = "internal" => MayFail
        BY <2>2, <3>1, <3>4 DEF Judge, Break
      <4>3. outcome'[job[w]] # "unavailable"
        BY <2>2, <3>1, <3>4 DEF Judge, Break
      <4> QED  BY <4>1, <4>2, <4>3
    <3> QED  BY <1>6, <3>2, <3>3, <3>4
  <2>6. \A d \in Dispatches \ {job[w]} : outcome'[d] = outcome[d]
    BY <1>6, WorkerContinues DEF Continues
  <2>7. \A v \in Contexts : phase'[v] = "wait" => \A i \in 1 .. next'[v] - 1 : <<job'[v], i>> \in done'
    BY <1>1, <2>1, <2>3
  <2>8. \A v \in Contexts : phase'[v] = "judge" => AllDone(job[v])'
    BY <1>2, <2>1, <2>4
  <2>9. ASSUME NEW d \in Dispatches
        PROVE  /\ outcome'[d] \in {"ok", "deadline_exceeded", "internal"} => AllDone(d)'
               /\ outcome'[d] \in {"unavailable", "internal"} => MayFail
    <3>1. CASE d = job[w]
      BY <2>1, <2>5, <3>1 DEF AllDone
    <3>2. CASE d # job[w]
      BY <1>3, <2>6, <3>2 DEF DoneInv
    <3> QED  BY <3>1, <3>2
  <2> QED  BY <2>7, <2>8, <2>9 DEF DoneInv
<1>7. ASSUME NEW w \in Contexts, Drop(w)
      PROVE  DoneInv'
  <2>1. /\ UNCHANGED outcome /\ phase'[w] \in {"drop", "idle"}
        /\ \A v \in Contexts \ {w} : phase'[v] = phase[v] /\ job'[v] = job[v] /\ next'[v] = next[v]
    BY <1>7, DropFacts DEF planVars
  <2> QED  BY <1>4, <2>1
<1>8. ASSUME Outside
      PROVE  DoneInv'
  BY <1>4, <1>8, OutsideFrame DEF planVars
<1> QED  BY <1>5, <1>6, <1>7, <1>8 DEF Next, WorkerStep, Outside

-----------------------------------------------------------------------------
(* The watchdog and the floor.                                             *)

\* A step gives no worker a dispatch that has begun before, nor one back that it
\* has broken off.
LEMMA JobKept ==
  ASSUME TypeOK, JobInv, PlanInv, LoopInv, Next, NEW v \in Contexts, job'[v] \in 1 .. begun
  PROVE  /\ job[v] = job'[v]
         /\ Working(v)' => Working(v)
<1>1. ASSUME NEW w \in Contexts, NEW shape \in Shapes, Begin(w, shape)
      PROVE  job[v] = job'[v] /\ phase'[v] = phase[v]
  <2>1. /\ begun \in Nat /\ job'[w] = begun + 1
        /\ \A u \in Contexts \ {w} : phase'[u] = phase[u] /\ job'[u] = job[u]
    BY <1>1, BeginFacts
  <2>2. v # w
    BY <2>1
  <2> QED  BY <2>1, <2>2
<1>2. ASSUME NEW w \in Contexts, Continues(w)
      PROVE  job[v] = job'[v] /\ (Working(v)' => Working(v))
  BY <1>2 DEF Continues, Turns, Working
<1>3. ASSUME NEW w \in Contexts, Drop(w)
      PROVE  job[v] = job'[v] /\ (Working(v)' => Working(v))
  <2>1. job'[v] # 0
    OBVIOUS
  <2> QED  BY <1>3, <2>1, DropFacts DEF Working
<1>4. Outside => job[v] = job'[v] /\ phase'[v] = phase[v]
  BY OutsideFrame
<1> QED  BY <1>1, <1>2, <1>3, <1>4, NextCases DEF Working

\* The clock of a dispatch that has been submitted only goes on, and with every tick.
LEMMA ElapsedGoesOn ==
  ASSUME TypeOK, Next, NEW v \in Contexts, phase[v] \in {"submit", "wait", "judge", "drop"}
  PROVE  /\ elapsed[v] \in Nat /\ elapsed[v] <= Floor
         /\ elapsed'[v] = elapsed[v] \/ Tick
         /\ Tick => elapsed'[v] = elapsed[v] + 1 \/ elapsed'[v] = Floor
         /\ elapsed[v] = Floor => elapsed'[v] = Floor
<1>1. elapsed \in [Contexts -> 0 .. Floor] /\ Floor \in Nat
  BY Bounds DEF TypeOK
<1>2. elapsed[v] \in 0 .. Floor /\ elapsed[v] \in Nat /\ elapsed[v] <= Floor
  BY <1>1
<1>3. ASSUME Tick
      PROVE  /\ elapsed'[v] = elapsed[v] + 1 \/ elapsed'[v] = Floor
             /\ elapsed[v] = Floor => elapsed'[v] = Floor
  <2>1. elapsed'[v] = Later(elapsed[v], Floor)
    BY <1>3 DEF Tick
  <2> QED  BY <1>1, <1>2, <2>1 DEF Later
<1>4. ASSUME NEW w \in Contexts, Write(w)
      PROVE  elapsed'[v] = elapsed[v]
  BY <1>1, <1>4 DEF Write
<1>5. Tick \/ (\E w \in Contexts : Write(w)) \/ elapsed' = elapsed
  BY DEF Next, WorkerStep, Begin, Wake, Allocate, Submit, Wait, Judge, Drop, Start, Complete, Kill,
         Signal, workerVars
<1> QED  BY <1>2, <1>3, <1>4, <1>5

\* What a step does to the task on a core, and to its age.
LEMMA AgeFacts ==
  ASSUME TypeOK, Next, NEW k \in Cores, running'[k] # Idle
  PROVE  /\ age'[k] \in Nat /\ age[k] \in Nat
         /\ \/ age'[k] = 0
            \/ running'[k] = running[k] /\ age'[k] = age[k]
            \/ running'[k] = running[k] /\ Tick /\ age'[k] = age[k] + 1
<1>0. age \in [Cores -> 0 .. Watchdog] /\ running \in [Cores -> Tasks \cup {Idle}]
  BY DEF TypeOK
<1>1. age \in [Cores -> 0 .. Watchdog] /\ age[k] \in Nat /\ running \in [Cores -> Tasks \cup {Idle}]
  BY <1>0, Bounds
<1>2. ASSUME NEW l \in Cores, NEW c \in Contexts, Start(l, c)
      PROVE  age'[k] = 0 \/ (running'[k] = running[k] /\ age'[k] = age[k])
  BY <1>1, <1>2 DEF Start
<1>3. ASSUME NEW l \in Cores, Signal(l)
      PROVE  age'[k] = 0 \/ (running'[k] = running[k] /\ age'[k] = age[k])
  BY <1>1, <1>3 DEF Signal
<1>4. Tick => running'[k] = running[k] /\ age'[k] = age[k] + 1
  BY <1>1 DEF Tick
<1>5. \/ \E l \in Cores, c \in Contexts : Start(l, c)
      \/ \E l \in Cores : Signal(l)
      \/ Tick
      \/ UNCHANGED <<running, age>>
  BY DEF Next, WorkerStep, Begin, Wake, Allocate, Write, Submit, Wait, Judge, Drop, Complete, Kill, hwVars
<1> QED  BY <1>1, <1>2, <1>3, <1>4, <1>5

\* A step gives no OK to a dispatch that lost a task to the watchdog: that task
\* was on its core for as long as the floor, and the dispatch waited no shorter.
LEMMA KillStep ==
  ASSUME TypeOK, JobInv, PlanInv, LoopInv, TaskInv, DoneInv, KillInv, Next, TypeOK'
  PROVE  KillInv'
<1>1. Floor \in Nat /\ Watchdog \in Nat /\ Floor <= Watchdog /\ begun \in Nat /\ begun' \in Nat /\ begun' >= begun
  BY Bounds, PlanKept
<1>2. ASSUME NEW k \in Cores, running[k] # Idle
      PROVE  /\ running[k] \in InFlight /\ running[k].dispatch \in 1 .. begun
             /\ running[k].index \in Nat /\ Posted(running[k].dispatch, running[k].index)
  <2>1. running[k] \in InFlight
    BY <1>2, FlightPlaces
  <2>2. running[k] \in Tasks /\ running[k].dispatch <= begun /\ Posted(running[k].dispatch, running[k].index)
    BY <2>1, FlightType DEF TaskInv, Flying
  <2> QED  BY <2>1, <2>2, TaskFacts
<1>3. ASSUME NEW v \in Contexts, NEW d \in 1 .. begun, job'[v] = d, NEW i \in Nat, Posted(d, i), Working(v)'
      PROVE  job[v] = d /\ Working(v) /\ phase[v] \in {"submit", "wait", "judge", "drop"}
  <2>1. job[v] = d /\ Working(v)
    BY <1>3, JobKept
  <2> QED  BY <1>3, <2>1 DEF Posted
<1>4. ASSUME NEW k \in Cores, NEW v \in Contexts, running'[k] # Idle,
             job'[v] = running'[k].dispatch, Working(v)'
      PROVE  elapsed'[v] >= age'[k] \/ elapsed'[v] = Floor
  <2>1. elapsed' \in [Contexts -> 0 .. Floor]
    BY DEF TypeOK
  <2>2. elapsed'[v] \in Nat
    BY <1>1, <2>1
  <2>3. CASE age'[k] = 0
    BY <2>2, <2>3
  <2>4. CASE running'[k] = running[k] /\ age[k] \in Nat /\ (age'[k] = age[k] \/ (Tick /\ age'[k] = age[k] + 1))
    <3>1. running[k].dispatch \in 1 .. begun /\ Posted(running[k].dispatch, running[k].index)
          /\ running[k].index \in Nat
      BY <1>2, <1>4, <2>4
    <3>2. job[v] = running[k].dispatch /\ Working(v) /\ phase[v] \in {"submit", "wait", "judge", "drop"}
      BY <1>3, <1>4, <2>4, <3>1
    <3>3. elapsed[v] >= age[k] \/ elapsed[v] = Floor
      BY <1>4, <2>4, <3>2 DEF KillInv
    <3>4. /\ elapsed[v] \in Nat /\ (elapsed'[v] = elapsed[v] \/ Tick)
          /\ Tick => elapsed'[v] = elapsed[v] + 1 \/ elapsed'[v] = Floor
          /\ elapsed[v] = Floor => elapsed'[v] = Floor
      BY <3>2, ElapsedGoesOn
    <3> QED  BY <1>1, <2>4, <3>3, <3>4
  <2> QED  BY <1>4, <2>3, <2>4, AgeFacts
<1>5. ASSUME NEW d \in killed
      PROVE  d \in 1 .. begun /\ d <= begun' /\ outcome[d] # "ok" /\ d \in Dispatches
  <2>1. d \in Dispatches /\ d <= begun /\ outcome[d] # "ok"
    BY DEF TypeOK, KillInv
  <2> QED  BY <1>1, <2>1 DEF Dispatches
<1>6. ASSUME NEW d \in killed
      PROVE  outcome'[d] # "ok"
  <2>1. d \in Dispatches /\ outcome[d] # "ok" /\ outcome \in [Dispatches -> Outcomes]
    BY <1>5 DEF TypeOK
  <2>2. ASSUME NEW w \in Contexts, Judge(w)
        PROVE  outcome'[d] # "ok"
    <3>1. CASE d = job[w]
      <4>1. elapsed[w] = Floor
        BY <2>2, <3>1 DEF KillInv, Judge
      <4>2. ~(elapsed[w] < Floor)
        BY <1>1, <4>1
      <4>3. outcome' = [outcome EXCEPT ![job[w]] = "deadline_exceeded"]
        BY <2>2, <4>2 DEF Judge, Break
      <4> QED  BY <2>1, <3>1, <4>3
    <3>2. CASE d # job[w]
      <4>1. Continues(w)
        BY <2>2, WorkerContinues
      <4> QED  BY <2>1, <3>2, <4>1 DEF Continues
    <3> QED  BY <3>1, <3>2
  <2>3. ASSUME NEW w \in Contexts, Write(w) \/ Submit(w) \/ Wait(w)
        PROVE  outcome' = outcome \/ outcome' = [outcome EXCEPT ![job[w]] = "unavailable"]
    BY <2>3, WorkerMoves
  <2>4. \/ \E w \in Contexts : Judge(w)
        \/ \E w \in Contexts : Write(w) \/ Submit(w) \/ Wait(w)
        \/ outcome' = outcome
    BY DEF Next, WorkerStep, Begin, Wake, Allocate, Drop, Start, Complete, Kill, Signal, Tick, planVars
  <2> QED  BY <2>1, <2>2, <2>3, <2>4
<1>7. ASSUME NEW v \in Contexts, job'[v] \in killed
      PROVE  /\ phase'[v] \in {"submit", "wait", "judge", "drop"}
             /\ phase'[v] # "drop" => elapsed'[v] = Floor
  <2>1. PICK d \in 1 .. begun : d = job'[v] /\ d \in killed
    BY <1>5, <1>7
  <2>2. job[v] = d /\ (Working(v)' => Working(v))
    BY <2>1, JobKept
  <2>3. Posted(d, 0)
    <3> SUFFICES ASSUME NEW u \in Contexts, job[u] = d
                 PROVE  phase[u] \in {"submit", "wait", "judge", "drop"} /\ 0 < next[u]
      BY DEF Posted
    <3>1. next[u] \in Nat \ {0}
      BY DEF TypeOK
    <3>2. 0 < next[u]
      BY <3>1
    <3> QED  BY <2>1, <3>2 DEF KillInv
  <2>4. Posted(d, 0)'
    BY <2>3, PostedKept
  <2>5. phase'[v] \in {"submit", "wait", "judge", "drop"}
    BY <2>1, <2>4 DEF Posted
  <2>6. ASSUME phase'[v] # "drop"
        PROVE  elapsed'[v] = Floor
    <3>1. Working(v)
      BY <2>2, <2>5, <2>6 DEF Working
    <3>2. phase[v] \in {"submit", "wait", "judge", "drop"} /\ elapsed[v] = Floor
      BY <2>1, <2>2, <3>1 DEF KillInv, Working
    <3> QED  BY <3>2, ElapsedGoesOn
  <2> QED  BY <2>5, <2>6
<1>8. ASSUME NEW k \in Cores, Kill(k)
      PROVE  KillInv'
  <2>1. /\ running[k] # Idle /\ killed' = killed \cup {running[k].dispatch} /\ age[k] = Watchdog
        /\ UNCHANGED <<outcome, phase, job, elapsed, begun>>
    BY <1>8 DEF Kill, Signal, workerVars, planVars
  <2>2. PICK t \in InFlight : /\ t = running[k] /\ t.dispatch \in 1 .. begun
                              /\ t.index \in Nat /\ Posted(t.dispatch, t.index)
    BY <1>2, <2>1
  <2>3. outcome[t.dispatch] # "ok"
    <3>1. ~AllDone(t.dispatch) /\ t.dispatch \in Dispatches
      BY FlightNotDone, FlightType DEF Tasks
    <3> QED  BY <3>1 DEF DoneInv
  <2>4. ASSUME NEW v \in Contexts, job[v] = t.dispatch
        PROVE  /\ phase[v] \in {"submit", "wait", "judge", "drop"}
               /\ phase[v] # "drop" => elapsed[v] = Floor
    <3>1. phase[v] \in {"submit", "wait", "judge", "drop"}
      BY <2>2, <2>4 DEF Posted
    <3>2. ASSUME phase[v] # "drop"
          PROVE  elapsed[v] = Floor
      <4>1. elapsed[v] >= age[k] \/ elapsed[v] = Floor
        BY <2>1, <2>2, <2>4, <3>1, <3>2 DEF KillInv, Working
      <4>2. elapsed[v] \in Nat /\ elapsed[v] <= Floor
        BY <3>1, ElapsedGoesOn
      <4> QED  BY <1>1, <2>1, <4>1, <4>2
    <3> QED  BY <3>1, <3>2
  <2>5. \A d \in killed' : d <= begun' /\ outcome'[d] # "ok"
    BY <1>5, <1>6, <2>1, <2>2, <2>3
  <2>6. \A v \in Contexts : job'[v] \in killed' =>
          /\ phase'[v] \in {"submit", "wait", "judge", "drop"}
          /\ phase'[v] # "drop" => elapsed'[v] = Floor
    BY <1>7, <2>1, <2>2, <2>4
  <2> QED  BY <1>4, <2>5, <2>6 DEF KillInv
<1>9. ASSUME killed' = killed
      PROVE  KillInv'
  BY <1>4, <1>5, <1>6, <1>7, <1>9 DEF KillInv
<1>10. (\E k \in Cores : Kill(k)) \/ killed' = killed
  BY DEF Next, WorkerStep, Begin, Wake, Allocate, Write, Submit, Wait, Judge, Drop, Start, Complete, Tick, hwVars
<1> QED  BY <1>8, <1>9, <1>10

\* An OK is given after the fences of all the tasks of a dispatch, and to none
\* that lost one to the watchdog.
LEMMA OkJustified ==
  ASSUME DoneInv, KillInv
  PROVE  OkMeansDone
BY DEF OkMeansDone, DoneInv, KillInv, AllDone

-----------------------------------------------------------------------------
(* Register programs.                                                      *)

\* A worker keeps its BOs from the first write to the outcome.
LEMMA BuffersHeld ==
  ASSUME TypeOK, JobInv, Next, NEW v \in Contexts, phase[v] \in {"write", "submit", "wait", "judge"}
  PROVE  cmdBufs'[v] = cmdBufs[v] /\ job'[v] = job[v]
<1>1. cmdBufs \in [Contexts -> Seq(Buffers)] /\ job \in [Contexts -> 0 .. NumDispatches]
  BY DEF TypeOK
<1>2. ASSUME NEW w \in Contexts, NEW shape \in Shapes, Begin(w, shape)
      PROVE  cmdBufs'[v] = cmdBufs[v] /\ job'[v] = job[v]
  BY <1>2, BeginFacts DEF Begin
<1>3. ASSUME NEW w \in Contexts, Allocate(w)
      PROVE  cmdBufs'[v] = cmdBufs[v] /\ job'[v] = job[v]
  BY <1>1, <1>3 DEF Allocate
<1>4. ASSUME NEW w \in Contexts, Drop(w)
      PROVE  cmdBufs'[v] = cmdBufs[v] /\ job'[v] = job[v]
  BY <1>4, DropFacts
<1>5. \/ \E w \in Contexts, shape \in Shapes : Begin(w, shape)
      \/ \E w \in Contexts : Allocate(w) \/ Drop(w)
      \/ UNCHANGED <<cmdBufs, job>>
  BY DEF Next, WorkerStep, Wake, Write, Submit, Wait, Judge, Start, Complete, Kill, Signal, Tick, workerVars
<1> QED  BY <1>2, <1>3, <1>4, <1>5

\* A written program is in a BO of its worker.
LEMMA WrittenFacts ==
  ASSUME TypeOK, JobInv, PlanInv, LoopInv, NEW v \in Contexts, NEW i \in Written(v)
  PROVE  i \in DOMAIN cmdBufs[v] /\ phase[v] \in {"write", "submit", "wait", "judge"}
<1>1. CASE phase[v] = "write"
  <2>1. next[v] \in DOMAIN cmdBufs[v] /\ next[v] \in Nat /\ cmdBufs[v] \in Seq(Buffers)
    BY <1>1, LoopFacts DEF TypeOK
  <2>2. i \in 1 .. next[v] - 1
    BY <1>1 DEF Written
  <2>3. i \in DOMAIN cmdBufs[v]
    BY <2>1, <2>2
  <2> QED  BY <1>1, <2>3
<1> QED  BY <1>1 DEF Written

\* What a worker has written after a step it had written before, unless the step
\* was its own write.
LEMMA WrittenBefore ==
  ASSUME TypeOK, JobInv, PlanInv, LoopInv, Next, NEW v \in Contexts, ~Write(v), NEW i \in Written(v)'
  PROVE  i \in Written(v)
<1>1. phase'[v] \in {"write", "submit", "wait", "judge"} /\ (phase'[v] = "write" => i \in 1 .. next'[v] - 1)
  BY DEF Written
<1>2. ASSUME phase'[v] = phase[v], next'[v] = next[v]
      PROVE  i \in Written(v)
  <2>1. cmdBufs'[v] = cmdBufs[v]
    BY <1>1, <1>2, BuffersHeld
  <2> QED  BY <1>2, <2>1 DEF Written
<1>3. ASSUME phase[v] \in {"submit", "wait"}, phase'[v] \in {"submit", "wait", "judge"}
      PROVE  i \in Written(v)
  <2>1. cmdBufs'[v] = cmdBufs[v]
    BY <1>3, BuffersHeld
  <2> QED  BY <1>3, <2>1 DEF Written
<1>4. ASSUME NEW w \in Contexts, NEW shape \in Shapes, Begin(w, shape)
      PROVE  i \in Written(v)
  <2>1. /\ phase'[w] = "dwell" /\ next' = next
        /\ \A u \in Contexts \ {w} : phase'[u] = phase[u]
    BY <1>4, BeginFacts DEF Begin
  <2> QED  BY <1>1, <1>2, <2>1
<1>5. ASSUME NEW w \in Contexts, v # w,
             Wake(w) \/ Allocate(w) \/ Write(w) \/ Submit(w) \/ Wait(w) \/ Judge(w)
      PROVE  i \in Written(v)
  <2>1. phase'[v] = phase[v] /\ next'[v] = next[v]
    BY <1>5, WorkerContinues DEF Continues, Turns
  <2> QED  BY <1>2, <2>1
<1>6. ASSUME Allocate(v) \/ Submit(v) \/ Wait(v)
      PROVE  i \in Written(v)
  <2>1. phase[v] = "allocate" => phase'[v] = "allocate" \/ (phase'[v] = "write" /\ next'[v] = 1)
    BY <1>1, <1>6, WorkerMoves
  <2>2. phase[v] # "allocate"
    BY <1>1, <2>1
  <2>3. phase[v] \in {"submit", "wait"}
    BY <1>6, <2>2 DEF Allocate, Submit, Wait
  <2>4. phase'[v] \in {"submit", "wait", "judge"}
    BY <1>1, <1>6, <2>3, WorkerMoves
  <2> QED  BY <1>3, <2>3, <2>4
<1>7. ~Judge(v)
  BY <1>1, WorkerMoves
<1>8. ~Wake(v)
  BY <1>1 DEF Wake, TypeOK
<1>9. ASSUME NEW w \in Contexts, Drop(w)
      PROVE  i \in Written(v)
  BY <1>1, <1>2, <1>9, DropFacts
<1>10. Outside => i \in Written(v)
  BY <1>2, OutsideFrame
<1> QED  BY <1>4, <1>5, <1>6, <1>7, <1>8, <1>9, <1>10 DEF Next, WorkerStep, Outside

\* A step writes a program into a BO of its own worker only.
LEMMA ProgramStep ==
  ASSUME TypeOK, JobInv, PlanInv, LoopInv, PoolExclusive, TaskInv, ProgramInv, Next
  PROVE  ProgramInv'
<1>1. ASSUME NEW w \in Contexts, Write(w)
      PROVE  /\ phase[w] = "write" /\ next[w] \in DOMAIN cmdBufs[w] /\ next[w] \in Nat \ {0}
             /\ program'[cmdBufs[w][next[w]]] = <<job[w], next[w]>>
             /\ \A b \in Buffers : b # cmdBufs[w][next[w]] => program'[b] = program[b]
             /\ cmdBufs' = cmdBufs /\ job' = job
  <2>1. phase[w] = "write" /\ cmdBufs' = cmdBufs /\ job' = job
        /\ program' = [program EXCEPT ![cmdBufs[w][next[w]]] = <<job[w], next[w]>>]
    BY <1>1 DEF Write
  <2>2. program \in [Buffers -> {<<>>} \cup Names]
    BY DEF TypeOK
  <2>3. next[w] \in DOMAIN cmdBufs[w] /\ next[w] \in Nat \ {0} /\ cmdBufs[w][next[w]] \in Buffers
    BY <2>1, LoopFacts
  <2> QED  BY <2>1, <2>2, <2>3
<1>2. ASSUME NEW v \in Contexts, NEW i \in Written(v)
      PROVE  /\ cmdBufs'[v] = cmdBufs[v] /\ job'[v] = job[v] /\ i \in DOMAIN cmdBufs[v]
             /\ cmdBufs[v][i] \in Buffers /\ program[cmdBufs[v][i]] = <<job[v], i>>
  BY WrittenFacts, BuffersHeld, BufferFacts DEF ProgramInv
<1>3. (\E w \in Contexts : Write(w)) \/ program' = program
  BY DEF Next, WorkerStep, Begin, Wake, Allocate, Submit, Wait, Judge, Drop, Start, Complete, Kill,
         Signal, Tick, poolVars
<1>4. ASSUME NEW v \in Contexts, NEW i \in Written(v)'
      PROVE  program'[cmdBufs'[v][i]] = <<job'[v], i>>
  <2>1. CASE ~Write(v)
    <3>1. i \in Written(v)
      BY <2>1, WrittenBefore
    <3>2. ASSUME NEW w \in Contexts, Write(w)
          PROVE  program'[cmdBufs[v][i]] = program[cmdBufs[v][i]]
      <4>1. next[w] \in DOMAIN cmdBufs[w] /\ v # w
        BY <1>1, <2>1, <3>2
      <4>2. cmdBufs[v][i] # cmdBufs[w][next[w]]
        BY <1>2, <3>1, <4>1 DEF PoolExclusive
      <4> QED  BY <1>1, <1>2, <3>1, <3>2, <4>2
    <3> QED  BY <1>2, <1>3, <3>1, <3>2
  <2>2. CASE Write(v)
    <3>1. /\ phase[v] = "write" /\ next[v] \in DOMAIN cmdBufs[v] /\ next[v] \in Nat \ {0}
          /\ program'[cmdBufs[v][next[v]]] = <<job[v], next[v]>>
          /\ \A b \in Buffers : b # cmdBufs[v][next[v]] => program'[b] = program[b]
          /\ cmdBufs' = cmdBufs /\ job' = job
      BY <1>1, <2>2
    <3>2. i \in 1 .. next[v]
      <4>1. Len(cmdBufs[v]) = Len(Targets(v)) /\ cmdBufs[v] \in Seq(Buffers)
        BY <3>1 DEF LoopInv, LoopAt, TypeOK
      <4>2. \/ phase'[v] = "write" /\ next'[v] = next[v] + 1
            \/ phase'[v] = "submit" /\ next[v] = Len(Targets(v))
            \/ phase'[v] = "drop"
        BY <2>2, <3>1, WorkerMoves
      <4>3. CASE phase'[v] = "write" /\ next'[v] = next[v] + 1
        BY <3>1, <4>3 DEF Written
      <4>4. CASE phase'[v] = "submit" /\ next[v] = Len(Targets(v))
        <5>1. i \in DOMAIN cmdBufs[v]
          BY <3>1, <4>4 DEF Written
        <5> QED  BY <4>1, <4>4, <5>1
      <4>5. CASE phase'[v] = "drop"
        BY <4>5 DEF Written
      <4> QED  BY <4>2, <4>3, <4>4, <4>5
    <3>3. CASE i = next[v]
      BY <3>1, <3>3
    <3>4. CASE i # next[v]
      <4>1. i \in 1 .. next[v] - 1
        BY <3>1, <3>2, <3>4
      <4>2. i \in Written(v)
        BY <3>1, <4>1 DEF Written
      <4>3. cmdBufs[v][i] # cmdBufs[v][next[v]]
        BY <1>2, <3>1, <3>4, <4>2 DEF PoolExclusive
      <4> QED  BY <1>2, <3>1, <4>2, <4>3
    <3> QED  BY <3>3, <3>4
  <2> QED  BY <2>1, <2>2
<1>5. ASSUME NEW t \in InFlight, NEW v \in Contexts, job'[v] = t.dispatch, Working(v)'
      PROVE  t.bo = cmdBufs'[v][t.index]
  <2>1. t \in Tasks /\ t.dispatch <= begun /\ Posted(t.dispatch, t.index)
    BY FlightType DEF TaskInv, Flying
  <2>2. t.dispatch \in 1 .. begun
    BY <2>1, TaskFacts
  <2>3. job[v] = t.dispatch /\ Working(v)
    BY <1>5, <2>2, JobKept
  <2>4. phase[v] \in {"write", "submit", "wait", "judge"}
    BY <2>1, <2>3 DEF Posted, Working
  <2>5. cmdBufs'[v] = cmdBufs[v]
    BY <2>4, BuffersHeld
  <2> QED  BY <2>3, <2>5 DEF ProgramInv
<1>6. ASSUME NEW t \in InFlight', NEW v \in Contexts, job'[v] = t.dispatch, Working(v)'
      PROVE  t.bo = cmdBufs'[v][t.index]
  <2>1. CASE t \in InFlight
    BY <1>5, <1>6, <2>1
  <2>2. CASE t \notin InFlight
    <3>1. PICK w \in Contexts : Submit(w) /\ t = NewTask(w)
      BY <2>2, FlightGrows
    <3>2. t = NewTask(w)
      BY <3>1
    <3>3. t.dispatch = job[w] /\ t.index = next[w] /\ t.bo = cmdBufs[w][next[w]]
      BY <3>2 DEF NewTask
    <3>4. job' = job /\ cmdBufs' = cmdBufs /\ phase[w] = "submit"
      BY <3>1 DEF Submit
    <3>5. job[w] # 0
      BY <3>4 DEF JobInv
    <3>6. v = w
      BY <1>6, <3>3, <3>4, <3>5 DEF JobInv
    <3> QED  BY <3>3, <3>4, <3>6
  <2> QED  BY <2>1, <2>2
<1> QED  BY <1>4, <1>6 DEF ProgramInv

-----------------------------------------------------------------------------
(* The depthwise-to-dense dwell.                                           *)

\* An outcome is given to the dispatch of a worker, and only judge gives OK.
LEMMA OutcomeFacts ==
  ASSUME TypeOK, JobInv, PlanInv, LoopInv, Next, NEW d \in Dispatches
  PROVE  /\ outcome[d] = "ok" => outcome'[d] = "ok"
         /\ outcome'[d] = "ok" =>
              \/ outcome[d] = "ok"
              \/ \E w \in Contexts : Judge(w) /\ job[w] = d /\ elapsed[w] < Floor
<1>1. outcome \in [Dispatches -> Outcomes]
  BY DEF TypeOK
<1>2. ASSUME NEW w \in Contexts, Continues(w)
      PROVE  /\ outcome[d] = "ok" => outcome'[d] = "ok"
             /\ d # job[w] => outcome'[d] = outcome[d]
  <2>1. outcome[job[w]] = "none" /\ (outcome' = outcome \/ \A e \in Dispatches \ {job[w]} : outcome'[e] = outcome[e])
    BY <1>2 DEF Continues, JobInv
  <2> QED  BY <2>1
<1>3. ASSUME NEW w \in Contexts, Judge(w)
      PROVE  /\ outcome[d] = "ok" => outcome'[d] = "ok"
             /\ outcome'[d] = "ok" => outcome[d] = "ok" \/ (job[w] = d /\ elapsed[w] < Floor)
  <2>1. /\ outcome[d] = "ok" => outcome'[d] = "ok"
        /\ d # job[w] => outcome'[d] = outcome[d]
    BY <1>2, <1>3, WorkerContinues
  <2>2. ~(elapsed[w] < Floor) => outcome' = [outcome EXCEPT ![job[w]] = "deadline_exceeded"]
    BY <1>3 DEF Judge, Break
  <2>3. job[w] = d /\ ~(elapsed[w] < Floor) => outcome'[d] # "ok"
    BY <1>1, <2>2
  <2> QED  BY <2>1, <2>3
<1>4. ASSUME NEW w \in Contexts, Allocate(w) \/ Write(w) \/ Submit(w) \/ Wait(w)
      PROVE  /\ outcome[d] = "ok" => outcome'[d] = "ok"
             /\ outcome'[d] = "ok" => outcome[d] = "ok"
  <2>1. outcome' = outcome \/ outcome' = [outcome EXCEPT ![job[w]] = "unavailable"]
    BY <1>4, WorkerMoves
  <2>2. outcome'[d] = "ok" => outcome[d] = "ok"
    BY <1>1, <2>1
  <2> QED  BY <1>2, <1>4, <2>2, WorkerContinues
<1>5. \/ \E w \in Contexts : Judge(w) \/ Allocate(w) \/ Write(w) \/ Submit(w) \/ Wait(w)
      \/ outcome' = outcome
  BY DEF Next, WorkerStep, Begin, Wake, Drop, Start, Complete, Kill, Signal, Tick, planVars
<1> QED  BY <1>3, <1>4, <1>5

\* A core that completes a depthwise task has done so for a dispatch that has
\* not reported OK yet.
LEMMA CoreQuiet ==
  ASSUME TypeOK, JobInv, PlanInv, LoopInv, TaskInv, DoneInv, Next, NEW k \in Cores
  PROVE  \/ lastDw'[k] = 0
         \/ /\ lastDw'[k] = lastDw[k]
            /\ \/ quiet'[k] = quiet[k]
               \/ Tick /\ quiet'[k] = Later(quiet[k], Quiescence)
         \/ /\ lastDw'[k] \in 1 .. begun /\ plan[lastDw'[k]].mode = "depthwise"
            /\ outcome[lastDw'[k]] # "ok" /\ outcome' = outcome
<1>1. lastDw \in [Cores -> 0 .. NumDispatches] /\ quiet \in [Cores -> 0 .. Quiescence]
  BY DEF TypeOK
<1>2. ASSUME NEW l \in Cores, Kill(l)
      PROVE  lastDw'[k] = 0 \/ (lastDw'[k] = lastDw[k] /\ quiet'[k] = quiet[k])
  BY <1>1, <1>2 DEF Kill
<1>3. ASSUME Complete(k), running[k].mode = "depthwise"
      PROVE  /\ lastDw'[k] \in 1 .. begun /\ plan[lastDw'[k]].mode = "depthwise"
             /\ outcome[lastDw'[k]] # "ok" /\ outcome' = outcome
  <2>1. /\ lastDw'[k] = running[k].dispatch /\ outcome' = outcome /\ running[k] # Idle
    BY <1>1, <1>3 DEF Complete, Signal, planVars
  <2>2. running[k] \in InFlight
    BY <2>1, FlightPlaces
  <2>3. PICK t \in InFlight : t = running[k]
    BY <2>2
  <2>4. t \in Tasks /\ Flying(t) /\ t.dispatch <= begun
    BY FlightType DEF TaskInv, Flying
  <2>5. t.dispatch \in 1 .. begun /\ t.dispatch \in Dispatches
    BY <2>4, TaskFacts
  <2>6. plan[t.dispatch].mode = "depthwise"
    BY <1>3, <2>3, <2>4 DEF Flying
  <2>7. outcome[t.dispatch] # "ok"
    BY <2>5, FlightNotDone DEF DoneInv
  <2> QED  BY <2>1, <2>3, <2>5, <2>6, <2>7
<1>4. ASSUME NEW l \in Cores, Complete(l), ~(l = k /\ running[k].mode = "depthwise")
      PROVE  lastDw'[k] = lastDw[k] /\ quiet'[k] = quiet[k]
  BY <1>1, <1>4 DEF Complete
<1>5. Tick => lastDw'[k] = lastDw[k] /\ quiet'[k] = Later(quiet[k], Quiescence)
  BY DEF Tick
<1>6. \/ \E l \in Cores : Kill(l) \/ Complete(l)
      \/ Tick
      \/ UNCHANGED <<lastDw, quiet>>
  BY DEF Next, WorkerStep, Begin, Wake, Allocate, Write, Submit, Wait, Judge, Drop, Start, hwVars
<1> QED  BY <1>2, <1>3, <1>4, <1>5, <1>6

\* What a dispatch that has begun finds on the cores only gets quieter.
LEMMA QuietedKept ==
  ASSUME TypeOK, JobInv, PlanInv, LoopInv, TaskInv, DoneInv, QuietInv, Next,
         NEW d \in 1 .. begun, NEW m \in Nat, Quieted(d, m)
  PROVE  /\ Quieted(d, m)'
         /\ Tick => Quieted(d, IF m > 0 THEN m - 1 ELSE 0)'
<1>1. d \in Dispatches /\ before'[d] = before[d]
  BY PlanKept
<1>2. ASSUME NEW k \in Cores, lastDw'[k] \in before'[d]
      PROVE  /\ quiet'[k] + m >= Quiescence
             /\ Tick => quiet'[k] + (IF m > 0 THEN m - 1 ELSE 0) >= Quiescence
  <2>1. before[d] \subseteq Dispatches /\ quiet[k] \in 0 .. Quiescence
    BY <1>1 DEF TypeOK
  <2>2. lastDw'[k] \in before[d] /\ lastDw'[k] # 0 /\ outcome[lastDw'[k]] = "ok"
    <3>1. 0 \notin Dispatches
      BY DEF Dispatches
    <3> QED  BY <1>1, <1>2, <2>1, <3>1 DEF QuietInv
  <2>3. /\ lastDw'[k] = lastDw[k]
        /\ \/ quiet'[k] = quiet[k]
           \/ Tick /\ quiet'[k] = Later(quiet[k], Quiescence)
    BY <2>2, CoreQuiet
  <2>4. quiet[k] + m >= Quiescence
    BY <2>2, <2>3 DEF Quieted
  <2>5. Quiescence \in Nat /\ quiet[k] \in Nat /\ quiet[k] <= Quiescence
    BY <2>1, Bounds
  <2>6. ASSUME quiet'[k] = Later(quiet[k], Quiescence)
        PROVE  /\ quiet'[k] + m >= Quiescence
               /\ quiet'[k] + (IF m > 0 THEN m - 1 ELSE 0) >= Quiescence
    BY <2>4, <2>5, <2>6 DEF Later
  <2>7. Tick => quiet'[k] = Later(quiet[k], Quiescence)
    BY DEF Tick
  <2> QED  BY <2>3, <2>4, <2>6, <2>7
<1> QED  BY <1>2 DEF Quieted

\* A step keeps the hazard clock behind every core that an OK depthwise dispatch
\* has left, so that the dwell it is turned into is long enough.
LEMMA QuietStep ==
  ASSUME TypeOK, JobInv, PlanInv, LoopInv, TaskInv, DoneInv, QuietInv, Next
  PROVE  QuietInv'
<1>1. /\ begun \in Nat /\ begun' \in Nat /\ begun' >= begun
      /\ \A d \in 1 .. begun : d \in Dispatches /\ plan'[d] = plan[d] /\ before'[d] = before[d]
  BY PlanKept
<1>2. /\ lastDw \in [Cores -> 0 .. NumDispatches] /\ quiet \in [Cores -> 0 .. Quiescence]
      /\ hazard \in 0 .. Quiescence /\ before \in [Dispatches -> SUBSET Dispatches]
  BY DEF TypeOK
<1>3. ASSUME NEW d \in Dispatches, NEW e \in before'[d]
      PROVE  outcome'[e] = "ok"
  <2>1. ASSUME NEW w \in Contexts, NEW shape \in Shapes, Begin(w, shape)
        PROVE  e \in Dispatches /\ outcome[e] = "ok"
    <3>1. \/ before'[d] = before[d]
          \/ before'[d] = {f \in Dispatches : outcome[f] = "ok"}
      BY <2>1, BeginFacts
    <3> QED  BY <1>2, <1>3, <3>1 DEF QuietInv
  <2>2. (\E w \in Contexts, shape \in Shapes : Begin(w, shape)) \/ before' = before
    BY DEF Next, WorkerStep, Wake, Allocate, Write, Submit, Wait, Judge, Drop, Start, Complete, Kill,
           Signal, Tick, planVars
  <2>3. before' = before => e \in Dispatches /\ outcome[e] = "ok"
    BY <1>2, <1>3 DEF QuietInv
  <2> QED  BY <2>1, <2>2, <2>3, OutcomeFacts
<1>4. ASSUME NEW k \in Cores, lastDw[k] # 0
      PROVE  lastDw[k] \in 1 .. begun /\ plan[lastDw[k]].mode = "depthwise" /\ lastDw[k] \in Dispatches
  <2>1. lastDw[k] \in 0 .. NumDispatches /\ lastDw[k] <= begun /\ plan[lastDw[k]].mode = "depthwise"
    BY <1>2, <1>4 DEF QuietInv
  <2>2. lastDw[k] \in 1 .. begun
    BY <1>1, <1>4, <2>1
  <2> QED  BY <1>1, <2>1, <2>2
<1>5. ASSUME NEW k \in Cores, lastDw'[k] # 0
      PROVE  plan'[lastDw'[k]].mode = "depthwise" /\ lastDw'[k] <= begun'
  <2>1. lastDw'[k] \in 1 .. begun /\ plan[lastDw'[k]].mode = "depthwise"
    BY <1>4, <1>5, CoreQuiet
  <2> QED  BY <1>1, <2>1
<1>6. ASSUME NEW k \in Cores, lastDw'[k] # 0, outcome'[lastDw'[k]] = "ok"
      PROVE  quiet'[k] >= hazard'
  <2>1. /\ lastDw'[k] = lastDw[k]
        /\ quiet'[k] = quiet[k] \/ (Tick /\ quiet'[k] = Later(quiet[k], Quiescence))
    BY <1>6, CoreQuiet
  <2>2. lastDw[k] \in Dispatches /\ lastDw[k] \in 1 .. begun /\ plan[lastDw[k]].mode = "depthwise"
    BY <1>4, <1>6, <2>1
  <2>3. quiet[k] \in Nat /\ hazard \in Nat /\ Quiescence \in Nat /\ quiet[k] <= Quiescence /\ hazard <= Quiescence
    BY <1>2, Bounds
  <2>4. CASE \E w \in Contexts : Judge(w) /\ job[w] = lastDw[k] /\ elapsed[w] < Floor
    <3>1. PICK w \in Contexts : Judge(w) /\ job[w] = lastDw[k] /\ elapsed[w] < Floor
      BY <2>4
    <3>2. hazard' = 0 /\ quiet' = quiet
      <4>1. elapsed[w] \in Nat /\ Floor \in Nat /\ elapsed \in [Contexts -> 0 .. Floor]
        <5>1. elapsed \in [Contexts -> 0 .. Floor]
          BY DEF TypeOK
        <5> QED  BY <5>1, Bounds
      <4>2. ~(elapsed[w] >= Floor)
        BY <3>1, <4>1
      <4> QED  BY <2>2, <3>1, <4>2 DEF Judge, Mode, hwVars
    <3> QED  BY <2>3, <3>2
  <2>5. CASE ~\E w \in Contexts : Judge(w) /\ job[w] = lastDw[k] /\ elapsed[w] < Floor
    <3>1. outcome[lastDw[k]] = "ok"
      BY <1>6, <2>1, <2>2, <2>5, OutcomeFacts
    <3>2. quiet[k] >= hazard
      BY <1>6, <2>1, <3>1 DEF QuietInv
    <3>3. CASE Tick
      <4>1. quiet'[k] = Later(quiet[k], Quiescence) /\ hazard' = Later(hazard, Quiescence)
        BY <3>3 DEF Tick
      <4> QED  BY <2>3, <3>2, <4>1 DEF Later
    <3>4. CASE ~Tick
      <4>1. hazard' = hazard \/ hazard' = 0
        BY <3>4 DEF Next, WorkerStep, Begin, Wake, Allocate, Write, Submit, Wait, Judge, Drop, Start,
                    Complete, Kill, Signal
      <4> QED  BY <2>1, <2>3, <3>2, <3>4, <4>1
    <3> QED  BY <3>3, <3>4
  <2> QED  BY <2>4, <2>5
<1>7. ASSUME NEW v \in Contexts, Working(v)', Mode(v)' = "dense"
      PROVE  Quieted(job[v], dwell[v])'
  <2>1. ASSUME phase[v] # "idle", job'[v] = job[v], Working(v)
        PROVE  Quieted(job[v], dwell[v])'
    <3>1. Mode(v)' = Mode(v) /\ job[v] \in 1 .. begun
      BY <2>1, TargetsKept, WorkerFacts
    <3>2. dwell \in [Contexts -> 0 .. Quiescence]
      BY DEF TypeOK
    <3>3. dwell[v] \in Nat
      BY <3>2, Bounds
    <3>4. PICK d \in 1 .. begun, m \in Nat : d = job[v] /\ m = dwell[v]
      BY <3>1, <3>3
    <3>5. Quieted(d, m)
      BY <1>7, <2>1, <3>1, <3>4 DEF QuietInv
    <3>6. Quieted(d, m)' /\ (Tick => Quieted(d, IF m > 0 THEN m - 1 ELSE 0)')
      BY <3>5, QuietedKept
    <3>7. CASE Tick
      <4>1. dwell'[v] = (IF m > 0 THEN m - 1 ELSE 0)
        BY <3>4, <3>7 DEF Tick
      <4> QED  BY <2>1, <3>4, <3>6, <3>7, <4>1 DEF Quieted
    <3>8. CASE ~Tick
      <4>1. dwell'[v] = dwell[v]
        <5>1. ASSUME NEW w \in Contexts, NEW shape \in Shapes, Begin(w, shape)
              PROVE  dwell'[v] = dwell[v]
          BY <2>1, <5>1, BeginFacts
        <5> QED  BY <3>8, <5>1 DEF Next, WorkerStep, Wake, Allocate, Write, Submit, Wait, Judge, Drop,
                    Start, Complete, Kill, Signal, workerVars
      <4> QED  BY <2>1, <3>4, <3>6, <4>1 DEF Quieted
    <3> QED  BY <3>7, <3>8
  <2>2. ASSUME NEW shape \in Shapes, Begin(v, shape)
        PROVE  Quieted(job[v], dwell[v])'
    <3>1. /\ begun + 1 \in Dispatches /\ job'[v] = begun + 1 /\ dwell'[v] = DwellFor(shape.mode)
          /\ before'[begun + 1] = {d \in Dispatches : outcome[d] = "ok"}
      BY <2>2, BeginFacts
    <3>5. plan'[begun + 1].mode = shape.mode
      <4>1. plan'[begun + 1] = [mode |-> shape.mode, tiles |-> shape.tiles, epilogue |-> shape.epilogue,
                                targets |-> TaskTargets(v, shape)]
        BY <2>2, BeginFacts
      <4> QED  BY <4>1
    <3>2. dwell'[v] = Quiescence - hazard
      BY <1>7, <3>1, <3>5 DEF DwellFor, Mode
    <3>3. UNCHANGED <<lastDw, quiet>>
      BY <2>2 DEF Begin, hwVars
    <3>4. ASSUME NEW k \in Cores, lastDw[k] \in before'[begun + 1]
          PROVE  quiet[k] + (Quiescence - hazard) >= Quiescence
      <4>1. lastDw[k] \in Dispatches /\ outcome[lastDw[k]] = "ok"
        BY <3>1, <3>4
      <4>2. quiet[k] >= hazard
        BY <4>1 DEF QuietInv, Dispatches
      <4>3. quiet[k] \in Nat /\ hazard \in Nat /\ Quiescence \in Nat /\ hazard <= Quiescence
        BY <1>2, Bounds
      <4> QED  BY <4>2, <4>3
    <3> QED  BY <3>1, <3>2, <3>3, <3>4 DEF Quieted
  <2>3. ASSUME NEW w \in Contexts, NEW shape \in Shapes, Begin(w, shape), v # w
        PROVE  phase[v] # "idle" /\ job'[v] = job[v] /\ Working(v)
    BY <1>7, <2>3, BeginFacts DEF Working
  <2>4. ASSUME NEW w \in Contexts, Continues(w)
        PROVE  phase[v] # "idle" /\ job'[v] = job[v] /\ Working(v)
    BY <1>7, <2>4 DEF Continues, Turns, Working
  <2>5. ASSUME NEW w \in Contexts, Drop(w)
        PROVE  phase[v] # "idle" /\ job'[v] = job[v] /\ Working(v)
    BY <1>7, <2>5, DropFacts DEF Working
  <2>6. Outside => phase[v] # "idle" /\ job'[v] = job[v] /\ Working(v)
    BY <1>7, OutsideFrame DEF Working
  <2> QED  BY <2>1, <2>2, <2>3, <2>4, <2>5, <2>6, NextCases
<1>8. ASSUME NEW t \in InFlight', t.mode = "dense"
      PROVE  Quieted(t.dispatch, 0)'
  <2>1. CASE t \in InFlight
    <3>1. t \in Tasks /\ t.dispatch <= begun
      BY <2>1, FlightType DEF TaskInv, Flying
    <3>2. PICK d \in 1 .. begun : d = t.dispatch
      BY <3>1, TaskFacts
    <3>3. Quieted(d, 0)
      BY <1>8, <2>1, <3>2 DEF QuietInv
    <3> QED  BY <3>2, <3>3, QuietedKept
  <2>2. CASE t \notin InFlight
    <3>1. PICK w \in Contexts : Submit(w) /\ t = NewTask(w)
      BY <2>2, FlightGrows
    <3>2. t = NewTask(w)
      BY <3>1
    <3>3. t.dispatch = job[w] /\ TaskMode(w, next[w]) = "dense"
      BY <1>8, <3>2 DEF NewTask
    <3>4. Mode(w) = "dense" /\ phase[w] = "submit"
      BY <3>1, <3>3 DEF TaskMode, Submit
    <3>5. dwell[w] = 0
      BY <3>4 DEF LoopInv, LoopAt
    <3>6. PICK d \in 1 .. begun : d = job[w]
      BY <3>4, WorkerFacts
    <3>7. Quieted(d, 0)
      BY <3>4, <3>5, <3>6 DEF QuietInv, Working
    <3> QED  BY <3>3, <3>6, <3>7, QuietedKept
  <2> QED  BY <2>1, <2>2
<1> QED  BY <1>3, <1>5, <1>6, <1>7, <1>8 DEF QuietInv

\* A step starts no dense task on a core that an ordered depthwise dispatch has
\* left too short a time ago.
LEMMA GapStep ==
  ASSUME TypeOK, JobInv, PlanInv, LoopInv, TaskInv, DoneInv, QuietInv, OrderedDenseQuiesced, Next
  PROVE  OrderedDenseQuiesced'
<1> SUFFICES ASSUME NEW k \in Cores, running'[k] # Idle, running'[k].mode = "dense",
                    lastDw'[k] \in before'[running'[k].dispatch]
             PROVE  gap'[k] >= Quiescence
  BY DEF OrderedDenseQuiesced
<1>1. running \in [Cores -> Tasks \cup {Idle}] /\ gap \in [Cores -> 0 .. Quiescence]
      /\ lastDw \in [Cores -> 0 .. NumDispatches]
  BY DEF TypeOK
<1>2. ASSUME running[k] # Idle
      PROVE  before'[running[k].dispatch] = before[running[k].dispatch]
  <2>1. running[k] \in InFlight
    BY <1>2, FlightPlaces
  <2>2. running[k] \in Tasks /\ running[k].dispatch <= begun
    BY <2>1, FlightType DEF TaskInv, Flying
  <2>3. running[k].dispatch \in 1 .. begun
    BY <2>2, TaskFacts
  <2> QED  BY <2>3, PlanKept
<1>3. ASSUME running'[k] = running[k], gap'[k] = gap[k], lastDw'[k] = lastDw[k]
      PROVE  gap'[k] >= Quiescence
  BY <1>2, <1>3 DEF OrderedDenseQuiesced
<1>4. ASSUME NEW c \in Contexts, Start(k, c)
      PROVE  gap'[k] >= Quiescence
  <2>1. gap'[k] = quiet[k] /\ UNCHANGED <<lastDw, before>>
    BY <1>1, <1>4 DEF Start, planVars
  <2>2. running'[k] \in InFlight
    <3>1. 1 \in DOMAIN pending[c] /\ running'[k] = pending[c][1]
      BY <1>4, StartFlight
    <3> QED  BY <3>1, FlightPlaces
  <2>3. Quieted(running'[k].dispatch, 0)
    BY <2>2 DEF QuietInv
  <2>4. quiet[k] + 0 >= Quiescence
    BY <2>1, <2>3 DEF Quieted
  <2>5. quiet \in [Cores -> 0 .. Quiescence]
    BY DEF TypeOK
  <2>6. quiet[k] \in Nat
    BY <2>5, Bounds
  <2> QED  BY <2>1, <2>4, <2>6
<1>5. ASSUME NEW l \in Cores, NEW c \in Contexts, Start(l, c), l # k
      PROVE  running'[k] = running[k] /\ gap'[k] = gap[k] /\ lastDw'[k] = lastDw[k]
  BY <1>1, <1>5 DEF Start
<1>6. ASSUME NEW l \in Cores, Signal(l)
      PROVE  l # k /\ running'[k] = running[k] /\ gap'[k] = gap[k]
  BY <1>1, <1>6 DEF Signal
<1>7. ASSUME NEW l \in Cores, Complete(l) \/ Kill(l)
      PROVE  running'[k] = running[k] /\ gap'[k] = gap[k] /\ lastDw'[k] = lastDw[k]
  BY <1>1, <1>6, <1>7 DEF Complete, Kill
<1>8. \/ \E l \in Cores, c \in Contexts : Start(l, c)
      \/ \E l \in Cores : Complete(l) \/ Kill(l)
      \/ UNCHANGED <<running, gap, lastDw>>
  BY DEF Next, WorkerStep, Begin, Wake, Allocate, Write, Submit, Wait, Judge, Drop, Tick, hwVars
<1> QED  BY <1>3, <1>4, <1>5, <1>7, <1>8

-----------------------------------------------------------------------------
(* The theorems.                                                           *)

\* The driver starts with every worker idle, every queue and list empty.
LEMMA InitInv ==
  ASSUME Init
  PROVE  IInv
<1>1. TypeOK
  <2>1. NoPlan \in Plans
    <3>1. <<>> \in Seq(Contexts)
      OBVIOUS
    <3> QED  BY <3>1 DEF NoPlan, Plans, Modes
  <2>2. plan \in [Dispatches -> Plans]
    BY <2>1 DEF Init
  <2>3. /\ 0 \in 0 .. NumBuffers /\ 1 \in Nat \ {0}
        /\ 0 \in 0 .. Floor /\ 0 \in 0 .. Watchdog /\ 0 \in 0 .. NumDispatches
        /\ 0 \in 0 .. Quiescence /\ Quiescence \in 0 .. Quiescence
    BY Ends, Bounds
  <2>4. {"none", "idle"} \subseteq Outcomes \cup Phases /\ "none" \in Outcomes /\ "idle" \in Phases
    BY DEF Outcomes, Phases
  <2> QED  BY <2>2, <2>3, <2>4 DEF Init, TypeOK
<1>2. InFlight = {}
  BY DEF Init, InFlight
<1>3. JobInv
  BY Bounds DEF Init, JobInv, Working, Dispatches
<1>4. PlanInv
  BY DEF Init, PlanInv
<1>5. LoopInv
  BY DEF Init, LoopInv, LoopAt
<1>6. FileInv /\ PoolExclusive
  <2>1. PooledBuffers = {}
    BY DEF Init, PooledBuffers
  <2> QED  BY <2>1 DEF Init, FileInv, PoolExclusive
<1>7. TaskInv /\ OrderInv
  BY <1>2 DEF Init, TaskInv, OrderInv
<1>8. SentInv
  BY <1>2 DEF Init, SentInv, Sent
<1>9. DoneInv /\ KillInv
  BY DEF Init, DoneInv, KillInv
<1>10. ProgramInv
  BY <1>2 DEF Init, ProgramInv, Written
<1>11. QuietInv /\ OrderedDenseQuiesced
  BY <1>2 DEF Init, QuietInv, OrderedDenseQuiesced, Working
<1> QED  BY <1>1, <1>3, <1>4, <1>5, <1>6, <1>7, <1>8, <1>9, <1>10, <1>11 DEF IInv

\* Every step keeps the inductive invariant.
LEMMA NextInv ==
  ASSUME IInv, [Next]_vars
  PROVE  IInv'
<1>1. CASE Next
  <2>1. TypeOK'
    BY <1>1, TypeStep DEF IInv
  <2>2. JobInv' /\ PlanInv' /\ LoopInv'
    BY <1>1, JobStep, PlanStep, LoopStep DEF IInv
  <2>3. FileInv' /\ PoolExclusive'
    BY <1>1, PoolStep DEF IInv
  <2>4. TaskInv' /\ OrderInv' /\ SentInv'
    BY <1>1, TaskStep, OrderStep, SentStep DEF IInv
  <2>5. DoneInv' /\ KillInv'
    BY <1>1, <2>1, DoneStep, KillStep DEF IInv
  <2>6. ProgramInv'
    BY <1>1, ProgramStep DEF IInv
  <2>7. QuietInv' /\ OrderedDenseQuiesced'
    BY <1>1, QuietStep, GapStep DEF IInv
  <2> QED  BY <2>1, <2>2, <2>3, <2>4, <2>5, <2>6, <2>7 DEF IInv
<1>2. CASE UNCHANGED vars
  <2>1. /\ UNCHANGED <<begun, plan, outcome, before, phase, job, next, cmdBufs, dwell, elapsed>>
        /\ UNCHANGED <<hazard, free, created, program, pending, running, age, done, killed>>
        /\ UNCHANGED <<quiet, lastDw, gap>>
    BY <1>2 DEF vars, workerVars, poolVars, hwVars, planVars
  <2>2. InFlight' = InFlight /\ PooledBuffers' = PooledBuffers
    BY <2>1 DEF InFlight, PooledBuffers
  <2>3. TypeOK' /\ JobInv' /\ PlanInv' /\ LoopInv'
    BY <2>1 DEF IInv, TypeOK, JobInv, PlanInv, LoopInv, LoopAt, Working, Targets
  <2>4. FileInv' /\ PoolExclusive'
    BY <2>1, <2>2 DEF IInv, FileInv, PoolExclusive, TaskAt, Targets
  <2>5. TaskInv' /\ OrderInv' /\ SentInv'
    BY <2>1, <2>2 DEF IInv, TaskInv, Flying, Posted, OrderInv, FileOf, SentInv, Sent
  <2>6. DoneInv' /\ KillInv' /\ ProgramInv'
    BY <2>1, <2>2 DEF IInv, DoneInv, AllDone, KillInv, Working, ProgramInv, Written
  <2>7. QuietInv' /\ OrderedDenseQuiesced'
    BY <2>1, <2>2 DEF IInv, QuietInv, Quieted, Working, Mode, OrderedDenseQuiesced
  <2> QED  BY <2>3, <2>4, <2>5, <2>6, <2>7 DEF IInv
<1> QED  BY <1>1, <1>2

\* The inductive invariant holds in every state of the driver.
THEOREM Invariance == Spec => []IInv
<1>1. Init => IInv
  BY InitInv
<1>2. IInv /\ [Next]_vars => IInv'
  BY NextInv
<1> QED  BY <1>1, <1>2, PTL DEF Spec

\* Every variable of queue_execute's loop, of the scratch pool and of the queues
\* keeps its type: no index leaves cmd_bufs or the tasks of a plan.
THEOREM TypeCorrect == Spec => [](TypeOK /\ LoopInv)
<1>1. IInv => TypeOK /\ LoopInv
  BY DEF IInv
<1> QED  BY <1>1, Invariance, PTL

\* Whatever FINI_BO, SUBMIT and PREP_BO report and in whatever order workers
\* allocate and drop, a regcmd BO is never in two hands and never leaves its file.
THEOREM PoolIsExclusive == Spec => []PoolExclusive
<1>1. IInv => PoolExclusive
  BY DEF IInv
<1> QED  BY <1>1, Invariance, PTL

\* queue_execute reports OK, and compacts the output, only after the fences of
\* every task on every file, none of them signalled by a reset.
THEOREM OkIsDone == Spec => []OkMeansDone
<1>1. IInv => OkMeansDone
  BY OkJustified DEF IInv
<1> QED  BY <1>1, Invariance, PTL

\* The element-wise epilogue of a residual convolution is on a core only when
\* every tile's fence has signalled, with no wait between the submits.
THEOREM EpilogueIsLast == Spec => []EpilogueLast
<1>1. IInv => EpilogueLast
  BY EpilogueOrdered DEF IInv
<1> QED  BY <1>1, Invariance, PTL

\* The dwell that is computed once, when a dispatch begins, keeps every dense task
\* off a core that an ordered depthwise dispatch left less than the quiescence ago.
THEOREM DenseIsQuiesced == Spec => []OrderedDenseQuiesced
<1>1. IInv => OrderedDenseQuiesced
  BY DEF IInv
<1> QED  BY <1>1, Invariance, PTL

\* What a step that fails half-way leaves intact: the program of every task in
\* flight whose dispatch has not reported UNAVAILABLE.
ProgramIntactUnlessFailed ==
  \A t \in InFlight : outcome[t.dispatch] # "unavailable" => program[t.bo] = <<t.dispatch, t.index>>

LEMMA ProgramHeld ==
  ASSUME IInv
  PROVE  /\ ProgramIntactUnlessFailed
         /\ MayFail = FALSE => ProgramIntact
<1>1. ASSUME NEW t \in InFlight, outcome[t.dispatch] # "unavailable"
      PROVE  program[t.bo] = <<t.dispatch, t.index>>
  <2>1. /\ t \in Tasks /\ t.dispatch <= begun /\ Posted(t.dispatch, t.index)
        /\ t.index <= Len(plan[t.dispatch].targets)
    BY FlightType DEF IInv, TaskInv, Flying
  <2>2. t.dispatch \in Dispatches /\ t.index \in Nat \ {0} /\ t.dispatch # 0
        /\ DOMAIN plan[t.dispatch].targets = 1 .. Len(plan[t.dispatch].targets)
        /\ Len(plan[t.dispatch].targets) \in Nat
    BY <2>1, TaskFacts DEF IInv
  <2>3. outcome[t.dispatch] = "none"
    <3>1. ~AllDone(t.dispatch)
      BY FlightNotDone DEF IInv
    <3>2. outcome[t.dispatch] \notin {"ok", "deadline_exceeded", "internal"}
      BY <2>2, <3>1 DEF IInv, DoneInv
    <3>3. outcome[t.dispatch] \in Outcomes
      BY <2>2 DEF IInv, TypeOK
    <3> QED  BY <1>1, <3>2, <3>3 DEF Outcomes
  <2>4. PICK w \in Contexts : job[w] = t.dispatch
    BY <2>1, <2>2, <2>3 DEF IInv, JobInv
  <2>5. phase[w] \in {"submit", "wait", "judge"}
    <3>1. phase[w] # "drop"
      BY <2>3, <2>4 DEF IInv, JobInv
    <3> QED  BY <2>1, <2>4, <3>1 DEF Posted
  <2>6. Len(cmdBufs[w]) = Len(Targets(w)) /\ cmdBufs[w] \in Seq(Buffers)
    BY <2>5 DEF IInv, LoopInv, LoopAt, TypeOK
  <2>7. t.index \in DOMAIN cmdBufs[w]
    BY <2>1, <2>2, <2>4, <2>6 DEF Targets
  <2>8. program[cmdBufs[w][t.index]] = <<job[w], t.index>>
    BY <2>5, <2>7 DEF IInv, ProgramInv, Written
  <2>9. t.bo = cmdBufs[w][t.index]
    BY <2>4, <2>5 DEF IInv, ProgramInv, Working
  <2> QED  BY <2>4, <2>8, <2>9
<1>2. ASSUME MayFail = FALSE, NEW t \in InFlight
      PROVE  outcome[t.dispatch] # "unavailable"
  <2>1. t.dispatch \in Dispatches
    BY FlightType DEF IInv, Tasks
  <2> QED  BY <1>2, <2>1 DEF IInv, DoneInv
<1> QED  BY <1>1, <1>2 DEF ProgramIntactUnlessFailed, ProgramIntact

\* While no ioctl fails, the hardware reads the program that was written for it:
\* nobody writes into the regcmd BO of a task between its SUBMIT and its fence.
THEOREM ProgramIsIntact ==
  ASSUME MayFail = FALSE
  PROVE  Spec => []ProgramIntact
<1>1. IInv => ProgramIntact
  BY ProgramHeld
<1> QED  BY <1>1, Invariance, PTL

\* When ioctls fail, it is the dispatches that report UNAVAILABLE, and only they,
\* whose tasks may still be in flight with their regcmd BO handed on.
THEOREM ProgramIsIntactUnlessFailed == Spec => []ProgramIntactUnlessFailed
<1>1. IInv => ProgramIntactUnlessFailed
  BY ProgramHeld
<1> QED  BY <1>1, Invariance, PTL
=============================================================================
