------------------------------- MODULE Dispatch -------------------------------
(***************************************************************************)
(* How a worker thread of the Rocket driver runs one recorded dispatch on  *)
(* the NPU: the loop body of queue_execute (rocket-hal-driver/src/         *)
(* device.rs), with the scratch pool its register programs come from       *)
(* (scratch_pool.rs).                                                      *)
(*                                                                         *)
(* A dispatch is split into tasks. Each task has a target context, the DRM *)
(* file it is submitted on, and a register program in a GEM buffer (BO) of *)
(* that file. Every worker dwells if the DPU needs it, allocates and       *)
(* writes the programs, submits all the tasks, waits for their output      *)
(* fences and only then decides whether the result may be used.            *)
(*                                                                         *)
(* The kernel and the NPU are external: one in-order queue per file, one   *)
(* task of a file on a core at a time, a watchdog that resets the core of  *)
(* a hung task and signals its fence as if it had completed. Time passes   *)
(* in ticks; every clock saturates where the code stops telling values     *)
(* apart.                                                                  *)
(***************************************************************************)
EXTENDS Naturals, Sequences, FiniteSets

CONSTANTS
  NumContexts,    \* NPU contexts: one worker thread and one DRM file each
  Cores,          \* NPU cores
  Shapes,         \* dispatches: [mode, tiles, epilogue]
  NumDispatches,  \* bound: dispatches in a behaviour
  NumBuffers,     \* bound: regcmd BOs created on one file
  Budget,         \* regcmd BOs the free lists may hold (ROCKET_SCRATCH_POOL_MB)
  Quiescence,     \* DEPTHWISE_TO_DENSE_QUIESCENCE, in ticks
  Floor,          \* HUNG_JOB_DISPATCH_FLOOR, in ticks
  Watchdog,       \* the kernel's JOB_TIMEOUT_MS, in ticks
  MayFail         \* may FINI_BO, SUBMIT and PREP_BO fail?

Contexts   == 0 .. NumContexts - 1
Modes      == {"dense", "depthwise", "other"}
Dispatches == 1 .. NumDispatches
Buffers    == Contexts \X (1 .. NumBuffers)
Idle       == [dispatch |-> 0, index |-> 0, mode |-> "other", bo |-> <<>>]

ASSUME DispatchAssumption ==
  /\ NumContexts \in 1 .. 8
  /\ Shapes \subseteq [mode : Modes, tiles : Nat \ {0}, epilogue : BOOLEAN]
  /\ NumDispatches \in Nat /\ NumBuffers \in Nat /\ Budget \in Nat
  /\ Quiescence \in Nat /\ Floor \in Nat /\ Watchdog \in Nat
  /\ Floor <= Watchdog
  /\ MayFail \in BOOLEAN

VARIABLES
  begun,      \* dispatches begun so far: 1..begun have a plan
  plan,       \* plan[d]: the tasks of dispatch d, their modes and target files
  outcome,    \* what the dispatch reported: "none" until then
  phase,      \* per worker: where it is in the loop body
  job,        \* per worker: the dispatch it runs
  next,       \* per worker: next task of the loop it is in
  cmdBufs,    \* per worker: cmd_bufs, the regcmd BO of each task
  dwell,      \* per worker: ticks it still sleeps
  elapsed,    \* per worker: ticks since `started`, at most Floor
  hazard,     \* ticks since last_depthwise_done, at most Quiescence (or None)
  free,       \* per file: the pool's free list of regcmd BOs
  created,    \* per file: BOs created so far
  program,    \* what was last written to a BO: <<dispatch, task>>
  pending,    \* per file: submitted tasks the kernel has not started
  running,    \* per core: the task it runs, or Idle
  age,        \* per core: ticks the running task has been on it
  done,       \* tasks whose fence has signalled: <<dispatch, task>>
  killed,     \* dispatches of which the watchdog killed a task
  quiet,      \* per core: ticks since it completed a depthwise task, at most Quiescence
  lastDw,     \* per core: the dispatch of that task, 0 after a reset
  gap,        \* per core: value of quiet when the running task started
  before      \* before[d]: dispatches that had reported OK when d began

workerVars == <<phase, job, next, cmdBufs, dwell, elapsed>>
poolVars   == <<free, created, program>>
hwVars     == <<pending, running, age, done, killed, quiet, lastDw, gap>>
planVars   == <<begun, plan, outcome, before>>
vars == <<workerVars, hazard, poolVars, hwVars, planVars>>

NoPlan == [mode |-> "other", tiles |-> 0, epilogue |-> FALSE, targets |-> <<>>]

Init ==
  /\ begun = 0
  /\ plan = [d \in Dispatches |-> NoPlan]
  /\ outcome = [d \in Dispatches |-> "none"]
  /\ phase = [w \in Contexts |-> "idle"]
  /\ job = [w \in Contexts |-> 0]
  /\ next = [w \in Contexts |-> 1]
  /\ cmdBufs = [w \in Contexts |-> <<>>]
  /\ dwell = [w \in Contexts |-> 0]
  /\ elapsed = [w \in Contexts |-> 0]
  /\ hazard = Quiescence
  /\ free = [c \in Contexts |-> <<>>]
  /\ created = [c \in Contexts |-> 0]
  /\ program = [b \in Buffers |-> <<>>]
  /\ pending = [c \in Contexts |-> <<>>]
  /\ running = [k \in Cores |-> Idle]
  /\ age = [k \in Cores |-> 0]
  /\ done = {}
  /\ killed = {}
  /\ quiet = [k \in Cores |-> Quiescence]
  /\ lastDw = [k \in Cores |-> 0]
  /\ gap = [k \in Cores |-> Quiescence]
  /\ before = [d \in Dispatches |-> {}]

-----------------------------------------------------------------------------
(* Which file a task runs on, fixed when the command buffer is recorded.   *)

\* fanout_contexts: how many siblings take tiles. A residual epilogue reads the
\* whole output after every tile, so its dispatch stays on one queue.
Replicas(tiles, epilogue) ==
  IF epilogue \/ tiles < 2 THEN 0
  ELSE IF tiles < NumContexts THEN tiles - 1 ELSE NumContexts - 1

\* Broken variant: the epilogue's task takes its turn on the siblings too.
TaskTargetsAlternating(home, shape) ==
  [i \in 1 .. (IF shape.epilogue THEN shape.tiles + 1 ELSE shape.tiles) |->
     (home + i - 1) % NumContexts]

\* tile_contexts and WorkerPool::siblings: tiles alternate over the home context
\* and the ones after it, wrapping; the epilogue's task runs at home.
TaskTargets(home, shape) ==
  LET ways == Replicas(shape.tiles, shape.epilogue) + 1
      tasks == IF shape.epilogue THEN shape.tiles + 1 ELSE shape.tiles
  IN  [i \in 1 .. tasks |->
         (home + (IF i <= shape.tiles THEN (i - 1) % ways ELSE 0)) % NumContexts]

-----------------------------------------------------------------------------
(* The scratch pool: ScratchBuffer::new and ScratchBuffer::drop. All regcmd *)
(* BOs are of one size class.                                               *)

\* The BO a request on file c gets: the last one of the free list, else a new one.
Pooled(c) == free[c] # <<>>
NextBuffer(c) == IF Pooled(c) THEN free[c][Len(free[c])] ELSE <<c, created[c] + 1>>

\* Broken variant: a pooled BO is handed out and kept on the list.
TakeBufferPeek(c) ==
  IF Pooled(c)
  THEN UNCHANGED <<free, created>>
  ELSE /\ created[c] < NumBuffers
       /\ created' = [created EXCEPT ![c] = @ + 1]
       /\ UNCHANGED free

TakeBuffer(c) ==
  IF Pooled(c)
  THEN /\ free' = [free EXCEPT ![c] = SubSeq(@, 1, Len(@) - 1)]
       /\ UNCHANGED created
  ELSE /\ created[c] < NumBuffers
       /\ created' = [created EXCEPT ![c] = @ + 1]
       /\ UNCHANGED free

\* BOs on the free lists of a set of files.
PooledBuffers == {b \in Buffers : \E c \in Contexts : \E i \in DOMAIN free[c] : free[c][i] = b}

\* Back to the free list of its file while the budget lasts, else closed.
GiveBuffer(b, c) ==
  IF Cardinality(PooledBuffers) < Budget
  THEN free' = [free EXCEPT ![c] = Append(@, b)]
  ELSE UNCHANGED free
-----------------------------------------------------------------------------
(* The worker of context w.                                                *)

Mode(w)    == plan[job[w]].mode
TaskMode(w, i) == IF i <= plan[job[w]].tiles THEN Mode(w) ELSE "other"
Targets(w) == plan[job[w]].targets

\* Broken variant: a dwell that is partly over is skipped.
DwellAllOrNothing(mode) == IF mode = "dense" /\ hazard = 0 THEN Quiescence ELSE 0

\* depthwise_to_dense_dwell, under the dpu_hazard lock.
DwellFor(mode) == IF mode = "dense" THEN Quiescence - hazard ELSE 0

\* apply_ops_until_dispatch returned a job; its dwell is computed.
Begin(w, shape) ==
  /\ phase[w] = "idle" /\ begun < NumDispatches
  /\ begun' = begun + 1
  /\ plan' = [plan EXCEPT ![begun + 1] =
                [mode |-> shape.mode, tiles |-> shape.tiles, epilogue |-> shape.epilogue,
                 targets |-> TaskTargets(w, shape)]]
  /\ before' = [before EXCEPT ![begun + 1] = {d \in Dispatches : outcome[d] = "ok"}]
  /\ job' = [job EXCEPT ![w] = begun + 1]
  /\ dwell' = [dwell EXCEPT ![w] = DwellFor(shape.mode)]
  /\ phase' = [phase EXCEPT ![w] = "dwell"]
  /\ UNCHANGED <<outcome, next, cmdBufs, elapsed, hazard, poolVars, hwVars>>

\* The sleep is over.
Wake(w) ==
  /\ phase[w] = "dwell" /\ dwell[w] = 0
  /\ phase' = [phase EXCEPT ![w] = "allocate"]
  /\ UNCHANGED <<job, next, cmdBufs, dwell, elapsed, hazard, poolVars, hwVars, planVars>>

\* The next task of the loop, or the next loop when this was the last.
Advance(w, after) ==
  IF next[w] < Len(Targets(w))
  THEN /\ next' = [next EXCEPT ![w] = @ + 1]
       /\ UNCHANGED phase
  ELSE /\ next' = [next EXCEPT ![w] = 1]
       /\ phase' = [phase EXCEPT ![w] = after]

\* One regcmd BO per task, on the file the task runs on.
Allocate(w) ==
  LET c == Targets(w)[next[w]] IN
  /\ phase[w] = "allocate"
  /\ cmdBufs' = [cmdBufs EXCEPT ![w] = Append(@, NextBuffer(c))]
  /\ TakeBuffer(c)
  /\ Advance(w, "write")
  /\ UNCHANGED <<job, dwell, elapsed, hazard, program, hwVars, planVars>>

\* break 'result: the dispatch reports st and cmd_bufs is dropped.
Break(w, st) ==
  /\ outcome' = [outcome EXCEPT ![job[w]] = st]
  /\ phase' = [phase EXCEPT ![w] = "drop"]
  /\ next' = [next EXCEPT ![w] = 1]

\* Copies the program into its BO and flushes it; FINI_BO may fail.
Write(w) ==
  /\ phase[w] = "write"
  /\ program' = [program EXCEPT ![cmdBufs[w][next[w]]] = <<job[w], next[w]>>]
  /\ UNCHANGED <<job, cmdBufs, dwell, hazard, free, created, hwVars, begun, plan, before>>
  /\ \/ /\ Advance(w, "submit")
        /\ elapsed' = [elapsed EXCEPT ![w] = 0]
        /\ UNCHANGED outcome
     \/ /\ MayFail
        /\ Break(w, "unavailable")
        /\ UNCHANGED elapsed

\* Submits the next task to the kernel queue of its file; SUBMIT may fail.
Submit(w) ==
  LET c == Targets(w)[next[w]]
      task == [dispatch |-> job[w], index |-> next[w], mode |-> TaskMode(w, next[w]),
               bo |-> cmdBufs[w][next[w]]]
  IN
  /\ phase[w] = "submit"
  /\ \/ /\ pending' = [pending EXCEPT ![c] = Append(@, task)]
        /\ Advance(w, "wait")
        /\ UNCHANGED outcome
     \/ /\ MayFail
        /\ Break(w, "unavailable")
        /\ UNCHANGED pending
  /\ UNCHANGED <<job, cmdBufs, dwell, elapsed, hazard, poolVars, running, age, done,
                 killed, quiet, lastDw, gap, begun, plan, before>>

\* Broken variants of the wait: for nothing, for the tasks on the worker's own
\* file only, and never again once the floor has passed.
WaitUnless(w, skip) ==
  LET c == Targets(w)[next[w]] IN
  /\ phase[w] = "wait"
  /\ skip \/ \A i \in DOMAIN Targets(w) : Targets(w)[i] = c => <<job[w], i>> \in done
  /\ Advance(w, "judge")
  /\ UNCHANGED <<job, cmdBufs, dwell, elapsed, hazard, poolVars, hwVars, planVars>>
WaitNothing(w) == WaitUnless(w, TRUE)
WaitOwnFile(w) == WaitUnless(w, Targets(w)[next[w]] # w)
WaitBelowFloor(w) == elapsed[w] < Floor /\ WaitUnless(w, FALSE)

\* PREP_BO waits for the write fences of the task's output BO, which all the
\* tasks of the dispatch on the same file share.
Wait(w) ==
  LET c == Targets(w)[next[w]] IN
  /\ phase[w] = "wait"
  /\ \/ /\ \A i \in DOMAIN Targets(w) : Targets(w)[i] = c => <<job[w], i>> \in done
        /\ Advance(w, "judge")
        /\ UNCHANGED outcome
     \/ /\ MayFail
        /\ Break(w, "unavailable")
  /\ UNCHANGED <<job, cmdBufs, dwell, elapsed, hazard, poolVars, hwVars, begun, plan, before>>

\* At or past the floor the result is refused. Otherwise a depthwise dispatch
\* starts the hazard clock, and the output is compacted, which may find that it
\* does not fit.
Judge(w) ==
  /\ phase[w] = "judge"
  /\ \/ /\ elapsed[w] >= Floor
        /\ Break(w, "deadline_exceeded")
        /\ UNCHANGED hazard
     \/ /\ elapsed[w] < Floor
        /\ hazard' = IF Mode(w) = "depthwise" THEN 0 ELSE hazard
        /\ \/ Break(w, "ok")
           \/ MayFail /\ Break(w, "internal")
  /\ UNCHANGED <<job, cmdBufs, dwell, elapsed, poolVars, hwVars, begun, plan, before>>

\* cmd_bufs goes out of scope, one BO after the other.
Drop(w) ==
  /\ phase[w] = "drop"
  /\ \/ /\ cmdBufs[w] # <<>>
        /\ GiveBuffer(Head(cmdBufs[w]), Targets(w)[next[w]])
        /\ cmdBufs' = [cmdBufs EXCEPT ![w] = Tail(@)]
        /\ next' = [next EXCEPT ![w] = @ + 1]
        /\ UNCHANGED <<phase, job>>
     \/ /\ cmdBufs[w] = <<>>
        /\ phase' = [phase EXCEPT ![w] = "idle"]
        /\ job' = [job EXCEPT ![w] = 0]
        /\ next' = [next EXCEPT ![w] = 1]
        /\ UNCHANGED <<cmdBufs, free>>
  /\ UNCHANGED <<dwell, elapsed, hazard, created, program, hwVars, planVars>>

-----------------------------------------------------------------------------
(* The kernel and the hardware (external).                                 *)

\* The file whose queue a running task came from.
FileOf(task) == plan[task.dispatch].targets[task.index]

\* The scheduler starts the oldest task of file c on an idle core.
Start(k, c) ==
  /\ running[k] = Idle /\ pending[c] # <<>>
  /\ \A i \in Cores : running[i] # Idle => FileOf(running[i]) # c
  /\ running' = [running EXCEPT ![k] = Head(pending[c])]
  /\ pending' = [pending EXCEPT ![c] = Tail(@)]
  /\ age' = [age EXCEPT ![k] = 0]
  /\ gap' = [gap EXCEPT ![k] = quiet[k]]
  /\ UNCHANGED <<done, killed, quiet, lastDw, workerVars, hazard, poolVars, planVars>>

\* The fence of the task on core k signals.
Signal(k) ==
  /\ running[k] # Idle
  /\ running' = [running EXCEPT ![k] = Idle]
  /\ done' = done \cup {<<running[k].dispatch, running[k].index>>}
  /\ age' = [age EXCEPT ![k] = 0]
  /\ UNCHANGED <<pending, gap, workerVars, hazard, poolVars, planVars>>

Complete(k) ==
  /\ Signal(k)
  /\ IF running[k].mode = "depthwise"
     THEN /\ quiet' = [quiet EXCEPT ![k] = 0]
          /\ lastDw' = [lastDw EXCEPT ![k] = running[k].dispatch]
     ELSE UNCHANGED <<quiet, lastDw>>
  /\ UNCHANGED killed

\* The watchdog resets the core of a task that has been on it for too long.
Kill(k) ==
  /\ age[k] = Watchdog
  /\ Signal(k)
  /\ killed' = killed \cup {running[k].dispatch}
  /\ quiet' = [quiet EXCEPT ![k] = Quiescence]
  /\ lastDw' = [lastDw EXCEPT ![k] = 0]

Later(t, limit) == IF t < limit THEN t + 1 ELSE t

\* One tick passes. The watchdog does not let a task past its limit.
Tick ==
  /\ \A k \in Cores : running[k] # Idle => age[k] < Watchdog
  /\ age' = [k \in Cores |-> IF running[k] = Idle THEN 0 ELSE age[k] + 1]
  /\ quiet' = [k \in Cores |-> Later(quiet[k], Quiescence)]
  /\ hazard' = Later(hazard, Quiescence)
  /\ dwell' = [w \in Contexts |-> IF dwell[w] > 0 THEN dwell[w] - 1 ELSE 0]
  /\ elapsed' = [w \in Contexts |-> Later(elapsed[w], Floor)]
  /\ UNCHANGED <<phase, job, next, cmdBufs, poolVars, pending, running, done, killed,
                 lastDw, gap, planVars>>
-----------------------------------------------------------------------------

WorkerStep(w) ==
  \/ Wake(w) \/ Allocate(w) \/ Write(w) \/ Submit(w) \/ Wait(w) \/ Judge(w) \/ Drop(w)

Next ==
  \/ \E w \in Contexts, shape \in Shapes : Begin(w, shape)
  \/ \E w \in Contexts : WorkerStep(w)
  \/ \E k \in Cores, c \in Contexts : Start(k, c)
  \/ \E k \in Cores : Complete(k) \/ Kill(k)
  \/ Tick

Spec == Init /\ [][Next]_vars

\* Worker threads run, time passes, idle cores take up waiting tasks and the
\* watchdog does its work. No task need ever complete by itself.
Fairness ==
  /\ \A w \in Contexts : WF_vars(WorkerStep(w))
  /\ \A c \in Contexts : WF_vars(\E k \in Cores : Start(k, c))
  /\ \A k \in Cores : WF_vars(Kill(k))
  /\ WF_vars(Tick)

FairSpec == Spec /\ Fairness
-----------------------------------------------------------------------------
(* Properties.                                                             *)

\* A task is in flight from SUBMIT until its fence signals.
InFlight ==
  {running[k] : k \in {i \in Cores : running[i] # Idle}}
    \cup UNION {{pending[c][i] : i \in DOMAIN pending[c]} : c \in Contexts}

\* Compaction reads finished output only: a dispatch reports OK after the
\* fences of all its tasks, on whichever file they ran, and never when it lost
\* one to the watchdog, which PREP_BO reports as success
\* (HUNG_JOB_DISPATCH_FLOOR).
OkMeansDone ==
  \A d \in Dispatches : outcome[d] = "ok" =>
    /\ d \notin killed
    /\ \A i \in DOMAIN plan[d].targets : <<d, i>> \in done

\* The hardware reads the program that was written for it: from SUBMIT to the
\* fence nobody writes another one into the regcmd BO of a task ("all command
\* buffers remain alive until the dispatch is complete").
ProgramIntact ==
  \A t \in InFlight : program[t.bo] = <<t.dispatch, t.index>>

\* The pool never has one BO in two hands: not in two cmd_bufs, not twice in a
\* free list, not in both, and always on the file it was created on.
PoolExclusive ==
  /\ \A w \in Contexts : \A i, j \in DOMAIN cmdBufs[w] : cmdBufs[w][i] = cmdBufs[w][j] => i = j
  /\ \A v, w \in Contexts : v # w =>
       \A i \in DOMAIN cmdBufs[v], j \in DOMAIN cmdBufs[w] : cmdBufs[v][i] # cmdBufs[w][j]
  /\ \A c \in Contexts : \A i, j \in DOMAIN free[c] : free[c][i] = free[c][j] => i = j
  /\ \A c \in Contexts : \A i \in DOMAIN free[c] : free[c][i][1] = c
  /\ \A w \in Contexts : \A i \in DOMAIN cmdBufs[w] : cmdBufs[w][i] \notin PooledBuffers

\* A residual epilogue adds to what the tiles have written: its element-wise
\* task is started only when all the tiles of its dispatch are through.
EpilogueLast ==
  \A k \in Cores :
    (running[k] # Idle /\ running[k].index > plan[running[k].dispatch].tiles) =>
      \A i \in 1 .. plan[running[k].dispatch].tiles : <<running[k].dispatch, i>> \in done

\* The depthwise-to-dense dwell works for ordered dispatches: a dense task that
\* begins after a depthwise dispatch has reported OK, on whatever context,
\* starts on a core at least DEPTHWISE_TO_DENSE_QUIESCENCE after that dispatch
\* finished there.
OrderedDenseQuiesced ==
  \A k \in Cores :
    (running[k] # Idle /\ running[k].mode = "dense" /\ lastDw[k] \in before[running[k].dispatch])
      => gap[k] >= Quiescence

\* A dispatch always ends, even when the hardware hangs on every task: its
\* worker comes back for the next one.
EveryDispatchEnds ==
  \A w \in Contexts : phase[w] # "idle" ~> phase[w] = "idle"
=============================================================================
