----------------------------- MODULE DeviceQueue -----------------------------
(***************************************************************************)
(* The device queue of the Rocket HAL driver: how a queue_* submission     *)
(* waits for its wait semaphores, runs, and reports through its signal     *)
(* semaphores (rocket-hal-driver/src/pool.rs, device.rs, semaphore.rs).    *)
(*                                                                         *)
(* A submission is run by one of three kinds of thread:                    *)
(*   "worker"  queue_execute: a long-lived thread per NPU context, fed by  *)
(*             an in-order channel;                                        *)
(*   "caller"  any other queue_* call whose wait list is already satisfied *)
(*             runs on the submitting thread, inside the call;             *)
(*   "thread"  the same calls with an unsatisfied wait list run on a       *)
(*             detached thread of their own.                               *)
(*                                                                         *)
(* The IREE timeline semaphore underneath is external: a payload that only *)
(* grows and a sticky failure. Submissions come from one host thread that  *)
(* follows IREE's timeline rules (ClientRules).                            *)
(***************************************************************************)
EXTENDS Naturals, Sequences, FiniteSets

CONSTANTS
  NumContexts,   \* contexts of the worker pool (ROCKET_NPU_CORES)
  NumUnits,      \* bound: submissions in a behaviour
  HostSems,      \* semaphores the host signals
  QueueSems,     \* semaphores the submissions signal
  MaxValue,      \* bound: largest payload value of a semaphore
  MaxHost,       \* bound: largest payload value of a host semaphore
  Kinds,         \* kinds of submission the host makes
  WaitLists,     \* wait lists it uses: sequences of <<semaphore, value>>
  SignalLists,   \* signal lists it uses: sequences of semaphores
  MayPanic       \* may the work of a queue_execute panic?

Contexts == 0 .. NumContexts - 1
Units    == 1 .. NumUnits
Sems     == HostSems \cup QueueSems
Points   == Sems \X (1 .. MaxValue)
None     == 0

\* A queue_execute with a command buffer, one without (queue_barrier), the
\* transfers that go through run_after_wait, and queue_host_call's two modes.
WorkerKinds == {"execute", "barrier"}
AllKinds    == WorkerKinds \cup {"transfer", "hostcall", "notify"}

ASSUME ConstantsAssumption ==
  /\ NumContexts \in 1 .. 8
  /\ NumUnits \in Nat
  /\ MaxValue \in Nat
  /\ MaxHost \in 0 .. MaxValue
  /\ HostSems \cap QueueSems = {}
  /\ Kinds \subseteq AllKinds
  /\ WaitLists \subseteq Seq(Points)
  /\ SignalLists \subseteq Seq(QueueSems)
  /\ \A l \in SignalLists : \A i, j \in DOMAIN l : l[i] = l[j] => i = j
  /\ MayPanic \in BOOLEAN

VARIABLES
  timeline,   \* payload value of each semaphore
  failed,     \* semaphores that carry a failure status
  promised,   \* per semaphore, the last value an accepted submission signals
  submitted,  \* number of submissions made so far: units 1..submitted exist
  unit,       \* unit[u]: what was submitted (kind, context, wait, signal) and who runs it
  stage,      \* where unit u is
  pos,        \* next entry of the list being waited on, signalled or failed
  result,     \* what the unit's work returned: "none" until it has run
  queue,      \* per context, the channel of the worker
  running,    \* per context, the unit the worker received, or None
  sender,     \* contexts whose channel still has its sender
  worker,     \* "alive", "exited" (channel closed and drained), "panicked"
  caller,     \* the unit the submitting thread is running, or None
  device      \* "live", "closing" (taking senders), "joining", "gone"

semVars  == <<timeline, failed>>
poolVars == <<queue, running, sender, worker>>
hostVars == <<promised, submitted, caller, device>>
vars == <<timeline, failed, promised, submitted, unit, stage, pos, result,
          queue, running, sender, worker, caller, device>>

Settled == {"signalled", "failed", "returned", "rejected", "lost"}
Active  == {"wait", "work", "signal", "fail"}
Stages  == {"none", "queued"} \cup Active \cup Settled
Runners == {"worker", "thread", "caller"}
UnitType == [kind : AllKinds, context : Contexts, wait : Seq(Points),
             signal : Seq(Points), runner : Runners]
NoUnit  == [kind |-> "barrier", context |-> 0, wait |-> <<>>, signal |-> <<>>,
            runner |-> "worker"]

TypeOK ==
  /\ timeline \in [Sems -> 0 .. MaxValue]
  /\ failed \subseteq Sems
  /\ promised \in [QueueSems -> 0 .. MaxValue]
  /\ submitted \in 0 .. NumUnits
  /\ unit \in [Units -> UnitType]
  /\ stage \in [Units -> Stages]
  /\ pos \in [Units -> Nat \ {0}]
  /\ result \in [Units -> {"none", "ok", "error"}]
  /\ queue \in [Contexts -> Seq(Units)]
  /\ running \in [Contexts -> Units \cup {None}]
  /\ sender \subseteq Contexts
  /\ worker \in [Contexts -> {"alive", "exited", "panicked"}]
  /\ caller \in Units \cup {None}
  /\ device \in {"live", "closing", "joining", "gone"}

Init ==
  /\ timeline  = [s \in Sems |-> 0]
  /\ failed    = {}
  /\ promised  = [s \in QueueSems |-> 0]
  /\ submitted = 0
  /\ unit      = [u \in Units |-> NoUnit]
  /\ stage     = [u \in Units |-> "none"]
  /\ pos       = [u \in Units |-> 1]
  /\ result    = [u \in Units |-> "none"]
  /\ queue     = [w \in Contexts |-> <<>>]
  /\ running   = [w \in Contexts |-> None]
  /\ sender    = Contexts
  /\ worker    = [w \in Contexts |-> "alive"]
  /\ caller    = None
  /\ device    = "live"

-----------------------------------------------------------------------------
(* The timeline semaphore (external, as semaphore.rs drives it).           *)

\* async_query / iree_hal_semaphore_wait: a failure hides the payload.
Reached(p) == p[1] \notin failed /\ timeline[p[1]] >= p[2]

\* async_signal: advance_timeline refuses a failed semaphore and a value at
\* or below the payload.
Refused(p) == p[1] \in failed \/ timeline[p[1]] >= p[2]

\* iree_hal_semaphore_list_poll: true iff every entry has been reached.
Poll(list) == \A i \in DOMAIN list : Reached(list[i])

-----------------------------------------------------------------------------
(* The host.                                                               *)

\* The values a signal list asks for: the next one on each of its semaphores.
NextPoints(list) == [i \in DOMAIN list |-> <<list[i], promised[list[i]] + 1>>]

\* What IREE guarantees of a submission: it waits only for values the host
\* will signal or an earlier submission has promised, each value has one
\* signaller, and the signaller of a value waits for the one before it.
ClientRules(wait, signal) ==
  /\ \A i \in DOMAIN wait : wait[i][1] \in QueueSems => wait[i][2] <= promised[wait[i][1]]
  /\ \A i \in DOMAIN signal :
       /\ signal[i][2] <= MaxValue
       /\ signal[i][2] > 1 => \E j \in DOMAIN wait : wait[j] = <<signal[i][1], signal[i][2] - 1>>

\* A queue_* call returned OK: its values are now promised to later waiters.
Promise(signal) ==
  promised' = [s \in QueueSems |->
                IF \E i \in DOMAIN signal : signal[i][1] = s THEN promised[s] + 1 ELSE promised[s]]

NewUnit(kind, context, wait, signal, runner) ==
  /\ submitted' = submitted + 1
  /\ unit' = [unit EXCEPT ![submitted + 1] =
                [kind |-> kind, context |-> context, wait |-> wait,
                 signal |-> signal, runner |-> runner]]

\* WorkerPool::enqueue_on, called by queue_execute. The send fails when the
\* sender is gone or the receiver went with a panicked worker; the unit is
\* then dropped and the caller told UNAVAILABLE.
Enqueue(kind, context, wait, signal) ==
  LET u == submitted + 1 IN
  /\ device = "live" /\ caller = None /\ submitted < NumUnits
  /\ kind \in Kinds \cap WorkerKinds
  /\ kind = "barrier" => context = 0
  /\ ClientRules(wait, signal)
  /\ NewUnit(kind, context, wait, signal, "worker")
  /\ \/ /\ context \in sender /\ worker[context] = "alive"
        /\ queue' = [queue EXCEPT ![context] = Append(@, u)]
        /\ stage' = [stage EXCEPT ![u] = "queued"]
        /\ Promise(signal)
     \/ /\ ~(context \in sender /\ worker[context] = "alive")
        /\ stage' = [stage EXCEPT ![u] = "rejected"]
        /\ UNCHANGED <<queue, promised>>
  /\ UNCHANGED <<semVars, pos, result, running, sender, worker, caller, device>>

\* run_after_wait and queue_host_call: run now when the wait list polls
\* satisfied, otherwise on a detached thread.
RunAfterWait(kind, wait, signal) ==
  LET u == submitted + 1 IN
  /\ device = "live" /\ caller = None /\ submitted < NumUnits
  /\ kind \in Kinds \ WorkerKinds
  /\ ClientRules(wait, signal)
  /\ \/ /\ Poll(wait)
        /\ NewUnit(kind, 0, wait, signal, "caller")
        /\ stage' = [stage EXCEPT ![u] = IF kind = "notify" THEN "signal" ELSE "work"]
        /\ caller' = u
        /\ UNCHANGED promised
     \/ /\ ~Poll(wait)
        /\ NewUnit(kind, 0, wait, signal, "thread")
        /\ stage' = [stage EXCEPT ![u] = "wait"]
        /\ Promise(signal)
        /\ UNCHANGED caller
  /\ UNCHANGED <<semVars, pos, result, poolVars, device>>

HostSignal(s) ==
  /\ s \in HostSems \ failed /\ timeline[s] < MaxHost
  /\ timeline' = [timeline EXCEPT ![s] = @ + 1]
  /\ UNCHANGED <<failed, unit, stage, pos, result, poolVars, hostVars>>

HostFail(s) ==
  /\ s \in HostSems \ failed
  /\ failed' = failed \cup {s}
  /\ UNCHANGED <<timeline, unit, stage, pos, result, poolVars, hostVars>>

-----------------------------------------------------------------------------
(* The life of a unit, on whichever thread runs it.                        *)

\* Broken variant: the channel is a stack.
ReceiveNewest(w) ==
  LET n == Len(queue[w]) IN
  /\ worker[w] = "alive" /\ running[w] = None /\ queue[w] # <<>>
  /\ running' = [running EXCEPT ![w] = queue[w][n]]
  /\ queue' = [queue EXCEPT ![w] = SubSeq(@, 1, n - 1)]
  /\ stage' = [stage EXCEPT ![queue[w][n]] = "wait"]
  /\ UNCHANGED <<semVars, unit, pos, result, sender, worker, hostVars>>

\* worker_main: receiver.recv() on an idle worker.
Receive(w) ==
  /\ worker[w] = "alive" /\ running[w] = None /\ queue[w] # <<>>
  /\ running' = [running EXCEPT ![w] = Head(queue[w])]
  /\ queue' = [queue EXCEPT ![w] = Tail(@)]
  /\ stage' = [stage EXCEPT ![Head(queue[w])] = "wait"]
  /\ UNCHANGED <<semVars, unit, pos, result, sender, worker, hostVars>>

\* The stage that follows a satisfied wait: the work, except for a
\* non-blocking host call, which signals first and calls afterwards.
AfterWait(u) == IF unit[u].kind = "notify" THEN "signal" ELSE "work"

\* Broken variants of wait_all: with entry pos[u] at hand, how the wait ends or
\* goes on when the entry is reached and when it is not.
WaitNextVariant(u, start, onFailure, onUnreached) ==
  LET list == unit[u].wait IN
  /\ stage[u] = "wait"
  /\ \/ /\ pos[u] > Len(list)
        /\ stage' = [stage EXCEPT ![u] = AfterWait(u)]
        /\ pos' = [pos EXCEPT ![u] = start]
     \/ /\ pos[u] <= Len(list) /\ Reached(list[pos[u]])
        /\ pos' = [pos EXCEPT ![u] = @ + 1]
        /\ UNCHANGED stage
     \/ /\ pos[u] <= Len(list)
        /\ \/ list[pos[u]][1] \in failed /\ stage' = [stage EXCEPT ![u] = onFailure]
           \/ ~Reached(list[pos[u]]) /\ stage' = [stage EXCEPT ![u] = onUnreached]
        /\ pos' = [pos EXCEPT ![u] = 1]
  /\ UNCHANGED <<semVars, unit, result, poolVars, hostVars>>

\* The status of the wait is dropped and the work runs anyway.
WaitNextIgnoringStatus(u) == WaitNextVariant(u, 1, AfterWait(u), "wait")

\* A value not reached yet is taken for a failure.
WaitNextImpatient(u) == WaitNextVariant(u, 1, "fail", "fail")

\* A failed wait is retried for ever.
WaitNextRetrying(u) == WaitNextVariant(u, 1, "wait", "wait")

\* The next list is started one entry early.
WaitNextFromZero(u) == WaitNextVariant(u, 0, "fail", "wait")

\* wait_all: one entry after the other, in list order; a failed semaphore
\* ends the wait and fails the signal list without running the work.
WaitNext(u) ==
  LET list == unit[u].wait IN
  /\ stage[u] = "wait"
  /\ \/ /\ pos[u] > Len(list)
        /\ stage' = [stage EXCEPT ![u] = AfterWait(u)]
        /\ pos' = [pos EXCEPT ![u] = 1]
     \/ /\ pos[u] <= Len(list) /\ Reached(list[pos[u]])
        /\ pos' = [pos EXCEPT ![u] = @ + 1]
        /\ UNCHANGED stage
     \/ /\ pos[u] <= Len(list) /\ list[pos[u]][1] \in failed
        /\ stage' = [stage EXCEPT ![u] = "fail"]
        /\ pos' = [pos EXCEPT ![u] = 1]
  /\ UNCHANGED <<semVars, unit, result, poolVars, hostVars>>

\* The unit's runner moves on: the worker to its next unit, the caller out of
\* the queue_* call. Its values are promised from here on, also when the call
\* returns the status of a refused signal: a client does not use a value twice.
Release(u) ==
  /\ running' = [w \in Contexts |-> IF running[w] = u THEN None ELSE running[w]]
  /\ IF caller = u
     THEN caller' = None /\ Promise(unit[u].signal)
     ELSE UNCHANGED <<caller, promised>>

\* Broken variant: the work signals its first semaphore itself.
WorkOkSignalling(u) ==
  LET first == unit[u].signal[1] IN
  /\ stage[u] = "work" /\ unit[u].signal # <<>> /\ ~Refused(first)
  /\ timeline' = [timeline EXCEPT ![first[1]] = first[2]]
  /\ result' = [result EXCEPT ![u] = "ok"]
  /\ stage' = [stage EXCEPT ![u] = "signal"]
  /\ UNCHANGED <<failed, unit, pos, poolVars, hostVars>>

\* The work ran and returned OK.
WorkOk(u) ==
  /\ stage[u] = "work"
  /\ result' = [result EXCEPT ![u] = "ok"]
  /\ stage' = [stage EXCEPT ![u] = "signal"]
  /\ UNCHANGED <<semVars, unit, pos, poolVars, hostVars>>

\* The work ran and returned an error. It is routed through the signal list,
\* except on the synchronous path of run_after_wait, which returns it to the
\* caller and neither signals nor fails anything.
WorkError(u) ==
  /\ stage[u] = "work" /\ unit[u].kind # "barrier"
  /\ result' = [result EXCEPT ![u] = "error"]
  /\ \/ /\ unit[u].runner = "caller" /\ unit[u].kind = "transfer"
        /\ stage' = [stage EXCEPT ![u] = "returned"]
        /\ caller' = None
     \/ /\ ~(unit[u].runner = "caller" /\ unit[u].kind = "transfer")
        /\ stage' = [stage EXCEPT ![u] = "fail"]
        /\ UNCHANGED caller
  /\ UNCHANGED <<semVars, unit, pos, poolVars, promised, submitted, device>>

\* iree_hal_semaphore_list_signal: entry by entry. A refused signal is an
\* error status, which worker_main and the detached threads drop; whether the
\* entries after it are still signalled is IREE's choice.
SignalNext(u) ==
  LET list == unit[u].signal IN
  /\ stage[u] = "signal" /\ pos[u] <= Len(list)
  /\ \/ /\ ~Refused(list[pos[u]])
        /\ timeline' = [timeline EXCEPT ![list[pos[u]][1]] = list[pos[u]][2]]
        /\ pos' = [pos EXCEPT ![u] = @ + 1]
     \/ /\ Refused(list[pos[u]])
        /\ pos' \in {[pos EXCEPT ![u] = @ + 1], [pos EXCEPT ![u] = Len(list) + 1]}
        /\ UNCHANGED timeline
  /\ UNCHANGED <<failed, unit, stage, result, poolVars, hostVars>>

\* The signal list is done. A non-blocking host call makes its call now and
\* ignores what it returns.
SignalDone(u) ==
  /\ stage[u] = "signal" /\ pos[u] > Len(unit[u].signal)
  /\ stage' = [stage EXCEPT ![u] = "signalled"]
  /\ result' = [result EXCEPT ![u] = "ok"]
  /\ Release(u)
  /\ UNCHANGED <<semVars, unit, pos, queue, sender, worker, submitted, device>>

\* Broken variant: only the first semaphore of the list is failed.
FailFirst(u) ==
  LET list == unit[u].signal IN
  /\ stage[u] = "fail" /\ pos[u] <= Len(list)
  /\ failed' = failed \cup {list[1][1]}
  /\ pos' = [pos EXCEPT ![u] = Len(list) + 1]
  /\ UNCHANGED <<timeline, unit, stage, result, poolVars, hostVars>>

\* fail_all: every semaphore of the signal list, in order.
FailNext(u) ==
  LET list == unit[u].signal IN
  /\ stage[u] = "fail" /\ pos[u] <= Len(list)
  /\ failed' = failed \cup {list[pos[u]][1]}
  /\ pos' = [pos EXCEPT ![u] = @ + 1]
  /\ UNCHANGED <<timeline, unit, stage, result, poolVars, hostVars>>

\* The signal list has been failed: the unit is dropped.
FailDone(u) ==
  /\ stage[u] = "fail" /\ pos[u] > Len(unit[u].signal)
  /\ stage' = [stage EXCEPT ![u] = "failed"]
  /\ Release(u)
  /\ UNCHANGED <<semVars, unit, pos, result, queue, sender, worker, submitted, device>>

\* Broken variant: the receiver outlives the thread that panicked.
PanicKeepingChannel(w) ==
  /\ MayPanic
  /\ worker[w] = "alive" /\ running[w] # None
  /\ stage[running[w]] = "work" /\ unit[running[w]].kind = "execute"
  /\ worker' = [worker EXCEPT ![w] = "panicked"]
  /\ stage' = [stage EXCEPT ![running[w]] = "lost"]
  /\ running' = [running EXCEPT ![w] = None]
  /\ UNCHANGED <<semVars, unit, pos, result, queue, sender, hostVars>>

\* OwnedBuffer::new panics when CREATE_BO fails, inside the work of a
\* queue_execute. The worker thread unwinds: its unit and everything in its
\* channel is dropped, which releases the semaphores and touches none.
Panic(w) ==
  /\ MayPanic
  /\ worker[w] = "alive" /\ running[w] # None
  /\ stage[running[w]] = "work" /\ unit[running[w]].kind = "execute"
  /\ worker' = [worker EXCEPT ![w] = "panicked"]
  /\ stage' = [u \in Units |->
                IF u = running[w] \/ \E i \in DOMAIN queue[w] : queue[w][i] = u
                THEN "lost" ELSE stage[u]]
  /\ running' = [running EXCEPT ![w] = None]
  /\ queue' = [queue EXCEPT ![w] = <<>>]
  /\ UNCHANGED <<semVars, unit, pos, result, sender, hostVars>>

-----------------------------------------------------------------------------
(* device::destroy: WorkerPool::shutdown, then the rest of the device.     *)

Destroy ==
  /\ device = "live" /\ caller = None
  /\ device' = "closing"
  /\ UNCHANGED <<semVars, unit, stage, pos, result, poolVars, promised, submitted, caller>>

\* Takes the senders in order; the loop is over when none is left.
TakeSender ==
  /\ device = "closing"
  /\ \/ \E w \in sender : /\ \A v \in sender : w <= v
                          /\ sender' = sender \ {w}
                          /\ UNCHANGED device
     \/ /\ sender = {}
        /\ device' = "joining"
        /\ UNCHANGED sender
  /\ UNCHANGED <<semVars, unit, stage, pos, result, queue, running, worker,
                 promised, submitted, caller>>

\* Broken variant: the worker loop goes round again when recv() errs.
WorkerExitContinue(w) ==
  /\ worker[w] = "alive" /\ running[w] = None
  /\ queue[w] = <<>> /\ w \notin sender
  /\ UNCHANGED vars

\* recv() errs once the channel is empty and has no sender: the thread ends.
WorkerExit(w) ==
  /\ worker[w] = "alive" /\ running[w] = None
  /\ queue[w] = <<>> /\ w \notin sender
  /\ worker' = [worker EXCEPT ![w] = "exited"]
  /\ UNCHANGED <<semVars, unit, stage, pos, result, queue, running, sender, hostVars>>

\* Broken variant: shutdown does not join.
JoinedEarly ==
  /\ device = "joining"
  /\ device' = "gone"
  /\ UNCHANGED <<semVars, unit, stage, pos, result, poolVars, promised, submitted, caller>>

\* Every worker has been joined; the device is freed.
Joined ==
  /\ device = "joining"
  /\ \A w \in Contexts : worker[w] # "alive"
  /\ device' = "gone"
  /\ UNCHANGED <<semVars, unit, stage, pos, result, poolVars, promised, submitted, caller>>

\* The host is done with the device and nothing is left to run.
Finished ==
  /\ device = "gone"
  /\ \A u \in Units : stage[u] \in {"none"} \cup Settled
  /\ UNCHANGED vars

-----------------------------------------------------------------------------

Submit ==
  \E wait \in WaitLists, list \in SignalLists, kind \in Kinds :
    \/ \E context \in Contexts : Enqueue(kind, context, wait, NextPoints(list))
    \/ RunAfterWait(kind, wait, NextPoints(list))

\* One step of the thread that runs unit u.
UnitStep(u) ==
  \/ WaitNext(u) \/ WorkOk(u) \/ WorkError(u) \/ SignalNext(u) \/ SignalDone(u)
  \/ FailNext(u) \/ FailDone(u)

WorkerStep(w) == Receive(w) \/ Panic(w) \/ WorkerExit(w)
HostStep(s) == HostSignal(s) \/ HostFail(s)
Shutdown == TakeSender \/ Joined

Next ==
  \/ Submit
  \/ \E s \in HostSems : HostStep(s)
  \/ \E u \in Units : UnitStep(u)
  \/ \E w \in Contexts : WorkerStep(w)
  \/ Destroy
  \/ Shutdown
  \/ Finished

Spec == Init /\ [][Next]_vars

\* The operating system runs every started thread, and the host eventually
\* signals or fails the values it owes. It need not submit or destroy anything.
Fairness ==
  /\ \A u \in Units : WF_vars(UnitStep(u))
  /\ \A w \in Contexts : WF_vars(WorkerStep(w))
  /\ \A s \in HostSems : WF_vars(timeline[s] < MaxHost /\ HostStep(s))
  /\ WF_vars(Shutdown)

FairSpec == Spec /\ Fairness
-----------------------------------------------------------------------------
(* Properties.                                                             *)

\* The unit got through its wait list: its work has started or is over, or it
\* has begun to signal.
PastWait(u) == stage[u] \in {"work", "signal", "signalled"} \/ result[u] # "none"

Signals(u, p) == \E i \in DOMAIN unit[u].signal : unit[u].signal[i] = p

\* The work a signal vouches for: that of a non-blocking host call is not
\* waited for, all the others have returned OK.
Vouched(u) == result[u] = "ok" \/ (unit[u].kind = "notify" /\ PastWait(u))

\* Data dependencies survive the trip over threads: no unit gets past its wait
\* list (wait_all, list_poll) before the earlier units that signal it have
\* finished their work successfully. A unit behind a failed one never runs.
DependencyOrder ==
  \A u \in Units : PastWait(u) =>
    \A i \in DOMAIN unit[u].wait : unit[u].wait[i][1] \in QueueSems =>
      \E p \in 1 .. u - 1 : Signals(p, unit[u].wait[i]) /\ Vouched(p)

\* worker_main runs the units of a context strictly in the order enqueue_on
\* accepted them: a unit is taken up only when all earlier ones are settled.
InOrder ==
  \A u, v \in Units :
    (/\ u < v /\ unit[u].runner = "worker" /\ unit[v].runner = "worker"
     /\ unit[u].context = unit[v].context
     /\ stage[v] \in Active \cup {"signalled", "failed"})
    => stage[u] \in Settled

\* Nobody signals a timeline backwards: when signal_all reaches an entry its
\* semaphore is still below the value, so the status worker_main drops is
\* never advance_timeline's INVALID_ARGUMENT.
SignalsNeverRegress ==
  \A u \in Units : (stage[u] = "signal" /\ pos[u] <= Len(unit[u].signal)) =>
    timeline[unit[u].signal[pos[u]][1]] < unit[u].signal[pos[u]][2]

\* A settled unit has reported on every semaphore of its signal list, unless
\* another unit's failure had already poisoned one of them.
OutcomeReported ==
  \A u \in Units :
    LET list == unit[u].signal IN
    /\ stage[u] = "failed" => \A i \in DOMAIN list : list[i][1] \in failed
    /\ stage[u] = "signalled" =>
         \A i \in DOMAIN list :
           timeline[list[i][1]] >= list[i][2] \/ \E j \in 1 .. i : list[j][1] \in failed

\* WorkerPool::shutdown drains: once the device is gone no unit is left in a
\* channel or on a worker.
ShutdownDrains ==
  device = "gone" =>
    \A u \in 1 .. submitted : unit[u].runner = "worker" => stage[u] \in Settled

\* A panic stays on its context: it loses only units of that worker, and after
\* it nothing of that context is pending or running.
PanicContained ==
  \A u \in 1 .. submitted :
    /\ stage[u] = "lost" => worker[unit[u].context] = "panicked"
    /\ (unit[u].runner = "worker" /\ worker[unit[u].context] = "panicked")
         => stage[u] \in Settled

\* Every accepted submission comes to an end: it never hangs in a channel,
\* behind another unit, on its own wait list or with its signals half sent.
EveryUnitSettles ==
  \A u \in Units : stage[u] \in {"queued"} \cup Active ~> stage[u] \in Settled

\* device::destroy returns: no worker is waiting for something that only
\* happens after the join.
DestroyReturns == device = "closing" ~> device = "gone"

-----------------------------------------------------------------------------
(* The inductive invariant behind DependencyOrder, SignalsNeverRegress,     *)
(* InOrder, ShutdownDrains and PanicContained.                             *)

\* The submission took effect: its values count as promised.
Accepted(u) == stage[u] \notin {"none", "rejected", "returned"}

\* Unit u may still signal entry i of its signal list.
Pending(u, i) ==
  stage[u] \in {"queued", "wait", "work"} \/ (stage[u] = "signal" /\ pos[u] <= i)

\* Unit u has got past entry i of its wait list.
Passed(u, i) == PastWait(u) \/ (stage[u] = "wait" /\ i < pos[u])

\* Units exist in submission order, have no result before their work is over,
\* and the submitting thread runs the newest.
FreshInv ==
  /\ \A u \in Units : IF u <= submitted THEN stage[u] # "none"
                      ELSE /\ stage[u] = "none" /\ result[u] = "none" /\ pos[u] = 1
                           /\ unit[u] = NoUnit
  /\ \A u \in Units : stage[u] \in {"queued", "wait", "work"} => result[u] = "none"
  /\ caller # None => caller = submitted /\ stage[caller] \in {"work", "signal", "fail"}

\* Signal lists name distinct queue semaphores, and the signaller of a value
\* waits for the one before it.
ListInv ==
  \A u \in Units : \A i \in DOMAIN unit[u].signal :
    LET p == unit[u].signal[i] IN
    /\ p[1] \in QueueSems
    /\ \A j \in DOMAIN unit[u].signal : unit[u].signal[j][1] = p[1] => j = i
    /\ p[2] > 1 => \E j \in DOMAIN unit[u].wait : unit[u].wait[j] = <<p[1], p[2] - 1>>

\* Values are handed out once, in order.
ValueInv ==
  \A u \in Units : Accepted(u) => \A i \in DOMAIN unit[u].signal :
    LET p == unit[u].signal[i] IN
    IF u = caller THEN p[2] = promised[p[1]] + 1 ELSE p[2] <= promised[p[1]]

DistinctInv ==
  \A u, v \in Units : (u # v /\ Accepted(u) /\ Accepted(v)) =>
    \A i \in DOMAIN unit[u].signal : ~Signals(v, unit[u].signal[i])

OwnerInv ==
  \A s \in QueueSems : \A n \in 1 .. promised[s] :
    \E p \in Units : Accepted(p) /\ p # caller /\ Signals(p, <<s, n>>)

WaitOwnerInv ==
  \A u \in Units : \A i \in DOMAIN unit[u].wait : unit[u].wait[i][1] \in QueueSems =>
    \E p \in 1 .. u - 1 : Accepted(p) /\ Signals(p, unit[u].wait[i])

\* A timeline is below every value still to be signalled on it, and at or above
\* every value a unit has got past.
PendingInv ==
  \A u \in Units : \A i \in DOMAIN unit[u].signal :
    Pending(u, i) => timeline[unit[u].signal[i][1]] < unit[u].signal[i][2]

WaitedInv ==
  \A u \in Units : \A i \in DOMAIN unit[u].wait :
    Passed(u, i) => timeline[unit[u].wait[i][1]] >= unit[u].wait[i][2]

\* A unit signals only after its work, and every value a queue timeline has
\* passed stands for the work of its signaller.
VouchInv ==
  /\ \A u \in Units : stage[u] \in {"signal", "signalled"} => Vouched(u)
  /\ \A s \in QueueSems : \A n \in 1 .. timeline[s] :
       \E p \in Units : Accepted(p) /\ Vouched(p) /\ Signals(p, <<s, n>>)

\* A channel holds the queued units of its context in submission order, behind
\* the one the worker has taken; a worker that is gone holds nothing.
ChannelInv ==
  \A w \in Contexts :
    /\ \A i \in DOMAIN queue[w] :
         LET u == queue[w][i] IN
         /\ stage[u] = "queued" /\ pos[u] = 1
         /\ unit[u].runner = "worker" /\ unit[u].context = w
         /\ running[w] < u
         /\ \A j \in DOMAIN queue[w] : i < j => u < queue[w][j]
    /\ running[w] # None =>
         /\ stage[running[w]] \in Active
         /\ unit[running[w]].runner = "worker" /\ unit[running[w]].context = w
    /\ worker[w] # "alive" => queue[w] = <<>> /\ running[w] = None

\* Every unfinished unit is where its runner finds it.
PlaceInv ==
  /\ \A u \in Units :
       /\ stage[u] = "queued" =>
            /\ unit[u].runner = "worker"
            /\ \E i \in DOMAIN queue[unit[u].context] : queue[unit[u].context][i] = u
       /\ (unit[u].runner = "worker" /\ stage[u] \in Active) => running[unit[u].context] = u
       /\ (unit[u].runner = "caller" /\ stage[u] \in Active) => caller = u
       /\ stage[u] = "lost" => unit[u].runner = "worker" /\ worker[unit[u].context] = "panicked"
  /\ caller # None => unit[caller].runner = "caller"
  /\ device = "gone" => \A w \in Contexts : worker[w] # "alive"

IInv ==
  /\ TypeOK /\ FreshInv /\ ListInv /\ ValueInv /\ DistinctInv /\ OwnerInv
  /\ WaitOwnerInv /\ PendingInv /\ WaitedInv /\ VouchInv
  /\ ChannelInv /\ PlaceInv /\ InOrder
=============================================================================
