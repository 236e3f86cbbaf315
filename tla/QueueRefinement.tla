--------------------------- MODULE QueueRefinement ---------------------------
(***************************************************************************)
(* The device queue implements the queue contract: threads, channels and   *)
(* list positions disappear, and what is left of a unit is a task.         *)
(***************************************************************************)
EXTENDS DeviceQueue

\* How far the client may say a unit has come. A rejected unit was never
\* accepted; one whose wait failed never started.
Phase(u) ==
  CASE stage[u] \in {"none", "rejected"} -> "none"
    [] stage[u] = "lost" -> "dropped"
    [] stage[u] \notin {"none", "rejected", "lost"} /\ result[u] # "none" -> result[u]
    [] stage[u] \in {"work", "signal", "signalled", "returned"} /\ result[u] = "none" -> "started"
    [] stage[u] \in {"queued", "wait", "fail", "failed"} /\ result[u] = "none" -> "pending"

TaskOf(u) ==
  IF Phase(u) = "none"
  THEN [state |-> "none", wait |-> <<>>, signal |-> <<>>, eager |-> FALSE]
  ELSE [state |-> Phase(u), wait |-> unit[u].wait, signal |-> unit[u].signal,
        eager |-> unit[u].kind = "notify"]

task == [u \in Units |-> TaskOf(u)]

Contract == INSTANCE QueueContract WITH Tasks <- Units

\* Every step the driver takes is one the contract allows: no unit runs ahead
\* of what it waits for, none signals before its work is done, none fails a
\* semaphore without a cause of its own or of its wait list, whichever thread
\* runs it and whatever panics (queue_* in device.rs, worker_main in pool.rs).
KeepsContract == Contract!Spec
=============================================================================
