---------------------------- MODULE QueueContract ----------------------------
(***************************************************************************)
(* What a HAL device queue promises its client, without workers, channels, *)
(* threads or list positions: a task starts once every value it waits for  *)
(* has been reached, signals what it promised only after it finished well, *)
(* and fails a semaphore only when it failed itself or something it waits  *)
(* for did.                                                                *)
(***************************************************************************)
EXTENDS Naturals, Sequences

CONSTANTS
  Tasks,       \* names of submissions
  HostSems,    \* semaphores the host signals
  QueueSems    \* semaphores tasks signal

VARIABLES
  timeline,    \* payload value of each semaphore
  failed,      \* semaphores that carry a failure status
  task         \* what was accepted, and how far it has come

vars == <<timeline, failed, task>>

NoTask == [state |-> "none", wait |-> <<>>, signal |-> <<>>, eager |-> FALSE]

Met(t) == \A i \in DOMAIN t.wait : timeline[t.wait[i][1]] >= t.wait[i][2]
WaitFailed(t) == \E i \in DOMAIN t.wait : t.wait[i][1] \in failed

Init ==
  /\ timeline = [s \in HostSems \cup QueueSems |-> 0]
  /\ failed = {}
  /\ task = [t \in Tasks |-> NoTask]

(* A submission is accepted, and may start at once.                        *)
Accept(t) ==
  /\ task[t].state = "none"
  /\ task'[t].state \in {"pending", "started"}
  /\ task'[t].state = "started" => Met(task'[t])
  /\ task' = [task EXCEPT ![t] = task'[t]]
  /\ UNCHANGED <<timeline, failed>>

Start(t) ==
  /\ task[t].state = "pending" /\ Met(task[t])
  /\ task' = [task EXCEPT ![t].state = "started"]
  /\ UNCHANGED <<timeline, failed>>

Finish(t) ==
  /\ task[t].state = "started"
  /\ \E outcome \in {"ok", "error"} : task' = [task EXCEPT ![t].state = outcome]
  /\ UNCHANGED <<timeline, failed>>

(* An eager task, a call the queue does not wait for, signals when it      *)
(* starts.                                                                 *)
Signal(t) ==
  /\ task[t].state = "ok" \/ (task[t].eager /\ task[t].state = "started")
  /\ \E i \in DOMAIN task[t].signal :
       LET p == task[t].signal[i]
       IN  /\ p[1] \notin failed /\ timeline[p[1]] < p[2]
           /\ timeline' = [timeline EXCEPT ![p[1]] = p[2]]
  /\ UNCHANGED <<failed, task>>

Poison(t) ==
  /\ task[t].state = "error" \/ (task[t].state = "pending" /\ WaitFailed(task[t]))
  /\ \E i \in DOMAIN task[t].signal : failed' = failed \cup {task[t].signal[i][1]}
  /\ UNCHANGED <<timeline, task>>

(* A worker dies and takes tasks with it, before they finished.            *)
Drop ==
  /\ \A t \in Tasks :
       task'[t] # task[t] =>
         /\ task[t].state \in {"pending", "started"}
         /\ task'[t] = [task[t] EXCEPT !.state = "dropped"]
  /\ task' = [t \in Tasks |-> task'[t]]
  /\ UNCHANGED <<timeline, failed>>

Host(s) ==
  /\ \/ timeline' = [timeline EXCEPT ![s] = @ + 1] /\ UNCHANGED failed
     \/ failed' = failed \cup {s} /\ UNCHANGED timeline
  /\ UNCHANGED task

Next ==
  \/ \E t \in Tasks : Accept(t) \/ Start(t) \/ Finish(t) \/ Signal(t) \/ Poison(t)
  \/ Drop
  \/ \E s \in HostSems : Host(s)

Spec == Init /\ [][Next]_vars
=============================================================================
