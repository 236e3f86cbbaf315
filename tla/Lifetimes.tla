------------------------------ MODULE Lifetimes ------------------------------
(***************************************************************************)
(* Who owns what, and for how long: DRM files and their descriptors, the   *)
(* GEM buffers created on them, the scratch pool that keeps them           *)
(* (rocket-hal-driver/src/scratch_pool.rs), the reference counts of IREE   *)
(* buffers and command buffers across recording, the queue_* calls and     *)
(* their failures (device.rs, command_buffer.rs, buffer.rs), and the       *)
(* destruction of the device before or after its objects.                  *)
(*                                                                         *)
(* The kernel side is external: descriptor numbers are the lowest free     *)
(* ones, a file lives until its last descriptor closes and takes its GEM   *)
(* handles with it, a handle number is the lowest free one of its file.    *)
(***************************************************************************)
EXTENDS Naturals, FiniteSets, SequencesExt

CONSTANTS
  NumContexts,   \* contexts of a device (ROCKET_NPU_CORES)
  Budget,        \* budget_bytes
  Requests,      \* sizes of scratch a dispatch asks for
  RegcmdBytes,   \* size of a register program
  MaxDevices,    \* bound: devices created, one after the other
  MaxBuffers,    \* bound: IREE buffers
  MaxRecords,    \* bound: command buffers
  MaxUnits,      \* bound: queue_* calls
  MaxFd          \* bound: descriptors, above the 3 of one device and a context each

ASSUME LifetimesAssumption ==
  /\ NumContexts \in 1..8 /\ Budget \in Nat /\ Requests \subseteq Nat /\ RegcmdBytes \in Nat
  /\ MaxDevices \in Nat /\ MaxFd \in Nat /\ MaxFd >= MaxDevices * (2 + NumContexts)

VARIABLES
  heap,     \* descriptors, GEM handles, free lists, contexts, buffers, command buffers
  units,    \* the queue_* calls made
  device,   \* the device, and how many were created
  late      \* was a device destroyed with objects of it still in use?

vars == <<heap, units, device, late>>

Fds == 1..MaxFd
Files == 1..(MaxDevices * NumContexts)
Lowest(S) == CHOOSE n \in S : \A m \in S : n <= m
EmptyPool == [enabled |-> TRUE, free |-> <<>>, bytes |-> 0]
-----------------------------------------------------------------------------
(* The kernel.                                                             *)

(* open(2) and dup(2), several in a row: the n-th gets the n-th lowest.    *)
FreeFds(w) == {fd \in Fds : w.open[fd] = 0}
FdOf(w, n) ==
  CHOOSE fd \in FreeFds(w) : Cardinality({other \in FreeFds(w) : other < fd}) = n - 1
OpenAs(w, files) ==
  [w EXCEPT !.open = [fd \in Fds |->
     IF \E n \in DOMAIN files : fd = FdOf(w, n)
     THEN files[CHOOSE n \in DOMAIN files : fd = FdOf(w, n)] ELSE w.open[fd]]]
CloseFds(w, fds) ==
  LET open == [fd \in Fds |-> IF fd \in fds THEN 0 ELSE w.open[fd]]
      gone == {w.open[fd] : fd \in fds} \ Range(open)
  IN  [w EXCEPT !.open = open,
                !.gem = [file \in DOMAIN w.gem |-> IF file \in gone THEN {} ELSE w.gem[file]]]

(* CREATE_BO and GEM_CLOSE on whatever file the descriptor names now.      *)
CreateBo(w, fd, class) ==
  LET file == w.open[fd]
      handle == Lowest((1..(Cardinality(w.gem[file]) + 1)) \ w.gem[file])
  IN  <<[w EXCEPT !.gem[file] = @ \cup {handle}],
        [fd |-> fd, file |-> file, handle |-> handle, class |-> class]>>
close_bo(w, bo) ==
  IF w.open[bo.fd] = 0 THEN w ELSE [w EXCEPT !.gem[w.open[bo.fd]] = @ \ {bo.handle}]
-----------------------------------------------------------------------------
(* The scratch pool.  The free list of a key is the subsequence of `free`  *)
(* with that descriptor and class, popped from its end.                    *)

KIB == 1024
class_of(bytes) ==
  LET step == IF bytes < 64 * KIB THEN 4 * KIB
              ELSE IF bytes < 256 * KIB THEN 64 * KIB
              ELSE IF bytes < 4096 * KIB THEN 256 * KIB ELSE 1024 * KIB
      wanted == IF bytes = 0 THEN 1 ELSE bytes
  IN  ((wanted + step - 1) \div step) * step

(* ScratchBuffer::new, giving the heap and the buffer.  Mutant: a reuse    *)
(* leaves the byte count alone.                                            *)
Reused_uncounted(w, i, class) == [w EXCEPT !.pool.free = RemoveAt(@, i)]
Reused(w, i, class) ==
  [w EXCEPT !.pool.free = RemoveAt(@, i),
            !.pool.bytes = IF @ < class THEN 0 ELSE @ - class]
NewScratch(w, fd, bytes) ==
  LET class == class_of(bytes)
      idle == {i \in 1..Len(w.pool.free) : w.pool.free[i].fd = fd /\ w.pool.free[i].class = class}
      i == CHOOSE n \in idle : \A m \in idle : m <= n
  IN  IF w.pool.enabled /\ idle # {}
      THEN <<Reused(w, i, class), [w.pool.free[i] EXCEPT !.fd = fd]>>
      ELSE CreateBo(w, fd, class)

(* Drop for ScratchBuffer.                                                 *)
DropScratch(w, bo) ==
  IF w.pool.enabled /\ w.pool.bytes + bo.class <= Budget
  THEN [w EXCEPT !.pool.free = Append(@, bo), !.pool.bytes = @ + bo.class]
  ELSE close_bo(w, bo)

(* clear().  Mutant: nothing is cleared.                                   *)
clear_nothing(w) == w
clear(w) ==
  LET idle(file) == {bo \in Range(w.pool.free) : w.open[bo.fd] = file}
  IN  [w EXCEPT !.gem = [file \in DOMAIN w.gem |->
                           w.gem[file] \ {bo.handle : bo \in idle(file)}],
                !.pool.free = <<>>, !.pool.bytes = 0]
-----------------------------------------------------------------------------
(* References.                                                             *)

(* iree_hal_buffer_release, with buffer::destroy at the last one.          *)
ReleaseBuffer(w, b) ==
  LET released == [w EXCEPT !.bufs[b].refs = @ - 1]
  IN  IF w.bufs[b].refs = 1 THEN close_bo(released, w.bufs[b].bo) ELSE released

(* The contexts a command buffer was placed on and beside.                 *)
ContextsOf(cb) == {cb.context} \cup Range(cb.siblings)

(* Dropping an Arc<NpuContext> of each of the contexts xs; the file of a   *)
(* context goes with its last.                                             *)
DropContexts(w, xs) ==
  CloseFds([w EXCEPT !.ctxs = [x \in DOMAIN w.ctxs |->
              IF x \in xs THEN [w.ctxs[x] EXCEPT !.refs = @ - 1] ELSE w.ctxs[x]]],
           {w.ctxs[x].fd : x \in {x \in xs : w.ctxs[x].refs = 1}})

(* command_buffer::destroy: the bindings, then the box field by field, the *)
(* recorded op with its scratch before the contexts.                       *)
DestroyOps(w, ops) ==
  IF ops = <<>> THEN w
  ELSE DropScratch(ReleaseBuffer(w, ops[1].binding), ops[1].scratch)
ReleaseCommandBuffer(w, c) ==
  LET cb == w.cbs[c]
      released == [w EXCEPT !.cbs[c].refs = @ - 1]
  IN  IF cb.refs = 1
      THEN DropContexts([DestroyOps(released, cb.ops) EXCEPT !.cbs[c].ops = <<>>],
                        ContextsOf(cb))
      ELSE released
-----------------------------------------------------------------------------
NoDevice == [state |-> "none", created |-> 0, file |-> 0, allocator |-> 0, contexts |-> <<>>, placed |-> 0]
Live == device.state = "live"

Init ==
  /\ \E e \in BOOLEAN :
       heap = [open |-> [fd \in Fds |-> 0],
               gem |-> [file \in Files |-> {}],
               pool |-> [EmptyPool EXCEPT !.enabled = e],
               ctxs |-> <<>>, bufs |-> <<>>, cbs |-> <<>>]
  /\ units = <<>> /\ device = NoDevice /\ late = FALSE

(* device::create: the device's file, the allocator's and context 0's      *)
(* duplicates of it, and a fresh open for every other context.             *)
CreateDevice ==
  /\ device.state # "live" /\ device.state # "closing" /\ device.created < MaxDevices
  /\ LET base == device.created * NumContexts
         files == [n \in 1..(2 + NumContexts) |-> IF n <= 3 THEN base + 1 ELSE base + n - 2]
     IN  /\ heap' = [OpenAs(heap, files) EXCEPT !.ctxs =
                       @ \o [c \in 1..NumContexts |-> [fd |-> FdOf(heap, 2 + c), refs |-> 1]]]
         /\ device' = [state |-> "live", created |-> device.created + 1,
                       file |-> FdOf(heap, 1), allocator |-> FdOf(heap, 2),
                       contexts |-> [c \in 1..NumContexts |-> base + c], placed |-> 0]
  /\ UNCHANGED <<units, late>>

(* allocate_buffer, alone or from queue_alloca, which allocates before it  *)
(* waits.                                                                  *)
AllocateBuffer ==
  /\ Live /\ Len(heap.bufs) < MaxBuffers
  /\ LET made == CreateBo(heap, device.allocator, 4)
     IN  heap' = [made[1] EXCEPT !.bufs = Append(@, [refs |-> 1, client |-> TRUE,
                                                     bo |-> made[2], deallocated |-> FALSE])]
  /\ UNCHANGED <<units, device, late>>

(* create_command_buffer: contexts in turn, and the siblings after it.     *)
CreateCommandBuffer ==
  /\ Live /\ Len(heap.cbs) < MaxRecords
  /\ LET At(n) == device.contexts[((device.placed + n) % NumContexts) + 1]
         others == [n \in 1..(NumContexts - 1) |-> At(n)]
     IN  heap' = [heap EXCEPT
           !.cbs = Append(@, [refs |-> 1, client |-> TRUE, context |-> At(0),
                              siblings |-> others, ops |-> <<>>]),
           !.ctxs = [x \in DOMAIN heap.ctxs |->
                       IF x \in Range(device.contexts)
                       THEN [heap.ctxs[x] EXCEPT !.refs = @ + 1] ELSE heap.ctxs[x]]]
  /\ device' = [device EXCEPT !.placed = @ + 1]
  /\ UNCHANGED <<units, late>>

(* dispatch: scratch of the size it needs, on the home context or on a     *)
(* sibling it fans out to, and a reference to the binding.  Bound: one     *)
(* dispatch to a command buffer.                                           *)
RecordDispatch(c, b, bytes, context) ==
  /\ heap.cbs[c].client /\ heap.bufs[b].client /\ heap.cbs[c].ops = <<>> /\ Live
  /\ context \in ContextsOf(heap.cbs[c])
  /\ LET made == NewScratch(heap, heap.ctxs[context].fd, bytes)
     IN  heap' = [made[1] EXCEPT !.bufs[b].refs = @ + 1,
                                 !.cbs[c].ops = Append(@, [binding |-> b, scratch |-> made[2]])]
  /\ UNCHANGED <<units, device, late>>

(* The client lets go of an object, when it likes.                         *)
ClientReleaseBuffer(b) ==
  /\ heap.bufs[b].client
  /\ heap' = ReleaseBuffer([heap EXCEPT !.bufs[b].client = FALSE], b)
  /\ UNCHANGED <<units, device, late>>
ClientReleaseCommandBuffer(c) ==
  /\ heap.cbs[c].client
  /\ heap' = ReleaseCommandBuffer([heap EXCEPT !.cbs[c].client = FALSE], c)
  /\ UNCHANGED <<units, device, late>>
-----------------------------------------------------------------------------
(* The queue.                                                              *)

Unit(kind, of, stage) == [kind |-> kind, of |-> of, stage |-> stage, regcmd |-> <<>>]
Pending == {u \in 1..Len(units) : units[u].stage \in {"queued", "running"}}
Unrun == {u \in 1..Len(units) : units[u].stage \in {"rejected", "wait_failed", "panicked"}}
WorkerGone(context) ==
  \E u \in 1..Len(units) : /\ units[u].stage = "panicked"
                           /\ heap.cbs[units[u].of].context = context

(* queue_execute: the command buffer is retained before enqueue_on, which  *)
(* refuses it when the context's worker is gone.                           *)
queue_execute(c) ==
  /\ Live /\ heap.cbs[c].client /\ Len(units) < MaxUnits
  /\ heap' = [heap EXCEPT !.cbs[c].refs = @ + 1]
  /\ units' = Append(units, Unit("execute", c, IF WorkerGone(heap.cbs[c].context)
                                               THEN "rejected" ELSE "queued"))
  /\ UNCHANGED <<device, late>>

(* queue_fill, _update, _copy, _read and _write retain what they name;     *)
(* queue_dealloca does too.  Mutant: queue_dealloca does not.              *)
queue_transfer_unretained(b, kind) ==
  /\ Live /\ heap.bufs[b].client /\ Len(units) < MaxUnits
  /\ heap' = IF kind = "dealloca" THEN heap ELSE [heap EXCEPT !.bufs[b].refs = @ + 1]
  /\ units' = Append(units, Unit(kind, b, "queued"))
  /\ UNCHANGED <<device, late>>
queue_transfer(b, kind) ==
  /\ Live /\ heap.bufs[b].client /\ Len(units) < MaxUnits
  /\ heap' = [heap EXCEPT !.bufs[b].refs = @ + 1]
  /\ units' = Append(units, Unit(kind, b, "queued"))
  /\ UNCHANGED <<device, late>>

(* wait_all fails: the work is dropped without having run, and with it     *)
(* the reference only the work would have released.                        *)
WaitFails(u) ==
  /\ units[u].stage = "queued"
  /\ units' = [units EXCEPT ![u].stage = "wait_failed"]
  /\ UNCHANGED <<heap, device, late>>

(* The work of a transfer, or of a deallocation, which only marks.         *)
RunTransfer(u) ==
  /\ units[u].stage = "queued" /\ units[u].kind # "execute"
  /\ LET b == units[u].of
         marked == [heap EXCEPT !.bufs[b].deallocated = @ \/ units[u].kind = "dealloca"]
     IN  /\ heap' = ReleaseBuffer(marked, b)
         /\ units' = [units EXCEPT ![u].stage = IF units[u].kind = "transfer" /\ heap.bufs[b].deallocated
                                                THEN "refused" ELSE "done"]
  /\ UNCHANGED <<device, late>>

(* The work of queue_execute takes a buffer for the register program of    *)
(* each task and drops it at the end; a panic unwinds past the release.    *)
BeginExecute(u) ==
  /\ units[u].stage = "queued" /\ units[u].kind = "execute"
  /\ ~WorkerGone(heap.cbs[units[u].of].context)
  /\ LET cb == heap.cbs[units[u].of]
         made == NewScratch(heap, heap.ctxs[cb.context].fd, RegcmdBytes)
     IN  IF cb.ops = <<>>
         THEN units' = [units EXCEPT ![u].stage = "running"] /\ UNCHANGED heap
         ELSE /\ heap' = made[1]
              /\ units' = [units EXCEPT ![u].stage = "running", ![u].regcmd = <<made[2]>>]
  /\ UNCHANGED <<device, late>>

Regcmd(w, u) == IF units[u].regcmd = <<>> THEN w ELSE DropScratch(w, units[u].regcmd[1])
EndExecute(u) ==
  /\ units[u].stage = "running"
  /\ heap' = ReleaseCommandBuffer(Regcmd(heap, u), units[u].of)
  /\ units' = [units EXCEPT ![u].stage = "done", ![u].regcmd = <<>>]
  /\ UNCHANGED <<device, late>>

(* What is queued on the worker is dropped with it.                        *)
Panic(u) ==
  /\ units[u].stage = "running"
  /\ heap' = Regcmd(heap, u)
  /\ units' = [v \in 1..Len(units) |->
                 IF v = u THEN [units[v] EXCEPT !.stage = "panicked", !.regcmd = <<>>]
                 ELSE IF /\ units[v].kind = "execute" /\ units[v].stage = "queued"
                         /\ heap.cbs[units[v].of].context = heap.cbs[units[u].of].context
                 THEN [units[v] EXCEPT !.stage = "rejected"] ELSE units[v]]
  /\ UNCHANGED <<device, late>>
-----------------------------------------------------------------------------
(* device::destroy.  The pool's workers are drained; detached threads are  *)
(* not waited for.  Then the free lists are cleared, the allocator and the *)
(* device's file go, and the device's share of each context.  Mutant: the  *)
(* allocator is not released.                                              *)
Destroyed_unreleased(w) == DropContexts(CloseFds(clear(w), {device.file}), Range(device.contexts))
Destroyed(w) ==
  DropContexts(CloseFds(clear(w), {device.allocator, device.file}), Range(device.contexts))

InUse ==
  \/ \E b \in DOMAIN heap.bufs : heap.bufs[b].client
  \/ \E c \in DOMAIN heap.cbs : heap.cbs[c].client
  \/ Pending # {}

StartDestroy ==
  /\ Live /\ device' = [device EXCEPT !.state = "closing"] /\ UNCHANGED <<heap, units, late>>
FinishDestroy ==
  /\ device.state = "closing"
  /\ \A u \in Pending : units[u].kind # "execute"
  /\ heap' = Destroyed(heap)
  /\ device' = [device EXCEPT !.state = "gone", !.contexts = <<>>, !.placed = 0]
  /\ late' = (late \/ InUse)
  /\ UNCHANGED units

Next ==
  \/ CreateDevice \/ AllocateBuffer \/ CreateCommandBuffer \/ StartDestroy \/ FinishDestroy
  \/ \E c \in DOMAIN heap.cbs, b \in DOMAIN heap.bufs, bytes \in Requests,
        context \in DOMAIN heap.ctxs : RecordDispatch(c, b, bytes, context)
  \/ \E b \in DOMAIN heap.bufs : ClientReleaseBuffer(b)
  \/ \E c \in DOMAIN heap.cbs : ClientReleaseCommandBuffer(c) \/ queue_execute(c)
  \/ \E b \in DOMAIN heap.bufs, kind \in {"transfer", "dealloca"} : queue_transfer(b, kind)
  \/ \E u \in 1..Len(units) :
       WaitFails(u) \/ RunTransfer(u) \/ BeginExecute(u) \/ EndExecute(u) \/ Panic(u)
Spec == Init /\ [][Next]_vars
-----------------------------------------------------------------------------
(* Properties.                                                             *)

(* Who may hold a reference: a call that has not run yet, or that was      *)
(* rejected, whose wait failed or whose worker panicked; a recorded        *)
(* dispatch; a command buffer placed on or beside a context.               *)
Calls(kinds, n) == {u \in Pending \cup Unrun : units[u].kind \in kinds /\ units[u].of = n}
Recorded(b) ==
  {c \in DOMAIN heap.cbs : \E n \in DOMAIN heap.cbs[c].ops : heap.cbs[c].ops[n].binding = b}
Placed(x) == {c \in DOMAIN heap.cbs : heap.cbs[c].refs > 0 /\ x \in ContextsOf(heap.cbs[c])}
Mine(object) == IF object.client THEN 1 ELSE 0

(* Every reference is someone's: the client's, a call's, a recorded        *)
(* dispatch's.  Those of a call that was rejected, whose wait failed or    *)
(* whose worker panicked are the only ones that are never given back       *)
(* (device.rs, queue_execute and run_after_wait).  A context is its        *)
(* device's and that of the command buffers placed beside it.              *)
RefsBalance ==
  /\ \A b \in DOMAIN heap.bufs :
       heap.bufs[b].refs = Mine(heap.bufs[b]) + Cardinality(Recorded(b))
                             + Cardinality(Calls({"transfer", "dealloca"}, b))
  /\ \A c \in DOMAIN heap.cbs :
       heap.cbs[c].refs = Mine(heap.cbs[c]) + Cardinality(Calls({"execute"}, c))
  /\ \A x \in DOMAIN heap.ctxs :
       heap.ctxs[x].refs = Cardinality(Placed(x))
                             + Cardinality({n \in DOMAIN device.contexts : device.contexts[n] = x})

(* The free lists hold what the byte count says, within the budget         *)
(* (scratch_pool.rs, ScratchBuffer::new and drop).                         *)
Bytes(free) ==
  LET Sum[n \in 0..Len(free)] == IF n = 0 THEN 0 ELSE Sum[n - 1] + free[n].class
  IN  Sum[Len(free)]
PoolAccounts == heap.pool.bytes = Bytes(heap.pool.free) /\ heap.pool.bytes <= Budget

(* The command buffers that may still run, the buffers somebody may still *)
(* use, and the GEM buffers in somebody's hands or idle in the pool.       *)
Usable ==
  {c \in DOMAIN heap.cbs :
     \/ heap.cbs[c].client
     \/ \E u \in Pending : units[u].kind = "execute" /\ units[u].of = c}
Needed ==
  {b \in DOMAIN heap.bufs :
     \/ heap.bufs[b].client
     \/ \E u \in Pending : units[u].kind # "execute" /\ units[u].of = b
     \/ \E c \in Usable : c \in Recorded(b)}
InHands ==
  {<<"buffer", b, heap.bufs[b].bo>> : b \in Needed}
  \cup {<<"scratch", c, heap.cbs[c].ops[1].scratch>> : c \in {c \in Usable : heap.cbs[c].ops # <<>>}}
  \cup {<<"regcmd", u, units[u].regcmd[1]>> : u \in {u \in Pending : units[u].regcmd # <<>>}}
Idle(free) == {<<"idle", i, free[i]>> : i \in 1..Len(free)}
Holders == InHands \cup Idle(heap.pool.free)

(* Every GEM buffer that someone may still use, or be handed by the pool,  *)
(* is open on the file its descriptor names, and is nobody else's: no      *)
(* release, rejection, panic or destruction leaves a handle behind under a *)
(* descriptor number that is reused, as long as a device outlives the use  *)
(* of its objects.                                                         *)
HandlesAreOwn ==
  ~late =>
    /\ \A x \in Holders : heap.open[x[3].fd] = x[3].file /\ x[3].handle \in heap.gem[x[3].file]
    /\ \A x, y \in Holders :
         (x[3].file = y[3].file /\ x[3].handle = y[3].handle) => x = y

(* Nothing outlives a device that outlived the use of its objects, when    *)
(* every call ran: no descriptor is open, no GEM handle, no idle buffer    *)
(* (device::destroy, scratch_pool::clear).                                 *)
Reclaimed ==
  (device.state = "gone" /\ ~late /\ Unrun = {}) =>
    /\ \A fd \in Fds : heap.open[fd] = 0
    /\ heap.pool.free = <<>>
=============================================================================
