----------------------------- MODULE WeightCache -----------------------------
(***************************************************************************)
(* The cache of packed convolution weights (rocket-hal-driver/src/         *)
(* weight_cache.rs) between the threads that use it: command buffers look  *)
(* packings up while they are recorded, workers fill and publish them when *)
(* the command buffer runs (command_buffer.rs), and writes to the weight   *)
(* binding bump its generation (buffer.rs).                                *)
(*                                                                         *)
(* One weight binding at one geometry: the keys differ in the context      *)
(* only. Weights are abstracted to the number of the write that produced   *)
(* them, a packing to the weights it was made from. Filling a packing      *)
(* takes time: until it is over, and when the source changes meanwhile,    *)
(* the packing is Torn.                                                    *)
(***************************************************************************)
EXTENDS Naturals, FiniteSets

CONSTANTS
  NumContexts,        \* NPU contexts
  NumCommandBuffers,  \* bound: command buffers in a behaviour
  MaxWrites,          \* bound: contents the weight binding takes on
  Budget,             \* packings the cache may hold (ROCKET_WEIGHT_CACHE_MB)
  Ways,               \* numbers of contexts a dispatch spreads over
  Reusable,           \* may a command buffer be executed more than once?
  Writes              \* when the client writes the weights: see MayWrite

Contexts       == 0 .. NumContexts - 1
CommandBuffers == 1 .. NumCommandBuffers
Contents       == 0 .. MaxWrites

\* The packed GEM buffer a command buffer creates on a context's file.
Buffers == CommandBuffers \X Contexts

ASSUME CacheAssumption ==
  /\ NumContexts \in 1 .. 8
  /\ NumCommandBuffers \in Nat /\ MaxWrites \in Nat /\ Budget \in Nat
  /\ Ways \subseteq 1 .. NumContexts
  /\ Reusable \in BOOLEAN
  /\ Writes \in {"settled", "barrier", "racing"}

Torn    == MaxWrites + 1          \* bytes of no single content
NoEntry == [generation |-> 0, buffer |-> <<0, 0>>]

\* What fills a packing when the command buffer runs: nothing (a hit), the
\* weights themselves, or a copy of another packing.
Hit     == <<0, 0>>
Weights == <<0, 1>>
Sources == Buffers \cup {Hit, Weights}

VARIABLES
  content,     \* what the weight binding holds
  written,     \* contents so far
  generation,  \* its write generation
  writer,      \* who has it mapped for writing: 0 the client, c a command buffer, or Nobody
  cache,       \* per context, the entry of the key
  packed,      \* what each packing holds
  phase,       \* per command buffer
  home,        \* the context it was placed on
  ways,        \* the contexts its dispatch spreads over
  updates,     \* does it write the weights before its dispatch?
  keyed,       \* generation read when recording, and again when filling
  part,        \* part[c][i]: [buffer, from, publish] of its i-th context
  at,          \* the part a loop is at
  seen         \* content of the source when the filling of a part began

binding == <<content, written, generation, writer>>
recorded == <<home, ways, updates, part>>
vars == <<binding, cache, packed, phase, recorded, keyed, at, seen>>

Nobody == NumCommandBuffers + 1

Recording == {"keyed", "replicate"}
Running   == {"unmap", "generation", "fill", "filling", "publish", "run"}
Phases    == {"none", "ready", "done", "released"} \cup Recording \cup Running
PartType  == [buffer : Buffers, from : Sources, publish : BOOLEAN]
NoPart    == [buffer |-> <<1, 0>>, from |-> Hit, publish |-> FALSE]

TypeOK ==
  /\ content \in Contents /\ written \in Contents
  /\ generation \in Contents
  /\ writer \in 0 .. Nobody
  /\ cache \in [Contexts -> [generation : Contents, buffer : Buffers] \cup {NoEntry}]
  /\ packed \in [Buffers -> Contents \cup {Torn}]
  /\ phase \in [CommandBuffers -> Phases]
  /\ home \in [CommandBuffers -> Contexts]
  /\ ways \in [CommandBuffers -> 1 .. NumContexts]
  /\ updates \in [CommandBuffers -> BOOLEAN]
  /\ keyed \in [CommandBuffers -> Contents]
  /\ part \in [CommandBuffers -> [Contexts -> PartType]]
  /\ at \in [CommandBuffers -> Contexts]
  /\ seen \in [CommandBuffers -> Contents \cup {Torn}]

Init ==
  /\ content = 0 /\ written = 0 /\ generation = 0 /\ writer = Nobody
  /\ cache = [k \in Contexts |-> NoEntry]
  /\ packed = [b \in Buffers |-> Torn]
  /\ phase = [c \in CommandBuffers |-> "none"]
  /\ home = [c \in CommandBuffers |-> 0]
  /\ ways = [c \in CommandBuffers |-> 1]
  /\ updates = [c \in CommandBuffers |-> FALSE]
  /\ keyed = [c \in CommandBuffers |-> 0]
  /\ part = [c \in CommandBuffers |-> [i \in Contexts |-> NoPart]]
  /\ at = [c \in CommandBuffers |-> 0]
  /\ seen = [c \in CommandBuffers |-> 0]

-----------------------------------------------------------------------------
(* What the client of the HAL does (external).                             *)

\* Command buffers that may still read weights somebody writes now.
Exposed == {c \in CommandBuffers :
              phase[c] \notin {"none", "released"} \cup (IF Reusable THEN {} ELSE {"done"})}

\* When the binding may be written on behalf of w:
\*   "settled"  while no other command buffer that uses it is around;
\*   "barrier"  while no other command buffer that uses it is running, as
\*              the client's semaphores see to;
\*   "racing"   at any time.
MayWrite(w) ==
  /\ writer = Nobody
  /\ Writes = "settled" => Exposed \subseteq {w}
  /\ Writes = "barrier" => \A c \in CommandBuffers \ {w} : phase[c] \notin Running

\* When a command buffer may be recorded, and when it may run.
MayRecord(update) ==
  Writes = "settled" => /\ writer = Nobody
                        /\ \A c \in Exposed : ~updates[c] /\ ~update
MayRun(c) ==
  /\ Writes # "racing" => writer = Nobody
  /\ Writes = "barrier" =>
       \A d \in CommandBuffers : phase[d] \in Running => ~updates[c] /\ ~updates[d]

-----------------------------------------------------------------------------
(* Writes: the bytes change under a mapping, the generation when it ends.  *)

Change(w) ==
  /\ writer' = w
  /\ content' = written + 1
  /\ written' = written + 1
  /\ UNCHANGED generation

\* Broken variant: the write is not noted.
BumpForgotten ==
  /\ writer' = Nobody
  /\ UNCHANGED <<content, written, generation>>

Bump ==
  /\ writer' = Nobody
  /\ generation' = generation + 1
  /\ UNCHANGED <<content, written>>

\* The client, a queue_* operation or another kind of dispatch.
ClientWrite ==
  /\ MayWrite(0) /\ written < MaxWrites
  /\ Change(0)
  /\ UNCHANGED <<cache, packed, phase, recorded, keyed, at, seen>>

\* buffer::unmap_range.
ClientUnmap ==
  /\ writer = 0
  /\ Bump
  /\ UNCHANGED <<cache, packed, phase, recorded, keyed, at, seen>>

\* forget drops the binding's entries on every context.
Forget == cache' = [k \in Contexts |-> NoEntry]

\* buffer::destroy forgets the entries of the binding; another binding with
\* other weights is then allocated at the same address. Command buffers retain
\* their bindings, so none that uses it is left.
Recreate ==
  /\ \A c \in CommandBuffers : phase[c] \in {"none", "released"}
  /\ writer = Nobody /\ written < MaxWrites
  /\ Forget
  /\ generation' = 0
  /\ content' = written + 1
  /\ written' = written + 1
  /\ UNCHANGED <<writer, packed, phase, recorded, keyed, at, seen>>

-----------------------------------------------------------------------------
(* Recording: stage_weights and build_replicas.                            *)

\* The context of part i of command buffer c: its own, then its siblings.
ContextOf(c, i) == (home[c] + i) % NumContexts

\* Broken variant: a replica keeps the key of the home context.
KeyContextHome(c) == home[c]

\* The context in the key of the part a loop is at.
KeyContext(c) == ContextOf(c, at[c])

\* lookup: a hit is an entry of the same generation; an entry of another one is
\* dropped.
Found(k, g) == cache[k] # NoEntry /\ cache[k].generation = g
Lookup(k, g) ==
  cache' = IF cache[k] # NoEntry /\ cache[k].generation # g
           THEN [cache EXCEPT ![k] = NoEntry] ELSE cache

\* lookup_other_context: the first context that has the packing.
Others(k, g) == {o \in Contexts \ {k} : Found(o, g)}
FirstOther(k, g) == CHOOSE o \in Others(k, g) : \A p \in Others(k, g) : o <= p

\* A dispatch is recorded: the key and the generation, then whether an operation
\* recorded before it writes the binding.
Key(c, k, n, update) ==
  /\ phase[c] = "none"
  /\ \A d \in 1 .. c - 1 : phase[d] # "none"
  /\ MayRecord(update)
  /\ home' = [home EXCEPT ![c] = k]
  /\ ways' = [ways EXCEPT ![c] = n]
  /\ updates' = [updates EXCEPT ![c] = update]
  /\ keyed' = [keyed EXCEPT ![c] = generation]
  /\ phase' = [phase EXCEPT ![c] = "keyed"]
  /\ UNCHANGED <<binding, cache, packed, part, at, seen>>

\* Broken variant: one replica too many.
RecordedOneMore(c, i) ==
  IF i <= ways[c]
  THEN /\ phase' = [phase EXCEPT ![c] = "replicate"]
       /\ at' = [at EXCEPT ![c] = i]
  ELSE /\ phase' = [phase EXCEPT ![c] = "ready"]
       /\ at' = [at EXCEPT ![c] = 0]

\* The next part to replicate, or the end of the recording.
Recorded(c, i) ==
  IF i < ways[c]
  THEN /\ phase' = [phase EXCEPT ![c] = "replicate"]
       /\ at' = [at EXCEPT ![c] = i]
  ELSE /\ phase' = [phase EXCEPT ![c] = "ready"]
       /\ at' = [at EXCEPT ![c] = 0]

\* stage_weights: a cached packing, else a packing of its own, which is a copy
\* of another context's if there is one. A recorded writer rules both out.
StageWeights(c) ==
  LET k == home[c]
      g == keyed[c]
      hit == ~updates[c] /\ Found(k, g)
      copy == ~updates[c] /\ ~hit /\ Others(k, g) # {}
  IN
  /\ phase[c] = "keyed"
  /\ part' = [part EXCEPT ![c][0] =
        [buffer  |-> IF hit THEN cache[k].buffer ELSE <<c, k>>,
         from    |-> IF hit THEN Hit
                     ELSE IF copy THEN cache[FirstOther(k, g)].buffer ELSE Weights,
         publish |-> ~hit]]
  /\ IF updates[c] THEN UNCHANGED cache ELSE Lookup(k, g)
  /\ Recorded(c, 1)
  /\ UNCHANGED <<binding, packed, home, ways, updates, keyed, seen>>

\* build_replicas: a sibling's packing is a hit or a copy of the home packing.
\* It is published only if no recorded operation writes the binding.
Replicate(c) ==
  LET k == KeyContext(c)
      hit == ~updates[c] /\ Found(k, keyed[c])
  IN
  /\ phase[c] = "replicate"
  /\ part' = [part EXCEPT ![c][at[c]] =
        [buffer  |-> IF hit THEN cache[k].buffer ELSE <<c, ContextOf(c, at[c])>>,
         from    |-> IF hit THEN Hit ELSE part[c][0].buffer,
         publish |-> ~hit /\ ~updates[c]]]
  /\ IF updates[c] THEN UNCHANGED cache ELSE Lookup(k, keyed[c])
  /\ Recorded(c, at[c] + 1)
  /\ UNCHANGED <<binding, packed, home, ways, updates, keyed, seen>>
-----------------------------------------------------------------------------
(* Execution: apply_ops_until_dispatch, on the worker of the home context. *)

\* The next part to fill, from part i on, or the run when none is left.
GoTo(c, i) ==
  LET todo == {j \in Contexts : i <= j /\ j < ways[c] /\ part[c][j].from # Hit} IN
  \/ /\ todo = {}
     /\ phase' = [phase EXCEPT ![c] = "run"]
     /\ at' = [at EXCEPT ![c] = 0]
  \/ \E j \in todo :
       /\ \A m \in todo : j <= m
       /\ phase' = [phase EXCEPT ![c] = IF j = 0 THEN "generation" ELSE "fill"]
       /\ at' = [at EXCEPT ![c] = j]

\* The worker reaches the command buffer. A fill, update or copy recorded before
\* the dispatch writes the weights first.
Start(c) ==
  /\ phase[c] = "ready" \/ (Reusable /\ phase[c] = "done")
  /\ \A d \in CommandBuffers : home[d] = home[c] => phase[d] \notin Running
  /\ MayRun(c)
  /\ \/ /\ updates[c] /\ MayWrite(c) /\ written < MaxWrites
        /\ Change(c)
        /\ phase' = [phase EXCEPT ![c] = "unmap"]
        /\ UNCHANGED at
     \/ ~updates[c] /\ GoTo(c, 0) /\ UNCHANGED binding
  /\ UNCHANGED <<cache, packed, recorded, keyed, seen>>

\* An error ends the command buffer.
Fail(c) ==
  /\ phase' = [phase EXCEPT ![c] = "done"]
  /\ at' = [at EXCEPT ![c] = 0]

\* buffer::unmap_range: the bump, then a flush that may fail.
Unmap(c) ==
  /\ phase[c] = "unmap"
  /\ Bump
  /\ GoTo(c, 0) \/ Fail(c)
  /\ UNCHANGED <<cache, packed, recorded, keyed, seen>>

\* The generation of the home part is read before it is filled.
ReadGeneration(c) ==
  /\ phase[c] = "generation"
  /\ keyed' = [keyed EXCEPT ![c] = generation]
  /\ phase' = [phase EXCEPT ![c] = "fill"]
  /\ UNCHANGED <<binding, cache, packed, recorded, at, seen>>

Source(c) ==
  LET from == part[c][at[c]].from IN IF from = Weights THEN content ELSE packed[from]

\* Broken variant: published before it is filled.
StartFillPublishing(c) ==
  /\ phase[c] = "fill"
  /\ packed' = [packed EXCEPT ![part[c][at[c]].buffer] = Torn]
  /\ phase' = [phase EXCEPT ![c] = "publish"]
  /\ UNCHANGED <<binding, cache, recorded, keyed, at, seen>>

\* WeightPlan::pack clears the packing and fills it; a copy overwrites it.
StartFill(c) ==
  /\ phase[c] = "fill"
  /\ seen' = [seen EXCEPT ![c] = Source(c)]
  /\ packed' = [packed EXCEPT ![part[c][at[c]].buffer] = Torn]
  /\ phase' = [phase EXCEPT ![c] = "filling"]
  /\ UNCHANGED <<binding, cache, recorded, keyed, at>>

\* Filled and flushed; after an error nothing is published.
FinishFill(c) ==
  /\ phase[c] = "filling"
  /\ packed' = [packed EXCEPT ![part[c][at[c]].buffer] =
                  IF Source(c) = seen[c] THEN seen[c] ELSE Torn]
  /\ \/ /\ part[c][at[c]].publish
        /\ phase' = [phase EXCEPT ![c] = "publish"]
        /\ UNCHANGED at
     \/ ~part[c][at[c]].publish /\ GoTo(c, at[c] + 1)
     \/ Fail(c)
  /\ seen' = [seen EXCEPT ![c] = 0]
  /\ UNCHANGED <<binding, cache, recorded, keyed>>

\* Broken variant: the generation is read after the packing.
PublishedAtNow(c) == generation

\* The generation a part is published under: that of the home part was read
\* before it was filled, a replica's is read now. A copy of another context's
\* packing counts as the home part.
PublishedAt(c) == IF at[c] = 0 THEN keyed[c] ELSE generation

\* publish: replaces the entry if the budget allows.
Publish(c) ==
  LET k == KeyContext(c)
      kept == {o \in Contexts \ {k} : cache[o] # NoEntry}
  IN
  /\ phase[c] = "publish"
  /\ cache' = [cache EXCEPT ![k] =
                 IF Cardinality(kept) < Budget
                 THEN [generation |-> PublishedAt(c), buffer |-> part[c][at[c]].buffer]
                 ELSE NoEntry]
  /\ GoTo(c, at[c] + 1)
  /\ UNCHANGED <<binding, packed, recorded, keyed, seen>>

\* The dispatch is submitted, reads its packings and completes.
Run(c) ==
  /\ phase[c] = "run"
  /\ phase' = [phase EXCEPT ![c] = "done"]
  /\ UNCHANGED <<binding, cache, packed, recorded, keyed, at, seen>>

\* command_buffer::destroy. Its packings live on in the cache.
Release(c) ==
  /\ phase[c] \in {"ready", "done"}
  /\ phase' = [phase EXCEPT ![c] = "released"]
  /\ home' = [home EXCEPT ![c] = 0]
  /\ ways' = [ways EXCEPT ![c] = 1]
  /\ updates' = [updates EXCEPT ![c] = FALSE]
  /\ keyed' = [keyed EXCEPT ![c] = 0]
  /\ part' = [part EXCEPT ![c] = [i \in Contexts |-> NoPart]]
  /\ UNCHANGED <<binding, cache, packed, at, seen>>

Finished ==
  /\ \A c \in CommandBuffers : phase[c] = "released"
  /\ writer = Nobody
  /\ UNCHANGED vars
-----------------------------------------------------------------------------

Record(c) ==
  \/ \E k \in Contexts, n \in Ways, update \in BOOLEAN : Key(c, k, n, update)
  \/ StageWeights(c) \/ Replicate(c)

Execute(c) ==
  \/ Start(c) \/ Unmap(c) \/ ReadGeneration(c) \/ StartFill(c)
  \/ FinishFill(c) \/ Publish(c) \/ Run(c)

Next ==
  \/ ClientWrite \/ ClientUnmap \/ Recreate
  \/ \E c \in CommandBuffers : Record(c) \/ Execute(c) \/ Release(c)
  \/ Finished

Spec == Init /\ [][Next]_vars
-----------------------------------------------------------------------------
(* Properties.                                                             *)

\* The hardware multiplies with the right coefficients: while a dispatch runs,
\* on every context it spreads over, its packing holds what the weight binding
\* holds.
FreshCoefficients ==
  \A c \in CommandBuffers : phase[c] = "run" =>
    \A i \in Contexts : i < ways[c] => packed[part[c][i].buffer] = content

\* An entry that a lookup would accept holds the current weights ("can never be
\* mistaken for the bytes that were packed").
CacheCoherent ==
  writer = Nobody =>
    \A k \in Contexts : Found(k, generation) => packed[cache[k].buffer] = content

\* A published packing is complete and stays so: SharedBuffer is "written
\* exactly once [...] and is read-only for the rest of its life".
ReadOnlyOncePublished ==
  \A k \in Contexts : cache[k] # NoEntry => packed[cache[k].buffer] # Torn

\* A job may only name buffers of its own file: the packing of every part, hit
\* or not, was created on the context the part runs on.
OnOwnFile ==
  \A c \in CommandBuffers : phase[c] \in {"ready"} \cup Running =>
    \A i \in Contexts : i < ways[c] => part[c][i].buffer[2] = ContextOf(c, i)
-----------------------------------------------------------------------------
(* The inductive invariant behind TypeOK and OnOwnFile.                    *)

\* A command buffer whose home part is staged.
Staged == {"replicate", "ready", "done"} \cup Running

\* Every content but the one being written has its generation, and the
\* command buffer that ends a mapping is the one that has it.
WriteInv ==
  /\ generation + (IF writer = Nobody THEN 0 ELSE 1) <= written
  /\ \A c \in CommandBuffers : phase[c] = "unmap" => writer = c

\* A loop is at one of the command buffer's parts, and a part being filled has
\* something to be filled from.
LoopInv ==
  \A c \in CommandBuffers :
    /\ phase[c] \in Staged => at[c] < ways[c]
    /\ phase[c] \in {"generation", "fill", "filling", "publish"} => part[c][at[c]].from # Hit

\* The cache files a packing under its own context.
CacheFile == \A k \in Contexts : cache[k] # NoEntry => cache[k].buffer[2] = k

\* The parts of a command buffer that are already chosen.
Chosen(c) == IF phase[c] = "replicate" THEN at[c] ELSE ways[c]

PartFile ==
  \A c \in CommandBuffers : phase[c] \in Staged =>
    \A i \in Contexts : i < Chosen(c) => part[c][i].buffer[2] = ContextOf(c, i)

IInv == TypeOK /\ WriteInv /\ LoopInv /\ CacheFile /\ PartFile
=============================================================================
