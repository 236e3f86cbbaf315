-------------------------- MODULE WeightCacheProofs --------------------------
(***************************************************************************)
(* The weight cache keeps its type, and every dispatch names packings of   *)
(* the files it runs on, for any number of contexts, command buffers and   *)
(* writes and whatever the client's care (WeightCache).  Where every       *)
(* command buffer is executed once, a packing that is shared was filled by *)
(* its owner and is never written again; from that follow, with the        *)
(* client's care, that a published packing is complete, that a hit holds   *)
(* the current weights and that a dispatch multiplies with them.           *)
(***************************************************************************)
EXTENDS WeightCache, WellFoundedInduction, TLAPS

\* Only command buffer c moves, to a phase and a part there are.
Moves(c) ==
  /\ phase' \in [CommandBuffers -> Phases]
  /\ at' \in [CommandBuffers -> Contexts]
  /\ \A d \in CommandBuffers \ {c} : phase'[d] = phase[d] /\ at'[d] = at[d]

\* Phases in which the parts are all chosen.
Chose == Staged \ {"replicate"}

-----------------------------------------------------------------------------
(* Helpers.                                                                *)

\* The home context is the context of part 0 (WorkerPool::siblings starts after it).
LEMMA HomeContext ==
  ASSUME TypeOK, NEW c \in CommandBuffers
  PROVE  ContextOf(c, 0) = home[c]
<1>1. home[c] \in 0 .. NumContexts - 1 /\ NumContexts \in 1 .. 8
  BY CacheAssumption DEF TypeOK, Contexts
<1> QED  BY <1>1 DEF ContextOf

\* siblings stays within the pool's contexts.
LEMMA ContextOfType ==
  ASSUME TypeOK, NEW c \in CommandBuffers, NEW i \in Contexts
  PROVE  ContextOf(c, i) \in Contexts
<1>1. home[c] \in 0 .. NumContexts - 1 /\ NumContexts \in 1 .. 8 /\ i \in Nat
  BY CacheAssumption DEF TypeOK, Contexts
<1> QED  BY <1>1 DEF ContextOf, Contexts

\* lookup_other_context returns one of the contexts that have the packing.
LEMMA FirstOtherType ==
  ASSUME NEW k, NEW g, Others(k, g) # {}
  PROVE  FirstOther(k, g) \in Others(k, g)
<1> DEFINE Less == OpToRel(<, Nat)
<1>1. Others(k, g) \subseteq Nat
  BY CacheAssumption DEF Others, Contexts
<1>2. PICK o \in Others(k, g) : \A p \in Others(k, g) : <<p, o>> \notin Less
  <2>1. IsWellFoundedOn(Less, Nat)
    BY NatLessThanWellFounded
  <2> HIDE DEF Less
  <2> QED  BY <1>1, <2>1, WFMin
<1>3. ASSUME NEW p \in Others(k, g) PROVE o <= p
  <2>1. o \in Nat /\ p \in Nat /\ <<p, o>> \notin Less
    BY <1>1, <1>2
  <2>2. (p < o) => <<p, o>> \in Less
    BY <2>1 DEF OpToRel
  <2> HIDE DEF Less
  <2> QED  BY <2>1, <2>2
<1> QED  BY <1>3 DEF FirstOther

\* The loops over the parts to fill stop inside the fan-out, at parts that have a
\* source.
LEMMA GoToMoves ==
  ASSUME TypeOK, NEW c \in CommandBuffers, NEW i \in Nat, GoTo(c, i)
  PROVE  /\ Moves(c)
         /\ phase'[c] \in {"run", "generation", "fill"}
         /\ at'[c] < ways[c]
         /\ phase'[c] # "run" => part[c][at'[c]].from # Hit
<1>1. /\ phase \in [CommandBuffers -> Phases] /\ at \in [CommandBuffers -> Contexts]
      /\ ways[c] \in 1 .. NumContexts /\ 0 \in Contexts
  BY CacheAssumption DEF TypeOK, Contexts
<1> QED  BY <1>1 DEF GoTo, Moves, Phases, Running, Contexts

\* An error leaves the loops.
LEMMA FailMoves ==
  ASSUME TypeOK, NEW c \in CommandBuffers, Fail(c)
  PROVE  Moves(c) /\ phase'[c] = "done" /\ at'[c] < ways[c]
<1>1. /\ phase \in [CommandBuffers -> Phases] /\ at \in [CommandBuffers -> Contexts]
      /\ ways[c] \in 1 .. NumContexts /\ 0 \in Contexts
  BY CacheAssumption DEF TypeOK, Contexts
<1> QED  BY <1>1 DEF Fail, Moves, Phases

\* Recording goes on with a replica, or ends.
LEMMA RecordedMoves ==
  ASSUME TypeOK, NEW c \in CommandBuffers, NEW i \in Nat, Recorded(c, i)
  PROVE  /\ Moves(c)
         /\ phase'[c] \in {"replicate", "ready"}
         /\ at'[c] < ways[c]
         /\ phase'[c] = "replicate" => at'[c] = i
         /\ phase'[c] = "ready" => ways[c] <= i
<1>1. /\ phase \in [CommandBuffers -> Phases] /\ at \in [CommandBuffers -> Contexts]
      /\ ways[c] \in 1 .. NumContexts /\ 0 \in Contexts /\ NumContexts \in Nat
  BY CacheAssumption DEF TypeOK, Contexts
<1> QED  BY <1>1 DEF Recorded, Moves, Phases, Recording, Contexts

-----------------------------------------------------------------------------
(* What execution leaves alone.                                            *)

\* While a command buffer runs its parts are what was recorded.
LEMMA PartFrame ==
  ASSUME IInv, NEW c \in CommandBuffers, UNCHANGED recorded, Moves(c),
         phase[c] \in Chose, phase'[c] \in Chose
  PROVE  PartFile'
<1> SUFFICES ASSUME NEW d \in CommandBuffers, phase'[d] \in Staged,
                    NEW i \in Contexts, i < Chosen(d)'
             PROVE  part'[d][i].buffer[2] = ContextOf(d, i)'
  BY DEF PartFile, Staged
<1>1. phase[d] \in Staged /\ Chosen(d)' = Chosen(d)
  BY DEF Moves, Chosen, Chose, recorded
<1> QED  BY <1>1 DEF IInv, PartFile, ContextOf, recorded

\* A step that moves c within its execution keeps the loops in range.
LEMMA LoopFrame ==
  ASSUME IInv, NEW c \in CommandBuffers, UNCHANGED recorded, Moves(c),
         at'[c] < ways[c],
         phase'[c] \in {"generation", "fill", "filling", "publish"} => part[c][at'[c]].from # Hit
  PROVE  LoopInv'
BY DEF IInv, LoopInv, Moves, recorded

-----------------------------------------------------------------------------
(* The actions.                                                            *)

\* In the initial state nothing is cached, recorded or mapped.
LEMMA InitInv == Init => IInv
<1> SUFFICES ASSUME Init PROVE IInv
  OBVIOUS
<1>1. TypeOK
  <2>1. \A c \in CommandBuffers : NoPart \in PartType
    BY CacheAssumption DEF NoPart, PartType, Buffers, Sources, Contexts, CommandBuffers
  <2>2. 0 \in Contexts /\ 0 \in Contents /\ 1 \in 1 .. NumContexts /\ Nobody \in 0 .. Nobody
    BY CacheAssumption DEF Contexts, Contents, Nobody
  <2> QED  BY <2>1, <2>2 DEF Init, TypeOK, Phases
<1>2. WriteInv
  BY CacheAssumption DEF Init, WriteInv, Nobody
<1>3. LoopInv /\ CacheFile /\ PartFile
  BY DEF Init, LoopInv, CacheFile, PartFile, Staged, Running
<1> QED  BY <1>1, <1>2, <1>3 DEF IInv

\* Writes by the client touch neither the cache nor a command buffer.
LEMMA ClientInv ==
  ASSUME IInv, ClientWrite \/ ClientUnmap
  PROVE  IInv'
<1> USE DEF IInv
<1>1. /\ UNCHANGED <<cache, packed, phase, recorded, keyed, at, seen>>
      /\ content \in Nat /\ written \in Nat /\ generation \in Nat /\ MaxWrites \in Nat
      /\ NumCommandBuffers \in Nat /\ written <= MaxWrites
  BY CacheAssumption DEF ClientWrite, ClientUnmap, TypeOK, Contents
<1>2. /\ content' \in Contents /\ written' \in Contents /\ generation' \in Contents
      /\ writer' \in 0 .. Nobody
      /\ generation' + (IF writer' = Nobody THEN 0 ELSE 1) <= written'
      /\ writer \in {0, Nobody}
  BY <1>1 DEF ClientWrite, ClientUnmap, Change, Bump, WriteInv, TypeOK, Contents, Nobody, MayWrite
<1>3. TypeOK'
  BY <1>1, <1>2 DEF TypeOK, recorded
<1>4. WriteInv'
  BY <1>1, <1>2 DEF WriteInv, CommandBuffers, Nobody
<1>5. LoopInv' /\ CacheFile' /\ PartFile'
  BY <1>1 DEF LoopInv, CacheFile, PartFile, Chosen, ContextOf, recorded
<1> QED  BY <1>3, <1>4, <1>5

\* buffer::destroy empties the binding's part of the cache.
LEMMA RecreateInv ==
  ASSUME IInv, Recreate
  PROVE  IInv'
<1> USE DEF IInv
<1>1. TypeOK'
  BY CacheAssumption DEF Recreate, Forget, TypeOK, Contents, recorded
<1>2. WriteInv'
  BY CacheAssumption DEF Recreate, WriteInv, TypeOK, Contents, Nobody
<1>3. LoopInv' /\ CacheFile' /\ PartFile'
  BY DEF Recreate, Forget, LoopInv, CacheFile, PartFile, Chosen, ContextOf, recorded
<1> QED  BY <1>1, <1>2, <1>3

\* A dispatch is recorded on any context.
LEMMA KeyInv ==
  ASSUME IInv, NEW c \in CommandBuffers, NEW k \in Contexts, NEW n \in Ways,
         NEW update \in BOOLEAN, Key(c, k, n, update)
  PROVE  IInv'
<1> USE DEF IInv
<1>1. TypeOK'
  BY CacheAssumption DEF Key, TypeOK, Phases, Recording, binding
<1>2. \A d \in CommandBuffers : d # c => /\ phase'[d] = phase[d] /\ ways'[d] = ways[d]
                                         /\ home'[d] = home[d]
  BY DEF Key, TypeOK
<1>3. phase'[c] = "keyed"
  BY DEF Key, TypeOK
<1>4. WriteInv'
  BY <1>2, <1>3 DEF Key, WriteInv, binding
<1>5. LoopInv'
  BY <1>2, <1>3 DEF Key, LoopInv, Staged, Running
<1>6. CacheFile' /\ PartFile'
  BY <1>2, <1>3 DEF Key, CacheFile, PartFile, Chosen, ContextOf, Staged, Running
<1> QED  BY <1>1, <1>4, <1>5, <1>6

\* lookup only drops entries.
LEMMA LookupKeeps ==
  ASSUME IInv, NEW k \in Contexts, NEW g, Lookup(k, g) \/ UNCHANGED cache
  PROVE  /\ cache' \in [Contexts -> [generation : Contents, buffer : Buffers] \cup {NoEntry}]
         /\ CacheFile'
BY DEF IInv, Lookup, TypeOK, CacheFile

\* stage_weights: a hit is an entry of the home context, anything else a buffer
\* of its file.
LEMMA StageWeightsInv ==
  ASSUME IInv, NEW c \in CommandBuffers, StageWeights(c)
  PROVE  IInv'
<1> DEFINE k == home[c]
           g == keyed[c]
<1>1. k \in Contexts /\ 0 \in Contexts /\ TypeOK
  BY CacheAssumption DEF IInv, TypeOK, Contexts
<1>2. Recorded(c, 1)
  BY DEF StageWeights
<1>3. /\ Moves(c)
      /\ phase'[c] \in {"replicate", "ready"}
      /\ at'[c] < ways[c]
      /\ phase'[c] = "replicate" => at'[c] = 1
      /\ phase'[c] = "ready" => ways[c] <= 1
  BY <1>1, <1>2, RecordedMoves
<1>4. Lookup(k, g) \/ UNCHANGED cache
  BY DEF StageWeights
<1>5. /\ cache' \in [Contexts -> [generation : Contents, buffer : Buffers] \cup {NoEntry}]
      /\ CacheFile'
  BY <1>1, <1>4, LookupKeeps
<1>6. PICK p \in PartType : /\ part' = [part EXCEPT ![c][0] = p]
                            /\ p.buffer[2] = k
  <2>1. ASSUME Found(k, g) PROVE cache[k].buffer \in Buffers /\ cache[k].buffer[2] = k
    BY <1>1, <2>1 DEF IInv, TypeOK, Found, CacheFile
  <2>2. ASSUME Others(k, g) # {} PROVE cache[FirstOther(k, g)].buffer \in Buffers
    <3>1. FirstOther(k, g) \in Others(k, g)
      BY <2>2, FirstOtherType
    <3> QED  BY <3>1 DEF IInv, TypeOK, Others, Found
  <2>3. <<c, k>> \in Buffers /\ <<c, k>>[2] = k
    BY <1>1 DEF Buffers
  <2> DEFINE hit == ~updates[c] /\ Found(k, g)
             copy == ~updates[c] /\ ~hit /\ Others(k, g) # {}
             buffer == IF hit THEN cache[k].buffer ELSE <<c, k>>
             from == IF hit THEN Hit
                     ELSE IF copy THEN cache[FirstOther(k, g)].buffer ELSE Weights
             p == [buffer |-> buffer, from |-> from, publish |-> ~hit]
  <2>4. buffer \in Buffers /\ buffer[2] = k
    BY <2>1, <2>3
  <2>5. from \in Sources
    BY <2>2 DEF Sources
  <2>6. part' = [part EXCEPT ![c][0] = p]
    BY DEF StageWeights
  <2> HIDE DEF buffer, from, hit
  <2>7. p \in PartType /\ p.buffer[2] = k
    BY <2>4, <2>5 DEF PartType
  <2> QED  BY <2>6, <2>7
<1>7. TypeOK'
  <2>1. part' \in [CommandBuffers -> [Contexts -> PartType]]
    BY <1>1, <1>6 DEF TypeOK
  <2> QED  BY <1>1, <1>3, <1>5, <2>1 DEF TypeOK, StageWeights, binding, Moves
<1>8. WriteInv'
  BY <1>3 DEF IInv, WriteInv, StageWeights, binding, Moves
<1>9. LoopInv'
  <2>1. \A d \in CommandBuffers : d # c => part'[d] = part[d]
    BY <1>6 DEF IInv, TypeOK
  <2> QED  BY <1>3, <2>1 DEF IInv, LoopInv, StageWeights, Moves
<1>10. PartFile'
  <2> SUFFICES ASSUME NEW d \in CommandBuffers, phase'[d] \in Staged,
                      NEW i \in Contexts, i < Chosen(d)'
               PROVE  part'[d][i].buffer[2] = ContextOf(d, i)'
    BY DEF PartFile, Staged
  <2>1. ContextOf(d, i)' = ContextOf(d, i) /\ ways' = ways
    BY DEF StageWeights, ContextOf
  <2>2. CASE d # c
    BY <1>3, <1>6, <2>1, <2>2 DEF IInv, TypeOK, PartFile, Chosen, Moves
  <2>3. CASE d = c
    <3>1. i = 0
      BY <1>3, <2>1, <2>3, CacheAssumption DEF Chosen, Contexts, IInv, TypeOK
    <3>2. part'[c][0] = p
      BY <1>1, <1>6 DEF TypeOK
    <3> QED  BY <1>1, <1>6, <2>1, <2>3, <3>1, <3>2, HomeContext
  <2> QED  BY <2>2, <2>3
<1> QED  BY <1>5, <1>7, <1>8, <1>9, <1>10 DEF IInv

\* build_replicas: the same for the sibling's context, under the sibling's key.
LEMMA ReplicateInv ==
  ASSUME IInv, NEW c \in CommandBuffers, Replicate(c)
  PROVE  IInv'
<1> DEFINE a == at[c]
           k == ContextOf(c, a)
           g == keyed[c]
<1>1. /\ a \in Contexts /\ 0 \in Contexts /\ a \in Nat /\ TypeOK
      /\ phase[c] = "replicate" /\ ways[c] \in Nat
  BY CacheAssumption DEF IInv, TypeOK, Contexts, Replicate
<1>2. k \in Contexts
  BY <1>1, ContextOfType
<1>3. /\ Moves(c)
      /\ phase'[c] \in {"replicate", "ready"}
      /\ at'[c] < ways[c]
      /\ phase'[c] = "replicate" => at'[c] = a + 1
      /\ phase'[c] = "ready" => ways[c] <= a + 1
  BY <1>1, RecordedMoves, a + 1 \in Nat DEF Replicate
<1>4. Lookup(k, g) \/ UNCHANGED cache
  BY DEF Replicate, KeyContext
<1>5. /\ cache' \in [Contexts -> [generation : Contents, buffer : Buffers] \cup {NoEntry}]
      /\ CacheFile'
  BY <1>2, <1>4, LookupKeeps
<1>6. PICK p \in PartType : /\ part' = [part EXCEPT ![c][a] = p]
                            /\ p.buffer[2] = k
  <2>1. ASSUME Found(k, g) PROVE cache[k].buffer \in Buffers /\ cache[k].buffer[2] = k
    BY <1>2, <2>1 DEF IInv, TypeOK, Found, CacheFile
  <2>2. part[c][0].buffer \in Buffers
    BY <1>1 DEF TypeOK, PartType
  <2>3. <<c, k>> \in Buffers /\ <<c, k>>[2] = k
    BY <1>2 DEF Buffers
  <2> DEFINE hit == ~updates[c] /\ Found(k, g)
             buffer == IF hit THEN cache[k].buffer ELSE <<c, k>>
             from == IF hit THEN Hit ELSE part[c][0].buffer
             publish == ~hit /\ ~updates[c]
             p == [buffer |-> buffer, from |-> from, publish |-> publish]
  <2>4. buffer \in Buffers /\ buffer[2] = k
    BY <2>1, <2>3
  <2>5. from \in Sources /\ publish \in BOOLEAN
    BY <2>2 DEF Sources
  <2>6. part' = [part EXCEPT ![c][a] = p]
    BY DEF Replicate, KeyContext
  <2> HIDE DEF buffer, from, publish
  <2>7. p \in PartType /\ p.buffer[2] = k
    BY <2>4, <2>5 DEF PartType
  <2> QED  BY <2>6, <2>7
<1>7. TypeOK'
  <2>1. part' \in [CommandBuffers -> [Contexts -> PartType]]
    BY <1>1, <1>6 DEF TypeOK
  <2> QED  BY <1>1, <1>3, <1>5, <2>1 DEF TypeOK, Replicate, binding, Moves
<1>8. WriteInv'
  BY <1>3 DEF IInv, WriteInv, Replicate, binding, Moves
<1>9. LoopInv'
  <2>1. \A d \in CommandBuffers : d # c => part'[d] = part[d]
    BY <1>6 DEF IInv, TypeOK
  <2> QED  BY <1>3, <2>1 DEF IInv, LoopInv, Replicate, Moves
<1>10. PartFile'
  <2> SUFFICES ASSUME NEW d \in CommandBuffers, phase'[d] \in Staged,
                      NEW i \in Contexts, i < Chosen(d)'
               PROVE  part'[d][i].buffer[2] = ContextOf(d, i)'
    BY DEF PartFile, Staged
  <2>1. ContextOf(d, i)' = ContextOf(d, i) /\ ways' = ways
    BY DEF Replicate, ContextOf
  <2>2. CASE d # c
    BY <1>3, <1>6, <2>1, <2>2 DEF IInv, TypeOK, PartFile, Chosen, Moves
  <2>3. CASE d = c /\ i = a
    BY <1>1, <1>6, <2>1, <2>3 DEF TypeOK
  <2>4. CASE d = c /\ i # a
    <3>1. i < a /\ phase[c] \in Staged /\ i < Chosen(c)
      BY <1>1, <1>3, <2>1, <2>4, CacheAssumption DEF Chosen, Contexts, Staged
    <3>2. part'[c][i] = part[c][i]
      BY <1>1, <1>6, <2>4 DEF TypeOK
    <3> QED  BY <2>1, <2>4, <3>1, <3>2 DEF IInv, PartFile
  <2> QED  BY <2>2, <2>3, <2>4
<1> QED  BY <1>5, <1>7, <1>8, <1>9, <1>10 DEF IInv

\* A step of the worker that leaves the binding and the cache alone.
LEMMA ExecuteFrame ==
  ASSUME IInv, NEW c \in CommandBuffers, UNCHANGED <<binding, recorded, cache>>, Moves(c),
         phase[c] \in Chose, phase'[c] \in Chose \ {"unmap"}, at'[c] < ways[c],
         phase'[c] \in {"generation", "fill", "filling", "publish"} => part[c][at'[c]].from # Hit
  PROVE  WriteInv' /\ LoopInv' /\ CacheFile' /\ PartFile'
<1>1. LoopInv' /\ PartFile'
  BY PartFrame, LoopFrame
<1>2. WriteInv'
  BY DEF IInv, WriteInv, Moves, binding
<1>3. CacheFile'
  BY DEF IInv, CacheFile
<1> QED  BY <1>1, <1>2, <1>3

\* The worker starts: a write of the command buffer itself has a content left to
\* number it with.
LEMMA StartInv ==
  ASSUME IInv, NEW c \in CommandBuffers, Start(c)
  PROVE  IInv'
<1>1. /\ phase[c] \in {"ready", "done"} /\ TypeOK /\ NumCommandBuffers \in Nat /\ MaxWrites \in Nat
      /\ at[c] < ways[c] /\ phase[c] \in Chose
  BY CacheAssumption DEF Start, IInv, LoopInv, Staged, Chose
<1>2. CASE ~updates[c] /\ GoTo(c, 0) /\ UNCHANGED binding
  <2>1. /\ Moves(c)
        /\ phase'[c] \in {"run", "generation", "fill"}
        /\ at'[c] < ways[c]
        /\ phase'[c] # "run" => part[c][at'[c]].from # Hit
    BY <1>1, <1>2, GoToMoves
  <2>2. UNCHANGED <<cache, packed, recorded, keyed, seen>>
    BY DEF Start
  <2>3. TypeOK'
    BY <1>1, <1>2, <2>1, <2>2 DEF TypeOK, binding, recorded, Moves
  <2>4. WriteInv' /\ LoopInv' /\ CacheFile' /\ PartFile'
    BY <1>1, <1>2, <2>1, <2>2, ExecuteFrame DEF Chose, Staged, Running
  <2> QED  BY <2>3, <2>4 DEF IInv
<1>3. CASE /\ updates[c] /\ MayWrite(c) /\ written < MaxWrites
           /\ Change(c)
           /\ phase' = [phase EXCEPT ![c] = "unmap"]
           /\ UNCHANGED at
  <2>1. UNCHANGED <<cache, packed, recorded, keyed, seen>>
    BY DEF Start
  <2>2. Moves(c) /\ phase'[c] = "unmap"
    BY <1>1, <1>3 DEF Moves, TypeOK, Phases, Running
  <2>3. /\ content' \in Contents /\ written' \in Contents /\ generation' = generation
        /\ writer = Nobody /\ writer' = c /\ c \in 0 .. Nobody /\ c # Nobody
        /\ generation + 1 <= written'
    BY <1>1, <1>3 DEF IInv, WriteInv, Change, MayWrite, TypeOK, Contents, CommandBuffers, Nobody
  <2>4. TypeOK'
    BY <1>1, <1>3, <2>1, <2>2, <2>3 DEF TypeOK, recorded, Moves
  <2>5. WriteInv'
    <3>1. \A d \in CommandBuffers : phase[d] # "unmap"
      BY <1>1, <2>3 DEF IInv, WriteInv, CommandBuffers, Nobody
    <3> QED  BY <2>2, <2>3, <3>1 DEF WriteInv, Moves
  <2>6. LoopInv' /\ PartFile'
    BY <1>1, <1>3, <2>1, <2>2, LoopFrame, PartFrame DEF Chose, Staged, Running
  <2>7. CacheFile'
    BY <2>1 DEF IInv, CacheFile
  <2> QED  BY <2>4, <2>5, <2>6, <2>7 DEF IInv
<1> QED  BY <1>2, <1>3 DEF Start

\* unmap_range of the command buffer's own write.
LEMMA UnmapInv ==
  ASSUME IInv, NEW c \in CommandBuffers, Unmap(c)
  PROVE  IInv'
<1>1. /\ phase[c] = "unmap" /\ TypeOK /\ NumCommandBuffers \in Nat /\ phase[c] \in Chose
      /\ UNCHANGED <<cache, packed, recorded, keyed, seen>>
  BY CacheAssumption DEF Unmap, IInv, Staged, Running, Chose
<1>2. /\ Moves(c)
      /\ phase'[c] \in {"run", "generation", "fill", "done"}
      /\ at'[c] < ways[c]
      /\ phase'[c] \notin {"run", "done"} => part[c][at'[c]].from # Hit
  BY <1>1, GoToMoves, FailMoves DEF Unmap
<1>3. /\ writer = c /\ c # Nobody /\ writer' = Nobody /\ Nobody \in 0 .. Nobody
      /\ generation' \in Contents /\ generation' <= written
      /\ UNCHANGED <<content, written>> /\ generation' \in Nat
  BY <1>1, CacheAssumption DEF IInv, WriteInv, Unmap, Bump, TypeOK, Contents, CommandBuffers, Nobody
<1>4. TypeOK'
  BY <1>1, <1>2, <1>3 DEF TypeOK, recorded, Moves
<1>5. WriteInv'
  <2>1. \A d \in CommandBuffers : phase'[d] # "unmap"
    BY <1>1, <1>2, <1>3 DEF IInv, WriteInv, Moves
  <2> QED  BY <1>3, <2>1 DEF WriteInv
<1>6. LoopInv' /\ PartFile'
  BY <1>1, <1>2, LoopFrame, PartFrame DEF Chose, Staged, Running
<1>7. CacheFile'
  BY <1>1 DEF IInv, CacheFile
<1> QED  BY <1>4, <1>5, <1>6, <1>7 DEF IInv

\* The source of a part that is being filled exists.
LEMMA SourceType ==
  ASSUME IInv, NEW c \in CommandBuffers, phase[c] \in {"fill", "filling"}
  PROVE  Source(c) \in Contents \cup {Torn}
<1>1. at[c] \in Contexts /\ part[c][at[c]] \in PartType /\ part[c][at[c]].from # Hit
  BY DEF IInv, TypeOK, LoopInv
<1> QED  BY <1>1 DEF IInv, TypeOK, Source, PartType, Sources

\* generation() before the packing.
LEMMA ReadGenerationInv ==
  ASSUME IInv, NEW c \in CommandBuffers, ReadGeneration(c)
  PROVE  IInv'
<1>1. /\ phase[c] \in Chose /\ at[c] < ways[c] /\ part[c][at[c]].from # Hit
      /\ Moves(c) /\ phase'[c] = "fill" /\ at' = at /\ TypeOK
      /\ UNCHANGED <<binding, cache, packed, recorded, at, seen>>
  BY DEF IInv, TypeOK, LoopInv, ReadGeneration, Moves, Chose, Staged, Running, Phases
<1>2. TypeOK'
  BY <1>1 DEF TypeOK, ReadGeneration, binding, recorded, Moves
<1>3. WriteInv' /\ LoopInv' /\ CacheFile' /\ PartFile'
  BY <1>1, ExecuteFrame DEF Chose, Staged, Running
<1> QED  BY <1>2, <1>3 DEF IInv

\* Packing or copying begins.
LEMMA StartFillInv ==
  ASSUME IInv, NEW c \in CommandBuffers, StartFill(c)
  PROVE  IInv'
<1>1. /\ phase[c] \in Chose /\ at[c] < ways[c] /\ part[c][at[c]].from # Hit
      /\ Moves(c) /\ phase'[c] = "filling" /\ at' = at /\ TypeOK
      /\ UNCHANGED <<binding, cache, recorded, keyed, at>>
  BY DEF IInv, TypeOK, LoopInv, StartFill, Moves, Chose, Staged, Running, Phases
<1>2. seen' \in [CommandBuffers -> Contents \cup {Torn}]
  BY SourceType DEF IInv, TypeOK, StartFill
<1>3. packed' \in [Buffers -> Contents \cup {Torn}]
  BY DEF IInv, TypeOK, StartFill
<1>4. TypeOK'
  BY <1>1, <1>2, <1>3 DEF TypeOK, binding, recorded, Moves
<1>5. WriteInv' /\ LoopInv' /\ CacheFile' /\ PartFile'
  BY <1>1, ExecuteFrame DEF Chose, Staged, Running
<1> QED  BY <1>4, <1>5 DEF IInv

\* Packing or copying ends, in publication, the next part or an error.
LEMMA FinishFillInv ==
  ASSUME IInv, NEW c \in CommandBuffers, FinishFill(c)
  PROVE  IInv'
<1>1. /\ phase[c] \in Chose /\ at[c] < ways[c] /\ part[c][at[c]].from # Hit /\ TypeOK
      /\ UNCHANGED <<binding, cache, recorded, keyed>> /\ at[c] + 1 \in Nat
  BY CacheAssumption DEF IInv, TypeOK, LoopInv, FinishFill, Chose, Staged, Running, Contexts
<1>2. /\ Moves(c)
      /\ phase'[c] \in {"publish", "run", "generation", "fill", "done"}
      /\ at'[c] < ways[c]
      /\ phase'[c] \notin {"run", "done"} => part[c][at'[c]].from # Hit
  <2>1. CASE phase' = [phase EXCEPT ![c] = "publish"] /\ UNCHANGED at
    BY <1>1, <2>1 DEF TypeOK, Moves, Phases, Running
  <2>2. CASE GoTo(c, at[c] + 1)
    BY <1>1, <2>2, GoToMoves
  <2>3. CASE Fail(c)
    BY <1>1, <2>3, FailMoves
  <2> QED  BY <2>1, <2>2, <2>3 DEF FinishFill
<1>3. seen' \in [CommandBuffers -> Contents \cup {Torn}]
  BY CacheAssumption DEF IInv, TypeOK, FinishFill, Contents
<1>4. packed' \in [Buffers -> Contents \cup {Torn}]
  BY DEF IInv, TypeOK, FinishFill
<1>5. TypeOK'
  BY <1>1, <1>2, <1>3, <1>4 DEF TypeOK, binding, recorded, Moves
<1>6. WriteInv' /\ LoopInv' /\ CacheFile' /\ PartFile'
  BY <1>1, <1>2, ExecuteFrame DEF Chose, Staged, Running
<1> QED  BY <1>5, <1>6 DEF IInv

\* publish files the part under the context it was made for.
LEMMA PublishInv ==
  ASSUME IInv, NEW c \in CommandBuffers, Publish(c)
  PROVE  IInv'
<1> DEFINE k == ContextOf(c, at[c])
           b == part[c][at[c]].buffer
<1>1. /\ phase[c] = "publish" /\ phase[c] \in Chose /\ at[c] < ways[c] /\ TypeOK
      /\ UNCHANGED <<binding, packed, recorded, keyed, seen>>
      /\ at[c] \in Contexts /\ at[c] + 1 \in Nat
  BY CacheAssumption DEF IInv, TypeOK, LoopInv, Publish, Chose, Staged, Running, Contexts
<1>2. /\ Moves(c)
      /\ phase'[c] \in {"run", "generation", "fill"}
      /\ at'[c] < ways[c]
      /\ phase'[c] # "run" => part[c][at'[c]].from # Hit
  BY <1>1, GoToMoves DEF Publish
<1>3. k \in Contexts /\ b \in Buffers /\ PublishedAt(c) \in Contents
  BY <1>1, ContextOfType DEF TypeOK, PartType, PublishedAt
<1>4. b[2] = k
  BY <1>1 DEF IInv, PartFile, Chosen, Chose
<1>5. PICK e \in [generation : Contents, buffer : Buffers] \cup {NoEntry} :
        /\ cache' = [cache EXCEPT ![k] = e]
        /\ e # NoEntry => e.buffer = b
  <2> DEFINE e == [generation |-> PublishedAt(c), buffer |-> b]
  <2>1. e \in [generation : Contents, buffer : Buffers] /\ e.buffer = b
    BY <1>3
  <2>2. \/ cache' = [cache EXCEPT ![k] = e]
        \/ cache' = [cache EXCEPT ![k] = NoEntry]
    BY DEF Publish, KeyContext
  <2> HIDE DEF e, b, k
  <2> QED  BY <2>1, <2>2
<1>6. TypeOK'
  BY <1>1, <1>2, <1>3, <1>5 DEF TypeOK, binding, recorded, Moves
<1>7. CacheFile'
  BY <1>3, <1>4, <1>5 DEF IInv, TypeOK, CacheFile
<1>8. WriteInv'
  BY <1>1, <1>2 DEF IInv, WriteInv, Moves, binding
<1>9. LoopInv' /\ PartFile'
  BY <1>1, <1>2, LoopFrame, PartFrame DEF Chose, Staged, Running
<1> QED  BY <1>6, <1>7, <1>8, <1>9 DEF IInv

\* The dispatch completes.
LEMMA RunInv ==
  ASSUME IInv, NEW c \in CommandBuffers, Run(c)
  PROVE  IInv'
<1>1. /\ phase[c] \in Chose /\ at[c] < ways[c] /\ TypeOK
      /\ Moves(c) /\ phase'[c] = "done" /\ at' = at
      /\ UNCHANGED <<binding, cache, packed, recorded, keyed, at, seen>>
  BY DEF IInv, TypeOK, LoopInv, Run, Moves, Chose, Staged, Running, Phases
<1>2. TypeOK'
  BY <1>1 DEF TypeOK, binding, recorded, Moves
<1>3. WriteInv' /\ LoopInv' /\ CacheFile' /\ PartFile'
  BY <1>1, ExecuteFrame DEF Chose, Staged, Running
<1> QED  BY <1>2, <1>3 DEF IInv

\* command_buffer::destroy leaves the cache as it is.
LEMMA ReleaseInv ==
  ASSUME IInv, NEW c \in CommandBuffers, Release(c)
  PROVE  IInv'
<1> USE DEF IInv
<1>1. TypeOK'
  <2>1. NoPart \in PartType /\ 0 \in Contexts /\ 0 \in Contents /\ 1 \in 1 .. NumContexts
    BY CacheAssumption DEF NoPart, PartType, Buffers, Sources, Contexts, Contents, CommandBuffers
  <2> QED  BY <2>1 DEF Release, TypeOK, Phases, binding
<1>2. \A d \in CommandBuffers : d # c => /\ phase'[d] = phase[d] /\ ways'[d] = ways[d]
                                         /\ home'[d] = home[d] /\ part'[d] = part[d]
  BY DEF Release, TypeOK
<1>3. phase'[c] = "released"
  BY DEF Release, TypeOK
<1>4. WriteInv'
  BY <1>2, <1>3 DEF Release, WriteInv, binding
<1>5. LoopInv'
  BY <1>2, <1>3 DEF Release, LoopInv, Staged, Running
<1>6. CacheFile' /\ PartFile'
  BY <1>2, <1>3 DEF Release, CacheFile, PartFile, Chosen, ContextOf, Staged, Running
<1> QED  BY <1>1, <1>4, <1>5, <1>6

-----------------------------------------------------------------------------
(* The theorems.                                                           *)

\* Every action preserves the invariant.
LEMMA NextInv == IInv /\ [Next]_vars => IInv'
<1> SUFFICES ASSUME IInv, [Next]_vars PROVE IInv'
  OBVIOUS
<1>1. CASE ClientWrite \/ ClientUnmap
  BY <1>1, ClientInv
<1>2. CASE Recreate
  BY <1>2, RecreateInv
<1>3. ASSUME NEW c \in CommandBuffers, Record(c) PROVE IInv'
  BY <1>3, KeyInv, StageWeightsInv, ReplicateInv DEF Record
<1>4. ASSUME NEW c \in CommandBuffers, Execute(c) PROVE IInv'
  BY <1>4, StartInv, UnmapInv, ReadGenerationInv, StartFillInv, FinishFillInv, PublishInv, RunInv
     DEF Execute
<1>5. ASSUME NEW c \in CommandBuffers, Release(c) PROVE IInv'
  BY <1>5, ReleaseInv
<1>6. CASE UNCHANGED vars
  BY <1>6 DEF vars, binding, recorded, IInv, TypeOK, WriteInv, LoopInv, CacheFile, PartFile,
              Chosen, ContextOf
<1> QED  BY <1>1, <1>2, <1>3, <1>4, <1>5, <1>6 DEF Next, Finished

\* The inductive invariant holds in every reachable state.
THEOREM Invariance == Spec => []IInv
BY InitInv, NextInv, PTL DEF Spec

\* The cache, its generations and its command buffers keep their types; the
\* generation never overtakes the writes it counts.
THEOREM TypeCorrect == Spec => []TypeOK
<1>1. IInv => TypeOK
  BY DEF IInv
<1> QED  BY <1>1, Invariance, PTL

\* Every job names packings of its own file: keys that travel between contexts
\* over hits, copies and replicas never carry a buffer along (stage_weights,
\* build_replicas, publish).
THEOREM PackingsOnOwnFile == Spec => []OnOwnFile
<1>1. IInv => OnOwnFile
  BY DEF IInv, PartFile, OnOwnFile, Chosen, Staged, Running
<1> QED  BY <1>1, Invariance, PTL
-----------------------------------------------------------------------------
(* Who fills a packing, and when it is over.                               *)

Filling == {"generation", "fill", "filling", "publish"}
Over    == {"run", "done", "released"}

\* Execution has passed part i of command buffer c.
Passed(c, i) ==
  \/ phase[c] = "run"
  \/ phase[c] \in Filling /\ i < at[c]
  \/ phase[c] = "publish" /\ i = at[c]

\* The command buffer that made packing b writes it no more.
Sealed(b) ==
  \/ phase[b[1]] \in Over
  \/ \E i \in Contexts : i < ways[b[1]] /\ Passed(b[1], i) /\ ContextOf(b[1], i) = b[2]

\* What is recorded of a part: a packing that is not a hit is the command
\* buffer's own, a replica is copied from the home part, and a recorded writer
\* of the weights rules hits and copies of other packings out.
PartsAre(c) ==
  /\ phase[c] = "replicate" => 0 < at[c]
  /\ \A i \in Contexts : i < Chosen(c) /\ part[c][i].from # Hit =>
       /\ part[c][i].buffer[1] = c
       /\ 0 < i => part[c][i].from = part[c][0].buffer
  /\ updates[c] => /\ part[c][0].from = Weights
                   /\ \A i \in Contexts : i < Chosen(c) => part[c][i].from # Hit
PartInv == \A c \in CommandBuffers : phase[c] \in Staged => PartsAre(c)

\* Packings a staged command buffer took from the cache: hits, and the packing of
\* another context its home part is a copy of.
Taken(c) ==
  {part[c][i].buffer : i \in {j \in Contexts : j < Chosen(c) /\ part[c][j].from = Hit}}
    \cup ({part[c][0].from} \cap Buffers)

\* A packing in the cache, or taken from it, is sealed.
SealInv ==
  /\ \A k \in Contexts, b \in Buffers : cache[k] # NoEntry /\ cache[k].buffer = b => Sealed(b)
  /\ \A c \in CommandBuffers : phase[c] \in Staged => \A b \in Taken(c) : Sealed(b)

\* Generations grow as long as anyone remembers one.
GenInv ==
  /\ \A k \in Contexts : cache[k] # NoEntry => cache[k].generation <= generation
  /\ \A c \in CommandBuffers : /\ keyed[c] <= generation
                               /\ phase[c] \in {"none", "released"} => keyed[c] = 0

OnceInv == PartInv /\ SealInv /\ GenInv

-----------------------------------------------------------------------------
(* What the packings hold.                                                 *)

\* What command buffer c took from the cache or has filled holds one of the
\* values V, and so does the source it is filling from, from beginning to end.
Good(c, V) ==
  /\ phase[c] \in Staged => \A b \in Taken(c) : packed[b] \in V
  /\ phase[c] \in Running =>
       \A i \in Contexts : i < ways[c] /\ Passed(c, i) => packed[part[c][i].buffer] \in V
  /\ phase[c] = "filling" => seen[c] = Source(c) /\ seen[c] \in V

\* While nobody writes under a running dispatch: what is published, taken or
\* filled is complete.
CompleteInv ==
  /\ \A k \in Contexts : cache[k] # NoEntry => packed[cache[k].buffer] \in Contents
  /\ \A c \in CommandBuffers : /\ phase[c] \in Running \ {"unmap"} => writer = Nobody
                               /\ Good(c, Contents)

\* With one context, whatever the client does: a packing to be published under the
\* current generation holds the current weights.
CoherentInv ==
  /\ CacheCoherent
  /\ \A c \in CommandBuffers :
       /\ phase[c] \in Staged => part[c][0].from \in {Hit, Weights}
       /\ phase[c] \in {"filling", "publish"} /\ writer = Nobody /\ keyed[c] = generation =>
            IF phase[c] = "filling" THEN seen[c] = content
            ELSE packed[part[c][at[c]].buffer] = content

\* With weights written only while no other command buffer is around.
FreshInv ==
  /\ CacheCoherent
  /\ \A c \in Exposed :
       /\ writer \in {c, Nobody}
       /\ writer = c => phase[c] = "unmap" /\ updates[c]
       /\ updates[c] => Exposed = {c}
       /\ ~updates[c] => keyed[c] = generation
       /\ phase[c] \in {"fill", "filling", "publish"} /\ at[c] = 0 => keyed[c] = generation
       /\ Good(c, {content})

\* Only command buffer c changes.
Alone(c) ==
  \A d \in CommandBuffers \ {c} :
    /\ phase'[d] = phase[d] /\ at'[d] = at[d] /\ keyed'[d] = keyed[d] /\ seen'[d] = seen[d]
    /\ home'[d] = home[d] /\ ways'[d] = ways[d] /\ updates'[d] = updates[d]
    /\ part'[d] = part[d]

-----------------------------------------------------------------------------
(* Helpers.                                                                *)

\* siblings names every context once.
LEMMA ContextInjective ==
  ASSUME TypeOK, NEW c \in CommandBuffers, NEW i \in Contexts, NEW j \in Contexts,
         ContextOf(c, i) = ContextOf(c, j)
  PROVE  i = j
<1>1. /\ home[c] \in 0 .. NumContexts - 1 /\ NumContexts \in 1 .. 8
      /\ i \in 0 .. NumContexts - 1 /\ j \in 0 .. NumContexts - 1
  BY CacheAssumption DEF TypeOK, Contexts
<1>2. \A n \in 1 .. 8 : \A h, x, y \in 0 .. n - 1 : (h + x) % n = (h + y) % n => x = y
  OBVIOUS
<1>3. (home[c] + i) % NumContexts = (home[c] + j) % NumContexts
  BY DEF ContextOf
<1> QED  BY <1>1, <1>2, <1>3

\* A loop that looks for the next part to fill passes hits only.
LEMMA GoToPasses ==
  ASSUME TypeOK, NEW c \in CommandBuffers, NEW i \in Nat, GoTo(c, i), NEW j \in Contexts,
         j < ways[c]
  PROVE  /\ Passed(c, j)' => j < i \/ part[c][j].from = Hit
         /\ j < i => Passed(c, j)'
<1>1. /\ phase \in [CommandBuffers -> Phases] /\ at \in [CommandBuffers -> Contexts]
      /\ ways[c] \in 1 .. NumContexts /\ 0 \in Contexts /\ j \in Nat
      /\ \A k \in Contexts : k \in Nat
  BY CacheAssumption DEF TypeOK, Contexts
<1> DEFINE todo == {m \in Contexts : i <= m /\ m < ways[c] /\ part[c][m].from # Hit}
<1>2. CASE /\ todo = {}
           /\ phase' = [phase EXCEPT ![c] = "run"]
           /\ at' = [at EXCEPT ![c] = 0]
  <2>1. phase'[c] = "run"
    BY <1>1, <1>2
  <2>2. j \notin todo
    BY <1>2
  <2>3. j < i \/ part[c][j].from = Hit
    BY <1>1, <2>2
  <2> QED  BY <2>1, <2>3 DEF Passed
<1>3. ASSUME NEW m \in todo, \A l \in todo : m <= l,
             phase' = [phase EXCEPT ![c] = IF m = 0 THEN "generation" ELSE "fill"],
             at' = [at EXCEPT ![c] = m]
      PROVE  /\ Passed(c, j)' => j < i \/ part[c][j].from = Hit
             /\ j < i => Passed(c, j)'
  <2>1. phase'[c] \in {"generation", "fill"} /\ at'[c] = m /\ m \in Nat /\ i <= m
    BY <1>1, <1>3
  <2>2. Passed(c, j)' <=> j < m
    BY <2>1 DEF Passed, Filling
  <2>3. j < m => j < i \/ part[c][j].from = Hit
    <3>1. j \in todo => m <= j
      BY <1>3
    <3> QED  BY <1>1, <2>1, <3>1
  <2>4. j < i => j < m
    BY <1>1, <2>1
  <2> QED  BY <2>2, <2>3, <2>4
<1> QED  BY <1>2, <1>3 DEF GoTo

\* Recording and execution of a command buffer leave the others alone.
LEMMA StepAlone ==
  ASSUME TypeOK, NEW c \in CommandBuffers, Record(c) \/ Execute(c) \/ Release(c)
  PROVE  Alone(c)
<1> USE DEF TypeOK, Alone
<1>1. CASE \E k \in Contexts, n \in Ways, update \in BOOLEAN : Key(c, k, n, update)
  BY <1>1 DEF Key
<1>2. ASSUME NEW i, Recorded(c, i) PROVE \A d \in CommandBuffers \ {c} : phase'[d] = phase[d] /\ at'[d] = at[d]
  BY <1>2 DEF Recorded
<1>3. ASSUME NEW i, GoTo(c, i) PROVE \A d \in CommandBuffers \ {c} : phase'[d] = phase[d] /\ at'[d] = at[d]
  BY <1>3 DEF GoTo
<1>4. ASSUME Fail(c) PROVE \A d \in CommandBuffers \ {c} : phase'[d] = phase[d] /\ at'[d] = at[d]
  BY <1>4 DEF Fail
<1>5. CASE StageWeights(c)
  <2>1. PICK p : part' = [part EXCEPT ![c][0] = p]
    BY <1>5 DEF StageWeights
  <2> QED  BY <1>2, <1>5, <2>1 DEF StageWeights
<1>6. CASE Replicate(c)
  <2>1. PICK p : part' = [part EXCEPT ![c][at[c]] = p]
    BY <1>6 DEF Replicate
  <2> QED  BY <1>2, <1>6, <2>1 DEF Replicate
<1>7. CASE Start(c)
  BY <1>3, <1>7 DEF Start, recorded
<1>8. CASE Unmap(c)
  BY <1>3, <1>4, <1>8 DEF Unmap, recorded
<1>9. CASE ReadGeneration(c) \/ StartFill(c) \/ Run(c)
  BY <1>9 DEF ReadGeneration, StartFill, Run, recorded
<1>10. CASE FinishFill(c)
  BY <1>3, <1>4, <1>10 DEF FinishFill, recorded
<1>11. CASE Publish(c)
  BY <1>3, <1>11 DEF Publish, recorded
<1>12. CASE Release(c)
  BY <1>12 DEF Release
<1> QED  BY <1>1, <1>5, <1>6, <1>7, <1>8, <1>9, <1>10, <1>11, <1>12 DEF Record, Execute

\* What is being filled is the command buffer's own packing for that context.
LEMMA OwnPart ==
  ASSUME IInv, PartInv, NEW c \in CommandBuffers, phase[c] \in Filling
  PROVE  /\ at[c] \in Contexts /\ at[c] < ways[c] /\ part[c][at[c]].from # Hit
         /\ part[c][at[c]].buffer = <<c, ContextOf(c, at[c])>>
         /\ part[c][at[c]].buffer \in Buffers
<1>1. /\ at[c] \in Contexts /\ at[c] < ways[c] /\ phase[c] \in Staged /\ Chosen(c) = ways[c]
      /\ part[c][at[c]].from # Hit /\ part[c][at[c]].buffer \in Buffers
  BY DEF IInv, TypeOK, LoopInv, Filling, Staged, Running, Chosen, PartType
<1>2. part[c][at[c]].buffer[1] = c /\ part[c][at[c]].buffer[2] = ContextOf(c, at[c])
  BY <1>1 DEF PartInv, PartsAre, IInv, PartFile
<1> QED  BY <1>1, <1>2 DEF Buffers

\* Until it is filled, that packing is not sealed: nobody has it.
LEMMA OwnIsOpen ==
  ASSUME IInv, PartInv, NEW c \in CommandBuffers, phase[c] \in {"fill", "filling"}
  PROVE  ~Sealed(part[c][at[c]].buffer)
<1>1. /\ at[c] \in Contexts
      /\ part[c][at[c]].buffer = <<c, ContextOf(c, at[c])>>
  BY OwnPart DEF Filling
<1>2. ASSUME NEW i \in Contexts, Passed(c, i), ContextOf(c, i) = ContextOf(c, at[c]) PROVE FALSE
  <2>1. i = at[c]
    BY <1>1, <1>2, ContextInjective DEF IInv
  <2>2. i \in Nat
    BY CacheAssumption DEF Contexts
  <2> QED  BY <1>2, <2>1, <2>2 DEF Passed
<1>3. phase[c] \notin Over
  BY DEF Over
<1> QED  BY <1>1, <1>2, <1>3 DEF Sealed

\* A step of the worker: parts are passed for good, and only because they were
\* hits or have just been filled.
LEMMA ExecuteFacts ==
  ASSUME IInv, Reusable = FALSE, NEW c \in CommandBuffers, Execute(c)
  PROVE  /\ phase[c] \in {"ready"} \cup Running /\ phase'[c] \in Running \cup {"done"}
         /\ UNCHANGED recorded /\ Chosen(c) = ways[c] /\ Chosen(c)' = ways[c]
         /\ \A j \in Contexts : j < ways[c] =>
              /\ Passed(c, j) => Passed(c, j)' \/ phase'[c] = "done"
              /\ Passed(c, j)' => \/ Passed(c, j) \/ part[c][j].from = Hit
                                  \/ phase[c] = "filling" /\ j = at[c]
<1>1. /\ TypeOK /\ phase \in [CommandBuffers -> Phases] /\ at \in [CommandBuffers -> Contexts]
      /\ \A j \in Contexts : j \in Nat
      /\ 0 \in Nat /\ at[c] \in Nat /\ at[c] + 1 \in Nat
  BY CacheAssumption DEF IInv, TypeOK, Contexts
<1>2. CASE Start(c)
  <2>1. phase[c] = "ready" /\ UNCHANGED recorded
    BY <1>2 DEF Start
  <2>2. \A j \in Contexts : ~Passed(c, j)
    BY <2>1 DEF Passed, Filling
  <2>3. CASE GoTo(c, 0)
    <3>1. phase'[c] \in {"run", "generation", "fill"}
      BY <1>1, <2>3, GoToMoves
    <3>2. \A j \in Contexts : j < ways[c] /\ Passed(c, j)' => part[c][j].from = Hit
      BY <1>1, <2>3, GoToPasses
    <3> QED  BY <2>1, <2>2, <3>1, <3>2 DEF Running, Chosen, recorded
  <2>4. CASE phase' = [phase EXCEPT ![c] = "unmap"]
    <3>1. phase'[c] = "unmap"
      BY <1>1, <2>4
    <3> QED  BY <2>1, <2>2, <3>1 DEF Running, Chosen, recorded, Passed, Filling
  <2> QED  BY <1>2, <2>3, <2>4 DEF Start
<1>3. CASE Unmap(c)
  <2>1. phase[c] = "unmap" /\ UNCHANGED recorded
    BY <1>3 DEF Unmap
  <2>2. \A j \in Contexts : ~Passed(c, j)
    BY <2>1 DEF Passed, Filling
  <2>3. CASE GoTo(c, 0)
    <3>1. phase'[c] \in {"run", "generation", "fill"}
      BY <1>1, <2>3, GoToMoves
    <3>2. \A j \in Contexts : j < ways[c] /\ Passed(c, j)' => part[c][j].from = Hit
      BY <1>1, <2>3, GoToPasses
    <3> QED  BY <2>1, <2>2, <3>1, <3>2 DEF Running, Chosen, recorded
  <2>4. CASE Fail(c)
    <3>1. phase'[c] = "done"
      BY <1>1, <2>4, FailMoves
    <3> QED  BY <2>1, <2>2, <3>1 DEF Running, Chosen, recorded, Passed, Filling
  <2> QED  BY <1>3, <2>3, <2>4 DEF Unmap
<1>4. CASE ReadGeneration(c)
  <2>1. phase[c] = "generation" /\ phase'[c] = "fill" /\ at' = at /\ UNCHANGED recorded
    BY <1>1, <1>4 DEF ReadGeneration
  <2> QED  BY <2>1 DEF Running, Chosen, recorded, Passed, Filling
<1>5. CASE StartFill(c)
  <2>1. phase[c] = "fill" /\ phase'[c] = "filling" /\ at' = at /\ UNCHANGED recorded
    BY <1>1, <1>5 DEF StartFill
  <2> QED  BY <2>1 DEF Running, Chosen, recorded, Passed, Filling
<1>6. CASE FinishFill(c)
  <2>1. phase[c] = "filling" /\ UNCHANGED recorded
    BY <1>6 DEF FinishFill
  <2>2. \A j \in Contexts : Passed(c, j) <=> j < at[c]
    BY <2>1 DEF Passed, Filling
  <2>3. CASE phase' = [phase EXCEPT ![c] = "publish"] /\ UNCHANGED at
    <3>1. phase'[c] = "publish" /\ at'[c] = at[c]
      BY <1>1, <2>3
    <3> QED  BY <2>1, <2>2, <3>1 DEF Running, Chosen, recorded, Passed, Filling
  <2>4. CASE GoTo(c, at[c] + 1)
    <3>1. phase'[c] \in {"run", "generation", "fill"}
      BY <1>1, <2>4, GoToMoves
    <3>2. \A j \in Contexts : j < ways[c] => /\ Passed(c, j)' => j < at[c] + 1 \/ part[c][j].from = Hit
                                             /\ j < at[c] + 1 => Passed(c, j)'
      BY <1>1, <2>4, GoToPasses
    <3>3. \A j \in Contexts : (j < at[c] + 1) <=> (j < at[c] \/ j = at[c])
      BY <1>1
    <3> QED  BY <2>1, <2>2, <3>1, <3>2, <3>3 DEF Running, Chosen, recorded
  <2>5. CASE Fail(c)
    <3>1. phase'[c] = "done"
      BY <1>1, <2>5, FailMoves
    <3> QED  BY <2>1, <2>2, <3>1 DEF Running, Chosen, recorded, Passed, Filling
  <2> QED  BY <1>6, <2>3, <2>4, <2>5 DEF FinishFill
<1>7. CASE Publish(c)
  <2>1. phase[c] = "publish" /\ UNCHANGED recorded /\ GoTo(c, at[c] + 1)
    BY <1>7 DEF Publish
  <2>2. \A j \in Contexts : Passed(c, j) <=> j < at[c] \/ j = at[c]
    BY <2>1 DEF Passed, Filling
  <2>3. phase'[c] \in {"run", "generation", "fill"}
    BY <1>1, <2>1, GoToMoves
  <2>4. \A j \in Contexts : j < ways[c] => /\ Passed(c, j)' => j < at[c] + 1 \/ part[c][j].from = Hit
                                           /\ j < at[c] + 1 => Passed(c, j)'
    BY <1>1, <2>1, GoToPasses
  <2>5. \A j \in Contexts : (j < at[c] + 1) <=> (j < at[c] \/ j = at[c])
    BY <1>1
  <2> QED  BY <2>1, <2>2, <2>3, <2>4, <2>5 DEF Running, Chosen, recorded
<1>8. CASE Run(c)
  <2>1. phase[c] = "run" /\ phase'[c] = "done" /\ UNCHANGED recorded
    BY <1>1, <1>8 DEF Run
  <2> QED  BY <2>1 DEF Running, Chosen, recorded, Passed, Filling
<1> QED  BY <1>2, <1>3, <1>4, <1>5, <1>6, <1>7, <1>8 DEF Execute

\* Filling is the only thing that writes packings.
LEMMA PackedFrame ==
  ASSUME NEW c \in CommandBuffers, Record(c) \/ Execute(c) \/ Release(c)
  PROVE  \/ UNCHANGED packed
         \/ /\ phase[c] \in {"fill", "filling"}
            /\ \E v : packed' = [packed EXCEPT ![part[c][at[c]].buffer] = v]
BY DEF Record, Execute, Key, StageWeights, Replicate, Start, Unmap, ReadGeneration, StartFill,
       FinishFill, Publish, Run, Release

\* A sealed packing stays sealed and keeps its bytes.
LEMMA SealStep ==
  ASSUME IInv, PartInv, Reusable = FALSE, NEW c \in CommandBuffers,
         Record(c) \/ Execute(c) \/ Release(c), NEW b \in Buffers, Sealed(b)
  PROVE  Sealed(b)' /\ packed'[b] = packed[b]
<1>1. packed'[b] = packed[b]
  <2>1. CASE UNCHANGED packed
    BY <2>1
  <2>2. ASSUME phase[c] \in {"fill", "filling"},
               NEW v, packed' = [packed EXCEPT ![part[c][at[c]].buffer] = v]
        PROVE  packed'[b] = packed[b]
    <3>1. b # part[c][at[c]].buffer
      BY <2>2, OwnIsOpen
    <3> QED  BY <2>2, <3>1 DEF IInv, TypeOK
  <2> QED  BY <2>1, <2>2, PackedFrame
<1>2. Sealed(b)'
  <2>1. b[1] \in CommandBuffers /\ b' = b
    BY DEF Buffers
  <2>2. Alone(c)
    BY StepAlone DEF IInv
  <2>3. CASE b[1] # c
    BY <2>1, <2>2, <2>3 DEF Sealed, Passed, ContextOf, Alone
  <2>4. CASE b[1] = c /\ Record(c)
    <3>1. phase[c] \in {"none", "keyed", "replicate"}
      BY <2>4 DEF Record, Key, StageWeights, Replicate
    <3> QED  BY <2>4, <3>1 DEF Sealed, Passed, Over, Filling
  <2>5. CASE b[1] = c /\ Release(c)
    <3>1. phase'[c] = "released"
      BY <2>5 DEF Release, IInv, TypeOK
    <3> QED  BY <2>5, <3>1 DEF Sealed, Over
  <2>6. CASE b[1] = c /\ Execute(c) /\ phase[c] \in Over
    <3>1. phase[c] = "run"
      BY <2>6, ExecuteFacts DEF Over, Running
    <3>2. phase'[c] = "done"
      BY <2>6, <3>1 DEF Execute, Start, Unmap, ReadGeneration, StartFill, FinishFill, Publish, Run,
                        IInv, TypeOK
    <3> QED  BY <2>6, <3>2 DEF Sealed, Over
  <2>7. CASE b[1] = c /\ Execute(c) /\ phase[c] \notin Over
    <3>1. PICK i \in Contexts : i < ways[c] /\ Passed(c, i) /\ ContextOf(c, i) = b[2]
      BY <2>7 DEF Sealed
    <3>2. Passed(c, i)' \/ phase'[c] = "done"
      BY <2>7, <3>1, ExecuteFacts
    <3>3. ways' = ways /\ home' = home
      BY <2>7, ExecuteFacts DEF recorded
    <3> QED  BY <2>7, <3>1, <3>2, <3>3 DEF Sealed, Over, ContextOf
  <2> QED  BY <2>3, <2>4, <2>5, <2>6, <2>7
<1> QED  BY <1>1, <1>2

\* Packings are neither of the two other sources.
LEMMA SourceKinds == Hit \notin Buffers /\ Weights \notin Buffers /\ Hit # Weights
BY CacheAssumption DEF Hit, Weights, Buffers, CommandBuffers, Contexts

\* stage_weights: the home part is a hit, or a packing of its own that is a copy of
\* a cached one or made from the weights.
LEMMA Staging ==
  ASSUME IInv, NEW c \in CommandBuffers, StageWeights(c)
  PROVE  \E p \in PartType :
           /\ part'[c] = [part[c] EXCEPT ![0] = p]
           /\ p.from = Hit => /\ ~updates[c] /\ Found(home[c], keyed[c])
                              /\ p.buffer = cache[home[c]].buffer
           /\ p.from # Hit => p.buffer = <<c, home[c]>>
           /\ p.from \in Buffers => \E o \in Contexts \ {home[c]} :
                                      /\ ~updates[c] /\ Found(o, keyed[c])
                                      /\ p.from = cache[o].buffer
           /\ updates[c] => p.from = Weights
           /\ p.from \in Buffers \cup {Hit, Weights}
<1> DEFINE k == home[c]
           g == keyed[c]
           hit == ~updates[c] /\ Found(k, g)
           copy == ~updates[c] /\ ~hit /\ Others(k, g) # {}
           buffer == IF hit THEN cache[k].buffer ELSE <<c, k>>
           from == IF hit THEN Hit
                   ELSE IF copy THEN cache[FirstOther(k, g)].buffer ELSE Weights
           p == [buffer |-> buffer, from |-> from, publish |-> ~hit]
<1>1. k \in Contexts /\ 0 \in Contexts
  BY CacheAssumption DEF IInv, TypeOK, Contexts
<1>2. ASSUME Others(k, g) # {}
      PROVE  /\ FirstOther(k, g) \in Contexts \ {k} /\ Found(FirstOther(k, g), g)
             /\ cache[FirstOther(k, g)].buffer \in Buffers
  <2>1. FirstOther(k, g) \in Others(k, g)
    BY <1>2, FirstOtherType
  <2> QED  BY <2>1 DEF IInv, TypeOK, Others, Found
<1>3. Found(k, g) => cache[k].buffer \in Buffers
  BY <1>1 DEF IInv, TypeOK, Found
<1>4. part' = [part EXCEPT ![c][0] = p]
  BY DEF StageWeights
<1>5. buffer \in Buffers /\ from \in Buffers \cup {Hit, Weights} /\ (~hit) \in BOOLEAN
  BY <1>1, <1>2, <1>3 DEF Buffers
<1>6. /\ from = Hit <=> hit
      /\ from \in Buffers => copy /\ from = cache[FirstOther(k, g)].buffer
      /\ updates[c] => from = Weights
  BY <1>2, SourceKinds
<1>7. from \in Buffers => \E o \in Contexts \ {k} : ~updates[c] /\ Found(o, g) /\ from = cache[o].buffer
  BY <1>2, <1>6
<1>8. hit => ~updates[c] /\ Found(k, g) /\ buffer = cache[k].buffer
  OBVIOUS
<1>9. ~hit => buffer = <<c, k>>
  OBVIOUS
<1>10. part'[c] = [part[c] EXCEPT ![0] = p]
  BY <1>4 DEF IInv, TypeOK
<1> HIDE DEF buffer, from, hit, copy
<1>11. p \in PartType /\ p.from = from /\ p.buffer = buffer
  BY <1>5 DEF PartType, Sources
<1> HIDE DEF p
<1> QED  BY <1>5, <1>6, <1>7, <1>8, <1>9, <1>10, <1>11

\* build_replicas: a sibling's part is a hit, or a packing of its own that is a copy
\* of the home part.
LEMMA Replicating ==
  ASSUME IInv, NEW c \in CommandBuffers, Replicate(c)
  PROVE  \E p \in PartType :
           /\ part'[c] = [part[c] EXCEPT ![at[c]] = p]
           /\ p.from = Hit => /\ ~updates[c] /\ Found(ContextOf(c, at[c]), keyed[c])
                              /\ p.buffer = cache[ContextOf(c, at[c])].buffer
           /\ p.from # Hit => /\ p.buffer = <<c, ContextOf(c, at[c])>>
                              /\ p.from = part[c][0].buffer
           /\ p.publish => ~updates[c]
<1> DEFINE k == ContextOf(c, at[c])
           g == keyed[c]
           hit == ~updates[c] /\ Found(k, g)
           buffer == IF hit THEN cache[k].buffer ELSE <<c, k>>
           from == IF hit THEN Hit ELSE part[c][0].buffer
           publish == ~hit /\ ~updates[c]
           p == [buffer |-> buffer, from |-> from, publish |-> publish]
<1>1. k \in Contexts /\ 0 \in Contexts
  BY ContextOfType, CacheAssumption DEF IInv, TypeOK, Contexts
<1>2. part[c][0].buffer \in Buffers
  BY <1>1 DEF IInv, TypeOK, PartType
<1>3. Found(k, g) => cache[k].buffer \in Buffers
  BY <1>1 DEF IInv, TypeOK, Found
<1>4. part' = [part EXCEPT ![c][at[c]] = p]
  BY DEF Replicate, KeyContext
<1>5. buffer \in Buffers /\ from \in Buffers \cup {Hit, Weights} /\ publish \in BOOLEAN
  BY <1>1, <1>2, <1>3 DEF Buffers
<1>6. /\ from = Hit <=> hit
      /\ ~hit => from = part[c][0].buffer /\ buffer = <<c, k>>
      /\ hit => ~updates[c] /\ Found(k, g) /\ buffer = cache[k].buffer
      /\ publish => ~updates[c]
  BY <1>2, SourceKinds
<1>7. part'[c] = [part[c] EXCEPT ![at[c]] = p]
  BY <1>4 DEF IInv, TypeOK
<1> HIDE DEF buffer, from, hit, publish
<1>8. p \in PartType /\ p.from = from /\ p.buffer = buffer /\ p.publish = publish
  BY <1>5 DEF PartType, Sources
<1> HIDE DEF p
<1> QED  BY <1>6, <1>7, <1>8

-----------------------------------------------------------------------------
(* Parts, seals and generations.                                           *)

\* Recording goes part by part.
LEMMA RecordedChosen ==
  ASSUME TypeOK, NEW c \in CommandBuffers, NEW i \in Nat, 0 < i, i <= ways[c], Recorded(c, i),
         ways' = ways
  PROVE  /\ Chosen(c)' = i
         /\ phase'[c] \in {"replicate", "ready"}
         /\ phase'[c] = "replicate" => 0 < at'[c]
<1>1. ways[c] \in Nat
  BY CacheAssumption DEF TypeOK
<1>2. /\ phase'[c] \in {"replicate", "ready"}
      /\ phase'[c] = "replicate" => at'[c] = i
      /\ phase'[c] = "ready" => ways[c] <= i
  BY RecordedMoves
<1> QED  BY <1>1, <1>2 DEF Chosen

\* A packing a recording takes was in the cache, at the generation it is keyed by.
LEMMA TakenFrom ==
  ASSUME IInv, PartInv, NEW c \in CommandBuffers, Record(c), phase'[c] \in Staged,
         NEW b, b \in Taken(c)'
  PROVE  \/ phase[c] \in Staged /\ b \in Taken(c)
         \/ \E o \in Contexts : ~updates[c] /\ Found(o, keyed[c]) /\ b = cache[o].buffer
<1>1. /\ TypeOK /\ 0 \in Contexts /\ 1 \in Nat /\ at[c] + 1 \in Nat /\ at[c] \in Nat
      /\ 1 <= ways[c] /\ ways[c] \in Nat /\ home[c] \in Contexts
      /\ \A i \in Contexts : i \in Nat
  BY CacheAssumption DEF IInv, TypeOK, Contexts
<1>2. ~(\E k \in Contexts, n \in Ways, update \in BOOLEAN : Key(c, k, n, update))
  BY DEF Key, IInv, TypeOK, Staged, Running
<1>3. \/ \E i \in Contexts : i < Chosen(c)' /\ part'[c][i].from = Hit /\ b = part'[c][i].buffer
      \/ part'[c][0].from \in Buffers /\ b = part'[c][0].from
  BY DEF Taken
<1>4. CASE StageWeights(c)
  <2>1. PICK p \in PartType :
           /\ part'[c] = [part[c] EXCEPT ![0] = p]
           /\ p.from = Hit => /\ ~updates[c] /\ Found(home[c], keyed[c])
                              /\ p.buffer = cache[home[c]].buffer
           /\ p.from \in Buffers => \E o \in Contexts \ {home[c]} :
                                      /\ ~updates[c] /\ Found(o, keyed[c])
                                      /\ p.from = cache[o].buffer
    BY <1>4, Staging
  <2>2. Recorded(c, 1) /\ ways' = ways
    BY <1>4 DEF StageWeights
  <2>3. Chosen(c)' = 1
    BY <1>1, <2>2, RecordedChosen
  <2>4. part'[c][0] = p
    BY <1>1, <2>1 DEF TypeOK
  <2>5. ASSUME NEW i \in Contexts, i < Chosen(c)' PROVE i = 0
    BY <1>1, <2>3, <2>5
  <2> QED  BY <1>1, <1>3, <2>1, <2>4, <2>5
<1>5. CASE Replicate(c)
  <2> DEFINE a == at[c]
  <2>1. PICK p \in PartType :
           /\ part'[c] = [part[c] EXCEPT ![a] = p]
           /\ p.from = Hit => /\ ~updates[c] /\ Found(ContextOf(c, a), keyed[c])
                              /\ p.buffer = cache[ContextOf(c, a)].buffer
    BY <1>5, Replicating
  <2>2. /\ Recorded(c, a + 1) /\ ways' = ways /\ phase[c] = "replicate" /\ phase[c] \in Staged
        /\ a < ways[c] /\ 0 < a /\ a \in Contexts /\ Chosen(c) = a
    BY <1>5 DEF Replicate, Staged, IInv, LoopInv, PartInv, PartsAre, TypeOK, Chosen
  <2>3. Chosen(c)' = a + 1
    BY <1>1, <2>2, RecordedChosen
  <2>4. /\ part'[c][a] = p
        /\ \A i \in Contexts : i # a => part'[c][i] = part[c][i]
    BY <2>1, <2>2 DEF IInv, TypeOK
  <2>5. ContextOf(c, a) \in Contexts
    BY <1>1, <2>2, ContextOfType
  <2>6. CASE part'[c][0].from \in Buffers /\ b = part'[c][0].from
    <3>1. part'[c][0] = part[c][0]
      BY <1>1, <2>2, <2>4
    <3> QED  BY <2>2, <2>6, <3>1 DEF Taken
  <2>7. ASSUME NEW i \in Contexts, i < Chosen(c)', part'[c][i].from = Hit, b = part'[c][i].buffer
        PROVE  \/ phase[c] \in Staged /\ b \in Taken(c)
               \/ \E o \in Contexts : ~updates[c] /\ Found(o, keyed[c]) /\ b = cache[o].buffer
    <3>1. CASE i = a
      BY <2>1, <2>4, <2>5, <2>7, <3>1
    <3>2. CASE i # a
      <4>1. i < Chosen(c)
        BY <1>1, <2>2, <2>3, <2>7, <3>2
      <4> QED  BY <2>2, <2>4, <2>7, <3>2, <4>1 DEF Taken
    <3> QED  BY <3>1, <3>2
  <2> QED  BY <1>3, <2>6, <2>7
<1> QED  BY <1>2, <1>4, <1>5 DEF Record

\* A step of another command buffer, or of the client, changes nothing of d.
LEMMA StillParts ==
  ASSUME NEW d, phase'[d] = phase[d], at'[d] = at[d], home'[d] = home[d], ways'[d] = ways[d],
         updates'[d] = updates[d], part'[d] = part[d]
  PROVE  /\ PartsAre(d)' = PartsAre(d) /\ Chosen(d)' = Chosen(d) /\ Taken(d)' = Taken(d)
         /\ \A i : Passed(d, i)' = Passed(d, i) /\ ContextOf(d, i)' = ContextOf(d, i)
<1>1. Chosen(d)' = Chosen(d)
  BY DEF Chosen
<1>2. PartsAre(d)' = PartsAre(d)
  BY <1>1 DEF PartsAre
<1>3. Taken(d)' = Taken(d)
  BY <1>1 DEF Taken
<1>4. \A i : Passed(d, i)' = Passed(d, i) /\ ContextOf(d, i)' = ContextOf(d, i)
  BY DEF Passed, ContextOf
<1> QED  BY <1>1, <1>2, <1>3, <1>4

\* The parts a step of c leaves are as PartInv says.
LEMMA PartStep ==
  ASSUME IInv, PartInv, Reusable = FALSE, NEW c \in CommandBuffers,
         Record(c) \/ Execute(c) \/ Release(c)
  PROVE  PartInv'
<1>1. /\ TypeOK /\ 0 \in Contexts /\ 1 \in Nat /\ at[c] + 1 \in Nat /\ at[c] \in Nat
      /\ 1 <= ways[c] /\ ways[c] \in Nat /\ home[c] \in Contexts
      /\ \A i \in Contexts : i \in Nat
  BY CacheAssumption DEF IInv, TypeOK, Contexts
<1> SUFFICES ASSUME NEW d \in CommandBuffers, phase'[d] \in Staged PROVE PartsAre(d)'
  BY DEF PartInv, Staged
<1>2. Alone(c)
  BY <1>1, StepAlone
<1>3. CASE d # c
  <2>1. phase[d] \in Staged /\ PartsAre(d)' = PartsAre(d)
    BY <1>2, <1>3, StillParts DEF Alone
  <2> QED  BY <2>1 DEF PartInv
<1>4. CASE d = c /\ \E k \in Contexts, n \in Ways, update \in BOOLEAN : Key(c, k, n, update)
  BY <1>4 DEF Key, IInv, TypeOK, Staged, Running
<1>5. CASE d = c /\ Release(c)
  BY <1>5 DEF Release, IInv, TypeOK, Staged, Running
<1>6. CASE d = c /\ Execute(c)
  <2>1. /\ phase[c] \in {"ready"} \cup Running /\ phase'[c] \in Running \cup {"done"}
        /\ UNCHANGED recorded /\ Chosen(c) = ways[c] /\ Chosen(c)' = ways[c]
    BY <1>6, ExecuteFacts
  <2>2. phase[c] \in Staged /\ phase'[c] # "replicate"
    BY <2>1 DEF Staged, Running
  <2>3. PartsAre(c)
    BY <2>2 DEF PartInv
  <2> QED  BY <1>6, <2>1, <2>2, <2>3 DEF PartsAre, recorded
<1>7. CASE d = c /\ StageWeights(c)
  <2>1. PICK p \in PartType :
           /\ part'[c] = [part[c] EXCEPT ![0] = p]
           /\ p.from # Hit => p.buffer = <<c, home[c]>>
           /\ updates[c] => p.from = Weights
    BY <1>7, Staging
  <2>2. Recorded(c, 1) /\ ways' = ways /\ updates' = updates
    BY <1>7 DEF StageWeights
  <2>3. Chosen(c)' = 1 /\ (phase'[c] = "replicate" => 0 < at'[c])
    BY <1>1, <2>2, RecordedChosen
  <2>4. part'[c][0] = p
    BY <1>1, <2>1 DEF TypeOK
  <2>5. \A i \in Contexts : i < Chosen(c)' => i = 0 /\ ~(0 < i)
    BY <1>1, <2>3
  <2> QED  BY <1>1, <1>7, <2>1, <2>2, <2>3, <2>4, <2>5, SourceKinds DEF PartsAre
<1>8. CASE d = c /\ Replicate(c)
  <2> DEFINE a == at[c]
  <2>1. PICK p \in PartType :
           /\ part'[c] = [part[c] EXCEPT ![a] = p]
           /\ p.from = Hit => ~updates[c]
           /\ p.from # Hit => /\ p.buffer = <<c, ContextOf(c, a)>>
                              /\ p.from = part[c][0].buffer
    BY <1>8, Replicating
  <2>2. /\ Recorded(c, a + 1) /\ ways' = ways /\ updates' = updates
        /\ phase[c] = "replicate" /\ phase[c] \in Staged /\ PartsAre(c)
        /\ a < ways[c] /\ 0 < a /\ a \in Contexts /\ Chosen(c) = a
    BY <1>8 DEF Replicate, Staged, IInv, LoopInv, PartInv, PartsAre, TypeOK, Chosen
  <2>3. Chosen(c)' = a + 1 /\ (phase'[c] = "replicate" => 0 < at'[c])
    BY <1>1, <2>2, RecordedChosen
  <2>4. /\ part'[c][a] = p
        /\ \A i \in Contexts : i # a => part'[c][i] = part[c][i]
    BY <2>1, <2>2 DEF IInv, TypeOK
  <2>5. part'[c][0] = part[c][0]
    BY <1>1, <2>2, <2>4
  <2>6. \A i \in Contexts : i < Chosen(c)' => i = a \/ (i < Chosen(c) /\ i # a)
    <3>1. ASSUME NEW i \in Contexts, i < Chosen(c)', i # a PROVE i < Chosen(c)
      BY <1>1, <2>2, <2>3, <3>1
    <3> QED  BY <3>1
  <2>7. \A i \in Contexts : i < Chosen(c)' /\ part'[c][i].from # Hit =>
       /\ part'[c][i].buffer[1] = c
       /\ 0 < i => part'[c][i].from = part'[c][0].buffer
    BY <2>1, <2>2, <2>4, <2>5, <2>6 DEF PartsAre
  <2>8. updates[c] => /\ part'[c][0].from = Weights
                      /\ \A i \in Contexts : i < Chosen(c)' => part'[c][i].from # Hit
    BY <2>1, <2>2, <2>4, <2>5, <2>6 DEF PartsAre
  <2> QED  BY <1>8, <2>2, <2>3, <2>7, <2>8 DEF PartsAre
<1> QED  BY <1>3, <1>4, <1>5, <1>6, <1>7, <1>8 DEF Record

\* A cached packing was there before, or its owner publishes it now.
LEMMA CacheStep ==
  ASSUME IInv, PartInv, NEW c \in CommandBuffers, Record(c) \/ Execute(c) \/ Release(c),
         NEW k \in Contexts, cache'[k] # NoEntry
  PROVE  \/ cache'[k] = cache[k] /\ cache[k] # NoEntry
         \/ /\ phase[c] = "publish" /\ k = ContextOf(c, at[c])
            /\ cache'[k] = [generation |-> PublishedAt(c), buffer |-> part[c][at[c]].buffer]
<1>1. cache \in [Contexts -> [generation : Contents, buffer : Buffers] \cup {NoEntry}]
  BY DEF IInv, TypeOK
<1>2. ASSUME NEW j \in Contexts, NEW g, Lookup(j, g) PROVE cache'[k] = cache[k]
  BY <1>1, <1>2 DEF Lookup
<1>3. CASE StageWeights(c)
  <2>1. home[c] \in Contexts
    BY DEF IInv, TypeOK
  <2>2. cache' = cache \/ Lookup(home[c], keyed[c])
    BY <1>3 DEF StageWeights
  <2> QED  BY <1>2, <2>1, <2>2
<1>4. CASE Replicate(c)
  <2>1. ContextOf(c, at[c]) \in Contexts
    BY ContextOfType DEF IInv, TypeOK
  <2>2. cache' = cache \/ Lookup(ContextOf(c, at[c]), keyed[c])
    BY <1>4 DEF Replicate, KeyContext
  <2> QED  BY <1>2, <2>1, <2>2
<1>5. CASE Publish(c)
  <2> DEFINE j == ContextOf(c, at[c])
             e == [generation |-> PublishedAt(c), buffer |-> part[c][at[c]].buffer]
  <2>1. \/ cache' = [cache EXCEPT ![j] = e]
        \/ cache' = [cache EXCEPT ![j] = NoEntry]
    BY <1>5 DEF Publish, KeyContext
  <2>2. phase[c] = "publish"
    BY <1>5 DEF Publish
  <2> HIDE DEF e, j
  <2>3. cache'[k] = cache[k] \/ (k = j /\ cache'[k] \in {e, NoEntry})
    BY <1>1, <2>1
  <2> QED  BY <2>2, <2>3 DEF e, j
<1>6. CASE cache' = cache
  BY <1>6
<1>7. \/ StageWeights(c) \/ Replicate(c) \/ Publish(c) \/ cache' = cache
  BY DEF Record, Execute, Key, Start, Unmap, ReadGeneration, StartFill, FinishFill, Run, Release
<1> QED  BY <1>3, <1>4, <1>5, <1>6, <1>7

\* What is cached or taken is sealed.
LEMMA SealKept ==
  ASSUME IInv, PartInv, SealInv, Reusable = FALSE, NEW c \in CommandBuffers,
         Record(c) \/ Execute(c) \/ Release(c)
  PROVE  SealInv'
<1>1. TypeOK
  BY DEF IInv
<1>2. \A k \in Contexts : cache[k] # NoEntry => cache[k].buffer \in Buffers
  BY DEF IInv, TypeOK
<1>3. ASSUME NEW d \in CommandBuffers, phase[d] \in Staged, NEW b \in Taken(d) PROVE b \in Buffers
  BY <1>1, <1>3 DEF TypeOK, Taken, PartType
<1>4. ASSUME NEW k \in Contexts, NEW b \in Buffers, cache'[k] # NoEntry, cache'[k].buffer = b
      PROVE  Sealed(b)'
  <2>1. CASE cache'[k] = cache[k] /\ cache[k] # NoEntry
    <3>1. Sealed(b)
      BY <1>4, <2>1 DEF SealInv
    <3> QED  BY <3>1, SealStep
  <2>2. CASE /\ phase[c] = "publish" /\ k = ContextOf(c, at[c])
             /\ cache'[k] = [generation |-> PublishedAt(c), buffer |-> part[c][at[c]].buffer]
    <3>1. b = part[c][at[c]].buffer /\ b = <<c, ContextOf(c, at[c])>>
      <4>1. part[c][at[c]].buffer = <<c, ContextOf(c, at[c])>>
        BY <2>2, OwnPart DEF Filling
      <4>2. b = part[c][at[c]].buffer
        BY <1>4, <2>2
      <4> QED  BY <4>1, <4>2
    <3>2. at[c] \in Contexts /\ at[c] < ways[c]
      BY <2>2, OwnPart DEF Filling
    <3>3. Sealed(b)
      BY <2>2, <3>1, <3>2 DEF Sealed, Passed
    <3> QED  BY <3>3, SealStep
  <2> QED  BY <1>4, <2>1, <2>2, CacheStep
<1>5. ASSUME NEW d \in CommandBuffers, phase'[d] \in Staged, NEW b, b \in Taken(d)' PROVE Sealed(b)'
  <2>1. Alone(c)
    BY <1>1, StepAlone
  <2>2. CASE d # c
    <3>1. phase[d] \in Staged /\ b \in Taken(d)
      BY <1>5, <2>1, <2>2, StillParts DEF Alone
    <3>2. b \in Buffers /\ Sealed(b)
      BY <1>3, <3>1 DEF SealInv
    <3> QED  BY <3>2, SealStep
  <2>3. CASE d = c /\ Execute(c)
    <3>1. phase[c] \in Staged /\ b \in Taken(c)
      <4>1. /\ phase[c] \in {"ready"} \cup Running
            /\ part' = part /\ Chosen(c)' = Chosen(c)
        BY <2>3, ExecuteFacts DEF recorded
      <4>2. Taken(c)' = Taken(c)
        BY <4>1 DEF Taken
      <4> QED  BY <1>5, <2>3, <4>1, <4>2 DEF Staged
    <3>2. b \in Buffers /\ Sealed(b)
      BY <1>3, <2>3, <3>1 DEF SealInv
    <3> QED  BY <3>2, SealStep
  <2>4. CASE d = c /\ Release(c)
    BY <1>5, <2>4 DEF Release, IInv, TypeOK, Staged, Running
  <2>5. CASE d = c /\ Record(c)
    <3>1. \/ phase[c] \in Staged /\ b \in Taken(c)
          \/ \E o \in Contexts : ~updates[c] /\ Found(o, keyed[c]) /\ b = cache[o].buffer
      BY <1>5, <2>5, TakenFrom
    <3>2. b \in Buffers
      BY <1>2, <1>3, <3>1 DEF Found
    <3>3. Sealed(b)
      BY <3>1, <3>2 DEF SealInv, Found
    <3> QED  BY <3>2, <3>3, SealStep
  <2> QED  BY <2>2, <2>3, <2>4, <2>5
<1>6. \A k \in Contexts, b \in Buffers : cache'[k] # NoEntry /\ cache'[k].buffer = b => Sealed(b)'
  BY <1>4
<1>7. \A d \in CommandBuffers : phase'[d] \in Staged => \A b \in Taken(d)' : Sealed(b)'
  BY <1>5
<1> QED  BY <1>6, <1>7 DEF SealInv, Staged

\* Generations are read from the binding, so none is ahead of it.
LEMMA GenStep ==
  ASSUME IInv, PartInv, GenInv, NEW c \in CommandBuffers, Record(c) \/ Execute(c) \/ Release(c)
  PROVE  GenInv'
<1>1. /\ TypeOK /\ generation \in Nat /\ \A d \in CommandBuffers : keyed[d] \in Nat
      /\ \A k \in Contexts : cache[k] # NoEntry => cache[k].generation \in Nat
  BY CacheAssumption DEF IInv, TypeOK, Contents
<1>2. generation' \in Nat /\ generation <= generation'
  <2>1. generation' = generation \/ generation' = generation + 1
    BY DEF Record, Execute, Key, StageWeights, Replicate, Start, Change, Unmap, Bump, ReadGeneration,
           StartFill, FinishFill, Publish, Run, Release, binding
  <2> QED  BY <1>1, <2>1
<1>3. ASSUME NEW k \in Contexts, cache'[k] # NoEntry PROVE cache'[k].generation <= generation'
  <2>1. CASE cache'[k] = cache[k] /\ cache[k] # NoEntry
    <3>1. cache[k].generation <= generation /\ cache[k].generation \in Nat
      BY <1>1, <2>1 DEF GenInv
    <3> QED  BY <1>1, <1>2, <2>1, <3>1
  <2>2. CASE cache'[k] = [generation |-> PublishedAt(c), buffer |-> part[c][at[c]].buffer]
    <3>1. PublishedAt(c) \in Nat /\ PublishedAt(c) <= generation
      BY <1>1 DEF PublishedAt, GenInv
    <3> QED  BY <1>1, <1>2, <2>2, <3>1
  <2> QED  BY <1>3, <2>1, <2>2, CacheStep
<1>4. ASSUME NEW d \in CommandBuffers
      PROVE  keyed'[d] <= generation' /\ (phase'[d] \in {"none", "released"} => keyed'[d] = 0)
  <2>1. Alone(c)
    BY <1>1, StepAlone
  <2>2. CASE d # c
    <3>1. keyed'[d] = keyed[d] /\ phase'[d] = phase[d] /\ keyed[d] \in Nat
      BY <1>1, <2>1, <2>2 DEF Alone
    <3> QED  BY <1>1, <1>2, <3>1 DEF GenInv
  <2>3. CASE d = c
    <3>1. \/ keyed'[c] \in {keyed[c], generation} /\ phase'[c] \notin {"none", "released"}
          \/ keyed'[c] = 0 /\ phase'[c] = "released"
      <4>1. CASE Execute(c)
        <5>1. keyed' = keyed \/ keyed' = [keyed EXCEPT ![c] = generation]
          BY <4>1 DEF Execute, Start, Unmap, ReadGeneration, StartFill, FinishFill, Publish, Run
        <5>2. keyed'[c] \in {keyed[c], generation}
          BY <1>1, <5>1 DEF TypeOK
        <5>3. ASSUME NEW i, GoTo(c, i) PROVE phase'[c] \in {"run", "generation", "fill"}
          BY <1>1, <5>3 DEF GoTo, TypeOK
        <5>4. Fail(c) => phase'[c] = "done"
          BY <1>1 DEF Fail, TypeOK
        <5>5. phase'[c] \in Running \cup {"done"}
          BY <1>1, <4>1, <5>3, <5>4 DEF Execute, Start, Unmap, ReadGeneration, StartFill, FinishFill,
             Publish, Run, TypeOK, Running
        <5> QED  BY <5>2, <5>5 DEF Running
      <4>2. CASE Release(c)
        BY <1>1, <4>2 DEF Release, TypeOK
      <4>3. CASE \E k \in Contexts, n \in Ways, update \in BOOLEAN : Key(c, k, n, update)
        BY <1>1, <4>3 DEF Key, TypeOK
      <4>4. CASE StageWeights(c) \/ Replicate(c)
        <5>1. keyed' = keyed /\ \E i : Recorded(c, i)
          BY <4>4 DEF StageWeights, Replicate
        <5>2. phase'[c] \in {"replicate", "ready"}
          BY <1>1, <5>1 DEF Recorded, TypeOK
        <5> QED  BY <5>1, <5>2
      <4> QED  BY <4>1, <4>2, <4>3, <4>4 DEF Record
    <3>2. keyed[c] <= generation
      BY DEF GenInv
    <3> QED  BY <1>1, <1>2, <2>3, <3>1, <3>2
  <2> QED  BY <2>2, <2>3
<1> QED  BY <1>3, <1>4 DEF GenInv

\* The client's own steps leave command buffers and packings alone.
LEMMA ClientFrame ==
  ASSUME ClientWrite \/ ClientUnmap \/ Recreate \/ UNCHANGED vars
  PROVE  /\ UNCHANGED <<packed, phase, home, ways, updates, part, keyed, at, seen>>
         /\ \A d : /\ PartsAre(d)' = PartsAre(d) /\ Chosen(d)' = Chosen(d) /\ Taken(d)' = Taken(d)
                   /\ \A i : Passed(d, i)' = Passed(d, i) /\ ContextOf(d, i)' = ContextOf(d, i)
         /\ \A b : Sealed(b)' = Sealed(b)
<1>1. UNCHANGED <<packed, phase, home, ways, updates, part, keyed, at, seen>>
  BY DEF ClientWrite, ClientUnmap, Recreate, vars, recorded
<1>2. ASSUME NEW d
      PROVE  /\ PartsAre(d)' = PartsAre(d) /\ Chosen(d)' = Chosen(d) /\ Taken(d)' = Taken(d)
             /\ \A i : Passed(d, i)' = Passed(d, i) /\ ContextOf(d, i)' = ContextOf(d, i)
  BY <1>1, StillParts
<1>3. ASSUME NEW b PROVE Sealed(b)' = Sealed(b)
  BY <1>1 DEF Sealed, Passed, ContextOf
<1> QED  BY <1>1, <1>2, <1>3

\* Parts, seals and generations are kept by every step.
LEMMA OnceStep ==
  ASSUME IInv, OnceInv, Reusable = FALSE, [Next]_vars
  PROVE  OnceInv'
<1>1. ASSUME NEW c \in CommandBuffers, Record(c) \/ Execute(c) \/ Release(c) PROVE OnceInv'
  <2>1. PartInv'
    BY <1>1, PartStep DEF OnceInv
  <2>2. SealInv'
    BY <1>1, SealKept DEF OnceInv
  <2>3. GenInv'
    BY <1>1, GenStep DEF OnceInv
  <2> QED  BY <2>1, <2>2, <2>3 DEF OnceInv
<1>2. CASE ClientWrite \/ ClientUnmap \/ Recreate \/ UNCHANGED vars
  <2>1. /\ UNCHANGED <<packed, phase, home, ways, updates, part, keyed, at, seen>>
        /\ \A d : PartsAre(d)' = PartsAre(d) /\ Taken(d)' = Taken(d)
        /\ \A b : Sealed(b)' = Sealed(b)
    BY <1>2, ClientFrame
  <2>2. \A k \in Contexts : cache'[k] # NoEntry => cache'[k] = cache[k]
    BY <1>2 DEF ClientWrite, ClientUnmap, Recreate, Forget, vars
  <2>3. PartInv'
    BY <2>1 DEF OnceInv, PartInv
  <2>4. SealInv'
    BY <2>1, <2>2 DEF OnceInv, SealInv
  <2>5. GenInv'
    <3>1. generation \in Nat
      BY CacheAssumption DEF IInv, TypeOK, Contents
    <3>2. CASE generation' \in {generation, generation + 1}
      <4>1. /\ \A k \in Contexts : cache[k] # NoEntry => cache[k].generation \in Nat
            /\ \A c \in CommandBuffers : keyed[c] \in Nat
        BY CacheAssumption DEF IInv, TypeOK, Contents
      <4>2. \A x \in Nat : x <= generation => x <= generation'
        BY <3>1, <3>2
      <4> QED  BY <2>1, <2>2, <4>1, <4>2 DEF OnceInv, GenInv
    <3>3. CASE Recreate
      <4>1. \A k \in Contexts : cache'[k] = NoEntry
        BY <3>3 DEF Recreate, Forget
      <4>2. \A c \in CommandBuffers : keyed[c] = 0 /\ generation' = 0
        BY <3>3 DEF Recreate, OnceInv, GenInv
      <4> QED  BY <2>1, <4>1, <4>2 DEF GenInv, OnceInv
    <3>4. ClientWrite \/ ClientUnmap \/ UNCHANGED vars => generation' \in {generation, generation + 1}
      BY DEF ClientWrite, ClientUnmap, Change, Bump, vars, binding
    <3> QED  BY <1>2, <3>2, <3>3, <3>4
  <2> QED  BY <2>3, <2>4, <2>5 DEF OnceInv
<1> QED  BY <1>1, <1>2 DEF Next, Finished

\* Parts, seals and generations in the initial state.
LEMMA OnceInit == Init => OnceInv
<1> SUFFICES ASSUME Init PROVE OnceInv
  OBVIOUS
<1>1. \A c \in CommandBuffers : phase[c] = "none" /\ keyed[c] = 0
  BY DEF Init
<1>2. generation = 0 /\ \A k \in Contexts : cache[k] = NoEntry
  BY DEF Init
<1>3. PartInv /\ SealInv
  BY <1>1, <1>2 DEF PartInv, SealInv, Staged, Running
<1>4. GenInv
  BY <1>1, <1>2 DEF GenInv
<1> QED  BY <1>3, <1>4 DEF OnceInv

\* SharedBuffer is "written exactly once": when command buffers run once, a packing
\* that is cached, or that a command buffer took from the cache, is never written
\* again, whatever the client does to the weights.
THEOREM SharedIsSealed ==
  ASSUME Reusable = FALSE PROVE Spec => [](IInv /\ OnceInv)
<1>1. Init => IInv /\ OnceInv
  BY InitInv, OnceInit
<1>2. (IInv /\ OnceInv) /\ [Next]_vars => (IInv /\ OnceInv)'
  BY NextInv, OnceStep
<1> QED  BY <1>1, <1>2, PTL DEF Spec

\* What a cached packing holds does not change under those that share it.
SharedKept ==
  \A k \in Contexts : cache[k] # NoEntry => packed'[cache[k].buffer] = packed[cache[k].buffer]

\* SharedBuffer is "written exactly once [...] and is read-only for the rest of its
\* life": no step writes a packing that is in the cache, neither the worker that
\* made it nor one that copies it to another context.
THEOREM SharedIsWrittenOnce ==
  ASSUME Reusable = FALSE PROVE Spec => [][SharedKept]_vars
<1>1. ASSUME IInv, OnceInv, [Next]_vars PROVE [SharedKept]_vars
  <2> SUFFICES ASSUME NEW k \in Contexts, cache[k] # NoEntry
               PROVE  packed'[cache[k].buffer] = packed[cache[k].buffer]
    BY DEF SharedKept
  <2>1. PICK b \in Buffers : b = cache[k].buffer
    BY <1>1 DEF IInv, TypeOK
  <2>2. Sealed(b) /\ PartInv
    BY <1>1, <2>1 DEF OnceInv, SealInv
  <2>3. ASSUME NEW c \in CommandBuffers, Record(c) \/ Execute(c) \/ Release(c)
        PROVE  packed'[b] = packed[b]
    BY <1>1, <2>2, <2>3, SealStep
  <2>4. CASE ClientWrite \/ ClientUnmap \/ Recreate \/ UNCHANGED vars
    BY <2>4, ClientFrame
  <2> QED  BY <1>1, <2>1, <2>3, <2>4 DEF Next, Finished
<1>2. (IInv /\ OnceInv) /\ [Next]_vars => [SharedKept]_vars
  BY <1>1
<1> QED  BY <1>2, SharedIsSealed, PTL DEF Spec

-----------------------------------------------------------------------------
(* Values.                                                                 *)

\* Taken packings are packings, and sealed.
LEMMA TakenSealed ==
  ASSUME IInv, OnceInv, NEW d \in CommandBuffers, phase[d] \in Staged, NEW b \in Taken(d)
  PROVE  b \in Buffers /\ Sealed(b)
<1>1. b \in Buffers
  BY DEF IInv, TypeOK, Taken, PartType
<1> QED  BY <1>1 DEF OnceInv, SealInv

\* The packing of a part that execution has passed is sealed.
LEMMA PassedSealed ==
  ASSUME IInv, OnceInv, NEW d \in CommandBuffers, phase[d] \in Running, NEW i \in Contexts,
         i < ways[d], Passed(d, i)
  PROVE  part[d][i].buffer \in Buffers /\ Sealed(part[d][i].buffer)
<1>1. phase[d] \in Staged /\ Chosen(d) = ways[d] /\ part[d][i].buffer \in Buffers
  BY DEF Staged, Running, Chosen, IInv, TypeOK, PartType
<1>2. CASE part[d][i].from = Hit
  <2>1. part[d][i].buffer \in Taken(d)
    BY <1>1, <1>2 DEF Taken
  <2> QED  BY <1>1, <2>1, TakenSealed
<1>3. CASE part[d][i].from # Hit
  <2>1. part[d][i].buffer[1] = d /\ part[d][i].buffer[2] = ContextOf(d, i)
    BY <1>1, <1>3 DEF OnceInv, PartInv, PartsAre, IInv, PartFile
  <2> QED  BY <1>1, <2>1 DEF Sealed
<1> QED  BY <1>2, <1>3

\* A part is filled from the weights or from a sealed packing: one of the cache, or
\* the home part, which was filled before its replicas.
LEMMA SourceSealed ==
  ASSUME IInv, OnceInv, NEW d \in CommandBuffers, phase[d] \in {"fill", "filling"},
         NEW V, Good(d, V)
  PROVE  LET from == part[d][at[d]].from IN
         \/ from = Weights /\ Source(d) = content
         \/ from \in Buffers /\ Sealed(from) /\ packed[from] \in V /\ Source(d) = packed[from]
<1> DEFINE a == at[d]
           from == part[d][a].from
<1>1. /\ phase[d] \in Staged /\ phase[d] \in Running /\ phase[d] \in Filling /\ Chosen(d) = ways[d]
      /\ phase[d] # "publish"
  BY DEF Staged, Running, Chosen, Filling
<1>2. a \in Contexts /\ a < ways[d] /\ from # Hit
  BY <1>1, OwnPart DEF OnceInv
<1>3. from \in Buffers \cup {Weights}
  BY <1>2 DEF IInv, TypeOK, PartType, Sources
<1>4. Source(d) = IF from = Weights THEN content ELSE packed[from]
  BY DEF Source
<1>5. 0 \in Contexts /\ a \in Nat /\ ways[d] \in Nat
  BY <1>2, CacheAssumption DEF IInv, TypeOK, Contexts
<1>6. CASE from \in Buffers /\ a = 0
  <2>1. from \in Taken(d)
    BY <1>6 DEF Taken
  <2> QED  BY <1>1, <1>4, <1>6, <2>1, TakenSealed, SourceKinds DEF Good
<1>7. CASE from \in Buffers /\ a # 0
  <2>1. 0 < a /\ 0 < ways[d]
    BY <1>2, <1>5, <1>7
  <2>2. from = part[d][0].buffer
    BY <1>1, <1>2, <2>1 DEF OnceInv, PartInv, PartsAre
  <2>3. Passed(d, 0)
    BY <1>1, <2>1 DEF Passed
  <2>4. Sealed(from)
    BY <1>1, <1>5, <2>1, <2>2, <2>3, PassedSealed
  <2>5. packed[from] \in V
    BY <1>1, <1>5, <2>1, <2>2, <2>3 DEF Good
  <2> QED  BY <1>4, <1>7, <2>4, <2>5, SourceKinds
<1> QED  BY <1>3, <1>4, <1>6, <1>7

\* While the weights stay, packings stay good: fillings take their value from good
\* sources, and everything else that is passed or taken is sealed.
LEMMA GoodStep ==
  ASSUME IInv, OnceInv, Reusable = FALSE, NEW c \in CommandBuffers,
         Record(c) \/ Execute(c) \/ Release(c),
         NEW d \in CommandBuffers, NEW V, content \in V, content' = content, Good(d, V),
         d = c /\ Record(c) /\ ~updates[c] =>
           \A k \in Contexts : Found(k, keyed[c]) => packed[cache[k].buffer] \in V
  PROVE  Good(d, V)'
<1>1. TypeOK /\ PartInv
  BY DEF IInv, OnceInv
<1>2. Alone(c)
  BY <1>1, StepAlone
<1>3. ASSUME NEW b \in Buffers, Sealed(b) PROVE packed'[b] = packed[b]
  BY <1>1, <1>3, SealStep
<1>4. ASSUME d # c
      PROVE  /\ phase'[d] = phase[d] /\ at'[d] = at[d] /\ seen'[d] = seen[d]
             /\ ways'[d] = ways[d] /\ part'[d] = part[d] /\ Taken(d)' = Taken(d)
             /\ \A i : Passed(d, i)' = Passed(d, i)
  BY <1>2, <1>4, StillParts DEF Alone
<1>5. ASSUME d = c, Execute(c)
      PROVE  /\ phase[c] \in {"ready"} \cup Running /\ ways' = ways /\ part' = part
             /\ Taken(c)' = Taken(c)
  <2>1. /\ phase[c] \in {"ready"} \cup Running /\ ways' = ways /\ part' = part
        /\ Chosen(c)' = Chosen(c)
    BY <1>5, ExecuteFacts DEF recorded
  <2> QED  BY <2>1 DEF Taken
<1>6. ASSUME phase'[d] \in Staged, NEW b \in Taken(d)' PROVE packed'[b] \in V
  <2>1. CASE phase[d] \in Staged /\ b \in Taken(d)
    BY <1>3, <2>1, TakenSealed DEF Good
  <2>2. ASSUME ~(phase[d] \in Staged /\ b \in Taken(d)) PROVE packed'[b] \in V
    <3>1. d = c
      BY <1>4, <1>6, <2>2
    <3>2. ~Execute(c)
      BY <1>5, <1>6, <2>2, <3>1 DEF Staged
    <3>3. ~Release(c)
      BY <1>6, <3>1 DEF Release, IInv, TypeOK, Staged, Running
    <3>4. Record(c)
      BY <3>2, <3>3
    <3>5. PICK o \in Contexts : ~updates[c] /\ Found(o, keyed[c]) /\ b = cache[o].buffer
      BY <1>1, <1>6, <2>2, <3>1, <3>4, TakenFrom
    <3>6. packed[b] \in V
      BY <3>1, <3>4, <3>5
    <3>7. b \in Buffers /\ Sealed(b)
      <4>1. b \in Buffers
        BY <1>1, <3>5 DEF TypeOK, Found
      <4> QED  BY <3>5, <4>1 DEF OnceInv, SealInv, Found
    <3> QED  BY <1>3, <3>6, <3>7
  <2> QED  BY <2>1, <2>2
<1>7. ASSUME phase'[d] \in Running, NEW i \in Contexts, i < ways'[d], Passed(d, i)'
      PROVE  packed'[part'[d][i].buffer] \in V
  <2>1. CASE phase[d] \in Running /\ i < ways[d] /\ Passed(d, i) /\ part'[d] = part[d]
    BY <1>3, <2>1, PassedSealed DEF Good
  <2>2. CASE d # c
    BY <1>4, <1>7, <2>1, <2>2
  <2>3. CASE d = c /\ Execute(c)
    <3>1. /\ i < ways[c] /\ phase[c] \in {"ready"} \cup Running /\ part'[c] = part[c]
      BY <1>5, <1>7, <2>3
    <3>2. CASE Passed(c, i)
      <4>1. phase[c] \in Running
        BY <3>1, <3>2 DEF Passed, Running, Filling
      <4> QED  BY <2>1, <2>3, <3>1, <3>2, <4>1
    <3>3. CASE part[c][i].from = Hit
      <4>1. phase[c] \in Staged /\ Chosen(c) = ways[c]
        BY <3>1 DEF Staged, Running, Chosen
      <4>2. part[c][i].buffer \in Taken(c)
        BY <3>1, <3>3, <4>1 DEF Taken
      <4> QED  BY <1>3, <2>3, <3>1, <4>1, <4>2, TakenSealed DEF Good
    <3>4. CASE phase[c] = "filling" /\ i = at[c]
      <4>1. FinishFill(c)
        BY <2>3, <3>4 DEF Execute, Start, Unmap, ReadGeneration, StartFill, Publish, Run
      <4>2. seen[c] = Source(c) /\ seen[c] \in V
        BY <2>3, <3>4 DEF Good
      <4>3. packed' = [packed EXCEPT ![part[c][at[c]].buffer] = seen[c]]
        BY <4>1, <4>2 DEF FinishFill
      <4>4. part[c][at[c]].buffer \in Buffers
        BY <1>1, <3>4, OwnPart DEF Filling
      <4> QED  BY <1>1, <2>3, <3>1, <3>4, <4>2, <4>3, <4>4 DEF TypeOK
    <3>5. Passed(c, i) \/ part[c][i].from = Hit \/ (phase[c] = "filling" /\ i = at[c])
      BY <1>7, <2>3, <3>1, ExecuteFacts
    <3> QED  BY <3>2, <3>3, <3>4, <3>5
  <2>4. CASE d = c /\ ~Execute(c)
    <3>1. ASSUME NEW j, Recorded(c, j) PROVE phase'[c] \in {"replicate", "ready"}
      BY <1>1, <3>1 DEF Recorded, TypeOK
    <3>2. phase'[c] \in {"keyed", "replicate", "ready", "released"}
      BY <1>1, <2>4, <3>1 DEF Record, Key, StageWeights, Replicate, Release, TypeOK
    <3> QED  BY <1>7, <2>4, <3>2 DEF Running
  <2> QED  BY <2>2, <2>3, <2>4
<1>8. ASSUME phase'[d] = "filling"
      PROVE  seen'[d] = Source(d)' /\ seen'[d] \in V
  <2>1. ASSUME phase[d] \in {"fill", "filling"}, part'[d] = part[d], at'[d] = at[d]
        PROVE  Source(d)' = Source(d) /\ Source(d) \in V
    <3>1. PICK from : from = part[d][at[d]].from
      OBVIOUS
    <3>2. \/ from = Weights /\ Source(d) = content
          \/ from \in Buffers /\ Sealed(from) /\ packed[from] \in V /\ Source(d) = packed[from]
      BY <2>1, <3>1, SourceSealed
    <3>3. Source(d)' = IF from = Weights THEN content ELSE packed'[from]
      BY <2>1, <3>1 DEF Source
    <3> QED  BY <1>3, <3>2, <3>3, SourceKinds
  <2>2. CASE d # c
    <3>1. phase[d] = "filling" /\ part'[d] = part[d] /\ at'[d] = at[d] /\ seen'[d] = seen[d]
      BY <1>4, <1>8, <2>2
    <3> QED  BY <2>1, <3>1 DEF Good
  <2>3. CASE d = c
    <3>1. ASSUME NEW i, GoTo(c, i) PROVE phase'[c] \in {"run", "generation", "fill"}
      BY <1>1, <3>1 DEF GoTo, TypeOK
    <3>2. ASSUME NEW i, Recorded(c, i) PROVE phase'[c] \in {"replicate", "ready"}
      BY <1>1, <3>2 DEF Recorded, TypeOK
    <3>3. Fail(c) => phase'[c] = "done"
      BY <1>1 DEF Fail, TypeOK
    <3>4. CASE StartFill(c)
      <4>1. phase[c] = "fill" /\ part' = part /\ at' = at /\ seen'[c] = Source(c)
        BY <1>1, <3>4 DEF StartFill, recorded, TypeOK
      <4> QED  BY <2>1, <2>3, <4>1
    <3>5. CASE Record(c) \/ Release(c)
      BY <1>1, <1>8, <2>3, <3>2, <3>5 DEF Record, Key, StageWeights, Replicate, Release, TypeOK
    <3>6. CASE Start(c) \/ Unmap(c) \/ Publish(c) \/ FinishFill(c)
      BY <1>1, <1>8, <2>3, <3>1, <3>3, <3>6 DEF Start, Unmap, Publish, FinishFill, TypeOK
    <3>7. CASE ReadGeneration(c) \/ Run(c)
      BY <1>1, <1>8, <2>3, <3>7 DEF ReadGeneration, Run, TypeOK
    <3> QED  BY <3>4, <3>5, <3>6, <3>7 DEF Execute
  <2> QED  BY <2>2, <2>3
<1> QED  BY <1>6, <1>7, <1>8 DEF Good, Staged, Running

\* A command buffer that is not running, or only at its own write, depends on
\* what it took alone.
LEMMA GoodIdle ==
  ASSUME NEW d \in CommandBuffers, NEW V, Good(d, V), packed' = packed, Taken(d)' = Taken(d),
         phase'[d] \in Staged => phase[d] \in Staged,
         phase'[d] \notin Running \/ phase'[d] = "unmap"
  PROVE  Good(d, V)'
<1>1. \A i \in Contexts : phase'[d] \in Running => ~Passed(d, i)'
  BY DEF Passed, Running, Filling
<1>2. phase'[d] # "filling"
  BY DEF Running
<1> QED  BY <1>1, <1>2 DEF Good, Staged, Running

\* The cache after a step: old entries hold what they held, a new one is the part
\* that its owner has just filled.
LEMMA CacheValue ==
  ASSUME IInv, OnceInv, Reusable = FALSE, NEW c \in CommandBuffers,
         Record(c) \/ Execute(c) \/ Release(c), NEW k \in Contexts, cache'[k] # NoEntry
  PROVE  \/ /\ cache'[k] = cache[k] /\ cache[k] # NoEntry
            /\ packed'[cache[k].buffer] = packed[cache[k].buffer]
         \/ /\ phase[c] = "publish" /\ packed' = packed
            /\ cache'[k] = [generation |-> PublishedAt(c), buffer |-> part[c][at[c]].buffer]
            /\ at[c] \in Contexts /\ at[c] < ways[c] /\ Passed(c, at[c])
<1>1. PartInv
  BY DEF OnceInv
<1>2. CASE cache'[k] = cache[k] /\ cache[k] # NoEntry
  <2>1. PICK b \in Buffers : b = cache[k].buffer
    BY <1>2 DEF IInv, TypeOK
  <2>2. Sealed(b)
    BY <1>2, <2>1 DEF OnceInv, SealInv
  <2>3. packed'[b] = packed[b]
    BY <1>1, <2>2, SealStep
  <2> QED  BY <1>2, <2>1, <2>3
<1>3. CASE /\ phase[c] = "publish"
           /\ cache'[k] = [generation |-> PublishedAt(c), buffer |-> part[c][at[c]].buffer]
  <2>1. at[c] \in Contexts /\ at[c] < ways[c]
    BY <1>1, <1>3, OwnPart DEF Filling
  <2>2. packed' = packed
    BY <1>3, PackedFrame
  <2> QED  BY <1>3, <2>1, <2>2 DEF Passed
<1> QED  BY <1>1, <1>2, <1>3, CacheStep

\* Writers of the weights wait for the running dispatches.
LEMMA WritersWait ==
  ASSUME IInv, Writes # "racing", NEW w, MayWrite(w), NEW d \in CommandBuffers, d # w
  PROVE  phase[d] \notin Running
<1>1. CASE Writes = "settled"
  BY <1>1 DEF MayWrite, Exposed, Running
<1>2. CASE Writes = "barrier"
  BY <1>2 DEF MayWrite
<1> QED  BY <1>1, <1>2, CacheAssumption

\* Who has the binding mapped after a step: nobody new, or c by its own write.
LEMMA WriterStep ==
  ASSUME NEW c \in CommandBuffers, Record(c) \/ Execute(c) \/ Release(c)
  PROVE  \/ /\ content' = content /\ written' = written /\ generation' = generation
            /\ writer' = writer
         \/ /\ content' = content /\ written' = written /\ generation' = generation + 1
            /\ phase[c] = "unmap" /\ writer' = Nobody /\ Unmap(c)
         \/ /\ phase[c] = "ready" \/ (Reusable /\ phase[c] = "done")
            /\ updates[c] /\ MayWrite(c) /\ Change(c) /\ MayRun(c)
            /\ phase' = [phase EXCEPT ![c] = "unmap"]
            /\ UNCHANGED <<cache, packed, recorded, keyed, at, seen>>
BY DEF Record, Execute, Key, StageWeights, Replicate, Start, Unmap, Bump, ReadGeneration,
       StartFill, FinishFill, Publish, Run, Release, binding

\* With writers that wait, everything shared stays complete.
LEMMA CompleteStep ==
  ASSUME IInv, OnceInv, CompleteInv, Reusable = FALSE, Writes # "racing", [Next]_vars
  PROVE  CompleteInv'
<1>1. TypeOK /\ content \in Contents
  BY DEF IInv, TypeOK
<1>2. ASSUME NEW c \in CommandBuffers, Record(c) \/ Execute(c) \/ Release(c)
      PROVE  \A k \in Contexts : cache'[k] # NoEntry => packed'[cache'[k].buffer] \in Contents
  <2> SUFFICES ASSUME NEW k \in Contexts, cache'[k] # NoEntry
               PROVE  packed'[cache'[k].buffer] \in Contents
    OBVIOUS
  <2>1. CASE /\ cache'[k] = cache[k] /\ cache[k] # NoEntry
             /\ packed'[cache[k].buffer] = packed[cache[k].buffer]
    BY <2>1 DEF CompleteInv
  <2>2. CASE /\ phase[c] = "publish" /\ packed' = packed
             /\ cache'[k] = [generation |-> PublishedAt(c), buffer |-> part[c][at[c]].buffer]
             /\ at[c] \in Contexts /\ at[c] < ways[c] /\ Passed(c, at[c])
    <3>1. packed[part[c][at[c]].buffer] \in Contents
      BY <2>2 DEF CompleteInv, Good, Running
    <3> QED  BY <2>2, <3>1
  <2> QED  BY <1>2, <2>1, <2>2, CacheValue
<1>3. ASSUME NEW c \in CommandBuffers, Record(c) \/ Execute(c) \/ Release(c), content' = content,
             NEW d \in CommandBuffers
      PROVE  Good(d, Contents)'
  <2>1. Good(d, Contents)
    BY DEF CompleteInv
  <2>2. \A k \in Contexts : Found(k, keyed[c]) => packed[cache[k].buffer] \in Contents
    BY DEF CompleteInv, Found
  <2>3. PICK V : V = Contents
    OBVIOUS
  <2>4. Good(d, V)'
    BY <1>1, <1>3, <2>1, <2>2, <2>3, GoodStep
  <2> QED  BY <2>3, <2>4
<1>4. ASSUME NEW c \in CommandBuffers, Record(c) \/ Execute(c) \/ Release(c), writer' \in {writer, Nobody},
             NEW d \in CommandBuffers, phase'[d] \in Running \ {"unmap"}
      PROVE  writer' = Nobody
  <2>1. CASE phase[d] \in Running \ {"unmap"}
    BY <1>4, <2>1 DEF CompleteInv
  <2>2. CASE phase[d] \notin Running \ {"unmap"}
    <3>1. d = c
      BY <1>1, <1>4, <2>2, StepAlone DEF Alone
    <3>2. ASSUME NEW j, Recorded(c, j) PROVE phase'[c] \in {"replicate", "ready"}
      BY <1>1, <3>2 DEF Recorded, TypeOK
    <3>3. ~Record(c) /\ ~Release(c)
      BY <1>1, <1>4, <3>1, <3>2 DEF Record, Key, StageWeights, Replicate, Release, TypeOK, Running
    <3>4. Start(c) \/ Unmap(c)
      BY <1>4, <2>2, <3>1, <3>3 DEF Execute, ReadGeneration, StartFill, FinishFill, Publish, Run, Running
    <3> QED  BY <1>4, <3>4 DEF Start, MayRun, Unmap, Bump
  <2> QED  BY <2>1, <2>2
<1>5. ASSUME NEW c \in CommandBuffers, Record(c) \/ Execute(c) \/ Release(c) PROVE CompleteInv'
  <2>1. CASE content' = content /\ writer' \in {writer, Nobody}
    <3>1. \A d \in CommandBuffers : Good(d, Contents)'
      BY <1>3, <1>5, <2>1
    <3>2. \A d \in CommandBuffers : phase'[d] \in Running \ {"unmap"} => writer' = Nobody
      BY <1>4, <1>5, <2>1
    <3> QED  BY <1>2, <1>5, <3>1, <3>2 DEF CompleteInv, Running
  <2>2. CASE /\ MayWrite(c) /\ phase' = [phase EXCEPT ![c] = "unmap"]
             /\ phase[c] = "ready" \/ (Reusable /\ phase[c] = "done")
             /\ UNCHANGED <<cache, packed, recorded, keyed, at, seen>>
    <3>1. \A d \in CommandBuffers : phase'[d] \notin Running \/ phase'[d] = "unmap"
      BY <1>1, <2>2, WritersWait DEF TypeOK
    <3>2. ASSUME NEW d \in CommandBuffers PROVE Good(d, Contents)'
      <4>1. phase'[d] \in Staged => phase[d] \in Staged
        BY <1>1, <2>2 DEF TypeOK, Staged
      <4>2. Chosen(d)' = Chosen(d)
        BY <1>1, <2>2 DEF TypeOK, Chosen, recorded
      <4>3. Taken(d)' = Taken(d)
        BY <2>2, <4>2 DEF Taken, recorded
      <4>4. PICK V : V = Contents
        OBVIOUS
      <4>5. Good(d, V)'
        BY <2>2, <3>1, <4>1, <4>3, <4>4, GoodIdle DEF CompleteInv
      <4> QED  BY <4>4, <4>5
    <3>3. \A d \in CommandBuffers : phase'[d] \in Running \ {"unmap"} => writer' = Nobody
      BY <3>1
    <3> QED  BY <1>2, <1>5, <3>2, <3>3 DEF CompleteInv, Running
  <2> QED  BY <1>5, <2>1, <2>2, WriterStep
<1>6. CASE ClientWrite \/ ClientUnmap \/ Recreate \/ UNCHANGED vars
  <2>1. /\ UNCHANGED <<packed, phase, home, ways, updates, part, keyed, at, seen>>
        /\ \A d : Taken(d)' = Taken(d) /\ \A i : Passed(d, i)' = Passed(d, i)
    BY <1>6, ClientFrame
  <2>2. \A k \in Contexts : cache'[k] # NoEntry => packed'[cache'[k].buffer] \in Contents
    BY <1>6, <2>1 DEF ClientWrite, ClientUnmap, Recreate, Forget, vars, CompleteInv
  <2>3. CASE ClientWrite \/ Recreate
    <3>1. ASSUME NEW d \in CommandBuffers PROVE phase[d] \notin Running
      <4>1. CASE ClientWrite
        <5>1. d # 0 /\ MayWrite(0)
          BY <4>1 DEF ClientWrite, CommandBuffers
        <5> QED  BY <5>1, WritersWait
      <4>2. CASE Recreate
        BY <4>2 DEF Recreate, Running
      <4> QED  BY <2>3, <4>1, <4>2
    <3>2. ASSUME NEW d \in CommandBuffers PROVE Good(d, Contents)'
      <4>1. PICK V : V = Contents
        OBVIOUS
      <4>2. Good(d, V)'
        BY <2>1, <3>1, <4>1, GoodIdle DEF CompleteInv
      <4> QED  BY <4>1, <4>2
    <3> QED  BY <2>1, <2>2, <3>1, <3>2 DEF CompleteInv, Running
  <2>4. CASE ClientUnmap \/ UNCHANGED vars
    <3>1. content' = content /\ writer' \in {writer, Nobody}
      BY <2>4 DEF ClientUnmap, Bump, vars, binding
    <3>2. ASSUME NEW d \in CommandBuffers PROVE Good(d, Contents)'
      <4>1. Source(d)' = Source(d)
        BY <2>1, <3>1 DEF Source
      <4> QED  BY <2>1, <4>1 DEF CompleteInv, Good, Running
    <3>3. \A d \in CommandBuffers : phase'[d] \in Running \ {"unmap"} => writer' = Nobody
      BY <2>1, <3>1 DEF CompleteInv
    <3> QED  BY <2>2, <3>2, <3>3 DEF CompleteInv, Running
  <2> QED  BY <1>6, <2>3, <2>4
<1> QED  BY <1>5, <1>6 DEF Next, Finished

\* A published packing is complete and stays so ("written exactly once [...] and is
\* read-only for the rest of its life"), when command buffers run once and the
\* weights are not written under a running dispatch: a lookup on any context may
\* share what it finds.
THEOREM PublishedIsReadOnly ==
  ASSUME Reusable = FALSE, Writes # "racing" PROVE Spec => []ReadOnlyOncePublished
<1>1. Init => CompleteInv
  <2> SUFFICES ASSUME Init PROVE CompleteInv
    OBVIOUS
  <2>1. \A k \in Contexts : cache[k] = NoEntry
    BY DEF Init
  <2>2. \A c \in CommandBuffers : phase[c] = "none"
    BY DEF Init
  <2> QED  BY <2>1, <2>2 DEF CompleteInv, Good, Staged, Running
<1>2. (IInv /\ OnceInv) /\ CompleteInv /\ [Next]_vars => CompleteInv'
  BY CompleteStep
<1>3. CompleteInv => ReadOnlyOncePublished
  <2>1. Torn \notin Contents
    BY CacheAssumption DEF Torn, Contents
  <2> QED  BY <2>1 DEF CompleteInv, ReadOnlyOncePublished
<1> QED  BY <1>1, <1>2, <1>3, SharedIsSealed, PTL DEF Spec

-----------------------------------------------------------------------------
(* Coherence with one context.                                             *)

\* With one context there is nothing to copy from: a packing that is not a hit is
\* made from the weights.
LEMMA OneSource ==
  ASSUME IInv, OnceInv, CoherentInv, Reusable = FALSE, NumContexts = 1, NEW c \in CommandBuffers,
         Record(c) \/ Execute(c) \/ Release(c), NEW d \in CommandBuffers, phase'[d] \in Staged
  PROVE  part'[d][0].from \in {Hit, Weights}
<1>1. TypeOK /\ Contexts = {0} /\ home[c] = 0 /\ at[c] = 0 /\ PartInv
  BY CacheAssumption DEF IInv, OnceInv, TypeOK, Contexts
<1>2. CASE phase[d] \in Staged /\ part'[d] = part[d]
  BY <1>2 DEF CoherentInv
<1>3. CASE d # c
  BY <1>1, <1>2, <1>3, StepAlone DEF Alone
<1>4. CASE d = c /\ Execute(c)
  <2>1. phase[c] \in Staged /\ part' = part
    BY <1>4, ExecuteFacts DEF Staged, recorded
  <2> QED  BY <1>2, <1>4, <2>1
<1>5. CASE d = c /\ StageWeights(c)
  <2>1. PICK p \in PartType :
           /\ part'[c] = [part[c] EXCEPT ![0] = p]
           /\ p.from \in Buffers => \E o \in Contexts \ {home[c]} : TRUE
           /\ p.from \in Buffers \cup {Hit, Weights}
    BY <1>5, Staging
  <2>2. part'[c][0] = p
    BY <1>1, <2>1 DEF TypeOK
  <2> QED  BY <1>1, <1>5, <2>1, <2>2
<1>6. CASE d = c /\ Replicate(c)
  BY <1>1, <1>6 DEF Replicate, PartInv, PartsAre, Staged
<1>7. CASE d = c /\ Release(c)
  BY <1>1, <1>7 DEF Release, TypeOK, Staged, Running
<1>8. CASE d = c /\ \E k \in Contexts, n \in Ways, update \in BOOLEAN : Key(c, k, n, update)
  BY <1>1, <1>8 DEF Key, TypeOK, Staged, Running
<1> QED  BY <1>3, <1>4, <1>5, <1>6, <1>7, <1>8 DEF Record

\* What is filled under the current generation holds the current weights.
LEMMA CoherentStep ==
  ASSUME IInv, OnceInv, CoherentInv, Reusable = FALSE, NumContexts = 1, [Next]_vars
  PROVE  CoherentInv'
<1>1. /\ TypeOK /\ Contexts = {0} /\ generation \in Nat /\ PartInv /\ Nobody \notin CommandBuffers
      /\ 0 # Nobody
      /\ \A c \in CommandBuffers : at[c] = 0 /\ keyed[c] \in Nat
      /\ \A k \in Contexts : cache[k] # NoEntry => cache[k].generation \in Nat
  BY CacheAssumption DEF IInv, OnceInv, TypeOK, Contexts, Contents, Nobody, CommandBuffers
<1>2. ASSUME generation' = generation + 1, keyed' = keyed, cache' = cache,
             \A d \in CommandBuffers : phase'[d] \in Staged => part'[d][0].from \in {Hit, Weights}
      PROVE  CoherentInv'
  <2>1. \A d \in CommandBuffers : keyed'[d] # generation'
    BY <1>1, <1>2 DEF OnceInv, GenInv
  <2>2. \A k \in Contexts : cache'[k] # NoEntry => cache'[k].generation # generation'
    BY <1>1, <1>2 DEF OnceInv, GenInv
  <2> QED  BY <1>2, <2>1, <2>2 DEF CoherentInv, CacheCoherent, Found, Staged
<1>3. ASSUME writer' # Nobody,
             \A d \in CommandBuffers : phase'[d] \in Staged => part'[d][0].from \in {Hit, Weights}
      PROVE  CoherentInv'
  BY <1>3 DEF CoherentInv, CacheCoherent, Staged
<1>4. ASSUME NEW c \in CommandBuffers, Record(c) \/ Execute(c) \/ Release(c) PROVE CoherentInv'
  <2>1. \A d \in CommandBuffers : phase'[d] \in Staged => part'[d][0].from \in {Hit, Weights}
    BY <1>4, OneSource
  <2>2. CASE Unmap(c)
    BY <1>2, <2>1, <2>2 DEF Unmap, Bump
  <2>3. CASE Change(c)
    BY <1>1, <1>3, <2>1, <2>3 DEF Change
  <2>4. CASE content' = content /\ generation' = generation /\ writer' = writer /\ ~Unmap(c)
    <3>1. CacheCoherent'
      <4> SUFFICES ASSUME writer = Nobody, NEW k \in Contexts, cache'[k] # NoEntry,
                          cache'[k].generation = generation
                   PROVE  packed'[cache'[k].buffer] = content
        BY <2>4 DEF CacheCoherent, Found
      <4>1. CASE /\ cache'[k] = cache[k] /\ cache[k] # NoEntry
                 /\ packed'[cache[k].buffer] = packed[cache[k].buffer]
        BY <4>1 DEF CoherentInv, CacheCoherent, Found
      <4>2. CASE /\ phase[c] = "publish" /\ packed' = packed
                 /\ cache'[k] = [generation |-> PublishedAt(c), buffer |-> part[c][at[c]].buffer]
        <5>1. keyed[c] = generation
          BY <1>1, <4>2 DEF PublishedAt
        <5> QED  BY <4>2, <5>1 DEF CoherentInv
      <4> QED  BY <1>4, <4>1, <4>2, CacheValue
    <3>2. ASSUME NEW d \in CommandBuffers, phase'[d] \in {"filling", "publish"}, writer = Nobody,
                 keyed'[d] = generation
          PROVE  IF phase'[d] = "filling" THEN seen'[d] = content
                 ELSE packed'[part'[d][at'[d]].buffer] = content
      <4>1. CASE d # c
        <5>1. /\ phase'[d] = phase[d] /\ keyed'[d] = keyed[d] /\ seen'[d] = seen[d]
              /\ part'[d] = part[d] /\ at'[d] = at[d]
          BY <1>1, <1>4, <4>1, StepAlone DEF Alone
        <5>2. ASSUME phase[d] = "publish"
              PROVE  packed'[part[d][at[d]].buffer] = packed[part[d][at[d]].buffer]
          <6>1. /\ at[d] \in Contexts /\ at[d] < ways[d] /\ Passed(d, at[d])
                /\ phase[d] \in Running
            BY <1>1, <5>2, OwnPart DEF Filling, Passed, Running
          <6>2. PICK b \in Buffers : b = part[d][at[d]].buffer /\ Sealed(b)
            BY <6>1, PassedSealed
          <6> QED  BY <1>1, <1>4, <6>2, SealStep
        <5> QED  BY <3>2, <5>1, <5>2 DEF CoherentInv
      <4>2. CASE d = c /\ StartFill(c)
        <5>1. phase'[c] = "filling" /\ seen'[c] = Source(c) /\ phase[c] = "fill"
          BY <1>1, <4>2 DEF StartFill, TypeOK
        <5>2. part[c][0].from = Weights
          <6>1. part[c][at[c]].from # Hit
            BY <1>1, <5>1, OwnPart DEF Filling
          <6>2. part[c][0].from \in {Hit, Weights}
            BY <5>1 DEF CoherentInv, Staged, Running
          <6> QED  BY <1>1, <6>1, <6>2
        <5>3. Source(c) = content
          BY <1>1, <5>2 DEF Source
        <5> QED  BY <4>2, <5>1, <5>3
      <4>3. CASE d = c /\ FinishFill(c)
        <5>1. /\ phase[c] = "filling" /\ keyed'[c] = keyed[c] /\ part' = part
              /\ packed' = [packed EXCEPT ![part[c][at[c]].buffer] =
                              IF Source(c) = seen[c] THEN seen[c] ELSE Torn]
          BY <4>3 DEF FinishFill, recorded
        <5>2. part[c][at[c]].from # Hit /\ part[c][at[c]].buffer \in Buffers
          BY <1>1, <5>1, OwnPart DEF Filling
        <5>3. part[c][0].from \in {Hit, Weights}
          BY <5>1 DEF CoherentInv, Staged, Running
        <5>4. Source(c) = content
          BY <1>1, <5>2, <5>3 DEF Source
        <5>5. seen[c] = content
          BY <3>2, <4>3, <5>1 DEF CoherentInv
        <5>6. packed'[part[c][at[c]].buffer] = content
          BY <1>1, <5>1, <5>2, <5>4, <5>5 DEF TypeOK
        <5>7. ASSUME NEW i, GoTo(c, i) PROVE phase'[c] \in {"run", "generation", "fill"}
          BY <1>1, <5>7 DEF GoTo, TypeOK
        <5>8. Fail(c) => phase'[c] = "done"
          BY <1>1 DEF Fail, TypeOK
        <5>9. phase'[c] = "publish" /\ at' = at
          BY <1>1, <3>2, <4>3, <5>7, <5>8 DEF FinishFill, TypeOK
        <5> QED  BY <4>3, <5>1, <5>6, <5>9
      <4>4. CASE d = c /\ ~StartFill(c) /\ ~FinishFill(c)
        <5>1. ASSUME NEW i, GoTo(c, i) PROVE phase'[c] \in {"run", "generation", "fill"}
          BY <1>1, <5>1 DEF GoTo, TypeOK
        <5>2. ASSUME NEW i, Recorded(c, i) PROVE phase'[c] \in {"replicate", "ready"}
          BY <1>1, <5>2 DEF Recorded, TypeOK
        <5>3. CASE Record(c) \/ Release(c)
          BY <1>1, <3>2, <4>4, <5>2, <5>3 DEF Record, Key, StageWeights, Replicate, Release, TypeOK
        <5>4. CASE Start(c) \/ Publish(c)
          BY <1>1, <3>2, <4>4, <5>1, <5>4 DEF Start, Publish, TypeOK
        <5>5. CASE ReadGeneration(c) \/ Run(c)
          BY <1>1, <3>2, <4>4, <5>5 DEF ReadGeneration, Run, TypeOK
        <5> QED  BY <1>4, <2>4, <4>4, <5>3, <5>4, <5>5 DEF Execute
      <4> QED  BY <4>1, <4>2, <4>3, <4>4
    <3> QED  BY <2>1, <2>4, <3>1, <3>2 DEF CoherentInv, Staged
  <2> QED  BY <1>4, <2>2, <2>3, <2>4, WriterStep
<1>5. CASE ClientWrite \/ ClientUnmap \/ Recreate \/ UNCHANGED vars
  <2>1. UNCHANGED <<packed, phase, home, ways, updates, part, keyed, at, seen>>
    BY <1>5, ClientFrame
  <2>2. \A d \in CommandBuffers : phase'[d] \in Staged => part'[d][0].from \in {Hit, Weights}
    BY <2>1 DEF CoherentInv
  <2>3. CASE ClientWrite
    BY <1>1, <1>3, <2>2, <2>3 DEF ClientWrite, Change
  <2>4. CASE ClientUnmap
    BY <1>2, <2>1, <2>2, <2>4 DEF ClientUnmap, Bump
  <2>5. CASE Recreate
    <3>1. \A k \in Contexts : cache'[k] = NoEntry
      BY <2>5 DEF Recreate, Forget
    <3>2. \A d \in CommandBuffers : phase'[d] \notin {"filling", "publish"}
      BY <2>1, <2>5 DEF Recreate
    <3> QED  BY <2>2, <3>1, <3>2 DEF CoherentInv, CacheCoherent, Found, Staged
  <2>6. CASE UNCHANGED vars
    BY <2>6 DEF vars, binding, recorded, CoherentInv, CacheCoherent, Found
  <2> QED  BY <1>5, <2>3, <2>4, <2>5, <2>6
<1> QED  BY <1>4, <1>5 DEF Next, Finished

-----------------------------------------------------------------------------
(* Freshness with a careful client.                                        *)

\* Who may still read the weights after a step of c: the others as before, and c
\* unless it has ended; it joins only when it is recorded.
LEMMA ExposedStep ==
  ASSUME IInv, Reusable = FALSE, NEW c \in CommandBuffers, Record(c) \/ Execute(c) \/ Release(c)
  PROVE  /\ \A d \in CommandBuffers \ {c} : d \in Exposed' <=> d \in Exposed
         /\ c \in Exposed => \A d : d \in Exposed' => d \in Exposed
         /\ c \notin Exposed /\ c \in Exposed' => phase[c] = "none"
         /\ c \in Exposed' => ~Release(c)
<1>1. TypeOK
  BY DEF IInv
<1>2. /\ \A d \in CommandBuffers : d \in Exposed <=> phase[d] \notin {"none", "released", "done"}
      /\ \A d \in CommandBuffers : d \in Exposed' <=> phase'[d] \notin {"none", "released", "done"}
      /\ \A d : d \in Exposed' => d \in CommandBuffers
  BY DEF Exposed
<1>3. \A d \in CommandBuffers \ {c} : phase'[d] = phase[d]
  BY <1>1, StepAlone DEF Alone
<1>4. phase[c] = "done" => Release(c)
  BY DEF Record, Execute, Key, StageWeights, Replicate, Start, Unmap, ReadGeneration, StartFill,
         FinishFill, Publish, Run
<1>5. phase[c] # "released"
  BY DEF Record, Execute, Key, StageWeights, Replicate, Start, Unmap, ReadGeneration, StartFill,
         FinishFill, Publish, Run, Release
<1>6. Release(c) => phase'[c] = "released"
  BY <1>1 DEF Release, TypeOK
<1> QED  BY <1>2, <1>3, <1>4, <1>5, <1>6

\* The worker's loops: the home part is filled after its generation is read.
LEMMA ReadBeforeFill ==
  ASSUME IInv, NEW c \in CommandBuffers, Execute(c),
         phase'[c] \in {"fill", "filling", "publish"}, at'[c] = 0
  PROVE  /\ generation' = generation
         /\ \/ keyed'[c] = generation
            \/ /\ keyed'[c] = keyed[c] /\ at[c] = 0
               /\ phase[c] \in {"fill", "filling"}
<1>1. TypeOK
  BY DEF IInv
<1>2. ASSUME NEW i, GoTo(c, i) PROVE FALSE
  <2>1. /\ phase \in [CommandBuffers -> Phases] /\ at \in [CommandBuffers -> Contexts]
    BY <1>1 DEF TypeOK
  <2> QED  BY <1>2, <2>1 DEF GoTo
<1>3. ~Fail(c)
  BY <1>1 DEF Fail, TypeOK
<1>4. CASE ReadGeneration(c)
  BY <1>1, <1>4 DEF ReadGeneration, binding, TypeOK
<1>5. CASE StartFill(c)
  BY <1>1, <1>5 DEF StartFill, binding, TypeOK
<1>6. CASE FinishFill(c)
  BY <1>1, <1>2, <1>3, <1>6 DEF FinishFill, binding, TypeOK
<1>7. ~Start(c) /\ ~Unmap(c) /\ ~Publish(c) /\ ~Run(c)
  BY <1>1, <1>2, <1>3 DEF Start, Unmap, Publish, Run, TypeOK
<1> QED  BY <1>4, <1>5, <1>6, <1>7 DEF Execute

\* What a dispatch of a careful client finds, copies or fills is current.
LEMMA FreshCommand ==
  ASSUME IInv, OnceInv, FreshInv, Reusable = FALSE, Writes = "settled",
         NEW c \in CommandBuffers, Record(c) \/ Execute(c) \/ Release(c), content' = content,
         NEW d \in Exposed'
  PROVE  Good(d, {content})'
<1>1. TypeOK /\ d \in CommandBuffers /\ Nobody \notin CommandBuffers
  BY CacheAssumption DEF IInv, Exposed, CommandBuffers, Nobody
<1>2. PICK x : x = content
  OBVIOUS
<1>3. CASE d \in Exposed
  <2>1. Good(d, {x})
    BY <1>2, <1>3 DEF FreshInv
  <2>2. ASSUME d = c, Record(c), ~updates[c], NEW k \in Contexts, Found(k, keyed[c])
        PROVE  packed[cache[k].buffer] \in {x}
    <3>1. phase[c] # "unmap"
      BY <2>2 DEF Record, Key, StageWeights, Replicate
    <3>2. writer = Nobody /\ keyed[c] = generation
      BY <1>3, <2>2, <3>1 DEF FreshInv
    <3> QED  BY <1>2, <2>2, <3>2 DEF FreshInv, CacheCoherent
  <2>3. Good(d, {x})'
    BY <1>1, <1>2, <2>1, <2>2, GoodStep
  <2> QED  BY <1>2, <2>3
<1>4. CASE d \notin Exposed
  <2>1. d = c /\ phase[c] = "none"
    BY <1>1, <1>4, ExposedStep
  <2>2. \E k \in Contexts, n \in Ways, update \in BOOLEAN : Key(c, k, n, update)
    BY <1>1, <2>1, ExposedStep DEF Record, Execute, StageWeights, Replicate, Start, Unmap,
       ReadGeneration, StartFill, FinishFill, Publish, Run
  <2>3. phase'[c] = "keyed"
    BY <1>1, <2>2 DEF Key, TypeOK
  <2> QED  BY <2>1, <2>3 DEF Good, Staged, Running
<1> QED  BY <1>3, <1>4

\* A step of a command buffer.
LEMMA FreshStepCommand ==
  ASSUME IInv, OnceInv, FreshInv, Reusable = FALSE, Writes = "settled",
         NEW c \in CommandBuffers, Record(c) \/ Execute(c) \/ Release(c)
  PROVE  FreshInv'
<1>1. /\ TypeOK /\ generation \in Nat /\ PartInv /\ Nobody \notin CommandBuffers
      /\ \A d \in CommandBuffers : keyed[d] \in Nat
      /\ \A k \in Contexts : cache[k] # NoEntry => cache[k].generation \in Nat
      /\ \A d : d \in Exposed => d \in CommandBuffers
      /\ \A d : d \in Exposed' => d \in CommandBuffers
  BY CacheAssumption DEF IInv, OnceInv, TypeOK, Contents, Nobody, CommandBuffers, Exposed
<1>2. Alone(c)
  BY <1>1, StepAlone
<1>3. CASE /\ content' = content /\ generation' = generation /\ writer' = writer
           /\ ~Unmap(c) /\ ~Change(c)
  <2>1. CacheCoherent'
    <3> SUFFICES ASSUME writer = Nobody, NEW k \in Contexts, cache'[k] # NoEntry,
                        cache'[k].generation = generation
                 PROVE  packed'[cache'[k].buffer] = content
      BY <1>3 DEF CacheCoherent, Found
    <3>1. CASE /\ cache'[k] = cache[k] /\ cache[k] # NoEntry
               /\ packed'[cache[k].buffer] = packed[cache[k].buffer]
      BY <3>1 DEF FreshInv, CacheCoherent, Found
    <3>2. CASE /\ phase[c] = "publish" /\ packed' = packed
               /\ cache'[k] = [generation |-> PublishedAt(c), buffer |-> part[c][at[c]].buffer]
               /\ at[c] \in Contexts /\ at[c] < ways[c] /\ Passed(c, at[c])
      <4>1. c \in Exposed
        BY <3>2 DEF Exposed
      <4>2. packed[part[c][at[c]].buffer] = content
        BY <3>2, <4>1 DEF FreshInv, Good, Running
      <4> QED  BY <3>2, <4>2
    <3> QED  BY <3>1, <3>2, CacheValue
  <2>2. ASSUME NEW d \in Exposed'
        PROVE  /\ writer' \in {d, Nobody}
               /\ writer' = d => phase'[d] = "unmap" /\ updates'[d]
               /\ updates'[d] => Exposed' = {d}
               /\ ~updates'[d] => keyed'[d] = generation'
               /\ phase'[d] \in {"fill", "filling", "publish"} /\ at'[d] = 0 => keyed'[d] = generation'
    <3>1. CASE d # c
      <4>1. /\ phase'[d] = phase[d] /\ at'[d] = at[d] /\ keyed'[d] = keyed[d]
            /\ updates'[d] = updates[d] /\ d \in CommandBuffers /\ d \in Exposed
        BY <1>1, <1>2, <3>1, ExposedStep DEF Alone
      <4>2. updates[d] => Exposed' = {d}
        <5> SUFFICES ASSUME updates[d] PROVE Exposed' = {d}
          OBVIOUS
        <5>1. Exposed = {d}
          BY <4>1 DEF FreshInv
        <5>2. c \notin Exposed'
          <6> SUFFICES ASSUME c \in Exposed' PROVE FALSE
            OBVIOUS
          <6>1. c \notin Exposed /\ phase[c] = "none"
            BY <3>1, <5>1, ExposedStep
          <6>2. \E k \in Contexts, n \in Ways, update \in BOOLEAN : Key(c, k, n, update)
            BY <6>1, ExposedStep DEF Record, Execute, StageWeights, Replicate, Start, Unmap,
               ReadGeneration, StartFill, FinishFill, Publish, Run
          <6>3. \E update : MayRecord(update)
            BY <6>2 DEF Key
          <6> QED  BY <4>1, <6>3 DEF MayRecord
        <5>3. ASSUME NEW e \in Exposed' PROVE e = d
          <6>1. e \in CommandBuffers \ {c}
            BY <1>1, <5>2
          <6>2. e \in Exposed
            BY <6>1, ExposedStep
          <6> QED  BY <5>1, <6>2
        <5> QED  BY <5>3
      <4> QED  BY <1>3, <4>1, <4>2 DEF FreshInv
    <3>2. CASE d = c /\ c \notin Exposed
      <4>1. phase[c] = "none"
        BY <3>2, ExposedStep
      <4>2. PICK k \in Contexts, n \in Ways, update \in BOOLEAN : Key(c, k, n, update)
        BY <3>2, <4>1, ExposedStep DEF Record, Execute, StageWeights, Replicate, Start, Unmap,
           ReadGeneration, StartFill, FinishFill, Publish, Run
      <4>3. /\ phase'[c] = "keyed" /\ keyed'[c] = generation /\ updates'[c] = update
            /\ MayRecord(update)
        BY <1>1, <4>2 DEF Key, TypeOK
      <4>4. writer = Nobody /\ (update => Exposed = {})
        BY <4>3 DEF MayRecord
      <4>5. update => Exposed' = {c}
        <5>1. update => \A e \in Exposed' : e = c
          BY <1>1, <4>4, ExposedStep
        <5> QED  BY <3>2, <5>1
      <4> QED  BY <1>1, <1>3, <3>2, <4>3, <4>4, <4>5
    <3>3. CASE d = c /\ c \in Exposed
      <4>1. phase[c] # "unmap" /\ phase[c] # "none" /\ ~Release(c)
        <5>1. ~Release(c)
          BY <3>3, ExposedStep
        <5>2. phase[c] # "none"
          BY <3>3 DEF Exposed
        <5>3. phase[c] # "unmap"
          BY <1>3, <5>1 DEF Record, Execute, Key, StageWeights, Replicate, Start, ReadGeneration,
             StartFill, FinishFill, Publish, Run
        <5> QED  BY <5>1, <5>2, <5>3
      <4>2. writer = Nobody
        BY <3>3, <4>1 DEF FreshInv
      <4>3. updates' = updates
        BY <4>1 DEF Record, Execute, Key, StageWeights, Replicate, Start, Unmap, ReadGeneration,
           StartFill, FinishFill, Publish, Run, recorded
      <4>4. updates[c] => Exposed' = {c}
        <5>1. updates[c] => Exposed = {c}
          BY <3>3 DEF FreshInv
        <5>2. updates[c] => \A e \in Exposed' : e = c
          BY <3>3, <5>1, ExposedStep
        <5> QED  BY <3>3, <5>2
      <4>5. keyed'[c] = keyed[c] \/ keyed'[c] = generation
        BY <1>1, <4>1 DEF Record, Execute, Key, StageWeights, Replicate, Start, Unmap, ReadGeneration,
           StartFill, FinishFill, Publish, Run, TypeOK
      <4>6. ~updates[c] => keyed'[c] = generation
        BY <3>3, <4>5 DEF FreshInv
      <4>7. ASSUME phase'[c] \in {"fill", "filling", "publish"}, at'[c] = 0
            PROVE  keyed'[c] = generation
        <5>1. CASE Execute(c)
          BY <3>3, <4>7, <5>1, ReadBeforeFill DEF FreshInv
        <5>2. CASE Record(c)
          <6>1. ASSUME NEW i, Recorded(c, i) PROVE phase'[c] \in {"replicate", "ready"}
            BY <1>1, <6>1 DEF Recorded, TypeOK
          <6> QED  BY <1>1, <4>7, <5>2, <6>1 DEF Record, Key, StageWeights, Replicate, TypeOK
        <5> QED  BY <4>1, <5>1, <5>2
      <4> QED  BY <1>1, <1>3, <3>3, <4>2, <4>3, <4>4, <4>6, <4>7
    <3> QED  BY <3>1, <3>2, <3>3
  <2>3. \A d \in Exposed' : Good(d, {content})'
    BY <1>3, FreshCommand
  <2> QED  BY <2>1, <2>2, <2>3 DEF FreshInv
<1>4. CASE Unmap(c)
  <2>1. /\ content' = content /\ generation' = generation + 1 /\ writer' = Nobody
        /\ cache' = cache /\ keyed' = keyed /\ updates' = updates /\ phase[c] = "unmap"
    BY <1>4 DEF Unmap, Bump, recorded
  <2>2. c \in Exposed /\ writer = c
    BY <2>1 DEF Exposed, IInv, WriteInv
  <2>3. Exposed = {c} /\ updates[c]
    <3>1. \A e \in Exposed : e = c
      BY <1>1, <2>2 DEF FreshInv
    <3> QED  BY <1>1, <2>2, <3>1 DEF FreshInv
  <2>4. \A d \in Exposed' : d = c
    BY <2>2, <2>3, ExposedStep
  <2>5. CacheCoherent'
    <3>1. \A k \in Contexts : cache'[k] # NoEntry => cache'[k].generation # generation'
      BY <1>1, <2>1 DEF OnceInv, GenInv
    <3> QED  BY <3>1 DEF CacheCoherent, Found
  <2>6. ~(phase'[c] \in {"fill", "filling", "publish"} /\ at'[c] = 0)
    <3>1. Execute(c)
      BY <1>4 DEF Execute
    <3>2. generation' # generation
      BY <1>1, <2>1
    <3> QED  BY <3>1, <3>2, ReadBeforeFill
  <2>7. \A d \in Exposed' : Good(d, {content})'
    BY <2>1, FreshCommand
  <2>8. \A d \in Exposed' : Exposed' = {d}
    BY <2>4
  <2> QED  BY <1>1, <2>1, <2>3, <2>4, <2>5, <2>6, <2>7, <2>8 DEF FreshInv
<1>5. CASE /\ updates[c] /\ MayWrite(c) /\ Change(c) /\ phase[c] = "ready"
           /\ phase' = [phase EXCEPT ![c] = "unmap"]
           /\ UNCHANGED <<cache, packed, recorded, keyed, at, seen>>
  <2>1. /\ writer' = c /\ phase'[c] = "unmap" /\ updates' = updates /\ part' = part
        /\ c \in Exposed /\ ways' = ways
    BY <1>1, <1>5 DEF Change, TypeOK, recorded, Exposed
  <2>2. Exposed = {c}
    BY <1>1, <1>5, <2>1 DEF MayWrite
  <2>3. \A d \in Exposed' : d = c
    BY <2>1, <2>2, ExposedStep
  <2>4. Taken(c)' = {}
    <3>1. PartsAre(c)
      BY <1>1, <1>5 DEF PartInv, Staged
    <3>2. Chosen(c)' = Chosen(c)
      BY <1>5, <2>1 DEF Chosen
    <3>3. part[c][0].from \notin Buffers /\ \A i \in Contexts : i < Chosen(c) => part[c][i].from # Hit
      BY <1>5, <3>1, SourceKinds DEF PartsAre
    <3> QED  BY <2>1, <3>2, <3>3 DEF Taken
  <2>5. Good(c, {content})'
    BY <2>1, <2>4 DEF Good, Passed, Filling
  <2>6. CacheCoherent'
    BY <1>1, <2>1 DEF CacheCoherent
  <2>7. \A d \in Exposed' : Exposed' = {d}
    BY <2>3
  <2> QED  BY <1>1, <1>5, <2>1, <2>3, <2>5, <2>6, <2>7 DEF FreshInv
<1>6. written' = written => ~Change(c)
  BY CacheAssumption DEF IInv, TypeOK, Contents, Change
<1> QED  BY <1>3, <1>4, <1>5, <1>6, WriterStep

\* A step of the client.
LEMMA FreshStepClient ==
  ASSUME IInv, OnceInv, FreshInv, Reusable = FALSE, Writes = "settled",
         ClientWrite \/ ClientUnmap \/ Recreate \/ UNCHANGED vars
  PROVE  FreshInv'
<1>1. /\ generation \in Nat /\ 0 # Nobody /\ 0 \notin CommandBuffers
      /\ \A k \in Contexts : cache[k] # NoEntry => cache[k].generation \in Nat
      /\ \A d : d \in Exposed => d \in CommandBuffers
  BY CacheAssumption DEF IInv, TypeOK, Contents, Nobody, CommandBuffers, Exposed
<1>2. UNCHANGED <<packed, phase, home, ways, updates, part, keyed, at, seen>>
  BY ClientFrame
<1>3. Exposed' = Exposed
  BY <1>2 DEF Exposed
<1>4. CASE ClientWrite
  <2>1. Exposed = {} /\ writer' = 0
    BY <1>1, <1>4 DEF ClientWrite, MayWrite, Change
  <2> QED  BY <1>1, <1>3, <2>1 DEF FreshInv, CacheCoherent
<1>5. CASE ClientUnmap
  <2>1. writer = 0 /\ generation' = generation + 1 /\ cache' = cache
    BY <1>5 DEF ClientUnmap, Bump
  <2>2. Exposed = {}
    BY <1>1, <2>1 DEF FreshInv
  <2>3. \A k \in Contexts : cache'[k] # NoEntry => cache'[k].generation # generation'
    BY <1>1, <2>1 DEF OnceInv, GenInv
  <2> QED  BY <1>3, <2>2, <2>3 DEF FreshInv, CacheCoherent, Found
<1>6. CASE Recreate
  <2>1. Exposed = {} /\ \A k \in Contexts : cache'[k] = NoEntry
    BY <1>6 DEF Recreate, Forget, Exposed
  <2> QED  BY <1>3, <2>1 DEF FreshInv, CacheCoherent, Found
<1>7. CASE UNCHANGED vars
  <2>1. UNCHANGED <<content, generation, writer, cache>>
    BY <1>7 DEF vars, binding
  <2>2. \A d : Taken(d)' = Taken(d) /\ \A i : Passed(d, i)' = Passed(d, i)
    BY ClientFrame
  <2>3. ASSUME NEW d \in Exposed PROVE Good(d, {content})'
    <3>1. Source(d)' = Source(d)
      BY <1>2, <2>1 DEF Source
    <3>2. Good(d, {content})
      BY DEF FreshInv
    <3> QED  BY <1>2, <2>1, <2>2, <3>1, <3>2 DEF Good, Staged, Running
  <2>4. CacheCoherent'
    BY <1>2, <2>1 DEF FreshInv, CacheCoherent, Found
  <2> QED  BY <1>2, <1>3, <2>1, <2>3, <2>4 DEF FreshInv
<1> QED  BY <1>4, <1>5, <1>6, <1>7

\* The freshness invariant holds in every reachable state.
THEOREM FreshInvariance ==
  ASSUME Reusable = FALSE, Writes = "settled" PROVE Spec => []FreshInv
<1>1. Init => FreshInv
  <2> SUFFICES ASSUME Init PROVE FreshInv
    OBVIOUS
  <2>1. \A k \in Contexts : cache[k] = NoEntry
    BY DEF Init
  <2>2. Exposed = {}
    BY DEF Init, Exposed
  <2> QED  BY <2>1, <2>2 DEF FreshInv, CacheCoherent, Found
<1>2. (IInv /\ OnceInv) /\ FreshInv /\ [Next]_vars => FreshInv'
  BY FreshStepCommand, FreshStepClient DEF Next, Finished
<1> QED  BY <1>1, <1>2, SharedIsSealed, PTL DEF Spec

\* The hardware multiplies with the right coefficients on every context a dispatch
\* spreads over, when command buffers run once and the weights are written only
\* while no other command buffer that uses them is around: neither a stale hit, nor
\* a copy of another context's packing, nor a replica carries old weights.
THEOREM CoefficientsAreFresh ==
  ASSUME Reusable = FALSE, Writes = "settled" PROVE Spec => []FreshCoefficients
<1>1. FreshInv => FreshCoefficients
  <2> SUFFICES ASSUME FreshInv, NEW c \in CommandBuffers, phase[c] = "run", NEW i \in Contexts,
                      i < ways[c]
               PROVE  packed[part[c][i].buffer] = content
    BY DEF FreshCoefficients
  <2>1. c \in Exposed /\ Passed(c, i) /\ phase[c] \in Running
    BY DEF Exposed, Passed, Running
  <2>2. Good(c, {content})
    BY <2>1 DEF FreshInv
  <2> QED  BY <2>1, <2>2 DEF Good
<1> QED  BY <1>1, FreshInvariance, PTL

\* An entry that a lookup would accept holds the current weights: with one context
\* whenever the client writes ("can never be mistaken for the bytes that were
\* packed"), with several when it writes only while nothing else is around.
THEOREM CacheIsCoherent ==
  ASSUME Reusable = FALSE, NumContexts = 1 \/ Writes = "settled" PROVE Spec => []CacheCoherent
<1>1. CASE Writes = "settled"
  <2>1. FreshInv => CacheCoherent
    BY DEF FreshInv
  <2>2. Spec => []FreshInv
    BY <1>1, FreshInvariance
  <2> QED  BY <2>1, <2>2, PTL
<1>2. CASE NumContexts = 1
  <2>1. Init => CoherentInv
    <3> SUFFICES ASSUME Init PROVE CoherentInv
      OBVIOUS
    <3>1. \A k \in Contexts : cache[k] = NoEntry
      BY DEF Init
    <3>2. \A c \in CommandBuffers : phase[c] = "none"
      BY DEF Init
    <3> QED  BY <3>1, <3>2 DEF CoherentInv, CacheCoherent, Found, Staged, Running
  <2>2. (IInv /\ OnceInv) /\ CoherentInv /\ [Next]_vars => CoherentInv'
    BY <1>2, CoherentStep
  <2>3. CoherentInv => CacheCoherent
    BY DEF CoherentInv
  <2> QED  BY <2>1, <2>2, <2>3, SharedIsSealed, PTL DEF Spec
<1> QED  BY <1>1, <1>2
=============================================================================
