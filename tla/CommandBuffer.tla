--------------------------- MODULE CommandBuffer ---------------------------
(***************************************************************************)
(* Chained outputs and elided dense writes, from the compiler to the NPU.  *)
(*                                                                         *)
(* A compiled program is a sequence of instructions over values that share *)
(* one allocation.  The layout pass (RocketAssignLayoutPass.cpp) declares  *)
(* which operands read their producer's cube in place and how many readers *)
(* a cube has.  The command buffers (rocket-hal-driver/command_buffer.rs)  *)
(* check the declarations while the instructions are recorded and, when    *)
(* they run, skip the dense write of a result every reader takes as a cube.*)
(* Recording runs ahead of execution, a command buffer at a time.          *)
(*                                                                         *)
(* Memory is counted in 16-byte cells; a cell holds the number of the      *)
(* instruction that wrote it last, zero for the program's arguments.       *)
(***************************************************************************)
EXTENDS TensorLayout

CONSTANTS Menu,       \* for every position of a program, the sites it may hold
          Cells,      \* cells of the allocation, apart from the arguments'
          Places,     \* cells at which a result may be placed
          ArgCells    \* cells of the program's argument, after the allocation

ASSUME PlacesAssumption ==
  Cells \in Nat /\ ArgCells \in Nat \ {0} /\ Places \subseteq 0..(Cells - 1)

VARIABLES
  program,     \* the instructions, in program order
  words,       \* what the compiler declared of each (DispatchLayout)
  ops,         \* RecordedOp of each instruction recorded so far
  executed,    \* instructions executed so far
  mem,         \* what every cell holds
  stray,       \* operands that were read and did not hold their value
  status       \* what recording returned

vars == <<program, words, ops, executed, mem, stray, status>>

MaxOps == Len(Menu)
AllDense == [packed_inputs |-> {}, packed_readers |-> 0]

(* A site is what the compiler emits at one place: the operation, its      *)
(* operands (a binding, the tensor it is read as, whether the hardware     *)
(* reads it as a cube, its first cell within the value) and its result.    *)
DenseBytes(t) == t.element_bytes * t.width * t.height * t.channels
CellsOf(t) == DenseBytes(t) \div FEATURE_ATOM_BYTES
GeometryOf(kind, t) == cube_geometry(kind, t.element_bytes, t.width, t.height, t.channels)

(* A command has at most two operands and reads something of each; a host  *)
(* read has no result.                                                     *)
ASSUME MenuAssumption ==
  /\ Len(Menu) \in Nat
  /\ \A n \in 1..Len(Menu) : \A site \in Menu[n] :
       /\ Len(site.reads) \in 0..2
       /\ CellsOf(site.out) \in Nat /\ (site.op = "host" => CellsOf(site.out) = 0)
       /\ \A k \in 1..Len(site.reads) : /\ CellsOf(site.reads[k].tensor) \in Nat \ {0}
                                        /\ site.reads[k].at \in Nat

Ins(i) == program[i]
Is(i, op) == program[i].site.op = op
Operands(i) == 1..Len(program[i].site.reads)

Written(i) == Ins(i).place..(Ins(i).place + CellsOf(Ins(i).site.out) - 1)
(* The cells of value i, an in-place update's being those of the value it  *)
(* updates, and the instruction whose result each of them holds.           *)
Extent(i) == IF i = 0 THEN Cells..(Cells + ArgCells - 1) ELSE Ins(i).extent
Holds(i) == IF i = 0 THEN [c \in Extent(0) |-> 0] ELSE Ins(i).holds
FirstCell(i) == CHOOSE c \in Extent(i) : \A d \in Extent(i) : c <= d

ReadRange(i, k) ==
  LET spec == Ins(i).site.reads[k]
      first == FirstCell(Ins(i).args[k]) + spec.at
  IN  first..(first + CellsOf(spec.tensor) - 1)

Init ==
  /\ program = <<>> /\ words = <<>> /\ ops = <<>> /\ executed = 0
  /\ mem = [c \in 0..(Cells + ArgCells - 1) |-> 0] /\ stray = {} /\ status = "compiling"
-----------------------------------------------------------------------------
(* The compiler.  Placement is IREE's: a result may reuse the cells of a   *)
(* value nobody reads any more.  A fill, update or copy may write a part of *)
(* a value in place; a dispatch writes all of its result.                  *)

Intact(v) == \A j \in (v + 1)..Len(program) : v = 0 \/ Written(j) \cap Extent(v) = {}
Disjoint(a, b) == a \cap b = {}

Emit(site, args, place, base, batch) ==
  /\ LET size == CellsOf(site.out)
         cells == place..(place + size - 1)
         extent == IF base = 0 THEN cells ELSE Extent(base)
     IN  /\ \A k \in 1..Len(args) :
              /\ Intact(args[k])
              /\ CellsOf(site.reads[k].tensor) + site.reads[k].at <= Cardinality(Extent(args[k]))
              /\ Disjoint(cells, Extent(args[k]))
         /\ base # 0 => Intact(base) /\ cells \subseteq extent
         /\ site.op = "dispatch" => cells = extent
         /\ place + size <= Cells /\ (size = 0 => place = 0)
         /\ program' = Append(program,
              [site |-> site, args |-> args, place |-> place, base |-> base, batch |-> batch,
               extent |-> extent,
               holds |-> [c \in extent |-> IF c \in cells THEN Len(program) + 1 ELSE Holds(base)[c]]])
  /\ UNCHANGED <<words, ops, executed, mem, stray, status>>

(* The command buffer of the next instruction: the host reads between two. *)
NextBatch(site) ==
  IF program = <<>> THEN {1}
  ELSE LET last == Len(program)
       IN  IF Is(last, "host") \/ site.op = "host" THEN {Ins(last).batch + 1}
           ELSE {Ins(last).batch, Ins(last).batch + 1}

Compile ==
  /\ status = "compiling" /\ Len(program) < MaxOps
  /\ \E site \in Menu[Len(program) + 1] :
     \E args \in [1..Len(site.reads) -> 0..Len(program)], place \in Places,
        base \in IF site.tied THEN 1..Len(program) ELSE {0},
        batch \in NextBatch(site) :
       Emit(site, args, place, base, batch)

(* describe: the cube a site publishes and the cubes its bindings read.    *)
DescribedOutput(i) ==
  LET g == GeometryOf(Ins(i).site.kind, Ins(i).site.out)
  IN  /\ Is(i, "dispatch")
      /\ IF Ins(i).site.kind \in {"Conv", "Matmul"} THEN is_whole_atom(g) ELSE can_chain(g)
PackedEdge(i, k) ==
  LET p == Ins(i).args[k]
      spec == Ins(i).site.reads[k]
  IN  /\ Is(i, "dispatch") /\ spec.cube
      /\ p # 0 /\ DescribedOutput(p)
      /\ chain_identity(GeometryOf(Ins(p).site.kind, Ins(p).site.out),
                        GeometryOf(spec.kind, spec.tensor))

Uses(p) == {u \in (1..Len(program)) \X (1..2) : u[2] \in Operands(u[1]) /\ Ins(u[1]).args[u[2]] = p}
Updated(p) == \E i \in 1..Len(program) : Ins(i).base = p

(* Mutant: a reader that is no Rocket dispatch is left out of the count.   *)
packed_readers_counted(p) == Cardinality({u \in Uses(p) : PackedEdge(u[1], u[2])})

(* The reader count of the pass: every use packed, or zero.                *)
packed_readers(p) ==
  IF /\ DescribedOutput(p) /\ ~Updated(p)
     /\ \A u \in Uses(p) : PackedEdge(u[1], u[2])
  THEN Cardinality(Uses(p)) ELSE 0

(* runOnOperation writes the word where the executable declares one, and   *)
(* trailing_layout reads it; all-dense otherwise.                          *)
DispatchLayout(i) ==
  IF Is(i, "dispatch") /\ Ins(i).site.declares
  THEN [packed_inputs |-> {k \in Operands(i) : PackedEdge(i, k)},
        packed_readers |-> packed_readers(i)]
  ELSE AllDense

Assign ==
  /\ status = "compiling" /\ program # <<>>
  /\ words' = [i \in 1..Len(program) |-> DispatchLayout(i)]
  /\ status' = "ok"
  /\ UNCHANGED <<program, ops, executed, mem, stray>>
-----------------------------------------------------------------------------
(* Recording.                                                              *)

(* What a recorded dispatch publishes: nothing when it fanned out.  Mutant:*)
(* the PPU's surfaces are strided like everyone else's.                    *)
output_geometry_unpadded(i) == GeometryOf("Matmul", Ins(i).site.out)
output_geometry(i) == GeometryOf(Ins(i).site.kind, Ins(i).site.out)
output_cube(i) ==
  /\ Is(i, "dispatch") /\ ~Ins(i).site.tiled
  /\ IF Ins(i).site.kind \in {"Conv", "Matmul"} THEN is_whole_atom(output_geometry(i))
     ELSE can_chain(output_geometry(i))

(* The operations recorded before i on its command buffer.                 *)
OnSameBuffer(i) == {j \in 1..(i - 1) : Ins(j).batch = Ins(i).batch /\ ~Is(j, "host")}

(* chainable_cube: the most recent overlapping write of this command       *)
(* buffer, if it published a cube of exactly these bytes.                  *)
Latest(i, k) ==
  LET overlapping == {j \in OnSameBuffer(i) : Written(j) \cap ReadRange(i, k) # {}}
  IN  IF overlapping = {} THEN 0 ELSE CHOOSE j \in overlapping : \A o \in overlapping : o <= j
chainable_cube(i, k) ==
  LET j == Latest(i, k)
  IN  IF /\ k \in words[i].packed_inputs /\ j # 0
         /\ output_cube(j) /\ Written(j) = ReadRange(i, k)
      THEN j ELSE 0
ChainRefused(i, k) ==
  LET spec == Ins(i).site.reads[k]
      consumer == GeometryOf(spec.kind, spec.tensor)
      j == chainable_cube(i, k)
  IN  \/ k \in words[i].packed_inputs /\ ~can_chain(consumer)
      \/ j # 0 /\ ~chain_identity(output_geometry(j), consumer)

(* note_dense_read: every earlier dispatch whose write overlaps the bytes. *)
(* Mutant: buffers are compared, not byte ranges.                          *)
note_dense_read_unranged(i, k) == {j \in OnSameBuffer(i) : Is(j, "dispatch")}
note_dense_read(i, k) ==
  {j \in OnSameBuffer(i) : Is(j, "dispatch") /\ Written(j) \cap ReadRange(i, k) # {}}

(* dispatch, copy_buffer, fill_buffer and update_buffer: an operand is     *)
(* either read through a cube, which its producer counts, or from the      *)
(* dense bytes, which forbids their writers to skip them.                  *)
RecordedOp(sources) == [sources |-> sources, chained_readers |-> 0, dense_read_seen |-> FALSE]
Record ==
  LET i == Len(ops) + 1
      sources == [k \in Operands(i) |-> IF Is(i, "dispatch") THEN chainable_cube(i, k) ELSE 0]
      chained(j) == Cardinality({k \in Operands(i) : sources[k] = j})
      seen == IF Is(i, "host") THEN {}
              ELSE UNION {note_dense_read(i, k) : k \in {k \in Operands(i) : sources[k] = 0}}
  IN  /\ status = "ok" /\ i <= Len(program)
      /\ IF Is(i, "dispatch") /\ \E k \in Operands(i) : ChainRefused(i, k)
         THEN status' = "INTERNAL" /\ UNCHANGED ops
         ELSE /\ ops' = Append([j \in 1..Len(ops) |->
                                  [ops[j] EXCEPT !.chained_readers = @ + chained(j),
                                                 !.dense_read_seen = @ \/ j \in seen]],
                               RecordedOp(sources))
              /\ UNCHANGED status
      /\ UNCHANGED <<program, words, executed, mem, stray>>
-----------------------------------------------------------------------------
(* Execution.                                                              *)

compaction_elidable(i) ==
  /\ words[i].packed_readers > 0
  /\ ops[i].chained_readers = words[i].packed_readers
  /\ ~ops[i].dense_read_seen

Submitted(i) == \A j \in 1..Len(program) : Ins(j).batch = Ins(i).batch => j <= Len(ops)

(* The operand holds the value the program says: the cube of a producer    *)
(* that ran on this command buffer, or the dense bytes.                    *)
HoldsValue(i, k) ==
  LET value == Ins(i).args[k]
      source == ops[i].sources[k]
  IN  \A c \in ReadRange(i, k) :
        Holds(value)[c] = IF source # 0 THEN source ELSE mem[c]

(* apply_ops_until_dispatch and the compaction of queue_execute, for the   *)
(* next operation; a host read is a reader outside the command buffers.    *)
Execute ==
  LET i == executed + 1
      writes == ~Is(i, "host") /\ ~(Is(i, "dispatch") /\ compaction_elidable(i))
  IN  /\ status = "ok" /\ i <= Len(ops) /\ Submitted(i)
      /\ stray' = stray \cup {<<i, k>> : k \in {k \in Operands(i) : ~HoldsValue(i, k)}}
      /\ mem' = [c \in DOMAIN mem |-> IF writes /\ c \in Written(i) THEN i ELSE mem[c]]
      /\ executed' = i
      /\ UNCHANGED <<program, words, ops, status>>

Done == executed = Len(program) \/ status = "INTERNAL"
Next == Compile \/ Assign \/ Record \/ Execute \/ (Done /\ status # "compiling" /\ UNCHANGED vars)
Spec == Init /\ [][Next]_vars
-----------------------------------------------------------------------------
(* Properties.                                                             *)

(* Every operand of every instruction holds the value the program computes *)
(* for it, whether it is read as a cube or as dense bytes, from the same   *)
(* command buffer, from a later one or from the host, through skipped      *)
(* dense writes, reused cells and in-place updates.                        *)
ReadsItsValue == stray = {}

(* What the compiler declared packed is never contradicted by the geometry *)
(* the runtime computes: recording fails INTERNAL for no compiled program  *)
(* (command_buffer.rs, chainable_cube).                                    *)
DeclarationsHold == status # "INTERNAL"

(* The compiler's count and the driver's tally agree: a result all of      *)
(* whose readers the recorder let chain, and whose bytes nothing else      *)
(* recorded there touches, is not written densely.                         *)
ElidedWhenAllChained ==
  \A i \in 1..executed :
    LET readers == {u \in (1..Len(ops)) \X (1..2) :
                      u[2] \in Operands(u[1]) /\ ops[u[1]].sources[u[2]] = i}
    IN  (/\ Is(i, "dispatch") /\ Ins(i).site.declares
         /\ Uses(i) # {} /\ Uses(i) = readers /\ ~Updated(i)
         /\ \A u \in (1..Len(program)) \X (1..2) :
              (u[2] \in Operands(u[1]) /\ u[1] > i /\ u \notin readers)
                => Disjoint(ReadRange(u[1], u[2]), Written(i)))
        => compaction_elidable(i)
=============================================================================
