------------------------ MODULE CommandBufferProofs ------------------------
(***************************************************************************)
(* Proofs about CommandBuffer, for every menu of sites, allocation and     *)
(* placement: an operand holds its value, recording refuses no compiled    *)
(* program, and a result all of whose readers chain is not written densely.*)
(*                                                                         *)
(* ProgInv says what a compiled program is: which instruction wrote a cell *)
(* of a value last, and that nobody writes it between the value and its    *)
(* reader.  OpsInv says what recording has tallied, and MemInv what        *)
(* execution has left in the cells.                                        *)
(***************************************************************************)
EXTENDS CommandBuffer, FiniteSetTheorems, TLAPS

Sites == UNION {Menu[n] : n \in 1..Len(Menu)}
Instr == [site : Sites, args : UNION {[1..n -> Nat] : n \in Nat}, place : Nat, base : Nat,
          batch : Nat, extent : SUBSET Int, holds : UNION {[e -> Nat] : e \in SUBSET Int}]

(* The fields of an instruction, in terms of its position.                 *)
InsType(i) ==
  /\ i <= Len(Menu) /\ Ins(i).site \in Menu[i]
  /\ Ins(i).args \in [Operands(i) -> 0..(i - 1)]
  /\ Ins(i).place \in Nat /\ Ins(i).base \in 0..(i - 1) /\ Ins(i).batch \in Nat
  /\ Ins(i).place + CellsOf(Ins(i).site.out) <= Cells

(* The cells of a value lie together in the allocation.                    *)
ExtentInv(i) ==
  /\ \E a \in Int, b \in Int : Extent(i) = a..b
  /\ Written(i) \subseteq Extent(i) /\ Extent(i) \subseteq 0..(Cells - 1)
  /\ Is(i, "dispatch") => Written(i) = Extent(i)

(* Holds names the last of the writers up to value i, and the value's own  *)
(* instruction unless somebody updated the writer in place.                *)
HoldsInv(i) ==
  \A c \in Extent(i) :
    /\ Holds(i)[c] \in 1..i /\ c \in Written(Holds(i)[c])
    /\ \A j \in 1..i : c \in Written(j) => j <= Holds(i)[c]
    /\ Holds(i)[c] # i => Updated(Holds(i)[c])

(* A value is still there when it is read.                                 *)
ReadInv(i) ==
  \A k \in Operands(i) :
    /\ CellsOf(Ins(i).site.reads[k].tensor) + Ins(i).site.reads[k].at
         <= Cardinality(Extent(Ins(i).args[k]))
    /\ \A j \in (Ins(i).args[k] + 1)..(i - 1) :
         Ins(i).args[k] = 0 \/ Written(j) \cap Extent(Ins(i).args[k]) = {}

BatchInv(i) == \A j \in 1..i : Ins(j).batch <= Ins(i).batch

ProgInv ==
  /\ program \in Seq(Instr)
  /\ \A i \in 1..Len(program) :
       InsType(i) /\ ExtentInv(i) /\ HoldsInv(i) /\ ReadInv(i) /\ BatchInv(i)

(* What recording has tallied.                                             *)
Recorded == 1..Len(ops)
Source(i, k) == IF Is(i, "dispatch") THEN chainable_cube(i, k) ELSE 0
Chained(j) ==
  {u \in Recorded \X (1..2) : u[2] \in Operands(u[1]) /\ Source(u[1], u[2]) = j}
Op == [sources : UNION {[1..n -> Nat] : n \in Nat}, chained_readers : Nat,
       dense_read_seen : BOOLEAN]
OpsInv ==
  /\ ops \in Seq(Op) /\ Len(ops) <= Len(program)
  /\ \A i \in Recorded :
       /\ ops[i].sources = [k \in Operands(i) |-> Source(i, k)]
       /\ ops[i].chained_readers = Cardinality(Chained(i))
       /\ ops[i].dense_read_seen =>
            \E u \in Recorded \X (1..2) :
              /\ u[2] \in Operands(u[1]) /\ Source(u[1], u[2]) = 0
              /\ i \in note_dense_read(u[1], u[2])

(* What execution has left in the cells: the last write that was not       *)
(* skipped.                                                                *)
Writes(j) == ~Is(j, "host") /\ ~(Is(j, "dispatch") /\ compaction_elidable(j))
MemInv ==
  /\ executed \in 0..Len(ops)
  /\ \A j \in 1..executed : Submitted(j)
  /\ DOMAIN mem = 0..(Cells + ArgCells - 1)
  /\ \A c \in DOMAIN mem :
       /\ mem[c] \in 0..executed
       /\ mem[c] # 0 => c \in Written(mem[c])
       /\ \A j \in 1..executed : (c \in Written(j) /\ Writes(j)) => j <= mem[c]

(* Nothing is recorded before the layout pass has run.                     *)
Declared == words = [i \in 1..Len(program) |-> DispatchLayout(i)]
StatusInv ==
  /\ status \in {"compiling", "ok"}
  /\ IF status = "compiling" THEN ops = <<>> /\ executed = 0 ELSE Declared

IInv == ProgInv /\ OpsInv /\ MemInv /\ StatusInv /\ stray = {}

-----------------------------------------------------------------------------
(* The program.                                                            *)

(* The instruction Compile appends.                                        *)
Emitted(site, args, place, base, batch) ==
  LET cells == place..(place + CellsOf(site.out) - 1)
      extent == IF base = 0 THEN cells ELSE Extent(base)
  IN  [site |-> site, args |-> args, place |-> place, base |-> base, batch |-> batch,
       extent |-> extent,
       holds |-> [c \in extent |-> IF c \in cells THEN Len(program) + 1 ELSE Holds(base)[c]]]

(* What is known of an instruction Compile emits.                          *)
Emittable(site, args, place, base, batch) ==
  /\ Len(program) + 1 <= Len(Menu) /\ site \in Menu[Len(program) + 1]
  /\ args \in [1..Len(site.reads) -> 0..Len(program)]
  /\ place \in Nat /\ base \in 0..Len(program)
  /\ batch \in Nat /\ \A i \in 1..Len(program) : Ins(i).batch <= batch
  /\ Emit(site, args, place, base, batch)

(* A command buffer begins no earlier than the ones before it (NextBatch). *)
LEMMA Compiled ==
  ASSUME ProgInv, Compile
  PROVE  \E site, args, place, base, batch : Emittable(site, args, place, base, batch)
<1>1. Len(program) \in Nat /\ Len(program) + 1 \in 1..Len(Menu)
  BY MenuAssumption DEF ProgInv, Compile, MaxOps
<1>2. PICK site \in Menu[Len(program) + 1] :
        \E args \in [1..Len(site.reads) -> 0..Len(program)], place \in Places,
           base \in IF site.tied THEN 1..Len(program) ELSE {0},
           batch \in NextBatch(site) : Emit(site, args, place, base, batch)
  BY DEF Compile
<1>3. PICK args \in [1..Len(site.reads) -> 0..Len(program)], place \in Places,
           base \in IF site.tied THEN 1..Len(program) ELSE {0},
           batch \in NextBatch(site) : Emit(site, args, place, base, batch)
  BY <1>2
<1>4. place \in Nat /\ base \in 0..Len(program)
  BY <1>1, PlacesAssumption
<1>5. batch \in Nat /\ \A i \in 1..Len(program) : Ins(i).batch <= batch
  <2>1. CASE program = <<>>
    BY <2>1 DEF NextBatch
  <2>2. CASE program # <<>>
    <3>1. Len(program) \in 1..Len(program)
      BY <2>2, <1>1 DEF ProgInv
    <3>2. batch \in {Ins(Len(program)).batch, Ins(Len(program)).batch + 1}
      BY <2>2 DEF NextBatch
    <3>3. Ins(Len(program)).batch \in Nat
      BY <3>1 DEF ProgInv, InsType
    <3>4. \A i \in 1..Len(program) : Ins(i).batch <= Ins(Len(program)).batch /\ Ins(i).batch \in Nat
      BY <3>1 DEF ProgInv, InsType, BatchInv
    <3> QED
      BY <3>2, <3>3, <3>4
  <2> QED
    BY <2>1, <2>2
<1> QED
  BY <1>1, <1>3, <1>4, <1>5 DEF Emittable

(* The instructions before the emitted one stay as they are.               *)
LEMMA Appended ==
  ASSUME ProgInv, NEW site, NEW args, NEW place, NEW base, NEW batch,
         Emittable(site, args, place, base, batch)
  PROVE  /\ program' \in Seq(Instr) /\ Len(program') = Len(program) + 1
         /\ \A i \in 1..Len(program) : program'[i] = program[i]
         /\ program'[Len(program) + 1] = Emitted(site, args, place, base, batch)
         /\ \A i \in 0..Len(program) : Extent(i)' = Extent(i) /\ Holds(i)' = Holds(i)
         /\ \A i \in 1..Len(program) : Written(i)' = Written(i)
<1> DEFINE n == Len(program)
           e == Emitted(site, args, place, base, batch)
<1>1. n \in Nat /\ program \in Seq(Instr)
  BY DEF ProgInv
<1>2. program' = Append(program, e)
  BY DEF Emittable, Emit, Emitted
<1>3. e \in Instr
  <2>1. site \in Sites
    BY <1>1 DEF Emittable, Sites
  <2>2. args \in UNION {[1..m -> Nat] : m \in Nat}
    <3>1. Len(site.reads) \in Nat
      BY MenuAssumption, <1>1 DEF Emittable
    <3>2. args \in [1..Len(site.reads) -> Nat]
      BY <1>1 DEF Emittable
    <3> QED
      BY <3>1, <3>2
  <2>3. base \in Nat /\ place \in Nat /\ batch \in Nat
    BY <1>1 DEF Emittable
  <2>4. CellsOf(site.out) \in Nat
    BY MenuAssumption, <1>1 DEF Emittable
  <2>5. Extent(base) \subseteq Int
    <3>1. CASE base = 0
      BY <3>1, PlacesAssumption DEF Extent
    <3>2. CASE base # 0
      <4>1. base \in 1..n
        BY <3>2, <1>1 DEF Emittable
      <4>2. Extent(base) \subseteq 0..(Cells - 1)
        BY <4>1 DEF ProgInv, ExtentInv
      <4> QED
        BY <4>2, PlacesAssumption
    <3> QED
      BY <3>1, <3>2
  <2>6. e.extent \subseteq Int
    BY <2>3, <2>4, <2>5 DEF Emitted
  <2>7. \A c \in e.extent : e.holds[c] \in Nat
    <3> SUFFICES ASSUME NEW c \in e.extent PROVE e.holds[c] \in Nat
      OBVIOUS
    <3>1. CASE c \in place..(place + CellsOf(site.out) - 1)
      <4>1. e.holds[c] = n + 1
        BY <3>1 DEF Emitted
      <4> QED
        BY <4>1, <1>1
    <3>2. CASE c \notin place..(place + CellsOf(site.out) - 1)
      <4>1. e.holds[c] = Holds(base)[c] /\ base # 0 /\ c \in Extent(base)
        BY <3>2 DEF Emitted
      <4>2. base \in 1..n
        BY <4>1, <1>1 DEF Emittable
      <4>3. Holds(base)[c] \in 1..base
        BY <4>1, <4>2 DEF ProgInv, HoldsInv
      <4> QED
        BY <4>1, <4>2, <4>3
    <3> QED
      BY <3>1, <3>2
  <2>8. e.holds \in UNION {[x -> Nat] : x \in SUBSET Int}
    <3>1. e.holds \in [e.extent -> Nat]
      BY <2>7 DEF Emitted
    <3> QED
      BY <3>1, <2>6
  <2>9. e = [site |-> site, args |-> args, place |-> place, base |-> base, batch |-> batch,
             extent |-> e.extent, holds |-> e.holds]
    BY DEF Emitted
  <2> HIDE DEF e
  <2> QED
    BY <2>1, <2>2, <2>3, <2>6, <2>8, <2>9 DEF Instr
<1> HIDE DEF e
<1>4. /\ program' \in Seq(Instr) /\ Len(program') = n + 1
      /\ \A i \in 1..n : program'[i] = program[i]
      /\ program'[n + 1] = e
  BY <1>1, <1>2, <1>3
<1>5. \A i \in 0..n : Extent(i)' = Extent(i) /\ Holds(i)' = Holds(i)
  <2> SUFFICES ASSUME NEW i \in 0..n PROVE Extent(i)' = Extent(i) /\ Holds(i)' = Holds(i)
    OBVIOUS
  <2>1. CASE i = 0
    BY <2>1 DEF Extent, Holds
  <2>2. CASE i # 0
    <3>1. program'[i] = program[i]
      BY <2>2, <1>4, <1>1
    <3> QED
      BY <3>1, <2>2 DEF Extent, Holds, Ins
  <2> QED
    BY <2>1, <2>2
<1>6. \A i \in 1..n : Written(i)' = Written(i)
  BY <1>4 DEF Written, Ins
<1> QED
  BY <1>4, <1>5, <1>6 DEF e

(* What the emitted instruction is, as an instruction of the longer        *)
(* program.                                                                *)
LEMMA EmittedIs ==
  ASSUME ProgInv, NEW site, NEW args, NEW place, NEW base, NEW batch,
         Emittable(site, args, place, base, batch),
         NEW n, n = Len(program) + 1
  PROVE  /\ n \in Nat \ {0} /\ n \in 1..Len(Menu) /\ site \in Menu[n]
         /\ Ins(n)'.site = site /\ Ins(n)'.args = args /\ Ins(n)'.place = place
         /\ Ins(n)'.base = base /\ Ins(n)'.batch = batch
         /\ CellsOf(site.out) \in Nat
         /\ Written(n)' = place..(place + CellsOf(site.out) - 1)
         /\ Extent(n)' = IF base = 0 THEN Written(n)' ELSE Extent(base)
         /\ \A c \in Extent(n)' :
              Holds(n)'[c] = IF c \in Written(n)' THEN n ELSE Holds(base)[c]
<1>1. n \in Nat \ {0} /\ n \in 1..Len(Menu) /\ site \in Menu[n]
  BY DEF ProgInv, Emittable
<1>2. program'[n] = Emitted(site, args, place, base, batch)
  BY Appended
<1>3. /\ Ins(n)'.site = site /\ Ins(n)'.args = args /\ Ins(n)'.place = place
      /\ Ins(n)'.base = base /\ Ins(n)'.batch = batch
  BY <1>2 DEF Ins, Emitted
<1>4. CellsOf(site.out) \in Nat
  BY <1>1, MenuAssumption
<1>5. Written(n)' = place..(place + CellsOf(site.out) - 1)
  BY <1>3 DEF Written
<1>6. Extent(n)' = IF base = 0 THEN Written(n)' ELSE Extent(base)
  BY <1>1, <1>2, <1>5 DEF Extent, Ins, Emitted
<1>7. \A c \in Extent(n)' :
        Holds(n)'[c] = IF c \in Written(n)' THEN n ELSE Holds(base)[c]
  <2>1. Holds(n)' = program'[n].holds
    BY <1>1 DEF Holds, Ins
  <2>2. Emitted(site, args, place, base, batch).holds =
          [c \in Extent(n)' |-> IF c \in Written(n)' THEN n ELSE Holds(base)[c]]
    BY <1>5, <1>6 DEF Emitted
  <2> QED
    BY <1>2, <2>1, <2>2
<1> QED
  BY <1>1, <1>3, <1>4, <1>5, <1>6, <1>7

(* An instruction already in the program keeps what is known of it.        *)
LEMMA KeptInstruction ==
  ASSUME ProgInv, NEW site, NEW args, NEW place, NEW base, NEW batch,
         Emittable(site, args, place, base, batch), NEW i \in 1..Len(program)
  PROVE  InsType(i)' /\ ExtentInv(i)' /\ HoldsInv(i)' /\ ReadInv(i)' /\ BatchInv(i)'
<1>1. /\ \A j \in 1..Len(program) : program'[j] = program[j] /\ Written(j)' = Written(j)
      /\ \A j \in 0..Len(program) : Extent(j)' = Extent(j) /\ Holds(j)' = Holds(j)
      /\ Len(program') = Len(program) + 1
  BY Appended
<1>2. InsType(i) /\ ExtentInv(i) /\ HoldsInv(i) /\ ReadInv(i) /\ BatchInv(i) /\ Len(program) \in Nat
  BY DEF ProgInv
<1>3. /\ Extent(i)' = Extent(i) /\ Holds(i)' = Holds(i) /\ Written(i)' = Written(i)
      /\ program'[i] = program[i]
  BY <1>1, <1>2
<1>4. InsType(i)'
  BY <1>2, <1>3 DEF InsType, Ins, Operands
<1>5. ExtentInv(i)'
  BY <1>2, <1>3 DEF ExtentInv, Is
<1>6. HoldsInv(i)'
  <2> SUFFICES ASSUME NEW c \in Extent(i)
               PROVE  /\ Holds(i)[c] \in 1..i /\ c \in Written(Holds(i)[c])'
                      /\ \A j \in 1..i : c \in Written(j)' => j <= Holds(i)[c]
                      /\ Holds(i)[c] # i => Updated(Holds(i)[c])'
    BY <1>3 DEF HoldsInv
  <2>1. PICK w \in 1..i : w = Holds(i)[c] /\ c \in Written(w)
    BY <1>2 DEF HoldsInv
  <2>2. Written(w)' = Written(w) /\ \A j \in 1..i : Written(j)' = Written(j)
    BY <1>1, <1>2
  <2>3. \A j \in 1..i : c \in Written(j)' => j <= w
    BY <1>2, <2>1, <2>2 DEF HoldsInv
  <2>4. w # i => Updated(w)'
    <3> SUFFICES ASSUME w # i PROVE Updated(w)'
      OBVIOUS
    <3>1. PICK j \in 1..Len(program) : Ins(j).base = w
      BY <1>2, <2>1 DEF HoldsInv, Updated
    <3>2. j \in 1..Len(program') /\ Ins(j)'.base = w
      BY <1>1, <1>2, <3>1 DEF Ins
    <3> QED
      BY <3>2 DEF Updated
  <2>5. Holds(i)[c]' = w /\ Holds(i)[c] = w
    BY <2>1, <1>3
  <2>6. c \in Written(Holds(i)[c])'
    BY <2>1, <2>2, <2>5 DEF Written
  <2>7. Updated(w)' => Updated(Holds(i)[c])'
    BY <2>5 DEF Updated
  <2> QED
    BY <2>1, <2>3, <2>4, <2>6, <2>7
<1>7. ReadInv(i)'
  <2> SUFFICES ASSUME NEW k \in Operands(i)
               PROVE  /\ CellsOf(Ins(i).site.reads[k].tensor) + Ins(i).site.reads[k].at
                           <= Cardinality(Extent(Ins(i).args[k])')
                      /\ \A j \in (Ins(i).args[k] + 1)..(i - 1) :
                           Ins(i).args[k] = 0 \/ Written(j)' \cap Extent(Ins(i).args[k])' = {}
    BY <1>3 DEF ReadInv, Ins, Operands
  <2>1. PICK v \in 0..(i - 1) : v = Ins(i).args[k]
    BY <1>2 DEF InsType
  <2>2. Extent(v)' = Extent(v) /\ \A j \in (v + 1)..(i - 1) : Written(j)' = Written(j)
    BY <1>1, <1>2
  <2>3. Ins(i).args[k]' = v
    BY <2>1, <1>3 DEF Ins
  <2>4. Extent(Ins(i).args[k])' = Extent(v)
    BY <2>2, <2>3 DEF Extent
  <2> QED
    BY <1>2, <2>1, <2>2, <2>4 DEF ReadInv
<1>8. BatchInv(i)'
  BY <1>1, <1>2 DEF BatchInv, Ins
<1> QED
  BY <1>4, <1>5, <1>6, <1>7, <1>8

(* The emitted instruction: its cells are those of its base or its own,    *)
(* the last writer of a cell it leaves alone is that of its base, which    *)
(* nobody has written since (Intact), and so are the operands.             *)
LEMMA NewInstruction ==
  ASSUME ProgInv, NEW site, NEW args, NEW place, NEW base, NEW batch,
         Emittable(site, args, place, base, batch),
         NEW n, n = Len(program) + 1
  PROVE  InsType(n)' /\ ExtentInv(n)' /\ HoldsInv(n)' /\ ReadInv(n)' /\ BatchInv(n)'
<1>1. /\ n \in Nat \ {0} /\ n \in 1..Len(Menu) /\ site \in Menu[n]
      /\ Ins(n)'.site = site /\ Ins(n)'.args = args /\ Ins(n)'.place = place
      /\ Ins(n)'.base = base /\ Ins(n)'.batch = batch
      /\ CellsOf(site.out) \in Nat
      /\ Written(n)' = place..(place + CellsOf(site.out) - 1)
      /\ Extent(n)' = IF base = 0 THEN Written(n)' ELSE Extent(base)
      /\ \A c \in Extent(n)' :
           Holds(n)'[c] = IF c \in Written(n)' THEN n ELSE Holds(base)[c]
  BY EmittedIs
<1>2. /\ \A j \in 1..(n - 1) : program'[j] = program[j] /\ Written(j)' = Written(j)
      /\ \A j \in 0..(n - 1) : Extent(j)' = Extent(j) /\ Holds(j)' = Holds(j)
      /\ Len(program') = n /\ Len(program) = n - 1
  BY Appended, <1>1
<1>3. /\ args \in [1..Len(site.reads) -> 0..(n - 1)]
      /\ place \in Nat /\ base \in 0..(n - 1) /\ batch \in Nat
      /\ \A i \in 1..(n - 1) : Ins(i).batch <= batch
  BY <1>2 DEF Emittable
<1>4. /\ \A k \in 1..Len(args) :
           /\ Intact(args[k])
           /\ CellsOf(site.reads[k].tensor) + site.reads[k].at <= Cardinality(Extent(args[k]))
      /\ base # 0 => Intact(base) /\ Written(n)' \subseteq Extent(n)'
      /\ site.op = "dispatch" => Written(n)' = Extent(n)'
      /\ place + CellsOf(site.out) <= Cells
  BY <1>1 DEF Emittable, Emit
<1>5. InsType(n)'
  BY <1>1, <1>3, <1>4 DEF InsType, Operands, Ins
<1>6. base # 0 => base \in 1..(n - 1) /\ ExtentInv(base) /\ HoldsInv(base)
  BY <1>2, <1>3 DEF ProgInv
<1>7. ExtentInv(n)'
  <2>1. \E a \in Int, b \in Int : Extent(n)' = a..b
    <3>1. CASE base = 0
      <4>1. place \in Int /\ place + CellsOf(site.out) - 1 \in Int
        BY <1>1, <1>3
      <4> QED
        BY <3>1, <4>1, <1>1
    <3>2. CASE base # 0
      BY <3>2, <1>6, <1>1 DEF ExtentInv
    <3> QED
      BY <3>1, <3>2
  <2>2. Written(n)' \subseteq Extent(n)'
    BY <1>1, <1>4
  <2>3. Extent(n)' \subseteq 0..(Cells - 1)
    <3>1. CASE base = 0
      <4>1. Written(n)' \subseteq 0..(Cells - 1)
        BY <1>1, <1>3, <1>4, PlacesAssumption
      <4> QED
        BY <3>1, <4>1, <1>1
    <3>2. CASE base # 0
      BY <3>2, <1>6, <1>1 DEF ExtentInv
    <3> QED
      BY <3>1, <3>2
  <2>4. Is(n, "dispatch")' => Written(n)' = Extent(n)'
    BY <1>1, <1>4 DEF Is, Ins
  <2> QED
    BY <2>1, <2>2, <2>3, <2>4 DEF ExtentInv
<1>8. HoldsInv(n)'
  <2> SUFFICES ASSUME NEW c, c \in Extent(n)'
               PROVE  \E w \in 1..n : /\ Holds(n)'[c] = w /\ c \in Written(w)'
                                      /\ \A j \in 1..n : c \in Written(j)' => j <= w
                                      /\ w # n => Updated(w)'
    BY DEF HoldsInv, Written, Updated
  <2>1. CASE c \in Written(n)'
    <3>1. Holds(n)'[c] = n /\ n \in 1..n
      BY <2>1, <1>1
    <3> QED
      BY <2>1, <3>1, <1>1
  <2>2. CASE c \notin Written(n)'
    <3>1. base # 0 /\ c \in Extent(base) /\ Holds(n)'[c] = Holds(base)[c]
      BY <2>2, <1>1
    <3>2. base \in 1..(n - 1)
      BY <3>1, <1>6
    <3>3. PICK w \in 1..base : w = Holds(base)[c] /\ c \in Written(w)
      BY <3>1, <1>6 DEF HoldsInv
    <3>4. w \in 1..n /\ w \in 1..(n - 1) /\ w # n
      BY <3>2, <1>1
    <3>5. Written(w)' = Written(w)
      BY <3>4, <1>2
    <3>6. ASSUME NEW j \in 1..n, c \in Written(j)' PROVE j <= w
      <4>1. j \in 1..(n - 1) /\ c \in Written(j)
        BY <3>6, <2>2, <1>1, <1>2
      <4>2. ~(j \in (base + 1)..Len(program))
        BY <3>1, <1>4, <4>1 DEF Intact
      <4>3. j \in 1..base
        BY <4>1, <4>2, <3>2, <1>1, <1>2
      <4> QED
        BY <4>1, <4>3, <3>1, <3>3, <1>6 DEF HoldsInv
    <3>7. Updated(w)'
      <4>1. CASE w = base
        <5>1. n \in 1..Len(program') /\ Ins(n)'.base = w
          BY <4>1, <1>1, <1>2
        <5> QED
          BY <5>1 DEF Updated
      <4>2. CASE w # base
        <5>1. PICK j \in 1..Len(program) : Ins(j).base = w
          BY <4>2, <3>1, <3>3, <1>6 DEF HoldsInv, Updated
        <5>2. j \in 1..Len(program') /\ Ins(j)'.base = w
          BY <5>1, <1>1, <1>2 DEF Ins
        <5> QED
          BY <5>2 DEF Updated
      <4> QED
        BY <4>1, <4>2
    <3> QED
      BY <3>1, <3>3, <3>4, <3>5, <3>6, <3>7
  <2> QED
    BY <2>1, <2>2
<1>9. ReadInv(n)'
  <2> SUFFICES ASSUME NEW k \in 1..Len(site.reads)
               PROVE  /\ CellsOf(site.reads[k].tensor) + site.reads[k].at
                           <= Cardinality(Extent(args[k]))
                      /\ \A j \in (args[k] + 1)..(n - 1) :
                           args[k] = 0 \/ Written(j) \cap Extent(args[k]) = {}
    <3>1. ASSUME NEW k \in 1..Len(site.reads)
          PROVE  /\ Extent(Ins(n).args[k])' = Extent(args[k])
                 /\ \A j \in (args[k] + 1)..(n - 1) : Written(j)' = Written(j)
      <4>1. PICK v \in 0..(n - 1) : v = args[k]
        BY <1>3
      <4>2. Ins(n).args[k]' = v
        BY <4>1, <1>1
      <4>3. Extent(v)' = Extent(v) /\ \A j \in (v + 1)..(n - 1) : Written(j)' = Written(j)
        BY <1>1, <1>2
      <4>4. Extent(Ins(n).args[k])' = Extent(v)'
        BY <4>2 DEF Extent
      <4> QED
        BY <4>1, <4>3, <4>4
    <3> QED
      BY <3>1, <1>1 DEF ReadInv, Operands, Ins
  <2>1. k \in 1..Len(args)
    <3>1. Len(site.reads) \in Nat
      BY <1>1, MenuAssumption
    <3>2. Len(args) = Len(site.reads)
      BY <3>1, <1>3
    <3> QED
      BY <3>2
  <2> QED
    BY <2>1, <1>2, <1>4 DEF Intact
<1>10. BatchInv(n)'
  BY <1>1, <1>2, <1>3 DEF BatchInv, Ins
<1> QED
  BY <1>5, <1>7, <1>8, <1>9, <1>10

(* Compile preserves ProgInv, and no other action changes the program.     *)
LEMMA ProgStep ==
  ASSUME ProgInv, [Next]_vars PROVE ProgInv'
<1>1. CASE Compile
  <2>1. PICK site, args, place, base, batch : Emittable(site, args, place, base, batch)
    BY <1>1, Compiled
  <2>2. program' \in Seq(Instr) /\ Len(program') = Len(program) + 1 /\ Len(program) \in Nat
    BY <2>1, Appended DEF ProgInv
  <2>3. ASSUME NEW i \in 1..Len(program')
        PROVE  InsType(i)' /\ ExtentInv(i)' /\ HoldsInv(i)' /\ ReadInv(i)' /\ BatchInv(i)'
    <3>1. CASE i = Len(program) + 1
      BY <3>1, <2>1, NewInstruction
    <3>2. CASE i # Len(program) + 1
      <4>1. i \in 1..Len(program)
        BY <3>2, <2>2
      <4> QED
        BY <4>1, <2>1, KeptInstruction
    <3> QED
      BY <3>1, <3>2
  <2> QED
    BY <2>2, <2>3 DEF ProgInv
<1>2. CASE program' = program
  <2>1. ASSUME NEW i \in 1..Len(program)
        PROVE  InsType(i)' /\ ExtentInv(i)' /\ HoldsInv(i)' /\ ReadInv(i)' /\ BatchInv(i)'
    <3>1. InsType(i) /\ ExtentInv(i) /\ HoldsInv(i) /\ ReadInv(i) /\ BatchInv(i)
      BY DEF ProgInv
    <3>2. InsType(i)' /\ BatchInv(i)'
      BY <3>1, <1>2 DEF InsType, BatchInv, Ins, Operands
    <3>3. ExtentInv(i)'
      BY <3>1, <1>2 DEF ExtentInv, Extent, Written, Ins, Is
    <3>4. HoldsInv(i)'
      BY <3>1, <1>2 DEF HoldsInv, Extent, Holds, Written, Updated, Ins
    <3>5. ReadInv(i)'
      BY <3>1, <1>2 DEF ReadInv, Extent, Written, Operands, Ins
    <3> QED
      BY <3>2, <3>3, <3>4, <3>5
  <2> QED
    BY <2>1, <1>2 DEF ProgInv
<1> QED
  BY <1>1, <1>2 DEF Next, Assign, Record, Execute, vars

-----------------------------------------------------------------------------
(* Operands.                                                               *)

(* The cells an operand reads are cells of its value.                      *)
LEMMA RangeInValue ==
  ASSUME ProgInv, NEW i \in 1..Len(program), NEW k \in Operands(i)
  PROVE  /\ Ins(i).args[k] \in 0..(i - 1)
         /\ ReadRange(i, k) # {} /\ ReadRange(i, k) \subseteq Extent(Ins(i).args[k])
<1>1. PICK v \in 0..(i - 1) : v = Ins(i).args[k]
  BY DEF ProgInv, InsType
<1>2. Ins(i).site \in Menu[i] /\ i \in 1..Len(Menu)
  BY MenuAssumption DEF ProgInv, InsType
<1>3. PICK at \in Nat, size \in Nat \ {0} :
        /\ at = Ins(i).site.reads[k].at /\ size = CellsOf(Ins(i).site.reads[k].tensor)
        /\ size + at <= Cardinality(Extent(v))
  <2>1. k \in 1..Len(Ins(i).site.reads)
    BY DEF Operands, Ins
  <2>2. /\ Ins(i).site.reads[k].at \in Nat
        /\ CellsOf(Ins(i).site.reads[k].tensor) \in Nat \ {0}
    BY <2>1, <1>2, MenuAssumption
  <2>3. CellsOf(Ins(i).site.reads[k].tensor) + Ins(i).site.reads[k].at
          <= Cardinality(Extent(v))
    BY <1>1 DEF ProgInv, ReadInv
  <2> QED
    BY <2>2, <2>3
<1>4. PICK a \in Int, b \in Int : Extent(v) = a..b
  <2>1. CASE v = 0
    <3>1. Cells \in Int /\ Cells + ArgCells - 1 \in Int
      BY PlacesAssumption
    <3> QED
      BY <2>1, <3>1 DEF Extent
  <2>2. CASE v # 0
    <3>1. v \in 1..Len(program)
      BY <2>2 DEF ProgInv
    <3> QED
      BY <3>1 DEF ProgInv, ExtentInv
  <2> QED
    BY <2>1, <2>2
<1>5. Cardinality(a..b) = IF a > b THEN 0 ELSE b - a + 1
  BY FS_Interval
<1>6. a <= b /\ size + at <= b - a + 1
  BY <1>3, <1>4, <1>5
<1>7. FirstCell(v) = a
  <2>1. a \in a..b /\ \A d \in a..b : a <= d
    BY <1>6
  <2>2. \A c \in a..b : (\A d \in a..b : c <= d) => c = a
    BY <2>1
  <2> QED
    BY <2>1, <2>2, <1>4 DEF FirstCell
<1>8. ReadRange(i, k) = (a + at)..(a + at + size - 1)
  BY <1>1, <1>3, <1>7 DEF ReadRange
<1>9. a + at \in ReadRange(i, k) /\ ReadRange(i, k) \subseteq a..b
  BY <1>6, <1>8
<1> QED
  BY <1>1, <1>4, <1>9

(* The instruction whose result a cell of the operand holds is the last to *)
(* have written that cell before the operand is read.                      *)
LEMMA LastWriter ==
  ASSUME ProgInv, NEW i \in 1..Len(program), NEW k \in Operands(i),
         NEW c \in ReadRange(i, k)
  PROVE  \E v \in 0..(i - 1), w \in 0..(i - 1) :
           /\ v = Ins(i).args[k] /\ w = Holds(v)[c] /\ w <= v
           /\ w # 0 => c \in Written(w)
           /\ \A j \in 1..(i - 1) : c \in Written(j) => j <= w
           /\ w # v => Updated(w)
<1>1. PICK v \in 0..(i - 1) : v = Ins(i).args[k] /\ c \in Extent(v)
  BY RangeInValue
<1>2. Len(program) \in Nat
  BY DEF ProgInv
<1>3. CASE v = 0
  <2>1. c \in Cells..(Cells + ArgCells - 1) /\ Holds(v)[c] = 0
    BY <1>1, <1>3 DEF Extent, Holds
  <2>2. \A j \in 1..(i - 1) : Written(j) \subseteq 0..(Cells - 1)
    BY <1>2 DEF ProgInv, ExtentInv
  <2>3. \A j \in 1..(i - 1) : c \notin Written(j)
    BY <2>1, <2>2, PlacesAssumption
  <2> QED
    BY <1>1, <1>3, <2>1, <2>3
<1>4. CASE v # 0
  <2>1. v \in 1..Len(program) /\ v \in 1..(i - 1)
    BY <1>2, <1>4
  <2>2. PICK w \in 1..v : /\ w = Holds(v)[c] /\ c \in Written(w)
                          /\ \A j \in 1..v : c \in Written(j) => j <= w
                          /\ w # v => Updated(w)
    BY <1>1, <2>1 DEF ProgInv, HoldsInv
  <2>3. w \in 1..(i - 1) /\ w <= v
    BY <2>1, <1>2
  <2>4. ASSUME NEW j \in 1..(i - 1), c \in Written(j) PROVE j <= w
    <3>1. ~(j \in (v + 1)..(i - 1))
      BY <1>1, <1>4, <2>4 DEF ProgInv, ReadInv
    <3>2. j \in 1..v
      BY <3>1, <2>1, <1>2
    <3> QED
      BY <3>2, <2>4, <2>2
  <2> QED
    BY <1>1, <1>4, <2>2, <2>3, <2>4
<1> QED
  BY <1>3, <1>4

(* The latest of some of the instructions before i.                        *)
LEMMA Greatest ==
  ASSUME NEW i \in Nat, NEW S \in SUBSET (1..(i - 1)), S # {}
  PROVE  \E j \in S : \A o \in S : o <= j
<1> DEFINE Less == OpToRel(<, Nat)
           T == {i - x : x \in S}
<1>1. T \subseteq Nat /\ T # {}
  OBVIOUS
<1>2. PICK t \in T : \A y \in T : <<y, t>> \notin Less
  <2>1. IsWellFoundedOn(Less, Nat)
    BY NatLessThanWellFounded
  <2> HIDE DEF Less, T
  <2> QED
    BY <1>1, <2>1, WFMin
<1>3. PICK j \in S : t = i - j
  OBVIOUS
<1>4. ASSUME NEW o \in S PROVE o <= j
  <2>1. i - o \in T /\ i - o \in Nat /\ t \in Nat /\ o \in Nat /\ j \in Nat
    BY <1>1
  <2>2. i - o < t => <<i - o, t>> \in Less
    BY <2>1 DEF OpToRel
  <2>3. ~(i - o < t)
    BY <1>2, <2>1, <2>2
  <2> HIDE DEF Less, T
  <2> QED
    BY <1>3, <2>1, <2>3
<1> QED
  BY <1>4

(* A host read writes nothing.                                             *)
LEMMA HostWritesNothing ==
  ASSUME ProgInv, NEW i \in 1..Len(program), Is(i, "host") PROVE Written(i) = {}
<1>1. Ins(i).site \in Menu[i] /\ i \in 1..Len(Menu) /\ Ins(i).place \in Nat
  BY MenuAssumption DEF ProgInv, InsType
<1>2. CellsOf(Ins(i).site.out) = 0
  BY <1>1, MenuAssumption DEF Is, Ins
<1> QED
  BY <1>1, <1>2 DEF Written

(* An operand declared packed reads its producer's cube.                   *)
LEMMA PackedInput ==
  ASSUME Declared, NEW i \in 1..Len(program), NEW k, k \in words[i].packed_inputs
  PROVE  k \in Operands(i) /\ PackedEdge(i, k)
<1>1. words[i] = DispatchLayout(i)
  BY DEF Declared
<1> QED
  BY <1>1 DEF DispatchLayout, AllDense

(* The cube an operand is read through is the last write to its cells, and *)
(* therefore what every cell of the operand holds: nothing of another      *)
(* command buffer and nothing of a host comes between.                     *)
LEMMA SourceIsLast ==
  ASSUME ProgInv, Declared, NEW i \in 1..Len(program), NEW k \in Operands(i),
         Source(i, k) # 0
  PROVE  /\ Source(i, k) \in 1..(i - 1) /\ Is(i, "dispatch") /\ PackedEdge(i, k)
         /\ Source(i, k) \in OnSameBuffer(i) /\ Is(Source(i, k), "dispatch")
         /\ \A c \in ReadRange(i, k) : Holds(Ins(i).args[k])[c] = Source(i, k)
<1> DEFINE over == {j \in OnSameBuffer(i) : Written(j) \cap ReadRange(i, k) # {}}
           s == Source(i, k)
<1>1. /\ Is(i, "dispatch") /\ s = Latest(i, k) /\ k \in words[i].packed_inputs
      /\ output_cube(s) /\ Written(s) = ReadRange(i, k)
  BY DEF Source, chainable_cube
<1>2. over # {} /\ over \subseteq 1..(i - 1)
  BY <1>1 DEF Latest, OnSameBuffer
<1>3. s \in over /\ \A o \in over : o <= s
  <2>1. Latest(i, k) = CHOOSE j \in over : \A o \in over : o <= j
    BY <1>2 DEF Latest
  <2>2. i \in Nat
    BY DEF ProgInv
  <2>3. \E j \in over : \A o \in over : o <= j
    BY <1>2, <2>2, Greatest
  <2> HIDE DEF over, s
  <2> QED
    BY <1>1, <2>1, <2>3
<1>4. PackedEdge(i, k)
  BY <1>1, PackedInput
<1>5. s \in 1..(i - 1) /\ s \in OnSameBuffer(i) /\ Is(s, "dispatch")
  BY <1>1, <1>2, <1>3 DEF output_cube
<1>6. ASSUME NEW c \in ReadRange(i, k) PROVE Holds(Ins(i).args[k])[c] = s
  <2>1. PICK v \in 0..(i - 1), w \in 0..(i - 1) :
          /\ v = Ins(i).args[k] /\ w = Holds(v)[c]
          /\ w # 0 => c \in Written(w)
          /\ \A j \in 1..(i - 1) : c \in Written(j) => j <= w
    BY LastWriter
  <2>2. s <= w
    BY <1>1, <1>5, <2>1
  <2>3. w \in 1..(i - 1) /\ w \in 1..Len(program) /\ s \in 1..w /\ w \in 1..i /\ c \in Written(w)
    BY <2>1, <2>2, <1>5 DEF ProgInv
  <2>4. ~Is(w, "host")
    BY <2>3, HostWritesNothing
  <2>5. Ins(w).batch = Ins(i).batch
    <3>1. Ins(s).batch = Ins(i).batch
      BY <1>5 DEF OnSameBuffer
    <3>2. Ins(s).batch <= Ins(w).batch
      BY <2>3 DEF ProgInv, BatchInv
    <3>3. Ins(w).batch <= Ins(i).batch
      BY <2>3 DEF ProgInv, BatchInv
    <3>4. Ins(w).batch \in Nat /\ Ins(i).batch \in Nat
      BY <2>3 DEF ProgInv, InsType
    <3> QED
      BY <3>1, <3>2, <3>3, <3>4
  <2>6. w \in over
    BY <2>3, <2>4, <2>5 DEF OnSameBuffer
  <2>7. w <= s
    BY <2>6, <1>3
  <2> QED
    BY <2>1, <2>2, <2>3, <2>7, <1>5
<1> QED
  BY <1>1, <1>4, <1>5, <1>6

(* It is the operand's own value: the pass declares a packed edge only to  *)
(* a dispatch, and a dispatch writes all of its result.                    *)
LEMMA SourceIsArgument ==
  ASSUME ProgInv, Declared, NEW i \in 1..Len(program), NEW k \in Operands(i),
         Source(i, k) # 0
  PROVE  Source(i, k) = Ins(i).args[k]
<1>1. PICK c : c \in ReadRange(i, k)
  BY RangeInValue
<1>2. PICK v \in 0..(i - 1), w \in 0..(i - 1) :
        /\ v = Ins(i).args[k] /\ w = Holds(v)[c] /\ w <= v
        /\ \A j \in 1..(i - 1) : c \in Written(j) => j <= w
  BY <1>1, LastWriter
<1>3. PackedEdge(i, k) /\ w = Source(i, k)
  BY <1>1, <1>2, SourceIsLast
<1>4. v # 0 /\ Is(v, "dispatch")
  BY <1>2, <1>3 DEF PackedEdge, DescribedOutput
<1>5. v \in 1..Len(program) /\ v \in 1..(i - 1)
  BY <1>4 DEF ProgInv
<1>6. Written(v) = Extent(v)
  BY <1>4, <1>5 DEF ProgInv, ExtentInv
<1>7. c \in Written(v)
  BY <1>1, <1>2, <1>6, RangeInValue
<1>8. v <= w
  BY <1>2, <1>5, <1>7
<1> QED
  BY <1>2, <1>3, <1>5, <1>8

LEMMA SourceType ==
  ASSUME ProgInv, Declared, NEW i \in 1..Len(program), NEW k \in Operands(i)
  PROVE  Source(i, k) \in 0..(i - 1)
<1>1. i \in Nat \ {0}
  BY DEF ProgInv
<1> QED
  BY <1>1, SourceIsLast

LEMMA OperandsType ==
  ASSUME ProgInv, NEW i \in 1..Len(program)
  PROVE  /\ Operands(i) \subseteq 1..2 /\ Operands(i) = 1..Len(Ins(i).site.reads)
         /\ Len(Ins(i).site.reads) \in Nat
<1>1. Ins(i).site \in Menu[i] /\ i \in 1..Len(Menu)
  BY MenuAssumption DEF ProgInv, InsType
<1>2. PICK m \in 0..2 : m = Len(Ins(i).site.reads)
  BY <1>1, MenuAssumption
<1>3. Operands(i) = 1..m
  BY <1>2 DEF Operands, Ins
<1>4. m \in Nat /\ 1..m \subseteq 1..2
  OBVIOUS
<1> QED
  BY <1>2, <1>3, <1>4, Zenon

(* Recording refuses no operand: what the pass declared is the geometry    *)
(* the recorder computes.                                                  *)
LEMMA NotRefused ==
  ASSUME ProgInv, Declared, NEW i \in 1..Len(program), NEW k \in Operands(i),
         Is(i, "dispatch")
  PROVE  ~ChainRefused(i, k)
<1> DEFINE consumer == GeometryOf(Ins(i).site.reads[k].kind, Ins(i).site.reads[k].tensor)
<1>1. CASE chainable_cube(i, k) # 0
  <2>1. Source(i, k) = chainable_cube(i, k)
    BY DEF Source
  <2>2. PackedEdge(i, k) /\ chainable_cube(i, k) = Ins(i).args[k]
    BY <1>1, <2>1, SourceIsLast, SourceIsArgument
  <2>3. chain_identity(output_geometry(chainable_cube(i, k)), consumer)
    BY <2>2 DEF PackedEdge, output_geometry
  <2>4. can_chain(consumer)
    BY <2>3 DEF chain_identity
  <2> QED
    BY <2>3, <2>4 DEF ChainRefused
<1>2. CASE chainable_cube(i, k) = 0
  <2>1. k \in words[i].packed_inputs => can_chain(consumer)
    BY PackedInput DEF PackedEdge, chain_identity
  <2> QED
    BY <1>2, <2>1 DEF ChainRefused
<1> QED
  BY <1>1, <1>2

(* An operand read through a cube is a use of the cube's value.            *)
LEMMA ChainedAreUses ==
  ASSUME ProgInv, Declared, OpsInv, NEW j \in 1..Len(program)
  PROVE  /\ Chained(j) \subseteq Uses(j)
         /\ IsFiniteSet(Chained(j)) /\ IsFiniteSet(Uses(j))
<1>1. Len(ops) \in Nat /\ Len(program) \in Nat /\ Len(ops) <= Len(program)
  BY DEF ProgInv, OpsInv
<1>2. Recorded \subseteq 1..Len(program)
  BY <1>1 DEF Recorded
<1>3. ASSUME NEW u \in Chained(j) PROVE u \in Uses(j)
  <2>1. /\ u \in (1..Len(program)) \X (1..2) /\ u[1] \in 1..Len(program)
        /\ u[2] \in Operands(u[1]) /\ Source(u[1], u[2]) = j
    BY <1>2 DEF Chained
  <2>2. Ins(u[1]).args[u[2]] = j
    BY <2>1, SourceIsArgument
  <2> QED
    BY <2>1, <2>2 DEF Uses
<1>4. IsFiniteSet((1..Len(program)) \X (1..2))
  <2>1. IsFiniteSet(1..Len(program)) /\ IsFiniteSet(1..2)
    <3>1. 1 \in Int /\ 2 \in Int /\ Len(program) \in Int
      BY <1>1
    <3> QED
      BY <3>1, FS_Interval
  <2> QED
    BY <2>1, FS_Product
<1>5. IsFiniteSet(Uses(j))
  <2>1. Uses(j) \in SUBSET ((1..Len(program)) \X (1..2))
    BY DEF Uses
  <2> QED
    BY <2>1, <1>4, FS_Subset
<1> QED
  BY <1>3, <1>5, FS_Subset
-----------------------------------------------------------------------------
(* Recording.                                                              *)

(* Adding some operands of a new instruction n to a set of operands.       *)
OperandsOf(n, K) == {<<n, k>> : k \in K}
LEMMA OperandsCount ==
  ASSUME NEW C, IsFiniteSet(C), NEW K, K \subseteq 1..2, NEW n,
         C \cap OperandsOf(n, K) = {}
  PROVE  Cardinality(C \cup OperandsOf(n, K)) = Cardinality(C) + Cardinality(K)
<1> DEFINE P == OperandsOf(n, K)
           f == [k \in K |-> <<n, k>>]
<1>1. IsFiniteSet(K)
  <2>1. 1 \in Int /\ 2 \in Int
    OBVIOUS
  <2>2. IsFiniteSet(1..2)
    BY <2>1, FS_Interval
  <2> QED
    BY <2>2, FS_Subset
<1>2. ExistsBijection(K, P)
  <2>1. /\ f \in [K -> P] /\ \A a, b \in K : f[a] = f[b] => a = b
        /\ \A p \in P : \E k \in K : f[k] = p
    BY DEF OperandsOf
  <2>2. f \in Bijection(K, P)
    BY <2>1 DEF Bijection, Injection, Surjection, IsInjective
  <2> QED
    BY <2>2 DEF ExistsBijection
<1>3. IsFiniteSet(P) /\ Cardinality(P) = Cardinality(K)
  BY <1>1, <1>2, FS_Bijection
<1>5. Cardinality(C \cup P) = Cardinality(C) + Cardinality(P) - Cardinality({})
  BY <1>3, FS_Union
<1>6. Cardinality(C) \in Nat /\ Cardinality(P) \in Nat /\ Cardinality({}) = 0
  BY <1>3, FS_CardinalityType, FS_EmptySet
<1> QED
  BY <1>3, <1>5, <1>6

(* What depends on the program and the declarations alone.                 *)
LEMMA Unmoved ==
  ASSUME program' = program, words' = words, NEW i, NEW k
  PROVE  /\ Source(i, k)' = Source(i, k) /\ note_dense_read(i, k)' = note_dense_read(i, k)
         /\ Written(i)' = Written(i) /\ Operands(i)' = Operands(i)
         /\ Is(i, "dispatch")' = Is(i, "dispatch") /\ Is(i, "host")' = Is(i, "host")
<1>1. /\ Operands(i)' = Operands(i) /\ \A j : Written(j)' = Written(j)
      /\ \A j, op : Is(j, op)' = Is(j, op)
  BY DEF Operands, Written, Ins, Is
<1>2. ReadRange(i, k)' = ReadRange(i, k)
  BY DEF ReadRange, FirstCell, Extent, Ins
<1>3. OnSameBuffer(i)' = OnSameBuffer(i)
  BY DEF OnSameBuffer, Ins, Is
<1>4. note_dense_read(i, k)' = note_dense_read(i, k)
  BY <1>1, <1>2, <1>3 DEF note_dense_read
<1>5. Latest(i, k)' = Latest(i, k)
  BY DEF Latest, OnSameBuffer, Written, ReadRange, FirstCell, Extent, Ins, Is
<1>6. \A j : output_cube(j)' = output_cube(j)
  BY DEF output_cube, output_geometry, Ins, Is
<1>7. chainable_cube(i, k)' = chainable_cube(i, k)
  <2>1. PICK j : j = Latest(i, k)
    OBVIOUS
  <2>2. output_cube(Latest(i, k))' = output_cube(j)
    BY <2>1, <1>5 DEF output_cube, output_geometry, Ins, Is
  <2>3. Written(Latest(i, k))' = Written(j)
    BY <2>1, <1>5 DEF Written, Ins
  <2> QED
    BY <2>1, <2>2, <2>3, <1>2, <1>5 DEF chainable_cube
<1>8. Source(i, k)' = Source(i, k)
  BY <1>1, <1>7 DEF Source
<1> QED
  BY <1>1, <1>4, <1>8

(* Recording an instruction adds its chained operands to their producers'  *)
(* tallies and marks the writers of the bytes it reads densely.            *)
LEMMA RecordStep ==
  ASSUME ProgInv, Declared, OpsInv, Record
  PROVE  /\ OpsInv' /\ status' = status /\ Len(ops') = Len(ops) + 1
         /\ \A j \in 1..Len(ops) :
              (\A k \in Operands(Len(ops) + 1) : /\ Source(Len(ops) + 1, k) # j
                                                 /\ j \notin note_dense_read(Len(ops) + 1, k))
              => /\ ops'[j].chained_readers = ops[j].chained_readers
                 /\ ops'[j].dense_read_seen <=> ops[j].dense_read_seen
<1> DEFINE n == Len(ops) + 1
           sources == [k \in Operands(n) |-> IF Is(n, "dispatch") THEN chainable_cube(n, k) ELSE 0]
           K(j) == {k \in Operands(n) : sources[k] = j}
           seen == IF Is(n, "host") THEN {}
                   ELSE UNION {note_dense_read(n, k) : k \in {k \in Operands(n) : sources[k] = 0}}
           G == [j \in 1..Len(ops) |-> [ops[j] EXCEPT !.chained_readers = @ + Cardinality(K(j)),
                                                      !.dense_read_seen = @ \/ j \in seen]]
<1>1. /\ Len(ops) \in Nat /\ n \in 1..Len(program) /\ n <= Len(program)
      /\ Recorded = 1..(n - 1) /\ ops \in Seq(Op)
  <2>1. Len(ops) \in Nat /\ ops \in Seq(Op) /\ Len(program) \in Nat
    BY DEF OpsInv, ProgInv
  <2>2. n <= Len(program)
    BY DEF Record
  <2> QED
    BY <2>1, <2>2 DEF Recorded
<1>2. status' = status /\ ops' = Append(G, RecordedOp(sources))
  <2>1. ~(Is(n, "dispatch") /\ \E k \in Operands(n) : ChainRefused(n, k))
    BY <1>1, NotRefused
  <2> QED
    BY <2>1 DEF Record
<1>3. program' = program /\ words' = words
  BY DEF Record
<1>4. sources = [k \in Operands(n) |-> Source(n, k)]
  BY DEF Source
<1>5. ASSUME NEW j PROVE K(j) = {k \in Operands(n) : Source(n, k) = j} /\ K(j) \in SUBSET (1..2)
  BY <1>1, <1>4, OperandsType
<1>6. \A j \in seen : \E k \in Operands(n) : Source(n, k) = 0 /\ j \in note_dense_read(n, k)
  BY <1>4
<1>7. ASSUME NEW j PROVE IsFiniteSet(K(j)) /\ Cardinality(K(j)) \in Nat
  <2>1. 1 \in Int /\ 2 \in Int
    OBVIOUS
  <2>2. IsFiniteSet(1..2)
    BY <2>1, FS_Interval
  <2> HIDE DEF K
  <2>3. IsFiniteSet(K(j))
    BY <2>2, <1>5, FS_Subset
  <2> QED
    BY <2>3, FS_CardinalityType
<1>8. RecordedOp(sources) \in Op
  <2>1. sources \in [1..Len(Ins(n).site.reads) -> Nat] /\ Len(Ins(n).site.reads) \in Nat
    <3>1. \A k \in Operands(n) : Source(n, k) \in Nat
      BY <1>1, SourceType
    <3> QED
      BY <3>1, <1>1, <1>4, OperandsType
  <2>2. sources \in UNION {[1..m -> Nat] : m \in Nat}
    BY <2>1
  <2> HIDE DEF sources
  <2> QED
    BY <2>2 DEF RecordedOp, Op
<1> HIDE DEF seen, sources, K
<1>9. \A j \in 1..Len(ops) : G[j] \in Op
  <2> SUFFICES ASSUME NEW j \in 1..Len(ops) PROVE G[j] \in Op
    OBVIOUS
  <2>1. ops[j] \in Op
    BY <1>1
  <2>2. ops[j].chained_readers + Cardinality(K(j)) \in Nat
    BY <2>1, <1>7 DEF Op
  <2>3. (ops[j].dense_read_seen \/ j \in seen) \in BOOLEAN
    OBVIOUS
  <2> QED
    BY <2>1, <2>2, <2>3 DEF Op
<1>10. G \in Seq(Op) /\ Len(G) = Len(ops)
  <2>1. G \in [1..Len(ops) -> Op]
    BY <1>9
  <2> HIDE DEF G
  <2> QED
    BY <2>1, <1>1
<1>11. /\ ops' \in Seq(Op) /\ Len(ops') = n
       /\ \A j \in 1..(n - 1) : ops'[j] = G[j]
       /\ ops'[n] = RecordedOp(sources)
  <2> HIDE DEF G
  <2> QED
    BY <1>1, <1>2, <1>8, <1>10
<1>12. Recorded' = 1..n
  BY <1>11 DEF Recorded
<1>13. /\ \A i, k : Source(i, k)' = Source(i, k) /\ note_dense_read(i, k)' = note_dense_read(i, k)
       /\ \A i : Operands(i)' = Operands(i)
  BY <1>3, Unmoved
<1>14. ASSUME NEW j PROVE Chained(j)' = Chained(j) \cup {<<n, k>> : k \in K(j)}
  <2>1. Chained(j)' =
          {u \in (1..n) \X (1..2) : u[2] \in Operands(u[1]) /\ Source(u[1], u[2]) = j}
    <3>1. ASSUME NEW u \in (1..n) \X (1..2)
          PROVE  /\ Operands(u[1])' = Operands(u[1])
                 /\ Source(u[1], u[2])' = Source(u[1], u[2])
      BY <1>13
    <3> QED
      BY <1>12, <3>1 DEF Chained
  <2>2. \A k \in K(j) : k \in Operands(n) /\ k \in 1..2 /\ Source(n, k) = j
    BY <1>5
  <2>3. \A k \in Operands(n) : Source(n, k) = j => k \in K(j)
    BY <1>5
  <2>4. Chained(j) =
          {u \in (1..(n - 1)) \X (1..2) : u[2] \in Operands(u[1]) /\ Source(u[1], u[2]) = j}
    BY <1>1 DEF Chained
  <2>5. 1..n = 1..(n - 1) \cup {n}
    BY <1>1
  <2>6. ASSUME NEW u \in Chained(j)' PROVE u \in Chained(j) \cup {<<n, k>> : k \in K(j)}
    <3>1. /\ u \in (1..n) \X (1..2) /\ u = <<u[1], u[2]>>
          /\ u[2] \in Operands(u[1]) /\ Source(u[1], u[2]) = j
      BY <2>1
    <3>2. CASE u[1] = n
      BY <3>1, <3>2, <2>3
    <3>3. CASE u[1] # n
      <4>1. u \in (1..(n - 1)) \X (1..2)
        BY <3>1, <3>3, <2>5
      <4> QED
        BY <3>1, <4>1, <2>4
    <3> QED
      BY <3>2, <3>3
  <2>7. ASSUME NEW u \in Chained(j) PROVE u \in Chained(j)'
    BY <2>1, <2>4, <2>5
  <2>8. ASSUME NEW k \in K(j) PROVE <<n, k>> \in Chained(j)'
    BY <2>1, <2>2, <2>5
  <2> QED
    BY <2>6, <2>7, <2>8
<1>15. ASSUME NEW i \in 1..n
       PROVE  /\ ops'[i].sources = [k \in Operands(i) |-> Source(i, k)]
              /\ ops'[i].chained_readers = Cardinality(Chained(i)')
              /\ ops'[i].dense_read_seen =>
                   \E u \in (1..n) \X (1..2) :
                     /\ u[2] \in Operands(u[1]) /\ Source(u[1], u[2]) = 0
                     /\ i \in note_dense_read(u[1], u[2])
  <2>1. CASE i = n
    <3>5. ops'[i] = RecordedOp(sources)
      BY <2>1, <1>11
    <3>1. ops'[i].sources = sources /\ ops'[i].chained_readers = 0
      BY <3>5 DEF RecordedOp
    <3>4. ~ops'[i].dense_read_seen
      <4>1. RecordedOp(sources).dense_read_seen = FALSE
        BY DEF RecordedOp
      <4> QED
        BY <3>5, <4>1
    <3>2. ASSUME NEW u \in Chained(i)' PROVE FALSE
      <4>1. u \in Chained(i) \/ \E k \in K(i) : u = <<n, k>>
        BY <1>14
      <4>2. u[1] \in 1..n /\ u[2] \in Operands(u[1]) /\ Source(u[1], u[2]) = n
        BY <4>1, <2>1, <1>1, <1>5 DEF Chained
      <4>3. u[1] \in 1..Len(program)
        BY <4>2, <1>1 DEF ProgInv
      <4>4. Source(u[1], u[2]) \in 0..(u[1] - 1)
        BY <4>2, <4>3, SourceType
      <4> QED
        BY <4>2, <4>4, <1>1
    <3>3. Chained(i)' = {}
      BY <3>2
    <3> QED
      BY <2>1, <3>1, <3>3, <3>4, <1>4, FS_EmptySet
  <2>2. CASE i # n
    <3>1. i \in 1..(n - 1) /\ i \in Recorded /\ i \in 1..Len(ops) /\ i \in 1..Len(program)
      BY <2>2, <1>1 DEF ProgInv
    <3>2. /\ ops[i].sources = [k \in Operands(i) |-> Source(i, k)]
          /\ ops[i].chained_readers = Cardinality(Chained(i))
          /\ ops[i].dense_read_seen =>
               \E u \in (1..(n - 1)) \X (1..2) :
                 /\ u[2] \in Operands(u[1]) /\ Source(u[1], u[2]) = 0
                 /\ i \in note_dense_read(u[1], u[2])
      BY <3>1, <1>1 DEF OpsInv
    <3>3. ops[i] \in Op
      BY <3>1, <1>1
    <3>4. /\ ops'[i].sources = ops[i].sources
          /\ ops'[i].chained_readers = ops[i].chained_readers + Cardinality(K(i))
      BY <3>1, <3>3, <1>11 DEF Op
    <3>5. ops'[i].dense_read_seen = (ops[i].dense_read_seen \/ i \in seen)
      BY <3>1, <3>3, <1>11 DEF Op
    <3>6. Cardinality(Chained(i)') = Cardinality(Chained(i)) + Cardinality(K(i))
      <4>1. IsFiniteSet(Chained(i))
        BY <3>1, ChainedAreUses
      <4>2. \A u \in Chained(i) : u[1] # n
        BY <1>1 DEF Chained
      <4>3. K(i) \in SUBSET (1..2) /\ Chained(i)' = Chained(i) \cup {<<n, k>> : k \in K(i)}
        BY <1>5, <1>14
      <4>4. /\ Chained(i)' = Chained(i) \cup OperandsOf(n, K(i))
            /\ Chained(i) \cap OperandsOf(n, K(i)) = {} /\ K(i) \subseteq 1..2
        BY <4>2, <4>3 DEF OperandsOf
      <4> HIDE DEF n, G
      <4>5. Cardinality(Chained(i) \cup OperandsOf(n, K(i)))
              = Cardinality(Chained(i)) + Cardinality(K(i))
        BY <4>1, <4>4, OperandsCount
      <4> QED
        BY <4>4, <4>5
    <3>7. ops'[i].dense_read_seen =>
            \E u \in (1..n) \X (1..2) :
              /\ u[2] \in Operands(u[1]) /\ Source(u[1], u[2]) = 0
              /\ i \in note_dense_read(u[1], u[2])
      <4>1. CASE ops[i].dense_read_seen
        <5>1. (1..(n - 1)) \X (1..2) \subseteq (1..n) \X (1..2)
          BY <1>1
        <5> QED
          BY <4>1, <5>1, <3>2
      <4>2. CASE i \in seen
        <5>1. PICK k \in Operands(n) : Source(n, k) = 0 /\ i \in note_dense_read(n, k)
          BY <4>2, <1>6
        <5>2. <<n, k>> \in (1..n) \X (1..2)
          BY <1>1, OperandsType
        <5> QED
          BY <5>1, <5>2
      <4> QED
        BY <3>5, <4>1, <4>2
    <3> QED
      BY <3>2, <3>4, <3>6, <3>7
  <2> QED
    BY <2>1, <2>2
<1>16. OpsInv'
  <2>1. Len(ops') <= Len(program')
    <3>1. Len(program') = Len(program) /\ n <= Len(program) /\ Len(ops') = n
      BY <1>1, <1>3, <1>11
    <3> QED
      BY <3>1
  <2>2. ASSUME NEW i \in 1..n
        PROVE  /\ ops'[i].sources = [k \in Operands(i)' |-> Source(i, k)']
               /\ ops'[i].chained_readers = Cardinality(Chained(i)')
               /\ ops'[i].dense_read_seen =>
                    \E u \in (1..n) \X (1..2) :
                      /\ u[2] \in Operands(u[1])' /\ Source(u[1], u[2])' = 0
                      /\ i \in note_dense_read(u[1], u[2])'
    BY <1>13, <1>15
  <2> QED
    BY <1>11, <1>12, <2>1, <2>2 DEF OpsInv
<1>17. ASSUME NEW j \in 1..Len(ops),
              \A k \in Operands(n) : Source(n, k) # j /\ j \notin note_dense_read(n, k)
       PROVE  /\ ops'[j].chained_readers = ops[j].chained_readers
              /\ ops'[j].dense_read_seen <=> ops[j].dense_read_seen
  <2>1. j \in 1..(n - 1) /\ ops[j] \in Op
    BY <1>1
  <2>2. /\ ops'[j].chained_readers = ops[j].chained_readers + Cardinality(K(j))
        /\ ops[j].chained_readers \in Nat
    BY <2>1, <1>11 DEF Op
  <2>3. ops'[j].dense_read_seen = (ops[j].dense_read_seen \/ j \in seen)
    BY <2>1, <1>11 DEF Op
  <2>4. K(j) = {} /\ j \notin seen
    BY <1>5, <1>6, <1>17
  <2>5. Cardinality(K(j)) = 0
    BY <2>4, FS_EmptySet
  <2>6. ops'[j].chained_readers = ops[j].chained_readers
    <3> HIDE DEF G, n
    <3> QED
      BY <2>2, <2>5
  <2>7. ops'[j].dense_read_seen <=> ops[j].dense_read_seen
    BY <2>3, <2>4
  <2> QED
    BY <2>6, <2>7
<1> QED
  BY <1>2, <1>11, <1>16, <1>17

-----------------------------------------------------------------------------
(* Execution.                                                              *)

(* What an instruction writes is settled once its command buffer is        *)
(* submitted: nobody recorded later reads through it or marks it.          *)
LEMMA WritesSettled ==
  ASSUME ProgInv, Declared, OpsInv, Record, NEW j \in 1..Len(ops), Submitted(j)
  PROVE  Writes(j)' = Writes(j)
<1> DEFINE n == Len(ops) + 1
<1>1. Len(ops) \in Nat /\ n \in 1..Len(program)
  <2>1. Len(ops) \in Nat /\ Len(program) \in Nat
    BY DEF OpsInv, ProgInv
  <2>2. n <= Len(program)
    BY DEF Record
  <2> QED
    BY <2>1, <2>2
<1>2. program' = program /\ words' = words
  BY DEF Record
<1>3. Ins(n).batch # Ins(j).batch
  BY <1>1 DEF Submitted
<1>4. j \notin OnSameBuffer(n)
  BY <1>3 DEF OnSameBuffer
<1>5. \A k \in Operands(n) : Source(n, k) # j /\ j \notin note_dense_read(n, k)
  <2> SUFFICES ASSUME NEW k \in Operands(n)
               PROVE  Source(n, k) # j /\ j \notin note_dense_read(n, k)
    OBVIOUS
  <2>1. Source(n, k) # 0 => Source(n, k) \in OnSameBuffer(n)
    BY <1>1, SourceIsLast
  <2>2. j # 0
    OBVIOUS
  <2> QED
    BY <1>4, <2>1, <2>2 DEF note_dense_read
<1>6. /\ ops'[j].chained_readers = ops[j].chained_readers
      /\ ops'[j].dense_read_seen <=> ops[j].dense_read_seen
  BY <1>5, RecordStep
<1>7. compaction_elidable(j)' <=> compaction_elidable(j)
  BY <1>2, <1>6 DEF compaction_elidable
<1> QED
  BY <1>2, <1>7 DEF Writes, Is

(* A skipped dense write has no reader but the ones that chain.            *)
LEMMA ElidedReaders ==
  ASSUME ProgInv, Declared, OpsInv, NEW j \in 1..Len(ops), compaction_elidable(j)
  PROVE  ~Updated(j) /\ Uses(j) = Chained(j)
<1>1. j \in 1..Len(program)
  BY DEF OpsInv, ProgInv
<1>2. words[j] = DispatchLayout(j) /\ words[j].packed_readers > 0
  BY <1>1 DEF Declared, compaction_elidable
<1>3. words[j].packed_readers = packed_readers(j)
  <2>1. AllDense.packed_readers = 0 /\ ~(0 > 0)
    BY DEF AllDense
  <2>2. Is(j, "dispatch") /\ Ins(j).site.declares
    BY <1>2, <2>1 DEF DispatchLayout
  <2> QED
    BY <1>2, <2>2 DEF DispatchLayout
<1>4. ~Updated(j) /\ packed_readers(j) = Cardinality(Uses(j))
  <2>1. packed_readers(j) # 0
    BY <1>2, <1>3
  <2> QED
    BY <2>1 DEF packed_readers
<1>5. Cardinality(Chained(j)) = Cardinality(Uses(j))
  <2>1. ops[j].chained_readers = Cardinality(Chained(j))
    BY DEF OpsInv, Recorded
  <2> QED
    BY <2>1, <1>3, <1>4 DEF compaction_elidable
<1>6. Chained(j) \subseteq Uses(j) /\ IsFiniteSet(Uses(j))
  BY <1>1, ChainedAreUses
<1>7. Uses(j) = Chained(j)
  BY <1>5, <1>6, FS_Subset
<1> QED
  BY <1>4, <1>7

(* The operands of the next instruction to execute hold their values.      *)
LEMMA OperandHolds ==
  ASSUME ProgInv, Declared, OpsInv, MemInv, NEW i, i = executed + 1, i <= Len(ops),
         NEW k \in Operands(i)
  PROVE  HoldsValue(i, k)
<1>1. /\ Len(ops) \in Nat /\ Len(program) \in Nat /\ Len(ops) <= Len(program)
      /\ executed \in Nat /\ i \in 1..Len(ops) /\ i \in 1..Len(program)
  BY DEF ProgInv, OpsInv, MemInv
<1>2. ops[i].sources[k] = Source(i, k)
  <2>1. ops[i].sources = [l \in Operands(i) |-> Source(i, l)]
    BY <1>1 DEF OpsInv, Recorded
  <2> QED
    BY <2>1
<1>3. ASSUME NEW c \in ReadRange(i, k), Source(i, k) = 0
      PROVE  Holds(Ins(i).args[k])[c] = mem[c]
  <2>1. PICK v \in 0..(i - 1), w \in 0..(i - 1) :
          /\ v = Ins(i).args[k] /\ w = Holds(v)[c]
          /\ w # 0 => c \in Written(w)
          /\ \A j \in 1..(i - 1) : c \in Written(j) => j <= w
          /\ w # v => Updated(w)
    BY <1>1, LastWriter
  <2>2. c \in DOMAIN mem
    <3>1. c \in Extent(v)
      BY <1>1, <2>1, RangeInValue
    <3>2. CASE v = 0
      <4>1. c \in Cells..(Cells + ArgCells - 1)
        BY <3>1, <3>2 DEF Extent
      <4> QED
        BY <4>1, PlacesAssumption DEF MemInv
    <3>3. CASE v # 0
      <4>1. v \in 1..Len(program)
        BY <3>3, <1>1
      <4>2. c \in 0..(Cells - 1)
        BY <3>1, <4>1 DEF ProgInv, ExtentInv
      <4> QED
        BY <4>2, PlacesAssumption DEF MemInv
    <3> QED
      BY <3>2, <3>3
  <2>3. PICK m \in 0..executed :
          /\ m = mem[c]
          /\ m # 0 => c \in Written(m)
          /\ \A j \in 1..executed : (c \in Written(j) /\ Writes(j)) => j <= m
    BY <2>2 DEF MemInv
  <2>4. m <= w
    BY <2>1, <2>3, <1>1
  <2>5. CASE w = 0
    BY <2>1, <2>3, <2>4, <2>5
  <2>6. CASE w # 0 /\ Writes(w)
    <3>1. w \in 1..executed
      BY <2>6, <1>1
    <3>2. w <= m
      BY <3>1, <2>1, <2>3, <2>6
    <3> QED
      BY <2>1, <2>3, <2>4, <3>2
  <2>7. CASE w # 0 /\ ~Writes(w)
    <3>1. w \in 1..Len(ops) /\ w \in 1..Len(program)
      BY <2>7, <1>1
    <3>2. ~Is(w, "host")
      BY <2>1, <2>7, <3>1, HostWritesNothing
    <3>3. compaction_elidable(w)
      BY <2>7, <3>2 DEF Writes
    <3>4. ~Updated(w) /\ Uses(w) = Chained(w)
      BY <3>1, <3>3, ElidedReaders
    <3>5. <<i, k>> \in Uses(w)
      <4>1. Ins(i).args[k] = w /\ k \in 1..2
        BY <2>1, <3>4, <1>1, OperandsType
      <4> QED
        BY <4>1, <1>1 DEF Uses
    <3>6. Source(i, k) = w
      BY <3>4, <3>5 DEF Chained
    <3> QED
      BY <3>6, <2>7, <1>3
  <2> QED
    BY <2>5, <2>6, <2>7
<1>4. ASSUME NEW c \in ReadRange(i, k), Source(i, k) # 0
      PROVE  Holds(Ins(i).args[k])[c] = Source(i, k)
  BY <1>1, <1>4, SourceIsLast
<1> QED
  BY <1>2, <1>3, <1>4 DEF HoldsValue

(* Executing an instruction leaves its write, unless it is skipped.        *)
LEMMA ExecuteStep ==
  ASSUME ProgInv, Declared, OpsInv, MemInv, stray = {}, Execute
  PROVE  MemInv' /\ stray' = {}
<1> DEFINE i == executed + 1
<1>1. /\ program' = program /\ words' = words /\ ops' = ops /\ executed' = i
      /\ i <= Len(ops) /\ Submitted(i)
      /\ mem' = [c \in DOMAIN mem |-> IF Writes(i) /\ c \in Written(i) THEN i ELSE mem[c]]
      /\ stray' = stray \cup {<<i, k>> : k \in {k \in Operands(i) : ~HoldsValue(i, k)}}
  BY DEF Execute, Writes
<1>2. executed \in Nat /\ Len(ops) \in Nat /\ i \in 1..Len(ops)
  BY <1>1 DEF OpsInv, MemInv
<1>3. stray' = {}
  <2>1. \A k \in Operands(i) : HoldsValue(i, k)
    BY <1>1, OperandHolds
  <2> QED
    BY <1>1, <2>1
<1>4. \A j : Written(j)' = Written(j) /\ Writes(j)' = Writes(j) /\ Submitted(j)' = Submitted(j)
  BY <1>1 DEF Written, Writes, compaction_elidable, Submitted, Ins, Is
<1>5. executed' \in 0..Len(ops') /\ \A j \in 1..executed' : Submitted(j)'
  <2>1. \A j \in 1..i : j \in 1..executed \/ j = i
    BY <1>2
  <2>2. \A j \in 1..i : Submitted(j)
    BY <1>1, <2>1 DEF MemInv
  <2> QED
    BY <1>1, <1>2, <1>4, <2>2
<1>6. DOMAIN mem' = DOMAIN mem
  BY <1>1
<1>7. ASSUME NEW c \in DOMAIN mem
      PROVE  \E m \in 0..i : /\ m = mem'[c]
                             /\ m # 0 => c \in Written(m)
                             /\ \A j \in 1..i : (c \in Written(j) /\ Writes(j)) => j <= m
  <2>1. PICK m \in 0..executed :
          /\ m = mem[c]
          /\ m # 0 => c \in Written(m)
          /\ \A j \in 1..executed : (c \in Written(j) /\ Writes(j)) => j <= m
    BY DEF MemInv
  <2>2. CASE Writes(i) /\ c \in Written(i)
    <3>1. mem'[c] = i
      BY <2>2, <1>1
    <3> QED
      BY <2>2, <3>1, <1>2
  <2>3. CASE ~(Writes(i) /\ c \in Written(i))
    <3>1. mem'[c] = m
      BY <2>1, <2>3, <1>1
    <3>2. m \in 0..i
      BY <1>2
    <3>3. ASSUME NEW j \in 1..i, c \in Written(j), Writes(j) PROVE j <= m
      <4>1. j # i
        BY <2>3, <3>3
      <4>2. j \in 1..executed
        BY <4>1, <1>2
      <4> QED
        BY <4>2, <2>1, <3>3
    <3> QED
      BY <3>1, <3>2, <3>3, <2>1
  <2> QED
    BY <2>2, <2>3
<1>8. ASSUME NEW c \in DOMAIN mem
      PROVE  /\ mem'[c] \in 0..executed'
             /\ mem'[c] # 0 => c \in Written(mem[c])'
             /\ \A j \in 1..executed' : (c \in Written(j)' /\ Writes(j)') => j <= mem'[c]
  <2>1. PICK m \in 0..i : /\ m = mem'[c]
                          /\ m # 0 => c \in Written(m)
                          /\ \A j \in 1..i : (c \in Written(j) /\ Writes(j)) => j <= m
    BY <1>7
  <2>2. Written(mem[c])' = Written(m)
    BY <2>1, <1>1 DEF Written, Ins
  <2> QED
    BY <2>1, <2>2, <1>1, <1>4
<1> QED
  BY <1>3, <1>5, <1>6, <1>8 DEF MemInv
-----------------------------------------------------------------------------
(* The inductive invariant.                                                *)

LEMMA Initial == Init => IInv
<1> SUFFICES ASSUME Init PROVE IInv
  OBVIOUS
<1>1. /\ program = <<>> /\ ops = <<>> /\ executed = 0 /\ stray = {} /\ status = "compiling"
      /\ mem = [c \in 0..(Cells + ArgCells - 1) |-> 0]
  BY DEF Init
<1>2. ProgInv
  BY <1>1 DEF ProgInv
<1>3. OpsInv
  BY <1>1 DEF OpsInv, Recorded
<1>4. MemInv
  BY <1>1 DEF MemInv
<1>5. StatusInv
  BY <1>1 DEF StatusInv
<1> QED
  BY <1>1, <1>2, <1>3, <1>4, <1>5 DEF IInv

LEMMA LayoutUnmoved ==
  ASSUME program' = program, NEW j PROVE DispatchLayout(j)' = DispatchLayout(j)
BY DEF DispatchLayout, PackedEdge, DescribedOutput, packed_readers, Uses, Updated, Operands, Ins, Is

LEMMA OpsUnmoved ==
  ASSUME program' = program, words' = words, ops' = ops, OpsInv PROVE OpsInv'
<1>1. \A a, k : /\ Source(a, k)' = Source(a, k) /\ Operands(a)' = Operands(a)
                /\ note_dense_read(a, k)' = note_dense_read(a, k)
  BY Unmoved
<1>2. ASSUME NEW j PROVE Chained(j)' = Chained(j)
  <2>1. Recorded' = Recorded
    BY DEF Recorded
  <2>2. \A u : Operands(u[1])' = Operands(u[1]) /\ Source(u[1], u[2])' = Source(u[1], u[2])
    BY <1>1
  <2> QED
    BY <2>1, <2>2 DEF Chained
<1> QED
  BY <1>1, <1>2 DEF OpsInv, Recorded

LEMMA Inductive == IInv /\ [Next]_vars => IInv'
<1> SUFFICES ASSUME IInv, [Next]_vars PROVE IInv'
  OBVIOUS
<1>1. ProgInv /\ OpsInv /\ MemInv /\ StatusInv /\ stray = {} /\ ProgInv'
  BY ProgStep DEF IInv
<1>2. CASE status = "compiling" /\ (Compile \/ Assign)
  <2>1. /\ ops = <<>> /\ executed = 0
        /\ ops' = ops /\ executed' = executed /\ mem' = mem /\ stray' = stray
    <3>1. ops = <<>> /\ executed = 0
      BY <1>1, <1>2 DEF StatusInv
    <3>2. CASE Compile
      <4>1. PICK site, args, place, base, batch : Emittable(site, args, place, base, batch)
        BY <1>1, <3>2, Compiled
      <4> QED
        BY <3>1, <4>1 DEF Emittable, Emit
    <3>3. CASE Assign
      BY <3>1, <3>3 DEF Assign
    <3> QED
      BY <1>2, <3>2, <3>3
  <2>2. OpsInv'
    <3>1. Len(program') \in Nat /\ Len(ops') = 0 /\ ops' \in Seq(Op)
      BY <1>1, <2>1 DEF ProgInv
    <3> QED
      BY <3>1 DEF OpsInv, Recorded
  <2>3. MemInv'
    <3>1. executed' = 0 /\ DOMAIN mem' = 0..(Cells + ArgCells - 1) /\ Len(ops') = 0
      BY <1>1, <2>1 DEF MemInv
    <3>2. \A c \in DOMAIN mem' : mem'[c] = 0
      BY <1>1, <2>1 DEF MemInv
    <3> QED
      BY <3>1, <3>2 DEF MemInv
  <2>4. StatusInv'
    <3>1. CASE Compile
      BY <1>2, <3>1, <2>1 DEF Compile, Emit, StatusInv
    <3>2. CASE Assign
      <4>1. status' = "ok" /\ program' = program /\ words' = [j \in 1..Len(program) |-> DispatchLayout(j)]
        BY <3>2 DEF Assign
      <4>2. \A j : DispatchLayout(j)' = DispatchLayout(j)
        BY <4>1, LayoutUnmoved
      <4> QED
        BY <4>1, <4>2 DEF StatusInv, Declared
    <3> QED
      BY <1>2, <3>1, <3>2
  <2> QED
    BY <1>1, <2>1, <2>2, <2>3, <2>4 DEF IInv
<1>3. ASSUME status = "ok", program' = program, words' = words PROVE Declared /\ Declared'
  <2>1. Declared
    BY <1>1, <1>3 DEF StatusInv
  <2>2. \A j : DispatchLayout(j)' = DispatchLayout(j)
    BY <1>3, LayoutUnmoved
  <2> QED
    BY <1>3, <2>1, <2>2 DEF Declared
<1>4. CASE Record
  <2>1. /\ status = "ok" /\ program' = program /\ words' = words /\ executed' = executed
        /\ mem' = mem /\ stray' = stray
    BY <1>4 DEF Record
  <2>2. Declared /\ Declared'
    BY <2>1, <1>3
  <2>3. OpsInv' /\ status' = status /\ Len(ops') = Len(ops) + 1
    BY <1>1, <1>4, <2>2, RecordStep
  <2>4. \A j \in 1..executed : j \in 1..Len(ops) /\ Submitted(j)
    BY <1>1 DEF MemInv, OpsInv
  <2>5. \A j \in 1..executed : Writes(j)' = Writes(j)
    BY <1>1, <1>4, <2>2, <2>4, WritesSettled
  <2>6. \A j \in 1..executed : Submitted(j)'
    BY <1>1, <2>1, <2>3, <2>4 DEF Submitted, Ins, OpsInv
  <2>7. \A j : Written(j)' = Written(j)
    BY <2>1 DEF Written, Ins
  <2>8. MemInv'
    <3>1. executed' \in 0..Len(ops')
      BY <1>1, <2>1, <2>3 DEF MemInv, OpsInv
    <3>2. ASSUME NEW c \in DOMAIN mem
          PROVE  /\ mem[c] \in 0..executed
                 /\ mem[c] # 0 => c \in Written(mem[c])'
                 /\ \A j \in 1..executed : (c \in Written(j)' /\ Writes(j)') => j <= mem[c]
      <4>1. Written(mem[c])' = Written(mem[c])
        BY <2>1 DEF Written, Ins
      <4> QED
        BY <1>1, <2>5, <2>7, <4>1 DEF MemInv
    <3>3. DOMAIN mem = 0..(Cells + ArgCells - 1)
      BY <1>1 DEF MemInv
    <3> QED
      BY <2>1, <2>6, <3>1, <3>2, <3>3 DEF MemInv
  <2>9. StatusInv'
    BY <2>1, <2>2, <2>3 DEF StatusInv
  <2> QED
    BY <1>1, <2>1, <2>3, <2>8, <2>9 DEF IInv
<1>5. CASE Execute
  <2>1. /\ status = "ok" /\ status' = status /\ program' = program /\ words' = words /\ ops' = ops
    BY <1>5 DEF Execute
  <2>2. Declared /\ Declared'
    BY <2>1, <1>3
  <2>3. MemInv' /\ stray' = {}
    BY <1>1, <1>5, <2>2, ExecuteStep
  <2>4. OpsInv'
    BY <1>1, <2>1, OpsUnmoved
  <2>5. StatusInv'
    BY <2>1, <2>2 DEF StatusInv
  <2> QED
    BY <1>1, <2>3, <2>4, <2>5 DEF IInv
<1>6. CASE UNCHANGED vars
  <2>1. /\ program' = program /\ words' = words /\ ops' = ops /\ executed' = executed
        /\ mem' = mem /\ stray' = stray /\ status' = status
    BY <1>6 DEF vars
  <2>2. OpsInv'
    BY <1>1, <2>1, OpsUnmoved
  <2>3. MemInv'
    BY <1>1, <2>1 DEF MemInv, Submitted, Writes, Written, compaction_elidable, Ins, Is
  <2>4. StatusInv'
    BY <1>1, <1>3, <2>1 DEF StatusInv
  <2> QED
    BY <1>1, <2>1, <2>2, <2>3, <2>4 DEF IInv
<1> QED
  <2>1. Compile => status = "compiling"
    BY DEF Compile
  <2>2. Assign => status = "compiling"
    BY DEF Assign
  <2> QED
    BY <1>2, <1>4, <1>5, <1>6, <2>1, <2>2 DEF Next

LEMMA AllChained == IInv => ElidedWhenAllChained
<1> SUFFICES ASSUME IInv, NEW i \in 1..executed,
                    Is(i, "dispatch"), Ins(i).site.declares, ~Updated(i),
                    NEW readers,
                    readers = {u \in (1..Len(ops)) \X (1..2) :
                                 u[2] \in Operands(u[1]) /\ ops[u[1]].sources[u[2]] = i},
                    Uses(i) # {}, Uses(i) = readers,
                    \A u \in (1..Len(program)) \X (1..2) :
                      (u[2] \in Operands(u[1]) /\ u[1] > i /\ u \notin readers)
                        => Disjoint(ReadRange(u[1], u[2]), Written(i))
             PROVE  compaction_elidable(i)
  BY DEF ElidedWhenAllChained
<1>1. ProgInv /\ OpsInv /\ MemInv /\ StatusInv
  BY DEF IInv
<1>2. /\ Len(ops) \in Nat /\ Len(program) \in Nat /\ executed \in Nat
      /\ Len(ops) <= Len(program) /\ executed <= Len(ops)
      /\ i \in 1..Len(ops) /\ i \in 1..Len(program)
  BY <1>1 DEF ProgInv, OpsInv, MemInv
<1>3. Declared
  <2>1. status # "compiling"
    <3>1. executed # 0
      BY <1>2
    <3> QED
      BY <1>1, <3>1 DEF StatusInv
  <2> QED
    BY <1>1, <2>1 DEF StatusInv
<1>4. ASSUME NEW u \in (1..Len(ops)) \X (1..2), u[2] \in Operands(u[1])
      PROVE  /\ ops[u[1]].sources[u[2]] = Source(u[1], u[2])
             /\ u[1] \in 1..Len(program) /\ u \in (1..Len(program)) \X (1..2)
  <2>1. u[1] \in 1..Len(ops) /\ u[1] \in 1..Len(program) /\ u \in (1..Len(program)) \X (1..2)
    BY <1>2
  <2>2. ops[u[1]].sources = [k \in Operands(u[1]) |-> Source(u[1], k)]
    BY <1>1, <2>1 DEF OpsInv, Recorded
  <2> QED
    BY <1>4, <2>1, <2>2
<1>5. readers = Chained(i)
  BY <1>4 DEF Chained, Recorded
<1>6. \A u \in Uses(i) : PackedEdge(u[1], u[2]) /\ DescribedOutput(i)
  <2> SUFFICES ASSUME NEW u \in Uses(i) PROVE PackedEdge(u[1], u[2]) /\ DescribedOutput(i)
    OBVIOUS
  <2>1. /\ u[1] \in 1..Len(program) /\ u[2] \in Operands(u[1])
        /\ Ins(u[1]).args[u[2]] = i /\ Source(u[1], u[2]) = i
    BY <1>5 DEF Uses, Chained
  <2>2. PackedEdge(u[1], u[2])
    BY <1>1, <1>2, <1>3, <2>1, SourceIsLast
  <2> QED
    BY <2>1, <2>2 DEF PackedEdge
<1>7. words[i].packed_readers = Cardinality(Uses(i))
  <2>1. packed_readers(i) = Cardinality(Uses(i))
    BY <1>6 DEF packed_readers
  <2>2. words[i] = DispatchLayout(i)
    BY <1>2, <1>3 DEF Declared
  <2> QED
    BY <2>1, <2>2 DEF DispatchLayout
<1>8. words[i].packed_readers > 0
  <2>1. IsFiniteSet(Uses(i))
    BY <1>1, <1>2, <1>3, ChainedAreUses
  <2>2. Cardinality(Uses(i)) \in Nat /\ Cardinality(Uses(i)) # 0
    BY <2>1, FS_CardinalityType, FS_EmptySet
  <2> QED
    BY <1>7, <2>2
<1>9. ops[i].chained_readers = words[i].packed_readers
  <2>1. ops[i].chained_readers = Cardinality(Chained(i))
    BY <1>1, <1>2 DEF OpsInv, Recorded
  <2> QED
    BY <1>5, <1>7, <2>1
<1>10. ASSUME ops[i].dense_read_seen PROVE FALSE
  <2>1. PICK u \in (1..Len(ops)) \X (1..2) :
          /\ u[2] \in Operands(u[1]) /\ Source(u[1], u[2]) = 0
          /\ i \in note_dense_read(u[1], u[2])
    BY <1>1, <1>2, <1>10 DEF OpsInv, Recorded
  <2>2. u[1] \in 1..Len(program) /\ u \in (1..Len(program)) \X (1..2)
    BY <1>4, <2>1
  <2>3. u[1] > i /\ Written(i) \cap ReadRange(u[1], u[2]) # {}
    BY <1>2, <2>1, <2>2 DEF note_dense_read, OnSameBuffer
  <2>4. u \notin readers
    BY <1>2, <1>5, <2>1 DEF Chained
  <2>5. Disjoint(ReadRange(u[1], u[2]), Written(i))
    BY <2>1, <2>2, <2>3, <2>4
  <2> QED
    BY <2>3, <2>5 DEF Disjoint
<1> QED
  BY <1>8, <1>9, <1>10 DEF compaction_elidable
-----------------------------------------------------------------------------
(* The program, the tallies and the cells are what IInv says in every      *)
(* state of every compiled program, recorded and executed in any order     *)
(* that respects submission.                                               *)
THEOREM Invariance == Spec => []IInv
<1>1. Init => IInv
  BY Initial
<1>2. IInv /\ [Next]_vars => IInv'
  BY Inductive
<1> QED
  BY <1>1, <1>2, PTL DEF Spec

(* Every operand holds the value the program computes for it (the reads of *)
(* apply_ops_until_dispatch, through skipped dense writes, reused cells    *)
(* and in-place updates).  The argument: the cube an operand is read       *)
(* through is the last write to its cells; and a skipped write is that of  *)
(* a value all of whose uses chain, so that nobody reads it densely.       *)
THEOREM OperandsHoldTheirValues == Spec => []ReadsItsValue
<1>1. IInv => ReadsItsValue
  BY DEF IInv, ReadsItsValue
<1> QED
  BY <1>1, Invariance, PTL

(* Recording fails INTERNAL for no compiled program: a packed edge is      *)
(* declared to the very dispatch whose cube chainable_cube finds, with the *)
(* geometry it computes.                                                   *)
THEOREM DeclarationsAreKept == Spec => []DeclarationsHold
<1>1. IInv => DeclarationsHold
  BY DEF IInv, StatusInv, DeclarationsHold
<1> QED
  BY <1>1, Invariance, PTL

(* A result all of whose readers chain, and whose bytes nobody else reads, *)
(* is not written densely (compaction_elidable): the driver's tally        *)
(* reaches the compiler's count.                                           *)
THEOREM ChainedResultsAreElided == Spec => []ElidedWhenAllChained
<1>1. IInv => ElidedWhenAllChained
  BY AllChained
<1> QED
  BY <1>1, Invariance, PTL
=============================================================================
