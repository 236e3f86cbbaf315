-------------------------- MODULE LifetimesProofs --------------------------
(***************************************************************************)
(* Proofs about Lifetimes, for every number of contexts, budget, request   *)
(* and bound: references balance, and the pool's bytes are what its free   *)
(* lists hold.                                                             *)
(*                                                                         *)
(* Types gives every record its fields, Links says which object names      *)
(* which, Descriptors who owns an open descriptor.  The operations on the  *)
(* heap come first, then how a step moves the counts of references, then   *)
(* the actions.                                                            *)
(***************************************************************************)
EXTENDS Lifetimes, FiniteSetTheorems, SequenceTheorems, WellFoundedInduction, TLAPS

Bo == [fd : Fds, file : Files, handle : Nat, class : Nat]
Buf == [refs : Nat, client : BOOLEAN, bo : Bo, deallocated : BOOLEAN]
Op == [binding : Nat, scratch : Bo]
Cb == [refs : Nat, client : BOOLEAN, context : Nat, siblings : Seq(Nat), ops : Seq(Op)]
Ctx == [fd : Fds, refs : Nat]
Pool == [enabled : BOOLEAN, free : Seq(Bo), bytes : Nat]
Heap == [open : [Fds -> Files \cup {0}], gem : [Files -> SUBSET Nat], pool : Pool,
         ctxs : Seq(Ctx), bufs : Seq(Buf), cbs : Seq(Cb)]
Call == [kind : {"execute", "transfer", "dealloca"}, of : Nat,
         stage : {"queued", "running", "done", "refused", "rejected", "wait_failed", "panicked"},
         regcmd : Seq(Bo)]
Device == [state : {"none", "live", "closing", "gone"}, created : 0..MaxDevices,
           file : Nat, allocator : Nat, contexts : Seq(Nat), placed : Nat]

HeapOK(w) == w \in Heap /\ \A file \in Files : IsFiniteSet(w.gem[file])
Types == HeapOK(heap) /\ units \in Seq(Call) /\ device \in Device /\ late \in BOOLEAN

(* Which object names which.                                               *)
Up == device.state \in {"live", "closing"}
Base == (device.created - 1) * NumContexts
Links ==
  /\ Len(heap.ctxs) = device.created * NumContexts
  /\ device.contexts = IF Up THEN [n \in 1..NumContexts |-> Base + n] ELSE <<>>
  /\ Up => device.created > 0
  /\ \A c \in DOMAIN heap.cbs :
       /\ ContextsOf(heap.cbs[c]) \subseteq DOMAIN heap.ctxs
       /\ Len(heap.cbs[c].ops) <= 1
       /\ \A n \in DOMAIN heap.cbs[c].ops : heap.cbs[c].ops[n].binding \in DOMAIN heap.bufs
  /\ \A u \in DOMAIN units :
       /\ units[u].of \in IF units[u].kind = "execute" THEN DOMAIN heap.cbs ELSE DOMAIN heap.bufs
       /\ units[u].stage = "running" => units[u].kind = "execute"
       /\ Len(units[u].regcmd) <= 1
       /\ units[u].regcmd # <<>> => units[u].stage = "running"

(* Whose a descriptor is: the device's, its allocator's, or that of a      *)
(* context with references.                                                *)
Owned(x) == x \in DOMAIN heap.ctxs /\ heap.ctxs[x].refs > 0
Descriptors ==
  /\ \A x \in DOMAIN heap.ctxs : Owned(x) => heap.open[heap.ctxs[x].fd] = x
  /\ Up => /\ device.file \in Fds /\ device.allocator \in Fds /\ device.file # device.allocator
           /\ heap.open[device.file] = Base + 1 /\ heap.open[device.allocator] = Base + 1
           /\ \A x \in DOMAIN heap.ctxs :
                Owned(x) => heap.ctxs[x].fd \notin {device.file, device.allocator}
  /\ \A fd \in Fds :
       heap.open[fd] # 0 =>
         \/ Up /\ fd \in {device.file, device.allocator}
         \/ \E x \in DOMAIN heap.ctxs : Owned(x) /\ heap.ctxs[x].fd = fd

-----------------------------------------------------------------------------
(* Numbers and sets.                                                       *)

LEMMA Least ==
  ASSUME NEW T \in SUBSET Nat, T # {}
  PROVE  \E n \in T : \A m \in T : n <= m
<1> DEFINE Less == OpToRel(<, Nat)
<1>1. PICK n \in T : \A m \in T : <<m, n>> \notin Less
  <2>1. IsWellFoundedOn(Less, Nat)
    BY NatLessThanWellFounded
  <2> HIDE DEF Less
  <2> QED  BY <2>1, WFMin
<1>2. ASSUME NEW m \in T PROVE n <= m
  <2>1. n \in Nat /\ m \in Nat /\ <<m, n>> \notin Less
    BY <1>1
  <2>2. m < n => <<m, n>> \in Less
    BY <2>1 DEF OpToRel
  <2> HIDE DEF Less
  <2> QED  BY <2>1, <2>2
<1> QED  BY <1>2

(* Induction over the naturals, for a set.                                 *)
LEMMA Induction ==
  ASSUME NEW T, 0 \in T, \A n \in Nat : n \in T => n + 1 \in T
  PROVE  Nat \subseteq T
<1>1. SUFFICES ASSUME Nat \ T # {} PROVE FALSE
  OBVIOUS
<1>2. PICK n \in Nat \ T : \A m \in Nat \ T : n <= m
  <2>1. Nat \ T \in SUBSET Nat
    OBVIOUS
  <2> QED  BY <1>1, <2>1, Least
<1>3. n # 0 /\ n - 1 \in Nat /\ (n - 1) + 1 = n
  BY <1>2
<1> QED  BY <1>2, <1>3

LEMMA LowestIsLeast ==
  ASSUME NEW T \in SUBSET Nat, T # {}
  PROVE  Lowest(T) \in T
BY Least DEF Lowest

(* A set of one more or one less.                                          *)
LEMMA OneMore ==
  ASSUME NEW S, NEW x, IsFiniteSet(S), x \notin S
  PROVE  IsFiniteSet(S \cup {x}) /\ Cardinality(S \cup {x}) = Cardinality(S) + 1
         /\ Cardinality(S) \in Nat
BY FS_AddElement, FS_CardinalityType

LEMMA OneLess ==
  ASSUME NEW S, NEW x, IsFiniteSet(S), x \in S
  PROVE  IsFiniteSet(S \ {x}) /\ Cardinality(S \ {x}) = Cardinality(S) - 1
         /\ Cardinality(S) \in Nat /\ Cardinality(S) > 0
<1>1. Cardinality(S) \in Nat /\ Cardinality(S \ {x}) \in Nat
  BY FS_RemoveElement, FS_CardinalityType
<1> QED  BY <1>1, FS_RemoveElement

LEMMA FreshHandle ==
  ASSUME NEW S \in SUBSET Nat, IsFiniteSet(S)
  PROVE  Lowest((1..(Cardinality(S) + 1)) \ S) \in Nat \ S
<1> DEFINE k == Cardinality(S)
<1>1. k \in Nat
  BY FS_CardinalityType
<1>2. Cardinality(1..(k + 1)) = k + 1
  BY <1>1, FS_Interval
<1>3. ~(1..(k + 1) \subseteq S)
  <2>1. SUFFICES ASSUME 1..(k + 1) \in SUBSET S PROVE FALSE
    OBVIOUS
  <2>2. Cardinality(1..(k + 1)) <= Cardinality(S)
    BY <2>1, FS_Subset
  <2> QED  BY <2>2, <1>1, <1>2
<1>4. (1..(k + 1)) \ S \in SUBSET Nat /\ (1..(k + 1)) \ S # {}
  BY <1>1, <1>3
<1> QED  BY <1>4, LowestIsLeast

-----------------------------------------------------------------------------
(* The operations on the heap: what they keep and what they change.        *)

Objects(w, v) == v.ctxs = w.ctxs /\ v.bufs = w.bufs /\ v.cbs = w.cbs

Created(w, v, bo, fd) ==
  /\ HeapOK(v) /\ Objects(w, v) /\ v.open = w.open /\ v.pool = w.pool
  /\ bo \in Bo /\ bo.fd = fd /\ bo.file = w.open[fd] /\ bo.handle \notin w.gem[bo.file]
  /\ v.gem = [w.gem EXCEPT ![bo.file] = @ \cup {bo.handle}]
LEMMA CreateBoOK ==
  ASSUME NEW w, HeapOK(w), NEW fd \in Fds, w.open[fd] # 0, NEW class \in Nat
  PROVE  Created(w, CreateBo(w, fd, class)[1], CreateBo(w, fd, class)[2], fd)
<1> DEFINE file == w.open[fd]
           handle == Lowest((1..(Cardinality(w.gem[file]) + 1)) \ w.gem[file])
           bo == [fd |-> fd, file |-> file, handle |-> handle, class |-> class]
           v == [w EXCEPT !.gem[file] = @ \cup {handle}]
<1>1. file \in Files /\ w \in Heap
  BY DEF HeapOK, Heap
<1>2. w.gem[file] \in SUBSET Nat /\ IsFiniteSet(w.gem[file])
  BY <1>1 DEF HeapOK, Heap
<1>3. handle \in Nat /\ handle \notin w.gem[file]
  BY <1>2, FreshHandle
<1>4. CreateBo(w, fd, class) = <<v, bo>>
  BY DEF CreateBo
<1> HIDE DEF handle, file
<1>5. bo \in Bo
  BY <1>1, <1>3 DEF Bo
<1>6. v \in Heap /\ v.gem = [w.gem EXCEPT ![file] = @ \cup {handle}]
  BY <1>1, <1>3 DEF Heap
<1>7. IsFiniteSet(w.gem[file] \cup {handle})
  BY <1>2, <1>3, FS_AddElement
<1>8. \A f \in Files : IsFiniteSet(v.gem[f])
  BY <1>1, <1>6, <1>7 DEF HeapOK, Heap
<1>9. v.open = w.open /\ v.pool = w.pool /\ v.ctxs = w.ctxs /\ v.bufs = w.bufs /\ v.cbs = w.cbs
  BY <1>1 DEF Heap
<1>10. bo.fd = fd /\ bo.file = file /\ bo.handle = handle /\ bo.class = class
  OBVIOUS
<1>11. CreateBo(w, fd, class)[1] = v /\ CreateBo(w, fd, class)[2] = bo
  BY <1>4
<1> HIDE DEF v, bo
<1>12. v.gem = [w.gem EXCEPT ![file] = @ \cup {bo.handle}]
  BY <1>6, <1>10
<1>13. HeapOK(v) /\ Objects(w, v)
  BY <1>6, <1>8, <1>9 DEF HeapOK, Objects
<1>14. Created(w, v, bo, fd)
  BY <1>3, <1>5, <1>9, <1>10, <1>12, <1>13 DEF file, Created
<1> QED  BY <1>11, <1>14

Closed(w, v, bo) ==
  /\ HeapOK(v) /\ Objects(w, v) /\ v.open = w.open /\ v.pool = w.pool
  /\ w.open[bo.fd] # 0 => v.gem = [w.gem EXCEPT ![w.open[bo.fd]] = @ \ {bo.handle}]
LEMMA CloseBoOK ==
  ASSUME NEW w, HeapOK(w), NEW bo \in Bo
  PROVE  Closed(w, close_bo(w, bo), bo)
<1> DEFINE file == w.open[bo.fd]
           v == [w EXCEPT !.gem[file] = @ \ {bo.handle}]
<1>1. CASE file = 0
  BY <1>1 DEF close_bo, Objects, Closed
<1>2. CASE file # 0
  <2>1. w \in Heap /\ file \in Files /\ close_bo(w, bo) = v
    BY <1>2 DEF HeapOK, Heap, Bo, close_bo
  <2> HIDE DEF file
  <2>2. v \in Heap /\ v.gem = [w.gem EXCEPT ![file] = @ \ {bo.handle}]
    BY <2>1 DEF Heap
  <2>3. IsFiniteSet(w.gem[file])
    BY <2>1 DEF HeapOK
  <2>4. IsFiniteSet(w.gem[file] \ {bo.handle})
    BY <2>3, FS_RemoveElement
  <2>5. \A f \in Files : IsFiniteSet(v.gem[f])
    BY <2>1, <2>2, <2>4 DEF HeapOK, Heap
  <2>6. v.open = w.open /\ v.pool = w.pool /\ v.ctxs = w.ctxs /\ v.bufs = w.bufs /\ v.cbs = w.cbs
    BY <2>1 DEF Heap
  <2> HIDE DEF v
  <2> QED  BY <2>1, <2>2, <2>5, <2>6 DEF HeapOK, Objects, Closed, file
<1> QED  BY <1>1, <1>2

FdsClosed(w, v, fds) ==
  /\ HeapOK(v) /\ Objects(w, v) /\ v.pool = w.pool
  /\ v.open = [fd \in Fds |-> IF fd \in fds THEN 0 ELSE w.open[fd]]
  /\ fds = {} => v.open = w.open /\ v.gem = w.gem
LEMMA CloseFdsOK ==
  ASSUME NEW w, HeapOK(w), NEW fds \in SUBSET Fds
  PROVE  FdsClosed(w, CloseFds(w, fds), fds)
<1> DEFINE open == [fd \in Fds |-> IF fd \in fds THEN 0 ELSE w.open[fd]]
           gone == {w.open[fd] : fd \in fds} \ Range(open)
           gem == [file \in DOMAIN w.gem |-> IF file \in gone THEN {} ELSE w.gem[file]]
           v == [w EXCEPT !.open = open, !.gem = gem]
<1>1. w \in Heap /\ CloseFds(w, fds) = v
  BY DEF HeapOK, CloseFds
<1>2. open \in [Fds -> Files \cup {0}]
  BY <1>1 DEF Heap
<1>3. gem \in [Files -> SUBSET Nat] /\ \A f \in Files : gem[f] \in {{}, w.gem[f]}
  BY <1>1 DEF Heap
<1>4. \A f \in Files : IsFiniteSet(gem[f])
  BY <1>3, FS_EmptySet DEF HeapOK
<1>5. fds = {} => open = w.open /\ gem = w.gem
  <2>1. w.open \in [Fds -> Files \cup {0}] /\ w.gem \in [Files -> SUBSET Nat]
    BY <1>1 DEF Heap
  <2> QED  BY <2>1
<1> HIDE DEF open, gem
<1>6. v \in Heap /\ v.open = open /\ v.gem = gem /\ v.pool = w.pool
      /\ v.ctxs = w.ctxs /\ v.bufs = w.bufs /\ v.cbs = w.cbs
  BY <1>1, <1>2, <1>3 DEF Heap
<1> HIDE DEF v
<1>7. v.open = [fd \in Fds |-> IF fd \in fds THEN 0 ELSE w.open[fd]]
  BY <1>6 DEF open
<1> QED  BY <1>1, <1>4, <1>5, <1>6, <1>7 DEF HeapOK, Objects, FdsClosed

-----------------------------------------------------------------------------
(* The free lists.                                                         *)

LEMMA RemoveAtOK ==
  ASSUME NEW S, NEW s \in Seq(S), NEW i \in 1..Len(s)
  PROVE  /\ RemoveAt(s, i) \in Seq(S) /\ Len(RemoveAt(s, i)) = Len(s) - 1
         /\ \A k \in 1..(Len(s) - 1) : RemoveAt(s, i)[k] = IF k < i THEN s[k] ELSE s[k + 1]
<1> DEFINE a == SubSeq(s, 1, i - 1)
           b == SubSeq(s, i + 1, Len(s))
<1>1. a \in Seq(S) /\ Len(a) = i - 1 /\ \A k \in 1..(i - 1) : a[k] = s[k]
  BY SubSeqProperties
<1>2. b \in Seq(S) /\ Len(b) = Len(s) - i /\ \A k \in 1..(Len(s) - i) : b[k] = s[k + i]
  <2>1. i + 1 \in Int /\ Len(s) \in Int /\ \A k \in (i + 1)..Len(s) : s[k] \in S
    OBVIOUS
  <2>2. /\ b \in Seq(S) /\ Len(b) = IF i + 1 <= Len(s) THEN Len(s) - (i + 1) + 1 ELSE 0
        /\ \A k \in 1..(Len(s) - (i + 1) + 1) : b[k] = s[(i + 1) + k - 1]
    BY <2>1, SubSeqProperties
  <2> QED  BY <2>2
<1>3. RemoveAt(s, i) = a \o b
  BY DEF RemoveAt
<1> HIDE DEF a, b
<1>4. RemoveAt(s, i) \in Seq(S) /\ Len(RemoveAt(s, i)) = Len(s) - 1
  BY <1>1, <1>2, <1>3
<1>5. ASSUME NEW k \in 1..(Len(s) - 1)
      PROVE  RemoveAt(s, i)[k] = IF k < i THEN s[k] ELSE s[k + 1]
  <2>1. CASE k < i
    BY <2>1, <1>1, <1>2, <1>3
  <2>2. CASE ~(k < i)
    <3>1. (a \o b)[k] = b[k - (i - 1)] /\ k - (i - 1) \in 1..(Len(s) - i)
      BY <2>2, <1>1, <1>2
    <3>2. b[k - (i - 1)] = s[(k - (i - 1)) + i] /\ (k - (i - 1)) + i = k + 1
      BY <3>1, <1>2
    <3> QED  BY <2>2, <3>1, <3>2, <1>3
  <2> QED  BY <2>1, <2>2
<1> QED  BY <1>4, <1>5

(* g[n] is the sum of the first n classes, for n up to k.                  *)
Adds(g, free, k) ==
  /\ g \in [0..k -> Nat] /\ g[0] = 0
  /\ \A n \in 1..k : g[n] = g[n - 1] + free[n].class

LEMMA SumsExist ==
  ASSUME NEW free \in Seq(Bo)
  PROVE  \E g : Adds(g, free, Len(free))
<1> DEFINE T == {k \in Nat : k <= Len(free) => \E g : Adds(g, free, k)}
<1>1. 0 \in T
  <2>1. Adds([n \in 0..0 |-> 0], free, 0)
    BY DEF Adds
  <2> QED  BY <2>1
<1>2. ASSUME NEW k \in Nat, k \in T PROVE k + 1 \in T
  <2>1. SUFFICES ASSUME k + 1 <= Len(free) PROVE \E g : Adds(g, free, k + 1)
    OBVIOUS
  <2>2. PICK g : Adds(g, free, k)
    BY <1>2, <2>1
  <2> DEFINE h == [n \in 0..(k + 1) |-> IF n <= k THEN g[n] ELSE g[k] + free[k + 1].class]
  <2>3. k + 1 \in 1..Len(free) /\ free[k + 1] \in Bo /\ g[k] \in Nat /\ g[0] = 0
    BY <2>1, <2>2 DEF Adds
  <2>4. h \in [0..(k + 1) -> Nat] /\ h[0] = 0
    BY <2>2, <2>3 DEF Adds, Bo
  <2>5. ASSUME NEW n \in 1..(k + 1) PROVE h[n] = h[n - 1] + free[n].class
    <3>1. CASE n <= k
      BY <3>1, <2>2 DEF Adds
    <3>2. CASE n = k + 1
      BY <3>2
    <3> QED  BY <3>1, <3>2
  <2>6. Adds(h, free, k + 1)
    BY <2>4, <2>5 DEF Adds
  <2> QED  BY <2>6
<1>3. Nat \subseteq T
  <2> HIDE DEF T
  <2> QED  BY <1>1, <1>2, Induction
<1> QED  BY <1>3

LEMMA SumIsBytes ==
  ASSUME NEW free \in Seq(Bo), NEW g, Adds(g, free, Len(free))
  PROVE  Bytes(free) = g[Len(free)]
<1> DEFINE P(f) == f = [n \in 0..Len(free) |-> IF n = 0 THEN 0 ELSE f[n - 1] + free[n].class]
           f0 == CHOOSE f : P(f)
<1>1. P(g)
  BY DEF Adds
<1>2. P(f0)
  BY <1>1
<1>3. Bytes(free) = f0[Len(free)]
  BY DEF Bytes
<1> HIDE DEF f0
<1> DEFINE T == {n \in Nat : n <= Len(free) => f0[n] = g[n]}
<1>4. 0 \in T
  BY <1>1, <1>2
<1>5. ASSUME NEW n \in Nat, n \in T PROVE n + 1 \in T
  <2>1. SUFFICES ASSUME n + 1 <= Len(free) PROVE f0[n + 1] = g[n + 1]
    OBVIOUS
  <2>2. n + 1 \in 0..Len(free) /\ n + 1 # 0 /\ (n + 1) - 1 = n /\ f0[n] = g[n]
    BY <2>1, <1>5
  <2>3. f0[n + 1] = f0[n] + free[n + 1].class /\ g[n + 1] = g[n] + free[n + 1].class
    BY <1>1, <1>2, <2>2
  <2> QED  BY <2>2, <2>3
<1>6. Nat \subseteq T
  <2> HIDE DEF T
  <2> QED  BY <1>4, <1>5, Induction
<1> QED  BY <1>3, <1>6

LEMMA BytesEmpty ==
  Bytes(<<>>) = 0
<1>1. <<>> \in Seq(Bo) /\ Len(<<>>) = 0
  OBVIOUS
<1>2. Adds([n \in 0..0 |-> 0], <<>>, 0)
  BY DEF Adds
<1> QED  BY <1>1, <1>2, SumIsBytes

LEMMA BytesAppend ==
  ASSUME NEW free \in Seq(Bo), NEW bo \in Bo
  PROVE  Bytes(free) \in Nat /\ Bytes(Append(free, bo)) = Bytes(free) + bo.class
<1>1. PICK g : Adds(g, free, Len(free))
  BY SumsExist
<1> DEFINE k == Len(free)
           more == Append(free, bo)
           h == [n \in 0..(k + 1) |-> IF n <= k THEN g[n] ELSE g[k] + bo.class]
<1>2. more \in Seq(Bo) /\ Len(more) = k + 1 /\ more[k + 1] = bo
      /\ \A n \in 1..k : more[n] = free[n]
  OBVIOUS
<1>3. k \in Nat /\ bo.class \in Nat
  BY DEF Bo
<1> HIDE DEF more
<1>4. Adds(h, more, k + 1)
  <2>1. h \in [0..(k + 1) -> Nat] /\ h[0] = 0
    BY <1>1, <1>3 DEF Adds
  <2>2. ASSUME NEW n \in 1..(k + 1) PROVE h[n] = h[n - 1] + more[n].class
    <3>1. CASE n <= k
      BY <3>1, <1>1, <1>2 DEF Adds
    <3>2. CASE n = k + 1
      BY <3>2, <1>2, <1>3
    <3> QED  BY <3>1, <3>2, <1>3
  <2> QED  BY <2>1, <2>2 DEF Adds
<1>5. Bytes(more) = h[k + 1] /\ h[k + 1] = g[k] + bo.class
  BY <1>2, <1>3, <1>4, SumIsBytes
<1>6. Bytes(free) = g[k] /\ g[k] \in Nat
  BY <1>1, <1>3, SumIsBytes DEF Adds
<1> QED  BY <1>5, <1>6 DEF more

LEMMA BytesRemove ==
  ASSUME NEW free \in Seq(Bo), NEW i \in 1..Len(free)
  PROVE  /\ Bytes(free) \in Nat /\ free[i].class \in Nat /\ free[i].class <= Bytes(free)
         /\ Bytes(RemoveAt(free, i)) = Bytes(free) - free[i].class
<1>1. PICK g : Adds(g, free, Len(free))
  BY SumsExist
<1> DEFINE k == Len(free)
           class == free[i].class
           less == RemoveAt(free, i)
           h == [n \in 0..(k - 1) |-> IF n < i THEN g[n] ELSE g[n + 1] - class]
<1>2. /\ k \in Nat /\ free[i] \in Bo /\ class \in Nat /\ g \in [0..k -> Nat] /\ g[0] = 0
      /\ \A n \in 1..k : free[n].class \in Nat /\ g[n] = g[n - 1] + free[n].class
  <2>1. k \in Nat /\ g \in [0..k -> Nat] /\ g[0] = 0 /\ \A n \in 1..k : g[n] = g[n - 1] + free[n].class
    BY <1>1 DEF Adds
  <2>2. \A n \in 1..k : free[n] \in Bo
    OBVIOUS
  <2>3. \A n \in 1..k : free[n].class \in Nat
    BY <2>2 DEF Bo
  <2> QED  BY <2>1, <2>2, <2>3
<1> HIDE DEF class
<1>0. \A n \in 0..k : g[n] \in Nat
  BY <1>2
<1>3. \A n \in i..k : class <= g[n]
  <2> DEFINE T == {n \in Nat : i + n <= k => class <= g[i + n]}
  <2>1. 0 \in T
    <3>1. g[i] = g[i - 1] + class /\ g[i - 1] \in Nat
      BY <1>2 DEF class
    <3> QED  BY <3>1, <1>2
  <2>2. ASSUME NEW n \in Nat, n \in T PROVE n + 1 \in T
    <3>1. SUFFICES ASSUME i + (n + 1) <= k PROVE class <= g[i + (n + 1)]
      OBVIOUS
    <3>2. i + (n + 1) \in 1..k /\ i + n \in 0..k /\ i + (n + 1) - 1 = i + n /\ class <= g[i + n]
      BY <3>1, <2>2, <1>2
    <3> DEFINE m == i + (n + 1)
    <3>3. m \in 1..k /\ m - 1 = i + n
      BY <3>2
    <3> HIDE DEF m
    <3>4. g[m] = g[m - 1] + free[m].class /\ free[m].class \in Nat
      BY <3>3, <1>2
    <3>5. g[i + n] \in Nat
      BY <3>2, <1>0
    <3> QED  BY <3>2, <3>3, <3>4, <3>5, <1>2 DEF m
  <2>3. Nat \subseteq T
    <3> HIDE DEF T
    <3> QED  BY <2>1, <2>2, Induction
  <2>4. ASSUME NEW n \in i..k PROVE class <= g[n]
    <3>1. n - i \in Nat /\ i + (n - i) = n
      OBVIOUS
    <3> QED  BY <3>1, <2>3
  <2> QED  BY <2>4
<1>4. /\ less \in Seq(Bo) /\ Len(less) = k - 1
      /\ \A n \in 1..(k - 1) : less[n] = IF n < i THEN free[n] ELSE free[n + 1]
  BY RemoveAtOK
<1> HIDE DEF less
<1>5. h \in [0..(k - 1) -> Nat] /\ h[0] = 0
  <2>1. ASSUME NEW n \in 0..(k - 1) PROVE h[n] \in Nat
    <3>1. CASE n < i
      <4>1. n \in 0..k /\ h[n] = g[n]
        BY <3>1, <1>2
      <4> QED  BY <4>1, <1>0
    <3>2. CASE ~(n < i)
      <4>1. n + 1 \in i..k /\ n + 1 \in 0..k
        BY <3>2, <1>2
      <4>2. g[n + 1] \in Nat /\ class <= g[n + 1]
        BY <4>1, <1>0, <1>3
      <4> QED  BY <3>2, <4>2, <1>2
    <3> QED  BY <3>1, <3>2
  <2>2. 0 \in 0..(k - 1) /\ 0 < i
    BY <1>2
  <2> QED  BY <2>1, <2>2, <1>2
<1>6. ASSUME NEW n \in 1..(k - 1) PROVE h[n] = h[n - 1] + less[n].class
  <2>1. n \in 1..k /\ n + 1 \in 1..k /\ n - 1 \in 0..(k - 1) /\ n \in 0..(k - 1)
    BY <1>2
  <2>2. /\ g[n] = g[n - 1] + free[n].class /\ g[n + 1] = g[n] + free[n + 1].class
        /\ free[n].class \in Nat /\ free[n + 1].class \in Nat
        /\ g[n] \in Nat /\ g[n - 1] \in Nat /\ g[n + 1] \in Nat
    <3>1. g[n + 1] = g[n + 1 - 1] + free[n + 1].class /\ n + 1 - 1 = n
      BY <2>1, <1>2
    <3>2. n \in 0..k /\ n - 1 \in 0..k /\ n + 1 \in 0..k
      BY <2>1, <1>2
    <3>3. g[n] \in Nat /\ g[n - 1] \in Nat /\ g[n + 1] \in Nat
      BY <3>2, <1>0
    <3> QED  BY <3>1, <3>3, <2>1, <1>2
  <2>3. CASE n < i
    BY <2>1, <2>2, <2>3, <1>4
  <2>4. CASE n = i
    <3>1. h[n] = g[n + 1] - class /\ h[n - 1] = g[n - 1] /\ less[n] = free[n + 1]
      BY <2>1, <2>4, <1>4
    <3>2. class = free[n].class
      BY <2>4 DEF class
    <3> QED  BY <3>1, <3>2, <2>2
  <2>5. CASE n > i
    <3>1. h[n] = g[n + 1] - class /\ h[n - 1] = g[n - 1 + 1] - class /\ less[n] = free[n + 1]
          /\ n - 1 + 1 = n
      BY <2>1, <2>5, <1>4
    <3>2. h[n - 1] = g[n] - class /\ class \in Nat
      BY <3>1, <1>2
    <3> HIDE DEF h
    <3>3. less[n].class = free[n + 1].class
      BY <3>1
    <3> QED  BY <3>1, <3>2, <3>3, <2>2
  <2> QED  BY <2>3, <2>4, <2>5
<1>7. Bytes(less) = h[k - 1]
  BY <1>4, <1>5, <1>6, SumIsBytes DEF Adds
<1>8. h[k - 1] = g[k] - class
  <2>1. k - 1 \in 0..(k - 1) /\ k - 1 + 1 = k
    BY <1>2
  <2>2. CASE i = k
    <3>1. g[k] = g[k - 1] + class /\ g[k - 1] \in Nat
      BY <2>2, <1>2 DEF class
    <3> QED  BY <2>1, <2>2, <3>1, <1>2
  <2>3. CASE i < k
    BY <2>1, <2>3, <1>2
  <2> QED  BY <2>2, <2>3
<1>9. Bytes(free) = g[k] /\ g[k] \in Nat /\ class <= g[k]
  BY <1>1, <1>2, <1>3, SumIsBytes
<1> QED  BY <1>2, <1>7, <1>8, <1>9 DEF less, class

LEMMA Greatest ==
  ASSUME NEW k \in Nat, NEW T \in SUBSET (1..k), T # {}
  PROVE  \E n \in T : \A m \in T : m <= n
<1> DEFINE R == {k - n : n \in T}
<1>1. R \in SUBSET Nat /\ R # {}
  <2>1. \A n \in T : n \in 1..k /\ k - n \in Nat
    OBVIOUS
  <2>2. PICK n \in T : TRUE
    OBVIOUS
  <2>3. k - n \in R
    OBVIOUS
  <2> QED  BY <2>1, <2>3
<1>2. PICK r \in R : \A m \in R : r <= m
  BY <1>1, Least
<1>3. PICK n \in T : r = k - n
  BY <1>2
<1>4. ASSUME NEW m \in T PROVE m <= n
  <2>1. k - n <= k - m
    BY <1>2, <1>3
  <2> QED  BY <2>1
<1> QED  BY <1>4

LEMMA ClassIsNat ==
  ASSUME NEW bytes \in Nat
  PROVE  class_of(bytes) \in Nat
BY DEF class_of, KIB

WithPool(w, free, bytes) == [w EXCEPT !.pool.free = free, !.pool.bytes = bytes]
PoolIs(w, v, free, bytes) ==
  /\ v \in Heap /\ v.open = w.open /\ v.gem = w.gem /\ Objects(w, v)
  /\ v.pool.free = free /\ v.pool.bytes = bytes
LEMMA PoolWritten ==
  ASSUME NEW w \in Heap, NEW free \in Seq(Bo), NEW bytes \in Nat
  PROVE  PoolIs(w, WithPool(w, free, bytes), free, bytes)
BY DEF Heap, Pool, PoolIs, WithPool, Objects

Accounts(w) == w.pool.bytes = Bytes(w.pool.free) /\ w.pool.bytes <= Budget

(* A buffer of the pool goes to the caller, or a new one is made.          *)
Popped(w, v, bo, fd) ==
  /\ v.open = w.open /\ v.gem = w.gem
  /\ \E i \in 1..Len(w.pool.free) :
       bo = w.pool.free[i] /\ bo.fd = fd /\ v.pool.free = RemoveAt(w.pool.free, i)

Scratched(w, v, bo, fd) ==
  /\ HeapOK(v) /\ Objects(w, v) /\ v.open = w.open /\ bo \in Bo /\ (Accounts(w) => Accounts(v))
  /\ Created(w, v, bo, fd) \/ Popped(w, v, bo, fd)
LEMMA NewScratchOK ==
  ASSUME NEW w, HeapOK(w), NEW fd \in Fds, w.open[fd] # 0, NEW bytes \in Nat
  PROVE  Scratched(w, NewScratch(w, fd, bytes)[1], NewScratch(w, fd, bytes)[2], fd)
<1> DEFINE class == class_of(bytes)
           idle == {i \in 1..Len(w.pool.free) : w.pool.free[i].fd = fd /\ w.pool.free[i].class = class}
           i == CHOOSE n \in idle : \A m \in idle : m <= n
           v == Reused(w, i, class)
           bo == w.pool.free[i]
<1>1. class \in Nat
  BY ClassIsNat
<1>2. w \in Heap /\ w.pool \in Pool /\ w.pool.free \in Seq(Bo) /\ Len(w.pool.free) \in Nat
  BY DEF HeapOK, Heap, Pool
<1>3. CASE ~(w.pool.enabled /\ idle # {})
  <2>1. NewScratch(w, fd, bytes) = CreateBo(w, fd, class)
    BY <1>3 DEF NewScratch
  <2> HIDE DEF class
  <2> DEFINE made == CreateBo(w, fd, class)
  <2>2. Created(w, made[1], made[2], fd)
    BY <1>1, CreateBoOK
  <2>3. Accounts(w) => Accounts(made[1])
    BY <2>2 DEF Accounts, Created
  <2> QED  BY <2>1, <2>2, <2>3 DEF Scratched, Created
<1>4. CASE w.pool.enabled /\ idle # {}
  <2>1. i \in idle
    <3>1. \E n \in idle : \A m \in idle : m <= n
      <4>1. idle \in SUBSET (1..Len(w.pool.free))
        OBVIOUS
      <4> HIDE DEF idle
      <4> QED  BY <1>2, <1>4, <4>1, Greatest
    <3> HIDE DEF idle
    <3> QED  BY <3>1
  <2>2. NewScratch(w, fd, bytes) = <<v, [bo EXCEPT !.fd = fd]>>
    BY <1>4 DEF NewScratch
  <2>3. i \in 1..Len(w.pool.free) /\ bo \in Bo /\ bo.fd = fd /\ bo.class = class
    <3> HIDE DEF i, class
    <3>1. i \in 1..Len(w.pool.free) /\ bo.fd = fd /\ bo.class = class
      BY <2>1
    <3> QED  BY <3>1, <1>2
  <2> HIDE DEF i, class
  <2>4. [bo EXCEPT !.fd = fd] = bo
    BY <2>3 DEF Bo
  <2>5. RemoveAt(w.pool.free, i) \in Seq(Bo)
    BY <1>2, <2>3, RemoveAtOK
  <2> DEFINE left == IF w.pool.bytes < class THEN 0 ELSE w.pool.bytes - class
  <2>6. PoolIs(w, v, RemoveAt(w.pool.free, i), left)
    <3>1. w.pool.bytes \in Nat
      BY <1>2 DEF Pool
    <3>2. left \in Nat
      BY <1>1, <3>1
    <3>3. v = WithPool(w, RemoveAt(w.pool.free, i), left)
      BY <1>2 DEF Reused, Heap, Pool, WithPool
    <3> HIDE DEF v, left
    <3> QED  BY <1>2, <2>5, <3>2, <3>3, PoolWritten
  <2>7. Accounts(w) => Accounts(v)
    <3>1. SUFFICES ASSUME Accounts(w) PROVE Accounts(v)
      OBVIOUS
    <3>2. /\ Bytes(w.pool.free) \in Nat /\ class <= Bytes(w.pool.free)
          /\ Bytes(RemoveAt(w.pool.free, i)) = Bytes(w.pool.free) - class
      BY <1>2, <2>3, BytesRemove
    <3>3. w.pool.bytes = Bytes(w.pool.free) /\ w.pool.bytes <= Budget /\ Budget \in Nat
      BY <3>1, LifetimesAssumption DEF Accounts
    <3>4. v.pool.bytes = w.pool.bytes - class
      BY <1>1, <3>2, <3>3, <2>6 DEF PoolIs
    <3> QED  BY <1>1, <2>6, <3>2, <3>3, <3>4 DEF Accounts, PoolIs
  <2>8. NewScratch(w, fd, bytes)[1] = v /\ NewScratch(w, fd, bytes)[2] = bo
    BY <2>2, <2>4
  <2> HIDE DEF v, bo
  <2>9. HeapOK(v) /\ Objects(w, v) /\ v.open = w.open
    BY <2>6 DEF HeapOK, PoolIs
  <2>10. Popped(w, v, bo, fd)
    BY <2>3, <2>6 DEF Popped, PoolIs, bo
  <2> QED  BY <2>3, <2>7, <2>8, <2>9, <2>10 DEF Scratched
<1> QED  BY <1>3, <1>4

Dropped(w, v, bo) ==
  /\ HeapOK(v) /\ Objects(w, v) /\ v.open = w.open /\ (Accounts(w) => Accounts(v))
  /\ \/ v.gem = w.gem /\ v.pool.free = Append(w.pool.free, bo)
     \/ Closed(w, v, bo)
LEMMA DropScratchOK ==
  ASSUME NEW w, HeapOK(w), NEW bo \in Bo
  PROVE  Dropped(w, DropScratch(w, bo), bo)
<1> DEFINE v == [w EXCEPT !.pool.free = Append(@, bo), !.pool.bytes = @ + bo.class]
<1>1. w \in Heap /\ w.pool \in Pool /\ w.pool.free \in Seq(Bo) /\ bo.class \in Nat
  BY DEF HeapOK, Heap, Pool, Bo
<1>2. CASE w.pool.enabled /\ w.pool.bytes + bo.class <= Budget
  <2>1. DropScratch(w, bo) = v
    BY <1>2 DEF DropScratch
  <2>2. PoolIs(w, v, Append(w.pool.free, bo), w.pool.bytes + bo.class)
    <3>1. Append(w.pool.free, bo) \in Seq(Bo) /\ w.pool.bytes + bo.class \in Nat
      BY <1>1 DEF Pool
    <3>2. v = WithPool(w, Append(w.pool.free, bo), w.pool.bytes + bo.class)
      BY <1>1 DEF Heap, Pool, WithPool
    <3> HIDE DEF v
    <3> QED  BY <1>1, <3>1, <3>2, PoolWritten
  <2> HIDE DEF v
  <2>3. Accounts(w) => Accounts(v)
    BY <1>1, <1>2, <2>2, BytesAppend DEF Accounts, PoolIs
  <2> QED  BY <2>1, <2>2, <2>3 DEF HeapOK, PoolIs, Dropped
<1>3. CASE ~(w.pool.enabled /\ w.pool.bytes + bo.class <= Budget)
  <2>1. DropScratch(w, bo) = close_bo(w, bo)
    BY <1>3 DEF DropScratch
  <2>2. Closed(w, close_bo(w, bo), bo)
    BY CloseBoOK
  <2>3. Accounts(w) => Accounts(close_bo(w, bo))
    BY <2>2 DEF Accounts, Closed
  <2> QED  BY <2>1, <2>2, <2>3 DEF Dropped, Closed
<1> QED  BY <1>2, <1>3

LEMMA ClearOK ==
  ASSUME NEW w, HeapOK(w)
  PROVE  /\ HeapOK(clear(w)) /\ Objects(w, clear(w)) /\ clear(w).open = w.open
         /\ clear(w).pool.free = <<>> /\ Accounts(clear(w))
<1> DEFINE idle(file) == {bo \in Range(w.pool.free) : w.open[bo.fd] = file}
           gem == [file \in DOMAIN w.gem |-> w.gem[file] \ {bo.handle : bo \in idle(file)}]
           v == [w EXCEPT !.gem = gem, !.pool.free = <<>>, !.pool.bytes = 0]
<1>1. w \in Heap /\ w.pool \in Pool /\ clear(w) = v
  BY DEF HeapOK, Heap, clear
<1>2. gem \in [Files -> SUBSET Nat] /\ \A file \in Files : gem[file] \in SUBSET w.gem[file]
  BY <1>1 DEF Heap
<1>3. \A file \in Files : IsFiniteSet(gem[file])
  BY <1>2, FS_Subset DEF HeapOK
<1> HIDE DEF gem
<1>4. /\ v \in Heap /\ v.open = w.open /\ v.gem = gem /\ v.ctxs = w.ctxs /\ v.bufs = w.bufs
      /\ v.cbs = w.cbs /\ v.pool.free = <<>> /\ v.pool.bytes = 0
  <2> DEFINE u == [w EXCEPT !.gem = gem]
  <2>1. u \in Heap /\ u.pool \in Pool /\ u.open = w.open /\ u.gem = gem /\ u.ctxs = w.ctxs
        /\ u.bufs = w.bufs /\ u.cbs = w.cbs
    BY <1>1, <1>2 DEF Heap
  <2>2. v = WithPool(u, <<>>, 0) /\ <<>> \in Seq(Bo) /\ 0 \in Nat
    BY <1>1 DEF Heap, WithPool
  <2> HIDE DEF u, v
  <2>3. PoolIs(u, v, <<>>, 0)
    BY <2>1, <2>2, PoolWritten
  <2> QED  BY <2>1, <2>3 DEF PoolIs, Objects
<1> HIDE DEF v
<1> QED  BY <1>1, <1>3, <1>4, BytesEmpty, LifetimesAssumption DEF HeapOK, Objects, Accounts

-----------------------------------------------------------------------------
(* References to buffers, contexts and command buffers.                    *)

(* b loses a reference, and its GEM buffer with the last.                  *)
Unref(w, v, b) ==
  /\ v.open = w.open /\ v.pool = w.pool
  /\ v.bufs = [w.bufs EXCEPT ![b].refs = @ - 1]
  /\ w.bufs[b].refs # 1 => v.gem = w.gem
  /\ (w.bufs[b].refs = 1 /\ w.open[w.bufs[b].bo.fd] # 0) =>
       v.gem = [w.gem EXCEPT ![w.open[w.bufs[b].bo.fd]] = @ \ {w.bufs[b].bo.handle}]
Released(w, v, b) == HeapOK(v) /\ v.ctxs = w.ctxs /\ v.cbs = w.cbs /\ Unref(w, v, b)

LEMMA ReleaseBufferOK ==
  ASSUME NEW w, HeapOK(w), NEW b \in DOMAIN w.bufs, w.bufs[b].refs > 0
  PROVE  Released(w, ReleaseBuffer(w, b), b)
<1> DEFINE r == [w EXCEPT !.bufs[b].refs = @ - 1]
           bo == w.bufs[b].bo
<1>1. w \in Heap /\ w.bufs \in Seq(Buf) /\ w.bufs[b] \in Buf /\ bo \in Bo
  <2>1. w \in Heap /\ w.bufs \in Seq(Buf)
    BY DEF HeapOK, Heap
  <2>2. w.bufs[b] \in Buf
    BY <2>1
  <2> QED  BY <2>1, <2>2 DEF Buf
<1>2. [w.bufs EXCEPT ![b].refs = @ - 1] \in Seq(Buf)
  BY <1>1 DEF Buf
<1>3. /\ r \in Heap /\ r.open = w.open /\ r.gem = w.gem /\ r.pool = w.pool /\ r.ctxs = w.ctxs
      /\ r.cbs = w.cbs /\ r.bufs = [w.bufs EXCEPT ![b].refs = @ - 1]
  BY <1>1, <1>2 DEF Heap
<1>4. HeapOK(r)
  BY <1>3 DEF HeapOK
<1>5. ReleaseBuffer(w, b) = IF w.bufs[b].refs = 1 THEN close_bo(r, bo) ELSE r
  BY DEF ReleaseBuffer
<1> HIDE DEF r
<1>6. CASE w.bufs[b].refs # 1
  BY <1>3, <1>4, <1>5, <1>6 DEF Released, Unref
<1>7. CASE w.bufs[b].refs = 1
  <2> DEFINE v == close_bo(r, bo)
  <2>1. Closed(r, v, bo)
    BY <1>1, <1>4, CloseBoOK
  <2>2. ReleaseBuffer(w, b) = v
    BY <1>5, <1>7
  <2> HIDE DEF v
  <2>3. HeapOK(v) /\ v.ctxs = w.ctxs /\ v.cbs = w.cbs /\ v.open = w.open /\ v.pool = w.pool
        /\ v.bufs = [w.bufs EXCEPT ![b].refs = @ - 1]
    BY <2>1, <1>3 DEF Closed, Objects
  <2>4. w.open[bo.fd] # 0 => v.gem = [w.gem EXCEPT ![w.open[bo.fd]] = @ \ {bo.handle}]
    BY <2>1, <1>3 DEF Closed
  <2>5. Released(w, v, b)
    BY <1>7, <2>3, <2>4 DEF Released, Unref
  <2> QED  BY <2>2, <2>5
<1> QED  BY <1>6, <1>7

(* Contexts lose a reference each, and their descriptors with the last.    *)
Fewer(ctxs, xs) ==
  [x \in DOMAIN ctxs |-> IF x \in xs THEN [ctxs[x] EXCEPT !.refs = @ - 1] ELSE ctxs[x]]
LastFds(ctxs, xs) == {ctxs[x].fd : x \in {x \in xs : ctxs[x].refs = 1}}
ShutFds(w, v, fds) ==
  /\ v.open = [fd \in Fds |-> IF fd \in fds THEN 0 ELSE w.open[fd]]
  /\ fds = {} => v.open = w.open /\ v.gem = w.gem
Unplaced(w, v, xs) ==
  /\ HeapOK(v) /\ v.pool = w.pool /\ v.bufs = w.bufs /\ v.cbs = w.cbs
  /\ v.ctxs = Fewer(w.ctxs, xs)
  /\ ShutFds(w, v, LastFds(w.ctxs, xs))

LEMMA FewerOK ==
  ASSUME NEW ctxs \in Seq(Ctx), NEW xs \in SUBSET DOMAIN ctxs, \A x \in xs : ctxs[x].refs > 0
  PROVE  Fewer(ctxs, xs) \in Seq(Ctx) /\ Len(Fewer(ctxs, xs)) = Len(ctxs)
         /\ DOMAIN Fewer(ctxs, xs) = DOMAIN ctxs
<1>1. Len(ctxs) \in Nat /\ DOMAIN ctxs = 1..Len(ctxs)
  OBVIOUS
<1>2. ASSUME NEW x \in DOMAIN ctxs PROVE Fewer(ctxs, xs)[x] \in Ctx
  <2>1. ctxs[x] \in Ctx
    BY <1>1
  <2>2. CASE x \in xs
    BY <2>1, <2>2 DEF Ctx, Fewer
  <2>3. CASE x \notin xs
    BY <2>1, <2>3 DEF Fewer
  <2> QED  BY <2>2, <2>3
<1>3. Fewer(ctxs, xs) \in [1..Len(ctxs) -> Ctx]
  BY <1>1, <1>2 DEF Fewer
<1> QED  BY <1>1, <1>3

LEMMA DropContextsOK ==
  ASSUME NEW w, HeapOK(w), NEW xs \in SUBSET DOMAIN w.ctxs, \A x \in xs : w.ctxs[x].refs > 0
  PROVE  Unplaced(w, DropContexts(w, xs), xs)
<1> DEFINE r == [w EXCEPT !.ctxs = Fewer(w.ctxs, xs)]
           fds == LastFds(w.ctxs, xs)
<1>1. w \in Heap /\ w.ctxs \in Seq(Ctx)
  BY DEF HeapOK, Heap
<1>2. Fewer(w.ctxs, xs) \in Seq(Ctx)
  BY <1>1, FewerOK
<1>3. /\ r \in Heap /\ r.open = w.open /\ r.gem = w.gem /\ r.pool = w.pool /\ r.bufs = w.bufs
      /\ r.cbs = w.cbs /\ r.ctxs = Fewer(w.ctxs, xs)
  BY <1>1, <1>2 DEF Heap
<1>4. HeapOK(r)
  BY <1>3 DEF HeapOK
<1>5. fds \in SUBSET Fds
  <2>1. \A x \in DOMAIN w.ctxs : w.ctxs[x] \in Ctx
    BY <1>1
  <2> QED  BY <2>1 DEF Ctx, LastFds
<1>6. DropContexts(w, xs) = CloseFds(r, fds)
  BY <1>1 DEF DropContexts, Fewer, LastFds
<1> HIDE DEF r, fds
<1>7. FdsClosed(r, CloseFds(r, fds), fds)
  BY <1>4, <1>5, CloseFdsOK
<1> QED  BY <1>3, <1>6, <1>7 DEF FdsClosed, Objects, Unplaced, ShutFds, fds

(* The last reference to a command buffer goes: its binding loses one, its *)
(* scratch is dropped, and then its contexts lose one each.                *)
Emptied(w, d, cb) ==
  IF cb.ops = <<>> THEN d.open = w.open /\ d.gem = w.gem /\ d.pool = w.pool /\ d.bufs = w.bufs
  ELSE \E m : /\ HeapOK(m) /\ Unref(w, m, cb.ops[1].binding)
              /\ Dropped(m, d, cb.ops[1].scratch)
Gone(w, v, c) ==
  /\ HeapOK(v) /\ (Accounts(w) => Accounts(v))
  /\ v.cbs = [w.cbs EXCEPT ![c].refs = @ - 1, ![c].ops = <<>>]
  /\ v.ctxs = Fewer(w.ctxs, ContextsOf(w.cbs[c]))
  /\ \E d : /\ HeapOK(d) /\ Emptied(w, d, w.cbs[c])
            /\ v.pool = d.pool /\ v.bufs = d.bufs
            /\ ShutFds(d, v, LastFds(w.ctxs, ContextsOf(w.cbs[c])))
Kept(w, v, c) ==
  /\ HeapOK(v) /\ v.open = w.open /\ v.gem = w.gem /\ v.pool = w.pool
  /\ v.bufs = w.bufs /\ v.ctxs = w.ctxs
  /\ v.cbs = [w.cbs EXCEPT ![c].refs = @ - 1]

(* A command buffer whose references can be given back.                    *)
Releasable(w, c) ==
  /\ c \in DOMAIN w.cbs /\ w.cbs[c].refs > 0 /\ Len(w.cbs[c].ops) <= 1
  /\ \A n \in DOMAIN w.cbs[c].ops :
       w.cbs[c].ops[n].binding \in DOMAIN w.bufs /\ w.bufs[w.cbs[c].ops[n].binding].refs > 0
  /\ ContextsOf(w.cbs[c]) \subseteq DOMAIN w.ctxs
  /\ \A x \in ContextsOf(w.cbs[c]) : w.ctxs[x].refs > 0

(* An element of a sequence, or the command buffers, are written.          *)
LEMMA SeqWritten ==
  ASSUME NEW S, NEW s \in Seq(S), NEW i \in DOMAIN s, NEW x \in S
  PROVE  /\ [s EXCEPT ![i] = x] \in Seq(S) /\ Len([s EXCEPT ![i] = x]) = Len(s)
         /\ DOMAIN [s EXCEPT ![i] = x] = DOMAIN s
OBVIOUS

LEMMA CbWritten ==
  ASSUME NEW w, HeapOK(w), NEW cbs \in Seq(Cb)
  PROVE  LET v == [w EXCEPT !.cbs = cbs]
         IN  /\ HeapOK(v) /\ v.open = w.open /\ v.gem = w.gem /\ v.pool = w.pool /\ v.bufs = w.bufs
             /\ v.ctxs = w.ctxs /\ v.cbs = cbs
BY DEF HeapOK, Heap

LEMMA DestroyOpsOK ==
  ASSUME NEW w, HeapOK(w), NEW cb \in Cb, Len(cb.ops) <= 1,
         \A n \in DOMAIN cb.ops :
           cb.ops[n].binding \in DOMAIN w.bufs /\ w.bufs[cb.ops[n].binding].refs > 0
  PROVE  LET d == DestroyOps(w, cb.ops)
         IN  /\ HeapOK(d) /\ Emptied(w, d, cb) /\ d.ctxs = w.ctxs /\ d.cbs = w.cbs
             /\ Accounts(w) => Accounts(d)
<1>1. CASE cb.ops = <<>>
  BY <1>1 DEF DestroyOps, Emptied
<1>2. CASE cb.ops # <<>>
  <2> DEFINE b == cb.ops[1].binding
             s == cb.ops[1].scratch
             m == ReleaseBuffer(w, b)
             d == DropScratch(m, s)
  <2>1. cb.ops \in Seq(Op) /\ 1 \in DOMAIN cb.ops
    BY <1>2 DEF Cb
  <2>2. b \in DOMAIN w.bufs /\ w.bufs[b].refs > 0
    BY <2>1
  <2>3. cb.ops[1] \in Op
    BY <2>1
  <2>4. s \in Bo
    BY <2>3 DEF Op
  <2>5. DestroyOps(w, cb.ops) = d
    BY <1>2 DEF DestroyOps
  <2> HIDE DEF m, d, b, s
  <2>6. Released(w, m, b)
    BY <2>2, ReleaseBufferOK DEF m
  <2>7. HeapOK(m) /\ Unref(w, m, b) /\ m.ctxs = w.ctxs /\ m.cbs = w.cbs /\ (Accounts(w) => Accounts(m))
    BY <2>6 DEF Released, Unref, Accounts
  <2>8. Dropped(m, d, s)
    BY <2>4, <2>7, DropScratchOK DEF d
  <2>9. HeapOK(d) /\ d.ctxs = w.ctxs /\ d.cbs = w.cbs /\ (Accounts(w) => Accounts(d))
    BY <2>7, <2>8 DEF Dropped, Objects
  <2>10. Emptied(w, d, cb)
    BY <1>2, <2>7, <2>8 DEF Emptied, b, s
  <2> QED  BY <2>5, <2>9, <2>10
<1> QED  BY <1>1, <1>2

LEMMA ReleaseCommandBufferOK ==
  ASSUME NEW w, HeapOK(w), NEW c, Releasable(w, c)
  PROVE  IF w.cbs[c].refs = 1 THEN Gone(w, ReleaseCommandBuffer(w, c), c)
         ELSE Kept(w, ReleaseCommandBuffer(w, c), c)
<1> DEFINE cb == w.cbs[c]
           less == [w.cbs EXCEPT ![c].refs = @ - 1]
           r == [w EXCEPT !.cbs = less]
<1>1. w \in Heap /\ w.cbs \in Seq(Cb) /\ c \in DOMAIN w.cbs
  BY DEF HeapOK, Heap, Releasable
<1>2. cb \in Cb /\ cb.refs > 0
  BY <1>1 DEF Releasable
<1>3. less \in Seq(Cb) /\ less[c] = [cb EXCEPT !.refs = @ - 1] /\ DOMAIN less = DOMAIN w.cbs
  <2>1. [cb EXCEPT !.refs = @ - 1] \in Cb
    <3> HIDE DEF cb
    <3>1. cb.refs - 1 \in Nat
      BY <1>2 DEF Cb
    <3> QED  BY <1>2, <3>1 DEF Cb
  <2>2. less = [w.cbs EXCEPT ![c] = [cb EXCEPT !.refs = @ - 1]]
    OBVIOUS
  <2> QED  BY <1>1, <2>1, <2>2, SeqWritten
<1>4. r = [w EXCEPT !.cbs[c].refs = @ - 1]
  BY <1>1 DEF Heap
<1> HIDE DEF less
<1>5. /\ HeapOK(r) /\ r.open = w.open /\ r.gem = w.gem /\ r.pool = w.pool /\ r.bufs = w.bufs
      /\ r.ctxs = w.ctxs /\ r.cbs = less
  BY <1>3, CbWritten
<1> HIDE DEF r
<1>6. CASE cb.refs # 1
  <2>1. ReleaseCommandBuffer(w, c) = r
    BY <1>4, <1>6 DEF ReleaseCommandBuffer
  <2> QED  BY <1>5, <1>6, <2>1 DEF Kept, less
<1>7. CASE cb.refs = 1
  <2> DEFINE d == DestroyOps(r, cb.ops)
             after == [less EXCEPT ![c].ops = <<>>]
             e == [d EXCEPT !.cbs = after]
             v == DropContexts(e, ContextsOf(cb))
  <2>1. HeapOK(d) /\ Emptied(r, d, cb) /\ d.ctxs = r.ctxs /\ d.cbs = r.cbs /\ (Accounts(r) => Accounts(d))
    <3>1. \A n \in DOMAIN cb.ops :
             cb.ops[n].binding \in DOMAIN r.bufs /\ r.bufs[cb.ops[n].binding].refs > 0
      BY <1>5 DEF Releasable
    <3>2. Len(cb.ops) <= 1
      BY DEF Releasable
    <3> HIDE DEF cb
    <3> QED  BY <1>2, <1>5, <3>1, <3>2, DestroyOpsOK
  <2>2. e = [d EXCEPT !.cbs[c].ops = <<>>]
    BY <1>5, <2>1 DEF HeapOK, Heap
  <2>3. ReleaseCommandBuffer(w, c) = v
    BY <1>4, <1>7, <2>2 DEF ReleaseCommandBuffer
  <2>4. after \in Seq(Cb) /\ after = [w.cbs EXCEPT ![c].refs = @ - 1, ![c].ops = <<>>]
    <3>1. less[c] \in Cb /\ <<>> \in Seq(Op)
      BY <1>1, <1>3
    <3>2. [less[c] EXCEPT !.ops = <<>>] \in Cb
      BY <3>1 DEF Cb
    <3>3. after = [less EXCEPT ![c] = [less[c] EXCEPT !.ops = <<>>]] /\ c \in DOMAIN less
      BY <1>1, <1>3
    <3>4. after \in Seq(Cb)
      BY <1>3, <3>2, <3>3, SeqWritten
    <3> QED  BY <3>4 DEF less
  <2> HIDE DEF d, after
  <2>5. /\ HeapOK(e) /\ e.open = d.open /\ e.gem = d.gem /\ e.pool = d.pool /\ e.bufs = d.bufs
        /\ e.ctxs = d.ctxs /\ e.cbs = after
    BY <2>1, <2>4, CbWritten
  <2> HIDE DEF e
  <2>6. /\ ContextsOf(cb) \in SUBSET DOMAIN e.ctxs /\ e.ctxs = w.ctxs
        /\ \A x \in ContextsOf(cb) : e.ctxs[x].refs > 0
    BY <1>5, <2>1, <2>5 DEF Releasable
  <2>7. Unplaced(e, v, ContextsOf(cb))
    BY <2>5, <2>6, DropContextsOK
  <2> HIDE DEF v
  <2>8. Emptied(w, d, cb)
    <3>1. CASE cb.ops = <<>>
      BY <3>1, <1>5, <2>1 DEF Emptied
    <3>2. CASE cb.ops # <<>>
      <4>1. PICK m : /\ HeapOK(m) /\ Unref(r, m, cb.ops[1].binding)
                     /\ Dropped(m, d, cb.ops[1].scratch)
        BY <3>2, <2>1 DEF Emptied
      <4>2. Unref(w, m, cb.ops[1].binding)
        BY <4>1, <1>5 DEF Unref
      <4> QED  BY <3>2, <4>1, <4>2 DEF Emptied
    <3> QED  BY <3>1, <3>2
  <2>9. Accounts(w) => Accounts(v)
    BY <1>5, <2>1, <2>5, <2>7 DEF Accounts, Unplaced
  <2>10. v.pool = d.pool /\ v.bufs = d.bufs /\ v.cbs = after /\ v.ctxs = Fewer(w.ctxs, ContextsOf(cb))
         /\ ShutFds(d, v, LastFds(w.ctxs, ContextsOf(cb))) /\ HeapOK(v)
    BY <2>5, <2>6, <2>7 DEF Unplaced, ShutFds
  <2>11. Gone(w, v, c)
    BY <2>1, <2>4, <2>8, <2>9, <2>10 DEF Gone
  <2> QED  BY <1>7, <2>3, <2>11
<1> QED  BY <1>6, <1>7

-----------------------------------------------------------------------------
(* Counting references.                                                    *)

One(p) == IF p THEN 1 ELSE 0
Hit(call, kinds, n) ==
  call.stage \notin {"done", "refused"} /\ call.kind \in kinds /\ call.of = n
Binds(cb, b) == \E n \in DOMAIN cb.ops : cb.ops[n].binding = b
On(cb, x) == cb.refs > 0 /\ x \in ContextsOf(cb)
CallSet(us, kinds, n) == {u \in DOMAIN us : Hit(us[u], kinds, n)}
RecSet(cbs, b) == {c \in DOMAIN cbs : Binds(cbs[c], b)}
PlaceSet(cbs, x) == {c \in DOMAIN cbs : On(cbs[c], x)}
OfDevice(contexts, x) == {n \in DOMAIN contexts : contexts[n] = x}
Transfers == {"transfer", "dealloca"}

BufsBalance(bufs, cbs, us) ==
  \A b \in DOMAIN bufs :
    bufs[b].refs = Mine(bufs[b]) + Cardinality(RecSet(cbs, b)) + Cardinality(CallSet(us, Transfers, b))
CbsBalance(cbs, us) ==
  \A c \in DOMAIN cbs : cbs[c].refs = Mine(cbs[c]) + Cardinality(CallSet(us, {"execute"}, c))
CtxsBalance(ctxs, cbs, contexts) ==
  \A x \in DOMAIN ctxs :
    ctxs[x].refs = Cardinality(PlaceSet(cbs, x)) + Cardinality(OfDevice(contexts, x))

LEMMA CallsAre ==
  ASSUME Types, NEW kinds, NEW n
  PROVE  Calls(kinds, n) = CallSet(units, kinds, n)
<1>1. units \in Seq(Call) /\ DOMAIN units = 1..Len(units)
  BY DEF Types
<1>2. ASSUME NEW u \in 1..Len(units)
      PROVE  u \in Pending \cup Unrun <=> units[u].stage \notin {"done", "refused"}
  <2>1. units[u] \in Call
    BY <1>1
  <2> QED  BY <2>1 DEF Pending, Unrun, Call
<1>3. Pending \cup Unrun \subseteq 1..Len(units)
  BY DEF Pending, Unrun
<1> QED  BY <1>1, <1>2, <1>3 DEF Calls, CallSet, Hit

LEMMA Balance ==
  ASSUME Types
  PROVE  RefsBalance <=> /\ BufsBalance(heap.bufs, heap.cbs, units)
                         /\ CbsBalance(heap.cbs, units)
                         /\ CtxsBalance(heap.ctxs, heap.cbs, device.contexts)
<1>1. \A kinds, n : Calls(kinds, n) = CallSet(units, kinds, n)
  BY CallsAre
<1>2. \A b : Recorded(b) = RecSet(heap.cbs, b)
  BY DEF Recorded, RecSet, Binds
<1>3. \A x : Placed(x) = PlaceSet(heap.cbs, x)
  BY DEF Placed, PlaceSet, On
<1> QED  BY <1>1, <1>2, <1>3
         DEF RefsBalance, BufsBalance, CbsBalance, CtxsBalance, OfDevice, Transfers

Balanced ==
  /\ BufsBalance(heap.bufs, heap.cbs, units)
  /\ CbsBalance(heap.cbs, units)
  /\ CtxsBalance(heap.ctxs, heap.cbs, device.contexts)
LEMMA BalanceNow == Types => (RefsBalance <=> Balanced)
BY Balance DEF Balanced
LEMMA BalanceNext == Types' => (RefsBalance' <=> Balanced')
BY BalanceNow, PTL

(* Sets that differ in u at most.                                          *)
LEMMA Counted ==
  ASSUME NEW S, NEW T, NEW u, IsFiniteSet(S), T \ {u} = S \ {u}
  PROVE  /\ IsFiniteSet(T) /\ Cardinality(S) \in Nat /\ Cardinality(T) \in Nat
         /\ Cardinality(T) = Cardinality(S) - One(u \in S) + One(u \in T)
<1>1. IsFiniteSet(S \ {u}) /\ Cardinality(S) \in Nat
      /\ Cardinality(S \ {u}) = Cardinality(S) - One(u \in S)
  BY FS_RemoveElement, FS_CardinalityType DEF One
<1>2. CASE u \in T
  <2>1. T = (S \ {u}) \cup {u} /\ u \notin S \ {u}
    BY <1>2
  <2>2. IsFiniteSet(T) /\ Cardinality(T) = Cardinality(S \ {u}) + 1
    BY <1>1, <2>1, FS_AddElement
  <2>3. Cardinality(T) \in Nat
    BY <2>2, FS_CardinalityType
  <2> QED  BY <1>1, <1>2, <2>2, <2>3 DEF One
<1>3. CASE u \notin T
  <2>1. T = S \ {u}
    BY <1>3
  <2>2. Cardinality(T) \in Nat
    BY <1>1, <2>1, FS_CardinalityType
  <2> QED  BY <1>1, <1>3, <2>1, <2>2 DEF One
<1> QED  BY <1>2, <1>3

LEMMA SeqFinite ==
  ASSUME NEW S, NEW s \in Seq(S), NEW T \in SUBSET DOMAIN s
  PROVE  IsFiniteSet(T) /\ Cardinality(T) \in Nat
<1>1. DOMAIN s = 1..Len(s) /\ Len(s) \in Int /\ 1 \in Int
  OBVIOUS
<1>2. IsFiniteSet(DOMAIN s)
  BY <1>1, FS_Interval
<1> QED  BY <1>2, FS_Subset, FS_CardinalityType

(* Sequences that differ at i at most.                                     *)
SameBut(s, t, i) ==
  DOMAIN t \ {i} = DOMAIN s \ {i} /\ \A j \in DOMAIN s \ {i} : t[j] = s[j]

(* One call is added or changes.                                           *)
HitsAt(us, u, kinds, n) == One(u \in DOMAIN us /\ Hit(us[u], kinds, n))
CallsMove(us, vs, u, kinds, n) ==
  /\ Cardinality(CallSet(us, kinds, n)) \in Nat /\ Cardinality(CallSet(vs, kinds, n)) \in Nat
  /\ Cardinality(CallSet(vs, kinds, n)) =
       Cardinality(CallSet(us, kinds, n)) - HitsAt(us, u, kinds, n) + HitsAt(vs, u, kinds, n)
LEMMA CallsCounted ==
  ASSUME NEW us \in Seq(Call), NEW vs \in Seq(Call), NEW u, SameBut(us, vs, u), NEW kinds, NEW n
  PROVE  CallsMove(us, vs, u, kinds, n)
<1> DEFINE S == CallSet(us, kinds, n)
           T == CallSet(vs, kinds, n)
<1>1. T \ {u} = S \ {u}
  BY DEF CallSet, SameBut
<1>2. IsFiniteSet(S)
  BY SeqFinite DEF CallSet
<1>3. One(u \in S) = HitsAt(us, u, kinds, n) /\ One(u \in T) = HitsAt(vs, u, kinds, n)
  BY DEF CallSet, HitsAt, One
<1>4. /\ Cardinality(S) \in Nat /\ Cardinality(T) \in Nat
      /\ Cardinality(T) = Cardinality(S) - One(u \in S) + One(u \in T)
  <2> HIDE DEF S, T
  <2> QED  BY <1>1, <1>2, Counted
<1> QED  BY <1>3, <1>4 DEF CallsMove

(* One command buffer is added or changes.                                 *)
BindsAt(cs, c, b) == One(c \in DOMAIN cs /\ Binds(cs[c], b))
OnAt(cs, c, x) == One(c \in DOMAIN cs /\ On(cs[c], x))
BindingMoves(cs, ds, c, b) ==
  /\ Cardinality(RecSet(cs, b)) \in Nat /\ Cardinality(RecSet(ds, b)) \in Nat
  /\ Cardinality(RecSet(ds, b)) = Cardinality(RecSet(cs, b)) - BindsAt(cs, c, b) + BindsAt(ds, c, b)
PlaceMoves(cs, ds, c, x) ==
  /\ Cardinality(PlaceSet(cs, x)) \in Nat /\ Cardinality(PlaceSet(ds, x)) \in Nat
  /\ Cardinality(PlaceSet(ds, x)) = Cardinality(PlaceSet(cs, x)) - OnAt(cs, c, x) + OnAt(ds, c, x)
LEMMA BindingsCounted ==
  ASSUME NEW cs \in Seq(Cb), NEW ds \in Seq(Cb), NEW c, SameBut(cs, ds, c), NEW b
  PROVE  BindingMoves(cs, ds, c, b)
<1> DEFINE S == RecSet(cs, b)
           T == RecSet(ds, b)
<1>1. T \ {c} = S \ {c}
  BY DEF RecSet, SameBut
<1>2. IsFiniteSet(S)
  BY SeqFinite DEF RecSet
<1>3. One(c \in S) = BindsAt(cs, c, b) /\ One(c \in T) = BindsAt(ds, c, b)
  BY DEF RecSet, BindsAt, One
<1>4. /\ Cardinality(S) \in Nat /\ Cardinality(T) \in Nat
      /\ Cardinality(T) = Cardinality(S) - One(c \in S) + One(c \in T)
  <2> HIDE DEF S, T
  <2> QED  BY <1>1, <1>2, Counted
<1> QED  BY <1>3, <1>4 DEF BindingMoves

LEMMA PlacesCounted ==
  ASSUME NEW cs \in Seq(Cb), NEW ds \in Seq(Cb), NEW c, SameBut(cs, ds, c), NEW x
  PROVE  PlaceMoves(cs, ds, c, x)
<1> DEFINE S == PlaceSet(cs, x)
           T == PlaceSet(ds, x)
<1>1. T \ {c} = S \ {c}
  BY DEF PlaceSet, SameBut
<1>2. IsFiniteSet(S)
  BY SeqFinite DEF PlaceSet
<1>3. One(c \in S) = OnAt(cs, c, x) /\ One(c \in T) = OnAt(ds, c, x)
  BY DEF PlaceSet, OnAt, One
<1>4. /\ Cardinality(S) \in Nat /\ Cardinality(T) \in Nat
      /\ Cardinality(T) = Cardinality(S) - One(c \in S) + One(c \in T)
  <2> HIDE DEF S, T
  <2> QED  BY <1>1, <1>2, Counted
<1> QED  BY <1>3, <1>4 DEF PlaceMoves
-----------------------------------------------------------------------------
(* Whoever names an object has a reference to it.                          *)

LEMMA BufRefs ==
  ASSUME Types, Links, RefsBalance, NEW b \in DOMAIN heap.bufs,
         \/ heap.bufs[b].client
         \/ \E u \in DOMAIN units : units[u].stage \notin {"done", "refused"}
                                    /\ units[u].kind # "execute" /\ units[u].of = b
         \/ \E c \in DOMAIN heap.cbs : Binds(heap.cbs[c], b)
  PROVE  heap.bufs[b].refs > 0
<1> DEFINE R == RecSet(heap.cbs, b)
           S == CallSet(units, Transfers, b)
<1>1. /\ heap.bufs[b].refs = Mine(heap.bufs[b]) + Cardinality(R) + Cardinality(S)
  BY Balance DEF BufsBalance
<1>2. units \in Seq(Call) /\ heap.cbs \in Seq(Cb)
  BY DEF Types, HeapOK, Heap
<1>3. IsFiniteSet(R) /\ IsFiniteSet(S) /\ Cardinality(R) \in Nat /\ Cardinality(S) \in Nat
  BY <1>2, SeqFinite DEF RecSet, CallSet
<1>4. Mine(heap.bufs[b]) \in {0, 1} /\ (heap.bufs[b].client => Mine(heap.bufs[b]) = 1)
  BY DEF Mine
<1>5. CASE heap.bufs[b].client
  BY <1>1, <1>3, <1>4, <1>5
<1>6. ASSUME NEW u \in DOMAIN units, units[u].stage \notin {"done", "refused"},
             units[u].kind # "execute", units[u].of = b
      PROVE  heap.bufs[b].refs > 0
  <2>1. units[u] \in Call
    BY <1>2
  <2>2. u \in S
    BY <1>6, <2>1 DEF CallSet, Hit, Call, Transfers
  <2>3. Cardinality(S) > 0
    BY <1>3, <2>2, OneLess
  <2> QED  BY <1>1, <1>3, <1>4, <2>3
<1>7. ASSUME NEW c \in DOMAIN heap.cbs, Binds(heap.cbs[c], b) PROVE heap.bufs[b].refs > 0
  <2>1. c \in R
    BY <1>7 DEF RecSet
  <2>2. Cardinality(R) > 0
    BY <1>3, <2>1, OneLess
  <2> QED  BY <1>1, <1>3, <1>4, <2>2
<1> QED  BY <1>5, <1>6, <1>7

LEMMA CbRefs ==
  ASSUME Types, RefsBalance, NEW c \in DOMAIN heap.cbs,
         \/ heap.cbs[c].client
         \/ \E u \in DOMAIN units : units[u].stage \notin {"done", "refused"}
                                    /\ units[u].kind = "execute" /\ units[u].of = c
  PROVE  heap.cbs[c].refs > 0
<1> DEFINE S == CallSet(units, {"execute"}, c)
<1>1. heap.cbs[c].refs = Mine(heap.cbs[c]) + Cardinality(S)
  BY Balance DEF CbsBalance
<1>2. units \in Seq(Call)
  BY DEF Types
<1>3. IsFiniteSet(S) /\ Cardinality(S) \in Nat
  BY <1>2, SeqFinite DEF CallSet
<1>4. Mine(heap.cbs[c]) \in {0, 1} /\ (heap.cbs[c].client => Mine(heap.cbs[c]) = 1)
  BY DEF Mine
<1>5. CASE heap.cbs[c].client
  BY <1>1, <1>3, <1>4, <1>5
<1>6. ASSUME NEW u \in DOMAIN units, units[u].stage \notin {"done", "refused"},
             units[u].kind = "execute", units[u].of = c
      PROVE  heap.cbs[c].refs > 0
  <2>1. u \in S
    BY <1>6 DEF CallSet, Hit
  <2>2. Cardinality(S) > 0
    BY <1>3, <2>1, OneLess
  <2> QED  BY <1>1, <1>3, <1>4, <2>2
<1> QED  BY <1>5, <1>6

(* A context is its device's once, and one more for each command buffer.   *)
LEMMA DeviceContexts ==
  ASSUME Types, Links
  PROVE  /\ Range(device.contexts) \subseteq DOMAIN heap.ctxs
         /\ Up => Range(device.contexts) = (Base + 1)..(Base + NumContexts)
         /\ \A x : Cardinality(OfDevice(device.contexts, x)) = One(x \in Range(device.contexts))
<1>1. NumContexts \in Nat /\ device.created \in Nat /\ Base \in Int
  BY LifetimesAssumption DEF Types, Device, Base
<1>2. CASE ~Up
  <2>1. device.contexts = <<>>
    BY <1>2 DEF Links
  <2>2. Range(device.contexts) = {} /\ \A x : OfDevice(device.contexts, x) = {}
    BY <2>1 DEF Range, OfDevice
  <2> QED  BY <1>2, <2>2, FS_EmptySet DEF One
<1>3. CASE Up
  <2>1. device.contexts = [n \in 1..NumContexts |-> Base + n]
    BY <1>3 DEF Links
  <2>2. Range(device.contexts) = (Base + 1)..(Base + NumContexts)
    <3>1. ASSUME NEW x \in (Base + 1)..(Base + NumContexts) PROVE x \in Range(device.contexts)
      <4>1. x - Base \in 1..NumContexts /\ Base + (x - Base) = x
        BY <1>1
      <4>2. device.contexts[x - Base] = x /\ x - Base \in DOMAIN device.contexts
        BY <2>1, <4>1
      <4> QED  BY <4>2 DEF Range
    <3>2. ASSUME NEW x \in Range(device.contexts) PROVE x \in (Base + 1)..(Base + NumContexts)
      <4>1. PICK n \in 1..NumContexts : x = Base + n
        BY <2>1 DEF Range
      <4> QED  BY <4>1, <1>1
    <3> QED  BY <3>1, <3>2
  <2>3. DOMAIN heap.ctxs = 1..(device.created * NumContexts) /\ device.created > 0
    <3>1. heap.ctxs \in Seq(Ctx)
      BY DEF Types, HeapOK, Heap
    <3> QED  BY <3>1, <1>3 DEF Links
  <2>4. Base + NumContexts = device.created * NumContexts /\ Base >= 0
    <3>1. (device.created - 1) * NumContexts + NumContexts = device.created * NumContexts
      BY <1>1, <2>3
    <3>2. (device.created - 1) * NumContexts >= 0
      BY <1>1, <2>3
    <3> QED  BY <3>1, <3>2 DEF Base
  <2>5. Range(device.contexts) \subseteq DOMAIN heap.ctxs
    BY <1>1, <2>2, <2>3, <2>4
  <2>6. ASSUME NEW x PROVE Cardinality(OfDevice(device.contexts, x)) = One(x \in Range(device.contexts))
    <3>1. CASE x \in Range(device.contexts)
      <4>1. PICK n \in 1..NumContexts : x = Base + n
        BY <3>1, <2>1 DEF Range
      <4>2. OfDevice(device.contexts, x) = {n}
        BY <4>1, <2>1, <1>1 DEF OfDevice
      <4> QED  BY <3>1, <4>2, FS_Singleton DEF One
    <3>2. CASE x \notin Range(device.contexts)
      <4>1. OfDevice(device.contexts, x) = {}
        BY <3>2 DEF OfDevice, Range
      <4> QED  BY <3>2, <4>1, FS_EmptySet DEF One
    <3> QED  BY <3>1, <3>2
  <2> QED  BY <2>2, <2>5, <2>6
<1> QED  BY <1>2, <1>3

LEMMA CtxRefs ==
  ASSUME Types, Links, RefsBalance
  PROVE  /\ \A x \in Range(device.contexts) : x \in DOMAIN heap.ctxs /\ heap.ctxs[x].refs > 0
         /\ \A c \in DOMAIN heap.cbs : heap.cbs[c].refs > 0 =>
              \A x \in ContextsOf(heap.cbs[c]) :
                /\ x \in DOMAIN heap.ctxs /\ heap.ctxs[x].refs > 0
                /\ x \in Range(device.contexts) => heap.ctxs[x].refs > 1
<1>1. heap.cbs \in Seq(Cb)
  BY DEF Types, HeapOK, Heap
<1>2. ASSUME NEW x \in DOMAIN heap.ctxs
      PROVE  /\ IsFiniteSet(PlaceSet(heap.cbs, x)) /\ Cardinality(PlaceSet(heap.cbs, x)) \in Nat
             /\ heap.ctxs[x].refs = Cardinality(PlaceSet(heap.cbs, x)) + One(x \in Range(device.contexts))
  BY <1>1, SeqFinite, Balance, DeviceContexts DEF PlaceSet, CtxsBalance
<1>3. ASSUME NEW x \in Range(device.contexts) PROVE x \in DOMAIN heap.ctxs /\ heap.ctxs[x].refs > 0
  BY <1>2, DeviceContexts DEF One
<1>4. ASSUME NEW c \in DOMAIN heap.cbs, heap.cbs[c].refs > 0, NEW x \in ContextsOf(heap.cbs[c])
      PROVE  /\ x \in DOMAIN heap.ctxs /\ heap.ctxs[x].refs > 0
             /\ x \in Range(device.contexts) => heap.ctxs[x].refs > 1
  <2>1. x \in DOMAIN heap.ctxs
    BY DEF Links
  <2>2. c \in PlaceSet(heap.cbs, x)
    BY <1>4 DEF PlaceSet, On
  <2>3. Cardinality(PlaceSet(heap.cbs, x)) > 0
    BY <1>2, <2>1, <2>2, OneLess
  <2> QED  BY <1>2, <2>1, <2>3 DEF One
<1> QED  BY <1>3, <1>4

LEMMA CbReleasable ==
  ASSUME Types, Links, RefsBalance, NEW c \in DOMAIN heap.cbs, heap.cbs[c].refs > 0
  PROVE  Releasable(heap, c)
<1>1. \A n \in DOMAIN heap.cbs[c].ops :
        /\ heap.cbs[c].ops[n].binding \in DOMAIN heap.bufs
        /\ heap.bufs[heap.cbs[c].ops[n].binding].refs > 0
  BY BufRefs DEF Links, Binds
<1>2. \A x \in ContextsOf(heap.cbs[c]) : x \in DOMAIN heap.ctxs /\ heap.ctxs[x].refs > 0
  BY CtxRefs
<1> QED  BY <1>1, <1>2 DEF Releasable, Links

-----------------------------------------------------------------------------
(* Every action keeps the core of the invariant.                           *)

Core == Types /\ Links /\ RefsBalance /\ PoolAccounts /\ Descriptors

(* Nobody names an object that is not there yet.                           *)
LEMMA NotNamed ==
  ASSUME Types, Links
  PROVE  /\ \A b : b \notin DOMAIN heap.bufs =>
              RecSet(heap.cbs, b) = {} /\ CallSet(units, Transfers, b) = {}
         /\ \A c : c \notin DOMAIN heap.cbs => CallSet(units, {"execute"}, c) = {}
         /\ \A x : x \notin DOMAIN heap.ctxs => PlaceSet(heap.cbs, x) = {}
BY DEF Links, RecSet, Binds, CallSet, Hit, Transfers, PlaceSet, On

(* The state that a step which touches neither device nor descriptors      *)
(* leaves as it was.                                                       *)
LEMMA DescriptorsKept ==
  ASSUME Descriptors, heap'.open = heap.open, DOMAIN heap'.ctxs = DOMAIN heap.ctxs,
         \A x \in DOMAIN heap.ctxs :
           heap'.ctxs[x].fd = heap.ctxs[x].fd /\ (heap'.ctxs[x].refs > 0 <=> heap.ctxs[x].refs > 0),
         Up' <=> Up, device'.created = device.created, device'.file = device.file,
         device'.allocator = device.allocator
  PROVE  Descriptors'
BY DEF Descriptors, Owned, Base

LEMMA UpIsOpen ==
  ASSUME Types, Links, RefsBalance, Descriptors, Up
  PROVE  /\ Base \in Nat /\ device.file \in Fds /\ device.allocator \in Fds
         /\ heap.open[device.allocator] = Base + 1 /\ heap.open[device.allocator] # 0
<1>1. NumContexts \in Nat /\ device.created \in Nat /\ device.created > 0
  BY LifetimesAssumption DEF Types, Device, Links
<1>2. (device.created - 1) * NumContexts \in Nat
  BY <1>1
<1> QED  BY <1>2 DEF Descriptors, Base

(* Buffer b is there, with GEM buffer bo; w is the heap that made it.      *)
Allocated(w, b, bo) ==
  /\ Created(heap, w, bo, device.allocator)
  /\ heap'.open = w.open /\ heap'.gem = w.gem /\ heap'.pool.free = w.pool.free
  /\ heap'.ctxs = heap.ctxs /\ heap'.cbs = heap.cbs
  /\ DOMAIN heap'.bufs = DOMAIN heap.bufs \cup {b} /\ heap'.bufs[b].bo = bo
  /\ \A a \in DOMAIN heap.bufs : heap'.bufs[a] = heap.bufs[a]
LEMMA AllocateBufferCore ==
  ASSUME Core, AllocateBuffer
  PROVE  (\E w, b, bo : Allocated(w, b, bo)) /\ Core'
<1> DEFINE made == CreateBo(heap, device.allocator, 4)
           new == [refs |-> 1, client |-> TRUE, bo |-> made[2], deallocated |-> FALSE]
           k == Len(heap.bufs)
<1> USE DEF Core
<1>1. HeapOK(heap) /\ heap \in Heap /\ heap.bufs \in Seq(Buf) /\ heap.cbs \in Seq(Cb) /\ units \in Seq(Call)
  BY DEF Types, HeapOK, Heap
<1>2. device.allocator \in Fds /\ heap.open[device.allocator] # 0
  BY UpIsOpen DEF AllocateBuffer, Live, Up
<1>3. Created(heap, made[1], made[2], device.allocator)
  BY <1>1, <1>2, CreateBoOK
<1>4. heap' = [made[1] EXCEPT !.bufs = Append(@, new)] /\ UNCHANGED <<units, device, late>>
  BY DEF AllocateBuffer
<1> HIDE DEF made
<1>5. new \in Buf
  BY <1>3 DEF Created, Buf
<1>6. HeapOK(made[1]) /\ made[1].bufs = heap.bufs /\ made[1].cbs = heap.cbs /\ made[1].ctxs = heap.ctxs
      /\ made[1].open = heap.open /\ made[1].pool = heap.pool
  BY <1>3 DEF Created, Objects
<1>7. Append(heap.bufs, new) \in Seq(Buf)
  BY <1>1, <1>5
<1> HIDE DEF new
<1>8. /\ HeapOK(heap') /\ heap'.open = heap.open /\ heap'.pool = heap.pool /\ heap'.ctxs = heap.ctxs
      /\ heap'.cbs = heap.cbs /\ heap'.bufs = Append(heap.bufs, new)
  BY <1>4, <1>6, <1>7 DEF HeapOK, Heap
<1>9. /\ k \in Nat /\ DOMAIN heap.bufs = 1..k /\ DOMAIN heap'.bufs = 1..(k + 1)
      /\ heap'.bufs[k + 1] = new /\ \A b \in 1..k : heap'.bufs[b] = heap.bufs[b]
  BY <1>1, <1>8
<1>10. Types'
  BY <1>4, <1>8 DEF Types
<1>11. Links'
  <2>1. Up' = Up /\ Base' = Base /\ DOMAIN heap.bufs \subseteq DOMAIN heap'.bufs
    BY <1>4, <1>9 DEF Up, Base
  <2> QED  BY <1>4, <1>8, <2>1 DEF Links
<1>12. RefsBalance'
  <2>1. ASSUME NEW b \in DOMAIN heap'.bufs
        PROVE  heap'.bufs[b].refs = Mine(heap'.bufs[b]) + Cardinality(RecSet(heap'.cbs, b))
                                      + Cardinality(CallSet(units', Transfers, b))
    <3>1. CASE b \in 1..k
      BY <3>1, <1>4, <1>8, <1>9, Balance DEF BufsBalance
    <3>2. CASE b = k + 1
      <4>1. RecSet(heap'.cbs, b) = {} /\ CallSet(units', Transfers, b) = {}
        BY <3>2, <1>4, <1>8, <1>9, NotNamed
      <4>2. heap'.bufs[b].refs = 1 /\ Mine(heap'.bufs[b]) = 1
        BY <3>2, <1>9 DEF new, Mine
      <4> QED  BY <4>1, <4>2, FS_EmptySet
    <3> QED  BY <3>1, <3>2, <1>9
  <2>2. BufsBalance(heap'.bufs, heap'.cbs, units')
    BY <2>1 DEF BufsBalance
  <2>3. CbsBalance(heap'.cbs, units') /\ CtxsBalance(heap'.ctxs, heap'.cbs, device'.contexts)
    BY <1>4, <1>8, Balance
  <2> QED  BY <1>10, <2>2, <2>3, BalanceNext DEF Balanced
<1>13. PoolAccounts'
  BY <1>8 DEF PoolAccounts
<1>14. Descriptors'
  BY <1>4, <1>8, DescriptorsKept DEF Up
<1>15. Allocated(made[1], k + 1, made[2])
  <2>1. heap'.gem = made[1].gem
    <3> DEFINE m == made[1]
    <3> HIDE DEF m
    <3>1. m \in Heap /\ heap' = [m EXCEPT !.bufs = Append(@, new)]
      BY <1>4, <1>6 DEF m, HeapOK
    <3> QED  BY <3>1 DEF Heap, m
  <2>2. DOMAIN heap'.bufs = DOMAIN heap.bufs \cup {k + 1} /\ new.bo = made[2]
    BY <1>9 DEF new
  <2> QED  BY <1>3, <1>6, <1>8, <1>9, <2>1, <2>2 DEF Allocated
<1>16. Core'
  BY <1>10, <1>11, <1>12, <1>13, <1>14
<1> QED  BY <1>15, <1>16

(* Contexts in turn are all of them.                                       *)
LEMMA Rotation ==
  ASSUME NEW p \in Nat
  PROVE  /\ \A n \in 0..(NumContexts - 1) : ((p + n) % NumContexts) + 1 \in 1..NumContexts
         /\ \A m \in 1..NumContexts :
              \E n \in 0..(NumContexts - 1) : ((p + n) % NumContexts) + 1 = m
<1> DEFINE Turns(k) ==
      /\ \A n \in 0..(k - 1) : ((p + n) % k) + 1 \in 1..k
      /\ \A m \in 1..k : \E n \in 0..(k - 1) : ((p + n) % k) + 1 = m
<1>1. ASSUME NEW k \in 1..8 PROVE Turns(k)
  <2>1. ASSUME NEW n \in 0..(k - 1) PROVE ((p + n) % k) + 1 \in 1..k
    OBVIOUS
  <2>2. ASSUME NEW m \in 1..k PROVE \E n \in 0..(k - 1) : ((p + n) % k) + 1 = m
    <3> DEFINE r == p % k
               n == IF m - 1 >= r THEN m - 1 - r ELSE m - 1 - r + k
    <3>1. r \in 0..(k - 1) /\ n \in 0..(k - 1)
      OBVIOUS
    <3>2. ((p + n) % k) + 1 = m
      <4>1. CASE k = 1 BY <4>1
      <4>2. CASE k = 2 BY <4>2
      <4>3. CASE k = 3 BY <4>3
      <4>4. CASE k = 4 BY <4>4
      <4>5. CASE k = 5 BY <4>5
      <4>6. CASE k = 6 BY <4>6
      <4>7. CASE k = 7 BY <4>7
      <4>8. CASE k = 8 BY <4>8
      <4> QED  BY <4>1, <4>2, <4>3, <4>4, <4>5, <4>6, <4>7, <4>8
    <3> QED  BY <3>1, <3>2
  <2> QED  BY <2>1, <2>2
<1>2. NumContexts \in 1..8
  BY LifetimesAssumption
<1> QED  BY <1>1, <1>2

(* Command buffer c is there, placed on every context.                     *)
PlacedOn(c) ==
  /\ heap'.open = heap.open /\ heap'.gem = heap.gem /\ heap'.pool = heap.pool /\ heap'.bufs = heap.bufs
  /\ DOMAIN heap'.ctxs = DOMAIN heap.ctxs
  /\ \A x \in DOMAIN heap.ctxs : heap'.ctxs[x].fd = heap.ctxs[x].fd
  /\ c \notin DOMAIN heap.cbs /\ DOMAIN heap'.cbs = DOMAIN heap.cbs \cup {c}
  /\ heap'.cbs[c].ops = <<>> /\ ContextsOf(heap'.cbs[c]) = Range(device.contexts)
  /\ \A d \in DOMAIN heap.cbs : heap'.cbs[d] = heap.cbs[d]
  /\ device'.state = device.state /\ device'.created = device.created
  /\ device'.allocator = device.allocator /\ device'.contexts = device.contexts
LEMMA CreateCommandBufferCore ==
  ASSUME Core, CreateCommandBuffer
  PROVE  (\E c : PlacedOn(c)) /\ Core'
<1> DEFINE At(n) == device.contexts[((device.placed + n) % NumContexts) + 1]
           others == [n \in 1..(NumContexts - 1) |-> At(n)]
           new == [refs |-> 1, client |-> TRUE, context |-> At(0), siblings |-> others, ops |-> <<>>]
           k == Len(heap.cbs)
           mine == Range(device.contexts)
           more == [x \in DOMAIN heap.ctxs |->
                      IF x \in mine THEN [heap.ctxs[x] EXCEPT !.refs = @ + 1] ELSE heap.ctxs[x]]
<1> USE DEF Core
<1>1. /\ HeapOK(heap) /\ heap \in Heap /\ heap.bufs \in Seq(Buf) /\ heap.cbs \in Seq(Cb)
      /\ heap.ctxs \in Seq(Ctx) /\ units \in Seq(Call) /\ device \in Device /\ NumContexts \in 1..8
  BY LifetimesAssumption DEF Types, HeapOK, Heap
<1>2. /\ heap' = [heap EXCEPT !.cbs = Append(@, new), !.ctxs = more]
      /\ device' = [device EXCEPT !.placed = @ + 1] /\ UNCHANGED <<units, late>> /\ Live
  BY DEF CreateCommandBuffer
<1>3. device.contexts = [n \in 1..NumContexts |-> Base + n] /\ device.placed \in Nat /\ Up
  BY <1>1, <1>2 DEF Links, Up, Live, Device
<1>4. mine \subseteq DOMAIN heap.ctxs /\ DOMAIN heap.ctxs \subseteq Nat
  BY <1>1, DeviceContexts
<1>5. \A n \in 0..(NumContexts - 1) : At(n) \in mine /\ At(n) \in Nat
  <2>1. \A n \in 0..(NumContexts - 1) : ((device.placed + n) % NumContexts) + 1 \in DOMAIN device.contexts
    BY <1>3, Rotation
  <2> QED  BY <1>4, <2>1 DEF Range
<1>6. mine = {At(n) : n \in 0..(NumContexts - 1)}
  <2>1. ASSUME NEW x \in mine PROVE \E n \in 0..(NumContexts - 1) : x = At(n)
    <3>1. PICK m \in 1..NumContexts : x = device.contexts[m]
      BY <1>3 DEF Range
    <3>2. PICK n \in 0..(NumContexts - 1) : ((device.placed + n) % NumContexts) + 1 = m
      BY <1>3, Rotation
    <3> QED  BY <3>1, <3>2
  <2> HIDE DEF At
  <2> QED  BY <1>5, <2>1
<1> HIDE DEF At
<1>7. others \in Seq(Nat) /\ At(0) \in Nat
  <2>1. \A n \in 1..(NumContexts - 1) : At(n) \in Nat
    BY <1>5
  <2>2. others \in [1..(NumContexts - 1) -> Nat] /\ NumContexts - 1 \in Nat
    BY <1>1, <2>1
  <2>3. 0 \in 0..(NumContexts - 1)
    BY <1>1
  <2> QED  BY <1>5, <2>2, <2>3
<1>8. ContextsOf(new) = mine
  <2>1. {At(0)} \cup {At(n) : n \in 1..(NumContexts - 1)} = {At(n) : n \in 0..(NumContexts - 1)}
    BY <1>1
  <2>2. Range(others) = {At(n) : n \in 1..(NumContexts - 1)}
    BY DEF Range
  <2> QED  BY <1>6, <2>1, <2>2 DEF ContextsOf
<1>9. new \in Cb
  BY <1>7 DEF Cb
<1>10. more \in Seq(Ctx) /\ DOMAIN more = DOMAIN heap.ctxs /\ Len(more) = Len(heap.ctxs)
  <2>1. \A x \in DOMAIN heap.ctxs : heap.ctxs[x] \in Ctx /\ DOMAIN heap.ctxs = 1..Len(heap.ctxs)
    BY <1>1
  <2>2. \A x \in DOMAIN heap.ctxs : more[x] \in Ctx
    BY <2>1 DEF Ctx
  <2>3. more \in [1..Len(heap.ctxs) -> Ctx] /\ Len(heap.ctxs) \in Nat
    <3>1. DOMAIN heap.ctxs = 1..Len(heap.ctxs) /\ Len(heap.ctxs) \in Nat
      BY <1>1
    <3> HIDE DEF mine
    <3> QED  BY <3>1, <2>2
  <2> HIDE DEF more
  <2> QED  BY <1>1, <2>3
<1>11. Append(heap.cbs, new) \in Seq(Cb)
  BY <1>1, <1>9
<1>12. \A x \in DOMAIN heap.ctxs : more[x].fd = heap.ctxs[x].fd
                                   /\ more[x].refs = heap.ctxs[x].refs + One(x \in mine)
                                   /\ heap.ctxs[x].refs \in Nat
  <2>1. \A x \in DOMAIN heap.ctxs : heap.ctxs[x] \in Ctx
    BY <1>1
  <2> QED  BY <2>1 DEF Ctx, One
<1>13. new.refs = 1 /\ new.client = TRUE /\ new.ops = <<>>
  OBVIOUS
<1> HIDE DEF new
<1>14. /\ HeapOK(heap') /\ heap'.open = heap.open /\ heap'.pool = heap.pool /\ heap'.ctxs = more
       /\ heap'.gem = heap.gem
       /\ heap'.bufs = heap.bufs /\ heap'.cbs = Append(heap.cbs, new)
  <2>1. heap' = [heap EXCEPT !.cbs = Append(heap.cbs, new), !.ctxs = more]
    <3> HIDE DEF more
    <3> QED  BY <1>1, <1>2 DEF Heap
  <2> HIDE DEF more
  <2> QED  BY <1>1, <1>10, <1>11, <2>1 DEF HeapOK, Heap
<1> HIDE DEF more, mine
<1>15. /\ k \in Nat /\ DOMAIN heap.cbs = 1..k /\ DOMAIN heap'.cbs = 1..(k + 1)
       /\ heap'.cbs[k + 1] = new /\ \A c \in 1..k : heap'.cbs[c] = heap.cbs[c]
  BY <1>1, <1>14
<1>16. device' \in Device /\ device'.state = device.state /\ device'.created = device.created
       /\ device'.file = device.file /\ device'.allocator = device.allocator
       /\ device'.contexts = device.contexts
  <2>1. device.placed + 1 \in Nat
    BY <1>3
  <2> QED  BY <1>1, <1>2, <2>1 DEF Device
<1>17. Types'
  BY <1>2, <1>14, <1>16 DEF Types
<1>18. Up' = Up /\ Base' = Base
  BY <1>16 DEF Up, Base
<1>19. Links'
  <2>1. ASSUME NEW c \in DOMAIN heap'.cbs
        PROVE  /\ ContextsOf(heap'.cbs[c]) \subseteq DOMAIN heap'.ctxs
               /\ Len(heap'.cbs[c].ops) <= 1
               /\ \A n \in DOMAIN heap'.cbs[c].ops : heap'.cbs[c].ops[n].binding \in DOMAIN heap'.bufs
    <3>1. CASE c \in 1..k
      BY <3>1, <1>10, <1>14, <1>15 DEF Links
    <3>2. CASE c = k + 1
      BY <3>2, <1>4, <1>8, <1>10, <1>13, <1>14, <1>15
    <3> QED  BY <3>1, <3>2, <1>15
  <2>2. Len(heap'.ctxs) = device'.created * NumContexts
    BY <1>10, <1>14, <1>16 DEF Links
  <2>3. \A u \in DOMAIN units' :
          /\ units'[u].of \in IF units'[u].kind = "execute" THEN DOMAIN heap'.cbs ELSE DOMAIN heap'.bufs
          /\ units'[u].stage = "running" => units'[u].kind = "execute"
          /\ Len(units'[u].regcmd) <= 1
          /\ units'[u].regcmd # <<>> => units'[u].stage = "running"
    <3>1. DOMAIN heap.cbs \subseteq DOMAIN heap'.cbs
      BY <1>15
    <3> QED  BY <1>2, <1>14, <3>1 DEF Links
  <2>4. (device'.contexts = IF Up' THEN [n \in 1..NumContexts |-> Base' + n] ELSE <<>>)
        /\ (Up' => device'.created > 0)
    BY <1>16, <1>18 DEF Links
  <2> QED  BY <2>1, <2>2, <2>3, <2>4 DEF Links
<1>20. RefsBalance'
  <2>1. SameBut(heap.cbs, heap'.cbs, k + 1) /\ heap'.cbs \in Seq(Cb)
        /\ k + 1 \notin DOMAIN heap.cbs /\ k + 1 \in DOMAIN heap'.cbs
    BY <1>1, <1>9, <1>14 DEF SameBut
  <2>2. ASSUME NEW b PROVE Cardinality(RecSet(heap'.cbs, b)) = Cardinality(RecSet(heap.cbs, b))
    <3>1. BindingMoves(heap.cbs, heap'.cbs, k + 1, b)
      BY <1>1, <2>1, BindingsCounted
    <3>2. BindsAt(heap.cbs, k + 1, b) = 0 /\ BindsAt(heap'.cbs, k + 1, b) = 0
      BY <1>13, <1>15, <2>1 DEF Binds, BindsAt, One
    <3> QED  BY <3>1, <3>2 DEF BindingMoves
  <2>3. ASSUME NEW x
        PROVE  /\ Cardinality(PlaceSet(heap.cbs, x)) \in Nat
               /\ Cardinality(PlaceSet(heap'.cbs, x)) = Cardinality(PlaceSet(heap.cbs, x)) + One(x \in mine)
    <3>1. PlaceMoves(heap.cbs, heap'.cbs, k + 1, x)
      BY <1>1, <2>1, PlacesCounted
    <3>2. OnAt(heap.cbs, k + 1, x) = 0 /\ OnAt(heap'.cbs, k + 1, x) = One(x \in mine)
      BY <1>8, <1>13, <1>15, <2>1 DEF On, OnAt, One
    <3>3. One(x \in mine) \in Nat
      BY DEF One
    <3> QED  BY <3>1, <3>2, <3>3 DEF PlaceMoves
  <2>4. BufsBalance(heap'.bufs, heap'.cbs, units')
    BY <1>2, <1>14, <2>2, Balance DEF BufsBalance
  <2>5. CbsBalance(heap'.cbs, units')
    <3>1. ASSUME NEW c \in DOMAIN heap'.cbs
          PROVE  heap'.cbs[c].refs = Mine(heap'.cbs[c]) + Cardinality(CallSet(units', {"execute"}, c))
      <4>1. CASE c \in 1..k
        BY <4>1, <1>2, <1>15, Balance DEF CbsBalance
      <4>2. CASE c = k + 1
        <5>1. CallSet(units, {"execute"}, k + 1) = {} /\ units' = units
          BY <1>2, <2>1, NotNamed
        <5>2. heap'.cbs[c].refs = 1 /\ Mine(heap'.cbs[c]) = 1
          BY <4>2, <1>13, <1>15 DEF Mine
        <5>3. CallSet(units', {"execute"}, c) = {}
          BY <4>2, <5>1
        <5>4. Cardinality(CallSet(units', {"execute"}, c)) = 0
          BY <5>3, FS_EmptySet
        <5> QED  BY <5>2, <5>4
      <4> QED  BY <4>1, <4>2, <1>15
    <3> QED  BY <3>1 DEF CbsBalance
  <2>6. CtxsBalance(heap'.ctxs, heap'.cbs, device'.contexts)
    <3>1. ASSUME NEW x \in DOMAIN heap'.ctxs
          PROVE  heap'.ctxs[x].refs = Cardinality(PlaceSet(heap'.cbs, x))
                                        + Cardinality(OfDevice(device'.contexts, x))
      <4>1. heap.ctxs[x].refs = Cardinality(PlaceSet(heap.cbs, x)) + Cardinality(OfDevice(device.contexts, x))
        BY <1>10, <1>14, Balance DEF CtxsBalance
      <4>2. Cardinality(OfDevice(device.contexts, x)) = One(x \in Range(device.contexts))
        BY DeviceContexts
      <4>3. One(x \in Range(device.contexts)) \in Nat /\ One(x \in mine) \in Nat
        BY DEF One
      <4>4. heap'.ctxs[x].refs = heap.ctxs[x].refs + One(x \in mine)
        BY <1>10, <1>12, <1>14
      <4> QED  BY <1>16, <2>3, <4>1, <4>2, <4>3, <4>4
    <3> QED  BY <3>1 DEF CtxsBalance
  <2> QED  BY <1>17, <2>4, <2>5, <2>6, BalanceNext DEF Balanced
<1>21. PoolAccounts'
  BY <1>14 DEF PoolAccounts
<1>22. Descriptors'
  <2>1. \A x \in DOMAIN heap.ctxs :
          heap'.ctxs[x].fd = heap.ctxs[x].fd /\ (heap'.ctxs[x].refs > 0 <=> heap.ctxs[x].refs > 0)
    BY <1>12, <1>14, CtxRefs DEF mine, One
  <2> QED  BY <1>10, <1>14, <1>16, <1>18, <2>1, DescriptorsKept
<1>23. PlacedOn(k + 1)
  <2>1. k + 1 \notin DOMAIN heap.cbs /\ DOMAIN heap'.cbs = DOMAIN heap.cbs \cup {k + 1}
    BY <1>15
  <2>2. ContextsOf(heap'.cbs[k + 1]) = Range(device.contexts) /\ heap'.cbs[k + 1].ops = <<>>
    BY <1>8, <1>13, <1>15 DEF mine
  <2> QED  BY <1>10, <1>12, <1>14, <1>15, <1>16, <2>1, <2>2 DEF PlacedOn
<1>24. Core'
  BY <1>17, <1>19, <1>20, <1>21, <1>22
<1> QED  BY <1>23, <1>24

LEMMA CtxOpen ==
  ASSUME Core, NEW c \in DOMAIN heap.cbs, heap.cbs[c].refs > 0, NEW x \in ContextsOf(heap.cbs[c])
  PROVE  /\ x \in DOMAIN heap.ctxs /\ heap.ctxs[x].fd \in Fds
         /\ heap.open[heap.ctxs[x].fd] = x /\ heap.open[heap.ctxs[x].fd] # 0
<1>1. x \in DOMAIN heap.ctxs /\ heap.ctxs[x].refs > 0
  BY CtxRefs DEF Core
<1>2. heap.ctxs \in Seq(Ctx)
  BY DEF Core, Types, HeapOK, Heap
<1>3. heap.ctxs[x] \in Ctx /\ x \in Nat \ {0}
  BY <1>1, <1>2
<1> QED  BY <1>1, <1>3 DEF Core, Descriptors, Owned, Ctx

(* Command buffer c has an op on buffer b, whose scratch bo is from w.     *)
Bound(w, c, b, fd, bo) ==
  /\ Scratched(heap, w, bo, fd)
  /\ heap'.open = w.open /\ heap'.gem = w.gem /\ heap'.pool.free = w.pool.free
  /\ heap'.ctxs = heap.ctxs
  /\ DOMAIN heap'.bufs = DOMAIN heap.bufs /\ DOMAIN heap'.cbs = DOMAIN heap.cbs
  /\ \A a \in DOMAIN heap.bufs :
       heap'.bufs[a].bo = heap.bufs[a].bo /\ heap'.bufs[a].client = heap.bufs[a].client
  /\ \A d \in DOMAIN heap.cbs \ {c} : heap'.cbs[d] = heap.cbs[d]
  /\ heap'.cbs[c].client = heap.cbs[c].client /\ ContextsOf(heap'.cbs[c]) = ContextsOf(heap.cbs[c])
  /\ heap'.cbs[c].ops = <<[binding |-> b, scratch |-> bo]>>
LEMMA RecordDispatchCore ==
  ASSUME Core, NEW c \in DOMAIN heap.cbs, NEW b \in DOMAIN heap.bufs, NEW bytes \in Requests,
         NEW context \in DOMAIN heap.ctxs, RecordDispatch(c, b, bytes, context)
  PROVE  (\E w, bo : Bound(w, c, b, heap.ctxs[context].fd, bo)) /\ Core'
<1> DEFINE fd == heap.ctxs[context].fd
           made == NewScratch(heap, fd, bytes)
           op == [binding |-> b, scratch |-> made[2]]
           buf == [heap.bufs[b] EXCEPT !.refs = @ + 1]
           cb == [heap.cbs[c] EXCEPT !.ops = <<op>>]
<1> USE DEF Core
<1>1. /\ HeapOK(heap) /\ heap \in Heap /\ heap.bufs \in Seq(Buf) /\ heap.cbs \in Seq(Cb)
      /\ heap.ctxs \in Seq(Ctx) /\ units \in Seq(Call)
  BY DEF Types, HeapOK, Heap
<1>2. /\ heap.cbs[c].client /\ heap.cbs[c].ops = <<>> /\ context \in ContextsOf(heap.cbs[c])
      /\ heap' = [made[1] EXCEPT !.bufs[b].refs = @ + 1, !.cbs[c].ops = Append(@, op)]
      /\ UNCHANGED <<units, device, late>>
  BY DEF RecordDispatch
<1>3. heap.cbs[c].refs > 0
  BY <1>2, CbRefs
<1>4. fd \in Fds /\ heap.open[fd] # 0 /\ bytes \in Nat
  BY <1>2, <1>3, CtxOpen, LifetimesAssumption
<1> HIDE DEF fd
<1>5. Scratched(heap, made[1], made[2], fd)
  BY <1>1, <1>4, NewScratchOK
<1> HIDE DEF made
<1>6. /\ HeapOK(made[1]) /\ made[1] \in Heap /\ made[1].bufs = heap.bufs /\ made[1].cbs = heap.cbs
      /\ made[1].ctxs = heap.ctxs /\ made[1].open = heap.open
  BY <1>5 DEF Scratched, Objects, HeapOK
<1>7. op \in Op /\ op.binding = b /\ b \in Nat
  BY <1>1, <1>5 DEF Scratched, Op
<1>8. heap.bufs[b] \in Buf /\ heap.cbs[c] \in Cb
  BY <1>1
<1> HIDE DEF op
<1>9. buf \in Buf /\ buf.refs = heap.bufs[b].refs + 1 /\ buf.client = heap.bufs[b].client
      /\ heap.bufs[b].refs \in Nat /\ buf.bo = heap.bufs[b].bo
  BY <1>8 DEF Buf
<1>10. cb \in Cb /\ cb.refs = heap.cbs[c].refs /\ cb.client = heap.cbs[c].client
       /\ cb.context = heap.cbs[c].context /\ cb.siblings = heap.cbs[c].siblings /\ cb.ops = <<op>>
  <2>1. <<op>> \in Seq(Op)
    BY <1>7
  <2> QED  BY <1>8, <2>1 DEF Cb
<1> DEFINE bufs == [heap.bufs EXCEPT ![b] = buf]
           cbs == [heap.cbs EXCEPT ![c] = cb]
<1>11. bufs \in Seq(Buf) /\ cbs \in Seq(Cb)
  BY <1>1, <1>9, <1>10, SeqWritten
<1>12. heap' = [made[1] EXCEPT !.bufs = bufs, !.cbs = cbs]
  <2> DEFINE m == made[1]
  <2> HIDE DEF m
  <2>1. heap' = [m EXCEPT !.bufs = [m.bufs EXCEPT ![b] = [m.bufs[b] EXCEPT !.refs = @ + 1]],
                          !.cbs = [m.cbs EXCEPT ![c] = [m.cbs[c] EXCEPT !.ops = Append(@, op)]]]
    BY <1>2, <1>6 DEF Heap, m
  <2>2. Append(heap.cbs[c].ops, op) = <<op>>
    BY <1>2
  <2>3. [m.cbs[c] EXCEPT !.ops = Append(@, op)] = cb
    BY <1>6, <2>2 DEF m
  <2>4. [m.bufs[b] EXCEPT !.refs = @ + 1] = buf
    BY <1>6 DEF m
  <2> HIDE DEF buf, cb
  <2> QED  BY <1>6, <2>1, <2>3, <2>4 DEF m
<1> HIDE DEF buf, cb
<1>13. /\ HeapOK(heap') /\ heap'.open = heap.open /\ heap'.pool = made[1].pool
       /\ heap'.gem = made[1].gem
       /\ heap'.ctxs = heap.ctxs /\ heap'.bufs = bufs /\ heap'.cbs = cbs
  <2> HIDE DEF bufs, cbs
  <2> QED  BY <1>6, <1>11, <1>12 DEF HeapOK, Heap
<1>14. /\ DOMAIN heap'.bufs = DOMAIN heap.bufs /\ DOMAIN heap'.cbs = DOMAIN heap.cbs
       /\ heap'.bufs[b] = buf /\ \A a \in DOMAIN heap.bufs \ {b} : heap'.bufs[a] = heap.bufs[a]
       /\ heap'.cbs[c] = cb /\ \A d \in DOMAIN heap.cbs \ {c} : heap'.cbs[d] = heap.cbs[d]
       /\ SameBut(heap.cbs, heap'.cbs, c) /\ heap'.cbs \in Seq(Cb)
  BY <1>1, <1>11, <1>13 DEF SameBut
<1> HIDE DEF bufs, cbs
<1>15. Types'
  BY <1>2, <1>13 DEF Types
<1>16. Up' = Up /\ Base' = Base
  BY <1>2 DEF Up, Base
<1>17. Links'
  <2>1. ASSUME NEW d \in DOMAIN heap'.cbs
        PROVE  /\ ContextsOf(heap'.cbs[d]) \subseteq DOMAIN heap'.ctxs
               /\ Len(heap'.cbs[d].ops) <= 1
               /\ \A n \in DOMAIN heap'.cbs[d].ops : heap'.cbs[d].ops[n].binding \in DOMAIN heap'.bufs
    <3>1. CASE d # c
      BY <3>1, <1>13, <1>14 DEF Links
    <3>2. CASE d = c
      <4>1. ContextsOf(cb) = ContextsOf(heap.cbs[c])
        BY <1>10 DEF ContextsOf
      <4>2. Len(cb.ops) = 1 /\ \A n \in DOMAIN cb.ops : cb.ops[n] = op
        BY <1>10
      <4>3. ContextsOf(heap.cbs[c]) \subseteq DOMAIN heap.ctxs
        BY DEF Links
      <4>4. \A n \in DOMAIN cb.ops : cb.ops[n].binding \in DOMAIN heap'.bufs
        BY <4>2, <1>7, <1>14
      <4>5. heap'.cbs[d] = cb /\ heap'.ctxs = heap.ctxs
        BY <3>2, <1>13, <1>14
      <4>6. ContextsOf(heap'.cbs[d]) \subseteq DOMAIN heap'.ctxs
        BY <4>1, <4>3, <4>5
      <4>7. Len(cb.ops) <= 1
        BY <4>2
      <4> QED  BY <4>4, <4>5, <4>6, <4>7
    <3> QED  BY <3>1, <3>2
  <2> QED  BY <1>2, <1>13, <1>14, <1>16, <2>1 DEF Links
<1>18. RefsBalance'
  <2>1. ASSUME NEW a \in DOMAIN heap'.bufs
        PROVE  heap'.bufs[a].refs = Mine(heap'.bufs[a]) + Cardinality(RecSet(heap'.cbs, a))
                                      + Cardinality(CallSet(units', Transfers, a))
    <3>1. heap.bufs[a].refs = Mine(heap.bufs[a]) + Cardinality(RecSet(heap.cbs, a))
                                + Cardinality(CallSet(units, Transfers, a))
      BY <1>14, Balance DEF BufsBalance
    <3>2. BindingMoves(heap.cbs, heap'.cbs, c, a)
      BY <1>1, <1>14, BindingsCounted
    <3>3. BindsAt(heap.cbs, c, a) = 0 /\ BindsAt(heap'.cbs, c, a) = One(a = b)
      <4>1. ~Binds(heap.cbs[c], a)
        BY <1>2 DEF Binds
      <4>2. Binds(cb, a) <=> a = b
        BY <1>7, <1>10 DEF Binds
      <4> QED  BY <4>1, <4>2, <1>14 DEF BindsAt, One
    <3>4. Mine(heap'.bufs[a]) = Mine(heap.bufs[a]) /\ Mine(heap.bufs[a]) \in Nat
          /\ heap'.bufs[a].refs = heap.bufs[a].refs + One(a = b)
      <4>1. heap.bufs[a] \in Buf
        BY <1>1, <1>14
      <4> QED  BY <4>1, <1>9, <1>14 DEF Mine, One, Buf
    <3>5. Cardinality(CallSet(units, Transfers, a)) \in Nat /\ units' = units /\ One(a = b) \in Nat
      BY <1>1, <1>2, SeqFinite DEF CallSet, One
    <3> QED  BY <3>1, <3>2, <3>3, <3>4, <3>5 DEF BindingMoves
  <2>2. BufsBalance(heap'.bufs, heap'.cbs, units')
    BY <2>1 DEF BufsBalance
  <2>3. CbsBalance(heap'.cbs, units')
    <3>1. ASSUME NEW d \in DOMAIN heap.cbs
          PROVE heap'.cbs[d].refs = heap.cbs[d].refs /\ Mine(heap'.cbs[d]) = Mine(heap.cbs[d])
      BY <1>10, <1>14 DEF Mine
    <3> QED  BY <1>2, <1>14, <3>1, Balance DEF CbsBalance
  <2>4. CtxsBalance(heap'.ctxs, heap'.cbs, device'.contexts)
    <3>1. ASSUME NEW x PROVE Cardinality(PlaceSet(heap'.cbs, x)) = Cardinality(PlaceSet(heap.cbs, x))
      <4>1. PlaceMoves(heap.cbs, heap'.cbs, c, x)
        BY <1>1, <1>14, PlacesCounted
      <4>2. OnAt(heap'.cbs, c, x) = OnAt(heap.cbs, c, x) /\ OnAt(heap.cbs, c, x) \in Nat
        BY <1>10, <1>14 DEF OnAt, On, ContextsOf, One
      <4> QED  BY <4>1, <4>2 DEF PlaceMoves
    <3> QED  BY <1>2, <1>13, <3>1, Balance DEF CtxsBalance
  <2> QED  BY <1>15, <2>2, <2>3, <2>4, BalanceNext DEF Balanced
<1>19. PoolAccounts'
  BY <1>5, <1>13 DEF PoolAccounts, Scratched, Accounts
<1>20. Descriptors'
  BY <1>2, <1>13, <1>16, DescriptorsKept
<1>21. Bound(made[1], c, b, fd, made[2])
  <2>1. \A a \in DOMAIN heap.bufs :
          heap'.bufs[a].bo = heap.bufs[a].bo /\ heap'.bufs[a].client = heap.bufs[a].client
    BY <1>9, <1>14
  <2>2. heap'.cbs[c].client = heap.cbs[c].client /\ heap'.cbs[c].ops = <<op>>
    BY <1>10, <1>14
  <2>3. ContextsOf(heap'.cbs[c]) = ContextsOf(heap.cbs[c])
    BY <1>10, <1>14 DEF ContextsOf
  <2>4. op = [binding |-> b, scratch |-> made[2]]
    BY DEF op
  <2> QED  BY <1>5, <1>6, <1>13, <1>14, <2>1, <2>2, <2>3, <2>4 DEF Bound
<1>22. Core'
  BY <1>15, <1>17, <1>18, <1>19, <1>20
<1>23. \E w, bo : Bound(w, c, b, fd, bo)
  BY <1>21
<1> QED  BY <1>22, <1>23 DEF fd

(* Buffer b, whose flags may change with it, loses a reference.            *)
Shed(b, client) ==
  /\ HeapOK(heap') /\ heap'.open = heap.open /\ heap'.pool = heap.pool
  /\ heap'.ctxs = heap.ctxs /\ heap'.cbs = heap.cbs
  /\ DOMAIN heap'.bufs = DOMAIN heap.bufs
  /\ heap'.bufs[b].refs = heap.bufs[b].refs - 1 /\ heap'.bufs[b].client = client
  /\ heap'.bufs[b].bo = heap.bufs[b].bo
  /\ \A a \in DOMAIN heap.bufs \ {b} : heap'.bufs[a] = heap.bufs[a]
  /\ heap.bufs[b].refs # 1 => heap'.gem = heap.gem
  /\ (heap.bufs[b].refs = 1 /\ heap.open[heap.bufs[b].bo.fd] # 0) =>
       heap'.gem = [heap.gem EXCEPT ![heap.open[heap.bufs[b].bo.fd]] = @ \ {heap.bufs[b].bo.handle}]

LEMMA SheddingOK ==
  ASSUME Core, NEW b \in DOMAIN heap.bufs, heap.bufs[b].refs > 0, NEW buf \in Buf,
         buf.refs = heap.bufs[b].refs, buf.bo = heap.bufs[b].bo,
         heap' = ReleaseBuffer([heap EXCEPT !.bufs = [heap.bufs EXCEPT ![b] = buf]], b)
  PROVE  Shed(b, buf.client)
<1> DEFINE bufs == [heap.bufs EXCEPT ![b] = buf]
           w == [heap EXCEPT !.bufs = bufs]
<1>1. HeapOK(heap) /\ heap \in Heap /\ heap.bufs \in Seq(Buf)
  BY DEF Core, Types, HeapOK, Heap
<1>2. /\ bufs \in Seq(Buf) /\ DOMAIN bufs = DOMAIN heap.bufs /\ bufs[b] = buf
      /\ \A a \in DOMAIN heap.bufs \ {b} : bufs[a] = heap.bufs[a]
  BY <1>1
<1>3. heap' = ReleaseBuffer(w, b)
  OBVIOUS
<1> HIDE DEF bufs
<1>4. /\ HeapOK(w) /\ w.open = heap.open /\ w.gem = heap.gem /\ w.pool = heap.pool
      /\ w.ctxs = heap.ctxs /\ w.cbs = heap.cbs /\ w.bufs = bufs
  BY <1>1, <1>2 DEF HeapOK, Heap
<1> HIDE DEF w
<1>5. Released(w, heap', b)
  BY <1>2, <1>3, <1>4, ReleaseBufferOK
<1>6. /\ HeapOK(heap') /\ heap'.open = heap.open /\ heap'.pool = heap.pool
      /\ heap'.ctxs = heap.ctxs /\ heap'.cbs = heap.cbs
      /\ heap'.bufs = [bufs EXCEPT ![b].refs = @ - 1]
  BY <1>4, <1>5 DEF Released, Unref
<1>7. /\ DOMAIN heap'.bufs = DOMAIN heap.bufs
      /\ heap'.bufs[b] = [buf EXCEPT !.refs = @ - 1]
      /\ \A a \in DOMAIN heap.bufs \ {b} : heap'.bufs[a] = heap.bufs[a]
  BY <1>2, <1>6
<1>8. /\ heap'.bufs[b].refs = heap.bufs[b].refs - 1 /\ heap'.bufs[b].client = buf.client
      /\ heap'.bufs[b].bo = heap.bufs[b].bo
  BY <1>7 DEF Buf
<1>9. /\ heap.bufs[b].refs # 1 => heap'.gem = heap.gem
      /\ (heap.bufs[b].refs = 1 /\ heap.open[heap.bufs[b].bo.fd] # 0) =>
           heap'.gem = [heap.gem EXCEPT ![heap.open[heap.bufs[b].bo.fd]] = @ \ {heap.bufs[b].bo.handle}]
  <2>1. w.bufs[b] = buf
    BY <1>2, <1>4
  <2> QED  BY <2>1, <1>4, <1>5 DEF Released, Unref
<1> QED  BY <1>6, <1>7, <1>8, <1>9 DEF Shed

(* The calls, where they name objects and which stage they are in.         *)
CallsLinked(us, cbs, bufs) ==
  \A u \in DOMAIN us :
    /\ us[u].of \in IF us[u].kind = "execute" THEN DOMAIN cbs ELSE DOMAIN bufs
    /\ us[u].stage = "running" => us[u].kind = "execute"
    /\ Len(us[u].regcmd) <= 1
    /\ us[u].regcmd # <<>> => us[u].stage = "running"

LEMMA ShedCore ==
  ASSUME Core, NEW b \in DOMAIN heap.bufs, NEW client, Shed(b, client), UNCHANGED <<device, late>>,
         units' \in Seq(Call), CallsLinked(units', heap.cbs, heap.bufs),
         \A a \in DOMAIN heap.bufs :
           Mine(heap'.bufs[a]) + Cardinality(CallSet(units', Transfers, a)) =
             Mine(heap.bufs[a]) + Cardinality(CallSet(units, Transfers, a)) - One(a = b),
         \A c \in DOMAIN heap.cbs :
           Cardinality(CallSet(units', {"execute"}, c)) = Cardinality(CallSet(units, {"execute"}, c))
  PROVE  Core'
<1> USE DEF Core
<1>1. HeapOK(heap) /\ heap.bufs \in Seq(Buf) /\ heap.cbs \in Seq(Cb) /\ units \in Seq(Call)
  BY DEF Types, HeapOK, Heap
<1>2. Types'
  BY DEF Types, Shed
<1>3. Up' = Up /\ Base' = Base
  BY DEF Up, Base
<1>4. Links'
  <2>1. /\ Len(heap'.ctxs) = device'.created * NumContexts
        /\ device'.contexts = IF Up' THEN [n \in 1..NumContexts |-> Base' + n] ELSE <<>>
        /\ Up' => device'.created > 0
    BY <1>3 DEF Links, Shed
  <2>2. \A c \in DOMAIN heap'.cbs :
          /\ ContextsOf(heap'.cbs[c]) \subseteq DOMAIN heap'.ctxs
          /\ Len(heap'.cbs[c].ops) <= 1
          /\ \A n \in DOMAIN heap'.cbs[c].ops : heap'.cbs[c].ops[n].binding \in DOMAIN heap'.bufs
    BY DEF Links, Shed
  <2>3. CallsLinked(units', heap'.cbs, heap'.bufs)
    BY DEF CallsLinked, Shed
  <2> QED  BY <2>1, <2>2, <2>3 DEF Links, CallsLinked
<1>5. RefsBalance'
  <2>1. ASSUME NEW a \in DOMAIN heap.bufs
        PROVE  heap'.bufs[a].refs = Mine(heap'.bufs[a]) + Cardinality(RecSet(heap'.cbs, a))
                                      + Cardinality(CallSet(units', Transfers, a))
    <3>1. heap.bufs[a].refs = Mine(heap.bufs[a]) + Cardinality(RecSet(heap.cbs, a))
                                + Cardinality(CallSet(units, Transfers, a))
      BY Balance DEF BufsBalance
    <3>2. heap'.bufs[a].refs = heap.bufs[a].refs - One(a = b) /\ heap.bufs[a].refs \in Nat
      <4>1. heap.bufs[a] \in Buf
        BY <1>1
      <4>2. heap.bufs[a].refs \in Nat
        BY <4>1 DEF Buf
      <4>3. CASE a = b
        BY <4>2, <4>3 DEF Shed, One
      <4>4. CASE a # b
        <5>1. heap'.bufs[a] = heap.bufs[a] /\ One(a = b) = 0
          BY <4>4 DEF Shed, One
        <5> QED  BY <4>2, <5>1
      <4> QED  BY <4>3, <4>4
    <3>3. /\ Cardinality(RecSet(heap.cbs, a)) \in Nat /\ Cardinality(CallSet(units, Transfers, a)) \in Nat
          /\ Cardinality(CallSet(units', Transfers, a)) \in Nat
          /\ Mine(heap.bufs[a]) \in Nat /\ Mine(heap'.bufs[a]) \in Nat /\ One(a = b) \in Nat
      BY <1>1, SeqFinite DEF RecSet, CallSet, Mine, One
    <3>4. Cardinality(RecSet(heap'.cbs, a)) = Cardinality(RecSet(heap.cbs, a))
      BY DEF Shed
    <3>5. Mine(heap'.bufs[a]) + Cardinality(CallSet(units', Transfers, a)) =
            Mine(heap.bufs[a]) + Cardinality(CallSet(units, Transfers, a)) - One(a = b)
      OBVIOUS
    <3> DEFINE r == heap.bufs[a].refs          r1 == heap'.bufs[a].refs
               m == Mine(heap.bufs[a])         m1 == Mine(heap'.bufs[a])
               d == Cardinality(RecSet(heap.cbs, a))
               d1 == Cardinality(RecSet(heap'.cbs, a))
               k == Cardinality(CallSet(units, Transfers, a))
               k1 == Cardinality(CallSet(units', Transfers, a))
               one == One(a = b)
    <3>6. /\ r = m + d + k /\ r1 = r - one /\ d1 = d /\ m1 + k1 = m + k - one
          /\ r \in Nat /\ d \in Nat /\ k \in Nat /\ k1 \in Nat /\ m \in Nat /\ m1 \in Nat /\ one \in Nat
      BY <3>1, <3>2, <3>3, <3>4, <3>5
    <3> HIDE DEF r, r1, m, m1, d, d1, k, k1, one
    <3>7. r1 = m1 + d1 + k1
      BY <3>6
    <3> QED  BY <3>7 DEF r1, m1, d1, k1
  <2>2. BufsBalance(heap'.bufs, heap'.cbs, units')
    BY <2>1 DEF BufsBalance, Shed
  <2>3. CbsBalance(heap'.cbs, units')
    BY Balance DEF CbsBalance, Shed
  <2>4. CtxsBalance(heap'.ctxs, heap'.cbs, device'.contexts)
    BY Balance DEF Shed
  <2> QED  BY <1>2, <2>2, <2>3, <2>4, BalanceNext DEF Balanced
<1>6. PoolAccounts'
  BY DEF PoolAccounts, Shed
<1>7. Descriptors'
  BY <1>3, DescriptorsKept DEF Shed
<1> QED  BY <1>2, <1>4, <1>5, <1>6, <1>7

LEMMA ClientReleaseBufferCore ==
  ASSUME Core, NEW b \in DOMAIN heap.bufs, ClientReleaseBuffer(b)
  PROVE  Shed(b, FALSE) /\ Core'
<1> DEFINE buf == [heap.bufs[b] EXCEPT !.client = FALSE]
<1>1. heap \in Heap /\ heap.bufs \in Seq(Buf) /\ units \in Seq(Call)
  BY DEF Core, Types, HeapOK, Heap
<1>2. heap.bufs[b] \in Buf
  BY <1>1
<1>3. buf \in Buf /\ buf.refs = heap.bufs[b].refs /\ buf.bo = heap.bufs[b].bo /\ buf.client = FALSE
  BY <1>2 DEF Buf
<1>4. heap' = ReleaseBuffer([heap EXCEPT !.bufs = [heap.bufs EXCEPT ![b] = buf]], b)
      /\ UNCHANGED <<units, device, late>> /\ heap.bufs[b].client
  <2>1. [heap EXCEPT !.bufs[b].client = FALSE] = [heap EXCEPT !.bufs = [heap.bufs EXCEPT ![b] = buf]]
    BY <1>1 DEF Heap
  <2> QED  BY <2>1 DEF ClientReleaseBuffer
<1> HIDE DEF buf
<1>5. heap.bufs[b].refs > 0
  BY <1>4, BufRefs DEF Core
<1>6. Shed(b, FALSE)
  BY <1>3, <1>4, <1>5, SheddingOK
<1>7. ASSUME NEW a \in DOMAIN heap.bufs
      PROVE  Mine(heap'.bufs[a]) + Cardinality(CallSet(units', Transfers, a)) =
               Mine(heap.bufs[a]) + Cardinality(CallSet(units, Transfers, a)) - One(a = b)
  <2>1. Mine(heap'.bufs[a]) = Mine(heap.bufs[a]) - One(a = b) /\ Mine(heap.bufs[a]) \in Nat
    <3>1. CASE a = b
      <4>1. Mine(heap.bufs[b]) = 1
        BY <1>4 DEF Mine
      <4>2. heap'.bufs[b].client = FALSE
        BY <1>6 DEF Shed
      <4>3. Mine(heap'.bufs[b]) = 0 /\ One(a = b) = 1
        BY <3>1, <4>2 DEF Mine, One
      <4> QED  BY <3>1, <4>1, <4>3
    <3>2. CASE a # b
      <4>1. heap'.bufs[a] = heap.bufs[a] /\ One(a = b) = 0
        BY <3>2, <1>6 DEF One, Shed
      <4> QED  BY <4>1 DEF Mine
    <3> QED  BY <3>1, <3>2
  <2>2. Cardinality(CallSet(units, Transfers, a)) \in Nat /\ units' = units /\ One(a = b) \in Nat
    BY <1>1, <1>4, SeqFinite DEF CallSet, One
  <2> QED  BY <2>1, <2>2
<1>8. CallsLinked(units', heap.cbs, heap.bufs)
  BY <1>4 DEF Core, Links, CallsLinked
<1>9. UNCHANGED <<device, late>> /\ units' \in Seq(Call)
      /\ \A c \in DOMAIN heap.cbs :
           Cardinality(CallSet(units', {"execute"}, c)) = Cardinality(CallSet(units, {"execute"}, c))
  BY <1>1, <1>4
<1>10. Core'
  BY <1>6, <1>7, <1>8, <1>9, ShedCore
<1> QED  BY <1>6, <1>10

(* A step that changes no object, no descriptor and no call's share.       *)
LEMMA SameCallsCore ==
  ASSUME Core, HeapOK(heap'), heap'.open = heap.open, Objects(heap, heap'), Accounts(heap'),
         units' \in Seq(Call), CallsLinked(units', heap.cbs, heap.bufs), UNCHANGED <<device, late>>,
         \A kinds, n : CallSet(units', kinds, n) = CallSet(units, kinds, n)
  PROVE  Core'
<1> USE DEF Core
<1>1. heap'.bufs = heap.bufs /\ heap'.cbs = heap.cbs /\ heap'.ctxs = heap.ctxs
  BY DEF Objects
<1>2. Types'
  BY DEF Types
<1>3. Up' = Up /\ Base' = Base
  BY DEF Up, Base
<1>4. Links'
  BY <1>1, <1>3 DEF Links, CallsLinked
<1>5. RefsBalance'
  <2>1. BufsBalance(heap'.bufs, heap'.cbs, units')
    BY <1>1, Balance DEF BufsBalance
  <2>2. CbsBalance(heap'.cbs, units')
    BY <1>1, Balance DEF CbsBalance
  <2>3. CtxsBalance(heap'.ctxs, heap'.cbs, device'.contexts)
    BY <1>1, Balance
  <2> QED  BY <1>2, <2>1, <2>2, <2>3, BalanceNext DEF Balanced
<1>6. PoolAccounts'
  BY DEF PoolAccounts, Accounts
<1>7. Descriptors'
  BY <1>1, <1>3, DescriptorsKept
<1> QED  BY <1>2, <1>4, <1>5, <1>6, <1>7

(* A call that goes on to another stage, but keeps its share.              *)
Moved(call, stage, regcmd) == [call EXCEPT !.stage = stage, !.regcmd = regcmd]
LEMMA WaitFailsCore ==
  ASSUME Core, NEW u \in 1..Len(units), WaitFails(u)
  PROVE  Core'
<1> USE DEF Core
<1>1. HeapOK(heap) /\ units \in Seq(Call) /\ u \in DOMAIN units
  BY DEF Types
<1>2. units[u] \in Call
  BY <1>1
<1>3. units[u].stage = "queued" /\ UNCHANGED <<heap, device, late>>
      /\ units' = [units EXCEPT ![u].stage = "wait_failed"]
  BY DEF WaitFails
<1> DEFINE call == [units[u] EXCEPT !.stage = "wait_failed"]
<1>4. call \in Call /\ call.kind = units[u].kind /\ call.of = units[u].of
      /\ call.stage = "wait_failed" /\ call.regcmd = units[u].regcmd
  BY <1>2 DEF Call
<1>5. units' = [units EXCEPT ![u] = call]
  BY <1>3
<1> HIDE DEF call
<1>6. units' \in Seq(Call) /\ DOMAIN units' = DOMAIN units /\ units'[u] = call
      /\ \A v \in DOMAIN units \ {u} : units'[v] = units[v]
  BY <1>1, <1>4, <1>5
<1>7. units[u].regcmd = <<>>
  BY <1>1, <1>3 DEF Links
<1>8. CallsLinked(units', heap.cbs, heap.bufs)
  <2>1. ASSUME NEW v \in DOMAIN units'
        PROVE  /\ units'[v].of \in IF units'[v].kind = "execute" THEN DOMAIN heap.cbs ELSE DOMAIN heap.bufs
               /\ units'[v].stage = "running" => units'[v].kind = "execute"
               /\ Len(units'[v].regcmd) <= 1
               /\ units'[v].regcmd # <<>> => units'[v].stage = "running"
    <3>1. CASE v = u
      BY <3>1, <1>1, <1>4, <1>6, <1>7 DEF Links
    <3>2. CASE v # u
      BY <3>2, <1>6 DEF Links
    <3> QED  BY <3>1, <3>2
  <2> QED  BY <2>1 DEF CallsLinked
<1>9. ASSUME NEW kinds, NEW n PROVE CallSet(units', kinds, n) = CallSet(units, kinds, n)
  BY <1>3, <1>4, <1>6 DEF CallSet, Hit
<1>10. Objects(heap, heap') /\ Accounts(heap') /\ HeapOK(heap') /\ heap'.open = heap.open
  BY <1>1, <1>3 DEF Objects, Accounts, PoolAccounts
<1> QED  BY <1>3, <1>6, <1>8, <1>9, <1>10, SameCallsCore

LEMMA BeginExecuteCore ==
  ASSUME Core, NEW u \in 1..Len(units), BeginExecute(u)
  PROVE  Core'
<1> USE DEF Core
<1>1. HeapOK(heap) /\ units \in Seq(Call) /\ u \in DOMAIN units
  BY DEF Types
<1>2. units[u] \in Call
  BY <1>1
<1> DEFINE c == units[u].of
           fd == heap.ctxs[heap.cbs[c].context].fd
           made == NewScratch(heap, fd, RegcmdBytes)
<1>3. /\ units[u].stage = "queued" /\ units[u].kind = "execute" /\ UNCHANGED <<device, late>>
      /\ IF heap.cbs[c].ops = <<>>
         THEN units' = [units EXCEPT ![u].stage = "running"] /\ UNCHANGED heap
         ELSE /\ heap' = made[1]
              /\ units' = [units EXCEPT ![u].stage = "running", ![u].regcmd = <<made[2]>>]
  BY DEF BeginExecute
<1>4. c \in DOMAIN heap.cbs /\ units[u].regcmd = <<>>
  BY <1>1, <1>3 DEF Links
<1>5. heap.cbs[c].refs > 0
  BY <1>1, <1>3, <1>4, CbRefs
<1>6. fd \in Fds /\ heap.open[fd] # 0 /\ RegcmdBytes \in Nat
  BY <1>4, <1>5, CtxOpen, LifetimesAssumption DEF ContextsOf
<1> HIDE DEF fd
<1>7. Scratched(heap, made[1], made[2], fd)
  BY <1>1, <1>6, NewScratchOK
<1> HIDE DEF made, c
<1>8. /\ HeapOK(heap') /\ heap'.open = heap.open /\ Objects(heap, heap') /\ Accounts(heap')
  <2>1. CASE heap.cbs[c].ops = <<>>
    BY <2>1, <1>1, <1>3 DEF Objects, Accounts, PoolAccounts
  <2>2. CASE heap.cbs[c].ops # <<>>
    <3>1. Accounts(heap)
      BY DEF Accounts, PoolAccounts
    <3> QED  BY <2>2, <3>1, <1>3, <1>7 DEF Scratched
  <2> QED  BY <2>1, <2>2
<1>9. PICK regcmd \in Seq(Bo) : Len(regcmd) <= 1 /\ units' = [units EXCEPT ![u] = Moved(units[u], "running", regcmd)]
  <2>1. CASE heap.cbs[c].ops = <<>>
    <3>1. [units[u] EXCEPT !.stage = "running"] = Moved(units[u], "running", <<>>)
      BY <1>2, <1>4 DEF Moved, Call
    <3>2. units' = [units EXCEPT ![u] = Moved(units[u], "running", <<>>)]
      BY <2>1, <1>3, <3>1
    <3>3. <<>> \in Seq(Bo) /\ Len(<<>>) <= 1
      OBVIOUS
    <3> QED  BY <3>2, <3>3
  <2>2. CASE heap.cbs[c].ops # <<>>
    <3>1. <<made[2]>> \in Seq(Bo) /\ Len(<<made[2]>>) <= 1
      BY <1>7 DEF Scratched
    <3>2. units' = [units EXCEPT ![u] = Moved(units[u], "running", <<made[2]>>)]
      BY <2>2, <1>1, <1>3 DEF Moved
    <3> QED  BY <3>1, <3>2
  <2> QED  BY <2>1, <2>2
<1> DEFINE call == Moved(units[u], "running", regcmd)
<1>10. call \in Call /\ call.kind = "execute" /\ call.of = units[u].of
       /\ call.stage = "running" /\ call.regcmd = regcmd
  <2>1. regcmd \in Seq(Bo)
    BY <1>9
  <2> QED  BY <1>2, <1>3, <2>1 DEF Moved, Call
<1> HIDE DEF call
<1>11. units' \in Seq(Call) /\ DOMAIN units' = DOMAIN units /\ units'[u] = call
       /\ \A v \in DOMAIN units \ {u} : units'[v] = units[v]
  BY <1>1, <1>9, <1>10 DEF call
<1>12. CallsLinked(units', heap.cbs, heap.bufs)
  <2>1. ASSUME NEW v \in DOMAIN units'
        PROVE  /\ units'[v].of \in IF units'[v].kind = "execute" THEN DOMAIN heap.cbs ELSE DOMAIN heap.bufs
               /\ units'[v].stage = "running" => units'[v].kind = "execute"
               /\ Len(units'[v].regcmd) <= 1
               /\ units'[v].regcmd # <<>> => units'[v].stage = "running"
    <3>1. CASE v = u
      BY <3>1, <1>4, <1>9, <1>10, <1>11 DEF c
    <3>2. CASE v # u
      BY <3>2, <1>11 DEF Links
    <3> QED  BY <3>1, <3>2
  <2> QED  BY <2>1 DEF CallsLinked
<1>13. ASSUME NEW kinds, NEW n PROVE CallSet(units', kinds, n) = CallSet(units, kinds, n)
  BY <1>3, <1>10, <1>11 DEF CallSet, Hit
<1> QED  BY <1>3, <1>8, <1>11, <1>12, <1>13, SameCallsCore

(* The register program of a call is dropped.                              *)
LEMMA RegcmdOK ==
  ASSUME Core, NEW u \in DOMAIN units
  PROVE  /\ IF units[u].regcmd = <<>> THEN Regcmd(heap, u) = heap
            ELSE /\ units[u].regcmd[1] \in Bo
                 /\ Dropped(heap, Regcmd(heap, u), units[u].regcmd[1])
         /\ HeapOK(Regcmd(heap, u)) /\ Regcmd(heap, u).open = heap.open
         /\ Objects(heap, Regcmd(heap, u)) /\ Accounts(Regcmd(heap, u))
<1>1. HeapOK(heap) /\ units \in Seq(Call) /\ Accounts(heap)
  BY DEF Core, Types, Accounts, PoolAccounts
<1>2. units[u].regcmd \in Seq(Bo)
  <2>1. units[u] \in Call
    BY <1>1
  <2> QED  BY <2>1 DEF Call
<1>3. CASE units[u].regcmd = <<>>
  BY <1>1, <1>3 DEF Regcmd, Objects
<1>4. CASE units[u].regcmd # <<>>
  <2>1. units[u].regcmd[1] \in Bo
    BY <1>2, <1>4
  <2>2. Dropped(heap, Regcmd(heap, u), units[u].regcmd[1])
    BY <1>1, <1>4, <2>1, DropScratchOK DEF Regcmd
  <2> QED  BY <1>1, <1>4, <2>1, <2>2 DEF Dropped
<1> QED  BY <1>3, <1>4

LEMMA PanicCore ==
  ASSUME Core, NEW u \in 1..Len(units), Panic(u)
  PROVE  Core'
<1> USE DEF Core
<1>1. HeapOK(heap) /\ units \in Seq(Call) /\ u \in DOMAIN units
      /\ DOMAIN units = 1..Len(units) /\ Len(units) \in Nat
  BY DEF Types
<1> DEFINE ends(v) == [units[v] EXCEPT !.stage = "panicked", !.regcmd = <<>>]
           drops(v) == [units[v] EXCEPT !.stage = "rejected"]
           swept(v) == /\ units[v].kind = "execute" /\ units[v].stage = "queued"
                       /\ heap.cbs[units[v].of].context = heap.cbs[units[u].of].context
<1>2. /\ units[u].stage = "running" /\ heap' = Regcmd(heap, u) /\ UNCHANGED <<device, late>>
      /\ units' = [v \in 1..Len(units) |->
                     IF v = u THEN ends(v) ELSE IF swept(v) THEN drops(v) ELSE units[v]]
  BY DEF Panic
<1>3. DOMAIN units' = DOMAIN units
      /\ \A v \in DOMAIN units :
           units'[v] = IF v = u THEN ends(v) ELSE IF swept(v) THEN drops(v) ELSE units[v]
  BY <1>1, <1>2
<1>4. ASSUME NEW v \in DOMAIN units
      PROVE  /\ units'[v] \in Call /\ units'[v].kind = units[v].kind /\ units'[v].of = units[v].of
             /\ units'[v].stage \notin {"done", "refused"} <=> units[v].stage \notin {"done", "refused"}
             /\ Len(units'[v].regcmd) <= 1
             /\ units'[v].regcmd # <<>> => units'[v].stage = "running"
             /\ units'[v].stage = "running" => units[v].stage = "running"
  <2>1. units[v] \in Call /\ Len(units[v].regcmd) <= 1
        /\ (units[v].regcmd # <<>> => units[v].stage = "running")
    BY <1>1 DEF Links
  <2>2. CASE v = u
    <3>1. units'[v] = ends(v)
      BY <2>2, <1>3
    <3>2. ends(v) \in Call /\ ends(v).kind = units[v].kind /\ ends(v).of = units[v].of
          /\ ends(v).stage = "panicked" /\ ends(v).regcmd = <<>>
      <4>1. <<>> \in Seq(Bo)
        OBVIOUS
      <4> QED  BY <2>1, <4>1 DEF Call
    <3> HIDE DEF ends
    <3> QED  BY <2>2, <3>1, <3>2, <1>2
  <2>3. CASE v # u /\ swept(v)
    <3>1. units'[v] = drops(v) /\ units[v].stage = "queued"
      BY <2>3, <1>3
    <3>2. drops(v) \in Call /\ drops(v).kind = units[v].kind /\ drops(v).of = units[v].of
          /\ drops(v).stage = "rejected" /\ drops(v).regcmd = units[v].regcmd
      BY <2>1 DEF Call
    <3> HIDE DEF drops
    <3> QED  BY <3>1, <3>2, <2>1
  <2>4. CASE v # u /\ ~swept(v)
    <3>1. units'[v] = units[v]
      BY <2>4, <1>3
    <3> QED  BY <3>1, <2>1
  <2> QED  BY <2>2, <2>3, <2>4
<1>5. units' \in Seq(Call)
  <2>1. units' \in [1..Len(units) -> Call]
    <3>1. units' = [v \in DOMAIN units |-> units'[v]]
      BY <1>1, <1>2
    <3> QED  BY <1>1, <1>4, <3>1
  <2> QED  BY <1>1, <2>1
<1>6. CallsLinked(units', heap.cbs, heap.bufs)
  BY <1>3, <1>4 DEF CallsLinked, Links
<1>7. ASSUME NEW kinds, NEW n PROVE CallSet(units', kinds, n) = CallSet(units, kinds, n)
  BY <1>3, <1>4 DEF CallSet, Hit
<1>8. HeapOK(heap') /\ heap'.open = heap.open /\ Objects(heap, heap') /\ Accounts(heap')
  BY <1>1, <1>2, RegcmdOK
<1> QED  BY <1>2, <1>5, <1>6, <1>7, <1>8, SameCallsCore

LEMMA StartDestroyCore ==
  ASSUME Core, StartDestroy
  PROVE  Core'
<1> USE DEF Core
<1>1. heap' = heap /\ units' = units /\ late' = late /\ device.state = "live"
      /\ device' = [device EXCEPT !.state = "closing"]
  BY DEF StartDestroy, Live
<1>2. device \in Device
  BY DEF Types
<1>3. device' \in Device /\ device'.state = "closing" /\ device'.created = device.created
      /\ device'.file = device.file /\ device'.allocator = device.allocator
      /\ device'.contexts = device.contexts
  BY <1>1, <1>2 DEF Device
<1>4. Types'
  BY <1>1, <1>3 DEF Types
<1>5. Up /\ Up' /\ Base' = Base
  BY <1>1, <1>3 DEF Up, Base
<1>6. Links'
  BY <1>1, <1>3, <1>5 DEF Links
<1>7. RefsBalance'
  <2>1. Balanced'
    BY <1>1, <1>3, Balance DEF Balanced
  <2> QED  BY <1>4, <2>1, BalanceNext
<1>8. PoolAccounts'
  BY <1>1 DEF PoolAccounts
<1>9. Descriptors'
  BY <1>1, <1>3, <1>5, DescriptorsKept
<1> QED  BY <1>4, <1>6, <1>7, <1>8, <1>9

(* A call that settles, with what it did for.                              *)
LEMMA Settles ==
  ASSUME Core, NEW u \in DOMAIN units, units[u].stage \notin {"done", "refused"},
         NEW call \in Call, call.kind = units[u].kind, call.of = units[u].of,
         call.stage \in {"done", "refused"}, call.regcmd = <<>>,
         units' = [units EXCEPT ![u] = call]
  PROVE  /\ units' \in Seq(Call) /\ DOMAIN units' = DOMAIN units
         /\ CallsLinked(units', heap.cbs, heap.bufs)
         /\ \A kinds, n :
              /\ Cardinality(CallSet(units', kinds, n)) \in Nat /\ Cardinality(CallSet(units, kinds, n)) \in Nat
              /\ Cardinality(CallSet(units', kinds, n)) =
                   Cardinality(CallSet(units, kinds, n)) - One(units[u].kind \in kinds /\ units[u].of = n)
<1> USE DEF Core
<1>1. units \in Seq(Call)
  BY DEF Types
<1>2. units' \in Seq(Call) /\ DOMAIN units' = DOMAIN units /\ units'[u] = call
      /\ \A v \in DOMAIN units \ {u} : units'[v] = units[v]
  BY <1>1
<1>3. CallsLinked(units', heap.cbs, heap.bufs)
  <2>1. ASSUME NEW v \in DOMAIN units'
        PROVE  /\ units'[v].of \in IF units'[v].kind = "execute" THEN DOMAIN heap.cbs ELSE DOMAIN heap.bufs
               /\ units'[v].stage = "running" => units'[v].kind = "execute"
               /\ Len(units'[v].regcmd) <= 1
               /\ units'[v].regcmd # <<>> => units'[v].stage = "running"
    <3>1. CASE v = u
      BY <3>1, <1>2 DEF Links
    <3>2. CASE v # u
      BY <3>2, <1>2 DEF Links
    <3> QED  BY <3>1, <3>2
  <2> QED  BY <2>1 DEF CallsLinked
<1>4. ASSUME NEW kinds, NEW n
      PROVE  /\ Cardinality(CallSet(units', kinds, n)) \in Nat /\ Cardinality(CallSet(units, kinds, n)) \in Nat
             /\ Cardinality(CallSet(units', kinds, n)) =
                  Cardinality(CallSet(units, kinds, n)) - One(units[u].kind \in kinds /\ units[u].of = n)
  <2>1. SameBut(units, units', u)
    BY <1>2 DEF SameBut
  <2>2. CallsMove(units, units', u, kinds, n)
    BY <1>1, <1>2, <2>1, CallsCounted
  <2>3. HitsAt(units', u, kinds, n) = 0
    BY <1>2 DEF HitsAt, Hit, One
  <2>4. HitsAt(units, u, kinds, n) = One(units[u].kind \in kinds /\ units[u].of = n)
    BY DEF HitsAt, Hit, One
  <2>5. One(units[u].kind \in kinds /\ units[u].of = n) \in Nat
    BY DEF One
  <2> QED  BY <2>2, <2>3, <2>4, <2>5 DEF CallsMove
<1> QED  BY <1>2, <1>3, <1>4

LEMMA RunTransferCore ==
  ASSUME Core, NEW u \in 1..Len(units), RunTransfer(u)
  PROVE  /\ units[u].of \in DOMAIN heap.bufs
         /\ Shed(units[u].of, heap.bufs[units[u].of].client) /\ Core'
<1> DEFINE b == units[u].of
           buf == [heap.bufs[b] EXCEPT !.deallocated = @ \/ units[u].kind = "dealloca"]
           stage == IF units[u].kind = "transfer" /\ heap.bufs[b].deallocated THEN "refused" ELSE "done"
           call == [units[u] EXCEPT !.stage = stage]
<1>1. heap \in Heap /\ heap.bufs \in Seq(Buf) /\ units \in Seq(Call) /\ u \in DOMAIN units
  BY DEF Core, Types, HeapOK, Heap
<1>2. units[u].stage = "queued" /\ units[u].kind # "execute" /\ UNCHANGED <<device, late>>
      /\ heap' = ReleaseBuffer([heap EXCEPT !.bufs[b].deallocated = @ \/ units[u].kind = "dealloca"], b)
      /\ units' = [units EXCEPT ![u].stage = stage]
  BY DEF RunTransfer
<1>3. units[u] \in Call /\ b \in DOMAIN heap.bufs /\ units[u].regcmd = <<>> /\ units[u].kind \in Transfers
  <2>1. units[u] \in Call
    BY <1>1
  <2>2. units[u].kind \in Transfers
    BY <1>2, <2>1 DEF Call, Transfers
  <2> QED  BY <1>1, <1>2, <2>1, <2>2 DEF Core, Links
<1>4. heap.bufs[b] \in Buf
  BY <1>1, <1>3
<1>5. buf \in Buf /\ buf.refs = heap.bufs[b].refs /\ buf.bo = heap.bufs[b].bo
      /\ buf.client = heap.bufs[b].client
  <2>1. (heap.bufs[b].deallocated \/ units[u].kind = "dealloca") \in BOOLEAN
    OBVIOUS
  <2> QED  BY <1>4, <2>1 DEF Buf
<1>6. heap' = ReleaseBuffer([heap EXCEPT !.bufs = [heap.bufs EXCEPT ![b] = buf]], b)
  <2>1. [heap EXCEPT !.bufs[b].deallocated = @ \/ units[u].kind = "dealloca"]
          = [heap EXCEPT !.bufs = [heap.bufs EXCEPT ![b] = buf]]
    BY <1>1 DEF Heap
  <2> HIDE DEF buf, b
  <2> QED  BY <1>2, <2>1
<1> HIDE DEF buf
<1>7. heap.bufs[b].refs > 0
  BY <1>1, <1>2, <1>3, BufRefs DEF Core
<1>8. Shed(b, heap.bufs[b].client)
  BY <1>3, <1>5, <1>6, <1>7, SheddingOK
<1>9. stage \in {"done", "refused"}
  OBVIOUS
<1> HIDE DEF stage
<1>10. /\ call \in Call /\ call.kind = units[u].kind /\ call.of = units[u].of /\ call.stage = stage
       /\ call.regcmd = <<>> /\ units' = [units EXCEPT ![u] = call]
  BY <1>2, <1>3, <1>9 DEF Call
<1> HIDE DEF call, b
<1>11. /\ units' \in Seq(Call) /\ CallsLinked(units', heap.cbs, heap.bufs)
       /\ \A kinds, n :
            /\ Cardinality(CallSet(units', kinds, n)) \in Nat /\ Cardinality(CallSet(units, kinds, n)) \in Nat
            /\ Cardinality(CallSet(units', kinds, n)) =
                 Cardinality(CallSet(units, kinds, n)) - One(units[u].kind \in kinds /\ units[u].of = n)
  <2>1. units[u].stage \notin {"done", "refused"}
    BY <1>2
  <2> QED  BY <1>1, <1>9, <1>10, <2>1, Settles
<1>12. ASSUME NEW a \in DOMAIN heap.bufs
       PROVE  Mine(heap'.bufs[a]) + Cardinality(CallSet(units', Transfers, a)) =
                Mine(heap.bufs[a]) + Cardinality(CallSet(units, Transfers, a)) - One(a = b)
  <2>1. Mine(heap'.bufs[a]) = Mine(heap.bufs[a])
    <3>1. CASE a = b
      BY <3>1, <1>8 DEF Mine, Shed
    <3>2. CASE a # b
      BY <3>2, <1>8 DEF Shed
    <3> QED  BY <3>1, <3>2
  <2>2. One(units[u].kind \in Transfers /\ units[u].of = a) = One(a = b)
    BY <1>3 DEF One, b
  <2>3. One(a = b) \in Nat /\ Mine(heap.bufs[a]) \in Nat
    BY DEF One, Mine
  <2>4. /\ Cardinality(CallSet(units', Transfers, a)) \in Nat /\ Cardinality(CallSet(units, Transfers, a)) \in Nat
        /\ Cardinality(CallSet(units', Transfers, a)) = Cardinality(CallSet(units, Transfers, a)) - One(a = b)
    BY <1>11, <2>2
  <2> QED  BY <2>1, <2>3, <2>4
<1>13. ASSUME NEW c \in DOMAIN heap.cbs
       PROVE  Cardinality(CallSet(units', {"execute"}, c)) = Cardinality(CallSet(units, {"execute"}, c))
  <2>1. One(units[u].kind \in {"execute"} /\ units[u].of = c) = 0
    BY <1>2 DEF One
  <2>2. /\ Cardinality(CallSet(units, {"execute"}, c)) \in Nat
        /\ Cardinality(CallSet(units', {"execute"}, c)) =
             Cardinality(CallSet(units, {"execute"}, c)) - One(units[u].kind \in {"execute"} /\ units[u].of = c)
    BY <1>11
  <2> QED  BY <2>1, <2>2
<1>14. Core'
  BY <1>2, <1>3, <1>8, <1>11, <1>12, <1>13, ShedCore
<1> QED  BY <1>3, <1>8, <1>14 DEF b

(* A call that is made.                                                    *)
LEMMA CallMade ==
  ASSUME Core, NEW kind \in {"execute", "transfer", "dealloca"},
         NEW of \in IF kind = "execute" THEN DOMAIN heap.cbs ELSE DOMAIN heap.bufs,
         NEW stage \in {"queued", "rejected"}, units' = Append(units, Unit(kind, of, stage))
  PROVE  /\ units' \in Seq(Call) /\ CallsLinked(units', heap.cbs, heap.bufs)
         /\ \A kinds, n :
              /\ Cardinality(CallSet(units', kinds, n)) \in Nat /\ Cardinality(CallSet(units, kinds, n)) \in Nat
              /\ Cardinality(CallSet(units', kinds, n)) =
                   Cardinality(CallSet(units, kinds, n)) + One(kind \in kinds /\ of = n)
<1> DEFINE call == Unit(kind, of, stage)
           u == Len(units) + 1
<1>1. units \in Seq(Call) /\ heap.cbs \in Seq(Cb) /\ heap.bufs \in Seq(Buf)
  BY DEF Core, Types, HeapOK, Heap
<1>2. of \in Nat
  BY <1>1
<1>3. call \in Call /\ call.kind = kind /\ call.of = of /\ call.stage = stage /\ call.regcmd = <<>>
  <2>1. <<>> \in Seq(Bo)
    OBVIOUS
  <2> QED  BY <1>2, <2>1 DEF Unit, Call
<1> HIDE DEF call
<1>4. units' = Append(units, call)
  BY DEF call
<1>5. /\ units' \in Seq(Call) /\ SameBut(units, units', u) /\ DOMAIN units' = DOMAIN units \cup {u}
      /\ u \notin DOMAIN units /\ units'[u] = call
  <2>1. call \in Call
    BY <1>3
  <2> QED  BY <1>1, <1>4, <2>1 DEF SameBut
<1> HIDE DEF u
<1>6. ASSUME NEW v \in DOMAIN units'
      PROVE  /\ units'[v].of \in IF units'[v].kind = "execute" THEN DOMAIN heap.cbs ELSE DOMAIN heap.bufs
             /\ units'[v].stage = "running" => units'[v].kind = "execute"
             /\ Len(units'[v].regcmd) <= 1
             /\ units'[v].regcmd # <<>> => units'[v].stage = "running"
  <2>1. CASE v = u
    <3>1. units'[v].kind = kind /\ units'[v].of = of /\ units'[v].stage = stage /\ units'[v].regcmd = <<>>
      BY <2>1, <1>3, <1>5
    <3> QED  BY <3>1
  <2>2. CASE v # u
    <3>1. v \in DOMAIN units /\ units'[v] = units[v]
      BY <2>2, <1>5 DEF SameBut
    <3> QED  BY <3>1 DEF Core, Links
  <2> QED  BY <2>1, <2>2
<1>7. ASSUME NEW kinds, NEW n
      PROVE  /\ Cardinality(CallSet(units', kinds, n)) \in Nat /\ Cardinality(CallSet(units, kinds, n)) \in Nat
             /\ Cardinality(CallSet(units', kinds, n)) =
                  Cardinality(CallSet(units, kinds, n)) + One(kind \in kinds /\ of = n)
  <2>1. CallsMove(units, units', u, kinds, n)
    BY <1>1, <1>5, CallsCounted
  <2>2. HitsAt(units, u, kinds, n) = 0
    BY <1>5 DEF HitsAt, One
  <2>3. HitsAt(units', u, kinds, n) = One(kind \in kinds /\ of = n)
    <3>1. Hit(units'[u], kinds, n) <=> kind \in kinds /\ of = n
      BY <1>3, <1>5 DEF Hit
    <3>2. u \in DOMAIN units'
      BY <1>5
    <3> QED  BY <3>1, <3>2 DEF HitsAt, One
  <2>4. One(kind \in kinds /\ of = n) \in Nat
    BY DEF One
  <2> QED  BY <2>1, <2>2, <2>3, <2>4 DEF CallsMove
<1> QED  BY <1>5, <1>6, <1>7 DEF CallsLinked

LEMMA queue_transferCore ==
  ASSUME Core, NEW b \in DOMAIN heap.bufs, NEW kind \in {"transfer", "dealloca"}, queue_transfer(b, kind)
  PROVE  Core'
<1> DEFINE buf == [heap.bufs[b] EXCEPT !.refs = @ + 1]
           bufs == [heap.bufs EXCEPT ![b] = buf]
<1> USE DEF Core
<1>1. /\ HeapOK(heap) /\ heap \in Heap /\ heap.bufs \in Seq(Buf) /\ heap.cbs \in Seq(Cb)
      /\ units \in Seq(Call) /\ heap.bufs[b] \in Buf
  BY DEF Types, HeapOK, Heap
<1>2. /\ heap' = [heap EXCEPT !.bufs = bufs] /\ UNCHANGED <<device, late>>
      /\ units' = Append(units, Unit(kind, b, "queued"))
  BY <1>1 DEF queue_transfer, Heap
<1>3. buf \in Buf /\ buf.refs = heap.bufs[b].refs + 1 /\ buf.client = heap.bufs[b].client
      /\ heap.bufs[b].refs \in Nat
  <2>1. heap.bufs[b] \in Buf
    BY <1>1
  <2> QED  BY <2>1 DEF Buf
<1> HIDE DEF buf
<1>4. /\ bufs \in Seq(Buf) /\ DOMAIN bufs = DOMAIN heap.bufs /\ bufs[b] = buf
      /\ \A a \in DOMAIN heap.bufs \ {b} : bufs[a] = heap.bufs[a]
  BY <1>1, <1>3
<1> HIDE DEF bufs
<1>5. /\ HeapOK(heap') /\ heap'.open = heap.open /\ heap'.pool = heap.pool
      /\ heap'.ctxs = heap.ctxs /\ heap'.cbs = heap.cbs /\ heap'.bufs = bufs
  BY <1>1, <1>2, <1>4 DEF HeapOK, Heap
<1>6. /\ units' \in Seq(Call) /\ CallsLinked(units', heap.cbs, heap.bufs)
      /\ \A kinds, n :
           /\ Cardinality(CallSet(units', kinds, n)) \in Nat /\ Cardinality(CallSet(units, kinds, n)) \in Nat
           /\ Cardinality(CallSet(units', kinds, n)) =
                Cardinality(CallSet(units, kinds, n)) + One(kind \in kinds /\ b = n)
  BY <1>2, CallMade
<1>7. Types'
  BY <1>2, <1>5, <1>6 DEF Types
<1>8. Up' = Up /\ Base' = Base
  BY <1>2 DEF Up, Base
<1>9. Links'
  <2>1. CallsLinked(units', heap'.cbs, heap'.bufs)
    BY <1>4, <1>5, <1>6 DEF CallsLinked
  <2> QED  BY <1>2, <1>4, <1>5, <1>8, <2>1 DEF Links, CallsLinked
<1>10. RefsBalance'
  <2>1. ASSUME NEW a \in DOMAIN heap.bufs
        PROVE  heap'.bufs[a].refs = Mine(heap'.bufs[a]) + Cardinality(RecSet(heap'.cbs, a))
                                      + Cardinality(CallSet(units', Transfers, a))
    <3>1. heap.bufs[a].refs = Mine(heap.bufs[a]) + Cardinality(RecSet(heap.cbs, a))
                                + Cardinality(CallSet(units, Transfers, a))
      BY Balance DEF BufsBalance
    <3>2. Mine(heap'.bufs[a]) = Mine(heap.bufs[a]) /\ Mine(heap.bufs[a]) \in Nat
          /\ heap'.bufs[a].refs = heap.bufs[a].refs + One(a = b)
      <4>1. heap.bufs[a] \in Buf
        BY <1>1
      <4> QED  BY <4>1, <1>3, <1>4, <1>5 DEF Mine, One, Buf
    <3>3. /\ Cardinality(CallSet(units', Transfers, a)) = Cardinality(CallSet(units, Transfers, a)) + One(a = b)
          /\ Cardinality(CallSet(units, Transfers, a)) \in Nat
      <4>1. One(kind \in Transfers /\ b = a) = One(a = b)
        BY DEF Transfers, One
      <4> QED  BY <4>1, <1>6
    <3>4. Cardinality(RecSet(heap.cbs, a)) \in Nat /\ One(a = b) \in Nat
      BY <1>1, SeqFinite DEF RecSet, One
    <3>5. Cardinality(RecSet(heap'.cbs, a)) = Cardinality(RecSet(heap.cbs, a))
      BY <1>5
    <3> QED  BY <3>1, <3>2, <3>3, <3>4, <3>5
  <2>2. BufsBalance(heap'.bufs, heap'.cbs, units')
    BY <1>4, <1>5, <2>1 DEF BufsBalance
  <2>3. CbsBalance(heap'.cbs, units')
    <3>1. ASSUME NEW c \in DOMAIN heap.cbs
          PROVE  Cardinality(CallSet(units', {"execute"}, c)) = Cardinality(CallSet(units, {"execute"}, c))
      <4>1. One(kind \in {"execute"} /\ b = c) = 0
        BY DEF One
      <4>2. Cardinality(CallSet(units, {"execute"}, c)) \in Nat
            /\ Cardinality(CallSet(units', {"execute"}, c)) =
                 Cardinality(CallSet(units, {"execute"}, c)) + One(kind \in {"execute"} /\ b = c)
        BY <1>6
      <4> QED  BY <4>1, <4>2
    <3> QED  BY <1>5, <3>1, Balance DEF CbsBalance
  <2>4. CtxsBalance(heap'.ctxs, heap'.cbs, device'.contexts)
    BY <1>2, <1>5, Balance
  <2> QED  BY <1>7, <2>2, <2>3, <2>4, BalanceNext DEF Balanced
<1>11. PoolAccounts'
  BY <1>5 DEF PoolAccounts
<1>12. Descriptors'
  BY <1>2, <1>5, <1>8, DescriptorsKept
<1> QED  BY <1>7, <1>9, <1>10, <1>11, <1>12

LEMMA queue_executeCore ==
  ASSUME Core, NEW c \in DOMAIN heap.cbs, queue_execute(c)
  PROVE  Core'
<1> DEFINE cb == [heap.cbs[c] EXCEPT !.refs = @ + 1]
           cbs == [heap.cbs EXCEPT ![c] = cb]
           stage == IF WorkerGone(heap.cbs[c].context) THEN "rejected" ELSE "queued"
<1> USE DEF Core
<1>1. /\ HeapOK(heap) /\ heap \in Heap /\ heap.bufs \in Seq(Buf) /\ heap.cbs \in Seq(Cb)
      /\ units \in Seq(Call) /\ heap.cbs[c] \in Cb
  BY DEF Types, HeapOK, Heap
<1>2. /\ heap' = [heap EXCEPT !.cbs = cbs] /\ UNCHANGED <<device, late>> /\ heap.cbs[c].client
      /\ units' = Append(units, Unit("execute", c, stage))
  BY <1>1 DEF queue_execute, Heap
<1>3. stage \in {"queued", "rejected"} /\ heap.cbs[c].refs > 0
  BY <1>2, CbRefs
<1> HIDE DEF stage
<1>4. /\ cb \in Cb /\ cb.refs = heap.cbs[c].refs + 1 /\ cb.client = heap.cbs[c].client
      /\ heap.cbs[c].refs \in Nat /\ cb.ops = heap.cbs[c].ops
      /\ cb.context = heap.cbs[c].context /\ cb.siblings = heap.cbs[c].siblings
  <2>1. heap.cbs[c] \in Cb
    BY <1>1
  <2>2. heap.cbs[c].refs \in Nat /\ heap.cbs[c].refs + 1 \in Nat
    BY <2>1 DEF Cb
  <2>3. cb \in Cb
    BY <2>1, <2>2 DEF Cb
  <2>4. /\ cb.refs = heap.cbs[c].refs + 1 /\ cb.client = heap.cbs[c].client /\ cb.ops = heap.cbs[c].ops
        /\ cb.context = heap.cbs[c].context /\ cb.siblings = heap.cbs[c].siblings
    BY <2>1 DEF Cb
  <2> QED  BY <2>2, <2>3, <2>4
<1> HIDE DEF cb
<1>5. /\ cbs \in Seq(Cb) /\ DOMAIN cbs = DOMAIN heap.cbs /\ cbs[c] = cb
      /\ \A d \in DOMAIN heap.cbs \ {c} : cbs[d] = heap.cbs[d]
  BY <1>1, <1>4
<1> HIDE DEF cbs
<1>6. /\ HeapOK(heap') /\ heap'.open = heap.open /\ heap'.pool = heap.pool
      /\ heap'.ctxs = heap.ctxs /\ heap'.bufs = heap.bufs /\ heap'.cbs = cbs
  BY <1>1, <1>2, <1>5 DEF HeapOK, Heap
<1>7. /\ units' \in Seq(Call) /\ CallsLinked(units', heap.cbs, heap.bufs)
      /\ \A kinds, n :
           /\ Cardinality(CallSet(units', kinds, n)) \in Nat /\ Cardinality(CallSet(units, kinds, n)) \in Nat
           /\ Cardinality(CallSet(units', kinds, n)) =
                Cardinality(CallSet(units, kinds, n)) + One("execute" \in kinds /\ c = n)
  BY <1>2, <1>3, CallMade
<1>8. ASSUME NEW d \in DOMAIN heap.cbs
      PROVE  /\ ContextsOf(cbs[d]) = ContextsOf(heap.cbs[d]) /\ cbs[d].ops = heap.cbs[d].ops
             /\ cbs[d].refs > 0 <=> heap.cbs[d].refs > 0
  <2>1. CASE d = c
    BY <2>1, <1>3, <1>4, <1>5 DEF ContextsOf
  <2>2. CASE d # c
    BY <2>2, <1>5
  <2> QED  BY <2>1, <2>2
<1>9. Types'
  BY <1>2, <1>6, <1>7 DEF Types
<1>10. Up' = Up /\ Base' = Base
  BY <1>2 DEF Up, Base
<1>11. Links'
  <2>1. CallsLinked(units', heap'.cbs, heap'.bufs)
    BY <1>5, <1>6, <1>7 DEF CallsLinked
  <2>2. \A d \in DOMAIN heap'.cbs :
          /\ ContextsOf(heap'.cbs[d]) \subseteq DOMAIN heap'.ctxs
          /\ Len(heap'.cbs[d].ops) <= 1
          /\ \A n \in DOMAIN heap'.cbs[d].ops : heap'.cbs[d].ops[n].binding \in DOMAIN heap'.bufs
    BY <1>5, <1>6, <1>8 DEF Links
  <2> QED  BY <1>2, <1>6, <1>10, <2>1, <2>2 DEF Links, CallsLinked
<1>12. RefsBalance'
  <2>1. BufsBalance(heap'.bufs, heap'.cbs, units')
    <3>1. ASSUME NEW a PROVE RecSet(heap'.cbs, a) = RecSet(heap.cbs, a)
      BY <1>5, <1>6, <1>8 DEF RecSet, Binds
    <3>2. ASSUME NEW a
          PROVE  Cardinality(CallSet(units', Transfers, a)) = Cardinality(CallSet(units, Transfers, a))
      <4>1. One("execute" \in Transfers /\ c = a) = 0
        BY DEF One, Transfers
      <4>2. Cardinality(CallSet(units, Transfers, a)) \in Nat
            /\ Cardinality(CallSet(units', Transfers, a)) =
                 Cardinality(CallSet(units, Transfers, a)) + One("execute" \in Transfers /\ c = a)
        BY <1>7
      <4> QED  BY <4>1, <4>2
    <3> QED  BY <1>6, <3>1, <3>2, Balance DEF BufsBalance
  <2>2. CbsBalance(heap'.cbs, units')
    <3>1. ASSUME NEW d \in DOMAIN heap.cbs
          PROVE  heap'.cbs[d].refs = Mine(heap'.cbs[d]) + Cardinality(CallSet(units', {"execute"}, d))
      <4>1. heap.cbs[d].refs = Mine(heap.cbs[d]) + Cardinality(CallSet(units, {"execute"}, d))
        BY Balance DEF CbsBalance
      <4>2. Mine(heap'.cbs[d]) = Mine(heap.cbs[d]) /\ Mine(heap.cbs[d]) \in Nat
            /\ heap'.cbs[d].refs = heap.cbs[d].refs + One(d = c)
        <5>1. heap.cbs[d] \in Cb
          BY <1>1
        <5>2. heap.cbs[d].refs \in Nat /\ Mine(heap.cbs[d]) \in Nat
          BY <5>1 DEF Cb, Mine
        <5>3. CASE d = c
          BY <5>2, <5>3, <1>4, <1>5, <1>6 DEF Mine, One
        <5>4. CASE d # c
          <6>1. heap'.cbs[d] = heap.cbs[d] /\ One(d = c) = 0
            BY <5>4, <1>5, <1>6 DEF One
          <6> QED  BY <5>2, <6>1
        <5> QED  BY <5>3, <5>4
      <4>3. /\ Cardinality(CallSet(units', {"execute"}, d)) =
                 Cardinality(CallSet(units, {"execute"}, d)) + One(d = c)
            /\ Cardinality(CallSet(units, {"execute"}, d)) \in Nat
        <5>1. One("execute" \in {"execute"} /\ c = d) = One(d = c)
          BY DEF One
        <5> QED  BY <5>1, <1>7
      <4>4. One(d = c) \in Nat
        BY DEF One
      <4> QED  BY <4>1, <4>2, <4>3, <4>4
    <3> QED  BY <1>5, <1>6, <3>1 DEF CbsBalance
  <2>3. CtxsBalance(heap'.ctxs, heap'.cbs, device'.contexts)
    <3>1. ASSUME NEW x PROVE PlaceSet(heap'.cbs, x) = PlaceSet(heap.cbs, x)
      BY <1>5, <1>6, <1>8 DEF PlaceSet, On
    <3> QED  BY <1>2, <1>6, <3>1, Balance DEF CtxsBalance
  <2> QED  BY <1>9, <2>1, <2>2, <2>3, BalanceNext DEF Balanced
<1>13. PoolAccounts'
  BY <1>6 DEF PoolAccounts
<1>14. Descriptors'
  BY <1>2, <1>6, <1>10, DescriptorsKept
<1> QED  BY <1>9, <1>11, <1>12, <1>13, <1>14

(* What the end of a command buffer does to the buffers.                   *)
LEMMA EmptiedBufs ==
  ASSUME NEW w, HeapOK(w), NEW d, NEW cb \in Cb, Len(cb.ops) <= 1, Emptied(w, d, cb),
         \A n \in DOMAIN cb.ops : cb.ops[n].binding \in DOMAIN w.bufs
  PROVE  /\ d.open = w.open /\ DOMAIN d.bufs = DOMAIN w.bufs
         /\ \A a \in DOMAIN w.bufs :
              /\ d.bufs[a].refs = w.bufs[a].refs - One(Binds(cb, a)) /\ w.bufs[a].refs \in Nat
              /\ d.bufs[a].client = w.bufs[a].client /\ d.bufs[a].bo = w.bufs[a].bo
<1>1. w.bufs \in Seq(Buf)
  BY DEF HeapOK, Heap
<1>2. ASSUME NEW a \in DOMAIN w.bufs PROVE w.bufs[a] \in Buf /\ w.bufs[a].refs \in Nat
  <2>1. w.bufs[a] \in Buf
    BY <1>1
  <2> QED  BY <2>1 DEF Buf
<1>3. CASE cb.ops = <<>>
  <2>1. d.open = w.open /\ d.bufs = w.bufs
    BY <1>3 DEF Emptied
  <2>2. ASSUME NEW a PROVE One(Binds(cb, a)) = 0
    BY <1>3 DEF Binds, One
  <2> QED  BY <1>2, <2>1, <2>2
<1>4. CASE cb.ops # <<>>
  <2> DEFINE b == cb.ops[1].binding
  <2>1. PICK m : /\ HeapOK(m) /\ Unref(w, m, b) /\ Dropped(m, d, cb.ops[1].scratch)
    BY <1>4 DEF Emptied
  <2>2. cb.ops \in Seq(Op) /\ DOMAIN cb.ops = {1}
    BY <1>4 DEF Cb
  <2>3. b \in DOMAIN w.bufs
    BY <2>2
  <2>4. \A a : Binds(cb, a) <=> a = b
    BY <2>2 DEF Binds
  <2> HIDE DEF b
  <2>5. /\ m.open = w.open /\ m.bufs = [w.bufs EXCEPT ![b].refs = @ - 1]
        /\ d.open = m.open /\ d.bufs = m.bufs
    BY <2>1 DEF Unref, Dropped, Objects
  <2>6. d.bufs = [w.bufs EXCEPT ![b] = [w.bufs[b] EXCEPT !.refs = @ - 1]]
    BY <2>5
  <2>7. DOMAIN d.bufs = DOMAIN w.bufs
    BY <2>6
  <2>8. ASSUME NEW a \in DOMAIN w.bufs
        PROVE  /\ d.bufs[a].refs = w.bufs[a].refs - One(Binds(cb, a)) /\ w.bufs[a].refs \in Nat
               /\ d.bufs[a].client = w.bufs[a].client /\ d.bufs[a].bo = w.bufs[a].bo
    <3>1. CASE a = b
      <4>1. d.bufs[a] = [w.bufs[a] EXCEPT !.refs = @ - 1]
        BY <2>6, <3>1
      <4>2. One(Binds(cb, a)) = 1
        BY <2>4, <3>1 DEF One
      <4>3. w.bufs[a] \in Buf /\ w.bufs[a].refs \in Nat
        BY <1>2
      <4>4. d.bufs[a].refs = w.bufs[a].refs - 1 /\ d.bufs[a].client = w.bufs[a].client
            /\ d.bufs[a].bo = w.bufs[a].bo
        BY <4>1, <4>3 DEF Buf
      <4> QED  BY <4>2, <4>3, <4>4
    <3>2. CASE a # b
      <4>1. d.bufs[a] = w.bufs[a]
        BY <2>6, <3>2
      <4>2. One(Binds(cb, a)) = 0 /\ w.bufs[a].refs \in Nat
        BY <1>2, <2>4, <3>2 DEF One
      <4> QED  BY <4>1, <4>2
    <3> QED  BY <3>1, <3>2
  <2> QED  BY <2>5, <2>7, <2>8
<1> QED  BY <1>3, <1>4

(* Owned contexts have descriptors of their own.                           *)
LEMMA OwnFds ==
  ASSUME Descriptors, NEW x, NEW y, Owned(x), Owned(y), heap.ctxs[x].fd = heap.ctxs[y].fd
  PROVE  x = y
BY DEF Descriptors, Owned

(* Contexts lose a reference: whose descriptors are left.                  *)
LEMMA FewerOwned ==
  ASSUME Core, NEW xs \in SUBSET DOMAIN heap.ctxs, heap'.ctxs = Fewer(heap.ctxs, xs)
  PROVE  /\ DOMAIN heap'.ctxs = DOMAIN heap.ctxs
         /\ \A x \in DOMAIN heap.ctxs :
              /\ heap'.ctxs[x].fd = heap.ctxs[x].fd /\ heap.ctxs[x].fd \in Fds
              /\ Owned(x)' <=> Owned(x) /\ ~(x \in xs /\ heap.ctxs[x].refs = 1)
              /\ Owned(x)' => heap.ctxs[x].fd \notin LastFds(heap.ctxs, xs)
<1> USE DEF Core
<1>1. heap.ctxs \in Seq(Ctx) /\ DOMAIN heap'.ctxs = DOMAIN heap.ctxs
  BY DEF Types, HeapOK, Heap, Fewer
<1>2. ASSUME NEW x \in DOMAIN heap.ctxs
      PROVE  /\ heap'.ctxs[x].fd = heap.ctxs[x].fd /\ heap.ctxs[x].fd \in Fds
             /\ Owned(x)' <=> Owned(x) /\ ~(x \in xs /\ heap.ctxs[x].refs = 1)
  <2>1. heap.ctxs[x] \in Ctx
    BY <1>1
  <2>2. heap.ctxs[x].refs \in Nat /\ heap.ctxs[x].fd \in Fds
    BY <2>1 DEF Ctx
  <2>3. heap'.ctxs[x] = IF x \in xs THEN [heap.ctxs[x] EXCEPT !.refs = @ - 1] ELSE heap.ctxs[x]
    BY DEF Fewer
  <2>4. CASE x \in xs
    <3>1. heap'.ctxs[x].fd = heap.ctxs[x].fd /\ heap'.ctxs[x].refs = heap.ctxs[x].refs - 1
      BY <2>1, <2>3, <2>4 DEF Ctx
    <3>2. heap'.ctxs[x].refs > 0 <=> heap.ctxs[x].refs > 0 /\ heap.ctxs[x].refs # 1
      BY <2>2, <3>1
    <3> QED  BY <1>1, <2>2, <2>4, <3>1, <3>2 DEF Owned
  <2>5. CASE x \notin xs
    BY <1>1, <2>2, <2>3, <2>5 DEF Owned
  <2> QED  BY <2>4, <2>5
<1>3. ASSUME NEW x \in DOMAIN heap.ctxs, Owned(x), ~(x \in xs /\ heap.ctxs[x].refs = 1)
      PROVE  heap.ctxs[x].fd \notin LastFds(heap.ctxs, xs)
  <2>1. SUFFICES ASSUME NEW y \in xs, heap.ctxs[y].refs = 1, heap.ctxs[x].fd = heap.ctxs[y].fd
                 PROVE  FALSE
    BY DEF LastFds
  <2>2. Owned(y)
    BY <2>1 DEF Owned
  <2> QED  BY <1>3, <2>1, <2>2, OwnFds
<1> QED  BY <1>1, <1>2, <1>3

(* Contexts lose a reference, and with the last one their descriptors.     *)
LEMMA FewerDescriptors ==
  ASSUME Core, NEW xs \in SUBSET DOMAIN heap.ctxs, \A x \in xs : heap.ctxs[x].refs > 0,
         heap'.ctxs = Fewer(heap.ctxs, xs),
         heap'.open = [fd \in Fds |-> IF fd \in LastFds(heap.ctxs, xs) THEN 0 ELSE heap.open[fd]],
         UNCHANGED device
  PROVE  Descriptors'
<1> USE DEF Core
<1>1. DOMAIN heap'.ctxs = DOMAIN heap.ctxs
  BY FewerOwned
<1>2. ASSUME NEW x \in DOMAIN heap.ctxs
      PROVE  /\ heap'.ctxs[x].fd = heap.ctxs[x].fd /\ heap.ctxs[x].fd \in Fds
             /\ Owned(x)' <=> Owned(x) /\ ~(x \in xs /\ heap.ctxs[x].refs = 1)
             /\ Owned(x)' => heap.ctxs[x].fd \notin LastFds(heap.ctxs, xs)
  BY FewerOwned
<1>3. Up' = Up /\ Base' = Base
  BY DEF Up, Base
<1>5. ASSUME NEW x \in DOMAIN heap'.ctxs, Owned(x)'
      PROVE  heap'.open[heap'.ctxs[x].fd] = x /\ (Up => heap'.ctxs[x].fd \notin {device.file, device.allocator})
  <2>1. Owned(x) /\ heap'.ctxs[x].fd = heap.ctxs[x].fd /\ heap.ctxs[x].fd \in Fds
    BY <1>1, <1>2, <1>5
  <2>2. heap.ctxs[x].fd \notin LastFds(heap.ctxs, xs)
    BY <1>1, <1>2, <1>5
  <2>3. heap.open[heap.ctxs[x].fd] = x /\ (Up => heap.ctxs[x].fd \notin {device.file, device.allocator})
    BY <1>1, <2>1 DEF Descriptors
  <2> QED  BY <2>1, <2>2, <2>3
<1>6. ASSUME Up, NEW fd \in {device.file, device.allocator}
      PROVE  fd \in Fds /\ heap'.open[fd] = heap.open[fd]
  <2>1. fd \in Fds
    BY <1>6 DEF Descriptors
  <2>2. fd \notin LastFds(heap.ctxs, xs)
    <3>1. SUFFICES ASSUME NEW y \in xs, heap.ctxs[y].refs = 1, fd = heap.ctxs[y].fd
                   PROVE  FALSE
      BY DEF LastFds
    <3>2. Owned(y) /\ y \in DOMAIN heap.ctxs
      BY <3>1 DEF Owned
    <3> QED  BY <1>6, <3>1, <3>2 DEF Descriptors
  <2> QED  BY <2>1, <2>2
<1>7. ASSUME NEW fd \in Fds, heap'.open[fd] # 0
      PROVE  \/ Up' /\ fd \in {device'.file, device'.allocator}
             \/ \E x \in DOMAIN heap'.ctxs : Owned(x)' /\ heap'.ctxs[x].fd = fd
  <2>1. fd \notin LastFds(heap.ctxs, xs) /\ heap.open[fd] # 0
    BY <1>7
  <2>2. CASE Up /\ fd \in {device.file, device.allocator}
    BY <2>2, <1>3
  <2>3. ASSUME NEW x \in DOMAIN heap.ctxs, Owned(x), heap.ctxs[x].fd = fd
        PROVE  Owned(x)' /\ heap'.ctxs[x].fd = fd
    <3>1. ~(x \in xs /\ heap.ctxs[x].refs = 1)
      BY <2>1, <2>3 DEF LastFds
    <3> QED  BY <1>2, <2>3, <3>1
  <2>4. (Up /\ fd \in {device.file, device.allocator})
        \/ \E x \in DOMAIN heap.ctxs : Owned(x) /\ heap.ctxs[x].fd = fd
    BY <2>1 DEF Descriptors
  <2> QED  BY <1>1, <2>2, <2>3, <2>4
<1>8. Up' => /\ device'.file \in Fds /\ device'.allocator \in Fds /\ device'.file # device'.allocator
             /\ heap'.open[device'.file] = Base' + 1 /\ heap'.open[device'.allocator] = Base' + 1
  BY <1>3, <1>6 DEF Descriptors
<1> QED  BY <1>3, <1>5, <1>7, <1>8 DEF Descriptors

(* Command buffer c is about to lose a reference: w is the heap, with the  *)
(* client's flag as it will be and the register program dropped.           *)
Ready(w, c, client) ==
  /\ HeapOK(w) /\ w.open = heap.open /\ w.ctxs = heap.ctxs /\ w.bufs = heap.bufs /\ Accounts(w)
  /\ w.cbs \in Seq(Cb) /\ DOMAIN w.cbs = DOMAIN heap.cbs
  /\ \A d \in DOMAIN heap.cbs \ {c} : w.cbs[d] = heap.cbs[d]
  /\ w.cbs[c].refs = heap.cbs[c].refs /\ w.cbs[c].client = client /\ w.cbs[c].ops = heap.cbs[c].ops
  /\ w.cbs[c].context = heap.cbs[c].context /\ w.cbs[c].siblings = heap.cbs[c].siblings

LEMMA ReadyReleases ==
  ASSUME Core, NEW c \in DOMAIN heap.cbs, heap.cbs[c].refs > 0, NEW w, NEW client, Ready(w, c, client)
  PROVE  /\ Releasable(w, c) /\ ContextsOf(w.cbs[c]) = ContextsOf(heap.cbs[c])
         /\ IF heap.cbs[c].refs = 1 THEN Gone(w, ReleaseCommandBuffer(w, c), c)
            ELSE Kept(w, ReleaseCommandBuffer(w, c), c)
<1>1. ContextsOf(w.cbs[c]) = ContextsOf(heap.cbs[c])
  BY DEF Ready, ContextsOf
<1>2. Releasable(heap, c)
  BY CbReleasable DEF Core
<1>3. Releasable(w, c)
  BY <1>1, <1>2 DEF Releasable, Ready
<1>4. HeapOK(w) /\ w.cbs[c].refs = heap.cbs[c].refs
  BY DEF Ready
<1>5. IF w.cbs[c].refs = 1 THEN Gone(w, ReleaseCommandBuffer(w, c), c)
      ELSE Kept(w, ReleaseCommandBuffer(w, c), c)
  BY <1>3, <1>4, ReleaseCommandBufferOK
<1> QED  BY <1>1, <1>3, <1>4, <1>5

(* What is left of the objects when c has lost the reference.              *)
LetGo(c, client) ==
  LET last(p) == One(p /\ heap.cbs[c].refs = 1)
  IN  /\ HeapOK(heap') /\ Accounts(heap')
      /\ DOMAIN heap'.cbs = DOMAIN heap.cbs /\ DOMAIN heap'.bufs = DOMAIN heap.bufs
      /\ \A d \in DOMAIN heap.cbs \ {c} : heap'.cbs[d] = heap.cbs[d]
      /\ heap'.cbs[c].refs = heap.cbs[c].refs - 1 /\ heap'.cbs[c].client = client
      /\ heap'.cbs[c].ops = IF heap.cbs[c].refs = 1 THEN <<>> ELSE heap.cbs[c].ops
      /\ ContextsOf(heap'.cbs[c]) = ContextsOf(heap.cbs[c])
      /\ \A a \in DOMAIN heap.bufs :
           /\ heap'.bufs[a].refs = heap.bufs[a].refs - last(Binds(heap.cbs[c], a))
           /\ heap'.bufs[a].client = heap.bufs[a].client /\ heap'.bufs[a].bo = heap.bufs[a].bo
      /\ IF heap.cbs[c].refs = 1
         THEN /\ heap'.ctxs = Fewer(heap.ctxs, ContextsOf(heap.cbs[c]))
              /\ heap'.open = [fd \in Fds |-> IF fd \in LastFds(heap.ctxs, ContextsOf(heap.cbs[c]))
                                              THEN 0 ELSE heap.open[fd]]
         ELSE heap'.ctxs = heap.ctxs /\ heap'.open = heap.open

LEMMA LetGoOK ==
  ASSUME Core, NEW c \in DOMAIN heap.cbs, heap.cbs[c].refs > 0, NEW w, NEW client, Ready(w, c, client),
         heap' = ReleaseCommandBuffer(w, c)
  PROVE  LetGo(c, client)
<1>1. w.cbs[c] \in Cb /\ heap.cbs[c].refs \in Nat /\ w.cbs \in Seq(Cb) /\ c \in DOMAIN w.cbs
      /\ w.bufs = heap.bufs /\ w.bufs \in Seq(Buf) /\ w.cbs[c].ops = heap.cbs[c].ops
  <2>1. heap.cbs \in Seq(Cb) /\ heap.cbs[c] \in Cb
    BY DEF Core, Types, HeapOK, Heap
  <2>2. heap.cbs[c].refs \in Nat
    BY <2>1 DEF Cb
  <2> QED  BY <2>2 DEF Ready, HeapOK, Heap
<1>2. /\ ContextsOf(w.cbs[c]) = ContextsOf(heap.cbs[c])
      /\ IF heap.cbs[c].refs = 1 THEN Gone(w, heap', c) ELSE Kept(w, heap', c)
  BY ReadyReleases
<1>3. \A a : Binds(w.cbs[c], a) <=> Binds(heap.cbs[c], a)
  BY <1>1 DEF Binds
<1>4. CASE heap.cbs[c].refs = 1
  <2>1. /\ HeapOK(heap') /\ (Accounts(w) => Accounts(heap'))
        /\ heap'.cbs = [w.cbs EXCEPT ![c].refs = @ - 1, ![c].ops = <<>>]
        /\ heap'.ctxs = Fewer(w.ctxs, ContextsOf(w.cbs[c]))
    BY <1>2, <1>4 DEF Gone
  <2>2. PICK d : /\ HeapOK(d) /\ Emptied(w, d, w.cbs[c]) /\ heap'.pool = d.pool /\ heap'.bufs = d.bufs
                 /\ ShutFds(d, heap', LastFds(w.ctxs, ContextsOf(w.cbs[c])))
    BY <1>2, <1>4 DEF Gone
  <2>3. Len(w.cbs[c].ops) <= 1 /\ \A n \in DOMAIN w.cbs[c].ops : w.cbs[c].ops[n].binding \in DOMAIN w.bufs
    BY ReadyReleases DEF Releasable
  <2>4. HeapOK(w)
    BY DEF Ready
  <2>5. /\ d.open = w.open /\ DOMAIN d.bufs = DOMAIN w.bufs
        /\ \A a \in DOMAIN w.bufs :
             /\ d.bufs[a].refs = w.bufs[a].refs - One(Binds(w.cbs[c], a)) /\ w.bufs[a].refs \in Nat
             /\ d.bufs[a].client = w.bufs[a].client /\ d.bufs[a].bo = w.bufs[a].bo
    BY <1>1, <2>2, <2>3, <2>4, EmptiedBufs
  <2>6. /\ DOMAIN heap'.cbs = DOMAIN w.cbs /\ \A e \in DOMAIN w.cbs \ {c} : heap'.cbs[e] = w.cbs[e]
        /\ heap'.cbs[c] = [w.cbs[c] EXCEPT !.refs = @ - 1, !.ops = <<>>]
    BY <1>1, <2>1
  <2>7. /\ heap'.cbs[c].refs = w.cbs[c].refs - 1 /\ heap'.cbs[c].client = w.cbs[c].client
        /\ heap'.cbs[c].ops = <<>> /\ heap'.cbs[c].context = w.cbs[c].context
        /\ heap'.cbs[c].siblings = w.cbs[c].siblings
    BY <1>1, <2>6 DEF Cb
  <2>8. ContextsOf(heap'.cbs[c]) = ContextsOf(heap.cbs[c])
    BY <1>2, <2>7 DEF ContextsOf
  <2>9. \A a \in DOMAIN heap.bufs :
          /\ heap'.bufs[a].refs = heap.bufs[a].refs - One(Binds(heap.cbs[c], a) /\ heap.cbs[c].refs = 1)
          /\ heap'.bufs[a].client = heap.bufs[a].client /\ heap'.bufs[a].bo = heap.bufs[a].bo
    <3>1. \A a : One(Binds(heap.cbs[c], a) /\ heap.cbs[c].refs = 1) = One(Binds(w.cbs[c], a))
      BY <1>3, <1>4 DEF One
    <3> QED  BY <1>1, <2>2, <2>5, <3>1
  <2>10. /\ heap'.ctxs = Fewer(heap.ctxs, ContextsOf(heap.cbs[c]))
         /\ heap'.open = [fd \in Fds |-> IF fd \in LastFds(heap.ctxs, ContextsOf(heap.cbs[c]))
                                         THEN 0 ELSE heap.open[fd]]
    BY <1>2, <2>1, <2>2, <2>5 DEF Ready, ShutFds
  <2>11. DOMAIN heap'.bufs = DOMAIN heap.bufs /\ Accounts(heap')
    BY <1>1, <2>1, <2>2, <2>5 DEF Ready
  <2> QED  BY <1>4, <2>1, <2>6, <2>7, <2>8, <2>9, <2>10, <2>11 DEF LetGo, Ready
<1>5. CASE heap.cbs[c].refs # 1
  <2>1. /\ HeapOK(heap') /\ heap'.open = w.open /\ heap'.pool = w.pool
        /\ heap'.bufs = w.bufs /\ heap'.ctxs = w.ctxs
        /\ heap'.cbs = [w.cbs EXCEPT ![c].refs = @ - 1]
    BY <1>2, <1>5 DEF Kept
  <2>2. /\ DOMAIN heap'.cbs = DOMAIN w.cbs /\ \A e \in DOMAIN w.cbs \ {c} : heap'.cbs[e] = w.cbs[e]
        /\ heap'.cbs[c] = [w.cbs[c] EXCEPT !.refs = @ - 1]
    BY <1>1, <2>1
  <2>3. /\ heap'.cbs[c].refs = w.cbs[c].refs - 1 /\ heap'.cbs[c].client = w.cbs[c].client
        /\ heap'.cbs[c].ops = w.cbs[c].ops /\ heap'.cbs[c].context = w.cbs[c].context
        /\ heap'.cbs[c].siblings = w.cbs[c].siblings
    BY <1>1, <2>2 DEF Cb
  <2>4. ContextsOf(heap'.cbs[c]) = ContextsOf(heap.cbs[c])
    BY <1>2, <2>3 DEF ContextsOf
  <2>5. ASSUME NEW a \in DOMAIN heap.bufs
        PROVE  heap'.bufs[a].refs = heap.bufs[a].refs - One(Binds(heap.cbs[c], a) /\ heap.cbs[c].refs = 1)
    <3>1. One(Binds(heap.cbs[c], a) /\ heap.cbs[c].refs = 1) = 0
      BY <1>5 DEF One
    <3>2. heap.bufs[a] \in Buf /\ heap'.bufs[a] = heap.bufs[a]
      BY <1>1, <2>1
    <3>3. heap.bufs[a].refs \in Nat
      BY <3>2 DEF Buf
    <3> QED  BY <3>1, <3>2, <3>3
  <2>6. Accounts(heap')
    BY <2>1 DEF Ready, Accounts
  <2> QED  BY <1>5, <2>1, <2>2, <2>3, <2>4, <2>5, <2>6 DEF LetGo, Ready
<1> QED  BY <1>4, <1>5

LEMMA LetGoCore ==
  ASSUME Core, NEW c \in DOMAIN heap.cbs, heap.cbs[c].refs > 0, NEW client, LetGo(c, client),
         UNCHANGED <<device, late>>, units' \in Seq(Call), CallsLinked(units', heap.cbs, heap.bufs),
         \A d \in DOMAIN heap.cbs :
           Mine(heap'.cbs[d]) + Cardinality(CallSet(units', {"execute"}, d)) =
             Mine(heap.cbs[d]) + Cardinality(CallSet(units, {"execute"}, d)) - One(d = c),
         \A a \in DOMAIN heap.bufs :
           Cardinality(CallSet(units', Transfers, a)) = Cardinality(CallSet(units, Transfers, a))
  PROVE  Core'
<1> USE DEF Core
<1> DEFINE xs == ContextsOf(heap.cbs[c])
           last == heap.cbs[c].refs = 1
<1>1. /\ HeapOK(heap) /\ heap.bufs \in Seq(Buf) /\ heap.cbs \in Seq(Cb) /\ heap.ctxs \in Seq(Ctx)
      /\ units \in Seq(Call) /\ heap.cbs[c] \in Cb
  BY DEF Types, HeapOK, Heap
<1>2. heap.cbs[c].refs \in Nat
  <2>1. heap.cbs[c] \in Cb
    BY <1>1
  <2> QED  BY <2>1 DEF Cb
<1>3. HeapOK(heap') /\ heap'.cbs \in Seq(Cb) /\ heap'.bufs \in Seq(Buf)
  BY DEF LetGo, HeapOK, Heap
<1>4. Types'
  BY <1>3 DEF Types
<1>5. xs \in SUBSET DOMAIN heap.ctxs /\ \A x \in xs : heap.ctxs[x].refs > 0
  BY CbReleasable DEF Releasable
<1>6. DOMAIN heap'.ctxs = DOMAIN heap.ctxs /\ Len(heap'.ctxs) = Len(heap.ctxs)
  <2>1. CASE last
    BY <2>1, <1>1, <1>5, FewerOK DEF LetGo
  <2>2. CASE ~last
    BY <2>2 DEF LetGo
  <2> QED  BY <2>1, <2>2
<1>7. Up' = Up /\ Base' = Base
  BY DEF Up, Base
<1> HIDE DEF xs
<1>8. Links'
  <2>1. ASSUME NEW d \in DOMAIN heap'.cbs
        PROVE  /\ ContextsOf(heap'.cbs[d]) \subseteq DOMAIN heap'.ctxs
               /\ Len(heap'.cbs[d].ops) <= 1
               /\ \A n \in DOMAIN heap'.cbs[d].ops : heap'.cbs[d].ops[n].binding \in DOMAIN heap'.bufs
    <3>1. d \in DOMAIN heap.cbs /\ ContextsOf(heap'.cbs[d]) = ContextsOf(heap.cbs[d])
      BY DEF LetGo
    <3>2. heap'.cbs[d].ops = heap.cbs[d].ops \/ heap'.cbs[d].ops = <<>>
      BY <3>1 DEF LetGo
    <3>3. DOMAIN heap'.bufs = DOMAIN heap.bufs
      BY DEF LetGo
    <3> QED  BY <1>6, <3>1, <3>2, <3>3 DEF Links
  <2>2. CallsLinked(units', heap'.cbs, heap'.bufs)
    BY DEF CallsLinked, LetGo
  <2>3. /\ Len(heap'.ctxs) = device'.created * NumContexts
        /\ device'.contexts = IF Up' THEN [n \in 1..NumContexts |-> Base' + n] ELSE <<>>
        /\ Up' => device'.created > 0
    BY <1>6, <1>7 DEF Links
  <2> QED  BY <2>1, <2>2, <2>3 DEF Links, CallsLinked
<1>9. SameBut(heap.cbs, heap'.cbs, c) /\ c \in DOMAIN heap'.cbs
  BY DEF SameBut, LetGo
<1>10. RefsBalance'
  <2>1. ASSUME NEW a \in DOMAIN heap.bufs
        PROVE  heap'.bufs[a].refs = Mine(heap'.bufs[a]) + Cardinality(RecSet(heap'.cbs, a))
                                      + Cardinality(CallSet(units', Transfers, a))
    <3> DEFINE less == One(Binds(heap.cbs[c], a) /\ last)
    <3>1. heap.bufs[a].refs = Mine(heap.bufs[a]) + Cardinality(RecSet(heap.cbs, a))
                                + Cardinality(CallSet(units, Transfers, a))
      BY Balance DEF BufsBalance
    <3>2. heap'.bufs[a].refs = heap.bufs[a].refs - less /\ Mine(heap'.bufs[a]) = Mine(heap.bufs[a])
      BY DEF LetGo, Mine
    <3>3. BindingMoves(heap.cbs, heap'.cbs, c, a)
      BY <1>1, <1>3, <1>9, BindingsCounted
    <3>4. BindsAt(heap.cbs, c, a) - BindsAt(heap'.cbs, c, a) = less
      <4>1. CASE last
        <5>1. heap'.cbs[c].ops = <<>>
          BY <4>1 DEF LetGo
        <5>2. BindsAt(heap'.cbs, c, a) = 0
          BY <5>1 DEF BindsAt, Binds, One
        <5>3. BindsAt(heap.cbs, c, a) = less /\ less \in Nat
          BY <4>1 DEF BindsAt, One
        <5> QED  BY <5>2, <5>3
      <4>2. CASE ~last
        <5>1. heap'.cbs[c].ops = heap.cbs[c].ops
          BY <4>2 DEF LetGo
        <5>2. BindsAt(heap'.cbs, c, a) = BindsAt(heap.cbs, c, a) /\ BindsAt(heap.cbs, c, a) \in Nat
          BY <5>1, <1>9 DEF BindsAt, Binds, One
        <5>3. less = 0
          BY <4>2 DEF One
        <5> QED  BY <5>2, <5>3
      <4> QED  BY <4>1, <4>2
    <3>5. /\ less \in Nat /\ BindsAt(heap.cbs, c, a) \in Nat /\ BindsAt(heap'.cbs, c, a) \in Nat
          /\ Mine(heap.bufs[a]) \in Nat /\ Cardinality(CallSet(units, Transfers, a)) \in Nat
      BY <1>1, SeqFinite DEF BindsAt, One, Mine, CallSet
    <3>6. Cardinality(CallSet(units', Transfers, a)) = Cardinality(CallSet(units, Transfers, a))
      OBVIOUS
    <3> HIDE DEF less, last
    <3>7. /\ Cardinality(RecSet(heap.cbs, a)) \in Nat
          /\ Cardinality(RecSet(heap'.cbs, a)) = Cardinality(RecSet(heap.cbs, a)) - less
      BY <3>3, <3>4, <3>5 DEF BindingMoves
    <3> QED  BY <3>1, <3>2, <3>5, <3>6, <3>7
  <2>2. BufsBalance(heap'.bufs, heap'.cbs, units')
    BY <2>1 DEF BufsBalance, LetGo
  <2>3. CbsBalance(heap'.cbs, units')
    <3>1. ASSUME NEW d \in DOMAIN heap.cbs
          PROVE  heap'.cbs[d].refs = Mine(heap'.cbs[d]) + Cardinality(CallSet(units', {"execute"}, d))
      <4>1. heap.cbs[d].refs = Mine(heap.cbs[d]) + Cardinality(CallSet(units, {"execute"}, d))
        BY Balance DEF CbsBalance
      <4>2. heap'.cbs[d].refs = heap.cbs[d].refs - One(d = c) /\ heap.cbs[d].refs \in Nat
        <5>1. heap.cbs[d] \in Cb
          BY <1>1
        <5>2. heap.cbs[d].refs \in Nat
          BY <5>1 DEF Cb
        <5>3. CASE d = c
          BY <5>2, <5>3 DEF LetGo, One
        <5>4. CASE d # c
          <6>1. heap'.cbs[d] = heap.cbs[d] /\ One(d = c) = 0
            BY <5>4 DEF LetGo, One
          <6> QED  BY <5>2, <6>1
        <5> QED  BY <5>3, <5>4
      <4>3. Mine(heap'.cbs[d]) + Cardinality(CallSet(units', {"execute"}, d)) =
              Mine(heap.cbs[d]) + Cardinality(CallSet(units, {"execute"}, d)) - One(d = c)
        OBVIOUS
      <4>4. /\ Mine(heap.cbs[d]) \in Nat /\ Mine(heap'.cbs[d]) \in Nat /\ One(d = c) \in Nat
            /\ Cardinality(CallSet(units, {"execute"}, d)) \in Nat
            /\ Cardinality(CallSet(units', {"execute"}, d)) \in Nat
        BY <1>1, SeqFinite DEF Mine, One, CallSet
      <4> QED  BY <4>1, <4>2, <4>3, <4>4
    <3> QED  BY <3>1 DEF CbsBalance, LetGo
  <2>4. CtxsBalance(heap'.ctxs, heap'.cbs, device'.contexts)
    <3>1. ASSUME NEW x \in DOMAIN heap.ctxs
          PROVE  heap'.ctxs[x].refs = Cardinality(PlaceSet(heap'.cbs, x))
                                        + Cardinality(OfDevice(device'.contexts, x))
      <4> DEFINE less == One(x \in xs /\ last)
      <4>1. heap.ctxs[x].refs = Cardinality(PlaceSet(heap.cbs, x)) + Cardinality(OfDevice(device.contexts, x))
        BY Balance DEF CtxsBalance
      <4>2. PlaceMoves(heap.cbs, heap'.cbs, c, x)
        BY <1>1, <1>3, <1>9, PlacesCounted
      <4>3. OnAt(heap.cbs, c, x) = One(x \in xs) /\ OnAt(heap'.cbs, c, x) = One(x \in xs /\ ~last)
        <5>1. heap'.cbs[c].refs > 0 <=> ~last
          BY <1>2 DEF LetGo
        <5>2. ContextsOf(heap'.cbs[c]) = xs
          BY DEF LetGo, xs
        <5>3. On(heap'.cbs[c], x) <=> x \in xs /\ ~last
          BY <5>1, <5>2 DEF On
        <5>4. On(heap.cbs[c], x) <=> x \in xs
          BY DEF On, xs
        <5> QED  BY <1>9, <5>3, <5>4 DEF OnAt, One
      <4>4. One(x \in xs) - One(x \in xs /\ ~last) = less /\ less \in Nat
            /\ One(x \in xs) \in Nat /\ One(x \in xs /\ ~last) \in Nat
        BY DEF One
      <4>5. heap'.ctxs[x].refs = heap.ctxs[x].refs - less /\ heap.ctxs[x].refs \in Nat
        <5>1. heap.ctxs[x] \in Ctx
          BY <1>1
        <5>2. heap.ctxs[x].refs \in Nat
          BY <5>1 DEF Ctx
        <5>3. CASE x \in xs /\ last
          <6>1. heap'.ctxs[x] = [heap.ctxs[x] EXCEPT !.refs = @ - 1]
            BY <5>3 DEF LetGo, Fewer, xs
          <6>2. heap'.ctxs[x].refs = heap.ctxs[x].refs - 1 /\ less = 1
            BY <5>1, <5>3, <6>1 DEF Ctx, One
          <6> QED  BY <5>2, <6>2
        <5>4. CASE ~(x \in xs /\ last)
          <6>1. heap'.ctxs[x] = heap.ctxs[x]
            BY <5>4 DEF LetGo, Fewer, xs
          <6>2. less = 0
            BY <5>4 DEF One
          <6> QED  BY <5>2, <6>1, <6>2
        <5> QED  BY <5>3, <5>4
      <4>6. Cardinality(OfDevice(device.contexts, x)) \in Nat
        <5>1. Cardinality(OfDevice(device.contexts, x)) = One(x \in Range(device.contexts))
          BY DeviceContexts
        <5> QED  BY <5>1 DEF One
      <4> HIDE DEF less, last
      <4>7. /\ Cardinality(PlaceSet(heap.cbs, x)) \in Nat
            /\ Cardinality(PlaceSet(heap'.cbs, x)) = Cardinality(PlaceSet(heap.cbs, x)) - less
        BY <4>2, <4>3, <4>4 DEF PlaceMoves
      <4>8. Cardinality(OfDevice(device'.contexts, x)) = Cardinality(OfDevice(device.contexts, x))
        OBVIOUS
      <4> QED  BY <4>1, <4>4, <4>5, <4>6, <4>7, <4>8
    <3> QED  BY <1>6, <3>1 DEF CtxsBalance
  <2> QED  BY <1>4, <2>2, <2>3, <2>4, BalanceNext DEF Balanced
<1>11. PoolAccounts'
  BY DEF PoolAccounts, Accounts, LetGo
<1>12. Descriptors'
  <2>1. CASE last
    <3>1. heap'.ctxs = Fewer(heap.ctxs, xs)
          /\ heap'.open = [fd \in Fds |-> IF fd \in LastFds(heap.ctxs, xs) THEN 0 ELSE heap.open[fd]]
      BY <2>1 DEF LetGo, xs
    <3> QED  BY <1>5, <3>1, FewerDescriptors DEF xs
  <2>2. CASE ~last
    <3>1. heap'.ctxs = heap.ctxs /\ heap'.open = heap.open
      BY <2>2 DEF LetGo
    <3> QED  BY <1>7, <3>1, DescriptorsKept
  <2> QED  BY <2>1, <2>2
<1> QED  BY <1>4, <1>8, <1>10, <1>11, <1>12

LEMMA ClientReleaseCommandBufferCore ==
  ASSUME Core, NEW c \in DOMAIN heap.cbs, ClientReleaseCommandBuffer(c)
  PROVE  /\ LetGo(c, FALSE) /\ Core'
         /\ heap.cbs[c].refs > 0 /\ Ready([heap EXCEPT !.cbs[c].client = FALSE], c, FALSE)
<1> DEFINE cb == [heap.cbs[c] EXCEPT !.client = FALSE]
           cbs == [heap.cbs EXCEPT ![c] = cb]
           w == [heap EXCEPT !.cbs[c].client = FALSE]
<1>1. /\ HeapOK(heap) /\ heap \in Heap /\ heap.cbs \in Seq(Cb) /\ units \in Seq(Call) /\ Accounts(heap)
  BY DEF Core, Types, HeapOK, Heap, Accounts, PoolAccounts
<1>2. heap.cbs[c] \in Cb
  BY <1>1
<1>3. /\ heap' = ReleaseCommandBuffer(w, c) /\ heap.cbs[c].client /\ UNCHANGED <<units, device, late>>
  BY DEF ClientReleaseCommandBuffer
<1>4. heap.cbs[c].refs > 0
  BY <1>3, CbRefs DEF Core
<1>5. /\ cb \in Cb /\ cb.refs = heap.cbs[c].refs /\ cb.client = FALSE /\ cb.ops = heap.cbs[c].ops
      /\ cb.context = heap.cbs[c].context /\ cb.siblings = heap.cbs[c].siblings
  BY <1>2 DEF Cb
<1>6. w = [heap EXCEPT !.cbs = cbs]
  BY <1>1 DEF Heap
<1> HIDE DEF cb, w
<1>7. /\ cbs \in Seq(Cb) /\ DOMAIN cbs = DOMAIN heap.cbs /\ cbs[c] = cb
      /\ \A d \in DOMAIN heap.cbs \ {c} : cbs[d] = heap.cbs[d]
  BY <1>1, <1>5
<1> HIDE DEF cbs
<1>8. /\ HeapOK(w) /\ w.open = heap.open /\ w.ctxs = heap.ctxs /\ w.bufs = heap.bufs
      /\ w.pool = heap.pool /\ w.cbs = cbs
  BY <1>1, <1>6, <1>7 DEF HeapOK, Heap
<1>9. Ready(w, c, FALSE)
  <2>1. Accounts(w)
    BY <1>1, <1>8 DEF Accounts
  <2> QED  BY <1>5, <1>7, <1>8, <2>1 DEF Ready
<1>10. LetGo(c, FALSE)
  BY <1>3, <1>4, <1>9, LetGoOK
<1>11. ASSUME NEW d \in DOMAIN heap.cbs
       PROVE  Mine(heap'.cbs[d]) + Cardinality(CallSet(units', {"execute"}, d)) =
                Mine(heap.cbs[d]) + Cardinality(CallSet(units, {"execute"}, d)) - One(d = c)
  <2>1. Mine(heap'.cbs[d]) = Mine(heap.cbs[d]) - One(d = c) /\ Mine(heap.cbs[d]) \in Nat
    <3>1. CASE d = c
      <4>1. Mine(heap.cbs[c]) = 1
        BY <1>3 DEF Mine
      <4>2. heap'.cbs[c].client = FALSE
        BY <1>10 DEF LetGo
      <4>3. Mine(heap'.cbs[c]) = 0 /\ One(d = c) = 1
        BY <3>1, <4>2 DEF Mine, One
      <4> QED  BY <3>1, <4>1, <4>3
    <3>2. CASE d # c
      <4>1. heap'.cbs[d] = heap.cbs[d] /\ One(d = c) = 0
        BY <3>2, <1>10 DEF One, LetGo
      <4> QED  BY <4>1 DEF Mine
    <3> QED  BY <3>1, <3>2
  <2>2. Cardinality(CallSet(units, {"execute"}, d)) \in Nat /\ units' = units /\ One(d = c) \in Nat
    BY <1>1, <1>3, SeqFinite DEF CallSet, One
  <2> QED  BY <2>1, <2>2
<1>12. CallsLinked(units', heap.cbs, heap.bufs)
  BY <1>3 DEF Core, Links, CallsLinked
<1>13. UNCHANGED <<device, late>> /\ units' \in Seq(Call)
       /\ \A a \in DOMAIN heap.bufs :
            Cardinality(CallSet(units', Transfers, a)) = Cardinality(CallSet(units, Transfers, a))
  BY <1>1, <1>3
<1>14. Core'
  BY <1>4, <1>10, <1>11, <1>12, <1>13, LetGoCore
<1> QED  BY <1>4, <1>9, <1>10, <1>14 DEF w

LEMMA EndExecuteCore ==
  ASSUME Core, NEW u \in 1..Len(units), EndExecute(u)
  PROVE  LET c == units[u].of
         IN  /\ c \in DOMAIN heap.cbs /\ heap.cbs[c].refs > 0 /\ units[u].kind = "execute"
             /\ Ready(Regcmd(heap, u), c, heap.cbs[c].client)
             /\ LetGo(c, heap.cbs[c].client) /\ Core'
<1> DEFINE c == units[u].of
           w == Regcmd(heap, u)
           call == [units[u] EXCEPT !.stage = "done", !.regcmd = <<>>]
<1>1. /\ HeapOK(heap) /\ heap.cbs \in Seq(Cb) /\ units \in Seq(Call) /\ u \in DOMAIN units
  BY DEF Core, Types, HeapOK, Heap
<1>2. /\ units[u].stage = "running" /\ heap' = ReleaseCommandBuffer(w, c) /\ UNCHANGED <<device, late>>
      /\ units' = [units EXCEPT ![u].stage = "done", ![u].regcmd = <<>>]
  BY DEF EndExecute
<1>3. units[u] \in Call /\ units[u].kind = "execute" /\ c \in DOMAIN heap.cbs
  BY <1>1, <1>2 DEF Core, Links
<1>4. heap.cbs[c].refs > 0
  BY <1>1, <1>2, <1>3, CbRefs DEF Core
<1>5. Ready(w, c, heap.cbs[c].client)
  <2>1. HeapOK(w) /\ w.open = heap.open /\ Objects(heap, w) /\ Accounts(w)
    BY <1>1, RegcmdOK
  <2> HIDE DEF w
  <2> QED  BY <1>1, <2>1 DEF Ready, Objects
<1>6. LetGo(c, heap.cbs[c].client)
  BY <1>2, <1>3, <1>4, <1>5, LetGoOK
<1>7. /\ call \in Call /\ call.kind = units[u].kind /\ call.of = units[u].of /\ call.stage = "done"
      /\ call.regcmd = <<>> /\ units' = [units EXCEPT ![u] = call]
  <2>1. <<>> \in Seq(Bo) /\ units[u] \in Call
    BY <1>3
  <2>2. units' = [units EXCEPT ![u] = call]
    BY <1>1, <1>2
  <2> QED  BY <2>1, <2>2 DEF Call
<1> HIDE DEF call, c, w
<1>8. /\ units' \in Seq(Call) /\ CallsLinked(units', heap.cbs, heap.bufs)
      /\ \A kinds, n :
           /\ Cardinality(CallSet(units', kinds, n)) \in Nat /\ Cardinality(CallSet(units, kinds, n)) \in Nat
           /\ Cardinality(CallSet(units', kinds, n)) =
                Cardinality(CallSet(units, kinds, n)) - One(units[u].kind \in kinds /\ units[u].of = n)
  <2>1. units[u].stage \notin {"done", "refused"} /\ call.stage \in {"done", "refused"}
    BY <1>2, <1>7
  <2> QED  BY <1>1, <1>7, <2>1, Settles
<1>9. ASSUME NEW d \in DOMAIN heap.cbs
      PROVE  Mine(heap'.cbs[d]) + Cardinality(CallSet(units', {"execute"}, d)) =
               Mine(heap.cbs[d]) + Cardinality(CallSet(units, {"execute"}, d)) - One(d = c)
  <2>1. Mine(heap'.cbs[d]) = Mine(heap.cbs[d])
    <3>1. CASE d = c
      BY <3>1, <1>6 DEF Mine, LetGo
    <3>2. CASE d # c
      BY <3>2, <1>6 DEF LetGo
    <3> QED  BY <3>1, <3>2
  <2>2. One(units[u].kind \in {"execute"} /\ units[u].of = d) = One(d = c)
    BY <1>3 DEF One, c
  <2>3. One(d = c) \in Nat /\ Mine(heap.cbs[d]) \in Nat
    BY DEF One, Mine
  <2>4. /\ Cardinality(CallSet(units', {"execute"}, d)) \in Nat
        /\ Cardinality(CallSet(units, {"execute"}, d)) \in Nat
        /\ Cardinality(CallSet(units', {"execute"}, d)) =
             Cardinality(CallSet(units, {"execute"}, d)) - One(d = c)
    BY <1>8, <2>2
  <2> QED  BY <2>1, <2>3, <2>4
<1>10. ASSUME NEW a \in DOMAIN heap.bufs
       PROVE  Cardinality(CallSet(units', Transfers, a)) = Cardinality(CallSet(units, Transfers, a))
  <2>1. One(units[u].kind \in Transfers /\ units[u].of = a) = 0
    BY <1>3 DEF One, Transfers
  <2>2. /\ Cardinality(CallSet(units, Transfers, a)) \in Nat
        /\ Cardinality(CallSet(units', Transfers, a)) =
             Cardinality(CallSet(units, Transfers, a)) - One(units[u].kind \in Transfers /\ units[u].of = a)
    BY <1>8
  <2> QED  BY <2>1, <2>2
<1>11. Core'
  BY <1>2, <1>3, <1>4, <1>6, <1>8, <1>9, <1>10, LetGoCore
<1> QED  BY <1>3, <1>4, <1>5, <1>6, <1>11 DEF c, w

(* The device goes: what is left of the heap.                              *)
GoneDevice ==
  LET xs == Range(device.contexts)
  IN  /\ HeapOK(heap') /\ heap'.pool.free = <<>> /\ Accounts(heap')
      /\ heap'.bufs = heap.bufs /\ heap'.cbs = heap.cbs /\ heap'.ctxs = Fewer(heap.ctxs, xs)
      /\ heap'.open = [fd \in Fds |-> IF fd \in {device.allocator, device.file} \cup LastFds(heap.ctxs, xs)
                                      THEN 0 ELSE heap.open[fd]]

LEMMA DestroyedOK ==
  ASSUME Core, FinishDestroy
  PROVE  GoneDevice
<1> USE DEF Core
<1> DEFINE xs == Range(device.contexts)
           fds == {device.allocator, device.file}
           m == clear(heap)
           n == CloseFds(m, fds)
<1>1. HeapOK(heap)
  BY DEF Types
<1>2. Up /\ heap' = DropContexts(n, xs)
  BY DEF FinishDestroy, Destroyed, Up
<1>3. fds \in SUBSET Fds
  BY <1>2, UpIsOpen
<1>4. /\ HeapOK(m) /\ Objects(heap, m) /\ m.open = heap.open /\ m.pool.free = <<>> /\ Accounts(m)
  BY <1>1, ClearOK
<1> HIDE DEF m, fds
<1>5. FdsClosed(m, n, fds)
  BY <1>3, <1>4, CloseFdsOK
<1> HIDE DEF n
<1>6. HeapOK(n) /\ n.ctxs = heap.ctxs /\ n.bufs = heap.bufs /\ n.cbs = heap.cbs /\ n.pool = m.pool
      /\ n.open = [fd \in Fds |-> IF fd \in fds THEN 0 ELSE heap.open[fd]]
  BY <1>4, <1>5 DEF FdsClosed, Objects
<1>7. xs \in SUBSET DOMAIN n.ctxs /\ \A x \in xs : n.ctxs[x].refs > 0
  BY <1>6, CtxRefs
<1> HIDE DEF xs
<1>8. Unplaced(n, heap', xs)
  BY <1>2, <1>6, <1>7, DropContextsOK
<1>9. /\ HeapOK(heap') /\ heap'.pool = m.pool /\ heap'.bufs = heap.bufs /\ heap'.cbs = heap.cbs
      /\ heap'.ctxs = Fewer(heap.ctxs, xs)
      /\ heap'.open = [fd \in Fds |-> IF fd \in LastFds(heap.ctxs, xs) THEN 0 ELSE n.open[fd]]
  BY <1>6, <1>8 DEF Unplaced, ShutFds
<1>10. heap'.open = [fd \in Fds |-> IF fd \in fds \cup LastFds(heap.ctxs, xs) THEN 0 ELSE heap.open[fd]]
  BY <1>6, <1>9
<1>11. heap'.pool.free = <<>> /\ Accounts(heap')
  BY <1>4, <1>9 DEF Accounts
<1> QED  BY <1>9, <1>10, <1>11 DEF GoneDevice, fds, xs

LEMMA FinishDestroyCore ==
  ASSUME Core, FinishDestroy
  PROVE  Core'
<1> USE DEF Core
<1> DEFINE xs == Range(device.contexts)
<1>1. /\ HeapOK(heap) /\ heap.cbs \in Seq(Cb) /\ heap.ctxs \in Seq(Ctx) /\ units \in Seq(Call)
      /\ device \in Device /\ late \in BOOLEAN
  BY DEF Types, HeapOK, Heap
<1>2. /\ Up /\ units' = units /\ late' = (late \/ InUse)
      /\ device' = [device EXCEPT !.state = "gone", !.contexts = <<>>, !.placed = 0]
  BY DEF FinishDestroy, Up
<1>3. /\ device' \in Device /\ device'.state = "gone" /\ device'.created = device.created
      /\ device'.contexts = <<>>
  <2>1. <<>> \in Seq(Nat) /\ 0 \in Nat
    OBVIOUS
  <2> QED  BY <1>1, <1>2, <2>1 DEF Device
<1>4. GoneDevice
  BY DestroyedOK
<1>5. late' \in BOOLEAN
  BY <1>1, <1>2
<1>6. Types'
  BY <1>1, <1>2, <1>3, <1>4, <1>5 DEF Types, GoneDevice
<1>7. xs \in SUBSET DOMAIN heap.ctxs /\ \A x \in xs : heap.ctxs[x].refs > 0
  BY CtxRefs
<1>8. /\ heap'.bufs = heap.bufs /\ heap'.cbs = heap.cbs /\ heap'.ctxs = Fewer(heap.ctxs, xs)
      /\ heap'.open = [fd \in Fds |-> IF fd \in {device.allocator, device.file} \cup LastFds(heap.ctxs, xs)
                                      THEN 0 ELSE heap.open[fd]]
  BY <1>4 DEF GoneDevice
<1> HIDE DEF xs
<1>9. DOMAIN heap'.ctxs = DOMAIN heap.ctxs /\ Len(heap'.ctxs) = Len(heap.ctxs)
  <2>1. /\ Len(Fewer(heap.ctxs, xs)) = Len(heap.ctxs)
        /\ DOMAIN Fewer(heap.ctxs, xs) = DOMAIN heap.ctxs
    <3>1. heap.ctxs \in Seq(Ctx)
      BY <1>1
    <3> QED  BY <3>1, <1>7, FewerOK
  <2> QED  BY <2>1, <1>8
<1>10. ~Up'
  BY <1>3 DEF Up
<1>11. Links'
  <2>1. \A c \in DOMAIN heap'.cbs :
          /\ ContextsOf(heap'.cbs[c]) \subseteq DOMAIN heap'.ctxs
          /\ Len(heap'.cbs[c].ops) <= 1
          /\ \A n \in DOMAIN heap'.cbs[c].ops : heap'.cbs[c].ops[n].binding \in DOMAIN heap'.bufs
    BY <1>8, <1>9 DEF Links
  <2>2. CallsLinked(units', heap'.cbs, heap'.bufs)
    BY <1>2, <1>8 DEF Links, CallsLinked
  <2>3. Len(heap'.ctxs) = device'.created * NumContexts
    BY <1>3, <1>9 DEF Links
  <2> QED  BY <1>3, <1>10, <2>1, <2>2, <2>3 DEF Links, CallsLinked
<1>12. RefsBalance'
  <2>1. BufsBalance(heap'.bufs, heap'.cbs, units') /\ CbsBalance(heap'.cbs, units')
    BY <1>2, <1>8, Balance
  <2>2. CtxsBalance(heap'.ctxs, heap'.cbs, device'.contexts)
    <3>1. ASSUME NEW x \in DOMAIN heap.ctxs
          PROVE  heap'.ctxs[x].refs = Cardinality(PlaceSet(heap'.cbs, x))
                                        + Cardinality(OfDevice(device'.contexts, x))
      <4>1. heap.ctxs[x].refs = Cardinality(PlaceSet(heap.cbs, x)) + Cardinality(OfDevice(device.contexts, x))
        BY Balance DEF CtxsBalance
      <4>2. Cardinality(OfDevice(device.contexts, x)) = One(x \in xs)
        BY DeviceContexts DEF xs
      <4>3. Cardinality(OfDevice(device'.contexts, x)) = 0
        <5>1. OfDevice(device'.contexts, x) = {}
          BY <1>3 DEF OfDevice
        <5> QED  BY <5>1, FS_EmptySet
      <4>4. Cardinality(PlaceSet(heap.cbs, x)) \in Nat /\ PlaceSet(heap'.cbs, x) = PlaceSet(heap.cbs, x)
        BY <1>1, <1>8, SeqFinite DEF PlaceSet
      <4>5. heap'.ctxs[x].refs = heap.ctxs[x].refs - One(x \in xs) /\ One(x \in xs) \in Nat
            /\ heap.ctxs[x].refs \in Nat
        <5>1. heap.ctxs[x] \in Ctx
          BY <1>1
        <5>2. heap.ctxs[x].refs \in Nat
          BY <5>1 DEF Ctx
        <5>3. heap'.ctxs[x] = IF x \in xs THEN [heap.ctxs[x] EXCEPT !.refs = @ - 1] ELSE heap.ctxs[x]
          BY <1>8 DEF Fewer
        <5>4. CASE x \in xs
          <6>1. heap'.ctxs[x].refs = heap.ctxs[x].refs - 1
            BY <5>1, <5>3, <5>4 DEF Ctx
          <6> QED  BY <5>2, <5>4, <6>1 DEF One
        <5>5. CASE x \notin xs
          BY <5>2, <5>3, <5>5 DEF One
        <5> QED  BY <5>4, <5>5
      <4> QED  BY <4>1, <4>2, <4>3, <4>4, <4>5
    <3> QED  BY <1>9, <3>1 DEF CtxsBalance
  <2> QED  BY <1>6, <2>1, <2>2, BalanceNext DEF Balanced
<1>13. PoolAccounts'
  BY <1>4 DEF PoolAccounts, Accounts, GoneDevice
<1>14. Descriptors'
  <2>1. \A x \in DOMAIN heap.ctxs :
          /\ heap'.ctxs[x].fd = heap.ctxs[x].fd /\ heap.ctxs[x].fd \in Fds
          /\ Owned(x)' <=> Owned(x) /\ ~(x \in xs /\ heap.ctxs[x].refs = 1)
          /\ Owned(x)' => heap.ctxs[x].fd \notin LastFds(heap.ctxs, xs)
    BY <1>7, <1>8, FewerOwned
  <2>2. ASSUME NEW x \in DOMAIN heap'.ctxs, Owned(x)'
        PROVE  heap'.open[heap'.ctxs[x].fd] = x
    <3>1. /\ Owned(x) /\ heap'.ctxs[x].fd = heap.ctxs[x].fd /\ heap.ctxs[x].fd \in Fds
          /\ heap.ctxs[x].fd \notin LastFds(heap.ctxs, xs) /\ x \in DOMAIN heap.ctxs
      BY <1>9, <2>1, <2>2
    <3>2. heap.open[heap.ctxs[x].fd] = x /\ heap.ctxs[x].fd \notin {device.allocator, device.file}
      BY <1>2, <3>1 DEF Descriptors
    <3> QED  BY <1>8, <3>1, <3>2
  <2>3. ASSUME NEW fd \in Fds, heap'.open[fd] # 0
        PROVE  \E x \in DOMAIN heap'.ctxs : Owned(x)' /\ heap'.ctxs[x].fd = fd
    <3>1. fd \notin {device.allocator, device.file} /\ fd \notin LastFds(heap.ctxs, xs) /\ heap.open[fd] # 0
      BY <1>8, <2>3
    <3>2. PICK x \in DOMAIN heap.ctxs : Owned(x) /\ heap.ctxs[x].fd = fd
      BY <3>1 DEF Descriptors
    <3>3. ~(x \in xs /\ heap.ctxs[x].refs = 1)
      BY <3>1, <3>2 DEF LastFds
    <3> QED  BY <1>9, <2>1, <3>2, <3>3
  <2> QED  BY <1>10, <2>2, <2>3 DEF Descriptors
<1> QED  BY <1>6, <1>11, <1>12, <1>13, <1>14

-----------------------------------------------------------------------------
(* The descriptors of a new device.                                        *)

(* A finite set of numbers has an element of every rank.                   *)
Below(T, t) == {s \in T : s < t}
LEMMA Ranks ==
  ASSUME NEW T \in SUBSET Nat, IsFiniteSet(T)
  PROVE  \A k \in Nat : k < Cardinality(T) => \E t \in T : Cardinality(Below(T, t)) = k
<1> DEFINE K == {k \in Nat : k < Cardinality(T) => \E t \in T : Cardinality(Below(T, t)) = k}
<1>1. Cardinality(T) \in Nat
  BY FS_CardinalityType
<1>2. 0 \in K
  <2>1. SUFFICES ASSUME 0 < Cardinality(T) PROVE \E t \in T : Cardinality(Below(T, t)) = 0
    OBVIOUS
  <2>2. T # {}
    BY <2>1, FS_EmptySet
  <2>3. PICK t \in T : \A m \in T : t <= m
    BY <2>2, Least
  <2>4. Below(T, t) = {}
    <3>1. ASSUME NEW s \in T PROVE ~(s < t)
      BY <2>3
    <3> QED  BY <3>1 DEF Below
  <2> QED  BY <2>4, FS_EmptySet
<1>3. ASSUME NEW k \in Nat, k \in K PROVE k + 1 \in K
  <2>1. SUFFICES ASSUME k + 1 < Cardinality(T) PROVE \E t \in T : Cardinality(Below(T, t)) = k + 1
    OBVIOUS
  <2>2. k < Cardinality(T)
    BY <1>1, <2>1
  <2>3. PICK t \in T : Cardinality(Below(T, t)) = k
    BY <1>3, <2>2
  <2> DEFINE U == Below(T, t) \cup {t}
  <2>4. U \subseteq T /\ t \notin Below(T, t) /\ Below(T, t) \subseteq T /\ t \in Nat
    BY DEF Below
  <2>5. IsFiniteSet(Below(T, t))
    BY <2>4, FS_Subset
  <2>6. Cardinality(U) = k + 1
    BY <2>3, <2>4, <2>5, OneMore
  <2>7. T \ U # {} /\ T \ U \in SUBSET Nat
    <3>1. SUFFICES ASSUME T \ U = {} PROVE FALSE
      OBVIOUS
    <3>2. T = U
      BY <2>4, <3>1
    <3> HIDE DEF U
    <3> QED  BY <1>1, <2>1, <2>6, <3>2
  <2>8. PICK n \in T \ U : \A m \in T \ U : n <= m
    BY <2>7, Least
  <2>9. ASSUME NEW s \in T PROVE s < n <=> s \in U
    <3>1. s \in Nat /\ n \in Nat /\ n \notin U
      BY <2>8
    <3>2. CASE s \in U
      <4>1. s <= t
        BY <3>2, <3>1, <2>4 DEF Below
      <4>2. t < n
        BY <3>1, <2>4, <2>8 DEF Below
      <4> QED  BY <3>1, <3>2, <4>1, <4>2, <2>4
    <3>3. CASE s \notin U
      <4>1. n <= s
        BY <3>3, <2>8
      <4> QED  BY <3>1, <3>3, <4>1
    <3> QED  BY <3>2, <3>3
  <2>10. Below(T, n) = U
    BY <2>4, <2>9 DEF Below
  <2> QED  BY <2>6, <2>8, <2>10
<1> HIDE DEF K
<1>4. Nat \subseteq K
  BY <1>2, <1>3, Induction
<1> QED  BY <1>4 DEF K

(* The n-th lowest free descriptor is free, and no other's.                *)
LEMMA FdsAreFree ==
  ASSUME NEW w, NEW k \in Nat, k <= Cardinality(FreeFds(w))
  PROVE  /\ \A n \in 1..k : FdOf(w, n) \in FreeFds(w)
         /\ \A m, n \in 1..k : FdOf(w, m) = FdOf(w, n) => m = n
<1> DEFINE T == FreeFds(w)
<1>1. T \in SUBSET Nat /\ IsFiniteSet(T)
  <2>1. MaxFd \in Nat
    BY LifetimesAssumption
  <2>2. IsFiniteSet(1..MaxFd)
    BY <2>1, FS_Interval
  <2>3. T \subseteq 1..MaxFd
    BY DEF FreeFds, Fds
  <2>4. IsFiniteSet(T)
    BY <2>2, <2>3, FS_Subset
  <2> QED  BY <2>1, <2>3, <2>4
<1>2. Cardinality(T) \in Nat
  BY <1>1, FS_CardinalityType
<1>3. ASSUME NEW n \in 1..k
      PROVE  FdOf(w, n) \in T /\ Cardinality(Below(T, FdOf(w, n))) = n - 1
  <2>1. n - 1 \in Nat /\ n - 1 < Cardinality(T)
    BY <1>2
  <2>2. \E t \in T : Cardinality(Below(T, t)) = n - 1
    BY <1>1, <2>1, Ranks
  <2>3. FdOf(w, n) = CHOOSE fd \in T : Cardinality(Below(T, fd)) = n - 1
    BY DEF FdOf, Below
  <2> HIDE DEF T
  <2> QED  BY <2>2, <2>3
<1>4. ASSUME NEW m \in 1..k, NEW n \in 1..k, FdOf(w, m) = FdOf(w, n) PROVE m = n
  <2>1. m - 1 = n - 1
    BY <1>3, <1>4
  <2> QED  BY <2>1
<1> QED  BY <1>3, <1>4

(* While no device is up there are free descriptors for another.           *)
LEMMA RoomForOne ==
  ASSUME Core, ~Up, device.created < MaxDevices
  PROVE  2 + NumContexts <= Cardinality(FreeFds(heap))
<1> USE DEF Core
<1> DEFINE Open == {fd \in Fds : heap.open[fd] # 0}
           k == device.created * NumContexts
<1>1. heap.ctxs \in Seq(Ctx) /\ device.created \in Nat /\ NumContexts \in Nat /\ MaxDevices \in Nat
      /\ MaxFd \in Nat /\ Len(heap.ctxs) = k
  BY LifetimesAssumption DEF Types, HeapOK, Heap, Device, Links
<1>2. k \in Nat /\ DOMAIN heap.ctxs = 1..k
  BY <1>1
<1>3. ASSUME NEW fd \in Open
      PROVE  heap.open[fd] \in 1..k /\ heap.ctxs[heap.open[fd]].fd = fd
  <2>1. PICK x \in DOMAIN heap.ctxs : Owned(x) /\ heap.ctxs[x].fd = fd
    BY <1>3 DEF Descriptors
  <2>2. heap.open[fd] = x
    BY <2>1 DEF Descriptors
  <2> QED  BY <1>2, <2>1, <2>2
<1> HIDE DEF k
<1> DEFINE f == [fd \in Open |-> heap.open[fd]]
<1>4. f \in Injection(Open, 1..k)
  <2>1. f \in [Open -> 1..k]
    BY <1>3
  <2>2. ASSUME NEW a \in Open, NEW b \in Open, f[a] = f[b] PROVE a = b
    BY <1>3, <2>2
  <2> HIDE DEF f
  <2> QED  BY <2>1, <2>2 DEF Injection, IsInjective
<1>5. IsFiniteSet(1..k) /\ Cardinality(1..k) = k
  BY <1>2, FS_Interval
<1>6. IsFiniteSet(Open) /\ Cardinality(Open) <= k
  <2> HIDE DEF f, Open
  <2> QED  BY <1>4, <1>5, FS_Injection
<1>7. IsFiniteSet(Fds) /\ Cardinality(Fds) = MaxFd
  <2>1. MaxFd \in Nat
    BY <1>1
  <2>2. IsFiniteSet(1..MaxFd) /\ Cardinality(1..MaxFd) = MaxFd
    BY <2>1, FS_Interval
  <2> QED  BY <2>2 DEF Fds
<1>8. Cardinality(Fds \ Open) = Cardinality(Fds) - Cardinality(Fds \cap Open)
  BY <1>7, FS_Difference
<1>9. Fds \ Open = FreeFds(heap) /\ Fds \cap Open = Open
  BY DEF FreeFds
<1>10. Cardinality(Open) \in Nat
  BY <1>6, FS_CardinalityType
<1> HIDE DEF Open
<1>11. Cardinality(FreeFds(heap)) = MaxFd - Cardinality(Open)
  BY <1>7, <1>8, <1>9
<1>12. MaxFd - k >= 2 + NumContexts
  <2>1. MaxFd >= MaxDevices * (2 + NumContexts)
    BY LifetimesAssumption
  <2> DEFINE c == device.created
             more == MaxDevices - (c + 1)
  <2>2. more \in Nat /\ MaxDevices = (c + 1) + more
    BY <1>1
  <2>3. MaxDevices * (2 + NumContexts) = (c + 1) * (2 + NumContexts) + more * (2 + NumContexts)
    <3>1. \A a, b, n \in Nat : (a + b) * n = a * n + b * n
      OBVIOUS
    <3>2. c + 1 \in Nat /\ 2 + NumContexts \in Nat
      BY <1>1
    <3> HIDE DEF c, more
    <3>3. ((c + 1) + more) * (2 + NumContexts) = (c + 1) * (2 + NumContexts) + more * (2 + NumContexts)
      BY <2>2, <3>1, <3>2
    <3> QED  BY <2>2, <3>3
  <2>4. more * (2 + NumContexts) >= 0 /\ more * (2 + NumContexts) \in Nat
    BY <1>1, <2>2
  <2>5. (c + 1) * (2 + NumContexts) = c * NumContexts + 2 * c + 2 + NumContexts
    BY <1>1
  <2>6. c * NumContexts = k /\ c \in Nat
    BY <1>1 DEF k
  <2> HIDE DEF c, more
  <2>7. MaxFd >= k + 2 * c + 2 + NumContexts
    <3> DEFINE p == (c + 1) * (2 + NumContexts)     q == more * (2 + NumContexts)
               r == MaxDevices * (2 + NumContexts)
    <3>1. p = k + 2 * c + 2 + NumContexts /\ r = p + q /\ q \in Nat /\ MaxFd >= r
      BY <2>1, <2>3, <2>4, <2>5, <2>6
    <3> HIDE DEF p, q, r
    <3> QED  BY <1>1, <1>2, <2>6, <3>1
  <2> QED  BY <1>1, <1>2, <2>6, <2>7
<1> DEFINE o == Cardinality(Open)
<1>13. o \in Nat /\ o <= k /\ Cardinality(FreeFds(heap)) = MaxFd - o
  BY <1>6, <1>10, <1>11
<1> HIDE DEF o
<1> QED  BY <1>1, <1>2, <1>12, <1>13

(* What a new device adds: its file and its allocator's are descriptors 1  *)
(* and 2 of the free ones, its c-th context's is 2 + c.                    *)
Fd(n) == FdOf(heap, n)
NewDevice ==
  /\ HeapOK(heap') /\ heap'.gem = heap.gem /\ heap'.pool = heap.pool
  /\ heap'.bufs = heap.bufs /\ heap'.cbs = heap.cbs
  /\ heap'.ctxs \in Seq(Ctx) /\ Len(heap'.ctxs) = Len(heap.ctxs) + NumContexts
  /\ \A x \in 1..Len(heap.ctxs) : heap'.ctxs[x] = heap.ctxs[x]
  /\ \A c \in 1..NumContexts :
       heap'.ctxs[Len(heap.ctxs) + c].fd = Fd(2 + c) /\ heap'.ctxs[Len(heap.ctxs) + c].refs = 1
  /\ \A n \in 1..(2 + NumContexts) :
       heap'.open[Fd(n)] = IF n <= 3 THEN Len(heap.ctxs) + 1 ELSE Len(heap.ctxs) + n - 2
  /\ \A fd \in Fds : (\A n \in 1..(2 + NumContexts) : fd # Fd(n)) => heap'.open[fd] = heap.open[fd]
  /\ device'.state = "live" /\ device'.created = device.created + 1
  /\ device'.file = Fd(1) /\ device'.allocator = Fd(2) /\ device'.placed = 0
  /\ device'.contexts = [c \in 1..NumContexts |-> Len(heap.ctxs) + c]

LEMMA DeviceIsNew ==
  ASSUME Core, CreateDevice
  PROVE  /\ NewDevice /\ UNCHANGED <<units, late>> /\ ~Up /\ device.created < MaxDevices
         /\ \A n \in 1..(2 + NumContexts) : Fd(n) \in FreeFds(heap)
         /\ \A m, n \in 1..(2 + NumContexts) : Fd(m) = Fd(n) => m = n
<1> USE DEF Core
<1> DEFINE base == device.created * NumContexts
           many == 2 + NumContexts
           files == [n \in 1..many |-> IF n <= 3 THEN base + 1 ELSE base + n - 2]
           opened == OpenAs(heap, files)
           new == [c \in 1..NumContexts |-> [fd |-> FdOf(heap, 2 + c), refs |-> 1]]
           Taken(fd) == \E n \in 1..many : fd = Fd(n)
<1>1. /\ HeapOK(heap) /\ heap \in Heap /\ heap.ctxs \in Seq(Ctx) /\ device.created \in Nat
      /\ NumContexts \in Nat /\ NumContexts >= 1 /\ MaxDevices \in Nat /\ Len(heap.ctxs) = base
  <2>1. HeapOK(heap) /\ heap \in Heap /\ heap.ctxs \in Seq(Ctx) /\ device.created \in Nat
    BY LifetimesAssumption DEF Types, HeapOK, Heap, Device
  <2>2. NumContexts \in Nat /\ NumContexts >= 1 /\ MaxDevices \in Nat
    BY LifetimesAssumption
  <2>3. Len(heap.ctxs) = base
    BY DEF Links
  <2> QED  BY <2>1, <2>2, <2>3
<1>2. /\ ~Up /\ device.created < MaxDevices /\ UNCHANGED <<units, late>>
      /\ heap' = [opened EXCEPT !.ctxs = @ \o new]
      /\ device' = [state |-> "live", created |-> device.created + 1,
                    file |-> Fd(1), allocator |-> Fd(2),
                    contexts |-> [c \in 1..NumContexts |-> base + c], placed |-> 0]
  BY DEF CreateDevice, Up, Fd
<1>3. base \in Nat /\ many \in Nat /\ base + NumContexts <= MaxDevices * NumContexts
  <2>1. base \in Nat /\ many \in Nat
    BY <1>1
  <2>2. \A a, b, n \in Nat : (a + b) * n = a * n + b * n
    OBVIOUS
  <2> DEFINE c == device.created
             more == MaxDevices - (c + 1)
  <2>3. more \in Nat /\ MaxDevices = (c + 1) + more /\ c + 1 \in Nat
    BY <1>1, <1>2
  <2> HIDE DEF c, more
  <2>4. ((c + 1) + more) * NumContexts = (c + 1) * NumContexts + more * NumContexts
    BY <1>1, <2>2, <2>3
  <2>5. (c + 1) * NumContexts = c * NumContexts + NumContexts
    BY <1>1 DEF c
  <2>6. more * NumContexts \in Nat
    BY <1>1, <2>3
  <2>7. MaxDevices * NumContexts = c * NumContexts + NumContexts + more * NumContexts
    BY <2>3, <2>4, <2>5
  <2>8. base = c * NumContexts
    BY DEF c
  <2> DEFINE p == more * NumContexts
             q == c * NumContexts
             r == MaxDevices * NumContexts
  <2>9. r = q + NumContexts + p /\ p \in Nat /\ base = q /\ q \in Nat
    BY <2>1, <2>6, <2>7, <2>8
  <2> HIDE DEF p, q, r, base
  <2>10. base + NumContexts <= r
    BY <1>1, <2>9
  <2> QED  BY <2>1, <2>10 DEF r
<1>4. /\ \A n \in 1..many : Fd(n) \in FreeFds(heap)
      /\ \A m, n \in 1..many : Fd(m) = Fd(n) => m = n
  BY <1>2, <1>3, RoomForOne, FdsAreFree DEF Fd
<1> HIDE DEF base
<1>5. files \in [1..many -> Files]
  <2>1. ASSUME NEW n \in 1..many PROVE (IF n <= 3 THEN base + 1 ELSE base + n - 2) \in Files
    <3> DEFINE r == MaxDevices * NumContexts
    <3>1. r \in Nat /\ base + NumContexts <= r
      BY <1>1, <1>3
    <3>2. Files = 1..r
      BY DEF Files
    <3> HIDE DEF r
    <3> QED  BY <1>1, <1>3, <3>1, <3>2
  <2> QED  BY <2>1
<1>6. opened = [heap EXCEPT !.open = [fd \in Fds |->
                  IF Taken(fd) THEN files[CHOOSE n \in 1..many : fd = Fd(n)] ELSE heap.open[fd]]]
  <2>1. DOMAIN files = 1..many
    OBVIOUS
  <2> HIDE DEF files
  <2> QED  BY <2>1 DEF OpenAs, Fd
<1>7. ASSUME NEW n \in 1..many PROVE (CHOOSE k \in 1..many : Fd(n) = Fd(k)) = n
  <2>1. \E k \in 1..many : Fd(n) = Fd(k)
    OBVIOUS
  <2>2. (CHOOSE k \in 1..many : Fd(n) = Fd(k)) \in 1..many
        /\ Fd(n) = Fd(CHOOSE k \in 1..many : Fd(n) = Fd(k))
    BY <2>1
  <2> QED  BY <1>4, <2>2
<1> DEFINE open == [fd \in Fds |-> IF Taken(fd) THEN files[CHOOSE n \in 1..many : fd = Fd(n)] ELSE heap.open[fd]]
<1>8. ASSUME NEW n \in 1..many PROVE Fd(n) \in Fds /\ open[Fd(n)] = files[n]
  <2>1. Fd(n) \in Fds
    BY <1>4 DEF FreeFds
  <2>2. Taken(Fd(n))
    OBVIOUS
  <2>3. open[Fd(n)] = files[CHOOSE k \in 1..many : Fd(n) = Fd(k)]
    BY <2>1, <2>2
  <2> QED  BY <1>7, <2>1, <2>3
<1>9. ASSUME NEW fd \in Fds, \A n \in 1..many : fd # Fd(n) PROVE open[fd] = heap.open[fd]
  BY <1>9
<1>10. open \in [Fds -> Files \cup {0}]
  <2>1. ASSUME NEW fd \in Fds PROVE open[fd] \in Files \cup {0}
    <3>1. CASE Taken(fd)
      <4>1. PICK n \in 1..many : fd = Fd(n)
        BY <3>1
      <4>2. open[fd] = files[n]
        BY <4>1, <1>8
      <4> HIDE DEF files, open
      <4> QED  BY <4>2, <1>5
    <3>2. CASE ~Taken(fd)
      <4>1. open[fd] = heap.open[fd]
        BY <3>2
      <4>2. heap.open \in [Fds -> Files \cup {0}]
        BY <1>1 DEF Heap
      <4> HIDE DEF open
      <4> QED  BY <4>1, <4>2
    <3> QED  BY <3>1, <3>2
  <2>2. open = [fd \in Fds |-> open[fd]]
    OBVIOUS
  <2> HIDE DEF open
  <2> QED  BY <2>1, <2>2
<1>11. new \in Seq(Ctx) /\ Len(new) = NumContexts
       /\ \A c \in 1..NumContexts : new[c].fd = Fd(2 + c) /\ new[c].refs = 1
  <2>1. ASSUME NEW c \in 1..NumContexts PROVE Fd(2 + c) \in Fds
    <3>1. 2 + c \in 1..many
      BY <1>1
    <3> QED  BY <3>1, <1>8
  <2>2. new \in [1..NumContexts -> Ctx]
    BY <2>1 DEF Ctx, Fd
  <2>3. new \in Seq(Ctx) /\ Len(new) = NumContexts
    <3> HIDE DEF new
    <3> QED  BY <1>1, <2>2
  <2> QED  BY <2>3 DEF Fd
<1> HIDE DEF new, open
<1>12. opened = [heap EXCEPT !.open = open]
  BY <1>6 DEF open
<1> HIDE DEF opened, files
<1>13. heap' = [heap EXCEPT !.open = open, !.ctxs = heap.ctxs \o new]
  BY <1>1, <1>2, <1>12 DEF Heap
<1>14. /\ heap.ctxs \o new \in Seq(Ctx) /\ Len(heap.ctxs \o new) = Len(heap.ctxs) + NumContexts
       /\ \A x \in 1..Len(heap.ctxs) : (heap.ctxs \o new)[x] = heap.ctxs[x]
       /\ \A c \in 1..NumContexts : (heap.ctxs \o new)[Len(heap.ctxs) + c] = new[c]
  <2>1. heap.ctxs \in Seq(Ctx) /\ new \in Seq(Ctx) /\ Len(new) = NumContexts /\ NumContexts \in Nat
        /\ Len(heap.ctxs) \in Nat
    BY <1>1, <1>11
  <2>2. /\ heap.ctxs \o new \in Seq(Ctx) /\ Len(heap.ctxs \o new) = Len(heap.ctxs) + Len(new)
        /\ \A i \in 1..(Len(heap.ctxs) + Len(new)) :
             (heap.ctxs \o new)[i] = IF i <= Len(heap.ctxs) THEN heap.ctxs[i] ELSE new[i - Len(heap.ctxs)]
    BY <2>1, ConcatProperties
  <2>3. ASSUME NEW x \in 1..Len(heap.ctxs) PROVE (heap.ctxs \o new)[x] = heap.ctxs[x]
    BY <2>1, <2>2
  <2>4. ASSUME NEW c \in 1..NumContexts PROVE (heap.ctxs \o new)[Len(heap.ctxs) + c] = new[c]
    <3>1. /\ Len(heap.ctxs) + c \in 1..(Len(heap.ctxs) + Len(new)) /\ ~(Len(heap.ctxs) + c <= Len(heap.ctxs))
          /\ (Len(heap.ctxs) + c) - Len(heap.ctxs) = c
      BY <2>1
    <3> QED  BY <2>2, <3>1
  <2> QED  BY <2>1, <2>2, <2>3, <2>4
<1> DEFINE ctxs == heap.ctxs \o new
<1> HIDE DEF ctxs
<1>15. /\ HeapOK(heap') /\ heap'.gem = heap.gem /\ heap'.pool = heap.pool /\ heap'.open = open
       /\ heap'.bufs = heap.bufs /\ heap'.cbs = heap.cbs /\ heap'.ctxs = ctxs
  <2>1. ctxs \in Seq(Ctx) /\ heap' = [heap EXCEPT !.open = open, !.ctxs = ctxs]
    BY <1>13, <1>14 DEF ctxs
  <2> QED  BY <1>1, <1>10, <2>1 DEF HeapOK, Heap
<1>16. /\ heap'.ctxs \in Seq(Ctx) /\ Len(heap'.ctxs) = Len(heap.ctxs) + NumContexts
       /\ \A x \in 1..Len(heap.ctxs) : heap'.ctxs[x] = heap.ctxs[x]
       /\ \A c \in 1..NumContexts :
            heap'.ctxs[Len(heap.ctxs) + c].fd = Fd(2 + c) /\ heap'.ctxs[Len(heap.ctxs) + c].refs = 1
  BY <1>11, <1>14, <1>15 DEF ctxs
<1>17. \A n \in 1..many : heap'.open[Fd(n)] = IF n <= 3 THEN Len(heap.ctxs) + 1 ELSE Len(heap.ctxs) + n - 2
  BY <1>1, <1>8, <1>15 DEF files
<1>18. \A fd \in Fds : (\A n \in 1..many : fd # Fd(n)) => heap'.open[fd] = heap.open[fd]
  BY <1>9, <1>15
<1>19. /\ device'.state = "live" /\ device'.created = device.created + 1
       /\ device'.file = Fd(1) /\ device'.allocator = Fd(2) /\ device'.placed = 0
       /\ device'.contexts = [c \in 1..NumContexts |-> Len(heap.ctxs) + c]
  BY <1>1, <1>2
<1>20. NewDevice
  BY <1>15, <1>16, <1>17, <1>18, <1>19 DEF NewDevice
<1> QED  BY <1>2, <1>4, <1>20

(* The contexts of the device, now and next.                               *)
ContextsCounted ==
  \A x : Cardinality(OfDevice(device.contexts, x)) = One(x \in Range(device.contexts))
LEMMA ContextsNow == Types /\ Links => ContextsCounted
BY DeviceContexts DEF ContextsCounted
LEMMA ContextsNext == Types' /\ Links' => ContextsCounted'
BY ContextsNow, PTL

LEMMA CreateDeviceCore ==
  ASSUME Core, CreateDevice
  PROVE  Core'
<1> USE DEF Core
<1> DEFINE base == Len(heap.ctxs)
           many == 2 + NumContexts
<1>1. /\ HeapOK(heap) /\ heap.cbs \in Seq(Cb) /\ heap.ctxs \in Seq(Ctx) /\ units \in Seq(Call)
      /\ device \in Device /\ late \in BOOLEAN
  BY DEF Types, HeapOK, Heap
<1>2. /\ NumContexts \in Nat /\ NumContexts >= 1 /\ MaxDevices \in Nat /\ base \in Nat
      /\ device.created \in Nat /\ DOMAIN heap.ctxs = 1..base
  BY <1>1, LifetimesAssumption DEF Device
<1>3. base = device.created * NumContexts
  BY DEF Links
<1>4. /\ NewDevice /\ UNCHANGED <<units, late>> /\ ~Up /\ device.created < MaxDevices
      /\ \A n \in 1..many : Fd(n) \in FreeFds(heap)
      /\ \A m, n \in 1..many : Fd(m) = Fd(n) => m = n
  BY DeviceIsNew
<1> HIDE DEF base
<1>5. /\ HeapOK(heap') /\ heap'.gem = heap.gem /\ heap'.pool = heap.pool
      /\ heap'.bufs = heap.bufs /\ heap'.cbs = heap.cbs
      /\ heap'.ctxs \in Seq(Ctx) /\ Len(heap'.ctxs) = base + NumContexts
      /\ DOMAIN heap'.ctxs = 1..(base + NumContexts)
      /\ \A x \in 1..base : heap'.ctxs[x] = heap.ctxs[x]
      /\ \A c \in 1..NumContexts :
           heap'.ctxs[base + c].fd = Fd(2 + c) /\ heap'.ctxs[base + c].refs = 1
  BY <1>2, <1>4 DEF NewDevice, base
<1>6. /\ \A n \in 1..many : heap'.open[Fd(n)] = IF n <= 3 THEN base + 1 ELSE base + n - 2
      /\ \A fd \in Fds : (\A n \in 1..many : fd # Fd(n)) => heap'.open[fd] = heap.open[fd]
  BY <1>4 DEF NewDevice, base
<1>7. /\ device'.state = "live" /\ device'.created = device.created + 1
      /\ device'.file = Fd(1) /\ device'.allocator = Fd(2) /\ device'.placed = 0
      /\ device'.contexts = [c \in 1..NumContexts |-> base + c]
  BY <1>4 DEF NewDevice, base
<1>8. \A n \in 1..many : Fd(n) \in Fds /\ heap.open[Fd(n)] = 0
  BY <1>4 DEF FreeFds
<1>9. ASSUME NEW x \in 1..(base + NumContexts)
      PROVE  x \in 1..base \/ \E c \in 1..NumContexts : x = base + c
  <2>1. CASE x <= base
    BY <2>1, <1>2
  <2>2. CASE x > base
    <3>1. x - base \in 1..NumContexts /\ x = base + (x - base)
      BY <2>2, <1>2
    <3> QED  BY <3>1
  <2> QED  BY <2>1, <2>2, <1>2
<1>10. device' \in Device
  <2>1. [c \in 1..NumContexts |-> base + c] \in Seq(Nat)
    BY <1>2
  <2>2. Fd(1) \in Nat /\ Fd(2) \in Nat
    <3>1. 1 \in 1..many /\ 2 \in 1..many /\ MaxFd \in Nat
      BY <1>2, LifetimesAssumption
    <3> QED  BY <1>8, <3>1 DEF Fds
  <2>3. device.created + 1 \in 0..MaxDevices
    BY <1>2, <1>4
  <2>4. device' = [state |-> "live", created |-> device.created + 1, file |-> Fd(1), allocator |-> Fd(2),
                   contexts |-> [c \in 1..NumContexts |-> base + c], placed |-> 0]
    BY <1>3 DEF CreateDevice, Fd
  <2> QED  BY <2>1, <2>2, <2>3, <2>4 DEF Device
<1>11. Types'
  BY <1>1, <1>4, <1>5, <1>10 DEF Types
<1>12. Up' /\ Base' = base
  <2>1. Base' = ((device.created + 1) - 1) * NumContexts
    BY <1>7 DEF Base
  <2>2. (device.created + 1) - 1 = device.created
    BY <1>2
  <2> QED  BY <1>3, <1>7, <2>1, <2>2 DEF Up
<1>13. Links'
  <2>1. Len(heap'.ctxs) = device'.created * NumContexts
    <3>1. (device.created + 1) * NumContexts = device.created * NumContexts + NumContexts
      BY <1>2
    <3> QED  BY <1>3, <1>5, <1>7, <3>1
  <2>2. \A c \in DOMAIN heap'.cbs :
          /\ ContextsOf(heap'.cbs[c]) \subseteq DOMAIN heap'.ctxs
          /\ Len(heap'.cbs[c].ops) <= 1
          /\ \A n \in DOMAIN heap'.cbs[c].ops : heap'.cbs[c].ops[n].binding \in DOMAIN heap'.bufs
    <3>1. DOMAIN heap.ctxs \subseteq DOMAIN heap'.ctxs
      BY <1>2, <1>5
    <3> QED  BY <1>5, <3>1 DEF Links
  <2>3. CallsLinked(units', heap'.cbs, heap'.bufs)
    BY <1>4, <1>5 DEF Links, CallsLinked
  <2>4. device'.contexts = (IF Up' THEN [n \in 1..NumContexts |-> Base' + n] ELSE <<>>)
        /\ device'.created > 0
    BY <1>2, <1>7, <1>12
  <2> QED  BY <2>1, <2>2, <2>3, <2>4 DEF Links, CallsLinked
<1>14. RefsBalance'
  <2>1. BufsBalance(heap'.bufs, heap'.cbs, units') /\ CbsBalance(heap'.cbs, units')
    BY <1>4, <1>5, Balance
  <2>2. \A x : Cardinality(OfDevice(device'.contexts, x)) = One(x \in Range(device'.contexts))
    BY <1>11, <1>13, ContextsNext DEF ContextsCounted
  <2>3. CtxsBalance(heap'.ctxs, heap'.cbs, device'.contexts)
    <3>1. ASSUME NEW x \in DOMAIN heap'.ctxs
          PROVE  heap'.ctxs[x].refs = Cardinality(PlaceSet(heap'.cbs, x))
                                        + Cardinality(OfDevice(device'.contexts, x))
      <4>1. CASE x \in 1..base
        <5>1. heap.ctxs[x].refs = Cardinality(PlaceSet(heap.cbs, x)) + Cardinality(OfDevice(device.contexts, x))
          BY <4>1, <1>2, Balance DEF CtxsBalance
        <5>2. Cardinality(OfDevice(device.contexts, x)) = 0
          <6>1. device.contexts = <<>>
            BY <1>4 DEF Links
          <6>2. OfDevice(device.contexts, x) = {}
            BY <6>1 DEF OfDevice
          <6> QED  BY <6>2, FS_EmptySet
        <5>3. Cardinality(OfDevice(device'.contexts, x)) = 0
          <6>1. x \notin Range(device'.contexts)
            BY <4>1, <1>2, <1>7 DEF Range
          <6> QED  BY <2>2, <6>1 DEF One
        <5> QED  BY <4>1, <1>5, <5>1, <5>2, <5>3
      <4>2. ASSUME NEW c \in 1..NumContexts, x = base + c
            PROVE  heap'.ctxs[x].refs = Cardinality(PlaceSet(heap'.cbs, x))
                                          + Cardinality(OfDevice(device'.contexts, x))
        <5>1. heap'.ctxs[x].refs = 1
          BY <4>2, <1>5
        <5>2. PlaceSet(heap'.cbs, x) = {}
          <6>1. x \notin DOMAIN heap.ctxs
            BY <4>2, <1>2
          <6> QED  BY <6>1, <1>5, NotNamed
        <5>3. Cardinality(PlaceSet(heap'.cbs, x)) = 0
          BY <5>2, FS_EmptySet
        <5>4. x \in Range(device'.contexts)
          BY <4>2, <1>7 DEF Range
        <5>5. Cardinality(OfDevice(device'.contexts, x)) = 1
          BY <2>2, <5>4 DEF One
        <5> QED  BY <5>1, <5>3, <5>5
      <4> QED  BY <1>5, <1>9, <4>1, <4>2
    <3> QED  BY <3>1 DEF CtxsBalance
  <2> QED  BY <1>11, <2>1, <2>3, BalanceNext DEF Balanced
<1>15. PoolAccounts'
  BY <1>5 DEF PoolAccounts
<1>16. Descriptors'
  <2>1. 1 \in 1..many /\ 2 \in 1..many /\ \A c \in 1..NumContexts : 2 + c \in 1..many /\ 2 + c # 1 /\ 2 + c # 2
    BY <1>2
  <2>2. ASSUME NEW x \in 1..base, Owned(x)
        PROVE  heap.ctxs[x].fd \in Fds /\ heap'.open[heap.ctxs[x].fd] = x
               /\ \A n \in 1..many : heap.ctxs[x].fd # Fd(n)
    <3>1. heap.ctxs[x] \in Ctx /\ x \in DOMAIN heap.ctxs /\ x # 0
      BY <1>1, <1>2
    <3>2. heap.ctxs[x].fd \in Fds
      BY <3>1 DEF Ctx
    <3>3. heap.open[heap.ctxs[x].fd] = x
      BY <2>2, <3>1 DEF Descriptors
    <3>4. \A n \in 1..many : heap.ctxs[x].fd # Fd(n)
      BY <1>8, <3>1, <3>3
    <3> QED  BY <1>6, <3>2, <3>3, <3>4
  <2>3. ASSUME NEW x \in 1..base PROVE Owned(x)' <=> Owned(x)
    <3>1. x \in DOMAIN heap.ctxs /\ x \in DOMAIN heap'.ctxs /\ heap'.ctxs[x] = heap.ctxs[x]
      BY <1>2, <1>5
    <3> QED  BY <3>1 DEF Owned
  <2>4. ASSUME NEW c \in 1..NumContexts, NEW x, x = base + c
        PROVE  /\ x \in DOMAIN heap'.ctxs /\ Owned(x)'
               /\ heap'.ctxs[x].fd = Fd(2 + c) /\ heap'.open[Fd(2 + c)] = x
    <3>1. x \in DOMAIN heap'.ctxs /\ heap'.ctxs[x].refs = 1 /\ heap'.ctxs[x].fd = Fd(2 + c)
      BY <1>2, <1>5, <2>4
    <3>2. heap'.open[Fd(2 + c)] = x
      <4>1. heap'.open[Fd(2 + c)] = IF 2 + c <= 3 THEN base + 1 ELSE base + (2 + c) - 2
        BY <1>6, <2>1
      <4> QED  BY <4>1, <1>2, <2>4
    <3> QED  BY <3>1, <3>2 DEF Owned
  <2>5. ASSUME NEW x \in DOMAIN heap'.ctxs, Owned(x)'
        PROVE  heap'.open[heap'.ctxs[x].fd] = x /\ heap'.ctxs[x].fd \notin {device'.file, device'.allocator}
    <3>1. CASE x \in 1..base
      BY <3>1, <1>5, <1>7, <2>1, <2>2, <2>3, <2>5
    <3>2. ASSUME NEW c \in 1..NumContexts, x = base + c
          PROVE  heap'.open[heap'.ctxs[x].fd] = x /\ heap'.ctxs[x].fd \notin {device'.file, device'.allocator}
      <4>1. heap'.ctxs[x].fd = Fd(2 + c) /\ heap'.open[Fd(2 + c)] = x
        BY <3>2, <2>4
      <4>2. Fd(2 + c) # Fd(1) /\ Fd(2 + c) # Fd(2)
        BY <1>4, <2>1
      <4> QED  BY <4>1, <4>2, <1>7
    <3> QED  BY <1>5, <1>9, <3>1, <3>2
  <2>6. /\ device'.file \in Fds /\ device'.allocator \in Fds /\ device'.file # device'.allocator
        /\ heap'.open[device'.file] = Base' + 1 /\ heap'.open[device'.allocator] = Base' + 1
    BY <1>4, <1>6, <1>7, <1>8, <1>12, <2>1
  <2>7. ASSUME NEW fd \in Fds, heap'.open[fd] # 0
        PROVE  \/ fd \in {device'.file, device'.allocator}
               \/ \E x \in DOMAIN heap'.ctxs : Owned(x)' /\ heap'.ctxs[x].fd = fd
    <3>1. CASE \E n \in 1..many : fd = Fd(n)
      <4>1. PICK n \in 1..many : fd = Fd(n)
        BY <3>1
      <4>2. CASE n = 1 \/ n = 2
        BY <4>1, <4>2, <1>7
      <4>3. CASE n > 2
        <5> DEFINE c == n - 2
        <5>1. c \in 1..NumContexts /\ 2 + c = n
          BY <4>3, <1>2
        <5> HIDE DEF c
        <5>2. \E x : x = base + c
          OBVIOUS
        <5> QED  BY <4>1, <5>1, <5>2, <2>4
      <4> QED  BY <4>2, <4>3, <1>2
    <3>2. CASE \A n \in 1..many : fd # Fd(n)
      <4>1. heap.open[fd] # 0
        BY <3>2, <1>6, <2>7
      <4>2. PICK x \in DOMAIN heap.ctxs : Owned(x) /\ heap.ctxs[x].fd = fd
        BY <4>1, <1>4 DEF Descriptors
      <4>3. x \in 1..base /\ x \in DOMAIN heap'.ctxs /\ heap'.ctxs[x] = heap.ctxs[x]
        BY <1>2, <1>5
      <4> QED  BY <4>2, <4>3, <2>3
    <3> QED  BY <3>1, <3>2
  <2> QED  BY <1>12, <2>5, <2>6, <2>7 DEF Descriptors
<1> QED  BY <1>11, <1>13, <1>14, <1>15, <1>16

-----------------------------------------------------------------------------
LEMMA InitCore == Init => Core
<1> SUFFICES ASSUME Init PROVE Core
  OBVIOUS
<1>1. PICK e \in BOOLEAN :
        heap = [open |-> [fd \in Fds |-> 0], gem |-> [file \in Files |-> {}],
                pool |-> [EmptyPool EXCEPT !.enabled = e], ctxs |-> <<>>, bufs |-> <<>>, cbs |-> <<>>]
  BY DEF Init
<1>2. units = <<>> /\ device = NoDevice /\ late = FALSE
  BY DEF Init
<1>3. /\ heap.open = [fd \in Fds |-> 0] /\ heap.gem = [file \in Files |-> {}]
      /\ heap.ctxs = <<>> /\ heap.bufs = <<>> /\ heap.cbs = <<>>
      /\ heap.pool = [EmptyPool EXCEPT !.enabled = e]
  BY <1>1
<1>4. heap.pool \in Pool /\ heap.pool.free = <<>> /\ heap.pool.bytes = 0
  <2>1. <<>> \in Seq(Bo)
    OBVIOUS
  <2>2. heap.pool = [enabled |-> e, free |-> <<>>, bytes |-> 0]
    BY <1>3 DEF EmptyPool
  <2>3. heap.pool.free = <<>> /\ heap.pool.bytes = 0
    BY <2>2
  <2> QED  BY <2>1, <2>2, <2>3 DEF Pool
<1>5. heap \in Heap
  <2>1. <<>> \in Seq(Ctx) /\ <<>> \in Seq(Buf) /\ <<>> \in Seq(Cb)
    OBVIOUS
  <2>2. [fd \in Fds |-> 0] \in [Fds -> Files \cup {0}] /\ [file \in Files |-> {}] \in [Files -> SUBSET Nat]
    OBVIOUS
  <2>3. [EmptyPool EXCEPT !.enabled = e] \in Pool
    BY <1>3, <1>4
  <2> QED  BY <1>1, <2>1, <2>2, <2>3 DEF Heap
<1>6. HeapOK(heap)
  BY <1>3, <1>5, FS_EmptySet DEF HeapOK
<1>7. device \in Device /\ device.state = "none" /\ device.created = 0 /\ device.contexts = <<>>
  <2>1. <<>> \in Seq(Nat) /\ 0 \in 0..MaxDevices
    BY LifetimesAssumption
  <2> QED  BY <1>2, <2>1 DEF NoDevice, Device
<1>8. units \in Seq(Call)
  BY <1>2
<1>9. Types
  BY <1>2, <1>6, <1>7, <1>8 DEF Types
<1>10. ~Up
  BY <1>7 DEF Up
<1>11. Links
  <2>1. Len(heap.ctxs) = device.created * NumContexts
    BY <1>3, <1>7, LifetimesAssumption
  <2>2. DOMAIN heap.cbs = {} /\ DOMAIN units = {}
    BY <1>2, <1>3
  <2> QED  BY <1>7, <1>10, <2>1, <2>2 DEF Links
<1>12. RefsBalance
  <2>1. DOMAIN heap.cbs = {} /\ DOMAIN heap.bufs = {} /\ DOMAIN heap.ctxs = {}
    BY <1>3
  <2> QED  BY <2>1 DEF RefsBalance
<1>13. PoolAccounts
  BY <1>4, BytesEmpty, LifetimesAssumption DEF PoolAccounts
<1>14. Descriptors
  <2>1. DOMAIN heap.ctxs = {} /\ \A fd \in Fds : heap.open[fd] = 0
    BY <1>3
  <2> QED  BY <1>10, <2>1 DEF Descriptors
<1> QED  BY <1>9, <1>11, <1>12, <1>13, <1>14 DEF Core

LEMMA NextCore == Core /\ [Next]_vars => Core'
<1> SUFFICES ASSUME Core, [Next]_vars PROVE Core'
  OBVIOUS
<1>1. CASE CreateDevice
  BY <1>1, CreateDeviceCore
<1>2. CASE AllocateBuffer
  BY <1>2, AllocateBufferCore
<1>3. CASE CreateCommandBuffer
  BY <1>3, CreateCommandBufferCore
<1>4. CASE StartDestroy
  BY <1>4, StartDestroyCore
<1>5. CASE FinishDestroy
  BY <1>5, FinishDestroyCore
<1>6. ASSUME NEW c \in DOMAIN heap.cbs, NEW b \in DOMAIN heap.bufs, NEW bytes \in Requests,
             NEW context \in DOMAIN heap.ctxs, RecordDispatch(c, b, bytes, context)
      PROVE  Core'
  BY <1>6, RecordDispatchCore
<1>7. ASSUME NEW b \in DOMAIN heap.bufs, ClientReleaseBuffer(b) PROVE Core'
  BY <1>7, ClientReleaseBufferCore
<1>8. ASSUME NEW c \in DOMAIN heap.cbs, ClientReleaseCommandBuffer(c) PROVE Core'
  BY <1>8, ClientReleaseCommandBufferCore
<1>9. ASSUME NEW c \in DOMAIN heap.cbs, queue_execute(c) PROVE Core'
  BY <1>9, queue_executeCore
<1>10. ASSUME NEW b \in DOMAIN heap.bufs, NEW kind \in {"transfer", "dealloca"}, queue_transfer(b, kind)
       PROVE  Core'
  BY <1>10, queue_transferCore
<1>11. ASSUME NEW u \in 1..Len(units),
              WaitFails(u) \/ RunTransfer(u) \/ BeginExecute(u) \/ EndExecute(u) \/ Panic(u)
       PROVE  Core'
  <2>1. CASE WaitFails(u)
    BY <2>1, WaitFailsCore
  <2>2. CASE RunTransfer(u)
    BY <2>2, RunTransferCore
  <2>3. CASE BeginExecute(u)
    BY <2>3, BeginExecuteCore
  <2>4. CASE EndExecute(u)
    BY <2>4, EndExecuteCore
  <2>5. CASE Panic(u)
    BY <2>5, PanicCore
  <2> QED  BY <1>11, <2>1, <2>2, <2>3, <2>4, <2>5
<1>12. CASE UNCHANGED vars
  <2>1. UNCHANGED <<heap, units, device, late>>
    BY <1>12 DEF vars
  <2>2. Types' /\ Links' /\ PoolAccounts'
    BY <2>1 DEF Core, Types, Links, Up, Base, PoolAccounts
  <2>3. RefsBalance'
    <3>1. Balanced'
      BY <2>1, Balance DEF Core, Balanced
    <3> QED  BY <2>2, <3>1, BalanceNext
  <2>4. Descriptors'
    BY <2>1 DEF Core, Descriptors, Owned, Up, Base
  <2> QED  BY <2>2, <2>3, <2>4 DEF Core
<1> QED  BY <1>1, <1>2, <1>3, <1>4, <1>5, <1>6, <1>7, <1>8, <1>9, <1>10, <1>11, <1>12 DEF Next

(* The core of the invariant holds throughout.                             *)
THEOREM CoreHolds == Spec => []Core
BY InitCore, NextCore, PTL DEF Spec

(* Every reference of a buffer, a command buffer or a context is someone's *)
(* throughout (device.rs, queue_execute and run_after_wait).               *)
THEOREM ReferencesBalance == Spec => []RefsBalance
<1>1. Core => RefsBalance
  BY DEF Core
<1> QED  BY <1>1, CoreHolds, PTL

(* The pool's byte count is what its free lists hold, within the budget,   *)
(* throughout (scratch_pool.rs, ScratchBuffer::new and drop).              *)
THEOREM PoolIsAccounted == Spec => []PoolAccounts
<1>1. Core => PoolAccounts
  BY DEF Core
<1> QED  BY <1>1, CoreHolds, PTL
=============================================================================
