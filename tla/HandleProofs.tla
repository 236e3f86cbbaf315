---------------------------- MODULE HandleProofs ----------------------------
(***************************************************************************)
(* More about Lifetimes: while a device outlives the use of its objects, a *)
(* GEM buffer in use is its holder's alone, and a device that is gone      *)
(* leaves nothing open.                                                    *)
(*                                                                         *)
(* To the core of the invariant, proved in LifetimesProofs, Owning adds    *)
(* where the GEM buffers in use live, on the files of the device that is   *)
(* up, and that a command buffer that may still run is placed there.       *)
(***************************************************************************)
EXTENDS LifetimesProofs

(* Where the GEM buffers in use live, and that each is one holder's.       *)
Homes ==
  {<<device.allocator, Base + 1>>} \cup {<<heap.ctxs[x].fd, x>> : x \in Range(device.contexts)}
Sole(holders) ==
  \A x, y \in holders : (x[3].file = y[3].file /\ x[3].handle = y[3].handle) => x = y
Sound(w, hands, homes) ==
  /\ Sole(hands \cup Idle(w.pool.free))
  /\ \A x \in hands \cup Idle(w.pool.free) :
       /\ x[3] \in Bo /\ <<x[3].fd, x[3].file>> \in homes
       /\ w.open[x[3].fd] = x[3].file /\ x[3].handle \in w.gem[x[3].file]
Owning ==
  ~late =>
    /\ ~Up => ~InUse /\ heap.pool.free = <<>>
    /\ \A c \in Usable : ContextsOf(heap.cbs[c]) \subseteq Range(device.contexts)
    /\ Sound(heap, InHands, Homes)

IInv == Core /\ Owning

-----------------------------------------------------------------------------
(* Who holds what is a set of triples; the operations on the heap move a   *)
(* buffer from one to another.                                             *)

Handed(hands) == \A x \in hands : x[1] # "idle"

LEMMA SoundShrinks ==
  ASSUME NEW w, NEW hands, NEW homes, Sound(w, hands, homes), NEW fewer \in SUBSET hands
  PROVE  Sound(w, fewer, homes)
BY DEF Sound, Sole

(* Neither the descriptors nor the handles nor the free lists change.      *)
LEMMA SoundKept ==
  ASSUME NEW w, NEW hands, NEW homes, Sound(w, hands, homes), NEW fewer \in SUBSET hands,
         NEW v, v.open = w.open, v.gem = w.gem, v.pool.free = w.pool.free
  PROVE  Sound(v, fewer, homes)
<1>1. Sound(w, fewer, homes)
  BY SoundShrinks
<1>2. Sole(fewer \cup Idle(v.pool.free))
  BY <1>1 DEF Sound
<1>3. ASSUME NEW x \in fewer \cup Idle(v.pool.free)
      PROVE  /\ x[3] \in Bo /\ <<x[3].fd, x[3].file>> \in homes
             /\ v.open[x[3].fd] = x[3].file /\ x[3].handle \in v.gem[x[3].file]
  BY <1>1, <1>3 DEF Sound
<1> QED  BY <1>2, <1>3 DEF Sound

(* A new buffer.                                                           *)
LEMMA SoundCreated ==
  ASSUME NEW w, HeapOK(w), NEW hands, NEW homes, Sound(w, hands, homes),
         NEW v, NEW bo, NEW fd, Created(w, v, bo, fd), <<fd, w.open[fd]>> \in homes, fd \in Fds,
         w.open[fd] # 0, NEW tag, NEW key
  PROVE  Sound(v, hands \cup {<<tag, key, bo>>}, homes)
<1> DEFINE new == <<tag, key, bo>>
           old == hands \cup Idle(w.pool.free)
           all == (hands \cup {new}) \cup Idle(v.pool.free)
<1>1. all = old \cup {new} /\ new[3] = bo
  BY DEF Created
<1>2. /\ bo \in Bo /\ bo.fd = fd /\ bo.file = w.open[fd] /\ bo.handle \notin w.gem[bo.file]
      /\ v.gem = [w.gem EXCEPT ![bo.file] = @ \cup {bo.handle}] /\ v.open = w.open
  BY DEF Created
<1>3. w.gem \in [Files -> SUBSET Nat] /\ bo.file \in Files
  BY <1>2 DEF HeapOK, Heap, Bo
<1>4. ASSUME NEW x \in old
      PROVE  /\ x[3] \in Bo /\ <<x[3].fd, x[3].file>> \in homes
             /\ w.open[x[3].fd] = x[3].file /\ x[3].handle \in w.gem[x[3].file] /\ x[3].file \in Files
  <2>1. /\ x[3] \in Bo /\ <<x[3].fd, x[3].file>> \in homes
        /\ w.open[x[3].fd] = x[3].file /\ x[3].handle \in w.gem[x[3].file]
    BY <1>4 DEF Sound
  <2> QED  BY <2>1 DEF Bo
<1>5. ASSUME NEW x \in old PROVE ~(x[3].file = bo.file /\ x[3].handle = bo.handle)
  BY <1>2, <1>4
<1>6. Sole(old)
  BY DEF Sound
<1> HIDE DEF old, new, all
<1>7. Sole(all)
  <2> SUFFICES ASSUME NEW x \in all, NEW y \in all, x[3].file = y[3].file /\ x[3].handle = y[3].handle
               PROVE  x = y
    BY DEF Sole
  <2>1. CASE x \in old /\ y \in old
    BY <2>1, <1>6 DEF Sole
  <2>2. CASE x = new /\ y = new
    BY <2>2
  <2>3. CASE x = new /\ y \in old
    BY <2>3, <1>1, <1>5
  <2>4. CASE x \in old /\ y = new
    BY <2>4, <1>1, <1>5
  <2> QED  BY <1>1, <2>1, <2>2, <2>3, <2>4
<1>8. ASSUME NEW x \in all
      PROVE  /\ x[3] \in Bo /\ <<x[3].fd, x[3].file>> \in homes
             /\ v.open[x[3].fd] = x[3].file /\ x[3].handle \in v.gem[x[3].file]
  <2>1. CASE x \in old
    <3>1. x[3].handle \in v.gem[x[3].file]
      BY <2>1, <1>2, <1>3, <1>4
    <3> QED  BY <2>1, <3>1, <1>2, <1>4
  <2>2. CASE x = new
    <3>1. bo.handle \in v.gem[bo.file]
      BY <1>2, <1>3
    <3> QED  BY <2>2, <3>1, <1>1, <1>2
  <2> QED  BY <1>1, <2>1, <2>2
<1> QED  BY <1>7, <1>8 DEF Sound, all, new

(* A buffer of the free lists is handed out.                               *)
LEMMA SoundPopped ==
  ASSUME NEW w, HeapOK(w), NEW hands, NEW homes, Sound(w, hands, homes), Handed(hands),
         NEW v, NEW bo, NEW fd, Popped(w, v, bo, fd), NEW tag, NEW key
  PROVE  Sound(v, hands \cup {<<tag, key, bo>>}, homes)
<1> DEFINE new == <<tag, key, bo>>
           free == w.pool.free
           old == hands \cup Idle(free)
           all == (hands \cup {new}) \cup Idle(v.pool.free)
<1>1. PICK i \in 1..Len(free) : bo = free[i] /\ bo.fd = fd /\ v.pool.free = RemoveAt(free, i)
  BY DEF Popped
<1>2. v.open = w.open /\ v.gem = w.gem
  BY DEF Popped
<1>3. free \in Seq(Bo)
  BY DEF HeapOK, Heap, Pool
<1> HIDE DEF free
<1>4. /\ Len(RemoveAt(free, i)) = Len(free) - 1 /\ Len(free) \in Nat
      /\ \A k \in 1..(Len(free) - 1) : RemoveAt(free, i)[k] = IF k < i THEN free[k] ELSE free[k + 1]
  <2>1. i \in 1..Len(free)
    BY <1>1
  <2>2. /\ Len(RemoveAt(free, i)) = Len(free) - 1
        /\ \A k \in 1..(Len(free) - 1) : RemoveAt(free, i)[k] = IF k < i THEN free[k] ELSE free[k + 1]
    BY <1>3, <2>1, RemoveAtOK
  <2> QED  BY <1>3, <2>2
<1> DEFINE Place(k) == IF k < i THEN k ELSE k + 1
           Before(x, y) == IF x \in hands THEN y = x
                           ELSE IF x = new THEN y = <<"idle", i, bo>>
                           ELSE \E k \in 1..(Len(free) - 1) :
                                  x = <<"idle", k, free[Place(k)]>> /\ y = <<"idle", Place(k), free[Place(k)]>>
<1>5. Idle(v.pool.free) = {<<"idle", k, free[Place(k)]>> : k \in 1..(Len(free) - 1)}
  BY <1>1, <1>4 DEF Idle
<1>6. ASSUME NEW k \in 1..(Len(free) - 1) PROVE Place(k) \in 1..Len(free) /\ Place(k) # i
  BY <1>4
<1>7. ASSUME NEW x \in all
      PROVE  \E y \in old : Before(x, y) /\ y[3] = x[3]
  <2>1. CASE x \in hands
    BY <2>1
  <2>2. CASE x \notin hands /\ x = new
    <3>1. <<"idle", i, bo>> \in old
      BY <1>1 DEF Idle
    <3>2. <<"idle", i, bo>>[3] = bo /\ new[3] = bo
      OBVIOUS
    <3> HIDE DEF new, old
    <3> QED  BY <2>2, <3>1, <3>2
  <2>3. CASE x \notin hands /\ x # new
    <3>1. PICK k \in 1..(Len(free) - 1) : x = <<"idle", k, free[Place(k)]>>
      BY <2>3, <1>5
    <3>2. <<"idle", Place(k), free[Place(k)]>> \in old
      BY <1>6 DEF Idle
    <3>3. x[3] = <<"idle", Place(k), free[Place(k)]>>[3]
      BY <3>1
    <3> HIDE DEF new, old, Place
    <3> QED  BY <2>3, <3>1, <3>2, <3>3
  <2> QED  BY <2>1, <2>2, <2>3
<1>8. ASSUME NEW x \in all, NEW y \in all, NEW z, Before(x, z), Before(y, z) PROVE x = y
  <2>1. CASE x \in hands
    <3>1. z = x /\ x[1] # "idle"
      BY <2>1, <1>8 DEF Handed
    <3>2. y \in hands
      <4>1. SUFFICES ASSUME y \notin hands PROVE FALSE
        OBVIOUS
      <4>2. z[1] = "idle"
        BY <4>1, <1>8
      <4> QED  BY <3>1, <4>2
    <3> QED  BY <3>1, <3>2, <1>8
  <2>2. CASE y \in hands
    <3>1. z = y /\ y[1] # "idle"
      BY <2>2, <1>8 DEF Handed
    <3>2. x \in hands
      <4>1. SUFFICES ASSUME x \notin hands PROVE FALSE
        OBVIOUS
      <4>2. z[1] = "idle"
        BY <4>1, <1>8
      <4> QED  BY <3>1, <4>2
    <3> QED  BY <3>1, <3>2, <1>8
  <2>3. CASE x \notin hands /\ y \notin hands
    <3>1. CASE x = new /\ y = new
      BY <3>1
    <3>2. ASSUME x = new, y # new PROVE FALSE
      <4>1. z[2] = i
        BY <2>3, <3>2, <1>8
      <4>2. PICK k \in 1..(Len(free) - 1) : z = <<"idle", Place(k), free[Place(k)]>>
        BY <2>3, <3>2, <1>8
      <4> QED  BY <4>1, <4>2, <1>6
    <3>3. ASSUME y = new, x # new PROVE FALSE
      <4>1. z[2] = i
        BY <2>3, <3>3, <1>8
      <4>2. PICK k \in 1..(Len(free) - 1) : z = <<"idle", Place(k), free[Place(k)]>>
        BY <2>3, <3>3, <1>8
      <4> QED  BY <4>1, <4>2, <1>6
    <3>4. CASE x # new /\ y # new
      <4>1. PICK k \in 1..(Len(free) - 1) :
              x = <<"idle", k, free[Place(k)]>> /\ z = <<"idle", Place(k), free[Place(k)]>>
        BY <2>3, <3>4, <1>8
      <4>2. PICK l \in 1..(Len(free) - 1) :
              y = <<"idle", l, free[Place(l)]>> /\ z = <<"idle", Place(l), free[Place(l)]>>
        BY <2>3, <3>4, <1>8
      <4>3. Place(k) = Place(l)
        BY <4>1, <4>2
      <4>4. k = l
        BY <4>3, <1>4
      <4> QED  BY <4>1, <4>2, <4>4
    <3> QED  BY <3>1, <3>2, <3>3, <3>4
  <2> QED  BY <2>1, <2>2, <2>3
<1>9. Sole(old) /\ \A x \in old : /\ x[3] \in Bo /\ <<x[3].fd, x[3].file>> \in homes
                                  /\ w.open[x[3].fd] = x[3].file /\ x[3].handle \in w.gem[x[3].file]
  BY DEF Sound, free
<1> HIDE DEF old, new, all, Before
<1>10. Sole(all)
  <2> SUFFICES ASSUME NEW x \in all, NEW y \in all, x[3].file = y[3].file /\ x[3].handle = y[3].handle
               PROVE  x = y
    BY DEF Sole
  <2>1. PICK p \in old : Before(x, p) /\ p[3] = x[3]
    BY <1>7
  <2>2. PICK q \in old : Before(y, q) /\ q[3] = y[3]
    BY <1>7
  <2>3. p = q
    BY <2>1, <2>2, <1>9 DEF Sole
  <2> QED  BY <2>1, <2>2, <2>3, <1>8
<1>11. ASSUME NEW x \in all
       PROVE  /\ x[3] \in Bo /\ <<x[3].fd, x[3].file>> \in homes
              /\ v.open[x[3].fd] = x[3].file /\ x[3].handle \in v.gem[x[3].file]
  <2>1. PICK p \in old : p[3] = x[3]
    BY <1>7
  <2> QED  BY <2>1, <1>2, <1>9
<1> QED  BY <1>10, <1>11 DEF Sound, all, new

(* A buffer from the pool or from the kernel.                              *)
LEMMA SoundScratched ==
  ASSUME NEW w, HeapOK(w), NEW hands, NEW homes, Sound(w, hands, homes), Handed(hands),
         NEW fd \in Fds, w.open[fd] # 0, <<fd, w.open[fd]>> \in homes,
         NEW v, NEW bo, Scratched(w, v, bo, fd), NEW tag, NEW key
  PROVE  Sound(v, hands \cup {<<tag, key, bo>>}, homes)
<1>1. CASE Created(w, v, bo, fd)
  BY <1>1, SoundCreated
<1>2. CASE Popped(w, v, bo, fd)
  BY <1>2, SoundPopped
<1> QED  BY <1>1, <1>2 DEF Scratched

(* A buffer is closed, and its holder holds it no more.                    *)
LEMMA SoundClosed ==
  ASSUME NEW w, HeapOK(w), NEW hands, NEW homes, Sound(w, hands, homes), Handed(hands),
         NEW gone \in hands, NEW fewer \in SUBSET (hands \ {gone}),
         NEW v, v.open = w.open, v.pool.free = w.pool.free,
         v.gem = [w.gem EXCEPT ![w.open[gone[3].fd]] = @ \ {gone[3].handle}]
  PROVE  Sound(v, fewer, homes)
<1> DEFINE old == hands \cup Idle(w.pool.free)
           all == fewer \cup Idle(v.pool.free)
           bo == gone[3]
<1>1. Sole(old) /\ \A x \in old : /\ x[3] \in Bo /\ <<x[3].fd, x[3].file>> \in homes
                                  /\ w.open[x[3].fd] = x[3].file /\ x[3].handle \in w.gem[x[3].file]
  BY DEF Sound
<1>2. gone \in old /\ all \subseteq old
  OBVIOUS
<1>3. gone \notin all
  <2>1. gone[1] # "idle"
    BY DEF Handed
  <2>2. \A x \in Idle(v.pool.free) : x[1] = "idle"
    BY DEF Idle
  <2> QED  BY <2>1, <2>2
<1>4. w.gem \in [Files -> SUBSET Nat] /\ bo \in Bo /\ w.open[bo.fd] = bo.file /\ bo.file \in Files
  <2>1. bo \in Bo /\ w.open[bo.fd] = bo.file
    BY <1>1, <1>2
  <2> QED  BY <2>1 DEF HeapOK, Heap, Bo
<1>5. v.gem = [w.gem EXCEPT ![bo.file] = @ \ {bo.handle}]
  BY <1>4
<1> HIDE DEF old, all, bo
<1>6. Sole(all)
  BY <1>1, <1>2 DEF Sole
<1>7. ASSUME NEW x \in all
      PROVE  /\ x[3] \in Bo /\ <<x[3].fd, x[3].file>> \in homes
             /\ v.open[x[3].fd] = x[3].file /\ x[3].handle \in v.gem[x[3].file]
  <2>1. x \in old /\ x # gone
    BY <1>2, <1>3
  <2>2. ~(x[3].file = bo.file /\ x[3].handle = bo.handle)
    BY <1>1, <1>2, <2>1 DEF Sole, bo
  <2>3. x[3] \in Bo /\ x[3].handle \in w.gem[x[3].file]
    BY <1>1, <2>1
  <2>4. x[3].file \in Files
    BY <2>3 DEF Bo
  <2>5. x[3].handle \in v.gem[x[3].file]
    BY <1>4, <1>5, <2>2, <2>3, <2>4
  <2> QED  BY <1>1, <2>1, <2>5
<1> QED  BY <1>6, <1>7 DEF Sound, all

(* A buffer goes to the free lists.                                        *)
LEMMA SoundPushed ==
  ASSUME NEW w, HeapOK(w), NEW hands, NEW homes, Sound(w, hands, homes), Handed(hands),
         NEW gone \in hands, NEW fewer \in SUBSET (hands \ {gone}),
         NEW v, v.open = w.open, v.gem = w.gem, v.pool.free = Append(w.pool.free, gone[3])
  PROVE  Sound(v, fewer, homes)
<1> DEFINE free == w.pool.free
           old == hands \cup Idle(free)
           new == <<"idle", Len(free) + 1, gone[3]>>
           all == fewer \cup Idle(v.pool.free)
           Before(x) == IF x = new THEN gone ELSE x
<1>1. Sole(old) /\ \A x \in old : /\ x[3] \in Bo /\ <<x[3].fd, x[3].file>> \in homes
                                  /\ w.open[x[3].fd] = x[3].file /\ x[3].handle \in w.gem[x[3].file]
  BY DEF Sound
<1>2. free \in Seq(Bo) /\ gone[3] \in Bo /\ gone \in old
  BY <1>1 DEF HeapOK, Heap, Pool
<1> HIDE DEF free
<1>3. Idle(v.pool.free) = Idle(free) \cup {new}
  <2>1. v.pool.free = Append(free, gone[3])
    BY DEF free
  <2>2. /\ Len(Append(free, gone[3])) = Len(free) + 1 /\ Len(free) \in Nat
        /\ Append(free, gone[3])[Len(free) + 1] = gone[3]
        /\ \A k \in 1..Len(free) : Append(free, gone[3])[k] = free[k]
    BY <1>2
  <2>3. 1..(Len(free) + 1) = (1..Len(free)) \cup {Len(free) + 1}
    BY <2>2
  <2> QED  BY <2>1, <2>2, <2>3 DEF Idle
<1>4. new[1] = "idle" /\ new[2] = Len(free) + 1 /\ new[3] = gone[3] /\ Len(free) \in Nat
  BY <1>2
<1>5. gone[1] # "idle" /\ \A x \in fewer : x[1] # "idle"
  BY DEF Handed
<1>6. \A x \in Idle(free) : x[1] = "idle" /\ x[2] \in 1..Len(free)
  BY DEF Idle
<1>7. new \notin old
  BY <1>4, <1>5, <1>6 DEF Handed
<1>8. gone \notin fewer /\ gone \notin Idle(free)
  BY <1>5, <1>6
<1>9. ASSUME NEW x \in all PROVE Before(x) \in old /\ Before(x)[3] = x[3]
  BY <1>2, <1>3, <1>4
<1>10. ASSUME NEW x \in all, NEW y \in all, Before(x) = Before(y) PROVE x = y
  <2>1. CASE x = new /\ y # new
    <3>1. y \in fewer \cup Idle(free) /\ y = gone
      BY <2>1, <1>3, <1>10
    <3> QED  BY <3>1, <1>8
  <2>2. CASE y = new /\ x # new
    <3>1. x \in fewer \cup Idle(free) /\ x = gone
      BY <2>2, <1>3, <1>10
    <3> QED  BY <3>1, <1>8
  <2> QED  BY <2>1, <2>2, <1>10
<1> HIDE DEF old, new, all, Before
<1>11. Sole(all)
  <2> SUFFICES ASSUME NEW x \in all, NEW y \in all, x[3].file = y[3].file /\ x[3].handle = y[3].handle
               PROVE  x = y
    BY DEF Sole
  <2>1. Before(x) = Before(y)
    BY <1>1, <1>9 DEF Sole
  <2> QED  BY <2>1, <1>10
<1>12. ASSUME NEW x \in all
       PROVE  /\ x[3] \in Bo /\ <<x[3].fd, x[3].file>> \in homes
              /\ v.open[x[3].fd] = x[3].file /\ x[3].handle \in v.gem[x[3].file]
  BY <1>1, <1>9
<1> QED  BY <1>11, <1>12 DEF Sound, all

LEMMA SoundDropped ==
  ASSUME NEW w, HeapOK(w), NEW hands, NEW homes, Sound(w, hands, homes), Handed(hands),
         NEW gone \in hands, NEW fewer \in SUBSET (hands \ {gone}), NEW v, Dropped(w, v, gone[3])
  PROVE  Sound(v, fewer, homes)
<1>1. CASE v.gem = w.gem /\ v.pool.free = Append(w.pool.free, gone[3])
  BY <1>1, SoundPushed DEF Dropped
<1>2. CASE Closed(w, v, gone[3])
  <2>1. gone[3] \in Bo /\ w.open[gone[3].fd] = gone[3].file
    BY DEF Sound
  <2>2. w.open[gone[3].fd] # 0
    <3>1. gone[3].file \in Files
      BY <2>1 DEF Bo
    <3> QED  BY <2>1, <3>1 DEF Files
  <2>3. v.open = w.open /\ v.pool.free = w.pool.free
        /\ v.gem = [w.gem EXCEPT ![w.open[gone[3].fd]] = @ \ {gone[3].handle}]
    BY <1>2, <2>2 DEF Closed
  <2> QED  BY <2>3, SoundClosed
<1> QED  BY <1>1, <1>2 DEF Dropped

(* A buffer object loses a reference, and with the last one its holder.    *)
LEMMA SoundUnref ==
  ASSUME NEW w, HeapOK(w), NEW hands, NEW homes, Sound(w, hands, homes), Handed(hands),
         NEW b, NEW gone \in hands, gone[3] = w.bufs[b].bo,
         NEW fewer \in SUBSET hands, w.bufs[b].refs = 1 => gone \notin fewer,
         NEW v, Unref(w, v, b)
  PROVE  Sound(v, fewer, homes)
<1>1. CASE w.bufs[b].refs # 1
  BY <1>1, SoundKept DEF Unref
<1>2. CASE w.bufs[b].refs = 1
  <2>1. gone[3] \in Bo /\ w.open[gone[3].fd] = gone[3].file
    BY DEF Sound
  <2>2. w.open[gone[3].fd] # 0
    <3>1. gone[3].file \in Files
      BY <2>1 DEF Bo
    <3> QED  BY <2>1, <3>1 DEF Files
  <2>3. v.open = w.open /\ v.pool.free = w.pool.free
        /\ v.gem = [w.gem EXCEPT ![w.open[gone[3].fd]] = @ \ {gone[3].handle}]
    BY <1>2, <2>2 DEF Unref
  <2>4. fewer \in SUBSET (hands \ {gone})
    BY <1>2
  <2> QED  BY <2>3, <2>4, SoundClosed
<1> QED  BY <1>1, <1>2

-----------------------------------------------------------------------------
(* Who holds what, from one state to the next.                             *)

LEMMA HandsAreTagged ==
  Handed(InHands)
BY DEF Handed, InHands

LEMMA NobodyHolds ==
  ASSUME ~InUse
  PROVE  Usable = {} /\ InHands = {} /\ Pending = {}
<1>1. /\ \A b \in DOMAIN heap.bufs : ~heap.bufs[b].client
      /\ \A c \in DOMAIN heap.cbs : ~heap.cbs[c].client
      /\ Pending = {}
  BY DEF InUse
<1>2. Usable = {}
  BY <1>1 DEF Usable
<1>3. Needed = {}
  BY <1>1, <1>2 DEF Needed
<1> QED  BY <1>1, <1>2, <1>3 DEF InHands

(* What is in hands in the next state was in the same hands, or is extra.  *)
LEMMA HandsMove ==
  ASSUME NEW extra,
         \A b \in DOMAIN heap'.bufs :
           \/ <<"buffer", b, heap'.bufs[b].bo>> \in extra
           \/ /\ b \in DOMAIN heap.bufs /\ heap'.bufs[b].bo = heap.bufs[b].bo
              /\ heap'.bufs[b].client => heap.bufs[b].client,
         \A u \in Pending' :
           /\ units'[u].kind # "execute" => units'[u].of \in Needed
           /\ units'[u].regcmd # <<>> =>
                \/ <<"regcmd", u, units'[u].regcmd[1]>> \in extra
                \/ u \in Pending /\ units'[u].regcmd = units[u].regcmd,
         \A c \in Usable' :
           \/ heap'.cbs[c].ops = <<>>
           \/ c \in Usable /\ heap'.cbs[c].ops = heap.cbs[c].ops
           \/ /\ <<"scratch", c, heap'.cbs[c].ops[1].scratch>> \in extra
              /\ \A n \in DOMAIN heap'.cbs[c].ops : heap'.cbs[c].ops[n].binding \in Needed
  PROVE  InHands' \subseteq InHands \cup extra
<1>1. ASSUME NEW b \in Needed' PROVE <<"buffer", b, heap'.bufs[b].bo>> \in InHands \cup extra
  <2>1. b \in DOMAIN heap'.bufs
    BY <1>1 DEF Needed
  <2>2. SUFFICES ASSUME /\ b \in DOMAIN heap.bufs /\ heap'.bufs[b].bo = heap.bufs[b].bo
                        /\ heap'.bufs[b].client => heap.bufs[b].client
                 PROVE  b \in Needed
    BY <2>1 DEF InHands
  <2>3. CASE heap'.bufs[b].client
    BY <2>2, <2>3 DEF Needed
  <2>4. ASSUME NEW u \in Pending', units'[u].kind # "execute", units'[u].of = b PROVE b \in Needed
    BY <2>4
  <2>5. ASSUME NEW c \in Usable', c \in Recorded(b)' PROVE b \in Needed
    <3>1. c \in DOMAIN heap'.cbs /\ \E n \in DOMAIN heap'.cbs[c].ops : heap'.cbs[c].ops[n].binding = b
      BY <2>5 DEF Recorded
    <3>2. heap'.cbs[c].ops # <<>>
      BY <3>1
    <3>3. CASE c \in Usable /\ heap'.cbs[c].ops = heap.cbs[c].ops
      <4>1. c \in DOMAIN heap.cbs
        BY <3>3 DEF Usable
      <4>2. c \in Recorded(b)
        BY <3>1, <3>3, <4>1 DEF Recorded
      <4> QED  BY <2>2, <3>3, <4>2 DEF Needed
    <3>4. CASE \A n \in DOMAIN heap'.cbs[c].ops : heap'.cbs[c].ops[n].binding \in Needed
      BY <3>1, <3>4
    <3> QED  BY <2>5, <3>2, <3>3, <3>4
  <2>6. \/ heap'.bufs[b].client
        \/ \E u \in Pending' : units'[u].kind # "execute" /\ units'[u].of = b
        \/ \E c \in Usable' : c \in Recorded(b)'
    BY <1>1 DEF Needed
  <2> QED  BY <2>3, <2>4, <2>5, <2>6
<1>2. ASSUME NEW c \in Usable', heap'.cbs[c].ops # <<>>
      PROVE  <<"scratch", c, heap'.cbs[c].ops[1].scratch>> \in InHands \cup extra
  <2>1. CASE c \in Usable /\ heap'.cbs[c].ops = heap.cbs[c].ops
    BY <2>1, <1>2 DEF InHands
  <2>2. CASE <<"scratch", c, heap'.cbs[c].ops[1].scratch>> \in extra
    BY <2>2
  <2> QED  BY <1>2, <2>1, <2>2
<1>3. ASSUME NEW u \in Pending', units'[u].regcmd # <<>>
      PROVE  <<"regcmd", u, units'[u].regcmd[1]>> \in InHands \cup extra
  <2>1. CASE u \in Pending /\ units'[u].regcmd = units[u].regcmd
    BY <2>1, <1>3 DEF InHands
  <2>2. CASE <<"regcmd", u, units'[u].regcmd[1]>> \in extra
    BY <2>2
  <2> QED  BY <1>3, <2>1, <2>2
<1>4. InHands' = {<<"buffer", b, heap'.bufs[b].bo>> : b \in Needed'}
                 \cup {<<"scratch", c, heap'.cbs[c].ops[1].scratch>> :
                         c \in {c \in Usable' : heap'.cbs[c].ops # <<>>}}
                 \cup {<<"regcmd", u, units'[u].regcmd[1]>> : u \in {u \in Pending' : units'[u].regcmd # <<>>}}
  BY DEF InHands
<1> QED  BY <1>1, <1>2, <1>3, <1>4

(* A step that leaves the device up, and its contexts where they are.      *)
LEMMA HomesKept ==
  ASSUME Links, UNCHANGED late,
         Up' <=> Up, device'.created = device.created, device'.allocator = device.allocator,
         device'.contexts = device.contexts,
         Range(device.contexts) \subseteq DOMAIN heap.ctxs,
         \A x \in DOMAIN heap.ctxs : heap'.ctxs[x].fd = heap.ctxs[x].fd,
         ~late => Up,
         ~late => \A c \in Usable' : ContextsOf(heap'.cbs[c]) \subseteq Range(device.contexts),
         ~late => Sound(heap', InHands', Homes)
  PROVE  Owning'
<1>1. Homes' = Homes
  <2>1. Base' = Base
    BY DEF Base
  <2>2. {<<heap'.ctxs[x].fd, x>> : x \in Range(device.contexts)}
          = {<<heap.ctxs[x].fd, x>> : x \in Range(device.contexts)}
    OBVIOUS
  <2> QED  BY <2>1, <2>2 DEF Homes
<1>2. Range(device'.contexts) = Range(device.contexts)
  OBVIOUS
<1> QED  BY <1>1, <1>2 DEF Owning

(* Nobody gets hold of anything.                                           *)
LEMMA HandsShrink ==
  ASSUME DOMAIN heap'.bufs \subseteq DOMAIN heap.bufs, DOMAIN heap'.cbs \subseteq DOMAIN heap.cbs,
         \A b \in DOMAIN heap'.bufs :
           heap'.bufs[b].bo = heap.bufs[b].bo /\ (heap'.bufs[b].client => heap.bufs[b].client),
         \A c \in DOMAIN heap'.cbs :
           /\ heap'.cbs[c].client => heap.cbs[c].client
           /\ heap'.cbs[c].ops = <<>> \/ heap'.cbs[c].ops = heap.cbs[c].ops,
         \A u \in Pending' : u \in Pending /\ units'[u] = units[u]
  PROVE  InHands' \subseteq InHands /\ Usable' \subseteq Usable
<1>1. Usable' \subseteq Usable
  BY DEF Usable
<1>2. ASSUME NEW u \in Pending', units'[u].kind # "execute", units'[u].of \in DOMAIN heap.bufs
      PROVE  units'[u].of \in Needed
  BY <1>2 DEF Needed
<1>3. ASSUME NEW b \in Needed' PROVE b \in Needed
  <2>1. b \in DOMAIN heap'.bufs /\ b \in DOMAIN heap.bufs
    BY <1>3 DEF Needed
  <2>2. CASE heap'.bufs[b].client
    BY <2>1, <2>2 DEF Needed
  <2>3. ASSUME NEW u \in Pending', units'[u].kind # "execute", units'[u].of = b PROVE b \in Needed
    BY <2>1, <2>3, <1>2
  <2>4. ASSUME NEW c \in Usable', c \in Recorded(b)' PROVE b \in Needed
    <3>1. c \in DOMAIN heap'.cbs /\ \E n \in DOMAIN heap'.cbs[c].ops : heap'.cbs[c].ops[n].binding = b
      BY <2>4 DEF Recorded
    <3>2. heap'.cbs[c].ops = heap.cbs[c].ops
      BY <3>1
    <3>3. c \in Recorded(b)
      BY <3>1, <3>2 DEF Recorded
    <3> QED  BY <1>1, <2>1, <2>4, <3>3 DEF Needed
  <2>5. \/ heap'.bufs[b].client
        \/ \E u \in Pending' : units'[u].kind # "execute" /\ units'[u].of = b
        \/ \E c \in Usable' : c \in Recorded(b)'
    BY <1>3 DEF Needed
  <2> QED  BY <2>2, <2>3, <2>4, <2>5
<1>4. ASSUME NEW b \in Needed' PROVE <<"buffer", b, heap'.bufs[b].bo>> \in InHands
  <2>1. b \in DOMAIN heap'.bufs
    BY <1>4 DEF Needed
  <2> QED  BY <1>3, <1>4, <2>1 DEF InHands
<1>5. ASSUME NEW c \in Usable', heap'.cbs[c].ops # <<>>
      PROVE  <<"scratch", c, heap'.cbs[c].ops[1].scratch>> \in InHands
  <2>1. c \in DOMAIN heap'.cbs /\ c \in Usable
    BY <1>1, <1>5 DEF Usable
  <2>2. heap'.cbs[c].ops = heap.cbs[c].ops
    BY <1>5, <2>1
  <2> QED  BY <1>5, <2>1, <2>2 DEF InHands
<1>6. ASSUME NEW u \in Pending', units'[u].regcmd # <<>>
      PROVE  <<"regcmd", u, units'[u].regcmd[1]>> \in InHands
  BY <1>6 DEF InHands
<1>7. InHands' = {<<"buffer", b, heap'.bufs[b].bo>> : b \in Needed'}
                 \cup {<<"scratch", c, heap'.cbs[c].ops[1].scratch>> :
                         c \in {c \in Usable' : heap'.cbs[c].ops # <<>>}}
                 \cup {<<"regcmd", u, units'[u].regcmd[1]>> : u \in {u \in Pending' : units'[u].regcmd # <<>>}}
  BY DEF InHands
<1> QED  BY <1>1, <1>4, <1>5, <1>6, <1>7

(* While the device is up its descriptors are open, on homes.              *)
AtHome(fd) == fd \in Fds /\ heap.open[fd] # 0 /\ <<fd, heap.open[fd]>> \in Homes
LEMMA HomesAreOpen ==
  ASSUME Core, Up
  PROVE  /\ AtHome(device.allocator)
         /\ \A x \in Range(device.contexts) : x \in DOMAIN heap.ctxs /\ AtHome(heap.ctxs[x].fd)
<1>1. AtHome(device.allocator)
  <2>1. <<device.allocator, Base + 1>> \in Homes
    BY DEF Homes
  <2> QED  BY <2>1, UpIsOpen DEF Core, AtHome
<1>2. ASSUME NEW x \in Range(device.contexts) PROVE x \in DOMAIN heap.ctxs /\ AtHome(heap.ctxs[x].fd)
  <2>1. x \in DOMAIN heap.ctxs /\ heap.ctxs[x].refs > 0
    BY CtxRefs DEF Core
  <2>2. heap.ctxs \in Seq(Ctx)
    BY DEF Core, Types, HeapOK, Heap
  <2>3. heap.ctxs[x] \in Ctx /\ x # 0
    BY <2>1, <2>2
  <2>4. heap.open[heap.ctxs[x].fd] = x
    BY <2>1 DEF Core, Descriptors, Owned
  <2>5. <<heap.ctxs[x].fd, x>> \in Homes
    BY DEF Homes
  <2> QED  BY <2>1, <2>3, <2>4, <2>5 DEF AtHome, Ctx
<1> QED  BY <1>1, <1>2

(* The device is up when it is live, and when anything is in use.          *)
LEMMA OwnNow ==
  ASSUME IInv, ~late, Up
  PROVE  /\ \A c \in Usable : ContextsOf(heap.cbs[c]) \subseteq Range(device.contexts)
         /\ Sound(heap, InHands, Homes) /\ Handed(InHands) /\ HeapOK(heap)
BY HandsAreTagged DEF IInv, Owning, Core, Types

LEMMA UsedIsUp ==
  ASSUME IInv, InUse
  PROVE  ~late => Up
BY DEF IInv, Owning

LEMMA ContextsAreThere ==
  ASSUME Core
  PROVE  Range(device.contexts) \subseteq DOMAIN heap.ctxs
BY DeviceContexts DEF Core

-----------------------------------------------------------------------------
(* Every action keeps who owns what.                                       *)

LEMMA AllocateBufferOwning ==
  ASSUME IInv, AllocateBuffer
  PROVE  Owning'
<1>1. PICK w, b, bo : Allocated(w, b, bo)
  BY AllocateBufferCore DEF IInv
<1>2. Up /\ UNCHANGED <<units, device, late>>
  BY DEF AllocateBuffer, Live, Up
<1> DEFINE new == <<"buffer", b, bo>>
<1>3. Pending' = Pending
  BY <1>2 DEF Pending
<1>4. Usable' = Usable
  BY <1>1, <1>2, <1>3 DEF Usable, Allocated
<1>5. InHands' \subseteq InHands \cup {new}
  <2>1. ASSUME NEW a \in DOMAIN heap'.bufs
        PROVE  \/ <<"buffer", a, heap'.bufs[a].bo>> \in {new}
               \/ /\ a \in DOMAIN heap.bufs /\ heap'.bufs[a].bo = heap.bufs[a].bo
                  /\ heap'.bufs[a].client => heap.bufs[a].client
    BY <1>1 DEF Allocated
  <2>2. ASSUME NEW u \in Pending'
        PROVE  /\ units'[u].kind # "execute" => units'[u].of \in Needed
               /\ units'[u].regcmd # <<>> =>
                    \/ <<"regcmd", u, units'[u].regcmd[1]>> \in {new}
                    \/ u \in Pending /\ units'[u].regcmd = units[u].regcmd
    <3>1. u \in Pending /\ u \in DOMAIN units /\ units'[u] = units[u]
      BY <1>2, <1>3 DEF Pending, IInv, Core, Types
    <3>2. units[u].kind # "execute" => units[u].of \in DOMAIN heap.bufs
      BY <3>1 DEF IInv, Core, Links
    <3> QED  BY <3>1, <3>2 DEF Needed
  <2>3. ASSUME NEW c \in Usable' PROVE c \in Usable /\ heap'.cbs[c].ops = heap.cbs[c].ops
    BY <1>1, <1>4 DEF Allocated
  <2> HIDE DEF new
  <2> QED  BY <2>1, <2>2, <2>3, HandsMove
<1>6. ASSUME ~late PROVE Sound(heap', InHands', Homes)
  <2>1. Sound(heap, InHands, Homes) /\ HeapOK(heap) /\ AtHome(device.allocator)
    BY <1>2, <1>6, OwnNow, HomesAreOpen DEF IInv
  <2>2. Sound(w, InHands \cup {new}, Homes)
    <3>1. Created(heap, w, bo, device.allocator)
      BY <1>1 DEF Allocated
    <3>2. /\ device.allocator \in Fds /\ heap.open[device.allocator] # 0
          /\ <<device.allocator, heap.open[device.allocator]>> \in Homes
      BY <2>1 DEF AtHome
    <3> QED  BY <2>1, <3>1, <3>2, SoundCreated
  <2>3. heap'.open = w.open /\ heap'.gem = w.gem /\ heap'.pool.free = w.pool.free
    BY <1>1 DEF Allocated
  <2> HIDE DEF new
  <2> QED  BY <1>5, <2>2, <2>3, SoundKept
<1>7. ASSUME ~late, NEW c \in Usable' PROVE ContextsOf(heap'.cbs[c]) \subseteq Range(device.contexts)
  BY <1>1, <1>2, <1>4, <1>7, OwnNow DEF Allocated
<1>8. Links /\ Range(device.contexts) \subseteq DOMAIN heap.ctxs
      /\ \A x \in DOMAIN heap.ctxs : heap'.ctxs[x].fd = heap.ctxs[x].fd
  BY <1>1, ContextsAreThere DEF IInv, Core, Allocated
<1>9. Up' <=> Up
  BY <1>2 DEF Up
<1> QED  BY <1>2, <1>6, <1>7, <1>8, <1>9, HomesKept

LEMMA CreateCommandBufferOwning ==
  ASSUME IInv, CreateCommandBuffer
  PROVE  Owning'
<1>1. PICK c : PlacedOn(c)
  BY CreateCommandBufferCore DEF IInv
<1>2. Up /\ UNCHANGED <<units, late>>
  BY DEF CreateCommandBuffer, Live, Up
<1>3. Pending' = Pending
  BY <1>2 DEF Pending
<1>4. ASSUME NEW u \in Pending
      PROVE  /\ u \in DOMAIN units /\ units'[u] = units[u]
             /\ units[u].of \in IF units[u].kind = "execute" THEN DOMAIN heap.cbs ELSE DOMAIN heap.bufs
  BY <1>2, <1>4 DEF Pending, IInv, Core, Types, Links
<1>5. ASSUME NEW d \in Usable', d # c PROVE d \in Usable /\ heap'.cbs[d] = heap.cbs[d]
  <2>1. d \in DOMAIN heap.cbs /\ heap'.cbs[d] = heap.cbs[d]
    BY <1>1, <1>5 DEF PlacedOn, Usable
  <2> QED  BY <1>2, <1>3, <1>5, <2>1 DEF Usable
<1>6. InHands' \subseteq InHands \cup {}
  <2>1. \A a \in DOMAIN heap'.bufs : a \in DOMAIN heap.bufs /\ heap'.bufs[a] = heap.bufs[a]
    BY <1>1 DEF PlacedOn
  <2>2. ASSUME NEW u \in Pending'
        PROVE  /\ units'[u].kind # "execute" => units'[u].of \in Needed
               /\ u \in Pending /\ units'[u].regcmd = units[u].regcmd
    BY <1>3, <1>4 DEF Needed
  <2>3. ASSUME NEW d \in Usable'
        PROVE  heap'.cbs[d].ops = <<>> \/ (d \in Usable /\ heap'.cbs[d].ops = heap.cbs[d].ops)
    BY <1>1, <1>5 DEF PlacedOn
  <2> QED  BY <2>1, <2>2, <2>3, HandsMove
<1>7. ASSUME ~late PROVE Sound(heap', InHands', Homes)
  <2>1. Sound(heap, InHands, Homes) /\ InHands' \in SUBSET InHands
    BY <1>2, <1>6, <1>7, OwnNow
  <2>2. heap'.open = heap.open /\ heap'.gem = heap.gem /\ heap'.pool.free = heap.pool.free
    BY <1>1 DEF PlacedOn
  <2> QED  BY <2>1, <2>2, SoundKept
<1>8. ASSUME ~late, NEW d \in Usable' PROVE ContextsOf(heap'.cbs[d]) \subseteq Range(device.contexts)
  <2>1. CASE d = c
    BY <2>1, <1>1 DEF PlacedOn
  <2>2. CASE d # c
    BY <2>2, <1>2, <1>5, <1>8, OwnNow
  <2> QED  BY <2>1, <2>2
<1>9. Links /\ Range(device.contexts) \subseteq DOMAIN heap.ctxs
      /\ \A x \in DOMAIN heap.ctxs : heap'.ctxs[x].fd = heap.ctxs[x].fd
  BY <1>1, ContextsAreThere DEF IInv, Core, PlacedOn
<1>10. (Up' <=> Up) /\ device'.created = device.created /\ device'.allocator = device.allocator
       /\ device'.contexts = device.contexts
  BY <1>1 DEF Up, PlacedOn
<1> QED  BY <1>2, <1>7, <1>8, <1>9, <1>10, HomesKept

(* The calls that nothing happens to.                                      *)
LEMMA CallsKept ==
  ASSUME Core, NEW u \in Pending, units'[u] = units[u]
  PROVE  /\ u \in DOMAIN units
         /\ units'[u].kind # "execute" => units'[u].of \in Needed
         /\ units'[u].kind = "execute" => units'[u].of \in Usable
<1>1. u \in DOMAIN units
  BY DEF Pending, Core, Types
<1>2. units[u].of \in IF units[u].kind = "execute" THEN DOMAIN heap.cbs ELSE DOMAIN heap.bufs
  BY <1>1 DEF Core, Links
<1> QED  BY <1>1, <1>2 DEF Needed, Usable

(* Neither does the heap's share of contexts move, nor the device.         *)
LEMMA SameHomes ==
  ASSUME IInv, UNCHANGED <<device, late>>, DOMAIN heap'.ctxs = DOMAIN heap.ctxs,
         \A x \in DOMAIN heap.ctxs : heap'.ctxs[x].fd = heap.ctxs[x].fd,
         ~late => Up,
         ~late => \A c \in Usable' : ContextsOf(heap'.cbs[c]) \subseteq Range(device.contexts),
         ~late => Sound(heap', InHands', Homes)
  PROVE  Owning'
<1>1. (Up' <=> Up) /\ UNCHANGED late /\ device'.created = device.created
      /\ device'.allocator = device.allocator /\ device'.contexts = device.contexts
  BY DEF Up
<1>2. Links /\ Range(device.contexts) \subseteq DOMAIN heap.ctxs
  BY ContextsAreThere DEF IInv, Core
<1> QED  BY <1>1, <1>2, HomesKept

LEMMA RecordDispatchOwning ==
  ASSUME IInv, NEW c \in DOMAIN heap.cbs, NEW b \in DOMAIN heap.bufs, NEW bytes \in Requests,
         NEW context \in DOMAIN heap.ctxs, RecordDispatch(c, b, bytes, context)
  PROVE  Owning'
<1>1. PICK w, bo : Bound(w, c, b, heap.ctxs[context].fd, bo)
  BY RecordDispatchCore DEF IInv
<1>2. /\ Up /\ UNCHANGED <<units, device, late>> /\ heap.cbs[c].client /\ heap.bufs[b].client
      /\ context \in ContextsOf(heap.cbs[c])
  BY DEF RecordDispatch, Live, Up
<1> DEFINE new == <<"scratch", c, bo>>
<1>3. Pending' = Pending
  BY <1>2 DEF Pending
<1>4. c \in Usable /\ b \in Needed
  BY <1>2 DEF Usable, Needed
<1>5. Usable' = Usable
  <2>1. \A d \in DOMAIN heap.cbs : heap'.cbs[d].client = heap.cbs[d].client
    BY <1>1 DEF Bound
  <2> QED  BY <1>1, <1>2, <1>3, <2>1 DEF Usable, Bound
<1>6. /\ Len(heap'.cbs[c].ops) = 1 /\ heap'.cbs[c].ops[1].scratch = bo /\ heap'.cbs[c].ops[1].binding = b
      /\ DOMAIN heap'.cbs[c].ops = {1}
  BY <1>1 DEF Bound
<1>7. InHands' \subseteq InHands \cup {new}
  <2>1. \A a \in DOMAIN heap'.bufs : /\ a \in DOMAIN heap.bufs /\ heap'.bufs[a].bo = heap.bufs[a].bo
                                     /\ heap'.bufs[a].client => heap.bufs[a].client
    BY <1>1 DEF Bound
  <2>2. ASSUME NEW u \in Pending'
        PROVE  /\ units'[u].kind # "execute" => units'[u].of \in Needed
               /\ u \in Pending /\ units'[u].regcmd = units[u].regcmd
    BY <1>2, <1>3, CallsKept DEF IInv
  <2>3. ASSUME NEW d \in Usable'
        PROVE  \/ d \in Usable /\ heap'.cbs[d].ops = heap.cbs[d].ops
               \/ /\ <<"scratch", d, heap'.cbs[d].ops[1].scratch>> \in {new}
                  /\ \A n \in DOMAIN heap'.cbs[d].ops : heap'.cbs[d].ops[n].binding \in Needed
    <3>1. CASE d = c
      BY <3>1, <1>4, <1>6
    <3>2. CASE d # c
      <4>1. d \in DOMAIN heap.cbs \ {c}
        BY <3>2, <1>5 DEF Usable
      <4> QED  BY <4>1, <1>1, <1>5 DEF Bound
    <3> QED  BY <3>1, <3>2
  <2> HIDE DEF new
  <2> QED  BY <2>1, <2>2, <2>3, HandsMove
<1>8. ASSUME ~late PROVE Sound(heap', InHands', Homes)
  <2>1. Sound(heap, InHands, Homes) /\ HeapOK(heap) /\ Handed(InHands)
    BY <1>2, <1>8, OwnNow
  <2>2. context \in Range(device.contexts)
    BY <1>2, <1>4, <1>8, OwnNow
  <2>3. AtHome(heap.ctxs[context].fd)
    BY <1>2, <2>2, HomesAreOpen DEF IInv
  <2>4. Sound(w, InHands \cup {new}, Homes)
    <3>1. Scratched(heap, w, bo, heap.ctxs[context].fd)
      BY <1>1 DEF Bound
    <3>2. \E fd \in Fds : Scratched(heap, w, bo, fd) /\ heap.open[fd] # 0 /\ <<fd, heap.open[fd]>> \in Homes
      BY <2>3, <3>1 DEF AtHome
    <3> QED  BY <2>1, <3>2, SoundScratched
  <2>5. heap'.open = w.open /\ heap'.gem = w.gem /\ heap'.pool.free = w.pool.free
    BY <1>1 DEF Bound
  <2> HIDE DEF new
  <2> QED  BY <1>7, <2>4, <2>5, SoundKept
<1>9. ASSUME ~late, NEW d \in Usable' PROVE ContextsOf(heap'.cbs[d]) \subseteq Range(device.contexts)
  <2>1. d \in Usable /\ d \in DOMAIN heap.cbs
    BY <1>5, <1>9 DEF Usable
  <2>2. ContextsOf(heap'.cbs[d]) = ContextsOf(heap.cbs[d])
    BY <1>1, <2>1 DEF Bound
  <2> QED  BY <1>2, <1>9, <2>1, <2>2, OwnNow
<1>10. DOMAIN heap'.ctxs = DOMAIN heap.ctxs /\ \A x \in DOMAIN heap.ctxs : heap'.ctxs[x].fd = heap.ctxs[x].fd
  BY <1>1 DEF Bound
<1> QED  BY <1>2, <1>8, <1>9, <1>10, SameHomes

LEMMA queue_transferOwning ==
  ASSUME IInv, NEW b \in DOMAIN heap.bufs, NEW kind \in {"transfer", "dealloca"}, queue_transfer(b, kind)
  PROVE  Owning'
<1>1. /\ Up /\ UNCHANGED <<device, late>> /\ heap.bufs[b].client
      /\ heap' = [heap EXCEPT !.bufs[b].refs = @ + 1]
      /\ units' = Append(units, Unit(kind, b, "queued"))
  BY DEF queue_transfer, Live, Up
<1>2. heap \in Heap /\ heap.bufs \in Seq(Buf) /\ units \in Seq(Call)
  BY DEF IInv, Core, Types, HeapOK, Heap
<1>3. /\ heap'.open = heap.open /\ heap'.gem = heap.gem /\ heap'.pool = heap.pool
      /\ heap'.ctxs = heap.ctxs /\ heap'.cbs = heap.cbs /\ DOMAIN heap'.bufs = DOMAIN heap.bufs
      /\ heap'.bufs = [heap.bufs EXCEPT ![b].refs = @ + 1]
  BY <1>1, <1>2 DEF Heap
<1>4. ASSUME NEW a \in DOMAIN heap.bufs
      PROVE  heap'.bufs[a].bo = heap.bufs[a].bo /\ heap'.bufs[a].client = heap.bufs[a].client
  <2>1. heap.bufs[a] \in Buf
    BY <1>2
  <2> QED  BY <1>3, <2>1 DEF Buf
<1> DEFINE k == Len(units) + 1
<1>5. /\ units'[k] = Unit(kind, b, "queued") /\ DOMAIN units' = 1..k /\ Len(units') = k
      /\ \A u \in 1..Len(units) : units'[u] = units[u]
  BY <1>1, <1>2
<1>6. ASSUME NEW u \in Pending'
      PROVE  \/ u = k /\ units'[u].kind = kind /\ units'[u].of = b /\ units'[u].regcmd = <<>>
             \/ u \in Pending /\ units'[u] = units[u]
  <2>1. u \in 1..k /\ units'[u].stage \in {"queued", "running"}
    BY <1>5, <1>6 DEF Pending
  <2>2. CASE u = k
    BY <2>2, <1>5 DEF Unit
  <2>3. CASE u # k
    <3>1. u \in 1..Len(units)
      BY <2>1, <2>3, <1>2
    <3> QED  BY <2>1, <3>1, <1>5 DEF Pending
  <2> QED  BY <2>2, <2>3
<1> HIDE DEF k
<1>7. b \in Needed
  BY <1>1 DEF Needed
<1>8. ASSUME NEW d \in Usable' PROVE d \in Usable
  <2>1. d \in DOMAIN heap.cbs
    BY <1>3, <1>8 DEF Usable
  <2>2. ASSUME NEW u \in Pending', units'[u].kind = "execute", units'[u].of = d PROVE d \in Usable
    <3>1. u \in Pending /\ units'[u] = units[u]
      BY <1>6, <2>2
    <3> QED  BY <2>1, <2>2, <3>1 DEF Usable
  <2>3. heap'.cbs[d].client \/ \E u \in Pending' : units'[u].kind = "execute" /\ units'[u].of = d
    BY <1>8 DEF Usable
  <2> QED  BY <1>3, <2>1, <2>2, <2>3 DEF Usable
<1>9. InHands' \subseteq InHands \cup {}
  <2>1. \A a \in DOMAIN heap'.bufs : /\ a \in DOMAIN heap.bufs /\ heap'.bufs[a].bo = heap.bufs[a].bo
                                     /\ heap'.bufs[a].client => heap.bufs[a].client
    BY <1>3, <1>4
  <2>2. ASSUME NEW u \in Pending'
        PROVE  /\ units'[u].kind # "execute" => units'[u].of \in Needed
               /\ units'[u].regcmd # <<>> => u \in Pending /\ units'[u].regcmd = units[u].regcmd
    BY <1>6, <1>7, CallsKept DEF IInv
  <2>3. ASSUME NEW d \in Usable' PROVE d \in Usable /\ heap'.cbs[d].ops = heap.cbs[d].ops
    BY <1>3, <1>8
  <2> QED  BY <2>1, <2>2, <2>3, HandsMove
<1>10. ASSUME ~late PROVE Sound(heap', InHands', Homes)
  <2>1. Sound(heap, InHands, Homes) /\ InHands' \in SUBSET InHands
    BY <1>1, <1>9, <1>10, OwnNow
  <2> QED  BY <1>3, <2>1, SoundKept
<1>11. ASSUME ~late, NEW d \in Usable' PROVE ContextsOf(heap'.cbs[d]) \subseteq Range(device.contexts)
  BY <1>1, <1>3, <1>8, <1>11, OwnNow
<1> QED  BY <1>1, <1>3, <1>10, <1>11, SameHomes

LEMMA queue_executeOwning ==
  ASSUME IInv, NEW c \in DOMAIN heap.cbs, queue_execute(c)
  PROVE  Owning'
<1>1. /\ Up /\ UNCHANGED <<device, late>> /\ heap.cbs[c].client
      /\ heap' = [heap EXCEPT !.cbs[c].refs = @ + 1]
      /\ \E stage : units' = Append(units, Unit("execute", c, stage))
  BY DEF queue_execute, Live, Up
<1>2. heap \in Heap /\ heap.cbs \in Seq(Cb) /\ units \in Seq(Call)
  BY DEF IInv, Core, Types, HeapOK, Heap
<1>3. /\ heap'.open = heap.open /\ heap'.gem = heap.gem /\ heap'.pool = heap.pool
      /\ heap'.ctxs = heap.ctxs /\ heap'.bufs = heap.bufs /\ DOMAIN heap'.cbs = DOMAIN heap.cbs
      /\ heap'.cbs = [heap.cbs EXCEPT ![c].refs = @ + 1]
  BY <1>1, <1>2 DEF Heap
<1>4. ASSUME NEW d \in DOMAIN heap.cbs
      PROVE  /\ heap'.cbs[d].client = heap.cbs[d].client /\ heap'.cbs[d].ops = heap.cbs[d].ops
             /\ ContextsOf(heap'.cbs[d]) = ContextsOf(heap.cbs[d])
  <2>1. heap.cbs[d] \in Cb
    BY <1>2
  <2>2. /\ heap'.cbs[d].client = heap.cbs[d].client /\ heap'.cbs[d].ops = heap.cbs[d].ops
        /\ heap'.cbs[d].context = heap.cbs[d].context /\ heap'.cbs[d].siblings = heap.cbs[d].siblings
    BY <1>3, <2>1 DEF Cb
  <2> QED  BY <2>2 DEF ContextsOf
<1> DEFINE k == Len(units) + 1
<1>5. /\ units'[k].of = c /\ units'[k].kind = "execute" /\ units'[k].regcmd = <<>>
      /\ DOMAIN units' = 1..k /\ Len(units') = k
      /\ \A u \in 1..Len(units) : units'[u] = units[u]
  <2>1. PICK stage : units' = Append(units, Unit("execute", c, stage))
    BY <1>1
  <2> QED  BY <2>1, <1>2 DEF Unit
<1>6. ASSUME NEW u \in Pending'
      PROVE  \/ u = k /\ units'[u].kind = "execute" /\ units'[u].of = c /\ units'[u].regcmd = <<>>
             \/ u \in Pending /\ units'[u] = units[u]
  <2>1. u \in 1..k /\ units'[u].stage \in {"queued", "running"}
    BY <1>5, <1>6 DEF Pending
  <2>2. CASE u = k
    BY <2>2, <1>5
  <2>3. CASE u # k
    <3>1. u \in 1..Len(units)
      BY <2>1, <2>3, <1>2
    <3> QED  BY <2>1, <3>1, <1>5 DEF Pending
  <2> QED  BY <2>2, <2>3
<1> HIDE DEF k
<1>7. c \in Usable
  BY <1>1 DEF Usable
<1>8. ASSUME NEW d \in Usable' PROVE d \in Usable /\ d \in DOMAIN heap.cbs
  <2>1. d \in DOMAIN heap.cbs
    BY <1>3, <1>8 DEF Usable
  <2>2. ASSUME NEW u \in Pending', units'[u].kind = "execute", units'[u].of = d PROVE d \in Usable
    BY <2>1, <2>2, <1>6, <1>7 DEF Usable
  <2>3. heap'.cbs[d].client \/ \E u \in Pending' : units'[u].kind = "execute" /\ units'[u].of = d
    BY <1>8 DEF Usable
  <2>4. heap'.cbs[d].client => d \in Usable
    BY <1>4, <2>1 DEF Usable
  <2> QED  BY <2>1, <2>2, <2>3, <2>4
<1>9. InHands' \subseteq InHands \cup {}
  <2>1. \A a \in DOMAIN heap'.bufs : /\ a \in DOMAIN heap.bufs /\ heap'.bufs[a].bo = heap.bufs[a].bo
                                     /\ heap'.bufs[a].client => heap.bufs[a].client
    BY <1>3
  <2>2. ASSUME NEW u \in Pending'
        PROVE  /\ units'[u].kind # "execute" => units'[u].of \in Needed
               /\ units'[u].regcmd # <<>> => u \in Pending /\ units'[u].regcmd = units[u].regcmd
    BY <1>6, CallsKept DEF IInv
  <2>3. ASSUME NEW d \in Usable' PROVE d \in Usable /\ heap'.cbs[d].ops = heap.cbs[d].ops
    BY <1>4, <1>8
  <2> QED  BY <2>1, <2>2, <2>3, HandsMove
<1>10. ASSUME ~late PROVE Sound(heap', InHands', Homes)
  <2>1. Sound(heap, InHands, Homes) /\ InHands' \in SUBSET InHands
    BY <1>1, <1>9, <1>10, OwnNow
  <2> QED  BY <1>3, <2>1, SoundKept
<1>11. ASSUME ~late, NEW d \in Usable' PROVE ContextsOf(heap'.cbs[d]) \subseteq Range(device.contexts)
  BY <1>1, <1>4, <1>8, <1>11, OwnNow
<1> QED  BY <1>1, <1>3, <1>10, <1>11, SameHomes

(* A step that takes nothing up, of the calls or of the objects.           *)
LEMMA ShrinkOwning ==
  ASSUME IInv, UNCHANGED <<device, late>>, InUse, DOMAIN heap'.ctxs = DOMAIN heap.ctxs,
         \A x \in DOMAIN heap.ctxs : heap'.ctxs[x].fd = heap.ctxs[x].fd,
         DOMAIN heap'.cbs = DOMAIN heap.cbs, Usable' \subseteq Usable,
         \A c \in DOMAIN heap.cbs : ContextsOf(heap'.cbs[c]) = ContextsOf(heap.cbs[c]),
         ~late => Sound(heap', InHands', Homes)
  PROVE  Owning'
<1>1. ~late => Up
  BY UsedIsUp
<1>2. ASSUME ~late, NEW c \in Usable' PROVE ContextsOf(heap'.cbs[c]) \subseteq Range(device.contexts)
  <2>1. c \in Usable /\ c \in DOMAIN heap.cbs
    BY <1>2 DEF Usable
  <2> QED  BY <1>1, <1>2, <2>1, OwnNow
<1> QED  BY <1>1, <1>2, SameHomes

LEMMA WaitFailsOwning ==
  ASSUME IInv, NEW u \in 1..Len(units), WaitFails(u)
  PROVE  Owning'
<1>1. /\ units[u].stage = "queued" /\ UNCHANGED <<heap, device, late>>
      /\ units' = [units EXCEPT ![u].stage = "wait_failed"]
  BY DEF WaitFails
<1>2. units \in Seq(Call)
  BY DEF IInv, Core, Types
<1>3. InUse
  BY <1>1 DEF InUse, Pending
<1>4. ASSUME NEW v \in Pending' PROVE v \in Pending /\ units'[v] = units[v]
  <2>1. units[u] \in Call /\ Len(units') = Len(units)
    BY <1>1, <1>2
  <2>2. units'[u].stage = "wait_failed"
    BY <1>1, <1>2, <2>1 DEF Call
  <2>3. v \in 1..Len(units) /\ units'[v].stage \in {"queued", "running"}
    BY <1>4, <2>1 DEF Pending
  <2>4. v # u
    BY <2>2, <2>3
  <2>5. units'[v] = units[v]
    BY <1>1, <1>2, <2>3, <2>4
  <2> QED  BY <2>3, <2>5 DEF Pending
<1>5. InHands' \subseteq InHands /\ Usable' \subseteq Usable
  BY <1>1, <1>4, HandsShrink
<1>6. ASSUME ~late PROVE Sound(heap', InHands', Homes)
  <2>1. Sound(heap, InHands, Homes) /\ InHands' \in SUBSET InHands
    BY <1>3, <1>5, <1>6, UsedIsUp, OwnNow
  <2> QED  BY <1>1, <2>1, SoundKept
<1> QED  BY <1>1, <1>3, <1>5, <1>6, ShrinkOwning

LEMMA StartDestroyOwning ==
  ASSUME IInv, StartDestroy
  PROVE  Owning'
<1>1. /\ UNCHANGED <<heap, units, late>> /\ Up /\ device' = [device EXCEPT !.state = "closing"]
  BY DEF StartDestroy, Live, Up
<1>2. /\ device'.state = "closing" /\ device'.created = device.created
      /\ device'.allocator = device.allocator /\ device'.contexts = device.contexts
  BY <1>1 DEF IInv, Core, Types, Device
<1>3. Up' <=> Up
  BY <1>1, <1>2 DEF Up
<1>4. Pending' = Pending /\ Usable' = Usable
  BY <1>1 DEF Pending, Usable
<1>5. InHands' = InHands
  BY <1>1, <1>4 DEF InHands, Needed, Recorded
<1>6. Links /\ Range(device.contexts) \subseteq DOMAIN heap.ctxs
  BY ContextsAreThere DEF IInv, Core
<1>7. ASSUME ~late
      PROVE  /\ \A c \in Usable' : ContextsOf(heap'.cbs[c]) \subseteq Range(device.contexts)
             /\ Sound(heap', InHands', Homes)
  BY <1>1, <1>4, <1>5, <1>7, OwnNow
<1> QED  BY <1>1, <1>2, <1>3, <1>6, <1>7, HomesKept

LEMMA BeginExecuteOwning ==
  ASSUME IInv, NEW u \in 1..Len(units), BeginExecute(u)
  PROVE  Owning'
<1> DEFINE c == units[u].of
           fd == heap.ctxs[heap.cbs[c].context].fd
           made == NewScratch(heap, fd, RegcmdBytes)
           new == <<"regcmd", u, made[2]>>
<1>1. /\ units[u].stage = "queued" /\ units[u].kind = "execute" /\ UNCHANGED <<device, late>>
      /\ IF heap.cbs[c].ops = <<>>
         THEN units' = [units EXCEPT ![u].stage = "running"] /\ UNCHANGED heap
         ELSE /\ heap' = made[1]
              /\ units' = [units EXCEPT ![u].stage = "running", ![u].regcmd = <<made[2]>>]
  BY DEF BeginExecute
<1>2. HeapOK(heap) /\ units \in Seq(Call) /\ units[u] \in Call /\ u \in DOMAIN units
  BY DEF IInv, Core, Types
<1>3. c \in DOMAIN heap.cbs /\ u \in Pending /\ c \in Usable /\ InUse
  <2>1. c \in DOMAIN heap.cbs
    BY <1>1, <1>2 DEF IInv, Core, Links
  <2>2. u \in Pending
    BY <1>1 DEF Pending
  <2> QED  BY <1>1, <2>1, <2>2 DEF Usable, InUse
<1>4. heap.cbs[c].refs > 0 /\ heap.cbs[c].context \in ContextsOf(heap.cbs[c])
  BY <1>1, <1>2, <1>3, CbRefs DEF ContextsOf, IInv, Core
<1>5. fd \in Fds /\ heap.open[fd] # 0 /\ RegcmdBytes \in Nat
  BY <1>3, <1>4, CtxOpen, LifetimesAssumption DEF IInv
<1>6. Scratched(heap, made[1], made[2], fd)
  BY <1>2, <1>5, NewScratchOK
<1> HIDE DEF c, fd, made
<1>7. Objects(heap, heap')
  BY <1>1, <1>6 DEF Objects, Scratched
<1>8. /\ Len(units') = Len(units) /\ \A v \in 1..Len(units) : v # u => units'[v] = units[v]
      /\ units'[u].stage = "running" /\ units'[u].kind = units[u].kind /\ units'[u].of = units[u].of
      /\ units'[u].regcmd = IF heap.cbs[c].ops = <<>> THEN units[u].regcmd ELSE <<made[2]>>
  <2>1. \E call : /\ units' = [units EXCEPT ![u] = call]
                  /\ call.stage = "running" /\ call.kind = units[u].kind /\ call.of = units[u].of
                  /\ call.regcmd = IF heap.cbs[c].ops = <<>> THEN units[u].regcmd ELSE <<made[2]>>
    <3>1. CASE heap.cbs[c].ops = <<>>
      <4> DEFINE call == [units[u] EXCEPT !.stage = "running"]
      <4>1. units' = [units EXCEPT ![u] = call]
        BY <3>1, <1>1
      <4>2. call.stage = "running" /\ call.kind = units[u].kind /\ call.of = units[u].of
            /\ call.regcmd = units[u].regcmd
        BY <1>2 DEF Call
      <4> HIDE DEF call
      <4> QED  BY <3>1, <4>1, <4>2
    <3>2. CASE heap.cbs[c].ops # <<>>
      <4> DEFINE call == [units[u] EXCEPT !.stage = "running", !.regcmd = <<made[2]>>]
      <4>1. units' = [units EXCEPT ![u] = call]
        BY <3>2, <1>1
      <4>2. call.stage = "running" /\ call.kind = units[u].kind /\ call.of = units[u].of
            /\ call.regcmd = <<made[2]>>
        BY <1>2 DEF Call
      <4> HIDE DEF call
      <4> QED  BY <3>2, <4>1, <4>2
    <3> QED  BY <3>1, <3>2
  <2> QED  BY <2>1, <1>2
<1>9. Pending' = Pending
  BY <1>1, <1>8 DEF Pending
<1>10. ASSUME NEW v \in Pending' PROVE units'[v].kind = units[v].kind /\ units'[v].of = units[v].of
  BY <1>8, <1>10, <1>9 DEF Pending
<1>11. Usable' = Usable
  BY <1>7, <1>9, <1>10 DEF Usable, Objects
<1>12. ASSUME NEW v \in Pending'
       PROVE  /\ units'[v].kind # "execute" => units'[v].of \in Needed
              /\ \/ v # u /\ units'[v] = units[v]
                 \/ v = u /\ units'[v].regcmd = IF heap.cbs[c].ops = <<>> THEN units[v].regcmd ELSE <<made[2]>>
  <2>1. v \in Pending /\ v \in 1..Len(units)
    BY <1>9, <1>12 DEF Pending
  <2> QED  BY <1>1, <1>8, <2>1, CallsKept DEF IInv
<1>13. ASSUME ~late PROVE Sound(heap', InHands', Homes)
  <2>1. /\ Up /\ Sound(heap, InHands, Homes) /\ Handed(InHands)
        /\ ContextsOf(heap.cbs[c]) \subseteq Range(device.contexts)
    BY <1>3, <1>13, UsedIsUp, OwnNow
  <2>2. AtHome(fd)
    BY <1>4, <2>1, HomesAreOpen DEF IInv, fd
  <2>3. \A b \in DOMAIN heap'.bufs :
          /\ b \in DOMAIN heap.bufs /\ heap'.bufs[b].bo = heap.bufs[b].bo
          /\ heap'.bufs[b].client => heap.bufs[b].client
    BY <1>7 DEF Objects
  <2>4. \A d \in Usable' : d \in Usable /\ heap'.cbs[d].ops = heap.cbs[d].ops
    BY <1>7, <1>11 DEF Objects
  <2>5. CASE heap.cbs[c].ops = <<>>
    <3>1. \A v \in Pending' : /\ units'[v].kind # "execute" => units'[v].of \in Needed
                              /\ v \in Pending /\ units'[v].regcmd = units[v].regcmd
      BY <1>9, <1>12, <2>5
    <3>2. InHands' \subseteq InHands \cup {}
      BY <2>3, <2>4, <3>1, HandsMove
    <3>3. heap' = heap /\ InHands' \in SUBSET InHands
      BY <1>1, <2>5, <3>2
    <3> QED  BY <2>1, <3>3, SoundKept
  <2>6. CASE heap.cbs[c].ops # <<>>
    <3>1. ASSUME NEW v \in Pending'
          PROVE  /\ units'[v].kind # "execute" => units'[v].of \in Needed
                 /\ \/ <<"regcmd", v, units'[v].regcmd[1]>> \in {new}
                    \/ v \in Pending /\ units'[v].regcmd = units[v].regcmd
      BY <1>9, <1>12, <2>6
    <3>2. InHands' \subseteq InHands \cup {new}
      <4> HIDE DEF new
      <4> QED  BY <2>3, <2>4, <3>1, HandsMove
    <3>3. Sound(made[1], InHands \cup {new}, Homes)
      <4>1. fd \in Fds /\ heap.open[fd] # 0 /\ <<fd, heap.open[fd]>> \in Homes
        BY <2>2 DEF AtHome
      <4> QED  BY <1>2, <1>6, <2>1, <4>1, SoundScratched
    <3>4. heap' = made[1]
      BY <1>1, <2>6
    <3> HIDE DEF new
    <3> QED  BY <3>2, <3>3, <3>4, SoundKept
  <2> QED  BY <2>5, <2>6
<1> QED  BY <1>1, <1>3, <1>7, <1>11, <1>13, ShrinkOwning DEF Objects

(* Whose hands are empty.                                                  *)
LEMMA HandsEmptyNext ==
  /\ \A u, bo : u \notin Pending' => <<"regcmd", u, bo>> \notin InHands'
  /\ \A c, bo : c \notin Usable' => <<"scratch", c, bo>> \notin InHands'
  /\ \A b, bo : b \notin Needed' => <<"buffer", b, bo>> \notin InHands'
BY DEF InHands

(* The register program of a call that ends goes, and it was in its hands. *)
LEMMA RegcmdDropped ==
  ASSUME IInv, ~late, Up, NEW u \in DOMAIN units, units[u].stage = "running",
         NEW fewer \in SUBSET InHands, \A bo : <<"regcmd", u, bo>> \notin fewer
  PROVE  Sound(Regcmd(heap, u), fewer, Homes)
<1>1. Sound(heap, InHands, Homes) /\ Handed(InHands) /\ HeapOK(heap)
  BY OwnNow
<1>2. CASE units[u].regcmd = <<>>
  <2>1. Regcmd(heap, u) = heap
    BY <1>2 DEF Regcmd
  <2> QED  BY <1>1, <2>1, SoundKept
<1>3. CASE units[u].regcmd # <<>>
  <2> DEFINE gone == <<"regcmd", u, units[u].regcmd[1]>>
  <2>1. Dropped(heap, Regcmd(heap, u), gone[3])
    BY <1>3, RegcmdOK DEF IInv
  <2>2. u \in Pending
    BY DEF Pending, IInv, Core, Types
  <2>3. gone \in InHands /\ gone \notin fewer
    BY <1>3, <2>2 DEF InHands
  <2> HIDE DEF gone
  <2>4. fewer \in SUBSET (InHands \ {gone})
    BY <2>3
  <2> QED  BY <1>1, <2>1, <2>3, <2>4, SoundDropped
<1> QED  BY <1>2, <1>3

LEMMA PanicOwning ==
  ASSUME IInv, NEW u \in 1..Len(units), Panic(u)
  PROVE  Owning'
<1>1. /\ units[u].stage = "running" /\ heap' = Regcmd(heap, u) /\ UNCHANGED <<device, late>>
  BY DEF Panic
<1>2. units \in Seq(Call) /\ u \in DOMAIN units /\ u \in Pending
  BY <1>1 DEF IInv, Core, Types, Pending
<1>3. /\ Len(units') = Len(units) /\ DOMAIN units' = 1..Len(units)
      /\ units'[u].stage = "panicked"
      /\ \A v \in 1..Len(units) : v # u => units'[v] = units[v] \/ units'[v].stage = "rejected"
  <2>1. \A v \in 1..Len(units) : units[v] \in Call
    BY <1>2
  <2>2. [units[u] EXCEPT !.stage = "panicked", !.regcmd = <<>>].stage = "panicked"
    BY <2>1 DEF Call
  <2>3. \A v \in 1..Len(units) : [units[v] EXCEPT !.stage = "rejected"].stage = "rejected"
    BY <2>1 DEF Call
  <2>4. /\ DOMAIN units' = 1..Len(units)
        /\ units'[u] = [units[u] EXCEPT !.stage = "panicked", !.regcmd = <<>>]
        /\ \A v \in 1..Len(units) :
             v # u => units'[v] = units[v] \/ units'[v] = [units[v] EXCEPT !.stage = "rejected"]
    BY DEF Panic
  <2>5. Len(units') = Len(units)
    <3>1. units' \in Seq(Call)
      BY PanicCore DEF IInv, Core, Types
    <3>2. DOMAIN units' = 1..Len(units') /\ Len(units') \in Nat /\ Len(units) \in Nat
      BY <3>1, <1>2
    <3> QED  BY <2>4, <3>2
  <2> QED  BY <2>2, <2>3, <2>4, <2>5
<1>4. ASSUME NEW v \in Pending' PROVE v \in Pending /\ units'[v] = units[v] /\ v # u
  <2>1. v \in 1..Len(units) /\ units'[v].stage \in {"queued", "running"}
    BY <1>3, <1>4 DEF Pending
  <2>2. v # u /\ units'[v] = units[v]
    BY <1>3, <2>1
  <2> QED  BY <2>1, <2>2 DEF Pending
<1>5. Objects(heap, heap')
  BY <1>1, <1>2, RegcmdOK DEF IInv
<1>6. InHands' \subseteq InHands /\ Usable' \subseteq Usable
  BY <1>4, <1>5, HandsShrink DEF Objects
<1>7. InUse
  BY <1>2 DEF InUse
<1>8. ASSUME ~late PROVE Sound(heap', InHands', Homes)
  <2>1. Up /\ InHands' \in SUBSET InHands
    BY <1>6, <1>7, <1>8, UsedIsUp
  <2>2. \A bo : <<"regcmd", u, bo>> \notin InHands'
    BY <1>4, HandsEmptyNext
  <2> QED  BY <1>1, <1>2, <1>8, <2>1, <2>2, RegcmdDropped
<1> QED  BY <1>1, <1>5, <1>6, <1>7, <1>8, ShrinkOwning DEF Objects

(* What is in use has a reference, now and next.                           *)
HeldByUse ==
  (\A b \in Needed : heap.bufs[b].refs > 0) /\ (\A c \in Usable : heap.cbs[c].refs > 0)
LEMMA HeldNow == Core => HeldByUse
<1> SUFFICES ASSUME Core PROVE HeldByUse
  OBVIOUS
<1>1. ASSUME NEW u \in Pending PROVE u \in DOMAIN units /\ units[u].stage \notin {"done", "refused"}
  BY <1>1 DEF Pending, Core, Types
<1>2. ASSUME NEW b \in Needed PROVE heap.bufs[b].refs > 0
  <2>1. \/ heap.bufs[b].client
        \/ \E u \in Pending : units[u].kind # "execute" /\ units[u].of = b
        \/ \E c \in DOMAIN heap.cbs : Binds(heap.cbs[c], b)
    BY <1>2 DEF Needed, Usable, Recorded, Binds
  <2>2. b \in DOMAIN heap.bufs
    BY <1>2 DEF Needed
  <2> QED  BY <1>1, <2>1, <2>2, BufRefs DEF Core
<1>3. ASSUME NEW c \in Usable PROVE heap.cbs[c].refs > 0
  <2>1. c \in DOMAIN heap.cbs
        /\ (heap.cbs[c].client \/ \E u \in Pending : units[u].kind = "execute" /\ units[u].of = c)
    BY <1>3 DEF Usable
  <2> QED  BY <1>1, <2>1, CbRefs DEF Core
<1> QED  BY <1>2, <1>3 DEF HeldByUse
LEMMA HeldNext == Core' => HeldByUse'
BY HeldNow, PTL

(* A buffer in use loses the reference of whoever used it.                 *)
LEMMA ShedOwning ==
  ASSUME IInv, Core', NEW b \in DOMAIN heap.bufs, NEW client, Shed(b, client),
         client => heap.bufs[b].client, b \in Needed, InUse, UNCHANGED <<device, late>>,
         \A u \in Pending' : u \in Pending /\ units'[u] = units[u]
  PROVE  Owning'
<1> DEFINE gone == <<"buffer", b, heap.bufs[b].bo>>
<1>1. /\ heap'.open = heap.open /\ heap'.pool = heap.pool /\ heap'.ctxs = heap.ctxs
      /\ heap'.cbs = heap.cbs /\ DOMAIN heap'.bufs = DOMAIN heap.bufs
  BY DEF Shed
<1>2. ASSUME NEW a \in DOMAIN heap'.bufs
      PROVE  heap'.bufs[a].bo = heap.bufs[a].bo /\ (heap'.bufs[a].client => heap.bufs[a].client)
  <2>1. CASE a = b
    BY <2>1 DEF Shed
  <2>2. CASE a # b
    BY <2>2, <1>2 DEF Shed
  <2> QED  BY <2>1, <2>2
<1>3. InHands' \subseteq InHands /\ Usable' \subseteq Usable
  BY <1>1, <1>2, HandsShrink
<1>4. ASSUME ~late PROVE Sound(heap', InHands', Homes)
  <2>1. /\ Sound(heap, InHands, Homes) /\ Handed(InHands) /\ HeapOK(heap)
        /\ InHands' \in SUBSET InHands
    BY <1>3, <1>4, UsedIsUp, OwnNow
  <2>2. CASE heap.bufs[b].refs # 1
    <3>1. heap'.gem = heap.gem
      BY <2>2 DEF Shed
    <3> QED  BY <1>1, <2>1, <3>1, SoundKept
  <2>3. CASE heap.bufs[b].refs = 1
    <3>1. b \notin Needed'
      <4>1. heap'.bufs[b].refs = 0
        <5>1. heap'.bufs[b].refs = heap.bufs[b].refs - 1
          BY DEF Shed
        <5> QED  BY <2>3, <5>1
      <4>2. HeldByUse'
        BY HeldNext
      <4> QED  BY <4>1, <4>2 DEF HeldByUse
    <3>2. gone \in InHands /\ gone \notin InHands'
      BY <3>1, HandsEmptyNext DEF InHands
    <3>3. gone[3] \in Bo /\ heap.open[gone[3].fd] = gone[3].file /\ gone[3] = heap.bufs[b].bo
      BY <2>1, <3>2 DEF Sound
    <3>4. heap.open[heap.bufs[b].bo.fd] # 0
      <4>1. gone[3].file \in Files
        BY <3>3 DEF Bo
      <4> QED  BY <3>3, <4>1 DEF Files
    <3>5. heap'.gem = [heap.gem EXCEPT ![heap.open[gone[3].fd]] = @ \ {gone[3].handle}]
      BY <2>3, <3>3, <3>4 DEF Shed
    <3> HIDE DEF gone
    <3>6. InHands' \in SUBSET (InHands \ {gone})
      BY <2>1, <3>2
    <3> QED  BY <1>1, <2>1, <3>2, <3>5, <3>6, SoundClosed
  <2> QED  BY <2>2, <2>3
<1> QED  BY <1>1, <1>3, <1>4, ShrinkOwning

LEMMA ClientReleaseBufferOwning ==
  ASSUME IInv, NEW b \in DOMAIN heap.bufs, ClientReleaseBuffer(b)
  PROVE  Owning'
<1>1. Shed(b, FALSE) /\ Core' /\ Core
  BY ClientReleaseBufferCore DEF IInv
<1>2. heap.bufs[b].client /\ UNCHANGED <<units, device, late>>
  BY DEF ClientReleaseBuffer
<1>3. b \in Needed /\ InUse
  BY <1>2 DEF Needed, InUse
<1>4. \A u \in Pending' : u \in Pending /\ units'[u] = units[u]
  BY <1>2 DEF Pending
<1> QED  BY <1>1, <1>2, <1>3, <1>4, ShedOwning

LEMMA RunTransferOwning ==
  ASSUME IInv, NEW u \in 1..Len(units), RunTransfer(u)
  PROVE  Owning'
<1> DEFINE b == units[u].of
<1>1. b \in DOMAIN heap.bufs /\ Shed(b, heap.bufs[b].client) /\ Core' /\ Core
  BY RunTransferCore DEF IInv
<1>2. units[u].stage = "queued" /\ units[u].kind # "execute" /\ UNCHANGED <<device, late>>
  BY DEF RunTransfer
<1>3. PICK stage \in {"refused", "done"} : units' = [units EXCEPT ![u].stage = stage]
  BY DEF RunTransfer
<1>4. u \in Pending
  BY <1>2 DEF Pending
<1>5. b \in Needed /\ InUse
  BY <1>1, <1>2, <1>4 DEF Needed, InUse
<1>6. ASSUME NEW v \in Pending' PROVE v \in Pending /\ units'[v] = units[v]
  <2>1. units \in Seq(Call) /\ units[u] \in Call /\ Len(units') = Len(units)
    BY <1>1, <1>3 DEF Core, Types
  <2>2. units'[u].stage = stage
    BY <1>3, <2>1 DEF Call
  <2>3. v \in 1..Len(units) /\ units'[v].stage \in {"queued", "running"}
    BY <1>6, <2>1 DEF Pending
  <2>4. v # u
    BY <1>3, <2>2, <2>3
  <2>5. units'[v] = units[v]
    BY <1>3, <2>1, <2>3, <2>4
  <2> QED  BY <2>3, <2>5 DEF Pending
<1> HIDE DEF b
<1> QED  BY <1>1, <1>2, <1>5, <1>6, ShedOwning

(* A command buffer in use loses the reference of whoever used it.  With   *)
(* the last one go its binding's reference and its scratch; its contexts   *)
(* are the device's too, so no descriptor closes.                          *)
LEMMA GoneSound ==
  ASSUME IInv, Core', ~late, Up, NEW c \in DOMAIN heap.cbs, heap.cbs[c].refs = 1, c \in Usable,
         NEW client, NEW w, Ready(w, c, client), LetGo(c, client), Gone(w, heap', c),
         NEW hands \in SUBSET InHands, Sound(w, hands, Homes), InHands' \in SUBSET hands,
         \A x \in InHands : x[1] # "regcmd" => x \in hands
  PROVE  Sound(heap', InHands', Homes)
<1> DEFINE cb == heap.cbs[c]
<1>1. /\ HeapOK(w) /\ w.open = heap.open /\ w.ctxs = heap.ctxs /\ w.bufs = heap.bufs
      /\ w.cbs[c].ops = cb.ops
  BY DEF Ready
<1>2. ContextsOf(w.cbs[c]) = ContextsOf(cb)
  BY ReadyReleases DEF IInv
<1>3. LastFds(w.ctxs, ContextsOf(w.cbs[c])) = {}
  <2>1. ContextsOf(cb) \subseteq Range(device.contexts)
    BY OwnNow
  <2>2. \A x \in ContextsOf(cb) : heap.ctxs[x].refs > 1
    BY <2>1, CtxRefs DEF IInv, Core
  <2>3. \A x \in ContextsOf(cb) : heap.ctxs[x].refs # 1
    BY <2>2
  <2> QED  BY <1>1, <1>2, <2>3 DEF LastFds
<1>4. PICK d : /\ HeapOK(d) /\ Emptied(w, d, w.cbs[c]) /\ heap'.pool = d.pool
               /\ ShutFds(d, heap', {})
  BY <1>3 DEF Gone
<1>5. heap'.open = d.open /\ heap'.gem = d.gem /\ heap'.pool.free = d.pool.free
  BY <1>4 DEF ShutFds
<1>6. Handed(hands) /\ HeldByUse' /\ InHands' \subseteq hands
  BY HandsAreTagged, HeldNext DEF Handed
<1>7. c \notin Usable'
  <2>1. heap'.cbs[c].refs = heap.cbs[c].refs - 1
    BY DEF LetGo
  <2>2. heap'.cbs[c].refs = 0
    BY <2>1
  <2> QED  BY <1>6, <2>2 DEF HeldByUse
<1>8. CASE cb.ops = <<>>
  <2>1. d.open = w.open /\ d.gem = w.gem /\ d.pool = w.pool
    BY <1>1, <1>4, <1>8 DEF Emptied
  <2> QED  BY <1>5, <2>1, SoundKept
<1>9. CASE cb.ops # <<>>
  <2> DEFINE b == cb.ops[1].binding
             bound == <<"buffer", b, heap.bufs[b].bo>>
             scratch == <<"scratch", c, cb.ops[1].scratch>>
             left == InHands' \cup {scratch}
  <2>1. PICK m : HeapOK(m) /\ Unref(w, m, b) /\ Dropped(m, d, cb.ops[1].scratch)
    BY <1>1, <1>4, <1>9 DEF Emptied
  <2>2. 1 \in DOMAIN cb.ops /\ b \in DOMAIN heap.bufs
    <3>1. heap.cbs \in Seq(Cb)
      BY DEF IInv, Core, Types, HeapOK, Heap
    <3>2. cb \in Cb
      BY <3>1
    <3>3. cb.ops \in Seq(Op)
      BY <3>2 DEF Cb
    <3>4. 1 \in DOMAIN cb.ops
      BY <1>9, <3>3
    <3> QED  BY <3>4 DEF IInv, Core, Links
  <2>3. b \in Needed
    <3>1. c \in Recorded(b)
      BY <2>2 DEF Recorded
    <3> QED  BY <2>2, <3>1 DEF Needed
  <2>4. bound \in hands /\ scratch \in hands
    <3>1. bound \in InHands /\ scratch \in InHands
      BY <1>9, <2>3 DEF InHands
    <3> QED  BY <3>1
  <2>5. scratch \notin InHands' /\ scratch # bound
    BY <1>7, HandsEmptyNext
  <2>6. ASSUME heap.bufs[b].refs = 1 PROVE bound \notin left
    <3>1. Binds(cb, b)
      BY <2>2 DEF Binds
    <3>2. heap'.bufs[b].refs = heap.bufs[b].refs - One(Binds(cb, b) /\ cb.refs = 1)
      BY <2>2 DEF LetGo
    <3>3. One(Binds(cb, b) /\ cb.refs = 1) = 1
      BY <3>1 DEF One
    <3>4. heap'.bufs[b].refs = 0
      BY <2>6, <3>2, <3>3
    <3>5. b \notin Needed'
      BY <1>6, <3>4 DEF HeldByUse
    <3>6. bound \notin InHands'
      BY <3>5, HandsEmptyNext
    <3> QED  BY <2>5, <3>6
  <2>7. bound[3] = w.bufs[b].bo /\ scratch[3] = cb.ops[1].scratch
    BY <1>1
  <2>8. w.bufs[b].refs = heap.bufs[b].refs
    BY <1>1
  <2> HIDE DEF bound, scratch, b
  <2>9. left \in SUBSET hands
    BY <1>6, <2>4
  <2>10. Sound(m, left, Homes)
    <3> HIDE DEF left
    <3> QED  BY <1>1, <1>6, <2>1, <2>4, <2>6, <2>7, <2>8, <2>9, SoundUnref
  <2>11. Handed(left) /\ scratch \in left /\ InHands' \in SUBSET (left \ {scratch})
    BY <1>6, <2>5, <2>9 DEF Handed
  <2>12. Sound(d, InHands', Homes)
    <3> HIDE DEF left
    <3> QED  BY <2>1, <2>7, <2>10, <2>11, SoundDropped
  <2> QED  BY <1>5, <2>12, SoundKept
<1> QED  BY <1>8, <1>9

LEMMA LetGoOwning ==
  ASSUME IInv, Core', NEW c \in DOMAIN heap.cbs, heap.cbs[c].refs > 0, c \in Usable, InUse,
         NEW client, client => heap.cbs[c].client, NEW w, Ready(w, c, client), LetGo(c, client),
         heap' = ReleaseCommandBuffer(w, c), UNCHANGED <<device, late>>,
         \A u \in Pending' : u \in Pending /\ units'[u] = units[u],
         NEW hands \in SUBSET InHands, ~late => Sound(w, hands, Homes),
         InHands' \subseteq InHands => InHands' \subseteq hands,
         \A x \in InHands : x[1] # "regcmd" => x \in hands
  PROVE  Owning'
<1>1. /\ DOMAIN heap'.cbs = DOMAIN heap.cbs /\ DOMAIN heap'.bufs = DOMAIN heap.bufs
      /\ \A d \in DOMAIN heap.cbs :
           /\ heap'.cbs[d].client => heap.cbs[d].client
           /\ heap'.cbs[d].ops = <<>> \/ heap'.cbs[d].ops = heap.cbs[d].ops
           /\ ContextsOf(heap'.cbs[d]) = ContextsOf(heap.cbs[d])
      /\ \A a \in DOMAIN heap.bufs :
           heap'.bufs[a].client = heap.bufs[a].client /\ heap'.bufs[a].bo = heap.bufs[a].bo
  <2>1. ASSUME NEW d \in DOMAIN heap.cbs
        PROVE  /\ heap'.cbs[d].client => heap.cbs[d].client
               /\ heap'.cbs[d].ops = <<>> \/ heap'.cbs[d].ops = heap.cbs[d].ops
               /\ ContextsOf(heap'.cbs[d]) = ContextsOf(heap.cbs[d])
    <3>1. CASE d = c
      BY <3>1 DEF LetGo
    <3>2. CASE d # c
      BY <3>2 DEF LetGo
    <3> QED  BY <3>1, <3>2
  <2> QED  BY <2>1 DEF LetGo
<1>2. InHands' \subseteq InHands /\ Usable' \subseteq Usable
  BY <1>1, HandsShrink
<1>3. DOMAIN heap'.ctxs = DOMAIN heap.ctxs
      /\ \A x \in DOMAIN heap.ctxs : heap'.ctxs[x].fd = heap.ctxs[x].fd
  <2>1. CASE heap.cbs[c].refs = 1
    <3>1. heap'.ctxs = Fewer(heap.ctxs, ContextsOf(heap.cbs[c]))
      BY <2>1 DEF LetGo
    <3>2. ContextsOf(heap.cbs[c]) \in SUBSET DOMAIN heap.ctxs
      BY DEF IInv, Core, Links
    <3> QED  BY <3>1, <3>2, FewerOwned DEF IInv
  <2>2. CASE heap.cbs[c].refs # 1
    BY <2>2 DEF LetGo
  <2> QED  BY <2>1, <2>2
<1>4. ASSUME ~late PROVE Sound(heap', InHands', Homes)
  <2>1. Up /\ InHands' \in SUBSET hands /\ Sound(w, hands, Homes)
    BY <1>2, <1>4, UsedIsUp
  <2>2. CASE heap.cbs[c].refs = 1
    <3>1. Gone(w, heap', c)
      BY <2>2, ReadyReleases DEF IInv
    <3> QED  BY <1>4, <2>1, <2>2, <3>1, GoneSound
  <2>3. CASE heap.cbs[c].refs # 1
    <3>1. Kept(w, heap', c)
      BY <2>3, ReadyReleases DEF IInv
    <3>2. heap'.open = w.open /\ heap'.gem = w.gem /\ heap'.pool.free = w.pool.free
      BY <3>1 DEF Kept
    <3> QED  BY <2>1, <3>2, SoundKept
  <2> QED  BY <2>2, <2>3
<1> QED  BY <1>1, <1>2, <1>3, <1>4, ShrinkOwning

LEMMA ClientReleaseCommandBufferOwning ==
  ASSUME IInv, NEW c \in DOMAIN heap.cbs, ClientReleaseCommandBuffer(c)
  PROVE  Owning'
<1> DEFINE w == [heap EXCEPT !.cbs[c].client = FALSE]
<1>1. LetGo(c, FALSE) /\ Core' /\ heap.cbs[c].refs > 0 /\ Ready(w, c, FALSE)
  BY ClientReleaseCommandBufferCore DEF IInv
<1>2. /\ heap.cbs[c].client /\ UNCHANGED <<units, device, late>>
      /\ heap' = ReleaseCommandBuffer(w, c)
  BY DEF ClientReleaseCommandBuffer
<1>3. c \in Usable /\ InUse
  BY <1>2 DEF Usable, InUse
<1>4. \A u \in Pending' : u \in Pending /\ units'[u] = units[u]
  BY <1>2 DEF Pending
<1>5. w.open = heap.open /\ w.gem = heap.gem /\ w.pool = heap.pool
  BY DEF IInv, Core, Types, HeapOK, Heap
<1> HIDE DEF w
<1>6. ~late => Sound(w, InHands, Homes)
  <2>1. SUFFICES ASSUME ~late PROVE Sound(w, InHands, Homes)
    OBVIOUS
  <2>2. Sound(heap, InHands, Homes)
    BY <1>3, <2>1, UsedIsUp, OwnNow
  <2> QED  BY <1>5, <2>2, SoundKept
<1> QED  BY <1>1, <1>2, <1>3, <1>4, <1>6, LetGoOwning

LEMMA EndExecuteOwning ==
  ASSUME IInv, NEW u \in 1..Len(units), EndExecute(u)
  PROVE  Owning'
<1> DEFINE c == units[u].of
           w == Regcmd(heap, u)
           hands == {x \in InHands : ~(x[1] = "regcmd" /\ x[2] = u)}
<1>1. /\ c \in DOMAIN heap.cbs /\ heap.cbs[c].refs > 0 /\ units[u].kind = "execute"
      /\ Ready(w, c, heap.cbs[c].client) /\ LetGo(c, heap.cbs[c].client) /\ Core'
  BY EndExecuteCore DEF IInv
<1>2. /\ units[u].stage = "running" /\ UNCHANGED <<device, late>> /\ heap' = ReleaseCommandBuffer(w, c)
      /\ units' = [units EXCEPT ![u].stage = "done", ![u].regcmd = <<>>]
  BY DEF EndExecute
<1>3. units \in Seq(Call) /\ u \in DOMAIN units /\ units[u] \in Call /\ u \in Pending
  BY <1>2 DEF IInv, Core, Types, Pending
<1>4. c \in Usable /\ InUse
  BY <1>1, <1>3 DEF Usable, InUse
<1>5. ASSUME NEW v \in Pending' PROVE v \in Pending /\ units'[v] = units[v] /\ v # u
  <2>1. \E call : units' = [units EXCEPT ![u] = call] /\ call.stage = "done"
    <3> DEFINE call == [units[u] EXCEPT !.stage = "done", !.regcmd = <<>>]
    <3>1. units' = [units EXCEPT ![u] = call]
      BY <1>2
    <3>2. call.stage = "done"
      BY <1>3 DEF Call
    <3> HIDE DEF call
    <3> QED  BY <3>1, <3>2
  <2>2. units'[u].stage = "done"
    BY <1>3, <2>1
  <2>3. Len(units') = Len(units)
    BY <1>3, <2>1
  <2>4. v \in 1..Len(units) /\ units'[v].stage \in {"queued", "running"}
    BY <1>5, <2>3 DEF Pending
  <2>5. v # u
    BY <2>2, <2>4
  <2>6. units'[v] = units[v]
    BY <1>3, <2>1, <2>4, <2>5
  <2> QED  BY <2>4, <2>5, <2>6 DEF Pending
<1>6. ~late => Sound(w, hands, Homes)
  <2>1. SUFFICES ASSUME ~late PROVE Sound(w, hands, Homes)
    OBVIOUS
  <2>2. Up
    BY <1>4, <2>1, UsedIsUp
  <2>3. hands \in SUBSET InHands /\ \A bo : <<"regcmd", u, bo>> \notin hands
    OBVIOUS
  <2> HIDE DEF hands
  <2> QED  BY <1>2, <1>3, <2>1, <2>2, <2>3, RegcmdDropped
<1>7. InHands' \subseteq InHands => InHands' \subseteq hands
  <2>1. ASSUME NEW x \in InHands', x[1] = "regcmd", x[2] = u PROVE FALSE
    <3>1. \A y \in InHands' : y[1] = "regcmd" => y[2] \in Pending'
      BY DEF InHands
    <3> QED  BY <1>5, <2>1, <3>1
  <2> QED  BY <2>1
<1>8. hands \in SUBSET InHands /\ \A x \in InHands : x[1] # "regcmd" => x \in hands
  OBVIOUS
<1> HIDE DEF hands, w, c
<1>9. heap.cbs[c].client => heap.cbs[c].client
  OBVIOUS
<1> QED  BY <1>1, <1>2, <1>4, <1>5, <1>6, <1>7, <1>8, <1>9, LetGoOwning

(* Nobody uses anything, and the free lists are empty.                     *)
LEMMA IdleOwning ==
  ASSUME ~InUse, heap'.bufs = heap.bufs, heap'.cbs = heap.cbs, UNCHANGED units, heap'.pool.free = <<>>
  PROVE  Owning'
<1>1. Pending' = Pending /\ (InUse' <=> InUse)
  BY DEF Pending, InUse
<1>2. Usable' = {} /\ InHands' = {}
  <2>1. Usable' = Usable
    BY <1>1 DEF Usable
  <2>2. Needed' = Needed
    BY <1>1, <2>1 DEF Needed, Recorded
  <2>3. InHands' = InHands
    BY <1>1, <2>1, <2>2 DEF InHands
  <2> QED  BY <2>1, <2>3, NobodyHolds
<1>3. InHands' \cup Idle(heap'.pool.free) = {}
  BY <1>2 DEF Idle
<1>4. Sound(heap', InHands', Homes')
  BY <1>3 DEF Sound, Sole
<1> QED  BY <1>1, <1>2, <1>4 DEF Owning

LEMMA CreateDeviceOwning ==
  ASSUME IInv, CreateDevice
  PROVE  Owning'
<1>1. NewDevice /\ UNCHANGED <<units, late>> /\ ~Up
  BY DeviceIsNew DEF IInv
<1>2. CASE late
  BY <1>1, <1>2 DEF Owning
<1>3. CASE ~late
  <2>1. ~InUse /\ heap.pool.free = <<>>
    BY <1>1, <1>3 DEF IInv, Owning
  <2> QED  BY <1>1, <2>1, IdleOwning DEF NewDevice
<1> QED  BY <1>2, <1>3

LEMMA FinishDestroyOwning ==
  ASSUME IInv, FinishDestroy
  PROVE  Owning'
<1>1. GoneDevice
  BY DestroyedOK DEF IInv
<1>2. UNCHANGED units /\ late' = (late \/ InUse)
  BY DEF FinishDestroy
<1>3. CASE late \/ InUse
  BY <1>2, <1>3 DEF Owning
<1>4. CASE ~InUse
  BY <1>1, <1>2, <1>4, IdleOwning DEF GoneDevice
<1> QED  BY <1>3, <1>4

-----------------------------------------------------------------------------
LEMMA InitOwning == Init => IInv
<1> SUFFICES ASSUME Init PROVE IInv
  OBVIOUS
<1>1. /\ heap.bufs = <<>> /\ heap.cbs = <<>> /\ heap.pool.free = <<>> /\ units = <<>>
  BY DEF Init, EmptyPool
<1>2. ~InUse
  BY <1>1 DEF InUse, Pending
<1>3. Usable = {} /\ InHands = {}
  BY <1>2, NobodyHolds
<1>4. InHands \cup Idle(heap.pool.free) = {}
  BY <1>1, <1>3 DEF Idle
<1>5. Sound(heap, InHands, Homes)
  BY <1>4 DEF Sound, Sole
<1> QED  BY <1>1, <1>2, <1>3, <1>5, InitCore DEF IInv, Owning

LEMMA NextOwning == IInv /\ [Next]_vars => IInv'
<1> SUFFICES ASSUME IInv, [Next]_vars PROVE Owning'
  BY NextCore DEF IInv
<1>1. CASE CreateDevice
  BY <1>1, CreateDeviceOwning
<1>2. CASE AllocateBuffer
  BY <1>2, AllocateBufferOwning
<1>3. CASE CreateCommandBuffer
  BY <1>3, CreateCommandBufferOwning
<1>4. CASE StartDestroy
  BY <1>4, StartDestroyOwning
<1>5. CASE FinishDestroy
  BY <1>5, FinishDestroyOwning
<1>6. ASSUME NEW c \in DOMAIN heap.cbs, NEW b \in DOMAIN heap.bufs, NEW bytes \in Requests,
             NEW context \in DOMAIN heap.ctxs, RecordDispatch(c, b, bytes, context)
      PROVE  Owning'
  BY <1>6, RecordDispatchOwning
<1>7. ASSUME NEW b \in DOMAIN heap.bufs, ClientReleaseBuffer(b) PROVE Owning'
  BY <1>7, ClientReleaseBufferOwning
<1>8. ASSUME NEW c \in DOMAIN heap.cbs, ClientReleaseCommandBuffer(c) PROVE Owning'
  BY <1>8, ClientReleaseCommandBufferOwning
<1>9. ASSUME NEW c \in DOMAIN heap.cbs, queue_execute(c) PROVE Owning'
  BY <1>9, queue_executeOwning
<1>10. ASSUME NEW b \in DOMAIN heap.bufs, NEW kind \in {"transfer", "dealloca"}, queue_transfer(b, kind)
       PROVE  Owning'
  BY <1>10, queue_transferOwning
<1>11. ASSUME NEW u \in 1..Len(units),
              WaitFails(u) \/ RunTransfer(u) \/ BeginExecute(u) \/ EndExecute(u) \/ Panic(u)
       PROVE  Owning'
  <2>1. CASE WaitFails(u)
    BY <2>1, WaitFailsOwning
  <2>2. CASE RunTransfer(u)
    BY <2>2, RunTransferOwning
  <2>3. CASE BeginExecute(u)
    BY <2>3, BeginExecuteOwning
  <2>4. CASE EndExecute(u)
    BY <2>4, EndExecuteOwning
  <2>5. CASE Panic(u)
    BY <2>5, PanicOwning
  <2> QED  BY <1>11, <2>1, <2>2, <2>3, <2>4, <2>5
<1>12. CASE UNCHANGED vars
  <2>1. UNCHANGED <<heap, units, device, late>>
    BY <1>12 DEF vars
  <2>2. Pending' = Pending /\ Usable' = Usable /\ (InUse' <=> InUse) /\ (Up' <=> Up) /\ Homes' = Homes
    BY <2>1 DEF Pending, Usable, InUse, Up, Homes, Base
  <2>3. InHands' = InHands
    BY <2>1, <2>2 DEF InHands, Needed, Recorded
  <2> QED  BY <2>1, <2>2, <2>3 DEF IInv, Owning
<1> QED  BY <1>1, <1>2, <1>3, <1>4, <1>5, <1>6, <1>7, <1>8, <1>9, <1>10, <1>11, <1>12 DEF Next

LEMMA InvariantHolds == Spec => []IInv
BY InitOwning, NextOwning, PTL DEF Spec

(* As long as a device outlives the use of its objects, every GEM buffer   *)
(* in use or idle is open on the file of its descriptor and is nobody      *)
(* else's, whatever is released, rejected, panics or is destroyed.         *)
THEOREM HandlesAreTheirOwn == Spec => []HandlesAreOwn
<1>1. IInv => HandlesAreOwn
  BY DEF IInv, Owning, Sound, Sole, Holders, HandlesAreOwn
<1> QED  BY <1>1, InvariantHolds, PTL

(* An open descriptor would be a context's that some command buffer is on, *)
(* and nobody has a reference to one any more.                             *)
LEMMA NothingIsLeft == IInv => Reclaimed
<1> SUFFICES ASSUME IInv, device.state = "gone", ~late, Unrun = {}
             PROVE  (\A fd \in Fds : heap.open[fd] = 0) /\ heap.pool.free = <<>>
  BY DEF Reclaimed
<1>1. ~Up
  BY DEF Up
<1>2. ~InUse /\ heap.pool.free = <<>> /\ device.contexts = <<>>
  BY <1>1 DEF IInv, Owning, Core, Links
<1>3. Pending = {}
  BY <1>2, NobodyHolds
<1>4. ASSUME NEW fd \in Fds, heap.open[fd] # 0 PROVE FALSE
  <2>1. PICK x \in DOMAIN heap.ctxs : heap.ctxs[x].refs > 0
    BY <1>1, <1>4 DEF IInv, Core, Descriptors, Owned
  <2>2. heap.ctxs[x].refs = Cardinality(Placed(x))
                              + Cardinality({n \in DOMAIN device.contexts : device.contexts[n] = x})
    BY DEF IInv, Core, RefsBalance
  <2>3. {n \in DOMAIN device.contexts : device.contexts[n] = x} = {}
    BY <1>2
  <2>4. Placed(x) = {}
    <3>1. SUFFICES ASSUME NEW c \in DOMAIN heap.cbs, heap.cbs[c].refs > 0 PROVE FALSE
      BY DEF Placed
    <3>2. heap.cbs[c].refs = Mine(heap.cbs[c]) + Cardinality(Calls({"execute"}, c))
      BY DEF IInv, Core, RefsBalance
    <3>3. Calls({"execute"}, c) = {}
      BY <1>3 DEF Calls
    <3>4. Mine(heap.cbs[c]) = 0
      BY <1>2 DEF InUse, Mine
    <3>5. Cardinality(Calls({"execute"}, c)) = 0
      BY <3>3, FS_EmptySet
    <3> QED  BY <3>1, <3>2, <3>4, <3>5
  <2>5. Cardinality(Placed(x)) = 0
        /\ Cardinality({n \in DOMAIN device.contexts : device.contexts[n] = x}) = 0
    BY <2>3, <2>4, FS_EmptySet
  <2> QED  BY <2>1, <2>2, <2>5
<1> QED  BY <1>2, <1>4

(* Nothing outlives a device that outlived the use of its objects, when    *)
(* every call ran, throughout (device::destroy, scratch_pool::clear).      *)
THEOREM NothingOutlivesTheDevice == Spec => []Reclaimed
BY NothingIsLeft, InvariantHolds, PTL
=============================================================================
