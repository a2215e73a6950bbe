----------------------- MODULE RegionCompactionProofs -----------------------
(***************************************************************************)
(* The allocator stays behind the walker in both passes of the compacting  *)
(* collector, for every heap allocate_simple can build.  The rest follows: *)
(* there is always room, no Region::pos the walker still needs is          *)
(* overwritten, both passes give an object the same place, and memmove     *)
(* destroys nothing.                                                       *)
(***************************************************************************)
EXTENDS RegionCompaction, TLAPS

-----------------------------------------------------------------------------
(* The inductive invariant.                                                *)

Walking == pass # "done" /\ more

\* The walker stands on an object, the allocator not after it, and the ends
\* of the regions from the walker's on are still those of the heap.
WalkInv ==
  /\ free.region \in Regions
  /\ pass = "forward" => top = heap.top
  /\ Walking =>
       /\ obj \in Old
       /\ NotAfter(free, obj)
       /\ \A r \in Regions : obj.region <= r => top[r] = heap.top[r]

\* A dead run ends after its first object, on an object unless the heap ends.
JumpInv ==
  /\ \A a \in Old : \A w \in jump[a] :
       w.more => w.place \in Old /\ Before(a, w.place)
  /\ pass = "forward" /\ more => \A a \in prev : Before(a, obj)

IInv == TypeOK /\ WalkInv /\ JumpInv

-----------------------------------------------------------------------------
(* The order of places.                                                    *)

\* Places are totally ordered by the walk.
LEMMA OrderTransitive ==
  ASSUME NEW a \in Place, NEW b \in Place, NEW c \in Place
  PROVE  /\ Before(a, b) /\ Before(b, c) => Before(a, c)
         /\ NotAfter(a, b) /\ Before(b, c) => Before(a, c)
         /\ NotAfter(a, b) => a.region <= b.region
         /\ ~Before(a, a)
  BY DEF Place, Before, NotAfter

\* What WellFormed says of the heap, in the names the actions use.
LEMMA HeapFacts ==
  ASSUME WellFormed(heap)
  PROVE  /\ Regions \subseteq Nat \ {0} /\ 1 \in Regions
         /\ heap.size \in [Old -> Nat \ {0}]
         /\ heap.top \in [Regions -> Nat] /\ heap.capacity \in [Regions -> Nat]
         /\ \A r \in Regions : heap.top[r] <= heap.capacity[r]
         /\ \A r, q \in Nat : q \in Regions /\ 0 < r /\ r <= q => r \in Regions
         /\ \A a \in Old : a \in Place /\ a.region \in Regions /\ a.pos \in Nat
         /\ \A a \in Old : \A r \in Regions : heap.size[a] <= heap.capacity[r]
         /\ \A r \in Regions :
               heap.top[r] # 0 => [region |-> r, pos |-> 0] \in Old
         /\ \A a \in Old :
               /\ a.pos + heap.size[a] <= heap.top[a.region]
               /\ a.pos + heap.size[a] < heap.top[a.region] =>
                     [a EXCEPT !.pos = a.pos + heap.size[a]] \in Old
               /\ \A b \in Old :
                     a.region = b.region /\ a.pos < b.pos => a.pos + heap.size[a] <= b.pos
  <1>1. Regions \subseteq Nat \ {0} /\ 1 \in Regions
    BY DEF WellFormed, Regions, RegionsOf
  <1>2. \A r, q \in Nat : q \in Regions /\ 0 < r /\ r <= q => r \in Regions
    BY DEF WellFormed, Regions, RegionsOf
  <1>3. /\ heap.size \in [Old -> Nat \ {0}]
        /\ heap.top \in [Regions -> Nat] /\ heap.capacity \in [Regions -> Nat]
        /\ \A r \in Regions : heap.top[r] <= heap.capacity[r]
        /\ \A a \in Old : \A r \in Regions : heap.size[a] <= heap.capacity[r]
    BY DEF WellFormed, Regions, Old
  <1>4. \A a \in Old : a \in Place /\ a.region \in Regions /\ a.pos \in Nat
    <2>1. Old \subseteq [region : Regions, pos : Nat]
      BY DEF WellFormed, Regions, Old
    <2> QED BY <2>1, <1>1 DEF Place
  <1>5. /\ \A r \in Regions :
              heap.top[r] # 0 => [region |-> r, pos |-> 0] \in Old
        /\ \A a \in Old :
              /\ a.pos + heap.size[a] <= heap.top[a.region]
              /\ a.pos + heap.size[a] < heap.top[a.region] =>
                    [a EXCEPT !.pos = a.pos + heap.size[a]] \in Old
              /\ \A b \in Old :
                    a.region = b.region /\ a.pos < b.pos => a.pos + heap.size[a] <= b.pos
    BY DEF WellFormed, Regions, Old
  <1> QED BY <1>1, <1>2, <1>3, <1>4, <1>5

\* RegionWalker::step from an object leads to a later object, or past the last one.
LEMMA StepLemma ==
  ASSUME WellFormed(heap), NEW a \in Old, NEW tops \in [Regions -> Nat], NEW to, NEW goes,
         \A r \in Regions : a.region <= r => tops[r] = heap.top[r],
         StepsTo(a, heap.size[a], tops, to, goes)
  PROVE  /\ goes \in BOOLEAN /\ to \in Place
         /\ goes => /\ to \in Old /\ Before(a, to)
                    /\ \/ to.region = a.region /\ to.pos = a.pos + heap.size[a]
                       \/ to.region > a.region
  <1>1. /\ a \in Place /\ a.region \in Regions /\ Regions \subseteq Nat \ {0}
        /\ heap.size[a] \in Nat \ {0} /\ tops[a.region] = heap.top[a.region]
        /\ a.pos + heap.size[a] <= heap.top[a.region]
        /\ heap.top[a.region] \in Nat
    <2>1. /\ a \in Place /\ a.region \in Regions /\ Regions \subseteq Nat \ {0}
          /\ a.pos + heap.size[a] <= heap.top[a.region]
      BY HeapFacts
    <2>2. heap.size[a] \in Nat \ {0} /\ heap.top[a.region] \in Nat
      BY <2>1, HeapFacts
    <2>3. tops[a.region] = heap.top[a.region]
      <3>1. a.region \in Nat BY <2>1
      <3>2. a.region <= a.region BY <3>1
      <3> QED BY <2>1, <3>2
    <2> QED BY <2>1, <2>2, <2>3
  <1>2. CASE a.pos + heap.size[a] # tops[a.region]
    <2>1. goes = TRUE /\ to = [a EXCEPT !.pos = a.pos + heap.size[a]]
      BY <1>2 DEF StepsTo
    <2>2. a.pos + heap.size[a] < heap.top[a.region]
      BY <1>1, <1>2, HeapFacts
    <2>3. to \in Old
      BY <2>1, <2>2, HeapFacts
    <2>4. to \in Place /\ to.region = a.region /\ to.pos = a.pos + heap.size[a]
      BY <2>1, <1>1 DEF Place
    <2> QED BY <2>1, <2>3, <2>4, <1>1 DEF Before, Place
  <1>3. CASE a.pos + heap.size[a] = tops[a.region]
    <2>1. CASE \E q \in Regions : /\ IsNextRegion(a.region, q, tops)
                                  /\ goes = TRUE /\ to = [region |-> q, pos |-> 0]
      <3>1. PICK q \in Regions : /\ IsNextRegion(a.region, q, tops)
                                 /\ goes = TRUE /\ to = [region |-> q, pos |-> 0]
        BY <2>1
      <3>2. a.region < q /\ tops[q] # 0
        BY <3>1 DEF IsNextRegion
      <3>3. heap.top[q] # 0
        BY <3>2, <1>1 DEF Place
      <3>4. to \in Old
        BY <3>1, <3>3, HeapFacts
      <3>5. to \in Place /\ to.region = q
        BY <3>1, <1>1 DEF Place
      <3> QED BY <3>1, <3>2, <3>4, <3>5, <1>1 DEF Before, Place
    <2>2. CASE goes = FALSE /\ to = a
      BY <2>2, <1>1
    <2> QED BY <1>3, <2>1, <2>2 DEF StepsTo
  <1> QED BY <1>2, <1>3

\* While the allocator is not after the object, it settles on a region that is
\* not after the object's, and the object's new end is not after its old one.
LEMMA AllocateLemma ==
  ASSUME WellFormed(heap), free \in Place, NEW a \in Old, free.region \in Regions, NotAfter(free, a),
         NEW q, Allocates(free, q, heap.size[a])
  PROVE  /\ q \in Regions /\ free.region <= q /\ q <= a.region
         /\ StartIn(free, q) \in Nat
         /\ q = a.region => StartIn(free, q) <= a.pos
  <1>1. /\ a \in Place /\ a.region \in Regions /\ Regions \subseteq Nat \ {0}
        /\ heap.size[a] \in Nat \ {0} /\ free \in Place
        /\ a.pos + heap.size[a] <= heap.capacity[a.region]
        /\ heap.capacity[a.region] \in Nat
    <2>1. /\ a \in Place /\ a.region \in Regions /\ Regions \subseteq Nat \ {0}
          /\ a.pos \in Nat /\ a.pos + heap.size[a] <= heap.top[a.region]
      BY HeapFacts
    <2>2. /\ heap.size[a] \in Nat \ {0} /\ heap.top[a.region] \in Nat
          /\ heap.capacity[a.region] \in Nat
          /\ heap.top[a.region] <= heap.capacity[a.region]
      BY <2>1, HeapFacts
    <2> QED BY <2>1, <2>2
  <1>2. q \in Regions /\ free.region <= q
    BY DEF Allocates
  <1>3. StartIn(free, q) \in Nat
    BY <1>1 DEF StartIn, Place
  <1>4. StartIn(free, a.region) \in Nat /\ StartIn(free, a.region) <= a.pos
    BY <1>1 DEF StartIn, Place, NotAfter, Before
  <1>5. free.region <= a.region
    BY <1>1, OrderTransitive
  <1>6. q <= a.region
    <2> SUFFICES ASSUME a.region < q PROVE FALSE
      BY <1>1, <1>2 DEF Place
    <2>1. StartIn(free, a.region) + heap.size[a] > heap.capacity[a.region]
      BY <1>1, <1>5 DEF Allocates
    <2> QED BY <2>1, <1>1, <1>4 DEF Place
  <1> QED BY <1>2, <1>3, <1>4, <1>6

-----------------------------------------------------------------------------
(* Preservation.                                                           *)

\* Every initial state satisfies the invariant.
LEMMA InitInv == Init => IInv
  <1> SUFFICES ASSUME Init PROVE IInv
    OBVIOUS
  <1>1. WellFormed(heap) /\ \E a \in Old : Loaded(heap, a)
    BY LayoutsAssumption DEF Init, Old
  <1>2. PICK a \in Old : Loaded(heap, a) /\ obj = a
    BY DEF Init
  <1>3. a \in Place /\ a.region \in Regions /\ a.pos \in Nat /\ 1 \in Regions
        /\ Regions \subseteq Nat \ {0}
    BY <1>1, HeapFacts
  <1>4. FirstPlace \in Place
    BY DEF FirstPlace, Place
  <1>5. TypeOK
    <2>1. top \in [Regions -> Nat]
      BY <1>1, HeapFacts DEF Init
    <2> QED BY <1>1, <1>2, <1>3, <1>4, <2>1 DEF Init, TypeOK, AtMostOne
  <1>6. NotAfter(free, obj)
    <2>1. free = FirstPlace /\ obj \in Place
      BY <1>2, <1>3 DEF Init
    <2>2. obj.region = 1 /\ obj.pos = 0 => obj = FirstPlace
      BY <2>1 DEF Place, FirstPlace
    <2> QED BY <2>1, <2>2 DEF NotAfter, Before, Place, FirstPlace
  <1>7. WalkInv
    BY <1>2, <1>3, <1>6 DEF Init, WalkInv, Walking, FirstPlace
  <1>8. JumpInv
    BY DEF Init, JumpInv
  <1> QED BY <1>5, <1>7, <1>8 DEF IInv

\* After an allocation for the object the walker stood on, the allocator is not
\* after the object the walker steps to.
LEMMA StillBehind ==
  ASSUME NEW a \in Place, NEW b \in Place, NEW size \in Nat, NEW q \in Nat \ {0}, NEW p \in Nat,
         q <= a.region, q = a.region => p <= a.pos,
         \/ b.region = a.region /\ b.pos = a.pos + size
         \/ b.region > a.region
  PROVE  NotAfter([region |-> q, pos |-> p + size], b)
  <1>1. b = [region |-> b.region, pos |-> b.pos] /\ b.region \in Nat /\ b.pos \in Nat
        /\ a.region \in Nat /\ a.pos \in Nat
    BY DEF Place
  <1>2. CASE b.region > q
    BY <1>2, <1>1 DEF NotAfter, Before
  <1>3. CASE b.region = q /\ b.pos = a.pos + size /\ p <= a.pos
    <2>1. CASE p = a.pos
      BY <2>1, <1>1, <1>3 DEF NotAfter
    <2>2. CASE p < a.pos
      BY <2>2, <1>1, <1>3 DEF NotAfter, Before
    <2> QED BY <2>1, <2>2, <1>1, <1>3
  <1> QED BY <1>1, <1>2, <1>3

\* The first pass, over a live object.
LEMMA ForwardMarkedInv == IInv /\ ForwardMarked => IInv'
  <1> SUFFICES ASSUME IInv, ForwardMarked PROVE IInv'
    OBVIOUS
  <1> USE DEF IInv
  <1>1. /\ obj \in Old /\ free.region \in Regions /\ NotAfter(free, obj)
        /\ WellFormed(heap) /\ top = heap.top /\ top \in [Regions -> Nat]
        /\ obj \in Place /\ free \in Place
    BY DEF WalkInv, TypeOK, ForwardMarked, Walking
  <1>2. PICK q \in Regions :
          /\ Allocates(free, q, heap.size[obj])
          /\ forward' = [forward EXCEPT ![obj] = {[region |-> q, pos |-> StartIn(free, q)]}]
          /\ free' = [region |-> q, pos |-> StartIn(free, q) + heap.size[obj]]
    BY DEF ForwardMarked
  <1>3. /\ q \in Regions /\ q <= obj.region /\ StartIn(free, q) \in Nat
        /\ q = obj.region => StartIn(free, q) <= obj.pos
    BY <1>1, <1>2, AllocateLemma
  <1>4. /\ more' \in BOOLEAN /\ obj' \in Place
        /\ more' => /\ obj' \in Old /\ Before(obj, obj')
                    /\ \/ obj'.region = obj.region /\ obj'.pos = obj.pos + heap.size[obj]
                       \/ obj'.region > obj.region
    BY <1>1, StepLemma DEF ForwardMarked
  <1>5. heap.size[obj] \in Nat /\ q \in Nat \ {0}
    BY <1>1, <1>3, HeapFacts
  <1>6. UNCHANGED <<heap, pass, jump, top, backward>> /\ prev' = {}
        /\ freeAt' = [freeAt EXCEPT ![obj] = {free}] /\ Old' = Old /\ Regions' = Regions
    BY DEF ForwardMarked, Old, Regions
  <1>7. TypeOK'
    <2>1. [region |-> q, pos |-> StartIn(free, q)] \in Place /\ free' \in Place
      BY <1>2, <1>3, <1>5 DEF Place
    <2> QED BY <1>1, <1>2, <1>4, <1>6, <2>1 DEF TypeOK, AtMostOne
  <1>8. WalkInv'
    <2>1. more' => NotAfter(free', obj')
      BY <1>1, <1>2, <1>3, <1>4, <1>5, StillBehind
    <2>2. free'.region \in Regions
      BY <1>2, <1>3
    <2> QED BY <1>1, <1>4, <1>6, <2>1, <2>2 DEF WalkInv, Walking
  <1>9. JumpInv'
    BY <1>6 DEF JumpInv
  <1> QED BY <1>7, <1>8, <1>9

\* What the invariant gives for the object the walker stands on.
LEMMA WalkingFacts ==
  ASSUME IInv, Walking
  PROVE  /\ obj \in Old /\ free.region \in Regions /\ NotAfter(free, obj)
         /\ WellFormed(heap) /\ top \in [Regions -> Nat]
         /\ \A r \in Regions : obj.region <= r => top[r] = heap.top[r]
         /\ obj \in Place /\ free \in Place /\ heap.size[obj] \in Nat
  <1>1. WellFormed(heap) /\ obj \in Old /\ top \in [Regions -> Nat] /\ free \in Place
        /\ obj \in Place
    BY DEF IInv, TypeOK, WalkInv
  <1>2. heap.size[obj] \in Nat
    BY <1>1, HeapFacts
  <1> QED BY <1>1, <1>2 DEF IInv, WalkInv

\* The first pass, over a dead object: it may end the block before it.
LEMMA ForwardUnmarkedInv == IInv /\ ForwardUnmarked => IInv'
  <1> SUFFICES ASSUME IInv, ForwardUnmarked PROVE IInv'
    OBVIOUS
  <1> USE DEF IInv
  <1>1. Walking /\ pass = "forward" /\ more
    BY DEF ForwardUnmarked, Walking
  <1>2. /\ more' \in BOOLEAN /\ obj' \in Place
        /\ more' => obj' \in Old /\ Before(obj, obj') /\ obj.region <= obj'.region
    <2>1. /\ WellFormed(heap) /\ obj \in Old /\ obj \in Place /\ top \in [Regions -> Nat]
          /\ \A r \in Regions : obj.region <= r => top[r] = heap.top[r]
      BY <1>1, WalkingFacts
    <2>2. StepsTo(obj, heap.size[obj], top, obj', more')
      BY DEF ForwardUnmarked
    <2>3. /\ more' \in BOOLEAN /\ obj' \in Place
          /\ more' => obj' \in Old /\ Before(obj, obj')
      BY <2>1, <2>2, StepLemma
    <2> QED BY <2>1, <2>3, OrderTransitive DEF NotAfter
  <1>3. /\ UNCHANGED <<heap, pass, free, top, forward, backward>>
        /\ jump' = [a \in Old |-> IF a \in prev
                            THEN {[place |-> obj', more |-> more']} ELSE jump[a]]
        /\ prev' = IF prev = {} THEN {obj} ELSE prev
        /\ freeAt' = [freeAt EXCEPT ![obj] = {free}] /\ Old' = Old /\ Regions' = Regions
    BY DEF ForwardUnmarked, FreeBlockTo, Old, Regions
  <1>4. TypeOK'
    <2>1. [place |-> obj', more |-> more'] \in Walker
      BY <1>2 DEF Walker
    <2>2. \A a \in Old : AtMostOne(jump'[a], Walker)
      BY <1>3, <2>1 DEF TypeOK, AtMostOne
    <2>3. AtMostOne(prev', Old)
      BY <1>1, <1>3, WalkingFacts DEF TypeOK, AtMostOne
    <2>4. \A a \in Old : AtMostOne(freeAt'[a], Place)
      BY <1>1, <1>3, WalkingFacts DEF TypeOK, AtMostOne
    <2> QED BY <1>1, <1>2, <1>3, <2>2, <2>3, <2>4 DEF TypeOK
  <1>5. WalkInv'
    <2>1. more' => NotAfter(free, obj')
      BY <1>1, <1>2, WalkingFacts, OrderTransitive DEF NotAfter
    <2> QED BY <1>1, <1>2, <1>3, <2>1, WalkingFacts DEF WalkInv, Walking
  <1>6. JumpInv'
    <2>1. \A a \in prev : a \in Old /\ a \in Place /\ Before(a, obj)
      BY <1>1, HeapFacts DEF JumpInv, TypeOK, AtMostOne
    <2>2. more' => \A a \in prev : Before(a, obj')
      BY <1>1, <1>2, <2>1, WalkingFacts, OrderTransitive
    <2>3. \A a \in Old : \A w \in jump'[a] :
             w.more => w.place \in Old /\ Before(a, w.place)
      BY <1>2, <1>3, <2>2 DEF JumpInv
    <2>4. more' => \A a \in prev' : Before(a, obj')
      BY <1>2, <1>3, <2>2
    <2> QED BY <1>3, <2>3, <2>4 DEF JumpInv
  <1> QED BY <1>4, <1>5, <1>6

\* The second pass starts where the first one did.
LEMMA StartBackwardInv == IInv /\ StartBackward => IInv'
  <1> SUFFICES ASSUME IInv, StartBackward PROVE IInv'
    OBVIOUS
  <1> USE DEF IInv
  <1>1. WellFormed(heap) /\ top = heap.top
    BY DEF TypeOK, WalkInv, StartBackward
  <1>2. PICK a \in Old : Loaded(heap, a) /\ obj' = a
    BY DEF StartBackward
  <1>3. a \in Place /\ a.region \in Regions /\ 1 \in Regions
        /\ Regions \subseteq Nat \ {0}
    BY <1>1, HeapFacts
  <1>4. /\ UNCHANGED <<heap, prev, jump, top, forward, backward, freeAt>>
        /\ more' = TRUE /\ free' = FirstPlace /\ pass' = "backward"
        /\ Old' = Old /\ Regions' = Regions
    BY DEF StartBackward, Old, Regions
  <1>5. TypeOK'
    <2>1. FirstPlace \in Place
      BY DEF FirstPlace, Place
    <2> QED BY <1>2, <1>3, <1>4, <2>1 DEF TypeOK
  <1>6. NotAfter(free', obj')
    <2>1. obj'.region = 1 /\ obj'.pos = 0 => obj' = FirstPlace
      BY <1>2, <1>3 DEF Place, FirstPlace
    <2> QED BY <1>2, <1>3, <1>4, <2>1 DEF NotAfter, Before, Place, FirstPlace
  <1>7. WalkInv'
    BY <1>1, <1>2, <1>3, <1>4, <1>6 DEF WalkInv, Walking, FirstPlace
  <1>8. JumpInv'
    BY <1>4 DEF JumpInv
  <1> QED BY <1>5, <1>7, <1>8

\* The second pass, over a live object.  The regions the allocation leaves are
\* before the walker's, so the step still reads the old ends.
LEMMA BackwardMarkedInv == IInv /\ BackwardMarked => IInv'
  <1> SUFFICES ASSUME IInv, BackwardMarked PROVE IInv'
    OBVIOUS
  <1> USE DEF IInv
  <1>1. Walking /\ pass = "backward" /\ more
    BY DEF BackwardMarked, Walking
  <1>2. PICK q \in Regions :
          /\ Allocates(free, q, heap.size[obj])
          /\ backward' = [backward EXCEPT ![obj] = {[region |-> q, pos |-> StartIn(free, q)]}]
          /\ free' = [region |-> q, pos |-> StartIn(free, q) + heap.size[obj]]
          /\ top' = TopsLeaving(free, q)
    BY DEF BackwardMarked
  <1>3. /\ q \in Regions /\ q <= obj.region /\ StartIn(free, q) \in Nat
        /\ q = obj.region => StartIn(free, q) <= obj.pos
        /\ q \in Nat \ {0} /\ obj.region \in Nat /\ Regions \subseteq Nat
    <2>1. WellFormed(heap) BY <1>1, WalkingFacts
    <2>2. Regions \subseteq Nat \ {0} /\ obj.region \in Regions
      BY <1>1, <2>1, WalkingFacts, HeapFacts
    <2> QED BY <1>1, <1>2, <2>2, WalkingFacts, AllocateLemma
  <1>4. \A r \in Regions : obj.region <= r => top'[r] = heap.top[r]
    <2> SUFFICES ASSUME NEW r \in Regions, obj.region <= r PROVE top'[r] = heap.top[r]
      OBVIOUS
    <2>1. ~(r < q)
      BY <1>3
    <2> QED BY <1>1, <1>2, <2>1, WalkingFacts DEF TopsLeaving
  <1>5. top' \in [Regions -> Nat]
    <2>1. \A k \in Regions : StartIn(free, k) \in Nat /\ top[k] \in Nat
      BY <1>1, WalkingFacts DEF StartIn, Place
    <2> QED BY <1>2, <2>1 DEF TopsLeaving
  <1>6. /\ more' \in BOOLEAN /\ obj' \in Place
        /\ more' => /\ obj' \in Old /\ Before(obj, obj') /\ obj.region <= obj'.region
                    /\ \/ obj'.region = obj.region /\ obj'.pos = obj.pos + heap.size[obj]
                       \/ obj'.region > obj.region
    <2>1. WellFormed(heap) /\ obj \in Old /\ obj \in Place
      BY <1>1, WalkingFacts
    <2>2. StepsTo(obj, heap.size[obj], top', obj', more')
      BY DEF BackwardMarked
    <2>3. /\ more' \in BOOLEAN /\ obj' \in Place
          /\ more' => /\ obj' \in Old /\ Before(obj, obj')
                      /\ \/ obj'.region = obj.region /\ obj'.pos = obj.pos + heap.size[obj]
                         \/ obj'.region > obj.region
      BY <1>4, <1>5, <2>1, <2>2, StepLemma
    <2> QED BY <2>1, <2>3, OrderTransitive DEF NotAfter
  <1>7. UNCHANGED <<heap, pass, prev, jump, forward, freeAt>>
        /\ Old' = Old /\ Regions' = Regions
    BY DEF BackwardMarked, Old, Regions
  <1>8. TypeOK'
    <2>1. [region |-> q, pos |-> StartIn(free, q)] \in Place /\ free' \in Place
      BY <1>1, <1>2, <1>3, WalkingFacts DEF Place
    <2>2. \A a \in Old : AtMostOne(backward'[a], Place)
      BY <1>2, <2>1 DEF TypeOK, AtMostOne
    <2>3. DOMAIN backward' = Old
      BY <1>2 DEF TypeOK
    <2> QED BY <1>5, <1>6, <1>7, <2>1, <2>2, <2>3 DEF TypeOK
  <1>9. WalkInv'
    <2>1. more' => NotAfter(free', obj')
      BY <1>1, <1>2, <1>3, <1>6, WalkingFacts, StillBehind
    <2>2. more' => \A r \in Regions : obj'.region <= r => top'[r] = heap.top[r]
      <3> SUFFICES ASSUME more', NEW r \in Regions, obj'.region <= r
                   PROVE  top'[r] = heap.top[r]
        OBVIOUS
      <3>1. obj.region <= r
        BY <1>3, <1>6 DEF Place
      <3> QED BY <1>4, <3>1
    <2>3. free'.region \in Regions
      BY <1>2, <1>3
    <2> QED BY <1>1, <1>6, <1>7, <2>1, <2>2, <2>3 DEF WalkInv, Walking
  <1>10. JumpInv'
    BY <1>1, <1>7 DEF JumpInv
  <1> QED BY <1>8, <1>9, <1>10

\* The second pass, over a dead object that is not a FreeBlock.
LEMMA BackwardUnmarkedInv == IInv /\ BackwardUnmarked => IInv'
  <1> SUFFICES ASSUME IInv, BackwardUnmarked PROVE IInv'
    OBVIOUS
  <1> USE DEF IInv
  <1>1. Walking /\ pass = "backward" /\ more
    BY DEF BackwardUnmarked, Walking
  <1>2. /\ more' \in BOOLEAN /\ obj' \in Place
        /\ more' => obj' \in Old /\ Before(obj, obj') /\ obj.region <= obj'.region
    <2>1. /\ WellFormed(heap) /\ obj \in Old /\ obj \in Place /\ top \in [Regions -> Nat]
          /\ \A r \in Regions : obj.region <= r => top[r] = heap.top[r]
      BY <1>1, WalkingFacts
    <2>2. StepsTo(obj, heap.size[obj], top, obj', more')
      BY DEF BackwardUnmarked
    <2>3. /\ more' \in BOOLEAN /\ obj' \in Place
          /\ more' => obj' \in Old /\ Before(obj, obj')
      BY <2>1, <2>2, StepLemma
    <2> QED BY <2>1, <2>3, OrderTransitive DEF NotAfter
  <1>3. UNCHANGED <<heap, pass, free, prev, jump, top, forward, backward, freeAt>>
        /\ Old' = Old /\ Regions' = Regions
    BY DEF BackwardUnmarked, Old, Regions
  <1>4. TypeOK'
    BY <1>2, <1>3 DEF TypeOK
  <1>5. WalkInv'
    <2>1. more' => NotAfter(free, obj')
      BY <1>1, <1>2, WalkingFacts, OrderTransitive DEF NotAfter
    <2>2. more' => \A r \in Regions : obj'.region <= r => obj.region <= r
      BY <1>1, <1>2, WalkingFacts, HeapFacts DEF Place
    <2> QED BY <1>1, <1>2, <1>3, <2>1, <2>2, WalkingFacts DEF WalkInv, Walking
  <1>6. JumpInv'
    BY <1>1, <1>3 DEF JumpInv
  <1> QED BY <1>4, <1>5, <1>6

\* The second pass, over a FreeBlock: the jump goes forward in the walk.
LEMMA BackwardFreeBlockInv == IInv /\ BackwardFreeBlock => IInv'
  <1> SUFFICES ASSUME IInv, BackwardFreeBlock PROVE IInv'
    OBVIOUS
  <1> USE DEF IInv
  <1>1. Walking /\ pass = "backward" /\ more
    BY DEF BackwardFreeBlock, Walking
  <1>2. /\ more' \in BOOLEAN /\ obj' \in Place
        /\ more' => obj' \in Old /\ Before(obj, obj') /\ obj.region <= obj'.region
    <2>1. PICK w \in jump[obj] : obj' = w.place /\ more' = w.more
      BY DEF BackwardFreeBlock
    <2>2. w \in Walker
      BY <1>1, <2>1, WalkingFacts DEF TypeOK, AtMostOne
    <2>3. obj' \in Place /\ more' \in BOOLEAN
      BY <2>1, <2>2 DEF Walker
    <2>4. more' => obj' \in Old /\ Before(obj, obj')
      BY <1>1, <2>1, WalkingFacts DEF JumpInv
    <2> QED BY <1>1, <2>3, <2>4, WalkingFacts, OrderTransitive DEF NotAfter
  <1>3. UNCHANGED <<heap, pass, free, prev, jump, top, forward, backward, freeAt>>
        /\ Old' = Old /\ Regions' = Regions
    BY DEF BackwardFreeBlock, Old, Regions
  <1>4. TypeOK'
    BY <1>2, <1>3 DEF TypeOK
  <1>5. WalkInv'
    <2>1. more' => NotAfter(free, obj')
      BY <1>1, <1>2, WalkingFacts, OrderTransitive DEF NotAfter
    <2>2. more' => \A r \in Regions : obj'.region <= r => obj.region <= r
      BY <1>1, <1>2, WalkingFacts, HeapFacts DEF Place
    <2> QED BY <1>1, <1>2, <1>3, <2>1, <2>2, WalkingFacts DEF WalkInv, Walking
  <1>6. JumpInv'
    BY <1>1, <1>3 DEF JumpInv
  <1> QED BY <1>4, <1>5, <1>6

\* Releasing the regions.
LEMMA FinishInv == IInv /\ Finish => IInv'
  <1> SUFFICES ASSUME IInv, Finish PROVE IInv'
    OBVIOUS
  <1> USE DEF IInv
  <1>1. /\ UNCHANGED <<heap, obj, more, free, prev, jump, forward, backward, freeAt>>
        /\ pass' = "done" /\ ~more /\ Old' = Old /\ Regions' = Regions
    BY DEF Finish, Old, Regions
  <1>2. top' \in [Regions -> Nat]
    <2>1. free.pos \in Nat /\ \A r \in Regions : top[r] \in Nat
      BY DEF TypeOK, Place
    <2> QED BY <2>1 DEF Finish
  <1>3. TypeOK'
    BY <1>1, <1>2 DEF TypeOK
  <1>4. WalkInv' /\ JumpInv'
    BY <1>1 DEF WalkInv, JumpInv, Walking
  <1> QED BY <1>3, <1>4

\* Every step preserves the invariant.
LEMMA NextInv == IInv /\ [Next]_vars => IInv'
  <1>1. IInv /\ UNCHANGED vars => IInv'
    BY DEF vars, IInv, TypeOK, WalkInv, JumpInv, Walking, Old, Regions
  <1> QED
    BY <1>1, ForwardMarkedInv, ForwardUnmarkedInv, StartBackwardInv, BackwardMarkedInv,
       BackwardUnmarkedInv, BackwardFreeBlockInv, FinishInv DEF Next

\* The invariant holds throughout a collection.
LEMMA SpecInv == Spec => []IInv
  BY InitInv, NextInv, PTL DEF Spec

-----------------------------------------------------------------------------
(* The theorems.                                                           *)

\* The variables keep their types in every collection of every heap.
THEOREM TypeCorrect == Spec => []TypeOK
  <1>1. IInv => TypeOK
    BY DEF IInv
  <1> QED BY <1>1, SpecInv, PTL

\* The allocator never gets ahead of the walker.
THEOREM AllocatorStaysBehind == Spec => []AllocatorBehindWalker
  <1>1. IInv => AllocatorBehindWalker
    BY DEF IInv, WalkInv, Walking, AllocatorBehindWalker
  <1> QED BY <1>1, SpecInv, PTL

\* The walker stands on objects and reads only region ends that are still the old ones.
THEOREM WalkerStaysOnObjects == Spec => []WalkerOnObject
  <1>1. IInv => WalkerOnObject
    BY DEF IInv, WalkInv, Walking, WalkerOnObject
  <1> QED BY <1>1, SpecInv, PTL

\* "Ran out of free space!" is unreachable.
THEOREM NeverOutOfSpace == Spec => []SpaceForEveryObject
  <1>1. IInv => SpaceForEveryObject
    <2> SUFFICES ASSUME IInv, Walking
                 PROVE  \E q \in Regions : Allocates(free, q, heap.size[obj])
      BY DEF SpaceForEveryObject, Walking
    <2>1. /\ WellFormed(heap) /\ obj \in Old /\ free.region \in Regions
          /\ free \in Place /\ obj \in Place /\ NotAfter(free, obj)
      BY WalkingFacts
    <2>2. /\ obj.region \in Regions /\ obj.region \in Nat /\ free.region \in Nat
          /\ Regions \subseteq Nat
          /\ obj.pos + heap.size[obj] <= heap.top[obj.region]
      <3>1. /\ obj.region \in Regions /\ Regions \subseteq Nat \ {0}
            /\ obj.pos + heap.size[obj] <= heap.top[obj.region]
        BY <2>1, HeapFacts
      <3> QED BY <2>1, <3>1
    <2>3. /\ heap.size[obj] \in Nat /\ heap.top[obj.region] \in Nat
          /\ heap.top[obj.region] <= heap.capacity[obj.region]
          /\ \A r \in Regions : heap.size[obj] <= heap.capacity[r]
          /\ \A r \in Regions : heap.capacity[r] \in Nat
      BY <2>1, <2>2, HeapFacts
    <2>4. free.region <= obj.region /\ free.pos \in Nat /\ obj.pos \in Nat
      BY <2>1, OrderTransitive DEF Place
    <2>5. CASE free.pos + heap.size[obj] <= heap.capacity[free.region]
      BY <2>1, <2>2, <2>5 DEF Allocates, StartIn
    <2>6. CASE ~(free.pos + heap.size[obj] <= heap.capacity[free.region])
      <3>1. free.region # obj.region
        BY <2>1, <2>2, <2>3, <2>4, <2>6 DEF NotAfter, Before
      <3>2. free.region + 1 \in Regions
        <4>1. free.region \in Nat /\ obj.region \in Nat /\ free.region < obj.region
          BY <2>1, <2>2, <2>4, <3>1
        <4>2. free.region + 1 \in Nat /\ 0 < free.region + 1 /\ free.region + 1 <= obj.region
          BY <4>1
        <4> QED BY <2>1, <2>2, <4>1, <4>2, HeapFacts
      <3>3. StartIn(free, free.region + 1) = 0 /\ StartIn(free, free.region) = free.pos
        BY <2>1, <2>2 DEF StartIn
      <3>4. \A k \in Regions : free.region <= k /\ k < free.region + 1 => k = free.region
        <4> SUFFICES ASSUME NEW k \in Regions, free.region <= k, k < free.region + 1
                     PROVE  k = free.region
          OBVIOUS
        <4>1. k \in Nat
          BY <2>2
        <4> QED BY <2>2, <4>1
      <3>5. free.pos + heap.size[obj] > heap.capacity[free.region]
        BY <2>1, <2>3, <2>4, <2>6
      <3>6. Allocates(free, free.region + 1, heap.size[obj])
        BY <2>1, <2>2, <2>3, <3>2, <3>3, <3>4, <3>5 DEF Allocates
      <3> QED BY <3>2, <3>6
    <2> QED BY <2>5, <2>6
  <1> QED BY <1>1, SpecInv, PTL

-----------------------------------------------------------------------------
(* Both passes give an object the same place.  The history variable freeAt *)
(* carries the argument: the second pass meets every object it visits with *)
(* the allocator where the first one had it.                               *)

Visited(a) == freeAt[a] # {}
Successor(a, b) == StepsTo(a, heap.size[a], heap.top, b, TRUE)
Forwarding == pass = "forward" /\ more

\* The allocator once it has dealt with an object the first pass has visited.
After(a) ==
  IF Live(a) THEN {[region |-> p.region, pos |-> p.pos + heap.size[a]] : p \in forward[a]}
  ELSE freeAt[a]

\* b was met, or is being met, by the first pass with the allocator at f.
MetAt(b, f) == \/ Visited(b) /\ freeAt[b] = f
               \/ Forwarding /\ b = obj /\ {free} = f

AllocatedInv ==
  \A a \in Old : Visited(a) /\ Live(a) =>
    \E f \in Place, q \in Regions :
      /\ freeAt[a] = {f} /\ Allocates(f, q, heap.size[a])
      /\ forward[a] = {[region |-> q, pos |-> StartIn(f, q)]}
SuccessorInv == \A a, b \in Old : Visited(a) /\ Successor(a, b) => MetAt(b, After(a))
RunInv == \A a \in Old : \A w \in jump[a] :
            w.more => Visited(a) /\ MetAt(w.place, freeAt[a])
PrevInv == Forwarding => \A a \in prev : Visited(a) /\ freeAt[a] = {free}
VisitedInv == Forwarding => \A a \in Old : Visited(a) => Before(a, obj)
LoadedInv == \A a \in Old : Loaded(heap, a) => MetAt(a, {FirstPlace})
MeetsAgain == pass = "backward" /\ more => Visited(obj) /\ freeAt[obj] = {free}
NotMovedYet == pass = "forward" => \A a \in Old : backward[a] = {}

HistoryInv ==
  /\ AllocatedInv /\ SuccessorInv /\ RunInv /\ PrevInv /\ VisitedInv
  /\ LoadedInv /\ MeetsAgain /\ NotMovedYet /\ PassesAgree

\* An object has one successor.
LEMMA SuccessorUnique ==
  ASSUME NEW a, NEW size, NEW tops, NEW b, NEW c, NEW goes, Regions \subseteq Nat,
         StepsTo(a, size, tops, b, TRUE), StepsTo(a, size, tops, c, goes)
  PROVE  goes = TRUE /\ c = b
  <1>1. CASE a.pos + size # tops[a.region]
    BY <1>1 DEF StepsTo
  <1>2. CASE a.pos + size = tops[a.region]
    <2>1. PICK q \in Regions : IsNextRegion(a.region, q, tops) /\ b = [region |-> q, pos |-> 0]
      BY <1>2 DEF StepsTo
    <2>2. tops[q] # 0 /\ a.region < q
      BY <2>1 DEF IsNextRegion
    <2>3. PICK k \in Regions :
            IsNextRegion(a.region, k, tops) /\ goes = TRUE /\ c = [region |-> k, pos |-> 0]
      BY <1>2, <2>2 DEF StepsTo
    <2>4. tops[k] # 0 /\ a.region < k
      BY <2>3 DEF IsNextRegion
    <2>5. ~(q < k) /\ ~(k < q)
      BY <2>1, <2>2, <2>3, <2>4 DEF IsNextRegion
    <2>6. q = k
      BY <2>5
    <2> QED BY <2>1, <2>3, <2>6
  <1> QED BY <1>1, <1>2

\* The step depends only on the ends of the regions from the object's on.
LEMMA SuccessorLocal ==
  ASSUME WellFormed(heap), NEW a \in Old, NEW tops, NEW b,
         \A r \in Regions : a.region <= r => tops[r] = heap.top[r],
         StepsTo(a, heap.size[a], tops, b, TRUE)
  PROVE  Successor(a, b)
  <1>1. a.region \in Regions /\ a.region \in Nat /\ Regions \subseteq Nat
    BY HeapFacts
  <1>2. a.region <= a.region
    BY <1>1
  <1>3. tops[a.region] = heap.top[a.region]
    BY <1>1, <1>2
  <1>4. \A q \in Regions : a.region < q => tops[q] = heap.top[q]
    BY <1>1
  <1>5. \A q \in Regions : IsNextRegion(a.region, q, tops) => IsNextRegion(a.region, q, heap.top)
    BY <1>4 DEF IsNextRegion
  <1> QED BY <1>3, <1>4, <1>5 DEF StepsTo, Successor

\* An allocation has one outcome.
LEMMA AllocatesUnique ==
  ASSUME NEW f, NEW size, NEW q, NEW k, Regions \subseteq Nat,
         Allocates(f, q, size), Allocates(f, k, size), size \in Nat,
         \A r \in Regions : StartIn(f, r) \in Nat /\ heap.capacity[r] \in Nat
  PROVE  q = k
  <1>1. q \in Regions /\ k \in Regions /\ q \in Nat /\ k \in Nat
    BY DEF Allocates
  <1>2. ~(q < k)
    BY <1>1 DEF Allocates
  <1>3. ~(k < q)
    BY <1>1 DEF Allocates
  <1> QED BY <1>1, <1>2, <1>3

\* The end of an object that has one place.
LEMMA PlaceAfter ==
  ASSUME NEW r, NEW from, NEW size, NEW places, places = {[region |-> r, pos |-> from]}
  PROVE  {[region |-> p.region, pos |-> p.pos + size] : p \in places}
           = {[region |-> r, pos |-> from + size]}
  OBVIOUS

\* The object the first pass stands on has not been visited, and no object is before itself.
LEMMA ObjUnvisited ==
  ASSUME IInv, HistoryInv, Forwarding
  PROVE  ~Visited(obj)
  <1>1. obj \in Old /\ obj \in Place
    BY WalkingFacts DEF Forwarding, Walking
  <1> QED BY <1>1, OrderTransitive DEF HistoryInv, VisitedInv

\* The first step of the argument.
LEMMA InitHistory == Init => HistoryInv
  <1> SUFFICES ASSUME Init PROVE HistoryInv
    OBVIOUS
  <1>1. \A a \in Old : ~Visited(a) /\ jump[a] = {} /\ backward[a] = {}
    BY DEF Init, Visited
  <1>2. \A a \in Old : Loaded(heap, a) => MetAt(a, {FirstPlace})
    <2> SUFFICES ASSUME NEW a \in Old, Loaded(heap, a) PROVE MetAt(a, {FirstPlace})
      OBVIOUS
    <2>1. PICK b \in Old : Loaded(heap, b) /\ obj = b
      BY DEF Init
    <2>2. NotAfter(a, b) /\ NotAfter(b, a)
      BY <2>1 DEF Loaded, Old
    <2>3. a \in Place /\ b \in Place
      BY LayoutsAssumption, HeapFacts DEF Init
    <2>4. a = b
      BY <2>2, <2>3 DEF NotAfter, Before, Place
    <2> QED BY <2>1, <2>4 DEF Init, MetAt, Forwarding
  <1>3. pass = "forward" /\ prev = {}
    BY DEF Init
  <1> QED
    BY <1>1, <1>2, <1>3 DEF HistoryInv, AllocatedInv, SuccessorInv, RunInv, PrevInv, VisitedInv,
       LoadedInv, MeetsAgain, NotMovedYet, PassesAgree, Forwarding

\* What both kinds of step of the first pass do to the history.
LEMMA ForwardHistory ==
  ASSUME NEW o, o = obj, IInv, HistoryInv, Forwarding, IInv', pass' = "forward", UNCHANGED <<heap, backward>>,
         freeAt' = [freeAt EXCEPT ![obj] = {free}],
         StepsTo(obj, heap.size[obj], heap.top, obj', more'),
         \A a \in Old : a # obj => forward'[a] = forward[a],
         After(o)' = {free'}
  PROVE  /\ SuccessorInv' /\ VisitedInv' /\ LoadedInv' /\ MeetsAgain' /\ NotMovedYet'
         /\ PassesAgree'
         /\ \A a \in Old : Visited(a) => a # o /\ Visited(a)' /\ freeAt'[a] = freeAt[a]
         /\ Visited(o)' /\ freeAt'[o] = {free}
         /\ \A a \in Old : \A f : MetAt(a, f) => Visited(a)' /\ freeAt'[a] = f
  <1> USE DEF HistoryInv
  <1>1. o \in Old /\ obj \in Place /\ o = obj /\ WellFormed(heap) /\ Old' = Old /\ Regions' = Regions
        /\ DOMAIN freeAt = Old
    BY WalkingFacts DEF Forwarding, Walking, Old, Regions, IInv, TypeOK
  <1>2. ~Visited(obj)
    BY ObjUnvisited
  <1>3. \A a \in Old : Visited(a) => a # o /\ Visited(a)' /\ freeAt'[a] = freeAt[a]
    BY <1>1, <1>2 DEF Visited
  <1>4. Visited(o)' /\ freeAt'[o] = {free}
    BY <1>1 DEF Visited
  <1>5. \A a \in Old : \A f : MetAt(a, f) => Visited(a)' /\ freeAt'[a] = f
    BY <1>3, <1>4 DEF MetAt
  <1>6. \A a \in Old : Visited(a)' => Visited(a) \/ a = o
    BY <1>1 DEF Visited
  <1>7. SuccessorInv'
    <2> SUFFICES ASSUME NEW a \in Old, NEW b \in Old, Visited(a)', Successor(a, b)'
                 PROVE  MetAt(b, After(a))'
      BY <1>1 DEF SuccessorInv
    <2>1. Successor(a, b)
      BY <1>1 DEF Successor, StepsTo, IsNextRegion
    <2>2. CASE a = o
      <3>1. Regions \subseteq Nat
        BY <1>1, HeapFacts
      <3>2. StepsTo(obj, heap.size[obj], heap.top, b, TRUE)
        BY <1>1, <2>1, <2>2 DEF Successor
      <3>3. more' = TRUE /\ obj' = b
        BY ONLY <3>1, <3>2, SuccessorUnique,
                StepsTo(obj, heap.size[obj], heap.top, obj', more')
      <3> QED BY <2>2, <3>3 DEF MetAt, Forwarding
    <2>3. CASE a # o
      <3>1. Visited(a) /\ freeAt'[a] = freeAt[a] /\ forward'[a] = forward[a]
        BY <1>3, <1>6, <2>3
      <3>2. After(a)' = After(a)
        BY <3>1 DEF After, Live
      <3>3. MetAt(b, After(a))
        BY <2>1, <3>1 DEF SuccessorInv
      <3> QED BY <1>5, <3>2, <3>3 DEF MetAt
    <2> QED BY <2>2, <2>3
  <1>8. VisitedInv'
    <2> SUFFICES ASSUME more', NEW a \in Old, Visited(a)' PROVE Before(a, obj')
      BY <1>1 DEF VisitedInv, Forwarding
    <2>1. obj' \in Place /\ Before(obj, obj')
      <3>1. heap.top \in [Regions -> Nat]
        BY <1>1, HeapFacts
      <3> QED BY <1>1, <3>1, StepLemma
    <2>2. a \in Place
      BY <1>1, HeapFacts
    <2>3. a = o \/ Before(a, obj)
      BY <1>6 DEF VisitedInv
    <2> QED BY <1>1, <2>1, <2>2, <2>3, OrderTransitive
  <1>9. LoadedInv'
    <2> SUFFICES ASSUME NEW a \in Old, Loaded(heap, a) PROVE MetAt(a, {FirstPlace})'
      BY <1>1 DEF LoadedInv, Loaded
    <2>1. MetAt(a, {FirstPlace})
      BY DEF LoadedInv
    <2> QED BY <1>5, <2>1 DEF MetAt, FirstPlace
  <1>10. MeetsAgain' /\ NotMovedYet' /\ PassesAgree'
    BY <1>1 DEF MeetsAgain, NotMovedYet, PassesAgree, Forwarding
  <1> QED BY <1>3, <1>4, <1>5, <1>7, <1>8, <1>9, <1>10

\* The first pass, over a live object.
LEMMA ForwardMarkedHistory == IInv /\ HistoryInv /\ IInv' /\ ForwardMarked => HistoryInv'
  <1> SUFFICES ASSUME NEW o, o = obj, IInv, HistoryInv, IInv', ForwardMarked PROVE HistoryInv'
    OBVIOUS
  <1>1. Forwarding /\ Walking /\ pass' = "forward" /\ Live(o)
    BY DEF ForwardMarked, Forwarding, Walking
  <1>2. /\ o \in Old /\ WellFormed(heap) /\ top = heap.top /\ free \in Place
        /\ Old' = Old /\ Regions' = Regions /\ DOMAIN forward = Old
    BY <1>1, WalkingFacts DEF IInv, WalkInv, TypeOK, Forwarding, ForwardMarked, Old, Regions
  <1>3. PICK q \in Regions :
          /\ Allocates(free, q, heap.size[o])
          /\ forward' = [forward EXCEPT ![o] = {[region |-> q, pos |-> StartIn(free, q)]}]
          /\ free' = [region |-> q, pos |-> StartIn(free, q) + heap.size[o]]
    BY DEF ForwardMarked
  <1>4. /\ UNCHANGED <<heap, backward, jump>> /\ prev' = {}
        /\ freeAt' = [freeAt EXCEPT ![o] = {free}]
        /\ StepsTo(obj, heap.size[obj], heap.top, obj', more')
    BY <1>2 DEF ForwardMarked
  <1>5. forward'[o] = {[region |-> q, pos |-> StartIn(free, q)]}
    BY <1>2, <1>3
  <1>6. After(o)' = {free'}
    <2>1. {[region |-> p.region, pos |-> p.pos + heap.size[o]] : p \in forward'[o]} = {free'}
      <3> DEFINE places == forward'[o]
      <3>1. places = {[region |-> q, pos |-> StartIn(free, q)]}
        BY <1>5
      <3>2. free' = [region |-> q, pos |-> StartIn(free, q) + heap.size[o]]
        BY <1>3
      <3> HIDE DEF places
      <3>3. {[region |-> p.region, pos |-> p.pos + heap.size[o]] : p \in places} = {free'}
        BY <3>1, <3>2, PlaceAfter
      <3> QED BY <3>3 DEF places
    <2>2. Live(o)' /\ heap' = heap
      BY <1>1, <1>4 DEF Live
    <2> QED BY <2>1, <2>2 DEF After
  <1>7. /\ SuccessorInv' /\ VisitedInv' /\ LoadedInv' /\ MeetsAgain' /\ NotMovedYet'
        /\ PassesAgree'
        /\ \A a \in Old : Visited(a) => a # o /\ Visited(a)' /\ freeAt'[a] = freeAt[a]
        /\ Visited(o)' /\ freeAt'[o] = {free}
        /\ \A a \in Old : \A f : MetAt(a, f) => Visited(a)' /\ freeAt'[a] = f
    BY <1>1, <1>2, <1>3, <1>4, <1>6, ForwardHistory
  <1>8. AllocatedInv'
    <2> SUFFICES ASSUME NEW a \in Old, Visited(a)', Live(a)
                 PROVE  \E f \in Place, k \in Regions :
                          /\ freeAt'[a] = {f} /\ Allocates(f, k, heap.size[a])
                          /\ forward'[a] = {[region |-> k, pos |-> StartIn(f, k)]}
      BY <1>2, <1>4 DEF AllocatedInv, Allocates, StartIn, Live
    <2>1. CASE a = o
      BY <1>2, <1>3, <1>5, <1>7, <2>1
    <2>2. CASE a # o
      <3>1. Visited(a) /\ freeAt'[a] = freeAt[a] /\ forward'[a] = forward[a]
        BY <1>2, <1>3, <1>4, <2>2 DEF Visited, IInv, TypeOK
      <3> QED BY <3>1 DEF HistoryInv, AllocatedInv
    <2> QED BY <2>1, <2>2
  <1>9. RunInv'
    <2> SUFFICES ASSUME NEW a \in Old, NEW w \in jump[a], w.more
                 PROVE  Visited(a)' /\ Visited(w.place)' /\ freeAt'[w.place] = freeAt'[a]
      BY <1>2, <1>4 DEF RunInv, MetAt
    <2>1. Visited(a) /\ MetAt(w.place, freeAt[a])
      BY DEF HistoryInv, RunInv
    <2>2. w.place \in Old
      BY DEF IInv, JumpInv
    <2> QED BY <1>7, <2>1, <2>2
  <1>10. PrevInv'
    BY <1>4 DEF PrevInv
  <1> QED BY <1>7, <1>8, <1>9, <1>10 DEF HistoryInv

\* The first pass, over a dead object.
LEMMA ForwardUnmarkedHistory == IInv /\ HistoryInv /\ IInv' /\ ForwardUnmarked => HistoryInv'
  <1> SUFFICES ASSUME NEW o, o = obj, IInv, HistoryInv, IInv', ForwardUnmarked PROVE HistoryInv'
    OBVIOUS
  <1>1. Forwarding /\ Walking /\ pass' = "forward" /\ ~Live(o)
    BY DEF ForwardUnmarked, Forwarding, Walking
  <1>2. /\ o \in Old /\ WellFormed(heap) /\ top = heap.top
        /\ Old' = Old /\ Regions' = Regions /\ DOMAIN freeAt = Old
    BY <1>1, WalkingFacts DEF IInv, WalkInv, TypeOK, Forwarding, ForwardUnmarked, Old, Regions
  <1>3. /\ UNCHANGED <<heap, free, forward, backward>>
        /\ jump' = [a \in Old |-> IF a \in prev
                            THEN {[place |-> obj', more |-> more']} ELSE jump[a]]
        /\ prev' = IF prev = {} THEN {o} ELSE prev
        /\ freeAt' = [freeAt EXCEPT ![o] = {free}]
        /\ StepsTo(obj, heap.size[obj], heap.top, obj', more')
    BY <1>2 DEF ForwardUnmarked, FreeBlockTo
  <1>4. After(o)' = {free'}
    BY <1>1, <1>2, <1>3 DEF After, Live
  <1>5. /\ SuccessorInv' /\ VisitedInv' /\ LoadedInv' /\ MeetsAgain' /\ NotMovedYet'
        /\ PassesAgree'
        /\ \A a \in Old : Visited(a) => a # o /\ Visited(a)' /\ freeAt'[a] = freeAt[a]
        /\ Visited(o)' /\ freeAt'[o] = {free}
        /\ \A a \in Old : \A f : MetAt(a, f) => Visited(a)' /\ freeAt'[a] = f
    BY <1>1, <1>3, <1>4, ForwardHistory
  <1>6. AllocatedInv'
    <2> SUFFICES ASSUME NEW a \in Old, Visited(a)', Live(a)
                 PROVE  \E f \in Place, k \in Regions :
                          /\ freeAt'[a] = {f} /\ Allocates(f, k, heap.size[a])
                          /\ forward[a] = {[region |-> k, pos |-> StartIn(f, k)]}
      BY <1>2, <1>3 DEF AllocatedInv, Allocates, StartIn, Live
    <2>1. a # o
      BY <1>1
    <2>2. Visited(a) /\ freeAt'[a] = freeAt[a]
      BY <1>2, <1>3, <2>1 DEF Visited
    <2> QED BY <2>2 DEF HistoryInv, AllocatedInv
  <1>7. \A a \in prev : a \in Old /\ Visited(a) /\ freeAt[a] = {free}
    BY <1>1 DEF HistoryInv, PrevInv, IInv, TypeOK, AtMostOne
  <1>8. RunInv'
    <2> SUFFICES ASSUME NEW a \in Old, NEW w \in jump'[a], w.more
                 PROVE  Visited(a)' /\ MetAt(w.place, freeAt[a])'
      <3>1. \A a \in Old : \A w \in jump'[a] : Visited(a)' /\ MetAt(w.place, freeAt[a])' =>
               Visited(a)' /\ MetAt(w.place, freeAt[a])'
        OBVIOUS
      <3> QED BY <1>2 DEF RunInv
    <2>1. CASE a \in prev
      <3>1. w = [place |-> obj', more |-> more']
        BY <1>3, <2>1
      <3>2. Visited(a)' /\ freeAt'[a] = {free}
        BY <1>5, <1>7, <2>1
      <3> QED BY <1>1, <1>3, <3>1, <3>2 DEF MetAt, Forwarding
    <2>2. CASE a \notin prev
      <3>1. w \in jump[a]
        BY <1>3, <2>2
      <3>2. Visited(a) /\ MetAt(w.place, freeAt[a])
        BY <3>1 DEF HistoryInv, RunInv
      <3>3. w.place \in Old
        BY <3>1 DEF IInv, JumpInv
      <3>4. Visited(a)' /\ freeAt'[a] = freeAt[a] /\ Visited(w.place)' /\ freeAt'[w.place] = freeAt[a]
        BY <1>5, <3>2, <3>3
      <3> QED BY <3>4 DEF MetAt
    <2> QED BY <2>1, <2>2
  <1>9. PrevInv'
    BY <1>3, <1>5, <1>7 DEF PrevInv
  <1> QED BY <1>5, <1>6, <1>8, <1>9 DEF HistoryInv

\* Outside the first pass the history does not change.
LEMMA SameHistory ==
  ASSUME HistoryInv, ~Forwarding, ~Forwarding', UNCHANGED <<heap, prev, jump, forward, freeAt>>,
         MeetsAgain', NotMovedYet', PassesAgree'
  PROVE  HistoryInv'
  <1>1. Old' = Old /\ Regions' = Regions
    BY DEF Old, Regions
  <1>2. AllocatedInv'
    BY <1>1 DEF HistoryInv, AllocatedInv, Visited, Live, Allocates, StartIn
  <1>3. SuccessorInv'
    BY <1>1, SMTT(30) DEF HistoryInv, SuccessorInv, Visited, Successor, StepsTo, IsNextRegion, After, MetAt,
       Live
  <1>4. RunInv' /\ PrevInv' /\ VisitedInv'
    BY <1>1 DEF HistoryInv, RunInv, PrevInv, VisitedInv, Visited, MetAt
  <1>5. LoadedInv'
    BY <1>1 DEF HistoryInv, LoadedInv, Loaded, MetAt, Visited
  <1> QED BY <1>2, <1>3, <1>4, <1>5 DEF HistoryInv

\* The second pass starts where the first one started, with the allocator where it was.
LEMMA StartBackwardHistory == IInv /\ HistoryInv /\ StartBackward => HistoryInv'
  <1> SUFFICES ASSUME IInv, HistoryInv, StartBackward PROVE HistoryInv'
    OBVIOUS
  <1> USE DEF HistoryInv
  <1>1. /\ UNCHANGED <<heap, prev, jump, top, forward, backward, freeAt>>
        /\ free' = FirstPlace /\ pass' = "backward" /\ ~Forwarding /\ ~Forwarding'
        /\ pass = "forward" /\ Old' = Old /\ Regions' = Regions
    BY DEF StartBackward, Forwarding, Old, Regions
  <1>2. PICK a \in Old : Loaded(heap, a) /\ obj' = a
    BY DEF StartBackward
  <1>3. Visited(a) /\ freeAt[a] = {FirstPlace}
    BY <1>1, <1>2 DEF LoadedInv, MetAt
  <1>4. MeetsAgain'
    BY <1>1, <1>2, <1>3 DEF MeetsAgain, Visited
  <1>5. \A b \in Old : \A f : MetAt(b, f) => Visited(b) /\ freeAt[b] = f
    BY <1>1 DEF MetAt
  <1>6. NotMovedYet' /\ PassesAgree'
    BY <1>1 DEF NotMovedYet, PassesAgree
  <1> QED BY <1>1, <1>4, <1>6, SameHistory

\* The second pass, over a live object: it gets the place the first one gave it.
LEMMA BackwardMarkedHistory == IInv /\ HistoryInv /\ BackwardMarked => HistoryInv'
  <1> SUFFICES ASSUME NEW o, o = obj, IInv, HistoryInv, BackwardMarked PROVE HistoryInv'
    OBVIOUS
  <1>1. /\ Walking /\ pass = "backward" /\ Live(o) /\ ~Forwarding /\ ~Forwarding'
        /\ UNCHANGED <<heap, pass, prev, jump, forward, freeAt>>
        /\ Old' = Old /\ Regions' = Regions
    BY DEF BackwardMarked, Walking, Forwarding, Old, Regions
  <1>2. /\ o \in Old /\ WellFormed(heap) /\ free \in Place /\ top \in [Regions -> Nat]
        /\ \A r \in Regions : o.region <= r => top[r] = heap.top[r]
        /\ DOMAIN backward = Old
    BY <1>1, WalkingFacts DEF IInv, TypeOK
  <1>3. PICK q \in Regions :
          /\ Allocates(free, q, heap.size[o])
          /\ backward' = [backward EXCEPT ![o] = {[region |-> q, pos |-> StartIn(free, q)]}]
          /\ free' = [region |-> q, pos |-> StartIn(free, q) + heap.size[o]]
          /\ top' = TopsLeaving(free, q)
    BY DEF BackwardMarked
  <1>4. Visited(o) /\ freeAt[o] = {free}
    BY <1>1 DEF HistoryInv, MeetsAgain, Walking
  <1>5. PICK f \in Place, k \in Regions :
          /\ freeAt[o] = {f} /\ Allocates(f, k, heap.size[o])
          /\ forward[o] = {[region |-> k, pos |-> StartIn(f, k)]}
    BY <1>1, <1>2, <1>4 DEF HistoryInv, AllocatedInv
  <1>6. f = free
    BY <1>4, <1>5
  <1>7. k = q
    <2>1. /\ Regions \subseteq Nat /\ heap.size[o] \in Nat
          /\ \A r \in Regions : StartIn(free, r) \in Nat /\ heap.capacity[r] \in Nat
      BY <1>2, HeapFacts DEF StartIn, Place
    <2>2. Allocates(free, q, heap.size[o]) /\ Allocates(free, k, heap.size[o])
      BY <1>3, <1>5, <1>6
    <2> QED BY ONLY <2>1, <2>2, AllocatesUnique
  <1>8. backward'[o] = forward[o] /\ \A a \in Old : a # o => backward'[a] = backward[a]
    BY <1>2, <1>3, <1>5, <1>6, <1>7
  <1>9. PassesAgree'
    BY <1>1, <1>8 DEF HistoryInv, PassesAgree
  <1>10. After(o) = {free'}
    <2>1. {[region |-> p.region, pos |-> p.pos + heap.size[o]] : p \in forward[o]} = {free'}
      BY ONLY <1>3, <1>5, <1>6, <1>7, PlaceAfter
    <2> QED BY <1>1, <2>1 DEF After
  <1>11. MeetsAgain'
    <2> SUFFICES ASSUME more' PROVE Visited(obj') /\ freeAt[obj'] = {free'}
      BY <1>1 DEF MeetsAgain, Visited
    <2>1. /\ top' \in [Regions -> Nat]
          /\ \A r \in Regions : o.region <= r => top'[r] = heap.top[r]
      <3>1. IInv'
        BY BackwardMarkedInv
      <3>2. \A r \in Regions : o.region <= r => ~(r < q)
        <4>1. q <= o.region /\ q \in Nat /\ o.region \in Nat /\ Regions \subseteq Nat
          <5>1. q <= o.region /\ q \in Regions /\ o.region \in Regions /\ Regions \subseteq Nat
            BY <1>1, <1>2, <1>3, HeapFacts, WalkingFacts, AllocateLemma
          <5> QED BY <5>1
        <4> QED BY <4>1
      <3> QED BY <1>1, <1>2, <1>3, <3>1, <3>2 DEF TopsLeaving, IInv, TypeOK
    <2>2. StepsTo(o, heap.size[o], top', obj', TRUE)
      <3>1. more' = TRUE
        BY BackwardMarkedInv DEF IInv, TypeOK
      <3> QED BY <3>1 DEF BackwardMarked
    <2>3. Successor(o, obj')
      <3>1. \A r \in Regions : o.region <= r => top'[r] = heap.top[r]
        BY <2>1
      <3>2. o \in Old /\ WellFormed(heap)
        BY <1>2
      <3> QED BY ONLY <2>2, <3>1, <3>2, SuccessorLocal
    <2>4. obj' \in Old
      BY <1>1, BackwardMarkedInv DEF IInv, WalkInv, Walking
    <2>5. MetAt(obj', After(o))
      BY <1>2, <1>4, <2>3, <2>4 DEF HistoryInv, SuccessorInv
    <2> QED BY <1>1, <1>10, <2>5 DEF MetAt
  <1>12. NotMovedYet'
    BY <1>1 DEF NotMovedYet
  <1> QED BY <1>1, <1>9, <1>11, <1>12, SameHistory

\* The second pass, over a dead object that is not a FreeBlock.
LEMMA BackwardUnmarkedHistory == IInv /\ HistoryInv /\ BackwardUnmarked => HistoryInv'
  <1> SUFFICES ASSUME NEW o, o = obj, IInv, HistoryInv, BackwardUnmarked PROVE HistoryInv'
    OBVIOUS
  <1>1. /\ Walking /\ pass = "backward" /\ ~Live(o) /\ ~Forwarding /\ ~Forwarding'
        /\ UNCHANGED <<heap, pass, free, prev, jump, forward, backward, freeAt>>
        /\ Old' = Old /\ Regions' = Regions
    BY DEF BackwardUnmarked, Walking, Forwarding, Old, Regions
  <1>2. /\ o \in Old /\ WellFormed(heap)
        /\ \A r \in Regions : o.region <= r => top[r] = heap.top[r]
    BY <1>1, WalkingFacts
  <1>3. MeetsAgain'
    <2> SUFFICES ASSUME more' PROVE Visited(obj') /\ freeAt[obj'] = {free}
      BY <1>1 DEF MeetsAgain, Visited
    <2>1. more' = TRUE /\ obj' \in Old
      BY <1>1, BackwardUnmarkedInv DEF IInv, TypeOK, WalkInv, Walking
    <2>2. StepsTo(o, heap.size[o], top, obj', TRUE)
      BY <2>1 DEF BackwardUnmarked
    <2>3. Successor(o, obj')
      BY <1>2, <2>2, SuccessorLocal
    <2>4. Visited(o) /\ freeAt[o] = {free}
      BY <1>1 DEF HistoryInv, MeetsAgain, Walking
    <2>5. MetAt(obj', freeAt[o])
      BY <1>1, <1>2, <2>1, <2>3, <2>4 DEF HistoryInv, SuccessorInv, After
    <2> QED BY <1>1, <2>4, <2>5 DEF MetAt
  <1>4. NotMovedYet' /\ PassesAgree'
    BY <1>1 DEF NotMovedYet, HistoryInv, PassesAgree
  <1> QED BY <1>1, <1>3, <1>4, SameHistory

\* The second pass, over a FreeBlock.
LEMMA BackwardFreeBlockHistory == IInv /\ HistoryInv /\ BackwardFreeBlock => HistoryInv'
  <1> SUFFICES ASSUME IInv, HistoryInv, BackwardFreeBlock PROVE HistoryInv'
    OBVIOUS
  <1>1. /\ Walking /\ pass = "backward" /\ more /\ obj \in Old /\ ~Forwarding /\ ~Forwarding'
        /\ UNCHANGED <<heap, pass, free, prev, jump, forward, backward, freeAt>>
        /\ Old' = Old /\ Regions' = Regions
    BY WalkingFacts DEF BackwardFreeBlock, Walking, Forwarding, Old, Regions
  <1>2. PICK w \in jump[obj] : obj' = w.place /\ more' = w.more
    BY DEF BackwardFreeBlock
  <1>3. Visited(obj) /\ freeAt[obj] = {free}
    BY <1>1 DEF HistoryInv, MeetsAgain
  <1>4. w.more => Visited(w.place) /\ freeAt[w.place] = {free}
    BY <1>1, <1>2, <1>3 DEF HistoryInv, RunInv, MetAt
  <1>5. MeetsAgain'
    BY <1>1, <1>2, <1>4 DEF MeetsAgain, Visited
  <1>6. NotMovedYet' /\ PassesAgree'
    BY <1>1 DEF NotMovedYet, HistoryInv, PassesAgree
  <1> QED BY <1>1, <1>5, <1>6, SameHistory

\* Releasing the regions.
LEMMA FinishHistory == IInv /\ HistoryInv /\ Finish => HistoryInv'
  <1> SUFFICES ASSUME IInv, HistoryInv, Finish PROVE HistoryInv'
    OBVIOUS
  <1>1. /\ UNCHANGED <<heap, prev, jump, forward, backward, freeAt>>
        /\ pass' = "done" /\ ~Forwarding /\ ~Forwarding'
        /\ Old' = Old /\ Regions' = Regions
    BY DEF Finish, Forwarding, Old, Regions
  <1>2. MeetsAgain' /\ NotMovedYet' /\ PassesAgree'
    BY <1>1 DEF MeetsAgain, NotMovedYet, HistoryInv, PassesAgree
  <1> QED BY <1>1, <1>2, SameHistory

\* Every step preserves the history.
LEMMA NextHistory == IInv /\ HistoryInv /\ [Next]_vars => HistoryInv'
  <1>1. ASSUME HistoryInv, UNCHANGED vars PROVE HistoryInv'
    <2>1. /\ UNCHANGED <<heap, pass, obj, more, free, prev, jump, top, forward, backward, freeAt>>
          /\ Old' = Old /\ Regions' = Regions
      BY <1>1 DEF vars, Old, Regions
    <2>2. AllocatedInv' /\ RunInv' /\ PrevInv' /\ VisitedInv' /\ LoadedInv'
      BY <1>1, <2>1 DEF HistoryInv, AllocatedInv, RunInv, PrevInv, VisitedInv, LoadedInv, Visited,
         Forwarding, MetAt, Allocates, StartIn, Live, Loaded
    <2>3. SuccessorInv'
      BY <1>1, <2>1 DEF HistoryInv, SuccessorInv, Visited, Successor, StepsTo, IsNextRegion, After,
         MetAt, Forwarding, Live
    <2>4. MeetsAgain' /\ NotMovedYet' /\ PassesAgree'
      BY <1>1, <2>1 DEF HistoryInv, MeetsAgain, NotMovedYet, PassesAgree, Visited
    <2> QED BY <2>2, <2>3, <2>4 DEF HistoryInv
  <1> QED
    BY <1>1, NextInv, ForwardMarkedHistory, ForwardUnmarkedHistory, StartBackwardHistory,
       BackwardMarkedHistory, BackwardUnmarkedHistory, BackwardFreeBlockHistory, FinishHistory
    DEF Next

\* Both passes give every object the same place.
THEOREM PassesGiveSamePlace == Spec => []PassesAgree
  <1>1. HistoryInv => PassesAgree
    BY DEF HistoryInv
  <1> QED BY <1>1, InitInv, InitHistory, NextInv, NextHistory, PTL DEF Spec

-----------------------------------------------------------------------------
(* memmove destroys nothing: the objects moved so far end before the       *)
(* allocator, which is not after the objects still to be visited.          *)

\* An object of the given size at p ends at f or before it.
EndsBy(p, size, f) == p.region < f.region \/ (p.region = f.region /\ p.pos + size <= f.pos)

MoveInv ==
  /\ pass = "forward" => \A a \in Old : backward[a] = {}
  /\ \A a \in Old : \A p \in backward[a] : EndsBy(p, heap.size[a], free)
  /\ \A a, b \in Old : a # b =>
       \A p \in backward[a] : \A q \in backward[b] : ~Overlap(p, heap.size[a], q, heap.size[b])

\* What ends by f does not overlap with what starts at f or after it.
LEMMA EndsByNoOverlap ==
  ASSUME NEW p \in Place, NEW n \in Nat, NEW f \in Place, NEW q \in Place, NEW m \in Nat,
         EndsBy(p, n, f), NotAfter(f, q)
  PROVE  ~Overlap(p, n, q, m) /\ ~Overlap(q, m, p, n)
  BY DEF EndsBy, NotAfter, Before, Overlap, Place

\* A move goes after everything moved before it, and ends by the allocator.
LEMMA BackwardMarkedMove == IInv /\ MoveInv /\ BackwardMarked => MoveInv'
  <1> SUFFICES ASSUME NEW o, o = obj, IInv, MoveInv, BackwardMarked PROVE MoveInv'
    OBVIOUS
  <1>1. /\ Walking /\ pass' = "backward" /\ heap' = heap /\ Old' = Old
        /\ o \in Old /\ WellFormed(heap) /\ free \in Place /\ free.region \in Regions
        /\ NotAfter(free, o) /\ DOMAIN backward = Old
        /\ \A a \in Old : \A p \in backward[a] : p \in Place
    <2>1. Walking
      BY DEF BackwardMarked, Walking
    <2> QED BY <2>1, WalkingFacts DEF BackwardMarked, Old, IInv, TypeOK, AtMostOne
  <1>2. PICK q \in Regions :
          /\ Allocates(free, q, heap.size[o])
          /\ backward' = [backward EXCEPT ![o] = {[region |-> q, pos |-> StartIn(free, q)]}]
          /\ free' = [region |-> q, pos |-> StartIn(free, q) + heap.size[o]]
    BY DEF BackwardMarked
  <1>3. \A a \in Old : heap.size[a] \in Nat
    BY <1>1, HeapFacts
  <1>4. /\ q \in Nat /\ free.region \in Nat /\ free.region <= q
        /\ StartIn(free, q) \in Nat
    <2>1. q \in Regions /\ free.region <= q /\ StartIn(free, q) \in Nat
      BY <1>1, <1>2, AllocateLemma
    <2> QED BY <1>1, <2>1, HeapFacts DEF Place
  <1> DEFINE place == [region |-> q, pos |-> StartIn(free, q)]
  <1>5. place \in Place /\ NotAfter(free, place)
    <2>1. CASE q = free.region
      BY <1>1, <1>4, <2>1 DEF NotAfter, Place, StartIn
    <2>2. CASE q # free.region
      BY <1>1, <1>4, <2>2 DEF NotAfter, Before, Place
    <2> QED BY <2>1, <2>2
  <1>6. EndsBy(place, heap.size[o], free')
    BY <1>1, <1>2, <1>3, <1>4 DEF EndsBy
  <1>7. \A a \in Old : \A p \in backward[a] : EndsBy(p, heap.size[a], free')
    <2> SUFFICES ASSUME NEW a \in Old, NEW p \in backward[a] PROVE EndsBy(p, heap.size[a], free')
      OBVIOUS
    <2>1. p \in Place /\ EndsBy(p, heap.size[a], free) /\ heap.size[a] \in Nat
          /\ heap.size[o] \in Nat
      BY <1>1, <1>3 DEF MoveInv
    <2>2. CASE q = free.region
      <3>1. free'.region = free.region /\ free'.pos = free.pos + heap.size[o]
        BY <1>2, <2>2 DEF StartIn
      <3> QED BY <1>1, <2>1, <3>1 DEF EndsBy, Place
    <2>3. CASE q # free.region
      BY <1>2, <1>4, <2>1, <2>3 DEF EndsBy, Place
    <2> QED BY <2>2, <2>3
  <1>8. \A a \in Old : \A p \in backward[a] :
          ~Overlap(p, heap.size[a], place, heap.size[o]) /\ ~Overlap(place, heap.size[o], p, heap.size[a])
    <2> SUFFICES ASSUME NEW a \in Old, NEW p \in backward[a]
                 PROVE  /\ ~Overlap(p, heap.size[a], place, heap.size[o])
                        /\ ~Overlap(place, heap.size[o], p, heap.size[a])
      OBVIOUS
    <2>1. p \in Place /\ EndsBy(p, heap.size[a], free) /\ heap.size[a] \in Nat
          /\ heap.size[o] \in Nat
      BY <1>1, <1>3 DEF MoveInv
    <2> HIDE DEF place
    <2> QED BY <1>1, <1>5, <2>1, EndsByNoOverlap
  <1>9. \A a \in Old : \A p \in backward'[a] : (a = o /\ p = place) \/ (a # o /\ p \in backward[a])
    BY <1>1, <1>2
  <1>10. \A a \in Old : \A p \in backward'[a] : EndsBy(p, heap.size[a], free')
    BY <1>6, <1>7, <1>9
  <1>11. \A a, b \in Old : a # b =>
          \A p \in backward'[a] : \A r \in backward'[b] : ~Overlap(p, heap.size[a], r, heap.size[b])
    <2> HIDE DEF place
    <2> QED BY <1>8, <1>9 DEF MoveInv
  <1> QED BY <1>1, <1>10, <1>11 DEF MoveInv, EndsBy, Overlap

\* No other step moves anything.
LEMMA NextMove == IInv /\ MoveInv /\ [Next]_vars => MoveInv'
  <1> SUFFICES ASSUME IInv, MoveInv, [Next]_vars PROVE MoveInv'
    OBVIOUS
  <1>1. CASE BackwardMarked
    BY <1>1, BackwardMarkedMove
  <1>2. CASE ForwardMarked \/ ForwardUnmarked
    <2>1. /\ Old' = Old /\ heap' = heap /\ backward' = backward
          /\ \A a \in Old : backward[a] = {}
      BY <1>2 DEF ForwardMarked, ForwardUnmarked, MoveInv, Old
    <2> QED BY <2>1 DEF MoveInv
  <1>3. CASE StartBackward
    <2>1. /\ Old' = Old /\ heap' = heap /\ backward' = backward
          /\ \A a \in Old : backward[a] = {}
      BY <1>3 DEF StartBackward, MoveInv, Old
    <2> QED BY <2>1 DEF MoveInv
  <1>4. CASE BackwardUnmarked \/ BackwardFreeBlock \/ Finish \/ UNCHANGED vars
    <2>1. /\ Old' = Old /\ heap' = heap /\ backward' = backward /\ free' = free
          /\ pass' = "forward" => pass = "forward"
      BY <1>4 DEF BackwardUnmarked, BackwardFreeBlock, Finish, vars, Old
    <2> QED BY <2>1 DEF MoveInv, EndsBy, Overlap
  <1> QED BY <1>1, <1>2, <1>3, <1>4 DEF Next

\* Moving objects overwrites no object the walk has still to read and none it has moved.
THEOREM MovesAreSafe == Spec => []MovesClobberNothing
  <1>1. Init => MoveInv
    BY DEF Init, MoveInv
  <1>2. IInv /\ MoveInv => MovesClobberNothing
    <2> SUFFICES ASSUME IInv, MoveInv, NEW a \in Old, NEW p \in backward[a],
                        pass = "backward", more, NEW b \in Old, NotAfter(obj, b)
                 PROVE  ~Overlap(p, heap.size[a], b, heap.size[b])
      BY DEF MovesClobberNothing, MoveInv
    <2>1. Walking
      BY DEF Walking
    <2>2. /\ free \in Place /\ obj \in Place /\ NotAfter(free, obj) /\ WellFormed(heap)
          /\ p \in Place /\ EndsBy(p, heap.size[a], free)
      BY <2>1, WalkingFacts DEF IInv, TypeOK, AtMostOne, MoveInv
    <2>3. b \in Place /\ heap.size[a] \in Nat /\ heap.size[b] \in Nat
      BY <2>2, HeapFacts
    <2>4. NotAfter(free, b)
      BY <2>2, <2>3, OrderTransitive DEF NotAfter
    <2> QED BY <2>2, <2>3, <2>4, EndsByNoOverlap
  <1> QED BY <1>1, <1>2, InitInv, NextInv, NextMove, PTL DEF Spec

-----------------------------------------------------------------------------
(* The second pass moves every live object, and the new places fill their  *)
(* regions without a gap.                                                  *)

\* The walk is past b.
Passed(b) == more => Before(b, obj)

\* A dead run holds no live object, so that the second walk, which jumps over it, has
\* moved every live object it is past.
CoverInv ==
  /\ \A a \in Old : \A w \in jump[a] : \A b \in Old :
       NotAfter(a, b) /\ (w.more => Before(b, w.place)) => ~Live(b)
  /\ pass = "forward" => \A a \in prev : \A b \in Old : NotAfter(a, b) /\ Passed(b) => ~Live(b)
  /\ pass # "forward" => \A b \in Old : Live(b) /\ Passed(b) => backward[b] # {}
  /\ \A a \in Old : backward[a] # {} => Live(a)
  /\ pass = "done" => ~more

\* How far a region the allocator has been in is filled, and the places that were given out.
FilledTo(r) == IF r = free.region THEN free.pos ELSE top[r]
Given(p) == \E b \in Old : p \in backward[b]

FillInv ==
  pass # "forward" =>
    /\ \A r \in Regions : r <= free.region =>
         /\ FilledTo(r) \in Nat /\ FilledTo(r) <= heap.capacity[r]
         /\ FilledTo(r) # 0 => Given([region |-> r, pos |-> 0])
    /\ \A a \in Old : \A p \in backward[a] :
         /\ p.region \in Regions /\ p.region <= free.region
         /\ p.pos + heap.size[a] <= FilledTo(p.region)
         /\ p.pos + heap.size[a] < FilledTo(p.region) =>
              Given([region |-> p.region, pos |-> p.pos + heap.size[a]])
    /\ pass = "done" => top[free.region] = free.pos

\* RegionWalker::step passes over no object.
LEMMA StepPasses ==
  ASSUME WellFormed(heap), NEW a \in Old, NEW tops, NEW to, NEW goes,
         \A r \in Regions : a.region <= r => tops[r] = heap.top[r],
         StepsTo(a, heap.size[a], tops, to, goes),
         NEW c \in Old, goes => Before(c, to)
  PROVE  NotAfter(c, a)
  <1> SUFFICES ASSUME ~NotAfter(c, a) PROVE FALSE
    OBVIOUS
  <1>1. /\ a \in Place /\ c \in Place /\ a.region \in Regions /\ c.region \in Regions
        /\ Regions \subseteq Nat \ {0}
        /\ a.pos + heap.size[a] <= heap.top[a.region] /\ c.pos + heap.size[c] <= heap.top[c.region]
        /\ a.region = c.region /\ a.pos < c.pos => a.pos + heap.size[a] <= c.pos
    BY HeapFacts
  <1>2. /\ heap.size[a] \in Nat \ {0} /\ heap.size[c] \in Nat \ {0}
        /\ heap.top[a.region] \in Nat /\ heap.top[c.region] \in Nat
        /\ a.pos \in Nat /\ c.pos \in Nat /\ a.region \in Nat /\ c.region \in Nat
    BY <1>1, HeapFacts DEF Place
  <1>3. Before(a, c)
    <2>1. a = [region |-> a.region, pos |-> a.pos] /\ c = [region |-> c.region, pos |-> c.pos]
      BY <1>1 DEF Place
    <2> QED BY <1>2, <2>1 DEF NotAfter, Before
  <1>4. tops[a.region] = heap.top[a.region] /\ (a.region < c.region => tops[c.region] = heap.top[c.region])
    BY <1>1, <1>2
  <1>5. CASE a.region = c.region
    <2>1. a.pos + heap.size[a] <= c.pos
      BY <1>1, <1>2, <1>3, <1>5 DEF Before
    <2>2. a.pos + heap.size[a] # tops[a.region]
      BY <1>1, <1>2, <1>4, <1>5, <2>1
    <2>3. goes = TRUE /\ to.region = a.region /\ to.pos = a.pos + heap.size[a]
      BY <1>1, <2>2 DEF StepsTo, Place
    <2> QED BY <1>2, <1>5, <2>1, <2>3 DEF Before
  <1>6. CASE a.region # c.region
    <2>1. a.region < c.region /\ tops[c.region] # 0
      BY <1>1, <1>2, <1>3, <1>4, <1>6 DEF Before
    <2>2. CASE a.pos + heap.size[a] # tops[a.region]
      <3>1. goes = TRUE /\ to.region = a.region
        BY <1>1, <2>2 DEF StepsTo, Place
      <3> QED BY <1>2, <2>1, <3>1 DEF Before
    <2>3. CASE a.pos + heap.size[a] = tops[a.region]
      <3>1. PICK q \in Regions : /\ IsNextRegion(a.region, q, tops)
                                 /\ goes = TRUE /\ to = [region |-> q, pos |-> 0]
        BY <1>1, <2>1, <2>3 DEF StepsTo
      <3>2. ~(c.region < q) /\ q \in Nat
        BY <1>1, <2>1, <3>1 DEF IsNextRegion
      <3>3. to.region = q /\ to.pos = 0 /\ Before(c, to)
        BY <3>1
      <3> QED BY <1>2, <3>2, <3>3 DEF Before
    <2> QED BY <2>2, <2>3
  <1> QED BY <1>5, <1>6

\* After a step of the walk it is past the object it stood on and those it was past.
LEMMA StepPassed ==
  ASSUME IInv, Walking, NEW tops, \A r \in Regions : obj.region <= r => tops[r] = heap.top[r],
         StepsTo(obj, heap.size[obj], tops, obj', more'), NEW b \in Old, Passed(b)'
  PROVE  b = obj \/ Passed(b)
  <1>1. obj \in Old /\ WellFormed(heap)
    BY WalkingFacts
  <1>2. more' => Before(b, obj')
    BY DEF Passed
  <1>3. NotAfter(b, obj)
    <2> DEFINE a == obj
               to == obj'
               goes == more'
    <2>1. /\ a \in Old /\ \A r \in Regions : a.region <= r => tops[r] = heap.top[r]
          /\ StepsTo(a, heap.size[a], tops, to, goes) /\ (goes => Before(b, to))
      BY <1>1, <1>2
    <2> HIDE DEF a, to, goes
    <2>2. NotAfter(b, a)
      BY <1>1, <2>1, StepPasses
    <2> QED BY <2>2 DEF a
  <1> QED BY <1>3 DEF NotAfter, Passed

\* The order of the walk is total and no place is before itself.
LEMMA OrderTotal ==
  ASSUME NEW a \in Place, NEW b \in Place
  PROVE  /\ Before(a, b) \/ NotAfter(b, a)
         /\ ~(Before(a, b) /\ NotAfter(b, a))
         /\ NotAfter(a, b) /\ NotAfter(b, a) => a = b
  <1>1. a = [region |-> a.region, pos |-> a.pos] /\ b = [region |-> b.region, pos |-> b.pos]
    BY DEF Place
  <1> QED BY <1>1 DEF Before, NotAfter, Place

\* Nothing is jumped over that is live.
LEMMA CoverStep == IInv /\ MoveInv /\ CoverInv /\ [Next]_vars => CoverInv'
  <1> SUFFICES ASSUME NEW o, o = obj, IInv, MoveInv, CoverInv, [Next]_vars PROVE CoverInv'
    OBVIOUS
  <1>0. WellFormed(heap) /\ \A a \in Old : a \in Place
    BY HeapFacts DEF IInv, TypeOK
  <1>1. CASE ForwardMarked
    <2>1. /\ pass = "forward" /\ Old' = Old /\ prev' = {}
          /\ UNCHANGED <<heap, pass, jump, backward>>
      BY <1>1 DEF ForwardMarked, Old
    <2> QED BY <2>1 DEF CoverInv, Live
  <1>2. CASE ForwardUnmarked
    <2>1. /\ Walking /\ pass = "forward" /\ Old' = Old /\ UNCHANGED <<heap, pass, backward>>
          /\ jump' = [a \in Old |-> IF a \in prev THEN {[place |-> obj', more |-> more']} ELSE jump[a]]
          /\ prev' = (IF prev = {} THEN {obj} ELSE prev) /\ ~Live(obj)
      BY <1>2 DEF ForwardUnmarked, FreeBlockTo, Old, Walking
    <2>2. \A b \in Old : Passed(b)' => b = obj \/ Passed(b)
      <3>1. \A r \in Regions : obj.region <= r => top[r] = heap.top[r]
        BY <2>1, WalkingFacts
      <3>2. StepsTo(obj, heap.size[obj], top, obj', more')
        BY <1>2 DEF ForwardUnmarked
      <3> QED BY <2>1, <3>1, <3>2, StepPassed
    <2>3. obj \in Old
      BY <2>1, WalkingFacts
    <2>4. \A a \in prev : \A b \in Old : NotAfter(a, b) /\ Passed(b)' => ~Live(b)
      BY <2>1, <2>2 DEF CoverInv
    <2>5. \A b \in Old : NotAfter(obj, b) /\ Passed(b)' => ~Live(b)
      <3> SUFFICES ASSUME NEW b \in Old, NotAfter(obj, b), Passed(b)' PROVE b = obj
        BY <2>1
      <3>1. b = obj \/ Before(b, obj)
        BY <2>1, <2>2 DEF Passed, Walking
      <3> QED BY <1>0, <2>3, <3>1, OrderTotal
    <2>6. \A a \in prev' : \A b \in Old : NotAfter(a, b) /\ Passed(b)' => ~Live(b)
      BY <2>1, <2>4, <2>5
    <2>7. ASSUME NEW a \in Old, NEW w \in jump'[a], NEW b \in Old, NotAfter(a, b),
                 w.more => Before(b, w.place)
          PROVE  ~Live(b)
      <3>1. CASE a \in prev
        <4>1. w = [place |-> obj', more |-> more']
          BY <2>1, <3>1
        <4>2. Passed(b)'
          BY <2>7, <4>1 DEF Passed
        <4> QED BY <2>4, <2>7, <3>1, <4>2
      <3>2. CASE a \notin prev
        <4>1. w \in jump[a]
          BY <2>1, <3>2
        <4> QED BY <2>7, <4>1 DEF CoverInv
      <3> QED BY <3>1, <3>2
    <2> QED BY <2>1, <2>6, <2>7 DEF CoverInv, Live
  <1>3. CASE StartBackward
    <2>1. /\ Old' = Old /\ UNCHANGED <<heap, jump, backward>> /\ pass' = "backward" /\ more' = TRUE
      BY <1>3 DEF StartBackward, Old
    <2>2. PICK a \in Old : Loaded(heap, a) /\ obj' = a
      BY <1>3 DEF StartBackward
    <2>3. \A b \in Old : ~Passed(b)'
      <3> SUFFICES ASSUME NEW b \in Old, Before(b, a) PROVE FALSE
        BY <2>1, <2>2 DEF Passed
      <3>1. NotAfter(a, b)
        BY <2>2 DEF Loaded, Old
      <3> QED BY <1>0, <3>1, OrderTotal
    <2> QED BY <2>1, <2>3 DEF CoverInv, Live
  <1>4. CASE BackwardMarked
    <2>1. /\ Walking /\ pass = "backward" /\ Old' = Old /\ UNCHANGED <<heap, pass, prev, jump>>
          /\ Live(obj) /\ DOMAIN backward = Old /\ o \in Old
          /\ \E p : backward' = [backward EXCEPT ![o] = {p}]
      BY <1>4, WalkingFacts DEF BackwardMarked, Old, Walking, IInv, TypeOK
    <2>2. \A r \in Regions : obj.region <= r => top'[r] = heap.top[r]
      <3>1. PICK q \in Regions : Allocates(free, q, heap.size[obj]) /\ top' = TopsLeaving(free, q)
        BY <1>4 DEF BackwardMarked
      <3>2. q \in Regions /\ q <= obj.region
        BY <2>1, <3>1, WalkingFacts, AllocateLemma
      <3>3. Regions \subseteq Nat /\ obj.region \in Nat /\ q \in Nat
        <4>1. obj.region \in Regions /\ Regions \subseteq Nat \ {0}
          BY <1>0, <2>1, HeapFacts
        <4> QED BY <3>2, <4>1
      <3> SUFFICES ASSUME NEW r \in Regions, obj.region <= r PROVE top'[r] = heap.top[r]
        OBVIOUS
      <3>4. ~(r < q)
        BY <3>2, <3>3
      <3> QED BY <2>1, <3>1, <3>4, WalkingFacts DEF TopsLeaving
    <2>3. \A b \in Old : Passed(b)' => b = obj \/ Passed(b)
      <3>1. StepsTo(obj, heap.size[obj], top', obj', more')
        BY <1>4 DEF BackwardMarked
      <3> QED BY <2>1, <2>2, <3>1, StepPassed
    <2>4. \A b \in Old : Live(b) /\ Passed(b)' => backward'[b] # {}
      BY <2>1, <2>3 DEF CoverInv
    <2>5. \A b \in Old : backward'[b] # {} => Live(b)
      BY <2>1 DEF CoverInv
    <2> QED BY <2>1, <2>4, <2>5 DEF CoverInv, Live
  <1>5. CASE BackwardUnmarked
    <2>1. /\ Walking /\ pass = "backward" /\ Old' = Old
          /\ UNCHANGED <<heap, pass, prev, jump, backward>> /\ ~Live(obj)
      BY <1>5 DEF BackwardUnmarked, Old, Walking
    <2>2. \A b \in Old : Passed(b)' => b = obj \/ Passed(b)
      <3>1. \A r \in Regions : obj.region <= r => top[r] = heap.top[r]
        BY <2>1, WalkingFacts
      <3>2. StepsTo(obj, heap.size[obj], top, obj', more')
        BY <1>5 DEF BackwardUnmarked
      <3> QED BY <2>1, <3>1, <3>2, StepPassed
    <2> QED BY <2>1, <2>2 DEF CoverInv, Live
  <1>6. CASE BackwardFreeBlock
    <2>1. /\ Walking /\ pass = "backward" /\ Old' = Old /\ obj \in Old
          /\ UNCHANGED <<heap, pass, prev, jump, backward>>
      BY <1>6, WalkingFacts DEF BackwardFreeBlock, Old, Walking
    <2>2. PICK w \in jump[obj] : obj' = w.place /\ more' = w.more
      BY <1>6 DEF BackwardFreeBlock
    <2>3. \A b \in Old : Passed(b)' => ~Live(b) \/ Passed(b)
      <3> SUFFICES ASSUME NEW b \in Old, Passed(b)', ~Passed(b) PROVE ~Live(b)
        OBVIOUS
      <3>1. ~Before(b, obj)
        BY DEF Passed
      <3>2. NotAfter(obj, b)
        BY <1>0, <2>1, <3>1, OrderTotal
      <3>3. w.more => Before(b, w.place)
        BY <2>2 DEF Passed
      <3> QED BY <2>1, <2>2, <3>2, <3>3 DEF CoverInv
    <2> QED BY <2>1, <2>3 DEF CoverInv, Live
  <1>7. CASE Finish \/ UNCHANGED vars
    <2>1. CASE Finish
      <3>1. /\ Old' = Old /\ UNCHANGED <<heap, obj, more, prev, jump, backward>>
            /\ pass = "backward" /\ pass' = "done" /\ ~more
        BY <2>1 DEF Finish, Old
      <3> QED BY <3>1 DEF CoverInv, Live, Passed
    <2>2. CASE UNCHANGED vars
      <3>1. Old' = Old /\ UNCHANGED <<heap, pass, obj, more, prev, jump, backward>>
        BY <2>2 DEF vars, Old
      <3> QED BY <3>1 DEF CoverInv, Live, Passed
    <2> QED BY <1>7, <2>1, <2>2
  <1> QED BY <1>1, <1>2, <1>3, <1>4, <1>5, <1>6, <1>7 DEF Next

\* The new places go on filling the regions.
LEMMA FillMarked == IInv /\ HistoryInv /\ FillInv /\ BackwardMarked => FillInv'
  <1> SUFFICES ASSUME NEW o, o = obj, IInv, HistoryInv, FillInv, BackwardMarked PROVE FillInv'
    OBVIOUS
  <1>1. /\ Walking /\ pass = "backward" /\ pass' = "backward" /\ heap' = heap /\ Old' = Old
        /\ Regions' = Regions /\ o \in Old /\ WellFormed(heap) /\ free \in Place
        /\ free.region \in Regions /\ NotAfter(free, o) /\ DOMAIN backward = Old
        /\ \A a \in Old : \A p \in backward[a] : p \in Place
    <2>1. Walking
      BY DEF BackwardMarked, Walking
    <2> QED BY <2>1, WalkingFacts DEF BackwardMarked, Old, Regions, IInv, TypeOK, AtMostOne
  <1>2. PICK q \in Regions :
          /\ Allocates(free, q, heap.size[o])
          /\ backward' = [backward EXCEPT ![o] = {[region |-> q, pos |-> StartIn(free, q)]}]
          /\ free' = [region |-> q, pos |-> StartIn(free, q) + heap.size[o]]
          /\ top' = TopsLeaving(free, q)
    BY DEF BackwardMarked
  <1>3. \A a \in Old : heap.size[a] \in Nat \ {0}
    BY <1>1, HeapFacts
  <1>4. /\ q \in Nat /\ free.region \in Nat /\ free.region <= q /\ StartIn(free, q) \in Nat
        /\ free.pos \in Nat /\ Regions \subseteq Nat
        /\ StartIn(free, q) + heap.size[o] <= heap.capacity[q]
        /\ \A r \in Regions : heap.capacity[r] \in Nat
    <2>1. q \in Regions /\ free.region <= q /\ StartIn(free, q) \in Nat
      BY <1>1, <1>2, AllocateLemma
    <2>2. Regions \subseteq Nat /\ \A r \in Regions : heap.capacity[r] \in Nat
      BY <1>1, HeapFacts
    <2> QED BY <1>1, <1>2, <2>1, <2>2 DEF Place, Allocates
  <1> DEFINE place == [region |-> q, pos |-> StartIn(free, q)]
  <1>5. \A r \in Regions : r <= q /\ r # q =>
          FilledTo(r)' = IF r <= free.region THEN FilledTo(r) ELSE 0
    <2> SUFFICES ASSUME NEW r \in Regions, r <= q, r # q
                 PROVE  FilledTo(r)' = IF r <= free.region THEN FilledTo(r) ELSE 0
      OBVIOUS
    <2>1. r \in Nat /\ r < q
      BY <1>4
    <2>2. FilledTo(r)' = TopsLeaving(free, q)[r]
      BY <1>2, <2>1 DEF FilledTo
    <2>3. FilledTo(r)' = IF free.region <= r THEN StartIn(free, r) ELSE top[r]
      BY <2>1, <2>2 DEF TopsLeaving
    <2> QED BY <1>4, <2>1, <2>3 DEF FilledTo, StartIn
  <1>6. FilledTo(q)' = StartIn(free, q) + heap.size[o]
    BY <1>2 DEF FilledTo
  <1>7. free.region = q => FilledTo(q) = StartIn(free, q)
    BY DEF FilledTo, StartIn
  <1>8. \A p : Given(p) \/ p = place => Given(p)'
    <2>1. o \in Old' /\ place \in backward'[o]
      BY <1>1, <1>2
    <2>2. backward[o] # {} => backward'[o] = backward[o]
      <3>1. PassesAgree /\ PassesAgree'
        BY BackwardMarkedHistory DEF HistoryInv
      <3>2. backward'[o] # {}
        BY <2>1
      <3>3. forward' = forward
        BY DEF BackwardMarked
      <3> QED BY <1>1, <3>1, <3>2, <3>3 DEF PassesAgree
    <2>3. \A b \in Old : b # o => backward'[b] = backward[b]
      BY <1>1, <1>2
    <2> HIDE DEF place
    <2> QED BY <1>1, <2>1, <2>2, <2>3 DEF Given
  <1>9. ASSUME NEW r \in Regions, r <= q
        PROVE  /\ FilledTo(r)' \in Nat /\ FilledTo(r)' <= heap.capacity[r]
               /\ FilledTo(r)' # 0 => Given([region |-> r, pos |-> 0])'
    <2>1. CASE r = q
      <3>1. StartIn(free, q) = 0 => place = [region |-> r, pos |-> 0]
        BY <2>1
      <3>2. StartIn(free, q) # 0 => Given([region |-> r, pos |-> 0])
        <4> SUFFICES ASSUME StartIn(free, q) # 0 PROVE Given([region |-> r, pos |-> 0])
          OBVIOUS
        <4>1. q = free.region /\ FilledTo(q) # 0
          BY <1>7 DEF StartIn
        <4> QED BY <1>1, <1>2, <1>4, <2>1, <4>1 DEF FillInv
      <3>3. Given([region |-> r, pos |-> 0])'
        BY <1>8, <3>1, <3>2
      <3> QED BY <1>1, <1>3, <1>4, <1>6, <2>1, <3>3
    <2>2. CASE r # q /\ r <= free.region
      <3>1. FilledTo(r)' = FilledTo(r)
        BY <1>5, <1>9, <2>2
      <3>2. /\ FilledTo(r) \in Nat /\ FilledTo(r) <= heap.capacity[r]
            /\ FilledTo(r) # 0 => Given([region |-> r, pos |-> 0])
        BY <1>1, <1>9, <2>2 DEF FillInv
      <3> QED BY <1>8, <3>1, <3>2
    <2>3. CASE r # q /\ ~(r <= free.region)
      <3>1. FilledTo(r)' = 0
        BY <1>5, <1>9, <2>3
      <3>2. heap.capacity[r] \in Nat
        BY <1>4, <1>9
      <3> QED BY <3>1, <3>2
    <2> QED BY <2>1, <2>2, <2>3
  <1>10. ASSUME NEW a \in Old, NEW p \in backward'[a], NEW r, NEW e,
                r = p.region, e = p.pos + heap.size[a]
         PROVE  /\ r \in Regions /\ r <= q
                /\ e <= FilledTo(r)' /\ (e < FilledTo(r)' => Given([region |-> r, pos |-> e])')
    <2>1. CASE p = place /\ a = o
      <3>1. r = q /\ e = StartIn(free, q) + heap.size[o]
        BY <1>10, <2>1
      <3>2. FilledTo(r)' = e /\ e \in Nat
        BY <1>1, <1>3, <1>4, <1>6, <3>1
      <3> QED BY <1>2, <1>4, <3>1, <3>2
    <2>2. CASE ~(p = place /\ a = o)
      <3>1. p \in backward[a] /\ p \in Place
        BY <1>1, <1>2, <1>10, <2>2
      <3>2. /\ p.region \in Regions /\ p.region <= free.region
            /\ p.pos + heap.size[a] <= FilledTo(p.region)
            /\ p.pos + heap.size[a] < FilledTo(p.region) =>
                 Given([region |-> p.region, pos |-> p.pos + heap.size[a]])
        BY <1>1, <3>1 DEF FillInv
      <3>3. p.region \in Nat /\ p.region <= q /\ p.pos + heap.size[a] \in Nat
        BY <1>3, <1>4, <3>1, <3>2 DEF Place
      <3>4. FilledTo(p.region) \in Nat
        BY <1>1, <3>2 DEF FillInv
      <3>5. r = p.region /\ e = p.pos + heap.size[a]
        BY <1>10
      <3>6. /\ r \in Regions /\ r <= free.region /\ r <= q /\ e \in Nat /\ FilledTo(r) \in Nat
            /\ e <= FilledTo(r) /\ (e < FilledTo(r) => Given([region |-> r, pos |-> e]))
        BY <3>2, <3>3, <3>4, <3>5
      <3>7. e <= FilledTo(r)' /\ (e < FilledTo(r)' => Given([region |-> r, pos |-> e])')
        <4>1. CASE r # q
          <5>1. FilledTo(r)' = FilledTo(r)
            BY <1>5, <3>6, <4>1
          <5>2. Given([region |-> r, pos |-> e]) => Given([region |-> r, pos |-> e])'
            BY <1>8
          <5> QED BY <3>6, <5>1, <5>2
        <4>2. CASE r = q
          <5>1. q = free.region /\ FilledTo(q) = StartIn(free, q)
            BY <1>4, <1>7, <3>6, <4>2
          <5>2. FilledTo(r)' = FilledTo(r) + heap.size[o]
            BY <1>6, <4>2, <5>1
          <5>3. Given([region |-> r, pos |-> e])'
            <6>1. CASE e = FilledTo(r)
              <7>1. [region |-> r, pos |-> e] = place
                BY <4>2, <5>1, <6>1
              <7> HIDE DEF place
              <7> QED BY <1>8, <7>1
            <6>2. CASE e # FilledTo(r)
              <7>1. Given([region |-> r, pos |-> e])
                BY <3>6, <6>2
              <7> QED BY <1>8, <7>1
            <6> QED BY <6>1, <6>2
          <5>4. e <= FilledTo(r)'
            BY <1>1, <1>3, <3>6, <5>2
          <5> QED BY <5>3, <5>4
        <4> QED BY <4>1, <4>2
      <3> QED BY <3>6, <3>7
    <2> QED BY <2>1, <2>2
  <1>11. free'.region = q /\ pass' # "done"
    BY <1>1, <1>2
  <1> HIDE DEF place
  <1>12. \A a \in Old : \A p \in backward'[a] :
           /\ p.region \in Regions /\ p.region <= q
           /\ p.pos + heap.size[a] <= FilledTo(p.region)'
           /\ p.pos + heap'.size[a] < FilledTo(p.region)' =>
                Given([region |-> p.region, pos |-> p.pos + heap.size[a]])'
    <2> SUFFICES ASSUME NEW a \in Old, NEW p \in backward'[a]
                 PROVE  /\ p.region \in Regions /\ p.region <= q
                        /\ p.pos + heap.size[a] <= FilledTo(p.region)'
                        /\ p.pos + heap'.size[a] < FilledTo(p.region)' =>
                             Given([region |-> p.region, pos |-> p.pos + heap.size[a]])'
      OBVIOUS
    <2>1. PICK r, e : r = p.region /\ e = p.pos + heap.size[a]
      OBVIOUS
    <2>2. /\ r \in Regions /\ r <= q
          /\ e <= FilledTo(r)' /\ (e < FilledTo(r)' => Given([region |-> r, pos |-> e])')
      BY <1>10, <2>1
    <2> QED BY <1>1, <2>1, <2>2 DEF FilledTo, Given
  <1> QED BY <1>1, <1>9, <1>11, <1>12 DEF FillInv

\* No other step gives out a place.
LEMMA FillStep == IInv /\ HistoryInv /\ MoveInv /\ FillInv /\ [Next]_vars => FillInv'
  <1> SUFFICES ASSUME IInv, HistoryInv, MoveInv, FillInv, [Next]_vars PROVE FillInv'
    OBVIOUS
  <1>0. WellFormed(heap) /\ 1 \in Regions /\ Regions \subseteq Nat \ {0}
    BY HeapFacts DEF IInv, TypeOK
  <1>1. CASE BackwardMarked
    BY <1>1, FillMarked
  <1>2. CASE ForwardMarked \/ ForwardUnmarked
    BY <1>2 DEF ForwardMarked, ForwardUnmarked, FillInv
  <1>3. CASE StartBackward
    <2>1. /\ Old' = Old /\ Regions' = Regions /\ UNCHANGED <<heap, backward, top>>
          /\ \A a \in Old : backward[a] = {}
          /\ free' = [region |-> 1, pos |-> 0] /\ pass' = "backward"
      BY <1>3 DEF StartBackward, Old, Regions, MoveInv, FirstPlace
    <2>2. \A r \in Regions : r <= 1 => r = 1 /\ heap.capacity[r] \in Nat
      BY <1>0, HeapFacts, SMTT(30)
    <2>3. \A r \in Regions : r <= 1 => FilledTo(r)' = 0
      BY <2>1, <2>2 DEF FilledTo
    <2> QED BY <2>1, <2>2, <2>3 DEF FillInv
  <1>4. CASE BackwardUnmarked \/ BackwardFreeBlock
    <2>1. /\ Old' = Old /\ Regions' = Regions /\ UNCHANGED <<heap, backward, top, free, pass>>
      BY <1>4 DEF BackwardUnmarked, BackwardFreeBlock, Old, Regions
    <2> QED BY <2>1 DEF FillInv, FilledTo, Given
  <1>5. CASE Finish
    <2>1. /\ Old' = Old /\ Regions' = Regions /\ UNCHANGED <<heap, backward, free>>
          /\ pass = "backward" /\ pass' = "done" /\ free.region \in Regions
          /\ top' = [r \in Regions |-> IF r = free.region THEN free.pos
                                       ELSE IF r < free.region THEN top[r] ELSE 0]
      BY <1>5 DEF Finish, Old, Regions, IInv, WalkInv
    <2>2. \A r \in Regions : r <= free.region => FilledTo(r)' = FilledTo(r)
      <3> SUFFICES ASSUME NEW r \in Regions, r <= free.region PROVE FilledTo(r)' = FilledTo(r)
        OBVIOUS
      <3>1. r = free.region \/ r < free.region
        <4>1. r \in Nat /\ free.region \in Nat
          BY <1>0, <2>1
        <4> QED BY <4>1
      <3> QED BY <2>1, <3>1 DEF FilledTo
    <2>3. \A p : Given(p)' <=> Given(p)
      BY <2>1 DEF Given
    <2>4. top'[free.region] = free.pos
      BY <2>1
    <2>5. ASSUME NEW a \in Old, NEW p \in backward[a]
          PROVE  /\ p.region \in Regions /\ p.region <= free.region
                 /\ p.pos + heap.size[a] <= FilledTo(p.region)'
                 /\ p.pos + heap.size[a] < FilledTo(p.region)' =>
                      Given([region |-> p.region, pos |-> p.pos + heap.size[a]])'
      <3> DEFINE r == p.region
      <3>1. r \in Regions /\ r <= free.region
        BY <2>1, <2>5 DEF FillInv
      <3>2. FilledTo(r)' = FilledTo(r)
        <4> HIDE DEF r
        <4> QED BY <2>2, <3>1
      <3> QED BY <2>1, <2>3, <2>5, <3>1, <3>2 DEF FillInv
    <2> QED BY <2>1, <2>2, <2>3, <2>4, <2>5 DEF FillInv
  <1>6. CASE UNCHANGED vars
    <2>1. /\ Old' = Old /\ Regions' = Regions /\ UNCHANGED <<heap, backward, top, free, pass>>
      BY <1>6 DEF vars, Old, Regions
    <2> QED BY <2>1 DEF FillInv, FilledTo, Given
  <1> QED BY <1>1, <1>2, <1>3, <1>4, <1>5, <1>6 DEF Next

\* A full cover of moved objects is a heap again.
LEMMA LeavesLayout == IInv /\ MoveInv /\ CoverInv /\ FillInv => CompactedIsLayout
  <1> SUFFICES ASSUME IInv, MoveInv, CoverInv, FillInv, pass = "done" PROVE CompactedIsLayout
    BY DEF CompactedIsLayout
  <1> DEFINE last == free.region
  <1>1. /\ WellFormed(heap) /\ last \in Regions /\ Regions \subseteq Nat \ {0}
        /\ \A r \in Nat : 0 < r /\ r <= last => r \in Regions
        /\ \A r \in Regions : r <= last => r \in 1 .. last
        /\ \A r \in 1 .. last : r \in Regions /\ r <= last
    <2>1. WellFormed(heap) /\ last \in Regions
      BY DEF IInv, TypeOK, WalkInv
    <2>2. Regions \subseteq Nat \ {0} /\ \A r, q \in Nat : q \in Regions /\ 0 < r /\ r <= q => r \in Regions
      BY <2>1, HeapFacts
    <2>3. last \in Nat
      BY <2>1, <2>2
    <2> QED BY <2>1, <2>2, <2>3
  <1>2. \A a \in Old : Live(a) <=> backward[a] # {}
    BY DEF CoverInv, Passed
  <1>3. \A r \in 1 .. last : FilledTo(r) = top[r]
    BY DEF FillInv, FilledTo
  <1>4. \A a \in Old : \A p \in backward[a] : p \in Place /\ backward[a] = {p}
    BY DEF IInv, TypeOK, AtMostOne
  <1>5. \A a \in Old : heap.size[a] \in Nat \ {0} /\ \A r \in Regions : heap.size[a] <= heap.capacity[r]
    BY <1>1, HeapFacts
  <1>6. \A a, b \in Old : backward[a] # {} /\ backward[a] = backward[b] => a = b
    <2> SUFFICES ASSUME NEW a \in Old, NEW b \in Old, NEW p \in backward[a],
                        backward[a] = backward[b], a # b
                 PROVE  FALSE
      OBVIOUS
    <2>1. ~Overlap(p, heap.size[a], p, heap.size[b])
      BY DEF MoveInv
    <2>2. p.pos \in Nat /\ heap.size[a] \in Nat \ {0} /\ heap.size[b] \in Nat \ {0}
      BY <1>4, <1>5 DEF Place
    <2> QED BY <2>1, <2>2 DEF Overlap
  <1> DEFINE c == Compacted
  <1>7. /\ c.regions = last /\ c.marked = {} /\ Objects(c) = NewPlaces /\ RegionsOf(c) = 1 .. last
        /\ c.capacity = [r \in 1 .. last |-> heap.capacity[r]]
        /\ c.top = [r \in 1 .. last |-> top[r]]
        /\ \A p \in NewPlaces : c.size[p] = heap.size[CHOOSE a \in Old : backward[a] = {p}]
        /\ DOMAIN c.size = NewPlaces /\ c.size = [p \in NewPlaces |-> c.size[p]]
    BY DEF Compacted, Objects, RegionsOf
  <1>8. \A p \in NewPlaces : \E a \in Old : p \in backward[a] /\ c.size[p] = heap.size[a]
    <2> SUFFICES ASSUME NEW p \in NewPlaces
                 PROVE  \E a \in Old : p \in backward[a] /\ c.size[p] = heap.size[a]
      OBVIOUS
    <2>1. PICK b \in Old : p \in backward[b]
      BY DEF NewPlaces
    <2>2. backward[b] = {p}
      BY <1>4, <2>1
    <2> DEFINE a == CHOOSE a \in Old : backward[a] = {p}
    <2>3. a \in Old /\ backward[a] = {p}
      BY <2>2
    <2> QED BY <1>7, <2>3
  <1>9. \A a \in Old : \A p \in backward[a] : p \in NewPlaces /\ c.size[p] = heap.size[a]
    <2> SUFFICES ASSUME NEW a \in Old, NEW p \in backward[a]
                 PROVE  p \in NewPlaces /\ c.size[p] = heap.size[a]
      OBVIOUS
    <2>1. p \in NewPlaces
      BY DEF NewPlaces
    <2>2. PICK b \in Old : p \in backward[b] /\ c.size[p] = heap.size[b]
      BY <1>8, <2>1
    <2>3. backward[a] = {p} /\ backward[b] = {p}
      BY <1>4, <2>2
    <2> QED BY <1>6, <2>1, <2>2, <2>3
  <1>10. \A p : Given(p) => p \in NewPlaces
    BY DEF Given, NewPlaces
  <1> HIDE DEF c, last
  <1>11. /\ c.regions \in Nat \ {0} /\ c.marked \subseteq Objects(c)
         /\ c.capacity \in [RegionsOf(c) -> Nat] /\ c.top \in [RegionsOf(c) -> Nat]
         /\ \A r \in RegionsOf(c) : c.top[r] <= c.capacity[r]
    <2>1. \A r \in 1 .. last : heap.capacity[r] \in Nat
      BY <1>1, HeapFacts
    <2>2. \A r \in 1 .. last : top[r] \in Nat /\ top[r] <= heap.capacity[r]
      BY <1>1, <1>3 DEF FillInv, last
    <2> QED BY <1>1, <1>7, <2>1, <2>2
  <1>12. /\ Objects(c) \subseteq [region : RegionsOf(c), pos : Nat]
         /\ c.size \in [Objects(c) -> Nat \ {0}]
         /\ \A p \in Objects(c) : \A r \in RegionsOf(c) : c.size[p] <= c.capacity[r]
    <2>1. \A p \in NewPlaces : p \in Place /\ p.region \in 1 .. last
      <3> SUFFICES ASSUME NEW p \in NewPlaces PROVE p \in Place /\ p.region \in 1 .. last
        OBVIOUS
      <3>1. PICK a \in Old : p \in backward[a]
        BY <1>8
      <3>2. p.region \in Regions /\ p.region <= last
        BY <3>1 DEF FillInv, last
      <3> QED BY <1>1, <1>4, <3>1, <3>2
    <2>2. NewPlaces \subseteq [region : 1 .. last, pos : Nat]
      BY <2>1 DEF Place
    <2>3. \A p \in NewPlaces : c.size[p] \in Nat \ {0}
      BY <1>5, <1>8
    <2>4. \A p \in NewPlaces : \A r \in 1 .. last : c.size[p] <= heap.capacity[r]
      BY <1>1, <1>5, <1>8
    <2> QED BY <1>7, <2>2, <2>3, <2>4
  <1>13. \A r \in RegionsOf(c) : c.top[r] # 0 => [region |-> r, pos |-> 0] \in Objects(c)
    <2>1. \A r \in 1 .. last : top[r] # 0 => Given([region |-> r, pos |-> 0])
      BY <1>1, <1>3 DEF FillInv, last
    <2> QED BY <1>7, <1>10, <2>1
  <1>14. ASSUME NEW p \in NewPlaces
         PROVE  /\ p.pos + c.size[p] <= c.top[p.region]
                /\ p.pos + c.size[p] < c.top[p.region] => [p EXCEPT !.pos = p.pos + c.size[p]] \in NewPlaces
                /\ \A s \in NewPlaces : p.region = s.region /\ p.pos < s.pos => p.pos + c.size[p] <= s.pos
    <2>1. PICK a \in Old : p \in backward[a] /\ c.size[p] = heap.size[a]
      BY <1>8
    <2>2. p \in Place /\ p.region \in 1 .. last /\ heap.size[a] \in Nat \ {0}
      <3>1. p.region \in Regions /\ p.region <= last
        BY <2>1 DEF FillInv, last
      <3> QED BY <1>1, <1>4, <1>5, <2>1, <3>1
    <2>3. c.top[p.region] = FilledTo(p.region)
      BY <1>3, <1>7, <2>2
    <2>4. /\ p.pos + heap.size[a] <= FilledTo(p.region)
          /\ p.pos + heap.size[a] < FilledTo(p.region) =>
               Given([region |-> p.region, pos |-> p.pos + heap.size[a]])
      BY <2>1 DEF FillInv
    <2>5. [p EXCEPT !.pos = p.pos + c.size[p]] = [region |-> p.region, pos |-> p.pos + heap.size[a]]
      BY <2>1, <2>2 DEF Place
    <2>6. ASSUME NEW s \in NewPlaces, p.region = s.region, p.pos < s.pos
          PROVE  p.pos + c.size[p] <= s.pos
      <3>1. PICK b \in Old : s \in backward[b] /\ c.size[s] = heap.size[b]
        BY <1>8
      <3>2. s \in Place /\ heap.size[b] \in Nat \ {0}
        BY <1>4, <1>5, <3>1
      <3>3. p.pos \in Nat /\ s.pos \in Nat
        BY <2>2, <3>2 DEF Place
      <3>4. a # b
        <4>1. a = b => p = s
          BY <1>4, <2>1, <3>1
        <4> QED BY <2>6, <3>3, <4>1
      <3>5. ~Overlap(p, heap.size[a], s, heap.size[b])
        BY <2>1, <3>1, <3>4 DEF MoveInv
      <3> QED BY <2>1, <2>2, <2>6, <3>2, <3>3, <3>5 DEF Overlap
    <2> QED BY <1>10, <2>1, <2>3, <2>4, <2>5, <2>6
  <1>15. WellFormed(c)
    BY <1>7, <1>11, <1>12, <1>13, <1>14 DEF WellFormed
  <1> QED BY <1>2, <1>15 DEF CompactedIsLayout, c

\* What a collection leaves is a heap the next one can start from: exactly the live objects,
\* without gaps, in the regions that were kept.
THEOREM LayoutIsLeft == Spec => []CompactedIsLayout
  <1> DEFINE Inv == IInv /\ HistoryInv /\ MoveInv /\ CoverInv /\ FillInv
  <1>1. Init => Inv
    <2>1. Init => MoveInv /\ CoverInv /\ FillInv
      BY DEF Init, MoveInv, CoverInv, FillInv
    <2> QED BY <2>1, InitInv, InitHistory
  <1>2. Inv /\ [Next]_vars => Inv'
    BY NextInv, NextHistory, NextMove, CoverStep, FillStep
  <1>3. Inv => CompactedIsLayout
    BY LeavesLayout
  <1> QED BY <1>1, <1>2, <1>3, PTL DEF Spec
=============================================================================
