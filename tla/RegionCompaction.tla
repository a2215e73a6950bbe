-------------------------- MODULE RegionCompaction --------------------------
(***************************************************************************)
(* The geometry of the compacting collector (collector-compact.cpp): the   *)
(* walker that visits every object of the region list twice, the allocator *)
(* that hands out the objects' new places while it does so, and the runs   *)
(* of dead objects that the first walk turns into FreeBlocks for the       *)
(* second one to jump over.                                                *)
(*                                                                         *)
(* Both passes use the same memory at once: the second pass overwrites     *)
(* Region::pos, which the walker reads, and memmoves objects over the      *)
(* places of others.  That is safe only because the allocator never gets   *)
(* ahead of the walker and both passes give an object the same place.      *)
(*                                                                         *)
(* A place is [region |-> r, pos |-> p]: r is the number of the region in  *)
(* the list Collector::regions and p the distance from Region::data().     *)
(* What the objects hold is left to PointerThreading.                      *)
(***************************************************************************)
EXTENDS Integers

CONSTANT Layouts   \* the heaps a collection may start from, see WellFormed

Place == [region : Nat \ {0}, pos : Nat]

\* Walk order: the order of the region list, and inside a region of addresses.
Before(a, b)   == a.region < b.region \/ (a.region = b.region /\ a.pos < b.pos)
NotAfter(a, b) == a = b \/ Before(a, b)

(***************************************************************************)
(* A layout is what Collector::allocate_simple and get_region build: every *)
(* region is filled from data() without gaps up to Region::pos ("top"),    *)
(* and "capacity" is the distance from data() to Region::end.  "size"      *)
(* gives the size of the object at each place that holds one and "marked"  *)
(* the places of the objects marking reached.  An object of more than      *)
(* max_region_alloc bytes is never in a region, a region is never smaller. *)
(***************************************************************************)
Objects(l) == DOMAIN l.size
RegionsOf(l) == 1 .. l.regions

WellFormed(l) ==
  /\ l.regions \in Nat \ {0}
  /\ l.capacity \in [RegionsOf(l) -> Nat]
  /\ l.top \in [RegionsOf(l) -> Nat]
  /\ \A r \in RegionsOf(l) : l.top[r] <= l.capacity[r]
  /\ Objects(l) \subseteq [region : RegionsOf(l), pos : Nat]
  /\ l.size \in [Objects(l) -> Nat \ {0}]
  /\ l.marked \subseteq Objects(l)
  /\ \A a \in Objects(l) : \A r \in RegionsOf(l) : l.size[a] <= l.capacity[r]
  /\ \A r \in RegionsOf(l) :
        l.top[r] # 0 => [region |-> r, pos |-> 0] \in Objects(l)
  /\ \A a \in Objects(l) :
        /\ a.pos + l.size[a] <= l.top[a.region]
        /\ a.pos + l.size[a] < l.top[a.region] =>
              [a EXCEPT !.pos = a.pos + l.size[a]] \in Objects(l)
        /\ \A b \in Objects(l) :
              a.region = b.region /\ a.pos < b.pos => a.pos + l.size[a] <= b.pos

\* RegionWalker::load: the first object of the first region that holds anything.
Loaded(l, a) == a \in Objects(l) /\ \A b \in Objects(l) : NotAfter(a, b)

\* The context's classes are always there: no collection meets an empty heap.
ASSUME LayoutsAssumption ==
  \A l \in Layouts : WellFormed(l) /\ \E a \in Objects(l) : Loaded(l, a)

VARIABLES
  heap,     \* the layout the collection started from
  pass,     \* "forward", "backward" or "done"
  obj,      \* RegionWalker obj
  more,     \* FALSE once RegionWalker::step has returned false
  free,     \* RegionAllocator free
  prev,     \* CollectorStateForward::prev: {} or {the first object of a dead run}
  jump,     \* FreeBlocks: where a dead run ends, by the place of its first object
  top,      \* Region::pos of every region
  forward,  \* the place update<false> wrote, by the object's old place
  backward, \* the place update<true> wrote and move() moved to
  freeAt    \* history: free when the forward pass reached an object

vars == <<heap, pass, obj, more, free, prev, jump, top, forward, backward, freeAt>>

Old == Objects(heap)
Regions == RegionsOf(heap)
Live(a) == a \in heap.marked

-----------------------------------------------------------------------------
(* RegionWalker and RegionAllocator.                                       *)

\* Mutant of IsNextRegion: step_region looks at the region it leaves again.
IsNextRegionStays(r, q, tops) ==
  /\ q \in Regions /\ r <= q /\ tops[q] # 0
  /\ \A k \in Regions : r <= k /\ k < q => tops[k] = 0

\* The first region after r that holds anything, for RegionWalker::step_region.
IsNextRegion(r, q, tops) ==
  /\ q \in Regions /\ r < q /\ tops[q] # 0
  /\ \A k \in Regions : r < k /\ k < q => tops[k] = 0

\* RegionWalker::step over the object of the given size at a, while Region::pos is
\* tops: it returns goes and the walker then stands at to.
StepsTo(a, size, tops, to, goes) ==
  IF a.pos + size # tops[a.region]
  THEN goes = TRUE /\ to = [a EXCEPT !.pos = a.pos + size]
  ELSE \/ \E q \in Regions : /\ IsNextRegion(a.region, q, tops)
                             /\ goes = TRUE /\ to = [region |-> q, pos |-> 0]
       \/ /\ \A q \in Regions : a.region < q => tops[q] = 0
          /\ goes = FALSE /\ to = a

\* Mutant of StartIn: pos is not reset to data() in a new region.
StartInKeepsPos(f, q) == f.pos

\* Where RegionAllocator::allocate at f starts an object in region q.
StartIn(f, q) == IF q = f.region THEN f.pos ELSE 0

\* Mutant of Allocates: next >= end instead of next > end.
AllocatesNotToEnd(f, q, size) ==
  /\ q \in Regions /\ f.region <= q
  /\ StartIn(f, q) + size < heap.capacity[q]
  /\ \A k \in Regions : f.region <= k /\ k < q => StartIn(f, k) + size >= heap.capacity[k]

\* RegionAllocator::allocate at f settles on region q, the first with enough room.
Allocates(f, q, size) ==
  /\ q \in Regions /\ f.region <= q
  /\ StartIn(f, q) + size <= heap.capacity[q]
  /\ \A k \in Regions : f.region <= k /\ k < q => StartIn(f, k) + size > heap.capacity[k]

\* Mutant of TopsLeaving: every allocation updates the region it is made in.
TopsLeavingEager(f, q) ==
  [k \in Regions |-> IF f.region <= k /\ k <= q THEN StartIn(f, k) ELSE top[k]]

\* RegionAllocator<true>::update on every region an allocation in q leaves.
TopsLeaving(f, q) ==
  [k \in Regions |-> IF f.region <= k /\ k < q THEN StartIn(f, k) ELSE top[k]]

-----------------------------------------------------------------------------
(* Collector::update_forward, one action per branch of UpdateForward::func.*)

\* Mutant of ForwardMarked: state.prev is not reset.
ForwardMarkedKeepsPrev ==
  /\ pass = "forward" /\ more /\ Live(obj)
  /\ StepsTo(obj, heap.size[obj], top, obj', more')
  /\ \E q \in Regions :
       /\ Allocates(free, q, heap.size[obj])
       /\ forward' = [forward EXCEPT ![obj] = {[region |-> q, pos |-> StartIn(free, q)]}]
       /\ free' = [region |-> q, pos |-> StartIn(free, q) + heap.size[obj]]
  /\ freeAt' = [freeAt EXCEPT ![obj] = {free}]
  /\ UNCHANGED <<heap, pass, prev, jump, top, backward>>

ForwardMarked ==
  /\ pass = "forward" /\ more /\ Live(obj)
  /\ StepsTo(obj, heap.size[obj], top, obj', more')
  /\ \E q \in Regions :
       /\ Allocates(free, q, heap.size[obj])
       /\ forward' = [forward EXCEPT ![obj] = {[region |-> q, pos |-> StartIn(free, q)]}]
       /\ free' = [region |-> q, pos |-> StartIn(free, q) + heap.size[obj]]
  /\ prev' = {}
  /\ freeAt' = [freeAt EXCEPT ![obj] = {free}]
  /\ UNCHANGED <<heap, pass, jump, top, backward>>

\* The FreeBlock that ends where the walker stands after a dead object.
FreeBlockTo(place, goes) == {[place |-> place, more |-> goes]}

ForwardUnmarked ==
  /\ pass = "forward" /\ more /\ ~Live(obj)
  /\ StepsTo(obj, heap.size[obj], top, obj', more')
  /\ jump' = [a \in Old |-> IF a \in prev THEN FreeBlockTo(obj', more') ELSE jump[a]]
  /\ prev' = IF prev = {} THEN {obj} ELSE prev
  /\ freeAt' = [freeAt EXCEPT ![obj] = {free}]
  /\ UNCHANGED <<heap, pass, free, top, forward, backward>>

FirstPlace == [region |-> 1, pos |-> 0]

StartBackward ==
  /\ pass = "forward" /\ ~more
  /\ pass' = "backward"
  /\ \E a \in Old : Loaded(heap, a) /\ obj' = a
  /\ more' = TRUE
  /\ free' = FirstPlace
  /\ UNCHANGED <<heap, prev, jump, top, forward, backward, freeAt>>

-----------------------------------------------------------------------------
(* Collector::update_backward: the walk, then the release of the regions.  *)

\* Mutant of BackwardMarked: the allocator's pos is not advanced.
BackwardMarkedStays ==
  /\ pass = "backward" /\ more /\ Live(obj)
  /\ \E q \in Regions :
       /\ Allocates(free, q, heap.size[obj])
       /\ backward' = [backward EXCEPT ![obj] = {[region |-> q, pos |-> StartIn(free, q)]}]
       /\ free' = [region |-> q, pos |-> StartIn(free, q)]
       /\ top' = TopsLeaving(free, q)
  /\ StepsTo(obj, heap.size[obj], top', obj', more')
  /\ UNCHANGED <<heap, pass, prev, jump, forward, freeAt>>

BackwardMarked ==
  /\ pass = "backward" /\ more /\ Live(obj)
  /\ \E q \in Regions :
       /\ Allocates(free, q, heap.size[obj])
       /\ backward' = [backward EXCEPT ![obj] = {[region |-> q, pos |-> StartIn(free, q)]}]
       /\ free' = [region |-> q, pos |-> StartIn(free, q) + heap.size[obj]]
       /\ top' = TopsLeaving(free, q)
  /\ StepsTo(obj, heap.size[obj], top', obj', more')
  /\ UNCHANGED <<heap, pass, prev, jump, forward, freeAt>>

BackwardUnmarked ==
  /\ pass = "backward" /\ more /\ ~Live(obj) /\ jump[obj] = {}
  /\ StepsTo(obj, heap.size[obj], top, obj', more')
  /\ UNCHANGED <<heap, pass, free, prev, jump, top, forward, backward, freeAt>>

BackwardFreeBlock ==
  /\ pass = "backward" /\ more /\ ~Live(obj)
  /\ \E target \in jump[obj] :
       /\ obj' = target.place
       /\ more' = target.more
  /\ UNCHANGED <<heap, pass, free, prev, jump, top, forward, backward, freeAt>>

\* Mutant of Finish: the last free.update() is missing.
FinishNoUpdate ==
  /\ pass = "backward" /\ ~more
  /\ pass' = "done"
  /\ top' = [r \in Regions |-> IF r <= free.region THEN top[r] ELSE 0]
  /\ UNCHANGED <<heap, obj, more, free, prev, jump, forward, backward, freeAt>>

\* free.update(); current = free.region; later regions are freed.
Finish ==
  /\ pass = "backward" /\ ~more
  /\ pass' = "done"
  /\ top' = [r \in Regions |-> IF r = free.region THEN free.pos
                               ELSE IF r < free.region THEN top[r] ELSE 0]
  /\ UNCHANGED <<heap, obj, more, free, prev, jump, forward, backward, freeAt>>

-----------------------------------------------------------------------------
Init ==
  /\ heap \in Layouts
  /\ pass = "forward"
  /\ \E a \in Old : Loaded(heap, a) /\ obj = a
  /\ more = TRUE
  /\ free = FirstPlace
  /\ prev = {}
  /\ jump = [a \in Old |-> {}]
  /\ top = heap.top
  /\ forward = [a \in Old |-> {}]
  /\ backward = [a \in Old |-> {}]
  /\ freeAt = [a \in Old |-> {}]

Next ==
  \/ ForwardMarked \/ ForwardUnmarked \/ StartBackward
  \/ BackwardMarked \/ BackwardUnmarked \/ BackwardFreeBlock
  \/ Finish

Spec == Init /\ [][Next]_vars /\ WF_vars(Next)

-----------------------------------------------------------------------------
(* Properties.                                                             *)

Walker == [place : Place, more : BOOLEAN]

AtMostOne(S, T) == (\A x \in S : x \in T) /\ (\A x, y \in S : x = y)

\* The types of the variables.
TypeOK ==
  /\ WellFormed(heap) /\ \E a \in Old : Loaded(heap, a)
  /\ pass \in {"forward", "backward", "done"}
  /\ obj \in Place /\ more \in BOOLEAN
  /\ free \in Place
  /\ AtMostOne(prev, Old)
  /\ DOMAIN jump = Old /\ \A a \in Old : AtMostOne(jump[a], Walker)
  /\ top \in [Regions -> Nat]
  /\ DOMAIN forward = Old /\ \A a \in Old : AtMostOne(forward[a], Place)
  /\ DOMAIN backward = Old /\ \A a \in Old : AtMostOne(backward[a], Place)
  /\ DOMAIN freeAt = Old /\ \A a \in Old : AtMostOne(freeAt[a], Place)

\* The allocator never gets ahead of the walker, in either pass: UpdateForward
\* asserts as much for one region, update_backward relies on it for all of them.
AllocatorBehindWalker == pass # "done" /\ more => NotAfter(free, obj)

\* RegionAllocator::allocate never runs out of regions ("Ran out of free space!").
SpaceForEveryObject ==
  pass # "done" /\ more /\ Live(obj) => \E q \in Regions : Allocates(free, q, heap.size[obj])

\* The walker always stands on an object's header, although the second pass
\* rewrites Region::pos under it: it reads only ends that are still the old ones.
WalkerOnObject ==
  pass # "done" /\ more =>
    /\ obj \in Old
    /\ \A r \in Regions : obj.region <= r => top[r] = heap.top[r]

\* update<true> writes into the references the place update<false> wrote into
\* the others: both passes give an object the same place.
PassesAgree == \A a \in Old : backward[a] # {} => backward[a] = forward[a]

\* Two objects, the first of them at p with size n and the second at q with size m, overlap.
Overlap(p, n, q, m) == p.region = q.region /\ p.pos < q.pos + m /\ q.pos < p.pos + n

\* memmove never writes over an object the second walk has still to visit, dead
\* ones (whose headers it reads) included, nor over one it has moved before.
MovesClobberNothing ==
  \A a \in Old : \A p \in backward[a] :
    /\ pass = "backward" /\ more =>
         \A b \in Old : NotAfter(obj, b) => ~Overlap(p, heap.size[a], b, heap.size[b])
    /\ \A b \in Old \ {a} : \A q \in backward[b] : ~Overlap(p, heap.size[a], q, heap.size[b])

\* The places in use after the collection.
NewPlaces == UNION {backward[a] : a \in Old}
Compacted ==
  [regions  |-> free.region,
   capacity |-> [r \in 1 .. free.region |-> heap.capacity[r]],
   top      |-> [r \in 1 .. free.region |-> top[r]],
   size     |-> [p \in NewPlaces |-> heap.size[CHOOSE a \in Old : backward[a] = {p}]],
   marked   |-> {}]

\* What a collection leaves behind is a heap the next walk can visit: exactly
\* the live objects, without gaps, in the regions that were kept.
CompactedIsLayout ==
  pass = "done" =>
    /\ \A a \in Old : Live(a) <=> backward[a] # {}
    /\ WellFormed(Compacted)

\* Both walks come to an end: no FreeBlock sends the second one backwards.
Terminates == <>(pass = "done")
=============================================================================
