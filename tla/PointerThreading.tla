-------------------------- MODULE PointerThreading --------------------------
(***************************************************************************)
(* How the compacting collector (collector-compact.cpp) changes every      *)
(* reference to a moved object without a table of references.  The slots   *)
(* that refer to an object are threaded: the object's thread_list heads a  *)
(* list that runs through the slots themselves.  The first pass gives an   *)
(* object's new place to the slots threaded so far and then threads the    *)
(* object's own slots; the second pass does the rest and moves the object. *)
(*                                                                         *)
(* Objects are numbered in the order both passes visit them: the objects   *)
(* of the regions, then heap_list, then the symbols.  An object's number   *)
(* is its old place.  Regions are one row of places of one size here:      *)
(* RegionCompaction has the sizes, the gaps and the overlaps.              *)
(***************************************************************************)
EXTENDS Integers, Sequences, FiniteSets

CONSTANT Heaps   \* the marked heaps to compact, see HeapsAssumption

\* Root slots belong to "object" 0; a slot that refers to no object holds 0.
Total(h)   == h.region + h.pinned + h.symbols
Places(h)  == 1 .. Total(h)
Targets(h) == 0 .. Total(h)

\* What marking leaves: no reference leads out of the marked objects, and symbols
\* are marked.  A VariableBlock has no slots.
ASSUME HeapsAssumption ==
  \A h \in Heaps :
    /\ h.region \in Nat /\ h.pinned \in Nat /\ h.symbols \in Nat /\ Total(h) # 0
    /\ h.blocks \subseteq Places(h)
    /\ h.slots \in [Targets(h) -> Seq(Targets(h))]
    /\ \A o \in h.blocks : h.slots[o] = <<>>
    /\ h.marked \subseteq Places(h)
    /\ h.region + h.pinned + 1 .. Total(h) \subseteq h.marked
    /\ \A o \in h.marked \cup {0} : \A k \in DOMAIN h.slots[o] :
          h.slots[o][k] \in h.marked \cup {0}

VARIABLES
  heap,     \* the heap the collection started from
  phase,    \* "roots", "forward", "backward" or "done"
  at,       \* the place being visited
  step,     \* "visit", "update" or "thread"
  current,  \* update's cursor
  slot,     \* the slot to thread next
  free,     \* RegionAllocator: the next free place
  mem,      \* the memory: what each place holds, the root slots under 0
  where,    \* history: the place of every object
  chain     \* history: the slots threaded to every object, the head last

vars == <<heap, phase, at, step, current, slot, free, mem, where, chain>>

Live(o) == o \in heap.marked
InRegion(p) == p <= heap.region

-----------------------------------------------------------------------------
(* Words of memory.                                                        *)

Word(tag, place, k) == [tag |-> tag, place |-> place, slot |-> k]
ListEnd   == Word("end", 0, 0)
Immediate == Word("immediate", 0, 0)
SlotAt(p, k) == Word("slot", p, k)   \* the address of a slot
Jump      == Word("jump", 0, 0)      \* where a FreeBlock goes on

\* A reference to the object at p; one to a VariableBlock points behind its header.
Pointer(block, p) == Word(IF block THEN "data" ELSE "object", p, 0)

Read(a) == mem[a.place].slots[a.slot]

-----------------------------------------------------------------------------
(* thread_data and the chain update walks.                                 *)

\* ThreadFunc on the k-th slot of the object at p.
Thread(p, k) ==
  LET word == mem[p].slots[k] IN
  IF word.tag = "immediate" THEN UNCHANGED <<mem, chain>>
  ELSE /\ mem' = [[mem EXCEPT ![p].slots[k] = mem[word.place].thread]
                       EXCEPT ![word.place].thread = SlotAt(p, k)]
       /\ chain' = [chain EXCEPT ![heap.slots[p][k]] = Append(@, SlotAt(p, k))]

NewPlace == IF InRegion(at) THEN free ELSE at

\* Mutant of Updated: sizeof(VariableBlock) is not added.
UpdatedToHeader == Pointer(FALSE, NewPlace)

\* What update writes into the slots threaded to the object being visited.
Updated == Pointer(mem[at].block, NewPlace)

\* The loop of update: the slot under the cursor gets the new place.
UpdateSlot ==
  /\ step = "update" /\ current # ListEnd
  /\ mem' = [mem EXCEPT ![current.place].slots[current.slot] = Updated]
  /\ current' = Read(current)
  /\ chain' = [chain EXCEPT ![at] = SubSeq(@, 1, Len(@) - 1)]
  /\ UNCHANGED <<heap, phase, at, step, slot, free, where>>

-----------------------------------------------------------------------------
(* Collector::update_forward.                                              *)

\* each_root(ThreadFunc)
ThreadRoot ==
  /\ phase = "roots" /\ slot <= Len(heap.slots[0])
  /\ Thread(0, slot)
  /\ slot' = slot + 1
  /\ UNCHANGED <<heap, phase, at, step, current, free, where>>

RootsThreaded ==
  /\ phase = "roots" /\ slot > Len(heap.slots[0])
  /\ phase' = "forward" /\ at' = 1 /\ step' = "visit"
  /\ UNCHANGED <<heap, current, slot, free, mem, where, chain>>

\* The next place of the pass, or the end of it.
NextVisit(newFree) ==
  /\ step' = "visit"
  /\ IF at < Total(heap)
     THEN at' = at + 1 /\ free' = newFree /\ phase' = phase
     ELSE at' = 1 /\ free' = 1 /\ phase' = IF phase = "forward" THEN "backward" ELSE "done"

AfterAllocate == IF InRegion(at) THEN free + 1 ELSE free

\* A dead object of a region may become a FreeBlock, whose jump overwrites thread_list.
ForwardDead ==
  /\ phase = "forward" /\ step = "visit" /\ ~mem[at].marked
  /\ mem' = IF InRegion(at) THEN [mem EXCEPT ![at].thread = Jump] ELSE mem
  /\ NextVisit(free)
  /\ UNCHANGED <<heap, current, slot, where, chain>>

ForwardLive ==
  /\ phase = "forward" /\ step = "visit" /\ mem[at].marked
  /\ step' = "update" /\ current' = mem[at].thread
  /\ UNCHANGED <<heap, phase, at, slot, free, mem, where, chain>>

\* The end of update<false>: the object's own slots come next.
ForwardUpdated ==
  /\ phase = "forward" /\ step = "update" /\ current = ListEnd
  /\ mem' = [mem EXCEPT ![at].thread = ListEnd]
  /\ step' = "thread" /\ slot' = 1
  /\ UNCHANGED <<heap, phase, at, current, free, where, chain>>

ThreadSlot ==
  /\ phase = "forward" /\ step = "thread" /\ slot <= Len(mem[at].slots)
  /\ Thread(at, slot)
  /\ slot' = slot + 1
  /\ UNCHANGED <<heap, phase, at, step, current, free, where>>

SlotsThreaded ==
  /\ phase = "forward" /\ step = "thread" /\ slot > Len(mem[at].slots)
  /\ NextVisit(AfterAllocate)
  /\ UNCHANGED <<heap, current, slot, mem, where, chain>>

-----------------------------------------------------------------------------
(* Collector::update_backward.                                             *)

\* Dead objects of regions are left where they are, those of heap_list are freed.
BackwardDead ==
  /\ phase = "backward" /\ step = "visit" /\ ~mem[at].marked
  /\ NextVisit(free)
  /\ UNCHANGED <<heap, current, slot, mem, where, chain>>

BackwardLive ==
  /\ phase = "backward" /\ step = "visit" /\ mem[at].marked
  /\ mem' = [mem EXCEPT ![at].marked = FALSE]
  /\ step' = "update" /\ current' = mem[at].thread
  /\ UNCHANGED <<heap, phase, at, slot, free, where, chain>>

\* Mutant of BackwardUpdated: the object stays where it was.
BackwardUpdatedNoMove ==
  /\ phase = "backward" /\ step = "update" /\ current = ListEnd
  /\ mem' = [mem EXCEPT ![at].thread = ListEnd]
  /\ where' = [where EXCEPT ![at] = NewPlace]
  /\ NextVisit(AfterAllocate)
  /\ UNCHANGED <<heap, current, slot, chain>>

\* The end of update<true>, and memmove.
BackwardUpdated ==
  /\ phase = "backward" /\ step = "update" /\ current = ListEnd
  /\ mem' = [[mem EXCEPT ![at].thread = ListEnd]
                  EXCEPT ![NewPlace] = [mem[at] EXCEPT !.thread = ListEnd]]
  /\ where' = [where EXCEPT ![at] = NewPlace]
  /\ NextVisit(AfterAllocate)
  /\ UNCHANGED <<heap, current, slot, chain>>

-----------------------------------------------------------------------------
Init ==
  /\ heap \in Heaps
  /\ phase = "roots" /\ at = 0 /\ step = "thread"
  /\ current = ListEnd /\ slot = 1 /\ free = 1
  /\ mem = [p \in Targets(heap) |->
              [thread |-> ListEnd, marked |-> Live(p), block |-> p \in heap.blocks,
               slots |-> [k \in DOMAIN heap.slots[p] |->
                            IF heap.slots[p][k] = 0 THEN Immediate
                            ELSE Pointer(heap.slots[p][k] \in heap.blocks, heap.slots[p][k])]]]
  /\ where = [p \in Targets(heap) |-> p]
  /\ chain = [p \in Targets(heap) |-> <<>>]

Next ==
  \/ ThreadRoot \/ RootsThreaded
  \/ ForwardDead \/ ForwardLive \/ UpdateSlot \/ ForwardUpdated \/ ThreadSlot \/ SlotsThreaded
  \/ BackwardDead \/ BackwardLive \/ BackwardUpdated

Spec == Init /\ [][Next]_vars /\ WF_vars(Next)

-----------------------------------------------------------------------------
(* Properties.                                                             *)

Tags == {"end", "immediate", "slot", "jump", "object", "data"}
Words == [tag : Tags, place : Targets(heap), slot : Nat]

\* The types of the variables.
TypeOK ==
  /\ phase \in {"roots", "forward", "backward", "done"}
  /\ at \in Targets(heap) /\ step \in {"visit", "update", "thread"}
  /\ current \in Words /\ slot \in Nat \ {0}
  /\ free \in 1 .. heap.region + 1
  /\ DOMAIN mem = Targets(heap)
  /\ \A p \in Targets(heap) :
       /\ mem[p].thread \in Words /\ mem[p].marked \in BOOLEAN /\ mem[p].block \in BOOLEAN
       /\ mem[p].slots \in Seq(Words)
  /\ where \in [Targets(heap) -> Targets(heap)]
  /\ \A p \in Targets(heap) : \A n \in DOMAIN chain[p] : chain[p][n] \in Words

\* Where an object goes: live objects close up, in walk order.
Destination(o) ==
  IF InRegion(o) THEN Cardinality({b \in heap.marked : b <= o}) ELSE o

\* The first pass has not threaded the k-th slot of o yet.
Raw(o, k) ==
  /\ phase \in {"roots", "forward"}
  /\ o > at \/ (o = at /\ (step = "thread" => k >= slot))

Threaded(a, o) == \E n \in DOMAIN chain[o] : chain[o][n] = a

\* Every step keeps the object graph, though no word of memory shows it: a slot
\* that referred to t still holds t's old address, or holds its new one, or is on
\* t's list and no other.
GraphDenoted ==
  \A o \in heap.marked \cup {0} : \A k \in DOMAIN heap.slots[o] :
    LET t == heap.slots[o][k]
        a == SlotAt(where[o], k)
    IN t # 0 =>
         /\ Raw(o, k) => Read(a) = Pointer(t \in heap.blocks, t)
         /\ ~Raw(o, k) /\ ~Threaded(a, t) =>
               Read(a) = Pointer(t \in heap.blocks, Destination(t))
         /\ \A u \in Places(heap) : Threaded(a, u) => u = t /\ ~Raw(o, k)

\* After the collection every slot refers to the new place of the object it
\* referred to, and headers are as the next marking expects them.
GraphPreserved ==
  phase = "done" =>
    /\ \A o \in heap.marked \cup {0} : \A k \in DOMAIN heap.slots[o] :
         LET t == heap.slots[o][k] IN
         t # 0 => Read(SlotAt(where[o], k)) = Pointer(t \in heap.blocks, where[t])
    /\ \A o \in heap.marked : /\ where[o] = Destination(o)
                              /\ mem[where[o]].thread = ListEnd /\ ~mem[where[o]].marked
                              /\ mem[where[o]].block = (o \in heap.blocks)
    /\ \A o, b \in heap.marked : o # b => where[o] # where[b]

\* Threading loses and confuses no reference, on the way and in the end.
GraphKept == GraphDenoted /\ GraphPreserved
=============================================================================
