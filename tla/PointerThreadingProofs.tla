----------------------- MODULE PointerThreadingProofs -----------------------
(***************************************************************************)
(* Compaction by threading keeps the object graph of every heap, whatever  *)
(* its shape and size.  "chain" is the key to the proof: the list that     *)
(* hangs from an object's header is spelled out in memory, one word per    *)
(* slot, and the invariant says which slots may be on it when.             *)
(***************************************************************************)
EXTENDS PointerThreading, FiniteSetTheorems, TLAPS

-----------------------------------------------------------------------------
(* The inductive invariant.                                                *)

Owners == heap.marked \cup {0}
SlotsOf(o) == DOMAIN heap.slots[o]

\* What the assumption says of one heap.
HeapOK ==
  /\ heap.region \in Nat /\ heap.pinned \in Nat /\ heap.symbols \in Nat /\ Total(heap) # 0
  /\ heap.slots \in [Targets(heap) -> Seq(Targets(heap))]
  /\ heap.marked \subseteq Places(heap)
  /\ \A o \in Owners : \A k \in SlotsOf(o) : heap.slots[o][k] \in Owners

\* The second pass has gone past o.
Moved(o) == phase = "done" \/ (phase = "backward" /\ o < at)

\* The first pass has updated the slots threaded to t so far.
Passed(t) ==
  \/ phase \in {"backward", "done"}
  \/ phase = "forward" /\ (t < at \/ (t = at /\ step = "thread"))

\* How many live objects are before a place.
LiveBefore(p) == Cardinality({b \in heap.marked : b < p})

ControlInv ==
  /\ phase \in {"roots", "forward", "backward", "done"}
  /\ phase = "roots" => at = 0 /\ step = "thread" /\ free = 1
  /\ phase = "done" => step = "visit" /\ at = 1
  /\ phase \in {"forward", "backward"} =>
       /\ at \in Places(heap) /\ step \in {"visit", "update", "thread"}
       /\ InRegion(at) => free = LiveBefore(at) + 1
       /\ step # "visit" => Live(at)
       /\ phase = "backward" => step # "thread"
  /\ slot \in Nat \ {0} /\ free \in 1 .. heap.region + 1

\* What a place holds, over words w.
Cells(w) == [thread : w, marked : BOOLEAN, block : BOOLEAN, slots : Seq(w)]

PlacesInv ==
  /\ mem \in [Targets(heap) -> Cells(Words)] /\ chain \in [Targets(heap) -> Seq(Words)]
  /\ current \in Words /\ where \in [Targets(heap) -> Targets(heap)]
  /\ \A o \in Targets(heap) : where[o] = IF Live(o) /\ Moved(o) THEN Destination(o) ELSE o

\* Headers that the second pass has still to visit, and those of the objects it has moved.
HeadersInv ==
  /\ \A p \in Places(heap) : ~Moved(p) =>
       /\ mem[p].block = (p \in heap.blocks)
       /\ mem[p].marked <=> (Live(p) /\ ~(phase = "backward" /\ p = at /\ step = "update"))
  /\ \A o \in heap.marked : Moved(o) =>
       /\ mem[where[o]].block = (o \in heap.blocks)
       /\ ~mem[where[o]].marked /\ mem[where[o]].thread = ListEnd

SlotsInv ==
  \A o \in Owners :
    /\ DOMAIN mem[where[o]].slots = SlotsOf(o)
    /\ \A k \in SlotsOf(o) :
         LET t == heap.slots[o][k]
             word == mem[where[o]].slots[k]
         IN /\ t = 0 => word = Immediate
            /\ t # 0 /\ Raw(o, k) => word = Pointer(t \in heap.blocks, t)
            /\ t # 0 /\ ~Raw(o, k) /\ ~Threaded(SlotAt(where[o], k), t) =>
                  word = Pointer(t \in heap.blocks, Destination(t))

\* A word on the list of t.
OnList(t, a) ==
  \E o \in Owners : \E k \in SlotsOf(o) :
    /\ a = SlotAt(o, k) /\ heap.slots[o][k] = t /\ ~Raw(o, k)
    /\ Passed(t) => o >= t

ListsInv ==
  \A t \in Places(heap) :
    /\ Moved(t) => chain[t] = <<>>
    /\ \A n \in 1 .. Len(chain[t]) : OnList(t, chain[t][n])
    /\ \A m, n \in 1 .. Len(chain[t]) : m # n => chain[t][m] # chain[t][n]

\* Where the list of t starts, and the word before the n-th slot threaded.
Start(t) == IF step = "update" /\ t = at THEN current ELSE mem[t].thread
Link(t, n) == IF n = 0 THEN ListEnd ELSE chain[t][n]

LinksInv ==
  \A t \in heap.marked : ~Moved(t) =>
    /\ Start(t) = Link(t, Len(chain[t]))
    /\ \A n \in 1 .. Len(chain[t]) : Read(chain[t][n]) = Link(t, n - 1)

IInv == HeapOK /\ ControlInv /\ PlacesInv /\ HeadersInv /\ SlotsInv /\ ListsInv /\ LinksInv

-----------------------------------------------------------------------------
(* Writing memory.                                                         *)

\* A store into a slot changes that slot only.
LEMMA SetSlot ==
  ASSUME NEW T, NEW W, NEW m \in [T -> Cells(W)], NEW p \in T,
         NEW k \in DOMAIN m[p].slots, NEW w \in W
  PROVE  LET n == [m EXCEPT ![p].slots[k] = w] IN
         /\ n \in [T -> Cells(W)]
         /\ \A q \in T : /\ n[q].thread = m[q].thread /\ n[q].marked = m[q].marked
                         /\ n[q].block = m[q].block
                         /\ DOMAIN n[q].slots = DOMAIN m[q].slots
                         /\ \A j \in DOMAIN m[q].slots :
                              n[q].slots[j] = IF q = p /\ j = k THEN w ELSE m[q].slots[j]
<1> DEFINE s == [m[p].slots EXCEPT ![k] = w]
<1>1. s \in Seq(W) /\ DOMAIN s = DOMAIN m[p].slots
  BY DEF Cells
<1> QED BY <1>1 DEF Cells

\* So does a store into a header.
LEMMA SetThread ==
  ASSUME NEW T, NEW W, NEW m \in [T -> Cells(W)], NEW p \in T, NEW w \in W
  PROVE  LET n == [m EXCEPT ![p].thread = w] IN
         /\ n \in [T -> Cells(W)]
         /\ \A q \in T : /\ n[q].thread = IF q = p THEN w ELSE m[q].thread
                         /\ n[q].marked = m[q].marked /\ n[q].block = m[q].block
                         /\ n[q].slots = m[q].slots
  BY DEF Cells

-----------------------------------------------------------------------------
(* Where live objects go.                                                  *)

\* The number of live objects before a place is finite and grows by one at each
\* live object.
LEMMA Counting ==
  ASSUME HeapOK
  PROVE  /\ LiveBefore(1) = 0
         /\ \A p \in Places(heap) :
              /\ LiveBefore(p) \in Nat /\ LiveBefore(p) < p
              /\ LiveBefore(p + 1) = IF Live(p) THEN LiveBefore(p) + 1 ELSE LiveBefore(p)
<1> DEFINE Before(p) == {b \in heap.marked : b < p}
<1>0. Total(heap) \in Nat  BY DEF HeapOK, Total
<1>1. \A p \in Nat : IsFiniteSet(Before(p + 1)) /\ Cardinality(Before(p + 1)) <= p
  <2> TAKE p \in Nat
  <2>1. IsFiniteSet(1 .. p) /\ Cardinality(1 .. p) <= p
    BY FS_Interval
  <2>2. Before(p + 1) \subseteq 1 .. p
    BY <1>0 DEF HeapOK, Places
  <2> QED BY <2>1, <2>2, FS_Subset, FS_CardinalityType
<1>2. Before(1) = {}
  BY <1>0 DEF HeapOK, Places
<1>3. ASSUME NEW p \in Places(heap)
      PROVE  /\ LiveBefore(p) \in Nat /\ LiveBefore(p) < p
             /\ LiveBefore(p + 1) = IF Live(p) THEN LiveBefore(p) + 1 ELSE LiveBefore(p)
  <2>0. p \in Nat /\ p # 0 /\ p - 1 \in Nat /\ p - 1 + 1 = p
    BY <1>0 DEF Places
  <2>1. IsFiniteSet(Before(p)) /\ Cardinality(Before(p)) <= p - 1
    BY <1>1, <2>0
  <2>2. Cardinality(Before(p)) \in Nat
    BY <2>1, FS_CardinalityType
  <2>3. Before(p + 1) = IF Live(p) THEN Before(p) \cup {p} ELSE Before(p)
    BY <1>0, <2>0 DEF HeapOK, Places, Live
  <2>4. p \notin Before(p)
    BY <2>0
  <2>5. Cardinality(Before(p) \cup {p}) = Cardinality(Before(p)) + 1
    BY <2>1, <2>4, FS_AddElement
  <2> QED BY <2>0, <2>1, <2>2, <2>3, <2>5 DEF LiveBefore
<1> QED BY <1>2, <1>3, FS_EmptySet DEF LiveBefore

\* Objects move towards the start, and never onto each other.
LEMMA Destinations ==
  ASSUME HeapOK
  PROVE  \A o \in heap.marked :
           /\ o \in Places(heap) /\ Destination(o) \in 1 .. o
           /\ InRegion(o) => Destination(o) = LiveBefore(o) + 1
           /\ ~InRegion(o) => Destination(o) = o
           /\ \A p \in heap.marked : o < p => Destination(o) < Destination(p)
<1>0. Total(heap) \in Nat /\ heap.marked \subseteq Places(heap) /\ heap.region \in Nat
  BY DEF HeapOK, Total
<1>1. ASSUME NEW o \in heap.marked
      PROVE  /\ o \in Places(heap) /\ Destination(o) \in 1 .. o
             /\ InRegion(o) => Destination(o) = LiveBefore(o) + 1
             /\ ~InRegion(o) => Destination(o) = o
  <2>1. {b \in heap.marked : b <= o} = {b \in heap.marked : b < o + 1}
    BY <1>0 DEF Places
  <2>2. Live(o) /\ o \in Places(heap)
    BY <1>0 DEF Live
  <2>3. InRegion(o) => Destination(o) = LiveBefore(o + 1)
    BY <2>1 DEF Destination, LiveBefore
  <2>4. LiveBefore(o) \in Nat /\ LiveBefore(o) < o /\ LiveBefore(o + 1) = LiveBefore(o) + 1
    BY <2>2, Counting
  <2>5. o \in Nat /\ o # 0
    BY <1>0, <2>2 DEF Places
  <2>6. InRegion(o) => Destination(o) \in 1 .. o
    BY <2>3, <2>4, <2>5
  <2>7. ~InRegion(o) => Destination(o) = o
    BY DEF Destination
  <2> QED BY <2>2, <2>3, <2>4, <2>5, <2>6, <2>7
<1>2. ASSUME NEW o \in heap.marked, NEW p \in heap.marked, o < p
      PROVE  Destination(o) < Destination(p)
  <2>0. o \in Nat /\ p \in Nat /\ p # 0 /\ p - 1 \in Nat /\ p - 1 \in Int /\ 1 \in Int
    BY <1>0 DEF Places
  <2>1. CASE InRegion(p)
    <3>1. InRegion(o)  BY <1>0, <1>2, <2>0, <2>1 DEF InRegion
    <3>2. {b \in heap.marked : b < p} \subseteq 1 .. p - 1
      BY <1>0, <2>0 DEF Places
    <3>3. IsFiniteSet(1 .. p - 1)
      BY <2>0, FS_Interval
    <3>4. IsFiniteSet({b \in heap.marked : b < p})
      BY <3>2, <3>3, FS_Subset
    <3>5. {b \in heap.marked : b <= o} \subseteq {b \in heap.marked : b < p}
      BY <1>0, <1>2 DEF Places
    <3>6. Destination(o) <= LiveBefore(p)
      BY <3>1, <3>4, <3>5, FS_Subset DEF Destination, LiveBefore
    <3>7. Destination(o) \in Nat /\ LiveBefore(p) \in Nat
      BY <1>0, <1>1, <2>0, Counting
    <3> QED BY <1>1, <2>1, <3>6, <3>7
  <2>2. CASE ~InRegion(p)
    BY <1>1, <1>2, <2>0, <2>2
  <2> QED BY <2>1, <2>2
<1> QED BY <1>1, <1>2
-----------------------------------------------------------------------------
(* The graph and the words of memory.                                      *)

\* What the heap's well-formedness says in the names the steps use.
LEMMA HeapFacts ==
  ASSUME HeapOK
  PROVE  /\ Total(heap) \in Nat \ {0} /\ heap.region \in Nat
         /\ Places(heap) = Targets(heap) \ {0} /\ Targets(heap) \subseteq Nat
         /\ \A p \in Nat : p \in Targets(heap) <=> p <= Total(heap)
         /\ heap.marked \subseteq Places(heap) /\ Owners = heap.marked \cup {0}
         /\ Owners \subseteq Targets(heap) /\ 0 \notin heap.marked
         /\ \A o \in Owners : \A k \in SlotsOf(o) :
              k \in Nat \ {0} /\ heap.slots[o][k] \in Owners
         /\ \A o \in Owners : \A k \in Nat \ {0} : k \in SlotsOf(o) <=> k <= Len(heap.slots[o])
         /\ \A o \in Owners : Len(heap.slots[o]) \in Nat
<1>1. Total(heap) \in Nat \ {0} /\ heap.region \in Nat
  BY DEF HeapOK, Total
<1>2. /\ Places(heap) = Targets(heap) \ {0} /\ Targets(heap) \subseteq Nat
      /\ \A p \in Nat : p \in Targets(heap) <=> p <= Total(heap)
  BY <1>1 DEF Places, Targets
<1>3. /\ heap.marked \subseteq Places(heap) /\ Owners = heap.marked \cup {0}
      /\ Owners \subseteq Targets(heap) /\ 0 \notin heap.marked
  BY <1>1, <1>2 DEF HeapOK, Owners, Targets
<1>4. \A o \in Owners : heap.slots[o] \in Seq(Targets(heap))
  BY <1>3 DEF HeapOK
<1>5. \A o \in Owners : /\ Len(heap.slots[o]) \in Nat
                       /\ SlotsOf(o) = 1 .. Len(heap.slots[o])
  BY <1>4 DEF SlotsOf
<1>6. \A o \in Owners : \A k \in SlotsOf(o) : heap.slots[o][k] \in Owners
  BY DEF HeapOK
<1> QED BY <1>1, <1>2, <1>3, <1>5, <1>6

\* No step changes the heap the collection started from, nor what is defined by it.
LEMMA SameHeap ==
  ASSUME heap' = heap
  PROVE  /\ HeapOK' <=> HeapOK
         /\ Owners' = Owners /\ Words' = Words /\ Places(heap)' = Places(heap)
         /\ Targets(heap)' = Targets(heap) /\ Total(heap)' = Total(heap)
         /\ \A o : /\ SlotsOf(o)' = SlotsOf(o) /\ Destination(o)' = Destination(o)
                   /\ Live(o)' = Live(o) /\ InRegion(o)' = InRegion(o)
                   /\ LiveBefore(o)' = LiveBefore(o)
<1>1. /\ Owners' = Owners /\ Places(heap)' = Places(heap)
      /\ Targets(heap)' = Targets(heap) /\ Total(heap)' = Total(heap)
      /\ \A o : SlotsOf(o)' = SlotsOf(o)
  BY DEF Owners, SlotsOf
<1>2. Words' = Words
  BY <1>1 DEF Words
<1>3. HeapOK' <=> HeapOK
  BY <1>1 DEF HeapOK
<1>4. \A o : /\ Live(o)' = Live(o) /\ InRegion(o)' = InRegion(o)
            /\ LiveBefore(o)' = LiveBefore(o)
  BY DEF Live, InRegion, LiveBefore
<1>5. \A o : Destination(o)' = Destination(o)
  BY <1>4 DEF Destination
<1> QED BY <1>1, <1>2, <1>3, <1>4, <1>5

\* The words the collector writes are words.
LEMMA WordFacts ==
  ASSUME HeapOK
  PROVE  /\ \A p \in Targets(heap), k \in Nat : SlotAt(p, k) \in Words
         /\ \A p \in Targets(heap), b \in BOOLEAN : Pointer(b, p) \in Words
         /\ ListEnd \in Words /\ Jump \in Words /\ Immediate \in Words
         /\ \A p, k : SlotAt(p, k) # ListEnd /\ SlotAt(p, k).place = p /\ SlotAt(p, k).slot = k
         /\ \A p, k, q, j : SlotAt(p, k) = SlotAt(q, j) => p = q /\ k = j
         /\ \A b, p : Pointer(b, p).tag # "immediate" /\ Pointer(b, p).place = p
         /\ Immediate.tag = "immediate"
<1>1. 0 \in Targets(heap)
  BY HeapFacts
<1>2. \A tag, p, k : Word(tag, p, k) \in Words <=> tag \in Tags /\ p \in Targets(heap) /\ k \in Nat
  BY DEF Word, Words
<1> QED BY <1>1, <1>2 DEF Word, SlotAt, Pointer, ListEnd, Jump, Immediate, Tags

\* Every slot on a list is an owner's, which refers to the list's object; so a dead
\* object has no list, and no slot is on two lists.
LEMMA OnListFacts ==
  ASSUME IInv, NEW t \in Places(heap), NEW n \in 1 .. Len(chain[t])
  PROVE  /\ \E o \in Owners : \E k \in SlotsOf(o) :
              /\ chain[t][n] = SlotAt(o, k) /\ heap.slots[o][k] = t /\ ~Raw(o, k)
              /\ Passed(t) => o >= t
         /\ Live(t) /\ ~Moved(t)
<1>1. OnList(t, chain[t][n])  BY DEF IInv, ListsInv
<1>2. PICK o \in Owners : \E k \in SlotsOf(o) :
        /\ chain[t][n] = SlotAt(o, k) /\ heap.slots[o][k] = t /\ ~Raw(o, k)
        /\ Passed(t) => o >= t
  BY <1>1 DEF OnList
<1>3. Live(t)
  BY <1>2, HeapFacts DEF IInv, Live
<1>4. chain[t] # <<>>
  OBVIOUS
<1>5. ~Moved(t)  BY <1>4 DEF IInv, ListsInv
<1> QED BY <1>2, <1>3, <1>5

\* Objects are at places of the heap.
LEMMA WhereIn ==
  ASSUME IInv, NEW o \in Owners
  PROVE  o \in Targets(heap) /\ where[o] \in Targets(heap)
<1>1. HeapOK /\ o \in Targets(heap) /\ where[o] = IF Live(o) /\ Moved(o) THEN Destination(o) ELSE o
  BY HeapFacts DEF IInv, PlacesInv
<1>2. Live(o) => Destination(o) \in 1 .. o
  BY <1>1, Destinations DEF Live
<1> QED BY <1>1, <1>2, HeapFacts

-----------------------------------------------------------------------------
(* Threading a slot.                                                       *)

\* The roots are threaded as the slots of the object visited are: by the end of the
\* step the slot is the head of its object's list.
LEMMA ThreadKeeps ==
  ASSUME IInv, phase \in {"roots", "forward"}, step = "thread", slot \in SlotsOf(at),
         Thread(at, slot), slot' = slot + 1,
         UNCHANGED <<heap, phase, at, step, current, free, where>>
  PROVE  IInv'
<1> DEFINE t == heap.slots[at][slot]
           a == SlotAt(at, slot)
           word == mem[at].slots[slot]
<1>1. HeapOK /\ HeapOK'
  BY SameHeap DEF IInv
<1>2. at \in Owners /\ at \in Targets(heap) /\ at \in Nat /\ slot \in Nat \ {0}
  BY <1>1, HeapFacts DEF IInv, ControlInv, Live
<1>3. \A o : ~Moved(o) /\ ~Moved(o)'
  BY DEF Moved
<1>4. \A o \in Targets(heap) : where[o] = o
  BY <1>3 DEF IInv, PlacesInv
<1>5. \A o \in Owners : \A k \in SlotsOf(o) : o \in Nat /\ k \in Nat
  BY <1>1, HeapFacts
<1>6. \A o \in Owners : \A k \in SlotsOf(o) :
        IF o = at /\ k = slot THEN Raw(o, k) /\ ~Raw(o, k)' ELSE Raw(o, k)' <=> Raw(o, k)
  BY <1>2, <1>5 DEF Raw
<1>7. ControlInv'
  BY <1>2, SameHeap DEF IInv, ControlInv
<1>8. t \in Owners /\ t \in Targets(heap) /\ DOMAIN mem[at].slots = SlotsOf(at)
  BY <1>1, <1>2, <1>4, HeapFacts DEF IInv, SlotsInv
<1>9. /\ t = 0 => word = Immediate
      /\ t # 0 => word = Pointer(t \in heap.blocks, t)
  BY <1>2, <1>4, <1>6 DEF IInv, SlotsInv
<1>10. \A u : Passed(u)' <=> Passed(u)
  BY DEF Passed
<1>11. CASE t = 0
  <2>1. UNCHANGED <<mem, chain>>
    BY <1>1, <1>9, <1>11, WordFacts DEF Thread
  <2>2. PlacesInv'
    BY <1>3, <1>4, <2>1, SameHeap DEF IInv, PlacesInv
  <2>3. HeadersInv'
    BY <1>3, <2>1, SameHeap DEF IInv, HeadersInv
  <2>4. SlotsInv'
    BY <1>6, <1>11, <2>1, SameHeap DEF IInv, SlotsInv, Threaded
  <2>5. ListsInv'
    BY <1>3, <1>6, <1>10, <2>1, SameHeap DEF IInv, ListsInv, OnList
  <2>6. LinksInv'
    BY <1>3, <2>1, SameHeap DEF IInv, LinksInv, Start, Link, Read
  <2> QED BY <1>1, <1>7, <2>2, <2>3, <2>4, <2>5, <2>6 DEF IInv
<1>12. a = SlotAt(at, slot) /\ t = heap.slots[at][slot]
  OBVIOUS
<1>13. CASE t # 0
  <2>1. word.tag # "immediate" /\ word.place = t /\ t \in Places(heap) /\ Live(t)
    BY <1>1, <1>8, <1>9, <1>13, WordFacts, HeapFacts DEF Live
  <2>2. /\ mem' = [[mem EXCEPT ![at].slots[slot] = mem[t].thread] EXCEPT ![t].thread = a]
        /\ chain' = [chain EXCEPT ![t] = Append(chain[t], a)]
    BY <2>1 DEF Thread
  <2>3. a \in Words /\ mem[t].thread \in Words
    BY <1>1, <1>2, <1>8, WordFacts DEF IInv, PlacesInv, Cells
  <2> HIDE DEF a, t, word
  <2>4. /\ mem' \in [Targets(heap) -> Cells(Words)]
        /\ \A q \in Targets(heap) :
             /\ mem'[q].thread = IF q = t THEN a ELSE mem[q].thread
             /\ mem'[q].marked = mem[q].marked /\ mem'[q].block = mem[q].block
             /\ DOMAIN mem'[q].slots = DOMAIN mem[q].slots
             /\ \A j \in DOMAIN mem[q].slots :
                  mem'[q].slots[j] = IF q = at /\ j = slot THEN mem[t].thread
                                     ELSE mem[q].slots[j]
    <3> DEFINE m == [mem EXCEPT ![at].slots[slot] = mem[t].thread]
    <3>1. mem \in [Targets(heap) -> Cells(Words)]
      BY DEF IInv, PlacesInv
    <3>2. /\ m \in [Targets(heap) -> Cells(Words)]
          /\ \A q \in Targets(heap) :
               /\ m[q].thread = mem[q].thread
               /\ m[q].marked = mem[q].marked /\ m[q].block = mem[q].block
               /\ DOMAIN m[q].slots = DOMAIN mem[q].slots
               /\ \A j \in DOMAIN mem[q].slots :
                    m[q].slots[j] = IF q = at /\ j = slot THEN mem[t].thread
                                    ELSE mem[q].slots[j]
      BY <1>2, <1>8, <2>3, <3>1, SetSlot, SMTT(30)
    <3>3. mem' = [m EXCEPT ![t].thread = a]
      BY <2>2
    <3> HIDE DEF m
    <3>4. /\ mem' \in [Targets(heap) -> Cells(Words)]
          /\ \A q \in Targets(heap) :
               /\ mem'[q].thread = IF q = t THEN a ELSE m[q].thread
               /\ mem'[q].marked = m[q].marked /\ mem'[q].block = m[q].block
               /\ mem'[q].slots = m[q].slots
      BY <1>8, <2>3, <3>2, <3>3, SetThread
    <3> QED BY <3>2, <3>4
  <2>5. /\ chain' \in [Targets(heap) -> Seq(Words)]
        /\ \A u \in Targets(heap) : u # t => chain'[u] = chain[u]
        /\ Len(chain'[t]) = Len(chain[t]) + 1 /\ chain'[t][Len(chain[t]) + 1] = a
        /\ \A n \in 1 .. Len(chain[t]) : chain'[t][n] = chain[t][n]
        /\ Len(chain[t]) \in Nat
    <3>1. chain \in [Targets(heap) -> Seq(Words)]
      BY DEF IInv, PlacesInv
    <3>2. Append(chain[t], a) \in Seq(Words)
      BY <1>8, <2>3, <3>1
    <3>3. chain'[t] = Append(chain[t], a) /\ \A u \in Targets(heap) : u # t => chain'[u] = chain[u]
      BY <1>8, <2>2, <3>1
    <3>4. chain' \in [Targets(heap) -> Seq(Words)]
      BY <1>8, <2>2, <3>1, <3>2
    <3> QED BY <1>8, <2>3, <3>1, <3>3, <3>4
  <2>6. PlacesInv'
    BY <1>3, <1>4, <2>4, <2>5, SameHeap DEF IInv, PlacesInv
  <2>7. HeadersInv'
    BY <1>3, <2>4, SameHeap, HeapFacts, <1>1 DEF IInv, HeadersInv
  <2>8. \A u \in Places(heap) : \A n \in 1 .. Len(chain[u]) : chain[u][n] # a
    BY <1>1, <1>2, <1>6, <1>12, OnListFacts, WordFacts
  <2>9. \A o \in Owners : \A k \in SlotsOf(o) :
          mem'[o].slots[k] = IF o = at /\ k = slot THEN mem[t].thread ELSE mem[o].slots[k]
    <3>1. \A o \in Owners : o \in Targets(heap) /\ DOMAIN mem[o].slots = SlotsOf(o)
      BY <1>1, <1>4, HeapFacts DEF IInv, SlotsInv
    <3> QED BY <2>4, <3>1
  <2>10. SlotsInv'
    <3> SUFFICES ASSUME NEW o \in Owners, NEW k \in SlotsOf(o),
                        NEW u, u = heap.slots[o][k]
                 PROVE  /\ u = 0 => mem'[o].slots[k] = Immediate
                        /\ u # 0 /\ Raw(o, k)' =>
                              mem'[o].slots[k] = Pointer(u \in heap.blocks, u)
                        /\ u # 0 /\ ~Raw(o, k)' /\ ~Threaded(SlotAt(o, k), u)' =>
                              mem'[o].slots[k] = Pointer(u \in heap.blocks, Destination(u))
      <4>1. \A o \in Owners : o \in Targets(heap) /\ where'[o] = o
        BY <1>1, <1>4, HeapFacts
      <4>2. \A o \in Owners : DOMAIN mem'[o].slots = SlotsOf(o)
        BY <1>4, <2>4, <4>1 DEF IInv, SlotsInv
      <4> QED BY <4>1, <4>2, SameHeap DEF SlotsInv
    <3>1. u \in Targets(heap) /\ where[o] = o
      BY <1>1, <1>4, HeapFacts
    <3>2. CASE o = at /\ k = slot
      <4>1. Len(chain[t]) + 1 \in DOMAIN chain'[t] /\ u = t
        BY <1>8, <1>12, <2>5, <3>2
      <4>2. Threaded(SlotAt(o, k), u)'
        BY <1>12, <2>5, <3>2, <4>1 DEF Threaded
      <4> QED BY <1>6, <1>13, <3>2, <4>1, <4>2
    <3>3. CASE ~(o = at /\ k = slot)
      <4>1. DOMAIN chain[t] = 1 .. Len(chain[t]) /\ DOMAIN chain'[t] = 1 .. Len(chain[t]) + 1
        BY <1>8, <2>5 DEF IInv, PlacesInv
      <4>2. Threaded(SlotAt(o, k), u) => Threaded(SlotAt(o, k), u)'
        <5>1. CASE u = t
          BY <2>5, <4>1, <5>1 DEF Threaded
        <5>2. CASE u # t
          BY <2>5, <3>1, <5>2 DEF Threaded
        <5> QED BY <5>1, <5>2
      <4>3. mem'[o].slots[k] = mem[o].slots[k] /\ (Raw(o, k)' <=> Raw(o, k))
        BY <1>6, <2>9, <3>3
      <4> QED BY <3>1, <4>2, <4>3 DEF IInv, SlotsInv
    <3> QED BY <3>2, <3>3
  <2>11. ListsInv'
    <3>1. ASSUME NEW u \in Places(heap), NEW n \in 1 .. Len(chain'[u])
          PROVE  OnList(u, chain[u][n])'
      <4>1. CASE u = t /\ n = Len(chain[t]) + 1
        <5>1. Passed(t) => at >= t
          BY <1>1, <1>2, <1>8, HeapFacts DEF Passed
        <5> QED BY <1>2, <1>6, <1>10, <1>12, <2>5, <4>1, <5>1, SameHeap DEF OnList
      <4>2. CASE ~(u = t /\ n = Len(chain[t]) + 1)
        <5>1. n \in 1 .. Len(chain[u]) /\ chain'[u][n] = chain[u][n]
          BY <1>1, <2>5, <4>2, HeapFacts
        <5>2. OnList(u, chain[u][n])
          BY <5>1 DEF IInv, ListsInv
        <5> QED BY <1>6, <1>10, <5>1, <5>2, SameHeap DEF OnList
      <4> QED BY <4>1, <4>2
    <3>2. ASSUME NEW u \in Places(heap), NEW m \in 1 .. Len(chain'[u]),
                 NEW n \in 1 .. Len(chain'[u]), m # n
          PROVE  chain'[u][m] # chain'[u][n]
      <4>1. \A i, j \in 1 .. Len(chain[u]) : i # j => chain[u][i] # chain[u][j]
        BY DEF IInv, ListsInv
      <4>2. CASE u = t
        <5>1. \A i \in 1 .. Len(chain[t]) : chain'[t][i] = chain[t][i] /\ chain[t][i] # a
          BY <2>1, <2>5, <2>8
        <5>2. \A i \in 1 .. Len(chain'[t]) :
                i \in 1 .. Len(chain[t]) \/ (i = Len(chain[t]) + 1 /\ chain'[t][i] = a)
          BY <2>5
        <5> QED BY <3>2, <4>1, <4>2, <5>1, <5>2
      <4>3. CASE u # t
        BY <1>1, <2>5, <3>2, <4>1, <4>3, HeapFacts
      <4> QED BY <4>2, <4>3
    <3> QED BY <1>3, <3>1, <3>2, SameHeap DEF ListsInv
  <2>12. LinksInv'
    <3>1. ASSUME NEW u \in Places(heap), NEW n \in 1 .. Len(chain[u]), NEW b, b = chain[u][n]
          PROVE  Read(b)' = Read(b)
      <4>1. PICK o \in Owners : \E k \in SlotsOf(o) : chain[u][n] = SlotAt(o, k) /\ ~Raw(o, k)
        BY OnListFacts
      <4>2. PICK k \in SlotsOf(o) : chain[u][n] = SlotAt(o, k) /\ ~Raw(o, k)
        BY <4>1
      <4> QED BY <1>1, <1>6, <2>9, <3>1, <4>2, WordFacts DEF Read
    <3>2. ASSUME NEW u \in heap.marked
          PROVE  /\ Start(u)' = mem'[u].thread /\ Start(u) = mem[u].thread
                 /\ \A n : Link(u, n)' = IF n = 0 THEN ListEnd ELSE chain'[u][n]
                 /\ \A n : Link(u, n) = IF n = 0 THEN ListEnd ELSE chain[u][n]
      BY DEF Start, Link
    <3>3. ASSUME NEW u \in heap.marked
          PROVE  /\ Start(u) = Link(u, Len(chain[u]))
                 /\ \A n \in 1 .. Len(chain[u]) : Read(chain[u][n]) = Link(u, n - 1)
      BY <1>3 DEF IInv, LinksInv
    <3>4. ASSUME NEW u \in heap.marked
          PROVE  /\ mem'[u].thread = IF Len(chain'[u]) = 0 THEN ListEnd ELSE chain'[u][Len(chain'[u])]
                 /\ \A n \in 1 .. Len(chain'[u]) : \A b : b = chain'[u][n] =>
                      Read(b)' = IF n = 1 THEN ListEnd ELSE chain'[u][n - 1]
      <4>0. u \in Targets(heap) /\ u \in Places(heap)
        BY <1>1, HeapFacts
      <4>1. CASE u # t
        BY <2>4, <2>5, <3>1, <3>2, <3>3, <4>0, <4>1
      <4>2. CASE u = t
        <5>1. mem'[u].thread = chain'[u][Len(chain'[u])] /\ Len(chain'[u]) # 0
          BY <2>4, <2>5, <4>0, <4>2
        <5>2. ASSUME NEW n \in 1 .. Len(chain'[u]), NEW b, b = chain'[u][n]
              PROVE  Read(b)' = IF n = 1 THEN ListEnd ELSE chain'[u][n - 1]
          <6>1. CASE n = Len(chain[t]) + 1
            <7>1. b = SlotAt(at, slot)
              BY <1>12, <2>5, <4>2, <5>2, <6>1
            <7>2. Read(b)' = mem[t].thread
              BY <1>1, <1>2, <2>9, <7>1, WordFacts DEF Read
            <7>3. mem[t].thread = IF n = 1 THEN ListEnd ELSE chain[t][n - 1]
              BY <2>5, <3>2, <3>3, <4>2, <6>1
            <7> QED BY <2>5, <4>2, <6>1, <7>2, <7>3
          <6>2. CASE n # Len(chain[t]) + 1
            <7>1. n \in 1 .. Len(chain[t]) /\ b = chain[t][n]
              BY <2>5, <4>2, <5>2, <6>2
            <7>2. Read(b)' = Link(t, n - 1)
              BY <3>1, <3>3, <4>0, <4>2, <7>1
            <7>3. n # 1 => n - 1 \in 1 .. Len(chain[t])
              BY <2>5, <7>1
            <7>4. Link(t, n - 1) = IF n = 1 THEN ListEnd ELSE chain'[t][n - 1]
              BY <2>5, <7>1, <7>3 DEF Link
            <7> QED BY <4>2, <7>2, <7>4
          <6> QED BY <6>1, <6>2
        <5> QED BY <5>1, <5>2
      <4> QED BY <4>1, <4>2
    <3> QED BY <1>3, <3>2, <3>4, SameHeap DEF LinksInv
  <2> QED BY <1>1, <1>7, <2>6, <2>7, <2>10, <2>11, <2>12 DEF IInv
<1> QED BY <1>11, <1>13
-----------------------------------------------------------------------------
(* Steps between the passes' loops.                                        *)

\* Nothing refers to a dead object.
LEMMA DeadUnlisted ==
  ASSUME IInv, NEW t \in Places(heap), ~Live(t)
  PROVE  chain[t] = <<>>
<1>1. chain[t] \in Seq(Words)
  BY HeapFacts DEF IInv, PlacesInv
<1>2. \A n : n \notin 1 .. Len(chain[t])
  BY OnListFacts
<1>3. Len(chain[t]) = 0
  BY <1>1, <1>2, 1 \notin 1 .. Len(chain[t])
<1> QED BY <1>1, <1>3

\* A step that writes no slot, threads none and moves no object leaves the graph
\* as it is.
LEMMA QuietStep ==
  ASSUME IInv, UNCHANGED <<heap, where, chain>>, current' \in Words,
         mem' \in [Targets(heap) -> Cells(Words)],
         \A q \in Targets(heap) : mem'[q].slots = mem[q].slots,
         \A o \in Owners : \A k \in SlotsOf(o) : Raw(o, k)' <=> Raw(o, k),
         \A t \in Places(heap) : Passed(t)' => Passed(t) \/ chain[t] = <<>>,
         \A o \in heap.marked : Moved(o)' <=> Moved(o),
         \A t \in heap.marked : ~Moved(t) => Start(t)' = Start(t)
  PROVE  HeapOK' /\ PlacesInv' /\ SlotsInv' /\ ListsInv' /\ LinksInv'
<1>1. HeapOK /\ HeapOK'
  BY SameHeap DEF IInv
<1>2. \A o \in Owners : o \in Targets(heap) /\ where[o] \in Targets(heap)
  BY WhereIn
<1>3. \A t \in Places(heap) : Live(t) \/ chain[t] = <<>>
  BY DeadUnlisted
<1>4. PlacesInv'
  <2>1. \A o \in Targets(heap) : Live(o) => (Moved(o)' <=> Moved(o))
    BY DEF Live
  <2> QED BY <2>1, SameHeap DEF IInv, PlacesInv
<1>5. SlotsInv'
  <2>1. \A o \in Owners : mem'[where[o]].slots = mem[where[o]].slots
    BY <1>2
  <2> QED BY <2>1, SameHeap DEF IInv, SlotsInv, Threaded
<1>6. ListsInv'
  <2>1. ASSUME NEW t \in Places(heap), NEW n \in 1 .. Len(chain[t]), NEW b, b = chain[t][n]
        PROVE  OnList(t, b)'
    <3>1. OnList(t, b) /\ chain[t] # <<>>
      BY <2>1 DEF IInv, ListsInv
    <3>2. Passed(t)' => Passed(t)
      BY <3>1
    <3> QED BY <3>1, <3>2, SameHeap DEF OnList
  <2>2. \A t \in Places(heap) : Moved(t)' => chain[t] = <<>>
    BY <1>3 DEF IInv, ListsInv, Live
  <2> QED BY <2>1, <2>2, SameHeap DEF IInv, ListsInv
<1>7. LinksInv'
  <2>1. ASSUME NEW t \in Places(heap), NEW n \in 1 .. Len(chain[t]), NEW b, b = chain[t][n]
        PROVE  Read(b)' = Read(b)
    <3>1. b.place \in Targets(heap)
      BY <1>1, <1>2, <2>1, OnListFacts, WordFacts
    <3> QED BY <3>1 DEF Read
  <2>2. \A t, n : Link(t, n)' = Link(t, n)
    BY DEF Link
  <2>3. heap.marked \subseteq Places(heap)
    BY <1>1, HeapFacts
  <2>4. ASSUME NEW t \in heap.marked, ~Moved(t)'
        PROVE  /\ Start(t)' = Link(t, Len(chain[t]))'
               /\ \A n \in 1 .. Len(chain[t]) : Read(chain[t][n])' = Link(t, n - 1)'
    <3>1. /\ Start(t) = Link(t, Len(chain[t]))
          /\ \A n \in 1 .. Len(chain[t]) : Read(chain[t][n]) = Link(t, n - 1)
      BY <2>4 DEF IInv, LinksInv
    <3>2. Start(t)' = Start(t) /\ chain'[t] = chain[t]
      BY <2>4
    <3> QED BY <2>1, <2>2, <2>3, <3>1, <3>2
  <2> QED BY <2>4, SameHeap DEF LinksInv
<1> QED BY <1>1, <1>4, <1>5, <1>6, <1>7

\* The next place of a pass: the allocator stands where the live objects before it end.
LEMMA NextVisitKeeps ==
  ASSUME IInv, phase \in {"forward", "backward"}, heap' = heap, slot' \in Nat \ {0},
         NEW f \in 1 .. heap.region + 1, NextVisit(f),
         InRegion(at) => f = IF Live(at) THEN free + 1 ELSE free
  PROVE  /\ ControlInv'
         /\ at < Total(heap) => phase' = phase /\ at' = at + 1
         /\ at = Total(heap) => at' = 1 /\ phase' = IF phase = "forward" THEN "backward" ELSE "done"
         /\ at \in Places(heap) /\ at <= Total(heap) /\ step' = "visit"
<1>1. HeapOK /\ HeapOK' /\ at \in Places(heap) /\ (InRegion(at) => free = LiveBefore(at) + 1)
  BY SameHeap DEF IInv, ControlInv
<1>2. at \in Nat \ {0} /\ Total(heap) \in Nat /\ at <= Total(heap) /\ heap.region \in Nat
  BY <1>1, HeapFacts
<1>3. CASE at < Total(heap)
  <2>1. phase' = phase /\ at' = at + 1 /\ free' = f /\ step' = "visit"
    BY <1>3 DEF NextVisit
  <2>2. at + 1 \in Places(heap)
    BY <1>1, <1>2, <1>3, HeapFacts
  <2>3. InRegion(at + 1) => InRegion(at)
    BY <1>2 DEF InRegion
  <2>4. InRegion(at + 1) => f = LiveBefore(at + 1) + 1
    BY <1>1, <2>3, Counting
  <2>5. InRegion(at)' => free' = LiveBefore(at + 1) + 1
    BY <2>1, <2>4 DEF InRegion
  <2>6. InRegion(at)' => free' = LiveBefore(at)' + 1
    BY <2>1, <2>5 DEF LiveBefore
  <2>7. ControlInv'
    <3>1. at' \in Places(heap)' /\ free' \in (1 .. heap.region + 1)'
      BY <2>1, <2>2
    <3> QED BY <2>1, <2>6, <3>1 DEF ControlInv
  <2> QED BY <1>1, <1>2, <1>3, <2>1, <2>7
<1>4. CASE at = Total(heap)
  <2>1. phase' = (IF phase = "forward" THEN "backward" ELSE "done") /\ at' = 1 /\ free' = 1 /\ step' = "visit"
    BY <1>2, <1>4 DEF NextVisit
  <2>2. 1 \in Places(heap)
    BY <1>1, <1>2, HeapFacts
  <2>3. free' = LiveBefore(at)' + 1
    BY <1>1, <2>1, Counting DEF LiveBefore
  <2>4. ControlInv'
    <3>1. at' \in Places(heap)' /\ free' \in (1 .. heap.region + 1)'
      BY <1>2, <2>1, <2>2
    <3> QED BY <2>1, <2>3, <3>1 DEF ControlInv
  <2> QED BY <1>1, <1>2, <1>4, <2>1, <2>4
<1> QED BY <1>2, <1>1, <1>3, <1>4

-----------------------------------------------------------------------------
(* The first pass.                                                         *)

\* Headers are no concern of the first pass, but for thread_list.
LEMMA HeadersStay ==
  ASSUME IInv, HeapOK', heap' = heap, phase \in {"roots", "forward"},
         phase' \in {"forward", "backward"}, phase' = "backward" => at' = 1 /\ step' = "visit",
         \A q \in Targets(heap) : mem'[q].marked = mem[q].marked /\ mem'[q].block = mem[q].block
  PROVE  HeadersInv' /\ \A o \in Targets(heap) : ~Moved(o) /\ (o # 0 => ~Moved(o)')
<1>1. \A o \in Targets(heap) : ~Moved(o) /\ (o # 0 => ~Moved(o)')
  BY SameHeap, HeapFacts DEF Moved, IInv
<1>2. \A p \in Places(heap) : /\ mem[p].block = (p \in heap.blocks)
                              /\ (mem[p].marked <=> Live(p))
  <2> SUFFICES ASSUME NEW p \in Places(heap)
               PROVE  mem[p].block = (p \in heap.blocks) /\ (mem[p].marked <=> Live(p))
    OBVIOUS
  <2>1. ~Moved(p)
    BY <1>1, HeapFacts DEF IInv
  <2>2. /\ mem[p].block = (p \in heap.blocks)
        /\ mem[p].marked <=> (Live(p) /\ ~(phase = "backward" /\ p = at /\ step = "update"))
    BY <2>1 DEF IInv, HeadersInv
  <2>3. phase # "backward"
    OBVIOUS
  <2> QED BY <2>2, <2>3
<1>3. Places(heap) = Targets(heap) \ {0} /\ heap.marked \subseteq Places(heap)
  BY HeapFacts DEF IInv
<1>4. \A p \in Places(heap) :
        /\ mem'[p].block = (p \in heap.blocks) /\ (mem'[p].marked <=> Live(p))
        /\ ~(phase' = "backward" /\ p = at' /\ step' = "update")
  BY <1>2, <1>3
<1>5. HeadersInv'
  <2>1. \A p \in Places(heap) :
          /\ mem'[p].block = (p \in heap.blocks)
          /\ mem'[p].marked <=> (Live(p) /\ ~(phase' = "backward" /\ p = at' /\ step' = "update"))
    BY <1>4
  <2>2. \A o \in heap.marked : ~Moved(o)'
    BY <1>1, <1>3
  <2> QED BY <2>1, <2>2, SameHeap DEF HeadersInv
<1> QED BY <1>1, <1>5

\* The roots are threaded: the first object is next.
LEMMA RootsThreadedKeeps ==
  ASSUME IInv, RootsThreaded
  PROVE  IInv'
<1> USE DEF RootsThreaded
<1>1. HeapOK /\ HeapOK' /\ 1 \in Places(heap)
  BY SameHeap, HeapFacts DEF IInv
<1>2. at = 0 /\ step = "thread" /\ free = 1
  BY DEF IInv, ControlInv
<1>3. ControlInv'
  <2>1. free' = LiveBefore(1) + 1
    BY <1>1, <1>2, Counting
  <2>2. free' = LiveBefore(at)' + 1
    BY <2>1 DEF LiveBefore
  <2> QED BY <1>1, <2>2, SameHeap DEF IInv, ControlInv
<1>4. HeadersInv' /\ \A o \in Targets(heap) : ~Moved(o) /\ (o # 0 => ~Moved(o)')
  BY <1>1, HeadersStay
<1>5. \A o \in Owners : \A k \in SlotsOf(o) : Raw(o, k)' <=> Raw(o, k)
  <2>1. \A o \in Owners : \A k \in SlotsOf(o) : o \in Nat /\ k \in Nat
    BY <1>1, HeapFacts
  <2>2. 0 \in Owners /\ \A k \in SlotsOf(0) : k < slot
    BY <1>1, HeapFacts DEF IInv, ControlInv
  <2>3. ASSUME NEW o \in Owners, NEW k \in SlotsOf(o) PROVE Raw(o, k)' <=> Raw(o, k)
    <3>1. CASE o = 0
      <4>1. k < slot /\ k \in Nat /\ slot \in Nat
        BY <2>1, <2>2, <3>1 DEF IInv, ControlInv
      <4> QED BY <1>2, <3>1, <4>1 DEF Raw
    <3>2. CASE o # 0
      BY <1>2, <2>1, <3>2 DEF Raw
    <3> QED BY <3>1, <3>2
  <2> QED BY <2>3
<1>6. \A t \in Places(heap) : ~Passed(t)'
  BY <1>1, HeapFacts DEF Passed
<1>7. \A t \in heap.marked : Start(t)' = Start(t)
  BY <1>2 DEF Start
<1>8. PlacesInv' /\ SlotsInv' /\ ListsInv' /\ LinksInv'
  <2>1. mem' \in [Targets(heap) -> Cells(Words)] /\ current' \in Words
    BY DEF IInv, PlacesInv
  <2>2. \A o \in heap.marked : Moved(o)' <=> Moved(o)
    BY <1>1, <1>4, HeapFacts
  <2> QED BY <1>5, <1>6, <1>7, <2>1, <2>2, QuietStep
<1> QED BY <1>1, <1>3, <1>4, <1>8 DEF IInv

\* Going on to the next place of the first pass, past a dead object or past an
\* object whose slots are threaded, changes nothing else.
LEMMA ForwardGoesOn ==
  ASSUME IInv, phase = "forward", UNCHANGED <<heap, where, chain, current, slot>>,
         mem' \in [Targets(heap) -> Cells(Words)],
         \A q \in Targets(heap) : /\ mem'[q].slots = mem[q].slots
                                  /\ mem'[q].marked = mem[q].marked
                                  /\ mem'[q].block = mem[q].block
                                  /\ Live(q) => mem'[q].thread = mem[q].thread,
         \/ ~Live(at) /\ NextVisit(free)
         \/ Live(at) /\ NextVisit(AfterAllocate) /\ step = "thread" /\ \A k \in SlotsOf(at) : k < slot
  PROVE  IInv'
<1>1. HeapOK /\ HeapOK'
  BY SameHeap DEF IInv
<1>2. at \in Places(heap) /\ step \in {"visit", "update", "thread"}
  BY DEF IInv, ControlInv
<1>3. /\ ControlInv' /\ step' = "visit" /\ at <= Total(heap)
      /\ at < Total(heap) => phase' = "forward" /\ at' = at + 1
      /\ at = Total(heap) => phase' = "backward" /\ at' = 1
  <2>1. slot' \in Nat \ {0} /\ free \in 1 .. heap.region + 1
    BY DEF IInv, ControlInv
  <2>2. CASE ~Live(at) /\ NextVisit(free)
    BY <2>1, <2>2, NextVisitKeeps
  <2>3. CASE Live(at) /\ NextVisit(AfterAllocate)
    <3>1. LiveBefore(at) < at /\ LiveBefore(at) \in Nat /\ at \in Nat /\ heap.region \in Nat
      BY <1>1, <1>2, Counting, HeapFacts
    <3>2. InRegion(at) => free + 1 \in 1 .. heap.region + 1
      BY <3>1 DEF IInv, ControlInv, InRegion
    <3>3. /\ AfterAllocate \in 1 .. heap.region + 1
          /\ InRegion(at) => AfterAllocate = free + 1
      BY <2>1, <3>2 DEF AfterAllocate
    <3> QED BY <2>1, <2>3, <3>3, NextVisitKeeps
  <2> QED BY <2>2, <2>3
<1>4. HeadersInv' /\ \A o \in Targets(heap) : ~Moved(o) /\ (o # 0 => ~Moved(o)')
  <2>1. phase' \in {"forward", "backward"} /\ (phase' = "backward" => at' = 1)
    BY <1>1, <1>2, <1>3, HeapFacts
  <2> QED BY <1>1, <1>3, <2>1, HeadersStay
<1>5. at \in Nat /\ Total(heap) \in Nat
  BY <1>1, <1>2, HeapFacts
<1>6. ASSUME NEW o \in Owners, NEW k \in SlotsOf(o) PROVE Raw(o, k)' <=> Raw(o, k)
  <2>1. o \in Nat /\ o <= Total(heap) /\ k \in Nat /\ slot \in Nat
    BY <1>1, HeapFacts DEF IInv, ControlInv
  <2>2. o = at => step = "thread" /\ k < slot
    BY <1>1, <1>2, HeapFacts DEF Live
  <2> QED BY <1>3, <1>5, <2>1, <2>2 DEF Raw
<1>7. ASSUME NEW t \in Places(heap) PROVE Passed(t)' => Passed(t) \/ chain[t] = <<>>
  <2>1. t \in Nat /\ t <= Total(heap)
    BY <1>1, HeapFacts
  <2>2. t = at => Passed(t) \/ chain[t] = <<>>
    BY <1>2, DeadUnlisted DEF Passed
  <2> QED BY <1>3, <1>5, <2>1, <2>2 DEF Passed
<1>8. ASSUME NEW t \in heap.marked PROVE Start(t)' = Start(t)
  <2>1. Start(t)' = mem'[t].thread /\ t \in Targets(heap) /\ Live(t)
    BY <1>1, <1>3, HeapFacts DEF Start, Live
  <2>2. step = "update" => t # at
    BY <2>1
  <2> QED BY <2>1, <2>2 DEF Start
<1>9. PlacesInv' /\ SlotsInv' /\ ListsInv' /\ LinksInv'
  <2>1. current' \in Words
    BY DEF IInv, PlacesInv
  <2>2. \A o \in heap.marked : Moved(o)' <=> Moved(o)
    BY <1>1, <1>4, HeapFacts
  <2> QED BY <1>6, <1>7, <1>8, <2>1, <2>2, QuietStep
<1> QED BY <1>1, <1>3, <1>4, <1>9 DEF IInv

\* A dead object's header may become a FreeBlock's: no list starts there.
LEMMA ForwardDeadKeeps ==
  ASSUME IInv, ForwardDead
  PROVE  IInv'
<1>1. HeapOK /\ at \in Places(heap) /\ at \in Targets(heap) /\ phase = "forward"
  BY HeapFacts DEF ForwardDead, IInv, ControlInv
<1>2. ~Live(at)
  BY <1>1 DEF ForwardDead, IInv, HeadersInv, Moved
<1>3. mem \in [Targets(heap) -> Cells(Words)] /\ Jump \in Words
  BY <1>1, WordFacts DEF IInv, PlacesInv
<1>4. /\ mem' \in [Targets(heap) -> Cells(Words)]
      /\ \A q \in Targets(heap) : /\ mem'[q].slots = mem[q].slots
                                  /\ mem'[q].marked = mem[q].marked
                                  /\ mem'[q].block = mem[q].block
                                  /\ q # at => mem'[q].thread = mem[q].thread
  <2>1. CASE InRegion(at)
    <3>1. mem' = [mem EXCEPT ![at].thread = Jump]
      BY <2>1 DEF ForwardDead
    <3> QED BY <1>1, <1>3, <3>1, SetThread
  <2>2. CASE ~InRegion(at)
    BY <1>3, <2>2 DEF ForwardDead
  <2> QED BY <2>1, <2>2
<1>5. \A q \in Targets(heap) : Live(q) => mem'[q].thread = mem[q].thread
  BY <1>2, <1>4
<1> QED BY <1>1, <1>2, <1>4, <1>5, ForwardGoesOn DEF ForwardDead

\* The object's own slots are threaded: the next object is next.
LEMMA SlotsThreadedKeeps ==
  ASSUME IInv, SlotsThreaded
  PROVE  IInv'
<1>1. HeapOK /\ at \in Places(heap) /\ at \in Targets(heap) /\ phase = "forward" /\ Live(at)
  BY HeapFacts DEF SlotsThreaded, IInv, ControlInv
<1>2. where[at] = at /\ at \in Owners
  BY <1>1, HeapFacts DEF IInv, PlacesInv, Moved, Live
<1>3. DOMAIN mem[at].slots = SlotsOf(at) /\ mem[at].slots \in Seq(Words)
  BY <1>1, <1>2 DEF IInv, SlotsInv, PlacesInv, Cells
<1>4. \A k \in SlotsOf(at) : k < slot
  BY <1>3 DEF SlotsThreaded, IInv, ControlInv
<1>5. mem \in [Targets(heap) -> Cells(Words)]
  BY DEF IInv, PlacesInv
<1> QED BY <1>1, <1>4, <1>5, ForwardGoesOn DEF SlotsThreaded

\* update starts at the head of the object's list.
LEMMA ForwardLiveKeeps ==
  ASSUME IInv, ForwardLive
  PROVE  IInv'
<1>1. HeapOK /\ HeapOK' /\ at \in Places(heap) /\ at \in Targets(heap)
  BY SameHeap, HeapFacts DEF IInv, ControlInv, ForwardLive
<1>2. Live(at)
  BY <1>1 DEF ForwardLive, IInv, HeadersInv, Moved
<1>3. \A o, k : Raw(o, k)' <=> Raw(o, k)
  BY DEF ForwardLive, Raw
<1>4. \A t : (Passed(t)' <=> Passed(t)) /\ (Moved(t)' <=> Moved(t))
  BY DEF ForwardLive, Passed, Moved
<1>5. ControlInv'
  BY <1>2, SameHeap DEF ForwardLive, IInv, ControlInv
<1>6. HeadersInv'
  BY <1>4, SameHeap DEF ForwardLive, IInv, HeadersInv
<1>7. \A t : Start(t)' = Start(t)
  BY DEF ForwardLive, Start
<1>8. mem' \in [Targets(heap) -> Cells(Words)] /\ current' \in Words
  BY <1>1 DEF ForwardLive, IInv, PlacesInv, Cells
<1>9. PlacesInv' /\ SlotsInv' /\ ListsInv' /\ LinksInv'
  BY <1>3, <1>4, <1>7, <1>8, QuietStep DEF ForwardLive
<1> QED BY <1>1, <1>5, <1>6, <1>9 DEF IInv

\* The list update has come to the end of is empty.
LEMMA UpdatedListEmpty ==
  ASSUME IInv, phase \in {"forward", "backward"}, step = "update", current = ListEnd
  PROVE  chain[at] = <<>>
<1>1. HeapOK /\ at \in Places(heap) /\ at \in heap.marked /\ ~Moved(at)
  BY HeapFacts DEF IInv, ControlInv, Live, Moved
<1>2. chain[at] \in Seq(Words) /\ Len(chain[at]) \in Nat
  BY <1>1, HeapFacts DEF IInv, PlacesInv
<1>3. ListEnd = IF Len(chain[at]) = 0 THEN ListEnd ELSE chain[at][Len(chain[at])]
  BY <1>1 DEF IInv, LinksInv, Start, Link
<1>4. \A n \in 1 .. Len(chain[at]) : chain[at][n] # ListEnd
  BY <1>1, OnListFacts, WordFacts
<1>5. Len(chain[at]) = 0
  BY <1>2, <1>3, <1>4
<1> QED BY <1>2, <1>5

\* The list update has walked is empty, and the object's own slots are still raw.
LEMMA ForwardUpdatedKeeps ==
  ASSUME IInv, ForwardUpdated
  PROVE  IInv'
<1>1. HeapOK /\ HeapOK' /\ at \in Places(heap) /\ at \in Targets(heap) /\ Live(at)
  BY SameHeap, HeapFacts DEF IInv, ControlInv, ForwardUpdated
<1>2. chain[at] = <<>>
  BY UpdatedListEmpty DEF ForwardUpdated
<1>3. mem \in [Targets(heap) -> Cells(Words)] /\ ListEnd \in Words /\ current' \in Words
  BY <1>1, WordFacts DEF ForwardUpdated, IInv, PlacesInv
<1>4. /\ mem' \in [Targets(heap) -> Cells(Words)]
      /\ \A q \in Targets(heap) : /\ mem'[q].slots = mem[q].slots
                                  /\ mem'[q].marked = mem[q].marked
                                  /\ mem'[q].block = mem[q].block
                                  /\ mem'[q].thread = IF q = at THEN ListEnd ELSE mem[q].thread
  BY <1>1, <1>3, SetThread DEF ForwardUpdated
<1>5. ASSUME NEW o \in Owners, NEW k \in SlotsOf(o) PROVE Raw(o, k)' <=> Raw(o, k)
  <2>1. k \in Nat \ {0}
    BY <1>1, HeapFacts
  <2> QED BY <2>1 DEF ForwardUpdated, Raw
<1>6. \A t : (Passed(t)' => Passed(t) \/ t = at) /\ (Moved(t)' <=> Moved(t)) /\ ~Moved(t)
  BY DEF ForwardUpdated, Passed, Moved
<1>7. ControlInv'
  BY <1>1, SameHeap DEF ForwardUpdated, IInv, ControlInv
<1>8. HeadersInv'
  <2>1. \A p \in Places(heap) : p \in Targets(heap)
    BY <1>1, HeapFacts
  <2> QED BY <1>4, <1>6, <2>1, SameHeap DEF ForwardUpdated, IInv, HeadersInv
<1>9. ASSUME NEW t \in heap.marked PROVE Start(t)' = Start(t)
  BY <1>1, <1>4, HeapFacts DEF ForwardUpdated, Start
<1>10. PlacesInv' /\ SlotsInv' /\ ListsInv' /\ LinksInv'
  BY <1>2, <1>3, <1>4, <1>5, <1>6, <1>9, QuietStep DEF ForwardUpdated
<1> QED BY <1>1, <1>7, <1>8, <1>10 DEF IInv

-----------------------------------------------------------------------------
(* The second pass.                                                        *)

\* The second pass leaves dead objects alone.
LEMMA BackwardDeadKeeps ==
  ASSUME IInv, BackwardDead
  PROVE  IInv'
<1>1. HeapOK /\ HeapOK' /\ at \in Places(heap) /\ at \in Targets(heap)
  BY SameHeap, HeapFacts DEF IInv, ControlInv, BackwardDead
<1>2. ~Live(at)
  BY <1>1, HeapFacts DEF BackwardDead, IInv, HeadersInv, Moved
<1>3. /\ ControlInv' /\ step' = "visit" /\ at <= Total(heap)
      /\ at < Total(heap) => phase' = "backward" /\ at' = at + 1
      /\ at = Total(heap) => phase' = "done" /\ at' = 1
  BY <1>2, NextVisitKeeps DEF BackwardDead, IInv, ControlInv
<1>4. ASSUME NEW o \in Targets(heap), Live(o) PROVE Moved(o)' <=> Moved(o)
  <2>1. o \in Nat /\ o <= Total(heap) /\ at \in Nat /\ Total(heap) \in Nat /\ o # at
    BY <1>1, <1>2, <1>4, HeapFacts
  <2> QED BY <1>3, <2>1 DEF Moved, BackwardDead
<1>5. ASSUME NEW o \in Targets(heap), Moved(o) PROVE Moved(o)'
  <2>1. o \in Nat /\ o <= Total(heap) /\ at \in Nat /\ Total(heap) \in Nat
    BY <1>1, HeapFacts
  <2> QED BY <1>3, <1>5, <2>1 DEF Moved, BackwardDead
<1>6. HeadersInv'
  <2>1. Places(heap) \subseteq Targets(heap) /\ heap.marked \subseteq Targets(heap)
    BY <1>1, HeapFacts
  <2> QED BY <1>3, <1>4, <1>5, <2>1, SameHeap DEF BackwardDead, IInv, HeadersInv, Live
<1>7. PlacesInv' /\ SlotsInv' /\ ListsInv' /\ LinksInv'
  <2>1. \A o, k : Raw(o, k)' <=> Raw(o, k)
    BY <1>1, <1>3, HeapFacts DEF BackwardDead, Raw
  <2>2. \A t : Passed(t)
    BY DEF BackwardDead, Passed
  <2>3. \A t : Start(t)' = Start(t)
    BY <1>3 DEF BackwardDead, Start
  <2>4. mem' \in [Targets(heap) -> Cells(Words)] /\ current' \in Words /\ mem' = mem
    BY <1>1 DEF BackwardDead, IInv, PlacesInv
  <2>5. \A o \in heap.marked : Moved(o)' <=> Moved(o)
    BY <1>1, <1>4, HeapFacts DEF Live
  <2> QED BY <2>1, <2>2, <2>3, <2>4, <2>5, QuietStep DEF BackwardDead
<1> QED BY <1>1, <1>3, <1>6, <1>7 DEF IInv

\* update starts again, on the slots threaded since the first pass went by.
LEMMA BackwardLiveKeeps ==
  ASSUME IInv, BackwardLive
  PROVE  IInv'
<1>1. HeapOK /\ HeapOK' /\ at \in Places(heap) /\ at \in Targets(heap) /\ at \in Nat
  BY SameHeap, HeapFacts DEF IInv, ControlInv, BackwardLive
<1>2. Live(at)
  BY <1>1 DEF BackwardLive, IInv, HeadersInv, Moved
<1>3. \A o, k : Raw(o, k)' <=> Raw(o, k)
  BY DEF BackwardLive, Raw
<1>4. \A t : (Passed(t)' <=> Passed(t)) /\ (Moved(t)' <=> Moved(t))
  BY DEF BackwardLive, Passed, Moved
<1>5. ControlInv'
  BY <1>2, SameHeap DEF BackwardLive, IInv, ControlInv
<1>6. mem \in [Targets(heap) -> Cells(Words)]
  BY DEF IInv, PlacesInv
<1>7. /\ mem' \in [Targets(heap) -> Cells(Words)]
      /\ \A q \in Targets(heap) : /\ mem'[q].slots = mem[q].slots
                                  /\ mem'[q].thread = mem[q].thread
                                  /\ mem'[q].block = mem[q].block
                                  /\ mem'[q].marked = IF q = at THEN FALSE ELSE mem[q].marked
  BY <1>1, <1>6 DEF BackwardLive, Cells
<1>8. HeadersInv'
  <2>1. ASSUME NEW p \in Places(heap), ~Moved(p)
        PROVE  /\ mem'[p].block = (p \in heap.blocks)
               /\ mem'[p].marked <=> (Live(p) /\ p # at)
    BY <1>1, <1>7, <2>1, HeapFacts DEF BackwardLive, IInv, HeadersInv
  <2>2. ASSUME NEW o \in heap.marked, Moved(o)
        PROVE  /\ mem'[where[o]].block = (o \in heap.blocks)
               /\ ~mem'[where[o]].marked /\ mem'[where[o]].thread = ListEnd
    <3>1. o \in Nat /\ o \in Targets(heap) /\ where[o] = Destination(o) /\ Destination(o) \in 1 .. o /\ o < at
      BY <1>1, <2>2, HeapFacts, Destinations DEF Moved, BackwardLive, IInv, PlacesInv, Live
    <3>2. where[o] \in Targets(heap)
      BY <1>1, <3>1, HeapFacts
    <3> QED BY <1>7, <2>2, <3>2 DEF IInv, HeadersInv
  <2> QED BY <1>4, <2>1, <2>2, SameHeap DEF BackwardLive, HeadersInv
<1>9. PlacesInv' /\ SlotsInv' /\ ListsInv' /\ LinksInv'
  <2>1. \A t \in heap.marked : Start(t)' = Start(t)
    BY <1>1, <1>7, HeapFacts DEF BackwardLive, Start
  <2>2. current' \in Words
    BY <1>1, <1>6 DEF BackwardLive, Cells
  <2> QED BY <1>3, <1>4, <1>7, <2>1, <2>2, QuietStep DEF BackwardLive
<1> QED BY <1>1, <1>5, <1>8, <1>9 DEF IInv
-----------------------------------------------------------------------------
(* Updating a slot and moving an object.                                   *)

\* Both passes give an object the same new place.
LEMMA NewPlaceIsDestination ==
  ASSUME IInv, phase \in {"forward", "backward"}, Live(at)
  PROVE  NewPlace = Destination(at)
<1>1. HeapOK /\ at \in heap.marked /\ (InRegion(at) => free = LiveBefore(at) + 1)
  BY DEF IInv, ControlInv, Live
<1> QED BY <1>1, Destinations DEF NewPlace

\* Every owner's slots are at a place of their own.
LEMMA PlacesDiffer ==
  ASSUME IInv, NEW o \in Owners, NEW p \in Owners, o # p
  PROVE  where[o] # where[p]
<1>1. HeapOK
  BY DEF IInv
<1>2. \A q \in Owners : /\ q \in Targets(heap) /\ q \in Nat /\ (q # 0 <=> q \in heap.marked)
                        /\ (q \in heap.marked <=> Live(q))
                        /\ where[q] = IF Live(q) /\ Moved(q) THEN Destination(q) ELSE q
  BY <1>1, HeapFacts DEF IInv, PlacesInv, Live
<1>3. \A q \in heap.marked : Destination(q) \in 1 .. q
  BY <1>1, Destinations
<1>4. ASSUME NEW q \in heap.marked, NEW r \in heap.marked, q < r
      PROVE  where[q] # where[r]
  <2>1. q \in Owners /\ r \in Owners
    BY <1>1, HeapFacts
  <2>2. Destination(q) < Destination(r)
    BY <1>1, <1>4, Destinations
  <2>3. phase = "backward" => at \in Nat
    BY <1>1, HeapFacts DEF IInv, ControlInv
  <2>4. Moved(r) => Moved(q)
    BY <1>2, <1>4, <2>1, <2>3 DEF Moved
  <2> QED BY <1>2, <1>3, <1>4, <2>1, <2>2, <2>4
<1>5. CASE o = 0 \/ p = 0
  BY <1>2, <1>3, <1>5
<1>6. CASE o # 0 /\ p # 0
  BY <1>2, <1>4, <1>6
<1> QED BY <1>5, <1>6

\* One slot leaves the list, with the new place in it.  The slot has not moved: the
\* second pass updates it before it comes to the slot's owner.
LEMMA UpdateSlotKeeps ==
  ASSUME IInv, UpdateSlot
  PROVE  IInv'
<1>1. HeapOK /\ HeapOK' /\ phase \in {"forward", "backward"}
  BY SameHeap DEF UpdateSlot, IInv, ControlInv
<1>2. /\ at \in Places(heap) /\ at \in Targets(heap) /\ at \in Nat
      /\ Live(at) /\ at \in heap.marked /\ ~Moved(at)
  BY <1>1, HeapFacts DEF UpdateSlot, IInv, ControlInv, Moved, Live
<1>3. /\ current = IF Len(chain[at]) = 0 THEN ListEnd ELSE chain[at][Len(chain[at])]
      /\ \A n \in 1 .. Len(chain[at]) :
           Read(chain[at][n]) = IF n = 1 THEN ListEnd ELSE chain[at][n - 1]
  BY <1>2 DEF UpdateSlot, IInv, LinksInv, Start, Link
<1>4. chain \in [Targets(heap) -> Seq(Words)] /\ mem \in [Targets(heap) -> Cells(Words)]
  BY DEF IInv, PlacesInv
<1>5. Len(chain[at]) \in Nat /\ Len(chain[at]) # 0 /\ current = chain[at][Len(chain[at])]
  BY <1>2, <1>3, <1>4 DEF UpdateSlot
<1>6. PICK o \in Owners : \E k \in SlotsOf(o) :
        /\ current = SlotAt(o, k) /\ heap.slots[o][k] = at /\ ~Raw(o, k)
        /\ Passed(at) => o >= at
  BY <1>2, <1>5, OnListFacts
<1>7. PICK k \in SlotsOf(o) :
        /\ current = SlotAt(o, k) /\ heap.slots[o][k] = at /\ ~Raw(o, k)
        /\ Passed(at) => o >= at
  BY <1>6
<1>8. o \in Targets(heap) /\ o \in Nat /\ k \in Nat /\ current.place = o /\ current.slot = k
  BY <1>1, <1>7, HeapFacts, WordFacts
<1>9. where[o] = o /\ DOMAIN mem[o].slots = SlotsOf(o)
  <2>1. ~Moved(o)
    BY <1>1, <1>2, <1>7, <1>8 DEF Moved, Passed
  <2> QED BY <1>8, <2>1 DEF IInv, PlacesInv, SlotsInv
<1>10. Updated = Pointer(at \in heap.blocks, Destination(at)) /\ Updated \in Words
  <2>1. Updated = Pointer(at \in heap.blocks, Destination(at))
    BY <1>1, <1>2, NewPlaceIsDestination DEF Updated, IInv, HeadersInv
  <2>2. Destination(at) \in Targets(heap)
    BY <1>1, <1>2, Destinations, HeapFacts
  <2>3. Pointer(at \in heap.blocks, Destination(at)) \in Words
    BY <1>1, <2>2, WordFacts, (at \in heap.blocks) \in BOOLEAN
  <2> QED BY <2>1, <2>3
<1>11. /\ mem' \in [Targets(heap) -> Cells(Words)]
       /\ \A q \in Targets(heap) :
             /\ mem'[q].thread = mem[q].thread /\ mem'[q].marked = mem[q].marked
             /\ mem'[q].block = mem[q].block
             /\ DOMAIN mem'[q].slots = DOMAIN mem[q].slots
             /\ \A j \in DOMAIN mem[q].slots :
                  mem'[q].slots[j] = IF q = o /\ j = k THEN Updated ELSE mem[q].slots[j]
  <2>1. mem' = [mem EXCEPT ![o].slots[k] = Updated]
    BY <1>8 DEF UpdateSlot
  <2> QED BY <1>4, <1>8, <1>9, <1>10, <2>1, SetSlot
<1>12. /\ chain' \in [Targets(heap) -> Seq(Words)]
       /\ \A u \in Targets(heap) : u # at => chain'[u] = chain[u]
       /\ Len(chain'[at]) = Len(chain[at]) - 1
       /\ \A n \in 1 .. Len(chain[at]) - 1 : chain'[at][n] = chain[at][n]
  <2> DEFINE s == SubSeq(chain[at], 1, Len(chain[at]) - 1)
  <2>1. chain[at] \in Seq(Words)
    BY <1>2, <1>4
  <2>2. /\ s \in Seq(Words) /\ Len(s) = Len(chain[at]) - 1
        /\ \A n \in 1 .. Len(chain[at]) - 1 : s[n] = chain[at][n]
    BY <1>5, <2>1
  <2>3. chain' = [chain EXCEPT ![at] = s]
    BY DEF UpdateSlot
  <2> HIDE DEF s
  <2> QED BY <1>2, <1>4, <2>2, <2>3
<1>13. current' = IF Len(chain'[at]) = 0 THEN ListEnd ELSE chain'[at][Len(chain'[at])]
  BY <1>3, <1>5, <1>12 DEF UpdateSlot
<1>14. \A u \in Places(heap) : \A n \in 1 .. Len(chain[u]) :
         ~(u = at /\ n = Len(chain[at])) => chain[u][n] # current
  <2> SUFFICES ASSUME NEW u \in Places(heap), NEW n \in 1 .. Len(chain[u]),
                      ~(u = at /\ n = Len(chain[at]))
               PROVE  chain[u][n] # current
    OBVIOUS
  <2>1. CASE u = at
    BY <1>2, <1>5, <2>1 DEF IInv, ListsInv
  <2>2. CASE u # at
    BY <1>1, <1>7, <2>2, OnListFacts, WordFacts
  <2> QED BY <2>1, <2>2
<1>15. /\ \A q, j : Raw(q, j)' <=> Raw(q, j)
       /\ \A u : (Passed(u)' <=> Passed(u)) /\ (Moved(u)' <=> Moved(u))
  BY DEF UpdateSlot, Raw, Passed, Moved
<1>16. ControlInv'
  BY <1>2, SameHeap DEF UpdateSlot, IInv, ControlInv
<1>17. PlacesInv'
  <2>1. chain'[at] \in Seq(Words) /\ Len(chain'[at]) \in Nat
    BY <1>2, <1>12
  <2>2. Len(chain'[at]) # 0 => chain'[at][Len(chain'[at])] \in Words
    BY <2>1
  <2>3. current' \in Words
    BY <1>1, <1>13, <2>2, WordFacts
  <2> QED BY <1>11, <1>12, <1>15, <2>3, SameHeap DEF UpdateSlot, IInv, PlacesInv
<1>18. \A q \in Owners : where[q] \in Targets(heap) /\ (q # o => where[q] # o)
  BY <1>1, <1>7, <1>9, PlacesDiffer, WhereIn
<1>19. HeadersInv'
  BY <1>1, <1>11, <1>15, <1>18, SameHeap, HeapFacts DEF UpdateSlot, IInv, HeadersInv
<1>20. SlotsInv'
  <2>1. ASSUME NEW q \in Owners, NEW j \in SlotsOf(q), NEW u, u = heap.slots[q][j]
        PROVE  /\ u = 0 => mem'[where[q]].slots[j] = Immediate
               /\ u # 0 /\ Raw(q, j) =>
                     mem'[where[q]].slots[j] = Pointer(u \in heap.blocks, u)
               /\ u # 0 /\ ~Raw(q, j) /\ ~Threaded(SlotAt(where[q], j), u)' =>
                     mem'[where[q]].slots[j] = Pointer(u \in heap.blocks, Destination(u))
    <3>1. DOMAIN mem[where[q]].slots = SlotsOf(q) /\ where[q] \in Targets(heap)
      BY <1>18 DEF IInv, SlotsInv
    <3>2. CASE q = o /\ j = k
      BY <1>2, <1>1, <1>7, <1>9, <1>10, <1>11, <2>1, <3>1, <3>2, HeapFacts
    <3>3. CASE ~(q = o /\ j = k)
      <4>1. mem'[where[q]].slots[j] = mem[where[q]].slots[j]
        BY <1>11, <1>18, <3>1, <3>3
      <4>2. SlotAt(where[q], j) # current
        BY <1>1, <1>7, <1>9, <1>18, <3>3, WordFacts
      <4>3. Threaded(SlotAt(where[q], j), u) => Threaded(SlotAt(where[q], j), u)'
        <5>1. SUFFICES ASSUME NEW n \in DOMAIN chain[u], chain[u][n] = SlotAt(where[q], j)
                       PROVE  Threaded(SlotAt(where[q], j), u)'
          BY DEF Threaded
        <5>2. where'[q] = where[q] /\ u \in Targets(heap)
          BY <1>1, <2>1, HeapFacts DEF UpdateSlot
        <5>3. n \in DOMAIN chain'[u] /\ chain'[u][n] = chain[u][n]
          <6>1. CASE u = at
            <7>1. n \in 1 .. Len(chain[at]) /\ DOMAIN chain'[at] = 1 .. Len(chain'[at])
              BY <1>2, <1>4, <1>12, <5>1, <6>1
            <7>2. n # Len(chain[at])
              BY <1>5, <4>2, <5>1, <6>1
            <7> QED BY <1>5, <1>12, <6>1, <7>1, <7>2
          <6>2. CASE u # at
            BY <1>12, <5>1, <5>2, <6>2
          <6> QED BY <6>1, <6>2
        <5> QED BY <5>1, <5>2, <5>3 DEF Threaded
      <4> QED BY <2>1, <4>1, <4>3 DEF IInv, SlotsInv
    <3> QED BY <3>2, <3>3
  <2>2. \A q \in Owners : DOMAIN mem'[where[q]].slots = SlotsOf(q)
    BY <1>11, <1>18 DEF IInv, SlotsInv
  <2> QED BY <1>15, <2>1, <2>2, SameHeap DEF UpdateSlot, SlotsInv
<1>21. ASSUME NEW u \in Places(heap), NEW n \in 1 .. Len(chain'[u])
       PROVE  /\ n \in 1 .. Len(chain[u]) /\ chain'[u][n] = chain[u][n]
              /\ u = at => n < Len(chain[at])
  <2>1. CASE u = at
    BY <1>5, <1>12, <2>1
  <2>2. CASE u # at
    BY <1>1, <1>12, <2>2, HeapFacts
  <2> QED BY <2>1, <2>2
<1>22. ListsInv'
  <2>1. ASSUME NEW u \in Places(heap), NEW n \in 1 .. Len(chain'[u])
        PROVE  n \in 1 .. Len(chain[u]) /\ chain'[u][n] = chain[u][n]
    BY <1>21
  <2>2. ASSUME NEW u \in Places(heap), NEW b, OnList(u, b)
        PROVE  OnList(u, b)'
    BY <1>15, <2>2, SameHeap DEF UpdateSlot, OnList
  <2>3. \A u \in Places(heap) : ~(Moved(u) /\ u = at)
    BY <1>2
  <2> QED BY <1>1, <1>12, <1>15, <2>1, <2>2, <2>3, SameHeap, HeapFacts DEF UpdateSlot, IInv, ListsInv
<1>23. LinksInv'
  <2>1. ASSUME NEW u \in Places(heap), NEW n \in 1 .. Len(chain'[u]), NEW b, b = chain'[u][n]
        PROVE  n \in 1 .. Len(chain[u]) /\ b = chain[u][n] /\ Read(b)' = Read(b)
    <3>1. n \in 1 .. Len(chain[u]) /\ b = chain[u][n] /\ b # current
      BY <1>5, <1>14, <1>21, <2>1
    <3>2. PICK q \in Owners : \E j \in SlotsOf(q) : b = SlotAt(q, j) /\ ~Raw(q, j) /\ (Passed(u) => q >= u)
      BY <3>1, OnListFacts
    <3>3. PICK j \in SlotsOf(q) : b = SlotAt(q, j) /\ ~Raw(q, j) /\ (Passed(u) => q >= u)
      BY <3>2
    <3>4. q \in Targets(heap) /\ q \in Nat /\ u \in Nat /\ u \in Places(heap) /\ ~Moved(u)
      BY <1>1, <3>1, OnListFacts, HeapFacts
    <3>5. where[q] = q
      <4>1. ~Moved(q)
        BY <1>1, <1>2, <3>3, <3>4 DEF Moved, Passed
      <4> QED BY <3>4, <4>1 DEF IInv, PlacesInv
    <3>6. DOMAIN mem[q].slots = SlotsOf(q)
      BY <3>5 DEF IInv, SlotsInv
    <3>7. ~(q = o /\ j = k)
      BY <1>7, <3>1, <3>3
    <3> QED BY <1>1, <1>11, <3>1, <3>3, <3>4, <3>6, <3>7, WordFacts DEF Read
  <2>2. ASSUME NEW u \in heap.marked, ~Moved(u)
        PROVE  /\ Start(u)' = IF Len(chain'[u]) = 0 THEN ListEnd ELSE chain'[u][Len(chain'[u])]
               /\ \A n \in 1 .. Len(chain'[u]) : \A b : b = chain'[u][n] =>
                    Read(b)' = IF n = 1 THEN ListEnd ELSE chain'[u][n - 1]
    <3>0. u \in Targets(heap) /\ u \in Places(heap)
      BY <1>1, HeapFacts
    <3>1. Start(u)' = IF u = at THEN current' ELSE mem'[u].thread
      BY DEF UpdateSlot, Start
    <3>2. /\ u # at => mem[u].thread = IF Len(chain[u]) = 0 THEN ListEnd ELSE chain[u][Len(chain[u])]
          /\ \A n \in 1 .. Len(chain[u]) :
               Read(chain[u][n]) = IF n = 1 THEN ListEnd ELSE chain[u][n - 1]
      BY <2>2 DEF IInv, LinksInv, Start, Link
    <3>3. Start(u)' = IF Len(chain'[u]) = 0 THEN ListEnd ELSE chain'[u][Len(chain'[u])]
      BY <1>11, <1>12, <1>13, <3>0, <3>1, <3>2
    <3>4. ASSUME NEW n \in 1 .. Len(chain'[u]), NEW b, b = chain'[u][n]
          PROVE  Read(b)' = IF n = 1 THEN ListEnd ELSE chain'[u][n - 1]
      <4>1. n \in 1 .. Len(chain[u]) /\ b = chain[u][n] /\ Read(b)' = Read(b)
        BY <2>1, <3>0, <3>4
      <4>2. n \in Nat /\ (n # 1 => n - 1 \in 1 .. Len(chain'[u]))
        BY <1>12, <3>0, <3>4
      <4>3. n # 1 => chain'[u][n - 1] = chain[u][n - 1]
        BY <2>1, <3>0, <4>2
      <4> QED BY <3>2, <4>1, <4>3
    <3> QED BY <3>3, <3>4
  <2>3. ASSUME NEW u \in heap.marked, ~Moved(u)
        PROVE  /\ Start(u)' = Link(u, Len(chain[u]))'
               /\ \A n \in 1 .. Len(chain'[u]) : Read(chain[u][n])' = Link(u, n - 1)'
    BY <2>2, <2>3 DEF Link
  <2> QED BY <1>15, <2>3 DEF UpdateSlot, LinksInv
<1> QED BY <1>1, <1>16, <1>17, <1>19, <1>20, <1>22, <1>23 DEF IInv

\* The object moves: its list is empty, none of its slots is on a list, and the place
\* it moves to holds nothing the pass still needs.
LEMMA BackwardUpdatedKeeps ==
  ASSUME IInv, BackwardUpdated
  PROVE  IInv'
<1> DEFINE d == Destination(at)
<1>1. HeapOK /\ HeapOK' /\ phase = "backward" /\ step = "update"
  BY SameHeap DEF BackwardUpdated, IInv
<1>2. /\ at \in Places(heap) /\ at \in Targets(heap) /\ at \in Nat \ {0}
      /\ Live(at) /\ at \in heap.marked /\ at \in Owners /\ ~Moved(at) /\ where[at] = at
  BY <1>1, HeapFacts DEF IInv, ControlInv, PlacesInv, Moved, Live
<1>3. NewPlace = d /\ d \in 1 .. at /\ d \in Targets(heap)
  BY <1>1, <1>2, NewPlaceIsDestination, Destinations, HeapFacts
<1>4. chain[at] = <<>>
  BY <1>1, UpdatedListEmpty DEF BackwardUpdated
<1>5. /\ ControlInv' /\ step' = "visit" /\ at <= Total(heap) /\ Total(heap) \in Nat
      /\ at < Total(heap) => phase' = "backward" /\ at' = at + 1
      /\ at = Total(heap) => phase' = "done" /\ at' = 1
  <2>1. LiveBefore(at) < at /\ LiveBefore(at) \in Nat /\ heap.region \in Nat
    BY <1>1, <1>2, Counting, HeapFacts
  <2>2. free \in 1 .. heap.region + 1 /\ slot' \in Nat \ {0}
    BY DEF BackwardUpdated, IInv, ControlInv
  <2>3. InRegion(at) => free + 1 \in 1 .. heap.region + 1
    BY <1>1, <1>2, <2>1 DEF IInv, ControlInv, InRegion
  <2>4. /\ AfterAllocate \in 1 .. heap.region + 1
        /\ InRegion(at) => AfterAllocate = free + 1
    BY <2>2, <2>3 DEF AfterAllocate
  <2> QED BY <1>1, <1>2, <2>2, <2>4, NextVisitKeeps, HeapFacts DEF BackwardUpdated
<1> HIDE DEF d
<1>6. mem \in [Targets(heap) -> Cells(Words)] /\ ListEnd \in Words
  BY <1>1, WordFacts DEF IInv, PlacesInv
<1>7. /\ mem' \in [Targets(heap) -> Cells(Words)]
      /\ \A q \in Targets(heap) : q # d /\ q # at => mem'[q] = mem[q]
      /\ mem'[d] = [mem[at] EXCEPT !.thread = ListEnd]
  <2> DEFINE moved == [mem[at] EXCEPT !.thread = ListEnd]
             m == [mem EXCEPT ![at].thread = ListEnd]
  <2>1. m \in [Targets(heap) -> Cells(Words)] /\ m[at] = moved /\ \A q \in Targets(heap) : q # at => m[q] = mem[q]
    BY <1>2, <1>6 DEF Cells
  <2>2. mem' = [m EXCEPT ![d] = moved]
    BY <1>2, <1>3, <1>6, <2>1 DEF BackwardUpdated
  <2>3. moved \in Cells(Words)
    BY <1>2, <1>6 DEF Cells
  <2> HIDE DEF moved, m
  <2>4. /\ mem' \in [Targets(heap) -> Cells(Words)] /\ mem'[d] = moved
        /\ \A q \in Targets(heap) : q # d /\ q # at => mem'[q] = mem[q]
    BY <1>3, <2>1, <2>2, <2>3
  <2> QED BY <2>4 DEF moved
<1>8. /\ mem'[d].thread = ListEnd /\ mem'[d].marked = mem[at].marked
      /\ mem'[d].block = mem[at].block /\ mem'[d].slots = mem[at].slots
  BY <1>2, <1>6, <1>7 DEF Cells
<1>9. where' = [where EXCEPT ![at] = d] /\ where' \in [Targets(heap) -> Targets(heap)]
  BY <1>2, <1>3 DEF BackwardUpdated, IInv, PlacesInv
<1>10. ASSUME NEW o \in Targets(heap)
       PROVE  /\ (Moved(o)' <=> Moved(o) \/ o = at) /\ (Moved(o) <=> o < at) /\ o \in Nat
              /\ where'[o] = IF o = at THEN d ELSE where[o]
              /\ where[o] = IF Live(o) /\ Moved(o) THEN Destination(o) ELSE o
  <2>1. o \in Nat /\ o <= Total(heap)
    BY <1>1, HeapFacts
  <2> QED BY <1>1, <1>2, <1>5, <1>9, <2>1 DEF Moved, IInv, PlacesInv
<1>11. ASSUME NEW o \in Owners, o # at
       PROVE  where[o] # d /\ where[o] # at /\ where[o] \in Targets(heap)
  <2>1. o \in Targets(heap) /\ where[o] \in Targets(heap) /\ (o # 0 => o \in heap.marked)
    BY <1>1, WhereIn, HeapFacts
  <2>2. where[o] # at
    BY <1>2, <1>11, PlacesDiffer
  <2>3. where[o] # d
    <3>1. CASE o < at /\ Live(o)
      <4>1. where[o] = Destination(o)
        BY <1>10, <2>1, <3>1
      <4>2. Destination(o) < d /\ Destination(o) \in 1 .. o
        BY <1>1, <1>2, <3>1, Destinations DEF Live, d
      <4> QED BY <1>3, <2>1, <4>1, <4>2
    <3>2. CASE ~(o < at /\ Live(o))
      <4>1. where[o] = o
        BY <1>10, <2>1, <3>2
      <4>2. o = 0 \/ o > at
        <5>1. o \in Nat /\ at \in Nat /\ (o # 0 => Live(o))
          BY <1>2, <1>10, <2>1 DEF Live
        <5> QED BY <1>11, <3>2, <5>1
      <4> QED BY <1>2, <1>3, <1>10, <2>1, <4>1, <4>2
    <3> QED BY <3>1, <3>2
  <2> QED BY <2>1, <2>2, <2>3
<1>12. PlacesInv'
  <2>1. chain' \in [Targets(heap) -> Seq(Words)] /\ current' \in Words
    BY DEF BackwardUpdated, IInv, PlacesInv
  <2>2. where' \in [Targets(heap) -> Targets(heap)]
    BY <1>9
  <2>3. \A o \in Targets(heap) : where'[o] = IF Live(o) /\ Moved(o)' THEN Destination(o) ELSE o
    BY <1>2, <1>10 DEF d
  <2> QED BY <1>7, <2>1, <2>2, <2>3, SameHeap DEF BackwardUpdated, PlacesInv
<1>13. HeadersInv'
  <2>1. ASSUME NEW p \in Places(heap), ~Moved(p)'
        PROVE  /\ mem'[p].block = (p \in heap.blocks)
               /\ mem'[p].marked <=> Live(p)
    <3>1. p \in Targets(heap) /\ p \in Nat /\ p > at
      BY <1>1, <1>2, <1>10, <2>1, HeapFacts
    <3>2. mem'[p] = mem[p] /\ ~Moved(p)
      BY <1>2, <1>3, <1>7, <1>10, <3>1
    <3> QED BY <1>2, <3>1, <3>2 DEF IInv, HeadersInv
  <2>2. ASSUME NEW o \in heap.marked, Moved(o)'
        PROVE  /\ mem'[where'[o]].block = (o \in heap.blocks)
               /\ ~mem'[where'[o]].marked /\ mem'[where'[o]].thread = ListEnd
    <3>1. o \in Targets(heap) /\ o \in Owners
      BY <1>1, HeapFacts
    <3>2. CASE o = at
      <4>1. where'[o] = d
        BY <1>10, <3>1, <3>2
      <4>2. mem[at].block = (at \in heap.blocks) /\ ~mem[at].marked
        BY <1>1, <1>2 DEF IInv, HeadersInv
      <4> QED BY <1>8, <3>2, <4>1, <4>2
    <3>3. CASE o # at
      <4>1. Moved(o) /\ where'[o] = where[o] /\ mem'[where[o]] = mem[where[o]]
        BY <1>7, <1>10, <1>11, <2>2, <3>1, <3>3
      <4> QED BY <4>1 DEF IInv, HeadersInv
    <3> QED BY <3>2, <3>3
  <2> QED BY <1>5, <2>1, <2>2, SameHeap, ZenonT(40) DEF BackwardUpdated, HeadersInv
<1>14. \A o, k : ~Raw(o, k) /\ ~Raw(o, k)'
  BY <1>1, <1>2, <1>5 DEF Raw
<1>15. heap' = heap /\ chain' = chain
  BY DEF BackwardUpdated
<1>16. \A a, t : Threaded(a, t)' <=> Threaded(a, t)
  BY <1>15 DEF Threaded
<1>17. SlotsInv'
  <2>1. ASSUME NEW o \in Owners, NEW k \in SlotsOf(o), NEW t, t = heap.slots[o][k], t # 0,
               Threaded(SlotAt(where[o], k), t)
        PROVE  o # at
    <3>1. SUFFICES ASSUME o = at PROVE FALSE
      OBVIOUS
    <3>2. t \in Places(heap) /\ t \in Targets(heap)
      BY <1>1, <2>1, HeapFacts
    <3>3. PICK n \in DOMAIN chain[t] : chain[t][n] = SlotAt(at, k)
      BY <1>2, <2>1, <3>1 DEF Threaded
    <3>4. n \in 1 .. Len(chain[t])
      BY <3>2, <3>3 DEF IInv, PlacesInv
    <3>5. t # at /\ ~Moved(t)
      BY <1>4, <3>2, <3>4, OnListFacts
    <3>6. at >= t
      BY <1>1, <3>2, <3>3, <3>4, OnListFacts, WordFacts DEF Passed
    <3> QED BY <1>2, <1>10, <3>2, <3>5, <3>6
  <2>2. ASSUME NEW o \in Owners
        PROVE  mem'[where'[o]].slots = mem[where[o]].slots /\ (o # at => where'[o] = where[o])
    <3>1. o \in Targets(heap)
      BY <1>1, HeapFacts
    <3>2. CASE o = at
      BY <1>2, <1>8, <1>10, <3>1, <3>2
    <3>3. CASE o # at
      BY <1>7, <1>10, <1>11, <3>1, <3>3
    <3> QED BY <3>2, <3>3
  <2>3. ASSUME NEW o \in Owners, NEW k \in SlotsOf(o), NEW t, t = heap.slots[o][k]
        PROVE  /\ t = 0 => mem'[where'[o]].slots[k] = Immediate
               /\ t # 0 /\ ~Threaded(SlotAt(where'[o], k), t) =>
                     mem'[where'[o]].slots[k] = Pointer(t \in heap.blocks, Destination(t))
    BY <1>14, <2>1, <2>2, <2>3 DEF IInv, SlotsInv
  <2>4. \A o \in Owners : DOMAIN mem'[where'[o]].slots = SlotsOf(o)
    BY <2>2 DEF IInv, SlotsInv
  <2> QED BY <1>14, <1>15, <1>16, <2>3, <2>4, SameHeap DEF SlotsInv
<1>18. ListsInv'
  <2>1. \A t, a : OnList(t, a)' <=> OnList(t, a)
    <3>1. \A t : Passed(t)' <=> Passed(t)
      BY <1>1, <1>2, <1>5 DEF Passed
    <3> QED BY <1>14, <1>15, <3>1, SameHeap DEF OnList
  <2>2. \A t \in Places(heap) : Moved(t)' => Moved(t) \/ t = at
    BY <1>1, <1>10, HeapFacts
  <2> QED BY <1>4, <1>15, <2>1, <2>2, SameHeap DEF IInv, ListsInv
<1>19. LinksInv'
  <2>1. ASSUME NEW t \in heap.marked, ~Moved(t)'
        PROVE  /\ t \in Places(heap) /\ t \in Targets(heap) /\ t \in Nat /\ t > at /\ ~Moved(t)
               /\ Start(t)' = Start(t)
    <3>1. t \in Places(heap) /\ t \in Targets(heap) /\ t \in Nat /\ t > at /\ ~Moved(t)
      BY <1>1, <1>2, <1>10, <2>1, HeapFacts
    <3>2. mem'[t] = mem[t]
      BY <1>2, <1>3, <1>7, <3>1
    <3> QED BY <1>2, <1>5, <3>1, <3>2 DEF Start
  <2>2. ASSUME NEW t \in heap.marked, ~Moved(t)', NEW n \in 1 .. Len(chain[t]), NEW b, b = chain[t][n]
        PROVE  Read(b)' = Read(b)
    <3>1. t \in Places(heap) /\ t \in Nat /\ t > at
      BY <2>1, <2>2
    <3>2. PICK o \in Owners : \E k \in SlotsOf(o) : b = SlotAt(o, k) /\ (Passed(t) => o >= t)
      BY <2>2, <3>1, OnListFacts
    <3>3. b.place = o /\ o >= t /\ o \in Targets(heap) /\ o \in Nat
      BY <1>1, <3>2, HeapFacts, WordFacts DEF Passed
    <3>4. mem'[o] = mem[o]
      BY <1>2, <1>3, <1>7, <3>1, <3>3
    <3> QED BY <3>3, <3>4 DEF Read
  <2>3. \A t, n : Link(t, n)' = Link(t, n)
    BY <1>15 DEF Link
  <2>4. ASSUME NEW t \in heap.marked, ~Moved(t)'
        PROVE  /\ Start(t)' = Link(t, Len(chain[t]))'
               /\ \A n \in 1 .. Len(chain[t]) : Read(chain[t][n])' = Link(t, n - 1)'
    BY <1>15, <2>1, <2>2, <2>3, <2>4 DEF IInv, LinksInv
  <2> QED BY <1>15, <2>4 DEF LinksInv
<1> QED BY <1>1, <1>5, <1>12, <1>13, <1>17, <1>18, <1>19 DEF IInv

-----------------------------------------------------------------------------
(* The invariant holds, and keeps the graph.                               *)

\* Before the collection every slot is raw and every list empty.
LEMMA InitInv == Init => IInv
<1> SUFFICES ASSUME Init PROVE IInv
  OBVIOUS
<1> USE DEF Init
<1>1. HeapOK
  BY HeapsAssumption DEF HeapOK, Owners, SlotsOf
<1>2. \A o : ~Moved(o) /\ ~Passed(o)
  BY DEF Moved, Passed
<1>3. \A p \in Targets(heap) : \A k \in DOMAIN heap.slots[p] :
        heap.slots[p][k] \in Targets(heap) /\ heap.slots[p] \in Seq(Targets(heap))
  BY <1>1 DEF HeapOK
<1>4. mem \in [Targets(heap) -> Cells(Words)]
  <2> SUFFICES ASSUME NEW p \in Targets(heap)
               PROVE  mem[p] \in Cells(Words)
    OBVIOUS
  <2> DEFINE w(k) == IF heap.slots[p][k] = 0 THEN Immediate
                     ELSE Pointer(heap.slots[p][k] \in heap.blocks, heap.slots[p][k])
             s == [k \in DOMAIN heap.slots[p] |-> w(k)]
  <2>1. heap.slots[p] \in Seq(Targets(heap))
    BY <1>1 DEF HeapOK
  <2>2. \A k \in DOMAIN heap.slots[p] : w(k) \in Words
    BY <1>1, <1>3, WordFacts, \A x : (x \in heap.blocks) \in BOOLEAN
  <2>3. s \in Seq(Words)
    <3> HIDE DEF w
    <3> DEFINE n == Len(heap.slots[p])
    <3>1. DOMAIN heap.slots[p] = 1 .. n /\ n \in Nat
      BY <2>1
    <3>2. s = [k \in 1 .. n |-> w(k)]
      BY <3>1
    <3> QED BY <2>2, <3>1, <3>2
  <2>4. mem[p] = [thread |-> ListEnd, marked |-> Live(p), block |-> p \in heap.blocks, slots |-> s]
    OBVIOUS
  <2>5. Live(p) \in BOOLEAN /\ (p \in heap.blocks) \in BOOLEAN
    BY DEF Live
  <2> HIDE DEF s
  <2> QED BY <1>1, <2>3, <2>4, <2>5, WordFacts DEF Cells
<1>5. ControlInv
  BY <1>1, HeapFacts DEF ControlInv
<1>6. PlacesInv
  BY <1>1, <1>2, <1>4, WordFacts DEF PlacesInv
<1>7. HeadersInv
  BY <1>1, <1>2, HeapFacts DEF HeadersInv
<1>8. SlotsInv
  <2>1. \A o \in Owners : o \in Targets(heap) /\ where[o] = o
    BY <1>1, HeapFacts
  <2>2. \A o \in Owners : \A k \in SlotsOf(o) : Raw(o, k)
    BY <1>1, HeapFacts DEF Raw
  <2>3. \A o \in Owners : mem[o].slots = [k \in DOMAIN heap.slots[o] |->
                            IF heap.slots[o][k] = 0 THEN Immediate
                            ELSE Pointer(heap.slots[o][k] \in heap.blocks, heap.slots[o][k])]
    BY <2>1
  <2> QED BY <2>1, <2>2, <2>3 DEF SlotsInv, SlotsOf
<1>9. ListsInv /\ LinksInv
  <2>1. \A t \in Places(heap) : chain[t] = <<>> /\ mem[t].thread = ListEnd
    BY <1>1, HeapFacts
  <2> QED BY <1>1, <2>1, HeapFacts DEF ListsInv, LinksInv, Start, Link
<1> QED BY <1>1, <1>5, <1>6, <1>7, <1>8, <1>9 DEF IInv

\* Nothing changes the invariant.
LEMMA StepInv == IInv /\ [Next]_vars => IInv'
<1> SUFFICES ASSUME IInv, [Next]_vars PROVE IInv'
  OBVIOUS
<1>1. HeapOK /\ (phase \in {"roots", "forward"} /\ step = "thread" => at \in Owners /\ where[at] = at)
  <2>1. phase = "roots" => at = 0
    BY DEF IInv, ControlInv
  <2>2. phase = "forward" /\ step = "thread" => at \in heap.marked
    BY DEF IInv, ControlInv, Live
  <2> QED BY <2>1, <2>2, HeapFacts DEF IInv, PlacesInv, Moved
<1>2. CASE ThreadRoot
  <2>1. at = 0 /\ step = "thread" /\ slot \in SlotsOf(at)
    BY <1>1, <1>2, HeapFacts DEF ThreadRoot, IInv, ControlInv
  <2> QED BY <1>2, <2>1, ThreadKeeps DEF ThreadRoot
<1>3. CASE ThreadSlot
  <2>1. slot \in SlotsOf(at)
    <3>1. DOMAIN mem[at].slots = SlotsOf(at) /\ mem[at].slots \in Seq(Words)
      BY <1>1, <1>3, HeapFacts DEF ThreadSlot, IInv, SlotsInv, PlacesInv, Cells
    <3> QED BY <1>3, <3>1 DEF ThreadSlot, IInv, ControlInv
  <2> QED BY <1>3, <2>1, ThreadKeeps DEF ThreadSlot
<1>4. CASE UNCHANGED vars
  BY <1>4, SameHeap DEF vars, IInv, ControlInv, PlacesInv, HeadersInv, SlotsInv, ListsInv, LinksInv,
     Moved, Raw, Passed, OnList, Start, Link, Threaded, Read
<1> QED
  BY <1>2, <1>3, <1>4, RootsThreadedKeeps, ForwardDeadKeeps, ForwardLiveKeeps, UpdateSlotKeeps,
     ForwardUpdatedKeeps, SlotsThreadedKeeps, BackwardDeadKeeps, BackwardLiveKeeps,
     BackwardUpdatedKeeps DEF Next

\* The invariant gives the types.
LEMMA InvType == IInv => TypeOK
<1> SUFFICES ASSUME IInv PROVE TypeOK
  OBVIOUS
<1>1. /\ HeapOK /\ mem \in [Targets(heap) -> Cells(Words)] /\ where \in [Targets(heap) -> Targets(heap)]
      /\ chain \in [Targets(heap) -> Seq(Words)] /\ current \in Words
  BY DEF IInv, PlacesInv
<1>2. /\ phase \in {"roots", "forward", "backward", "done"} /\ slot \in Nat \ {0}
      /\ free \in 1 .. heap.region + 1
  BY DEF IInv, ControlInv
<1>3. at \in Targets(heap) /\ step \in {"visit", "update", "thread"}
  <2>1. 0 \in Targets(heap) /\ 1 \in Targets(heap) /\ Places(heap) \subseteq Targets(heap)
    BY <1>1, HeapFacts
  <2> QED BY <1>2, <2>1 DEF IInv, ControlInv
<1>4. \A p \in Targets(heap) : \A n \in DOMAIN chain[p] : chain[p][n] \in Words
  BY <1>1
<1>5. \A p \in Targets(heap) :
        /\ mem[p].thread \in Words /\ mem[p].marked \in BOOLEAN /\ mem[p].block \in BOOLEAN
        /\ mem[p].slots \in Seq(Words)
  BY <1>1 DEF Cells
<1> QED BY <1>1, <1>2, <1>3, <1>4, <1>5 DEF TypeOK

\* A slot that is on a list is on the list of the object it refers to, and finished
\* slots have the new address.
LEMMA InvDenotes == IInv => GraphDenoted
<1> SUFFICES ASSUME IInv, NEW o \in Owners, NEW k \in SlotsOf(o),
                    NEW t, t = heap.slots[o][k], NEW a, a = SlotAt(where[o], k), t # 0
             PROVE  /\ Raw(o, k) => Read(a) = Pointer(t \in heap.blocks, t)
                    /\ ~Raw(o, k) /\ ~Threaded(a, t) =>
                          Read(a) = Pointer(t \in heap.blocks, Destination(t))
                    /\ \A u \in Places(heap) : Threaded(a, u) => u = t /\ ~Raw(o, k)
  BY DEF GraphDenoted, Owners, SlotsOf
<1>1. HeapOK /\ Read(a) = mem[where[o]].slots[k]
  BY WordFacts DEF IInv, Read
<1>2. /\ Raw(o, k) => Read(a) = Pointer(t \in heap.blocks, t)
      /\ ~Raw(o, k) /\ ~Threaded(a, t) => Read(a) = Pointer(t \in heap.blocks, Destination(t))
  BY <1>1 DEF IInv, SlotsInv
<1>3. ASSUME NEW u \in Places(heap), Threaded(a, u) PROVE u = t /\ ~Raw(o, k)
  <2>1. u \in Targets(heap) /\ u \in Nat
    BY <1>1, HeapFacts
  <2>2. PICK n \in DOMAIN chain[u] : chain[u][n] = a
    BY <1>3 DEF Threaded
  <2>3. n \in 1 .. Len(chain[u])
    BY <2>1, <2>2 DEF IInv, PlacesInv
  <2>4. /\ ~Moved(u)
        /\ \E p \in Owners : \E j \in SlotsOf(p) :
             /\ a = SlotAt(p, j) /\ heap.slots[p][j] = u /\ ~Raw(p, j) /\ (Passed(u) => p >= u)
    BY <2>2, <2>3, OnListFacts
  <2>5. PICK p \in Owners : \E j \in SlotsOf(p) :
          /\ a = SlotAt(p, j) /\ heap.slots[p][j] = u /\ ~Raw(p, j) /\ (Passed(u) => p >= u)
    BY <2>4
  <2>6. where[o] = p /\ heap.slots[p][k] = u /\ ~Raw(p, k) /\ (Passed(u) => p >= u)
    <3>1. PICK j \in SlotsOf(p) :
            /\ a = SlotAt(p, j) /\ heap.slots[p][j] = u /\ ~Raw(p, j) /\ (Passed(u) => p >= u)
      BY <2>5
    <3>2. SlotAt(where[o], k) = SlotAt(p, j)
      BY <3>1
    <3>3. where[o] = p /\ k = j
      BY <1>1, <3>2, WordFacts
    <3> QED BY <3>1, <3>3
  <2>7. p \in Nat /\ p \in Targets(heap) /\ (phase = "backward" => at \in Nat)
    BY <1>1, HeapFacts DEF IInv, ControlInv
  <2>8. ~Moved(p)
    BY <2>1, <2>4, <2>6, <2>7 DEF Moved, Passed
  <2>9. where[p] = p
    BY <2>7, <2>8 DEF IInv, PlacesInv
  <2> QED BY <2>6, <2>9, PlacesDiffer
<1> QED BY <1>2, <1>3

\* At the end nothing is on a list and every object is at its destination.
LEMMA InvPreserves == IInv => GraphPreserved
<1> SUFFICES ASSUME IInv, phase = "done" PROVE GraphPreserved
  BY DEF GraphPreserved
<1>1. HeapOK /\ \A o : Moved(o)
  BY DEF IInv, Moved
<1>2. \A o \in heap.marked : where[o] = Destination(o) /\ o \in Owners
  BY <1>1, HeapFacts DEF IInv, PlacesInv, Live
<1>3. ASSUME NEW o \in Owners, NEW k \in SlotsOf(o), NEW t, t = heap.slots[o][k], t # 0
      PROVE  Read(SlotAt(where[o], k)) = Pointer(t \in heap.blocks, where[t])
  <2>1. t \in heap.marked /\ t \in Places(heap) /\ t \in Targets(heap)
    BY <1>1, <1>3, HeapFacts
  <2>2. ~Threaded(SlotAt(where[o], k), t)
    BY <1>1, <2>1 DEF Threaded, IInv, ListsInv
  <2>3. Read(SlotAt(where[o], k)) = mem[where[o]].slots[k]
    BY <1>1, WordFacts DEF Read
  <2>4. ~Raw(o, k)
    BY DEF Raw
  <2> QED BY <1>2, <1>3, <2>1, <2>2, <2>3, <2>4 DEF IInv, SlotsInv
<1>4. \A o \in heap.marked :
        mem[where[o]].thread = ListEnd /\ ~mem[where[o]].marked /\ mem[where[o]].block = (o \in heap.blocks)
  BY <1>1 DEF IInv, HeadersInv
<1>5. \A o, b \in heap.marked : o # b => where[o] # where[b]
  BY <1>2, PlacesDiffer
<1> QED BY <1>2, <1>3, <1>4, <1>5 DEF GraphPreserved, Owners, SlotsOf

\* In every state of every collection the variables have their types.
THEOREM TypeCorrect == Spec => []TypeOK
<1>1. Spec => []IInv
  BY InitInv, StepInv, PTL DEF Spec
<1> QED BY <1>1, InvType, PTL

\* Threading keeps the object graph of every heap marking can leave: update_forward
\* and update_backward lose no slot, confuse none, and memmove overwrites nothing that
\* is still needed.
THEOREM GraphIsKept == Spec => []GraphKept
<1>1. Spec => []IInv
  BY InitInv, StepInv, PTL DEF Spec
<1>2. IInv => GraphKept
  BY InvDenotes, InvPreserves DEF GraphKept
<1> QED BY <1>1, <1>2, PTL
=============================================================================
