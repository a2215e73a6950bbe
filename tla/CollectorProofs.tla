-------------------------- MODULE CollectorProofs ---------------------------
(***************************************************************************)
(* The region collector: that it runs when it is due and no signal is lost *)
(* (CollectorTrigger), and that it then marks what it has to (Marking).    *)
(***************************************************************************)
EXTENDS Marking, CollectorTrigger, TLAPS

-----------------------------------------------------------------------------
(* Marking marks exactly the reachable objects of every heap, and leaves   *)
(* no link behind.  Reachable is the intersection of the closed sets, so   *)
(* that no induction over paths is needed: every closed set contains what  *)
(* is marked, and what is marked at the end is a closed set itself.        *)

\* Every closed set contains what is marked.
Sound == \A S \in SUBSET Objects : Closed(S) => marked \subseteq S

CurrentMarked == current \in marked \cup {Nothing}

IInv ==
  /\ TypeOK /\ ListIsStack /\ LinksReset /\ NothingForgotten
  /\ Sound /\ CurrentMarked

\* Every initial state satisfies the invariant.
LEMMA InitInv == Init => IInv
  <1> SUFFICES ASSUME Init PROVE IInv
    OBVIOUS
  <1>1. graph.root \in [Roots -> Words] /\ graph.slots \in [Objects -> Seq(Words)]
    BY MarkingAssumption DEF Init
  <1>2. stack = <<>> /\ Len(stack) = 0 /\ stack \in Seq(Objects)
    BY DEF Init
  <1>3. TypeOK
    BY <1>1, <1>2 DEF Init, TypeOK, Words
  <1>4. ListIsStack /\ LinksReset
    BY <1>2 DEF Init, ListIsStack, LinksReset, Top
  <1>5. NothingForgotten /\ Sound /\ CurrentMarked
    BY DEF Init, NothingForgotten, Sound, CurrentMarked
  <1> QED BY <1>3, <1>4, <1>5 DEF IInv

-----------------------------------------------------------------------------
(* MarkPointer.                                                            *)

\* What a call does to the list, the bits and the links: the object it is called
\* with is marked afterwards, and nothing that was in order gets out of it.
LEMMA MarkPointerFacts ==
  ASSUME NEW o \in Words, TypeOK, ListIsStack, LinksReset, CurrentMarked, MarkPointer(o), current' = current
  PROVE  /\ marked \subseteq marked' /\ marked' \subseteq marked \cup {o} /\ marked' \subseteq Objects
         /\ o \in marked' \cup {Nothing}
         /\ list' \in Objects \cup {ListEnd} /\ link' \in [Objects -> Objects \cup {ListEnd}]
         /\ stack' \in Seq(Objects)
         /\ ListIsStack' /\ LinksReset'
         /\ \A b \in marked' : ~OnStack(b)' => b \in marked /\ ~OnStack(b)
  <1>1. CASE o \in Objects \ marked
    <2>1. /\ marked' = marked \cup {o} /\ link' = [link EXCEPT ![o] = list]
          /\ list' = o /\ stack' = Append(stack, o)
      BY <1>1 DEF MarkPointer
    <2>2. stack \in Seq(Objects) /\ Len(stack) \in Nat /\ link \in [Objects -> Objects \cup {ListEnd}]
          /\ list \in Objects \cup {ListEnd} /\ marked \subseteq Objects
      BY DEF TypeOK
    <2>3. /\ stack' \in Seq(Objects) /\ Len(stack') = Len(stack) + 1
          /\ \A n \in 1 .. Len(stack) : stack'[n] = stack[n]
          /\ stack'[Len(stack) + 1] = o
      BY <1>1, <2>1, <2>2
    <2>4. \A n \in 1 .. Len(stack) : stack[n] \in marked /\ stack[n] # o
      BY <1>1 DEF ListIsStack
    <2>5. \A n \in 0 .. Len(stack) : Top(n)' = Top(n)
      BY <2>2, <2>3 DEF Top
    <2>6. ListIsStack'
      <3>1. list' = Top(Len(stack))'
        <4>1. Top(Len(stack))' = stack'[Len(stack) + 1]
          BY <2>2, <2>3 DEF Top
        <4> QED BY <2>1, <2>3, <4>1
      <3>2. \A n \in 1 .. Len(stack)' : stack'[n] \in marked' /\ link'[stack'[n]] = Top(n - 1)'
                                        /\ stack'[n] # current'
        <4> SUFFICES ASSUME NEW n \in 1 .. Len(stack)'
                     PROVE  stack'[n] \in marked' /\ link'[stack'[n]] = Top(n - 1)'
                            /\ stack'[n] # current'
          OBVIOUS
        <4>1. CASE n = Len(stack) + 1
          <5>1. link'[o] = list /\ list = Top(Len(stack)) /\ Top(Len(stack))  = Top(n - 1)
            BY <1>1, <2>1, <2>2, <4>1 DEF ListIsStack
          <5>2. Top(n - 1)' = Top(n - 1)
            BY <2>2, <2>5, <4>1
          <5>3. o # current
            BY <1>1, MarkingAssumption DEF CurrentMarked
          <5> QED BY <2>1, <2>3, <4>1, <5>1, <5>2, <5>3
        <4>2. CASE n # Len(stack) + 1
          <5>1. n \in 1 .. Len(stack) /\ n - 1 \in 0 .. Len(stack)
            BY <2>2, <2>3, <4>2
          <5>2. stack[n] \in marked /\ link[stack[n]] = Top(n - 1) /\ stack[n] # current
                /\ stack[n] # o
            BY <2>4, <5>1 DEF ListIsStack
          <5>3. stack'[n] = stack[n] /\ Top(n - 1)' = Top(n - 1)
            BY <2>3, <2>5, <5>1
          <5>4. link'[stack[n]] = link[stack[n]]
            BY <2>1, <2>2, <5>2
          <5> QED BY <2>1, <5>2, <5>3, <5>4
        <4> QED BY <4>1, <4>2
      <3>3. \A m, n \in 1 .. Len(stack)' : m # n => stack'[m] # stack'[n]
        <4> SUFFICES ASSUME NEW m \in 1 .. Len(stack)', NEW n \in 1 .. Len(stack)', m # n
                     PROVE  stack'[m] # stack'[n]
          OBVIOUS
        <4>1. CASE m \in 1 .. Len(stack) /\ n \in 1 .. Len(stack)
          BY <2>3, <4>1 DEF ListIsStack
        <4>2. CASE m = Len(stack) + 1 /\ n \in 1 .. Len(stack)
          BY <2>3, <2>4, <4>2
        <4>3. CASE n = Len(stack) + 1 /\ m \in 1 .. Len(stack)
          BY <2>3, <2>4, <4>3
        <4> QED BY <2>2, <2>3, <4>1, <4>2, <4>3
      <3> QED BY <3>1, <3>2, <3>3 DEF ListIsStack
    <2>7. \A b : OnStack(b) \/ b = o => OnStack(b)'
      <3>1. \A b : OnStack(b) => OnStack(b)'
        BY <2>2, <2>3 DEF OnStack
      <3>2. OnStack(o)'
        <4>1. Len(stack) + 1 \in 1 .. Len(stack')
          BY <2>2, <2>3
        <4> QED BY <2>3, <4>1 DEF OnStack
      <3> QED BY <3>1, <3>2
    <2>8. LinksReset'
      BY <1>1, <2>1, <2>2, <2>7 DEF LinksReset
    <2> QED BY <1>1, <2>1, <2>2, <2>3, <2>6, <2>7, <2>8
  <1>2. CASE o \notin Objects \ marked
    <2>1. UNCHANGED <<marked, link, list, stack>>
      BY <1>2 DEF MarkPointer
    <2>2. \A n : Top(n)' = Top(n)
      BY <2>1 DEF Top
    <2>3. ListIsStack' /\ LinksReset' /\ \A b : OnStack(b)' = OnStack(b)
      BY <2>1, <2>2 DEF ListIsStack, LinksReset, OnStack
    <2> QED BY <1>2, <2>1, <2>3 DEF TypeOK, Words
  <1> QED BY <1>1, <1>2

-----------------------------------------------------------------------------
(* Preservation, one lemma for each action.                                *)

\* A root is passed on.
LEMMA MarkRootInv == \A r \in Roots : IInv /\ MarkRoot(r) => IInv'
  <1> SUFFICES ASSUME NEW r \in Roots, IInv, MarkRoot(r) PROVE IInv'
    OBVIOUS
  <1> USE DEF IInv
  <1>1. /\ current = Nothing /\ todo' = todo \ {r} /\ UNCHANGED <<graph, current, index>>
        /\ MarkPointer(graph.root[r]) /\ graph.root[r] \in Words
    BY DEF MarkRoot, TypeOK
  <1>2. /\ marked \subseteq marked' /\ marked' \subseteq marked \cup {graph.root[r]}
        /\ marked' \subseteq Objects
        /\ graph.root[r] \in marked' \cup {Nothing}
        /\ list' \in Objects \cup {ListEnd} /\ link' \in [Objects -> Objects \cup {ListEnd}]
        /\ stack' \in Seq(Objects)
        /\ ListIsStack' /\ LinksReset'
        /\ \A b \in marked' : ~OnStack(b)' => b \in marked /\ ~OnStack(b)
    BY <1>1, MarkPointerFacts
  <1>3. TypeOK'
    BY <1>1, <1>2 DEF TypeOK
  <1>4. NothingForgotten'
    <2>1. \A q \in Roots \ todo' : graph.root[q] \in marked' \cup {Nothing}
      BY <1>1, <1>2 DEF NothingForgotten
    <2>2. \A o \in marked' : ~OnStack(o)' =>
            \A n \in DOMAIN graph.slots[o] :
              (o = current => n < index) => graph.slots[o][n] \in marked' \cup {Nothing}
      BY <1>2 DEF NothingForgotten
    <2> QED BY <1>1, <2>1, <2>2 DEF NothingForgotten
  <1>5. Sound' /\ CurrentMarked'
    BY <1>1, <1>2, MarkingAssumption DEF Sound, Closed, CurrentMarked
  <1> QED BY <1>2, <1>3, <1>4, <1>5

\* The head of the list is taken off it.
LEMMA TakeNextInv == IInv /\ TakeNext => IInv'
  <1> SUFFICES ASSUME NEW len, len = Len(stack), IInv, TakeNext PROVE IInv'
    OBVIOUS
  <1> USE DEF IInv
  <1>1. /\ current = Nothing /\ list # ListEnd /\ current' = list /\ index' = 1
        /\ list' = link[list] /\ link' = [link EXCEPT ![list] = ListEnd]
        /\ stack' = SubSeq(stack, 1, len - 1)
        /\ UNCHANGED <<graph, todo, marked>>
    BY DEF TakeNext
  <1>2. /\ stack \in Seq(Objects) /\ len \in Nat /\ list \in Objects
        /\ link \in [Objects -> Objects \cup {ListEnd}]
    BY <1>1 DEF TypeOK
  <1>3. len # 0 /\ list = stack[len]
    BY <1>1 DEF ListIsStack, Top
  <1>4. /\ stack' \in Seq(Objects) /\ Len(stack') = len - 1
        /\ \A n \in 1 .. len - 1 : stack'[n] = stack[n]
    BY <1>1, <1>2, <1>3
  <1>5. len \in 1 .. len /\ len - 1 \in Nat
    BY <1>2, <1>3
  <1>6. list \in marked /\ link[list] = Top(len - 1)
    BY <1>3, <1>5 DEF ListIsStack
  <1>7. \A n \in 1 .. len - 1 : stack[n] # list /\ stack[n] \in marked
    <2> SUFFICES ASSUME NEW n \in 1 .. len - 1 PROVE stack[n] # list /\ stack[n] \in marked
      OBVIOUS
    <2>1. n \in 1 .. len /\ n # len
      BY <1>2
    <2> QED BY <1>3, <1>5, <2>1 DEF ListIsStack
  <1>8. \A n \in 0 .. len - 1 : Top(n)' = Top(n)
    BY <1>4, <1>5 DEF Top
  <1>9. TypeOK'
    BY <1>1, <1>2, <1>4 DEF TypeOK, Words
  <1>10. ListIsStack'
    <2>1. list' = Top(Len(stack))'
      <3>1. len - 1 \in 0 .. len - 1
        BY <1>5
      <3>2. Top(len - 1)' = Top(len - 1)
        BY <1>8, <3>1
      <3> QED BY <1>1, <1>4, <1>6, <3>2
    <2>2. \A n \in 1 .. Len(stack)' : stack'[n] \in marked' /\ link'[stack'[n]] = Top(n - 1)'
                                      /\ stack'[n] # current'
      <3> SUFFICES ASSUME NEW n \in 1 .. Len(stack)'
                   PROVE  stack'[n] \in marked' /\ link'[stack'[n]] = Top(n - 1)'
                          /\ stack'[n] # current'
        OBVIOUS
      <3>1. n \in 1 .. len - 1 /\ n \in 1 .. len /\ n - 1 \in 0 .. len - 1
        BY <1>2, <1>4
      <3>2. stack'[n] = stack[n] /\ stack[n] # list /\ stack[n] \in marked
        BY <1>4, <1>7, <3>1
      <3>3. link[stack[n]] = Top(n - 1)
        BY <3>1 DEF ListIsStack
      <3>4. link'[stack[n]] = link[stack[n]]
        BY <1>1, <1>2, <3>1, <3>2
      <3>5. Top(n - 1)' = Top(n - 1)
        BY <1>8, <3>1
      <3> QED BY <1>1, <3>2, <3>3, <3>4, <3>5
    <2>3. \A m, n \in 1 .. Len(stack)' : m # n => stack'[m] # stack'[n]
      <3> SUFFICES ASSUME NEW m \in 1 .. Len(stack)', NEW n \in 1 .. Len(stack)', m # n
                   PROVE  stack'[m] # stack'[n]
        OBVIOUS
      <3>1. /\ m \in 1 .. len - 1 /\ n \in 1 .. len - 1
            /\ m \in 1 .. len /\ n \in 1 .. len
        BY <1>2, <1>4
      <3> QED BY <1>4, <3>1 DEF ListIsStack
    <2> QED BY <2>1, <2>2, <2>3 DEF ListIsStack
  <1>11. \A b : OnStack(b) => b = list \/ OnStack(b)'
    <2> SUFFICES ASSUME NEW b, OnStack(b), b # list PROVE OnStack(b)'
      OBVIOUS
    <2>1. PICK n \in 1 .. len : stack[n] = b
      BY DEF OnStack
    <2>2. n \in 1 .. len - 1
      BY <1>2, <1>3, <2>1
    <2>3. n \in 1 .. Len(stack') /\ stack'[n] = b
      BY <1>4, <2>1, <2>2
    <2> QED BY <2>3 DEF OnStack
  <1>12. LinksReset'
    BY <1>1, <1>2, <1>11 DEF LinksReset
  <1>13. NothingForgotten'
    <2>1. \A o \in marked : ~OnStack(o)' => o = list \/ (~OnStack(o) /\ o # current)
      BY <1>1, <1>11, MarkingAssumption DEF TypeOK
    <2>2. \A n \in DOMAIN graph.slots[list] : ~(n < 1)
      BY <1>2 DEF TypeOK
    <2> QED BY <1>1, <2>1, <2>2 DEF NothingForgotten
  <1>14. Sound' /\ CurrentMarked'
    BY <1>1, <1>6 DEF Sound, Closed, CurrentMarked
  <1> QED BY <1>9, <1>10, <1>12, <1>13, <1>14

\* A slot of the object being scanned is passed on.
LEMMA MarkSlotInv == IInv /\ MarkSlot => IInv'
  <1> SUFFICES ASSUME NEW w, w = graph.slots[current][index], IInv, MarkSlot PROVE IInv'
    OBVIOUS
  <1> USE DEF IInv
  <1>1. /\ current # Nothing /\ current \in Objects /\ index \in Nat \ {0}
        /\ index \in DOMAIN graph.slots[current] /\ w \in Words
        /\ index' = index + 1 /\ MarkPointer(w) /\ UNCHANGED <<graph, todo, current>>
    <2>1. /\ current # Nothing /\ current \in Objects /\ index \in Nat \ {0}
          /\ index <= Len(graph.slots[current]) /\ graph.slots[current] \in Seq(Words)
      BY DEF MarkSlot, TypeOK, Words
    <2>2. index \in DOMAIN graph.slots[current] /\ w \in Words
      BY <2>1
    <2> QED BY <2>1, <2>2 DEF MarkSlot
  <1>2. /\ marked \subseteq marked' /\ marked' \subseteq marked \cup {w} /\ marked' \subseteq Objects
        /\ w \in marked' \cup {Nothing}
        /\ list' \in Objects \cup {ListEnd} /\ link' \in [Objects -> Objects \cup {ListEnd}]
        /\ stack' \in Seq(Objects)
        /\ ListIsStack' /\ LinksReset'
        /\ \A b \in marked' : ~OnStack(b)' => b \in marked /\ ~OnStack(b)
    BY <1>1, MarkPointerFacts
  <1>3. TypeOK'
    BY <1>1, <1>2 DEF TypeOK
  <1>4. NothingForgotten'
    <2>1. \A r \in Roots \ todo : graph.root[r] \in marked' \cup {Nothing}
      BY <1>2 DEF NothingForgotten
    <2> SUFFICES ASSUME NEW o \in marked', ~OnStack(o)', NEW n \in DOMAIN graph.slots[o],
                        o = current => n < index + 1
                 PROVE  graph.slots[o][n] \in marked' \cup {Nothing}
      BY <1>1, <2>1 DEF NothingForgotten
    <2>2. o \in marked /\ ~OnStack(o)
      BY <1>2
    <2>3. CASE o = current /\ n = index
      BY <1>2, <2>3
    <2>4. CASE o = current => n < index
      BY <1>2, <2>2, <2>4 DEF NothingForgotten
    <2>5. n \in Nat
      <3>1. graph.slots[o] \in Seq(Words)
        BY <2>2 DEF TypeOK
      <3> QED BY <3>1
    <2> QED BY <1>1, <2>3, <2>4, <2>5
  <1>5. Sound' /\ CurrentMarked'
    <2>1. \A S \in SUBSET Objects : Closed(S) => w \in S \cup {Nothing}
      BY <1>1 DEF Sound, Closed, CurrentMarked
    <2>2. \A S : Closed(S)' = Closed(S)
      BY <1>1 DEF Closed
    <2>3. \A S \in SUBSET Objects : Closed(S) => marked' \subseteq S
      BY <1>2, <2>1, MarkingAssumption DEF Sound
    <2> QED BY <1>1, <1>2, <2>2, <2>3 DEF Sound, CurrentMarked
  <1> QED BY <1>2, <1>3, <1>4, <1>5

\* The object has been scanned.
LEMMA ScannedInv == IInv /\ Scanned => IInv'
  <1> SUFFICES ASSUME IInv, Scanned PROVE IInv'
    OBVIOUS
  <1> USE DEF IInv
  <1>1. /\ current \in Objects /\ current' = Nothing /\ index > Len(graph.slots[current])
        /\ UNCHANGED <<graph, todo, marked, list, link, index, stack>>
    BY DEF Scanned, TypeOK, Words
  <1>2. TypeOK' /\ LinksReset' /\ Sound' /\ CurrentMarked'
    BY <1>1 DEF TypeOK, LinksReset, OnStack, Sound, Closed, CurrentMarked, Words
  <1>3. ListIsStack'
    <2>1. \A n \in 1 .. Len(stack) : stack[n] \in Objects
      BY DEF TypeOK
    <2> QED BY <1>1, <2>1, MarkingAssumption DEF ListIsStack, Top
  <1>4. NothingForgotten'
    <2>1. \A n \in DOMAIN graph.slots[current] : n < index
      <3>1. graph.slots[current] \in Seq(Words) /\ index \in Nat
        BY <1>1 DEF TypeOK
      <3> QED BY <1>1, <3>1
    <2> QED BY <1>1, <2>1 DEF NothingForgotten, OnStack
  <1> QED BY <1>2, <1>3, <1>4

\* Every step preserves the invariant.
LEMMA NextInv == IInv /\ [Next]_vars => IInv'
  <1>1. ASSUME IInv, UNCHANGED vars PROVE IInv'
    <2>1. UNCHANGED <<graph, todo, marked, list, link, current, index, stack>>
      BY <1>1 DEF vars
    <2>2. TypeOK' /\ CurrentMarked' /\ Sound'
      BY <1>1, <2>1 DEF IInv, TypeOK, CurrentMarked, Sound, Closed
    <2>3. ListIsStack'
      BY <1>1, <2>1 DEF IInv, ListIsStack, Top
    <2>4. LinksReset' /\ NothingForgotten'
      BY <1>1, <2>1 DEF IInv, LinksReset, NothingForgotten, OnStack
    <2> QED BY <2>2, <2>3, <2>4 DEF IInv
  <1> QED BY <1>1, MarkRootInv, TakeNextInv, MarkSlotInv, ScannedInv DEF Next

\* The invariant holds throughout marking.
LEMMA SpecInv == Spec => []IInv
  BY InitInv, NextInv, PTL DEF Spec

-----------------------------------------------------------------------------
(* The theorems.                                                           *)

\* The variables keep their types for every set of objects and every heap.
THEOREM TypeCorrect == Spec => []TypeOK
  <1>1. IInv => TypeOK
    BY DEF IInv
  <1> QED BY <1>1, SpecInv, PTL

\* The links form a list of the objects to scan at every step.
THEOREM ListStaysAList == Spec => []ListIsStack
  <1>1. IInv => ListIsStack
    BY DEF IInv
  <1> QED BY <1>1, SpecInv, PTL

\* No link is left for compaction to take for a thread.
THEOREM LinksAreReset == Spec => []LinksReset
  <1>1. IInv => LinksReset
    BY DEF IInv
  <1> QED BY <1>1, SpecInv, PTL

\* No reference out of a marked object is forgotten.
THEOREM NothingIsForgotten == Spec => []NothingForgotten
  <1>1. IInv => NothingForgotten
    BY DEF IInv
  <1> QED BY <1>1, SpecInv, PTL

\* Marking ends with exactly the reachable objects marked.
THEOREM MarksTheReachable == Spec => []MarkedIsReachable
  <1>1. IInv => MarkedIsReachable
    <2> SUFFICES ASSUME IInv, Done PROVE marked = Reachable
      BY DEF MarkedIsReachable
    <2> USE DEF IInv
    <2>1. Len(stack) = 0
      <3>1. list = ListEnd /\ list = Top(Len(stack)) /\ stack \in Seq(Objects)
        BY DEF Done, ListIsStack, TypeOK
      <3>2. Len(stack) # 0 => stack[Len(stack)] \in Objects
        BY <3>1
      <3> QED BY <3>1, <3>2, MarkingAssumption DEF Top
    <2>2. \A o : ~OnStack(o)
      BY <2>1 DEF OnStack
    <2>3. marked \in SUBSET Objects /\ Closed(marked)
      BY <2>2, MarkingAssumption, ZenonT(40) DEF Done, NothingForgotten, Closed, TypeOK
    <2>4. marked \subseteq Reachable
      BY <2>3 DEF Sound, Reachable
    <2>5. Reachable \subseteq marked
      BY <2>3 DEF Reachable
    <2> QED BY <2>4, <2>5
  <1> QED BY <1>1, SpecInv, PTL

-----------------------------------------------------------------------------
(* No signal is lost, doubled or forgotten, for every threshold, region    *)
(* size and number of signals.  The invariant adds to the properties that  *)
(* only a program with interrupts enabled owes one: a collection before    *)
(* that takes pending and leaves the exception.                            *)

OwedWhenEnabled == owed => enable_interrupts

TriggerInv ==
  /\ TriggerTypes
  /\ OwedWhenEnabled
  /\ SignalNotLost
  /\ OneInterruptPerSignal
  /\ DueNotForgotten

\* The initial states satisfy the invariant.
LEMMA TriggerInitInv == TriggerInit => TriggerInv
<1> SUFFICES ASSUME TriggerInit PROVE TriggerInv
  OBVIOUS
<1>1. TriggerTypes
  <2>1. memory \in 0 .. MaxMemory /\ room \in 0 .. RegionSize
    BY SizesAssumption DEF TriggerInit
  <2>2. collections \in 0 .. MaxCollections /\ signals \in 0 .. MaxSignals /\ raised \in Nat
    BY SizesAssumption DEF TriggerInit
  <2>3. {pending, pending_exception, enable_interrupts, owed, due} \subseteq BOOLEAN
    BY DEF TriggerInit
  <2> QED
    BY <2>1, <2>2, <2>3 DEF TriggerInit, TriggerTypes
<1>2. OneInterruptPerSignal
  BY DEF TriggerInit, OneInterruptPerSignal
<1> QED
  BY <1>1, <1>2 DEF TriggerInit, TriggerInv, OwedWhenEnabled, SignalNotLost, DueNotForgotten

\* TriggerTypes in two parts: arithmetic and Booleans are for different provers.
Numbers ==
  /\ memory \in 0 .. MaxMemory /\ room \in 0 .. RegionSize
  /\ collections \in 0 .. MaxCollections /\ signals \in 0 .. MaxSignals /\ raised \in Nat
  /\ at \in {"starting", "running", "check", "collect", "mark"}
  /\ signaller \in {"idle", "stored"}

Flags == {pending, pending_exception, enable_interrupts, owed, due} \subseteq BOOLEAN

\* Every step keeps the counters in their bounds.
LEMMA NumbersKept == Numbers /\ [TriggerNext]_triggerVars => Numbers'
<1> SUFFICES ASSUME Numbers, [TriggerNext]_triggerVars PROVE Numbers'
  OBVIOUS
<1> USE SizesAssumption DEF Numbers
<1>1. CASE EndBootstrap \/ EnableInterrupts \/ Check \/ ClearPending
  BY <1>1 DEF EndBootstrap, EnableInterrupts, Check, ClearPending
<1>2. CASE Interrupt
  BY <1>2 DEF Interrupt
<1>3. CASE StartMarking
  BY <1>3 DEF StartMarking
<1>4. CASE Collect
  BY <1>4 DEF Collect
<1>5. ASSUME NEW size \in 1 .. RegionSize, Allocate(size) PROVE Numbers'
  BY <1>5 DEF Allocate
<1>6. ASSUME NEW size \in 1 .. RegionSize, GetRegion(size) PROVE Numbers'
  <2>1. PICK region \in size .. RegionSize : room' = region - size
    BY <1>6 DEF GetRegion
  <2> QED
    BY <1>6, <2>1 DEF GetRegion
<1>7. CASE SignalException \/ SignalPending
  BY <1>7 DEF SignalException, SignalPending, interpreter
<1>8. CASE UNCHANGED triggerVars
  BY <1>8 DEF triggerVars, interpreter
<1> QED
  BY <1>1, <1>2, <1>3, <1>4, <1>5, <1>6, <1>7, <1>8 DEF TriggerNext, Collector

\* Every step leaves the flags Boolean.
LEMMA FlagsKept == Flags /\ [TriggerNext]_triggerVars => Flags'
<1> SUFFICES ASSUME Flags, [TriggerNext]_triggerVars PROVE Flags'
  OBVIOUS
<1> USE DEF Flags
<1>1. CASE EndBootstrap \/ EnableInterrupts \/ Check \/ ClearPending
  BY <1>1 DEF EndBootstrap, EnableInterrupts, Check, ClearPending
<1>2. CASE Interrupt \/ StartMarking \/ Collect
  BY <1>2 DEF Interrupt, StartMarking, Collect
<1>3. ASSUME NEW size \in 1 .. RegionSize, Allocate(size) \/ GetRegion(size) PROVE Flags'
  BY <1>3 DEF Allocate, GetRegion
<1>4. CASE SignalException \/ SignalPending
  BY <1>4 DEF SignalException, SignalPending, interpreter
<1>5. CASE UNCHANGED triggerVars
  BY <1>5 DEF triggerVars, interpreter
<1> QED
  BY <1>1, <1>2, <1>3, <1>4, <1>5 DEF TriggerNext, Collector

\* Every step keeps the types.
LEMMA TypesKept == TriggerTypes /\ [TriggerNext]_triggerVars => TriggerTypes'
<1> SUFFICES ASSUME TriggerTypes, [TriggerNext]_triggerVars PROVE TriggerTypes'
  OBVIOUS
<1>1. Numbers' /\ Flags'
  BY NumbersKept, FlagsKept DEF TriggerTypes, Numbers, Flags
<1> QED
  BY <1>1 DEF TriggerTypes, Numbers, Flags

\* No step loses a signal: a collection that is not an Interrupt finds no exception that
\* is owed.
LEMMA SignalStep ==
  OwedWhenEnabled /\ SignalNotLost /\ [TriggerNext]_triggerVars => OwedWhenEnabled' /\ SignalNotLost'
<1> SUFFICES ASSUME OwedWhenEnabled, SignalNotLost, [TriggerNext]_triggerVars
             PROVE  OwedWhenEnabled' /\ SignalNotLost'
  OBVIOUS
<1> USE DEF OwedWhenEnabled, SignalNotLost
<1>1. CASE EndBootstrap \/ EnableInterrupts
  BY <1>1 DEF EndBootstrap, EnableInterrupts
<1>2. CASE Check \/ ClearPending
  BY <1>2 DEF Check, ClearPending
<1>3. CASE Interrupt
  BY <1>3 DEF Interrupt
<1>4. CASE StartMarking
  BY <1>4 DEF StartMarking
<1>5. CASE Collect
  BY <1>5 DEF Collect
<1>6. ASSUME NEW size \in 1 .. RegionSize, Allocate(size) \/ GetRegion(size)
      PROVE  OwedWhenEnabled' /\ SignalNotLost'
  <2>1. CASE Allocate(size)
    BY <2>1 DEF Allocate
  <2>2. CASE GetRegion(size)
    <3>1. (pending => pending') /\ UNCHANGED <<pending_exception, enable_interrupts, owed, at, signaller>>
      BY <2>2 DEF GetRegion
    <3> QED
      BY <3>1
  <2> QED
    BY <1>6, <2>1, <2>2
<1>7. CASE SignalException \/ SignalPending
  <2>1. CASE SignalException
    BY <2>1 DEF SignalException, interpreter
  <2>2. CASE SignalPending
    <3>1. pending' /\ (owed' => owed \/ enable_interrupts) /\ enable_interrupts' = enable_interrupts
      BY <2>2, Zenon DEF SignalPending, interpreter
    <3> QED
      BY <3>1
  <2> QED
    BY <1>7, <2>1, <2>2
<1>8. CASE UNCHANGED triggerVars
  BY <1>8 DEF triggerVars, interpreter
<1> QED
  BY <1>1, <1>2, <1>3, <1>4, <1>5, <1>6, <1>7, <1>8 DEF TriggerNext, Collector

\* A step that raises takes the exception of a signal out.
LEMMA RaiseStep == TriggerTypes /\ OneInterruptPerSignal /\ [TriggerNext]_triggerVars => OneInterruptPerSignal'
<1> SUFFICES ASSUME TriggerTypes, OneInterruptPerSignal, [TriggerNext]_triggerVars PROVE OneInterruptPerSignal'
  OBVIOUS
<1> USE DEF OneInterruptPerSignal
<1>0. raised \in Nat /\ signals \in Nat
  BY SizesAssumption DEF TriggerTypes
<1>1. CASE Interrupt
  BY <1>0, <1>1 DEF Interrupt
<1>2. CASE SignalException
  BY <1>0, <1>2 DEF SignalException, interpreter
<1>3. CASE SignalPending
  BY <1>3 DEF SignalPending, interpreter
<1>4. CASE EndBootstrap \/ EnableInterrupts \/ Check \/ ClearPending \/ StartMarking \/ Collect
  BY <1>4 DEF EndBootstrap, EnableInterrupts, Check, ClearPending, StartMarking, Collect
<1>5. ASSUME NEW size \in 1 .. RegionSize, Allocate(size) \/ GetRegion(size)
      PROVE  OneInterruptPerSignal'
  BY <1>5 DEF Allocate, GetRegion
<1>6. CASE UNCHANGED triggerVars
  BY <1>6 DEF triggerVars, interpreter
<1> QED
  BY <1>1, <1>2, <1>3, <1>4, <1>5, <1>6 DEF TriggerNext, Collector

\* What makes a collection due sets pending, and only collect takes it away.
LEMMA DueStep == DueNotForgotten /\ [TriggerNext]_triggerVars => DueNotForgotten'
<1> SUFFICES ASSUME DueNotForgotten, [TriggerNext]_triggerVars PROVE DueNotForgotten'
  OBVIOUS
<1> USE DEF DueNotForgotten
<1>1. CASE EndBootstrap \/ EnableInterrupts \/ Check \/ ClearPending
  BY <1>1 DEF EndBootstrap, EnableInterrupts, Check, ClearPending
<1>2. CASE Interrupt \/ StartMarking \/ Collect
  BY <1>2 DEF Interrupt, StartMarking, Collect
<1>3. ASSUME NEW size \in 1 .. RegionSize, Allocate(size) \/ GetRegion(size)
      PROVE  DueNotForgotten'
  BY <1>3 DEF Allocate, GetRegion
<1>4. CASE SignalException \/ SignalPending
  BY <1>4 DEF SignalException, SignalPending, interpreter
<1>5. CASE UNCHANGED triggerVars
  BY <1>5 DEF triggerVars, interpreter
<1> QED
  BY <1>1, <1>2, <1>3, <1>4, <1>5 DEF TriggerNext, Collector

\* The invariant is inductive.
THEOREM TriggerInvariant == TriggerSpec => []TriggerInv
<1>1. TriggerInv /\ [TriggerNext]_triggerVars => TriggerInv'
  BY TypesKept, SignalStep, RaiseStep, DueStep DEF TriggerInv
<1> QED
  BY TriggerInitInv, <1>1, PTL DEF TriggerSpec

\* The variables keep their types.
THEOREM TriggerTypesKept == TriggerSpec => []TriggerTypes
  BY TriggerInvariant, PTL DEF TriggerInv

\* As long as the exception of a Ctrl-C that reached the program with interrupts enabled is
\* stored, something is left that will look at it.
THEOREM NoSignalLost == TriggerSpec => []SignalNotLost
  BY TriggerInvariant, PTL DEF TriggerInv

\* Every Interrupt answers a signal of its own.
THEOREM InterruptsAreSignals == TriggerSpec => []OneInterruptPerSignal
  BY TriggerInvariant, PTL DEF TriggerInv

\* A collection that is due stays announced until it, or an Interrupt, takes place.
THEOREM DueIsKept == TriggerSpec => []DueNotForgotten
  BY TriggerInvariant, PTL DEF TriggerInv
=============================================================================
