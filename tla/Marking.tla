------------------------------ MODULE Marking ------------------------------
(***************************************************************************)
(* The mark phase (collector-mark.cpp).  The objects still to be scanned   *)
(* form a list that is threaded through the objects themselves: mark_list  *)
(* is its head and Value::mark_list the link.  Without DEBUG that link is  *)
(* the very field compaction uses as thread_list, so marking must leave    *)
(* every link at list_end, in the objects it never scanned included.       *)
(*                                                                         *)
(* An object is its sequence of slots, in the order its class's mark()     *)
(* passes them on; a slot holds an object or Nothing (an immediate value   *)
(* or a null pointer that mark() skips).                                   *)
(***************************************************************************)
EXTENDS Integers, Sequences

CONSTANTS
  Objects,   \* everything a collection may have to visit
  Roots,     \* the references each_root and symbol_pool.mark_content pass on
  Graphs,    \* the heaps to mark, see MarkingAssumption
  Nothing,   \* what a slot without an object holds
  ListEnd    \* Value::list_end

Words == Objects \cup {Nothing}
ASSUME MarkingAssumption ==
  /\ Nothing \notin Objects /\ ListEnd \notin Objects
  /\ \A g \in Graphs : /\ DOMAIN g = {"root", "slots"}
                       /\ g.root \in [Roots -> Words]
                       /\ g.slots \in [Objects -> Seq(Words)]

VARIABLES
  graph,    \* what the slots hold: marking changes none of them
  todo,     \* the roots each_root has not passed on yet
  marked,   \* the objects whose marked bit is set
  list,     \* mark_list
  link,     \* Value::mark_list of every object
  current,  \* the object mark_children is scanning, or Nothing
  index,    \* the slot of current to look at next
  stack     \* history: the objects on the list, the head last

vars == <<graph, todo, marked, list, link, current, index, stack>>

-----------------------------------------------------------------------------
\* mark_value and mark_pointer.
MarkPointer(o) ==
  IF o \in Objects \ marked
  THEN /\ marked' = marked \cup {o}
       /\ link' = [link EXCEPT ![o] = list]
       /\ list' = o
       /\ stack' = Append(stack, o)
  ELSE UNCHANGED <<marked, link, list, stack>>

\* Mutant of MarkRoot: each_root stops after one root.
MarkRootOnce(r) ==
  /\ current = Nothing /\ list = ListEnd /\ r \in todo
  /\ todo' = {}
  /\ MarkPointer(graph.root[r])
  /\ UNCHANGED <<graph, current, index>>

\* each_root passes on one root; MarkFunc<&mark_children> then empties the list.
MarkRoot(r) ==
  /\ current = Nothing /\ list = ListEnd /\ r \in todo
  /\ todo' = todo \ {r}
  /\ MarkPointer(graph.root[r])
  /\ UNCHANGED <<graph, current, index>>

\* Mutant of TakeNext: the link of the object taken is not reset.
TakeNextKeepsLink ==
  /\ current = Nothing /\ list # ListEnd
  /\ current' = list /\ index' = 1
  /\ list' = link[list]
  /\ stack' = SubSeq(stack, 1, Len(stack) - 1)
  /\ UNCHANGED <<graph, todo, marked, link>>

\* Mutant of TakeNext: mark_list is not advanced.
TakeNextSame ==
  /\ current = Nothing /\ list # ListEnd
  /\ current' = list /\ index' = 1
  /\ UNCHANGED <<graph, todo, marked, list, link, stack>>

\* mark_children takes the head of the list.
TakeNext ==
  /\ current = Nothing /\ list # ListEnd
  /\ current' = list /\ index' = 1
  /\ list' = link[list]
  /\ link' = [link EXCEPT ![list] = ListEnd]
  /\ stack' = SubSeq(stack, 1, Len(stack) - 1)
  /\ UNCHANGED <<graph, todo, marked>>

\* Mutant of MarkSlot: the last slot is left out.
MarkSlotNotLast ==
  /\ current # Nothing /\ index <= Len(graph.slots[current])
  /\ index' = index + 1
  /\ IF index < Len(graph.slots[current])
     THEN MarkPointer(graph.slots[current][index])
     ELSE UNCHANGED <<marked, link, list, stack>>
  /\ UNCHANGED <<graph, todo, current>>

\* MarkClass passes on one slot of the object being scanned.
MarkSlot ==
  /\ current # Nothing /\ index <= Len(graph.slots[current])
  /\ index' = index + 1
  /\ MarkPointer(graph.slots[current][index])
  /\ UNCHANGED <<graph, todo, current>>

Scanned ==
  /\ current # Nothing /\ index > Len(graph.slots[current])
  /\ current' = Nothing
  /\ UNCHANGED <<graph, todo, marked, list, link, index, stack>>

Init ==
  /\ graph \in Graphs
  /\ todo = Roots
  /\ marked = {}
  /\ list = ListEnd
  /\ link = [o \in Objects |-> ListEnd]
  /\ current = Nothing
  /\ index = 1
  /\ stack = <<>>

Next == (\E r \in Roots : MarkRoot(r)) \/ TakeNext \/ MarkSlot \/ Scanned

Spec == Init /\ [][Next]_vars /\ WF_vars(Next)

-----------------------------------------------------------------------------
(* Properties.                                                             *)

Done == todo = {} /\ list = ListEnd /\ current = Nothing

\* The types of the variables.
TypeOK ==
  /\ graph.root \in [Roots -> Words] /\ graph.slots \in [Objects -> Seq(Words)]
  /\ todo \subseteq Roots
  /\ marked \subseteq Objects
  /\ list \in Objects \cup {ListEnd}
  /\ link \in [Objects -> Objects \cup {ListEnd}]
  /\ current \in Words
  /\ index \in Nat \ {0}
  /\ stack \in Seq(Objects)

\* Where the links lead from the top of the first n objects of the stack.
Top(n) == IF n = 0 THEN ListEnd ELSE stack[n]

\* The intrusive list is a list: its links visit exactly the marked objects that
\* are still to be scanned, each once, and end.
ListIsStack ==
  /\ list = Top(Len(stack))
  /\ \A n \in 1 .. Len(stack) : /\ stack[n] \in marked /\ link[stack[n]] = Top(n - 1)
                                /\ stack[n] # current
  /\ \A m, n \in 1 .. Len(stack) : m # n => stack[m] # stack[n]

OnStack(o) == \E n \in 1 .. Len(stack) : stack[n] = o

\* Compaction finds every thread_list at list_end: no link outlives its object's
\* turn on the list, the links of objects that were never marked included.
LinksReset == \A o \in Objects : ~OnStack(o) => link[o] = ListEnd

\* No object is forgotten: what a marked object refers to is marked, unless the
\* object is still on the list or the slot still ahead of the scan.
NothingForgotten ==
  /\ \A r \in Roots \ todo : graph.root[r] \in marked \cup {Nothing}
  /\ \A o \in marked : ~OnStack(o) =>
       \A n \in DOMAIN graph.slots[o] :
         (o = current => n < index) => graph.slots[o][n] \in marked \cup {Nothing}

\* A set of objects no reference leads out of.
Closed(S) ==
  /\ \A r \in Roots : graph.root[r] \in S \cup {Nothing}
  /\ \A o \in S : \A n \in DOMAIN graph.slots[o] : graph.slots[o][n] \in S \cup {Nothing}

\* naive_mark's answer: the smallest closed set.
Reachable == {o \in Objects : \A S \in SUBSET Objects : Closed(S) => o \in S}

\* Exactly the reachable objects survive: no live object is collected and no
\* garbage is kept, whatever the order of roots and slots.
MarkedIsReachable == Done => marked = Reachable

\* Marking ends.
Terminates == <>Done
=============================================================================
