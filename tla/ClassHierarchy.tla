---------------------------- MODULE ClassHierarchy ----------------------------
(***************************************************************************)
(* The graph of classes, modules, include classes and singleton classes    *)
(* that runtime.cpp keeps: what class statements, module statements,       *)
(* `new', `class <<', `include', `extend' and `dup' do to the pointers      *)
(* superclass and instance_of.                                             *)
(*                                                                         *)
(* A value is its place in heap; NULL is the null pointer.  The field of   *)
(* an include class is a union in the code: instance_of holds the module   *)
(* it stands for (original_module).  Names, constants and method tables    *)
(* are left out.  include_module is a loop over a chain of superclasses    *)
(* that it is itself lengthening, so each turn of it is a step here.       *)
(***************************************************************************)
EXTENDS Naturals, Sequences

CONSTANTS
    MaxHeap,    \* bound: how many values are ever allocated
    Untouched   \* bound: the first classes that no operation is applied to

ASSUME MaxHeapAssumption == MaxHeap \in Nat

VARIABLES
    heap,   \* sequence of records: every value with a class pointer
    inc,    \* the locals of include_module: obj, module and c
    asked   \* history: obj's chain and the module's ancestors when it was called

vars == <<heap, inc, asked>>

NULL == 0
Ids == DOMAIN heap
Types == {"Object", "Class", "Module", "IClass"}

(* The classes setup_classes makes first, and their singleton classes. *)
ObjectClass == 1
ModuleClass == 2
ClassClass == 3
ObjectMeta == 4
ModuleMeta == 5
ClassMeta == 6

Value(type, singleton, superclass, instanceOf) ==
    [type |-> type, singleton |-> singleton, superclass |-> superclass,
     instance_of |-> instanceOf]

-----------------------------------------------------------------------------
(* Reading the graph. *)

(* The chain of superclass pointers from m, m first. *)
Chain(h, m) ==
    LET up[i \in 0 .. Len(h)] == IF i = NULL THEN <<>> ELSE <<i>> \o up[h[i].superclass]
    IN  up[m]

Elements(s) == {s[k] : k \in DOMAIN s}
Above(h, m) == Elements(Chain(h, m))

Included(h, m) == IF h[m].type = "IClass" THEN h[m].instance_of ELSE m

(* The modules the chain from m stands for, in order. *)
Ancestors(h, m) == LET c == Chain(h, m) IN [k \in DOMAIN c |-> Included(h, c[k])]

\* Mutant of is_real_class: an include class counts.
IncludeClassIsReal(h, m) == ~h[m].singleton

is_real_class(h, m) == ~h[m].singleton /\ h[m].type # "IClass"

FirstIn(s, S) ==
    LET at == {k \in DOMAIN s : s[k] \in S}
    IN  IF at = {} THEN NULL ELSE s[CHOOSE k \in at : \A j \in at : k =< j]

real_class(h, m) == FirstIn(Chain(h, m), {i \in DOMAIN h : is_real_class(h, i)})

class_of(h, o) == real_class(h, h[o].instance_of)

subclass_of(h, super, c) ==
    super \in {i \in Above(h, c) : is_real_class(h, i)}

(* What Ruby code can hold: include classes are never handed out. *)
Exposed == {o \in Ids \ Untouched : heap[o].type # "IClass"}
Modules == {o \in Exposed : heap[o].type # "Object"}
Classes == {o \in Exposed : heap[o].type = "Class"}

-----------------------------------------------------------------------------
(* Changing it. *)

(* class_create_bare, and the mark class_create_singleton sets on it. *)
class_create_bare(super, singleton) == Value("Class", singleton, super, ClassClass)

WithInstanceOf(h, o, c) == [h EXCEPT ![o].instance_of = c]

(* A new singleton class of o below super; of a class, it is its own class. *)
WithSingleton(h, o, super) ==
    LET new == Len(h) + 1
        attached == WithInstanceOf(Append(h, class_create_bare(super, TRUE)), o, new)
    IN  IF h[o].type = "Class" THEN WithInstanceOf(attached, new, new) ELSE attached

\* Mutant of WithIncludeClass: its superclass is read after c's is set.
WithIncludeClassOfItself(h, c, module) ==
    Append([h EXCEPT ![c].superclass = Len(h) + 1],
           Value("IClass", FALSE, Len(h) + 1, module))

\* Mutant of WithIncludeClass: its superclass is the module's, not c's.
WithIncludeClassBelowModule(h, c, module) ==
    Append([h EXCEPT ![c].superclass = Len(h) + 1],
           Value("IClass", FALSE, h[module].superclass, module))

(* A new include class, standing for module, cut in above c. *)
WithIncludeClass(h, c, module) ==
    Append([h EXCEPT ![c].superclass = Len(h) + 1],
           Value("IClass", FALSE, h[c].superclass, module))

HasSingleton(h, o) == h[h[o].instance_of].singleton

Idle == inc.module = NULL
Room(n) == Len(heap) + n =< MaxHeap

NoInclude == [obj |-> NULL, module |-> NULL, c |-> NULL]
NothingAsked == [obj |-> <<>>, module |-> <<>>]
NoCall == inc' = NoInclude /\ asked' = NothingAsked

-----------------------------------------------------------------------------

(* setup_classes *)
Init ==
    /\ heap = << Value("Class", FALSE, NULL, ObjectMeta),
                 Value("Class", FALSE, ObjectClass, ModuleMeta),
                 Value("Class", FALSE, ModuleClass, ClassMeta),
                 Value("Class", TRUE, ClassClass, ObjectMeta),
                 Value("Class", TRUE, ObjectMeta, ModuleMeta),
                 Value("Class", TRUE, ModuleMeta, ClassMeta) >>
    /\ inc = NoInclude
    /\ asked = NothingAsked

(* class Name < super, of a name that is not taken. *)
DefineClass(super) ==
    /\ Idle /\ Room(2)
    /\ LET new == Len(heap) + 1
       IN  heap' = WithSingleton(Append(heap, class_create_bare(super, FALSE)),
                                 new, heap[super].instance_of)
    /\ NoCall

(* module Name, of a name that is not taken. *)
DefineModule ==
    /\ Idle /\ Room(1)
    /\ heap' = Append(heap, Value("Module", FALSE, NULL, ModuleClass))
    /\ NoCall

(* c.new: the allocator is a singleton method of Object or of Class, so it  *)
(* is the first of the two above c's own class; it refuses a c that is not *)
(* below the class it allocates for.  A class made this way has no         *)
(* singleton class of its own and is always a child of Object.             *)
New(c) ==
    /\ Idle /\ Room(1)
    /\ LET above == Ancestors(heap, heap[c].instance_of)
           allocator == FirstIn(above, {ObjectMeta, ClassMeta})
       IN  \/ /\ allocator = ObjectMeta /\ subclass_of(heap, ObjectClass, c)
              /\ heap' = Append(heap, Value("Object", FALSE, NULL, c))
           \/ /\ allocator = ClassMeta /\ subclass_of(heap, ClassClass, c)
              /\ heap' = Append(heap, Value("Class", FALSE, ObjectClass, c))
    /\ NoCall

(* class << o, def o.name, o.instance_eval: the singleton class, on demand. *)
SingletonClass(o) ==
    /\ Idle /\ Room(1)
    /\ ~HasSingleton(heap, o)
    /\ heap' = WithSingleton(heap, o, heap[o].instance_of)
    /\ NoCall

(* o.dup: the copy constructors copy every pointer, the one to a singleton  *)
(* class and the mark of being one included.                               *)
Dup(o) ==
    /\ Idle /\ Room(1)
    /\ heap' = Append(heap, heap[o])
    /\ NoCall

-----------------------------------------------------------------------------
(* include_module *)

(* The call: every module of the chain may need an include class. *)
Call(h, obj, module) ==
    /\ Len(h) + Len(Chain(h, module)) =< MaxHeap
    /\ heap' = h
    /\ inc' = [obj |-> obj, module |-> module, c |-> obj]
    /\ asked' = [obj |-> Chain(h, obj), module |-> Ancestors(h, module)]

(* obj.include(module), a Class being a Module too. *)
Include(obj, module) == Idle /\ Call(heap, obj, module)

(* o.extend(module): include into the singleton class. *)
Extend(o, module) ==
    /\ Idle
    /\ LET h == IF HasSingleton(heap, o) THEN heap
                ELSE WithSingleton(heap, o, heap[o].instance_of)
       IN  Call(h, h[o].instance_of, module)

\* Mutant of AlreadyThere: an include class is compared, not the module it stands for.
AlreadyThereItself ==
    FirstIn(Tail(Chain(heap, inc.obj)),
            {i \in Ids : heap[i].type = "IClass" /\ i = Included(heap, inc.module)})

StandsFor(h, i, m) == h[i].type = "IClass" /\ h[i].instance_of = m

(* The include class above obj that already stands for module, if any. *)
AlreadyThere ==
    FirstIn(Tail(Chain(heap, inc.obj)),
            {i \in Ids : StandsFor(heap, i, Included(heap, inc.module))})

(* Is there a class between obj and i? *)
found_superclass(i) ==
    LET above == Tail(Chain(heap, inc.obj))
    IN  \E j, k \in DOMAIN above : j < k /\ above[k] = i /\ heap[above[j]].type = "Class"

\* Mutant of SkipModule: the walk stays on the module it found.
SkipModuleStays ==
    \E i \in Ids :
        /\ i = AlreadyThere
        /\ inc' = [inc EXCEPT !.c = IF found_superclass(i) THEN inc.c ELSE i]
        /\ UNCHANGED <<heap, asked>>

(* A module that is there is stepped over; the next ones go above it if it  *)
(* is obj's own.                                                           *)
SkipModule ==
    \E i \in Ids :
        /\ i = AlreadyThere
        /\ inc' = [inc EXCEPT !.module = heap[inc.module].superclass,
                              !.c = IF found_superclass(i) THEN inc.c ELSE i]
        /\ UNCHANGED <<heap, asked>>

(* Any other gets an include class above c. *)
InsertModule ==
    /\ AlreadyThere = NULL
    /\ Room(1)
    /\ heap' = WithIncludeClass(heap, inc.c, Included(heap, inc.module))
    /\ inc' = [inc EXCEPT !.module = heap'[inc.module].superclass, !.c = Len(heap')]
    /\ UNCHANGED asked

IncludeNext == ~Idle /\ (SkipModule \/ InsertModule)

-----------------------------------------------------------------------------

Next ==
    \/ \E super \in Classes : DefineClass(super)
    \/ DefineModule
    \/ \E c \in Classes : New(c)
    \/ \E o \in Exposed : SingletonClass(o) \/ Dup(o)
    \/ \E obj, module \in Modules : Include(obj, module)
    \/ \E o \in Exposed, module \in Modules : Extend(o, module)
    \/ IncludeNext

(* The loop runs in one call of a C++ function: nothing stops it half-way. *)
Spec == Init /\ [][Next]_vars /\ WF_vars(IncludeNext)

-----------------------------------------------------------------------------

(* What each pointer of each kind of value may point to: superclasses are   *)
(* classes or include classes, instance_of is a class, or the module an     *)
(* include class stands for, and the loop of include_module never leaves    *)
(* the modules for a plain object.                                         *)
Values == [type : Types, singleton : BOOLEAN, superclass : Nat, instance_of : Nat]

HeapOK(h) ==
    /\ h \in Seq(Values)
    /\ Len(h) >= 6 /\ \A o \in 1 .. 6 : h[o].type = "Class"
    /\ \A o \in DOMAIN h :
        /\ h[o].superclass \in DOMAIN h \cup {NULL}
        /\ h[o].instance_of \in DOMAIN h
        /\ h[o].superclass # NULL => h[h[o].superclass].type \in {"Class", "IClass"}
        /\ h[o].singleton => h[o].type = "Class"
        /\ \/ h[h[o].instance_of].type = "Class"
           \/ h[o].type = "IClass" /\ h[h[o].instance_of].type = "Module"

IncludeOK(h, i) ==
    /\ i \in [obj : DOMAIN h \cup {NULL}, module : DOMAIN h \cup {NULL},
               c : DOMAIN h \cup {NULL}]
    /\ i.module # NULL => /\ i.obj # NULL /\ i.c # NULL
                          /\ h[i.module].type # "Object"

TypeOK == HeapOK(heap) /\ IncludeOK(heap, inc)

(* Every chain of superclasses ends, whatever is included into what: no set *)
(* of modules has all its superclasses inside it.  lookup, real_class,     *)
(* subclass_of and lookup_const follow these chains with no other bound.   *)
Acyclic(h) ==
    \A S \in SUBSET (DOMAIN h) : S # {} => \E m \in S : h[m].superclass \notin S

NoCycle == Acyclic(heap)

(* When include_module is done, obj's chain is what it was, in the order it *)
(* was, with include classes put in between: obj has one for every ancestor *)
(* of the module, and the new ones stand for no others and for nothing that *)
(* one stands for already, be it above obj itself or above its superclass. *)
InOrder(s, t) ==
    \A j, k \in DOMAIN s : j =< k => \E a, b \in DOMAIN t : a =< b /\ t[a] = s[j] /\ t[b] = s[k]

IncludeMerges ==
    Idle /\ inc.obj # NULL =>
        LET now == Above(heap, inc.obj)
            gained == now \ Elements(asked.obj)
        IN  /\ InOrder(asked.obj, Chain(heap, inc.obj))
            /\ \A m \in Elements(asked.module) : \E i \in now : StandsFor(heap, i, m)
            /\ \A i \in gained : \E m \in Elements(asked.module) :
                    /\ StandsFor(heap, i, m)
                    /\ \A j \in now : StandsFor(heap, j, m) => j = i

(* No step changes what `class' answers for a value that exists: singleton  *)
(* classes, include classes and copies are invisible to it.                *)
ClassNeverChanges ==
    [][\A o \in Ids : heap[o].type # "IClass" =>
            class_of(heap', o) = class_of(heap, o)]_vars

(* A class whose singleton class is below that of its superclass stays so:  *)
(* the singleton methods it inherits are not lost by extending, including, *)
(* subclassing or copying.                                                 *)
Parent(h, c) == FirstIn(Tail(Chain(h, c)), {i \in DOMAIN h : h[i].type = "Class"})

InheritsSingleton(h, c) ==
    LET s == Parent(h, c)
    IN  s # NULL /\ HasSingleton(h, s) /\ h[s].instance_of \in Above(h, h[c].instance_of)

SingletonMethodsStayInherited ==
    [][\A c \in Classes : InheritsSingleton(heap, c) => InheritsSingleton(heap', c)]_vars

(* The loop of include_module ends, though the chain it walks may be the    *)
(* one it is lengthening.                                                  *)
IncludeEnds == ~Idle ~> Idle
=============================================================================
