------------------------- MODULE ClassHierarchyProofs -------------------------
(***************************************************************************)
(* For every bound on the heap: the pointers of the class graph point to   *)
(* what they may point to, and no chain of superclasses closes on itself,  *)
(* though include_module cuts new classes into chains, those of the module *)
(* it is including among them; an include merges what it should and no     *)
(* more; and no operation changes the class a value answers, or which      *)
(* singleton methods a class inherits.                                     *)
(*                                                                         *)
(* Each operation is one of three changes of the heap, or two of them in   *)
(* turn: a new value, a new singleton class, a new include class cut in    *)
(* above a module.  A lemma says of each that it keeps the heap Good, and  *)
(* another that the heap after it Extends the one before.  Since no chain  *)
(* closes on itself, UpInduction proves of all of a chain what holds of a  *)
(* value whenever it holds of its superclass: every chain has an end, the  *)
(* functions that walk it are defined, and Extends keeps what they find.   *)
(***************************************************************************)
EXTENDS ClassHierarchy, WellFoundedInduction, TLAPS

(* What the lemmas ask of a value about to be added to h. *)
Fits(v, h) ==
    /\ v \in Values
    /\ v.superclass \in DOMAIN h \cup {NULL}
    /\ v.instance_of \in DOMAIN h
    /\ v.superclass # NULL => h[v.superclass].type \in {"Class", "IClass"}
    /\ v.singleton => v.type = "Class"
    /\ \/ h[v.instance_of].type = "Class"
       \/ v.type = "IClass" /\ h[v.instance_of].type = "Module"

Good(h) == HeapOK(h) /\ Acyclic(h)

(* Adding a value nothing points to keeps the heap good. *)
LEMMA AppendFacts ==
    ASSUME NEW h \in Seq(Values), NEW v \in Values
    PROVE  /\ Append(h, v) \in Seq(Values)
           /\ Len(Append(h, v)) = Len(h) + 1
           /\ DOMAIN h = 1 .. Len(h)
           /\ DOMAIN Append(h, v) = 1 .. Len(h) + 1
           /\ \A o \in DOMAIN h : Append(h, v)[o] = h[o]
           /\ Append(h, v)[Len(h) + 1] = v
           /\ Len(h) \in Nat
  OBVIOUS

LEMMA AppendGood ==
    ASSUME NEW h, Good(h), NEW v, Fits(v, h)
    PROVE  Good(Append(h, v))
<1> DEFINE g == Append(h, v)
           n == Len(h) + 1
<1>1. /\ g \in Seq(Values) /\ Len(g) = n
      /\ DOMAIN h = 1 .. Len(h) /\ DOMAIN g = 1 .. n
      /\ \A o \in DOMAIN h : g[o] = h[o]
      /\ g[n] = v /\ Len(h) \in Nat
  <2>1. h \in Seq(Values) /\ v \in Values
    BY DEF Good, HeapOK, Fits
  <2> QED BY <2>1, AppendFacts
<1> HIDE DEF g
<1>2. HeapOK(g)
  <2>1. Len(g) >= 6 /\ \A o \in 1 .. 6 : g[o].type = "Class"
    <3>1. Len(h) >= 6 /\ \A o \in 1 .. 6 : h[o].type = "Class"
      BY DEF Good, HeapOK
    <3>2. \A o \in 1 .. 6 : o \in DOMAIN h
      BY <1>1, <3>1
    <3> QED BY <1>1, <3>1, <3>2 DEF n
  <2>2. ASSUME NEW o \in DOMAIN g
        PROVE  /\ g[o].superclass \in DOMAIN g \cup {NULL}
               /\ g[o].instance_of \in DOMAIN g
               /\ g[o].superclass # NULL => g[g[o].superclass].type \in {"Class", "IClass"}
               /\ g[o].singleton => g[o].type = "Class"
               /\ \/ g[g[o].instance_of].type = "Class"
                  \/ g[o].type = "IClass" /\ g[g[o].instance_of].type = "Module"
    <3>1. CASE o \in DOMAIN h
      BY <1>1, <3>1 DEF Good, HeapOK, n
    <3>2. CASE o = n
      BY <1>1, <3>2 DEF Fits, n
    <3> QED BY <1>1, <3>1, <3>2 DEF n
  <2> QED BY <1>1, <2>1, <2>2 DEF HeapOK
<1>3. ASSUME NEW S \in SUBSET (DOMAIN g), S # {}
      PROVE  \E m \in S : g[m].superclass \notin S
  <2> DEFINE T == S \ {n}
  <2>1. CASE T = {}
    <3>1. n \in S /\ g[n].superclass # n
      BY <1>1, <1>3, <2>1 DEF Fits, n, NULL
    <3> QED BY <2>1, <3>1
  <2>2. CASE T # {}
    <3>1. PICK m \in T : h[m].superclass \notin T
      <4>1. T \in SUBSET (DOMAIN h)
        BY <1>1 DEF n
      <4> QED BY <2>2, <4>1 DEF Good, Acyclic
    <3>2. h[m].superclass # n /\ g[m] = h[m]
      BY <1>1, <3>1 DEF Good, HeapOK, n, NULL
    <3> QED BY <3>1, <3>2
  <2> QED BY <2>1, <2>2
<1> QED BY <1>2, <1>3 DEF Good, Acyclic, g

(* Setting the class of a value changes nothing else. *)
LEMMA InstanceOfFacts ==
    ASSUME NEW h \in Seq(Values), NEW o \in DOMAIN h, NEW c \in DOMAIN h
    PROVE  LET g == WithInstanceOf(h, o, c) IN
           /\ g \in Seq(Values) /\ Len(g) = Len(h) /\ DOMAIN g = DOMAIN h
           /\ \A i \in DOMAIN h :
                /\ g[i].type = h[i].type
                /\ g[i].singleton = h[i].singleton
                /\ g[i].superclass = h[i].superclass
                /\ i # o => g[i].instance_of = h[i].instance_of
           /\ g[o].instance_of = c
<1> DEFINE g == WithInstanceOf(h, o, c)
<1>1. /\ DOMAIN h = 1 .. Len(h) /\ Len(h) \in Nat
      /\ \A i \in DOMAIN h : h[i] \in Values
  OBVIOUS
<1>2. [h[o] EXCEPT !.instance_of = c] \in Values
  <2>1. h[o] \in Values /\ c \in Nat
    BY <1>1
  <2> QED BY <2>1 DEF Values
<1>3. /\ g \in Seq(Values) /\ Len(g) = Len(h) /\ DOMAIN g = DOMAIN h
  BY <1>1, <1>2 DEF WithInstanceOf
<1>4. ASSUME NEW i \in DOMAIN h
      PROVE  /\ g[i].type = h[i].type
             /\ g[i].singleton = h[i].singleton
             /\ g[i].superclass = h[i].superclass
             /\ i # o => g[i].instance_of = h[i].instance_of
             /\ i = o => g[i].instance_of = c
  <2>1. h[i] \in Values
    BY <1>1
  <2>2. CASE i = o
    <3>1. g[i] = [h[i] EXCEPT !.instance_of = c]
      BY <2>2 DEF WithInstanceOf
    <3> QED BY <2>1, <2>2, <3>1 DEF Values
  <2>3. CASE i # o
    BY <2>3 DEF WithInstanceOf
  <2> QED BY <2>2, <2>3
<1> QED BY <1>3, <1>4

(* Making a class the class of a value keeps the heap good. *)
LEMMA InstanceOfGood ==
    ASSUME NEW h, Good(h), NEW o \in DOMAIN h, NEW c \in DOMAIN h,
           h[c].type = "Class"
    PROVE  Good(WithInstanceOf(h, o, c))
<1> DEFINE g == WithInstanceOf(h, o, c)
<1>1. h \in Seq(Values)
  BY DEF Good, HeapOK
<1>2. g \in Seq(Values) /\ Len(g) = Len(h) /\ DOMAIN g = DOMAIN h
  BY <1>1, InstanceOfFacts
<1>3. \A i \in DOMAIN h :
         /\ g[i].type = h[i].type
         /\ g[i].singleton = h[i].singleton
         /\ g[i].superclass = h[i].superclass
         /\ i # o => g[i].instance_of = h[i].instance_of
  BY <1>1, InstanceOfFacts
<1>4. g[o].instance_of = c
  BY <1>1, InstanceOfFacts
<1> HIDE DEF g
<1>5. HeapOK(g)
  <2>1. ASSUME NEW i \in DOMAIN g
        PROVE  /\ g[i].superclass \in DOMAIN g \cup {NULL}
               /\ g[i].instance_of \in DOMAIN g
               /\ g[i].superclass # NULL => g[g[i].superclass].type \in {"Class", "IClass"}
               /\ g[i].singleton => g[i].type = "Class"
               /\ \/ g[g[i].instance_of].type = "Class"
                  \/ g[i].type = "IClass" /\ g[g[i].instance_of].type = "Module"
    <3>1. /\ h[i].superclass \in DOMAIN h \cup {NULL}
          /\ h[i].instance_of \in DOMAIN h
          /\ h[i].superclass # NULL => h[h[i].superclass].type \in {"Class", "IClass"}
          /\ h[i].singleton => h[i].type = "Class"
          /\ \/ h[h[i].instance_of].type = "Class"
             \/ h[i].type = "IClass" /\ h[h[i].instance_of].type = "Module"
      BY <1>2 DEF Good, HeapOK
    <3>2. CASE i = o
      BY <1>2, <1>3, <1>4, <3>1, <3>2
    <3>3. CASE i # o
      BY <1>2, <1>3, <3>1, <3>3
    <3> QED BY <3>2, <3>3
  <2>2. Len(h) >= 6 /\ \A i \in 1 .. 6 : h[i].type = "Class"
    BY DEF Good, HeapOK
  <2>3. \A i \in 1 .. 6 : i \in DOMAIN h
    BY <1>1, <2>2
  <2>4. Len(g) >= 6 /\ \A i \in 1 .. 6 : g[i].type = "Class"
    BY <1>2, <1>3, <2>2, <2>3
  <2> QED BY <1>2, <2>1, <2>4 DEF HeapOK
<1>6. Acyclic(g)
  <2>1. ASSUME NEW S \in SUBSET (DOMAIN g), S # {}
        PROVE  \E m \in S : g[m].superclass \notin S
    BY <1>2, <1>3, <2>1 DEF Good, Acyclic
  <2> QED BY <2>1 DEF Acyclic
<1> QED BY <1>5, <1>6 DEF Good, g

(* A new class, not yet the class of anything. *)
LEMMA ClassFits ==
    ASSUME NEW h, Good(h), NEW super \in DOMAIN h, NEW s \in BOOLEAN,
           h[super].type = "Class"
    PROVE  Fits(Value("Class", s, super, ClassClass), h)
<1>1. DOMAIN h = 1 .. Len(h) /\ Len(h) \in Nat /\ Len(h) >= 6
  BY DEF Good, HeapOK
<1>2. ClassClass \in DOMAIN h /\ h[ClassClass].type = "Class"
  BY <1>1 DEF Good, HeapOK, ClassClass
<1>3. super \in Nat
  BY <1>1
<1> QED BY <1>1, <1>2, <1>3 DEF Fits, Value, Values, Types, ClassClass, NULL

(* A new singleton class keeps the heap good, and what other values are. *)
LEMMA SingletonGood ==
    ASSUME NEW h, Good(h), NEW o \in DOMAIN h, NEW super \in DOMAIN h,
           h[super].type = "Class",
           NEW g, g = WithSingleton(h, o, super)
    PROVE  /\ Good(g)
           /\ DOMAIN h \subseteq DOMAIN g
           /\ \A i \in DOMAIN h : g[i].type = h[i].type
           /\ g[o].instance_of \in DOMAIN g
           /\ g[g[o].instance_of].type = "Class"
<1> DEFINE new == Len(h) + 1
           v == class_create_bare(super, TRUE)
           h1 == Append(h, v)
           h2 == WithInstanceOf(h1, o, new)
           h3 == WithInstanceOf(h2, new, new)
<1>1. Fits(v, h)
  <2>1. v = Value("Class", TRUE, super, ClassClass)
    BY DEF class_create_bare
  <2> QED BY <2>1, ClassFits
<1>2. v.type = "Class"
  BY DEF class_create_bare, Value
<1>3. h \in Seq(Values) /\ v \in Values
  BY <1>1 DEF Good, HeapOK, Fits
<1>4. /\ Good(h1) /\ DOMAIN h = 1 .. Len(h) /\ DOMAIN h1 = 1 .. new /\ Len(h) \in Nat
      /\ \A i \in DOMAIN h : h1[i] = h[i]
      /\ h1[new] = v
  BY <1>1, <1>3, AppendGood, AppendFacts
<1> HIDE DEF h1, v
<1>5. o \in DOMAIN h1 /\ new \in DOMAIN h1 /\ h1[new].type = "Class"
  BY <1>2, <1>4
<1>6. DOMAIN h \subseteq DOMAIN h1 /\ \A i \in DOMAIN h : h1[i].type = h[i].type
  BY <1>4
<1> HIDE DEF new
<1>7. h1 \in Seq(Values)
  BY <1>4 DEF Good, HeapOK
<1>8. /\ Good(h2) /\ DOMAIN h2 = DOMAIN h1
      /\ \A i \in DOMAIN h1 : h2[i].type = h1[i].type
      /\ h2[o].instance_of = new
  BY <1>4, <1>5, <1>7, InstanceOfGood, InstanceOfFacts, ZenonT(40)
<1> HIDE DEF h2
<1>9. h2 \in Seq(Values) /\ new \in DOMAIN h2 /\ h2[new].type = "Class"
  BY <1>5, <1>8 DEF Good, HeapOK
<1>10. /\ Good(h3) /\ DOMAIN h3 = DOMAIN h2
       /\ \A i \in DOMAIN h2 : h3[i].type = h2[i].type
       /\ h3[o].instance_of = new
  <2>1. Good(h3) /\ DOMAIN h3 = DOMAIN h2 /\ h3[new].instance_of = new
    BY <1>8, <1>9, InstanceOfGood, InstanceOfFacts
  <2>2. \A i \in DOMAIN h2 : /\ h3[i].type = h2[i].type
                             /\ i # new => h3[i].instance_of = h2[i].instance_of
    BY <1>9, InstanceOfFacts, SMTT(30)
  <2> QED BY <1>5, <1>8, <2>1, <2>2
<1>11. g = h3 \/ g = h2
  BY DEF WithSingleton, h3, h2, h1, v, new
<1> QED BY <1>5, <1>6, <1>8, <1>10, <1>11

(* An include class cut in above c: from is what it stands for. *)
LEMMA InsertGood ==
    ASSUME NEW h, Good(h), NEW c \in DOMAIN h, NEW from \in DOMAIN h,
           h[from].type \in {"Class", "Module"}
    PROVE  LET g == WithIncludeClass(h, c, from) IN
           /\ Good(g)
           /\ DOMAIN g = 1 .. Len(h) + 1
           /\ \A i \in DOMAIN h : g[i].type = h[i].type
<1> DEFINE g == WithIncludeClass(h, c, from)
           n == Len(h) + 1
           v == Value("IClass", FALSE, h[c].superclass, from)
<1>1. /\ h \in Seq(Values) /\ DOMAIN h = 1 .. Len(h) /\ Len(h) \in Nat
      /\ \A i \in DOMAIN h : h[i] \in Values
  <2>1. h \in Seq(Values)
    BY DEF Good, HeapOK
  <2> QED BY <2>1
<1>2. /\ h[c].superclass \in DOMAIN h \cup {NULL}
      /\ h[c].superclass # NULL => h[h[c].superclass].type \in {"Class", "IClass"}
  BY DEF Good, HeapOK
<1>3. v \in Values
  BY <1>1, <1>2 DEF Value, Values, Types, NULL
<1> DEFINE b == [h EXCEPT ![c].superclass = n]
<1>4. [h[c] EXCEPT !.superclass = n] \in Values
  <2>1. h[c] \in Values /\ n \in Nat
    BY <1>1
  <2> QED BY <2>1 DEF Values
<1>5. b \in Seq(Values) /\ Len(b) = Len(h) /\ DOMAIN b = DOMAIN h
  BY <1>1, <1>4
<1>6. ASSUME NEW i \in DOMAIN h
      PROVE  /\ b[i].type = h[i].type
             /\ b[i].singleton = h[i].singleton
             /\ b[i].instance_of = h[i].instance_of
             /\ i # c => b[i].superclass = h[i].superclass
             /\ i = c => b[i].superclass = n
  <2>1. h[i] \in Values
    BY <1>1
  <2>2. CASE i = c
    <3>1. b[i] = [h[i] EXCEPT !.superclass = n]
      BY <2>2
    <3> QED BY <2>1, <2>2, <3>1 DEF Values
  <2>3. CASE i # c
    BY <2>3
  <2> QED BY <2>2, <2>3
<1>7. g = Append(b, v)
  BY DEF WithIncludeClass
<1> HIDE DEF b, g
<1>8. /\ g \in Seq(Values) /\ Len(g) = n /\ DOMAIN g = 1 .. n
      /\ \A i \in DOMAIN h : g[i] = b[i]
      /\ g[n] = v
  <2>1. /\ Append(b, v) \in Seq(Values) /\ Len(Append(b, v)) = Len(b) + 1
        /\ DOMAIN Append(b, v) = 1 .. Len(b) + 1
        /\ \A i \in DOMAIN b : Append(b, v)[i] = b[i]
        /\ Append(b, v)[Len(b) + 1] = v
    BY <1>3, <1>5, AppendFacts
  <2> QED BY <1>5, <1>7, <2>1
<1>9. /\ v.superclass = h[c].superclass /\ v.type = "IClass"
      /\ v.instance_of = from /\ v.singleton = FALSE
  BY DEF Value
<1> HIDE DEF v
<1>10. \A i \in DOMAIN h : /\ g[i].type = h[i].type
                           /\ g[i].singleton = h[i].singleton
                           /\ g[i].instance_of = h[i].instance_of
                           /\ i # c => g[i].superclass = h[i].superclass
                           /\ i = c => g[i].superclass = n
  BY <1>6, <1>8
<1>11. DOMAIN g = DOMAIN h \cup {n} /\ n \notin DOMAIN h /\ n # NULL
  BY <1>1, <1>8 DEF NULL
<1>11a. /\ g[n].type = "IClass" /\ g[n].superclass = h[c].superclass
      /\ g[n].instance_of = from /\ g[n].singleton = FALSE
  BY <1>8, <1>9
<1> HIDE DEF n
<1>12. HeapOK(g)
  <2>1. ASSUME NEW i \in DOMAIN g
        PROVE  /\ g[i].superclass \in DOMAIN g \cup {NULL}
               /\ g[i].instance_of \in DOMAIN g
               /\ g[i].superclass # NULL => g[g[i].superclass].type \in {"Class", "IClass"}
               /\ g[i].singleton => g[i].type = "Class"
               /\ \/ g[g[i].instance_of].type = "Class"
                  \/ g[i].type = "IClass" /\ g[g[i].instance_of].type = "Module"
    <3>1. CASE i \in DOMAIN h
      <4>1. /\ h[i].superclass \in DOMAIN h \cup {NULL}
            /\ h[i].instance_of \in DOMAIN h
            /\ h[i].superclass # NULL => h[h[i].superclass].type \in {"Class", "IClass"}
            /\ h[i].singleton => h[i].type = "Class"
            /\ \/ h[h[i].instance_of].type = "Class"
               \/ h[i].type = "IClass" /\ h[h[i].instance_of].type = "Module"
        BY <3>1 DEF Good, HeapOK
      <4>2. CASE i = c
        BY <1>11a, <1>10, <1>11, <4>1, <4>2
      <4>3. CASE i # c
        BY <1>10, <1>11, <3>1, <4>1, <4>3
      <4> QED BY <4>2, <4>3
    <3>2. CASE i = n
      BY <1>11a, <1>2, <1>10, <1>11, <3>2
    <3> QED BY <1>11, <3>1, <3>2
  <2>2. Len(h) >= 6 /\ \A i \in 1 .. 6 : h[i].type = "Class"
    BY DEF Good, HeapOK
  <2>3. \A i \in 1 .. 6 : i \in DOMAIN h
    BY <1>1, <2>2
  <2>4. Len(g) >= 6 /\ \A i \in 1 .. 6 : g[i].type = "Class"
    BY <1>1, <1>8, <1>10, <2>2, <2>3, SMTT(30) DEF n
  <2> QED BY <1>8, <2>1, <2>4 DEF HeapOK
<1>13. ASSUME NEW S \in SUBSET (DOMAIN g), S # {}
       PROVE  \E m \in S : g[m].superclass \notin S
  <2> DEFINE T == S \ {n}
  <2>1. CASE T = {}
    <3>1. n \in S /\ g[n].superclass # n
      BY <1>2, <1>8, <1>9, <1>11, <1>13, <2>1
    <3> QED BY <2>1, <3>1
  <2>2. CASE T # {}
    <3>1. PICK m \in T : h[m].superclass \notin T
      <4>1. T \in SUBSET (DOMAIN h)
        BY <1>11
      <4> QED BY <2>2, <4>1 DEF Good, Acyclic
    <3>2. h[m].superclass \in DOMAIN h \cup {NULL} /\ m \in DOMAIN h
      BY <1>11 DEF Good, HeapOK
    <3>3. h[m].superclass # n
      BY <1>11, <3>2
    <3>4. CASE m # c
      BY <1>10, <3>1, <3>2, <3>3, <3>4
    <3>5. CASE m = c /\ n \notin S
      BY <1>10, <3>2, <3>5
    <3>6. CASE m = c /\ n \in S
      BY <1>8, <1>9, <3>1, <3>3, <3>6
    <3> QED BY <3>4, <3>5, <3>6
  <2> QED BY <2>1, <2>2
<1>14. Acyclic(g)
  BY <1>13 DEF Acyclic
<1>15. DOMAIN g = 1 .. Len(h) + 1
  BY <1>8 DEF n
<1> QED BY <1>10, <1>12, <1>14, <1>15 DEF Good, g

-----------------------------------------------------------------------------

IInv == TypeOK /\ NoCycle

(* What the classes setup_classes makes are. *)
LEMMA InitIInv == Init => IInv
<1> SUFFICES ASSUME Init PROVE IInv
  OBVIOUS
<1>1. /\ heap \in Seq(Values) /\ Len(heap) = 6 /\ DOMAIN heap = 1 .. 6
      /\ \A o \in 1 .. 6 : heap[o].type = "Class"
  BY DEF Init, Values, Value, Types, NULL, ObjectClass, ModuleClass, ClassClass,
         ObjectMeta, ModuleMeta, ClassMeta
<1>2. \A o \in 1 .. 6 : heap[o].superclass = o - 1 /\ heap[o].instance_of \in 1 .. 6
  BY DEF Init, Value, NULL, ObjectClass, ModuleClass, ClassClass,
         ObjectMeta, ModuleMeta, ClassMeta
<1>3. HeapOK(heap)
  BY <1>1, <1>2 DEF HeapOK, NULL
<1>4. IncludeOK(heap, inc)
  BY DEF Init, NoInclude, IncludeOK, NULL
<1>5. ASSUME NEW S \in SUBSET (DOMAIN heap), S # {}
      PROVE  \E m \in S : heap[m].superclass \notin S
  <2>1. \E m \in S : m - 1 \notin S
    <3>1. S \subseteq {1, 2, 3, 4, 5, 6}
      BY <1>1
    <3> QED BY <1>5, <3>1
  <2> QED BY <1>1, <1>2, <2>1
<1> QED BY <1>3, <1>4, <1>5 DEF IInv, TypeOK, NoCycle, Acyclic

(* What a value Ruby code holds has for a class is a class. *)
LEMMA ClassOfExposed ==
    ASSUME NEW h, Good(h), NEW o \in DOMAIN h, h[o].type # "IClass"
    PROVE  h[o].instance_of \in DOMAIN h /\ h[h[o].instance_of].type = "Class"
  BY DEF Good, HeapOK

(* Giving a value a singleton class, if it has none. *)
LEMMA SingletonOfExposed ==
    ASSUME NEW h, Good(h), NEW o \in DOMAIN h, h[o].type # "IClass",
           NEW g, g = WithSingleton(h, o, h[o].instance_of)
    PROVE  /\ Good(g)
           /\ DOMAIN h \subseteq DOMAIN g
           /\ \A i \in DOMAIN h : g[i].type = h[i].type
           /\ g[o].instance_of \in DOMAIN g
           /\ g[g[o].instance_of].type = "Class"
  BY ClassOfExposed, SingletonGood

(* The start of an include keeps what is asked of its locals. *)
LEMMA CallOK ==
    ASSUME NEW h, Good(h), NEW obj \in DOMAIN h, NEW module \in DOMAIN h,
           h[module].type # "Object"
    PROVE  IncludeOK(h, [obj |-> obj, module |-> module, c |-> obj])
<1>1. obj # NULL
  BY DEF Good, HeapOK, NULL
<1> QED BY <1>1 DEF IncludeOK

LEMMA NoIncludeOK == ASSUME NEW h PROVE IncludeOK(h, NoInclude)
  BY DEF IncludeOK, NoInclude, NULL

(* Each operation keeps the invariant. *)
LEMMA NextIInv == IInv /\ [Next]_vars => IInv'
<1> SUFFICES ASSUME IInv, [Next]_vars PROVE Good(heap') /\ IncludeOK(heap', inc')
  BY DEF IInv, TypeOK, NoCycle, Good, HeapOK, IncludeOK, Acyclic
<1>1. Good(heap) /\ IncludeOK(heap, inc)
  BY DEF IInv, TypeOK, NoCycle, Good
<1>2. heap \in Seq(Values) /\ DOMAIN heap = 1 .. Len(heap) /\ Len(heap) \in Nat
      /\ Len(heap) >= 6 /\ \A o \in 1 .. 6 : o \in DOMAIN heap /\ heap[o].type = "Class"
  <2>1. heap \in Seq(Values) /\ Len(heap) >= 6
        /\ \A o \in 1 .. 6 : heap[o].type = "Class"
    BY <1>1 DEF Good, HeapOK
  <2>2. DOMAIN heap = 1 .. Len(heap) /\ Len(heap) \in Nat
    BY <2>1
  <2>3. \A o \in 1 .. 6 : o \in DOMAIN heap
    BY <2>1, <2>2
  <2> QED BY <2>1, <2>2, <2>3
<1>3. ASSUME NoCall PROVE IncludeOK(heap', inc')
  BY <1>3, NoIncludeOK DEF NoCall
<1>4. ASSUME NEW super \in Classes, DefineClass(super) PROVE Good(heap')
  <2> DEFINE v == class_create_bare(super, FALSE)
             h == Append(heap, v)
             new == Len(heap) + 1
  <2>1. super \in DOMAIN heap /\ heap[super].type = "Class"
    BY DEF Classes, Exposed, Ids
  <2>2. v = Value("Class", FALSE, super, ClassClass)
    BY DEF class_create_bare
  <2>3. Fits(v, heap)
    BY <1>1, <2>1, <2>2, ClassFits
  <2>4. v \in Values
    BY <2>3 DEF Fits
  <2>5. /\ Good(h) /\ DOMAIN h = 1 .. new
        /\ \A o \in DOMAIN heap : h[o] = heap[o]
    BY <1>1, <1>2, <2>3, <2>4, AppendGood, AppendFacts
  <2>6. heap[super].instance_of \in DOMAIN heap
        /\ heap[heap[super].instance_of].type = "Class"
    BY <1>1, <2>1, ClassOfExposed
  <2>7. heap' = WithSingleton(h, new, heap[super].instance_of)
    BY <1>4 DEF DefineClass
  <2> HIDE DEF h
  <2>8. new \in DOMAIN h /\ heap[super].instance_of \in DOMAIN h
        /\ h[heap[super].instance_of].type = "Class"
    BY <1>2, <2>5, <2>6
  <2> QED BY <2>5, <2>7, <2>8, SingletonGood
<1>5. ASSUME DefineModule PROVE Good(heap')
  <2> DEFINE v == Value("Module", FALSE, NULL, ModuleClass)
  <2>1. Fits(v, heap)
    BY <1>2 DEF Fits, Value, Values, Types, NULL, ModuleClass
  <2> QED BY <1>1, <1>5, <2>1, AppendGood DEF DefineModule
<1>6. ASSUME NEW c \in Classes, New(c) PROVE Good(heap')
  <2>1. c \in DOMAIN heap /\ heap[c].type = "Class" /\ c \in Nat
    BY <1>2 DEF Classes, Exposed, Ids
  <2>2. Fits(Value("Object", FALSE, NULL, c), heap)
    BY <2>1 DEF Fits, Value, Values, Types, NULL
  <2>3. Fits(Value("Class", FALSE, ObjectClass, c), heap)
    <3>1. 1 \in DOMAIN heap /\ heap[1].type = "Class"
      BY <1>2
    <3> QED BY <2>1, <3>1 DEF Fits, Value, Values, Types, NULL, ObjectClass
  <2>4. \/ heap' = Append(heap, Value("Object", FALSE, NULL, c))
        \/ heap' = Append(heap, Value("Class", FALSE, ObjectClass, c))
    BY <1>6 DEF New
  <2> QED BY <1>1, <2>2, <2>3, <2>4, AppendGood
<1>7. ASSUME NEW o \in Exposed, SingletonClass(o) PROVE Good(heap')
  <2>1. o \in DOMAIN heap /\ heap[o].type # "IClass"
    BY DEF Exposed, Ids
  <2> QED BY <1>1, <1>7, <2>1, SingletonOfExposed DEF SingletonClass
<1>8. ASSUME NEW o \in Exposed, Dup(o) PROVE Good(heap')
  <2>1. o \in DOMAIN heap /\ heap[o] \in Values
    BY <1>2 DEF Exposed, Ids
  <2>2. Fits(heap[o], heap)
    BY <1>1, <2>1 DEF Fits, Good, HeapOK
  <2> QED BY <1>1, <1>8, <2>2, AppendGood DEF Dup
<1>9. ASSUME NEW obj \in Modules, NEW module \in Modules, Include(obj, module)
      PROVE  Good(heap') /\ IncludeOK(heap', inc')
  <2>1. /\ obj \in DOMAIN heap /\ module \in DOMAIN heap
        /\ heap[module].type # "Object"
    BY DEF Modules, Exposed, Ids
  <2> QED BY <1>1, <1>9, <2>1, CallOK DEF Include, Call
<1>10. ASSUME NEW o \in Exposed, NEW module \in Modules, Extend(o, module)
       PROVE  Good(heap') /\ IncludeOK(heap', inc')
  <2>1. /\ o \in DOMAIN heap /\ module \in DOMAIN heap
        /\ heap[module].type # "Object" /\ heap[o].type # "IClass"
    BY DEF Modules, Exposed, Ids
  <2>2. PICK h : /\ \/ h = heap
                    \/ h = WithSingleton(heap, o, heap[o].instance_of)
                 /\ Call(h, h[o].instance_of, module)
    BY <1>10 DEF Extend
  <2>3. /\ Good(h) /\ DOMAIN heap \subseteq DOMAIN h
        /\ \A i \in DOMAIN heap : h[i].type = heap[i].type
        /\ h[o].instance_of \in DOMAIN h
    <3>1. CASE h = heap
      BY <1>1, <2>1, <3>1, ClassOfExposed
    <3>2. CASE h = WithSingleton(heap, o, heap[o].instance_of)
      BY <1>1, <2>1, <3>2, SingletonOfExposed
    <3> QED BY <2>2, <3>1, <3>2
  <2>4. IncludeOK(h, [obj |-> h[o].instance_of, module |-> module, c |-> h[o].instance_of])
    BY <2>1, <2>3, CallOK
  <2> QED BY <2>2, <2>3, <2>4 DEF Call
<1>11. ASSUME IncludeNext PROVE Good(heap') /\ IncludeOK(heap', inc')
  <2>1. /\ inc.obj \in DOMAIN heap /\ inc.module \in DOMAIN heap /\ inc.c \in DOMAIN heap
        /\ heap[inc.module].type # "Object"
        /\ inc \in [obj : DOMAIN heap \cup {NULL}, module : DOMAIN heap \cup {NULL},
                    c : DOMAIN heap \cup {NULL}]
    BY <1>1, <1>11 DEF IncludeNext, Idle, IncludeOK
  <2>2. CASE SkipModule
    <3>1. PICK i \in DOMAIN heap :
              inc' = [inc EXCEPT !.module = heap[inc.module].superclass,
                                 !.c = IF found_superclass(i) THEN inc.c ELSE i]
      BY <2>2 DEF SkipModule, Ids
    <3>2. /\ inc'.obj = inc.obj /\ inc'.module = heap[inc.module].superclass
          /\ inc'.c \in DOMAIN heap
          /\ inc' \in [obj : DOMAIN heap \cup {NULL}, module : DOMAIN heap \cup {NULL},
                       c : DOMAIN heap \cup {NULL}]
      BY <1>1, <2>1, <3>1 DEF Good, HeapOK
    <3>3. inc'.module # NULL => heap[inc'.module].type # "Object"
      BY <1>1, <2>1, <3>2 DEF Good, HeapOK
    <3>4. inc'.obj # NULL /\ inc'.c # NULL
      BY <1>2, <2>1, <3>2 DEF NULL
    <3>5. heap' = heap
      BY <2>2 DEF SkipModule
    <3> QED BY <1>1, <3>2, <3>3, <3>4, <3>5 DEF IncludeOK
  <2>3. CASE InsertModule
    <3> DEFINE from == Included(heap, inc.module)
               g == WithIncludeClass(heap, inc.c, from)
    <3>1. from \in DOMAIN heap /\ heap[from].type \in {"Class", "Module"}
      <4>1. heap[inc.module].type \in Types
        <5>1. heap[inc.module] \in Values
          BY <1>2, <2>1
        <5> QED BY <5>1 DEF Values
      <4> QED BY <1>1, <2>1, <4>1 DEF Included, Good, HeapOK, Types
    <3>2. /\ Good(g) /\ DOMAIN g = 1 .. Len(heap) + 1
          /\ \A i \in DOMAIN heap : g[i].type = heap[i].type
      BY <1>1, <2>1, <3>1, InsertGood
    <3>3. heap' = g
      BY <2>3 DEF InsertModule
    <3>4. inc' = [inc EXCEPT !.module = heap'[inc.module].superclass, !.c = Len(heap')]
      BY <2>3 DEF InsertModule
    <3> HIDE DEF g
    <3>5. DOMAIN heap \subseteq DOMAIN g /\ Len(g) \in DOMAIN g
      BY <1>2, <3>2 DEF Good, HeapOK
    <3>6. /\ g[inc.module].superclass \in DOMAIN g \cup {NULL}
          /\ g[inc.module].superclass # NULL =>
                g[g[inc.module].superclass].type \in {"Class", "IClass"}
      BY <2>1, <3>2, <3>5 DEF Good, HeapOK
    <3>7. /\ inc'.obj = inc.obj /\ inc'.module = g[inc.module].superclass
          /\ inc'.c = Len(g)
          /\ inc' \in [obj : DOMAIN g \cup {NULL}, module : DOMAIN g \cup {NULL},
                       c : DOMAIN g \cup {NULL}]
      BY <2>1, <3>3, <3>4, <3>5, <3>6
    <3>8. inc'.obj # NULL /\ inc'.c # NULL
      <4>1. NULL \notin DOMAIN g
        BY <3>2 DEF NULL
      <4> QED BY <2>1, <3>5, <3>7, <4>1
    <3> QED BY <3>2, <3>3, <3>6, <3>7, <3>8 DEF IncludeOK
  <2> QED BY <1>11, <2>2, <2>3 DEF IncludeNext
<1>12. CASE UNCHANGED vars
  BY <1>1, <1>12 DEF vars
<1>13. CASE Next
  BY <1>3, <1>4, <1>5, <1>6, <1>7, <1>8, <1>9, <1>10, <1>11, <1>13
     DEF Next, DefineClass, DefineModule, New, SingletonClass, Dup
<1> QED BY <1>12, <1>13

-----------------------------------------------------------------------------
(* Chains of superclasses.                                                 *)

(* What holds of every value whose superclass it holds of, holds of all:   *)
(* chains end.                                                             *)
LEMMA UpInduction ==
    ASSUME NEW h, Good(h), NEW S,
           \A m \in DOMAIN h : h[m].superclass \in S \cup {NULL} => m \in S
    PROVE  DOMAIN h \subseteq S
<1> DEFINE T == DOMAIN h \ S
<1>1. CASE T = {}
  BY <1>1
<1>2. CASE T # {}
  <2>1. PICK m \in T : h[m].superclass \notin T
    BY <1>2 DEF Good, Acyclic
  <2>2. h[m].superclass \in DOMAIN h \cup {NULL}
    BY <2>1 DEF Good, HeapOK
  <2> QED BY <2>1, <2>2
<1> QED BY <1>1, <1>2

(* f is a solution of Chain's recursion for the values D. *)
Rest(f, h, m) == IF h[m].superclass = NULL THEN <<>> ELSE f[h[m].superclass]
Solves(f, h, D) ==
    \A m \in D : h[m].superclass \in D \cup {NULL} /\ f[m] = <<m>> \o Rest(f, h, m)

(* Two solutions agree where both are defined. *)
LEMMA SolutionsAgree ==
    ASSUME NEW h, Good(h), NEW D \in SUBSET DOMAIN h, NEW E \in SUBSET DOMAIN h,
           NEW f, NEW g, Solves(f, h, D), Solves(g, h, E)
    PROVE  \A m \in D \cap E : f[m] = g[m]
<1> DEFINE S == {m \in DOMAIN h : m \in D \cap E => f[m] = g[m]}
<1>1. ASSUME NEW m \in DOMAIN h, h[m].superclass \in S \cup {NULL}, m \in D \cap E
      PROVE  f[m] = g[m]
  <2>1. Rest(f, h, m) = Rest(g, h, m)
    BY <1>1 DEF Solves, Rest
  <2>2. f[m] = <<m>> \o Rest(f, h, m) /\ g[m] = <<m>> \o Rest(g, h, m)
    BY <1>1 DEF Solves
  <2> QED BY <2>1, <2>2
<1>2. DOMAIN h \subseteq S
  <2>1. \A m \in DOMAIN h : h[m].superclass \in S \cup {NULL} => m \in S
    BY <1>1
  <2> HIDE DEF S
  <2> QED BY <2>1, UpInduction
<1> QED BY <1>2

(* Every value is in the domain of a solution. *)
LEMMA Solvable ==
    ASSUME NEW h, Good(h), NEW m \in DOMAIN h
    PROVE  \E D \in SUBSET DOMAIN h : \E f : m \in D /\ Solves(f, h, D)
<1> DEFINE Known(i) == \E D \in SUBSET DOMAIN h : \E f : i \in D /\ Solves(f, h, D)
           S == {i \in DOMAIN h : Known(i)}
<1>1. ASSUME NEW i \in DOMAIN h, h[i].superclass \in S \cup {NULL}
      PROVE  Known(i)
  <2>1. CASE h[i].superclass = NULL
    <3> DEFINE f == [j \in {i} |-> <<j>> \o <<>>]
    <3>1. Solves(f, h, {i})
      BY <2>1 DEF Solves, Rest
    <3>2. {i} \in SUBSET DOMAIN h /\ i \in {i}
      OBVIOUS
    <3> HIDE DEF f
    <3> QED BY <3>1, <3>2
  <2>2. CASE h[i].superclass # NULL
    <3>0. PICK D \in SUBSET DOMAIN h : \E f : h[i].superclass \in D /\ Solves(f, h, D)
      BY <1>1, <2>2
    <3>1. PICK f : h[i].superclass \in D /\ Solves(f, h, D)
      BY <3>0
    <3>2. CASE i \in D
      BY <3>1, <3>2
    <3>3. CASE i \notin D
      <4> DEFINE E == D \cup {i}
                 v == <<i>> \o Rest(f, h, i)
                 g == [j \in E |-> IF j = i THEN v ELSE f[j]]
      <4>1. \A j \in D : g[j] = f[j]
        BY <3>3
      <4>2. g[i] = v
        OBVIOUS
      <4> HIDE DEF g
      <4>3. \A j \in D \cup {i} : Rest(g, h, j) = Rest(f, h, j)
        BY <3>1, <4>1 DEF Rest, Solves
      <4>4. Solves(g, h, E)
        BY <3>1, <4>1, <4>2, <4>3 DEF Solves
      <4>5. E \in SUBSET DOMAIN h /\ i \in E
        OBVIOUS
      <4> HIDE DEF E
      <4> QED BY <4>4, <4>5
    <3> QED BY <3>2, <3>3
  <2> QED BY <2>1, <2>2
<1>2. DOMAIN h \subseteq S
  <2>1. \A i \in DOMAIN h : h[i].superclass \in S \cup {NULL} => i \in S
    BY <1>1
  <2> HIDE DEF S
  <2> QED BY <2>1, UpInduction
<1> QED BY <1>2

(* The chain of superclasses is what it is of the superclass, below m. *)
LEMMA ChainStep ==
    ASSUME NEW h, Good(h)
    PROVE  /\ Chain(h, NULL) = <<>>
           /\ \A m \in DOMAIN h : Chain(h, m) = <<m>> \o Chain(h, h[m].superclass)
<1> DEFINE Val(m) == CHOOSE v : \E D \in SUBSET DOMAIN h : \E f :
                         m \in D /\ Solves(f, h, D) /\ v = f[m]
           E(f, i) == IF i = NULL THEN <<>> ELSE <<i>> \o f[h[i].superclass]
           F == [i \in 0 .. Len(h) |-> IF i = NULL THEN <<>> ELSE Val(i)]
           up == CHOOSE f : f = [i \in 0 .. Len(h) |-> E(f, i)]
<1>1. DOMAIN h = 1 .. Len(h) /\ Len(h) \in Nat
  BY DEF Good, HeapOK
<1>2. ASSUME NEW D \in SUBSET DOMAIN h, NEW f, NEW m \in D, Solves(f, h, D)
      PROVE  Val(m) = f[m]
  <2>1. PICK E2 \in SUBSET DOMAIN h :
            \E g : m \in E2 /\ Solves(g, h, E2) /\ Val(m) = g[m]
    BY <1>2
  <2>2. PICK g : m \in E2 /\ Solves(g, h, E2) /\ Val(m) = g[m]
    BY <2>1
  <2> HIDE DEF Val
  <2> QED BY <1>2, <2>2, SolutionsAgree
<1> HIDE DEF Val
<1>3. F[NULL] = <<>> /\ \A m \in DOMAIN h : F[m] = Val(m)
  BY <1>1 DEF NULL
<1> HIDE DEF F
<1>4. ASSUME NEW m \in DOMAIN h
      PROVE  F[m] = <<m>> \o F[h[m].superclass]
  <2>0. PICK D \in SUBSET DOMAIN h : \E f : m \in D /\ Solves(f, h, D)
    BY Solvable
  <2>1. PICK f : m \in D /\ Solves(f, h, D)
    BY <2>0
  <2>2. Val(m) = f[m] /\ f[m] = <<m>> \o Rest(f, h, m)
    BY <1>2, <2>1 DEF Solves
  <2>3. h[m].superclass \in D \cup {NULL}
    BY <2>1 DEF Solves
  <2>4. F[h[m].superclass] = Rest(f, h, m)
    BY <1>2, <1>3, <2>1, <2>3 DEF Rest
  <2> QED BY <1>3, <2>2, <2>4
<1>5. F = [i \in 0 .. Len(h) |-> E(F, i)]
  <2>1. F = [i \in 0 .. Len(h) |-> F[i]]
    BY DEF F
  <2>2. ASSUME NEW i \in 0 .. Len(h)
        PROVE  F[i] = E(F, i)
    <3>1. CASE i = NULL
      BY <1>3, <3>1
    <3>2. CASE i # NULL
      <4>1. i \in DOMAIN h
        BY <1>1, <3>2 DEF NULL
      <4> QED BY <1>4, <3>2, <4>1
    <3> QED BY <3>1, <3>2
  <2> HIDE DEF E
  <2> QED BY <2>1, <2>2
<1>6. up = [i \in 0 .. Len(h) |-> E(up, i)]
  <2> HIDE DEF E
  <2> QED BY <1>5
<1>7. \A m : Chain(h, m) = up[m]
  BY DEF Chain
<1>8. \A i \in 0 .. Len(h) : up[i] = E(up, i)
  <2> HIDE DEF E, up
  <2> QED BY <1>6
<1> HIDE DEF up
<1>9. NULL \in 0 .. Len(h) /\ \A m \in DOMAIN h : m \in 0 .. Len(h) /\ m # NULL
  BY <1>1 DEF NULL
<1>10. Chain(h, NULL) = <<>>
  BY <1>7, <1>8, <1>9
<1>11. ASSUME NEW m \in DOMAIN h
       PROVE  Chain(h, m) = <<m>> \o Chain(h, h[m].superclass)
  <2>1. up[m] = E(up, m)
    BY <1>8, <1>9
  <2>2. up[m] = <<m>> \o up[h[m].superclass]
    BY <1>9, <2>1
  <2> QED BY <1>7, <2>2
<1> QED BY <1>10, <1>11

-----------------------------------------------------------------------------
(* A chain goes through the heap. *)
LEMMA ChainType ==
    ASSUME NEW h, Good(h), NEW m \in DOMAIN h \cup {NULL}
    PROVE  Chain(h, m) \in Seq(DOMAIN h)
<1> DEFINE S == {i \in DOMAIN h : Chain(h, i) \in Seq(DOMAIN h)}
<1>3. Chain(h, NULL) \in Seq(DOMAIN h)
  <2>1. \A D : <<>> \in Seq(D)
    OBVIOUS
  <2>2. Chain(h, NULL) = <<>>
    BY ChainStep
  <2> QED BY <2>1, <2>2
<1>1. ASSUME NEW i \in DOMAIN h, h[i].superclass \in S \cup {NULL}
      PROVE  Chain(h, i) \in Seq(DOMAIN h)
  <2>1. Chain(h, h[i].superclass) \in Seq(DOMAIN h)
    BY <1>1, <1>3
  <2>2. Chain(h, i) = <<i>> \o Chain(h, h[i].superclass)
    BY ChainStep
  <2> QED BY <2>1, <2>2
<1>2. DOMAIN h \subseteq S
  <2>1. \A i \in DOMAIN h : h[i].superclass \in S \cup {NULL} => i \in S
    BY <1>1
  <2> HIDE DEF S
  <2> QED BY <2>1, UpInduction
<1> QED BY <1>2, <1>3

(* A superclass is a value of the heap, or null. *)
LEMMA Superclass ==
    ASSUME NEW h, Good(h), NEW m \in DOMAIN h
    PROVE  h[m].superclass \in DOMAIN h \cup {NULL}
  BY DEF Good, HeapOK

(* The places of a sequence with one element put before it. *)
LEMMA Joined ==
    ASSUME NEW D, NEW m, NEW r \in Seq(D), NEW s, s = <<m>> \o r
    PROVE  /\ Len(s) = Len(r) + 1 /\ DOMAIN s = 1 .. Len(r) + 1
           /\ s[1] = m /\ \A j \in DOMAIN r : s[j + 1] = r[j]
           /\ \A j \in DOMAIN s : j # 1 => j - 1 \in DOMAIN r /\ s[j] = r[j - 1]
           /\ DOMAIN r = 1 .. Len(r) /\ Len(r) \in Nat
           /\ Tail(s) = r
<1>1. /\ Len(s) = Len(r) + 1 /\ DOMAIN s = 1 .. Len(r) + 1
      /\ s[1] = m /\ \A j \in DOMAIN r : s[j + 1] = r[j]
      /\ DOMAIN r = 1 .. Len(r) /\ Len(r) \in Nat
  OBVIOUS
<1>2. ASSUME NEW j \in DOMAIN s, j # 1
      PROVE  j - 1 \in DOMAIN r /\ s[j] = r[j - 1]
  BY <1>1, <1>2
<1>3. Tail(s) = r
  <2>1. s \in Seq(D \cup {m})
    OBVIOUS
  <2>2. /\ Tail(s) \in Seq(D \cup {m}) /\ Len(Tail(s)) = Len(r)
        /\ \A j \in 1 .. Len(r) : Tail(s)[j] = s[j + 1]
    BY <1>1, <2>1
  <2> QED BY <1>1, <2>2
<1> QED BY <1>1, <1>2, <1>3

(* What is above m: m, and what is above its superclass. *)
LEMMA AboveStep ==
    ASSUME NEW h, Good(h)
    PROVE  /\ Above(h, NULL) = {}
           /\ \A m \in DOMAIN h : Above(h, m) = {m} \cup Above(h, h[m].superclass)
           /\ \A m \in DOMAIN h \cup {NULL} : Above(h, m) \subseteq DOMAIN h
<1>1. Above(h, NULL) = {}
  BY ChainStep DEF Above, Elements
<1>2. ASSUME NEW m \in DOMAIN h
      PROVE  Above(h, m) = {m} \cup Above(h, h[m].superclass)
  <2> DEFINE r == Chain(h, h[m].superclass)
             s == Chain(h, m)
  <2>1. r \in Seq(DOMAIN h) /\ s = <<m>> \o r
    BY Superclass, ChainType, ChainStep
  <2> HIDE DEF r, s
  <2>2. /\ DOMAIN s = 1 .. Len(r) + 1 /\ s[1] = m /\ \A j \in DOMAIN r : s[j + 1] = r[j]
        /\ \A j \in DOMAIN s : j # 1 => j - 1 \in DOMAIN r /\ s[j] = r[j - 1]
        /\ DOMAIN r = 1 .. Len(r) /\ Len(r) \in Nat
    BY <2>1, Joined
  <2>3. 1 \in DOMAIN s /\ \A j \in DOMAIN r : j + 1 \in DOMAIN s
    BY <2>2
  <2>4. {s[k] : k \in DOMAIN s} = {m} \cup {r[k] : k \in DOMAIN r}
    <3>1. ASSUME NEW k \in DOMAIN s PROVE s[k] \in {m} \cup {r[j] : j \in DOMAIN r}
      BY <2>2
    <3>2. ASSUME NEW k \in DOMAIN r PROVE r[k] \in {s[j] : j \in DOMAIN s}
      BY <2>2, <2>3
    <3>3. m \in {s[j] : j \in DOMAIN s}
      BY <2>2, <2>3
    <3> QED BY <3>1, <3>2, <3>3
  <2> QED BY <2>4 DEF Above, Elements, r, s
<1>3. ASSUME NEW m \in DOMAIN h \cup {NULL} PROVE Above(h, m) \subseteq DOMAIN h
  <2>1. Chain(h, m) \in Seq(DOMAIN h)
    BY ChainType
  <2> QED BY <2>1 DEF Above, Elements
<1> QED BY <1>1, <1>2, <1>3

(* The elements of a chain from the j-th on are the chain of that. *)
LEMMA Suffix ==
    ASSUME NEW h, Good(h)
    PROVE  \A m \in DOMAIN h : \A j \in DOMAIN Chain(h, m) :
               /\ Len(Chain(h, Chain(h, m)[j])) = Len(Chain(h, m)) - j + 1
               /\ \A i \in DOMAIN Chain(h, Chain(h, m)[j]) :
                      Chain(h, Chain(h, m)[j])[i] = Chain(h, m)[j + i - 1]
<1> DEFINE P(m) == \A j \in DOMAIN Chain(h, m) :
                       /\ Len(Chain(h, Chain(h, m)[j])) = Len(Chain(h, m)) - j + 1
                       /\ \A i \in DOMAIN Chain(h, Chain(h, m)[j]) :
                              Chain(h, Chain(h, m)[j])[i] = Chain(h, m)[j + i - 1]
           S == {m \in DOMAIN h : P(m)}
<1>1. ASSUME NEW m \in DOMAIN h, h[m].superclass \in S \cup {NULL}
      PROVE  P(m)
  <2> DEFINE u == h[m].superclass
             r == Chain(h, u)
             s == Chain(h, m)
  <2>1. r \in Seq(DOMAIN h) /\ s = <<m>> \o r
    BY Superclass, ChainType, ChainStep
  <2>2. u = NULL => r = <<>>
    BY ChainStep
  <2>3. u # NULL => P(u)
    BY <1>1
  <2> HIDE DEF r, s
  <2>4. /\ Len(s) = Len(r) + 1 /\ DOMAIN s = 1 .. Len(r) + 1
        /\ s[1] = m /\ \A j \in DOMAIN r : s[j + 1] = r[j]
        /\ \A j \in DOMAIN s : j # 1 => j - 1 \in DOMAIN r /\ s[j] = r[j - 1]
        /\ DOMAIN r = 1 .. Len(r) /\ Len(r) \in Nat
    BY <2>1, Joined
  <2>5. ASSUME NEW j \in DOMAIN s
        PROVE  /\ Len(Chain(h, s[j])) = Len(s) - j + 1
               /\ \A i \in DOMAIN Chain(h, s[j]) : Chain(h, s[j])[i] = s[j + i - 1]
    <3>1. CASE j = 1
      <4>1. Chain(h, s[j]) = s
        BY <2>4, <3>1 DEF s
      <4> QED BY <2>4, <3>1, <4>1
    <3>2. CASE j # 1
      <4>1. j - 1 \in DOMAIN r /\ s[j] = r[j - 1] /\ u # NULL
        BY <2>2, <2>4, <3>2
      <4>2. P(u)
        BY <2>3, <4>1
      <4>3. /\ Len(Chain(h, r[j - 1])) = Len(r) - (j - 1) + 1
            /\ \A i \in DOMAIN Chain(h, r[j - 1]) : Chain(h, r[j - 1])[i] = r[(j - 1) + i - 1]
        BY <4>1, <4>2 DEF r
      <4>4. r[j - 1] \in DOMAIN h
        BY <2>1, <4>1
      <4>5. Chain(h, r[j - 1]) \in Seq(DOMAIN h)
        BY <4>4, ChainType
      <4>6. \A i \in DOMAIN Chain(h, r[j - 1]) : r[(j - 1) + i - 1] = s[j + i - 1]
        <5> TAKE i \in DOMAIN Chain(h, r[j - 1])
        <5>1. i \in 1 .. Len(r) - (j - 1) + 1 /\ j \in 2 .. Len(r) + 1
          BY <2>4, <3>2, <4>3, <4>5
        <5>2. PICK n \in Nat : n = Len(r)
          BY <2>4
        <5>3. PICK k \in 1 .. n : k = (j - 1) + i - 1 /\ k + 1 = j + i - 1
          <6>1. i \in 1 .. n - (j - 1) + 1 /\ j \in 2 .. n + 1
            BY <5>1, <5>2
          <6> QED BY <6>1
        <5>4. s[k + 1] = r[k]
          BY <2>4, <5>2, <5>3
        <5> QED BY <5>3, <5>4
      <4>7. Len(r) - (j - 1) + 1 = Len(s) - j + 1
        BY <2>4
      <4> QED BY <4>1, <4>3, <4>6, <4>7
    <3> QED BY <3>1, <3>2
  <2> QED BY <2>5 DEF s
<1>2. DOMAIN h \subseteq S
  <2>1. \A m \in DOMAIN h : h[m].superclass \in S \cup {NULL} => m \in S
    BY <1>1
  <2> HIDE DEF S
  <2> QED BY <2>1, UpInduction
<1> QED BY <1>2

(* One value is above another where it comes after it in a chain. *)
LEMMA Places ==
    ASSUME NEW h, Good(h), NEW m \in DOMAIN h
    PROVE  /\ \A j, k \in DOMAIN Chain(h, m) : j =< k =>
                  Chain(h, m)[k] \in Above(h, Chain(h, m)[j])
           /\ \A x \in Above(h, m) : \A y \in Above(h, x) :
                  \E a, b \in DOMAIN Chain(h, m) :
                      a =< b /\ Chain(h, m)[a] = x /\ Chain(h, m)[b] = y
<1> DEFINE s == Chain(h, m)
<1>1. s \in Seq(DOMAIN h) /\ DOMAIN s = 1 .. Len(s) /\ Len(s) \in Nat
  <2>1. s \in Seq(DOMAIN h)
    BY ChainType
  <2> HIDE DEF s
  <2> QED BY <2>1
<1>2. ASSUME NEW j \in DOMAIN s
      PROVE  /\ DOMAIN Chain(h, s[j]) = 1 .. Len(s) - j + 1
             /\ \A i \in DOMAIN Chain(h, s[j]) : Chain(h, s[j])[i] = s[j + i - 1]
  <2>1. /\ Len(Chain(h, s[j])) = Len(s) - j + 1
        /\ \A i \in DOMAIN Chain(h, s[j]) : Chain(h, s[j])[i] = s[j + i - 1]
    BY Suffix
  <2>2. s[j] \in DOMAIN h
    BY <1>1
  <2>3. Chain(h, s[j]) \in Seq(DOMAIN h)
    BY <2>2, ChainType
  <2> QED BY <2>1, <2>3
<1>3. Above(h, m) = {s[k] : k \in DOMAIN s}
  BY DEF Above, Elements
<1> HIDE DEF s
<1>4. ASSUME NEW j \in DOMAIN s, NEW k \in DOMAIN s, j =< k
      PROVE  s[k] \in Above(h, s[j])
  <2>1. k - j + 1 \in 1 .. Len(s) - j + 1 /\ j + (k - j + 1) - 1 = k
    BY <1>1, <1>4
  <2>2. k - j + 1 \in DOMAIN Chain(h, s[j])
    BY <1>2, <2>1
  <2>3. Chain(h, s[j])[k - j + 1] = s[k]
    <3>1. Chain(h, s[j])[k - j + 1] = s[j + (k - j + 1) - 1]
      BY <1>2, <2>2
    <3> QED BY <2>1, <3>1
  <2> QED BY <2>2, <2>3 DEF Above, Elements
<1>5. ASSUME NEW x \in Above(h, m), NEW y \in Above(h, x)
      PROVE  \E a, b \in DOMAIN s : a =< b /\ s[a] = x /\ s[b] = y
  <2>1. PICK a \in DOMAIN s : s[a] = x
    BY <1>3
  <2>2. PICK i \in DOMAIN Chain(h, s[a]) : Chain(h, s[a])[i] = y
    BY <2>1 DEF Above, Elements
  <2>3. i \in 1 .. Len(s) - a + 1 /\ s[a + i - 1] = y
    BY <1>2, <2>2
  <2>4. a + i - 1 \in DOMAIN s /\ a =< a + i - 1
    BY <1>1, <2>3
  <2> QED BY <2>1, <2>3, <2>4
<1> QED BY <1>4, <1>5 DEF s

(* A chain is in its own order. *)
LEMMA InOrderSame == ASSUME NEW s PROVE InOrder(s, s)
  BY DEF InOrder

(* Where values stay above one another, chains only gain values. *)
LEMMA GrowsInOrder ==
    ASSUME NEW h, Good(h), NEW g, Good(g), DOMAIN h \subseteq DOMAIN g,
           \A i \in DOMAIN h : Above(h, i) \subseteq Above(g, i),
           NEW m \in DOMAIN h, NEW s, InOrder(s, Chain(h, m))
    PROVE  InOrder(s, Chain(g, m))
<1>1. ASSUME NEW j \in DOMAIN s, NEW k \in DOMAIN s, j =< k
      PROVE  \E a, b \in DOMAIN Chain(g, m) :
                 a =< b /\ Chain(g, m)[a] = s[j] /\ Chain(g, m)[b] = s[k]
  <2>1. PICK a \in DOMAIN Chain(h, m), b \in DOMAIN Chain(h, m) :
            a =< b /\ Chain(h, m)[a] = s[j] /\ Chain(h, m)[b] = s[k]
    BY <1>1 DEF InOrder
  <2>2. s[k] \in Above(h, s[j])
    BY <2>1, Places
  <2>3. s[j] \in Above(h, m)
    BY <2>1 DEF Above, Elements
  <2>4. s[j] \in DOMAIN h
    BY <2>3, AboveStep
  <2>5. s[j] \in Above(g, m) /\ s[k] \in Above(g, s[j]) /\ m \in DOMAIN g
    BY <2>2, <2>3, <2>4
  <2> QED BY <2>5, Places
<1> QED BY <1>1 DEF InOrder

-----------------------------------------------------------------------------
(* The first element of a sequence or a chain that is in S.                *)

(* A set of numbers has a least one. *)
LEMMA LeastPlace ==
    ASSUME NEW S \in SUBSET Nat, S # {}
    PROVE  \E k \in S : \A j \in S : k =< j
<1>1. PICK k \in S : \A j \in S : ~(<<j, k>> \in OpToRel(<, Nat))
  BY NatLessThanWellFounded, WFMin
<1>2. \A j \in S : ~(j < k)
  BY <1>1 DEF OpToRel
<1>3. \A j \in S : k =< j
  BY <1>2
<1> QED BY <1>3

(* What is at the least place that has an element of S is the first. *)
LEMMA FirstAt ==
    ASSUME NEW s, DOMAIN s \subseteq Nat, NEW S, NEW k \in DOMAIN s, s[k] \in S,
           \A j \in DOMAIN s : s[j] \in S => k =< j
    PROVE  FirstIn(s, S) = s[k]
<1> DEFINE at == {j \in DOMAIN s : s[j] \in S}
           first == CHOOSE i \in at : \A j \in at : i =< j
<1>1. k \in at /\ \A j \in at : k =< j
  OBVIOUS
<1>2. at \subseteq Nat
  OBVIOUS
<1>5. FirstIn(s, S) = s[first]
  BY <1>1 DEF FirstIn
<1> HIDE DEF at
<1>3. first \in at /\ \A j \in at : first =< j
  BY <1>1
<1> HIDE DEF first
<1>4. first = k
  BY <1>1, <1>2, <1>3
<1> QED BY <1>4, <1>5

(* The first element in S is at the least place, or there is none. *)
LEMMA FirstElement ==
    ASSUME NEW s, DOMAIN s \subseteq Nat, NEW S
    PROVE  /\ (\A k \in DOMAIN s : s[k] \notin S) => FirstIn(s, S) = NULL
           /\ (\E k \in DOMAIN s : s[k] \in S) =>
                  \E k \in DOMAIN s : /\ FirstIn(s, S) = s[k] /\ s[k] \in S
                                      /\ \A j \in DOMAIN s : s[j] \in S => k =< j
<1> DEFINE at == {j \in DOMAIN s : s[j] \in S}
<1>1. ASSUME \A k \in DOMAIN s : s[k] \notin S
      PROVE  FirstIn(s, S) = NULL
  <2>1. at = {}
    BY <1>1
  <2> QED BY <2>1 DEF FirstIn
<1>2. ASSUME at # {}
      PROVE  \E k \in DOMAIN s : /\ FirstIn(s, S) = s[k] /\ s[k] \in S
                                 /\ \A j \in DOMAIN s : s[j] \in S => k =< j
  <2>1. at \in SUBSET Nat
    OBVIOUS
  <2>2. PICK k \in at : \A j \in at : k =< j
    BY <1>2, <2>1, LeastPlace
  <2>3. k \in DOMAIN s /\ s[k] \in S /\ \A j \in DOMAIN s : s[j] \in S => k =< j
    BY <2>2
  <2>4. FirstIn(s, S) = s[k]
    BY <2>3, FirstAt
  <2> QED BY <2>3, <2>4
<1> QED BY <1>1, <1>2

(* The first of a sequence with one element put before it. *)
LEMMA FirstJoined ==
    ASSUME NEW s, NEW r, NEW n \in Nat, DOMAIN r = 1 .. n, DOMAIN s = 1 .. n + 1,
           \A j \in DOMAIN r : s[j + 1] = r[j], NEW S
    PROVE  /\ s[1] \in S => FirstIn(s, S) = s[1]
           /\ s[1] \notin S => FirstIn(s, S) = FirstIn(r, S)
<1>1. DOMAIN s \subseteq Nat /\ DOMAIN r \subseteq Nat /\ 1 \in DOMAIN s
  OBVIOUS
<1>2. ASSUME NEW j \in DOMAIN s, j # 1
      PROVE  j - 1 \in DOMAIN r /\ s[j] = r[j - 1]
  <2>1. PICK i \in 1 .. n : j = i + 1
    BY <1>2
  <2> QED BY <2>1
<1>3. CASE s[1] \in S
  <2>1. \A j \in DOMAIN s : 1 =< j
    OBVIOUS
  <2> QED BY <1>1, <1>3, <2>1, FirstAt
<1>4. CASE s[1] \notin S /\ \A k \in DOMAIN r : r[k] \notin S
  <2>1. \A k \in DOMAIN s : s[k] \notin S
    BY <1>2, <1>4
  <2> QED BY <1>1, <1>4, <2>1, FirstElement
<1>5. CASE s[1] \notin S /\ \E k \in DOMAIN r : r[k] \in S
  <2>1. PICK k \in DOMAIN r : /\ FirstIn(r, S) = r[k] /\ r[k] \in S
                              /\ \A j \in DOMAIN r : r[j] \in S => k =< j
    BY <1>1, <1>5, FirstElement
  <2>2. k + 1 \in DOMAIN s /\ s[k + 1] = r[k]
    OBVIOUS
  <2>3. ASSUME NEW j \in DOMAIN s, s[j] \in S PROVE k + 1 =< j
    <3>1. j # 1
      BY <1>5, <2>3
    <3>2. j - 1 \in DOMAIN r /\ r[j - 1] \in S
      BY <1>2, <2>3, <3>1
    <3>3. k =< j - 1
      BY <2>1, <3>2
    <3> QED BY <3>3
  <2>4. FirstIn(s, S) = s[k + 1]
    BY <1>1, <2>1, <2>2, <2>3, FirstAt
  <2> QED BY <1>5, <2>1, <2>2, <2>4
<1> QED BY <1>3, <1>4, <1>5

(* The first of the chain from m: m, or that of its superclass's chain. *)
LEMMA FirstStep ==
    ASSUME NEW h, Good(h), NEW S
    PROVE  /\ FirstIn(Chain(h, NULL), S) = NULL
           /\ \A m \in DOMAIN h :
                /\ FirstIn(Chain(h, m), S) =
                       IF m \in S THEN m ELSE FirstIn(Chain(h, h[m].superclass), S)
                /\ Tail(Chain(h, m)) = Chain(h, h[m].superclass)
<1>1. FirstIn(Chain(h, NULL), S) = NULL
  BY ChainStep DEF FirstIn
<1>2. ASSUME NEW m \in DOMAIN h
      PROVE  /\ FirstIn(Chain(h, m), S) =
                    IF m \in S THEN m ELSE FirstIn(Chain(h, h[m].superclass), S)
             /\ Tail(Chain(h, m)) = Chain(h, h[m].superclass)
  <2> DEFINE r == Chain(h, h[m].superclass)
             s == Chain(h, m)
  <2>1. r \in Seq(DOMAIN h) /\ s = <<m>> \o r
    BY Superclass, ChainType, ChainStep
  <2> HIDE DEF r, s
  <2>2. /\ DOMAIN s = 1 .. Len(r) + 1
        /\ s[1] = m /\ \A j \in DOMAIN r : s[j + 1] = r[j]
        /\ DOMAIN r = 1 .. Len(r) /\ Len(r) \in Nat
        /\ Tail(s) = r
    BY <2>1, Joined
  <2>3. /\ s[1] \in S => FirstIn(s, S) = s[1]
        /\ s[1] \notin S => FirstIn(s, S) = FirstIn(r, S)
    BY <2>2, FirstJoined, SMTT(30)
  <2> QED BY <2>2, <2>3 DEF r, s
<1> QED BY <1>1, <1>2

(* A value that is not in S is passed over. *)
LEMMA FirstPast ==
    ASSUME NEW h, Good(h), NEW S, NEW m \in DOMAIN h, m \notin S
    PROVE  FirstIn(Chain(h, m), S) = FirstIn(Chain(h, h[m].superclass), S)
  BY FirstStep

(* The first of a chain is on the chain and in S, or none is. *)
LEMMA FirstOfChain ==
    ASSUME NEW h, Good(h), NEW m \in DOMAIN h \cup {NULL}, NEW S
    PROVE  /\ FirstIn(Chain(h, m), S) # NULL => FirstIn(Chain(h, m), S) \in Above(h, m) \cap S
           /\ FirstIn(Chain(h, m), S) = NULL => Above(h, m) \cap S = {}
<1> DEFINE s == Chain(h, m)
<1>1. s \in Seq(DOMAIN h)
  BY ChainType
<1>2. NULL \notin DOMAIN h
  <2>1. DOMAIN h = 1 .. Len(h) /\ Len(h) \in Nat
    BY DEF Good, HeapOK
  <2> QED BY <2>1 DEF NULL
<1> HIDE DEF s
<1>3. DOMAIN s \subseteq Nat /\ \A k \in DOMAIN s : s[k] # NULL
  BY <1>1, <1>2
<1>4. /\ (\A k \in DOMAIN s : s[k] \notin S) => FirstIn(s, S) = NULL
      /\ (\E k \in DOMAIN s : s[k] \in S) =>
             \E k \in DOMAIN s : /\ FirstIn(s, S) = s[k] /\ s[k] \in S
                                 /\ \A j \in DOMAIN s : s[j] \in S => k =< j
  BY <1>3, FirstElement
<1>5. Above(h, m) = {s[k] : k \in DOMAIN s}
  BY DEF Above, Elements, s
<1>6. CASE \A k \in DOMAIN s : s[k] \notin S
  BY <1>4, <1>5, <1>6 DEF s
<1>7. CASE \E k \in DOMAIN s : s[k] \in S
  <2>1. PICK k \in DOMAIN s : FirstIn(s, S) = s[k] /\ s[k] \in S
    BY <1>4, <1>7
  <2> QED BY <1>3, <1>5, <2>1 DEF s
<1> QED BY <1>6, <1>7

-----------------------------------------------------------------------------
(* What every operation does to the heap: it adds values, it may cut new   *)
(* include classes into chains, and it may put a new singleton class       *)
(* between a value and its class, if the value has none.                   *)
Extends(h, g) ==
    /\ DOMAIN h \subseteq DOMAIN g
    /\ \A i \in DOMAIN h :
        /\ g[i].type = h[i].type /\ g[i].singleton = h[i].singleton
        /\ \/ g[i].superclass = h[i].superclass
           \/ \E n \in DOMAIN g : /\ g[i].superclass = n /\ g[n].type = "IClass"
                                  /\ g[n].superclass = h[i].superclass
        /\ \/ g[i].instance_of = h[i].instance_of
           \/ \E n \in DOMAIN g : /\ g[i].instance_of = n /\ ~HasSingleton(h, i)
                                  /\ g[n].type = "Class" /\ g[n].singleton
                                  /\ g[n].superclass = h[i].instance_of

(* Nothing is lost from a chain. *)
LEMMA AboveGrows ==
    ASSUME NEW h, Good(h), NEW g, Good(g), Extends(h, g)
    PROVE  \A m \in DOMAIN h : Above(h, m) \subseteq Above(g, m)
<1> DEFINE S == {m \in DOMAIN h : Above(h, m) \subseteq Above(g, m)}
<1>1. ASSUME NEW m \in DOMAIN h, h[m].superclass \in S \cup {NULL}
      PROVE  Above(h, m) \subseteq Above(g, m)
  <2>1. Above(h, h[m].superclass) \subseteq Above(g, h[m].superclass)
    BY <1>1, AboveStep
  <2>2. Above(h, m) = {m} \cup Above(h, h[m].superclass)
    BY AboveStep
  <2>3. m \in DOMAIN g /\ Above(g, m) = {m} \cup Above(g, g[m].superclass)
    BY AboveStep DEF Extends
  <2>4. Above(g, h[m].superclass) \subseteq Above(g, g[m].superclass)
    BY AboveStep DEF Extends
  <2> QED BY <2>1, <2>2, <2>3, <2>4
<1>2. DOMAIN h \subseteq S
  <2>1. \A m \in DOMAIN h : h[m].superclass \in S \cup {NULL} => m \in S
    BY <1>1
  <2> HIDE DEF S
  <2> QED BY <2>1, UpInduction
<1> QED BY <1>2

(* Include classes cut in do not change what comes first but for them.     *)
LEMMA FirstKept ==
    ASSUME NEW h, Good(h), NEW g, Good(g), Extends(h, g), NEW S, NEW R,
           \A i \in DOMAIN h : i \in S <=> i \in R,
           \A i \in DOMAIN g : g[i].type = "IClass" => i \notin R
    PROVE  \A m \in DOMAIN h :
               /\ FirstIn(Chain(g, m), R) = FirstIn(Chain(h, m), S)
               /\ FirstIn(Tail(Chain(g, m)), R) = FirstIn(Tail(Chain(h, m)), S)
<1> DEFINE Same(m) == FirstIn(Chain(g, m), R) = FirstIn(Chain(h, m), S)
           T == {m \in DOMAIN h : Same(m)}
<1>1. ASSUME NEW m \in DOMAIN h, Same(h[m].superclass)
      PROVE  /\ Same(m)
             /\ FirstIn(Tail(Chain(g, m)), R) = FirstIn(Tail(Chain(h, m)), S)
  <2>1. m \in DOMAIN g /\ (m \in S <=> m \in R)
    BY DEF Extends
  <2>2. FirstIn(Chain(g, g[m].superclass), R) = FirstIn(Chain(g, h[m].superclass), R)
    <3>1. CASE g[m].superclass = h[m].superclass
      BY <3>1
    <3>2. CASE \E n \in DOMAIN g : /\ g[m].superclass = n /\ g[n].type = "IClass"
                                   /\ g[n].superclass = h[m].superclass
      <4>1. PICK n \in DOMAIN g : /\ g[m].superclass = n /\ g[n].type = "IClass"
                                  /\ g[n].superclass = h[m].superclass
        BY <3>2
      <4>2. FirstIn(Chain(g, n), R) =
                IF n \in R THEN n ELSE FirstIn(Chain(g, g[n].superclass), R)
        BY FirstStep
      <4> QED BY <4>1, <4>2
    <3> QED BY <3>1, <3>2 DEF Extends
  <2>3. /\ FirstIn(Chain(g, m), R) =
               IF m \in R THEN m ELSE FirstIn(Chain(g, g[m].superclass), R)
        /\ Tail(Chain(g, m)) = Chain(g, g[m].superclass)
    BY <2>1, FirstStep
  <2>4. /\ FirstIn(Chain(h, m), S) =
               IF m \in S THEN m ELSE FirstIn(Chain(h, h[m].superclass), S)
        /\ Tail(Chain(h, m)) = Chain(h, h[m].superclass)
    BY FirstStep
  <2> QED BY <1>1, <2>1, <2>2, <2>3, <2>4
<1>2. Same(NULL)
  BY FirstStep
<1>3. DOMAIN h \subseteq T
  <2>1. \A m \in DOMAIN h : h[m].superclass \in T \cup {NULL} => m \in T
    BY <1>1, <1>2
  <2> HIDE DEF T
  <2> QED BY <2>1, UpInduction
<1>4. \A m \in DOMAIN h : Same(h[m].superclass)
  BY <1>2, <1>3, Superclass
<1> QED BY <1>1, <1>4

(* No step changes what real_class answers, or the class next above. *)
LEMMA RealKept ==
    ASSUME NEW h, Good(h), NEW g, Good(g), Extends(h, g)
    PROVE  \A m \in DOMAIN h : real_class(g, m) = real_class(h, m) /\ Parent(g, m) = Parent(h, m)
<1> DEFINE S == {i \in DOMAIN h : is_real_class(h, i)}
           R == {i \in DOMAIN g : is_real_class(g, i)}
           P == {i \in DOMAIN h : h[i].type = "Class"}
           Q == {i \in DOMAIN g : g[i].type = "Class"}
<1>1. /\ \A i \in DOMAIN h : i \in S <=> i \in R
      /\ \A i \in DOMAIN g : g[i].type = "IClass" => i \notin R
  BY DEF Extends, is_real_class
<1>2. /\ \A i \in DOMAIN h : i \in P <=> i \in Q
      /\ \A i \in DOMAIN g : g[i].type = "IClass" => i \notin Q
  BY DEF Extends
<1> HIDE DEF S, R, P, Q
<1>3. \A m \in DOMAIN h : FirstIn(Chain(g, m), R) = FirstIn(Chain(h, m), S)
  BY <1>1, FirstKept
<1>4. \A m \in DOMAIN h : FirstIn(Tail(Chain(g, m)), Q) = FirstIn(Tail(Chain(h, m)), P)
  BY <1>2, FirstKept
<1> QED BY <1>3, <1>4 DEF real_class, Parent, S, R, P, Q

(* No step changes what class_of answers. *)
LEMMA ClassKept ==
    ASSUME NEW h, Good(h), NEW g, Good(g), Extends(h, g), NEW o \in DOMAIN h
    PROVE  class_of(g, o) = class_of(h, o)
<1>1. h[o].instance_of \in DOMAIN h
  BY DEF Good, HeapOK
<1>2. real_class(g, h[o].instance_of) = real_class(h, h[o].instance_of)
  BY <1>1, RealKept
<1>3. CASE g[o].instance_of = h[o].instance_of
  BY <1>2, <1>3 DEF class_of
<1>4. ASSUME NEW n \in DOMAIN g, g[o].instance_of = n, g[n].singleton,
             g[n].superclass = h[o].instance_of
      PROVE  real_class(g, n) = real_class(g, h[o].instance_of)
  <2> DEFINE R == {i \in DOMAIN g : is_real_class(g, i)}
  <2>1. n \notin R
    BY <1>4 DEF is_real_class
  <2> HIDE DEF R
  <2>2. FirstIn(Chain(g, n), R) = FirstIn(Chain(g, h[o].instance_of), R)
    <3>1. FirstIn(Chain(g, n), R) = FirstIn(Chain(g, g[n].superclass), R)
      BY <2>1, FirstPast
    <3> QED BY <1>4, <3>1
  <2> QED BY <2>2 DEF real_class, R
<1> QED BY <1>2, <1>3, <1>4 DEF Extends, class_of

(* No step takes a singleton class from below its superclass's. *)
LEMMA SingletonStays ==
    ASSUME NEW h, Good(h), NEW g, Good(g), Extends(h, g), NEW c \in DOMAIN h,
           InheritsSingleton(h, c)
    PROVE  InheritsSingleton(g, c)
<1> DEFINE s == Parent(h, c)
           k == h[s].instance_of
<1>1. s # NULL /\ HasSingleton(h, s) /\ k \in Above(h, h[c].instance_of)
  BY DEF InheritsSingleton
<1>2. s \in DOMAIN h
  <2> DEFINE P == {i \in DOMAIN h : h[i].type = "Class"}
  <2>1. Parent(h, c) = FirstIn(Chain(h, h[c].superclass), P)
    BY FirstStep DEF Parent
  <2> QED BY <1>1, <2>1, Superclass, FirstOfChain
<1>3. Parent(g, c) = s
  BY RealKept
<1> HIDE DEF s
<1>4. g[s].instance_of = k /\ k \in DOMAIN h
  BY <1>1, <1>2 DEF Extends, Good, HeapOK
<1>5. HasSingleton(g, s)
  BY <1>1, <1>4 DEF HasSingleton, Extends
<1>6. h[c].instance_of \in DOMAIN h
  BY DEF Good, HeapOK
<1>7. k \in Above(g, h[c].instance_of)
  BY <1>1, <1>6, AboveGrows
<1>8. Above(g, h[c].instance_of) \subseteq Above(g, g[c].instance_of)
  BY AboveStep DEF Extends
<1> QED BY <1>1, <1>3, <1>4, <1>5, <1>7, <1>8 DEF InheritsSingleton

-----------------------------------------------------------------------------
(* An include class cut in above c, field by field. *)
IsInserted(h, g, c, from, n) ==
    /\ g \in Seq(Values) /\ Len(g) = n /\ DOMAIN g = 1 .. n
    /\ DOMAIN g = DOMAIN h \cup {n} /\ n \notin DOMAIN h /\ n # NULL
    /\ \A i \in DOMAIN h : /\ g[i].type = h[i].type
                           /\ g[i].singleton = h[i].singleton
                           /\ g[i].instance_of = h[i].instance_of
                           /\ i # c => g[i].superclass = h[i].superclass
                           /\ i = c => g[i].superclass = n
    /\ g[n].type = "IClass" /\ g[n].superclass = h[c].superclass
    /\ g[n].instance_of = from /\ g[n].singleton = FALSE

(* An include class is cut in above c, and nothing else changes. *)
LEMMA InsertFacts ==
    ASSUME NEW h, Good(h), NEW c \in DOMAIN h, NEW from \in DOMAIN h
    PROVE  IsInserted(h, WithIncludeClass(h, c, from), c, from, Len(h) + 1)
<1> DEFINE g == WithIncludeClass(h, c, from)
           n == Len(h) + 1
           v == Value("IClass", FALSE, h[c].superclass, from)
           b == [h EXCEPT ![c].superclass = n]
<1>1. /\ h \in Seq(Values) /\ DOMAIN h = 1 .. Len(h) /\ Len(h) \in Nat
      /\ \A i \in DOMAIN h : h[i] \in Values
  <2>1. h \in Seq(Values)
    BY DEF Good, HeapOK
  <2> QED BY <2>1
<1>2. /\ h[c].superclass \in DOMAIN h \cup {NULL}
      /\ h[c].superclass # NULL => h[h[c].superclass].type \in {"Class", "IClass"}
  BY DEF Good, HeapOK
<1>3. v \in Values
  BY <1>1, <1>2 DEF Value, Values, Types, NULL
<1>4. [h[c] EXCEPT !.superclass = n] \in Values
  <2>1. h[c] \in Values /\ n \in Nat
    BY <1>1
  <2> QED BY <2>1 DEF Values
<1>5. b \in Seq(Values) /\ Len(b) = Len(h) /\ DOMAIN b = DOMAIN h
  BY <1>1, <1>4
<1>6. ASSUME NEW i \in DOMAIN h
      PROVE  /\ b[i].type = h[i].type
             /\ b[i].singleton = h[i].singleton
             /\ b[i].instance_of = h[i].instance_of
             /\ i # c => b[i].superclass = h[i].superclass
             /\ i = c => b[i].superclass = n
  <2>1. h[i] \in Values
    BY <1>1
  <2>2. CASE i = c
    <3>1. b[i] = [h[i] EXCEPT !.superclass = n]
      BY <2>2
    <3> QED BY <2>1, <2>2, <3>1 DEF Values
  <2>3. CASE i # c
    BY <2>3
  <2> QED BY <2>2, <2>3
<1>7. g = Append(b, v)
  BY DEF WithIncludeClass
<1>8. /\ v.superclass = h[c].superclass /\ v.type = "IClass"
      /\ v.instance_of = from /\ v.singleton = FALSE
  BY DEF Value
<1> HIDE DEF b, v, g
<1>9. /\ g \in Seq(Values) /\ Len(g) = n /\ DOMAIN g = 1 .. n
      /\ \A i \in DOMAIN h : g[i] = b[i]
      /\ g[n] = v
  <2>1. /\ Append(b, v) \in Seq(Values) /\ Len(Append(b, v)) = Len(b) + 1
        /\ DOMAIN Append(b, v) = 1 .. Len(b) + 1
        /\ \A i \in DOMAIN b : Append(b, v)[i] = b[i]
        /\ Append(b, v)[Len(b) + 1] = v
    BY <1>3, <1>5, AppendFacts
  <2> QED BY <1>5, <1>7, <2>1
<1>10. DOMAIN g = DOMAIN h \cup {n} /\ n \notin DOMAIN h /\ n # NULL
  BY <1>1, <1>9 DEF NULL
<1>11. \A i \in DOMAIN h : /\ g[i].type = h[i].type
                           /\ g[i].singleton = h[i].singleton
                           /\ g[i].instance_of = h[i].instance_of
                           /\ i # c => g[i].superclass = h[i].superclass
                           /\ i = c => g[i].superclass = n
  BY <1>6, <1>9
<1> HIDE DEF n
<1>12. IsInserted(h, g, c, from, n)
  BY <1>8, <1>9, <1>10, <1>11 DEF IsInserted
<1> QED BY <1>12 DEF g, n

(* Cutting in an include class extends the heap. *)
LEMMA InsertExtends ==
    ASSUME NEW h, Good(h), NEW c \in DOMAIN h, NEW from \in DOMAIN h
    PROVE  Extends(h, WithIncludeClass(h, c, from))
<1> DEFINE g == WithIncludeClass(h, c, from)
           n == Len(h) + 1
<1>1. IsInserted(h, g, c, from, n)
  BY InsertFacts
<1> HIDE DEF g, n
<1>2. Extends(h, g)
  BY <1>1 DEF Extends, IsInserted
<1> QED BY <1>2 DEF g

(* The chains that go through c gain the include class, no other does. *)
LEMMA InsertAbove ==
    ASSUME NEW h, Good(h), NEW c \in DOMAIN h, NEW from \in DOMAIN h,
           NEW g, Good(g), NEW n, IsInserted(h, g, c, from, n)
    PROVE  \A m \in DOMAIN h :
               /\ Above(g, m) \subseteq Above(h, m) \cup {n}
               /\ c \in Above(h, m) => n \in Above(g, m)
<1>1. /\ DOMAIN g = DOMAIN h \cup {n}
      /\ \A i \in DOMAIN h : /\ i # c => g[i].superclass = h[i].superclass
                             /\ i = c => g[i].superclass = n
      /\ g[n].superclass = h[c].superclass
  BY DEF IsInserted
<1> DEFINE P(m) == /\ Above(g, m) \subseteq Above(h, m) \cup {n}
                   /\ c \in Above(h, m) => n \in Above(g, m)
           S == {m \in DOMAIN h : P(m)}
<1>2. P(NULL)
  BY AboveStep
<1>3. ASSUME NEW m \in DOMAIN h, P(h[m].superclass)
      PROVE  P(m)
  <2>1. Above(h, m) = {m} \cup Above(h, h[m].superclass)
    BY AboveStep
  <2>2. m \in DOMAIN g /\ n \in DOMAIN g
    BY <1>1
  <2>3. /\ Above(g, m) = {m} \cup Above(g, g[m].superclass)
        /\ Above(g, n) = {n} \cup Above(g, g[n].superclass)
    BY <2>2, AboveStep
  <2>4. CASE m = c
    BY <1>1, <1>3, <2>1, <2>3, <2>4
  <2>5. CASE m # c
    BY <1>1, <1>3, <2>1, <2>3, <2>5
  <2> QED BY <2>4, <2>5
<1>4. DOMAIN h \subseteq S
  <2>1. \A m \in DOMAIN h : h[m].superclass \in S \cup {NULL} => m \in S
    BY <1>2, <1>3
  <2> HIDE DEF S
  <2> QED BY <2>1, UpInduction
<1> QED BY <1>4

(* A value that nothing points to. *)
LEMMA AppendExtends ==
    ASSUME NEW h, Good(h), NEW v, Fits(v, h)
    PROVE  Extends(h, Append(h, v))
<1>1. h \in Seq(Values) /\ v \in Values
  BY DEF Good, HeapOK, Fits
<1>2. DOMAIN h \subseteq DOMAIN Append(h, v) /\ \A i \in DOMAIN h : Append(h, v)[i] = h[i]
  BY <1>1, AppendFacts
<1> QED BY <1>2 DEF Extends

(* A new class of o, field by field. *)
OnlyClassOf(h, g, o, c) ==
    /\ g \in Seq(Values) /\ DOMAIN g = DOMAIN h
    /\ \A i \in DOMAIN h : /\ g[i].type = h[i].type
                           /\ g[i].singleton = h[i].singleton
                           /\ g[i].superclass = h[i].superclass
                           /\ i # o => g[i].instance_of = h[i].instance_of
    /\ g[o].instance_of = c

(* Setting the class of a value changes that only. *)
LEMMA InstanceOfOnly ==
    ASSUME NEW h \in Seq(Values), NEW o \in DOMAIN h, NEW c \in DOMAIN h
    PROVE  OnlyClassOf(h, WithInstanceOf(h, o, c), o, c)
<1> DEFINE g == WithInstanceOf(h, o, c)
<1>1. /\ g \in Seq(Values) /\ DOMAIN g = DOMAIN h
      /\ g[o].instance_of = c
  BY InstanceOfFacts
<1>2. \A i \in DOMAIN h : /\ g[i].type = h[i].type
                          /\ g[i].singleton = h[i].singleton
                          /\ g[i].superclass = h[i].superclass
                          /\ i # o => g[i].instance_of = h[i].instance_of
  BY InstanceOfFacts
<1> HIDE DEF g
<1>3. OnlyClassOf(h, g, o, c)
  BY <1>1, <1>2 DEF OnlyClassOf
<1> QED BY <1>3 DEF g

(* A new singleton class, field by field. *)
HasBecome(h, g, o, super, n) ==
    /\ DOMAIN g = DOMAIN h \cup {n} /\ n \notin DOMAIN h
    /\ \A i \in DOMAIN h : /\ g[i].type = h[i].type
                           /\ g[i].singleton = h[i].singleton
                           /\ g[i].superclass = h[i].superclass
                           /\ i # o => g[i].instance_of = h[i].instance_of
    /\ g[o].instance_of = n
    /\ g[n].type = "Class" /\ g[n].singleton /\ g[n].superclass = super

(* A singleton class is put between a value and its class. *)
LEMMA SingletonFacts ==
    ASSUME NEW h, Good(h), NEW o \in DOMAIN h, NEW super \in DOMAIN h,
           h[super].type = "Class"
    PROVE  HasBecome(h, WithSingleton(h, o, super), o, super, Len(h) + 1)
<1> DEFINE g == WithSingleton(h, o, super)
           n == Len(h) + 1
           v == class_create_bare(super, TRUE)
           h1 == Append(h, v)
           h2 == WithInstanceOf(h1, o, n)
           h3 == WithInstanceOf(h2, n, n)
<1>1. v.type = "Class" /\ v.singleton /\ v.superclass = super
  BY DEF class_create_bare, Value
<1>2. v \in Values /\ h \in Seq(Values)
  <2>1. Fits(Value("Class", TRUE, super, ClassClass), h)
    BY ClassFits
  <2> QED BY <2>1 DEF class_create_bare, Fits, Good, HeapOK
<1> HIDE DEF v
<1>3. /\ h1 \in Seq(Values) /\ DOMAIN h = 1 .. Len(h) /\ DOMAIN h1 = 1 .. n
      /\ \A i \in DOMAIN h : h1[i] = h[i]
      /\ h1[n] = v /\ Len(h) \in Nat
  BY <1>2, AppendFacts
<1> HIDE DEF h1
<1>4. DOMAIN h1 = DOMAIN h \cup {n} /\ n \notin DOMAIN h /\ n \in DOMAIN h1 /\ o \in DOMAIN h1
  BY <1>3
<1>5. OnlyClassOf(h1, h2, o, n)
  BY <1>3, <1>4, InstanceOfOnly
<1> HIDE DEF h2
<1>6. n \in DOMAIN h2 /\ h2 \in Seq(Values)
  BY <1>4, <1>5 DEF OnlyClassOf
<1>7. OnlyClassOf(h2, h3, n, n)
  BY <1>6, InstanceOfOnly
<1> HIDE DEF h3
<1>9. g = h3 \/ g = h2
  BY DEF WithSingleton, h3, h2, h1, v
<1>10. /\ h1[n].type = "Class" /\ h1[n].singleton /\ h1[n].superclass = super
       /\ \A i \in DOMAIN h : i # n
  BY <1>1, <1>3, <1>4
<1> HIDE DEF g, n
<1>11. ASSUME g = h2 PROVE HasBecome(h, g, o, super, n)
  BY <1>3, <1>4, <1>5, <1>10, <1>11 DEF HasBecome, OnlyClassOf
<1>12. ASSUME g = h3 PROVE HasBecome(h, g, o, super, n)
  BY <1>3, <1>4, <1>5, <1>7, <1>10, <1>12 DEF HasBecome, OnlyClassOf
<1>13. HasBecome(h, g, o, super, n)
  BY <1>9, <1>11, <1>12
<1> QED BY <1>13 DEF g, n

(* Giving a value its first singleton class extends the heap. *)
LEMMA SingletonExtends ==
    ASSUME NEW h, Good(h), NEW o \in DOMAIN h, h[o].type # "IClass", ~HasSingleton(h, o)
    PROVE  Extends(h, WithSingleton(h, o, h[o].instance_of))
<1> DEFINE g == WithSingleton(h, o, h[o].instance_of)
           n == Len(h) + 1
<1>1. h[o].instance_of \in DOMAIN h /\ h[h[o].instance_of].type = "Class"
  BY ClassOfExposed
<1>2. HasBecome(h, g, o, h[o].instance_of, n)
  BY <1>1, SingletonFacts
<1> HIDE DEF g, n
<1>3. Extends(h, g)
  BY <1>2 DEF Extends, HasBecome
<1> QED BY <1>3 DEF g

(* A value made and then given a singleton class is of no concern to others. *)
LEMMA OthersKept ==
    ASSUME NEW h, NEW b, NEW g, NEW o, NEW super, NEW n,
           DOMAIN h \subseteq DOMAIN b, o \notin DOMAIN h,
           \A i \in DOMAIN h : b[i] = h[i], HasBecome(b, g, o, super, n)
    PROVE  Extends(h, g)
<1>1. DOMAIN h \subseteq DOMAIN g
  BY DEF HasBecome
<1>2. ASSUME NEW i \in DOMAIN h
      PROVE  /\ g[i].type = h[i].type /\ g[i].singleton = h[i].singleton
             /\ g[i].superclass = h[i].superclass
             /\ g[i].instance_of = h[i].instance_of
  <2>1. i \in DOMAIN b /\ i # o /\ b[i] = h[i]
    OBVIOUS
  <2>2. /\ g[i].type = b[i].type /\ g[i].singleton = b[i].singleton
        /\ g[i].superclass = b[i].superclass /\ g[i].instance_of = b[i].instance_of
    BY <2>1 DEF HasBecome
  <2> QED BY <2>1, <2>2
<1> QED BY <1>1, <1>2 DEF Extends

(* The two values a class statement makes are of no concern to others. *)
LEMMA NewClassExtends ==
    ASSUME NEW h, Good(h), NEW super \in DOMAIN h, h[super].type = "Class",
           NEW g, g = WithSingleton(Append(h, class_create_bare(super, FALSE)),
                                    Len(h) + 1, h[super].instance_of)
    PROVE  Extends(h, g)
<1> DEFINE v == class_create_bare(super, FALSE)
           b == Append(h, v)
           new == Len(h) + 1
           n == Len(b) + 1
<1>1. Fits(v, h)
  <2>1. v = Value("Class", FALSE, super, ClassClass)
    BY DEF class_create_bare
  <2> QED BY <2>1, ClassFits
<1>2. h \in Seq(Values) /\ v \in Values
  BY <1>1 DEF Good, HeapOK, Fits
<1>3. /\ Good(b) /\ DOMAIN b = 1 .. new /\ DOMAIN h = 1 .. Len(h) /\ Len(h) \in Nat
      /\ \A i \in DOMAIN h : b[i] = h[i]
  BY <1>1, <1>2, AppendGood, AppendFacts
<1>4. h[super].instance_of \in DOMAIN h /\ h[h[super].instance_of].type = "Class"
  BY ClassOfExposed
<1> HIDE DEF b, v
<1>5. /\ new \in DOMAIN b /\ new \notin DOMAIN h /\ DOMAIN h \subseteq DOMAIN b
      /\ h[super].instance_of \in DOMAIN b /\ b[h[super].instance_of].type = "Class"
  BY <1>3, <1>4
<1>6. g = WithSingleton(b, new, h[super].instance_of)
  BY DEF b, v
<1>7. HasBecome(b, g, new, h[super].instance_of, n)
  BY <1>3, <1>5, <1>6, SingletonFacts
<1> HIDE DEF n, new
<1> QED BY <1>3, <1>5, <1>7, OthersKept

-----------------------------------------------------------------------------
(* The loop of include_module: what has been merged and what is to come.   *)
IncludeInv ==
    inc.obj # NULL =>
        LET now == Above(heap, inc.obj)
            new == now \ Elements(asked.obj)
            rest == {Included(heap, i) : i \in Above(heap, inc.module)}
        IN  /\ heap[inc.obj].type # "IClass"
            /\ inc.c \in now
            /\ InOrder(asked.obj, Chain(heap, inc.obj))
            /\ rest \subseteq Elements(asked.module)
            /\ \A m \in Elements(asked.module) :
                    m \in rest \/ \E i \in now : StandsFor(heap, i, m)
            /\ \A i \in new : \E m \in Elements(asked.module) :
                    /\ StandsFor(heap, i, m)
                    /\ \A j \in now : StandsFor(heap, j, m) => j = i

(* It is so when include_module is called, *)
LEMMA CallInv ==
    ASSUME IInv', NEW obj \in DOMAIN heap', NEW module \in DOMAIN heap',
           heap'[obj].type # "IClass", Call(heap', obj, module)
    PROVE  IncludeInv'
<1>1. Good(heap')
  BY DEF IInv, TypeOK, NoCycle, Good, HeapOK, Acyclic
<1>2. /\ inc'.obj = obj /\ inc'.module = module /\ inc'.c = obj
      /\ asked'.obj = Chain(heap', obj) /\ asked'.module = Ancestors(heap', module)
  BY DEF Call
<1>3. Elements(asked'.obj) = Above(heap', obj)
  BY <1>2 DEF Above
<1>4. obj \in Above(heap', obj)
  BY <1>1, AboveStep
<1>5. InOrder(asked'.obj, Chain(heap', obj))
  BY <1>2, InOrderSame
<1>6. Elements(asked'.module) = {Included(heap', i) : i \in Above(heap', module)}
  <2> DEFINE s == Chain(heap', module)
  <2>1. asked'.module = [k \in DOMAIN s |-> Included(heap', s[k])]
    BY <1>2 DEF Ancestors
  <2>2. Above(heap', module) = {s[k] : k \in DOMAIN s}
    BY DEF Above, Elements
  <2>3. Elements(asked'.module) = {asked'.module[k] : k \in DOMAIN asked'.module}
    BY DEF Elements
  <2> HIDE DEF s
  <2>4. DOMAIN asked'.module = DOMAIN s
    BY <2>1
  <2>5. \A k \in DOMAIN s : asked'.module[k] = Included(heap', s[k])
    BY <2>1
  <2> QED BY <2>2, <2>3, <2>4, <2>5
<1> QED BY <1>2, <1>3, <1>4, <1>5, <1>6 DEF IncludeInv

(* and it stays so with each turn of the loop. *)
LEMMA TurnInv ==
    ASSUME IInv, IInv', IncludeInv, IncludeNext
    PROVE  IncludeInv'
<1>1. Good(heap) /\ Good(heap') /\ IncludeOK(heap, inc) /\ inc.module # NULL
  BY DEF IInv, TypeOK, NoCycle, Good, HeapOK, IncludeOK, Acyclic, IncludeNext, Idle
<1>2. /\ inc.obj \in DOMAIN heap /\ inc.module \in DOMAIN heap /\ inc.c \in DOMAIN heap
      /\ inc.obj # NULL /\ heap[inc.module].type # "Object"
      /\ inc \in [obj : DOMAIN heap \cup {NULL}, module : DOMAIN heap \cup {NULL},
                  c : DOMAIN heap \cup {NULL}]
  BY <1>1 DEF IncludeOK
<1> DEFINE obj == inc.obj
           now == Above(heap, obj)
           rest == {Included(heap, i) : i \in Above(heap, inc.module)}
           from == Included(heap, inc.module)
           next == {Included(heap, i) : i \in Above(heap, heap[inc.module].superclass)}
           Taken == {i \in DOMAIN heap : StandsFor(heap, i, from)}
           gains == Elements(asked.module)
<1>3. /\ heap[obj].type # "IClass" /\ inc.c \in now
      /\ InOrder(asked.obj, Chain(heap, obj))
      /\ rest \subseteq gains
      /\ \A m \in gains : m \in rest \/ \E i \in now : StandsFor(heap, i, m)
      /\ \A i \in now \ Elements(asked.obj) : \E m \in gains :
            /\ StandsFor(heap, i, m)
            /\ \A j \in now : StandsFor(heap, j, m) => j = i
  BY <1>2 DEF IncludeInv
<1>4. rest = {from} \cup next
  <2>1. Above(heap, inc.module) = {inc.module} \cup Above(heap, heap[inc.module].superclass)
    BY <1>1, <1>2, AboveStep
  <2> QED BY <2>1
<1>5. now = {obj} \cup Above(heap, heap[obj].superclass)
  BY <1>1, <1>2, AboveStep
<1>6. now \subseteq DOMAIN heap
  BY <1>1, <1>2, AboveStep
<1>7. AlreadyThere = FirstIn(Chain(heap, heap[obj].superclass), Taken)
  <2>1. Tail(Chain(heap, obj)) = Chain(heap, heap[obj].superclass)
    BY <1>1, <1>2, FirstStep
  <2> QED BY <2>1 DEF AlreadyThere, Ids
<1>8. /\ AlreadyThere # NULL => AlreadyThere \in now /\ StandsFor(heap, AlreadyThere, from)
      /\ AlreadyThere = NULL => \A i \in now : ~StandsFor(heap, i, from)
  <2>1. heap[obj].superclass \in DOMAIN heap \cup {NULL}
    BY <1>1, <1>2, Superclass
  <2> HIDE DEF Taken
  <2>2. /\ AlreadyThere # NULL =>
               AlreadyThere \in Above(heap, heap[obj].superclass) \cap Taken
        /\ AlreadyThere = NULL => Above(heap, heap[obj].superclass) \cap Taken = {}
    BY <1>1, <1>7, <2>1, FirstOfChain
  <2>3. ~StandsFor(heap, obj, from)
    BY <1>3 DEF StandsFor
  <2> QED BY <1>5, <1>6, <2>2, <2>3 DEF Taken
<1>9. NULL \notin DOMAIN heap
  <2>1. DOMAIN heap = 1 .. Len(heap) /\ Len(heap) \in Nat
    BY <1>1 DEF Good, HeapOK
  <2> QED BY <2>1 DEF NULL
<1>10. CASE SkipModule
  <2>1. PICK i \in DOMAIN heap :
            /\ i = AlreadyThere
            /\ inc' = [inc EXCEPT !.module = heap[inc.module].superclass,
                                  !.c = IF found_superclass(i) THEN inc.c ELSE i]
            /\ heap' = heap /\ asked' = asked
    BY <1>10 DEF SkipModule, Ids
  <2>2. i \in now /\ StandsFor(heap, i, from)
    BY <1>8, <1>9, <2>1
  <2>3. /\ inc'.obj = obj /\ inc'.module = heap[inc.module].superclass
        /\ inc'.c = inc.c \/ inc'.c = i
    BY <1>2, <2>1
  <2>4. next \subseteq gains
    BY <1>3, <1>4
  <2>5. \A m \in gains : m \in next \/ \E k \in now : StandsFor(heap, k, m)
    BY <1>3, <1>4, <2>2
  <2>6. inc'.c \in now
    BY <1>3, <2>2, <2>3
  <2> HIDE DEF obj, now, rest, from, gains
  <2> QED BY <1>3, <2>1, <2>3, <2>4, <2>5, <2>6
          DEF IncludeInv, obj, now, gains
<1>11. CASE InsertModule
  <2> DEFINE n == Len(heap) + 1
  <2>1. /\ AlreadyThere = NULL
        /\ heap' = WithIncludeClass(heap, inc.c, from)
        /\ inc' = [inc EXCEPT !.module = heap'[inc.module].superclass, !.c = Len(heap')]
        /\ asked' = asked
    BY <1>11 DEF InsertModule
  <2>2. from \in DOMAIN heap
    BY <1>1, <1>2 DEF Included, Good, HeapOK
  <2>3. IsInserted(heap, heap', inc.c, from, n)
    BY <1>1, <1>2, <2>1, <2>2, InsertFacts
  <2>4. Extends(heap, heap')
    BY <1>1, <1>2, <2>1, <2>2, InsertExtends
  <2>5. /\ inc'.obj = obj /\ inc'.module = heap'[inc.module].superclass /\ inc'.c = n
    BY <1>2, <2>1, <2>3 DEF IsInserted
  <2> DEFINE later == Above(heap', obj)
             coming == {Included(heap', i) : i \in Above(heap', inc'.module)}
  <2> HIDE DEF n, from
  <2>20. \A m \in DOMAIN heap : Above(heap, m) \subseteq Above(heap', m)
    BY <1>1, <2>4, AboveGrows
  <2>21. \A m \in DOMAIN heap : \A i \in Above(heap', m) : i \in Above(heap, m) \/ i = n
    BY <1>1, <1>2, <2>2, <2>3, InsertAbove
  <2>22. \A m \in DOMAIN heap : inc.c \in Above(heap, m) => n \in Above(heap', m)
    BY <1>1, <1>2, <2>2, <2>3, InsertAbove
  <2>6. now \subseteq later /\ later \subseteq now \cup {n} /\ n \in later
    <3>1. now \subseteq later
      BY <1>2, <2>20
    <3>2. \A i \in later : i \in now \/ i = n
      BY <1>2, <2>21
    <3>3. n \in later
      BY <1>2, <1>3, <2>22
    <3> QED BY <3>1, <3>2, <3>3
  <2>7. n \in DOMAIN heap' /\ DOMAIN heap' = DOMAIN heap \cup {n} /\ n \notin DOMAIN heap
    BY <2>3 DEF IsInserted
  <2>8. \A i \in DOMAIN heap : \A m : StandsFor(heap', i, m) <=> StandsFor(heap, i, m)
    BY <2>3 DEF IsInserted, StandsFor
  <2>9. \A i \in DOMAIN heap : Included(heap', i) = Included(heap, i)
    BY <2>3 DEF IsInserted, Included
  <2>10. Included(heap', n) = from /\ \A m : StandsFor(heap', n, m) <=> m = from
    BY <2>3 DEF IsInserted, Included, StandsFor
  <2>11. from \in gains
    BY <1>3, <1>4
  <2>12. coming \subseteq gains /\ next \subseteq coming
    <3> DEFINE u == heap[inc.module].superclass
    <3>1. u \in DOMAIN heap \cup {NULL}
      BY <1>1, <1>2, Superclass
    <3>2. Above(heap, u) \subseteq DOMAIN heap
      BY <1>1, <3>1, AboveStep
    <3>3. Above(heap, u) \subseteq Above(heap', u) /\ Above(heap', u) \subseteq Above(heap, u) \cup {n}
      <4>1. CASE u = NULL
        BY <1>1, <4>1, AboveStep
      <4>2. CASE u # NULL
        <5>1. u \in DOMAIN heap
          BY <3>1, <4>2
        <5> HIDE DEF u
        <5> QED BY <2>20, <2>21, <5>1
      <4> QED BY <4>1, <4>2
    <3>4. inc'.module = u \/ (inc'.module = n /\ heap'[n].superclass = u)
      <4>1. /\ heap'[n].superclass = heap[inc.c].superclass
            /\ heap'[inc.c].superclass = n
            /\ inc.module # inc.c => heap'[inc.module].superclass = u
        BY <1>2, <2>3 DEF IsInserted
      <4>2. inc'.module = heap'[inc.module].superclass
        BY <2>5
      <4>3. CASE inc.module = inc.c
        BY <4>1, <4>2, <4>3
      <4>4. CASE inc.module # inc.c
        BY <4>1, <4>2, <4>4
      <4> QED BY <4>3, <4>4
    <3>5. Above(heap', n) = {n} \cup Above(heap', heap'[n].superclass)
      BY <1>1, <2>7, AboveStep
    <3>6. /\ Above(heap, u) \subseteq Above(heap', inc'.module)
          /\ Above(heap', inc'.module) \subseteq Above(heap, u) \cup {n}
      BY <3>3, <3>4, <3>5
    <3>7. next \subseteq gains
      BY <1>3, <1>4
    <3>8. ASSUME NEW i \in Above(heap', inc'.module) PROVE Included(heap', i) \in gains
      <4>1. CASE i = n
        BY <2>10, <2>11, <4>1
      <4>2. CASE i \in Above(heap, u)
        BY <2>9, <3>2, <3>7, <4>2
      <4> QED BY <3>6, <4>1, <4>2
    <3>9. ASSUME NEW i \in Above(heap, u) PROVE Included(heap, i) \in coming
      BY <2>9, <3>2, <3>6, <3>9
    <3> QED BY <3>8, <3>9
  <2>13. ASSUME NEW m \in gains
         PROVE  m \in coming \/ \E i \in later : StandsFor(heap', i, m)
    <3>1. CASE m = from
      BY <2>6, <2>10, <3>1
    <3>2. CASE m \in next
      BY <2>12, <3>2
    <3>3. CASE \E i \in now : StandsFor(heap, i, m)
      BY <1>6, <2>6, <2>8, <3>3
    <3> QED BY <1>3, <1>4, <3>1, <3>2, <3>3
  <2>14. \A i \in now : ~StandsFor(heap, i, from)
    BY <1>8, <2>1
  <2>15. ASSUME NEW i \in later \ Elements(asked.obj)
         PROVE  \E m \in gains : /\ StandsFor(heap', i, m)
                                 /\ \A j \in later : StandsFor(heap', j, m) => j = i
    <3>1. CASE i = n
      <4>1. \A j \in now : ~StandsFor(heap', j, from)
        BY <1>6, <2>8, <2>14
      <4>2. StandsFor(heap', i, from) /\ \A j \in later : StandsFor(heap', j, from) => j = i
        BY <2>6, <2>10, <3>1, <4>1
      <4> QED BY <2>11, <4>2
    <3>2. CASE i # n
      <4>1. i \in now \ Elements(asked.obj)
        BY <2>6, <3>2
      <4>2. PICK m \in gains : /\ StandsFor(heap, i, m)
                               /\ \A j \in now : StandsFor(heap, j, m) => j = i
        BY <1>3, <4>1
      <4>3. m # from
        BY <2>14, <4>1, <4>2
      <4>4. StandsFor(heap', i, m) /\ \A j \in later : StandsFor(heap', j, m) => j = i
        BY <1>6, <2>6, <2>8, <2>10, <4>1, <4>2, <4>3
      <4> QED BY <4>4
    <3> QED BY <3>1, <3>2
  <2>16. InOrder(asked.obj, Chain(heap', obj))
    <3>2. DOMAIN heap \subseteq DOMAIN heap'
      BY <2>7
    <3> QED BY <1>1, <1>2, <1>3, <2>20, <3>2, GrowsInOrder
  <2>17. heap'[obj].type # "IClass"
    BY <1>2, <1>3, <2>3 DEF IsInserted
  <2> HIDE DEF obj, gains
  <2> QED BY <2>1, <2>5, <2>6, <2>12, <2>13, <2>15, <2>16, <2>17
          DEF IncludeInv, obj, gains, later, coming
<1> QED BY <1>10, <1>11 DEF IncludeNext

-----------------------------------------------------------------------------
(* At first nothing is being included. *)
LEMMA InitInclude == Init => IncludeInv
  BY DEF Init, NoInclude, IncludeInv

(* A step of include_module keeps it, and any other ends the call. *)
LEMMA NextInclude == IInv /\ IInv' /\ IncludeInv /\ [Next]_vars => IncludeInv'
<1> SUFFICES ASSUME IInv, IInv', IncludeInv, [Next]_vars PROVE IncludeInv'
  OBVIOUS
<1>1. Good(heap)
  BY DEF IInv, TypeOK, NoCycle, Good
<1>2. ASSUME NoCall PROVE IncludeInv'
  BY <1>2 DEF NoCall, NoInclude, IncludeInv
<1>3. ASSUME NEW obj \in Modules, NEW module \in Modules, Include(obj, module)
      PROVE  IncludeInv'
  <2>1. heap' = heap /\ Call(heap', obj, module)
    BY <1>3 DEF Include, Call
  <2>2. /\ obj \in DOMAIN heap' /\ module \in DOMAIN heap'
        /\ heap'[obj].type # "IClass"
    BY <2>1 DEF Modules, Exposed, Ids
  <2> QED BY <2>1, <2>2, CallInv
<1>4. ASSUME NEW o \in Exposed, NEW module \in Modules, Extend(o, module)
      PROVE  IncludeInv'
  <2>1. /\ o \in DOMAIN heap /\ module \in DOMAIN heap /\ heap[o].type # "IClass"
    BY DEF Modules, Exposed, Ids
  <2>2. PICK h : /\ \/ h = heap
                    \/ h = WithSingleton(heap, o, heap[o].instance_of)
                 /\ Call(h, h[o].instance_of, module)
    BY <1>4 DEF Extend
  <2>3. /\ DOMAIN heap \subseteq DOMAIN h
        /\ h[o].instance_of \in DOMAIN h /\ h[h[o].instance_of].type = "Class"
    <3>1. CASE h = heap
      BY <1>1, <2>1, <3>1, ClassOfExposed
    <3>2. CASE h = WithSingleton(heap, o, heap[o].instance_of)
      BY <1>1, <2>1, <3>2, SingletonOfExposed
    <3> QED BY <2>2, <3>1, <3>2
  <2> DEFINE c == h[o].instance_of
  <2>4. heap' = h
    BY <2>2 DEF Call
  <2>5. /\ Call(heap', c, module) /\ c \in DOMAIN heap' /\ module \in DOMAIN heap'
        /\ heap'[c].type # "IClass"
    BY <2>1, <2>2, <2>3, <2>4
  <2> HIDE DEF c
  <2> QED BY <2>5, CallInv
<1>5. CASE UNCHANGED vars
  BY <1>5 DEF vars, IncludeInv, StandsFor
<1>6. CASE IncludeNext
  BY <1>6, TurnInv
<1>7. CASE Next
  BY <1>2, <1>3, <1>4, <1>6, <1>7
     DEF Next, DefineClass, DefineModule, New, SingletonClass, Dup
<1> QED BY <1>5, <1>7

(* Every operation only extends the heap. *)
LEMMA NextExtends == IInv /\ [Next]_vars => Extends(heap, heap')
<1> SUFFICES ASSUME IInv, [Next]_vars PROVE Extends(heap, heap')
  OBVIOUS
<1>1. Good(heap) /\ IncludeOK(heap, inc)
  BY DEF IInv, TypeOK, NoCycle, Good
<1>2. heap \in Seq(Values) /\ DOMAIN heap = 1 .. Len(heap) /\ Len(heap) \in Nat
      /\ \A o \in 1 .. 6 : o \in DOMAIN heap /\ heap[o].type = "Class"
  <2>1. heap \in Seq(Values) /\ Len(heap) >= 6
        /\ \A o \in 1 .. 6 : heap[o].type = "Class"
    BY <1>1 DEF Good, HeapOK
  <2>2. DOMAIN heap = 1 .. Len(heap) /\ Len(heap) \in Nat
    BY <2>1
  <2>3. \A o \in 1 .. 6 : o \in DOMAIN heap
    BY <2>1, <2>2
  <2> QED BY <2>1, <2>2, <2>3
<1>3. ASSUME heap' = heap PROVE Extends(heap, heap')
  BY <1>3 DEF Extends
<1>4. ASSUME NEW super \in Classes, DefineClass(super) PROVE Extends(heap, heap')
  <2>1. super \in DOMAIN heap /\ heap[super].type = "Class"
    BY DEF Classes, Exposed, Ids
  <2>2. heap' = WithSingleton(Append(heap, class_create_bare(super, FALSE)),
                              Len(heap) + 1, heap[super].instance_of)
    BY <1>4 DEF DefineClass
  <2> QED BY <1>1, <2>1, <2>2, NewClassExtends
<1>5. ASSUME DefineModule PROVE Extends(heap, heap')
  <2> DEFINE v == Value("Module", FALSE, NULL, ModuleClass)
  <2>1. Fits(v, heap)
    BY <1>2 DEF Fits, Value, Values, Types, NULL, ModuleClass
  <2> QED BY <1>1, <1>5, <2>1, AppendExtends DEF DefineModule
<1>6. ASSUME NEW c \in Classes, New(c) PROVE Extends(heap, heap')
  <2>1. c \in DOMAIN heap /\ heap[c].type = "Class" /\ c \in Nat
    BY <1>2 DEF Classes, Exposed, Ids
  <2>2. Fits(Value("Object", FALSE, NULL, c), heap)
    BY <2>1 DEF Fits, Value, Values, Types, NULL
  <2>3. Fits(Value("Class", FALSE, ObjectClass, c), heap)
    <3>1. 1 \in DOMAIN heap /\ heap[1].type = "Class"
      BY <1>2
    <3> QED BY <2>1, <3>1 DEF Fits, Value, Values, Types, NULL, ObjectClass
  <2>4. \/ heap' = Append(heap, Value("Object", FALSE, NULL, c))
        \/ heap' = Append(heap, Value("Class", FALSE, ObjectClass, c))
    BY <1>6 DEF New
  <2> QED BY <1>1, <2>2, <2>3, <2>4, AppendExtends
<1>7. ASSUME NEW o \in Exposed, SingletonClass(o) PROVE Extends(heap, heap')
  <2>1. o \in DOMAIN heap /\ heap[o].type # "IClass"
    BY DEF Exposed, Ids
  <2> QED BY <1>1, <1>7, <2>1, SingletonExtends DEF SingletonClass
<1>8. ASSUME NEW o \in Exposed, Dup(o) PROVE Extends(heap, heap')
  <2>1. o \in DOMAIN heap /\ heap[o] \in Values
    BY <1>2 DEF Exposed, Ids
  <2>2. Fits(heap[o], heap)
    BY <1>1, <2>1 DEF Fits, Good, HeapOK
  <2> QED BY <1>1, <1>8, <2>2, AppendExtends DEF Dup
<1>9. ASSUME NEW obj \in Modules, NEW module \in Modules, Include(obj, module)
      PROVE  Extends(heap, heap')
  BY <1>3, <1>9 DEF Include, Call
<1>10. ASSUME NEW o \in Exposed, NEW module \in Modules, Extend(o, module)
       PROVE  Extends(heap, heap')
  <2>1. o \in DOMAIN heap /\ heap[o].type # "IClass"
    BY DEF Exposed, Ids
  <2>2. CASE HasSingleton(heap, o)
    BY <1>3, <1>10, <2>2 DEF Extend, Call
  <2>3. CASE ~HasSingleton(heap, o)
    <3>1. heap' = WithSingleton(heap, o, heap[o].instance_of)
      BY <1>10, <2>3 DEF Extend, Call
    <3> QED BY <1>1, <2>1, <2>3, <3>1, SingletonExtends
  <2> QED BY <2>2, <2>3
<1>11. ASSUME IncludeNext PROVE Extends(heap, heap')
  <2>1. CASE SkipModule
    BY <1>3, <2>1 DEF SkipModule
  <2>2. CASE InsertModule
    <3>1. inc.c \in DOMAIN heap /\ inc.module \in DOMAIN heap
      BY <1>1, <1>11 DEF IncludeNext, Idle, IncludeOK
    <3>2. Included(heap, inc.module) \in DOMAIN heap
      BY <1>1, <3>1 DEF Included, Good, HeapOK
    <3>3. heap' = WithIncludeClass(heap, inc.c, Included(heap, inc.module))
      BY <2>2 DEF InsertModule
    <3> QED BY <1>1, <3>1, <3>2, <3>3, InsertExtends
  <2> QED BY <1>11, <2>1, <2>2 DEF IncludeNext
<1>12. CASE UNCHANGED vars
  BY <1>3, <1>12 DEF vars
<1>13. CASE Next
  BY <1>4, <1>5, <1>6, <1>7, <1>8, <1>9, <1>10, <1>11, <1>13 DEF Next
<1> QED BY <1>12, <1>13

-----------------------------------------------------------------------------

(* For every bound on the heap, the pointers of classes, modules, include   *)
(* classes and singleton classes point to what they may point to.          *)
THEOREM TypeCorrect == Spec => []TypeOK
<1>1. IInv => TypeOK
  BY DEF IInv
<1> QED BY InitIInv, NextIInv, <1>1, PTL DEF Spec

(* For every bound on the heap, no chain of superclasses closes on itself,  *)
(* whatever is included into, extended by or copied from what.             *)
THEOREM ChainsEnd == Spec => []NoCycle
<1>1. IInv => NoCycle
  BY DEF IInv
<1> QED BY InitIInv, NextIInv, <1>1, PTL DEF Spec

(* For every bound on the heap, an include that is done has kept obj's      *)
(* chain in order, given it an include class for every ancestor of the     *)
(* module, and added no other and none twice: IncludeInv says it of each   *)
(* turn of include_module's loop.                                          *)
THEOREM IncludesMerge == Spec => []IncludeMerges
<1>1. IInv /\ IncludeInv => IncludeMerges
  <2> SUFFICES ASSUME IInv, IncludeInv, Idle, inc.obj # NULL PROVE IncludeMerges
    BY DEF IncludeMerges
  <2>1. Good(heap)
    BY DEF IInv, TypeOK, NoCycle, Good
  <2>2. Above(heap, inc.module) = {}
    BY <2>1, AboveStep DEF Idle
  <2> QED BY <2>2 DEF IncludeMerges, IncludeInv
<1> QED BY InitIInv, NextIInv, InitInclude, NextInclude, <1>1, PTL DEF Spec

(* For every bound on the heap, no step changes the class a value answers   *)
(* to `class': real_class passes over whatever a step adds to its chain.   *)
THEOREM ClassesStay == Spec => ClassNeverChanges
<1>1. ASSUME IInv, IInv', [Next]_vars
      PROVE  [\A o \in Ids : heap[o].type # "IClass" =>
                  class_of(heap', o) = class_of(heap, o)]_vars
  <2>1. Good(heap) /\ Good(heap')
    BY <1>1 DEF IInv, TypeOK, NoCycle, Good, HeapOK, Acyclic
  <2>2. Extends(heap, heap')
    BY <1>1, NextExtends
  <2> QED BY <2>1, <2>2, ClassKept DEF Ids
<1> QED BY InitIInv, NextIInv, <1>1, PTL DEF Spec, ClassNeverChanges

(* For every bound on the heap, a class whose singleton class is below that *)
(* of its superclass stays so, whatever step follows.                      *)
THEOREM SingletonsStay == Spec => SingletonMethodsStayInherited
<1>1. ASSUME IInv, IInv', [Next]_vars
      PROVE  [\A c \in Classes : InheritsSingleton(heap, c) =>
                  InheritsSingleton(heap', c)]_vars
  <2>1. Good(heap) /\ Good(heap')
    BY <1>1 DEF IInv, TypeOK, NoCycle, Good, HeapOK, Acyclic
  <2>2. Extends(heap, heap')
    BY <1>1, NextExtends
  <2> QED BY <2>1, <2>2, SingletonStays DEF Classes, Exposed, Ids
<1> QED BY InitIInv, NextIInv, <1>1, PTL DEF Spec, SingletonMethodsStayInherited
=============================================================================
