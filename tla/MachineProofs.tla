--------------------------- MODULE MachineProofs ----------------------------
(***************************************************************************)
(* What the machine does with code that was verified: a closure finds the  *)
(* heaps its code looks up, and no instruction reads a register that was   *)
(* not written.  The machine checks neither; nor does it check that what   *)
(* it takes from a register, an argument or a list is what it is taken     *)
(* for.  The invariant therefore speaks of all values the machine holds,   *)
(* however deep in arrays, and of every frame, what it waits for included. *)
(***************************************************************************)
EXTENDS Machine, SequenceTheorems, WellFoundedInduction, TLAPS

-----------------------------------------------------------------------------
(* The invariant.                                                          *)

\* G holds what its values are made of, and knows no proc that was not made.
BasicValues == {NilValue, TrueValue, FalseValue, ObjectClass, Main, Globals, Passed1, Passed2}
ClosedValues(G, procs) ==
  /\ BasicValues \subseteq G
  /\ \A v \in G : v.v \in Seq(G) /\ (v.k = "proc" => v.n \in 1..procs)

\* The types of what the machine keeps, over values G.
FrameType(c, G, id) ==
  [code : {id}, ip : Int, self : G, modules : Seq(G), scopes : Seq(G), block : G, argv : Seq(G), dst : Int,
   vars : [Registers(c[id]) -> G], written : SUBSET Registers(c[id])]
NativeType(G) ==
  [code : {0}, ip : Int, self : G, modules : {<<>>}, scopes : {<<>>}, block : G, argv : {<<>>}, dst : Int, vars : {<<>>},
   written : {{}}]
FramesOf(c, G) == NativeType(G) \cup UNION {FrameType(c, G, id) : id \in DOMAIN c}
HeapType(c, G) == UNION {[owner : {id}, vars : [0..(c[id].heapVars - 1) -> G]] : id \in DOMAIN c}
ProcType(c, G) == [code : DOMAIN c, self : G, modules : Seq(G), scopes : Seq(G)]
Kinds == {"call", "super", "set", "def", "class", "module", "alias", "undef", "raise"}
Names == STRING \cup {Unnamed, CaseEquals, SingletonName}
EventType(G) == [kind : Kinds, name : Names, place : G, list : Seq(G)]
MachineType(c, G) ==
  [frames : Seq(FramesOf(c, G)), heaps : Seq(HeapType(c, G)), procs : Seq(ProcType(c, G)), trace : Seq(EventType(G))]

\* Heaps are where they are looked up.
IsHeapOf(heaps, v, owner) == v.k = "heap" /\ v.n \in DOMAIN heaps /\ heaps[v.n].owner = owner
ScopesMatch(c, heaps, scopes, id) ==
  /\ Len(scopes) = Len(c[id].references)
  /\ \A k \in DOMAIN scopes : IsHeapOf(heaps, scopes[k], c[id].references[k])
HeapsHeld(c, heaps, f) ==
  \A var \in f.written : \A owner \in DOMAIN c :
    HoldsHeap(c[f.code], f.code, var, owner) => IsHeapOf(heaps, f.vars[var], owner)

\* Code without heaps can be run as the body of a class or method.
FreeCode(c, id) == id \in DOMAIN c /\ c[id].references = <<>>
EventFits(c, e) ==
  /\ e.kind = "set" => e.list # <<>>
  /\ e.kind = "def" => e.list # <<>> /\ FreeCode(c, e.list[1].n)
ProcFits(c, heaps, proc) == proc.modules # <<>> /\ ScopesMatch(c, heaps, proc.scopes, proc.code)
FrameFits(c, heaps, f) ==
  IF f.code = 0 THEN f.block.k = "proc"
  ELSE f.modules # <<>> /\ ScopesMatch(c, heaps, f.scopes, f.code) /\ HeapsHeld(c, heaps, f)

\* Of the registers that are to be written where a frame goes on, those in awaited are not yet; if
\* not all registers are of interest, then only those for heaps are.
Plain(c, id) == Registers(c[id]) \ HeapRegisters(c[id])
Waits(c, all, f, awaited) ==
  f.code # 0 =>
    /\ f.ip \in DOMAIN c[f.code].ops
    /\ WrittenOnTheWay(c[f.code])[f.ip] \subseteq f.written \cup awaited \cup (IF all THEN {} ELSE Plain(c, f.code))
\* A frame waits for the result of the one above.
Awaits(c, all, f, dst) == f.code # 0 => dst \in OrNoVar(Plain(c, f.code)) /\ Waits(c, all, f, {dst} \ {NoVar})
Linked(c, all, f, above) == Awaits(c, all, f, above.dst)

Top(mm) == mm.frames[Len(mm.frames)]
Sound(c, all, mm, G) ==
  /\ mm \in MachineType(c, G) /\ ClosedValues(G, Len(mm.procs))
  /\ \A i \in DOMAIN mm.trace : EventFits(c, mm.trace[i])
  /\ \A i \in DOMAIN mm.procs : ProcFits(c, mm.heaps, mm.procs[i])
  /\ \A k \in DOMAIN mm.frames : FrameFits(c, mm.heaps, mm.frames[k])
  /\ \A k \in 1..(Len(mm.frames) - 1) : Linked(c, all, mm.frames[k], mm.frames[k + 1])
TopWaits(c, all, mm, awaited) == mm.frames # <<>> => Waits(c, all, Top(mm), awaited)
Fits(c, all, mm, G) == Sound(c, all, mm, G) /\ TopWaits(c, all, mm, {})

Inv(all) ==
  \/ status = "empty" /\ code = NoCode /\ m = [frames |-> <<>>, heaps |-> <<>>, procs |-> <<>>, trace |-> <<>>]
  \/ status \in {"ready", "running", "stopped"} /\ Verified(code) /\ \E G : Fits(code, all, m, G)

-----------------------------------------------------------------------------
(* Sequences and sets of numbers.                                          *)

\* A list made place by place.
LEMMA ListOf ==
  ASSUME NEW S, NEW n \in Nat, NEW f \in [1..n -> S]
  PROVE  f \in Seq(S) /\ Len(f) = n
<1>1. f \in Seq(S)
  OBVIOUS
<1>2. DOMAIN f = 1..n /\ DOMAIN f = 1..Len(f) /\ Len(f) \in Nat
  BY <1>1, LenProperties
<1> QED
  BY <1>2

\* The last element of a list.
LEMMA LastOf ==
  ASSUME NEW S, NEW s \in Seq(S), s # <<>>
  PROVE  Len(s) \in 1..Len(s) /\ s[Len(s)] \in S /\ Len(s) \in Nat \ {0}
<1>1. Len(s) \in Nat \ {0}
  BY EmptySeq
<1> QED
  BY <1>1, ElementOfSeq

\* A set of places has a first one, and a last one.
LEMMA EarliestExists ==
  ASSUME NEW places \in SUBSET Nat, places # {}
  PROVE  Earliest(places) \in places /\ \A k \in places : Earliest(places) <= k
<1>1. PICK x \in places : \A y \in places : ~(<<y, x>> \in OpToRel(<, Nat))
  BY NatLessThanWellFounded, WFMin
<1>2. \A y \in places : ~(y < x)
  BY <1>1 DEF OpToRel
<1>3. \A y \in places : x <= y
  BY <1>2
<1> QED
  BY <1>3 DEF Earliest

LEMMA LatestExists ==
  ASSUME NEW n \in Nat, NEW places \in SUBSET (0..n), places # {}
  PROVE  Latest(places) \in places /\ \A k \in places : k <= Latest(places)
<1> DEFINE left == {k \in Nat : n - k \in places}
<1>1. left \in SUBSET Nat /\ left # {}
  <2>1. PICK k \in places : TRUE
    OBVIOUS
  <2>2. n - k \in Nat /\ n - (n - k) = k
    BY <2>1
  <2> QED
    BY <2>2
<1>2. Earliest(left) \in left /\ \A k \in left : Earliest(left) <= k
  BY <1>1, EarliestExists
<1> DEFINE x == n - Earliest(left)
<1>3. x \in places
  BY <1>2
<1>4. \A k \in places : k <= x
  <2> SUFFICES ASSUME NEW k \in places PROVE k <= x
    OBVIOUS
  <2>1. n - k \in left
    <3>1. n - k \in Nat /\ n - (n - k) = k
      OBVIOUS
    <3> QED
      BY <3>1
  <2> QED
    BY <1>2, <2>1
<1> HIDE DEF x
<1> QED
  BY <1>3, <1>4 DEF Latest

-----------------------------------------------------------------------------
(* What happens to the machine as a whole.                                 *)

\* More values.
LEMMA GrowTypes ==
  ASSUME NEW c, NEW G, NEW H, G \subseteq H
  PROVE  MachineType(c, G) \subseteq MachineType(c, H)
<1>1. Seq(G) \subseteq Seq(H)
  BY SeqMonotonic
<1>2. FramesOf(c, G) \subseteq FramesOf(c, H)
  <2>1. NativeType(G) \subseteq NativeType(H)
    BY DEF NativeType
  <2>2. ASSUME NEW id \in DOMAIN c PROVE FrameType(c, G, id) \subseteq FrameType(c, H, id)
    <3>1. [Registers(c[id]) -> G] \subseteq [Registers(c[id]) -> H]
      OBVIOUS
    <3> QED
      BY <1>1, <3>1 DEF FrameType
  <2> QED
    BY <2>1, <2>2 DEF FramesOf
<1>3. HeapType(c, G) \subseteq HeapType(c, H)
  <2>1. ASSUME NEW id PROVE [0..(c[id].heapVars - 1) -> G] \subseteq [0..(c[id].heapVars - 1) -> H]
    OBVIOUS
  <2> QED
    BY <2>1 DEF HeapType
<1>4. ProcType(c, G) \subseteq ProcType(c, H)
  BY <1>1 DEF ProcType
<1>5. EventType(G) \subseteq EventType(H)
  BY <1>1 DEF EventType
<1>6. /\ Seq(FramesOf(c, G)) \subseteq Seq(FramesOf(c, H)) /\ Seq(HeapType(c, G)) \subseteq Seq(HeapType(c, H))
      /\ Seq(ProcType(c, G)) \subseteq Seq(ProcType(c, H)) /\ Seq(EventType(G)) \subseteq Seq(EventType(H))
  BY <1>2, <1>3, <1>4, <1>5, SeqMonotonic
<1> QED
  BY <1>6 DEF MachineType

\* A value may join that is made of values that are known.
LEMMA GrowSound ==
  ASSUME NEW c, NEW all, NEW mm, NEW G, Sound(c, all, mm, G),
         NEW v, v.v \in Seq(G), v.k = "proc" => v.n \in 1..Len(mm.procs)
  PROVE  Sound(c, all, mm, G \cup {v})
<1> DEFINE H == G \cup {v}
<1>1. mm \in MachineType(c, H)
  BY GrowTypes DEF Sound
<1>2. ClosedValues(H, Len(mm.procs))
  <2>1. Seq(G) \subseteq Seq(H)
    BY SeqMonotonic
  <2> QED
    BY <2>1 DEF Sound, ClosedValues
<1> QED
  BY <1>1, <1>2 DEF Sound

\* The fields of a machine.
LEMMA Parts ==
  ASSUME NEW c, NEW G, NEW mm \in MachineType(c, G)
  PROVE  /\ mm = [frames |-> mm.frames, heaps |-> mm.heaps, procs |-> mm.procs, trace |-> mm.trace]
         /\ mm.frames \in Seq(FramesOf(c, G)) /\ mm.heaps \in Seq(HeapType(c, G))
         /\ mm.procs \in Seq(ProcType(c, G)) /\ mm.trace \in Seq(EventType(G))
         /\ Len(mm.frames) \in Nat /\ DOMAIN mm.frames = 1..Len(mm.frames)
         /\ Len(mm.heaps) \in Nat /\ DOMAIN mm.heaps = 1..Len(mm.heaps)
         /\ Len(mm.procs) \in Nat /\ DOMAIN mm.procs = 1..Len(mm.procs)
         /\ Len(mm.trace) \in Nat /\ DOMAIN mm.trace = 1..Len(mm.trace)
<1>1. /\ mm = [frames |-> mm.frames, heaps |-> mm.heaps, procs |-> mm.procs, trace |-> mm.trace]
      /\ mm.frames \in Seq(FramesOf(c, G)) /\ mm.heaps \in Seq(HeapType(c, G))
      /\ mm.procs \in Seq(ProcType(c, G)) /\ mm.trace \in Seq(EventType(G))
  BY DEF MachineType
<1> QED
  BY <1>1, LenProperties

\* Other frames.
LEMMA FramesChange ==
  ASSUME NEW c, NEW all, NEW mm, NEW G, Sound(c, all, mm, G),
         NEW fs \in Seq(FramesOf(c, G)),
         \A k \in 1..Len(fs) : FrameFits(c, mm.heaps, fs[k]),
         \A k \in 1..(Len(fs) - 1) : Linked(c, all, fs[k], fs[k + 1])
  PROVE  Sound(c, all, [mm EXCEPT !.frames = fs], G)
<1> DEFINE after == [mm EXCEPT !.frames = fs]
<1>1. mm \in MachineType(c, G)
  BY DEF Sound
<1>2. /\ after.frames = fs /\ after.heaps = mm.heaps /\ after.procs = mm.procs /\ after.trace = mm.trace
      /\ after \in MachineType(c, G)
  BY <1>1, Parts DEF MachineType
<1>3. DOMAIN fs = 1..Len(fs)
  BY LenProperties
<1> HIDE DEF after
<1>4. Sound(c, all, after, G)
  BY <1>2, <1>3 DEF Sound
<1> QED
  BY <1>4 DEF after

\* Another frame on top that waits for the same.
LEMMA TopChange ==
  ASSUME NEW c, NEW all, NEW mm, NEW G, Sound(c, all, mm, G), mm.frames # <<>>,
         NEW f \in FramesOf(c, G), FrameFits(c, mm.heaps, f), f.dst = Top(mm).dst
  PROVE  LET after == [mm EXCEPT !.frames[Len(mm.frames)] = f]
         IN /\ Sound(c, all, after, G) /\ Top(after) = f /\ after.frames # <<>>
            /\ after.heaps = mm.heaps /\ after.procs = mm.procs /\ after.trace = mm.trace
<1> DEFINE n == Len(mm.frames)
           fs == [mm.frames EXCEPT ![n] = f]
           after == [mm EXCEPT !.frames[Len(mm.frames)] = f]
<1>1. mm \in MachineType(c, G)
  BY DEF Sound
<1>2. after = [mm EXCEPT !.frames = fs]
  BY <1>1, Parts
<1>3. mm.frames \in Seq(FramesOf(c, G)) /\ n \in 1..n /\ n \in Nat
  BY <1>1, Parts, LastOf
<1>4. fs \in Seq(FramesOf(c, G)) /\ Len(fs) = n /\ \A k \in 1..n : fs[k] = IF k = n THEN f ELSE mm.frames[k]
  BY <1>3, ExceptSeq
<1>5. \A k \in 1..Len(fs) : FrameFits(c, mm.heaps, fs[k])
  BY <1>1, <1>4, Parts DEF Sound
<1>6. ASSUME NEW k \in 1..(Len(fs) - 1) PROVE Linked(c, all, fs[k], fs[k + 1])
  <2>1. k \in 1..(n - 1) /\ k \in 1..n /\ k + 1 \in 1..n /\ k # n
    BY <1>3, <1>4
  <2>2. fs[k] = mm.frames[k] /\ fs[k + 1].dst = mm.frames[k + 1].dst
    BY <1>3, <1>4, <2>1 DEF Top
  <2>3. Linked(c, all, mm.frames[k], mm.frames[k + 1])
    BY <2>1 DEF Sound
  <2> QED
    BY <2>2, <2>3 DEF Linked
<1> HIDE DEF fs
<1>7. Sound(c, all, [mm EXCEPT !.frames = fs], G)
  BY <1>4, <1>5, <1>6, FramesChange
<1>8. /\ after.frames = fs /\ after.heaps = mm.heaps /\ after.procs = mm.procs /\ after.trace = mm.trace
  BY <1>1, <1>2, Parts
<1>9. fs # <<>> /\ fs[Len(fs)] = f
  BY <1>3, <1>4, EmptySeq
<1> HIDE DEF n
<1> QED
  BY <1>2, <1>7, <1>8, <1>9 DEF Top

\* A frame more.
LEMMA PushFrame ==
  ASSUME NEW c, NEW all, NEW mm, NEW G, Sound(c, all, mm, G),
         NEW f \in FramesOf(c, G), FrameFits(c, mm.heaps, f),
         mm.frames # <<>> => Linked(c, all, Top(mm), f)
  PROVE  Sound(c, all, Pushed(mm, f), G) /\ Top(Pushed(mm, f)) = f
<1> DEFINE n == Len(mm.frames)
           fs == Append(mm.frames, f)
<1>1. mm \in MachineType(c, G)
  BY DEF Sound
<1>2. Pushed(mm, f) = [mm EXCEPT !.frames = fs]
  BY <1>1, Parts DEF Pushed
<1>3. mm.frames \in Seq(FramesOf(c, G)) /\ n \in Nat
  BY <1>1, Parts
<1>4. /\ fs \in Seq(FramesOf(c, G)) /\ Len(fs) = n + 1 /\ fs[n + 1] = f
      /\ \A k \in 1..n : fs[k] = mm.frames[k]
  BY <1>3, AppendProperties
<1>5. \A k \in 1..Len(fs) : FrameFits(c, mm.heaps, fs[k])
  <2> SUFFICES ASSUME NEW k \in 1..Len(fs) PROVE FrameFits(c, mm.heaps, fs[k])
    OBVIOUS
  <2>1. CASE k = n + 1
    BY <1>4, <2>1
  <2>2. CASE k # n + 1
    <3>1. k \in 1..n
      BY <1>3, <1>4, <2>2
    <3> QED
      BY <1>1, <1>4, <3>1, Parts DEF Sound
  <2> QED
    BY <2>1, <2>2
<1>6. ASSUME NEW k \in 1..(Len(fs) - 1) PROVE Linked(c, all, fs[k], fs[k + 1])
  <2>1. k \in 1..n
    BY <1>3, <1>4
  <2>2. CASE k = n
    <3>1. mm.frames # <<>>
      BY <2>1, <2>2, EmptySeq
    <3> QED
      BY <1>4, <2>1, <2>2, <3>1 DEF Top
  <2>3. CASE k # n
    <3>1. k \in 1..(n - 1) /\ k + 1 \in 1..n
      BY <1>3, <2>1, <2>3
    <3> QED
      BY <1>4, <2>1, <3>1 DEF Sound
  <2> QED
    BY <2>2, <2>3
<1> HIDE DEF fs
<1>7. Sound(c, all, [mm EXCEPT !.frames = fs], G)
  BY <1>4, <1>5, <1>6, FramesChange
<1>8. [mm EXCEPT !.frames = fs].frames = fs
  BY <1>1, Parts
<1> HIDE DEF n
<1> QED
  BY <1>2, <1>4, <1>7, <1>8 DEF Top

\* Fewer frames.
LEMMA FewerFrames ==
  ASSUME NEW c, NEW all, NEW mm, NEW G, Sound(c, all, mm, G), NEW k \in 0..Len(mm.frames),
         NEW after, after = [mm EXCEPT !.frames = SubSeq(@, 1, k)]
  PROVE  /\ Sound(c, all, after, G) /\ Len(after.frames) = k
         /\ \A j \in 1..k : after.frames[j] = mm.frames[j]
         /\ after.heaps = mm.heaps /\ after.procs = mm.procs /\ after.trace = mm.trace
<1> DEFINE n == Len(mm.frames)
           fs == SubSeq(mm.frames, 1, k)
<1>1. mm \in MachineType(c, G)
  BY DEF Sound
<1>2. mm.frames \in Seq(FramesOf(c, G)) /\ n \in Nat
  BY <1>1, Parts
<1>3. \A j \in 1..k : mm.frames[j] \in FramesOf(c, G)
  BY <1>2, ElementOfSeq
<1>4. k \in Nat /\ k <= n /\ k - 1 + 1 = k
  BY <1>2
<1>5. fs \in Seq(FramesOf(c, G)) /\ Len(fs) = k /\ \A j \in 1..k : fs[j] = mm.frames[j]
  <2>1. /\ fs \in Seq(FramesOf(c, G))
        /\ Len(fs) = IF 1 <= k THEN k - 1 + 1 ELSE 0
        /\ \A j \in 1..(k - 1 + 1) : fs[j] = mm.frames[1 + j - 1]
    BY <1>3, <1>4, SubSeqProperties
  <2> QED
    BY <1>4, <2>1
<1> HIDE DEF fs
<1>6. \A j \in 1..Len(fs) : FrameFits(c, mm.heaps, fs[j])
  BY <1>1, <1>4, <1>5, Parts DEF Sound
<1>7. ASSUME NEW j \in 1..(Len(fs) - 1) PROVE Linked(c, all, fs[j], fs[j + 1])
  <2>1. j \in 1..(n - 1) /\ j \in 1..k /\ j + 1 \in 1..k
    BY <1>2, <1>4, <1>5
  <2>2. fs[j] = mm.frames[j] /\ fs[j + 1] = mm.frames[j + 1]
    BY <1>5, <2>1
  <2>3. Linked(c, all, mm.frames[j], mm.frames[j + 1])
    BY <2>1 DEF Sound
  <2> QED
    BY <2>2, <2>3
<1>8. Sound(c, all, [mm EXCEPT !.frames = fs], G)
  BY <1>5, <1>6, <1>7, FramesChange
<1>9. after = [mm EXCEPT !.frames = fs]
  BY <1>1, Parts DEF fs
<1>10. /\ after.frames = fs /\ after.heaps = mm.heaps /\ after.procs = mm.procs /\ after.trace = mm.trace
  BY <1>1, <1>9, Parts
<1> QED
  BY <1>5, <1>8, <1>9, <1>10

\* The frame on top.
LEMMA TopFrame ==
  ASSUME NEW c, NEW all, NEW mm, NEW G, Sound(c, all, mm, G), mm.frames # <<>>
  PROVE  /\ Top(mm) \in FramesOf(c, G) /\ FrameFits(c, mm.heaps, Top(mm))
         /\ Top(mm).code # 0 => Top(mm).code \in DOMAIN c /\ Top(mm) \in FrameType(c, G, Top(mm).code)
         /\ Top(mm).block \in G /\ Top(mm).self \in G /\ Top(mm).dst \in Int /\ Top(mm).ip \in Int
         /\ Len(mm.frames) \in DOMAIN mm.frames /\ Len(mm.frames) \in Nat
<1>1. mm \in MachineType(c, G)
  BY DEF Sound
<1>2. mm.frames \in Seq(FramesOf(c, G)) /\ DOMAIN mm.frames = 1..Len(mm.frames)
  BY <1>1, Parts
<1>3. Len(mm.frames) \in DOMAIN mm.frames /\ Top(mm) \in FramesOf(c, G) /\ Len(mm.frames) \in Nat
  BY <1>2, LastOf DEF Top
<1>4. FrameFits(c, mm.heaps, Top(mm))
  BY <1>3 DEF Sound, Top
<1>5. CASE Top(mm) \in NativeType(G)
  BY <1>3, <1>4, <1>5 DEF NativeType
<1>6. CASE Top(mm) \notin NativeType(G)
  <2>1. PICK id \in DOMAIN c : Top(mm) \in FrameType(c, G, id)
    BY <1>3, <1>6 DEF FramesOf
  <2>2. /\ Top(mm).code = id /\ Top(mm).block \in G /\ Top(mm).self \in G /\ Top(mm).dst \in Int
        /\ Top(mm).ip \in Int
    BY <2>1 DEF FrameType
  <2> QED
    BY <1>3, <1>4, <2>1, <2>2
<1> QED
  BY <1>5, <1>6

\* The machine goes on elsewhere.
LEMMA GoesTo ==
  ASSUME NEW c, NEW all, NEW mm, NEW G, Sound(c, all, mm, G), mm.frames # <<>>, NEW ip \in Int,
         NEW after, after = [mm EXCEPT !.frames[Len(mm.frames)].ip = ip]
  PROVE  /\ Sound(c, all, after, G) /\ Top(after) = [Top(mm) EXCEPT !.ip = ip] /\ after.frames # <<>>
         /\ after.heaps = mm.heaps /\ after.procs = mm.procs /\ after.trace = mm.trace
<1> DEFINE f == [Top(mm) EXCEPT !.ip = ip]
<1>1. mm \in MachineType(c, G)
  BY DEF Sound
<1>2. f \in FramesOf(c, G) /\ f.dst = Top(mm).dst /\ f.code = Top(mm).code
  <2>1. CASE Top(mm) \in NativeType(G)
    <3>1. f \in NativeType(G) /\ f.dst = Top(mm).dst /\ f.code = Top(mm).code
      BY <2>1 DEF NativeType
    <3> QED
      BY <3>1 DEF FramesOf
  <2>2. CASE Top(mm) \notin NativeType(G)
    <3>1. PICK id \in DOMAIN c : Top(mm) \in FrameType(c, G, id)
      BY <2>2, TopFrame DEF FramesOf
    <3>2. f \in FrameType(c, G, id) /\ f.dst = Top(mm).dst /\ f.code = Top(mm).code
      BY <3>1 DEF FrameType
    <3> QED
      BY <3>2 DEF FramesOf
  <2> QED
    BY <2>1, <2>2
<1>3. FrameFits(c, mm.heaps, f)
  <2>1. FrameFits(c, mm.heaps, Top(mm))
    BY TopFrame
  <2>2. /\ f.block = Top(mm).block /\ f.modules = Top(mm).modules /\ f.scopes = Top(mm).scopes
        /\ f.written = Top(mm).written /\ f.vars = Top(mm).vars
    OBVIOUS
  <2> QED
    BY <1>2, <2>1, <2>2 DEF FrameFits, HeapsHeld
<1> HIDE DEF f
<1>4. [mm EXCEPT !.frames[Len(mm.frames)].ip = ip] = [mm EXCEPT !.frames[Len(mm.frames)] = f]
  BY <1>1, Parts, TopFrame DEF f, Top
<1>5. LET other == [mm EXCEPT !.frames[Len(mm.frames)] = f]
      IN /\ Sound(c, all, other, G) /\ Top(other) = f /\ other.frames # <<>>
         /\ other.heaps = mm.heaps /\ other.procs = mm.procs /\ other.trace = mm.trace
  BY <1>2, <1>3, TopChange
<1> QED
  BY <1>4, <1>5 DEF f

\* A register is written.
LEMMA SetRegister ==
  ASSUME NEW c, NEW all, NEW mm, NEW G, Sound(c, all, mm, G), mm.frames # <<>>, Top(mm).code # 0,
         NEW var \in Registers(c[Top(mm).code]), NEW v \in G,
         \A owner \in DOMAIN c : HoldsHeap(c[Top(mm).code], Top(mm).code, var, owner) => IsHeapOf(mm.heaps, v, owner)
  PROVE  LET after == SetIn(mm, var, v)
         IN /\ Sound(c, all, after, G) /\ after.frames # <<>>
            /\ Top(after).code = Top(mm).code /\ Top(after).ip = Top(mm).ip
            /\ Top(after).written = Top(mm).written \cup {var}
            /\ after.heaps = mm.heaps /\ after.procs = mm.procs /\ after.trace = mm.trace
<1> DEFINE f == Top(mm)
           vars == [f.vars EXCEPT ![var] = v]
           g == [f EXCEPT !.vars = vars, !.written = @ \cup {var}]
<1>1. mm \in MachineType(c, G)
  BY DEF Sound
<1>2. f.code \in DOMAIN c /\ f \in FrameType(c, G, f.code) /\ FrameFits(c, mm.heaps, f)
  BY TopFrame
<1>3. f.vars \in [Registers(c[f.code]) -> G]
  BY <1>2 DEF FrameType
<1>4. vars \in [Registers(c[f.code]) -> G] /\ vars[var] = v /\ \A w \in Registers(c[f.code]) \ {var} : vars[w] = f.vars[w]
  BY <1>3
<1> HIDE DEF vars
<1>5. /\ g \in FrameType(c, G, f.code) /\ g.dst = f.dst /\ g.code = f.code /\ g.ip = f.ip /\ g.vars = vars
      /\ g.written = f.written \cup {var} /\ g.modules = f.modules /\ g.scopes = f.scopes
      /\ f.written \subseteq Registers(c[f.code])
  BY <1>2, <1>4 DEF FrameType
<1>6. HeapsHeld(c, mm.heaps, g)
  <2> SUFFICES ASSUME NEW w \in g.written, NEW owner \in DOMAIN c, HoldsHeap(c[f.code], f.code, w, owner)
               PROVE  IsHeapOf(mm.heaps, vars[w], owner)
    BY <1>5 DEF HeapsHeld
  <2>1. CASE w = var
    BY <1>4, <2>1
  <2>2. CASE w # var
    <3>1. w \in f.written /\ vars[w] = f.vars[w]
      BY <1>4, <1>5, <2>2
    <3> QED
      BY <1>2, <3>1 DEF FrameFits, HeapsHeld
  <2> QED
    BY <2>1, <2>2
<1>7. FrameFits(c, mm.heaps, g)
  BY <1>2, <1>5, <1>6 DEF FrameFits
<1>8. SetIn(mm, var, v) = [mm EXCEPT !.frames[Len(mm.frames)] = g]
  BY <1>1, Parts, TopFrame DEF SetIn, vars, Top
<1>9. g \in FramesOf(c, G)
  BY <1>2, <1>5 DEF FramesOf
<1> HIDE DEF g
<1> QED
  BY <1>5, <1>7, <1>8, <1>9, TopChange

\* What is seen from outside.
LEMMA EventOf ==
  ASSUME NEW G, NEW kind \in Kinds, NEW name \in Names, NEW place \in G, NEW list \in Seq(G)
  PROVE  LET e == Event(kind, name, place, list) IN e \in EventType(G) /\ e.kind = kind /\ e.list = list
BY DEF EventType, Event

LEMMA EventFit ==
  ASSUME NEW c, NEW e,
         \/ e.kind \notin {"set", "def"}
         \/ e.kind = "set" /\ e.list # <<>>
         \/ e.kind = "def" /\ e.list # <<>> /\ FreeCode(c, e.list[1].n)
  PROVE  EventFits(c, e)
BY DEF EventFits

\* Other events.
LEMMA TraceChange ==
  ASSUME NEW c, NEW all, NEW mm, NEW G, Sound(c, all, mm, G),
         NEW tr \in Seq(EventType(G)), \A i \in DOMAIN tr : EventFits(c, tr[i])
  PROVE  LET after == [mm EXCEPT !.trace = tr]
         IN /\ Sound(c, all, after, G) /\ Top(after) = Top(mm)
            /\ after.frames = mm.frames /\ after.heaps = mm.heaps /\ after.procs = mm.procs /\ after.trace = tr
<1> DEFINE after == [mm EXCEPT !.trace = tr]
<1>1. mm \in MachineType(c, G)
  BY DEF Sound
<1>2. /\ after.frames = mm.frames /\ after.heaps = mm.heaps /\ after.procs = mm.procs /\ after.trace = tr
      /\ after \in MachineType(c, G)
  BY <1>1, Parts DEF MachineType
<1> HIDE DEF after
<1>3. Sound(c, all, after, G) /\ Top(after) = Top(mm)
  BY <1>2 DEF Sound, Top
<1> QED
  BY <1>2, <1>3 DEF after

\* More events.
LEMMA MoreEvents ==
  ASSUME NEW c, NEW all, NEW mm, NEW G, Sound(c, all, mm, G),
         NEW list \in Seq(EventType(G)), \A i \in DOMAIN list : EventFits(c, list[i])
  PROVE  /\ mm.trace \o list \in Seq(EventType(G))
         /\ \A i \in DOMAIN (mm.trace \o list) : EventFits(c, (mm.trace \o list)[i])
<1> DEFINE tr == mm.trace \o list
<1>1. mm \in MachineType(c, G)
  BY DEF Sound
<1>2. mm.trace \in Seq(EventType(G)) /\ Len(list) \in Nat /\ DOMAIN list = 1..Len(list) /\ DOMAIN mm.trace = 1..Len(mm.trace)
  BY <1>1, Parts, LenProperties
<1>3. /\ tr \in Seq(EventType(G)) /\ Len(tr) = Len(mm.trace) + Len(list)
      /\ \A i \in 1..(Len(mm.trace) + Len(list)) :
           tr[i] = IF i <= Len(mm.trace) THEN mm.trace[i] ELSE list[i - Len(mm.trace)]
  BY <1>2, ConcatProperties
<1> HIDE DEF tr
<1>4. DOMAIN tr = 1..(Len(mm.trace) + Len(list)) /\ Len(mm.trace) \in Nat
  BY <1>1, <1>3, Parts, LenProperties
<1>5. ASSUME NEW i \in DOMAIN tr PROVE EventFits(c, tr[i])
  <2>1. CASE i <= Len(mm.trace)
    <3>1. i \in DOMAIN mm.trace /\ tr[i] = mm.trace[i]
      BY <1>2, <1>3, <1>4, <2>1
    <3> QED
      BY <3>1 DEF Sound
  <2>2. CASE ~(i <= Len(mm.trace))
    <3>1. i - Len(mm.trace) \in DOMAIN list /\ tr[i] = list[i - Len(mm.trace)]
      BY <1>2, <1>3, <1>4, <2>2
    <3> QED
      BY <3>1
  <2> QED
    BY <2>1, <2>2
<1> QED
  BY <1>3, <1>5 DEF tr

\* One event more.
LEMMA OneEvent ==
  ASSUME NEW c, NEW all, NEW mm, NEW G, Sound(c, all, mm, G), NEW e \in EventType(G), EventFits(c, e)
  PROVE  LET after == Traced(mm, e)
         IN /\ Sound(c, all, after, G) /\ Top(after) = Top(mm)
            /\ after.frames = mm.frames /\ after.heaps = mm.heaps /\ after.procs = mm.procs
            /\ after.trace = Append(mm.trace, e)
<1> DEFINE list == <<e>>
           tr == Append(mm.trace, e)
<1>1. mm \in MachineType(c, G)
  BY DEF Sound
<1>2. tr = mm.trace \o list
  BY <1>1, Parts, AppendIsConcat
<1>3. list \in Seq(EventType(G)) /\ \A i \in DOMAIN list : EventFits(c, list[i])
  OBVIOUS
<1>4. Traced(mm, e) = [mm EXCEPT !.trace = tr]
  BY <1>1, Parts DEF Traced
<1> HIDE DEF list, tr
<1>5. tr \in Seq(EventType(G)) /\ \A i \in DOMAIN tr : EventFits(c, tr[i])
  BY <1>2, <1>3, MoreEvents
<1>6. LET after == [mm EXCEPT !.trace = tr]
      IN /\ Sound(c, all, after, G) /\ Top(after) = Top(mm)
         /\ after.frames = mm.frames /\ after.heaps = mm.heaps /\ after.procs = mm.procs /\ after.trace = tr
  BY <1>5, TraceChange
<1> QED
  BY <1>4, <1>6 DEF tr

\* The program is ended.
LEMMA Aborted ==
  ASSUME NEW c, NEW all, NEW mm, NEW G, Sound(c, all, mm, G)
  PROVE  Fits(c, all, Abort(mm), G)
<1> DEFINE none == <<>>
           e == Event("raise", Unnamed, NilValue, none)
           traced == Traced(mm, e)
<1>1. NilValue \in G /\ none \in Seq(G)
  BY EmptySeq DEF Sound, ClosedValues, BasicValues
<1> HIDE DEF none
<1>2. e \in EventType(G) /\ e.kind = "raise"
  <2>1. "raise" \in Kinds /\ Unnamed \in Names
    BY DEF Kinds, Names
  <2> QED
    BY <1>1, <2>1, EventOf
<1> HIDE DEF e
<1>3. Sound(c, all, traced, G)
  BY <1>2, EventFit, OneEvent
<1>4. Sound(c, all, [traced EXCEPT !.frames = <<>>], G)
  <2>1. <<>> \in Seq(FramesOf(c, G)) /\ Len(<<>>) = 0
    BY EmptySeq
  <2>2. 1..0 = {} /\ 1..(0 - 1) = {}
    OBVIOUS
  <2> QED
    BY <1>3, <2>1, <2>2, FramesChange
<1>5. mm \in MachineType(c, G)
  BY DEF Sound
<1>6. Abort(mm) = [traced EXCEPT !.frames = <<>>] /\ Abort(mm).frames = <<>>
  BY <1>5, Parts DEF Abort, Traced, e, none
<1> QED
  BY <1>4, <1>6 DEF Fits, TopWaits

\* Heaps of the same scopes, and maybe more.
LEMMA HeapsChange ==
  ASSUME NEW c, NEW all, NEW mm, NEW G, Sound(c, all, mm, G),
         NEW hs \in Seq(HeapType(c, G)),
         \A n \in DOMAIN mm.heaps : n \in DOMAIN hs /\ hs[n].owner = mm.heaps[n].owner
  PROVE  LET after == [mm EXCEPT !.heaps = hs]
         IN /\ Sound(c, all, after, G) /\ Top(after) = Top(mm)
            /\ after.frames = mm.frames /\ after.heaps = hs /\ after.procs = mm.procs /\ after.trace = mm.trace
<1> DEFINE after == [mm EXCEPT !.heaps = hs]
<1>1. mm \in MachineType(c, G)
  BY DEF Sound
<1>2. /\ after.frames = mm.frames /\ after.heaps = hs /\ after.procs = mm.procs /\ after.trace = mm.trace
      /\ after \in MachineType(c, G)
  BY <1>1, Parts DEF MachineType
<1>3. \A v, owner : IsHeapOf(mm.heaps, v, owner) => IsHeapOf(hs, v, owner)
  BY DEF IsHeapOf
<1>4. ASSUME NEW i \in DOMAIN mm.procs PROVE ProcFits(c, hs, mm.procs[i])
  <2>1. ProcFits(c, mm.heaps, mm.procs[i])
    BY DEF Sound
  <2> QED
    BY <1>3, <2>1 DEF ProcFits, ScopesMatch
<1>5. ASSUME NEW k \in DOMAIN mm.frames PROVE FrameFits(c, hs, mm.frames[k])
  <2>1. FrameFits(c, mm.heaps, mm.frames[k])
    BY DEF Sound
  <2> QED
    BY <1>3, <2>1 DEF FrameFits, ScopesMatch, HeapsHeld
<1> HIDE DEF after
<1>6. Sound(c, all, after, G) /\ Top(after) = Top(mm)
  BY <1>2, <1>4, <1>5 DEF Sound, Top
<1> QED
  BY <1>2, <1>6 DEF after

\* A proc more.
LEMMA OneProc ==
  ASSUME NEW c, NEW all, NEW mm, NEW G, Sound(c, all, mm, G), NEW proc \in ProcType(c, G), ProcFits(c, mm.heaps, proc)
  PROVE  LET after == [mm EXCEPT !.procs = Append(mm.procs, proc)]
         IN /\ Sound(c, all, after, G) /\ Top(after) = Top(mm)
            /\ after.frames = mm.frames /\ after.heaps = mm.heaps /\ after.trace = mm.trace
            /\ Len(after.procs) = Len(mm.procs) + 1
<1> DEFINE ps == Append(mm.procs, proc)
           after == [mm EXCEPT !.procs = ps]
<1>1. mm \in MachineType(c, G)
  BY DEF Sound
<1>2. mm.procs \in Seq(ProcType(c, G)) /\ DOMAIN mm.procs = 1..Len(mm.procs) /\ Len(mm.procs) \in Nat
  BY <1>1, Parts
<1>3. /\ ps \in Seq(ProcType(c, G)) /\ Len(ps) = Len(mm.procs) + 1
      /\ \A i \in 1..Len(mm.procs) : ps[i] = mm.procs[i]
      /\ ps[Len(mm.procs) + 1] = proc
  BY <1>2, AppendProperties
<1> HIDE DEF ps
<1>4. DOMAIN ps = 1..(Len(mm.procs) + 1)
  BY <1>3, LenProperties
<1>5. ASSUME NEW i \in DOMAIN ps PROVE ProcFits(c, mm.heaps, ps[i])
  <2>1. i \in DOMAIN mm.procs \/ i = Len(mm.procs) + 1
    BY <1>2, <1>4
  <2> QED
    BY <1>2, <1>3, <2>1 DEF Sound
<1>6. /\ after.frames = mm.frames /\ after.heaps = mm.heaps /\ after.procs = ps /\ after.trace = mm.trace
      /\ after \in MachineType(c, G)
  BY <1>1, <1>3, Parts DEF MachineType
<1>7. ClosedValues(G, Len(ps))
  <2>1. \A n \in 1..Len(mm.procs) : n \in 1..Len(ps)
    BY <1>2, <1>3
  <2> QED
    BY <2>1 DEF Sound, ClosedValues
<1> HIDE DEF after
<1>8. Sound(c, all, after, G) /\ Top(after) = Top(mm)
  BY <1>5, <1>6, <1>7 DEF Sound, Top
<1> QED
  BY <1>3, <1>6, <1>8 DEF after, ps

\* What a frame waits for arrives.
LEMMA ResultLands ==
  ASSUME NEW all, NEW mm, NEW G, Sound(code, all, mm, G), mm.frames # <<>>, Top(mm).code # 0,
         NEW v \in G, NEW dst, Awaits(code, all, Top(mm), dst)
  PROVE  Fits(code, all, SetIfVar(mm, dst, v), G)
<1>1. dst \in OrNoVar(Plain(code, Top(mm).code)) /\ Waits(code, all, Top(mm), {dst} \ {NoVar})
  BY DEF Awaits
<1>2. CASE dst = NoVar
  <2>1. {dst} \ {NoVar} = {}
    BY <1>2
  <2>2. Waits(code, all, Top(mm), {}) /\ SetIfVar(mm, dst, v) = mm
    BY <1>1, <1>2, <2>1 DEF SetIfVar
  <2> QED
    BY <2>2 DEF Fits, TopWaits
<1>3. CASE dst # NoVar
  <2> DEFINE after == SetIn(mm, dst, v)
  <2>1. SetIfVar(mm, dst, v) = after
    BY <1>3 DEF SetIfVar
  <2>2. dst \in Registers(code[Top(mm).code]) /\ dst \notin HeapRegisters(code[Top(mm).code])
    BY <1>1, <1>3 DEF OrNoVar, Plain
  <2>3. \A owner : ~HoldsHeap(code[Top(mm).code], Top(mm).code, dst, owner)
    BY <2>2 DEF HoldsHeap, HeapRegisters
  <2>4. /\ Sound(code, all, after, G) /\ Top(after).code = Top(mm).code /\ Top(after).ip = Top(mm).ip
        /\ Top(after).written = Top(mm).written \cup {dst}
    BY <2>2, <2>3, SetRegister
  <2> HIDE DEF after
  <2>5. Waits(code, all, Top(after), {})
    BY <1>1, <2>4 DEF Waits
  <2> QED
    BY <2>1, <2>4, <2>5 DEF Fits, TopWaits
<1> QED
  BY <1>2, <1>3

\* A value goes back.
LEMMA GivesBack ==
  ASSUME NEW all, NEW mm, NEW G, Sound(code, all, mm, G), mm.frames # <<>>, NEW v \in G
  PROVE  Fits(code, all, GiveBack(mm, v), G)
<1> DEFINE n == Len(mm.frames)
           below == [mm EXCEPT !.frames = SubSeq(@, 1, n - 1)]
           dst == Top(mm).dst
<1>1. mm \in MachineType(code, G)
  BY DEF Sound
<1>2. n \in DOMAIN mm.frames /\ n \in Nat /\ DOMAIN mm.frames = 1..n
  BY <1>1, Parts, TopFrame
<1>3. n - 1 \in 0..Len(mm.frames) /\ n \in 1..n
  BY <1>2
<1> HIDE DEF n
<1>4. /\ Sound(code, all, below, G) /\ Len(below.frames) = n - 1
      /\ \A j \in 1..(n - 1) : below.frames[j] = mm.frames[j]
  BY <1>3, FewerFrames
<1>5. below = Popped(mm)
  BY <1>1, Parts DEF Popped, n
<1> HIDE DEF below
<1>6. /\ below.frames = <<>> => GiveBack(mm, v) = below
      /\ below.frames # <<>> /\ Top(below).code = 0 => GiveBack(mm, v) = below
      /\ below.frames # <<>> /\ Top(below).code # 0 => GiveBack(mm, v) = SetIfVar(below, dst, v)
  BY <1>5 DEF GiveBack, Top
<1>7. CASE below.frames = <<>>
  BY <1>4, <1>6, <1>7 DEF Fits, TopWaits
<1>8. CASE below.frames # <<>>
  <2>1. CASE Top(below).code = 0
    BY <1>4, <1>6, <1>8, <2>1 DEF Fits, TopWaits, Waits
  <2>2. CASE Top(below).code # 0
    <3>1. Len(below.frames) \in 1..Len(below.frames)
      BY <1>4, <1>8, TopFrame, Parts DEF Sound
    <3>2. n - 1 \in 1..(n - 1) /\ n - 1 + 1 = n
      BY <1>2, <1>4, <3>1
    <3>3. Top(below) = mm.frames[n - 1]
      BY <1>4, <3>2 DEF Top
    <3>4. Linked(code, all, mm.frames[n - 1], mm.frames[n - 1 + 1])
      BY <3>2 DEF Sound, n
    <3>5. Awaits(code, all, Top(below), dst)
      BY <3>2, <3>3, <3>4 DEF Linked, Top, n
    <3> QED
      BY <1>4, <1>6, <1>8, <2>2, <3>5, ResultLands
  <2> QED
    BY <2>1, <2>2
<1> QED
  BY <1>7, <1>8

\* The frames left by a break or return out of a closure.
LEMMA UnwoundTo ==
  ASSUME NEW all, NEW mm, NEW G, Sound(code, all, mm, G), NEW id
  PROVE  LET k == FrameOf(mm, id)
             after == Unwound(mm, id)
         IN /\ k \in 0..Len(mm.frames) /\ (k # 0 => mm.frames[k].code = id)
            /\ Sound(code, all, after, G) /\ Len(after.frames) = k
            /\ \A j \in 1..k : after.frames[j] = mm.frames[j]
<1> DEFINE n == Len(mm.frames)
           at == {k \in DOMAIN mm.frames : mm.frames[k].code = id}
           k == FrameOf(mm, id)
<1>1. mm \in MachineType(code, G)
  BY DEF Sound
<1>2. n \in Nat /\ DOMAIN mm.frames = 1..n
  BY <1>1, Parts
<1>3. k \in 0..n /\ (k # 0 => mm.frames[k].code = id)
  <2>1. k = IF at = {} THEN 0 ELSE Latest(at)
    BY DEF FrameOf
  <2>2. CASE at = {}
    BY <1>2, <2>1, <2>2
  <2>3. CASE at # {}
    <3>1. at \in SUBSET (0..n)
      BY <1>2
    <3>2. Latest(at) \in at
      BY <1>2, <2>3, <3>1, LatestExists
    <3> QED
      BY <1>2, <2>1, <2>3, <3>2
  <2> QED
    BY <2>2, <2>3
<1> HIDE DEF k
<1>4. Unwound(mm, id) = [mm EXCEPT !.frames = SubSeq(@, 1, k)]
  BY DEF Unwound, k
<1> DEFINE after == Unwound(mm, id)
<1> HIDE DEF after
<1>5. Sound(code, all, after, G) /\ Len(after.frames) = k /\ \A j \in 1..k : after.frames[j] = mm.frames[j]
  BY <1>3, <1>4, FewerFrames DEF after
<1> QED
  BY <1>3, <1>5 DEF k, after

\* The frame of code that is entered.
LEMMA NewFrameType ==
  ASSUME NEW G, Verified(code), NEW id \in DOMAIN code, NilValue \in G,
         NEW self \in G, NEW modules \in Seq(G), NEW scopes \in Seq(G), NEW block \in G, NEW argv \in Seq(G), NEW dst \in Int
  PROVE  Frame(id, self, modules, scopes, block, argv, dst) \in FrameType(code, G, id)
<1> DEFINE one == code[id]
           vars == [i \in Registers(one) |-> NilValue]
<1>1. CodeShape(one, DOMAIN code) /\ VerifiedScope(code, id)
  BY DEF Verified
<1>2. Locals(one) \subseteq Registers(one)
  BY <1>1 DEF CodeShape, VerifiedScope, Locals, Registers
<1>3. vars \in [Registers(one) -> G]
  OBVIOUS
<1> HIDE DEF vars, one
<1> QED
  BY <1>2, <1>3 DEF Frame, vars, one, FrameType

LEMMA NewFrame ==
  ASSUME NEW heaps, Verified(code), NEW id \in DOMAIN code, NEW modules, modules # <<>>,
         NEW scopes, ScopesMatch(code, heaps, scopes, id), NEW self, NEW block, NEW argv, NEW dst,
         NEW f, f = Frame(id, self, modules, scopes, block, argv, dst)
  PROVE  FrameFits(code, heaps, f) /\ \A all : Waits(code, all, f, {})
<1> DEFINE one == code[id]
           W == WrittenOnTheWay(one)
<1>1. CodeShape(one, DOMAIN code) /\ VerifiedScope(code, id) /\ id # 0
  BY DEF Verified
<1>2. Locals(one) \subseteq Registers(one)
  BY <1>1 DEF CodeShape, VerifiedScope, Locals, Registers
<1>3. HeapRegisters(one) \cap Locals(one) = {}
  BY <1>1 DEF VerifiedScope, HeapRegistersKept
<1>4. W[1] \subseteq Locals(one)
  BY <1>1 DEF VerifiedScope
<1>5. 1 \in DOMAIN one.ops
  <2>1. one.ops # <<>> /\ Len(one.ops) \in Nat /\ DOMAIN one.ops = 1..Len(one.ops)
    BY <1>1 DEF CodeShape, VerifiedScope
  <2> QED
    BY <2>1
<1>6. f.code = id /\ f.ip = 1 /\ f.written = Locals(one) /\ f.modules = modules /\ f.scopes = scopes
  BY DEF Frame
<1> HIDE DEF one
<1>7. HeapsHeld(code, heaps, f)
  <2>1. \A var \in Locals(one) : \A owner : ~HoldsHeap(one, id, var, owner)
    BY <1>2, <1>3 DEF HoldsHeap, HeapRegisters
  <2> QED
    BY <1>6, <2>1 DEF HeapsHeld, one
<1>8. FrameFits(code, heaps, f)
  BY <1>1, <1>6, <1>7 DEF FrameFits
<1>9. \A all : Waits(code, all, f, {})
  BY <1>4, <1>5, <1>6 DEF Waits, one
<1> QED
  BY <1>8, <1>9

\* Code is called, or its arguments are too few or too many.
LEMMA CodeCalled ==
  ASSUME NEW all, NEW mm, NEW G, Verified(code), Sound(code, all, mm, G), NEW id \in DOMAIN code,
         NEW self \in G, NEW modules \in Seq(G), modules # <<>>, NEW scopes \in Seq(G), ScopesMatch(code, mm.heaps, scopes, id),
         NEW block \in G, NEW argv \in Seq(G), NEW dst \in Int,
         mm.frames # <<>> => Awaits(code, all, Top(mm), dst)
  PROVE  Fits(code, all, CallCode(mm, id, self, modules, scopes, block, argv, dst), G)
<1> DEFINE f == Frame(id, self, modules, scopes, block, argv, dst)
<1>1. NilValue \in G
  BY DEF Sound, ClosedValues, BasicValues
<1>2. CallCode(mm, id, self, modules, scopes, block, argv, dst) \in {Pushed(mm, f), Abort(mm)}
  BY DEF CallCode
<1>3. f = Frame(id, self, modules, scopes, block, argv, dst)
  OBVIOUS
<1> HIDE DEF f
<1>4. f \in FramesOf(code, G) /\ f.dst = dst
  <2>1. f \in FrameType(code, G, id)
    BY <1>1, NewFrameType DEF f
  <2> QED
    BY <1>3, <2>1 DEF Frame, FramesOf
<1>5. FrameFits(code, mm.heaps, f) /\ Waits(code, all, f, {})
  BY <1>3, NewFrame
<1>6. Sound(code, all, Pushed(mm, f), G) /\ Top(Pushed(mm, f)) = f
  BY <1>4, <1>5, PushFrame DEF Linked
<1>7. Fits(code, all, Pushed(mm, f), G)
  BY <1>5, <1>6 DEF Fits, TopWaits
<1>8. Fits(code, all, Abort(mm), G)
  BY Aborted
<1> QED
  BY <1>2, <1>7, <1>8

\* A proc is called.
LEMMA ProcCalled ==
  ASSUME NEW all, NEW mm, NEW G, Verified(code), Sound(code, all, mm, G),
         NEW proc \in G, proc.k = "proc", NEW block \in G, NEW argv \in Seq(G), NEW dst \in Int,
         mm.frames # <<>> => Awaits(code, all, Top(mm), dst)
  PROVE  Fits(code, all, CallProc(mm, proc, block, argv, dst), G)
<1> DEFINE own == mm.procs[proc.n]
<1>1. mm \in MachineType(code, G)
  BY DEF Sound
<1>2. proc.n \in 1..Len(mm.procs)
  BY DEF Sound, ClosedValues
<1>3. own \in ProcType(code, G) /\ proc.n \in DOMAIN mm.procs
  BY <1>1, <1>2, Parts, ElementOfSeq
<1>4. ProcFits(code, mm.heaps, own)
  BY <1>3 DEF Sound
<1> HIDE DEF own
<1>5. /\ own.code \in DOMAIN code /\ own.self \in G /\ own.modules \in Seq(G) /\ own.scopes \in Seq(G)
      /\ own.modules # <<>> /\ ScopesMatch(code, mm.heaps, own.scopes, own.code)
  BY <1>3, <1>4 DEF ProcType, ProcFits
<1>6. CallProc(mm, proc, block, argv, dst) = CallCode(mm, own.code, own.self, own.modules, own.scopes, block, argv, dst)
  BY DEF CallProc, own
<1> QED
  BY <1>5, <1>6, CodeCalled

\* A method that is not the program's is called.
LEMMA OutsideCalled ==
  ASSUME NEW all, NEW mm, NEW G, Sound(code, all, mm, G), mm.frames # <<>>, Top(mm).code # 0,
         NEW name \in Names, NEW obj \in G, NEW block \in G, NEW argv \in Seq(G), NEW dst \in Int,
         Awaits(code, all, Top(mm), dst), Result(Len(mm.trace) + 1) \in G
  PROVE  Fits(code, all, CallOutside(mm, name, obj, block, argv, dst), G)
<1> DEFINE list == <<block>> \o argv
           e == Event("call", name, obj, list)
           called == Traced(mm, e)
           result == Result(Len(called.trace))
           f == NativeFrame(block, Times(name), result, dst)
<1>1. mm \in MachineType(code, G)
  BY DEF Sound
<1>2. list \in Seq(G)
  BY ConcatProperties
<1> HIDE DEF list
<1>3. e \in EventType(G) /\ e.kind = "call"
  <2>1. "call" \in Kinds
    BY DEF Kinds
  <2> QED
    BY <1>2, <2>1, EventOf
<1> HIDE DEF e
<1>4. /\ Sound(code, all, called, G) /\ Top(called) = Top(mm) /\ called.frames = mm.frames
      /\ called.trace = Append(mm.trace, e)
  BY <1>3, EventFit, OneEvent
<1> HIDE DEF called
<1>5. Len(called.trace) = Len(mm.trace) + 1
  BY <1>1, <1>3, <1>4, Parts, AppendProperties
<1>6. result \in G
  BY <1>5
<1> HIDE DEF result
<1>7. CallOutside(mm, name, obj, block, argv, dst)
        = IF block.k = "proc" THEN Pushed(called, f) ELSE SetIfVar(called, dst, result)
  BY DEF CallOutside, called, e, list, result
<1>8. CASE block.k = "proc"
  <2>1. f \in NativeType(G) /\ f.code = 0 /\ f.block = block /\ f.dst = dst
    <3>1. Times(name) \in Int
      BY DEF Times
    <3>2. argv \in Seq(G) /\ {} \in {{}}
      OBVIOUS
    <3> QED
      BY <1>6, <3>1, <3>2 DEF NativeFrame, NativeType
  <2> HIDE DEF f
  <2>2. f \in FramesOf(code, G) /\ FrameFits(code, called.heaps, f) /\ Linked(code, all, Top(called), f)
    BY <1>4, <1>8, <2>1 DEF FramesOf, FrameFits, Linked
  <2>3. Sound(code, all, Pushed(called, f), G) /\ Top(Pushed(called, f)) = f
    BY <1>4, <2>2, PushFrame
  <2> QED
    BY <1>7, <1>8, <2>1, <2>3 DEF Fits, TopWaits, Waits
<1>9. CASE block.k # "proc"
  <2>1. Fits(code, all, SetIfVar(called, dst, result), G)
    BY <1>4, <1>6, ResultLands
  <2> QED
    BY <1>7, <1>9, <2>1
<1> QED
  BY <1>8, <1>9

\* A method is called: that of a proc, one of the program's, or another.
LEMMA MethodCalled ==
  ASSUME NEW all, NEW mm, NEW G, Verified(code), Sound(code, all, mm, G), mm.frames # <<>>, Top(mm).code # 0,
         NEW name \in Names, NEW obj \in G, NEW block \in G, NEW argv \in Seq(G), NEW dst \in Int,
         Awaits(code, all, Top(mm), dst), Result(Len(mm.trace) + 1) \in G
  PROVE  Fits(code, all, CallMethod(mm, name, obj, block, argv, dst), G)
<1> DEFINE method == MethodOf(mm.trace, name)
           modules == <<ObjectClass>>
           none == <<>>
<1>1. CASE obj.k = "proc" /\ name = "call"
  <2>1. CallMethod(mm, name, obj, block, argv, dst) = CallProc(mm, obj, block, argv, dst)
    BY <1>1 DEF CallMethod
  <2> QED
    BY <1>1, <2>1, ProcCalled
<1>2. CASE ~(obj.k = "proc" /\ name = "call") /\ method # 0
  <2>1. CallMethod(mm, name, obj, block, argv, dst) = CallCode(mm, method, obj, modules, none, block, argv, dst)
    BY <1>2 DEF CallMethod
  <2>2. FreeCode(code, method)
    <3> DEFINE at == Methods(mm.trace, name)
    <3>1. at # {} /\ method = mm.trace[Latest(at)].list[1].n
      BY <1>2 DEF MethodOf
    <3>2. DOMAIN mm.trace = 1..Len(mm.trace) /\ Len(mm.trace) \in Nat
      BY Parts DEF Sound
    <3>3. at \in SUBSET (0..Len(mm.trace))
      BY <3>2 DEF Methods
    <3>4. Latest(at) \in at
      BY <3>1, <3>2, <3>3, LatestExists
    <3>5. Latest(at) \in DOMAIN mm.trace /\ mm.trace[Latest(at)].kind = "def"
      BY <3>4 DEF Methods
    <3>6. EventFits(code, mm.trace[Latest(at)])
      BY <3>5 DEF Sound
    <3> QED
      BY <3>1, <3>5, <3>6 DEF EventFits
  <2>3. method \in DOMAIN code /\ code[method].references = none
    BY <2>2 DEF FreeCode
  <2>4. modules \in Seq(G) /\ modules # none
    BY DEF Sound, ClosedValues, BasicValues
  <2>5. none \in Seq(G) /\ ScopesMatch(code, mm.heaps, none, method)
    <3>1. none \in Seq(G) /\ Len(none) = 0 /\ DOMAIN none = {}
      BY EmptySeq
    <3> QED
      BY <2>3, <3>1 DEF ScopesMatch
  <2> HIDE DEF modules, method
  <2>6. Fits(code, all, CallCode(mm, method, obj, modules, none, block, argv, dst), G)
    BY <2>3, <2>4, <2>5, CodeCalled
  <2> QED
    BY <2>1, <2>6
<1>3. CASE ~(obj.k = "proc" /\ name = "call") /\ method = 0
  <2>1. CallMethod(mm, name, obj, block, argv, dst) = CallOutside(mm, name, obj, block, argv, dst)
    BY <1>3 DEF CallMethod
  <2> QED
    BY <2>1, OutsideCalled
<1> QED
  BY <1>1, <1>2, <1>3

-----------------------------------------------------------------------------
(* The instruction that is executed.                                       *)

Own == code[Here.code]
Written == WrittenOnTheWay(Own)
AtWork(all, G) == Verified(code) /\ Fits(code, all, m, G) /\ m.frames # <<>> /\ Here.code # 0
\* The machine with the next instruction already to come.
Ahead == [m EXCEPT !.frames[Len(m.frames)].ip = @ + 1]
Goes == Here.ip + 1 \in Successors(Instruction, Here.ip)

\* The frame it is executed in.
LEMMA Current ==
  ASSUME NEW all, NEW G, AtWork(all, G)
  PROVE  /\ Here = Top(m) /\ Here.code \in DOMAIN code /\ Here.ip \in DOMAIN Own.ops /\ Here.ip \in Nat
         /\ Here.self \in G /\ Here.block \in G /\ Here.argv \in Seq(G) /\ Here.modules \in Seq(G) /\ Here.scopes \in Seq(G)
         /\ Here.vars \in [Registers(Own) -> G] /\ Here.modules # <<>> /\ Here.written \subseteq Registers(Own)
         /\ ScopesMatch(code, m.heaps, Here.scopes, Here.code) /\ HeapsHeld(code, m.heaps, Here)
         /\ Written[Here.ip] \subseteq Here.written \cup (IF all THEN {} ELSE Plain(code, Here.code))
         /\ BasicValues \subseteq G
<1>1. Here = Top(m) /\ Sound(code, all, m, G) /\ Waits(code, all, Top(m), {})
  BY DEF AtWork, Fits, TopWaits, Here, Top
<1>2. Here.code \in DOMAIN code /\ Here \in FrameType(code, G, Here.code) /\ FrameFits(code, m.heaps, Here)
  BY <1>1, TopFrame DEF AtWork
<1>3. Here.ip \in DOMAIN Own.ops /\ Written[Here.ip] \subseteq Here.written \cup (IF all THEN {} ELSE Plain(code, Here.code))
  BY <1>1 DEF Waits, AtWork, Own, Written
<1>4. DOMAIN Own.ops = 1..Len(Own.ops) /\ Len(Own.ops) \in Nat
  BY <1>2 DEF AtWork, Verified, CodeShape, Own
<1>5. Here.ip \in Nat
  BY <1>3, <1>4
<1>6. /\ Here.self \in G /\ Here.block \in G /\ Here.argv \in Seq(G) /\ Here.modules \in Seq(G) /\ Here.scopes \in Seq(G)
      /\ Here.vars \in [Registers(Own) -> G] /\ Here.written \subseteq Registers(Own)
  BY <1>2 DEF FrameType, Own
<1>7. Here.modules # <<>> /\ ScopesMatch(code, m.heaps, Here.scopes, Here.code) /\ HeapsHeld(code, m.heaps, Here)
  BY <1>2 DEF FrameFits, AtWork
<1> QED
  BY <1>1, <1>2, <1>3, <1>5, <1>6, <1>7 DEF Sound, ClosedValues

\* What its code keeps.
LEMMA Kept ==
  ASSUME NEW all, NEW G, AtWork(all, G)
  PROVE  /\ Instruction \in InstructionType(Registers(Own), DOMAIN Own.ops, DOMAIN code)
         /\ SpanOf(Instruction) \subseteq Registers(Own) /\ ReadsOf(Instruction) \subseteq Written[Here.ip]
         /\ \A next \in Successors(Instruction, Here.ip) :
              next \in DOMAIN Own.ops /\ Written[next] \subseteq Written[Here.ip] \cup Writes(Instruction, Here.ip, next)
         /\ IndicesKept(Own, Instruction) /\ HeapRegistersKept(Own, Here.code)
         /\ HeapsKept(code, Own, Here.code, Written, Here.ip) /\ ScopesKept(code, Here.code, Instruction)
         /\ CodeShape(Own, DOMAIN code) /\ Instruction = Own.ops[Here.ip]
<1>1. Here.code \in DOMAIN code /\ Here.ip \in DOMAIN Own.ops
  BY Current
<1>2. VerifiedScope(code, Here.code) /\ CodeShape(Own, DOMAIN code)
  BY <1>1 DEF AtWork, Verified, Own
<1>3. Instruction = Own.ops[Here.ip]
  BY DEF Instruction, Own
<1>4. OperandsKept(code, Own, Written, Here.ip)
  BY <1>1, <1>2 DEF VerifiedScope, Own, Written
<1> QED
  BY <1>1, <1>2, <1>3, <1>4 DEF VerifiedScope, OperandsKept, Own, Written

\* The machine ahead of it.
LEMMA Advanced ==
  ASSUME NEW all, NEW G, AtWork(all, G)
  PROVE  /\ Sound(code, all, Ahead, G) /\ Top(Ahead) = [Here EXCEPT !.ip = Here.ip + 1] /\ Ahead.frames # <<>>
         /\ Ahead.heaps = m.heaps /\ Ahead.procs = m.procs /\ Ahead.trace = m.trace
         /\ Top(Ahead).code = Here.code /\ Top(Ahead).ip = Here.ip + 1 /\ Top(Ahead).written = Here.written
<1> DEFINE ip == Here.ip + 1
<1>1. Sound(code, all, m, G) /\ m.frames # <<>> /\ Here = Top(m) /\ ip \in Int
  BY Current DEF AtWork, Fits
<1>2. Here \in FramesOf(code, G) /\ Here \in FrameType(code, G, Here.code)
  BY <1>1, TopFrame DEF AtWork
<1> HIDE DEF ip
<1>3. Ahead = [m EXCEPT !.frames[Len(m.frames)].ip = ip]
  <2>1. m \in MachineType(code, G)
    BY <1>1 DEF Sound
  <2> QED
    BY <1>1, <2>1, Parts, TopFrame DEF Ahead, Here, ip
<1>4. /\ Sound(code, all, Ahead, G) /\ Top(Ahead) = [Here EXCEPT !.ip = ip] /\ Ahead.frames # <<>>
      /\ Ahead.heaps = m.heaps /\ Ahead.procs = m.procs /\ Ahead.trace = m.trace
  BY <1>1, <1>3, GoesTo
<1>5. Top(Ahead).code = Here.code /\ Top(Ahead).ip = ip /\ Top(Ahead).written = Here.written
  BY <1>2, <1>4 DEF FrameType
<1> QED
  BY <1>4, <1>5 DEF ip

\* A frame that goes on after it has all that is to be written by then.
LEMMA Arrives ==
  ASSUME NEW all, NEW G, AtWork(all, G), NEW next \in Successors(Instruction, Here.ip), NEW f, NEW awaited,
         f.code = Here.code, f.ip = next, Here.written \cup Writes(Instruction, Here.ip, next) \subseteq f.written \cup awaited
  PROVE  Waits(code, all, f, awaited)
<1>1. next \in DOMAIN Own.ops /\ Written[next] \subseteq Written[Here.ip] \cup Writes(Instruction, Here.ip, next)
  BY Kept
<1>2. Written[Here.ip] \subseteq Here.written \cup (IF all THEN {} ELSE Plain(code, Here.code))
  BY Current
<1> QED
  BY <1>1, <1>2 DEF Waits, Own, Written

\* A register that is not for heaps.
LEMMA PlainDestination ==
  ASSUME NEW all, NEW G, AtWork(all, G), NEW var \in Registers(Own), var \in Destinations(Instruction), ~MakesHeap(Own, Instruction)
  PROVE  var \in Plain(code, Here.code) /\ \A owner : ~HoldsHeap(Own, Here.code, var, owner)
<1>1. Here.ip \in DOMAIN Own.ops /\ HeapRegistersKept(Own, Here.code) /\ Instruction = Own.ops[Here.ip]
  BY Current, Kept
<1>2. var \notin HeapRegisters(Own)
  BY <1>1 DEF HeapRegistersKept
<1> QED
  BY <1>2 DEF Plain, Own, HoldsHeap, HeapRegisters

\* A register for heaps that is read holds one.
LEMMA HeapThere ==
  ASSUME NEW all, NEW G, AtWork(all, G), NEW var \in Written[Here.ip], NEW owner \in DOMAIN code,
         HoldsHeap(Own, Here.code, var, owner)
  PROVE  var \in Registers(Own) => IsHeapOf(m.heaps, Here.vars[var], owner)
<1> SUFFICES ASSUME var \in Registers(Own) PROVE IsHeapOf(m.heaps, Here.vars[var], owner)
  OBVIOUS
<1>1. var \in HeapRegisters(Own)
  BY DEF HoldsHeap, HeapRegisters
<1>2. var \in Here.written
  BY <1>1, Current DEF Plain, Own
<1> QED
  BY <1>2, Current DEF HeapsHeld, Own

\* The machine goes on with nothing written.
LEMMA Passes ==
  ASSUME NEW all, NEW G, AtWork(all, G), Goes, Writes(Instruction, Here.ip, Here.ip + 1) = {},
         NEW mm, Sound(code, all, mm, G), Top(mm) = Top(Ahead)
  PROVE  Fits(code, all, mm, G)
<1>1. Waits(code, all, Top(mm), {})
  BY Arrives, Advanced DEF Goes
<1> QED
  BY <1>1 DEF Fits, TopWaits

\* The machine goes on with a register written.
LEMMA Stores ==
  ASSUME NEW all, NEW G, AtWork(all, G), Goes, NEW var \in Registers(Own), NEW H, NEW v \in H,
         Writes(Instruction, Here.ip, Here.ip + 1) \subseteq {var},
         NEW mm, Sound(code, all, mm, H), Top(mm) = Top(Ahead), mm.frames = Ahead.frames,
         \A owner \in DOMAIN code : HoldsHeap(Own, Here.code, var, owner) => IsHeapOf(mm.heaps, v, owner)
  PROVE  Fits(code, all, SetIn(mm, var, v), H)
<1> DEFINE after == SetIn(mm, var, v)
<1>1. Top(mm).code = Here.code /\ Top(mm).ip = Here.ip + 1 /\ Top(mm).written = Here.written /\ mm.frames # <<>> /\ Here.code # 0
  BY Advanced DEF AtWork
<1>2. /\ Sound(code, all, after, H) /\ Top(after).code = Here.code /\ Top(after).ip = Here.ip + 1
      /\ Top(after).written = Here.written \cup {var}
  <2>1. /\ var \in Registers(code[Top(mm).code]) /\ Top(mm).code # 0 /\ mm.frames # <<>>
        /\ \A owner \in DOMAIN code : HoldsHeap(code[Top(mm).code], Top(mm).code, var, owner) => IsHeapOf(mm.heaps, v, owner)
    BY <1>1 DEF Own
  <2>2. /\ Sound(code, all, after, H) /\ Top(after).code = Top(mm).code /\ Top(after).ip = Top(mm).ip
        /\ Top(after).written = Top(mm).written \cup {var}
    BY <2>1, SetRegister
  <2> QED
    BY <1>1, <2>2
<1> HIDE DEF after
<1>3. Waits(code, all, Top(after), {})
  BY <1>2, Arrives DEF Goes
<1> QED
  BY <1>2, <1>3 DEF Fits, TopWaits, after

LEMMA StoresPlain ==
  ASSUME NEW all, NEW G, AtWork(all, G), Goes, NEW var \in Registers(Own), NEW H, NEW v \in H,
         Destinations(Instruction) = {var}, ~MakesHeap(Own, Instruction), Instruction.op # "LoadArgBranch",
         NEW mm, Sound(code, all, mm, H), Top(mm) = Top(Ahead), mm.frames = Ahead.frames
  PROVE  Fits(code, all, SetIn(mm, var, v), H)
<1>1. Writes(Instruction, Here.ip, Here.ip + 1) \subseteq {var}
  BY DEF Writes
<1>2. \A owner : ~HoldsHeap(Own, Here.code, var, owner)
  BY PlainDestination
<1> QED
  BY <1>1, <1>2, Stores

\* The machine waits for a result.
LEMMA Expects ==
  ASSUME NEW all, NEW G, AtWork(all, G), Goes, NEW dst \in OrNoVar(Registers(Own)),
         Destinations(Instruction) = {dst} \ {NoVar}, ~MakesHeap(Own, Instruction), Instruction.op # "LoadArgBranch"
  PROVE  Awaits(code, all, Top(Ahead), dst)
<1>1. dst \in OrNoVar(Plain(code, Here.code))
  BY PlainDestination DEF OrNoVar
<1>2. Writes(Instruction, Here.ip, Here.ip + 1) = {dst} \ {NoVar}
  BY DEF Writes
<1>3. Waits(code, all, Top(Ahead), {dst} \ {NoVar})
  BY <1>2, Advanced, Arrives DEF Goes
<1> QED
  BY <1>1, <1>3, Advanced DEF Awaits

-----------------------------------------------------------------------------
(* Values.                                                                 *)

\* A value that may join those that are known, as far as what it is made of is.
Joinable(G, v) == v.v \in Seq(G) /\ (v.k = "proc" => v.n \in 1..Len(m.procs))

LEMMA Joins ==
  ASSUME NEW all, NEW G, AtWork(all, G), NEW v, Joinable(G, v)
  PROVE  AtWork(all, G \cup {v})
<1>1. Sound(code, all, m, G \cup {v})
  BY GrowSound DEF AtWork, Fits, Joinable
<1> QED
  BY <1>1 DEF AtWork, Fits

LEMMA KnownJoins ==
  ASSUME NEW all, NEW G, AtWork(all, G), NEW v \in G
  PROVE  Joinable(G, v)
BY DEF AtWork, Fits, Sound, ClosedValues, Joinable

LEMMA NewValue ==
  ASSUME NEW G, NEW k, k # "proc", NEW name, NEW n, NEW list \in Seq(G)
  PROVE  Joinable(G, Value(k, name, n, list))
BY DEF Value, Joinable

LEMMA NewLiteral ==
  ASSUME NEW G, NEW k, k # "proc", NEW name, NEW n
  PROVE  Joinable(G, Value(k, name, n, <<>>)) /\ Joinable(G, Literal(k, name))
BY EmptySeq, NewValue DEF Literal

\* What registers hold.
LEMMA Registered ==
  ASSUME NEW all, NEW G, AtWork(all, G), NEW var \in Registers(Own)
  PROVE  Reg(var) = Here.vars[var] /\ Reg(var) \in G /\ Reg(var).v \in Seq(G)
<1>1. Reg(var) = Here.vars[var] /\ Reg(var) \in G
  BY Current DEF Reg
<1> QED
  BY <1>1, KnownJoins DEF Joinable

LEMMA OptionalRegistered ==
  ASSUME NEW all, NEW G, AtWork(all, G), NEW var \in OrNoVar(Registers(Own))
  PROVE  OptionalReg(var) \in G
BY Registered, Current DEF OrNoVar, OptionalReg, BasicValues

LEMMA Spans ==
  ASSUME NEW all, NEW G, AtWork(all, G), NEW argc \in Nat, NEW argv \in Int,
         argc > 0 => argv..(argv + argc - 1) \subseteq Registers(Own)
  PROVE  Span(argv, argc) \in Seq(G) /\ Len(Span(argv, argc)) = argc /\ \A k \in 1..argc : Span(argv, argc)[k] = Here.vars[argv + k - 1]
<1>1. ASSUME NEW k \in 1..argc PROVE argv + k - 1 \in Registers(Own)
  <2>1. argc > 0 /\ argv + k - 1 \in argv..(argv + argc - 1)
    OBVIOUS
  <2> QED
    BY <2>1
<1>2. \A k \in 1..argc : Reg(argv + k - 1) \in G /\ Reg(argv + k - 1) = Here.vars[argv + k - 1]
  BY <1>1, Registered
<1> DEFINE f == [i \in 1..argc |-> Reg(argv + i - 1)]
<1>3. f \in [1..argc -> G] /\ \A k \in 1..argc : f[k] = Here.vars[argv + k - 1]
  BY <1>2
<1>4. Span(argv, argc) = f
  BY DEF Span
<1> HIDE DEF f
<1> QED
  BY <1>3, <1>4, ListOf

\* The registers of an instruction.
LEMMA RegisterNumbers == NoVar \notin Registers(Own) /\ (Own.vars \in Nat => Registers(Own) \subseteq Int)
BY DEF NoVar, Registers

LEMMA OwnRegisters ==
  ASSUME NEW all, NEW G, AtWork(all, G)
  PROVE  Registers(Own) \subseteq Int /\ NoVar \notin Registers(Own) /\ OrNoVar(Registers(Own)) \subseteq Int
BY Kept, RegisterNumbers DEF CodeShape, OrNoVar, NoVar

\* What was last written to a name.
LEMMA NameRead ==
  ASSUME NEW all, NEW G, AtWork(all, G), NEW place, NEW name
  PROVE  Joinable(G, ReadName(m.trace, place, name))
<1> DEFINE at == WritesOf(m.trace, place, name)
<1>1. CASE at = {}
  <2>1. ReadName(m.trace, place, name) = Literal("outside", name)
    BY <1>1 DEF ReadName
  <2> QED
    BY <2>1, NewLiteral
<1>2. CASE at # {}
  <2>1. Sound(code, all, m, G) /\ m \in MachineType(code, G)
    BY DEF AtWork, Fits, Sound
  <2>2. m.trace \in Seq(EventType(G)) /\ DOMAIN m.trace = 1..Len(m.trace) /\ Len(m.trace) \in Nat
    BY <2>1, Parts
  <2>3. at \in SUBSET (0..Len(m.trace))
    BY <2>2 DEF WritesOf
  <2>4. Latest(at) \in at
    BY <1>2, <2>2, <2>3, LatestExists
  <2> DEFINE e == m.trace[Latest(at)]
  <2>5. Latest(at) \in DOMAIN m.trace /\ e.kind = "set"
    BY <2>4 DEF WritesOf
  <2>6. e \in EventType(G) /\ EventFits(code, e)
    BY <2>1, <2>2, <2>5, ElementOfSeq DEF Sound
  <2>7. ReadName(m.trace, place, name) = e.list[1]
    BY <1>2 DEF ReadName
  <2> HIDE DEF e
  <2>8. e.list \in Seq(G) /\ e.list # <<>>
    BY <2>5, <2>6 DEF EventType, EventFits
  <2>9. Len(e.list) \in Nat \ {0}
    BY <2>8, EmptySeq
  <2>10. e.list[1] \in G
    BY <2>8, <2>9, ElementOfSeq
  <2> QED
    BY <2>7, <2>10, KnownJoins
<1> QED
  BY <1>1, <1>2

\* A variable of a heap.
LEMMA HeapVariable ==
  ASSUME NEW all, NEW G, AtWork(all, G), Instruction.op \in {"GetHeapVar", "SetHeapVar"}
  PROVE  LET heap == m.heaps[Reg(Instruction.heap).n]
         IN /\ Reg(Instruction.heap).n \in DOMAIN m.heaps
            /\ \E id \in DOMAIN code : heap \in [owner : {id}, vars : [0..(code[id].heapVars - 1) -> G]] /\ Instruction.index \in 0..(code[id].heapVars - 1)
<1> DEFINE op == Instruction
           heap == m.heaps[Reg(op.heap).n]
<1>1. op.heap \in Registers(Own) /\ op.heap \in ReadsOf(op) /\ op.index \in Nat
  BY Kept DEF InstructionType, LoadOps, StoreOps, ArgumentOps, BranchOps, CollectionOps, HeapOps, CallOps, ReturnOps, DefinitionOps,
              ReadsOf, Fields, Needed
<1>2. PICK id \in DOMAIN code : HoldsHeap(Own, Here.code, op.heap, id) /\ op.index < code[id].heapVars
  BY Kept DEF HeapsKept
<1>3. IsHeapOf(m.heaps, Reg(op.heap), id)
  BY <1>1, <1>2, Kept, HeapThere, Registered
<1>4. Reg(op.heap).n \in DOMAIN m.heaps /\ heap.owner = id
  BY <1>3 DEF IsHeapOf
<1>5. heap \in HeapType(code, G)
  BY <1>4, Parts, ElementOfSeq DEF AtWork, Fits, Sound
<1> HIDE DEF heap
<1>6. PICK other \in DOMAIN code : heap \in [owner : {other}, vars : [0..(code[other].heapVars - 1) -> G]]
  BY <1>5 DEF HeapType
<1>7. other = id
  BY <1>4, <1>6
<1>8. code[id].heapVars \in Nat
  BY DEF AtWork, Verified, CodeShape
<1>9. op.index \in 0..(code[id].heapVars - 1)
  BY <1>1, <1>2, <1>8
<1> QED
  BY <1>4, <1>6, <1>7, <1>9 DEF heap

-----------------------------------------------------------------------------
(* Instructions that put a value into a register.                          *)

\* The instructions that put a value into a register, whatever it is.
StoringOps == SimpleOps \cup {"Move", "LoadArg", "LoadArgFloat", "LoadArrayArg", "Assign", "AssignArray", "Push", "PushArray",
                              "Closure", "CreateHeap"}
Destination(op) ==
  CASE op.op = "Move" -> op.dst [] op.op = "Push" -> op.array [] op.op = "PushArray" -> op.into [] OTHER -> op.var

LEMMA StoringShape ==
  ASSUME NEW all, NEW G, AtWork(all, G), Instruction.op \in StoringOps
  PROVE  /\ Destination(Instruction) \in Registers(Own) /\ Destinations(Instruction) = {Destination(Instruction)} /\ Goes
         /\ Instruction.op \notin {"Move", "Push", "PushArray"} => Destination(Instruction) = Instruction.var
         /\ Instruction.op = "Move" => Destination(Instruction) = Instruction.dst
         /\ Instruction.op = "Push" => Destination(Instruction) = Instruction.array
         /\ Instruction.op = "PushArray" => Destination(Instruction) = Instruction.into
<1> DEFINE op == Instruction
           dst == Destination(op)
<1>1. op \in InstructionType(Registers(Own), DOMAIN Own.ops, DOMAIN code) /\ NoVar \notin Registers(Own)
  BY Kept, OwnRegisters
<1>2. Goes
  BY DEF Goes, Successors, StoringOps, SimpleOps
<1>3. op.op = "Move" => dst = op.dst
  BY DEF Destination
<1>4. op.op = "Push" => dst = op.array
  BY DEF Destination
<1>5. op.op = "PushArray" => dst = op.into
  BY DEF Destination
<1>6. op.op \notin {"Move", "Push", "PushArray"} => dst = op.var
  BY DEF Destination
<1> HIDE DEF dst, op
<1>7. CASE op.op = "Move"
  BY <1>1, <1>2, <1>3, <1>7 DEF op, dst, InstructionType, LoadOps, StoreOps, ArgumentOps, BranchOps, CollectionOps, HeapOps, CallOps,
                                ReturnOps, DefinitionOps, Destinations, Fields
<1>8. CASE op.op = "Push"
  BY <1>1, <1>2, <1>4, <1>8 DEF op, dst, InstructionType, LoadOps, StoreOps, ArgumentOps, BranchOps, CollectionOps, HeapOps, CallOps,
                                ReturnOps, DefinitionOps, Destinations, Fields
<1>9. CASE op.op = "PushArray"
  BY <1>1, <1>2, <1>5, <1>9 DEF op, dst, InstructionType, LoadOps, StoreOps, ArgumentOps, BranchOps, CollectionOps, HeapOps, CallOps,
                                ReturnOps, DefinitionOps, Destinations, Fields
<1>10. CASE op.op \notin {"Move", "Push", "PushArray"}
  BY <1>1, <1>2, <1>6, <1>10 DEF op, dst, InstructionType, LoadOps, StoreOps, ArgumentOps, BranchOps, CollectionOps, HeapOps, CallOps,
                                 ReturnOps, DefinitionOps, Destinations, Fields, StoringOps, SimpleOps, VarRead
<1> QED
  BY <1>7, <1>8, <1>9, <1>10

\* A value that is put into a register which is not for heaps.
LEMMA StoresValue ==
  ASSUME NEW all, NEW G, AtWork(all, G), Instruction.op \in StoringOps, ~MakesHeap(Own, Instruction),
         NEW v, Joinable(G, v)
  PROVE  \E H : Fits(code, all, SetIn(Ahead, Destination(Instruction), v), H)
<1> DEFINE H == G \cup {v}
<1>1. AtWork(all, H) /\ v \in H
  BY Joins
<1> HIDE DEF H
<1>2. Destination(Instruction) \in Registers(Own) /\ Destinations(Instruction) = {Destination(Instruction)} /\ Goes
  BY StoringShape
<1>3. Sound(code, all, Ahead, H) /\ Instruction.op # "LoadArgBranch"
  BY <1>1, Advanced DEF StoringOps, SimpleOps
<1>4. Fits(code, all, SetIn(Ahead, Destination(Instruction), v), H)
  BY <1>1, <1>2, <1>3, StoresPlain
<1> QED
  BY <1>4

\* A heap that is put into a register for heaps.
LEMMA StoresHeap ==
  ASSUME NEW all, NEW G, AtWork(all, G), Instruction.op \in StoringOps, MakesHeap(Own, Instruction), NEW v \in G,
         NEW mm, Sound(code, all, mm, G), Top(mm) = Top(Ahead), mm.frames = Ahead.frames,
         IsHeapOf(mm.heaps, v, OwnerGiven(Own, Here.code, Instruction))
  PROVE  Fits(code, all, SetIn(mm, Destination(Instruction), v), G)
<1> DEFINE op == Instruction
           var == Destination(op)
<1>1. var \in Registers(Own) /\ Destinations(op) = {var} /\ Goes
  BY StoringShape
<1>2. Writes(op, Here.ip, Here.ip + 1) \subseteq {var}
  BY <1>1 DEF Writes
<1>3. ASSUME NEW owner \in DOMAIN code, HoldsHeap(Own, Here.code, var, owner) PROVE owner = OwnerGiven(Own, Here.code, op)
  <2>1. HeapRegistersKept(Own, Here.code) /\ op = Own.ops[Here.ip] /\ Here.ip \in DOMAIN Own.ops
    BY Kept, Current
  <2>2. var \in HeapRegisters(Own)
    BY <1>1, <1>3 DEF HoldsHeap, HeapRegisters
  <2>3. PICK i \in DOMAIN Own.ops : /\ MakesHeap(Own, Own.ops[i]) /\ var \in Destinations(Own.ops[i])
                                    /\ owner = OwnerGiven(Own, Here.code, Own.ops[i])
    BY <1>3 DEF HoldsHeap
  <2> QED
    BY <1>1, <2>1, <2>2, <2>3 DEF HeapRegistersKept
<1> HIDE DEF var
<1>4. Fits(code, all, SetIn(mm, var, v), G)
  BY <1>1, <1>2, <1>3, Stores
<1> QED
  BY <1>4 DEF var

\* The values that are made without further ado.
LEMMA SimpleValues ==
  ASSUME NEW all, NEW G, AtWork(all, G), Instruction.op \in SimpleOps
  PROVE  Joinable(G, SimpleValue(Instruction))
<1> DEFINE op == Instruction
           v == SimpleValue(op)
<1>1. op \in InstructionType(Registers(Own), DOMAIN Own.ops, DOMAIN code) /\ OrNoVar(Registers(Own)) \subseteq Int
      /\ SpanOf(op) \subseteq Registers(Own)
  BY Kept, OwnRegisters
<1>2. Here.self \in G /\ Here.block \in G /\ BasicValues \subseteq G
  BY Current
<1>3. ASSUME op.op \in {"Array", "Hash", "Interpolate"} PROVE Span(op.argv, op.argc) \in Seq(G)
  <2>1. op.argc \in Nat /\ op.argv \in Int /\ (op.argc > 0 => op.argv..(op.argv + op.argc - 1) \subseteq Registers(Own))
    BY <1>1, <1>3 DEF InstructionType, LoadOps, StoreOps, ArgumentOps, BranchOps, CollectionOps, HeapOps, CallOps, ReturnOps, DefinitionOps, SpanOf
  <2> QED
    BY <2>1, Spans
<1>4. CASE op.op = "LoadNil"
  BY <1>2, <1>4, KnownJoins DEF SimpleValue, BasicValues
<1>5. CASE op.op = "LoadTrue"
  BY <1>2, <1>5, KnownJoins DEF SimpleValue, BasicValues
<1>6. CASE op.op = "LoadFalse"
  BY <1>2, <1>6, KnownJoins DEF SimpleValue, BasicValues
<1>7. CASE op.op = "LoadObject"
  BY <1>2, <1>7, KnownJoins DEF SimpleValue, BasicValues
<1>8. CASE op.op \in {"LoadFixnum", "LoadFloat", "String", "Regexp"}
  <2>1. v = Literal("literal", op.literal)
    BY <1>8 DEF SimpleValue
  <2> QED
    BY <2>1, NewLiteral
<1>9. CASE op.op = "LoadSymbol"
  <2>1. v = Literal("symbol", op.symbol)
    BY <1>9 DEF SimpleValue
  <2> QED
    BY <2>1, NewLiteral
<1>10. CASE op.op = "Self"
  BY <1>2, <1>10, KnownJoins DEF SimpleValue
<1>11. CASE op.op = "Block"
  BY <1>2, <1>11, KnownJoins DEF SimpleValue
<1>12. CASE op.op = "Lookup"
  <2>1. v = Here.scopes[op.index + 1]
    BY <1>12 DEF SimpleValue
  <2>2. op.index + 1 \in DOMAIN Own.references /\ op.index \in Nat
    BY <1>1, <1>12, Kept DEF HeapsKept, InstructionType, LoadOps, StoreOps, ArgumentOps, BranchOps, CollectionOps, HeapOps, CallOps, ReturnOps, DefinitionOps
  <2>3. Here.scopes \in Seq(G) /\ Len(Here.scopes) = Len(Own.references)
    BY Current DEF ScopesMatch, Own
  <2>4. Own.references \in Seq(DOMAIN code)
    BY Kept DEF CodeShape
  <2>5. op.index + 1 \in 1..Len(Here.scopes)
    BY <2>2, <2>3, <2>4, LenProperties
  <2>6. v \in G
    BY <2>1, <2>3, <2>5, ElementOfSeq
  <2> QED
    BY <2>6, KnownJoins
<1>13. CASE op.op = "Array"
  <2>1. v = Value("array", Unnamed, 0, Span(op.argv, op.argc))
    BY <1>13 DEF SimpleValue, ArrayValue
  <2> QED
    BY <1>3, <1>13, <2>1, NewValue
<1>14. CASE op.op = "Hash"
  <2>1. v = Value("hash", Unnamed, 0, Span(op.argv, op.argc))
    BY <1>14 DEF SimpleValue
  <2> QED
    BY <1>3, <1>14, <2>1, NewValue
<1>15. CASE op.op = "Range"
  <2>1. v = Value("range", op.literal, 0, <<Reg(op.low), Reg(op.high)>>)
    BY <1>15 DEF SimpleValue
  <2>2. op.low \in Registers(Own) /\ op.high \in Registers(Own)
    BY <1>1, <1>15 DEF InstructionType, LoadOps, StoreOps, ArgumentOps, BranchOps, CollectionOps, HeapOps, CallOps, ReturnOps, DefinitionOps
  <2>3. <<Reg(op.low), Reg(op.high)>> \in Seq(G)
    BY <2>2, Registered
  <2> QED
    BY <2>1, <2>3, NewValue
<1>16. CASE op.op = "Interpolate"
  <2>1. v = Value("text", op.literal, 0, Span(op.argv, op.argc))
    BY <1>16 DEF SimpleValue
  <2> QED
    BY <1>3, <1>16, <2>1, NewValue
<1>17. CASE op.op = "GetIVar"
  BY <1>17, NameRead DEF SimpleValue
<1>18. CASE op.op = "GetGlobal"
  BY <1>18, NameRead DEF SimpleValue
<1>19. CASE op.op = "GetHeapVar"
  <2>1. v = m.heaps[Reg(op.heap).n].vars[op.index]
    BY <1>19 DEF SimpleValue
  <2> DEFINE heap == m.heaps[Reg(op.heap).n]
  <2>2. PICK id \in DOMAIN code : /\ heap \in [owner : {id}, vars : [0..(code[id].heapVars - 1) -> G]]
                                 /\ op.index \in 0..(code[id].heapVars - 1)
    BY <1>19, HeapVariable
  <2> HIDE DEF heap
  <2>3. heap.vars[op.index] \in G
    BY <2>2
  <2> QED
    BY <2>1, <2>3, KnownJoins DEF heap
<1> HIDE DEF v
<1> QED
  BY <1>4, <1>5, <1>6, <1>7, <1>8, <1>9, <1>10, <1>11, <1>12, <1>13, <1>14, <1>15, <1>16, <1>17, <1>18, <1>19 DEF SimpleOps, v

\* Lookup is the only one of them that puts a heap where heaps are expected.
LEMMA ExecSimple ==
  ASSUME NEW all, NEW G, AtWork(all, G), Instruction.op \in SimpleOps
  PROVE  \E H : Fits(code, all, SetIn(Ahead, Instruction.var, SimpleValue(Instruction)), H)
<1> DEFINE op == Instruction
           v == SimpleValue(op)
<1>1. Joinable(G, v) /\ op.op \in StoringOps /\ Destination(op) = op.var
  <2>1. op.op \in StoringOps /\ op.op \notin {"Move", "Push", "PushArray"}
    BY DEF StoringOps, SimpleOps
  <2> QED
    BY <2>1, SimpleValues, StoringShape
<1>2. CASE op.op = "Lookup"
  <2>1. v = Here.scopes[op.index + 1]
    BY <1>2 DEF SimpleValue
  <2>2. op.index + 1 \in DOMAIN Own.references /\ op.index \in Nat
    BY <1>2, Kept DEF HeapsKept, InstructionType, LoadOps, StoreOps, ArgumentOps, BranchOps, CollectionOps, HeapOps, CallOps, ReturnOps, DefinitionOps
  <2>3. Here.scopes \in Seq(G) /\ Len(Here.scopes) = Len(Own.references) /\ Own.references \in Seq(DOMAIN code)
    BY Current, Kept DEF ScopesMatch, Own, CodeShape
  <2>4. op.index + 1 \in 1..Len(Here.scopes) /\ op.index + 1 \in DOMAIN Here.scopes
    BY <2>2, <2>3, LenProperties
  <2>5. v \in G
    BY <2>1, <2>3, <2>4, ElementOfSeq
  <2>6. IsHeapOf(m.heaps, v, Own.references[op.index + 1])
    BY <2>1, <2>4, Current DEF ScopesMatch, Own
  <2>7. MakesHeap(Own, op) /\ OwnerGiven(Own, Here.code, op) = Own.references[op.index + 1]
    BY <1>2 DEF MakesHeap, OwnerGiven
  <2> HIDE DEF v
  <2>8. Fits(code, all, SetIn(Ahead, Destination(op), v), G)
    BY <1>1, <2>5, <2>6, <2>7, Advanced, StoresHeap
  <2> QED
    BY <1>1, <2>8 DEF v
<1>3. CASE op.op # "Lookup"
  <2>1. ~MakesHeap(Own, op)
    BY <1>3 DEF MakesHeap, SimpleOps
  <2> HIDE DEF v
  <2>2. \E H : Fits(code, all, SetIn(Ahead, Destination(op), v), H)
    BY <1>1, <2>1, StoresValue
  <2> QED
    BY <1>1, <2>2 DEF v
<1> QED
  BY <1>2, <1>3

\* A move copies the heap of the frame itself, or what is no heap its code has a use for.
LEMMA ExecMove ==
  ASSUME NEW all, NEW G, AtWork(all, G), Instruction.op = "Move"
  PROVE  \E H : Fits(code, all, SetIn(Ahead, Instruction.dst, Reg(Instruction.src)), H)
<1> DEFINE op == Instruction
           v == Reg(op.src)
<1>1. Destination(op) = op.dst /\ op.op \in StoringOps
  BY StoringShape DEF StoringOps
<1>2. op.src \in Registers(Own)
  BY Kept DEF InstructionType, LoadOps, StoreOps, ArgumentOps, BranchOps, CollectionOps, HeapOps, CallOps, ReturnOps, DefinitionOps
<1>3. v \in G /\ v = Here.vars[op.src]
  BY <1>2, Registered
<1>4. CASE op.src = Own.heap
  <2>1. op.src \in Written[Here.ip] /\ HoldsHeap(Own, Here.code, op.src, Here.code)
    BY <1>4, Kept DEF HeapsKept
  <2>2. IsHeapOf(m.heaps, v, Here.code)
    BY <1>2, <1>3, <2>1, Current, HeapThere
  <2>3. MakesHeap(Own, op) /\ OwnerGiven(Own, Here.code, op) = Here.code
    BY <1>4 DEF MakesHeap, OwnerGiven
  <2> HIDE DEF v
  <2>4. Fits(code, all, SetIn(Ahead, Destination(op), v), G)
    BY <1>1, <1>3, <2>2, <2>3, Advanced, StoresHeap
  <2> QED
    BY <1>1, <2>4 DEF v
<1>5. CASE op.src # Own.heap
  <2>1. ~MakesHeap(Own, op) /\ Joinable(G, v)
    BY <1>3, <1>5, KnownJoins DEF MakesHeap
  <2> HIDE DEF v
  <2>2. \E H : Fits(code, all, SetIn(Ahead, Destination(op), v), H)
    BY <1>1, <2>1, StoresValue
  <2> QED
    BY <1>1, <2>2 DEF v
<1> QED
  BY <1>4, <1>5

\* Where a register was to be written and was not, only those of heaps count.
LEMMA Settles ==
  ASSUME NEW G, NEW all, ~all, AtWork(all, G), Goes, NEW var \in Registers(Own), Destinations(Instruction) = {var},
         ~MakesHeap(Own, Instruction), Instruction.op # "LoadArgBranch"
  PROVE  Fits(code, all, Ahead, G)
<1>1. Awaits(code, all, Top(Ahead), var)
  <2>1. var \in OrNoVar(Registers(Own)) /\ {var} = {var} \ {NoVar}
    BY OwnRegisters DEF OrNoVar
  <2> QED
    BY <2>1, Expects
<1>2. Top(Ahead).code = Here.code /\ Here.code # 0 /\ Sound(code, all, Ahead, G)
  BY Advanced DEF AtWork
<1>3. var \in Plain(code, Here.code)
  BY PlainDestination
<1>4. Waits(code, all, Top(Ahead), {})
  BY <1>1, <1>2, <1>3 DEF Awaits, Waits
<1> QED
  BY <1>2, <1>4 DEF Fits, TopWaits

\* A frame has the arguments its code loads unasked.
LEMMA Arguments ==
  ASSUME NEW G, NEW all, AtWork(all, G), ArgumentsSuffice
  PROVE  Len(Here.argv) >= Own.min /\ Own.min \in Nat /\ Len(Here.argv) \in Nat
<1>1. Len(m.frames) \in DOMAIN m.frames
  BY TopFrame DEF AtWork, Fits
<1>2. m.frames[Len(m.frames)].code # 0
  BY DEF AtWork, Here
<1>3. Len(Here.argv) >= Own.min
  BY <1>1, <1>2 DEF ArgumentsSuffice, Here, Own
<1> QED
  BY <1>3, Kept, Current, LenProperties DEF CodeShape


\* Arguments that are loaded unasked: they are there, unless not all registers are of interest.
LEMMA LoadsArgument ==
  ASSUME NEW all, NEW G, AtWork(all, G), NEW place \in Nat, all => Len(Here.argv) > place,
         Instruction.op \in StoringOps, ~MakesHeap(Own, Instruction),
         NEW after, after = IF Len(Here.argv) > place THEN SetIn(Ahead, Destination(Instruction), Here.argv[place + 1]) ELSE Ahead
  PROVE  \E H : Fits(code, all, after, H)
<1> DEFINE op == Instruction
<1>1. CASE Len(Here.argv) > place
  <2>1. Here.argv \in Seq(G) /\ place + 1 \in 1..Len(Here.argv)
    BY <1>1, Current, LenProperties
  <2>2. Here.argv[place + 1] \in G
    BY <2>1, ElementOfSeq
  <2> QED
    BY <1>1, <2>2, KnownJoins, StoresValue
<1>2. CASE ~(Len(Here.argv) > place)
  <2>1. Destination(op) \in Registers(Own) /\ Destinations(op) = {Destination(op)} /\ Goes /\ op.op # "LoadArgBranch"
    BY StoringShape DEF StoringOps, SimpleOps
  <2>2. Fits(code, all, Ahead, G)
    BY <1>2, <2>1, Settles
  <2> QED
    BY <1>2, <2>2
<1> QED
  BY <1>1, <1>2

LEMMA ExecLoadArg ==
  ASSUME NEW all, NEW G, AtWork(all, G), all => WellUsed, Instruction.op = "LoadArg"
  PROVE  \E H : Fits(code, all, LoadArg(Ahead, Instruction), H)
<1> DEFINE op == Instruction
<1>1. op.arg \in Nat /\ op.arg < Own.min
  BY Kept DEF IndicesKept, InstructionType, LoadOps, StoreOps, ArgumentOps, BranchOps, CollectionOps, HeapOps, CallOps, ReturnOps, DefinitionOps
<1>2. all => Len(Here.argv) > op.arg
  <2> SUFFICES ASSUME all PROVE Len(Here.argv) > op.arg
    OBVIOUS
  <2>1. Len(Here.argv) >= Own.min /\ Own.min \in Nat /\ Len(Here.argv) \in Nat
    BY Arguments DEF WellUsed
  <2> QED
    BY <1>1, <2>1
<1>3. op.op \in StoringOps /\ ~MakesHeap(Own, op) /\ Destination(op) = op.var
  BY StoringShape DEF StoringOps, MakesHeap
<1>4. LoadArg(Ahead, op) = IF Len(Here.argv) > op.arg THEN SetIn(Ahead, Destination(op), Here.argv[op.arg + 1]) ELSE Ahead
  BY <1>3 DEF LoadArg
<1> QED
  BY <1>1, <1>2, <1>3, <1>4, LoadsArgument

LEMMA ExecLoadArgFloat ==
  ASSUME NEW all, NEW G, AtWork(all, G), all => WellUsed, Instruction.op = "LoadArgFloat"
  PROVE  \E H : Fits(code, all, LoadArgFloat(Ahead, Instruction), H)
<1> DEFINE op == Instruction
           more == Len(Here.argv) - code[Here.code].min
           place == op.prev_reg + (IF more < 0 \/ more > op.prev_def THEN op.prev_def ELSE more)
<1>1. op.prev_reg \in Nat /\ op.prev_def \in Nat /\ op.prev_reg < Own.min
  BY Kept DEF IndicesKept, InstructionType, LoadOps, StoreOps, ArgumentOps, BranchOps, CollectionOps, HeapOps, CallOps, ReturnOps, DefinitionOps
<1>2. Len(Here.argv) \in Nat /\ Own.min \in Nat /\ more = Len(Here.argv) - Own.min
  BY Current, Kept, LenProperties DEF CodeShape, Own
<1>3. place \in Nat
  BY <1>1, <1>2
<1>4. all => Len(Here.argv) > place
  <2> SUFFICES ASSUME all PROVE Len(Here.argv) > place
    OBVIOUS
  <2>1. Len(Here.argv) >= Own.min
    BY Arguments DEF WellUsed
  <2> QED
    BY <1>1, <1>2, <2>1
<1>5. op.op \in StoringOps /\ ~MakesHeap(Own, op) /\ Destination(op) = op.var
  BY StoringShape DEF StoringOps, MakesHeap
<1>6. LoadArgFloat(Ahead, op) = IF Len(Here.argv) > place THEN SetIn(Ahead, Destination(op), Here.argv[place + 1]) ELSE Ahead
  BY <1>5 DEF LoadArgFloat
<1> HIDE DEF place
<1> QED
  BY <1>3, <1>4, <1>5, <1>6, LoadsArgument

\* A part of a list.
LEMMA PartOf ==
  ASSUME NEW S, NEW list \in Seq(S), NEW first \in Nat, NEW last \in Int, last <= Len(list)
  PROVE  SubSeq(list, first + 1, last) \in Seq(S)
<1>1. Len(list) \in Nat
  BY LenProperties
<1>2. \A i \in (first + 1)..last : i \in 1..Len(list)
  BY <1>1
<1>3. \A i \in (first + 1)..last : list[i] \in S
  BY <1>2, ElementOfSeq
<1> QED
  BY <1>3, SubSeqProperties

\* Arrays: the arguments that are left, elements, parts, and longer ones.
LEMMA ExecArrays ==
  ASSUME NEW all, NEW G, AtWork(all, G), Instruction.op \in {"LoadArrayArg", "Assign", "AssignArray", "Push", "PushArray"}
  PROVE  /\ Instruction.op = "LoadArrayArg" => \E H : Fits(code, all, LoadArrayArg(Ahead, Instruction), H)
         /\ Instruction.op = "Assign" => \E H : Fits(code, all, Assign(Ahead, Instruction), H)
         /\ Instruction.op = "AssignArray" => \E H : Fits(code, all, AssignArray(Ahead, Instruction), H)
         /\ Instruction.op = "Push" => \E H : Fits(code, all, Push(Ahead, Instruction.array, <<Reg(Instruction.value)>>), H)
         /\ Instruction.op = "PushArray" => \E H : Fits(code, all, Push(Ahead, Instruction.into, Spread(Reg(Instruction.from))), H)
<1> DEFINE op == Instruction
<1>1. op.op \in StoringOps /\ ~MakesHeap(Own, op)
  BY DEF StoringOps, MakesHeap
<1>2. /\ op.op \in {"LoadArrayArg", "Assign", "AssignArray"} => Destination(op) = op.var
      /\ op.op = "Push" => Destination(op) = op.array
      /\ op.op = "PushArray" => Destination(op) = op.into
  BY <1>1, StoringShape
<1>3. op \in InstructionType(Registers(Own), DOMAIN Own.ops, DOMAIN code) /\ IndicesKept(Own, op)
  BY Kept
<1>4. \A list \in Seq(G) : Joinable(G, ArrayValue(list))
  BY NewValue DEF ArrayValue
<1>5. ASSUME op.op = "LoadArrayArg" PROVE \E H : Fits(code, all, LoadArrayArg(Ahead, op), H)
  <2>1. op.from_arg \in Nat
    BY <1>3, <1>5 DEF InstructionType, LoadOps, StoreOps, ArgumentOps, BranchOps, CollectionOps, HeapOps, CallOps, ReturnOps, DefinitionOps
  <2>2. SubSeq(Here.argv, op.from_arg + 1, Len(Here.argv)) \in Seq(G)
    BY <2>1, Current, LenProperties, PartOf
  <2>3. Joinable(G, ArrayValue(SubSeq(Here.argv, op.from_arg + 1, Len(Here.argv))))
    BY <1>4, <2>2
  <2> QED
    BY <1>1, <1>2, <1>5, <2>3, StoresValue DEF LoadArrayArg
<1>6. ASSUME op.op = "Assign" PROVE \E H : Fits(code, all, Assign(Ahead, op), H)
  <2> DEFINE list == Reg(op.array).v
             v == IF Len(list) <= op.size THEN NilValue
                  ELSE IF op.index < 0 THEN list[op.index + Len(list) + 1] ELSE list[op.size + 1]
  <2>1. op.array \in Registers(Own) /\ op.index \in Int /\ op.size \in Nat /\ -op.size <= op.index + 1
    BY <1>3, <1>6 DEF IndicesKept, InstructionType, LoadOps, StoreOps, ArgumentOps, BranchOps, CollectionOps, HeapOps, CallOps, ReturnOps, DefinitionOps
  <2>2. list \in Seq(G) /\ Len(list) \in Nat
    BY <2>1, Registered, LenProperties
  <2> HIDE DEF list
  <2>3. v \in G
    <3>1. CASE Len(list) <= op.size
      BY <3>1, Current DEF BasicValues
    <3>2. CASE ~(Len(list) <= op.size) /\ op.index < 0
      <4>1. op.index + Len(list) + 1 \in 1..Len(list)
        BY <2>1, <2>2, <3>2
      <4> QED
        BY <2>2, <3>2, <4>1, ElementOfSeq
    <3>3. CASE ~(Len(list) <= op.size) /\ ~(op.index < 0)
      <4>1. op.size + 1 \in 1..Len(list)
        BY <2>1, <2>2, <3>3
      <4> QED
        BY <2>2, <3>3, <4>1, ElementOfSeq
    <3> QED
      BY <3>1, <3>2, <3>3
  <2>4. Assign(Ahead, op) = SetIn(Ahead, op.var, v)
    BY DEF Assign, list
  <2> HIDE DEF v
  <2> QED
    BY <1>1, <1>2, <1>6, <2>3, <2>4, KnownJoins, StoresValue
<1>7. ASSUME op.op = "AssignArray" PROVE \E H : Fits(code, all, AssignArray(Ahead, op), H)
  <2> DEFINE list == Reg(op.array).v
             size == IF Len(list) > op.size THEN Len(list) - op.size ELSE 0
             some == SubSeq(list, op.index + 1, op.index + size)
  <2>1. op.array \in Registers(Own) /\ op.index \in Int /\ op.size \in Nat /\ op.index \in 0..op.size
    BY <1>3, <1>7 DEF IndicesKept, InstructionType, LoadOps, StoreOps, ArgumentOps, BranchOps, CollectionOps, HeapOps, CallOps, ReturnOps, DefinitionOps
  <2>2. list \in Seq(G) /\ Len(list) \in Nat
    BY <2>1, Registered, LenProperties
  <2>3. AssignArray(Ahead, op) = SetIn(Ahead, op.var, ArrayValue(some))
    BY DEF AssignArray
  <2> HIDE DEF list
  <2>4. some \in Seq(G)
    <3>1. CASE Len(list) > op.size
      <4>1. op.index + size <= Len(list) /\ op.index \in Nat /\ op.index + size \in Int
        BY <2>1, <2>2, <3>1
      <4> HIDE DEF size
      <4> QED
        BY <2>2, <4>1, PartOf
    <3>2. CASE ~(Len(list) > op.size)
      <4>1. size = 0 /\ op.index + size = op.index
        BY <2>1, <3>2
      <4>2. SubSeq(list, op.index + 1, op.index) = <<>>
        BY <2>1, SubSeqEmpty
      <4> QED
        BY <4>1, <4>2, EmptySeq
    <3> QED
      BY <3>1, <3>2
  <2> HIDE DEF some
  <2>5. Joinable(G, ArrayValue(some))
    BY <1>4, <2>4
  <2> QED
    BY <1>1, <1>2, <1>7, <2>3, <2>5, StoresValue
<1>8. ASSUME NEW array \in Registers(Own), NEW more \in Seq(G), Destination(op) = array PROVE \E H : Fits(code, all, Push(Ahead, array, more), H)
  <2>1. Reg(array).v \o more \in Seq(G)
    BY Registered, ConcatProperties
  <2>2. Joinable(G, ArrayValue(Reg(array).v \o more))
    BY <1>4, <2>1
  <2> QED
    BY <1>1, <1>8, <2>2, StoresValue DEF Push
<1>9. ASSUME op.op = "Push" PROVE \E H : Fits(code, all, Push(Ahead, op.array, <<Reg(op.value)>>), H)
  <2>1. op.array \in Registers(Own) /\ op.value \in Registers(Own)
    BY <1>3, <1>9 DEF InstructionType, LoadOps, StoreOps, ArgumentOps, BranchOps, CollectionOps, HeapOps, CallOps, ReturnOps, DefinitionOps
  <2>2. <<Reg(op.value)>> \in Seq(G)
    BY <2>1, Registered
  <2> QED
    BY <1>2, <1>8, <1>9, <2>1, <2>2
<1>10. ASSUME op.op = "PushArray" PROVE \E H : Fits(code, all, Push(Ahead, op.into, Spread(Reg(op.from))), H)
  <2>1. op.into \in Registers(Own) /\ op.from \in Registers(Own)
    BY <1>3, <1>10 DEF InstructionType, LoadOps, StoreOps, ArgumentOps, BranchOps, CollectionOps, HeapOps, CallOps, ReturnOps, DefinitionOps
  <2>2. Spread(Reg(op.from)) \in Seq(G)
    BY <2>1, Registered DEF Spread
  <2> QED
    BY <1>2, <1>8, <1>10, <2>1, <2>2
<1> QED
  BY <1>5, <1>6, <1>7, <1>9, <1>10

-----------------------------------------------------------------------------
(* Branches.                                                               *)

\* The machine goes on where a branch leads.
LEMMA JumpsTo ==
  ASSUME NEW all, NEW G, AtWork(all, G), NEW pos \in Successors(Instruction, Here.ip),
         NEW mm, Sound(code, all, mm, G), mm.frames # <<>>, Top(mm).code = Here.code,
         Here.written \cup Writes(Instruction, Here.ip, pos) \subseteq Top(mm).written
  PROVE  Fits(code, all, Jump(mm, pos), G)
<1> DEFINE after == Jump(mm, pos)
<1>1. pos \in Int
  <2>1. pos \in DOMAIN Own.ops /\ DOMAIN Own.ops = 1..Len(Own.ops) /\ Len(Own.ops) \in Nat
    BY Kept DEF CodeShape
  <2> QED
    BY <2>1
<1>2. after = [mm EXCEPT !.frames[Len(mm.frames)].ip = pos]
  BY DEF Jump
<1> HIDE DEF after
<1>3. Sound(code, all, after, G) /\ Top(after) = [Top(mm) EXCEPT !.ip = pos]
  BY <1>1, <1>2, GoesTo
<1>4. Top(mm) \in FrameType(code, G, Top(mm).code)
  BY TopFrame DEF AtWork
<1>5. Top(after).code = Here.code /\ Top(after).ip = pos /\ Top(after).written = Top(mm).written
  BY <1>3, <1>4 DEF FrameType
<1>6. Waits(code, all, Top(after), {})
  BY <1>5, Arrives
<1> QED
  BY <1>3, <1>6 DEF Fits, TopWaits, after

\* A branch that is taken or not.
LEMMA Branches ==
  ASSUME NEW all, NEW G, AtWork(all, G), Instruction.op \in {"BranchIf", "BranchUnless", "CaseBranch"}, NEW taken,
         NEW mm, Sound(code, all, mm, G), mm.frames = Ahead.frames, Top(mm) = Top(Ahead)
  PROVE  Fits(code, all, JumpIf(taken, mm, Instruction.pos), G)
<1> DEFINE op == Instruction
<1>1. op \in InstructionType(Registers(Own), DOMAIN Own.ops, DOMAIN code)
  BY Kept
<1>2. Destinations(op) = {}
  BY <1>1 DEF InstructionType, LoadOps, StoreOps, ArgumentOps, BranchOps, CollectionOps, HeapOps, CallOps, ReturnOps, DefinitionOps, Destinations, Fields, VarRead
<1>3. op.pos \in Successors(op, Here.ip) /\ Goes
  <2>1. Successors(op, Here.ip) = {op.pos, Here.ip + 1}
    BY DEF Successors
  <2> QED
    BY <2>1 DEF Goes
<1>4. Writes(op, Here.ip, op.pos) = {} /\ Writes(op, Here.ip, Here.ip + 1) = {}
  BY <1>2 DEF Writes
<1>5. Fits(code, all, Jump(mm, op.pos), G)
  BY <1>3, <1>4, Advanced, JumpsTo
<1>6. Fits(code, all, mm, G)
  BY <1>3, <1>4, Passes
<1> QED
  BY <1>5, <1>6 DEF JumpIf

LEMMA ExecBranch ==
  ASSUME NEW all, NEW G, AtWork(all, G), Instruction.op = "Branch"
  PROVE  Fits(code, all, Jump(Ahead, Instruction.pos), G)
<1> DEFINE op == Instruction
<1>1. Destinations(op) = {}
  BY Kept DEF InstructionType, LoadOps, StoreOps, ArgumentOps, BranchOps, CollectionOps, HeapOps, CallOps, ReturnOps, DefinitionOps, Destinations, Fields
<1>2. op.pos \in Successors(op, Here.ip) /\ Writes(op, Here.ip, op.pos) = {}
  BY <1>1 DEF Successors, Writes
<1> QED
  BY <1>2, Advanced, JumpsTo

\* An argument that is there is loaded, and its default is passed over.
LEMMA ExecLoadArgBranch ==
  ASSUME NEW all, NEW G, AtWork(all, G), Instruction.op = "LoadArgBranch"
  PROVE  Fits(code, all, LoadArgBranch(Ahead, Instruction), G)
<1> DEFINE op == Instruction
           v == Here.argv[op.arg + 1]
           mm == SetIn(Ahead, op.var, v)
<1>1. op.var \in Registers(Own) /\ op.arg \in Nat /\ op.req_args \in Nat /\ op.arg < op.req_args /\ Destinations(op) = {op.var} \ {NoVar}
  BY Kept DEF IndicesKept, InstructionType, LoadOps, StoreOps, ArgumentOps, BranchOps, CollectionOps, HeapOps, CallOps, ReturnOps, DefinitionOps, Destinations, Fields, VarRead
<1>2. Destinations(op) = {op.var} /\ ~MakesHeap(Own, op) /\ Successors(op, Here.ip) = {op.pos, Here.ip + 1}
  BY <1>1, OwnRegisters DEF MakesHeap, Successors
<1>3. CASE Len(Here.argv) >= op.req_args
  <2>1. v \in G
    <3>1. op.arg + 1 \in 1..Len(Here.argv)
      BY <1>1, <1>3, Current, LenProperties
    <3> QED
      BY <3>1, Current, ElementOfSeq
  <2> HIDE DEF v
  <2>2. \A owner : ~HoldsHeap(Own, Here.code, op.var, owner)
    BY <1>1, <1>2, PlainDestination
  <2>3. /\ Sound(code, all, Ahead, G) /\ Top(Ahead).code = Here.code /\ Top(Ahead).written = Here.written /\ Ahead.frames # <<>>
        /\ Here.code # 0
    BY Advanced DEF AtWork
  <2>4. /\ Sound(code, all, mm, G) /\ mm.frames # <<>> /\ Top(mm).code = Here.code
        /\ Top(mm).written = Here.written \cup {op.var}
    <3>1. /\ op.var \in Registers(code[Top(Ahead).code]) /\ Top(Ahead).code # 0
          /\ \A owner \in DOMAIN code :
               HoldsHeap(code[Top(Ahead).code], Top(Ahead).code, op.var, owner) => IsHeapOf(Ahead.heaps, v, owner)
      BY <1>1, <2>2, <2>3 DEF Own
    <3> HIDE DEF op
    <3>2. /\ Sound(code, all, mm, G) /\ mm.frames # <<>> /\ Top(mm).code = Top(Ahead).code
          /\ Top(mm).written = Top(Ahead).written \cup {op.var}
      BY <2>1, <2>3, <3>1, SetRegister
    <3> QED
      BY <2>3, <3>2
  <2>5. Writes(op, Here.ip, op.pos) \subseteq {op.var} /\ op.pos \in Successors(op, Here.ip)
    BY <1>2 DEF Writes
  <2> HIDE DEF mm
  <2>6. Fits(code, all, Jump(mm, op.pos), G)
    BY <2>4, <2>5, JumpsTo
  <2> QED
    BY <1>3, <2>6 DEF LoadArgBranch, mm, v
<1>4. CASE ~(Len(Here.argv) >= op.req_args)
  <2>1. Goes /\ Writes(op, Here.ip, Here.ip + 1) = {}
    BY <1>2 DEF Goes, Writes
  <2>2. Fits(code, all, Ahead, G)
    BY <2>1, Advanced, Passes
  <2> QED
    BY <1>4, <2>2 DEF LoadArgBranch
<1> QED
  BY <1>3, <1>4

\* The calls of === are seen from outside.
LEMMA ExecCaseBranch ==
  ASSUME NEW all, NEW G, AtWork(all, G), Instruction.op = "CaseBranch"
  PROVE  Fits(code, all, CaseBranch(Ahead, Instruction), G)
<1> DEFINE op == Instruction
           value == Reg(op.value)
           list == Spread(Reg(op.list))
           asked == CaseMatch(m.trace, value, list)
           yes == {i \in DOMAIN list : Test(Result(Len(m.trace) + i))}
           times == IF yes = {} THEN Len(list) ELSE Earliest(yes)
           nil_and == <<NilValue, value>>
           calls == [i \in 1..times |-> Event("call", CaseEquals, list[i], nil_and)]
           tr == m.trace \o calls
           mm == [Ahead EXCEPT !.trace = asked.trace]
<1>1. op.value \in Registers(Own) /\ op.list \in Registers(Own)
  BY Kept DEF InstructionType, LoadOps, StoreOps, ArgumentOps, BranchOps, CollectionOps, HeapOps, CallOps, ReturnOps, DefinitionOps
<1>2. value \in G /\ list \in Seq(G)
  BY <1>1, Registered DEF Spread
<1>3. Len(list) \in Nat /\ DOMAIN list = 1..Len(list)
  BY <1>2, LenProperties
<1>4. nil_and \in Seq(G)
  BY <1>2, Current DEF BasicValues
<1>5. asked.trace = tr
  BY DEF CaseMatch
<1> HIDE DEF list, value, nil_and, asked
<1>6. times \in 0..Len(list)
  <2>1. CASE yes = {}
    BY <1>3, <2>1
  <2>2. CASE yes # {}
    <3>1. yes \in SUBSET Nat
      BY <1>3
    <3>2. Earliest(yes) \in yes
      BY <2>2, <3>1, EarliestExists
    <3> QED
      BY <1>3, <2>2, <3>2
  <2> QED
    BY <2>1, <2>2
<1> HIDE DEF yes, times
<1>7. ASSUME NEW i \in 1..times
      PROVE  LET e == Event("call", CaseEquals, list[i], nil_and) IN e \in EventType(G) /\ e.kind = "call"
  <2>1. i \in 1..Len(list)
    BY <1>3, <1>6
  <2>2. list[i] \in G
    BY <1>2, <2>1, ElementOfSeq
  <2>3. "call" \in Kinds /\ CaseEquals \in Names
    BY DEF Kinds, Names
  <2> QED
    BY <1>4, <2>2, <2>3, EventOf
<1>8. calls \in [1..times -> EventType(G)] /\ \A i \in 1..times : calls[i].kind = "call"
  BY <1>7
<1>9. calls \in Seq(EventType(G)) /\ DOMAIN calls = 1..times
  <2>1. times \in Nat
    BY <1>3, <1>6
  <2> HIDE DEF calls
  <2> QED
    BY <1>8, <2>1, ListOf
<1> HIDE DEF calls
<1>10. \A i \in DOMAIN calls : EventFits(code, calls[i])
  BY <1>8, <1>9, EventFit
<1>11. Sound(code, all, Ahead, G) /\ Ahead.trace = m.trace /\ Sound(code, all, m, G)
  BY Advanced DEF AtWork, Fits
<1>12. tr \in Seq(EventType(G)) /\ \A i \in DOMAIN tr : EventFits(code, tr[i])
  BY <1>9, <1>10, <1>11, MoreEvents
<1> HIDE DEF tr
<1>13. Sound(code, all, mm, G) /\ Top(mm) = Top(Ahead) /\ mm.frames = Ahead.frames
  BY <1>5, <1>11, <1>12, TraceChange
<1>14. CaseBranch(Ahead, op) = JumpIf(asked.match, mm, op.pos)
  BY DEF CaseBranch, asked, value, list
<1> HIDE DEF mm
<1> QED
  BY <1>13, <1>14, Branches

-----------------------------------------------------------------------------
(* Closures and heaps.                                                     *)

\* A closure is given the heaps its code looks up.
LEMMA ExecClosure ==
  ASSUME NEW all, NEW G, AtWork(all, G), Instruction.op = "Closure"
  PROVE  \E H : Fits(code, all, CreateClosure(Ahead, Instruction), H)
<1> DEFINE op == Instruction
           scopes == Span(op.argv, op.argc)
           proc == [code |-> op.block, self |-> Here.self, modules |-> Here.modules, scopes |-> scopes]
           mm == [Ahead EXCEPT !.procs = Append(@, proc)]
           n == Len(Ahead.procs) + 1
           v == Value("proc", Unnamed, n, <<>>)
           H == G \cup {v}
<1>1. op \in InstructionType(Registers(Own), DOMAIN Own.ops, DOMAIN code) /\ SpanOf(op) \subseteq Registers(Own)
      /\ SpanOf(op) \subseteq ReadsOf(op) /\ ReadsOf(op) \subseteq Written[Here.ip] /\ OrNoVar(Registers(Own)) \subseteq Int
  BY Kept, OwnRegisters DEF ReadsOf
<1>2. op.block \in DOMAIN code /\ op.argc \in Nat /\ op.argv \in Int
  BY <1>1 DEF InstructionType, LoadOps, StoreOps, ArgumentOps, BranchOps, CollectionOps, HeapOps, CallOps, ReturnOps, DefinitionOps
<1>3. SpanOf(op) = IF op.argc > 0 THEN op.argv..(op.argv + op.argc - 1) ELSE {}
  BY <1>1 DEF SpanOf, InstructionType, LoadOps, StoreOps, ArgumentOps, BranchOps, CollectionOps, HeapOps, CallOps, ReturnOps, DefinitionOps
<1>4. scopes \in Seq(G) /\ Len(scopes) = op.argc /\ \A k \in 1..op.argc : scopes[k] = Here.vars[op.argv + k - 1]
  BY <1>1, <1>2, <1>3, Spans
<1> HIDE DEF scopes
<1>5. op.argc = Len(code[op.block].references)
      /\ \A k \in 1..op.argc : HoldsHeap(Own, Here.code, op.argv + k - 1, code[op.block].references[k])
  BY Kept DEF HeapsKept
<1>6. code[op.block].references \in Seq(DOMAIN code)
  BY <1>2 DEF AtWork, Verified, CodeShape
<1>7. ASSUME NEW k \in 1..op.argc PROVE IsHeapOf(m.heaps, scopes[k], code[op.block].references[k])
  <2>1. op.argv + k - 1 \in SpanOf(op)
    BY <1>2, <1>3
  <2>2. op.argv + k - 1 \in Written[Here.ip] /\ op.argv + k - 1 \in Registers(Own)
    BY <1>1, <2>1
  <2>3. code[op.block].references[k] \in DOMAIN code
    BY <1>5, <1>6, ElementOfSeq
  <2>4. IsHeapOf(m.heaps, Here.vars[op.argv + k - 1], code[op.block].references[k])
    BY <1>5, <2>2, <2>3, HeapThere
  <2> QED
    BY <1>4, <2>4
<1>8. ScopesMatch(code, m.heaps, scopes, op.block)
  <2>1. DOMAIN scopes = 1..op.argc
    BY <1>4, LenProperties
  <2> QED
    BY <1>4, <1>5, <1>7, <2>1 DEF ScopesMatch
<1>9. proc \in ProcType(code, G) /\ ProcFits(code, Ahead.heaps, proc)
  <2>1. Here.self \in G /\ Here.modules \in Seq(G) /\ Here.modules # <<>> /\ Ahead.heaps = m.heaps
    BY Current, Advanced
  <2> QED
    BY <1>2, <1>4, <1>8, <2>1 DEF ProcType, ProcFits
<1> HIDE DEF proc
<1>10. Sound(code, all, Ahead, G)
  BY Advanced
<1>11. mm = [Ahead EXCEPT !.procs = Append(Ahead.procs, proc)]
  BY <1>10, Parts DEF Sound
<1> HIDE DEF mm
<1>12. Sound(code, all, mm, G) /\ Top(mm) = Top(Ahead) /\ mm.frames = Ahead.frames /\ Len(mm.procs) = n
  BY <1>9, <1>10, <1>11, OneProc
<1>13. Sound(code, all, mm, H)
  <2>1. n \in 1..n
    BY <1>10, Parts DEF Sound
  <2> HIDE DEF n
  <2>2. v.v \in Seq(G) /\ v.n = n
    BY EmptySeq DEF Value
  <2> HIDE DEF v
  <2> QED
    BY <1>12, <2>1, <2>2, GrowSound
<1> HIDE DEF H
<1>14. op.op \in StoringOps /\ ~MakesHeap(Own, op) /\ op.op # "LoadArgBranch"
  BY DEF StoringOps, MakesHeap
<1>15. op.var \in Registers(Own) /\ Destinations(op) = {op.var} /\ Goes
  BY <1>14, StoringShape
<1>16. v \in H /\ CreateClosure(Ahead, op) = SetIn(mm, op.var, v)
  BY DEF H, CreateClosure, mm, proc, scopes
<1> HIDE DEF v, op
<1>17. Fits(code, all, SetIn(mm, op.var, v), H)
  BY <1>12, <1>13, <1>14, <1>15, <1>16, StoresPlain DEF op
<1> QED
  BY <1>16, <1>17 DEF op

\* A heap with the variables of the scope, which are nil.
LEMMA ExecCreateHeap ==
  ASSUME NEW all, NEW G, AtWork(all, G), Instruction.op = "CreateHeap"
  PROVE  \E H : Fits(code, all, CreateHeap(Ahead, Instruction), H)
<1> DEFINE op == Instruction
           vars == [i \in 0..(op.size - 1) |-> NilValue]
           heap == [owner |-> Here.code, vars |-> vars]
           hs == Append(m.heaps, heap)
           mm == [Ahead EXCEPT !.heaps = hs]
           n == Len(m.heaps) + 1
           v == Value("heap", Unnamed, n, <<>>)
           H == G \cup {v}
<1>1. op.size = Own.heapVars /\ Here.code \in DOMAIN code /\ NilValue \in G
  BY Kept, Current DEF HeapsKept, BasicValues
<1>2. AtWork(all, H) /\ v \in H
  BY NewLiteral, Joins
<1>3. vars \in [0..(Own.heapVars - 1) -> H]
  BY <1>1
<1> HIDE DEF vars, H
<1>4. heap \in HeapType(code, H) /\ heap.owner = Here.code
  BY <1>1, <1>3 DEF HeapType, Own
<1> HIDE DEF heap
<1>5. Sound(code, all, Ahead, H) /\ Ahead.heaps = m.heaps
  BY <1>2, Advanced
<1>6. m.heaps \in Seq(HeapType(code, H)) /\ Len(m.heaps) \in Nat /\ DOMAIN m.heaps = 1..Len(m.heaps)
  BY <1>5, Parts DEF Sound
<1>7. /\ hs \in Seq(HeapType(code, H)) /\ Len(hs) = n /\ hs[n] = heap
      /\ \A k \in 1..Len(m.heaps) : hs[k] = m.heaps[k]
  BY <1>4, <1>6, AppendProperties
<1>8. DOMAIN hs = 1..n /\ n \in DOMAIN hs
  BY <1>6, <1>7, LenProperties
<1> HIDE DEF hs
<1>9. \A k \in DOMAIN Ahead.heaps : k \in DOMAIN hs /\ hs[k].owner = Ahead.heaps[k].owner
  BY <1>5, <1>6, <1>7, <1>8
<1>10. /\ Sound(code, all, mm, H) /\ Top(mm) = Top(Ahead) /\ mm.frames = Ahead.frames /\ mm.heaps = hs
  BY <1>5, <1>7, <1>9, HeapsChange
<1> HIDE DEF mm, n
<1>11. IsHeapOf(mm.heaps, v, Here.code)
  BY <1>4, <1>7, <1>8, <1>10 DEF IsHeapOf, Value
<1>12. op.op \in StoringOps /\ MakesHeap(Own, op) /\ OwnerGiven(Own, Here.code, op) = Here.code /\ Destination(op) = op.var
  BY StoringShape DEF StoringOps, MakesHeap, OwnerGiven
<1> HIDE DEF v
<1>13. Fits(code, all, SetIn(mm, Destination(op), v), H)
  BY <1>2, <1>10, <1>11, <1>12, StoresHeap
<1>14. CreateHeap(Ahead, op) = SetIn(mm, op.var, v)
  <2>1. mm = [Ahead EXCEPT !.heaps = Append(@, heap)]
    BY <1>5, Parts DEF mm, hs, Sound
  <2> QED
    BY <1>5, <2>1 DEF CreateHeap, heap, vars, v, n
<1> QED
  BY <1>12, <1>13, <1>14

\* A variable of a heap is written.
LEMMA ExecSetHeapVar ==
  ASSUME NEW all, NEW G, AtWork(all, G), Instruction.op = "SetHeapVar"
  PROVE  Fits(code, all, SetHeapVar(Ahead, Instruction), G)
<1> DEFINE op == Instruction
           at == Reg(op.heap).n
           v == Reg(op.var)
           heap == [m.heaps[at] EXCEPT !.vars[op.index] = v]
           hs == [m.heaps EXCEPT ![at] = heap]
           mm == [Ahead EXCEPT !.heaps = hs]
<1>1. op.var \in Registers(Own) /\ Destinations(op) = {}
  BY Kept DEF InstructionType, LoadOps, StoreOps, ArgumentOps, BranchOps, CollectionOps, HeapOps, CallOps, ReturnOps, DefinitionOps, Destinations, Fields, VarRead
<1>2. v \in G
  BY <1>1, Registered
<1>3. PICK id \in DOMAIN code : /\ at \in DOMAIN m.heaps
                                /\ m.heaps[at] \in [owner : {id}, vars : [0..(code[id].heapVars - 1) -> G]]
                                /\ op.index \in 0..(code[id].heapVars - 1)
  BY HeapVariable
<1> HIDE DEF at, v
<1>4. heap \in [owner : {id}, vars : [0..(code[id].heapVars - 1) -> G]] /\ heap.owner = m.heaps[at].owner
  BY <1>2, <1>3
<1>5. heap \in HeapType(code, G)
  BY <1>4 DEF HeapType
<1> HIDE DEF heap
<1>6. Sound(code, all, Ahead, G) /\ Ahead.heaps = m.heaps
  BY Advanced
<1>7. m.heaps \in Seq(HeapType(code, G)) /\ DOMAIN m.heaps = 1..Len(m.heaps)
  BY <1>6, Parts DEF Sound
<1>8. /\ hs \in Seq(HeapType(code, G)) /\ Len(hs) = Len(m.heaps)
      /\ \A k \in 1..Len(m.heaps) : hs[k] = IF k = at THEN heap ELSE m.heaps[k]
  BY <1>3, <1>5, <1>7, ExceptSeq
<1>9. DOMAIN hs = 1..Len(m.heaps)
  BY <1>8, LenProperties
<1> HIDE DEF hs
<1>10. \A k \in DOMAIN Ahead.heaps : k \in DOMAIN hs /\ hs[k].owner = Ahead.heaps[k].owner
  BY <1>4, <1>6, <1>7, <1>8, <1>9
<1>11. Sound(code, all, mm, G) /\ Top(mm) = Top(Ahead)
  BY <1>6, <1>8, <1>10, HeapsChange
<1>12. SetHeapVar(Ahead, op) = mm
  BY <1>6, Parts DEF SetHeapVar, mm, hs, heap, at, v, Sound
<1>13. Goes /\ Writes(op, Here.ip, Here.ip + 1) = {}
  BY <1>1 DEF Goes, Successors, Writes
<1> HIDE DEF mm
<1> QED
  BY <1>11, <1>12, <1>13, Passes

-----------------------------------------------------------------------------
(* What is seen from outside, and nothing else.                            *)

\* The instructions that are no more than an event.
TracingOps == {"SetIVar", "SetGlobal", "SetConst", "SetScopedConst", "Alias", "Undef", "Method", "SingletonMethod"}

LEMMA Traces ==
  ASSUME NEW all, NEW G, AtWork(all, G), Instruction.op \in TracingOps,
         NEW kind \in Kinds, NEW name \in Names, NEW place \in G, NEW list \in Seq(G), list # <<>>,
         kind = "def" => FreeCode(code, list[1].n)
  PROVE  Fits(code, all, Traced(Ahead, Event(kind, name, place, list)), G)
<1> DEFINE e == Event(kind, name, place, list)
           mm == Traced(Ahead, e)
<1>1. e \in EventType(G) /\ e.kind = kind /\ e.list = list
  BY EventOf
<1> HIDE DEF e
<1>2. EventFits(code, e)
  BY <1>1, EventFit
<1>3. Sound(code, all, mm, G) /\ Top(mm) = Top(Ahead)
  BY <1>1, <1>2, Advanced, OneEvent
<1>4. Goes /\ Destinations(Instruction) = {}
  BY Kept DEF InstructionType, LoadOps, StoreOps, ArgumentOps, BranchOps, CollectionOps, HeapOps, CallOps, ReturnOps, DefinitionOps,
              Destinations, Fields, VarRead, TracingOps, Goes, Successors
<1>5. Writes(Instruction, Here.ip, Here.ip + 1) = {}
  BY <1>4 DEF Writes
<1> HIDE DEF mm
<1> QED
  BY <1>3, <1>4, <1>5, Passes DEF mm, e

\* The innermost module.
LEMMA InnermostModule ==
  ASSUME NEW all, NEW G, AtWork(all, G)
  PROVE  Here.modules[1] \in G /\ Here.modules \in Seq(G)
<1>1. Here.modules \in Seq(G) /\ Len(Here.modules) \in Nat \ {0}
  BY Current, EmptySeq
<1> QED
  BY <1>1, ElementOfSeq

LEMMA ExecWrites ==
  ASSUME NEW all, NEW G, AtWork(all, G), Instruction.op \in {"SetIVar", "SetGlobal", "SetConst", "SetScopedConst"}
  PROVE  /\ Instruction.op = "SetIVar" =>
              Fits(code, all, WriteName(Ahead, Here.self, Instruction.symbol, Reg(Instruction.var)), G)
         /\ Instruction.op = "SetGlobal" =>
              Fits(code, all, WriteName(Ahead, Globals, Instruction.symbol, Reg(Instruction.var)), G)
         /\ Instruction.op = "SetConst" =>
              Fits(code, all, WriteName(Ahead, Here.modules[1], Instruction.symbol, Reg(Instruction.var)), G)
         /\ Instruction.op = "SetScopedConst" =>
              Fits(code, all, WriteName(Ahead, Reg(Instruction.obj), Instruction.symbol, Reg(Instruction.var)), G)
<1> DEFINE op == Instruction
           v == Reg(op.var)
           list == <<v>>
<1>1. op.symbol \in STRING /\ op.var \in Registers(Own) /\ (op.op = "SetScopedConst" => op.obj \in Registers(Own))
  BY Kept DEF InstructionType, LoadOps, StoreOps, ArgumentOps, BranchOps, CollectionOps, HeapOps, CallOps, ReturnOps, DefinitionOps
<1>2. v \in G
  BY <1>1, Registered
<1> HIDE DEF v
<1>3. list \in Seq(G) /\ list # <<>> /\ "set" \in Kinds /\ op.symbol \in Names /\ op.op \in TracingOps
  BY <1>1, <1>2 DEF Kinds, Names, TracingOps
<1> HIDE DEF list, op
<1>4. ASSUME NEW place \in G PROVE Fits(code, all, WriteName(Ahead, place, op.symbol, v), G)
  <2>1. WriteName(Ahead, place, op.symbol, v) = Traced(Ahead, Event("set", op.symbol, place, list))
    BY DEF WriteName, list
  <2> QED
    BY <1>3, <2>1, Traces DEF op
<1>5. Here.self \in G /\ Globals \in G /\ Here.modules[1] \in G
  BY Current, InnermostModule DEF BasicValues
<1>6. op.op = "SetScopedConst" => Reg(op.obj) \in G
  BY <1>1, Registered DEF op
<1> QED
  BY <1>4, <1>5, <1>6 DEF op, v

LEMMA ExecNames ==
  ASSUME NEW all, NEW G, AtWork(all, G), Instruction.op \in {"Alias", "Undef"}
  PROVE  /\ Instruction.op = "Alias" =>
              Fits(code, all, Traced(Ahead, Event("alias", Unnamed, Here.modules[1],
                                                  <<Reg(Instruction.new_name), Reg(Instruction.old_name)>>)), G)
         /\ Instruction.op = "Undef" =>
              Fits(code, all, Traced(Ahead, Event("undef", Unnamed, Here.modules[1], <<Reg(Instruction.name)>>)), G)
<1> DEFINE op == Instruction
<1>1. Here.modules[1] \in G /\ Unnamed \in Names /\ "alias" \in Kinds /\ "undef" \in Kinds /\ op.op \in TracingOps
  BY InnermostModule DEF Names, Kinds, TracingOps
<1>2. CASE op.op = "Alias"
  <2>1. op.new_name \in Registers(Own) /\ op.old_name \in Registers(Own)
    BY <1>2, Kept DEF InstructionType, LoadOps, StoreOps, ArgumentOps, BranchOps, CollectionOps, HeapOps, CallOps, ReturnOps, DefinitionOps
  <2> DEFINE list == <<Reg(op.new_name), Reg(op.old_name)>>
  <2>2. list \in Seq(G) /\ list # <<>>
    BY <2>1, Registered
  <2> HIDE DEF list
  <2>3. Fits(code, all, Traced(Ahead, Event("alias", Unnamed, Here.modules[1], list)), G)
    BY <1>1, <2>2, Traces
  <2> QED
    BY <1>2, <2>3 DEF list
<1>3. CASE op.op = "Undef"
  <2>1. op.name \in Registers(Own)
    BY <1>3, Kept DEF InstructionType, LoadOps, StoreOps, ArgumentOps, BranchOps, CollectionOps, HeapOps, CallOps, ReturnOps, DefinitionOps
  <2> DEFINE list == <<Reg(op.name)>>
  <2>2. list \in Seq(G) /\ list # <<>>
    BY <2>1, Registered
  <2> HIDE DEF list
  <2>3. Fits(code, all, Traced(Ahead, Event("undef", Unnamed, Here.modules[1], list)), G)
    BY <1>1, <2>2, Traces
  <2> QED
    BY <1>3, <2>3 DEF list
<1> QED
  BY <1>2, <1>3

\* The code of a method is that of no closure.
LEMMA Defines ==
  ASSUME NEW all, NEW G, AtWork(all, G), Instruction.op \in {"Method", "SingletonMethod"}, NEW place, Joinable(G, place)
  PROVE  \E H : Fits(code, all, DefineMethod(Ahead, Instruction.symbol, place, Instruction.block), H)
<1> DEFINE op == Instruction
           v == Value("code", Unnamed, op.block, <<>>)
           list == <<v>>
           F == G \cup {place}
           H == F \cup {v}
<1>1. op.symbol \in STRING /\ op.block \in DOMAIN code /\ code[op.block].references = <<>> /\ op.op \in TracingOps
  BY Kept DEF InstructionType, LoadOps, StoreOps, ArgumentOps, BranchOps, CollectionOps, HeapOps, CallOps, ReturnOps, DefinitionOps,
              ScopesKept, TracingOps
<1>2. FreeCode(code, v.n) /\ list[1] = v
  BY <1>1 DEF FreeCode, Value
<1>3. AtWork(all, F)
  BY Joins
<1> HIDE DEF F
<1>4. AtWork(all, H)
  BY <1>3, NewLiteral, Joins
<1>5. v \in H /\ place \in H
  BY DEF F
<1> HIDE DEF v, H
<1>6. list \in Seq(H) /\ list # <<>> /\ "def" \in Kinds /\ op.symbol \in Names
  BY <1>1, <1>5 DEF Names, Kinds
<1>7. DefineMethod(Ahead, op.symbol, place, op.block) = Traced(Ahead, Event("def", op.symbol, place, list))
  BY DEF DefineMethod, v
<1> HIDE DEF list, op
<1>8. Fits(code, all, Traced(Ahead, Event("def", op.symbol, place, list)), H)
  BY <1>1, <1>2, <1>4, <1>5, <1>6, Traces DEF op
<1> QED
  BY <1>7, <1>8 DEF op

LEMMA ExecDefinitions ==
  ASSUME NEW all, NEW G, AtWork(all, G), Instruction.op \in {"Method", "SingletonMethod"}
  PROVE  /\ Instruction.op = "Method" =>
              \E H : Fits(code, all, DefineMethod(Ahead, Instruction.symbol, Here.modules[1], Instruction.block), H)
         /\ Instruction.op = "SingletonMethod" =>
              \E H : Fits(code, all, DefineMethod(Ahead, Instruction.symbol,
                                                 Value("singleton", Unnamed, 0, <<Reg(Instruction.singleton)>>), Instruction.block), H)
<1> DEFINE op == Instruction
           list == <<Reg(op.singleton)>>
<1>1. Joinable(G, Here.modules[1])
  BY InnermostModule, KnownJoins
<1>2. ASSUME op.op = "SingletonMethod" PROVE Joinable(G, Value("singleton", Unnamed, 0, list))
  <2>1. op.singleton \in Registers(Own)
    BY <1>2, Kept DEF InstructionType, LoadOps, StoreOps, ArgumentOps, BranchOps, CollectionOps, HeapOps, CallOps, ReturnOps, DefinitionOps
  <2>2. list \in Seq(G)
    BY <2>1, Registered
  <2> HIDE DEF list
  <2> QED
    BY <2>2, NewValue
<1> HIDE DEF list
<1>3. op.op = "SingletonMethod" => \E H : Fits(code, all, DefineMethod(Ahead, op.symbol, Value("singleton", Unnamed, 0, list), op.block), H)
  BY <1>2, Defines
<1> QED
  BY <1>1, <1>3, Defines DEF list

-----------------------------------------------------------------------------
(* Instructions with a result that may be of no use, calls among them.     *)

LEMMA AwaitsResult ==
  ASSUME NEW all, NEW G, AtWork(all, G), Instruction.op \in MayBeUnused
  PROVE  Awaits(code, all, Top(Ahead), Instruction.var) /\ Instruction.var \in Int
<1> DEFINE op == Instruction
<1>1. op.var \in OrNoVar(Registers(Own))
  BY Kept DEF InstructionType, LoadOps, StoreOps, ArgumentOps, BranchOps, CollectionOps, HeapOps, CallOps, ReturnOps, DefinitionOps, MayBeUnused
<1>2. Destinations(op) = {op.var} \ {NoVar}
  BY Kept DEF InstructionType, LoadOps, StoreOps, ArgumentOps, BranchOps, CollectionOps, HeapOps, CallOps, ReturnOps, DefinitionOps,
              MayBeUnused, Destinations, Fields, VarRead
<1>3. Goes /\ ~MakesHeap(Own, op) /\ op.op # "LoadArgBranch"
  BY DEF Goes, Successors, MakesHeap, MayBeUnused
<1>4. Awaits(code, all, Top(Ahead), op.var)
  BY <1>1, <1>2, <1>3, Expects
<1> QED
  BY <1>1, <1>4, OwnRegisters

\* The machine goes on with a result.
LEMMA Answers ==
  ASSUME NEW all, NEW G, AtWork(all, G), Instruction.op \in MayBeUnused, NEW v \in G,
         NEW mm, Sound(code, all, mm, G), Top(mm) = Top(Ahead), mm.frames = Ahead.frames
  PROVE  Fits(code, all, SetIfVar(mm, Instruction.var, v), G)
<1>1. mm.frames # <<>> /\ Top(mm).code # 0
  BY Advanced DEF AtWork
<1>2. Awaits(code, all, Top(mm), Instruction.var)
  BY AwaitsResult
<1> HIDE DEF Instruction
<1> QED
  BY <1>1, <1>2, ResultLands

\* A constant is what was last written to it in the innermost module that has it.
LEMMA ConstantRead ==
  ASSUME NEW all, NEW G, AtWork(all, G), NEW modules, NEW name
  PROVE  Joinable(G, ReadConst(m.trace, modules, name))
<1> DEFINE has == {i \in DOMAIN modules : WritesOf(m.trace, modules[i], name) # {}}
<1>1. CASE has = {}
  <2>1. ReadConst(m.trace, modules, name) = Literal("outside", name)
    BY <1>1 DEF ReadConst
  <2> QED
    BY <2>1, NewLiteral
<1>2. CASE has # {}
  <2> DEFINE place == modules[Earliest(has)]
  <2>1. ReadConst(m.trace, modules, name) = ReadName(m.trace, place, name)
    BY <1>2 DEF ReadConst
  <2> HIDE DEF place
  <2> QED
    BY <2>1, NameRead
<1> QED
  BY <1>1, <1>2

LEMMA ExecConstants ==
  ASSUME NEW all, NEW G, AtWork(all, G), Instruction.op \in {"GetConst", "GetScopedConst"}
  PROVE  /\ Instruction.op = "GetConst" =>
              \E H : Fits(code, all, SetIfVar(Ahead, Instruction.var, ReadConst(m.trace, Here.modules, Instruction.symbol)), H)
         /\ Instruction.op = "GetScopedConst" =>
              \E H : Fits(code, all, SetIfVar(Ahead, Instruction.var, ReadName(m.trace, Reg(Instruction.obj), Instruction.symbol)), H)
<1>1. ASSUME NEW v, Joinable(G, v) PROVE \E H : Fits(code, all, SetIfVar(Ahead, Instruction.var, v), H)
  <2> DEFINE H == G \cup {v}
  <2>1. AtWork(all, H) /\ v \in H
    BY <1>1, Joins
  <2> HIDE DEF H
  <2>2. Sound(code, all, Ahead, H) /\ Instruction.op \in MayBeUnused
    BY <2>1, Advanced DEF MayBeUnused
  <2>3. Fits(code, all, SetIfVar(Ahead, Instruction.var, v), H)
    BY <2>1, <2>2, Answers
  <2> QED
    BY <2>3
<1>2. /\ Joinable(G, ReadConst(m.trace, Here.modules, Instruction.symbol))
      /\ Joinable(G, ReadName(m.trace, Reg(Instruction.obj), Instruction.symbol))
  BY ConstantRead, NameRead
<1> QED
  BY <1>1, <1>2

\* The result of the next event may join.
LEMMA ResultJoins ==
  ASSUME NEW all, NEW G, AtWork(all, G), NEW n
  PROVE  Joinable(G, Result(n))
<1>1. Joinable(G, Value("result", Unnamed, n, <<>>))
  BY NewLiteral
<1>2. Joinable(G, NilValue)
  BY Current, KnownJoins DEF BasicValues
<1> QED
  BY <1>1, <1>2 DEF Result

LEMMA SuperCalled ==
  ASSUME NEW all, NEW G, AtWork(all, G), Instruction.op \in {"Super", "VariadicSuper"}, NEW argv \in Seq(G)
  PROVE  \E H : Fits(code, all, CallSuper(Ahead, Instruction, argv), H)
<1> DEFINE op == Instruction
           v == Result(Len(m.trace) + 1)
           H == G \cup {v}
           e == Event("super", Unnamed, Here.self, argv)
           mm == Traced(Ahead, e)
<1>1. Joinable(G, v)
  BY ResultJoins
<1>2. CallSuper(Ahead, op, argv) = SetIfVar(mm, op.var, v)
  BY DEF CallSuper
<1> HIDE DEF v
<1>3. AtWork(all, H) /\ v \in H /\ argv \in Seq(H)
  BY <1>1, Joins, SeqMonotonic
<1> HIDE DEF H
<1>4. e \in EventType(H) /\ e.kind = "super"
  <2>1. Here.self \in H /\ "super" \in Kinds /\ Unnamed \in Names
    BY <1>3, Current DEF Kinds, Names
  <2> QED
    BY <1>3, <2>1, EventOf
<1> HIDE DEF e
<1>5. Sound(code, all, mm, H) /\ Top(mm) = Top(Ahead) /\ mm.frames = Ahead.frames
  <2>1. Sound(code, all, Ahead, H)
    BY <1>3, Advanced
  <2> QED
    BY <1>4, <2>1, EventFit, OneEvent
<1>6. op.op \in MayBeUnused
  BY DEF MayBeUnused
<1> HIDE DEF mm
<1>7. Fits(code, all, SetIfVar(mm, op.var, v), H)
  BY <1>3, <1>5, <1>6, Answers
<1> QED
  BY <1>2, <1>7

LEMMA MethodCalledHere ==
  ASSUME NEW all, NEW G, AtWork(all, G), Instruction.op \in {"Call", "VariadicCall"},
         NEW name \in Names, NEW obj \in G, NEW block \in G, NEW argv \in Seq(G)
  PROVE  \E H : Fits(code, all, CallMethod(Ahead, name, obj, block, argv, Instruction.var), H)
<1> DEFINE dst == Instruction.var
           v == Result(Len(m.trace) + 1)
           H == G \cup {v}
<1>1. Joinable(G, v)
  BY ResultJoins
<1>2. Instruction.op \in MayBeUnused
  BY DEF MayBeUnused
<1>3. AtWork(all, H) /\ argv \in Seq(H) /\ obj \in H /\ block \in H /\ v \in H
  <2> HIDE DEF v
  <2> QED
    BY <1>1, Joins, SeqMonotonic
<1>4. v = Result(Len(Ahead.trace) + 1)
  BY Advanced
<1> HIDE DEF H, v
<1>5. /\ Verified(code) /\ Sound(code, all, Ahead, H) /\ Ahead.frames # <<>> /\ Top(Ahead).code # 0
      /\ Awaits(code, all, Top(Ahead), dst) /\ dst \in Int
  BY <1>2, <1>3, Advanced, AwaitsResult DEF AtWork
<1> HIDE DEF dst
<1>6. Fits(code, all, CallMethod(Ahead, name, obj, block, argv, dst), H)
  BY <1>3, <1>4, <1>5, MethodCalled
<1> QED
  BY <1>6 DEF dst

LEMMA ExecCalls ==
  ASSUME NEW all, NEW G, AtWork(all, G), Instruction.op \in {"Call", "VariadicCall", "Super", "VariadicSuper"}
  PROVE  /\ Instruction.op = "Call" =>
              \E H : Fits(code, all, CallMethod(Ahead, Instruction.symbol, Reg(Instruction.obj), OptionalReg(Instruction.block_var),
                                               Span(Instruction.argv, Instruction.argc), Instruction.var), H)
         /\ Instruction.op = "VariadicCall" =>
              \E H : Fits(code, all, CallMethod(Ahead, Instruction.symbol, Reg(Instruction.obj), OptionalReg(Instruction.block_var),
                                               Reg(Instruction.array).v, Instruction.var), H)
         /\ Instruction.op = "Super" =>
              \E H : Fits(code, all, CallSuper(Ahead, Instruction, Span(Instruction.argv, Instruction.argc)), H)
         /\ Instruction.op = "VariadicSuper" =>
              \E H : Fits(code, all, CallSuper(Ahead, Instruction, Reg(Instruction.array).v), H)
<1> DEFINE op == Instruction
<1>1. op \in InstructionType(Registers(Own), DOMAIN Own.ops, DOMAIN code) /\ SpanOf(op) \subseteq Registers(Own)
      /\ OrNoVar(Registers(Own)) \subseteq Int
  BY Kept, OwnRegisters
<1>2. ASSUME op.op \in {"Call", "Super"} PROVE Span(op.argv, op.argc) \in Seq(G)
  <2>1. op.argc \in Nat /\ op.argv \in Int /\ (op.argc > 0 => op.argv..(op.argv + op.argc - 1) \subseteq Registers(Own))
    BY <1>1, <1>2 DEF InstructionType, LoadOps, StoreOps, ArgumentOps, BranchOps, CollectionOps, HeapOps, CallOps, ReturnOps, DefinitionOps, SpanOf
  <2> QED
    BY <2>1, Spans
<1>3. ASSUME op.op \in {"VariadicCall", "VariadicSuper"} PROVE Reg(op.array).v \in Seq(G)
  <2>1. op.array \in Registers(Own)
    BY <1>1, <1>3 DEF InstructionType, LoadOps, StoreOps, ArgumentOps, BranchOps, CollectionOps, HeapOps, CallOps, ReturnOps, DefinitionOps
  <2> QED
    BY <2>1, Registered
<1>4. ASSUME op.op \in {"Call", "VariadicCall"} PROVE op.symbol \in Names /\ Reg(op.obj) \in G /\ OptionalReg(op.block_var) \in G
  <2>1. op.symbol \in STRING /\ op.obj \in Registers(Own) /\ op.block_var \in OrNoVar(Registers(Own))
    BY <1>1, <1>4 DEF InstructionType, LoadOps, StoreOps, ArgumentOps, BranchOps, CollectionOps, HeapOps, CallOps, ReturnOps, DefinitionOps
  <2> QED
    BY <2>1, Registered, OptionalRegistered DEF Names
<1>5. ASSUME op.op = "Call"
      PROVE  \E H : Fits(code, all, CallMethod(Ahead, op.symbol, Reg(op.obj), OptionalReg(op.block_var), Span(op.argv, op.argc), op.var), H)
  BY <1>2, <1>4, <1>5, MethodCalledHere
<1>6. ASSUME op.op = "VariadicCall"
      PROVE  \E H : Fits(code, all, CallMethod(Ahead, op.symbol, Reg(op.obj), OptionalReg(op.block_var), Reg(op.array).v, op.var), H)
  BY <1>3, <1>4, <1>6, MethodCalledHere
<1>7. ASSUME op.op = "Super" PROVE \E H : Fits(code, all, CallSuper(Ahead, op, Span(op.argv, op.argc)), H)
  BY <1>2, <1>7, SuperCalled
<1>8. ASSUME op.op = "VariadicSuper" PROVE \E H : Fits(code, all, CallSuper(Ahead, op, Reg(op.array).v), H)
  BY <1>3, <1>8, SuperCalled
<1> QED
  BY <1>5, <1>6, <1>7, <1>8

LEMMA ExecAssertBlock ==
  ASSUME NEW all, NEW G, AtWork(all, G), Instruction.op = "AssertBlock"
  PROVE  Fits(code, all, AssertBlock(Ahead, Instruction), G)
<1>1. Destinations(Instruction) = {}
  BY Kept DEF InstructionType, LoadOps, StoreOps, ArgumentOps, BranchOps, CollectionOps, HeapOps, CallOps, ReturnOps, DefinitionOps, Destinations, Fields, VarRead
<1>2. Goes /\ Writes(Instruction, Here.ip, Here.ip + 1) = {} /\ Sound(code, all, Ahead, G)
  BY <1>1, Advanced DEF Goes, Successors, Writes
<1>3. Fits(code, all, Ahead, G)
  BY <1>2, Passes
<1>4. Fits(code, all, Abort(Ahead), G)
  BY <1>2, Aborted
<1> QED
  BY <1>3, <1>4 DEF AssertBlock

-----------------------------------------------------------------------------
(* Bodies of classes and modules.                                          *)

LEMMA BodyEntered ==
  ASSUME NEW all, NEW G, AtWork(all, G), Instruction.op \in {"Class", "Module", "SingletonClass"},
         NEW kind \in {"class", "module"}, NEW name \in Names, NEW place \in G, NEW self \in G, NEW list \in Seq(G)
  PROVE  Fits(code, all, EnterBody(Ahead, Instruction, kind, name, place, self, list), G)
<1> DEFINE op == Instruction
           dst == op.var
           own == <<self>>
           modules == own \o Here.modules
           none == <<>>
           e == Event(kind, name, place, list)
           set == Event("set", name, place, own)
           first == Traced(Ahead, e)
           mm == Traced(first, set)
<1>1. own \in Seq(G) /\ own # <<>> /\ modules \in Seq(G) /\ modules # <<>>
  <2>1. Here.modules \in Seq(G) /\ own \in Seq(G) /\ Len(own) = 1 /\ own # <<>>
    BY Current
  <2> HIDE DEF own
  <2>2. modules \in Seq(G) /\ Len(modules) = Len(own) + Len(Here.modules)
    BY <2>1, ConcatProperties
  <2>3. Len(Here.modules) \in Nat /\ Len(modules) # 0
    <3> HIDE DEF modules
    <3> QED
      BY <2>1, <2>2, LenProperties
  <2> HIDE DEF modules
  <2> QED
    BY <2>1, <2>2, <2>3, EmptySeq
<1>2. none \in Seq(G) /\ Len(none) = 0 /\ DOMAIN none = {}
  BY EmptySeq
<1>3. op.block \in DOMAIN code /\ code[op.block].references = none /\ op.op \in MayBeUnused
  BY Kept DEF InstructionType, LoadOps, StoreOps, ArgumentOps, BranchOps, CollectionOps, HeapOps, CallOps, ReturnOps, DefinitionOps,
              ScopesKept, MayBeUnused
<1>4. EnterBody(Ahead, op, kind, name, place, self, list)
        = CallCode(mm, op.block, self, modules, none, NilValue, none, dst)
  BY DEF EnterBody
<1> HIDE DEF own, modules
<1>5. e \in EventType(G) /\ e.kind = kind /\ set \in EventType(G) /\ set.kind = "set" /\ set.list = own
  <2>1. kind \in Kinds /\ "set" \in Kinds
    BY DEF Kinds
  <2> QED
    BY <1>1, <2>1, EventOf
<1> HIDE DEF e, set
<1>6. EventFits(code, e) /\ EventFits(code, set)
  BY <1>1, <1>5, EventFit
<1>7. /\ Sound(code, all, first, G) /\ Top(first) = Top(Ahead) /\ first.frames = Ahead.frames /\ first.heaps = Ahead.heaps
  BY <1>5, <1>6, Advanced, OneEvent
<1> HIDE DEF first
<1>8. /\ Sound(code, all, mm, G) /\ Top(mm) = Top(Ahead) /\ mm.frames = Ahead.frames
  <2>1. Sound(code, all, mm, G) /\ Top(mm) = Top(first) /\ mm.frames = first.frames
    BY <1>5, <1>6, <1>7, OneEvent
  <2> QED
    BY <1>7, <2>1
<1> HIDE DEF mm
<1>9. ScopesMatch(code, mm.heaps, none, op.block)
  BY <1>2, <1>3 DEF ScopesMatch
<1>10. Awaits(code, all, Top(mm), dst) /\ dst \in Int
  BY <1>3, <1>8, AwaitsResult
<1>11. Verified(code) /\ NilValue \in G
  BY Current DEF AtWork, BasicValues
<1> HIDE DEF none, dst, op
<1>12. Fits(code, all, CallCode(mm, op.block, self, modules, none, NilValue, none, dst), G)
  BY <1>1, <1>2, <1>3, <1>8, <1>9, <1>10, <1>11, CodeCalled
<1> QED
  BY <1>4, <1>12 DEF op

\* A class or module is what its body runs with, and what the name of it is then.
LEMMA NewBodyEntered ==
  ASSUME NEW all, NEW G, AtWork(all, G), Instruction.op \in {"Class", "Module", "SingletonClass"},
         NEW kind \in {"class", "module"}, NEW name \in Names, NEW place \in G, NEW list \in Seq(G),
         NEW self, Joinable(G, self)
  PROVE  \E H : Fits(code, all, EnterBody(Ahead, Instruction, kind, name, place, self, list), H)
<1> DEFINE H == G \cup {self}
<1>1. AtWork(all, H) /\ self \in H /\ place \in H /\ list \in Seq(H)
  BY Joins, SeqMonotonic
<1> HIDE DEF H
<1>2. Fits(code, all, EnterBody(Ahead, Instruction, kind, name, place, self, list), H)
  BY <1>1, BodyEntered
<1> QED
  BY <1>2

LEMMA ExecBodies ==
  ASSUME NEW all, NEW G, AtWork(all, G), Instruction.op \in {"Class", "Module", "SingletonClass"}
  PROVE  /\ Instruction.op = "Class" => \E H : Fits(code, all, OpenClass(Ahead, Instruction), H)
         /\ Instruction.op = "Module" => \E H : Fits(code, all, OpenModule(Ahead, Instruction), H)
         /\ Instruction.op = "SingletonClass" => \E H : Fits(code, all, OpenSingletonClass(Ahead, Instruction), H)
<1> DEFINE op == Instruction
<1>1. op \in InstructionType(Registers(Own), DOMAIN Own.ops, DOMAIN code)
  BY Kept
<1>2. ObjectClass \in G /\ Here.modules[1] \in G
  BY Current, InnermostModule DEF BasicValues
<1>3. ASSUME op.op \in {"Class", "Module"} PROVE op.symbol \in Names /\ ScopeOf(op) \in G
  <2>1. op.symbol \in STRING /\ op.scope \in OrNoVar(Registers(Own))
    BY <1>1, <1>3 DEF InstructionType, LoadOps, StoreOps, ArgumentOps, BranchOps, CollectionOps, HeapOps, CallOps, ReturnOps, DefinitionOps
  <2>2. op.scope # NoVar => Reg(op.scope) \in G
    BY <2>1, Registered DEF OrNoVar
  <2> QED
    BY <1>2, <2>1, <2>2 DEF ScopeOf, Names
<1>4. CASE op.op = "Class"
  <2> DEFINE super == IF op.super = NoVar THEN ObjectClass ELSE Reg(op.super)
             list == <<super>>
             self == Literal("class", op.symbol)
  <2>1. op.super \in OrNoVar(Registers(Own))
    BY <1>1, <1>4 DEF InstructionType, LoadOps, StoreOps, ArgumentOps, BranchOps, CollectionOps, HeapOps, CallOps, ReturnOps, DefinitionOps
  <2>2. super \in G
    BY <1>2, <2>1, Registered DEF OrNoVar
  <2> HIDE DEF super
  <2>3. list \in Seq(G)
    BY <2>2
  <2>4. Joinable(G, self)
    BY NewLiteral
  <2> HIDE DEF list, self
  <2>5. \E H : Fits(code, all, EnterBody(Ahead, op, "class", op.symbol, ScopeOf(op), self, list), H)
    BY <1>3, <1>4, <2>3, <2>4, NewBodyEntered
  <2> QED
    BY <1>4, <2>5 DEF OpenClass, self, list, super
<1>5. CASE op.op = "Module"
  <2> DEFINE self == Literal("module", op.symbol)
             none == <<>>
  <2>1. Joinable(G, self) /\ none \in Seq(G)
    BY NewLiteral, EmptySeq
  <2> HIDE DEF self, none
  <2>2. \E H : Fits(code, all, EnterBody(Ahead, op, "module", op.symbol, ScopeOf(op), self, none), H)
    BY <1>3, <1>5, <2>1, NewBodyEntered
  <2> QED
    BY <1>5, <2>2 DEF OpenModule, self, none
<1>6. CASE op.op = "SingletonClass"
  <2> DEFINE of == Reg(op.singleton)
             list == <<of>>
             self == Value("singleton", Unnamed, 0, list)
             none == <<>>
  <2>1. op.singleton \in Registers(Own)
    BY <1>1, <1>6 DEF InstructionType, LoadOps, StoreOps, ArgumentOps, BranchOps, CollectionOps, HeapOps, CallOps, ReturnOps, DefinitionOps
  <2>2. of \in G /\ SingletonName \in Names /\ none \in Seq(G)
    BY <2>1, Registered, EmptySeq DEF Names
  <2> HIDE DEF of
  <2>3. list \in Seq(G)
    BY <2>2
  <2> HIDE DEF list
  <2>4. Joinable(G, self)
    BY <2>3, NewValue
  <2> HIDE DEF self, none
  <2>5. \E H : Fits(code, all, EnterBody(Ahead, op, "class", SingletonName, of, self, none), H)
    BY <1>6, <2>2, <2>4, NewBodyEntered
  <2> QED
    BY <1>6, <2>5 DEF OpenSingletonClass, self, none, of, list
<1> QED
  BY <1>4, <1>5, <1>6

-----------------------------------------------------------------------------
(* Returns.                                                                *)

LEMMA ExecReturn ==
  ASSUME NEW all, NEW G, AtWork(all, G), Instruction.op = "Return"
  PROVE  Fits(code, all, GiveBack(Ahead, Reg(Instruction.var)), G)
<1>1. Instruction.var \in Registers(Own)
  BY Kept DEF InstructionType, LoadOps, StoreOps, ArgumentOps, BranchOps, CollectionOps, HeapOps, CallOps, ReturnOps, DefinitionOps
<1>2. Reg(Instruction.var) \in G
  BY <1>1, Registered
<1> QED
  BY <1>2, Advanced, GivesBack

LEMMA ExecUnwindReturn ==
  ASSUME NEW all, NEW G, AtWork(all, G), Instruction.op = "UnwindReturn"
  PROVE  Fits(code, all, UnwindReturn(Ahead, Instruction), G)
<1> DEFINE op == Instruction
           at == Unwound(Ahead, op.code)
<1>1. op.var \in Registers(Own)
  BY Kept DEF InstructionType, LoadOps, StoreOps, ArgumentOps, BranchOps, CollectionOps, HeapOps, CallOps, ReturnOps, DefinitionOps
<1>2. Reg(op.var) \in G
  BY <1>1, Registered
<1>3. Sound(code, all, at, G)
  BY Advanced, UnwoundTo
<1>4. UnwindReturn(Ahead, op) = IF at.frames = <<>> THEN Abort(at) ELSE GiveBack(at, Reg(op.var))
  BY DEF UnwindReturn
<1> HIDE DEF at
<1>5. Fits(code, all, Abort(at), G) /\ (at.frames # <<>> => Fits(code, all, GiveBack(at, Reg(op.var)), G))
  BY <1>2, <1>3, Aborted, GivesBack
<1> QED
  BY <1>4, <1>5

\* The machine ahead has the same frames, but for where the one on top goes on.
LEMMA FramesAhead ==
  ASSUME NEW all, NEW G, AtWork(all, G)
  PROVE  /\ Len(Ahead.frames) = Len(m.frames) /\ DOMAIN Ahead.frames = DOMAIN m.frames
         /\ \A k \in DOMAIN m.frames : Ahead.frames[k].code = m.frames[k].code /\ Ahead.frames[k].dst = m.frames[k].dst
         /\ Ahead.frames[Len(m.frames)].code = Here.code
<1> DEFINE n == Len(m.frames)
           f == [Here EXCEPT !.ip = @ + 1]
<1>1. m \in MachineType(code, G) /\ Here = Top(m) /\ Sound(code, all, m, G) /\ m.frames # <<>> /\ Here.code # 0
  BY Current DEF AtWork, Fits, Sound
<1>2. m.frames \in Seq(FramesOf(code, G)) /\ n \in 1..n /\ n \in Nat /\ DOMAIN m.frames = 1..n
  BY <1>1, Parts, LastOf
<1>3. Here \in FramesOf(code, G) /\ Here \in FrameType(code, G, Here.code)
  BY <1>1, TopFrame
<1>4. Ahead.frames = [m.frames EXCEPT ![n] = f]
  BY <1>1, Parts DEF Ahead, Here
<1>5. f.code = Here.code /\ f.dst = Here.dst
  BY <1>3 DEF FrameType
<1> HIDE DEF f
<1>6. DOMAIN Ahead.frames = 1..n /\ \A k \in 1..n : Ahead.frames[k] = IF k = n THEN f ELSE m.frames[k]
  BY <1>2, <1>4
<1>7. Ahead.frames \in Seq(FramesOf(code, G))
  BY Advanced, Parts DEF Sound
<1>8. Len(Ahead.frames) = n
  BY <1>2, <1>6, <1>7, LenProperties
<1> QED
  BY <1>2, <1>5, <1>6, <1>8 DEF Here

\* A break goes on where the closure was passed to a call, and is the result of it.
LEMMA ExecUnwindBreak ==
  ASSUME NEW all, NEW G, AtWork(all, G), Instruction.op = "UnwindBreak", all => WellUsed /\ Running
  PROVE  Fits(code, all, UnwindBreak(Ahead, Instruction), G)
<1> DEFINE op == Instruction
           at == Unwound(Ahead, op.code)
           k == FrameOf(Ahead, op.code)
           n == Len(m.frames)
           dst == m.frames[k + 1].dst
<1>1. op.var \in Registers(Own) /\ op.code \in DOMAIN code
  BY Kept DEF InstructionType, LoadOps, StoreOps, ArgumentOps, BranchOps, CollectionOps, HeapOps, CallOps, ReturnOps, DefinitionOps
<1>2. Reg(op.var) \in G
  BY <1>1, Registered
<1>3. op.code # Here.code /\ op.parent_dst \in OrNoVar(Plain(code, op.code)) /\ op.code # 0
  <2>1. op.code # 0
    BY <1>1 DEF AtWork, Verified
  <2> QED
    BY <2>1, Kept DEF ScopesKept, Plain
<1>4. /\ Sound(code, all, at, G) /\ k \in 0..Len(Ahead.frames) /\ (k # 0 => Ahead.frames[k].code = op.code)
      /\ Len(at.frames) = k /\ \A j \in 1..k : at.frames[j] = Ahead.frames[j]
  BY Advanced, UnwoundTo
<1>5. UnwindBreak(Ahead, op) = IF at.frames = <<>> THEN Abort(at) ELSE SetIfVar(at, op.parent_dst, Reg(op.var))
  BY DEF UnwindBreak
<1>6. k = FrameOf(m, op.code)
  BY FramesAhead DEF FrameOf
<1> HIDE DEF at, k
<1>7. CASE at.frames = <<>>
  BY <1>4, <1>5, <1>7, Aborted
<1>8. CASE at.frames # <<>>
  <2>1. n \in Nat /\ DOMAIN m.frames = 1..n /\ Len(at.frames) \in Nat \ {0}
    <3>1. Sound(code, all, m, G) /\ m \in MachineType(code, G) /\ at \in MachineType(code, G)
      BY <1>4 DEF AtWork, Fits, Sound
    <3> QED
      BY <1>8, <3>1, Parts, EmptySeq
  <2>2. k \in 1..n /\ Len(Ahead.frames) = n /\ DOMAIN Ahead.frames = 1..n
    BY <1>4, <2>1, FramesAhead
  <2>3. k # n
    BY <1>3, <1>4, <2>2, FramesAhead
  <2>4. k \in 1..(n - 1) /\ k + 1 \in 1..n /\ k # 0 /\ k \in 1..k
    BY <2>1, <2>2, <2>3
  <2>5. Top(at) = Ahead.frames[k] /\ Top(at).code = op.code
    BY <1>4, <2>4 DEF Top
  <2>6. Linked(code, all, Ahead.frames[k], Ahead.frames[k + 1]) /\ Ahead.frames[k + 1].dst = dst
    BY <2>1, <2>2, <2>4, Advanced, FramesAhead DEF Sound
  <2>7. Awaits(code, all, Top(at), dst)
    BY <2>5, <2>6 DEF Linked
  <2>8. Awaits(code, all, Top(at), op.parent_dst)
    <3>1. CASE all
      <4>1. WellUsed /\ Running /\ Here.code # 0
        BY <3>1 DEF AtWork
      <4>2. dst = op.parent_dst
        BY <1>6, <2>4, <4>1 DEF WellUsed, BreaksLand
      <4> QED
        BY <2>7, <4>2
    <3>2. CASE ~all
      BY <1>3, <2>5, <2>7, <3>2 DEF Awaits, Waits, OrNoVar
    <3> QED
      BY <3>1, <3>2
  <2> HIDE DEF op
  <2>9. Fits(code, all, SetIfVar(at, op.parent_dst, Reg(op.var)), G)
    <3>1. Top(at).code # 0
      BY <1>3, <2>5
    <3> QED
      BY <1>2, <1>4, <1>8, <2>8, <3>1, ResultLands
  <2> QED
    BY <1>5, <1>8, <2>9 DEF op
<1> QED
  BY <1>7, <1>8

-----------------------------------------------------------------------------
(* Every step.                                                             *)

\* What an instruction does.
LEMMA ExecFits ==
  ASSUME NEW all, NEW G, AtWork(all, G), all => WellUsed /\ Running
  PROVE  \E H : Fits(code, all, Exec(Ahead, Instruction), H)
<1> DEFINE op == Instruction
<1>1. CASE op.op \in SimpleOps
  <2>1. Exec(Ahead, op) = SetIn(Ahead, op.var, SimpleValue(op))
    BY <1>1 DEF Exec, SimpleOps
  <2> QED
    BY <1>1, <2>1, ExecSimple
<1>2. CASE op.op = "Move"
  <2>1. Exec(Ahead, op) = SetIn(Ahead, op.dst, Reg(op.src))
    BY <1>2 DEF Exec, SimpleOps
  <2> QED
    BY <1>2, <2>1, ExecMove
<1>3. CASE op.op = "LoadArg"
  <2>1. Exec(Ahead, op) = LoadArg(Ahead, op)
    BY <1>3 DEF Exec, SimpleOps
  <2> QED
    BY <1>3, <2>1, ExecLoadArg
<1>4. CASE op.op = "LoadArgFloat"
  <2>1. Exec(Ahead, op) = LoadArgFloat(Ahead, op)
    BY <1>4 DEF Exec, SimpleOps
  <2> QED
    BY <1>4, <2>1, ExecLoadArgFloat
<1>5. CASE op.op = "LoadArrayArg"
  <2>1. Exec(Ahead, op) = LoadArrayArg(Ahead, op)
    BY <1>5 DEF Exec, SimpleOps
  <2> QED
    BY <1>5, <2>1, ExecArrays
<1>6. CASE op.op = "LoadArgBranch"
  <2>1. Exec(Ahead, op) = LoadArgBranch(Ahead, op)
    BY <1>6 DEF Exec, SimpleOps
  <2> QED
    BY <1>6, <2>1, ExecLoadArgBranch
<1>7. CASE op.op = "Branch"
  <2>1. Exec(Ahead, op) = Jump(Ahead, op.pos)
    BY <1>7 DEF Exec, SimpleOps
  <2> QED
    BY <1>7, <2>1, ExecBranch
<1>8. CASE op.op = "BranchIf"
  <2>1. Exec(Ahead, op) = JumpIf(Test(Reg(op.var)), Ahead, op.pos)
    BY <1>8 DEF Exec, SimpleOps
  <2> QED
    BY <1>8, <2>1, Advanced, Branches
<1>9. CASE op.op = "BranchUnless"
  <2>1. Exec(Ahead, op) = JumpIf(~Test(Reg(op.var)), Ahead, op.pos)
    BY <1>9 DEF Exec, SimpleOps
  <2> QED
    BY <1>9, <2>1, Advanced, Branches
<1>10. CASE op.op = "CaseBranch"
  <2>1. Exec(Ahead, op) = CaseBranch(Ahead, op)
    BY <1>10 DEF Exec, SimpleOps
  <2> QED
    BY <1>10, <2>1, ExecCaseBranch
<1>11. CASE op.op = "Assign"
  <2>1. Exec(Ahead, op) = Assign(Ahead, op)
    BY <1>11 DEF Exec, SimpleOps
  <2> QED
    BY <1>11, <2>1, ExecArrays
<1>12. CASE op.op = "AssignArray"
  <2>1. Exec(Ahead, op) = AssignArray(Ahead, op)
    BY <1>12 DEF Exec, SimpleOps
  <2> QED
    BY <1>12, <2>1, ExecArrays
<1>13. CASE op.op = "Push"
  <2>1. Exec(Ahead, op) = Push(Ahead, op.array, <<Reg(op.value)>>)
    BY <1>13 DEF Exec, SimpleOps
  <2> QED
    BY <1>13, <2>1, ExecArrays
<1>14. CASE op.op = "PushArray"
  <2>1. Exec(Ahead, op) = Push(Ahead, op.into, Spread(Reg(op.from)))
    BY <1>14 DEF Exec, SimpleOps
  <2> QED
    BY <1>14, <2>1, ExecArrays
<1>15. CASE op.op = "Closure"
  <2>1. Exec(Ahead, op) = CreateClosure(Ahead, op)
    BY <1>15 DEF Exec, SimpleOps
  <2> QED
    BY <1>15, <2>1, ExecClosure
<1>16. CASE op.op = "CreateHeap"
  <2>1. Exec(Ahead, op) = CreateHeap(Ahead, op)
    BY <1>16 DEF Exec, SimpleOps
  <2> QED
    BY <1>16, <2>1, ExecCreateHeap
<1>17. CASE op.op = "SetHeapVar"
  <2>1. Exec(Ahead, op) = SetHeapVar(Ahead, op)
    BY <1>17 DEF Exec, SimpleOps
  <2> QED
    BY <1>17, <2>1, ExecSetHeapVar
<1>18. CASE op.op = "SetIVar"
  <2>1. Exec(Ahead, op) = WriteName(Ahead, Here.self, op.symbol, Reg(op.var))
    BY <1>18 DEF Exec, SimpleOps
  <2> QED
    BY <1>18, <2>1, ExecWrites
<1>19. CASE op.op = "SetGlobal"
  <2>1. Exec(Ahead, op) = WriteName(Ahead, Globals, op.symbol, Reg(op.var))
    BY <1>19 DEF Exec, SimpleOps
  <2> QED
    BY <1>19, <2>1, ExecWrites
<1>20. CASE op.op = "SetConst"
  <2>1. Exec(Ahead, op) = WriteName(Ahead, Here.modules[1], op.symbol, Reg(op.var))
    BY <1>20 DEF Exec, SimpleOps
  <2> QED
    BY <1>20, <2>1, ExecWrites
<1>21. CASE op.op = "SetScopedConst"
  <2>1. Exec(Ahead, op) = WriteName(Ahead, Reg(op.obj), op.symbol, Reg(op.var))
    BY <1>21 DEF Exec, SimpleOps
  <2> QED
    BY <1>21, <2>1, ExecWrites
<1>22. CASE op.op = "GetConst"
  <2>1. Exec(Ahead, op) = SetIfVar(Ahead, op.var, ReadConst(m.trace, Here.modules, op.symbol))
    BY <1>22 DEF Exec, SimpleOps
  <2> QED
    BY <1>22, <2>1, ExecConstants
<1>23. CASE op.op = "GetScopedConst"
  <2>1. Exec(Ahead, op) = SetIfVar(Ahead, op.var, ReadName(m.trace, Reg(op.obj), op.symbol))
    BY <1>23 DEF Exec, SimpleOps
  <2> QED
    BY <1>23, <2>1, ExecConstants
<1>24. CASE op.op = "Call"
  <2>1. Exec(Ahead, op) = CallMethod(Ahead, op.symbol, Reg(op.obj), OptionalReg(op.block_var), Span(op.argv, op.argc), op.var)
    BY <1>24 DEF Exec, SimpleOps
  <2> QED
    BY <1>24, <2>1, ExecCalls
<1>25. CASE op.op = "VariadicCall"
  <2>1. Exec(Ahead, op) = CallMethod(Ahead, op.symbol, Reg(op.obj), OptionalReg(op.block_var), Reg(op.array).v, op.var)
    BY <1>25 DEF Exec, SimpleOps
  <2> QED
    BY <1>25, <2>1, ExecCalls
<1>26. CASE op.op = "Super"
  <2>1. Exec(Ahead, op) = CallSuper(Ahead, op, Span(op.argv, op.argc))
    BY <1>26 DEF Exec, SimpleOps
  <2> QED
    BY <1>26, <2>1, ExecCalls
<1>27. CASE op.op = "VariadicSuper"
  <2>1. Exec(Ahead, op) = CallSuper(Ahead, op, Reg(op.array).v)
    BY <1>27 DEF Exec, SimpleOps
  <2> QED
    BY <1>27, <2>1, ExecCalls
<1>28. CASE op.op = "AssertBlock"
  <2>1. Exec(Ahead, op) = AssertBlock(Ahead, op)
    BY <1>28 DEF Exec, SimpleOps
  <2> QED
    BY <1>28, <2>1, ExecAssertBlock
<1>29. CASE op.op = "Return"
  <2>1. Exec(Ahead, op) = GiveBack(Ahead, Reg(op.var))
    BY <1>29 DEF Exec, SimpleOps
  <2> QED
    BY <1>29, <2>1, ExecReturn
<1>30. CASE op.op = "UnwindReturn"
  <2>1. Exec(Ahead, op) = UnwindReturn(Ahead, op)
    BY <1>30 DEF Exec, SimpleOps
  <2> QED
    BY <1>30, <2>1, ExecUnwindReturn
<1>31. CASE op.op = "UnwindBreak"
  <2>1. Exec(Ahead, op) = UnwindBreak(Ahead, op)
    BY <1>31 DEF Exec, SimpleOps
  <2> QED
    BY <1>31, <2>1, ExecUnwindBreak
<1>32. CASE op.op = "Class"
  <2>1. Exec(Ahead, op) = OpenClass(Ahead, op)
    BY <1>32 DEF Exec, SimpleOps
  <2> QED
    BY <1>32, <2>1, ExecBodies
<1>33. CASE op.op = "Module"
  <2>1. Exec(Ahead, op) = OpenModule(Ahead, op)
    BY <1>33 DEF Exec, SimpleOps
  <2> QED
    BY <1>33, <2>1, ExecBodies
<1>34. CASE op.op = "SingletonClass"
  <2>1. Exec(Ahead, op) = OpenSingletonClass(Ahead, op)
    BY <1>34 DEF Exec, SimpleOps
  <2> QED
    BY <1>34, <2>1, ExecBodies
<1>35. CASE op.op = "Method"
  <2>1. Exec(Ahead, op) = DefineMethod(Ahead, op.symbol, Here.modules[1], op.block)
    BY <1>35 DEF Exec, SimpleOps
  <2> QED
    BY <1>35, <2>1, ExecDefinitions
<1>36. CASE op.op = "SingletonMethod"
  <2>1. Exec(Ahead, op) = DefineMethod(Ahead, op.symbol, Value("singleton", Unnamed, 0, <<Reg(op.singleton)>>), op.block)
    BY <1>36 DEF Exec, SimpleOps
  <2> QED
    BY <1>36, <2>1, ExecDefinitions
<1>37. CASE op.op = "Alias"
  <2>1. Exec(Ahead, op) = Traced(Ahead, Event("alias", Unnamed, Here.modules[1], <<Reg(op.new_name), Reg(op.old_name)>>))
    BY <1>37 DEF Exec, SimpleOps
  <2> QED
    BY <1>37, <2>1, ExecNames
<1>38. CASE op.op = "Undef"
  <2>1. Exec(Ahead, op) = Traced(Ahead, Event("undef", Unnamed, Here.modules[1], <<Reg(op.name)>>))
    BY <1>38 DEF Exec, SimpleOps
  <2> QED
    BY <1>38, <2>1, ExecNames
<1>39. op.op \in SimpleOps \cup {"Move", "LoadArg", "LoadArgFloat", "LoadArrayArg", "LoadArgBranch", "Branch", "BranchIf", "BranchUnless", "CaseBranch", "Assign", "AssignArray", "Push", "PushArray", "Closure", "CreateHeap", "SetHeapVar", "SetIVar", "SetGlobal", "SetConst", "SetScopedConst", "GetConst", "GetScopedConst", "Call", "VariadicCall", "Super", "VariadicSuper", "AssertBlock", "Return", "UnwindReturn", "UnwindBreak", "Class", "Module", "SingletonClass", "Method", "SingletonMethod", "Alias", "Undef"}
  BY Kept DEF InstructionType, LoadOps, StoreOps, ArgumentOps, BranchOps, CollectionOps, HeapOps, CallOps, ReturnOps, DefinitionOps, SimpleOps
<1> HIDE DEF op
<1> QED
  BY <1>1, <1>2, <1>3, <1>4, <1>5, <1>6, <1>7, <1>8, <1>9, <1>10, <1>11, <1>12, <1>13, <1>14, <1>15, <1>16, <1>17, <1>18, <1>19, <1>20, <1>21, <1>22, <1>23, <1>24, <1>25, <1>26, <1>27, <1>28, <1>29, <1>30, <1>31, <1>32, <1>33, <1>34, <1>35, <1>36, <1>37, <1>38, <1>39

\* What a method does that is not the program's.
LEMMA NativeFits ==
  ASSUME NEW all, NEW G, Verified(code), Fits(code, all, m, G), m.frames # <<>>, Here.code = 0
  PROVE  Fits(code, all, NativeStep(m), G)
<1> DEFINE ip == Here.ip - 1
           mm == [m EXCEPT !.frames[Len(m.frames)].ip = @ - 1]
           argv == <<Passed1, Passed2>>
<1>1. Sound(code, all, m, G) /\ Here = Top(m)
  BY DEF Fits, Here, Top
<1>2. /\ Here \in FramesOf(code, G) /\ FrameFits(code, m.heaps, Here) /\ Here.block \in G /\ Here.self \in G /\ Here.ip \in Int
  BY <1>1, TopFrame
<1>3. Here.block.k = "proc" /\ ip \in Int
  BY <1>2 DEF FrameFits
<1>4. Here \in NativeType(G)
  <2>1. ASSUME NEW id \in DOMAIN code PROVE Here \notin FrameType(code, G, id)
    BY DEF FrameType, Verified
  <2> QED
    BY <1>2, <2>1 DEF FramesOf
<1>5. NilValue \in G /\ argv \in Seq(G) /\ NoVar \in Int
  <2>1. NilValue \in G /\ Passed1 \in G /\ Passed2 \in G
    BY <1>1 DEF Sound, ClosedValues, BasicValues
  <2> QED
    BY <2>1 DEF NoVar
<1> HIDE DEF ip
<1>6. mm = [m EXCEPT !.frames[Len(m.frames)].ip = ip]
  <2>1. m \in MachineType(code, G)
    BY <1>1 DEF Sound
  <2> QED
    BY <1>1, <2>1, Parts, TopFrame DEF Here, ip
<1>7. NativeStep(m) = IF Here.ip = 0 THEN GiveBack(m, Here.self) ELSE CallProc(mm, Here.block, NilValue, argv, NoVar)
  BY DEF NativeStep
<1> HIDE DEF mm, argv
<1>8. Sound(code, all, mm, G) /\ Top(mm) = [Here EXCEPT !.ip = ip] /\ mm.frames # <<>>
  BY <1>1, <1>3, <1>6, GoesTo
<1>9. Top(mm).code = 0
  BY <1>4, <1>8 DEF NativeType
<1>10. Awaits(code, all, Top(mm), NoVar)
  BY <1>9 DEF Awaits
<1>11. Fits(code, all, CallProc(mm, Here.block, NilValue, argv, NoVar), G)
  BY <1>2, <1>3, <1>5, <1>8, <1>10, ProcCalled
<1>12. Fits(code, all, GiveBack(m, Here.self), G)
  BY <1>1, <1>2, GivesBack
<1> QED
  BY <1>7, <1>11, <1>12

\* A machine that has done nothing.
LEMMA FreshFits ==
  ASSUME NEW c, NEW all
  PROVE  Fits(c, all, [frames |-> <<>>, heaps |-> <<>>, procs |-> <<>>, trace |-> <<>>], BasicValues)
<1> DEFINE mm == [frames |-> <<>>, heaps |-> <<>>, procs |-> <<>>, trace |-> <<>>]
           G == BasicValues
<1>1. ClosedValues(G, 0)
  <2>1. ASSUME NEW v \in G PROVE v.v \in Seq(G) /\ v.k # "proc"
    <3>1. v.v = <<>> /\ v.k # "proc"
      BY DEF BasicValues, NilValue, TrueValue, FalseValue, ObjectClass, Main, Globals, Passed1, Passed2, Value
    <3> QED
      BY <3>1, EmptySeq
  <2> QED
    BY <2>1 DEF ClosedValues
<1>2. mm \in MachineType(c, G)
  <2>1. /\ <<>> \in Seq(FramesOf(c, G)) /\ <<>> \in Seq(HeapType(c, G)) /\ <<>> \in Seq(ProcType(c, G))
        /\ <<>> \in Seq(EventType(G))
    BY EmptySeq
  <2> QED
    BY <2>1 DEF MachineType
<1>3. /\ mm.frames = <<>> /\ mm.heaps = <<>> /\ mm.procs = <<>> /\ mm.trace = <<>>
      /\ Len(mm.frames) = 0 /\ Len(mm.procs) = 0 /\ DOMAIN mm.frames = {} /\ DOMAIN mm.procs = {} /\ DOMAIN mm.trace = {}
  BY EmptySeq
<1> HIDE DEF mm, G
<1>4. 1..(Len(mm.frames) - 1) = {}
  BY <1>3
<1>5. Sound(c, all, mm, G)
  BY <1>1, <1>2, <1>3, <1>4 DEF Sound
<1>6. Fits(c, all, mm, G)
  BY <1>3, <1>5 DEF Fits, TopWaits
<1> QED
  BY <1>6 DEF mm, G

\* The program is entered.
LEMMA StartFits ==
  ASSUME NEW all, NEW G, Verified(code), Fits(code, all, m, G)
  PROVE  Fits(code, all, [m EXCEPT !.frames = <<Frame(1, Main, <<ObjectClass>>, <<>>, NilValue, <<>>, NoVar)>>], G)
<1> DEFINE modules == <<ObjectClass>>
           none == <<>>
           f == Frame(1, Main, modules, none, NilValue, none, NoVar)
           fs == <<f>>
           mm == [m EXCEPT !.frames = fs]
<1>1. Sound(code, all, m, G) /\ m \in MachineType(code, G)
  BY DEF Fits, Sound
<1>2. /\ Main \in G /\ NilValue \in G /\ modules \in Seq(G) /\ modules # <<>> /\ none \in Seq(G) /\ Len(none) = 0
      /\ DOMAIN none = {} /\ NoVar \in Int
  <2>1. Main \in G /\ NilValue \in G /\ ObjectClass \in G
    BY <1>1 DEF Sound, ClosedValues, BasicValues
  <2> QED
    BY <2>1, EmptySeq DEF NoVar
<1>3. 1 \in DOMAIN code /\ code[1].references = none
  <2>1. code # <<>> /\ DOMAIN code = 1..Len(code) /\ code[1].references = none
    BY DEF Verified
  <2>2. 1 \in DOMAIN code
    BY <2>1 DEF Verified
  <2> QED
    BY <2>1, <2>2
<1>4. ScopesMatch(code, m.heaps, none, 1)
  BY <1>2, <1>3 DEF ScopesMatch
<1> HIDE DEF modules, none
<1>5. f \in FrameType(code, G, 1)
  BY <1>2, <1>3, NewFrameType
<1>6. FrameFits(code, m.heaps, f) /\ Waits(code, all, f, {})
  BY <1>2, <1>3, <1>4, NewFrame
<1> HIDE DEF f
<1>7. f \in FramesOf(code, G)
  BY <1>3, <1>5 DEF FramesOf
<1>8. fs \in Seq(FramesOf(code, G)) /\ Len(fs) = 1 /\ fs[1] = f /\ fs # <<>>
  BY <1>7
<1> HIDE DEF fs
<1>9. Sound(code, all, mm, G)
  <2>1. \A k \in 1..Len(fs) : FrameFits(code, m.heaps, fs[k])
    BY <1>6, <1>8
  <2>2. 1..(Len(fs) - 1) = {}
    BY <1>8
  <2> QED
    BY <1>1, <1>8, <2>1, <2>2, FramesChange
<1>10. mm.frames = fs
  BY <1>1, Parts
<1>11. Fits(code, all, mm, G)
  BY <1>6, <1>8, <1>9, <1>10 DEF Fits, TopWaits, Top
<1> QED
  BY <1>11 DEF mm, fs, f, modules, none

-----------------------------------------------------------------------------
(* The invariant and what follows.                                         *)

LEMMA InvInit == ASSUME NEW all, MachineInit PROVE Inv(all)
BY DEF MachineInit, Inv

LEMMA InvStep ==
  ASSUME NEW all, Inv(all), all => WellUsed, [MachineNext]_machineVars
  PROVE  Inv(all)'
<1>1. CASE GiveCode
  <2>1. status = "empty" /\ m = [frames |-> <<>>, heaps |-> <<>>, procs |-> <<>>, trace |-> <<>>]
    BY <1>1 DEF GiveCode, Inv
  <2>2. status' = "ready" /\ Verified(code') /\ m' = m
    BY <1>1 DEF GiveCode
  <2>3. Fits(code', all, m', BasicValues)
    BY <2>1, <2>2, FreshFits
  <2>4. Verified(code') /\ \E G : Fits(code', all, m', G)
    BY <2>2, <2>3
  <2>5. status' \in {"ready", "running", "stopped"}
    BY <2>2
  <2> QED
    BY <2>4, <2>5 DEF Inv
<1>2. ASSUME status \in {"ready", "running", "stopped"}, code' = code, status' \in {"ready", "running", "stopped"},
             \A G : Verified(code) /\ Fits(code, all, m, G) => \E H : Fits(code, all, m', H)
      PROVE  Inv(all)'
  <2>1. PICK G : Verified(code) /\ Fits(code, all, m, G)
    BY <1>2 DEF Inv
  <2>2. PICK H : Fits(code, all, m', H)
    BY <1>2, <2>1
  <2>3. Verified(code') /\ Fits(code', all, m', H)
    BY <1>2, <2>1, <2>2
  <2> QED
    BY <1>2, <2>3 DEF Inv
<1>3. CASE Start
  <2>1. status = "ready" /\ status' = "running" /\ code' = code
    BY <1>3 DEF Start
  <2>2. ASSUME NEW G, Verified(code), Fits(code, all, m, G) PROVE Fits(code, all, m', G)
    BY <1>3, <2>2, StartFits DEF Start
  <2> QED
    BY <1>2, <2>1, <2>2
<1>4. CASE Execute
  <2>1. Running /\ Here.code # 0 /\ m' = Exec(Ahead, Instruction) /\ code' = code /\ status' = status
    BY <1>4 DEF Execute, Ahead
  <2>2. status = "running" /\ m.frames # <<>>
    BY <2>1 DEF Running
  <2>3. ASSUME NEW G, Verified(code), Fits(code, all, m, G) PROVE \E H : Fits(code, all, m', H)
    <3>1. AtWork(all, G)
      BY <2>1, <2>2, <2>3 DEF AtWork
    <3> QED
      BY <2>1, <3>1, ExecFits
  <2> QED
    BY <1>2, <2>1, <2>2, <2>3
<1>5. CASE CallBlock
  <2>1. Running /\ Here.code = 0 /\ m' = NativeStep(m) /\ code' = code /\ status' = status
    BY <1>5 DEF CallBlock
  <2>2. status = "running" /\ m.frames # <<>>
    BY <2>1 DEF Running
  <2>3. ASSUME NEW G, Verified(code), Fits(code, all, m, G) PROVE Fits(code, all, m', G)
    BY <2>1, <2>2, <2>3, NativeFits
  <2> QED
    BY <1>2, <2>1, <2>2, <2>3
<1>6. CASE Stop
  BY <1>2, <1>6 DEF Stop
<1>7. CASE UNCHANGED machineVars
  BY <1>7 DEF machineVars, Inv
<1> QED
  BY <1>1, <1>3, <1>4, <1>5, <1>6, <1>7 DEF MachineNext, Run

\* The heaps of closures.
LEMMA InvHeaps == ASSUME NEW all, Inv(all) PROVE HeapsMatchReferences
<1> SUFFICES ASSUME NEW i \in DOMAIN m.procs
             PROVE  LET proc == m.procs[i]
                        list == code[proc.code].references
                    IN /\ Len(proc.scopes) = Len(list)
                       /\ \A k \in DOMAIN list : proc.scopes[k].k = "heap" /\ m.heaps[proc.scopes[k].n].owner = list[k]
  BY DEF HeapsMatchReferences
<1> DEFINE proc == m.procs[i]
           list == code[proc.code].references
<1>1. PICK G : Verified(code) /\ Fits(code, all, m, G)
  <2>1. status = "empty" => DOMAIN m.procs = {}
    BY EmptySeq DEF Inv
  <2> QED
    BY <2>1 DEF Inv
<1>2. Sound(code, all, m, G) /\ proc \in ProcType(code, G) /\ ProcFits(code, m.heaps, proc)
  <2>1. Sound(code, all, m, G)
    BY <1>1 DEF Fits
  <2>2. m.procs \in Seq(ProcType(code, G)) /\ DOMAIN m.procs = 1..Len(m.procs)
    BY <2>1, Parts DEF Sound
  <2> QED
    BY <2>1, <2>2, ElementOfSeq DEF Sound
<1> HIDE DEF proc
<1>3. list \in Seq(DOMAIN code) /\ proc.scopes \in Seq(G)
  BY <1>1, <1>2 DEF ProcType, Verified, CodeShape
<1>4. Len(proc.scopes) = Len(list) /\ \A k \in DOMAIN proc.scopes : IsHeapOf(m.heaps, proc.scopes[k], list[k])
  BY <1>2 DEF ProcFits, ScopesMatch
<1>5. DOMAIN list = DOMAIN proc.scopes
  BY <1>3, <1>4, LenProperties
<1> HIDE DEF list
<1> QED
  BY <1>4, <1>5 DEF IsHeapOf, proc, list

\* What is read was written.
LEMMA InvOperands == ASSUME Inv(TRUE) PROVE OperandsWritten
<1> SUFFICES ASSUME Running, Here.code # 0 PROVE ReadsOf(Instruction) \subseteq Here.written
  BY DEF OperandsWritten
<1>1. PICK G : Verified(code) /\ Fits(code, TRUE, m, G)
  BY DEF Running, Inv
<1>2. AtWork(TRUE, G)
  BY <1>1 DEF AtWork, Running
<1>3. ReadsOf(Instruction) \subseteq Written[Here.ip]
  BY <1>2, Kept
<1>4. Written[Here.ip] \subseteq Here.written \cup (IF TRUE THEN {} ELSE Plain(code, Here.code))
  BY <1>2, Current
<1> QED
  BY <1>3, <1>4

\* Operands that are registers of the frame, and branches that lead to an instruction.
LEMMA InvInFrame == ASSUME NEW all, Inv(all) PROVE OperandsInFrame
<1> SUFFICES ASSUME NEW id \in DOMAIN code, NEW i \in DOMAIN code[id].ops
             PROVE  /\ Operands(code[id].ops[i]) \subseteq Registers(code[id])
                    /\ "pos" \in DOMAIN code[id].ops[i] => code[id].ops[i].pos \in DOMAIN code[id].ops
  BY DEF OperandsInFrame
<1> DEFINE one == code[id]
           op == one.ops[i]
<1>1. Verified(code)
  <2>1. code = NoCode => DOMAIN code = {}
    BY DEF NoCode
  <2> QED
    BY <2>1 DEF Inv
<1>2. op \in InstructionType(Registers(one), DOMAIN one.ops, DOMAIN code) /\ SpanOf(op) \subseteq Registers(one)
  <2>1. OperandsKept(code, one, WrittenOnTheWay(one), i)
    BY <1>1 DEF Verified, VerifiedScope
  <2> QED
    BY <2>1 DEF OperandsKept
<1> DEFINE R == Registers(one)
           P == DOMAIN one.ops
<1> HIDE DEF R, P, op
<1>3. op \in InstructionType(R, P, DOMAIN code) /\ SpanOf(op) \subseteq R
  BY <1>2 DEF R, P
<1>4. Fields(op, Needed) \subseteq R
  BY <1>3 DEF InstructionType, LoadOps, StoreOps, ArgumentOps, BranchOps, CollectionOps, HeapOps, CallOps, ReturnOps, DefinitionOps, Fields, Needed
<1>5. Fields(op, OptionalOperands) \ {NoVar} \subseteq R
  BY <1>3 DEF InstructionType, LoadOps, StoreOps, ArgumentOps, BranchOps, CollectionOps, HeapOps, CallOps, ReturnOps, DefinitionOps, Fields, OptionalOperands, OrNoVar
<1>6. op.op = "Undef" => op.name \in R
  BY <1>3 DEF InstructionType, LoadOps, StoreOps, ArgumentOps, BranchOps, CollectionOps, HeapOps, CallOps, ReturnOps, DefinitionOps
<1>7. "var" \in DOMAIN op /\ ~(op.op \in MayBeUnused /\ op.var = NoVar) => op.var \in R
  BY <1>3 DEF InstructionType, LoadOps, StoreOps, ArgumentOps, BranchOps, CollectionOps, HeapOps, CallOps, ReturnOps, DefinitionOps, OrNoVar, MayBeUnused
<1>8. "pos" \in DOMAIN op => op.pos \in P
  BY <1>3 DEF InstructionType, LoadOps, StoreOps, ArgumentOps, BranchOps, CollectionOps, HeapOps, CallOps, ReturnOps, DefinitionOps
<1>9. Operands(op) \subseteq R
  BY <1>3, <1>4, <1>5, <1>6, <1>7 DEF Operands
<1> QED
  BY <1>8, <1>9 DEF R, P, op

\* Whatever verified code does, a closure is given the heaps that its code looks up, each in its
\* place: create_closure (support.cpp) copies the values of a range of registers, and Lookup and
\* GetHeapVar (vm.cpp) take what they find for the heap of the scope that was meant.
THEOREM HeapsSafe == MachineSpec => []HeapsMatchReferences
<1>1. MachineInit => Inv(FALSE)
  BY InvInit
<1>2. Inv(FALSE) /\ [MachineNext]_machineVars => Inv(FALSE)'
  BY InvStep
<1>3. Inv(FALSE) => HeapsMatchReferences
  BY InvHeaps
<1> QED
  BY <1>1, <1>2, <1>3, PTL DEF MachineSpec

\* Where blocks are given the arguments they ask for and breaks land where a call waits for them,
\* verified code uses no register outside of its frame and reads none that was not written, and its
\* branches stay in it: evaluate_block (vm.cpp) checks none of this.
THEOREM OperandsSafe == WellBehaved => []OperandsGood
<1>1. MachineInit => Inv(TRUE)
  BY InvInit
<1>2. Inv(TRUE) /\ WellUsed /\ [MachineNext]_machineVars => Inv(TRUE)'
  BY InvStep
<1>3. Inv(TRUE) => OperandsGood
  BY InvOperands, InvInFrame DEF OperandsGood
<1> QED
  BY <1>1, <1>2, <1>3, PTL DEF WellBehaved, MachineSpec
=============================================================================
