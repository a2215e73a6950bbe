--------------------------- MODULE ValueMapProofs ---------------------------
(***************************************************************************)
(* What holds of every Hash, whatever its keys hash to and however calls   *)
(* nest in ==, default blocks and each: calls are refused only while a     *)
(* search is under way, and, as long as the program deletes no key         *)
(* (remove_index is wrong, see FreeSlotNotGone), the table implements a    *)
(* dictionary, its searches end and each gives every pair.                 *)
(***************************************************************************)
EXTENDS ValueMap, FiniteSetTheorems, WellFoundedInduction, TLAPS

-----------------------------------------------------------------------------
(* The inductive invariants.                                               *)

Phase(i) == calls[i].phase

\* "calls" is a stack on which only the top can be searching, and then no other call
\* has been let in.
FlagInv ==
  /\ accessing \in BOOLEAN /\ stuck \in BOOLEAN
  /\ \E S : calls \in Seq(S)
  /\ \A i \in DOMAIN calls : "phase" \in DOMAIN calls[i]
  /\ \A i \in 1 .. Len(calls) - 1 : Phase(i) \in {"default", "each"}
  /\ \A i \in DOMAIN calls : Phase(i) \notin {"default", "each"} => accessing /\ ~stuck
  /\ accessing => stuck \/ \E i \in DOMAIN calls : Phase(i) \notin {"default", "each"}
  /\ stuck => accessing

\* How many slots a search that starts at h passes before it comes to s.
Gap(h, s, m) == IF s >= h THEN s - h ELSE s - h + m + 1

Used(table, m) == {s \in 0 .. m : KeySlot(table, s) # Undef}

TableWords == Keys \cup Values \cup {Undef}

\* Every key is in the table once, and no slot from its home to it is free.
GoodTable(table, m) ==
  /\ table \in [0 .. 2 * m + 1 -> TableWords]
  /\ \A s \in 0 .. m : KeySlot(table, s) \in Keys \cup {Undef}
  /\ \A s, r \in Used(table, m) : KeySlot(table, s) = KeySlot(table, r) => s = r
  /\ \A s \in Used(table, m) : \A r \in 0 .. m :
       LET h == Home(KeySlot(table, s), m)
       IN Gap(h, r, m) <= Gap(h, s, m) => r \in Used(table, m)

TableInv ==
  /\ mask \in Nat /\ GoodTable(words, mask)
  /\ entries = Cardinality(Used(words, mask)) /\ entries <= mask

SearchCalls ==
  [op : {"get", "set"}, key : Keys, value : Values \cup {Undef}, at : Nat,
   phase : {"search", "default"}]
EachCalls ==
  [op : {"each"}, key : {Undef}, value : {Undef}, at : Nat, phase : {"each"}, size : Nat,
   given : SUBSET Keys, again : BOOLEAN, there : SUBSET Keys]

\* A search has come to a slot past slots with other keys.
SearchInv(call) ==
  /\ call.at \in 0 .. mask
  /\ call.op = "set" => call.value \in Values
  /\ LET h == Home(call.key, mask)
     IN \A r \in 0 .. mask :
          Gap(h, r, mask) < Gap(h, call.at, mask) => KeySlot(words, r) \notin {Undef, call.key}

\* each has given its block the pairs of the slots it has gone past, but for those stored
\* there behind it.
EachInv(call) ==
  /\ call.at <= call.size /\ call.size <= mask + 1
  /\ call.size = mask + 1 =>
       /\ ~call.again
       /\ \A k \in call.given : \E s \in Used(words, mask) : s < call.at /\ KeySlot(words, s) = k
       /\ \A k \in call.there : \E s \in Used(words, mask) :
            KeySlot(words, s) = k /\ (s < call.at => k \in call.given)

InProgress(call) == \E i \in DOMAIN calls : calls[i] = call

CallInv(call) ==
  /\ call.at <= mask + 1
  /\ call.phase = "default" => call.op = "get"
  /\ call.phase = "search" => SearchInv(call)
  /\ call.phase = "each" => EachInv(call)

CallsInv ==
  /\ calls \in Seq(SearchCalls \cup EachCalls)
  /\ \A call \in SearchCalls \cup EachCalls : InProgress(call) => CallInv(call)

IInv == FlagInv /\ TableInv /\ CallsInv

-----------------------------------------------------------------------------
(* The stack of calls.                                                     *)

\* What the operations on the stack do.
LEMMA StackSteps ==
  ASSUME NEW S, NEW c \in Seq(S), c # <<>>, NEW x
  PROVE  /\ Len(c) \in Nat /\ Len(c) # 0 /\ DOMAIN c = 1 .. Len(c)
         /\ LET d == [c EXCEPT ![Len(c)] = x]
            IN /\ Len(d) = Len(c) /\ DOMAIN d = DOMAIN c /\ d \in Seq(S \cup {x})
               /\ \A i \in DOMAIN c : d[i] = IF i = Len(c) THEN x ELSE c[i]
         /\ LET d == SubSeq(c, 1, Len(c) - 1)
            IN /\ Len(d) = Len(c) - 1 /\ DOMAIN d = 1 .. Len(c) - 1 /\ d \in Seq(S)
               /\ \A i \in 1 .. Len(c) - 1 : d[i] = c[i]
<1>1. Len(c) \in Nat /\ Len(c) # 0 /\ DOMAIN c = 1 .. Len(c)
  OBVIOUS
<1>2. LET d == [c EXCEPT ![Len(c)] = x]
      IN /\ Len(d) = Len(c) /\ DOMAIN d = DOMAIN c /\ d \in Seq(S \cup {x})
         /\ \A i \in DOMAIN c : d[i] = IF i = Len(c) THEN x ELSE c[i]
  <2> DEFINE d == [c EXCEPT ![Len(c)] = x]
  <2>1. DOMAIN d = 1 .. Len(c) /\ \A i \in DOMAIN c : d[i] = IF i = Len(c) THEN x ELSE c[i]
    BY <1>1
  <2>2. d = [i \in 1 .. Len(c) |-> IF i = Len(c) THEN x ELSE c[i]]
    BY <1>1
  <2>3. \A i \in 1 .. Len(c) : c[i] \in S
    OBVIOUS
  <2>4. d \in [1 .. Len(c) -> S \cup {x}]
    BY <2>2, <2>3
  <2> HIDE DEF d
  <2>5. d \in Seq(S \cup {x}) /\ Len(d) = Len(c)
    BY <1>1, <2>4
  <2> QED BY <1>1, <2>1, <2>5 DEF d
<1>3. LET d == SubSeq(c, 1, Len(c) - 1)
      IN /\ Len(d) = Len(c) - 1 /\ DOMAIN d = 1 .. Len(c) - 1 /\ d \in Seq(S)
         /\ \A i \in 1 .. Len(c) - 1 : d[i] = c[i]
  BY <1>1
<1> QED BY <1>1, <1>2, <1>3

\* And Append.
LEMMA StackGrows ==
  ASSUME NEW S, NEW c \in Seq(S), NEW x
  PROVE  LET d == Append(c, x)
         IN /\ Len(c) \in Nat /\ Len(d) = Len(c) + 1 /\ DOMAIN d = 1 .. Len(c) + 1
            /\ DOMAIN c = 1 .. Len(c) /\ d \in Seq(S \cup {x})
            /\ d[Len(c) + 1] = x /\ \A i \in 1 .. Len(c) : d[i] = c[i]
<1>1. c \in Seq(S \cup {x})
  OBVIOUS
<1> QED BY <1>1

-----------------------------------------------------------------------------
(* When calls are refused.                                                 *)

\* The call on top goes on, in the same phase or, for another, no longer searching.
LEMMA FlagsTop ==
  ASSUME FlagInv, calls # <<>>, NEW call, "phase" \in DOMAIN call, SetTop(call),
         \/ call.phase = Top.phase /\ UNCHANGED <<accessing, stuck>>
         \/ /\ Top.phase \notin {"default", "each"} /\ call.phase \notin {"default", "each"}
            /\ UNCHANGED <<accessing, stuck>>
         \/ /\ Top.phase \notin {"default", "each"} /\ call.phase = "default"
            /\ accessing' = FALSE /\ UNCHANGED stuck
  PROVE  FlagInv'
<1>1. PICK S : calls \in Seq(S)
  BY DEF FlagInv
<1>2. /\ Len(calls') = Len(calls) /\ DOMAIN calls' = DOMAIN calls /\ calls' \in Seq(S \cup {call})
      /\ \A i \in DOMAIN calls : calls'[i] = IF i = Len(calls) THEN call ELSE calls[i]
      /\ Len(calls) \in Nat /\ Len(calls) # 0 /\ DOMAIN calls = 1 .. Len(calls)
  BY <1>1, StackSteps DEF SetTop
<1>3. \A i \in DOMAIN calls : /\ "phase" \in DOMAIN calls'[i]
                              /\ i # Len(calls) => calls'[i] = calls[i]
                              /\ i = Len(calls) => calls'[i] = call /\ calls[i] = Top
  BY <1>2 DEF FlagInv, Top
<1>4. accessing' \in BOOLEAN /\ stuck' \in BOOLEAN
  BY DEF FlagInv
<1> QED BY <1>2, <1>3, <1>4 DEF FlagInv, Phase

\* The call on top leaves.
LEMMA FlagsPop ==
  ASSUME FlagInv, calls # <<>>, Pop,
         \/ Top.phase = "each" /\ UNCHANGED <<accessing, stuck>>
         \/ Top.phase = "default" /\ UNCHANGED <<accessing, stuck>>
         \/ Top.phase = "default" /\ accessing' = FALSE /\ stuck' = FALSE
         \/ Top.phase \notin {"default", "each"} /\ accessing' = FALSE /\ UNCHANGED stuck
         \/ Top.phase \notin {"default", "each"} /\ stuck' = TRUE /\ UNCHANGED accessing
  PROVE  FlagInv'
<1>1. PICK S : calls \in Seq(S)
  BY DEF FlagInv
<1>2. /\ Len(calls') = Len(calls) - 1 /\ DOMAIN calls' = 1 .. Len(calls) - 1 /\ calls' \in Seq(S)
      /\ \A i \in 1 .. Len(calls) - 1 : calls'[i] = calls[i]
      /\ Len(calls) \in Nat /\ Len(calls) # 0 /\ DOMAIN calls = 1 .. Len(calls)
  BY <1>1, StackSteps DEF Pop
<1>3. \A i \in DOMAIN calls' : /\ i \in DOMAIN calls /\ calls'[i] = calls[i]
                               /\ Phase(i)' = Phase(i) /\ Phase(i) \in {"default", "each"}
  BY <1>2 DEF FlagInv, Phase
<1>4. \A i \in DOMAIN calls : i \in DOMAIN calls' \/ (i = Len(calls) /\ Phase(i) = Top.phase)
  BY <1>2 DEF Phase, Top
<1>5. accessing' \in BOOLEAN /\ stuck' \in BOOLEAN
  BY DEF FlagInv
<1> QED BY <1>1, <1>2, <1>3, <1>4, <1>5 DEF FlagInv

\* A call is let in while none is refused.
LEMMA FlagsPush ==
  ASSUME FlagInv, NEW call, "phase" \in DOMAIN call, calls' = Append(calls, call),
         \/ call.phase = "search" /\ ~accessing /\ accessing' = TRUE
         \/ call.phase = "each" /\ calls = <<>> /\ UNCHANGED accessing,
         UNCHANGED stuck
  PROVE  FlagInv'
<1>1. PICK S : calls \in Seq(S)
  BY DEF FlagInv
<1>2. /\ Len(calls) \in Nat /\ Len(calls') = Len(calls) + 1 /\ DOMAIN calls' = 1 .. Len(calls) + 1
      /\ DOMAIN calls = 1 .. Len(calls) /\ calls' \in Seq(S \cup {call})
      /\ calls'[Len(calls) + 1] = call /\ \A i \in 1 .. Len(calls) : calls'[i] = calls[i]
  BY <1>1, StackGrows
<1>3. \A i \in DOMAIN calls' : \/ i \in DOMAIN calls /\ calls'[i] = calls[i] /\ Phase(i)' = Phase(i)
                               \/ i = Len(calls) + 1 /\ calls'[i] = call /\ Phase(i)' = call.phase
  BY <1>2 DEF Phase
<1>4. \A i \in DOMAIN calls : i \in DOMAIN calls' /\ Phase(i)' = Phase(i)
  BY <1>2 DEF Phase
<1>5. Len(calls) + 1 \in DOMAIN calls' /\ \A i : i = Len(calls) + 1 => Phase(i)' = call.phase
  BY <1>2 DEF Phase
<1>6. CASE call.phase = "search" /\ ~accessing /\ accessing' = TRUE
  <2>1. \A i \in DOMAIN calls : Phase(i) \in {"default", "each"}
    BY <1>6 DEF FlagInv
  <2>2. \E i \in DOMAIN calls' : Phase(i)' \notin {"default", "each"}
    BY <1>5, <1>6
  <2>3. ~stuck
    BY <1>6 DEF FlagInv
  <2> QED BY <1>2, <1>3, <1>6, <2>1, <2>2, <2>3 DEF FlagInv
<1>7. CASE call.phase = "each" /\ calls = <<>> /\ UNCHANGED accessing
  <2>1. DOMAIN calls = {} /\ Len(calls) = 0
    BY <1>2, <1>7
  <2>2. 1 .. Len(calls') - 1 = {} /\ \A i \in DOMAIN calls' : Phase(i)' = "each"
    BY <1>2, <1>3, <1>7, <2>1
  <2>3. accessing => stuck
    BY <2>1 DEF FlagInv
  <2> QED BY <1>2, <1>3, <1>7, <2>2, <2>3 DEF FlagInv
<1> QED BY <1>6, <1>7

\* The flags and the stack agree after every step.
LEMMA FlagStep == FlagInv /\ [Next]_vars => FlagInv'
<1> SUFFICES ASSUME FlagInv, [Next]_vars PROVE FlagInv'
  OBVIOUS
<1>0. /\ Searching => calls # <<>> /\ Top.phase \notin {"default", "each"} /\ Top.phase = "search"
      /\ calls # <<>> => "phase" \in DOMAIN Top
  <2>1. PICK S : calls \in Seq(S)
    BY DEF FlagInv
  <2>2. calls # <<>> => Len(calls) \in DOMAIN calls
    BY <2>1
  <2> QED BY <2>2 DEF Searching, Top, FlagInv
<1>1. CASE Call
  <2>1. PICK op, k, v : Enter(op, k, v)
    BY <1>1 DEF Call
  <2> QED BY <2>1, FlagsPush DEF Enter
<1>2. CASE Differs
  BY <1>0, <1>2, FlagsTop DEF Differs, Comparing
<1>3. CASE Raises
  BY <1>0, <1>3, FlagsPop DEF Raises, Comparing
<1>4. CASE GetFound
  BY <1>0, <1>4, FlagsPop DEF GetFound, Comparing, Leave
<1>5. CASE GetMissing
  BY <1>0, <1>5, FlagsTop DEF GetMissing
<1>6. CASE DefaultEnds
  BY <1>0, <1>6, FlagsPop DEF DefaultEnds
<1>7. CASE RemoveMissing
  BY <1>0, <1>7, FlagsPop DEF RemoveMissing, Leave
<1>8. CASE RemoveFound
  BY <1>0, <1>8, FlagsPop, FlagsTop DEF RemoveFound, Comparing, Leave
<1>9. CASE SetFound
  BY <1>0, <1>9, FlagsPop DEF SetFound, Comparing, Leave
<1>10. CASE SetMissing
  BY <1>0, <1>10, FlagsPop DEF SetMissing, Comparing, Leave
<1>11. CASE EachStarts
  <2> DEFINE call == [op |-> "each", key |-> Undef, value |-> Undef, at |-> 0, phase |-> "each",
                      size |-> mask + 1, given |-> {}, again |-> FALSE,
                      there |-> {KeySlot(words, s) : s \in Taken}]
  <2>1. "phase" \in DOMAIN Given(call) /\ Given(call).phase = "each"
    BY DEF Given
  <2>2. calls = <<>> /\ calls' = <<Given(call)>> /\ UNCHANGED <<accessing, stuck>>
    BY <1>11 DEF EachStarts
  <2> HIDE DEF call
  <2>3. calls' = Append(calls, Given(call))
    BY <2>2
  <2> QED BY <2>1, <2>2, <2>3, FlagsPush
<1>12. CASE EachYields
  BY <1>0, <1>12, FlagsTop DEF EachYields, Iterating, Given
<1>13. CASE EachEnds
  BY <1>0, <1>13, FlagsPop DEF EachEnds, Iterating
<1>14. CASE UNCHANGED vars
  BY <1>14 DEF vars, FlagInv, Phase
<1> QED
  BY <1>1, <1>2, <1>3, <1>4, <1>5, <1>6, <1>7, <1>8, <1>9, <1>10, <1>11, <1>12, <1>13, <1>14 DEF Next

\* No call is under way at first.
LEMMA FlagInit == Init => FlagInv
<1> SUFFICES ASSUME Init PROVE FlagInv
  OBVIOUS
<1>1. calls \in Seq({}) /\ DOMAIN calls = {} /\ Len(calls) = 0
  BY DEF Init
<1>2. accessing \in BOOLEAN /\ stuck \in BOOLEAN
  BY DEF Init
<1> QED BY <1>1, <1>2 DEF Init, FlagInv

\* A Hash refuses a call as recursive exactly while a search is under way, or for good
\* once == has raised in a get or a remove, however the program nests its calls.
THEOREM RefusedRight == Spec => []RefusedOnlyWhileSearching
<1>1. FlagInv => RefusedOnlyWhileSearching
  BY DEF FlagInv, RefusedOnlyWhileSearching, Phase
<1> QED BY <1>1, FlagInit, FlagStep, PTL DEF Spec

-----------------------------------------------------------------------------
(* Slots and the way from one to another.                                  *)

\* Remainders of what is less than once round the table away.
LEMMA Remainders ==
  ASSUME NEW n \in Nat \ {0}, NEW a \in Int
  PROVE  /\ 0 <= a /\ a < n => a % n = a
         /\ n <= a /\ a < 2 * n => a % n = a - n
         /\ a < 0 /\ -n <= a => a % n = a + n
         /\ a % n \in Nat /\ a % n < n
  OBVIOUS

\* The gap counts the slots from h on, round the end of the table.
LEMMA Gaps ==
  ASSUME NEW m \in Nat, NEW h \in 0 .. m
  PROVE  /\ \A s \in 0 .. m : Gap(h, s, m) \in 0 .. m
         /\ \A s, r \in 0 .. m : Gap(h, s, m) = Gap(h, r, m) => s = r
         /\ Gap(h, h, m) = 0
  BY DEF Gap

\* A search goes through the slots in the order of their gaps.
LEMMA Probes ==
  ASSUME NEW m \in Nat, NEW h \in 0 .. m, NEW s \in 0 .. m
  PROVE  /\ (s - h) % (m + 1) = Gap(h, s, m)
         /\ (h + s) % (m + 1) \in 0 .. m /\ Gap(h, (h + s) % (m + 1), m) = s
         /\ After(s, m) \in 0 .. m
         /\ Gap(h, s, m) # m => Gap(h, After(s, m), m) = Gap(h, s, m) + 1
<1>0. m + 1 \in Nat \ {0}
  OBVIOUS
<1>1. \A a \in 0 .. m : a % (m + 1) = a
  BY <1>0, Remainders
<1>2. \A a \in m + 1 .. 2 * m + 1 : a % (m + 1) = a - (m + 1)
  <2> TAKE a \in m + 1 .. 2 * m + 1
  <2>1. a \in Int /\ m + 1 <= a /\ a < 2 * (m + 1)
    OBVIOUS
  <2> QED BY <1>0, <2>1, Remainders
<1>3. (s - h) % (m + 1) = Gap(h, s, m)
  <2>1. CASE s >= h
    <3>1. s - h \in 0 .. m
      BY <2>1
    <3> QED BY <1>1, <2>1, <3>1 DEF Gap
  <2>2. CASE s < h
    <3>1. s - h \in Int /\ s - h < 0 /\ -(m + 1) <= s - h
      BY <2>2
    <3>2. (s - h) % (m + 1) = (s - h) + (m + 1)
      BY <1>0, <3>1, Remainders
    <3> QED BY <2>2, <3>2 DEF Gap
  <2> QED BY <2>1, <2>2
<1>4. (h + s) % (m + 1) \in 0 .. m /\ Gap(h, (h + s) % (m + 1), m) = s
  <2>1. CASE h + s <= m
    BY <1>1, <2>1 DEF Gap
  <2>2. CASE h + s > m
    <3>1. h + s \in m + 1 .. 2 * m + 1
      BY <2>2
    <3> QED BY <1>2, <2>2, <3>1 DEF Gap
  <2> QED BY <2>1, <2>2
<1>5. After(s, m) = IF s = m THEN 0 ELSE s + 1
  BY <1>1, <1>2 DEF After
<1> QED BY <1>3, <1>4, <1>5 DEF Gap

\* The home of a key is a slot.
LEMMA Homes ==
  ASSUME NEW m \in Nat, NEW key \in Keys
  PROVE  Home(key, m) \in 0 .. m
<1>1. HashValue[key] \in Int /\ m + 1 \in Nat \ {0}
  BY TableAssumption
<1>2. Home(key, m) \in Nat /\ Home(key, m) < m + 1
  BY <1>1, Remainders DEF Home
<1> QED BY <1>2

\* A pair stored in a slot changes that slot only.
LEMMA StoredPair ==
  ASSUME NEW m \in Nat, NEW t \in [0 .. 2 * m + 1 -> TableWords], NEW s \in 0 .. m,
         NEW key \in TableWords, NEW value \in TableWords
  PROVE  LET u == Stored(t, s, key, value)
         IN /\ u \in [0 .. 2 * m + 1 -> TableWords]
            /\ \A r \in 0 .. m : /\ KeySlot(u, r) = IF r = s THEN key ELSE KeySlot(t, r)
                                 /\ ValueSlot(u, r) = IF r = s THEN value ELSE ValueSlot(t, r)
<1>1. \A r \in 0 .. m : /\ 2 * r \in 0 .. 2 * m + 1 /\ 2 * r + 1 \in 0 .. 2 * m + 1
                       /\ 2 * r # 2 * s + 1 /\ 2 * r + 1 # 2 * s /\ (2 * r = 2 * s => r = s)
  OBVIOUS
<1> QED BY <1>1 DEF Stored, KeySlot, ValueSlot

\* A new key goes into the first free slot from its home.
LEMMA StoreFree ==
  ASSUME NEW m \in Nat, NEW t, GoodTable(t, m), NEW key \in Keys,
         NEW value \in TableWords,
         NEW s \in 0 .. m, KeySlot(t, s) = Undef,
         \A r \in 0 .. m :
           Gap(Home(key, m), r, m) < Gap(Home(key, m), s, m) => KeySlot(t, r) \notin {Undef, key}
  PROVE  LET u == Stored(t, s, key, value)
         IN /\ GoodTable(u, m) /\ Used(u, m) = Used(t, m) \cup {s} /\ s \notin Used(t, m)
            /\ \A r \in Used(t, m) : /\ KeySlot(u, r) = KeySlot(t, r) /\ KeySlot(t, r) # key
                                     /\ ValueSlot(u, r) = ValueSlot(t, r)
            /\ KeySlot(u, s) = key /\ ValueSlot(u, s) = value
<1> DEFINE u == Stored(t, s, key, value)
           h == Home(key, m)
<1>1. h \in 0 .. m /\ key # Undef
  BY Homes, TableAssumption
<1>2. /\ u \in [0 .. 2 * m + 1 -> TableWords]
      /\ \A r \in 0 .. m : /\ KeySlot(u, r) = IF r = s THEN key ELSE KeySlot(t, r)
                           /\ ValueSlot(u, r) = IF r = s THEN value ELSE ValueSlot(t, r)
  <2>1. t \in [0 .. 2 * m + 1 -> TableWords] /\ key \in TableWords
    BY DEF GoodTable, TableWords
  <2> QED BY <2>1, StoredPair
<1> HIDE DEF u
<1>3. Used(u, m) = Used(t, m) \cup {s} /\ s \notin Used(t, m)
  BY <1>1, <1>2 DEF Used
<1>4. ASSUME NEW r \in Used(t, m), KeySlot(t, r) = key PROVE FALSE
  <2>1. r \in 0 .. m /\ r # s
    BY DEF Used
  <2>2. ~(Gap(h, s, m) <= Gap(h, r, m))
    BY <1>3, <1>4 DEF GoodTable
  <2>3. Gap(h, s, m) \in Nat /\ Gap(h, r, m) \in Nat
    BY <1>1, <2>1, Gaps
  <2>4. Gap(h, r, m) < Gap(h, s, m)
    BY <2>2, <2>3
  <2> QED BY <1>4, <2>1, <2>4
<1>5. GoodTable(u, m)
  <2>1. \A r \in 0 .. m : KeySlot(u, r) \in Keys \cup {Undef}
    BY <1>2 DEF GoodTable
  <2>2. \A r, q \in Used(u, m) : KeySlot(u, r) = KeySlot(u, q) => r = q
    <3>1. \A r \in Used(u, m) : r \in 0 .. m /\ (r = s \/ (r # s /\ r \in Used(t, m)))
      BY <1>3 DEF Used
    <3>2. \A r, q \in Used(t, m) : KeySlot(t, r) = KeySlot(t, q) => r = q
      BY DEF GoodTable
    <3> QED BY <1>2, <1>4, <3>1, <3>2
  <2>3. ASSUME NEW r \in Used(u, m), NEW q \in 0 .. m,
               Gap(Home(KeySlot(u, r), m), q, m) <= Gap(Home(KeySlot(u, r), m), r, m)
        PROVE  q \in Used(u, m)
    <3>1. CASE r = s
      <4>1. Gap(h, q, m) <= Gap(h, s, m)
        BY <1>2, <2>3, <3>1
      <4>2. q = s \/ Gap(h, q, m) < Gap(h, s, m)
        <5>1. Gap(h, q, m) \in Nat /\ Gap(h, s, m) \in Nat /\ (Gap(h, q, m) = Gap(h, s, m) => q = s)
          BY <1>1 DEF Gap
        <5> QED BY <4>1, <5>1
      <4>3. q = s \/ q \in Used(t, m)
        BY <4>2 DEF Used
      <4> QED BY <1>3, <4>3
    <3>2. CASE r # s
      <4>1. r \in Used(t, m) /\ KeySlot(u, r) = KeySlot(t, r)
        BY <1>2, <1>3, <3>2 DEF Used
      <4>2. q \in Used(t, m)
        BY <2>3, <4>1 DEF GoodTable
      <4> QED BY <1>3, <4>2
    <3> QED BY <3>1, <3>2
  <2> QED BY <1>2, <2>1, <2>2, <2>3 DEF GoodTable
<1>6. \A r \in Used(t, m) : /\ KeySlot(u, r) = KeySlot(t, r) /\ KeySlot(t, r) # key
                           /\ ValueSlot(u, r) = ValueSlot(t, r)
  BY <1>2, <1>3, <1>4 DEF Used
<1> QED BY <1>2, <1>3, <1>5, <1>6 DEF u

-----------------------------------------------------------------------------
(* Minima, induction and the size of a table.                              *)

\* A nonempty set of numbers has a least one.
LEMMA LeastOf ==
  ASSUME NEW T \in SUBSET Nat, T # {}
  PROVE  Min(T) \in T /\ \A x \in T : Min(T) <= x
<1>1. PICK x \in T : \A y \in T : ~(<<y, x>> \in OpToRel(<, Nat))
  BY NatLessThanWellFounded, WFMin
<1>2. \A y \in T : ~(y < x)
  BY <1>1 DEF OpToRel
<1>3. \A y \in T : x <= y
  BY <1>2
<1> QED BY <1>3 DEF Min

\* Induction over the numbers up to a bound.
LEMMA UpTo ==
  ASSUME NEW N \in Nat, NEW S, 0 \in S, \A n \in 0 .. N - 1 : n \in S => n + 1 \in S
  PROVE  0 .. N \subseteq S
<1> DEFINE T == {n \in 0 .. N : n \notin S}
<1>1. SUFFICES ASSUME T # {} PROVE FALSE
  OBVIOUS
<1>2. PICK x \in T : \A y \in T : x <= y
  BY <1>1, LeastOf, T \in SUBSET Nat
<1>3. x # 0 /\ x - 1 \in 0 .. N - 1 /\ x - 1 \notin T /\ x - 1 \in 0 .. N
  BY <1>2
<1>4. x - 1 \in S /\ x - 1 + 1 = x
  BY <1>3
<1> QED BY <1>2, <1>3, <1>4

\* The slots in use are finitely many, and when they are as many as there are slots
\* they are all of them.
LEMMA UsedSize ==
  ASSUME NEW m \in Nat, NEW t
  PROVE  /\ IsFiniteSet(Used(t, m)) /\ Cardinality(Used(t, m)) \in Nat
         /\ Cardinality(Used(t, m)) <= m + 1
         /\ Cardinality(Used(t, m)) = m + 1 <=> Used(t, m) = 0 .. m
         /\ \A s \in 0 .. m : s \notin Used(t, m) =>
              Cardinality(Used(t, m) \cup {s}) = Cardinality(Used(t, m)) + 1
<1>1. IsFiniteSet(0 .. m) /\ Cardinality(0 .. m) = m + 1
  <2>1. 0 \in Int /\ m \in Int /\ 0 <= m
    OBVIOUS
  <2> QED BY <2>1, FS_Interval
<1>2. Used(t, m) \subseteq 0 .. m
  BY DEF Used
<1>3. /\ IsFiniteSet(Used(t, m)) /\ Cardinality(Used(t, m)) <= m + 1
      /\ Cardinality(Used(t, m)) = m + 1 => Used(t, m) = 0 .. m
  BY <1>1, <1>2, FS_Subset
<1> QED BY <1>1, <1>3, FS_CardinalityType, FS_AddElement

-----------------------------------------------------------------------------
(* The table grows.                                                        *)

\* store<false> into a table with room finds the first free slot from the key's home.
LEMMA InsertsPair ==
  ASSUME NEW m \in Nat, NEW t, GoodTable(t, m), NEW key \in Keys, NEW value \in TableWords,
         \A r \in Used(t, m) : KeySlot(t, r) # key,
         Cardinality(Used(t, m)) < m + 1
  PROVE  LET u == Insert(t, m, key, value)
         IN \E s \in 0 .. m :
              /\ GoodTable(u, m) /\ Used(u, m) = Used(t, m) \cup {s} /\ s \notin Used(t, m)
              /\ \A r \in Used(t, m) : /\ KeySlot(u, r) = KeySlot(t, r)
                                       /\ ValueSlot(u, r) = ValueSlot(t, r)
              /\ KeySlot(u, s) = key /\ ValueSlot(u, s) = value
<1> DEFINE h == Home(key, m)
           probe(i) == (h + i) % (m + 1)
           P == {i \in 0 .. m : KeySlot(t, probe(i)) = Undef}
<1>1. h \in 0 .. m
  BY Homes
<1>2. \A i \in 0 .. m : probe(i) \in 0 .. m /\ Gap(h, probe(i), m) = i
  BY <1>1, Probes
<1>3. \A s \in 0 .. m : Gap(h, s, m) \in 0 .. m
  BY <1>1, Gaps
<1>4. \A s \in 0 .. m : probe(Gap(h, s, m)) = s
  <2> TAKE s \in 0 .. m
  <2>1. Gap(h, probe(Gap(h, s, m)), m) = Gap(h, s, m) /\ probe(Gap(h, s, m)) \in 0 .. m
    BY <1>2, <1>3
  <2> HIDE DEF probe
  <2> QED BY <1>1, <2>1, Gaps
<1> DEFINE first == Min(P)
           at == probe(first)
<1>5. PICK s \in 0 .. m : KeySlot(t, s) = Undef
  <2>1. ~(Used(t, m) = 0 .. m)
    BY UsedSize
  <2> QED BY <2>1 DEF Used
<1> HIDE DEF h, probe
<1>6. Gap(h, s, m) \in P /\ P \in SUBSET Nat
  BY <1>3, <1>4, <1>5
<1>7. first \in P /\ \A i \in P : first <= i
  BY <1>6, LeastOf
<1>8. at \in 0 .. m /\ KeySlot(t, at) = Undef /\ Gap(h, at, m) = first
  BY <1>2, <1>7
<1>9. ASSUME NEW r \in 0 .. m, Gap(h, r, m) < Gap(h, at, m)
      PROVE  KeySlot(t, r) \notin {Undef, key}
  <2>1. Gap(h, r, m) \notin P
    BY <1>3, <1>7, <1>8, <1>9
  <2>2. KeySlot(t, r) # Undef
    BY <1>3, <1>4, <2>1
  <2> QED BY <2>2 DEF Used
<1>10. Insert(t, m, key, value) = Stored(t, at, key, value)
  BY DEF Insert, h, probe
<1> HIDE DEF P, first, at
<1> QED BY <1>8, <1>9, <1>10, StoreFree DEF h

\* What Rehashed's recursion defines: the table after each insertion.
Grow(t, m, g, n) ==
  IF n = 0 THEN Empty(2 * m + 1 + 1)
  ELSE Insert(g[n - 1], 2 * m + 1, KeySlot(t, n - 1), ValueSlot(t, n - 1))

\* The recursion has a value at each of its steps.
LEMMA GrowsBySteps ==
  ASSUME NEW m \in Nat, NEW t
  PROVE  \E g : /\ g = [n \in 0 .. m + 1 |-> Grow(t, m, g, n)]
                /\ Rehashed(t, m) = g[m + 1]
<1> DEFINE S == {k \in 0 .. m + 1 : \E g : g = [n \in 0 .. k |-> Grow(t, m, g, n)]}
<1>1. 0 \in S
  <2> DEFINE g == [n \in 0 .. 0 |-> Empty(2 * m + 1 + 1)]
  <2>1. g = [n \in 0 .. 0 |-> Grow(t, m, g, n)]
    BY DEF Grow
  <2> QED BY <2>1
<1>2. ASSUME NEW k \in 0 .. m + 1 - 1, k \in S PROVE k + 1 \in S
  <2>1. PICK g : g = [n \in 0 .. k |-> Grow(t, m, g, n)]
    BY <1>2
  <2> DEFINE f == [n \in 0 .. k + 1 |-> IF n = k + 1 THEN Grow(t, m, g, k + 1) ELSE g[n]]
  <2>2. ASSUME NEW n \in 0 .. k + 1 PROVE f[n] = Grow(t, m, f, n)
    <3>1. CASE n = 0
      BY <2>1, <3>1 DEF Grow
    <3>2. CASE n # 0
      <4>1. n - 1 \in 0 .. k /\ n - 1 # k + 1 /\ n - 1 \in 0 .. k + 1
        BY <3>2
      <4>2. f[n - 1] = g[n - 1]
        BY <4>1
      <4>3. f[n] = Grow(t, m, g, n)
        BY <2>1
      <4> QED BY <3>2, <4>2, <4>3 DEF Grow
    <3> QED BY <3>1, <3>2
  <2>3. f = [n \in 0 .. k + 1 |-> Grow(t, m, f, n)]
    BY <2>2
  <2>4. k + 1 \in 0 .. m + 1
    OBVIOUS
  <2> QED BY <2>3, <2>4
<1> HIDE DEF S
<1>3. m + 1 \in 0 .. m + 1 /\ m + 1 \in Nat
  OBVIOUS
<1>4. m + 1 \in S
  BY <1>1, <1>2, <1>3, UpTo
<1>5. \E g : g = [n \in 0 .. m + 1 |-> Grow(t, m, g, n)]
  BY <1>4 DEF S
<1> DEFINE grown == CHOOSE g : g = [n \in 0 .. m + 1 |-> Grow(t, m, g, n)]
<1>6. grown = [n \in 0 .. m + 1 |-> Grow(t, m, grown, n)]
  BY <1>5
<1>7. Rehashed(t, m) = grown[m + 1]
  BY DEF Rehashed, Grow
<1> QED BY <1>6, <1>7

\* u holds the pairs of the first n slots of t and no others.
Copied(u, t, m, n) ==
  /\ GoodTable(u, 2 * m + 1) /\ Cardinality(Used(u, 2 * m + 1)) = n
  /\ \A s \in 0 .. n - 1 : \E r \in Used(u, 2 * m + 1) :
       KeySlot(u, r) = KeySlot(t, s) /\ ValueSlot(u, r) = ValueSlot(t, s)
  /\ \A r \in Used(u, 2 * m + 1) : \E s \in 0 .. n - 1 : KeySlot(u, r) = KeySlot(t, s)

\* An empty table has no pair.
LEMMA EmptyTable ==
  ASSUME NEW m \in Nat
  PROVE  GoodTable(Empty(m + 1), m) /\ Used(Empty(m + 1), m) = {}
<1>1. Empty(m + 1) = [w \in 0 .. 2 * m + 1 |-> Undef]
  <2>1. 2 * (m + 1) - 1 = 2 * m + 1
    OBVIOUS
  <2> QED BY <2>1 DEF Empty
<1>2. \A s \in 0 .. m : KeySlot(Empty(m + 1), s) = Undef
  <2>1. \A s \in 0 .. m : 2 * s \in 0 .. 2 * m + 1
    OBVIOUS
  <2> QED BY <1>1, <2>1 DEF KeySlot
<1> QED BY <1>1, <1>2 DEF GoodTable, Used, TableWords

\* The next pair is copied.
LEMMA CopiesOne ==
  ASSUME NEW m \in Nat, NEW t, GoodTable(t, m), Used(t, m) = 0 .. m,
         NEW n \in 0 .. m, NEW u, Copied(u, t, m, n)
  PROVE  Copied(Insert(u, 2 * m + 1, KeySlot(t, n), ValueSlot(t, n)), t, m, n + 1)
<1> DEFINE M == 2 * m + 1
           key == KeySlot(t, n)
           value == ValueSlot(t, n)
           w == Insert(u, M, key, value)
<1>1. M \in Nat /\ n < M + 1 /\ n \in Nat
  OBVIOUS
<1>2. key \in Keys /\ value \in TableWords
  <2>1. key # Undef
    BY DEF Used
  <2>2. 2 * n + 1 \in 0 .. 2 * m + 1
    OBVIOUS
  <2> QED BY <2>1, <2>2 DEF GoodTable, ValueSlot
<1>3. \A s, r \in 0 .. m : KeySlot(t, s) = KeySlot(t, r) => s = r
  BY DEF GoodTable
<1>4. GoodTable(u, M) /\ Cardinality(Used(u, M)) = n
  BY DEF Copied
<1>5. \A r \in Used(u, M) : KeySlot(u, r) # key
  <2> TAKE r \in Used(u, M)
  <2>1. PICK s \in 0 .. n - 1 : KeySlot(u, r) = KeySlot(t, s)
    BY DEF Copied
  <2>2. s \in 0 .. m /\ s # n
    BY <2>1
  <2> QED BY <1>3, <2>1, <2>2
<1> HIDE DEF M
<1>6. PICK p \in 0 .. M :
        /\ GoodTable(w, M) /\ Used(w, M) = Used(u, M) \cup {p} /\ p \notin Used(u, M)
        /\ \A r \in Used(u, M) : /\ KeySlot(w, r) = KeySlot(u, r)
                                 /\ ValueSlot(w, r) = ValueSlot(u, r)
        /\ KeySlot(w, p) = key /\ ValueSlot(w, p) = value
  BY <1>1, <1>2, <1>4, <1>5, InsertsPair
<1> HIDE DEF key, value, w
<1>7. Cardinality(Used(w, M)) = n + 1
  BY <1>1, <1>4, <1>6, UsedSize
<1>8. \A s \in 0 .. n + 1 - 1 : \E r \in Used(w, M) :
        KeySlot(w, r) = KeySlot(t, s) /\ ValueSlot(w, r) = ValueSlot(t, s)
  <2> TAKE s \in 0 .. n + 1 - 1
  <2>1. CASE s = n
    BY <1>6, <2>1 DEF key, value
  <2>2. CASE s # n
    <3>1. s \in 0 .. n - 1
      BY <2>2
    <3>2. PICK r \in Used(u, M) : KeySlot(u, r) = KeySlot(t, s) /\ ValueSlot(u, r) = ValueSlot(t, s)
      BY <3>1 DEF Copied, M
    <3> QED BY <1>6, <3>2
  <2> QED BY <2>1, <2>2
<1>9. \A r \in Used(w, M) : \E s \in 0 .. n + 1 - 1 : KeySlot(w, r) = KeySlot(t, s)
  <2> TAKE r \in Used(w, M)
  <2>1. CASE r = p
    <3>1. n \in 0 .. n + 1 - 1
      BY <1>1
    <3> QED BY <1>6, <2>1, <3>1 DEF key
  <2>2. CASE r # p
    <3>1. r \in Used(u, M) /\ KeySlot(w, r) = KeySlot(u, r)
      BY <1>6, <2>2
    <3>2. PICK s \in 0 .. n - 1 : KeySlot(u, r) = KeySlot(t, s)
      BY <3>1 DEF Copied, M
    <3>3. s \in 0 .. n + 1 - 1
      BY <3>2
    <3> QED BY <3>1, <3>2, <3>3
  <2> QED BY <2>1, <2>2
<1> QED BY <1>6, <1>7, <1>8, <1>9 DEF Copied, M, w, key, value

\* Expanding a full table keeps its pairs.
LEMMA Rehashes ==
  ASSUME NEW m \in Nat, NEW t, GoodTable(t, m), Used(t, m) = 0 .. m
  PROVE  Copied(Rehashed(t, m), t, m, m + 1)
<1>1. PICK g : g = [n \in 0 .. m + 1 |-> Grow(t, m, g, n)] /\ Rehashed(t, m) = g[m + 1]
  BY GrowsBySteps
<1> DEFINE S == {n \in 0 .. m + 1 : Copied(g[n], t, m, n)}
<1>2. 0 \in S
  <2>1. 0 \in 0 .. m + 1 /\ g[0] = Empty(2 * m + 1 + 1)
    BY <1>1 DEF Grow
  <2>2. 2 * m + 1 \in Nat
    OBVIOUS
  <2>3. GoodTable(g[0], 2 * m + 1) /\ Used(g[0], 2 * m + 1) = {}
    BY <2>1, <2>2, EmptyTable
  <2>4. Cardinality({}) = 0 /\ 0 .. 0 - 1 = {}
    BY FS_EmptySet
  <2> QED BY <2>1, <2>3, <2>4 DEF Copied
<1>3. ASSUME NEW n \in 0 .. m + 1 - 1, n \in S PROVE n + 1 \in S
  <2>1. n \in 0 .. m /\ n + 1 \in 0 .. m + 1 /\ n + 1 # 0 /\ n + 1 - 1 = n
    OBVIOUS
  <2>2. g[n + 1] = Insert(g[n], 2 * m + 1, KeySlot(t, n), ValueSlot(t, n))
    BY <1>1, <2>1 DEF Grow
  <2>3. Copied(g[n], t, m, n)
    BY <1>3
  <2>4. Copied(g[n + 1], t, m, n + 1)
    BY <2>1, <2>2, <2>3, CopiesOne
  <2> QED BY <2>1, <2>4
<1>4. m + 1 \in Nat /\ m + 1 \in 0 .. m + 1
  OBVIOUS
<1> HIDE DEF S
<1>5. m + 1 \in S
  BY <1>2, <1>3, <1>4, UpTo
<1> QED BY <1>1, <1>5 DEF S

-----------------------------------------------------------------------------
(* The calls under way, when no key is deleted.                            *)

\* A call under way is of its type, and the one on top is under way.
LEMMA Calling ==
  ASSUME IInv
  PROVE  /\ \A c : InProgress(c) => c \in SearchCalls \cup EachCalls /\ CallInv(c)
         /\ calls # <<>> => InProgress(Top)
         /\ Searching => Top \in SearchCalls /\ SearchInv(Top)
         /\ Iterating => Top \in EachCalls /\ EachInv(Top)
<1>1. calls \in Seq(SearchCalls \cup EachCalls)
  BY DEF IInv, CallsInv
<1>2. \A c : InProgress(c) => c \in SearchCalls \cup EachCalls
  BY <1>1 DEF InProgress
<1>3. \A c : InProgress(c) => CallInv(c)
  BY <1>2 DEF IInv, CallsInv
<1>4. calls # <<>> => InProgress(Top)
  <2>1. calls # <<>> => Len(calls) \in DOMAIN calls
    BY <1>1
  <2> QED BY <2>1 DEF InProgress, Top
<1>5. \A c \in SearchCalls : c.phase # "each"
  BY DEF SearchCalls
<1>6. \A c \in EachCalls : c.phase # "search"
  BY DEF EachCalls
<1>7. Searching => Top \in SearchCalls /\ SearchInv(Top)
  BY <1>2, <1>3, <1>4, <1>6 DEF Searching, CallInv
<1>8. Iterating => Top \in EachCalls /\ EachInv(Top)
  BY <1>2, <1>3, <1>4, <1>5 DEF Iterating, CallInv
<1> QED BY <1>2, <1>3, <1>4, <1>7, <1>8

\* What is under way after a step was before, but for the call on top.
LEMMA TopChanges ==
  ASSUME IInv, calls # <<>>, NEW call \in SearchCalls \cup EachCalls, SetTop(call)
  PROVE  /\ calls' \in Seq(SearchCalls \cup EachCalls)
         /\ \A c : InProgress(c)' => c = call \/ InProgress(c)
<1>1. calls \in Seq(SearchCalls \cup EachCalls)
  BY DEF IInv, CallsInv
<1>2. /\ DOMAIN calls' = DOMAIN calls /\ calls' \in Seq(SearchCalls \cup EachCalls \cup {call})
      /\ \A i \in DOMAIN calls : calls'[i] = IF i = Len(calls) THEN call ELSE calls[i]
  BY <1>1, StackSteps DEF SetTop
<1>3. SearchCalls \cup EachCalls \cup {call} = SearchCalls \cup EachCalls
  OBVIOUS
<1> QED BY <1>2, <1>3 DEF InProgress

\* Below the top no call is searching.
LEMMA TopLeaves ==
  ASSUME IInv, calls # <<>>, Pop
  PROVE  /\ calls' \in Seq(SearchCalls \cup EachCalls)
         /\ \A c : InProgress(c)' => InProgress(c) /\ c.phase # "search"
<1>1. calls \in Seq(SearchCalls \cup EachCalls)
  BY DEF IInv, CallsInv
<1>2. /\ DOMAIN calls' = 1 .. Len(calls) - 1 /\ calls' \in Seq(SearchCalls \cup EachCalls)
      /\ \A i \in 1 .. Len(calls) - 1 : calls'[i] = calls[i] /\ i \in DOMAIN calls
  BY <1>1, StackSteps DEF Pop
<1>3. \A i \in 1 .. Len(calls) - 1 : calls[i].phase \in {"default", "each"}
  BY DEF IInv, FlagInv, Phase
<1> QED BY <1>2, <1>3 DEF InProgress

\* A call is let in.
LEMMA TopEnters ==
  ASSUME IInv, NEW call \in SearchCalls \cup EachCalls, calls' = Append(calls, call)
  PROVE  /\ calls' \in Seq(SearchCalls \cup EachCalls)
         /\ \A c : InProgress(c)' => c = call \/ InProgress(c)
<1>1. calls \in Seq(SearchCalls \cup EachCalls)
  BY DEF IInv, CallsInv
<1>2. /\ Len(calls) \in Nat /\ DOMAIN calls' = 1 .. Len(calls) + 1 /\ DOMAIN calls = 1 .. Len(calls)
      /\ calls' \in Seq(SearchCalls \cup EachCalls \cup {call})
      /\ calls'[Len(calls) + 1] = call /\ \A i \in 1 .. Len(calls) : calls'[i] = calls[i]
  BY <1>1, StackGrows
<1>3. SearchCalls \cup EachCalls \cup {call} = SearchCalls \cup EachCalls
  OBVIOUS
<1>4. ASSUME NEW i \in DOMAIN calls' PROVE calls'[i] = call \/ InProgress(calls'[i])
  <2>1. CASE i = Len(calls) + 1
    BY <1>2, <2>1
  <2>2. CASE i # Len(calls) + 1
    BY <1>2, <2>2 DEF InProgress
  <2> QED BY <2>1, <2>2
<1>5. \A c : InProgress(c)' => \E i \in DOMAIN calls' : calls'[i] = c
  BY DEF InProgress
<1> QED BY <1>2, <1>3, <1>4, <1>5

\* While the table stays as it is, so does what holds of a call.
LEMMA TableStays ==
  ASSUME UNCHANGED <<words, mask>>
  PROVE  /\ \A c : CallInv(c) => CallInv(c)'
         /\ UNCHANGED entries => (TableInv => TableInv')
<1>1. \A c : SearchInv(c)' <=> SearchInv(c)
  BY DEF SearchInv
<1>2. \A c : EachInv(c)' <=> EachInv(c)
  BY DEF EachInv
<1>3. \A c : CallInv(c)' <=> CallInv(c)
  BY <1>1, <1>2 DEF CallInv
<1> QED BY <1>3 DEF TableInv

\* When the table gains a pair or is expanded, each goes on as before.
LEMMA TableGains ==
  ASSUME TableInv, NEW c \in SearchCalls \cup EachCalls, CallInv(c), c.phase # "search",
         mask' \in Nat,
         \/ mask' > mask
         \/ /\ mask' = mask
            /\ \A s \in Used(words, mask) : /\ s \in Used(words, mask)'
                                            /\ KeySlot(words, s)' = KeySlot(words, s)
  PROVE  CallInv(c)'
<1>1. mask \in Nat /\ c.at \in Nat /\ c.at <= mask + 1
  BY DEF TableInv, CallInv, SearchCalls, EachCalls
<1>2. c.at <= mask' + 1
  BY <1>1
<1>3. ASSUME c.phase = "each" PROVE EachInv(c)'
  <2>1. c \in EachCalls /\ EachInv(c)
    BY <1>3 DEF CallInv, SearchCalls
  <2>2. c.size \in Nat
    BY <2>1 DEF EachCalls
  <2>3. CASE mask' > mask
    BY <1>1, <2>1, <2>2, <2>3 DEF EachInv
  <2>4. CASE /\ mask' = mask
             /\ \A s \in Used(words, mask) : /\ s \in Used(words, mask)'
                                             /\ KeySlot(words, s)' = KeySlot(words, s)
    <3>1. ASSUME NEW k \in c.given, c.size = mask + 1
          PROVE  \E s \in Used(words, mask)' : s < c.at /\ KeySlot(words, s)' = k
      BY <2>1, <2>4, <3>1 DEF EachInv
    <3>2. ASSUME NEW k \in c.there, c.size = mask + 1
          PROVE  \E s \in Used(words, mask)' : KeySlot(words, s)' = k /\ (s < c.at => k \in c.given)
      BY <2>1, <2>4, <3>2 DEF EachInv
    <3>3. c.size = mask + 1 => ~c.again
      BY <2>1 DEF EachInv
    <3> QED BY <2>1, <2>4, <3>1, <3>2, <3>3 DEF EachInv
  <2> QED BY <2>3, <2>4
<1> QED BY <1>2, <1>3 DEF CallInv

-----------------------------------------------------------------------------
(* Searches.                                                               *)

\* A search that has come to a free slot has shown that there is no such key.
LEMMA KeyAbsent ==
  ASSUME IInv, Searching, Found = Undef
  PROVE  \A r \in Used(words, mask) : KeySlot(words, r) # Top.key
<1> DEFINE h == Home(Top.key, mask)
<1>1. Top \in SearchCalls /\ SearchInv(Top) /\ mask \in Nat /\ GoodTable(words, mask)
  BY Calling DEF IInv, TableInv
<1>2. Top.key \in Keys /\ h \in 0 .. mask
  BY <1>1, Homes DEF SearchCalls
<1>3. Top.at \in 0 .. mask /\ Top.at \notin Used(words, mask)
  BY <1>1 DEF SearchInv, Used, Found
<1> SUFFICES ASSUME NEW r \in Used(words, mask), KeySlot(words, r) = Top.key PROVE FALSE
  OBVIOUS
<1>4. r \in 0 .. mask
  BY DEF Used
<1>5. ~(Gap(h, Top.at, mask) <= Gap(h, r, mask))
  BY <1>1, <1>3 DEF GoodTable
<1>6. Gap(h, Top.at, mask) \in 0 .. mask /\ Gap(h, r, mask) \in 0 .. mask
  BY <1>1, <1>2, <1>3, <1>4, Gaps
<1>7. Gap(h, r, mask) < Gap(h, Top.at, mask)
  BY <1>5, <1>6
<1> QED BY <1>1, <1>4, <1>7 DEF SearchInv

\* A search does not come round to its home again: a slot is free.
LEMMA SearchGoesOn ==
  ASSUME IInv, Comparing, Found # Top.key,
         NEW call, call = [Top EXCEPT !.at = After(@, mask)]
  PROVE  call \in SearchCalls /\ CallInv(call) /\ call.phase = "search"
<1> DEFINE h == Home(Top.key, mask)
<1>1. Top \in SearchCalls /\ SearchInv(Top) /\ mask \in Nat /\ TableInv
  BY Calling DEF IInv, TableInv, Comparing
<1>2. Top.key \in Keys /\ h \in 0 .. mask /\ Top.at \in 0 .. mask
  BY <1>1, Homes DEF SearchCalls, SearchInv
<1>3. \A r \in 0 .. mask :
        Gap(h, r, mask) <= Gap(h, Top.at, mask) => KeySlot(words, r) \notin {Undef, Top.key}
  <2> TAKE r \in 0 .. mask
  <2>1. /\ Gap(h, r, mask) \in 0 .. mask /\ Gap(h, Top.at, mask) \in 0 .. mask
        /\ Gap(h, r, mask) = Gap(h, Top.at, mask) => r = Top.at
    BY <1>1, <1>2, Gaps
  <2>2. Gap(h, r, mask) < Gap(h, Top.at, mask) => KeySlot(words, r) \notin {Undef, Top.key}
    BY <1>1 DEF SearchInv
  <2>3. KeySlot(words, Top.at) \notin {Undef, Top.key}
    BY DEF Comparing, Found
  <2> QED BY <2>1, <2>2, <2>3
<1>4. Gap(h, Top.at, mask) # mask
  <2> SUFFICES ASSUME Gap(h, Top.at, mask) = mask PROVE FALSE
    OBVIOUS
  <2>1. \A r \in 0 .. mask : Gap(h, r, mask) <= mask
    BY <1>1, <1>2, Gaps
  <2>2. Used(words, mask) = 0 .. mask
    BY <1>3, <2>1 DEF Used
  <2>3. Cardinality(Used(words, mask)) = mask + 1
    BY <1>1, <2>2, UsedSize
  <2> QED BY <1>1, <2>3 DEF TableInv
<1>5. /\ After(Top.at, mask) \in 0 .. mask
      /\ Gap(h, After(Top.at, mask), mask) = Gap(h, Top.at, mask) + 1
  BY <1>1, <1>2, <1>4, Probes
<1>6. /\ call \in SearchCalls /\ call.at = After(Top.at, mask) /\ call.key = Top.key
      /\ call.op = Top.op /\ call.value = Top.value /\ call.phase = Top.phase
  BY <1>1, <1>5 DEF SearchCalls
<1>7. Top.phase = "search"
  BY DEF Comparing, Searching
<1>8. SearchInv(call)
  <2>1. \A r \in 0 .. mask : Gap(h, r, mask) < Gap(h, call.at, mask) =>
          KeySlot(words, r) \notin {Undef, call.key}
    <3> TAKE r \in 0 .. mask
    <3>1. Gap(h, r, mask) \in 0 .. mask /\ Gap(h, Top.at, mask) \in 0 .. mask
      BY <1>1, <1>2, Gaps
    <3>2. Gap(h, r, mask) < Gap(h, call.at, mask) => Gap(h, r, mask) <= Gap(h, Top.at, mask)
      BY <1>5, <1>6, <3>1
    <3> QED BY <1>3, <1>6, <3>2
  <2>2. call.at \in 0 .. mask /\ (call.op = "set" => call.value \in Values)
    BY <1>1, <1>5, <1>6 DEF SearchInv
  <2> QED BY <1>6, <2>1, <2>2 DEF SearchInv
<1>9. call.at <= mask + 1
  BY <1>1, <1>5, <1>6
<1> QED BY <1>6, <1>7, <1>8, <1>9 DEF CallInv

\* A search starts at the key's home.
LEMMA SearchBegins ==
  ASSUME IInv, NEW op \in {"get", "set"}, NEW k \in Keys, NEW v \in Values \cup {Undef},
         op = "set" => v \in Values, NEW call,
         call = [op |-> op, key |-> k, value |-> v, at |-> Home(k, mask), phase |-> "search"]
  PROVE  call \in SearchCalls /\ CallInv(call)
<1>1. mask \in Nat
  BY DEF IInv, TableInv
<1>2. Home(k, mask) \in 0 .. mask
  BY <1>1, Homes
<1>3. call \in SearchCalls
  BY <1>2 DEF SearchCalls
<1>4. SearchInv(call)
  <2>1. \A r \in 0 .. mask : ~(Gap(Home(k, mask), r, mask) < Gap(Home(k, mask), Home(k, mask), mask))
    BY <1>1, <1>2, Gaps
  <2> QED BY <1>2, <2>1 DEF SearchInv
<1> QED BY <1>1, <1>2, <1>3, <1>4 DEF CallInv

\* each gives a pair it has not given before and passes none over.
LEMMA GivesNext ==
  ASSUME IInv, NEW c \in EachCalls, EachInv(c), Ahead(c) # {}, NEW call, call = Given(c)
  PROVE  call \in EachCalls /\ CallInv(call)
<1>1. mask \in Nat /\ GoodTable(words, mask) /\ Taken = Used(words, mask)
  BY DEF IInv, TableInv, Taken, Slots, Used
<1>2. c.at \in Nat /\ c.size \in Nat /\ c.given \subseteq Keys /\ c.there \subseteq Keys
      /\ c.again \in BOOLEAN
  BY DEF EachCalls
<1>3. \A s \in Ahead(c) : s \in Used(words, mask) /\ s \in 0 .. mask /\ c.at <= s /\ s < c.size
  BY <1>1 DEF Ahead, Used
<1> DEFINE s == Min(Ahead(c))
           key == KeySlot(words, s)
<1>4. s \in Ahead(c) /\ \A x \in Ahead(c) : s <= x
  BY <1>3, LeastOf, Ahead(c) \in SUBSET Nat
<1>5. \A x \in Used(words, mask) : c.at <= x /\ x < c.size => s <= x
  BY <1>1, <1>4 DEF Ahead
<1>6. s \in Used(words, mask) /\ s \in 0 .. mask /\ c.at <= s /\ s < c.size /\ key \in Keys
  BY <1>1, <1>3, <1>4 DEF GoodTable, Used
<1>7. /\ call.at = s + 1 /\ call.again = (c.again \/ key \in c.given)
      /\ call.given = c.given \cup {key} /\ call.there = c.there /\ call.size = c.size
      /\ call.phase = "each" /\ call \in EachCalls
  <2>1. call = [c EXCEPT !.at = s + 1, !.again = @ \/ key \in c.given, !.given = @ \cup {key}]
    BY DEF Given
  <2> HIDE DEF s, key
  <2>2. s + 1 \in Nat /\ c.given \cup {key} \subseteq Keys
    BY <1>2, <1>6
  <2> QED BY <1>2, <2>1, <2>2 DEF EachCalls
<1> HIDE DEF s, key
<1>8. ASSUME c.size = mask + 1 PROVE key \notin c.given
  <2> SUFFICES ASSUME key \in c.given PROVE FALSE
    OBVIOUS
  <2>1. PICK r \in Used(words, mask) : r < c.at /\ KeySlot(words, r) = key
    BY <1>8 DEF EachInv
  <2>2. r = s
    BY <1>1, <1>6, <2>1 DEF GoodTable, key
  <2> QED BY <1>2, <1>6, <2>1, <2>2
<1>9. ASSUME c.size = mask + 1, NEW k \in call.given
      PROVE  \E r \in Used(words, mask) : r < call.at /\ KeySlot(words, r) = k
  <2>1. CASE k = key
    BY <1>6, <1>7, <2>1 DEF key
  <2>2. CASE k \in c.given
    <3>1. PICK r \in Used(words, mask) : r < c.at /\ KeySlot(words, r) = k
      BY <1>9, <2>2 DEF EachInv
    <3>2. r \in 0 .. mask /\ r < s + 1
      BY <1>2, <1>6, <3>1 DEF Used
    <3> QED BY <1>7, <3>1, <3>2
  <2> QED BY <1>7, <2>1, <2>2
<1>10. ASSUME c.size = mask + 1, NEW k \in call.there
       PROVE  \E r \in Used(words, mask) : KeySlot(words, r) = k /\ (r < call.at => k \in call.given)
  <2>1. PICK r \in Used(words, mask) : KeySlot(words, r) = k /\ (r < c.at => k \in c.given)
    BY <1>7, <1>10 DEF EachInv
  <2>2. r \in 0 .. mask
    BY DEF Used
  <2>3. ASSUME r < s + 1 PROVE r < c.at \/ r = s
    <3>1. c.at <= r => s <= r
      BY <1>1, <1>5, <1>10, <2>2
    <3> QED BY <1>2, <1>6, <2>2, <2>3, <3>1
  <2>4. r = s => k = key
    BY <2>1 DEF key
  <2> QED BY <1>7, <2>1, <2>3, <2>4
<1>11. EachInv(call)
  <2>1. call.at <= call.size /\ call.size <= mask + 1
    BY <1>1, <1>2, <1>6, <1>7 DEF EachInv
  <2>2. c.size = mask + 1 => ~call.again
    BY <1>7, <1>8 DEF EachInv
  <2> QED BY <1>7, <1>9, <1>10, <2>1, <2>2 DEF EachInv
<1>12. call.at <= mask + 1
  BY <1>1, <1>2, <1>6, <1>7
<1> QED BY <1>7, <1>11, <1>12 DEF CallInv

-----------------------------------------------------------------------------
(* Stores.                                                                 *)

\* A table with the keys of another in the same slots is as good.
LEMMA SameKeys ==
  ASSUME NEW m, NEW t, GoodTable(t, m), NEW u \in [0 .. 2 * m + 1 -> TableWords],
         \A r \in 0 .. m : KeySlot(u, r) = KeySlot(t, r)
  PROVE  GoodTable(u, m) /\ Used(u, m) = Used(t, m)
<1>1. Used(u, m) = Used(t, m)
  BY DEF Used
<1>2. \A r \in Used(t, m) : KeySlot(u, r) = KeySlot(t, r)
  BY DEF Used
<1> QED BY <1>1, <1>2 DEF GoodTable

\* The table a step leaves is good and, unless it is larger, has the pairs it had in their slots.
GoodStep ==
  /\ TableInv' /\ mask' \in Nat
  /\ \/ mask' > mask
     \/ /\ mask' = mask
        /\ \A s \in Used(words, mask) : /\ s \in Used(words, mask)'
                                        /\ KeySlot(words, s)' = KeySlot(words, s)

\* The value stored for a key that is there.
LEMMA StoresAgain ==
  ASSUME IInv, SetFound
  PROVE  GoodStep
<1>1. Top \in SearchCalls /\ SearchInv(Top) /\ mask \in Nat /\ GoodTable(words, mask) /\ TableInv
  BY Calling DEF IInv, TableInv, SetFound, Comparing
<1>2. /\ words' = Stored(words, Top.at, Top.key, Top.value) /\ KeySlot(words, Top.at) = Top.key
      /\ mask' = mask /\ entries' = entries
  BY DEF SetFound, Found
<1>3. Top.at \in 0 .. mask /\ Top.key \in TableWords /\ Top.value \in TableWords
  BY <1>1 DEF SearchInv, SearchCalls, TableWords
<1>4. words \in [0 .. 2 * mask + 1 -> TableWords]
  BY <1>1 DEF GoodTable
<1>5. /\ words' \in [0 .. 2 * mask + 1 -> TableWords]
      /\ \A r \in 0 .. mask : KeySlot(words', r) = KeySlot(words, r)
  <2> DEFINE a == Top.at
             k == Top.key
             v == Top.value
  <2>1. /\ a \in 0 .. mask /\ k \in TableWords /\ v \in TableWords /\ KeySlot(words, a) = k
        /\ words' = Stored(words, a, k, v)
    BY <1>2, <1>3
  <2> HIDE DEF a, k, v
  <2>2. /\ words' \in [0 .. 2 * mask + 1 -> TableWords]
        /\ \A r \in 0 .. mask : KeySlot(words', r) = IF r = a THEN k ELSE KeySlot(words, r)
    BY <1>1, <1>4, <2>1, StoredPair
  <2> QED BY <2>1, <2>2
<1>6. GoodTable(words', mask) /\ Used(words', mask) = Used(words, mask)
  BY <1>1, <1>5, SameKeys
<1>7. \A s \in Used(words, mask) : s \in Used(words', mask) /\ KeySlot(words', s) = KeySlot(words, s)
  BY <1>5, <1>6 DEF Used
<1>8. TableInv'
  BY <1>1, <1>2, <1>6 DEF TableInv
<1> QED BY <1>1, <1>2, <1>7, <1>8 DEF GoodStep

\* What the three outcomes of storing a new key leave.
LEMMA NewKey ==
  ASSUME IInv, SetMissing,
         NEW table, table = Stored(words, Top.at, Top.key, Top.value)
  PROVE  /\ Top \in SearchCalls /\ Top.value \in Values /\ Top.at \in 0 .. mask
         /\ \A r \in Used(words, mask) : KeySlot(words, r) # Top.key
         /\ GoodTable(table, mask) /\ Used(table, mask) = Used(words, mask) \cup {Top.at}
         /\ Cardinality(Used(table, mask)) = entries + 1 /\ Top.at \notin Used(words, mask)
         /\ \A r \in Used(words, mask) : /\ KeySlot(table, r) = KeySlot(words, r)
                                         /\ ValueSlot(table, r) = ValueSlot(words, r)
         /\ KeySlot(table, Top.at) = Top.key /\ ValueSlot(table, Top.at) = Top.value
         /\ Full(entries + 1) => Copied(Rehashed(table, mask), table, mask, mask + 1)
         /\ LET back == Restored(table, Top.at)
            IN /\ back \in [0 .. 2 * mask + 1 -> TableWords]
               /\ \A r \in 0 .. mask : KeySlot(back, r) = KeySlot(words, r)
               /\ \A r \in Used(words, mask) : ValueSlot(back, r) = ValueSlot(words, r)
<1>1. /\ Top \in SearchCalls /\ SearchInv(Top) /\ mask \in Nat /\ GoodTable(words, mask)
      /\ TableInv /\ KeySlot(words, Top.at) = Undef /\ Top.op = "set"
      /\ \A r \in Used(words, mask) : KeySlot(words, r) # Top.key
  BY Calling, KeyAbsent DEF IInv, TableInv, SetMissing, Found
<1>2. Top.at \in 0 .. mask /\ Top.key \in Keys /\ Top.value \in Values /\ Top.value \in TableWords
  BY <1>1 DEF SearchInv, SearchCalls, TableWords
<1>3. \A r \in 0 .. mask : Gap(Home(Top.key, mask), r, mask) < Gap(Home(Top.key, mask), Top.at, mask)
         => KeySlot(words, r) \notin {Undef, Top.key}
  BY <1>1 DEF SearchInv
<1> DEFINE a == Top.at
           k == Top.key
           v == Top.value
<1>4. a \in 0 .. mask /\ k \in Keys /\ v \in TableWords /\ KeySlot(words, a) = Undef
  BY <1>1, <1>2
<1>5. \A r \in 0 .. mask : Gap(Home(k, mask), r, mask) < Gap(Home(k, mask), a, mask)
         => KeySlot(words, r) \notin {Undef, k}
  BY <1>3
<1>6. table = Stored(words, a, k, v)
  OBVIOUS
<1> HIDE DEF a, k, v
<1>7. /\ GoodTable(table, mask) /\ Used(table, mask) = Used(words, mask) \cup {a}
      /\ a \notin Used(words, mask)
      /\ \A r \in Used(words, mask) : /\ KeySlot(table, r) = KeySlot(words, r)
                                      /\ ValueSlot(table, r) = ValueSlot(words, r)
      /\ KeySlot(table, a) = k /\ ValueSlot(table, a) = v
  BY <1>1, <1>4, <1>5, <1>6, StoreFree
<1>8. Cardinality(Used(table, mask)) = entries + 1
  <2>1. Cardinality(Used(words, mask) \cup {a}) = Cardinality(Used(words, mask)) + 1
    BY <1>1, <1>4, <1>7, UsedSize
  <2> QED BY <1>1, <1>7, <2>1 DEF TableInv
<1>9. ASSUME Full(entries + 1) PROVE Copied(Rehashed(table, mask), table, mask, mask + 1)
  <2>1. entries + 1 > mask /\ entries <= mask /\ entries \in Nat
    BY <1>1, <1>9, UsedSize DEF Full, TableInv
  <2>2. entries + 1 = mask + 1
    BY <1>1, <2>1
  <2>3. Used(table, mask) = 0 .. mask
    BY <1>1, <1>8, <2>2, UsedSize
  <2> QED BY <1>1, <1>7, <2>3, Rehashes
<1>10. LET back == Restored(table, a)
       IN /\ back \in [0 .. 2 * mask + 1 -> TableWords]
          /\ \A r \in 0 .. mask : KeySlot(back, r) = KeySlot(words, r)
          /\ \A r \in Used(words, mask) : ValueSlot(back, r) = ValueSlot(words, r)
  <2> DEFINE back == Stored(table, a, Undef, Undef)
  <2>1. table \in [0 .. 2 * mask + 1 -> TableWords] /\ Undef \in TableWords
    BY <1>7 DEF GoodTable, TableWords
  <2>2. /\ back \in [0 .. 2 * mask + 1 -> TableWords]
        /\ \A r \in 0 .. mask : /\ KeySlot(back, r) = IF r = a THEN Undef ELSE KeySlot(table, r)
                                /\ ValueSlot(back, r) = IF r = a THEN Undef ELSE ValueSlot(table, r)
    BY <1>1, <1>4, <2>1, StoredPair
  <2> HIDE DEF back
  <2>3. \A r \in 0 .. mask : r # a => KeySlot(table, r) = KeySlot(words, r)
    <3>1. \A r \in 0 .. mask : r # a /\ r \notin Used(words, mask) => r \notin Used(table, mask)
      BY <1>7
    <3> QED BY <1>7, <3>1 DEF Used
  <2>4. \A r \in 0 .. mask : KeySlot(back, r) = KeySlot(words, r)
    BY <1>4, <2>2, <2>3
  <2>5. \A r \in Used(words, mask) : ValueSlot(back, r) = ValueSlot(words, r)
    BY <1>7, <2>2 DEF Used
  <2> QED BY <2>2, <2>4, <2>5 DEF back, Restored
<1> QED BY <1>1, <1>2, <1>7, <1>8, <1>9, <1>10 DEF a, k, v

\* A new key is stored, the table expanded or the slot restored.
LEMMA StoresNew ==
  ASSUME IInv, SetMissing
  PROVE  GoodStep
<1> DEFINE table == Stored(words, Top.at, Top.key, Top.value)
           back == Restored(table, Top.at)
<1>1. /\ GoodTable(table, mask) /\ Used(table, mask) = Used(words, mask) \cup {Top.at}
      /\ Cardinality(Used(table, mask)) = entries + 1
      /\ \A r \in Used(words, mask) : KeySlot(table, r) = KeySlot(words, r)
      /\ Full(entries + 1) => Copied(Rehashed(table, mask), table, mask, mask + 1)
      /\ back \in [0 .. 2 * mask + 1 -> TableWords]
      /\ \A r \in 0 .. mask : KeySlot(back, r) = KeySlot(words, r)
  BY NewKey
<1>2. mask \in Nat /\ GoodTable(words, mask) /\ entries = Cardinality(Used(words, mask))
      /\ entries <= mask /\ entries \in Nat
  BY UsedSize DEF IInv, TableInv
<1>3. \/ words' = table /\ entries' = entries + 1 /\ mask' = mask /\ ~Full(entries + 1)
      \/ /\ words' = Rehashed(table, mask) /\ mask' = 2 * mask + 1 /\ entries' = entries + 1
         /\ Full(entries + 1)
      \/ words' = back /\ mask' = mask /\ entries' = entries
  BY DEF SetMissing, Expanded
<1> HIDE DEF table, back
<1>4. CASE words' = table /\ entries' = entries + 1 /\ mask' = mask /\ ~Full(entries + 1)
  <2>1. entries + 1 <= mask
    BY <1>2, <1>4 DEF Full
  <2>2. TableInv'
    BY <1>1, <1>2, <1>4, <2>1 DEF TableInv
  <2>3. \A s \in Used(words, mask) : s \in Used(words', mask') /\ KeySlot(words', s) = KeySlot(words, s)
    BY <1>1, <1>4
  <2> QED BY <1>2, <1>4, <2>2, <2>3 DEF GoodStep
<1>5. CASE /\ words' = Rehashed(table, mask) /\ mask' = 2 * mask + 1 /\ entries' = entries + 1
           /\ Full(entries + 1)
  <2>1. /\ GoodTable(words', mask') /\ Cardinality(Used(words', mask')) = mask + 1
        /\ mask' \in Nat /\ mask' > mask /\ mask + 1 <= mask'
    BY <1>1, <1>2, <1>5 DEF Copied
  <2>2. entries + 1 = mask + 1
    BY <1>2, <1>5 DEF Full
  <2>3. TableInv'
    BY <1>5, <2>1, <2>2 DEF TableInv
  <2> QED BY <2>1, <2>3 DEF GoodStep
<1>6. CASE words' = back /\ mask' = mask /\ entries' = entries
  <2>1. GoodTable(words', mask) /\ Used(words', mask) = Used(words, mask)
    BY <1>1, <1>2, <1>6, SameKeys
  <2>2. TableInv'
    BY <1>2, <1>6, <2>1 DEF TableInv
  <2>3. \A s \in Used(words, mask) : s \in Used(words', mask') /\ KeySlot(words', s) = KeySlot(words, s)
    BY <1>1, <1>6, <2>1 DEF Used
  <2> QED BY <1>2, <1>6, <2>2, <2>3 DEF GoodStep
<1> QED BY <1>3, <1>4, <1>5, <1>6

-----------------------------------------------------------------------------
(* The invariant.                                                          *)

\* It holds of an empty table and no call.
LEMMA IInvInit == Init => IInv
<1> SUFFICES ASSUME Init PROVE IInv
  OBVIOUS
<1>1. mask \in Nat /\ mask + 1 = InitialSlots /\ words = Empty(mask + 1) /\ entries = 0
  BY TableAssumption DEF Init
<1>2. GoodTable(words, mask) /\ Used(words, mask) = {}
  BY <1>1, EmptyTable
<1>3. TableInv
  BY <1>1, <1>2, FS_EmptySet DEF TableInv
<1>4. calls \in Seq(SearchCalls \cup EachCalls) /\ DOMAIN calls = {}
  BY DEF Init
<1>5. CallsInv
  BY <1>4 DEF CallsInv, InProgress
<1> QED BY <1>3, <1>5, FlagInit DEF IInv

\* A call leaves a good table.
LEMMA CallLeaves ==
  ASSUME IInv, calls # <<>>, Pop, GoodStep
  PROVE  TableInv' /\ CallsInv'
<1>1. /\ calls' \in Seq(SearchCalls \cup EachCalls)
      /\ \A c : InProgress(c)' => InProgress(c) /\ c.phase # "search"
  BY TopLeaves
<1>2. ASSUME NEW c \in SearchCalls \cup EachCalls, InProgress(c)' PROVE CallInv(c)'
  <2>1. CallInv(c) /\ c.phase # "search" /\ TableInv
    BY <1>1, <1>2, Calling DEF IInv
  <2> QED BY <2>1, TableGains DEF GoodStep
<1> QED BY <1>1, <1>2 DEF CallsInv, GoodStep

\* A call leaves the table as it is.
LEMMA CallLeavesTable ==
  ASSUME IInv, calls # <<>>, Pop, UNCHANGED <<words, mask, entries>>
  PROVE  TableInv' /\ CallsInv'
<1>1. TableInv' /\ mask \in Nat
  BY TableStays DEF IInv, TableInv
<1>2. \A s \in Used(words, mask) : s \in Used(words, mask)' /\ KeySlot(words, s)' = KeySlot(words, s)
  BY DEF Used
<1> QED BY <1>1, <1>2, CallLeaves DEF GoodStep

\* The call on top goes on, and the table is left as it is.
LEMMA CallGoesOn ==
  ASSUME IInv, calls # <<>>, NEW call \in SearchCalls \cup EachCalls, CallInv(call),
         SetTop(call), UNCHANGED <<words, mask, entries>>
  PROVE  TableInv' /\ CallsInv'
<1>1. /\ calls' \in Seq(SearchCalls \cup EachCalls)
      /\ \A c : InProgress(c)' => c = call \/ InProgress(c)
  BY TopChanges
<1>2. ASSUME NEW c \in SearchCalls \cup EachCalls, InProgress(c)' PROVE CallInv(c)'
  <2>1. CallInv(c)
    BY <1>1, <1>2, Calling
  <2> QED BY <2>1, TableStays
<1>3. TableInv'
  BY TableStays DEF IInv
<1> QED BY <1>1, <1>2, <1>3 DEF CallsInv

\* A call begins.
LEMMA CallBegins ==
  ASSUME IInv, NEW call \in SearchCalls \cup EachCalls, CallInv(call),
         calls' = Append(calls, call), UNCHANGED <<words, mask, entries>>
  PROVE  TableInv' /\ CallsInv'
<1>1. /\ calls' \in Seq(SearchCalls \cup EachCalls)
      /\ \A c : InProgress(c)' => c = call \/ InProgress(c)
  BY TopEnters
<1>2. ASSUME NEW c \in SearchCalls \cup EachCalls, InProgress(c)' PROVE CallInv(c)'
  <2>1. CallInv(c)
    BY <1>1, <1>2, Calling
  <2> QED BY <2>1, TableStays
<1>3. TableInv'
  BY TableStays DEF IInv
<1> QED BY <1>1, <1>2, <1>3 DEF CallsInv

\* Every step of a program that deletes no key keeps the invariant.
LEMMA IInvStep ==
  ASSUME Removable = {}, IInv, [Next]_vars
  PROVE  IInv'
<1>0. FlagInv'
  BY FlagStep DEF IInv
<1>1. CASE Call
  <2>1. PICK op, k, v : /\ Enter(op, k, v) /\ k \in Keys /\ op \in {"get", "set"}
                        /\ v \in Values \cup {Undef} /\ (op = "set" => v \in Values)
    BY <1>1 DEF Call
  <2>2. PICK call : call = [op |-> op, key |-> k, value |-> v, at |-> Home(k, mask), phase |-> "search"]
    OBVIOUS
  <2>3. call \in SearchCalls /\ CallInv(call)
    BY <2>1, <2>2, SearchBegins
  <2>4. calls' = Append(calls, call) /\ UNCHANGED <<words, mask, entries>>
    BY <2>1, <2>2 DEF Enter
  <2>5. TableInv' /\ CallsInv'
    BY <2>3, <2>4, CallBegins
  <2> QED BY <1>0, <2>5 DEF IInv
<1>2. CASE Differs
  <2>1. PICK call : call = [Top EXCEPT !.at = After(@, mask)]
    OBVIOUS
  <2>2. /\ Comparing /\ Found # Top.key /\ SetTop(call) /\ UNCHANGED <<words, mask, entries>>
        /\ calls # <<>>
    BY <1>2, <2>1 DEF Differs, Comparing, Searching
  <2>3. call \in SearchCalls /\ CallInv(call)
    BY <2>1, <2>2, SearchGoesOn
  <2>4. TableInv' /\ CallsInv'
    BY <2>2, <2>3, CallGoesOn
  <2> QED BY <1>0, <2>4 DEF IInv
<1>3. CASE Raises
  BY <1>0, <1>3, CallLeavesTable DEF IInv, Raises, Comparing, Searching
<1>4. CASE GetFound
  BY <1>0, <1>4, CallLeavesTable DEF IInv, GetFound, Comparing, Searching, Leave
<1>5. CASE GetMissing
  <2>1. PICK call : call = [Top EXCEPT !.phase = "default"]
    OBVIOUS
  <2>2. /\ Searching /\ Top.op = "get" /\ SetTop(call) /\ UNCHANGED <<words, mask, entries>>
        /\ calls # <<>>
    BY <1>5, <2>1 DEF GetMissing, Searching
  <2>3. Top \in SearchCalls /\ InProgress(Top) /\ CallInv(Top)
    BY <2>2, Calling
  <2>4. call \in SearchCalls /\ call.op = "get" /\ call.phase = "default" /\ call.at = Top.at
    BY <2>1, <2>2, <2>3 DEF SearchCalls
  <2>5. CallInv(call)
    BY <2>3, <2>4 DEF CallInv
  <2>6. TableInv' /\ CallsInv'
    BY <2>2, <2>4, <2>5, CallGoesOn
  <2> QED BY <1>0, <2>6 DEF IInv
<1>6. CASE DefaultEnds
  BY <1>0, <1>6, CallLeavesTable DEF IInv, DefaultEnds
<1>7. CASE RemoveMissing \/ RemoveFound
  <2>1. Searching /\ Top.op = "remove"
    BY <1>7 DEF RemoveMissing, RemoveFound, Comparing
  <2>2. Top \in SearchCalls
    BY <2>1, Calling
  <2> QED BY <2>1, <2>2 DEF SearchCalls
<1>8. CASE SetFound
  <2>1. GoodStep /\ Pop /\ calls # <<>>
    BY <1>8, StoresAgain DEF SetFound, Comparing, Searching, Leave
  <2> QED BY <1>0, <2>1, CallLeaves DEF IInv
<1>9. CASE SetMissing
  <2>1. GoodStep /\ Pop /\ calls # <<>>
    BY <1>9, StoresNew DEF SetMissing, Searching, Leave
  <2> QED BY <1>0, <2>1, CallLeaves DEF IInv
<1>10. CASE EachStarts
  <2>1. PICK c : c = [op |-> "each", key |-> Undef, value |-> Undef, at |-> 0, phase |-> "each",
                      size |-> mask + 1, given |-> {}, again |-> FALSE,
                      there |-> {KeySlot(words, s) : s \in Taken}]
    OBVIOUS
  <2>2. /\ Ahead(c) # {} /\ calls = <<>> /\ calls' = <<Given(c)>>
        /\ UNCHANGED <<words, mask, entries>>
    BY <1>10, <2>1 DEF EachStarts
  <2>3. PICK call : call = Given(c)
    OBVIOUS
  <2>4. mask \in Nat /\ GoodTable(words, mask) /\ Taken = Used(words, mask)
    BY DEF IInv, TableInv, Taken, Slots, Used
  <2>5. \A s \in Taken : KeySlot(words, s) \in Keys
    BY <2>4 DEF GoodTable, Used
  <2>6. c \in EachCalls /\ c.at = 0 /\ c.size = mask + 1 /\ c.given = {} /\ ~c.again
        /\ c.there = {KeySlot(words, s) : s \in Taken}
    BY <2>1, <2>4, <2>5 DEF EachCalls
  <2>7. \A k \in c.there : \E s \in Used(words, mask) : KeySlot(words, s) = k /\ ~(s < c.at)
    BY <2>4, <2>6 DEF Used
  <2>8. EachInv(c)
    BY <2>4, <2>6, <2>7 DEF EachInv
  <2>9. call \in EachCalls /\ CallInv(call)
    BY <2>2, <2>3, <2>6, <2>8, GivesNext
  <2>10. calls' = Append(calls, call)
    BY <2>2, <2>3
  <2>11. TableInv' /\ CallsInv'
    BY <2>2, <2>9, <2>10, CallBegins
  <2> QED BY <1>0, <2>11 DEF IInv
<1>11. CASE EachYields
  <2>1. PICK c, call : c = Top /\ call = Given(c)
    OBVIOUS
  <2>2. /\ calls # <<>> /\ Ahead(c) # {} /\ SetTop(call) /\ UNCHANGED <<words, mask, entries>>
        /\ c \in EachCalls /\ EachInv(c)
    BY <1>11, <2>1, Calling DEF EachYields, Iterating
  <2>3. call \in EachCalls /\ CallInv(call)
    BY <2>1, <2>2, GivesNext
  <2>4. TableInv' /\ CallsInv'
    BY <2>2, <2>3, CallGoesOn
  <2> QED BY <1>0, <2>4 DEF IInv
<1>12. CASE EachEnds
  BY <1>0, <1>12, CallLeavesTable DEF IInv, EachEnds, Iterating
<1>13. CASE UNCHANGED vars
  <2>1. UNCHANGED <<words, mask, entries>> /\ calls' = calls
    BY <1>13 DEF vars
  <2>2. TableInv'
    BY <2>1, TableStays DEF IInv
  <2>3. \A c : InProgress(c)' <=> InProgress(c)
    BY <2>1 DEF InProgress
  <2>4. CallsInv'
    BY <2>1, <2>3, TableStays DEF IInv, CallsInv
  <2> QED BY <1>0, <2>2, <2>4 DEF IInv
<1> QED
  BY <1>1, <1>2, <1>3, <1>4, <1>5, <1>6, <1>7, <1>8, <1>9, <1>10, <1>11, <1>12, <1>13 DEF Next

-----------------------------------------------------------------------------
(* What follows.                                                           *)

\* A search ends, at the key if it is in the table.
LEMMA SearchesFind == IInv => Searchable
<1> SUFFICES ASSUME IInv PROVE Searchable
  OBVIOUS
<1>1. /\ mask \in Nat /\ GoodTable(words, mask) /\ Taken = Used(words, mask)
      /\ entries = Cardinality(Used(words, mask)) /\ entries <= mask
  BY DEF IInv, TableInv, Taken, Slots, Used
<1>2. RoomLeft
  BY <1>1 DEF RoomLeft
<1>3. ASSUME NEW s \in Taken
      PROVE  LET key == KeySlot(words, s)
                 passed == {(Home(key, mask) + i) % (mask + 1) :
                              i \in 0 .. ((s - Home(key, mask)) % (mask + 1))}
             IN passed \subseteq Taken /\ \A t \in Taken : KeySlot(words, t) = key => t = s
  <2> DEFINE key == KeySlot(words, s)
             h == Home(key, mask)
  <2>1. s \in 0 .. mask /\ key \in Keys
    BY <1>1, <1>3 DEF GoodTable, Used
  <2>2. h \in 0 .. mask
    BY <1>1, <2>1, Homes
  <2>3. (s - h) % (mask + 1) = Gap(h, s, mask) /\ Gap(h, s, mask) \in 0 .. mask
    BY <1>1, <2>1, <2>2, Probes, Gaps
  <2>4. \A t \in Taken : KeySlot(words, t) = key => t = s
    BY <1>1, <1>3 DEF GoodTable
  <2>5. \A r \in 0 .. mask : Gap(h, r, mask) <= Gap(h, s, mask) => r \in Taken
    BY <1>1, <1>3 DEF GoodTable
  <2> HIDE DEF h, key
  <2>6. ASSUME NEW i \in 0 .. Gap(h, s, mask) PROVE (h + i) % (mask + 1) \in Taken
    <3>1. i \in 0 .. mask
      BY <1>1, <2>3
    <3>2. (h + i) % (mask + 1) \in 0 .. mask /\ Gap(h, (h + i) % (mask + 1), mask) = i
      BY <1>1, <2>2, <3>1, Probes
    <3>3. i <= Gap(h, s, mask)
      BY <2>3
    <3> QED BY <2>5, <3>2, <3>3
  <2> QED BY <2>3, <2>4, <2>6 DEF h, key
<1>4. KeysFindable
  BY <1>3 DEF KeysFindable
<1> QED BY <1>2, <1>4 DEF Searchable

\* each gives every pair that was there.
LEMMA EachGives == IInv => EachGivesEveryPair
<1> SUFFICES ASSUME IInv, NEW i \in DOMAIN calls, calls[i].phase = "each", calls[i].size = mask + 1
             PROVE  ~calls[i].again /\ (Ahead(calls[i]) = {} => calls[i].there \subseteq calls[i].given)
  BY DEF EachGivesEveryPair
<1> DEFINE c == calls[i]
<1>1. c \in EachCalls /\ EachInv(c)
  <2>1. InProgress(c)
    BY DEF InProgress
  <2>2. c \in SearchCalls \cup EachCalls /\ CallInv(c)
    BY <2>1, Calling
  <2> QED BY <2>2 DEF CallInv, SearchCalls
<1> HIDE DEF c
<1>2. c.size = mask + 1
  BY DEF c
<1>3. mask \in Nat /\ Taken = Used(words, mask)
  BY DEF IInv, TableInv, Taken, Slots, Used
<1>4. ASSUME Ahead(c) = {}, NEW k \in c.there PROVE k \in c.given
  <2>1. PICK s \in Used(words, mask) : KeySlot(words, s) = k /\ (s < c.at => k \in c.given)
    BY <1>1, <1>2, <1>4 DEF EachInv
  <2>2. s \in 0 .. mask /\ c.at \in Nat
    BY <1>1 DEF Used, EachCalls
  <2>3. ~(c.at <= s)
    BY <1>2, <1>3, <1>4, <2>2 DEF Ahead
  <2> QED BY <2>1, <2>2, <2>3
<1>5. ~c.again
  BY <1>1, <1>2 DEF EachInv
<1> QED BY <1>4, <1>5 DEF c

\* The variables have their types.
LEMMA Types == IInv => TypeOK
<1> SUFFICES ASSUME IInv PROVE TypeOK
  OBVIOUS
<1>1. mask \in Nat /\ entries \in Nat /\ words \in [0 .. 2 * mask + 1 -> Keys \cup Values \cup {Undef}]
  BY UsedSize DEF IInv, TableInv, GoodTable, TableWords
<1>2. ASSUME NEW i \in DOMAIN calls
      PROVE  /\ calls[i].op \in {"get", "set", "remove", "each"} /\ calls[i].key \in Keys \cup {Undef}
             /\ calls[i].value \in Values \cup {Undef}
             /\ calls[i].at \in 0 .. mask + 1 /\ calls[i].phase \in {"search", "default", "lost", "each"}
  <2>1. calls[i] \in SearchCalls \cup EachCalls /\ calls[i].at <= mask + 1
    BY Calling DEF InProgress, CallInv
  <2> QED BY <1>1, <2>1 DEF SearchCalls, EachCalls
<1> QED BY <1>1, <1>2 DEF TypeOK, IInv, FlagInv

\* As long as the program deletes no key, every variable keeps its type: the words of the
\* table are keys and values side by side, and no search leaves its slots.
THEOREM TypeCorrect ==
  ASSUME Removable = {}
  PROVE  Spec => []TypeOK
<1>1. IInv /\ [Next]_vars => IInv'
  BY IInvStep
<1> QED BY <1>1, IInvInit, Types, PTL DEF Spec

\* As long as the program deletes no key, every search in a Hash ends, and at the key if it
\* is there, whatever the keys hash to, whatever was stored from within == and default
\* blocks, and however often the table was expanded.
THEOREM SearchesEnd ==
  ASSUME Removable = {}
  PROVE  Spec => []Searchable
<1>1. IInv /\ [Next]_vars => IInv'
  BY IInvStep
<1> QED BY <1>1, IInvInit, SearchesFind, PTL DEF Spec

\* As long as the program deletes no key, each gives its block every pair that was there when
\* it began, and none twice, unless the table is expanded meanwhile.
THEOREM EachGivesAll ==
  ASSUME Removable = {}
  PROVE  Spec => []EachGivesEveryPair
<1>1. IInv /\ [Next]_vars => IInv'
  BY IInvStep
<1> QED BY <1>1, IInvInit, EachGives, PTL DEF Spec

-----------------------------------------------------------------------------
(* The dictionary.                                                         *)

\* The dictionary a table stands for.
ContentsOf(table, m) ==
  [k \in Keys |->
    LET at == {s \in Used(table, m) : KeySlot(table, s) = k}
    IN IF at = {} THEN Undef ELSE ValueSlot(table, Min(at))]

\* What a key maps to, from the slot it is in.
LEMMA LooksUp ==
  ASSUME NEW m \in Nat, NEW t, GoodTable(t, m), NEW k \in Keys
  PROVE  /\ \A s \in Used(t, m) : KeySlot(t, s) = k => ContentsOf(t, m)[k] = ValueSlot(t, s)
         /\ (\A s \in Used(t, m) : KeySlot(t, s) # k) => ContentsOf(t, m)[k] = Undef
<1> DEFINE at == {s \in Used(t, m) : KeySlot(t, s) = k}
<1>1. ContentsOf(t, m)[k] = IF at = {} THEN Undef ELSE ValueSlot(t, Min(at))
  BY DEF ContentsOf
<1>2. ASSUME NEW s \in Used(t, m), KeySlot(t, s) = k
      PROVE  ContentsOf(t, m)[k] = ValueSlot(t, s)
  <2>1. s \in at /\ at \in SUBSET Nat
    BY <1>2 DEF Used
  <2>2. Min(at) \in at
    BY <2>1, LeastOf
  <2>3. Min(at) = s
    BY <1>2, <2>2 DEF GoodTable
  <2> QED BY <1>1, <2>1, <2>3
<1> QED BY <1>1, <1>2

\* Two tables with the same pairs stand for the same dictionary.
LEMMA SamePairs ==
  ASSUME NEW m \in Nat, NEW t, GoodTable(t, m), NEW n \in Nat, NEW u, GoodTable(u, n),
         \A s \in Used(t, m) : \E r \in Used(u, n) :
           KeySlot(u, r) = KeySlot(t, s) /\ ValueSlot(u, r) = ValueSlot(t, s),
         \A r \in Used(u, n) : \E s \in Used(t, m) : KeySlot(u, r) = KeySlot(t, s)
  PROVE  ContentsOf(u, n) = ContentsOf(t, m)
<1>1. ASSUME NEW k \in Keys PROVE ContentsOf(u, n)[k] = ContentsOf(t, m)[k]
  <2>1. CASE \E s \in Used(t, m) : KeySlot(t, s) = k
    <3>1. PICK s \in Used(t, m) : KeySlot(t, s) = k
      BY <2>1
    <3>2. PICK r \in Used(u, n) : KeySlot(u, r) = k /\ ValueSlot(u, r) = ValueSlot(t, s)
      BY <3>1
    <3> QED BY <3>1, <3>2, LooksUp
  <2>2. CASE \A s \in Used(t, m) : KeySlot(t, s) # k
    <3>1. \A r \in Used(u, n) : KeySlot(u, r) # k
      BY <2>2
    <3> QED BY <2>2, <3>1, LooksUp
  <2> QED BY <2>1, <2>2
<1> QED BY <1>1 DEF ContentsOf

\* An expanded table stands for the same dictionary.
LEMMA CopiesAll ==
  ASSUME NEW m \in Nat, NEW t, GoodTable(t, m), Used(t, m) = 0 .. m
  PROVE  ContentsOf(Rehashed(t, m), 2 * m + 1) = ContentsOf(t, m)
<1>1. PICK u, n, p : u = Rehashed(t, m) /\ n = 2 * m + 1 /\ p = m + 1
  OBVIOUS
<1>2. Copied(u, t, m, p)
  BY <1>1, Rehashes
<1>3. n \in Nat /\ 0 .. p - 1 = 0 .. m
  BY <1>1
<1>4. GoodTable(u, n)
  BY <1>1, <1>2 DEF Copied
<1>5. \A s \in 0 .. p - 1 : \E r \in Used(u, n) :
        KeySlot(u, r) = KeySlot(t, s) /\ ValueSlot(u, r) = ValueSlot(t, s)
  BY <1>1, <1>2 DEF Copied
<1>6. \A r \in Used(u, n) : \E s \in 0 .. p - 1 : KeySlot(u, r) = KeySlot(t, s)
  BY <1>1, <1>2 DEF Copied
<1>7. \A s \in Used(t, m) : \E r \in Used(u, n) :
        KeySlot(u, r) = KeySlot(t, s) /\ ValueSlot(u, r) = ValueSlot(t, s)
  BY <1>3, <1>5
<1>8. \A r \in Used(u, n) : \E s \in Used(t, m) : KeySlot(u, r) = KeySlot(t, s)
  BY <1>3, <1>6
<1>9. ContentsOf(u, n) = ContentsOf(t, m)
  <2>1. n \in Nat
    BY <1>3
  <2> QED BY <1>4, <1>7, <1>8, <2>1, SamePairs
<1> QED BY <1>1, <1>9

\* A table that differs in the pair of one key stands for the dictionary with that key set.
LEMMA OnePair ==
  ASSUME NEW m \in Nat, NEW t, GoodTable(t, m), NEW u, GoodTable(u, m),
         NEW a \in 0 .. m, NEW k \in Keys, NEW v,
         KeySlot(u, a) = k, ValueSlot(u, a) = v, a \in Used(u, m),
         Used(u, m) = Used(t, m) \cup {a},
         \A r \in Used(t, m) : r # a =>
           /\ KeySlot(t, r) # k
           /\ KeySlot(u, r) = KeySlot(t, r) /\ ValueSlot(u, r) = ValueSlot(t, r),
         a \in Used(t, m) => KeySlot(t, a) = k
  PROVE  ContentsOf(u, m) = [ContentsOf(t, m) EXCEPT ![k] = v]
<1>1. ContentsOf(u, m)[k] = v
  BY LooksUp
<1>2. ASSUME NEW j \in Keys, j # k PROVE ContentsOf(u, m)[j] = ContentsOf(t, m)[j]
  <2>1. CASE \E s \in Used(t, m) : KeySlot(t, s) = j
    <3>1. PICK s \in Used(t, m) : KeySlot(t, s) = j
      BY <2>1
    <3>2. s # a /\ s \in Used(u, m) /\ KeySlot(u, s) = j /\ ValueSlot(u, s) = ValueSlot(t, s)
      BY <1>2, <3>1
    <3> QED BY <3>1, <3>2, LooksUp
  <2>2. CASE \A s \in Used(t, m) : KeySlot(t, s) # j
    <3>1. \A r \in Used(u, m) : KeySlot(u, r) # j
      BY <1>2, <2>2
    <3> QED BY <2>2, <3>1, LooksUp
  <2> QED BY <2>1, <2>2
<1> QED BY <1>1, <1>2 DEF ContentsOf

\* The refinement mapping, of a good table.
LEMMA ContentsMapped ==
  /\ Contents = ContentsOf(words, mask)
  /\ Contents' = ContentsOf(words', mask')
<1>1. Taken = Used(words, mask) /\ Taken' = Used(words', mask')
  BY DEF Taken, Slots, Used
<1> QED BY <1>1 DEF Contents, ContentsOf

\* An empty table maps to an empty dictionary.
LEMMA StartsAsDictionary == Init => Abstract!Init
<1> SUFFICES ASSUME Init PROVE Abstract!Init
  OBVIOUS
<1>1. mask \in Nat /\ mask + 1 = InitialSlots /\ words = Empty(mask + 1)
  BY TableAssumption DEF Init
<1>2. Used(words, mask) = {}
  BY <1>1, EmptyTable
<1>3. Contents = [k \in Keys |-> Undef]
  BY <1>2, ContentsMapped DEF ContentsOf
<1> QED BY <1>3 DEF Init, Abstract!Init, Answer, Abstract!Answer

\* The value of a key that is set again.
LEMMA SetsAgain ==
  ASSUME IInv, SetFound
  PROVE  \E k \in Keys, v \in Values : Abstract!Set(k, v)
<1>1. PICK a, k, v : a = Top.at /\ k = Top.key /\ v = Top.value
  OBVIOUS
<1>2. Top \in SearchCalls /\ SearchInv(Top) /\ mask \in Nat /\ GoodTable(words, mask)
  BY Calling DEF IInv, TableInv, SetFound, Comparing
<1>3. a \in 0 .. mask /\ k \in Keys /\ v \in Values /\ KeySlot(words, a) = k
  BY <1>1, <1>2 DEF SearchInv, SearchCalls, SetFound, Found
<1>4. k \in TableWords /\ v \in TableWords /\ k # Undef
  BY <1>3, TableAssumption DEF TableWords
<1>5. words' = Stored(words, a, k, v) /\ mask' = mask /\ answer' = Answer("set", k, v)
  BY <1>1 DEF SetFound, Leave
<1>6. words \in [0 .. 2 * mask + 1 -> TableWords]
  BY <1>2 DEF GoodTable
<1>7. /\ words' \in [0 .. 2 * mask + 1 -> TableWords]
      /\ \A r \in 0 .. mask : /\ KeySlot(words', r) = IF r = a THEN k ELSE KeySlot(words, r)
                              /\ ValueSlot(words', r) = IF r = a THEN v ELSE ValueSlot(words, r)
  BY <1>2, <1>3, <1>4, <1>5, <1>6, StoredPair
<1>8. \A r \in 0 .. mask : KeySlot(words', r) = KeySlot(words, r)
  BY <1>3, <1>7
<1>9. GoodTable(words', mask) /\ Used(words', mask) = Used(words, mask)
  BY <1>2, <1>7, <1>8, SameKeys
<1>10. a \in Used(words, mask) /\ Used(words, mask) \subseteq 0 .. mask
  BY <1>3, <1>4 DEF Used
<1>11. \A r \in Used(words, mask) : r # a =>
         /\ KeySlot(words, r) # k
         /\ KeySlot(words', r) = KeySlot(words, r) /\ ValueSlot(words', r) = ValueSlot(words, r)
  BY <1>2, <1>3, <1>7, <1>10 DEF GoodTable
<1>12. KeySlot(words', a) = k /\ ValueSlot(words', a) = v /\ a \in Used(words', mask)
       /\ Used(words', mask) = Used(words, mask) \cup {a}
  BY <1>3, <1>7, <1>9, <1>10
<1>13. ContentsOf(words', mask) = [ContentsOf(words, mask) EXCEPT ![k] = v]
  BY <1>2, <1>3, <1>9, <1>11, <1>12, OnePair
<1>14. Contents' = [Contents EXCEPT ![k] = v]
  BY <1>5, <1>13, ContentsMapped
<1> QED BY <1>3, <1>5, <1>14 DEF Abstract!Set, Answer, Abstract!Answer

\* A new key is set, or its store is given up.
LEMMA SetsNew ==
  ASSUME IInv, SetMissing
  PROVE  \E k \in Keys, v \in Values : Abstract!Set(k, v) \/ Abstract!GiveUp(k, v)
<1>1. PICK a, k, v : a = Top.at /\ k = Top.key /\ v = Top.value
  OBVIOUS
<1>2. PICK table, back : table = Stored(words, a, k, v) /\ back = Restored(table, a)
  OBVIOUS
<1>3. /\ k \in Keys /\ v \in Values /\ a \in 0 .. mask
      /\ \A r \in Used(words, mask) : KeySlot(words, r) # k
      /\ GoodTable(table, mask) /\ Used(table, mask) = Used(words, mask) \cup {a}
      /\ a \notin Used(words, mask) /\ Cardinality(Used(table, mask)) = entries + 1
      /\ \A r \in Used(words, mask) : /\ KeySlot(table, r) = KeySlot(words, r)
                                      /\ ValueSlot(table, r) = ValueSlot(words, r)
      /\ KeySlot(table, a) = k /\ ValueSlot(table, a) = v
      /\ Full(entries + 1) => Copied(Rehashed(table, mask), table, mask, mask + 1)
      /\ back \in [0 .. 2 * mask + 1 -> TableWords]
      /\ \A r \in 0 .. mask : KeySlot(back, r) = KeySlot(words, r)
      /\ \A r \in Used(words, mask) : ValueSlot(back, r) = ValueSlot(words, r)
  BY <1>1, <1>2, NewKey DEF SearchCalls
<1>4. mask \in Nat /\ GoodTable(words, mask) /\ Used(words, mask) \subseteq 0 .. mask
      /\ entries \in Nat /\ entries <= mask
  BY UsedSize DEF IInv, TableInv, Used
<1>5. ContentsOf(table, mask) = [ContentsOf(words, mask) EXCEPT ![k] = v]
  BY <1>3, <1>4, OnePair
<1>6. \/ words' = table /\ mask' = mask /\ answer' = Answer("set", k, v)
      \/ /\ words' = Rehashed(table, mask) /\ mask' = 2 * mask + 1 /\ Full(entries + 1)
         /\ answer' = Answer("set", k, v)
      \/ words' = back /\ mask' = mask /\ answer' = Answer("lost", k, v)
  BY <1>1, <1>2 DEF SetMissing, Expanded, Leave
<1>7. CASE words' = table /\ mask' = mask /\ answer' = Answer("set", k, v)
  <2>1. Contents' = [Contents EXCEPT ![k] = v]
    BY <1>5, <1>7, ContentsMapped
  <2> QED BY <1>3, <1>7, <2>1 DEF Abstract!Set, Answer, Abstract!Answer
<1>8. CASE /\ words' = Rehashed(table, mask) /\ mask' = 2 * mask + 1 /\ Full(entries + 1)
           /\ answer' = Answer("set", k, v)
  <2>1. Used(table, mask) = 0 .. mask
    <3>1. entries + 1 = mask + 1
      BY <1>4, <1>8 DEF Full
    <3> QED BY <1>3, <1>4, <3>1, UsedSize
  <2>2. ContentsOf(words', mask') = ContentsOf(table, mask)
    BY <1>3, <1>4, <1>8, <2>1, CopiesAll
  <2>3. Contents' = [Contents EXCEPT ![k] = v]
    BY <1>5, <2>2, ContentsMapped
  <2> QED BY <1>3, <1>8, <2>3 DEF Abstract!Set, Answer, Abstract!Answer
<1>9. CASE words' = back /\ mask' = mask /\ answer' = Answer("lost", k, v)
  <2>1. GoodTable(back, mask) /\ Used(back, mask) = Used(words, mask)
    BY <1>3, <1>4, SameKeys
  <2>2. \A r \in Used(words, mask) : KeySlot(back, r) = KeySlot(words, r)
    BY <1>3, <1>4
  <2>3. ContentsOf(back, mask) = ContentsOf(words, mask)
    BY <1>3, <1>4, <2>1, <2>2, SamePairs
  <2>4. Contents' = Contents
    BY <1>9, <2>3, ContentsMapped
  <2>5. Contents[k] = Undef
    BY <1>3, <1>4, LooksUp, ContentsMapped
  <2> QED BY <1>3, <1>9, <2>4, <2>5 DEF Abstract!GiveUp, Answer, Abstract!Answer
<1> QED BY <1>6, <1>7, <1>8, <1>9

\* A get answers what the dictionary has.
LEMMA GetsValue ==
  ASSUME IInv, GetFound \/ GetMissing
  PROVE  \E k \in Keys : Abstract!Get(k)
<1>1. PICK a, k : a = Top.at /\ k = Top.key
  OBVIOUS
<1>2. Top \in SearchCalls /\ SearchInv(Top) /\ mask \in Nat /\ GoodTable(words, mask)
  BY Calling DEF IInv, TableInv, GetFound, GetMissing, Comparing
<1>3. k \in Keys /\ a \in 0 .. mask
  BY <1>1, <1>2 DEF SearchCalls, SearchInv
<1>4. UNCHANGED <<words, mask>> /\ Contents' = Contents
  BY ContentsMapped DEF GetFound, GetMissing
<1>5. answer' = Answer("get", k, Contents[k])
  <2>1. CASE GetFound
    <3>1. a \in Used(words, mask) /\ KeySlot(words, a) = k
      BY <1>1, <1>3, <2>1 DEF GetFound, Comparing, Found, Used
    <3>2. Contents[k] = ValueSlot(words, a)
      BY <1>2, <1>3, <3>1, LooksUp, ContentsMapped
    <3> QED BY <1>1, <2>1, <3>2 DEF GetFound, Leave
  <2>2. CASE GetMissing
    <3>1. \A r \in Used(words, mask) : KeySlot(words, r) # k
      BY <1>1, <2>2, KeyAbsent DEF GetMissing
    <3>2. Contents[k] = Undef
      BY <1>2, <1>3, <3>1, LooksUp, ContentsMapped
    <3> QED BY <1>1, <2>2, <3>2 DEF GetMissing
  <2> QED BY <2>1, <2>2
<1> QED BY <1>3, <1>4, <1>5 DEF Abstract!Get, Answer, Abstract!Answer

\* Every step is one of the dictionary's or changes nothing in it.
LEMMA StepsAsDictionary ==
  ASSUME Removable = {}, IInv, [Next]_vars
  PROVE  [Abstract!Next]_<<Contents, answer>>
<1>1. UNCHANGED <<words, mask, answer>> => UNCHANGED <<Contents, answer>>
  BY ContentsMapped
<1>2. CASE Call \/ Differs \/ Raises \/ DefaultEnds \/ EachStarts \/ EachYields \/ EachEnds
  <2>1. Call => UNCHANGED <<words, mask, answer>>
    BY DEF Call, Enter
  <2>2. Differs \/ Raises \/ DefaultEnds => UNCHANGED <<words, mask, answer>>
    BY DEF Differs, Raises, DefaultEnds
  <2>3. EachStarts \/ EachYields \/ EachEnds => UNCHANGED <<words, mask, answer>>
    BY DEF EachStarts, EachYields, EachEnds
  <2> QED BY <1>1, <1>2, <2>1, <2>2, <2>3
<1>3. CASE GetFound \/ GetMissing
  BY <1>3, GetsValue DEF Abstract!Next
<1>4. CASE RemoveMissing \/ RemoveFound
  <2>1. Searching /\ Top.op = "remove"
    BY <1>4 DEF RemoveMissing, RemoveFound, Comparing
  <2>2. Top \in SearchCalls
    BY <2>1, Calling
  <2> QED BY <2>1, <2>2 DEF SearchCalls
<1>5. CASE SetFound
  BY <1>5, SetsAgain DEF Abstract!Next
<1>6. CASE SetMissing
  BY <1>6, SetsNew DEF Abstract!Next
<1>7. CASE UNCHANGED vars
  BY <1>1, <1>7 DEF vars
<1> QED BY <1>2, <1>3, <1>4, <1>5, <1>6, <1>7 DEF Next

\* As long as the program deletes no key, a Hash is a dictionary: every get and set takes
\* effect and answers in one step of the call as it does on a dictionary, whatever == and
\* default blocks do in between and however the table grows.
THEOREM HashIsDictionary ==
  ASSUME Removable = {}
  PROVE  Spec => ImplementsDictionary
<1>1. IInv /\ [Next]_vars => IInv'
  BY IInvStep
<1>2. IInv /\ [Next]_vars => [Abstract!Next]_<<Contents, answer>>
  BY StepsAsDictionary
<1> QED
  BY <1>1, <1>2, IInvInit, StartsAsDictionary, PTL DEF Spec, ImplementsDictionary, Abstract!Spec
=============================================================================
