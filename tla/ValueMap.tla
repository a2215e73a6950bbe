------------------------------ MODULE ValueMap ------------------------------
(***************************************************************************)
(* The table behind Hash (value-map.hpp, ValueMapManipulator with light =  *)
(* false): open addressing with linear probing over one array of words, a  *)
(* key and its value side by side.  Keys are compared by calling ==, which *)
(* is the program's: it may raise, and may use the Hash again.  The flag   *)
(* "accessing" refuses that ("Recursive function calls"); the block that   *)
(* makes a default value is let in.                                        *)
(*                                                                         *)
(* A call refused changes nothing and is not a step.  == is taken to hold  *)
(* of a key and itself only.                                               *)
(***************************************************************************)
EXTENDS Integers, Sequences, FiniteSetsExt

CONSTANTS
  Keys, Values,
  Undef,          \* value_undef
  HashValue,      \* hash_value of keys and values
  InitialSlots,   \* ValueMapData(initial)
  Removable,      \* the keys the program deletes
  MaxDepth        \* bound on calls within calls

ASSUME TableAssumption ==
  /\ InitialSlots \in Nat \ {0}
  /\ HashValue \in [Keys \cup Values -> Nat]
  /\ Undef \notin Keys \cup Values
  /\ Keys \cap Values = {} /\ Removable \subseteq Keys

VARIABLES
  words,      \* table: the words of the tuple, from 0
  mask,       \* slots - 1
  entries,
  accessing,
  calls,      \* the calls that have not returned, the innermost last
  stuck,      \* history: an error has left a one-argument "enter"
  answer      \* the last operation that finished, and what it answered

vars == <<words, mask, entries, accessing, calls, stuck, answer>>

Answer(op, key, value) == [op |-> op, key |-> key, value |-> value]

-----------------------------------------------------------------------------
(* The table.                                                              *)

KeySlot(table, s)   == table[2 * s]
ValueSlot(table, s) == table[2 * s + 1]
Empty(slots)        == [w \in 0 .. 2 * slots - 1 |-> Undef]

\* The slot a search starts at, and the one it goes on to.
Home(key, m)  == HashValue[key] % (m + 1)
After(slot, m) == (slot + 1) % (m + 1)

\* Words with a pair stored in a slot.
Stored(table, slot, key, value) == [table EXCEPT ![2 * slot] = key, ![2 * slot + 1] = value]

\* store<false> into a new table: the first free slot from the key's home.
Insert(table, m, key, value) ==
  LET probe(i) == (Home(key, m) + i) % (m + 1)
      first    == Min({i \in 0 .. m : KeySlot(table, probe(i)) = Undef})
  IN Stored(table, probe(first), key, value)

\* Every pair of a full table, inserted in the order of its slots into one twice as large.
Rehashed(table, m) ==
  LET new == 2 * m + 1
      grown[n \in 0 .. m + 1] ==
        IF n = 0 THEN Empty(new + 1)
        ELSE Insert(grown[n - 1], new, KeySlot(table, n - 1), ValueSlot(table, n - 1))
  IN grown[m + 1]

\* Mutant of Expanded: the pairs are copied to the same slots.
ExpandedInPlace(table, m) ==
  [w \in 0 .. 4 * (m + 1) - 1 |-> IF w \in DOMAIN table THEN table[w] ELSE Undef]

Expanded(table, m) == Rehashed(table, m)

\* Some insertion meets another key, so == is called while the table grows.
Collides(table, m) ==
  \E s \in 0 .. m : KeySlot(Rehashed(table, m), Home(KeySlot(table, s), 2 * m + 1)) # KeySlot(table, s)

\* remove_index.  index is that of a word, and "current" goes on from it through the
\* words below the number of slots, values included.  "lost" is the failure of the
\* assertion on the way: without it the loop need not end.
RemoveIndex(index, hash) ==
  LET pass[n \in 0 .. 2 * (mask + 1)] ==
        IF n = 0 THEN [table |-> words, free |-> index, current |-> index, state |-> "looking"]
        ELSE LET p == pass[n - 1]
                 current == After(p.current, mask)
             IN IF p.state # "looking" THEN p
                ELSE IF current = index THEN [p EXCEPT !.state = "lost"]
                ELSE IF p.table[current] = Undef
                THEN [p EXCEPT !.table[p.free] = Undef, !.table[p.free + 1] = Undef, !.state = "done"]
                ELSE IF HashValue[p.table[current]] = hash
                THEN [p EXCEPT !.table[p.free] = p.table[current],
                               !.table[p.free + 1] = p.table[current + 1],
                               !.free = current, !.current = current]
                ELSE [p EXCEPT !.current = current]
      last == pass[2 * (mask + 1)]
  IN [table |-> last.table, done |-> last.state = "done"]

-----------------------------------------------------------------------------
(* Calls.                                                                  *)

Top == calls[Len(calls)]
Searching == calls # <<>> /\ Top.phase = "search"
Found == KeySlot(words, Top.at)

\* == is being called.
Comparing == Searching /\ Found # Undef

SetTop(call) == calls' = [calls EXCEPT ![Len(calls)] = call]
Pop == calls' = SubSeq(calls, 1, Len(calls) - 1)

\* The program's own code runs: no call is under way, or ==, a default block or the block of
\* each is.
ProgramRuns == calls # <<>> => Top.phase \in {"default", "each"} \/ Comparing

\* enter, and search up to its first slot.
Enter(op, k, v) ==
  /\ ProgramRuns /\ Len(calls) < MaxDepth
  /\ ~accessing
  /\ accessing' = TRUE
  /\ calls' = Append(calls, [op |-> op, key |-> k, value |-> v, at |-> Home(k, mask), phase |-> "search"])
  /\ UNCHANGED <<words, mask, entries, stuck, answer>>

Call ==
  \E k \in Keys :
    \/ Enter("get", k, Undef)
    \/ k \in Removable /\ Enter("remove", k, Undef)
    \/ \E v \in Values : Enter("set", k, v)

\* The call returns out of enter with an answer.
Leave(op, value) ==
  /\ Pop
  /\ accessing' = FALSE
  /\ answer' = Answer(op, Top.key, value)
  /\ UNCHANGED stuck

Differs ==
  /\ Comparing /\ Found # Top.key
  /\ SetTop([Top EXCEPT !.at = After(@, mask)])
  /\ UNCHANGED <<words, mask, entries, accessing, stuck, answer>>

\* Mutant of Raises: enter with two arguments does not clear the flag either.
RaisesUnguarded ==
  /\ Comparing
  /\ Pop
  /\ stuck' = (stuck \/ Top.op # "set")
  /\ UNCHANGED <<words, mask, entries, accessing, answer>>

\* == raises.  Only enter with two arguments (set) has a Finally that clears accessing.
Raises ==
  /\ Comparing
  /\ Pop
  /\ IF Top.op = "set" THEN accessing' = FALSE /\ UNCHANGED stuck
     ELSE stuck' = TRUE /\ UNCHANGED accessing
  /\ UNCHANGED <<words, mask, entries, answer>>

-----------------------------------------------------------------------------
(* What a search ends in.                                                  *)

GetFound ==
  /\ Comparing /\ Found = Top.key /\ Top.op = "get"
  /\ Leave("get", ValueSlot(words, Top.at))
  /\ UNCHANGED <<words, mask, entries>>

\* No such key: accessing is cleared for the code that makes the default value.
GetMissing ==
  /\ Searching /\ Found = Undef /\ Top.op = "get"
  /\ accessing' = FALSE
  /\ SetTop([Top EXCEPT !.phase = "default"])
  /\ answer' = Answer("get", Top.key, Undef)
  /\ UNCHANGED <<words, mask, entries, stuck>>

\* The default value is there and enter clears accessing again, or making it raised.
DefaultEnds ==
  /\ calls # <<>> /\ Top.phase = "default"
  /\ Pop
  /\ \/ accessing' = FALSE /\ stuck' = FALSE
     \/ UNCHANGED <<accessing, stuck>>
  /\ UNCHANGED <<words, mask, entries, answer>>

RemoveMissing ==
  /\ Searching /\ Found = Undef /\ Top.op = "remove"
  /\ Leave("remove", Undef)
  /\ UNCHANGED <<words, mask, entries>>

RemoveFound ==
  /\ Comparing /\ Found = Top.key /\ Top.op = "remove"
  /\ LET removal == RemoveIndex(2 * Top.at, HashValue[Top.key])
     IN /\ words' = removal.table
        /\ entries' = entries - 1
        /\ IF removal.done THEN Leave("remove", ValueSlot(words, Top.at))
           ELSE SetTop([Top EXCEPT !.phase = "lost"]) /\ UNCHANGED <<accessing, stuck, answer>>
  /\ UNCHANGED mask

SetFound ==
  /\ Comparing /\ Found = Top.key /\ Top.op = "set"
  /\ words' = Stored(words, Top.at, Top.key, Top.value)
  /\ Leave("set", Top.value)
  /\ UNCHANGED <<mask, entries>>

\* Mutant of Full: off by one.
FullLate(count) == count > mask + 1

\* The table is to be expanded.
Full(count) == count > mask

\* Mutant of Restored: the slot keeps the pair.
RestoredNot(table, slot) == table

\* The slot is free again.
Restored(table, slot) == Stored(table, slot, Undef, Undef)

\* A new key fills a slot.  If that was the last one the table is expanded; if == raises
\* meanwhile the slot is restored and the error is dropped ("Restore slot if we failed to
\* expand").
SetMissing ==
  /\ Searching /\ Found = Undef /\ Top.op = "set"
  /\ LET table == Stored(words, Top.at, Top.key, Top.value)
     IN IF ~Full(entries + 1)
        THEN /\ words' = table /\ entries' = entries + 1
             /\ Leave("set", Top.value)
             /\ UNCHANGED mask
        ELSE \/ /\ words' = Expanded(table, mask) /\ mask' = 2 * mask + 1 /\ entries' = entries + 1
                /\ Leave("set", Top.value)
             \/ /\ Collides(table, mask)
                /\ words' = Restored(table, Top.at)
                /\ Leave("lost", Top.value)
                /\ UNCHANGED <<mask, entries>>

-----------------------------------------------------------------------------
(* each_pair: the slots there were when it began, of the table there is now. *)
(* It does not look at accessing.  Bound: each is an outermost call.         *)

Slots == 0 .. mask
Taken == {s \in Slots : KeySlot(words, s) # Undef}

\* Mutant of Ahead: the slot after the one given last is passed over.
AheadOfNext(call) == {s \in Taken : call.at < s /\ s < call.size}

\* The pairs the loop has still to come to.
Ahead(call) == {s \in Taken : call.at <= s /\ s < call.size}

\* The next pair is given to the block.
Given(call) ==
  LET s == Min(Ahead(call))
  IN [call EXCEPT !.at = s + 1, !.again = @ \/ KeySlot(words, s) \in call.given,
                  !.given = @ \cup {KeySlot(words, s)}]

\* "given", "again" (a pair was given twice) and "there" (what was in the table at the start)
\* are history.
EachStarts ==
  /\ calls = <<>>
  /\ LET call == [op |-> "each", key |-> Undef, value |-> Undef, at |-> 0, phase |-> "each",
                  size |-> mask + 1, given |-> {}, again |-> FALSE,
                  there |-> {KeySlot(words, s) : s \in Taken}]
     IN Ahead(call) # {} /\ calls' = <<Given(call)>>
  /\ UNCHANGED <<words, mask, entries, accessing, stuck, answer>>

Iterating == calls # <<>> /\ Top.phase = "each"

EachYields ==
  /\ Iterating /\ Ahead(Top) # {} /\ SetTop(Given(Top))
  /\ UNCHANGED <<words, mask, entries, accessing, stuck, answer>>

\* No pair is left, or the block leaves the loop.
EachEnds == Iterating /\ Pop /\ UNCHANGED <<words, mask, entries, accessing, stuck, answer>>

-----------------------------------------------------------------------------
Init ==
  /\ words = Empty(InitialSlots) /\ mask = InitialSlots - 1 /\ entries = 0
  /\ accessing = FALSE /\ calls = <<>> /\ stuck = FALSE
  /\ answer = Answer("none", Undef, Undef)

Next ==
  \/ Call \/ Differs \/ Raises
  \/ GetFound \/ GetMissing \/ DefaultEnds
  \/ RemoveMissing \/ RemoveFound
  \/ SetFound \/ SetMissing
  \/ EachStarts \/ EachYields \/ EachEnds

Spec == Init /\ [][Next]_vars

-----------------------------------------------------------------------------
(* Properties.                                                             *)

\* The types of the variables.
TypeOK ==
  /\ mask \in Nat /\ entries \in Nat
  /\ words \in [0 .. 2 * mask + 1 -> Keys \cup Values \cup {Undef}]
  /\ {accessing, stuck} \subseteq BOOLEAN
  /\ \A i \in DOMAIN calls :
       /\ calls[i].op \in {"get", "set", "remove", "each"} /\ calls[i].key \in Keys \cup {Undef}
       /\ calls[i].value \in Values \cup {Undef}
       /\ calls[i].at \in 0 .. mask + 1 /\ calls[i].phase \in {"search", "default", "lost", "each"}

\* "entries" counts the keys in the table and a free slot is left, so that every search
\* of an absent key ends (the assertion mask >= entries of search).
RoomLeft == entries = Cardinality(Taken) /\ entries <= mask

\* A search finds each key in the table: it is there once, and no slot between its home
\* and it is free, whatever keys were stored by calls made from within calls.
KeysFindable ==
  \A s \in Taken :
    LET key == KeySlot(words, s)
        passed == {(Home(key, mask) + i) % (mask + 1) : i \in 0 .. ((s - Home(key, mask)) % (mask + 1))}
    IN /\ passed \subseteq Taken
       /\ \A t \in Taken : KeySlot(words, t) = key => t = s

\* A search ends, and at the key if it is there.
Searchable == RoomLeft /\ KeysFindable

\* As long as the table is not expanded meanwhile, each gives its block every pair that was
\* there when it began, but for those the program may delete, and none twice, whatever the
\* block stores.
EachGivesEveryPair ==
  \A i \in DOMAIN calls :
    LET call == calls[i]
    IN call.phase = "each" /\ call.size = mask + 1 =>
         /\ ~call.again
         /\ Ahead(call) = {} => call.there \ Removable \subseteq call.given

\* Calls are refused as recursive exactly while a search is under way, or for good once ==
\* has raised in a get or a remove.
RefusedOnlyWhileSearching ==
  accessing <=> stuck \/ \E i \in DOMAIN calls : calls[i].phase \notin {"default", "each"}

\* The words remove_index goes through never lead it back to where it started.  The code
\* asserts so: "Detect loops in case the free slot is gone".
FreeSlotNotGone == \A i \in DOMAIN calls : calls[i].phase # "lost"

\* The table implements a dictionary.
Contents ==
  [k \in Keys |->
    LET at == {s \in Taken : KeySlot(words, s) = k}
    IN IF at = {} THEN Undef ELSE ValueSlot(words, Min(at))]

Abstract == INSTANCE Dictionary WITH dict <- Contents, Missing <- Undef

\* Every operation takes effect and answers as one on a dictionary does, in one step of
\* the call, whatever == and default blocks do in between.
ImplementsDictionary == Abstract!Spec
=============================================================================
