-------------------------- MODULE CollectorTrigger --------------------------
(***************************************************************************)
(* When a collection runs, and how Ctrl-C reaches the program              *)
(* (collector.cpp).  The interpreter's thread allocates, and at each call  *)
(* (call_frame) checks a plain flag, "pending".  The flag is set by        *)
(* get_region when enough was allocated, and by signal, which runs in the  *)
(* handler of SIGINT or, on Windows, in another thread: it may come        *)
(* between any two steps of the interpreter's, from the moment the handler *)
(* is installed (Platform::initialize), with which the model begins.       *)
(* Interrupts are enabled only later, and calls are made before that.      *)
(*                                                                         *)
(* Sizes are in units of less than a page: a larger block would get a      *)
(* region of its own from get_region, but none is ever asked for, because  *)
(* allocate and allocate_tuple take it from malloc.                        *)
(***************************************************************************)
EXTENDS Integers

CONSTANTS
  Threshold,     \* more than this and collections * PerCollection makes a collection due
  PerCollection,
  RegionSize,   \* the largest region
  MaxMemory,     \* bound on what is allocated without a collection
  MaxSignals,    \* bound on signals
  MaxCollections \* bound on collections

ASSUME SizesAssumption ==
  /\ Threshold \in Nat /\ PerCollection \in Nat
  /\ MaxMemory \in Nat /\ MaxSignals \in Nat /\ MaxCollections \in Nat
  /\ RegionSize \in Nat \ {0}

VARIABLES
  memory,             \* allocated since the last collection
  room,               \* what is left of the current region
  pending,
  pending_exception,
  enable_interrupts,
  collections,
  at,                 \* where the interpreter's thread is
  signaller,          \* where the handler is
  signals, raised,    \* history: how many signals were sent and Interrupts raised
  owed,               \* history: with interrupts enabled, signal returned or pending
                      \* still stood, and since then no Interrupt was raised
  due                 \* history: the threshold was passed, and since nothing was
                      \* collected and no Interrupt raised in place of that

interpreter == <<memory, room, enable_interrupts, collections, raised, due, at>>
triggerVars == <<interpreter, pending, pending_exception, signaller, signals, owed>>

-----------------------------------------------------------------------------
(* signal: two stores with a barrier between them.  Only the second makes   *)
(* check look.                                                              *)

SignalException ==
  /\ signaller = "idle" /\ signals < MaxSignals
  /\ pending_exception' = TRUE
  /\ signaller' = "stored" /\ signals' = signals + 1
  /\ UNCHANGED <<interpreter, pending, owed>>

\* Mutant of SignalPending: no flag is set.
SignalPendingNever ==
  /\ signaller = "stored"
  /\ signaller' = "idle"
  /\ owed' = (owed \/ enable_interrupts)
  /\ UNCHANGED <<interpreter, pending, pending_exception, signals>>

SignalPending ==
  /\ signaller = "stored"
  /\ pending' = TRUE
  /\ signaller' = "idle"
  /\ owed' = (owed \/ enable_interrupts)
  /\ UNCHANGED <<interpreter, pending_exception, signals>>

-----------------------------------------------------------------------------
(* The interpreter's thread.                                               *)

\* initialize ends the bootstrap: from here on define_class calls "inherited", and each
\* call checks.  Before, no calls are made.
EndBootstrap ==
  /\ at = "starting"
  /\ at' = "running"
  /\ UNCHANGED <<memory, room, pending, pending_exception, enable_interrupts, collections, signaller, signals, raised, owed, due>>

\* initialize, when the classes have been defined.
EnableInterrupts ==
  /\ at = "running" /\ ~enable_interrupts
  /\ enable_interrupts' = TRUE
  /\ owed' = pending
  /\ UNCHANGED <<memory, room, pending, pending_exception, collections, at, signaller, signals, raised, due>>

\* allocate_simple, with room for the object.
Allocate(size) ==
  /\ at \in {"starting", "running"}
  /\ size <= room /\ memory + size <= MaxMemory
  /\ memory' = memory + size /\ room' = room - size
  /\ UNCHANGED <<pending, pending_exception, enable_interrupts, collections, at, signaller, signals, raised, due, owed>>

Overdue(size) == size > Threshold + collections * PerCollection

\* Mutant of GetRegion: the flag is not set.
GetRegionUnchecked(size) ==
  /\ at \in {"starting", "running"}
  /\ size > room /\ memory + size <= MaxMemory
  /\ memory' = memory + size
  /\ \E region \in size .. RegionSize : room' = region - size
  /\ due' = (due \/ Overdue(memory'))
  /\ UNCHANGED <<pending, pending_exception, enable_interrupts, collections, at, signaller, signals, raised, owed>>

\* get_region: only when the region is full is what was allocated compared.
GetRegion(size) ==
  /\ at \in {"starting", "running"}
  /\ size > room /\ memory + size <= MaxMemory
  /\ memory' = memory + size
  /\ \E region \in size .. RegionSize : room' = region - size
  /\ pending' = (pending \/ Overdue(memory'))
  /\ due' = (due \/ Overdue(memory'))
  /\ UNCHANGED <<pending_exception, enable_interrupts, collections, at, signaller, signals, raised, owed>>

\* check, which reads the flag and clears it in two steps.
Check ==
  /\ at = "running" /\ pending
  /\ at' = "check"
  /\ UNCHANGED <<memory, room, pending, pending_exception, enable_interrupts, collections, signaller, signals, raised, due, owed>>

ClearPending ==
  /\ at = "check"
  /\ pending' = FALSE /\ at' = "collect"
  /\ UNCHANGED <<memory, room, pending_exception, enable_interrupts, collections, signaller, signals, raised, due, owed>>

\* Mutant of Interrupt: the exception is not taken out.
InterruptKept ==
  /\ at = "collect" /\ enable_interrupts /\ pending_exception
  /\ raised' = raised + 1 /\ at' = "running"
  /\ memory' = 0 /\ due' = FALSE /\ owed' = FALSE
  /\ UNCHANGED <<room, pending, pending_exception, enable_interrupts, collections, signaller, signals>>

\* collect raises the exception instead of collecting; memory has been reset by then.
Interrupt ==
  /\ at = "collect" /\ enable_interrupts /\ pending_exception
  /\ pending_exception' = FALSE
  /\ raised' = raised + 1 /\ at' = "running"
  /\ memory' = 0 /\ due' = FALSE /\ owed' = FALSE
  /\ UNCHANGED <<room, pending, enable_interrupts, collections, signaller, signals>>

\* Before interrupts are enabled a collection passes the exception over, and it stays.
StartMarking ==
  /\ at = "collect" /\ ~(enable_interrupts /\ pending_exception)
  /\ memory' = 0 /\ at' = "mark"
  /\ UNCHANGED <<room, pending, pending_exception, enable_interrupts, collections, signaller, signals, raised, due, owed>>

\* Mutant of Collect: pending is cleared after the collection.
CollectClears ==
  /\ at = "mark"
  /\ room' \in 0 .. RegionSize
  /\ due' = FALSE /\ at' = "running" /\ pending' = FALSE
  /\ collections' = IF collections < MaxCollections THEN collections + 1 ELSE collections
  /\ UNCHANGED <<memory, pending_exception, enable_interrupts, signaller, signals, raised, owed>>

\* mark and compact; the current region is the one compaction stopped in.
Collect ==
  /\ at = "mark"
  /\ room' \in 0 .. RegionSize
  /\ due' = FALSE /\ at' = "running"
  /\ collections' = IF collections < MaxCollections THEN collections + 1 ELSE collections
  /\ UNCHANGED <<memory, pending, pending_exception, enable_interrupts, signaller, signals, raised, owed>>

-----------------------------------------------------------------------------
TriggerInit ==
  /\ memory = 0 /\ room = RegionSize /\ pending = FALSE /\ pending_exception = FALSE
  /\ enable_interrupts = FALSE /\ collections = 0 /\ at = "starting" /\ signaller = "idle"
  /\ signals = 0 /\ raised = 0 /\ owed = FALSE /\ due = FALSE

Collector == Check \/ ClearPending \/ Interrupt \/ StartMarking \/ Collect

TriggerNext ==
  \/ EndBootstrap \/ EnableInterrupts \/ Collector
  \/ \E size \in 1 .. RegionSize : Allocate(size) \/ GetRegion(size)
  \/ SignalException \/ SignalPending

\* The program keeps calling methods (a call checks the flag), a collection runs to its
\* end, and a handler that has started returns.
TriggerSpec ==
  /\ TriggerInit /\ [][TriggerNext]_triggerVars
  /\ WF_triggerVars(Collector) /\ WF_triggerVars(SignalPending)

-----------------------------------------------------------------------------
(* Properties.                                                             *)

\* The types of the variables.
TriggerTypes ==
  /\ memory \in 0 .. MaxMemory /\ room \in 0 .. RegionSize
  /\ {pending, pending_exception, enable_interrupts, owed, due} \subseteq BOOLEAN
  /\ collections \in 0 .. MaxCollections /\ signals \in 0 .. MaxSignals /\ raised \in Nat
  /\ at \in {"starting", "running", "check", "collect", "mark"}
  /\ signaller \in {"idle", "stored"}

\* Once interrupts are enabled no signal is lost, wherever its two stores fall among the
\* interpreter's steps: as long as the exception of a signal that set pending then, or whose
\* pending then still stood, is stored, there is something that will look at it.  One whose
\* pending was taken earlier is not owed: collect passes its exception over.
SignalNotLost ==
  pending_exception /\ owed => pending \/ signaller = "stored" \/ at \in {"check", "collect"}

\* No Interrupt is raised that was not asked for.
OneInterruptPerSignal == raised + (IF pending_exception THEN 1 ELSE 0) <= signals

\* A collection that is due is not forgotten, except for an Interrupt raised in its place.
DueNotForgotten == due => pending \/ at \in {"check", "collect", "mark"}

\* Once interrupts are enabled, Ctrl-C reaches a program that keeps calling methods.
InterruptDelivered == (pending_exception /\ owed) ~> ~pending_exception
=============================================================================
