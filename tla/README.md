# Mirb in TLA+

Mirb is an implementation of Ruby in C++: a lexer and parser, a byte code
generator, a virtual machine, a compacting garbage collector and the core
classes. This directory models the parts of it whose correctness depends on the
order in which things happen, checks them with TLC on small instances, and proves
the most important of their properties with TLAPS for instances of any size.

Paths such as `vm.cpp:515` are relative to `src/` of the repository. PROJECT.json
lists, for every definition that models code, the lines it stands for.

    tlc -config MCMarking.cfg MCMarking      # check one instance
    tlapm CollectorProofs.tla                # check one proof module

## 1. The system

The interpreter is one thread of C++. The only concurrency is the handler of
SIGINT (on Windows a second thread). What makes the code hard is not threads but
re-entrance: nearly everything can call the program (`==` during a hash lookup, a
default block, `inspect`), every call may raise, and every call may run the
collector, which moves objects.

| part | state | operations | modelled in |
|---|---|---|---|
| region collector, marking (`collector-mark.cpp`, `collector-common.hpp`) | marked bit, `mark_list` through the objects | `mark_pointer`, `mark_children`, roots | `Marking` |
| region collector, compaction (`collector-compact.cpp`) | regions, walker, allocator, `thread_list` through the slots | `update_forward`, `update_backward` | `RegionCompaction`, `PointerThreading` |
| region collector, trigger (`collector.cpp`) | `pending`, `pending_exception`, counters, current region | `allocate_simple`, `get_region`, `check`, `collect`, `signal` | `CollectorTrigger` |
| lexer (`lexer/*.cpp`) | position, lexeme, heredocs that wait | one handler per character | `Lexer` |
| parser and syntax tree (`parser/*.cpp`, `tree/`) | scopes, variables, the innermost trapper, flags for what is read next | one function per construct | `Parser`, with `Grammar` as reference |
| byte code generator (`codegen/bytecode.cpp`) | code, labels, registers, `current_exception_block` | `convert_*`, `finalize` | `ExpressionCode`; `HandlerCode` for begin, rescue, ensure |
| virtual machine: instructions (`vm.cpp`, `vm.hpp`) | frames, registers, heaps of shared variables | one per op | `Instructions`, `Machine`, with `Evaluation` as reference |
| virtual machine: exceptions (`vm.cpp`) | `frame.exception`, handler in effect | `handle_exception` | `Unwind` |
| hashes and variable tables (`value-map.hpp`) | table, mask, entries, `accessing` | `get`, `set`, `remove`, `expand`, `each_pair` | `ValueMap` refining `Dictionary` |
| stack roots (`on-stack.hpp`, `context.hpp`) | OnStack blocks, frames | pinning over calls | planned |
| runtime, calls (`runtime.cpp`, `method.cpp`) | frames, constants, method lookup | `call_frame`, `trap_exception` | frames in `Unwind`, calls in `Machine`; lookup through superclasses planned |
| class hierarchy (`classes/class.cpp`, `module.cpp`, `runtime.cpp`) | superclass chains, method tables | include, singleton classes | `ClassHierarchy` (the chains; method tables planned) |
| recursion detector | list of what is being inspected | constructor, destructor | planned |
| strings (`char-array.cpp`) | buffers shared between copies | localize, write | planned |
| kernel (`modules/kernel.cpp`) | loaded features | `run_file`, require | planned |
| numbers, arrays, ranges | values | arithmetic, indices | planned (pure operators) |
| naive marking and sweeping, symbol pool, printers, documents, files, regexps, platform, console | | | not modelled, see section 7 |

How they interact:

* `call_frame` is the safe point. It checks `Collector::pending`, and a collection
  marks, compacts and changes every root: the frames, the OnStack blocks, the
  context, the symbols.
* The parser asks the lexer for one lexeme at a time and tells it, by calls of its own,
  to read on within a literal or to take an operator for the start of one. It leaves a
  tree, the scopes and, per scope, which variables live on the heap. The generator
  turns each scope into byte code and a table of ExceptionBlocks; the machine follows
  both. Whether a jump is a branch or an exception is decided
  by the parser's VoidTrappers, compiled by the generator and finished by the
  machine, so that a property of a jump is one of all three.
* A Hash calls the program while it searches. The flag `accessing` is its only
  protection.
* Marking and compaction share one word of every object: outside of DEBUG builds
  `mark_list` and `thread_list` are the same field (`value.hpp`).

The hazards, each at its line, are in PROJECT.json; those without a property name
the module planned for them.

## 2. Modules

### RegionCompaction

The geometry of compaction. State: the walker (`obj`, `more` for the result of
`step`), the allocator (`free`), `Region::pos` of every region (`top`), the dead
run being built (`prev`), the FreeBlocks (`jump`) and, per object, the place either
pass gave it. Actions: one per branch of `UpdateForward::func` and of
`update_backward` (marked, unmarked, FreeBlock), the start of the second pass and
the release of regions. Sizes are whole words, and headers and contents are left to
`PointerThreading`. The hazard: the second pass rewrites `Region::pos` and moves
objects within the memory it is still walking.

* `AllocatorBehindWalker`, `WalkerOnObject`: the two cursors never cross and the
  walk stays on headers, over rewritten ends of regions and jumps over dead runs.
* `PassesAgree`: both passes give an object the same place, although they take
  different paths over the dead ones. References are written by both.
* `MovesClobberNothing`, `SpaceForEveryObject`, `CompactedIsLayout`, `Terminates`.

### Marking

State as in the code: `mark_list` (`list`), the link in each object, the object
being scanned and its slot. Actions: a root is passed on, the head of the list is
taken, a slot is passed on, an object is done. Graphs are arbitrary: cycles,
self-references, shared objects, several roots to one object.

* `LinksReset`: after marking no link of the list through the objects is left, because
  compaction takes the same word for its own list. That the list is one at every step
  (`ListIsStack`) is part of what is proved.
* `MarkedIsReachable`, `Terminates`. That nothing a scanned object refers to is left
  unmarked on the way (`NothingForgotten`) is proved.

### PointerThreading

How compaction changes references without a table of them: the slots that refer to
an object become a list hanging from its header. Memory is words of four kinds
(immediate, reference to an object, interior pointer into a VariableBlock, address
of a slot), and the actions are the steps of `thread_data`, of both `update`s and of
both passes, over regions, pinned objects (`heap_list`) and symbols in that order.

* `GraphKept`: at every step the memory still denotes the original graph, each slot
  being untouched, resolved, or on exactly one list, that of its target; and at the end
  every slot holds the new place of what it referred to.

### HandlerCode, VerifiedCode and Unwind

`HandlerCode` is the generator as an operator: from a tree of nodes to ops, labels
and ExceptionBlocks, with `current_exception_block` of the generator as state.
Each op also carries what the source means, the begin it is under and, for a
jump, where it should go; the machine never reads these, only the properties do.
`Unwind` runs the result: frames with their handler in effect, the exception being
handled and the C++ exception in flight. Actions: one per op, one per arm of
`evaluate_block`'s catch clauses, and the steps of `handle_exception` (try the next
block, filter, StandardError, loop, ensure, leave the frame).

Between the two stands `VerifiedCode`, which says what the machine relies on in byte
code: `Verified(p)` is a check of the kind a byte code verifier makes (the code has
none), op by op and address by address. An address is reached with one handler in effect
and one set of begins entered, whichever way (`FlowKept`); what `handle_exception` jumps
to stands in the handler of the parent (`HandlersPlaced`); an op that throws stands under
the begins the source has around it, and not where an exception may be pending
(`OpsPlaced`); a closure is there where a scope yields (`CallsPlaced`).
`JumpsVerified(p)` adds that no begin on the way of a jump rescues it, within a scope
(`JumpsStay`) and out of closures through the calls they were passed to (`ExitsPlaced`).
`Unwind` assumes both of every program; TLC evaluates the assumptions on the programs
that `HandlerCode` generates, and the proofs are about all programs that pass, generated
or not.

* `HandlerInEffect`: wherever code may raise, the handler register is the begin the
  source has it under. Loops are not compared: after a `redo` or `next` that was thrown
  the loop's own block is not in effect any more. That does no harm, for it rescues
  nothing, and an op that throws another jump stands under a begin, whose own op
  `handler` comes first and whose parent is the loop.
* `EnsureRuns`: no frame is left with an ensure group still to run.
* `LandsRight`: an error ends in the first clause of the innermost begin that takes
  it, and a jump at its loop, block, call or method. That target is computed from
  the source when the exception is raised, and compared where it stops.
* `NothingForgotten`: a pending exception is rethrown after the ensure group.

### Lexer

The lexer as a machine over the characters of a file, one action per handler; the text
of a literal is taken a character per step, as its loops do. State: position, lexeme,
the heredocs that wait for the next line end, the literals and braces that are open, and
the stack of C++ calls (`calls`). The hazard is that the lexer calls itself: a line end
anywhere, also within a string, reads the heredocs that wait, whose groups the parser
asks lexemes for before the interrupted lexeme is finished. Characters stand for their
classes; the text of strings and the value of numbers are left out. The parser is
external: any of the calls it could make next.

* `LinesCounted`: every lexeme begins on the line it says, whatever was read on the way,
  in a file whose line ends the lexer sees (`LineEndsSeen`, section 4).
* `LiteralsContinue`: after each `}` the literal the group was opened in goes on, as
  what it is, and not another one; what was opened is recounted from the lexemes the
  parser was given (`OpenAfter`).
* `Terminates`: every file is read to its end.

### Parser and Grammar

`Parser` has an operator for each function of the recursive descent, from a state of the
parser to the next: the lexeme it is at, the scopes with their variables and who refers
to them, the innermost loop or handler (`trapper`), the flags that say how the next
lexeme is to be read, the kinds of errors. The last step is `parse_done`, which settles
the jumps. `Grammar` goes the other way: `Words` writes a tree down, with the parentheses
that the precedence of operators asks for and no more, and `Meaning` is the tree the
parser has to find for it. It is written down from the forms of the language and knows
nothing of how the parser gets there.

* `ParsedAsWritten`: a program is accepted, and read as the tree it was written from.
* `NamesResolved`: each name is the variable of the right scope, or a call where there
  is none, which depends on what was assigned before it.
* `SharedVariablesReachable`: a variable used by an inner closure is on the heap, every
  scope in between refers to its owner, and no other variable is there.
* `JumpsReachTheirLoop`: every jump has its own loop, block or method as its target.
* `NothingDropped`: a text that is accepted without a message is in the tree from its
  first word to its last.

### ExpressionCode, Instructions, Machine and Evaluation

`ExpressionCode` is the generator for all nodes but those of exception groups: an
operator per `convert_*`, over registers, labels and instructions, with multiple
assignment, parameters and defaults, closures, `super`, `case`, loops and definitions.
`Machine` runs the finished code: one step per instruction, over frames with registers,
heaps for the variables that closures share, procs, and the exceptions that a `break` or
`return` out of a closure is. What can be seen of it is a trace of events: calls of
methods the program does not define, with their arguments, definitions, and what is
written to globals, instance variables and constants. How those calls turn out is
the `oracle`: a value or nil, and each calls the block it is given. A frame also keeps
the history of the registers written in it (`written`), which no step reads.
`Evaluation` is the reference: it walks the tree the parser found, with an activation
record per call and neither registers nor heaps, and yields the trace the program means.

`Instructions`, which generator and machine share, has the records of the ops and the
contract between the two. `evaluate_block` indexes registers, arguments and heaps
without looking; `Verified(c)` says what it relies on, op by op, as `VerifiedCode` does for
exceptions. What an op reads was written on every way to it (`WrittenOnTheWay`, one pass
over the code, as a verifier makes it), operands are registers of the frame and branches
stay in the code (`OperandsKept`); an argument loaded unasked is one the code requires
(`IndicesKept`); a register that holds a heap holds those of one scope, and heaps are made,
looked up and put into closures as the scopes of the code ask (`HeapRegistersKept`,
`HeapsKept`); a body or method is no closure, and a break writes to no register for heaps
(`ScopesKept`). `Machine` takes any code that is `Verified` (`GiveCode`) and is all the
proofs speak of. `Evaluation` gives it what the generator makes of a parsed program
(`Compile`), and its specification is shown to implement that of `Machine`.

* `RunsAsMeant`: the machine's trace is the reference's. The three modules compose with
  `Parser` and `Grammar`: the programs are written down as lexemes, parsed, compiled
  and run.
* `OperandsGood`: code uses the registers of its frame, and none before it was written.
* `HeapsMatchReferences`: a closure is given the heaps of exactly the scopes its code
  will look up, each in the place where it does.
* `WellBehaved`: parsing, compiling and running a program is a behaviour of `Machine`
  (`MachineSpec`), so that all code the generator makes is `Verified`; and it keeps
  `WellUsed`, which no check of the code alone could say. A frame has the arguments its
  code requires (`ArgumentsSuffice`; blocks are called without a check of their number),
  and the frame a break ends at is waiting for the call that the break names
  (`BreaksLand`). Section 4 describes the programs in which it does not hold.

### Dictionary and ValueMap

`Dictionary` is the promise: get, set and remove take effect in one step.
`ValueMap` is the table: words with keys and values side by side, the mask, the
number of entries, `accessing`, and the stack of calls, since `==` and default
blocks may call the same Hash. `Insert`, the store of an expansion, is stated by the
slot its loop stops at: the first free one of the key's probes. Actions: a call, one
comparison (differs, equal, raises), and each way a search ends, with expansion and its
failure.

* `ImplementsDictionary`: the refinement. `dict` is read off the table, and the
  answers, too, must be the dictionary's. An expansion in which `==` raises gives
  up the store silently (`GiveUp`): this is the code's behaviour
  (`value-map.hpp:154`), stated in the abstract module.
* `Searchable`: the probe invariant (`KeysFindable`), and a free slot is left, so that
  a search of an absent key ends (`RoomLeft`).
* `EachGivesEveryPair`: `each_pair` walks by index while its block changes the table. As
  long as the table is not expanded, the block gets every pair that was there and is not
  deleted, and none twice. The condition is needed: after an expansion the loop goes on
  to the old number of slots of the new table, and passes pairs over or repeats them; a
  delete may move a pair behind the cursor.
* `RefusedOnlyWhileSearching`: calls are refused as recursive only while a search
  is under way, or forever once `==` raised in a get or a remove, in which the flag
  is not cleared. A call refused is not a step.

### CollectorTrigger

`TriggerSpec`: allocation, the threshold, the flag `pending` that `check` reads and clears in two
steps, and the handler's two stores that may fall between any of them. Marking and
compaction are one step. It begins where the handler is installed (`runtime.cpp:1097`).
Until the bootstrap ends (`EndBootstrap`, line 1108) no calls are made; from there on
`define_class` calls `inherited`, so that the initializers check and may collect with
interrupts still off; `EnableInterrupts` (line 1134) may come after any of these calls.
`Interrupt` and `StartMarking` are the two ways of `collect`, which looks at
`pending_exception` only with interrupts enabled.

* `SignalNotLost`, `InterruptDelivered`: about a signal that returned, or whose `pending`
  still stood, with interrupts enabled. The history variable `owed` says that there is
  one and no Interrupt was raised since. Of one that is checked earlier neither is true
  (section 4).
* `OneInterruptPerSignal`: about all signals, those of the start included.
* `DueNotForgotten`: a collection that is due happens, except that an Interrupt
  raised in its place drops it (`collector.cpp:149-157` resets the counter first).

### ClassHierarchy

The pointers `superclass` and `instance_of` of objects, classes, modules, singleton
classes and include classes, from the six classes `setup_classes` makes. Actions: a
class or module statement, `new`, a singleton class on demand, `include`, `extend`,
`dup`; `include_module` is one step per turn of its loop, since it walks a chain that
it may be lengthening (a module that includes itself, two that include each other, a
class that is included, all of which the code allows). As in the code a value is
known by its place, and an include class is recognised by what it stands for. Names,
constants and method tables are left out; of method lookup only that of `allocate` is
modelled, by the singleton class it is found in.

* `NoCycle`: every chain of superclasses ends; lookups follow them unguarded.
* `IncludeMerges`: after the loop obj's chain is what it was, in its old order, with
  include classes put in between: one for every ancestor of the module that had none on
  the chain, and no others. It does not say that obj has no module twice; see section 4.
* `IncludeEnds`: the loop makes at most one include class per module it was given.
* `ClassNeverChanges`: singleton classes, include classes and copies never show in
  what `class` answers. `SingletonMethodsStayInherited`: a class goes on inheriting
  the singleton methods of its superclass. Not so if the superclass was made by
  `Class.new` and had no singleton class yet: one made later is not above that of its
  subclasses (`runtime.cpp:286`), so the property is about superclasses that have one.

## 3. Runs

| run | instance | distinct states | result |
|---|---|---|---|
| `region_compaction` | every heap of at most 4 objects of 1 to 3 words, in three mixes of region capacities, every subset marked | 46,000 | pass |
| `marking` | every graph on 3 objects of 2, 2 and 1 slots, 2 roots | 318,976 | pass |
| `pointer_threading` | every graph on 4 shapes of heap (regions, pinned objects, symbols, blocks) | 96,460 | pass |
| `unwind` | 1912 programs, up to 2 errors | 262,991 | pass |
| `value_map` | 4 keys (3 collide), 2 values that are alike, 4 slots growing to 8, calls 2 deep, each outermost | 596,918 | pass |
| `value_map_remove` | 3 keys with neighbouring homes, all removable | | violation |
| `collector_trigger` | regions of 2 units, threshold 2 + 1 per collection, 3 signals, 2 collections | 8,077 | pass |
| `class_hierarchy` | 4 values more than the first 6, Module itself untouched | 90,534 | pass |
| `lexer` | 16,935 files of up to 4 pieces, one family of up to 5, in eight families | 527,420 | pass |
| `parser` | 61,694 programs: pairs of forms, triples of operators, names in scopes, jumps three deep, words in any order | 123,388 | pass |
| `parser_jumps` | a scope opened between a loop and a jump in it | | violation |
| `machine` | 3,149 programs, for two oracles, 12 events | 171,902 | pass |

Why the bounds are enough. Compaction needs an object left of, right of and across
a gap at the end of a region, a dead run at the beginning, the middle and the end,
and one that crosses regions: four objects give all of these, and the proofs cover
the rest. Three objects give marking cycles through a third object, sharing and
self-reference. Threading needs forward, backward and self references to each kind
of object. Unwinding needs one begin within another on each side of a call, and a
second error while the first is handled; a third frame is the closure's. The table
needs a probe that wraps around the end, an expansion with collisions and a call
made from within a search, from a default block and from the block of each. The trigger
needs a signal that is passed over while the program starts, then a second one while
another is on its way, and a threshold that moves. The
lexer needs a literal, a group in it and a literal in that, and a heredoc that waits at
a line end inside of each, also one with groups of its own that is read while a literal
goes on after a group, and one at the line end that `?\` escapes. The parser's functions
hand each other flags and scopes over one level, so that every form directly within
every other one is the case that matters; a third operator is needed for an operator
between two others, and a third level for a loop around a begin around a jump. `machine`
takes the pairs of forms that hold most (`Few` inside every other), and 20 short
programs (`Stories`) about closures that share variables, parameters of every kind,
jumps, multiple assignment and definitions, with every form in the place of one of their
expressions. Each is run with calls that all result in values and with calls that result
in nil at some places, so that conditions go both ways; programs that go on for ever are
followed for `MaxEvents` events.

`CHECK_DEADLOCK FALSE` stands wherever the system stops: a collection, file or program
ends, a Hash may refuse everything for good, and the trigger's bounds are reached.

Some inputs are left out of the passing runs because the code is known to do something
other than the property says; section 4 lists what it does.

* `MCPrograms` of `MCUnwind`: rescue, else and ensure groups that raise, jump or hold a
  begin; jumps that leave a begin without an ensure or from under a rescue; a return
  straight from a method's begin. Every program of the set passes `Verified` and
  `JumpsVerified`, which the run evaluates.
* `value_map`: only k1 is removed, which `remove_index` handles; the violation run
  removes every key.
* `LineEndsSeen` of `Lexer`, a hypothesis of `LinesCounted` alone: no line end is itself
  the character of a `?`, the delimiter of a `%` literal or the character of a control
  escape, and no CR stands in a `=begin` comment. It asks this of the characters, wherever
  they stand, so that it also leaves out a line end after the `?` or `%` of an operator.
* `Clean` jumps in `Grammar`: `JumpsReachTheirLoop` is about jumps with no scope opened
  before them in their loop; the violation run is about the others.
* `MCMachine`: begin and rescue, which are `Unwind`'s; forms that only compile where
  their value is used stand alone (`Alone`); `super` with arguments is not put into the
  stories. The stories do not contain what section 4 says of redo in loops, stored
  lambdas with break, parameters of blocks that get too few arguments, two targets after
  a splat and `case` without a value.

### Fairness

Marking, compaction and threading are loops of one thread: `WF_vars(Next)` only says
that the loop goes on, and so for the lexer, whose `Terminates` also assumes that the
parser goes on asking for lexemes. `CollectorTrigger` assumes that the program
keeps making calls and a collection runs to its end (`Collector`), and that a handler
that has begun returns (`SignalPending`). No fairness is assumed of allocation, of
signals or of the start: a program that never enables interrupts owes none. `ClassHierarchy` assumes that the
loop of `include_module`, one C++ call, goes on. `Unwind`, `Machine` and `ValueMap` state
none: whether a program ends is the program's affair. `Parser` is one step per program:
that each of its functions returns is part of evaluating it.

## 4. What the code does otherwise

By a run:

* `value_map_remove`. `remove_index` is given the index of a word and steps through
  words below the number of slots, and it moves only keys of equal hash. With two
  neighbouring keys it comes back to where it started, which its own assertion says
  cannot happen (`value-map.hpp:76`).
* `parser_jumps`. `allocate_scope` sets the innermost trapper to the new scope before
  `enter_scope` saves it (`parser/parser.hpp:119`), so that what follows a block within a
  loop is no longer in the loop: a break there is reported to be outside of one. In a
  block there is no report, but the jump goes to the wrong place and ensure groups in
  between are passed over.

The following were found while modelling and have no run here. In the exception groups
(`Unwind` without its assumptions, on the programs `MCUnwind` leaves out, shows each):

* A return out of a closure is an exception of class LocalJumpError, which is a
  StandardError, so a bare `rescue` of the method takes it and the method does not
  return (`vm.cpp:515`; `docs/bytecode.redcloth:159`).
* A begin inside a rescue group reinstalls the handler that already rescued
  (`codegen/bytecode.cpp:1045`; `docs/bytecode.redcloth:147`).
* A return inside a begin with an ensure is compiled to a branch to the epilog, because
  returns do not reach a begin's VoidTrapper; an error in a rescue group also passes
  over the ensure group (`codegen/bytecode.cpp:829`, `vm.cpp:486`).
* An error in an ensure group leaves the whole frame (`vm.cpp:585`); a branch out of a
  begin with only rescue groups keeps that begin's handler (`codegen/bytecode.cpp:853`);
  a loop with a handler takes any break, next or redo that reaches it (`vm.cpp:539`).
* break and return name a Block and not an activation (`vm.cpp:588`).

In the collector:

* A Ctrl-C while the classes are being defined is not raised. The handler is installed at
  `runtime.cpp:1097` and interrupts are enabled at line 1134, but from line 1108 on each
  `define_class` calls `inherited` (lines 170-175) and that call checks (line 779): `check`
  takes `pending`, and `collect` passes the exception over (`collector.cpp:151`). It stays
  stored until a collection becomes due for another reason or there is another signal.
  Without `owed` in `SignalNotLost`, TLC shows it in six steps. Nothing in the repository
  says that it should be otherwise, so there is no finding for it.

In the lexer:

* Heredocs that wait on one line are read last in, first out (`lexer/handlers.cpp:537`);
  an empty heredoc is not recognised; if one waits while a literal of several lines is
  read and an empty line follows, the lexeme restored keeps the type LINE
  (`lexer/handlers.cpp:549`).
* A `=begin` comment with a CR or a NUL in it is never left (`lexer/handlers.cpp:485`);
  `%q` at the end of the file reads past it.
* A line end that is itself the character of a `?`, the delimiter of a `%` literal or the
  character of a control escape is taken and not counted (`lexer/handlers.cpp:75,338`,
  `lexer/strings.cpp:127`): the lines of all that follows are one too low.

In the classes:

* A copy of a module shares the include classes of the original, so that what is later
  included into the original above one of these appears in the copy too, which may have it
  twice then. With modules M and K, P that includes M and K, A that includes K and
  `B = A.dup`, the calls `B.include M` and `A.include P` leave B with M twice, once on
  the part of the chain it shares (`classes/object.hpp:71`, `runtime.cpp:240`). This takes
  more values than the run has.

In the parser:

* `alias` and `undef` with plain names leave keywords off for the next lexeme
  (`parser/parser.cpp:1985`, `:2012`); the name after the dot of `def self.class` is read
  as a keyword.
* `yield` takes a `do` block even inside a command, and uses the block parameter of its
  own scope; a `*r` or `&s` after a default value that yields is refused.
* `def a.d` with an undefined `a` defines a variable; the variables of `for` belong to
  the closure of the loop; `!a ** b` is `!(a ** b)`; `a = b rescue c` binds to the value;
  the right side of a modifier is a whole statement; `x ? f a : b` takes `a :` for the
  key of a hash. `Grammar` follows the code in these.
* Dropped without a message: the operand of `defined?`, the body-less `-> ()`, and a
  block of the first name on the left of a multiple assignment. After some errors nodes
  are missing where the code goes on to use them.

In the generator and the instructions:

* A block that gets too few arguments finds in its parameter what the register held;
  the receiver is evaluated after the arguments, and of an attribute assignment the value
  first; the result of the setter stands for the value assigned. `Evaluation` follows
  the code in the order of evaluation.
* `super(args)` always passes a closure of the method itself, because `convert_super`
  gives the generator's own scope, and takes the heap index of a captured parameter for a
  register; `scope->require_args(*i)` in `generate` has the two scopes the wrong way
  around.
* Targets after a splat are assigned in reverse order of the elements.
* Constants with a scope, interpolation and ranges are not compiled, or not with their
  operands, where their value is not used.
* `case` without a value and several patterns in a `when` tests an array and is true.
* `convert_loop` places the label of the scope's body again after each loop, which a
  redo in a block then goes to (`codegen/bytecode.cpp:783`); a redo in a loop tests the
  condition again in a register the body may have written; the value of a `break` out of
  a loop and of a `next` within one is dropped.

## 5. What is proved

Each of these holds for every value of the constants that satisfies the module's
assumption.

`RegionCompactionProofs`, under `LayoutsAssumption` (heaps as the allocator builds
them: regions without gaps, no object larger than any region, not empty). The
invariant is `TypeOK`, `WalkInv` (allocator behind walker, walker on an object, ends
of regions from the walker on unchanged) and `JumpInv` (a FreeBlock goes to an object
further on, past dead ones only). None of them is inductive alone: the walker stays
on objects because the allocator has not rewritten the ends it reads, the allocator
stays behind because no object it places is larger than what was walked over. From it:
`TypeCorrect`, `AllocatorStaysBehind`, `WalkerStaysOnObjects`, `NeverOutOfSpace`.
`PassesGiveSamePlace` adds `HistoryInv`: where the allocator stood when the first pass
met an object, and that this is where it stands when the second one does, whatever was
jumped over. `MovesAreSafe` adds `MoveInv`: what was moved lies before the allocator.
`LayoutIsLeft` adds `CoverInv` (nothing live lies between an object and the one its
FreeBlock leads to, so every live object before the walker has been met) and `FillInv`
(the places given out fill each region from its start to the allocator): together they
make what is left a layout, which is the assumption the next collection starts from.

`PointerThreadingProofs`, under `HeapsAssumption`: `TypeCorrect` and `GraphIsKept`. The
invariant is `PlacesInv`, `HeadersInv`, `SlotsInv`, `ListsInv` and `LinksInv`, with
`ControlInv` for where the pass stands. It says of every slot how its reference is to be
found at this moment: in the slot, at the old or the new place, or by membership in the
list threaded from its object's header. The lists are spelled out as sequences
(`chain`), so that adding a slot, resolving a list and moving an object that has slots on
other objects' lists become changes of sequences; `ListsInv` says what may be on a list
and that nothing is twice, `LinksInv` that the words in memory are those lists. The pass
starts from every thread_list at its end, which is `LinksAreReset` of `CollectorProofs`.

`CollectorProofs`, about `Marking` under `MarkingAssumption`. The invariant is `TypeOK`,
`ListIsStack`, `LinksReset`, `NothingForgotten`, `Sound` (marked objects are in every
closed set) and `CurrentMarked`. At the end `NothingForgotten` makes the marked set closed and `Sound`
makes it the smallest: `MarksTheReachable`. Also `TypeCorrect`, `ListStaysAList`,
`LinksAreReset`, `NothingIsForgotten`.

The same module, about `CollectorTrigger` under `SizesAssumption`. The invariant
(`TriggerInv`) adds `OwedWhenEnabled`: a signal is owed only once interrupts are enabled. Without
it a collection that passes the exception over could be one that leaves an owed signal
behind; with it such a collection finds either no exception or none that is owed. `TriggerTypesKept`,
`NoSignalLost`, `InterruptsAreSignals`, `DueIsKept`.

`ValueMapProofs`, under `TableAssumption`. `RefusedRight` needs no other
hypothesis; its invariant (`FlagInv`) says what `accessing` means for the stack of calls.
`TypeCorrect`, `SearchesEnd`, `EachGivesAll` and the refinement `HashIsDictionary` have the
hypothesis `Removable = {}`, a program that deletes no key, because `remove_index` is
wrong (section 4) and they are false with it. The invariant is `TableInv` (the parts of
`Searchable`: every key once, and no free slot from its home to it, by `Gap`, the number
of slots a probe passes, round the end of the table) and `CallsInv` (the slots a search has
passed hold other keys; what `each` has given is what lies behind it). An expansion is the
hard step: each of its stores is shown to keep the table good while it is filled, and the
whole of it the dictionary.

`UnwindProofs`, under the assumption that the programs are `Verified`: the ops are of
the form the generator leaves (each block of code has its handler, entered by the op
that says so; branches stay in a block; ensure groups end in their own op). TLC evaluates
that assumption on every program `HandlerCode` generates for the run, so the generator is
checked on small programs and the machine proved for all code that passes. The
invariant keeps for each frame what the code at its address was compiled for
(`FramesInv`), for each caller that its op is a call (`CallersInv`), for an exception under
way where it may be (`FlyingInv`), and for closures the scope they were made in
(`ClosuresInv`). From it: `TypeCorrect`, `HandlersInEffect`, `EnsuresRun`,
`NothingIsForgotten`.

`ExceptionsLand`, the second half of the module. Where an exception must land (`goal`) is
computed once, from the whole stack, when it is thrown; the machine finds its way frame by
frame, and handlers in between run code. The invariant restates the goal at every step from
what is left of the stack: while it flies, while a clause is asked, and while an ensure
group runs with the exception pending (`GoalInv`). `StackInv` says which op made each
frame, so that a break finds the call it ends. `JumpsVerified` is assumed of the programs
beyond `Verified`: nothing between a jump and its target takes it. It leaves out the
programs of section 4 in which a rescue or a loop does, and those are known to land
elsewhere.

`ClassHierarchyProofs`, for any bound on the heap and whatever is left untouched:
`TypeCorrect`, `ChainsEnd`, `IncludesMerge`, `ClassesStay`, `SingletonsStay`. The
invariant of the first two is both together, with what the locals of
`include_module` point to (`IncludeOK`, in `TypeOK`). `NoCycle` says that no set of
modules has all its superclasses inside it, which is inductive as it stands and needs
no rank: cutting a class in above c leaves some superclass outside any set, be it c's,
the new class's or the one that was outside before. Each operation is at most two of
three changes of the heap, and a lemma shows of each that it keeps both.

The other three speak of whole chains. In this form `NoCycle` is an induction rule
(`UpInduction`: what a value has whenever its superclass has it, all values have), which
gives the recursion of `Chain` its solution (`ChainStep`), and what is first on a chain.
`Extends` says what any operation may do to what is there: cut a new include class in
above a value, or put a new singleton class between a value and its class. `ClassesStay`
and `SingletonsStay` follow from it, step by step: `real_class` passes over both.
`IncludesMerge` needs an invariant of the loop (`IncludeInv`): each ancestor of the module
has its include class already or is still to come, in spite of the chain of ancestors
itself growing under the walk, by the class just cut in; c is on obj's chain, and what was
added stands for ancestors only, each once. The attempt to prove an earlier form,
which also said that obj has no module twice, found the copies of section 4.

`LexerProofs`, under `TextsAssumption` (a file is a sequence of characters, none of which
is "end"): `TypeCorrect`, `LinesAreCounted` and `LiteralsGoOn`, for every file. The
invariant of the first two (`Good`)
says that the lines counted are those that end before the position, in every mode and not
only where `LinesCounted` looks, and what is needed for that to last: a lexeme that the
parser may have read again stands on this line and begins with its operator (`ReadAgain`),
so that going back to it gives back no line end; what delimits a literal is no line end,
also of those that are kept on `curlies`, in calls and in the lexemes heredocs interrupt
(`Literals`, `Lexemes`, `Frames`); a lexeme that a heredoc interrupts is none of those read
again, since its position is not restored with it; a comment under way has begun and not
ended (`InComment`). Below it are lemmas of each scanning function (`Passes`: it goes over no
line end), of which that of `EscapeTarget`, a recursive function over places, is shown
from the least set of places that an escape goes through.

`LiteralsGoOn`, the second half of the module, is about two lists that are kept apart: the
lexer's `curlies`, and what is open after the lexemes that were delivered (`OpenAfter`).
They are not the same list. A heredoc in the middle of a literal pushes groups of its own
on `curlies`, while the literal it interrupts is on no list at all, only in the locals of a
call; and a brace the parser asks to be read again is not yet open. `LitInv` gives every
call a mark: the heredoc (or the file) it reads for, what was open when it was made, and
the literal it interrupts. `Stack` says of each of these levels that what is open is what
was open below, then the groups and braces on `curlies` since, then the literal under way,
if it goes on after a group; `Keeps` that a lexeme is still of the type its literal began
with, or LINE once a heredoc was read within the literal. The marks are changed
only when a call is made or ends, so that a heredoc's end gives back the level it was read
at, of any depth. Two facts carry it: starts of lexemes grow (`UpTo`), so that two things
that are open differ by where they start; and a piece of a heredoc is told from one of its
surroundings by where the heredoc began (`since`).

That attempt found a mistake of the model. Its `ReturnToCharacter` kept the type that
a heredoc at the escaped line end had left, where `handlers.cpp:378` makes the lexeme a
string again. Without that the invariant is not kept by the step, and a file of `?\` and
a waiting heredoc shows it; the definition was corrected and the pieces added to the run.

`MachineProofs`, for every code that is `Verified`, of any number of scopes and ops, and
for every oracle: `HeapsSafe` and `OperandsSafe`. The two share one invariant,
`Inv(all)`, which says that for some set of values the machine `Fits` its code. It has to
speak of values, because a heap, a proc or the number of a method's code may be passed
through registers, arguments, arrays in arrays and the trace before it is used, and it
is the use that is to be safe: `ClosedValues` is a set of values closed under taking
elements, in which a proc is one that was made. No recursion over the depth of values is
needed then; a step that makes a value adds it to the set (`NewValue`, `GrowSound`). Of
frames `FrameFits` says that the heaps they were called with are those their code looks
up, in that order (`ScopesMatch`), and that a register written holds the heap the code
takes it for (`HeapsHeld`). What is written when a frame goes on is `Waits`: everything
`WrittenOnTheWay` has for the next op, short of the register the call will write. It must
hold of every frame and not only of the top one, because a return, or a break out of a
closure any number of frames up, ends at a frame that has waited since (`Linked`,
`UnwoundTo`). The step from one op to the next (`Arrives`) is where the contract is used:
what is written before the next op was written before this one or by it.

`HeapsSafe` needs no hypothesis beyond the contract. `OperandsSafe` is about behaviours
that are `WellBehaved`, which adds `[]WellUsed`. Without it the statement is false: a block
that is given fewer arguments than it asks for leaves their registers unwritten, and a
break may be taken by a frame that waits for another call, whose register then stays
unwritten. `all` is what tells the two theorems apart: with `FALSE`, only registers for
heaps must be written in time, and neither an argument nor a break is to write one of
those (`HeapRegistersKept`, `ScopesKept`). Every program of the run keeps `WellUsed`.

## 6. What is only checked

Liveness (`Terminates` of three modules, `InterruptDelivered`, `IncludeEnds`): TLAPS does
not prove temporal properties from fairness.

`Parser`, `Grammar`, `ExpressionCode`, `Evaluation` and `HandlerCode` are recursions over trees, written with RECURSIVE operators or made from those that are; the
prover does not handle them, and what a recursion computes for every tree would need
induction over trees. For `HandlerCode` this gap is bridged by `VerifiedCode`: what its
recursion yields is checked program by program, by TLC, against the assumptions that the
proofs about `Unwind` make. For `ExpressionCode` it is bridged by `Instructions`: the
run `machine` checks `WellBehaved`, in which the code is `Verified`. `RunsAsMeant` compares
two such recursions and stays with TLC.

`WellUsed` is a hypothesis of `OperandsSafe` and is only model-checked. It is a property
of what programs do at run time, and not one of their code: whether a block is given
enough arguments is up to the method that calls it.

`ValueMap` with deletions is only model-checked, by the run `value_map_remove`, which finds
`FreeSlotNotGone` violated (section 4).

## 7. What is not modelled

* Data and formatting: values, strings, numbers, messages, printers. A number or a name
  is itself in `Parser` and `Machine`, and a call that the program does not define is an
  event with a result of its own.
* Begin groups in `Machine`, and values in `Unwind`: the two halves of the machine meet
  in `call_frame`, and jumps out of closures are in both.
* Method lookup in `Machine` beyond methods defined on Object; recursion in closures that
  outlive their method.
* Positions: ranges of nodes, columns, the place of a message. Lines are `Lexer`'s.
* Naive marking and sweeping: a build for Valgrind, one malloc per object and a
  recursive mark; none of the hazards of the region collector.
* Files, directories, regexps, time, platform, console: calls of the system and of
  libraries, with no protocol of their own. The Prelude and tommath libraries are
  vendored.
* Finalizers and the freeing of empty regions: effects outside the heap.
* The reserve of stack for SystemStackError, and memory running out.
* An iteration of a hash under way while another call uses it is bounded to an outermost
  `each`; `dup` and `has` of the table.

## 8. Plan

Order of work; 1 to 11 are in place.

1. `RegionCompaction`: the collector moves memory it is still walking; a mistake
   corrupts everything else. Proved.
2. `Marking`: what compaction starts from. Proved.
3. `PointerThreading`: references over the two passes. Proved.
4. `HandlerCode`, `Unwind`: exceptions and jumps, generator and machine together. The
   machine is proved, for code that passes `VerifiedCode`.
5. `Dictionary`, `ValueMap`: a table that calls the program, with iteration. Proved for
   programs that delete no key.
6. `CollectorTrigger`: when a collection runs, and Ctrl-C. Safety proved.
7. `ClassHierarchy`: include on chains of modules, singleton classes, copies. Safety
   proved.
8. `Lexer`: literals in groups in literals, heredocs. Safety proved: type, `LinesCounted`,
   `LiteralsContinue`.
9. `Parser`, `Grammar`: trees, scopes, jumps against what was written.
10. `ExpressionCode`, `Machine`, `Evaluation`: the generator of code for expressions and
    the ops it emits, compared with an evaluator of the syntax tree.
11. `Instructions` as the contract between generator and machine, as `VerifiedCode` is for
    `Unwind`, and what `Machine` does with code that keeps it. Proved: registers and heaps.
12. `ObjectHeap`: an abstract collection (the reachable graph is kept, addresses
    change) that `PointerThreading` after `Marking` implements, and above it the safe
    points: what C++ code holds over a call must be in an OnStack block.
13. Method tables on `ClassHierarchy`: define, alias, undef, `module_function`, lookup
    and super, which starts at the superclass of the scope a method was defined in and
    not of where it was found.
14. `CharArrayCow`: buffers shared by copies implement independent strings.
15. `RecursionDetector` with the stack limit, and `run_file` with errors.
16. Pure operators: Fixnum overflow, index and range mapping, against a reference.
