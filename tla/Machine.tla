------------------------------ MODULE Machine -------------------------------
(***************************************************************************)
(* The virtual machine on the code of a program (vm.cpp, runtime.cpp):     *)
(* frames with registers, heaps for the variables closures share, procs.   *)
(* What it does is the trace of what can be seen from outside: calls of    *)
(* methods the program does not define, definitions, what is written to    *)
(* instance variables, globals and constants.  Each such call results in   *)
(* a value of its own, or nil, as the oracle has it, and calls the block   *)
(* it is given.  Exceptions and their handlers are Unwind's; here they end *)
(* the program, except for those that break and return out of a closure.   *)
(***************************************************************************)
EXTENDS Instructions

CONSTANTS Oracles,     \* how calls of other methods turn out, for the first ones
          MaxEvents    \* how much of a program is followed

VARIABLES oracle,   \* the one of this run
          code,     \* the code of each scope, the first that of the whole program
          status,   \* how far the program is
          m         \* the machine
machineVars == <<oracle, code, status, m>>

\* ------------------------------------------------------------------ values
Unnamed == "unnamed"
CaseEquals == "==="
SingletonName == "singleton class"
Value(k, name, n, v) == [k |-> k, name |-> name, n |-> n, v |-> v]
NilValue == Value("nil", Unnamed, 0, <<>>)
TrueValue == Value("true", Unnamed, 0, <<>>)
FalseValue == Value("false", Unnamed, 0, <<>>)
ObjectClass == Value("class", "Object", 0, <<>>)
Main == Value("main", Unnamed, 0, <<>>)
Globals == Value("globals", Unnamed, 0, <<>>)
Literal(kind, name) == Value(kind, name, 0, <<>>)
ArrayValue(list) == Value("array", Unnamed, 0, list)
Passed1 == Value("passed", Unnamed, 1, <<>>)
Passed2 == Value("passed", Unnamed, 2, <<>>)
Test(value) == value.k \notin {"nil", "false"}
Spread(value) == IF value.k = "array" THEN value.v ELSE <<value>>

\* ------------------------------------------------------------------ events
Event(kind, name, place, list) == [kind |-> kind, name |-> name, place |-> place, list |-> list]
\* The n-th event, if it is a call, results in a value or in nil.
Bit(n) == IF n <= Len(oracle) THEN oracle[n] ELSE (n \div 3) % 2 = 0
Result(n) == IF Bit(n) THEN Value("result", Unnamed, n, <<>>) ELSE NilValue
Over(trace) == Len(trace) >= MaxEvents
Times(name) == IF name = "each" THEN 2 ELSE 1

Earliest(places) == CHOOSE i \in places : \A k \in places : i <= k

\* What was last written there, else what is there without the program.
WritesOf(trace, place, name) ==
  {i \in DOMAIN trace : trace[i].kind = "set" /\ trace[i].name = name /\ trace[i].place = place}
ReadName(trace, place, name) ==
  LET at == WritesOf(trace, place, name) IN IF at = {} THEN Literal("outside", name) ELSE trace[Latest(at)].list[1]
\* A constant is looked for from the innermost module out.
ReadConst(trace, modules, name) ==
  LET has == {i \in DOMAIN modules : WritesOf(trace, modules[i], name) # {}}
  IN IF has = {} THEN Literal("outside", name) ELSE ReadName(trace, modules[Earliest(has)], name)

\* case_match: === is asked of each until one says yes.
CaseMatch(trace, value, list) ==
  LET yes == {i \in DOMAIN list : Test(Result(Len(trace) + i))}
      asked == IF yes = {} THEN Len(list) ELSE Earliest(yes)
  IN [trace |-> trace \o [i \in 1..asked |-> Event("call", CaseEquals, list[i], <<NilValue, value>>)], match |-> yes # {}]

\* The method of that name the program defined last.
Methods(trace, name) == {i \in DOMAIN trace : trace[i].kind = "def" /\ trace[i].name = name /\ trace[i].place = ObjectClass}
MethodOf(trace, name) ==
  LET at == Methods(trace, name) IN IF at = {} THEN 0 ELSE trace[Latest(at)].list[1].n

\* ------------------------------------------------------------------ frames
\* dst is the register of the frame below the result goes to; a frame with code 0 is that of a
\* method that is not the program's, which calls the block in argv another ip times.  Registers
\* start out nil; written is a history of those that were written, the variables included.
Frame(id, self, modules, scopes, block, argv, dst) ==
  [code |-> id, ip |-> 1, self |-> self, modules |-> modules, scopes |-> scopes, block |-> block, argv |-> argv, dst |-> dst,
   vars |-> [i \in Registers(code[id]) |-> NilValue], written |-> Locals(code[id])]
NativeFrame(block, times, result, dst) ==
  [code |-> 0, ip |-> times, self |-> result, modules |-> <<>>, scopes |-> <<>>, block |-> block, argv |-> <<>>, dst |-> dst,
   vars |-> <<>>, written |-> {}]
Here == m.frames[Len(m.frames)]
AcceptsArguments(id, argc) == code[id].closure \/ argc \in code[id].min..code[id].max

Reg(var) == Here.vars[var]
Span(argv, argc) == [i \in 1..argc |-> Reg(argv + i - 1)]
OptionalReg(var) == IF var = NoVar THEN NilValue ELSE Reg(var)
SetIn(in, var, value) ==
  [in EXCEPT !.frames[Len(in.frames)].vars[var] = value, !.frames[Len(in.frames)].written = @ \cup {var}]
SetIfVar(in, var, value) == IF var = NoVar THEN in ELSE SetIn(in, var, value)
Traced(in, event) == [in EXCEPT !.trace = Append(@, event)]
Abort(in) == [in EXCEPT !.trace = Append(@, Event("raise", Unnamed, NilValue, <<>>)), !.frames = <<>>]
Pushed(in, frame) == [in EXCEPT !.frames = Append(@, frame)]
Popped(in) == [in EXCEPT !.frames = SubSeq(@, 1, Len(@) - 1)]

\* A value goes back to the frame below; a method that is not the program's has no use for it.
GiveBack(in, value) ==
  LET top == in.frames[Len(in.frames)]
      below == Popped(in)
  IN IF below.frames = <<>> \/ below.frames[Len(below.frames)].code = 0 THEN below ELSE SetIfVar(below, top.dst, value)

\* call_code and call_frame
CallCode(in, id, self, modules, scopes, block, argv, dst) ==
  IF AcceptsArguments(id, Len(argv)) THEN Pushed(in, Frame(id, self, modules, scopes, block, argv, dst)) ELSE Abort(in)
CallProc(in, proc, block, argv, dst) ==
  LET own == in.procs[proc.n] IN CallCode(in, own.code, own.self, own.modules, own.scopes, block, argv, dst)
CallOutside(in, name, obj, block, argv, dst) ==
  LET called == Traced(in, Event("call", name, obj, <<block>> \o argv))
      result == Result(Len(called.trace))
  IN IF block.k = "proc" THEN Pushed(called, NativeFrame(block, Times(name), result, dst)) ELSE SetIfVar(called, dst, result)
CallMethod(in, name, obj, block, argv, dst) ==
  LET method == MethodOf(in.trace, name)
  IN IF obj.k = "proc" /\ name = "call" THEN CallProc(in, obj, block, argv, dst)
     ELSE IF method # 0 THEN CallCode(in, method, obj, <<ObjectClass>>, <<>>, block, argv, dst)
     ELSE CallOutside(in, name, obj, block, argv, dst)

\* ------------------------------------------------------------ instructions
\* Each from the machine with the next instruction already to come.
SimpleValue(op) ==
  CASE op.op = "LoadNil" -> NilValue
    [] op.op = "LoadTrue" -> TrueValue
    [] op.op = "LoadFalse" -> FalseValue
    [] op.op = "LoadObject" -> ObjectClass
    [] op.op \in {"LoadFixnum", "LoadFloat", "String", "Regexp"} -> Literal("literal", op.literal)
    [] op.op = "LoadSymbol" -> Literal("symbol", op.symbol)
    [] op.op = "Self" -> Here.self
    [] op.op = "Block" -> Here.block
    [] op.op = "Lookup" -> Here.scopes[op.index + 1]
    [] op.op = "Array" -> ArrayValue(Span(op.argv, op.argc))
    [] op.op = "Hash" -> Value("hash", Unnamed, 0, Span(op.argv, op.argc))
    [] op.op = "Range" -> Value("range", op.literal, 0, <<Reg(op.low), Reg(op.high)>>)
    [] op.op = "Interpolate" -> Value("text", op.literal, 0, Span(op.argv, op.argc))
    [] op.op = "GetIVar" -> ReadName(m.trace, Here.self, op.symbol)
    [] op.op = "GetGlobal" -> ReadName(m.trace, Globals, op.symbol)
    [] op.op = "GetHeapVar" -> m.heaps[Reg(op.heap).n].vars[op.index]
SimpleOps == {"LoadNil", "LoadTrue", "LoadFalse", "LoadObject", "LoadFixnum", "LoadFloat", "String", "Regexp", "LoadSymbol",
              "Self", "Block", "Lookup", "Array", "Hash", "Range", "Interpolate", "GetIVar", "GetGlobal", "GetHeapVar"}

\* Arguments
LoadArg(in, op) == IF Len(Here.argv) > op.arg THEN SetIn(in, op.var, Here.argv[op.arg + 1]) ELSE in
\* argc - min_args is unsigned: with fewer arguments, which only a closure can have, all defaults count.
LoadArgFloat(in, op) ==
  LET more == Len(Here.argv) - code[Here.code].min
      place == op.prev_reg + (IF more < 0 \/ more > op.prev_def THEN op.prev_def ELSE more)
  IN IF Len(Here.argv) > place THEN SetIn(in, op.var, Here.argv[place + 1]) ELSE in
LoadArrayArg(in, op) == SetIn(in, op.var, ArrayValue(SubSeq(Here.argv, op.from_arg + 1, Len(Here.argv))))
Jump(in, pos) == [in EXCEPT !.frames[Len(in.frames)].ip = pos]
JumpIf(condition, in, pos) == IF condition THEN Jump(in, pos) ELSE in
LoadArgBranch(in, op) ==
  IF Len(Here.argv) >= op.req_args THEN Jump(SetIn(in, op.var, Here.argv[op.arg + 1]), op.pos) ELSE in

\* Arrays
Assign(in, op) ==
  LET list == Reg(op.array).v
  IN SetIn(in, op.var, IF Len(list) <= op.size THEN NilValue
                       ELSE IF op.index < 0 THEN list[op.index + Len(list) + 1] ELSE list[op.size + 1])
AssignArray(in, op) ==
  LET list == Reg(op.array).v
      size == IF Len(list) > op.size THEN Len(list) - op.size ELSE 0
  IN SetIn(in, op.var, ArrayValue(SubSeq(list, op.index + 1, op.index + size)))
Push(in, array, list) == SetIn(in, array, ArrayValue(Reg(array).v \o list))
CaseBranch(in, op) ==
  LET asked == CaseMatch(m.trace, Reg(op.value), Spread(Reg(op.list)))
  IN JumpIf(asked.match, [in EXCEPT !.trace = asked.trace], op.pos)

\* Closures and heaps
CreateClosure(in, op) ==
  LET proc == [code |-> op.block, self |-> Here.self, modules |-> Here.modules, scopes |-> Span(op.argv, op.argc)]
  IN SetIn([in EXCEPT !.procs = Append(@, proc)], op.var, Value("proc", Unnamed, Len(in.procs) + 1, <<>>))
CreateHeap(in, op) ==
  LET heap == [owner |-> Here.code, vars |-> [i \in 0..(op.size - 1) |-> NilValue]]
  IN SetIn([in EXCEPT !.heaps = Append(@, heap)], op.var, Value("heap", Unnamed, Len(in.heaps) + 1, <<>>))
SetHeapVar(in, op) == [in EXCEPT !.heaps[Reg(op.heap).n].vars[op.index] = Reg(op.var)]

\* Calls
CallSuper(in, op, argv) == SetIfVar(Traced(in, Event("super", Unnamed, Here.self, argv)), op.var, Result(Len(m.trace) + 1))
AssertBlock(in, op) == IF Reg(op.var).k \in {"nil", "proc"} THEN in ELSE Abort(in)

\* Definitions; the body of a class or a module runs with it as self and innermost module.
EnterBody(in, op, kind, name, place, self, list) ==
  CallCode(Traced(Traced(in, Event(kind, name, place, list)), Event("set", name, place, <<self>>)),
           op.block, self, <<self>> \o Here.modules, <<>>, NilValue, <<>>, op.var)
ScopeOf(op) == IF op.scope = NoVar THEN Here.modules[1] ELSE Reg(op.scope)
OpenClass(in, op) ==
  EnterBody(in, op, "class", op.symbol, ScopeOf(op), Literal("class", op.symbol),
       <<IF op.super = NoVar THEN ObjectClass ELSE Reg(op.super)>>)
OpenModule(in, op) == EnterBody(in, op, "module", op.symbol, ScopeOf(op), Literal("module", op.symbol), <<>>)
OpenSingletonClass(in, op) ==
  LET of == Reg(op.singleton) IN EnterBody(in, op, "class", SingletonName, of, Value("singleton", Unnamed, 0, <<of>>), <<>>)
DefineMethod(in, name, place, id) == Traced(in, Event("def", name, place, <<Value("code", Unnamed, id, <<>>)>>))
WriteName(in, place, name, value) == Traced(in, Event("set", name, place, <<value>>))

\* A break or return out of a closure ends frames up to one of the code it is meant for.
FrameOf(in, id) == LET at == {k \in DOMAIN in.frames : in.frames[k].code = id} IN IF at = {} THEN 0 ELSE Latest(at)
Unwound(in, id) == [in EXCEPT !.frames = SubSeq(@, 1, FrameOf(in, id))]
UnwindReturn(in, op) ==
  LET at == Unwound(in, op.code) IN IF at.frames = <<>> THEN Abort(at) ELSE GiveBack(at, Reg(op.var))
UnwindBreak(in, op) ==
  LET at == Unwound(in, op.code) IN IF at.frames = <<>> THEN Abort(at) ELSE SetIfVar(at, op.parent_dst, Reg(op.var))

Exec(in, op) ==
  CASE op.op \in SimpleOps -> SetIn(in, op.var, SimpleValue(op))
    [] op.op = "Move" -> SetIn(in, op.dst, Reg(op.src))
    [] op.op = "LoadArg" -> LoadArg(in, op)
    [] op.op = "LoadArgFloat" -> LoadArgFloat(in, op)
    [] op.op = "LoadArrayArg" -> LoadArrayArg(in, op)
    [] op.op = "LoadArgBranch" -> LoadArgBranch(in, op)
    [] op.op = "Branch" -> Jump(in, op.pos)
    [] op.op = "BranchIf" -> JumpIf(Test(Reg(op.var)), in, op.pos)
    [] op.op = "BranchUnless" -> JumpIf(~Test(Reg(op.var)), in, op.pos)
    [] op.op = "CaseBranch" -> CaseBranch(in, op)
    [] op.op = "Assign" -> Assign(in, op)
    [] op.op = "AssignArray" -> AssignArray(in, op)
    [] op.op = "Push" -> Push(in, op.array, <<Reg(op.value)>>)
    [] op.op = "PushArray" -> Push(in, op.into, Spread(Reg(op.from)))
    [] op.op = "Closure" -> CreateClosure(in, op)
    [] op.op = "CreateHeap" -> CreateHeap(in, op)
    [] op.op = "SetHeapVar" -> SetHeapVar(in, op)
    [] op.op = "SetIVar" -> WriteName(in, Here.self, op.symbol, Reg(op.var))
    [] op.op = "SetGlobal" -> WriteName(in, Globals, op.symbol, Reg(op.var))
    [] op.op = "SetConst" -> WriteName(in, Here.modules[1], op.symbol, Reg(op.var))
    [] op.op = "SetScopedConst" -> WriteName(in, Reg(op.obj), op.symbol, Reg(op.var))
    [] op.op = "GetConst" -> SetIfVar(in, op.var, ReadConst(m.trace, Here.modules, op.symbol))
    [] op.op = "GetScopedConst" -> SetIfVar(in, op.var, ReadName(m.trace, Reg(op.obj), op.symbol))
    [] op.op = "Call" ->
         CallMethod(in, op.symbol, Reg(op.obj), OptionalReg(op.block_var), Span(op.argv, op.argc), op.var)
    [] op.op = "VariadicCall" ->
         CallMethod(in, op.symbol, Reg(op.obj), OptionalReg(op.block_var), Reg(op.array).v, op.var)
    [] op.op = "Super" -> CallSuper(in, op, Span(op.argv, op.argc))
    [] op.op = "VariadicSuper" -> CallSuper(in, op, Reg(op.array).v)
    [] op.op = "AssertBlock" -> AssertBlock(in, op)
    [] op.op = "Return" -> GiveBack(in, Reg(op.var))
    [] op.op = "UnwindReturn" -> UnwindReturn(in, op)
    [] op.op = "UnwindBreak" -> UnwindBreak(in, op)
    [] op.op = "Class" -> OpenClass(in, op)
    [] op.op = "Module" -> OpenModule(in, op)
    [] op.op = "SingletonClass" -> OpenSingletonClass(in, op)
    [] op.op = "Method" -> DefineMethod(in, op.symbol, Here.modules[1], op.block)
    [] op.op = "SingletonMethod" -> DefineMethod(in, op.symbol, Value("singleton", Unnamed, 0, <<Reg(op.singleton)>>), op.block)
    [] op.op = "Alias" -> Traced(in, Event("alias", Unnamed, Here.modules[1], <<Reg(op.new_name), Reg(op.old_name)>>))
    [] op.op = "Undef" -> Traced(in, Event("undef", Unnamed, Here.modules[1], <<Reg(op.name)>>))

\* A method that is not the program's calls its block, then returns.
NativeStep(in) ==
  IF Here.ip = 0 THEN GiveBack(in, Here.self)
  ELSE CallProc([in EXCEPT !.frames[Len(in.frames)].ip = @ - 1], Here.block, NilValue, <<Passed1, Passed2>>, NoVar)

\* ----------------------------------------------------------- the program
NoCode == <<>>
MachineInit ==
  oracle \in Oracles /\ code = NoCode /\ status = "empty" /\ m = [frames |-> <<>>, heaps |-> <<>>, procs |-> <<>>, trace |-> <<>>]
\* The machine is given code that was verified.
GiveCode == status = "empty" /\ status' = "ready" /\ Verified(code') /\ UNCHANGED <<oracle, m>>
Start ==
  /\ status = "ready" /\ status' = "running"
  /\ m' = [m EXCEPT !.frames = <<Frame(1, Main, <<ObjectClass>>, <<>>, NilValue, <<>>, NoVar)>>]
  /\ UNCHANGED <<oracle, code>>
Running == status = "running" /\ m.frames # <<>> /\ ~Over(m.trace)
Instruction == code[Here.code].ops[Here.ip]
Execute ==
  /\ Running /\ Here.code # 0
  /\ m' = Exec([m EXCEPT !.frames[Len(m.frames)].ip = @ + 1], Instruction)
  /\ UNCHANGED <<oracle, code, status>>
CallBlock == Running /\ Here.code = 0 /\ m' = NativeStep(m) /\ UNCHANGED <<oracle, code, status>>
Stop == status = "running" /\ ~Running /\ status' = "stopped" /\ UNCHANGED <<oracle, code, m>>
Run == Start \/ Execute \/ CallBlock \/ Stop
MachineNext == GiveCode \/ Run
MachineSpec == MachineInit /\ [][MachineNext]_machineVars

\* -------------------------------------------------------------- properties
\* Registers and branches of the code stay in it: the machine checks neither.
OperandsInFrame ==
  \A id \in DOMAIN code : LET one == code[id] IN
    /\ \A i \in DOMAIN one.ops : Operands(one.ops[i]) \subseteq Registers(one)
    /\ \A i \in DOMAIN one.ops : "pos" \in DOMAIN one.ops[i] => one.ops[i].pos \in DOMAIN one.ops

\* No instruction uses a temporary that no instruction has written on the way to it.
OperandsWritten == Running /\ Here.code # 0 => ReadsOf(Instruction) \subseteq Here.written

\* Code uses the registers of its frame only, and those after they were written.
OperandsGood == OperandsInFrame /\ OperandsWritten

\* A closure is given the heaps of the scopes its code looks them up for, each in its place.
HeapsMatchReferences ==
  \A i \in DOMAIN m.procs :
    LET proc == m.procs[i]
        list == code[proc.code].references
    IN /\ Len(proc.scopes) = Len(list)
       /\ \A k \in DOMAIN list : proc.scopes[k].k = "heap" /\ m.heaps[proc.scopes[k].n].owner = list[k]

\* What the code takes for granted: blocks get the arguments they ask for, and the frame a break
\* ends at waits for the call it breaks from.
ArgumentsSuffice ==
  \A k \in DOMAIN m.frames : m.frames[k].code # 0 => Len(m.frames[k].argv) >= code[m.frames[k].code].min
BreaksLand ==
  Running /\ Here.code # 0 /\ Instruction.op = "UnwindBreak" =>
    LET k == FrameOf(m, Instruction.code) IN k # 0 => m.frames[k + 1].dst = Instruction.parent_dst
WellUsed == ArgumentsSuffice /\ BreaksLand

\* What the generator promises the machine: the steps are the machine's, with code that was
\* verified, and what it takes for granted holds.
WellBehaved == MachineSpec /\ []WellUsed
=============================================================================
