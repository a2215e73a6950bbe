----------------------------- MODULE Evaluation ------------------------------
(***************************************************************************)
(* What a program means: the reference the compiled code is compared with. *)
(* The tree the parser found is walked, without instructions, registers    *)
(* and heaps: a call of a method or a block has an activation record of    *)
(* its own with a place for each variable, a closure knows the one it was  *)
(* made in, and a jump is looked for by the construct it ends.             *)
(***************************************************************************)
EXTENDS Machine, ExpressionCode

\* The body of a scope in the tree.
RECURSIVE GroupOf(_, _)
GroupOf(node, id) ==
  IF node.kind = "Scope" /\ node.ref[1] = id THEN node.kids[2]
  ELSE LET kids == {i \in DOMAIN node.kids : GroupOf(node.kids[i], id) # Null}
       IN IF kids = {} THEN Null ELSE GroupOf(node.kids[CHOOSE i \in kids : TRUE], id)

\* e is what is known so far: the trace, the activation records, the closures, the record in
\* use and, in value, what was evaluated last.  out tells that a jump is on its way, to the
\* loop around (to = 0), to the record to or out of the call that got the closure to.
NoActivation == 0
StartingValues == [trace |-> <<>>, acts |-> <<>>, procs |-> <<>>, at |-> NoActivation, looping |-> FALSE,
                   out |-> "", to |-> 0, value |-> NilValue, list |-> <<>>]
\* While a jump is on its way nothing else happens.
Then(e, next) == IF e.out # "" THEN e ELSE next
Results(e, value) == Then(e, [e EXCEPT !.value = value])
Leave(e, kind, to) == Then(e, [e EXCEPT !.out = kind, !.to = to])
SeenAll(e, trace) == Then(e, Leave([e EXCEPT !.trace = trace], IF Over(trace) THEN "stop" ELSE "", 0))
Seen(e, event) == SeenAll(e, Append(e.trace, event))
Fail(e) == Leave(Seen(e, Event("raise", Unnamed, NilValue, <<>>)), "stop", 0)
Act(e) == e.acts[e.at]

\* A variable is in the record of the scope that owns it: this one or one it was made in.
RECURSIVE RecordOf(_, _, _)
RecordOf(e, a, owner) == IF e.acts[a].scope = owner THEN a ELSE RecordOf(e, e.acts[a].made, owner)
ValueOf(e, ref) == e.acts[RecordOf(e, e.at, ref[1])].vars[ref[2]]
Store(e, ref, value) == Then(e, [e EXCEPT !.acts[RecordOf(e, e.at, ref[1])].vars[ref[2]] = value])
RECURSIVE MethodRecord(_, _)
MethodRecord(e, a) == IF s.scopes[e.acts[a].scope].type = "Closure" THEN MethodRecord(e, e.acts[a].made) ELSE a

RECURSIVE Eval(_, _), EvalAll(_, _, _), AssignTo(_, _, _)
EvalAll(e, list, done) ==
  LET in == Eval(e, Unsplat(list[1]))
      more == IF list[1].kind = "Splat" THEN Spread(in.value) ELSE <<in.value>>
  IN IF list = <<>> \/ e.out # "" THEN [e EXCEPT !.list = done] ELSE EvalAll(in, Tail(list), done \o more)

\* ------------------------------------------------------------- assignments
\* The elements before a splat are the first of the list, those after it the last ones.
SplatAt(list) == LET at == {i \in DOMAIN list : IsRest(list[i])} IN IF at = {} THEN Len(list) + 1 ELSE CHOOSE i \in at : TRUE
ElementFor(list, i, values) ==
  LET after == Len(list) - i
      size == Len(values)
  IN CASE i < SplatAt(list) -> IF i <= size THEN values[i] ELSE NilValue
       [] i = SplatAt(list) -> ArrayValue(SubSeq(values, i, size - after))
       [] OTHER -> IF size >= Len(list) - 1 THEN values[size - after] ELSE NilValue
RECURSIVE AssignEach(_, _, _, _)
AssignEach(e, list, i, values) ==
  LET target == Unsplat(list[i])
      in == IF list[i] = Null \/ target = Null THEN e ELSE AssignTo(e, target, ElementFor(list, i, values))
  IN IF i > Len(list) \/ e.out # "" THEN e ELSE AssignEach(in, list, i + 1, values)

\* ------------------------------------------------------------------- calls
\* A parameter takes the next argument; one with a default does so only if there are more
\* arguments than the others need.
Named(e, one) == IF one.kind = "ParameterGroup" THEN AssignTo(e, one.kids[1], e.value) ELSE Store(e, one.ref, e.value)
RECURSIVE Bound1(_, _, _, _, _)
Bound1(e, list, argv, next, spare) ==
  LET one == list[1]
      defaulted == HasDefault(one) /\ spare = 0
      in == IF defaulted THEN Eval(e, one.kids[1]) ELSE Results(e, argv[next])
  IN IF list = <<>> \/ e.out # "" THEN e
     ELSE Bound1(Named(in, one), Tail(list), argv, IF defaulted THEN next ELSE next + 1,
                 IF HasDefault(one) /\ ~defaulted THEN spare - 1 ELSE spare)
BindBlock(e, scope, block) == IF scope.block = Null THEN e ELSE Store(e, scope.block.ref, block)
BindRest(e, scope, argv) ==
  IF scope.array = Null \/ scope.array.name = "discarded" THEN e
  ELSE Store(e, scope.array.ref, ArrayValue(SubSeq(argv, Len(scope.parameters) + 1, Len(argv))))
BindParameters(e, scope, block, argv) ==
  LET spare == Len(argv) - MinArgs(scope)
      given == CASE spare < 0 -> 0 [] spare > Defaults(scope.parameters) -> Defaults(scope.parameters) [] OTHER -> spare
  IN BindRest(Bound1(BindBlock(e, scope, block), scope.parameters, argv, 1, given), scope, argv)
RECURSIVE RunBody(_, _)
RunBody(e, body) ==
  LET in == Eval(e, body)
  IN IF in.out = "redo" /\ in.to = e.at THEN RunBody([in EXCEPT !.out = ""], body) ELSE in
\* A return or next may also leave while the parameters get their defaults.
Caught(e) == IF e.out \in {"next", "return"} /\ e.to = e.at THEN [e EXCEPT !.out = ""] ELSE e
Activation(id, proc, made, self, modules, block) ==
  [scope |-> id, proc |-> proc, made |-> made, self |-> self, modules |-> modules, block |-> block,
   vars |-> [i \in DOMAIN s.scopes[id].variables |-> NilValue]]
ProcActivation(e, proc, block) ==
  LET own == e.procs[proc.n] a == e.acts[own.made] IN Activation(own.code, proc.n, own.made, a.self, a.modules, block)
MethodActivation(id, self, modules, block) == Activation(id, 0, NoActivation, self, modules, block)
Entered(e, act) == [e EXCEPT !.acts = Append(@, act), !.at = Len(e.acts) + 1, !.looping = FALSE]
BackIn(e, in) == [Caught(in) EXCEPT !.at = e.at, !.looping = e.looping]
Invoke(e, act, argv) ==
  LET bound == BindParameters(Entered(e, act), s.scopes[act.scope], act.block, argv)
  IN IF AcceptsArguments(act.scope, Len(argv)) THEN Then(e, BackIn(e, RunBody(bound, GroupOf(s.n, act.scope)))) ELSE Fail(e)
RECURSIVE Yielding(_, _, _)
Yielding(e, proc, times) ==
  IF times = 0 \/ e.out # "" THEN e
  ELSE Yielding(Invoke(e, ProcActivation(e, proc, NilValue), <<Passed1, Passed2>>), proc, times - 1)
Ask(e, name, obj, block, argv) ==
  LET called == Seen(e, Event("call", name, obj, <<block>> \o argv))
  IN Results(Yielding(called, block, IF block.k = "proc" THEN Times(name) ELSE 0), Result(Len(called.trace)))
Send(e, name, obj, block, argv) ==
  LET method == MethodOf(e.trace, name)
      direct == obj.k = "proc" /\ name = "call"
      act == IF direct THEN ProcActivation(e, obj, block) ELSE MethodActivation(method, obj, <<ObjectClass>>, block)
  IN Then(e, IF direct \/ method # 0 THEN Invoke(e, act, argv) ELSE Ask(e, name, obj, block, argv))
MakeProc(e, id) ==
  Results([e EXCEPT !.procs = Append(@, [code |-> id, made |-> e.at])], Value("proc", Unnamed, Len(e.procs) + 1, <<>>))

\* The arguments, the block, then the object are evaluated; a break in a block ends the call.
EvalBlockOf(e, block) ==
  LET given == Eval(e, block.kids[1])
  IN CASE block.kind = "BlockArg" -> IF given.value.k \in {"nil", "proc"} THEN given ELSE Fail(given)
       [] block.kind = "Scope" -> MakeProc(e, block.ref[1])
       [] OTHER -> Results(e, NilValue)
EndsBreak(e, proc) == IF e.out = "break" /\ e.to = proc THEN [e EXCEPT !.out = ""] ELSE e
EvalCall(e, node) ==
  LET list == EvalAll(e, Arguments(node), <<>>)
      block == EvalBlockOf(list, node.kids[2])
      obj == Eval(block, node.kids[1])
      made == IF block.out = "" /\ node.kids[2].kind = "Scope" THEN block.value.n ELSE -1
  IN EndsBreak(Send(obj, node.name, obj.value, block.value, list.list), made)
EvalSuper(e, node) ==
  LET scope == s.scopes[Act(e).scope]
      passed == [i \in DOMAIN scope.parameters |-> ValueOf(e, scope.parameters[i].ref)]
      list == IF node.name = "pass" THEN [e EXCEPT !.list = passed] ELSE EvalAll(e, Arguments(node), <<>>)
      block == IF node.kids[2].kind \in {"Scope", "BlockArg"} THEN EvalBlockOf(list, node.kids[2]) ELSE list
      in == Seen(block, Event("super", Unnamed, Act(e).self, list.list))
  IN Results(in, Result(Len(in.trace)))
EvalOperator(e, node, operands) ==
  LET obj == Eval(e, operands[1])
      in == EvalAll(obj, Tail(operands), <<>>)
  IN Send(in, node.name, obj.value, NilValue, in.list)

AssignTo(e, lhs, value) ==
  LET list == EvalAll(e, Arguments(lhs), <<>>)
      obj == Eval(list, lhs.kids[1])
      scoped == IF lhs.kids[1].kind = "Top" THEN Results(e, ObjectClass) ELSE Eval(e, lhs.kids[1])
      Set(in, place) == Results(Seen(in, Event("set", lhs.name, place, <<value>>)), value)
  IN CASE IsMultiple(lhs) -> Results(AssignEach(e, lhs.kids, 1, Spread(value)), value)
       [] lhs.kind = "Variable" -> Results(Store(e, lhs.ref, value), value)
       [] lhs.kind \in CallKinds -> Send(obj, lhs.name, obj.value, NilValue, Append(list.list, value))
       [] lhs.kind = "Global" -> Set(e, Globals)
       [] lhs.kind = "IVar" -> Set(e, Act(e).self)
       [] lhs.kids[1] = Null -> Set(e, Act(e).modules[1])
       [] OTHER -> Set(scoped, scoped.value)

\* ------------------------------------------------------------ control flow
RECURSIVE EvalStatements(_, _)
EvalStatements(e, list) ==
  LET in == Eval(e, list[1])
  IN CASE list = <<>> -> Results(e, NilValue)
       [] Len(list) = 1 \/ in.out # "" -> in
       [] OTHER -> EvalStatements(in, Tail(list))
EvalIf(e, node) ==
  LET in == Eval(e, node.kids[1])
  IN Eval(in, IF Test(in.value) # (node.name = "inverted") THEN node.kids[2] ELSE node.kids[3])
EvalBoolean(e, node) ==
  LET in == Eval(e, node.kids[1])
  IN IF Test(in.value) = (node.name = "LOGICAL_OR") THEN in ELSE Eval(in, node.kids[2])
\* A loop is nil, whatever ends it.
RECURSIVE EvalLoop(_, _)
EvalLoop(e, node) ==
  LET test == Eval(e, node.kids[1])
      body == Eval([test EXCEPT !.looping = TRUE], node.kids[2])
      after == [body EXCEPT !.looping = e.looping]
      mine == body.out \in {"break", "next"} /\ body.to = 0
  IN CASE test.out # "" -> test
       [] Test(test.value) = (node.name = "inverted") -> Results(test, NilValue)
       [] mine /\ body.out = "break" -> Results([after EXCEPT !.out = ""], NilValue)
       [] body.out # "" /\ ~mine -> after
       [] OTHER -> EvalLoop([after EXCEPT !.out = ""], node)
\* The first clause with a pattern that matches, in the order they are written.
RECURSIVE MatchAny(_, _, _), EvalClauses(_, _, _, _)
MatchSplat(e, asked) == Results(SeenAll(e, asked.trace), IF asked.match THEN TrueValue ELSE FalseValue)
Asked(e, splat, value) ==
  IF splat THEN MatchSplat(e, CaseMatch(e.trace, value, Spread(e.value))) ELSE Send(e, CaseEquals, e.value, NilValue, <<value>>)
MatchAny(e, list, value) ==
  IF list = <<>> \/ e.out # "" \/ Test(e.value) THEN e
  ELSE MatchAny(Asked(Eval(e, Unsplat(list[1])), list[1].kind = "Splat", value), Tail(list), value)
EvalPattern(e, pattern, node, value) ==
  IF node.kids[1] = Null THEN Eval(e, pattern)
  ELSE MatchAny(Results(e, FalseValue), IF IsMultiple(pattern) THEN pattern.kids ELSE <<pattern>>, value)
EvalClause(e, list, node, value) ==
  IF e.out # "" \/ Test(e.value) THEN Eval(e, list[1].kids[2]) ELSE EvalClauses(e, Tail(list), node, value)
EvalClauses(e, list, node, value) ==
  IF list # <<>> THEN EvalClause(EvalPattern(e, list[1].kids[1], node, value), list, node, value)
  ELSE IF node.kids[2] = Null THEN Results(e, NilValue) ELSE Eval(e, node.kids[2])
EvalCase(e, node) ==
  LET in == Eval(e, node.kids[1])
  IN EvalClauses(in, SubSeq(node.kids, 3, Len(node.kids)), node, in.value)
EvalJump(e, node) ==
  LET value == Eval(e, node.kids[1])
  IN CASE node.kind = "Return" -> Leave(value, "return", MethodRecord(value, e.at))
       [] node.kind = "Break" -> Leave(value, "break", IF e.looping THEN 0 ELSE Act(e).proc)
       [] node.kind = "Next" /\ e.looping -> Leave(e, "next", 0)
       [] node.kind = "Next" -> Leave(value, "next", e.at)
       [] OTHER -> Leave(e, "redo", e.at)

\* ------------------------------------------------------------- definitions
EvalBody(e, kind, name, place, self, list, id) ==
  Invoke(Seen(Seen(e, Event(kind, name, place, list)), Event("set", name, place, <<self>>)),
         MethodActivation(id, self, <<self>> \o Act(e).modules, NilValue), <<>>)
EvalScopeOf(e, name) ==
  CASE name.kids[1] = Null -> Results(e, Act(e).modules[1])
    [] name.kids[1].kind = "Top" -> Results(e, ObjectClass)
    [] OTHER -> Eval(e, name.kids[1])
EvalClass(e, node) ==
  LET name == node.kids[1]
      id == node.kids[3].ref[1]
      of == Eval(e, name)
      super == IF node.kids[2] = Null THEN Results(e, ObjectClass) ELSE Eval(e, node.kids[2])
      place == EvalScopeOf(super, name)
  IN IF node.name = "singleton"
     THEN EvalBody(of, "class", SingletonName, of.value, Value("singleton", Unnamed, 0, <<of.value>>), <<>>, id)
     ELSE EvalBody(place, "class", name.name, place.value, Literal("class", name.name), <<super.value>>, id)
EvalModule(e, node) ==
  LET name == node.kids[1]
      place == EvalScopeOf(e, name)
  IN EvalBody(place, "module", name.name, place.value, Literal("module", name.name), <<>>, node.kids[2].ref[1])
EvalMethod(e, node) ==
  LET of == IF node.kids[1] = Null THEN Results(e, Act(e).modules[1]) ELSE Eval(e, node.kids[1])
      place == IF node.kids[1] = Null THEN of.value ELSE Value("singleton", Unnamed, 0, <<of.value>>)
  IN Results(Seen(of, Event("def", node.name, place, <<Value("code", Unnamed, node.kids[2].ref[1], <<>>)>>)), NilValue)
EvalAlias(e, node) ==
  LET names == EvalAll(e, node.kids, <<>>) IN Results(Seen(names, Event("alias", Unnamed, Act(e).modules[1], names.list)), NilValue)
RECURSIVE EvalUndef(_, _)
EvalUndef(e, list) ==
  LET name == Eval(e, list[1])
  IN IF list = <<>> \/ e.out # "" THEN Results(e, NilValue)
     ELSE EvalUndef(Seen(name, Event("undef", Unnamed, Act(e).modules[1], <<name.value>>)), Tail(list))

EvalLiteral(e, node) ==
  LET in == EvalAll(e, node.kids, <<>>)
      Made(kind, name) == Results(in, Value(kind, name, 0, in.list))
  IN CASE node.kind = "Hash" -> Made("hash", Unnamed)
       [] node.kind = "Range" -> Made("range", node.name)
       [] node.kind = "Interpolate" -> Made("text", node.name)
       [] OTHER -> Made("array", Unnamed)
EvalLeaf(e, node) ==
  CASE node.kind = "Self" -> Act(e).self
    [] node.kind = "Nil" -> NilValue
    [] node.kind = "True" -> TrueValue
    [] node.kind = "False" -> FalseValue
    [] node.kind = "Symbol" -> Literal("symbol", node.name)
    [] node.kind = "Data" /\ node.name = "SYMBOL" -> Literal("symbol", "")
    [] node.kind = "Data" /\ node.name = "ARRAY" -> ArrayValue(<<Literal("literal", "STRING")>>)
    [] node.kind = "Variable" -> ValueOf(e, node.ref)
    [] node.kind = "Global" -> ReadName(e.trace, Globals, node.name)
    [] node.kind = "IVar" -> ReadName(e.trace, Act(e).self, node.name)
    [] node.kind = "Constant" -> ReadConst(e.trace, Act(e).modules, node.name)
    [] OTHER -> Literal("literal", node.name)
EvalConstant(e, node) ==
  LET of == EvalScopeOf(e, node)
  IN IF node.kids[1] = Null THEN Results(e, EvalLeaf(e, node)) ELSE Results(of, ReadName(of.trace, of.value, node.name))
EvalNot(e, node) ==
  LET in == Eval(e, node.kids[1]) IN Results(in, IF Test(in.value) THEN FalseValue ELSE TrueValue)
EvalAssignment(e, node) ==
  LET in == Eval(e, node.kids[2]) IN AssignTo(in, node.kids[1], in.value)
Eval(e, node) ==
  CASE e.out # "" -> e
    [] node.kind \in {"Interpolate", "Range", "Array", "Hash", "MultipleExpressions"} -> EvalLiteral(e, node)
    [] node.kind = "BinaryOp" /\ node.name \in {"LOGICAL_AND", "LOGICAL_OR"} -> EvalBoolean(e, node)
    [] node.kind \in {"BinaryOp", "UnaryOp"} -> EvalOperator(e, node, node.kids)
    [] node.kind = "BooleanNot" -> EvalNot(e, node)
    [] node.kind = "Assignment" -> EvalAssignment(e, node)
    [] node.kind = "Constant" -> EvalConstant(e, node)
    [] node.kind = "Block" -> MakeProc(e, node.kids[1].ref[1])
    [] node.kind \in CallKinds -> EvalCall(e, node)
    [] node.kind = "Super" -> EvalSuper(e, node)
    [] node.kind = "If" -> EvalIf(e, node)
    [] node.kind = "Case" -> EvalCase(e, node)
    [] node.kind = "Loop" -> EvalLoop(e, node)
    [] node.kind = "Group" -> EvalStatements(e, node.kids)
    [] node.kind \in {"Return", "Break", "Next", "Redo"} -> EvalJump(e, node)
    [] node.kind = "Class" -> EvalClass(e, node)
    [] node.kind = "Module" -> EvalModule(e, node)
    [] node.kind = "Method" -> EvalMethod(e, node)
    [] node.kind = "Alias" -> EvalAlias(e, node)
    [] node.kind = "Undef" -> EvalUndef(e, node.kids)
    [] OTHER -> Results(e, EvalLeaf(e, node))
Meant == Eval(Entered(StartingValues, MethodActivation(1, Main, <<ObjectClass>>, NilValue)), GroupOf(s.n, 1)).trace

\* ------------------------------------------------- from its text to its end
\* A program is parsed and compiled, and the machine is given what it was compiled to.  Each scope
\* is compiled when its code is called first; what it gives does not depend on when.
RECURSIVE CompiledTo(_, _)
CompiledTo(done, id) ==
  LET one == Generate(s, id, IF id = 1 THEN <<>> ELSE done[id - 1].breaks, GroupOf(s.n, id))
  IN IF id > Len(s.scopes) THEN done ELSE CompiledTo(Append(done, one), id + 1)
ProgramInit == Init /\ MachineInit
ParseProgram == Parse /\ UNCHANGED machineVars
Compile ==
  /\ stage = "done" /\ s.errors = {} /\ status = "empty" /\ status' = "ready" /\ code' = CompiledTo(<<>>, 1)
  /\ UNCHANGED <<program, stage, s, oracle, m>>
RunProgram == Run /\ UNCHANGED <<program, stage, s>>
ProgramNext == ParseProgram \/ Compile \/ RunProgram
ProgramSpec == ProgramInit /\ [][ProgramNext]_<<program, stage, s, machineVars>>

\* -------------------------------------------------------------- properties
\* Compiled code does what the program says, in the order it says, and no more: what is called
\* and with what, what is defined and written, up to the end or as far as it is followed.
Followed(trace) == IF Over(trace) THEN SubSeq(trace, 1, MaxEvents) ELSE trace
RunsAsMeant == status = "stopped" => Followed(m.trace) = Followed(Meant)

=============================================================================
