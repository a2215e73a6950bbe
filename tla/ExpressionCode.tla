--------------------------- MODULE ExpressionCode ---------------------------
(***************************************************************************)
(* The byte code generator: the tree of a scope to instructions over the   *)
(* registers of a frame (codegen/bytecode.cpp).  g is the generator of one *)
(* scope; what a function of it returns, a register or a label, is the     *)
(* field n of the generator it leaves.  Exception groups and the jumps out *)
(* of them are HandlerCode's.                                              *)
(***************************************************************************)
EXTENDS Parser, Instructions

\* ------------------------------------------------- registers and labels
Gen(g, op) == [g EXCEPT !.ops = Append(@, op)]
Returning(g, var) == [g EXCEPT !.n = var]
CreateVar(g) == [g EXCEPT !.vars = @ + 1, !.n = g.vars]
\* Mutant of VariableGroup: the registers of the group are not counted.
VariableGroupOne(g, size) == [g EXCEPT !.vars = @ + 1, !.n = IF size = 0 THEN NoVar ELSE g.vars]
VariableGroup(g, size) == [g EXCEPT !.vars = @ + size, !.n = IF size = 0 THEN NoVar ELSE g.vars]
Reuse(g, var) == IF var = NoVar THEN CreateVar(g) ELSE Returning(g, var)
After(group, i) == IF group = NoVar THEN NoVar ELSE group + i
CreateLabels(g, size) == [g EXCEPT !.labels = @ \o [i \in 1..size |-> 0], !.n = Len(g.labels) + 1]
Place(g, label) == [g EXCEPT !.labels[label] = Len(g.ops) + 1]
GenFor(g, var, op) == IF var = NoVar THEN g ELSE Gen(g, op)
CurrentScope(g) == g.p.scopes[g.id]
ScopeIndex(g, owner) == (CHOOSE i \in DOMAIN CurrentScope(g).references : CurrentScope(g).references[i] = owner) - 1

RECURSIVE ToBytecode(_, _, _), WriteNode(_, _, _, _)
\* Each node to a register of its own, or all for what they do only.
RECURSIVE Entries(_, _, _), PushAll(_, _, _, _)
Entries(g, list, first) ==
  IF list = <<>> THEN g ELSE Entries(ToBytecode(g, list[1], first), Tail(list), After(first, 1))
Unsplat(node) == IF node.kind = "Splat" THEN node.kids[1] ELSE node
Unsplats(list) == [i \in DOMAIN list |-> Unsplat(list[i])]
Variadic(list) == \E i \in DOMAIN list : list[i].kind = "Splat"
PushAll(g, list, array, temp) ==
  LET in == ToBytecode(g, Unsplat(list[1]), temp)
      op == IF list[1].kind = "Splat" THEN PushArrayOp(array, temp) ELSE PushOp(array, temp)
  IN IF list = <<>> THEN g ELSE PushAll(Gen(in, op), Tail(list), array, temp)
GenPushes(g, list, array) ==
  LET temp == CreateVar(Gen(g, ArrayOp(array, 0, NoVar))) IN PushAll(temp, list, array, temp.n)

\* ------------------------------------------------------------- variables
\* The heap a variable is in is that of the frame, or one of those the closure was given.
HeapRegister(g, owner) ==
  LET in == CreateVar(g)
  IN IF owner = g.id THEN Returning(g, g.heap) ELSE Gen(in, LookupOp(in.n, ScopeIndex(g, owner)))
ReadVariable(g, owner, i) ==
  LET variable == g.p.scopes[owner].variables[i]
      heap == HeapRegister(g, owner)
      result == CreateVar(heap)
  IN IF variable.heap THEN Gen(result, GetHeapVarOp(result.n, heap.n, variable.loc)) ELSE Returning(g, variable.loc)
ConvertVariable(g, node, var) ==
  LET in == ReadVariable(g, node.ref[1], node.ref[2]) IN IF var = NoVar THEN g ELSE Gen(in, MoveOp(var, in.n))

\* What is written to a variable: a node, the result of an instruction, or the one loading an
\* argument with a node for its default.
FromNode(node) == [node |-> node, op |-> <<>>]
FromOp(op) == [node |-> Null, op |-> <<op>>]
FromDefault(op, node) == [node |-> node, op |-> <<op>>]
PlaceSkip(g, source, label) == IF source.op = <<>> THEN g ELSE Place(g, label)
Fill(g, source, store) ==
  LET skip == CreateLabels(g, 1)
      start == IF source.op = <<>> THEN g ELSE Gen(skip, [source.op[1] EXCEPT !.var = store, !.pos = skip.n])
  IN IF source.node = Null THEN Gen(g, [source.op[1] EXCEPT !.var = store])
     ELSE PlaceSkip(ToBytecode(start, source.node, store), source, skip.n)
WriteVariable(g, owner, i, source, temp) ==
  LET variable == g.p.scopes[owner].variables[i]
      heap == IF variable.heap THEN HeapRegister(g, owner) ELSE g
      store == Reuse(heap, temp)
      in == Fill(store, source, store.n)
      op == IF variable.heap THEN SetHeapVarOp(heap.n, variable.loc, store.n) ELSE MoveOp(variable.loc, store.n)
  IN Returning(Gen(in, op), store.n)

\* convert_multiple_assignment: elements before the splat count from the start, others from the end.
IsRest(node) == node = Null \/ node.kind = "Splat"
CountPlain(list) == Cardinality({i \in DOMAIN list : ~IsRest(list[i])})
PlaceOfElement(list, i) ==
  LET before == {j \in 1..(i - 1) : IsRest(list[j])}
      size == CountPlain(SubSeq(list, 1, i - 1))
  IN [size |-> size, index |-> IF before = {} THEN size ELSE -(i - CHOOSE j \in before : TRUE)]
RECURSIVE AssignElements(_, _, _, _, _)
AssignElements(g, list, i, rhs, temp) ==
  LET place == PlaceOfElement(list, i)
      named == ~IsRest(list[i]) \/ (list[i] # Null /\ list[i].kids[1] # Null)
      op == IF IsRest(list[i]) THEN AssignArrayOp(NoVar, rhs, place.size, CountPlain(list))
            ELSE AssignOp(NoVar, rhs, place.index, place.size)
      in == IF named THEN WriteNode(g, Unsplat(list[i]), FromOp(op), temp) ELSE g
  IN IF i > Len(list) THEN g ELSE AssignElements(in, list, i + 1, rhs, temp)
ConvertMultipleAssignment(g, list, rhs) == LET temp == CreateVar(g) IN AssignElements(temp, list, 1, rhs, temp.n)

\* write_node, by what is on the left.
WriteMultiple(g, lhs, source, temp) ==
  LET var == Reuse(g, temp)
      rhs == CreateVar(var)
      in == Gen(Gen(Fill(rhs, source, var.n), ArrayOp(rhs.n, 0, NoVar)), PushArrayOp(rhs.n, var.n))
  IN Returning(ConvertMultipleAssignment(in, lhs.kids, rhs.n), var.n)
GenAttribute(g, lhs, group, var) ==
  LET obj == CreateVar(g)
      argc == Len(Arguments(lhs)) + 1
  IN Returning(Gen(ToBytecode(obj, lhs.kids[1], obj.n), CallOp(var, obj.n, lhs.name, NoVar, argc, group)), var)
\* Mutant of GenAttributeArgs: the value is not moved behind the other arguments.
GenAttributeArgsOnly(g, lhs, var) ==
  LET list == Arguments(lhs)
      group == VariableGroup(g, Len(list) + 1)
  IN GenAttribute(Entries(group, list, group.n), lhs, group.n, var)
GenAttributeArgs(g, lhs, var) ==
  LET list == Arguments(lhs)
      group == VariableGroup(g, Len(list) + 1)
  IN GenAttribute(Gen(Entries(group, list, group.n), MoveOp(group.n + Len(list), var)), lhs, group.n, var)
WriteAttribute(g, lhs, source, temp) ==
  LET var == Reuse(g, temp) IN GenAttributeArgs(Fill(var, source, var.n), lhs, var.n)
WriteNamed(g, lhs, source, temp) ==
  LET var == Reuse(g, temp)
      op == IF lhs.kind = "Global" THEN SetGlobalOp(lhs.name, var.n) ELSE SetIVarOp(lhs.name, var.n)
  IN Returning(Gen(Fill(var, source, var.n), op), var.n)
ScopeOperand(g, object, obj) ==
  IF object.kind = "Top" THEN Gen(g, LoadObjectOp(obj)) ELSE ToBytecode(g, object, obj)
GenSetConst(g, lhs, var) ==
  LET obj == CreateVar(g)
  IN IF lhs.kids[1] = Null THEN Gen(g, SetConstOp(lhs.name, var))
     ELSE Gen(ScopeOperand(obj, lhs.kids[1], obj.n), SetScopedConstOp(obj.n, lhs.name, var))
WriteConstant(g, lhs, source, temp) ==
  LET var == Reuse(g, temp) IN Returning(GenSetConst(Fill(var, source, var.n), lhs, var.n), var.n)
WriteNode(g, lhs, source, temp) ==
  CASE IsMultiple(lhs) -> WriteMultiple(g, lhs, source, temp)
    [] lhs.kind \in CallKinds -> WriteAttribute(g, lhs, source, temp)
    [] lhs.kind = "Variable" -> WriteVariable(g, lhs.ref[1], lhs.ref[2], source, temp)
    [] lhs.kind = "Constant" -> WriteConstant(g, lhs, source, temp)
    [] OTHER -> WriteNamed(g, lhs, source, temp)
ConvertAssignment(g, node, var) ==
  LET in == WriteNode(g, node.kids[1], FromNode(node.kids[2]), var)
  IN GenFor(in, var, MoveOp(var, in.n))

\* --------------------------------------------------------------- literals
ConvertArrayData(g, var) ==
  LET array == Reuse(g, var)
      element == CreateVar(array)
  IN Gen(Gen(Gen(element, ArrayOp(array.n, 0, NoVar)), StringOp(element.n, "STRING")), PushOp(array.n, element.n))
ConvertData(g, node, var) ==
  CASE var = NoVar -> g
    [] node.name = "SYMBOL" -> Gen(g, LoadSymbolOp(var, ""))
    [] node.name = "REGEXP" -> Gen(g, RegexpOp(var, node.name))
    [] node.name = "ARRAY" -> ConvertArrayData(g, var)
    [] OTHER -> Gen(g, StringOp(var, node.name))
ConvertInterpolate(g, node, var) ==
  LET group == VariableGroup(g, Len(node.kids))
  IN Gen(Entries(group, node.kids, group.n), InterpolateOp(var, Len(node.kids), group.n, node.name))
ConvertLeaf(g, node, var) ==
  CASE node.kind = "Self" -> GenFor(g, var, SelfOp(var))
    [] node.kind = "Nil" -> GenFor(g, var, LoadNilOp(var))
    [] node.kind = "True" -> GenFor(g, var, LoadTrueOp(var))
    [] node.kind = "False" -> GenFor(g, var, LoadFalseOp(var))
    [] node.kind = "Integer" -> GenFor(g, var, LoadFixnumOp(var, node.name))
    [] node.kind = "Float" -> GenFor(g, var, LoadFloatOp(var, node.name))
    [] node.kind = "Symbol" -> GenFor(g, var, LoadSymbolOp(var, node.name))
    [] node.kind = "Global" -> GenFor(g, var, GetGlobalOp(var, node.name))
    [] node.kind \in {"IVar", "CVar"} -> GenFor(g, var, GetIVarOp(var, node.name))
ConvertConstant(g, node, var) ==
  IF node.kids[1] = Null THEN Gen(g, GetConstOp(var, node.name))
  ELSE Gen(ScopeOperand(g, node.kids[1], var), GetScopedConstOp(var, var, node.name))
ConvertRange(g, node, var) ==
  LET high == CreateVar(g)
      in == ToBytecode(ToBytecode(high, node.kids[1], var), node.kids[2], high.n)
  IN IF var = NoVar THEN g ELSE Gen(in, RangeOp(var, var, high.n, node.name))
ConvertArray(g, node, var) ==
  LET group == VariableGroup(g, Len(node.kids))
  IN CASE var = NoVar -> Entries(g, Unsplats(node.kids), NoVar)
       [] Variadic(node.kids) -> GenPushes(g, node.kids, var)
       [] OTHER -> Gen(Entries(group, node.kids, group.n), ArrayOp(var, Len(node.kids), group.n))
ConvertHash(g, node, var) ==
  LET group == VariableGroup(g, Len(node.kids))
  IN IF var = NoVar THEN Entries(g, node.kids, NoVar)
     ELSE Gen(Entries(group, node.kids, group.n), HashOp(var, Len(node.kids), group.n))
ConvertMultipleExpressions(g, node, var) ==
  IF var = NoVar THEN Entries(g, Unsplats(node.kids), NoVar) ELSE GenPushes(g, node.kids, var)

\* -------------------------------------------------------------- operators
ConvertUnaryOp(g, node, var) ==
  LET temp == Reuse(g, var)
  IN Gen(ToBytecode(temp, node.kids[1], temp.n), CallOp(var, temp.n, node.name, NoVar, 0, NoVar))
ConvertBooleanNot(g, node, var) ==
  LET true == CreateLabels(g, 2)
      end == true.n + 1
      test == Gen(ToBytecode(true, node.kids[1], var), BranchIfOp(var, true.n))
      false == Gen(Gen(test, LoadTrueOp(var)), BranchOp(end))
  IN IF var = NoVar THEN ToBytecode(g, node.kids[1], NoVar)
     ELSE Place(Gen(Place(false, true.n), LoadFalseOp(var)), end)
ConvertBinaryOp(g, node, var) ==
  LET left == Reuse(g, var)
      right == VariableGroup(ToBytecode(left, node.kids[1], left.n), 1)
  IN Gen(ToBytecode(right, node.kids[2], right.n), CallOp(var, left.n, node.name, NoVar, 1, right.n))
ConvertBooleanOp(g, node, var) ==
  LET temp == Reuse(g, var)
      end == CreateLabels(ToBytecode(temp, node.kids[1], temp.n), 1)
      test == IF node.name = "LOGICAL_OR" THEN BranchIfOp(temp.n, end.n) ELSE BranchUnlessOp(temp.n, end.n)
  IN Place(ToBytecode(Gen(end, test), node.kids[2], var), end.n)

\* ------------------------------------------------------------------ calls
\* block_arg: a closure is given the heaps of the scopes it refers to, in its order.
RECURSIVE GenScopes(_, _, _)
\* Mutant of GenScopes: every heap is that of the scope that creates the closure.
GenScopesOwn(g, list, var) == IF list = <<>> THEN g ELSE GenScopes(Gen(g, MoveOp(var, g.heap)), Tail(list), var + 1)
GenScopes(g, list, var) ==
  LET op == IF list[1] = g.id THEN MoveOp(var, g.heap) ELSE LookupOp(var, ScopeIndex(g, list[1]))
  IN IF list = <<>> THEN g ELSE GenScopes(Gen(g, op), Tail(list), var + 1)
GenBlockArg(g, id, dst) ==
  LET list == g.p.scopes[id].references
      var == CreateVar([g EXCEPT !.breaks = Append(@, [block |-> id, dst |-> dst])])
      group == VariableGroup(var, Len(list))
      in == GenScopes(group, list, group.n)
  IN Returning(Gen(in, ClosureOp(var.n, id, Len(list), group.n)), var.n)
ConvertBlock(g, node, var) ==
  LET in == GenBlockArg(g, node.kids[1].ref[1], NoVar) IN IF var = NoVar THEN g ELSE Gen(in, MoveOp(var, in.n))

\* call_args: n is the register of the block, argc and argv those of the arguments.
GenArguments(g, list) ==
  LET array == CreateVar(g)
      group == VariableGroup(g, Len(list))
  IN IF Variadic(list) THEN [GenPushes(array, list, array.n) EXCEPT !.argc = 1, !.argv = array.n]
     ELSE [Entries(group, list, group.n) EXCEPT !.argc = Len(list), !.argv = group.n]
GenBlockOf(g, node, id, dst) ==
  LET block == CreateVar(g)
  IN CASE node.kids[2].kind = "BlockArg" ->
            Returning(Gen(ToBytecode(block, node.kids[2].kids[1], block.n), AssertBlockOp(block.n)), block.n)
       [] id = 0 -> Returning(g, NoVar)
       [] OTHER -> GenBlockArg(g, id, dst)
KeepArguments(g, list) == [g EXCEPT !.argc = list.argc, !.argv = list.argv]
GenCallBlock(list, node, id, dst) == KeepArguments(GenBlockOf(list, node, id, dst), list)
GenCallArgs(g, node, id, dst) == GenCallBlock(GenArguments(g, Arguments(node)), node, id, dst)
GenCall(list, node, var) ==
  LET obj == Reuse(list, var)
  IN Gen(ToBytecode(obj, node.kids[1], obj.n),
         IF Variadic(Arguments(node)) THEN VariadicCallOp(var, obj.n, node.name, list.n, list.argv)
         ELSE CallOp(var, obj.n, node.name, list.n, list.argc, list.argv))
ConvertCall(g, node, var) ==
  GenCall(GenCallArgs(g, node, IF node.kids[2].kind = "Scope" THEN node.kids[2].ref[1] ELSE 0, var), node, var)
ParameterMoves(list, var) == [i \in DOMAIN list |-> MoveOp(var + i - 1, list[i].loc)]
\* super without arguments passes the parameters of the method as they are now.
GenPassed(g, owner, closure, var) ==
  LET group == VariableGroup(g, Len(owner.parameters))
      list == [i \in DOMAIN owner.parameters |-> owner.variables[owner.parameters[i].ref[2]]]
  IN Gen([group EXCEPT !.ops = @ \o ParameterMoves(list, group.n)], SuperOp(var, closure, Len(list), group.n))
GenZSuper(g, owner, node, var) ==
  LET closure == GenBlockArg(g, node.kids[2].ref[1], var)
  IN CASE node.kids[2].kind = "Scope" -> GenPassed(closure, owner, closure.n, var)
       [] owner.block # Null -> GenPassed(g, owner, owner.variables[owner.block.ref[2]].loc, var)
       [] OTHER -> GenPassed(g, owner, NoVar, var)
\* With arguments it makes a closure of the scope it stands in, unless it has a block argument.
GenSuper(list, node, var) ==
  Gen(list, IF Variadic(Arguments(node)) THEN VariadicSuperOp(var, list.n, list.argv)
            ELSE SuperOp(var, list.n, list.argc, list.argv))
ConvertSuper(g, node, var) ==
  IF node.name = "pass" THEN GenZSuper(g, g.p.scopes[CurrentScope(g).owner], node, var)
  ELSE GenSuper(GenCallArgs(g, node, g.id, var), node, var)

\* ----------------------------------------------------------- control flow
RECURSIVE ConvertStatements(_, _, _)
ConvertStatements(g, list, var) ==
  IF Len(list) = 1 THEN ToBytecode(g, list[1], var) ELSE ConvertStatements(ToBytecode(g, list[1], NoVar), Tail(list), var)
ConvertGroup(g, node, var) == IF node.kids = <<>> THEN GenFor(g, var, LoadNilOp(var)) ELSE ConvertStatements(g, node.kids, var)
ConvertIf(g, node, var) ==
  LET temp == Reuse(g, var)
      else == CreateLabels(temp, 2)
      end == else.n + 1
      condition == ToBytecode(else, node.kids[1], temp.n)
      test == IF node.name = "inverted" THEN BranchIfOp(temp.n, else.n) ELSE BranchUnlessOp(temp.n, else.n)
      middle == Gen(ToBytecode(Gen(condition, test), node.kids[2], var), BranchOp(end))
  IN Place(ToBytecode(Place(middle, else.n), node.kids[3], var), end)

\* The value of a case is in temp, and so is what the clause that matches results in.
GenMatch(g, pattern, temp, test) ==
  Gen(ToBytecode(g, pattern, test), CallOp(test, test, "===", NoVar, 1, temp))
RECURSIVE GenPatterns(_, _, _, _, _), GenClauses(_, _, _, _, _, _)
GenPatterns(g, list, temp, test, run) ==
  LET splat == Gen(ToBytecode(g, Unsplat(list[1]), test), CaseBranchOp(temp, test, run))
      in == IF list[1].kind = "Splat" THEN splat ELSE Gen(GenMatch(g, list[1], temp, test), BranchIfOp(test, run))
  IN IF list = <<>> THEN g ELSE GenPatterns(in, Tail(list), temp, test, run)
GenClauseTest(g, pattern, value, temp, test, skip) ==
  LET run == CreateLabels(g, 1)
  IN CASE value = Null -> Gen(ToBytecode(g, pattern, test), BranchUnlessOp(test, skip))
       [] IsMultiple(pattern) -> Place(Gen(GenPatterns(run, pattern.kids, temp, test, run.n), BranchOp(skip)), run.n)
       [] OTHER -> Gen(GenMatch(g, pattern, temp, test), BranchUnlessOp(test, skip))
GenClauses(g, list, value, temp, test, end) ==
  LET skip == CreateLabels(g, 1)
      tested == GenClauseTest(skip, list[1].kids[1], value, temp, test, skip.n)
      in == Gen(ToBytecode(tested, list[1].kids[2], temp), BranchOp(end))
  IN IF list = <<>> THEN g ELSE GenClauses(Place(in, skip.n), Tail(list), value, temp, test, end)
ConvertCase(g, node, var) ==
  LET temp == Reuse(g, var)
      test == CreateVar(temp)
      end == CreateLabels(test, 1)
      value == IF node.kids[1] = Null THEN end ELSE ToBytecode(end, node.kids[1], temp.n)
      clauses == GenClauses(value, SubSeq(node.kids, 3, Len(node.kids)), node.kids[1], temp.n, test.n, end.n)
  IN Place(IF node.kids[2] = Null THEN GenFor(clauses, var, LoadNilOp(var)) ELSE ToBytecode(clauses, node.kids[2], temp.n),
           end.n)

\* A loop also moves the label that redo of the scope goes to.
ConvertLoop(g, node, var) ==
  LET number == node.ref[1]
      start == CreateLabels(g, 3)
      end == start.n + 2
      temp == Reuse([Place(start, start.n) EXCEPT !.loops[number] = start.n], var)
      condition == Place(ToBytecode(temp, node.kids[1], temp.n), start.n + 1)
      test == IF node.name = "inverted" THEN BranchIfOp(temp.n, end) ELSE BranchUnlessOp(temp.n, end)
      body == ToBytecode(Gen(condition, test), node.kids[2], temp.n)
      again == Gen(Place(body, g.body), BranchOp(start.n))
  IN GenFor(Place(again, end), var, LoadNilOp(var))
StartOf(g, target) == g.loops[target]
\* Mutant of BreakDst: the result of the call is taken for unused.
BreakDstNone(g) == NoVar
BreakDst(g) == g.breaks[CHOOSE i \in DOMAIN g.breaks : g.breaks[i].block = g.id].dst
BodyOf(g, target) == g.loops[target] + 1
EndOf(g, target) == g.loops[target] + 2
Leaving(g, temp) == Gen(Gen(g, MoveOp(g.ret, temp)), BranchOp(g.epilog))
ConvertReturn(g, node, var) ==
  LET temp == Reuse(g, var)
      value == ToBytecode(temp, node.kids[1], temp.n)
  IN IF CurrentScope(g).type = "Closure" THEN Gen(value, UnwindReturnOp(temp.n, CurrentScope(g).owner))
     ELSE Leaving(value, temp.n)
ConvertBreak(g, node, var) ==
  LET target == g.p.jumps[node.ref[1]].target
      temp == Reuse(g, var)
      value == ToBytecode(temp, node.kids[1], temp.n)
  IN Gen(value, IF target # 0 THEN BranchOp(EndOf(g, target))
                ELSE UnwindBreakOp(temp.n, CurrentScope(g).parent, BreakDst(g)))
ConvertNext(g, node, var) ==
  LET target == g.p.jumps[node.ref[1]].target
      temp == Reuse(g, var)
  IN IF target # 0 THEN Gen(temp, BranchOp(StartOf(g, target)))
     ELSE Leaving(ToBytecode(temp, node.kids[1], temp.n), temp.n)
ConvertRedo(g, node, var) ==
  LET target == g.p.jumps[node.ref[1]].target
  IN Gen(g, BranchOp(IF target # 0 THEN BodyOf(g, target) ELSE g.body))

\* ------------------------------------------------------------- structures
ConvertClass(g, node, var) ==
  LET name == node.kids[1]
      id == node.kids[3].ref[1]
      singleton == Reuse(g, var)
      hasSuper == node.kids[2] # Null
      super == IF hasSuper THEN ToBytecode(Reuse(g, var), node.kids[2], Reuse(g, var).n) ELSE g
      superVar == IF hasSuper THEN Reuse(g, var).n ELSE NoVar
      scope == CreateVar(super)
      scoped == ScopeOperand(scope, name.kids[1], scope.n)
  IN CASE node.name = "singleton" -> Gen(ToBytecode(singleton, name, singleton.n), SingletonClassOp(var, singleton.n, id))
       [] name.kids[1] = Null -> Gen(super, ClassOp(var, NoVar, name.name, superVar, id))
       [] OTHER -> Gen(scoped, ClassOp(var, scope.n, name.name, superVar, id))
ConvertModule(g, node, var) ==
  LET name == node.kids[1]
      id == node.kids[2].ref[1]
      scope == Reuse(g, var)
  IN IF name.kids[1] = Null THEN Gen(g, ModuleOp(var, NoVar, name.name, id))
     ELSE Gen(ScopeOperand(scope, name.kids[1], scope.n), ModuleOp(var, scope.n, name.name, id))
ConvertMethod(g, node, var) ==
  LET id == node.kids[2].ref[1]
      singleton == Reuse(g, var)
      defined == IF node.kids[1] = Null THEN Gen(g, MethodOp(node.name, id))
                 ELSE Gen(ToBytecode(singleton, node.kids[1], singleton.n), SingletonMethodOp(singleton.n, node.name, id))
  IN GenFor(defined, var, LoadNilOp(var))
ConvertAlias(g, node, var) ==
  LET new == Reuse(g, var)
      old == CreateVar(new)
      in == ToBytecode(ToBytecode(old, node.kids[1], new.n), node.kids[2], old.n)
  IN GenFor(Gen(in, AliasOp(new.n, old.n)), var, LoadNilOp(var))
RECURSIVE GenUndefs(_, _, _)
GenUndefs(g, list, name) ==
  IF list = <<>> THEN g ELSE GenUndefs(Gen(ToBytecode(g, list[1], name), UndefOp(name)), Tail(list), name)
ConvertUndef(g, node, var) ==
  LET name == Reuse(g, var) IN GenFor(GenUndefs(name, node.kids, name.n), var, LoadNilOp(var))

ToBytecode(g, node, var) ==
  CASE node.kind \in {"Data", "Heredoc"} -> ConvertData(g, node, var)
    [] node.kind = "Interpolate" -> ConvertInterpolate(g, node, var)
    [] node.kind = "Variable" -> ConvertVariable(g, node, var)
    [] node.kind = "Constant" -> ConvertConstant(g, node, var)
    [] node.kind = "UnaryOp" -> ConvertUnaryOp(g, node, var)
    [] node.kind = "BooleanNot" -> ConvertBooleanNot(g, node, var)
    [] node.kind = "BinaryOp" /\ node.name \in {"LOGICAL_AND", "LOGICAL_OR"} -> ConvertBooleanOp(g, node, var)
    [] node.kind = "BinaryOp" -> ConvertBinaryOp(g, node, var)
    [] node.kind = "Assignment" -> ConvertAssignment(g, node, var)
    [] node.kind = "Range" -> ConvertRange(g, node, var)
    [] node.kind = "Array" -> ConvertArray(g, node, var)
    [] node.kind = "Hash" -> ConvertHash(g, node, var)
    [] node.kind = "Block" -> ConvertBlock(g, node, var)
    [] node.kind \in CallKinds -> ConvertCall(g, node, var)
    [] node.kind = "Super" -> ConvertSuper(g, node, var)
    [] node.kind = "If" -> ConvertIf(g, node, var)
    [] node.kind = "Case" -> ConvertCase(g, node, var)
    [] node.kind = "Loop" -> ConvertLoop(g, node, var)
    [] node.kind = "Group" -> ConvertGroup(g, node, var)
    [] node.kind = "Return" -> ConvertReturn(g, node, var)
    [] node.kind = "Break" -> ConvertBreak(g, node, var)
    [] node.kind = "Next" -> ConvertNext(g, node, var)
    [] node.kind = "Redo" -> ConvertRedo(g, node, var)
    [] node.kind = "Class" -> ConvertClass(g, node, var)
    [] node.kind = "Module" -> ConvertModule(g, node, var)
    [] node.kind = "Method" -> ConvertMethod(g, node, var)
    [] node.kind = "Alias" -> ConvertAlias(g, node, var)
    [] node.kind = "Undef" -> ConvertUndef(g, node, var)
    [] IsMultiple(node) -> ConvertMultipleExpressions(g, node, var)
    [] OTHER -> ConvertLeaf(g, node, var)

\* ---------------------------------------------------- the code of a scope
NewGenerator(p, id, breaks) ==
  [p |-> p, id |-> id, ops |-> <<>>, vars |-> Len(p.scopes[id].variables), n |-> NoVar, labels |-> <<>>, ret |-> NoVar,
   heap |-> NoVar, body |-> 0, epilog |-> 0, loops |-> [i \in 1..p.loops |-> 0], argc |-> 0, argv |-> NoVar,
   breaks |-> breaks]
HasDefault(parameter) == parameter.kind = "Parameter" /\ parameter.kids[1] # Null
Defaults(list) == Cardinality({i \in DOMAIN list : HasDefault(list[i])})
RECURSIVE GenParameters(_, _, _)
\* Mutant of LoadParameter: an argument after a default is loaded from its own place.
LoadParameterFixed(list, i) == LoadArgOp(NoVar, i - 1)
LoadParameter(list, i) ==
  LET defaults == Defaults(SubSeq(list, 1, i - 1))
  IN IF defaults > 0 THEN LoadArgFloatOp(NoVar, i - 1 - defaults, defaults) ELSE LoadArgOp(NoVar, i - 1)
LoadDefault(list, i) ==
  LoadArgBranchOp(NoVar, i - 1, Len(list) - Defaults(list) + Defaults(SubSeq(list, 1, i - 1)) + 1)
GenParameters(g, list, i) ==
  LET one == list[i]
      source == IF HasDefault(one) THEN FromDefault(LoadDefault(list, i), one.kids[1]) ELSE FromOp(LoadParameter(list, i))
      in == IF one.kind = "ParameterGroup" THEN WriteNode(g, one.kids[1], source, g.ret)
            ELSE WriteVariable(g, one.ref[1], one.ref[2], source, g.ret)
  IN IF i > Len(list) THEN g ELSE GenParameters(in, list, i + 1)
MinArgs(scope) == Len(scope.parameters) - Defaults(scope.parameters)
Unlimited == 1000
MaxArgs(scope) == IF scope.array # Null THEN Unlimited ELSE Len(scope.parameters)

\* The parameters, then the body; what it results in is in the register that is returned.
GenHeap(g) ==
  LET scope == CurrentScope(g)
      heap == CreateVar(g)
  IN IF scope.heapVars = 0 THEN g ELSE Gen([heap EXCEPT !.heap = heap.n], CreateHeapOp(heap.n, scope.heapVars))
GenBlockParameter(g) ==
  LET block == CurrentScope(g).block
  IN IF block = Null THEN g ELSE WriteVariable(g, block.ref[1], block.ref[2], FromOp(BlockOp(NoVar)), g.ret)
GenArrayParameter(g) ==
  LET scope == CurrentScope(g)
      op == LoadArrayArgOp(NoVar, Len(scope.parameters))
  IN IF scope.array = Null \/ scope.array.name = "discarded" THEN g
     ELSE WriteVariable(g, scope.array.ref[1], scope.array.ref[2], FromOp(op), g.ret)
Finalized(g) ==
  [i \in DOMAIN g.ops |-> IF "pos" \in DOMAIN g.ops[i] THEN [g.ops[i] EXCEPT !.pos = g.labels[@]] ELSE g.ops[i]]
Start1(g) == GenBlockParameter(GenHeap([CreateLabels([g EXCEPT !.ret = g.n], 2) EXCEPT !.body = 1, !.epilog = 2]))
GenParameterList(g) == GenArrayParameter(GenParameters(g, CurrentScope(g).parameters, 1))
GenBody(g, group) == ToBytecode(Place(g, g.body), group, g.ret)
GenEnd(g) == Gen(Place(g, g.epilog), ReturnOp(g.ret))
CodeOf(g) ==
  LET scope == CurrentScope(g)
  IN [ops |-> Finalized(g), vars |-> g.vars, locals |-> Len(scope.variables), heap |-> g.heap, heapVars |-> scope.heapVars,
      closure |-> scope.type = "Closure", min |-> MinArgs(scope), max |-> MaxArgs(scope), references |-> scope.references,
      breaks |-> g.breaks]
Generate(p, id, breaks, group) ==
  CodeOf(GenEnd(GenBody(GenParameterList(Start1(CreateVar(NewGenerator(p, id, breaks)))), group)))
=============================================================================
