---------------------------- MODULE Instructions ----------------------------
(***************************************************************************)
(* The instructions of the virtual machine (codegen/opcodes.hpp), and what *)
(* it relies on in the code of a program (block.hpp).  evaluate_block      *)
(* (vm.cpp) checks no register, branch or heap; what Verified asks is what *)
(* the generator has to keep for it.                                       *)
(***************************************************************************)
EXTENDS Integers, Sequences, Folds

NoVar == -1

\* ------------------------------------------------------------ instructions
\* Registers count from 0.  The pos of a branch is a label until the code is finished.
MoveOp(dst, src) == [op |-> "Move", dst |-> dst, src |-> src]
LoadFloatOp(var, value) == [op |-> "LoadFloat", var |-> var, literal |-> value]
LoadFixnumOp(var, num) == [op |-> "LoadFixnum", var |-> var, literal |-> num]
LoadTrueOp(var) == [op |-> "LoadTrue", var |-> var]
LoadFalseOp(var) == [op |-> "LoadFalse", var |-> var]
LoadNilOp(var) == [op |-> "LoadNil", var |-> var]
LoadObjectOp(var) == [op |-> "LoadObject", var |-> var]
LoadArgOp(var, arg) == [op |-> "LoadArg", var |-> var, arg |-> arg]
LoadArgFloatOp(var, regs, defs) == [op |-> "LoadArgFloat", var |-> var, prev_reg |-> regs, prev_def |-> defs]
LoadArrayArgOp(var, from) == [op |-> "LoadArrayArg", var |-> var, from_arg |-> from]
LoadArgBranchOp(var, arg, required) == [op |-> "LoadArgBranch", var |-> var, arg |-> arg, req_args |-> required, pos |-> 0]
LoadSymbolOp(var, symbol) == [op |-> "LoadSymbol", var |-> var, symbol |-> symbol]
AssignOp(var, array, index, size) == [op |-> "Assign", var |-> var, array |-> array, index |-> index, size |-> size]
AssignArrayOp(var, array, index, size) == [op |-> "AssignArray", var |-> var, array |-> array, index |-> index, size |-> size]
PushOp(array, value) == [op |-> "Push", array |-> array, value |-> value]
PushArrayOp(into, from) == [op |-> "PushArray", into |-> into, from |-> from]
AssertBlockOp(var) == [op |-> "AssertBlock", var |-> var]
CaseBranchOp(value, list, label) == [op |-> "CaseBranch", value |-> value, list |-> list, pos |-> label]
ClosureOp(var, block, argc, argv) == [op |-> "Closure", var |-> var, block |-> block, argc |-> argc, argv |-> argv]
ClassOp(var, scope, name, super, block) ==
  [op |-> "Class", var |-> var, scope |-> scope, symbol |-> name, super |-> super, block |-> block]
SingletonClassOp(var, singleton, block) == [op |-> "SingletonClass", var |-> var, singleton |-> singleton, block |-> block]
ModuleOp(var, scope, name, block) == [op |-> "Module", var |-> var, scope |-> scope, symbol |-> name, block |-> block]
MethodOp(name, block) == [op |-> "Method", symbol |-> name, block |-> block]
SingletonMethodOp(singleton, name, block) ==
  [op |-> "SingletonMethod", singleton |-> singleton, symbol |-> name, block |-> block]
AliasOp(new, old) == [op |-> "Alias", new_name |-> new, old_name |-> old]
UndefOp(name) == [op |-> "Undef", name |-> name]
CallOp(var, obj, method, block, argc, argv) ==
  [op |-> "Call", var |-> var, obj |-> obj, symbol |-> method, block_var |-> block, argc |-> argc, argv |-> argv]
SuperOp(var, block, argc, argv) == [op |-> "Super", var |-> var, block_var |-> block, argc |-> argc, argv |-> argv]
VariadicCallOp(var, obj, method, block, argv) ==
  [op |-> "VariadicCall", var |-> var, obj |-> obj, symbol |-> method, block_var |-> block, array |-> argv]
VariadicSuperOp(var, block, argv) == [op |-> "VariadicSuper", var |-> var, block_var |-> block, array |-> argv]
LookupOp(var, index) == [op |-> "Lookup", var |-> var, index |-> index]
SelfOp(var) == [op |-> "Self", var |-> var]
BlockOp(var) == [op |-> "Block", var |-> var]
CreateHeapOp(var, size) == [op |-> "CreateHeap", var |-> var, size |-> size]
GetHeapVarOp(var, heap, index) == [op |-> "GetHeapVar", var |-> var, heap |-> heap, index |-> index]
SetHeapVarOp(heap, index, var) == [op |-> "SetHeapVar", heap |-> heap, index |-> index, var |-> var]
GetIVarOp(var, name) == [op |-> "GetIVar", var |-> var, symbol |-> name]
SetIVarOp(name, var) == [op |-> "SetIVar", symbol |-> name, var |-> var]
GetGlobalOp(var, name) == [op |-> "GetGlobal", var |-> var, symbol |-> name]
SetGlobalOp(name, var) == [op |-> "SetGlobal", symbol |-> name, var |-> var]
GetScopedConstOp(var, obj, name) == [op |-> "GetScopedConst", var |-> var, obj |-> obj, symbol |-> name]
SetScopedConstOp(obj, name, var) == [op |-> "SetScopedConst", obj |-> obj, symbol |-> name, var |-> var]
GetConstOp(var, name) == [op |-> "GetConst", var |-> var, symbol |-> name]
SetConstOp(name, var) == [op |-> "SetConst", symbol |-> name, var |-> var]
BranchIfOp(var, label) == [op |-> "BranchIf", var |-> var, pos |-> label]
BranchUnlessOp(var, label) == [op |-> "BranchUnless", var |-> var, pos |-> label]
BranchOp(label) == [op |-> "Branch", pos |-> label]
ReturnOp(var) == [op |-> "Return", var |-> var]
UnwindReturnOp(var, code) == [op |-> "UnwindReturn", var |-> var, code |-> code]
UnwindBreakOp(var, code, dst) == [op |-> "UnwindBreak", var |-> var, code |-> code, parent_dst |-> dst]
ArrayOp(var, argc, argv) == [op |-> "Array", var |-> var, argc |-> argc, argv |-> argv]
HashOp(var, argc, argv) == [op |-> "Hash", var |-> var, argc |-> argc, argv |-> argv]
StringOp(var, type) == [op |-> "String", var |-> var, literal |-> type]
RegexpOp(var, type) == [op |-> "Regexp", var |-> var, literal |-> type]
RangeOp(var, low, high, exclusive) == [op |-> "Range", var |-> var, low |-> low, high |-> high, literal |-> exclusive]
InterpolateOp(var, argc, argv, result) == [op |-> "Interpolate", var |-> var, argc |-> argc, argv |-> argv, literal |-> result]

\* -------------------------------------------------------------- operands
\* The instructions over registers R, positions P and blocks B.
OrNoVar(R) == R \cup {NoVar}
LoadOps(R) ==
  [op : {"LoadNil", "LoadTrue", "LoadFalse", "LoadObject", "Self", "Block"}, var : R]
  \cup [op : {"LoadFixnum", "LoadFloat", "String", "Regexp"}, var : R, literal : STRING]
  \cup [op : {"LoadSymbol", "GetIVar", "GetGlobal"}, var : R, symbol : STRING]
  \cup [op : {"GetConst"}, var : OrNoVar(R), symbol : STRING]
  \cup [op : {"GetScopedConst"}, var : OrNoVar(R), obj : R, symbol : STRING]
  \cup [op : {"Move"}, dst : R, src : R]
StoreOps(R) ==
  [op : {"SetIVar", "SetGlobal", "SetConst"}, symbol : STRING, var : R]
  \cup [op : {"SetScopedConst"}, obj : R, symbol : STRING, var : R]
  \cup [op : {"Alias"}, new_name : R, old_name : R]
  \cup [op : {"Undef"}, name : R]
ArgumentOps(R, P) ==
  [op : {"LoadArg"}, var : R, arg : Nat]
  \cup [op : {"LoadArgFloat"}, var : R, prev_reg : Nat, prev_def : Nat]
  \cup [op : {"LoadArrayArg"}, var : R, from_arg : Nat]
  \cup [op : {"LoadArgBranch"}, var : R, arg : Nat, req_args : Nat, pos : P]
BranchOps(R, P) ==
  [op : {"Branch"}, pos : P]
  \cup [op : {"BranchIf", "BranchUnless"}, var : R, pos : P]
  \cup [op : {"CaseBranch"}, value : R, list : R, pos : P]
CollectionOps(R) ==
  [op : {"Array", "Hash"}, var : R, argc : Nat, argv : OrNoVar(R)]
  \cup [op : {"Interpolate"}, var : R, argc : Nat, argv : OrNoVar(R), literal : STRING]
  \cup [op : {"Range"}, var : R, low : R, high : R, literal : STRING]
  \cup [op : {"Assign", "AssignArray"}, var : R, array : R, index : Int, size : Nat]
  \cup [op : {"Push"}, array : R, value : R]
  \cup [op : {"PushArray"}, into : R, from : R]
HeapOps(R, B) ==
  [op : {"Closure"}, var : R, block : B, argc : Nat, argv : OrNoVar(R)]
  \cup [op : {"Lookup"}, var : R, index : Nat]
  \cup [op : {"CreateHeap"}, var : R, size : Nat]
  \cup [op : {"GetHeapVar"}, var : R, heap : R, index : Nat]
  \cup [op : {"SetHeapVar"}, heap : R, index : Nat, var : R]
CallOps(R) ==
  [op : {"Call"}, var : OrNoVar(R), obj : R, symbol : STRING, block_var : OrNoVar(R), argc : Nat, argv : OrNoVar(R)]
  \cup [op : {"VariadicCall"}, var : OrNoVar(R), obj : R, symbol : STRING, block_var : OrNoVar(R), array : R]
  \cup [op : {"Super"}, var : OrNoVar(R), block_var : OrNoVar(R), argc : Nat, argv : OrNoVar(R)]
  \cup [op : {"VariadicSuper"}, var : OrNoVar(R), block_var : OrNoVar(R), array : R]
  \cup [op : {"AssertBlock"}, var : R]
ReturnOps(R, B) ==
  [op : {"Return"}, var : R]
  \cup [op : {"UnwindReturn"}, var : R, code : B]
  \cup [op : {"UnwindBreak"}, var : R, code : B, parent_dst : Int]
DefinitionOps(R, B) ==
  [op : {"Class"}, var : OrNoVar(R), scope : OrNoVar(R), symbol : STRING, super : OrNoVar(R), block : B]
  \cup [op : {"Module"}, var : OrNoVar(R), scope : OrNoVar(R), symbol : STRING, block : B]
  \cup [op : {"SingletonClass"}, var : OrNoVar(R), singleton : R, block : B]
  \cup [op : {"Method"}, symbol : STRING, block : B]
  \cup [op : {"SingletonMethod"}, singleton : R, symbol : STRING, block : B]
InstructionType(R, P, B) ==
  LoadOps(R) \cup StoreOps(R) \cup ArgumentOps(R, P) \cup BranchOps(R, P) \cup CollectionOps(R) \cup HeapOps(R, B)
  \cup CallOps(R) \cup ReturnOps(R, B) \cup DefinitionOps(R, B)

Needed == {"dst", "src", "obj", "array", "value", "list", "into", "from", "singleton", "new_name", "old_name", "heap", "low", "high"}
VarRead == {"AssertBlock", "BranchIf", "BranchUnless", "Return", "UnwindReturn", "UnwindBreak", "SetHeapVar", "SetIVar",
            "SetGlobal", "SetConst", "SetScopedConst"}
OptionalOperands == {"block_var", "scope", "super"}
MayBeUnused == {"Call", "VariadicCall", "Super", "VariadicSuper", "Class", "Module", "SingletonClass", "GetConst", "GetScopedConst"}
Fields(op, names) == {op[name] : name \in names \cap DOMAIN op}
SpanOf(op) == IF "argv" \in DOMAIN op /\ op.argc > 0 THEN op.argv..(op.argv + op.argc - 1) ELSE {}
Operands(op) ==
  Fields(op, Needed) \cup (Fields(op, OptionalOperands) \ {NoVar}) \cup SpanOf(op)
  \cup (IF op.op = "Undef" THEN {op.name} ELSE {})
  \cup (IF "var" \in DOMAIN op /\ ~(op.op \in MayBeUnused /\ op.var = NoVar) THEN {op.var} ELSE {})
ReadsOf(op) ==
  (Fields(op, Needed \ {"dst"}) \cup (Fields(op, OptionalOperands) \ {NoVar}) \cup SpanOf(op))
  \cup (IF op.op = "Undef" THEN {op.name} ELSE {})
  \cup (IF op.op \in VarRead THEN {op.var} ELSE {})
Destinations(op) ==
  Fields(op, {"dst", "into"})
  \cup (IF op.op = "Push" THEN {op.array} ELSE {})
  \cup (IF "var" \in DOMAIN op /\ op.op \notin VarRead THEN {op.var} \ {NoVar} ELSE {})

\* ---------------------------------------------------- the code of a scope
\* Where the machine may go on, and what was written then; an argument that is there skips its default.
Successors(op, i) ==
  CASE op.op \in {"Return", "UnwindReturn", "UnwindBreak"} -> {}
    [] op.op = "Branch" -> {op.pos}
    [] op.op \in {"BranchIf", "BranchUnless", "CaseBranch", "LoadArgBranch"} -> {op.pos, i + 1}
    [] OTHER -> {i + 1}
Writes(op, i, next) == IF op.op = "LoadArgBranch" /\ next = i + 1 THEN {} ELSE Destinations(op)
Registers(one) == 0..(one.vars - 1)
Locals(one) == 0..(one.locals - 1)

\* The registers written on every way to an instruction.  A way back adds none: what a loop starts
\* with was written before it.
WrittenAt(one, before, next) ==
  {var \in Registers(one) : \A i \in 1..(next - 1) : next \in Successors(one.ops[i], i) =>
                                                   var \in before[i] \cup Writes(one.ops[i], i, next)}
Latest(places) == CHOOSE i \in places : \A k \in places : k <= i
WrittenOnTheWay(one) ==
  MapThenFoldSet(LAMBDA i, before : Append(before, WrittenAt(one, before, i)), <<Locals(one)>>, LAMBDA i : i, Latest,
                 2..Len(one.ops))

\* The registers that hold heaps: that of the frame itself, copies of it, and those looked up.
MakesHeap(one, op) == op.op \in {"CreateHeap", "Lookup"} \/ (op.op = "Move" /\ op.src = one.heap)
OwnerGiven(one, id, op) == IF op.op = "Lookup" THEN one.references[op.index + 1] ELSE id
HoldsHeap(one, id, var, owner) ==
  \E i \in DOMAIN one.ops :
    MakesHeap(one, one.ops[i]) /\ var \in Destinations(one.ops[i]) /\ owner = OwnerGiven(one, id, one.ops[i])
HeapRegisters(one) ==
  {var \in Registers(one) : \E i \in DOMAIN one.ops : MakesHeap(one, one.ops[i]) /\ var \in Destinations(one.ops[i])}

\* ------------------------------------------------- what the code must keep
\* Operands stay in the frame, branches in the code, and what is read was written.
OperandsKept(c, one, written, i) ==
  LET op == one.ops[i]
  IN /\ op \in InstructionType(Registers(one), DOMAIN one.ops, DOMAIN c)
     /\ SpanOf(op) \subseteq Registers(one)
     /\ ReadsOf(op) \subseteq written[i]
     /\ \A next \in Successors(op, i) :
          next \in DOMAIN one.ops /\ written[next] \subseteq written[i] \cup Writes(op, i, next)
\* Arguments that are loaded unasked are there, and elements are looked for within an array.
IndicesKept(one, op) ==
  /\ op.op = "LoadArg" => op.arg < one.min
  /\ op.op = "LoadArgFloat" => op.prev_reg < one.min
  /\ op.op = "LoadArgBranch" => op.arg < op.req_args
  /\ op.op = "Assign" => -op.size <= op.index + 1
  /\ op.op = "AssignArray" => op.index \in 0..op.size
\* A register is for heaps of one scope or for none.
HeapRegistersKept(one, id) ==
  /\ HeapRegisters(one) \cap Locals(one) = {}
  /\ \A i \in DOMAIN one.ops :
       ~MakesHeap(one, one.ops[i]) => Destinations(one.ops[i]) \cap HeapRegisters(one) = {}
  /\ \A var \in HeapRegisters(one) : \A i, k \in DOMAIN one.ops :
       (/\ MakesHeap(one, one.ops[i]) /\ var \in Destinations(one.ops[i])
        /\ MakesHeap(one, one.ops[k]) /\ var \in Destinations(one.ops[k]))
       => OwnerGiven(one, id, one.ops[i]) = OwnerGiven(one, id, one.ops[k])
\* Heaps are made, looked up and used as the scopes they belong to have them.
HeapsKept(c, one, id, written, i) ==
  LET op == one.ops[i]
  IN /\ op.op = "CreateHeap" => op.var = one.heap /\ op.size = one.heapVars
     /\ op.op = "Lookup" => op.index + 1 \in DOMAIN one.references
     /\ op.op = "Move" /\ op.src = one.heap => one.heap \in written[i] /\ HoldsHeap(one, id, one.heap, id)
     /\ op.op \in {"GetHeapVar", "SetHeapVar"} =>
          \E owner \in DOMAIN c : HoldsHeap(one, id, op.heap, owner) /\ op.index < c[owner].heapVars
     /\ op.op = "Closure" =>
          /\ op.argc = Len(c[op.block].references)
          /\ \A k \in 1..op.argc : HoldsHeap(one, id, op.argv + k - 1, c[op.block].references[k])
\* Code that is no closure's is run with no heaps, and a break writes where its call may.
ScopesKept(c, id, op) ==
  /\ op.op \in {"Class", "Module", "SingletonClass", "Method", "SingletonMethod"} => c[op.block].references = <<>>
  /\ op.op = "UnwindBreak" =>
       op.code # id /\ op.parent_dst \in OrNoVar(Registers(c[op.code]) \ HeapRegisters(c[op.code]))

VerifiedScope(c, id) ==
  LET one == c[id]
      written == WrittenOnTheWay(one)
  IN /\ one.ops # <<>> /\ written[1] \subseteq Locals(one) /\ one.locals <= one.vars
     /\ HeapRegistersKept(one, id)
     /\ \A i \in DOMAIN one.ops :
          /\ OperandsKept(c, one, written, i) /\ IndicesKept(one, one.ops[i])
          /\ HeapsKept(c, one, id, written, i) /\ ScopesKept(c, id, one.ops[i])
CodeShape(one, ids) ==
  /\ Len(one.ops) \in Nat /\ DOMAIN one.ops = 1..Len(one.ops)
  /\ one.vars \in Nat /\ one.locals \in Nat /\ one.heapVars \in Nat /\ one.min \in Nat
  /\ one.references \in Seq(ids)
Verified(c) ==
  /\ c # <<>> /\ DOMAIN c = 1..Len(c) /\ c[1].references = <<>>
  /\ \A id \in DOMAIN c : CodeShape(c[id], DOMAIN c) /\ VerifiedScope(c, id)
=============================================================================
