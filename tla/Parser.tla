------------------------------- MODULE Parser -------------------------------
(***************************************************************************)
(* The parser, a recursive descent over the lexemes of a text              *)
(* (parser/*.cpp): one operator for each of its functions, from a state of *)
(* the parser to the next.  A function's result, a node of the tree, is    *)
(* the field n of the state it leaves.  Lexemes are given (Lexer models    *)
(* how they are read); messages are a set of kinds, without their places.  *)
(***************************************************************************)
EXTENDS Integers, Sequences, FiniteSets

CONSTANTS Programs,       \* what is parsed
          LexemesOf(_),   \* the lexemes of a program
          ConstantNames   \* the names that start with a capital letter

VARIABLES program, stage, s
vars == <<program, stage, s>>

\* ------------------------------------------------------------------- nodes
\* ref tells which variable, jump, loop or scope a node stands for.
Node(kind, name, kids) == [kind |-> kind, name |-> name, kids |-> kids, ref |-> <<0, 0>>]
Null == Node("Null", "", <<>>)
Nil == Node("Nil", "", <<>>)
Self == Node("Self", "", <<>>)
SymbolNode(name) == Node("Symbol", name, <<>>)
Constant(object, name) == Node("Constant", name, <<object>>)
Binary(op, left, right) == Node("BinaryOp", op, <<left, right>>)
Assignment(left, right) == Node("Assignment", "", <<left, right>>)
If(condition, then, else) == Node("If", "", <<condition, then, else>>)
Unless(condition, then, else) == Node("If", "inverted", <<condition, then, else>>)
Group(statements) == Node("Group", "", statements)
Splat(expression) == Node("Splat", "", <<expression>>)
Multiple(expressions) == Node("MultipleExpressions", "", expressions)
Variable(name, owner, index) == [Node("Variable", name, <<>>) EXCEPT !.ref = <<owner, index>>]
BlockArg(expression) == Node("BlockArg", "", <<expression>>)

\* A Call that can be a variable is an Ident, one in brackets a Subscript; kids are the object,
\* the block (a BlockArg, a Scope or Null) and the arguments.
Call(kind, object, method, block, arguments) == Node(kind, method, <<object, block>> \o arguments)
CallKinds == {"Call", "Ident", "Subscript"}
Arguments(call) == SubSeq(call.kids, 3, Len(call.kids))
IsMultiple(node) == node.kind = "MultipleExpressions"

\* ----------------------------------------------------------------- lexemes
Keywords == {"KW_IF", "KW_UNLESS", "KW_ELSE", "KW_ELSIF", "KW_THEN", "KW_WHILE", "KW_UNTIL", "KW_FOR", "KW_IN",
  "KW_WHEN", "KW_CASE", "KW_BEGIN", "KW_ENSURE", "KW_RESCUE", "KW_CLASS", "KW_MODULE", "KW_DEF", "KW_ALIAS",
  "KW_UNDEF", "KW_DEFINED", "KW_SELF", "KW_DO", "KW_YIELD", "KW_RETURN", "KW_BREAK", "KW_NEXT", "KW_REDO",
  "KW_SUPER", "KW_TRUE", "KW_FALSE", "KW_NIL", "KW_NOT", "KW_AND", "KW_OR", "KW_SPECIAL_FILE",
  "KW_SPECIAL_LINE", "KW_SPECIAL_BEGIN", "KW_SPECIAL_END", "KW_END"}
Precedence == [op \in {"MUL", "DIV", "MOD", "ADD", "SUB", "LEFT_SHIFT", "RIGHT_SHIFT", "AMPERSAND", "BITWISE_XOR",
    "BITWISE_OR", "LOGICAL_AND", "LOGICAL_OR", "GREATER", "GREATER_OR_EQUAL", "LESS", "LESS_OR_EQUAL", "COMPARE",
    "EQUALITY", "CASE_EQUALITY", "NO_EQUALITY", "MATCHES", "NOT_MATCHES"} |->
  CASE op \in {"MUL", "DIV", "MOD"} -> 8
    [] op \in {"ADD", "SUB"} -> 7
    [] op \in {"LEFT_SHIFT", "RIGHT_SHIFT"} -> 6
    [] op = "AMPERSAND" -> 5
    [] op \in {"BITWISE_XOR", "BITWISE_OR"} -> 4
    [] op \in {"GREATER", "GREATER_OR_EQUAL", "LESS", "LESS_OR_EQUAL"} -> 3
    [] op = "LOGICAL_AND" -> 1
    [] op = "LOGICAL_OR" -> 0
    [] OTHER -> 2]
AssignToOperator == [ASSIGN_POWER |-> "POWER", ASSIGN_MUL |-> "MUL", ASSIGN_DIV |-> "DIV", ASSIGN_MOD |-> "MOD",
  ASSIGN_ADD |-> "ADD", ASSIGN_SUB |-> "SUB", ASSIGN_LEFT_SHIFT |-> "LEFT_SHIFT",
  ASSIGN_RIGHT_SHIFT |-> "RIGHT_SHIFT", ASSIGN_BITWISE_AND |-> "AMPERSAND", ASSIGN_BITWISE_XOR |-> "BITWISE_XOR",
  ASSIGN_BITWISE_OR |-> "BITWISE_OR", ASSIGN_LOGICAL_AND |-> "LOGICAL_AND", ASSIGN_LOGICAL_OR |-> "LOGICAL_OR"]
IsAssignmentOp == DOMAIN AssignToOperator \cup {"ASSIGN"}
NameOperators == (DOMAIN Precedence \ {"LOGICAL_AND", "LOGICAL_OR"})
                   \cup {"EXT_IDENT", "POWER", "BITWISE_NOT", "LOGICAL_NOT", "BACKTICK"}

NoText == <<[type |-> "END", name |-> "", ws |-> FALSE, piece |-> ""]>>
Lexeme(p) == p.text[p.at]

\* Lexer::step; where keywords are off, one is read as a name.
Step(p) ==
  LET next == IF p.at < Len(p.text) THEN p.at + 1 ELSE p.at
      type == IF p.keywords \/ p.text[next].type \notin Keywords THEN p.text[next].type ELSE "IDENT"
  IN [p EXCEPT !.at = next, !.type = type]
WhitespaceAfter(p) == LET after == Step(p) IN Lexeme(after).ws \/ after.type = "LINE"
Got(p, node) == [p EXCEPT !.n = node]
Report(p, message) == [p EXCEPT !.errors = @ \cup {message}]
ReportIf(condition, p, message) == IF condition THEN Report(p, message) ELSE p
Expected(p, type) == Report(p, "Expected " \o type)
\* Mutant of Match: what is there is taken for what should be.
MatchAnything(p, type) == Step(p)
Match(p, type) == IF p.type = type THEN Step(p) ELSE Expected(p, type)
KeywordsOff(p) == [p EXCEPT !.keywords = FALSE]
KeywordsOn(p) == [p EXCEPT !.keywords = TRUE]

RECURSIVE SkipLines(_), SkipSeps(_), SkipCommas(_), SkipStars(_)
SkipLines(p) == IF p.type = "LINE" THEN SkipLines(Step(p)) ELSE p
StepLines(p) == SkipLines(Step(p))
IsSep(p) == p.type \in {"SEMICOLON", "LINE"}
SkipSeps(p) == IF IsSep(p) THEN SkipSeps(Step(p)) ELSE p
ParseSep(p) == IF IsSep(p) THEN Step(p) ELSE Expected(p, "SEMICOLON")
SkipCommas(p) == IF p.type = "COMMA" THEN SkipCommas(StepLines(p)) ELSE p
StepComma(p) ==
  LET next == StepLines(p)
  IN IF next.type = "COMMA" THEN Report(SkipCommas(next), "Unexpected multiple commas") ELSE next
SkipStars(p) == IF p.type = "MUL" THEN SkipStars(Step(p)) ELSE p
ClosePair(p, name, type) ==
  LET end == SkipLines(p)
  IN IF end.type = type THEN Step(end) ELSE Report(end, "Unterminated " \o name)

\* State: what allow_do and allow_colon were is put back at the end of the function.
Restored(p, end) == [end EXCEPT !.doOk = p.doOk, !.colonOk = p.colonOk]

\* typecheck: multiple expressions are no operand; with a function, it runs without one.
Typecheck(p) == IF p.n.kind = "MultipleExpressions" THEN Report(Got(p, Null), "Unexpected multiple expressions") ELSE p
Checked(p) == IF p.n.kind = "MultipleExpressions" THEN Got(p, Null) ELSE p
Unchecked(p, end) == IF p.n.kind = "MultipleExpressions" THEN Got(end, p.n) ELSE end
Left(p, F(_)) == Unchecked(p, F(Checked(p)))

IsExpression(p) ==
  \/ p.type \in {"IDENT", "EXT_IDENT", "CVAR", "IVAR", "GLOBAL", "ADD", "SUB", "MUL", "DIV", "ASSIGN_DIV", "MOD",
            "ASSIGN_MOD", "LEFT_SHIFT", "INTEGER", "HEX", "BLOCK_POINT", "OCTAL", "BINARY", "REAL", "BITWISE_NOT",
            "LOGICAL_NOT", "PARENT_OPEN", "SQUARE_OPEN", "CURLY_OPEN", "COLON", "SCOPE", "QUESTION"}
  \/ p.type \in Keywords \ {"KW_ELSE", "KW_ELSIF", "KW_THEN", "KW_IN", "KW_WHEN", "KW_ENSURE", "KW_RESCUE", "KW_ALIAS",
                       "KW_UNDEF", "KW_DO", "KW_AND", "KW_OR", "KW_END"}
  \/ /\ p.type \in {"STRING", "REGEXP", "ARRAY", "SYMBOL", "COMMAND"}
     /\ Lexeme(p).piece \in {"Plain", "Starting"}
IsStatement(p) == p.type \in {"KW_ALIAS", "KW_UNDEF"} \/ IsExpression(p)
IsLookup(p) == p.type \in {"SQUARE_OPEN", "SCOPE", "DOT"}
IsParameter(p) == p.type \in {"PARENT_OPEN", "AMPERSAND", "MUL", "IDENT"}
IsJumpArgument(p) ==
  CASE p.type \in {"KW_UNLESS", "KW_IF", "KW_UNTIL", "KW_WHILE"} -> FALSE
    [] p.type = "COLON" -> IF p.colonOk THEN Lexeme(p).ws ELSE ~WhitespaceAfter(p)
    [] OTHER -> IsExpression(p)
HasArguments(p) ==
  /\ IsJumpArgument(p) \/ p.type = "AMPERSAND"
  /\ CASE p.type \in {"SQUARE_OPEN", "SCOPE"} -> Lexeme(p).ws
       [] p.type \in {"ADD", "SUB", "MUL", "MOD", "DIV", "QUESTION", "AMPERSAND", "LEFT_SHIFT"} ->
            Lexeme(p).ws /\ ~WhitespaceAfter(p)
       [] p.type \in {"ASSIGN_DIV", "ASSIGN_MOD", "CURLY_OPEN"} -> FALSE
       [] OTHER -> TRUE

\* ------------------------------------------------------------------ scopes
NewTrapper(prev, base) == [prev |-> prev, base |-> base, ensure |-> FALSE, target |-> 0]

\* allocate_scope: a scope has a trapper of its own; the current one becomes that of the
\* scope around, also where a begin, a loop or a statement was collecting jumps.
AllocateScope(p, type) ==
  LET id == Len(p.scopes) + 1
      new == [type |-> type, parent |-> p.scope,
              owner |-> IF type \in {"Top", "Method"} THEN id ELSE p.scopes[p.scope].owner,
              variables |-> <<>>, heapVars |-> 0, references |-> <<>>, zsupers |-> <<>>,
              parameters |-> <<>>, array |-> Null, block |-> Null, trapper |-> Len(p.trappers) + 1]
  IN [p EXCEPT !.scopes = Append(@, new), !.trappers = Append(@, NewTrapper(0, TRUE)),
               !.trapper = IF p.scope = 0 THEN 0 ELSE p.scopes[p.scope].trapper]
ScopeEntered(p, id) ==
  [p EXCEPT !.doOk = TRUE, !.colonOk = FALSE, !.scope = id, !.trapper = p.scopes[id].trapper]
ScopeLeft(p, end) == [Restored(p, end) EXCEPT !.scope = p.scope, !.trapper = p.trapper]
EnterScope(p, id, F(_)) == ScopeLeft(p, F(ScopeEntered(p, id)))
InNewScope(p, type, F(_)) == LET in == AllocateScope(p, type) IN EnterScope(in, Len(in.scopes), F)
Scope(p) == p.scopes[p.scope]

\* The tree of a scope: its parameters and what it runs.
ScopeNode(p, id, group) ==
  LET scope == p.scopes[id]
      named == SelectSeq(scope.parameters \o <<scope.array, scope.block>>, LAMBDA node : node # Null)
  IN [Node("Scope", scope.type, <<Node("Parameters", "", named), group>>) EXCEPT !.ref = <<id, 0>>]

\* alloc_var and define: a variable has its place in the frame until a closure needs it.
AllocVar(p, name) ==
  [p EXCEPT !.scopes[p.scope].variables = Append(@, [name |-> name, heap |-> FALSE, loc |-> Len(@)])]
LastVar(p) == Len(Scope(p).variables)
NewTemporary(p) == LET in == AllocVar(p, "") IN Got(in, Variable("", in.scope, LastVar(in)))
NewParameter(p, kind, name) ==
  LET in == AllocVar(p, name) IN Got(in, [Node(kind, name, <<Null>>) EXCEPT !.ref = <<in.scope, LastVar(in)>>])
Discarded(p) == [p EXCEPT !.n.name = "discarded"]
AsVariable(parameter) == Variable(parameter.name, parameter.ref[1], parameter.ref[2])
Index(variables, name) ==
  IF \E i \in 1..Len(variables) : variables[i].name = name
  THEN CHOOSE i \in 1..Len(variables) : variables[i].name = name ELSE 0

RECURSIVE DefiningScope(_, _, _)
\* Mutant of DefiningScope: a method sees the variables around it.
DefiningScopeAround(p, id, name) ==
  CASE Index(p.scopes[id].variables, name) # 0 -> id
    [] p.scopes[id].parent # 0 -> DefiningScope(p, p.scopes[id].parent, name)
    [] OTHER -> 0
DefiningScope(p, id, name) ==
  CASE Index(p.scopes[id].variables, name) # 0 -> id
    [] p.scopes[id].type = "Closure" -> DefiningScope(p, p.scopes[id].parent, name)
    [] OTHER -> 0
Defined(p, name) == DefiningScope(p, p.scope, name) # 0
DefinedHere(p, name) == Index(Scope(p).variables, name) # 0

\* The owner of a variable is noted in the scope that uses it and in each up to the owner.
Noted(list, owner) == IF \E i \in DOMAIN list : list[i] = owner THEN list ELSE Append(list, owner)
RECURSIVE RequireScope(_, _, _)
\* Mutant of RequireScope: only the scope that uses the variable knows its owner.
RequireScopeOnce(p, id, owner) == IF id = owner THEN p ELSE [p EXCEPT !.scopes[id].references = Noted(@, owner)]
RequireScope(p, id, owner) ==
  IF id = owner THEN p
  ELSE RequireScope([p EXCEPT !.scopes[id].references = Noted(@, owner)], p.scopes[id].parent, owner)
RequireVar(p, from, owner, i) ==
  LET variable == p.scopes[owner].variables[i]
      heap == IF variable.heap THEN p
              ELSE [p EXCEPT !.scopes[owner].variables[i] = [variable EXCEPT !.heap = TRUE, !.loc = p.scopes[owner].heapVars],
                             !.scopes[owner].heapVars = @ + 1]
  IN RequireScope(heap, from, owner)
GetVar(p, name) ==
  LET owner == DefiningScope(p, p.scope, name)
      in == IF owner = 0 THEN AllocVar(p, name)
            ELSE IF owner = p.scope THEN p
            ELSE RequireVar(p, p.scope, owner, Index(p.scopes[owner].variables, name))
      place == IF owner = 0 THEN p.scope ELSE owner
  IN Got(in, Variable(name, place, Index(in.scopes[place].variables, name)))
ParseVariable(p, name) ==
  IF name \in ConstantNames THEN Got(p, Constant(Null, name)) ELSE GetVar(p, name)

\* ------------------------------------------------------------------- jumps
\* trap: jumps met by F are collected for the begin, loop or statement it is part of.
Trapping(p) == [p EXCEPT !.trappers = Append(@, NewTrapper(p.trapper, FALSE)), !.trapper = Len(p.trappers) + 1]
Trapped(p, F(_)) == [F(Trapping(p)) EXCEPT !.trapper = p.trapper]
TrapperOf(p) == Len(p.trappers) + 1

\* raise_void; a return goes to the scope's trapper at once.
RECURSIVE BaseTrapper(_, _)
BaseTrapper(p, t) == IF p.trappers[t].base THEN t ELSE BaseTrapper(p, p.trappers[t].prev)
RaiseVoid(p, kind, value) ==
  LET trapper == IF kind = "Return" THEN BaseTrapper(p, p.trapper) ELSE p.trapper
  IN [p EXCEPT !.jumps = Append(@, [kind |-> kind, scope |-> p.scope, trapper |-> trapper, target |-> 0, ensure |-> FALSE]),
               !.n = [Node(kind, "", <<value>>) EXCEPT !.ref = <<Len(p.jumps) + 1, 0>>]]

\* parse_done: a jump ends at the first trapper on its way up that belongs to a loop.
RECURSIVE Passed(_, _)
Passed(p, t) == IF p.trappers[t].base \/ p.trappers[t].target # 0 THEN <<t>> ELSE <<t>> \o Passed(p, p.trappers[t].prev)
\* Mutant of ParseDoneJump: an ensure group further out is not noted.
ParseDoneJumpInner(p, jump) ==
  LET way == Passed(p, jump.trapper)
  IN [jump EXCEPT !.target = p.trappers[way[Len(way)]].target, !.ensure = p.trappers[way[1]].ensure]
ParseDoneJump(p, jump) ==
  LET way == Passed(p, jump.trapper)
  IN [jump EXCEPT !.target = p.trappers[way[Len(way)]].target, !.ensure = \E i \in DOMAIN way : p.trappers[way[i]].ensure]
OutsideOfBlock(p, jump) == jump.target = 0 /\ jump.kind # "Return" /\ p.scopes[jump.scope].type # "Closure"
ParseDone(p) ==
  LET jumps == [i \in DOMAIN p.jumps |-> ParseDoneJump(p, p.jumps[i])]
  IN ReportIf(\E i \in DOMAIN jumps : OutsideOfBlock(p, jumps[i]), [p EXCEPT !.jumps = jumps], "Jump outside of block")

\* The functions below call one another; a call of one that is not defined yet, or that calls
\* back, goes through Parsed (at the end), by name.
RECURSIVE Parsed(_, _)
RECURSIVE BooleanOperators(_), MoreExpressions(_, _, _), PrecedenceOperators(_, _), Lookups(_), ParseElements(_),
  ParseEntries(_), ProcessLhs(_, _, _), ProcessElements(_, _, _, _), ParseStrings(_), ParseIfTail(_), ParseClauses(_),
  ParseUndefEntries(_), MoreStatements(_, _), SkipStatements(_), TopLookups(_)

ParseGroup(p) == Typecheck(Parsed("Statements", <<p>>))
ParseExpression(p) == Typecheck(Parsed("Boolean", <<p>>))
ParseStatement(p) == Parsed("TailingLoop", <<p>>)

\* ------------------------------------------------------------- assignments
\* process_rhs: what may not stand among the expressions on the right of an assignment.
ProcessRhs(p) ==
  IF ~IsMultiple(p.n) THEN p
  ELSE ReportIf(Null \in {p.n.kids[i] : i \in DOMAIN p.n.kids},
         ReportIf(Splat(Null) \in {p.n.kids[i] : i \in DOMAIN p.n.kids}, p, "Expected argument with splat operator"),
         "Unexpected trailing comma")
ParseOperatorExpression(p) == Typecheck(ProcessRhs(Parsed("Assignment", <<p, FALSE, FALSE>>)))
ParseEnsureMultipleExpressions(p, nested) ==
  LET in == ProcessRhs(Parsed("MultipleExpressions", <<p, TRUE, nested>>))
  IN IF in.n = Null \/ IsMultiple(in.n) THEN in ELSE Got(in, Multiple(<<in.n>>))
ParseSplatOperatorExpression(p) ==
  LET in == ProcessRhs(Parsed("MultipleExpressions", <<p, FALSE, TRUE>>))
  IN IF IsMultiple(in.n) THEN Got(in, in.n.kids[1]) ELSE in

ParseSplatExpression(p, multiples, nested) ==
  LET splat == p.type = "MUL"
      many == Step(p).type = "MUL"
      in == IF many THEN Report(SkipStars(p), "Nested splat operators are not allowed") ELSE Step(p)
      Operand(at) == IF nested THEN Parsed("Assignment", <<at, FALSE, FALSE>>) ELSE Parsed("TernaryIf", <<at, multiples>>)
      value == IF IsExpression(in) THEN Typecheck(Operand(in)) ELSE Got(in, Null)
  IN IF splat THEN Got(value, Splat(value.n)) ELSE Operand(p)
MoreExpressions(p, nested, list) ==
  LET next == StepComma(p)
      in == Parsed("SplatExpression", <<next, TRUE, nested>>)
  IN CASE p.type # "COMMA" -> Got(p, Multiple(list))
       [] ~IsExpression(next) -> MoreExpressions(next, nested, Append(list, Null))
       [] OTHER -> MoreExpressions(in, nested, IF in.n = Null THEN list ELSE Append(list, in.n))
ParseMultipleExpressions(p, multiples, nested) ==
  LET in == Parsed("SplatExpression", <<p, multiples, nested>>)
      splat == in.n.kind = "Splat"
  IN CASE multiples /\ (splat \/ in.type = "COMMA") -> MoreExpressions(in, nested, <<in.n>>)
       [] ~multiples /\ splat -> Got(in, Multiple(<<in.n>>))
       [] OTHER -> in
ParseAssignment(p, multiples, nested) ==
  LET in == Parsed("MultipleExpressions", <<p, multiples, nested>>)
  IN IF in.type \in IsAssignmentOp THEN Parsed("ProcessAssignment", <<in, multiples>>) ELSE in

Handler(code, rescues, else, ensure) == Node("Handler", "", <<code, else, ensure>> \o rescues)
Rescue(pattern, variable, group) == Node("Rescue", "", <<pattern, variable, group>>)
RescueWith(p, in) == Got(in, Handler(p.n, <<Rescue(Null, Null, in.n)>>, Null, Null))
ParseHighRescue(p, multiples) ==
  LET in == ProcessRhs(Parsed("Assignment", <<p, multiples, TRUE>>))
  IN IF in.type = "KW_RESCUE" /\ ~IsMultiple(in.n) THEN RescueWith(in, ParseOperatorExpression(StepLines(in))) ELSE in

BuildAssignment(p, multiples) ==
  LET op == p.type
      in == ParseHighRescue(StepLines(p), multiples)
  IN Got(in, Assignment(p.n, IF op = "ASSIGN" THEN in.n ELSE Binary(AssignToOperator[op], p.n, in.n)))

\* x.m += v: the object, the arguments and the block are evaluated once, into variables.
OperatorCall(p, multiples) ==
  LET call == p.n
      object == NewTemporary(p)
      hasBlock == call.kids[2] # Null
      block == IF hasBlock THEN NewTemporary(object) ELSE object
      list == NewTemporary(block)
      passed == IF hasBlock THEN BlockArg(block.n) ELSE Null
      in == ParseHighRescue(StepLines(list), multiples)
      read == Call(call.kind, object.n, call.name, passed, <<Splat(list.n)>>)
      value == Binary(AssignToOperator[p.type], read, in.n)
      write == Call("Call", object.n, call.name \o "=", passed, <<Splat(list.n), value>>)
      saved == <<Assignment(object.n, call.kids[1])>>
               \o (IF hasBlock THEN <<Assignment(block.n, call.kids[2].kids[1])>> ELSE <<>>)
               \o <<Assignment(list.n, Multiple(Arguments(call)))>>
  IN Got(ReportIf(IsMultiple(in.n), in, "Can only use regular assign with multiple expression assignment"),
         Group(Append(saved, write)))
AttributeAssignment(p, multiples) ==
  LET in == ParseHighRescue(StepLines(p), multiples)
  IN Got(in, [p.n EXCEPT !.name = @ \o "=", !.kids = IF in.n = Null THEN @ ELSE Append(@, in.n)])
MultipleAssignment(p, multiples) ==
  LET named == ProcessElements(ReportIf(p.type # "ASSIGN", StepLines(p),
                 "Can only use regular assign with multiple expression assignment"), p.n, 1, FALSE)
      in == ParseHighRescue(named, multiples)
  IN Got(in, Assignment(named.n, in.n))
AssignToOperand(p, multiples) ==
  LET in == Parsed("ProcessAssignment", <<Got(p, p.n.kids[2]), multiples>>) IN Got(in, [p.n EXCEPT !.kids[2] = in.n])
NotAssignable(p, multiples) ==
  Got(ParseHighRescue(StepLines(Report(p, "Cannot assign a value to an expression")), multiples), p.n)
IsAttribute(node) == node.kind = "Subscript" \/ (node.kind = "Call" /\ Len(node.kids) = 2 /\ node.kids[2] = Null)
ProcessAssignment(p, multiples) ==
  CASE p.n = Null -> ParseHighRescue(Step(p), multiples)
    [] p.n.kind = "BinaryOp" -> AssignToOperand(p, multiples)
    [] IsMultiple(p.n) -> MultipleAssignment(p, multiples)
    [] p.n.kind = "Ident" /\ Len(p.n.kids) = 2 /\ p.n.kids[2] = Null ->
         BuildAssignment(ParseVariable(p, p.n.name), multiples)
    [] IsAttribute(p.n) /\ p.type = "ASSIGN" -> AttributeAssignment(p, multiples)
    [] IsAttribute(p.n) -> OperatorCall(p, multiples)
    [] p.n.kind \in {"Global", "Variable", "Constant", "IVar", "CVar"} -> BuildAssignment(p, multiples)
    [] OTHER -> NotAssignable(p, multiples)

\* process_lhs: the node on the left of an assignment or a group of parameters.
ProcessLhs(p, node, parameter) ==
  LET invalid == Report(Got(p, node), "Not assignable")
      inner == ProcessLhs(p, node.kids[1], FALSE)
  IN CASE node = Null -> Got(p, node)
       [] node.kind = "Group" /\ Len(node.kids) = 1 -> ProcessElements(p, Multiple(node.kids), 1, parameter)
       [] IsMultiple(node) -> ProcessElements(p, node, 1, parameter)
       [] node.kind \in {"CVar", "IVar", "Global", "Constant"} -> IF parameter THEN invalid ELSE Got(p, node)
       [] node.kind = "Variable" -> ReportIf(parameter, Got(p, node), "Variable already defined")
       [] node.kind = "Ident" -> ParseVariable(p, node.name)
       [] ~parameter /\ IsAttribute(node) -> Got(p, [node EXCEPT !.name = @ \o "="])
       [] node.kind = "Splat" -> ReportIf(IsMultiple(inner.n), Got(inner, Splat(inner.n)),
                                          "Cannot use the splat operator on multiple expressions")
       [] OTHER -> invalid
ProcessElements(p, node, i, parameter) ==
  LET open == node.kids[i] = Null \/ node.kids[i].kind = "Splat"
      second == open /\ \E j \in 1..(i - 1) : node.kids[j] = Null \/ node.kids[j].kind = "Splat"
      in == ProcessLhs(ReportIf(second, p, "You can only have one splat operator on the left-hand side"),
                       node.kids[i], parameter)
  IN IF i > Len(node.kids) THEN Got(p, node)
     ELSE ProcessElements(in, [node EXCEPT !.kids[i] = in.n], i + 1, parameter)

\* --------------------------------------------------------------- operators
ParseUnary(p) ==
  LET type == p.type
      in == Typecheck(Parsed("Unary", <<Step(p)>>))
      op == IF type \in {"ADD", "SUB"} THEN "UNARY_" \o type ELSE type
  IN IF type \in {"BITWISE_NOT", "LOGICAL_NOT", "ADD", "SUB"} THEN Got(in, Node("UnaryOp", op, <<in.n>>))
     ELSE Parsed("Power", <<p>>)
ParsePower(p) ==
  LET base == Parsed("LookupChain", <<p>>)
      Power(l) == LET in == Typecheck(Parsed("Unary", <<Step(l)>>)) IN Got(in, Binary("POWER", l.n, in.n))
  IN IF base.type = "POWER" THEN Left(base, Power) ELSE base

\* Precedence climbing: operands to the right that bind tighter are taken first.
\* Mutant of HigherOperators: operators of one precedence group to the right.
HigherOperatorsRight(p, precedence) ==
  LET op == p.type
  IN IF op \in DOMAIN Precedence /\ Precedence[op] >= precedence
     THEN Parsed("HigherOperators", <<Typecheck(PrecedenceOperators(p, Precedence[op])), precedence>>) ELSE p
HigherOperators(p, precedence) ==
  LET op == p.type
  IN IF op \in DOMAIN Precedence /\ Precedence[op] > precedence
     THEN Parsed("HigherOperators", <<Typecheck(PrecedenceOperators(p, Precedence[op])), precedence>>) ELSE p
PrecedenceOperators(p, min) ==
  LET op == p.type
      Operation(l) == LET in == Parsed("HigherOperators", <<Typecheck(Parsed("Unary", <<StepLines(l)>>)), Precedence[op]>>)
                      IN Got(in, Binary(op, l.n, in.n))
  IN IF op \in DOMAIN Precedence /\ Precedence[op] >= min THEN PrecedenceOperators(Left(p, Operation), min) ELSE p
ParsePrecedenceOperator(p) == PrecedenceOperators(Parsed("Unary", <<p>>), 0)

ParseRange(p) ==
  LET left == ParsePrecedenceOperator(p)
      kind == left.type
      Range(l) == LET in == ParsePrecedenceOperator(StepLines(l)) IN Got(in, Node("Range", kind, <<l.n, in.n>>))
  IN IF kind \in {"RANGE_EXCL", "RANGE_INCL"} THEN Left(left, Range) ELSE left
ParseTernaryIf(p, multiples) ==
  LET condition == Parsed("Range", <<p>>)
      Ternary(l) ==
        LET middle == Restored(l, ParseOperatorExpression([StepLines(l) EXCEPT !.colonOk = FALSE]))
            right == ParseOperatorExpression(SkipLines(ClosePair(middle, "ternary if", "COLON")))
        IN Got(right, If(l.n, middle.n, right.n))
  IN IF condition.type = "QUESTION" THEN Left(condition, Ternary) ELSE condition

ParseBooleanUnary(p) ==
  LET in == Parsed("BooleanUnary", <<StepLines(p)>>)
      Not(l) == Got(l, Node("BooleanNot", "", <<l.n>>))
  IN IF p.type = "KW_NOT" THEN Left(in, Not) ELSE Parsed("Assignment", <<p, TRUE, FALSE>>)
BooleanOperators(p) ==
  LET op == IF p.type = "KW_AND" THEN "LOGICAL_AND" ELSE "LOGICAL_OR"
      Operation(l) == LET in == Parsed("BooleanUnary", <<StepLines(l)>>) IN Got(in, Binary(op, l.n, in.n))
  IN IF p.type \in {"KW_AND", "KW_OR"} THEN BooleanOperators(Left(p, Operation)) ELSE p
ParseBoolean(p) == BooleanOperators(Parsed("BooleanUnary", <<p>>))

\* -------------------------------------------------------------- statements
ParseMethodName(p) ==
  LET next == Step(p)
      setter == next.type = "ASSIGN" /\ ~Lexeme(next).ws
      close == Match(next, "SQUARE_CLOSE")
      brackets == ~Lexeme(next).ws /\ next.type = "SQUARE_CLOSE"
      assign == ~Lexeme(close).ws /\ close.type = "ASSIGN"
  IN CASE p.type = "IDENT" /\ setter -> Got(Step(next), SymbolNode(Lexeme(p).name \o "="))
       [] p.type = "IDENT" -> Got(next, SymbolNode(Lexeme(p).name))
       [] p.type \in NameOperators -> Got(next, SymbolNode(Lexeme(p).name))
       [] p.type = "SQUARE_OPEN" /\ Lexeme(next).ws -> Got(next, SymbolNode(""))
       [] p.type = "SQUARE_OPEN" /\ ~brackets -> Got(close, SymbolNode(""))
       [] p.type = "SQUARE_OPEN" /\ assign -> Got(Step(close), SymbolNode("[]="))
       [] p.type = "SQUARE_OPEN" -> Got(close, SymbolNode("[]"))
       [] OTHER -> Got(Expected(p, "IDENT"), SymbolNode(""))

ParseInterpolation(p, list) ==
  LET token == p.type
      in == ParseGroup(Step(p))
      end == SkipLines(in)
      groups == Append(list, in.n)
  IN CASE end.type = token /\ Lexeme(end).piece = "Continuing" -> Parsed("Interpolation", <<end, groups>>)
       [] end.type = token /\ Lexeme(end).piece = "Ending" -> Got(end, Node("Interpolate", "", groups))
       [] OTHER -> Got(Report(end, "Unterminated interpolate sequence"), Node("Interpolate", "broken", groups))
ParseLiteral(p, type, keywords) ==
  LET in == Parsed("Interpolation", <<p, <<>>>>)
      end == IF in.n.name = "broken" THEN in ELSE Step([in EXCEPT !.keywords = keywords])
  IN CASE Lexeme(p).piece = "Plain" -> Got(Step(p), Node("Data", type, <<>>))
       [] Lexeme(p).piece = "Starting" -> Got(end, Node("Interpolate", type, in.n.kids))
       [] OTHER -> Got(Step(Report(p, "Unexpected literal")), Null)
ParseData(p) ==
  LET text == ParseLiteral(p, "STRING", TRUE)
  IN IF p.type = "COMMAND"
     THEN Got(text, Call("Call", Self, "bq", Null, IF text.n = Null THEN <<>> ELSE <<text.n>>))
     ELSE ParseLiteral(p, p.type, TRUE)

\* parse_string_tokens: literals that follow each other are one.
Joined(first, second) ==
  IF second.kind = "Interpolate" THEN [second EXCEPT !.name = first.name, !.kids = first.kids \o @] ELSE first
ParseStrings(p) ==
  LET next == ParseData(p)
  IN CASE ~(p.type = "STRING" /\ Lexeme(p).piece \in {"Plain", "Starting"}) -> p
       [] next.n = Null -> next
       [] OTHER -> ParseStrings(Got(next, Joined(p.n, next.n)))
ParseStringTokens(p) == LET in == ParseData(p) IN IF in.n = Null THEN in ELSE ParseStrings(in)

ParseSymbol(p, keywords) ==
  LET in == [Step(KeywordsOff(p)) EXCEPT !.keywords = keywords]
      at == ReportIf(Lexeme(in).ws, in, "No whitespace between ':' and the literal is allowed with symbol literals")
  IN CASE p.type = "SYMBOL" -> Got(Step(p), SymbolNode(Lexeme(p).name))
       [] at.type \in {"IVAR", "CVAR", "GLOBAL"} -> Got(Step(at), SymbolNode(Lexeme(at).name))
       [] at.type = "STRING" -> ParseLiteral(at, "SYMBOL", keywords)
       [] OTHER -> Parsed("MethodName", <<at>>)
ParseMethodNameOrSymbol(p, keywords) ==
  IF p.type \in {"SYMBOL", "COLON"} THEN Parsed("Symbol", <<p, keywords>>) ELSE Parsed("MethodName", <<p>>)
ParseAlias(p) ==
  LET new == Parsed("MethodNameOrSymbol", <<StepLines(KeywordsOff(p)), FALSE>>)
      old == Parsed("MethodNameOrSymbol", <<new, TRUE>>)
  IN IF p.type = "KW_ALIAS" THEN Got(KeywordsOn(old), Node("Alias", "", <<new.n, old.n>>)) ELSE Parsed("Boolean", <<p>>)
ParseUndefEntries(p) ==
  LET name == Parsed("MethodNameOrSymbol", <<p, TRUE>>)
      list == Append(p.n.kids, name.n)
  IN IF name.type = "COMMA" THEN ParseUndefEntries(Got(StepComma(KeywordsOff(name)), Node("Undef", "", list)))
     ELSE Got(KeywordsOn(name), Node("Undef", "", list))
ParseUndef(p) ==
  IF p.type = "KW_UNDEF" THEN ParseUndefEntries(Got(StepLines(KeywordsOff(p)), Node("Undef", "", <<>>)))
  ELSE ParseAlias(p)

ParseConditional(p) ==
  LET in == Parsed("Undef", <<p>>)
      inverted == in.type = "KW_UNLESS"
      Modifier(l) == LET condition == Typecheck(Parsed("TailingLoop", <<StepLines(l)>>))
                     IN Got(condition, IF inverted THEN Unless(condition.n, l.n, Nil) ELSE If(condition.n, l.n, Nil))
  IN IF in.type \in {"KW_IF", "KW_UNLESS"} THEN Left(in, Modifier) ELSE in
ParseLowRescue(p) ==
  LET in == Parsed("Conditional", <<p>>)
      Guarded(l) == RescueWith(l, Typecheck(Parsed("TailingLoop", <<StepLines(l)>>)))
  IN IF in.type = "KW_RESCUE" THEN Left(in, Guarded) ELSE in

\* A loop is numbered; its trapper is that of the jumps in its body.
Loop(p, inverted, condition, body) ==
  [Node("Loop", IF inverted THEN "inverted" ELSE "", <<condition, body>>) EXCEPT !.ref = <<p.loops, 0>>]
Targeting(p, trapper) == [p EXCEPT !.loops = @ + 1, !.trappers[trapper].target = p.loops + 1]
ParseTailingLoop(p) ==
  LET in == Trapped(p, ParseLowRescue)
      inverted == in.type = "KW_UNTIL"
      While(l) == LET own == Targeting(l, TrapperOf(p))
                      condition == Typecheck(Parsed("TailingLoop", <<StepLines(own)>>))
                  IN Got(condition, Loop(own, inverted, condition.n, l.n))
  IN IF in.type \in {"KW_WHILE", "KW_UNTIL"} THEN Left(in, While) ELSE in

MoreStatements(p, list) ==
  LET in == Typecheck(ParseStatement(p))
      next == IF in.n = Null THEN list ELSE Append(list, in.n)
  IN CASE ~IsStatement(p) -> Got(p, Group(list))
       [] IsSep(in) -> MoreStatements(SkipSeps(in), next)
       [] OTHER -> Got(in, Group(next))
SkipStatements(p) ==
  LET in == Typecheck(ParseStatement(p))
  IN IF ~IsStatement(p) THEN p ELSE IF IsSep(in) THEN SkipStatements(SkipSeps(in)) ELSE in
ParseStatements(p) ==
  LET start == SkipLines(p)
      first == ParseStatement(start)
      list == IF first.n = Null THEN <<>> ELSE <<first.n>>
      after == SkipSeps(first)
      rest == Got(SkipStatements(after), first.n)
  IN CASE IsSep(start) -> MoreStatements(SkipSeps(start), <<>>)
       [] ~IsStatement(start) -> Got(start, Group(<<>>))
       [] IsMultiple(first.n) -> ReportIf(IsSep(first) \/ IsStatement(after), rest,
                                          "Unexpected statement(s) after multiple expression(s)")
       [] IsSep(first) -> MoreStatements(after, list)
       [] OTHER -> Got(first, Group(list))

\* ------------------------------------------------------------ control flow
ParseThenSep(p) == IF p.type = "KW_THEN" THEN Step(p) ELSE ParseSep(p)
ParseDoSep(p) == IF p.type = "KW_DO" THEN Step(p) ELSE ParseSep(p)
ParseIfTail(p) ==
  LET condition == ParseThenSep(ParseExpression(Step(p)))
      middle == ParseGroup(condition)
      right == ParseIfTail(middle)
  IN CASE p.type = "KW_ELSIF" -> Got(right, If(condition.n, middle.n, right.n))
       [] p.type = "KW_ELSE" -> ParseGroup(Step(p))
       [] OTHER -> Got(p, Nil)
ParseIf(p) ==
  LET inverted == p.type = "KW_UNLESS"
      condition == ParseThenSep(ParseExpression(IF inverted THEN StepLines(p) ELSE Step(p)))
      middle == ParseGroup(condition)
      right == ParseIfTail(middle)
      end == ClosePair(right, "if", "KW_END")
  IN Got(end, IF inverted THEN Unless(condition.n, middle.n, right.n) ELSE If(condition.n, middle.n, right.n))
ParseLoop(p) ==
  LET in == [StepLines(p) EXCEPT !.doOk = FALSE]
      condition == ParseDoSep(Restored(p, ParseExpression(in)))
      body == Trapped(condition, ParseGroup)
      own == Targeting(body, TrapperOf(condition))
  IN Got(ClosePair(own, "loop", "KW_END"), Loop(own, p.type = "KW_UNTIL", condition.n, body.n))

\* for: each is called with a closure that assigns its arguments to the variables.
ForVariables(p) ==
  LET array == NewParameter(p, "ArrayParameter", "")
      list == ParseEnsureMultipleExpressions([array EXCEPT !.scopes[p.scope].array = array.n], FALSE)
      named == IF list.n = Null THEN list ELSE ProcessElements(list, list.n, 1, FALSE)
  IN Got(named, Assignment(named.n, AsVariable(Scope(named).array)))
ParseForLoop(p) ==
  LET id == Len(p.scopes) + 1
      variables == InNewScope(StepLines(p), "Closure", ForVariables)
      in == [SkipLines(Match(variables, "KW_IN")) EXCEPT !.doOk = FALSE]
      object == ParseDoSep(Restored(p, ParseExpression(in)))
      body == EnterScope(object, id, ParseGroup)
      group == Group(<<variables.n>> \o IF body.n = Null THEN <<>> ELSE <<body.n>>)
  IN Got(ClosePair(body, "for loop", "KW_END"), Call("Call", object.n, "each", ScopeNode(body, id, group), <<>>))

ParseRescues(p) ==
  LET in == Step(p)
      open == IsSep(in) \/ in.type \in {"KW_THEN", "ASSOC"}
      pattern == IF open THEN Got(in, Null) ELSE ProcessRhs(ParseEnsureMultipleExpressions(in, TRUE))
      value == ParseOperatorExpression(Step(pattern))
      variable == IF pattern.type = "ASSOC" THEN ProcessLhs(value, value.n, FALSE) ELSE Got(pattern, Null)
      group == ParseGroup(ParseThenSep(variable))
  IN IF p.type = "KW_RESCUE"
     THEN Parsed("Rescues", <<Got(group, Handler(p.n.kids[1], Append(SubSeq(p.n.kids, 4, Len(p.n.kids)),
                                          Rescue(pattern.n, variable.n, group.n)), Null, Null))>>)
     ELSE p
\* parse_exception_handlers; an ensure group marks the jumps its trapper collected.
ParseExceptionHandlers(p, trapper) ==
  LET rescued == Parsed("Rescues", <<Got(p, Handler(p.n, <<>>, Null, Null))>>)
      else == IF rescued.type = "KW_ELSE" THEN ParseGroup(Step(rescued)) ELSE Got(rescued, Null)
      marked == [Step(else) EXCEPT !.trappers[trapper].ensure = TRUE]
      ensure == IF else.type = "KW_ENSURE" THEN ParseGroup(marked) ELSE Got(else, Null)
  IN IF p.type \in {"KW_ENSURE", "KW_RESCUE"}
     THEN Got(ensure, [rescued.n EXCEPT !.kids[2] = else.n, !.kids[3] = ensure.n]) ELSE p
ParseGuarded(p) == Parsed("ExceptionHandlers", <<Trapped(p, ParseGroup), TrapperOf(p)>>)
ParseBegin(p) == ClosePair(ParseGuarded(Step(p)), "begin", "KW_END")

ParseClauses(p) ==
  LET pattern == ParseThenSep(ProcessRhs(Parsed("MultipleExpressions", <<Match(SkipSeps(p), "KW_WHEN"), TRUE, TRUE>>)))
      group == ParseGroup(pattern)
      in == Got(group, [p.n EXCEPT !.kids = Append(@, Node("When", "", <<pattern.n, group.n>>))])
  IN IF in.type = "KW_WHEN" THEN ParseClauses(in) ELSE in
ParseCase(p) ==
  LET in == Step(p)
      value == IF in.type \in {"KW_WHEN", "KW_END", "KW_ELSE"} \/ IsSep(in) THEN Got(in, Null) ELSE ParseExpression(in)
      clauses == SkipSeps(ParseClauses(Got(value, Node("Case", "", <<value.n, Null>>))))
      else == IF clauses.type = "KW_ELSE" THEN ParseGroup(Step(clauses)) ELSE Got(clauses, Null)
  IN Got(ClosePair(SkipSeps(else), "case", "KW_END"), [clauses.n EXCEPT !.kids[2] = else.n])

ParseJump(p, kind) ==
  LET in == Step(p)
      value == IF IsJumpArgument(in) THEN Parsed("Assignment", <<in, TRUE, FALSE>>) ELSE Got(in, Nil)
  IN IF kind = "Redo" THEN RaiseVoid(in, kind, Nil) ELSE RaiseVoid(value, kind, value.n)

\* ------------------------------------------------------------------- calls
\* parse_association_argument: the key of a pair of a hash at the end of a list, or an element.
\* ref of the list tells where its hash is.
Associate(p, list) ==
  LET key == CASE p.type = "ASSOC" -> p.n
               [] p.n.kind \in {"Variable", "Ident"} -> SymbolNode(p.n.name)
               [] OTHER -> SymbolNode("")
      wrong == IF p.type = "ASSOC" THEN p.n.kind = "Splat" ELSE p.n.kind \notin {"Variable", "Ident"}
      value == ParseOperatorExpression(StepLines(p))
      hash == IF list.ref[1] # 0 THEN list.ref[1] ELSE Len(list.kids) + 1
      opened == IF list.ref[1] # 0 THEN list
                ELSE [list EXCEPT !.kids = Append(@, Node("Hash", "", <<>>)), !.ref = <<hash, 0>>]
      pair == IF value.n = Null THEN <<key>> ELSE <<key, value.n>>
  IN IF p.type \in {"ASSOC", "COLON"}
     THEN Got(ReportIf(wrong, value, "Bad association key"), [opened EXCEPT !.kids[hash].kids = @ \o pair])
     ELSE Got(ReportIf(list.ref[1] # 0, p, "Association arguments must come after regular arguments"),
              [list EXCEPT !.kids = Append(@, p.n)])
BlockArgument(p, list) ==
  LET in == ParseSplatOperatorExpression(Step(p))
  IN IF list.kids[1] # Null THEN Report(Got(in, list), "There can only be a single block argument")
     ELSE Got(in, [list EXCEPT !.kids[1] = BlockArg(in.n)])
Argument(p, list) ==
  LET in == ParseSplatOperatorExpression(ReportIf(list.kids[1] # Null, p, "The block argument must be the last one"))
  IN IF in.n = Null THEN Got(in, list) ELSE Associate(in, list)

\* parse_argument_list; the list is n, the block argument first.
NoArguments == Node("Arguments", "", <<Null>>)
ParseArgumentList(p, terminator) ==
  LET start == SkipLines(p)
      in == IF start.type = "AMPERSAND" THEN BlockArgument(start, p.n) ELSE Argument(start, p.n)
  IN CASE terminator # "NONE" /\ start.type = terminator -> start
       [] in.type = "COMMA" -> Parsed("ArgumentList", <<Step(in), terminator>>)
       [] OTHER -> in
ParseArguments(p) ==
  LET open == SkipLines(Step([p EXCEPT !.doOk = TRUE, !.n = NoArguments]))
      list == IF open.type = "PARENT_CLOSE" THEN open ELSE Parsed("ArgumentList", <<open, "PARENT_CLOSE">>)
  IN IF p.type = "PARENT_OPEN" /\ ~Lexeme(p).ws THEN Restored(p, ClosePair(list, "call arguments", "PARENT_CLOSE"))
     ELSE Restored(p, Parsed("ArgumentList", <<[p EXCEPT !.doOk = FALSE, !.n = NoArguments], "NONE">>))

\* The body of a block, with its parameters between bars.
BlockBody(p) ==
  LET in == SkipLines(p)
      first == StepLines(in)
      parameters == IF first.type = "BITWISE_OR" THEN first ELSE Parsed("Parameters", <<first, TRUE>>)
      body == CASE in.type = "BITWISE_OR" -> ClosePair(parameters, "block parameters", "BITWISE_OR")
                [] in.type = "LOGICAL_OR" -> Step(in)
                [] OTHER -> in
  IN ParseGroup(body)
ParseBlock(p, allowed) ==
  LET end == IF p.type = "CURLY_OPEN" THEN "CURLY_CLOSE" ELSE "KW_END"
      id == Len(p.scopes) + 1
      in == InNewScope(Step(p), "Closure", BlockBody)
      closed == ReportIf(~allowed, ClosePair(in, "block", end), "Unexpected block after block argument")
  IN IF p.type = "CURLY_OPEN" \/ (p.type = "KW_DO" /\ p.doOk) THEN Got(closed, ScopeNode(in, id, in.n)) ELSE Got(p, Null)
AllocCallNode(p, object, method, hasArguments, kind) ==
  LET list == IF hasArguments THEN ParseArguments(p) ELSE Got(p, NoArguments)
      given == list.n.kids[1]
      in == Parsed("Block", <<list, given = Null>>)
  IN Got(in, Call(kind, object, method, IF in.n = Null THEN given ELSE in.n, Tail(list.n.kids)))

ParseSuper(p) ==
  LET in == Step(p)
      parenthesis == in.type = "PARENT_OPEN" /\ ~Lexeme(in).ws
      list == IF HasArguments(in) THEN ParseArguments(in) ELSE Got(in, NoArguments)
      given == list.n.kids[1]
      block == Parsed("Block", <<list, given = Null>>)
      pass == Len(list.n.kids) = 1 /\ ~(HasArguments(in) /\ parenthesis)
      owner == Scope(p).owner
      node == Node("Super", IF pass THEN "pass" ELSE "",
                   <<Null, IF block.n = Null THEN given ELSE block.n>> \o Tail(list.n.kids))
  IN Got(IF pass /\ p.scope # owner THEN [block EXCEPT !.scopes[owner].zsupers = Append(@, p.scope)] ELSE block, node)
ParseYield(p) ==
  LET in == Step(p)
      new == NewParameter(in, "BlockParameter", "")
      has == IF Scope(in).block # Null THEN in ELSE [new EXCEPT !.scopes[p.scope].block = new.n]
  IN AllocCallNode(has, AsVariable(Scope(has).block), "call", HasArguments(has), "Call")
ParseCall(p, name, object, variable) ==
  LET arguments == HasArguments(p)
      constant == name \in ConstantNames
      can == variable /\ ~arguments
  IN IF can /\ (constant \/ Defined(p, name)) THEN ParseVariable(p, name)
     ELSE AllocCallNode(p, object, name, arguments, IF can THEN "Ident" ELSE "Call")
ParseNamedCall(p, object) == LET in == Parsed("MethodName", <<p>>) IN ParseCall(in, in.n.name, object, FALSE)

ParseSubscript(p) ==
  LET open == SkipLines(Step(Got(p, NoArguments)))
      list == IF open.type = "SQUARE_CLOSE" THEN open ELSE Parsed("ArgumentList", <<open, "SQUARE_CLOSE">>)
  IN Got(ClosePair(list, "square bracket arguments", "SQUARE_CLOSE"),
         Call("Subscript", p.n, "[]", list.n.kids[1], Tail(list.n.kids)))
ParseLookup(p) ==
  LET at == KeywordsOn(SkipLines(Step(KeywordsOff(p))))
      next == Step(at)
      name == Lexeme(at).name
  IN CASE p.type = "SQUARE_OPEN" -> ParseSubscript(p)
       [] p.type = "DOT" /\ at.type = "PARENT_OPEN" -> ParseCall(at, "call", p.n, FALSE)
       [] p.type = "DOT" -> ParseNamedCall(at, p.n)
       [] at.type \notin {"IDENT", "EXT_IDENT"} -> Expected(at, "IDENT")
       [] HasArguments(next) \/ name \notin ConstantNames -> AllocCallNode(next, p.n, name, HasArguments(next), "Call")
       [] OTHER -> Got(next, Constant(p.n, name))
Lookups(p) == IF IsLookup(p) THEN Lookups(Left(p, ParseLookup)) ELSE p
ParseLookupChain(p) == Lookups(Parsed("Factor", <<p>>))

\* -------------------------------------------------------------- structures
ParseDeclareVariable(p) ==
  LET name == Lexeme(p).name
  IN CASE p.type # "IDENT" -> Expected(p, "IDENT")
       [] DefinedHere(p, name) -> Step(Report(p, "Variable already defined"))
       [] OTHER -> Step(AllocVar(p, name))
RECURSIVE ParseDeclareVariables(_)
ParseDeclareVariables(p) ==
  LET in == ParseDeclareVariable(p) IN IF in.type = "COMMA" THEN ParseDeclareVariables(StepComma(in)) ELSE in

ParameterGroup(p) ==
  LET in == Parsed("MultipleExpressions", <<Step(p), TRUE, FALSE>>)
      group == ProcessLhs(in, in.n, TRUE)
      new == NewParameter(group, "ParameterGroup", "")
  IN ClosePair([new EXCEPT !.scopes[p.scope].parameters = Append(@, [new.n EXCEPT !.kids[1] = group.n])],
               "parameter group", "PARENT_CLOSE")
\* A parameter is added to those it follows, or becomes the one for the rest or the block.
AddParameter(p, kind) ==
  LET scope == Scope(p)
  IN CASE kind = "ArrayParameter" ->
            IF scope.array # Null THEN Report(p, "You can only receive the remaining arguments in one parameter")
            ELSE [p EXCEPT !.scopes[p.scope].array = p.n]
       [] kind = "BlockParameter" ->
            IF scope.block # Null THEN Report(p, "You can only receive the block in one parameter")
            ELSE [p EXCEPT !.scopes[p.scope].block = p.n]
       [] OTHER -> IF p.n = Null THEN p ELSE [p EXCEPT !.scopes[p.scope].parameters = Append(@, p.n)]
ParameterName(p, kind) ==
  LET name == Lexeme(p).name
  IN CASE p.type = "IDENT" /\ DefinedHere(p, name) -> Got(Step(Report(p, "Variable already defined")), Null)
       [] p.type = "IDENT" -> Step(NewParameter(p, kind, name))
       [] kind = "ArrayParameter" -> Discarded(NewParameter(p, kind, ""))
       [] OTHER -> Got(Report(p, "Expected a parameter name"), Null)
ParseParameter(p, block) ==
  LET star == IF p.type = "AMPERSAND" THEN Step(p) ELSE p
      both == p.type = "AMPERSAND" /\ star.type = "MUL"
      kind == CASE star.type = "MUL" -> "ArrayParameter" [] p.type = "AMPERSAND" -> "BlockParameter" [] OTHER -> "Parameter"
      at == IF star.type = "MUL" THEN Step(star) ELSE star
      named == ParameterName(ReportIf(both, at, "A parameter cannot be both the block and the array parameter"), kind)
      last == ReportIf(Scope(named).block # Null, named, "Block parameters must be last in the parameter list")
      value == IF block THEN Parsed("LookupChain", <<Step(last)>>) ELSE ParseOperatorExpression(Step(last))
      default == IF last.type # "ASSIGN" THEN last
                 ELSE Got(ReportIf(kind # "Parameter", value, "Parameter cannot have a default value"),
                          IF last.n = Null THEN Null ELSE [last.n EXCEPT !.kids[1] = value.n])
  IN IF p.type = "PARENT_OPEN" THEN ParameterGroup(p) ELSE AddParameter(default, kind)

\* A comma at the end receives the remaining arguments and forgets them.
TrailingComma(p) ==
  LET new == Discarded(NewParameter(p, "ArrayParameter", ""))
  IN IF Scope(p).array # Null THEN Report(new, "Cannot have a trailing comma and an array parameter")
     ELSE [new EXCEPT !.scopes[p.scope].array = new.n]
RECURSIVE ParameterTail(_, _)
ParameterTail(p, block) ==
  LET next == StepComma(p)
      in == IF IsParameter(next) THEN Parsed("Parameter", <<next, block>>) ELSE TrailingComma(next)
  IN CASE p.type = "COMMA" -> ParameterTail(in, block)
       [] block /\ p.type = "SEMICOLON" -> ParseDeclareVariables(StepLines(p))
       [] OTHER -> p
ParseParameters(p, block) ==
  IF block /\ p.type = "SEMICOLON" THEN ParseDeclareVariables(StepLines(p))
  ELSE ParameterTail(Parsed("Parameter", <<p, block>>), block)

ParseModuleName(p) ==
  LET in == Typecheck(Parsed("Unary", <<p>>))
  IN IF in.n = Null \/ in.n.kind = "Constant" THEN in ELSE Report(Got(in, Null), "Expected a constant")
ParseClass(p) ==
  LET in == Step(p)
      singleton == in.type = "LEFT_SHIFT"
      name == IF singleton THEN ParseExpression(Step(in)) ELSE ParseModuleName(in)
      super == IF ~singleton /\ name.type = "LESS" THEN ParseExpression(Step(name)) ELSE Got(name, Null)
      body == InNewScope(ParseSep(super), "Class", ParseGroup)
  IN Got(ClosePair(body, "class", "KW_END"),
         Node("Class", IF singleton THEN "singleton" ELSE "",
               <<name.n, super.n, ScopeNode(body, Len(super.scopes) + 1, body.n)>>))
ParseModule(p) ==
  LET name == ParseModuleName(Step(p))
      body == InNewScope(name, "Module", ParseGroup)
  IN Got(ClosePair(body, "module", "KW_END"),
         Node("Module", "", <<name.n, ScopeNode(body, Len(name.scopes) + 1, body.n)>>))

\* What a method is defined on, up to the dot, and its name.
MethodSingleton(p) ==
  LET open == SkipLines(Step(p))
      expression == IF open.type = "PARENT_CLOSE" THEN Report(Got(open, Null), "Expected expression") ELSE ParseExpression(open)
      name == Parsed("MethodName", <<p>>)
      variable == IF name.n.name = "self" THEN Got(name, Self) ELSE ParseVariable(name, name.n.name)
  IN CASE p.type = "PARENT_OPEN" -> Match(Match(expression, "PARENT_CLOSE"), "DOT")
       [] p.type = "CVAR" -> Match(Step(Got(p, Node("CVar", Lexeme(p).name, <<>>))), "DOT")
       [] p.type = "IVAR" -> Match(Step(Got(p, Node("IVar", Lexeme(p).name, <<>>))), "DOT")
       [] p.type = "GLOBAL" -> Match(Step(Got(p, Node("Global", Lexeme(p).name, <<>>))), "DOT")
       [] p.type = "IDENT" /\ name.type = "DOT" -> Step(variable)
       [] OTHER -> Got(p, Null)
MethodBody(p) ==
  LET open == StepLines(p)
      list == IF open.type = "PARENT_CLOSE" THEN open ELSE Parsed("Parameters", <<open, FALSE>>)
  IN IF p.type = "PARENT_OPEN" THEN ParseGuarded(ClosePair(list, "method parameters", "PARENT_CLOSE"))
     ELSE ParseGuarded(ParseSep(IF IsParameter(p) THEN Parsed("Parameters", <<p, FALSE>>) ELSE p))
ParseMethod(p) ==
  LET singleton == MethodSingleton(KeywordsOn(Step(KeywordsOff(p))))
      name == Parsed("MethodName", <<singleton>>)
      body == InNewScope(name, "Method", MethodBody)
  IN Got(ClosePair(body, "method", "KW_END"),
         Node("Method", name.n.name, <<singleton.n, ScopeNode(body, Len(name.scopes) + 1, body.n)>>))

\* -> (parameters) { ... }
LambdaParameters(p) ==
  LET open == StepLines(p)
      list == IF open.type = "PARENT_CLOSE" THEN open ELSE Parsed("Parameters", <<open, FALSE>>)
  IN IF p.type = "PARENT_OPEN" THEN ClosePair(list, "block parameters", "PARENT_CLOSE") ELSE p
LambdaBody(p) == ParseGroup(StepLines(p))
ParseLambda(p) ==
  LET id == Len(p.scopes) + 1
      parameters == InNewScope(Step(p), "Closure", LambdaParameters)
      end == IF parameters.type = "CURLY_OPEN" THEN "CURLY_CLOSE" ELSE "KW_END"
      body == EnterScope(parameters, id, LambdaBody)
  IN IF parameters.type \in {"CURLY_OPEN", "KW_DO"}
     THEN Got(ClosePair(body, "block", end), Node("Block", "", <<ScopeNode(body, id, body.n)>>)) ELSE Got(parameters, Null)

\* --------------------------------------------------------------- literals
ParseElements(p) ==
  LET start == SkipLines(p)
      in == ParseSplatOperatorExpression(start)
      list == IF in.n = Null THEN Got(in, p.n) ELSE Associate(in, p.n)
  IN CASE start.type = "SQUARE_CLOSE" -> start
       [] list.type = "COMMA" -> ParseElements(Step(list))
       [] OTHER -> list
ParseArray(p) ==
  LET list == ParseElements([Step(p) EXCEPT !.colonOk = TRUE, !.n = Node("Array", "", <<>>)])
  IN Got(ClosePair(list, "array literal", "SQUARE_CLOSE"), Node("Array", "", list.n.kids))
ParseEntries(p) ==
  LET start == SkipLines(p)
      key == ParseOperatorExpression(start)
      colon == key.type = "COLON"
      named == key.n.kind \in {"Variable", "Ident"}
      sep == IF colon THEN StepLines(ReportIf(~named, key, "Bad association key")) ELSE SkipLines(Match(key, "ASSOC"))
      name == CASE colon -> <<SymbolNode(IF named THEN key.n.name ELSE "")>> [] key.n = Null -> <<>> [] OTHER -> <<key.n>>
      value == ParseOperatorExpression(sep)
      list == Got(value, [p.n EXCEPT !.kids = @ \o name \o IF value.n = Null THEN <<>> ELSE <<value.n>>])
  IN CASE start.type = "CURLY_CLOSE" -> start
       [] list.type = "COMMA" -> ParseEntries(Step(list))
       [] OTHER -> list
ParseHash(p) ==
  ClosePair(ParseEntries([Step(p) EXCEPT !.colonOk = TRUE, !.n = Node("Hash", "", <<>>)]), "hash literal", "CURLY_CLOSE")

\* Text that is read again as a literal where an operand is expected; name tells what it is.
Relexed(p, type) ==
  LET plain == [Lexeme(p) EXCEPT !.piece = "Plain"]
      in == [p EXCEPT !.type = type, !.text[p.at] = plain]
  IN IF Lexeme(p).name = type THEN in
     ELSE Report([in EXCEPT !.text = SubSeq(@, 1, p.at) \o NoText], "Unterminated literal")

\* -------------------------------------------------------------- parse_factor
ParseDefined(p, inner) ==
  LET parenthesis == p.type = "PARENT_OPEN"
      in == IF parenthesis THEN ClosePair(ParseExpression(Step(inner)), "defined? parentheses", "PARENT_CLOSE")
            ELSE ParseOperatorExpression(p)
  IN Got(in, IF in.n.kind = "Variable" THEN Node("Data", "STRING", <<>>) ELSE Nil)
TopLookups(p) == IF IsLookup(p) THEN TopLookups(Parsed("Lookup", <<p>>)) ELSE p
ParseTopScope(p) ==
  LET in == Step(p)
      name == Lexeme(in).name
  IN CASE in.type # "IDENT" -> Got(Expected(in, "IDENT"), Null)
       [] name \in ConstantNames -> TopLookups(Got(Step(in), Constant(Node("Top", "", <<>>), name)))
       [] OTHER -> Report(ParseNamedCall(in, Self), "Can only reference constants when leaving out the lookup expression")
ParseParentheses(p) == ClosePair(Parsed("Statements", <<SkipLines(Step(p))>>), "parentheses", "PARENT_CLOSE")
Leaf == [KW_SELF |-> "Self", KW_TRUE |-> "True", KW_FALSE |-> "False", KW_NIL |-> "Nil", REAL |-> "Float",
         BINARY |-> "Integer", OCTAL |-> "Integer", HEX |-> "Integer", INTEGER |-> "Integer", KW_SPECIAL_LINE |-> "Integer",
         KW_SPECIAL_FILE |-> "Data", CVAR |-> "CVar", IVAR |-> "IVar", GLOBAL |-> "Global"]
ParseFactorIn(p, f) ==
  LET type == p.type
  IN CASE type \in DOMAIN Leaf -> Got(Step(f), Node(Leaf[type], Lexeme(f).name, <<>>))
       [] type = "IDENT" -> ParseCall(Step(p), Lexeme(p).name, Self, TRUE)
       [] type = "EXT_IDENT" -> ParseCall(Step(p), Lexeme(p).name, Self, FALSE)
       [] type = "PARENT_OPEN" -> ParseParentheses(f)
       [] type = "SQUARE_OPEN" -> ParseArray(f)
       [] type = "CURLY_OPEN" -> ParseHash(f)
       [] type = "STRING" -> Parsed("StringTokens", <<f>>)
       [] type \in {"COMMAND", "REGEXP", "ARRAY"} -> ParseData(f)
       [] type \in {"SYMBOL", "COLON"} -> Parsed("Symbol", <<f, TRUE>>)
       [] type = "QUESTION" -> Got(Step(Relexed(f, "STRING")), Node("Data", "STRING", <<>>))
       [] type \in {"DIV", "ASSIGN_DIV"} -> ParseData(Relexed(f, "REGEXP"))
       [] type \in {"MOD", "ASSIGN_MOD"} /\ Lexeme(p).name # "%" -> ParseData(Relexed(f, Lexeme(p).name))
       [] type = "LEFT_SHIFT" /\ Lexeme(p).name = "HEREDOC" -> Got(Step(f), Node("Heredoc", "", <<>>))
       [] type \in {"KW_IF", "KW_UNLESS"} -> ParseIf(f)
       [] type \in {"KW_WHILE", "KW_UNTIL"} -> ParseLoop(f)
       [] type = "KW_FOR" -> ParseForLoop(f)
       [] type = "KW_CASE" -> ParseCase(f)
       [] type = "KW_BEGIN" -> ParseBegin(f)
       [] type = "KW_CLASS" -> ParseClass(f)
       [] type = "KW_MODULE" -> ParseModule(f)
       [] type = "KW_DEF" -> ParseMethod(f)
       [] type = "KW_RETURN" -> ParseJump(f, "Return")
       [] type = "KW_BREAK" -> ParseJump(f, "Break")
       [] type = "KW_NEXT" -> ParseJump(f, "Next")
       [] type = "KW_REDO" -> ParseJump(f, "Redo")
       [] type = "KW_YIELD" -> ParseYield(f)
       [] type = "KW_SUPER" -> ParseSuper(p)
       [] type = "KW_DEFINED" -> ParseDefined(Step(p), Step(f))
       [] type = "BLOCK_POINT" -> ParseLambda(f)
       [] type = "SCOPE" -> ParseTopScope(p)
       [] type \in {"KW_SPECIAL_BEGIN", "KW_SPECIAL_END"} ->
            Got(Parsed("Block", <<[Step(Report(f, "Not supported")) EXCEPT !.doOk = FALSE], TRUE>>), Null)
       [] OTHER -> Got(Step(Report(f, "Expected expression")), Null)
ParseFactor(p) == Restored(p, ParseFactorIn(p, [p EXCEPT !.doOk = TRUE, !.colonOk = FALSE]))

\* -------------------------------------------------------------- parse_main
Load(text) == [text |-> text, at |-> 1, type |-> text[1].type, keywords |-> TRUE, doOk |-> TRUE, colonOk |-> FALSE, scope |-> 0,
               scopes |-> <<>>, trapper |-> 0, trappers |-> <<>>, jumps |-> <<>>, loops |-> 0, errors |-> {}, n |-> Null]
ParseMain(p) ==
  LET in == Match(InNewScope(p, "Top", ParseGroup), "END") IN ParseDone(Got(in, ScopeNode(in, 1, in.n)))

\* The function of that name, applied.
Parsed(rule, arg) ==
  CASE rule = "Main" -> ParseMain(arg[1])
    [] rule = "Statements" -> ParseStatements(arg[1])
    [] rule = "TailingLoop" -> ParseTailingLoop(arg[1])
    [] rule = "LowRescue" -> ParseLowRescue(arg[1])
    [] rule = "Conditional" -> ParseConditional(arg[1])
    [] rule = "Boolean" -> ParseBoolean(arg[1])
    [] rule = "BooleanUnary" -> ParseBooleanUnary(arg[1])
    [] rule = "Assignment" -> ParseAssignment(arg[1], arg[2], arg[3])
    [] rule = "ProcessAssignment" -> ProcessAssignment(arg[1], arg[2])
    [] rule = "MultipleExpressions" -> ParseMultipleExpressions(arg[1], arg[2], arg[3])
    [] rule = "SplatExpression" -> ParseSplatExpression(arg[1], arg[2], arg[3])
    [] rule = "TernaryIf" -> ParseTernaryIf(arg[1], arg[2])
    [] rule = "Range" -> ParseRange(arg[1])
    [] rule = "HigherOperators" -> HigherOperators(arg[1], arg[2])
    [] rule = "Unary" -> ParseUnary(arg[1])
    [] rule = "Power" -> ParsePower(arg[1])
    [] rule = "LookupChain" -> ParseLookupChain(arg[1])
    [] rule = "Undef" -> ParseUndef(arg[1])
    [] rule = "StringTokens" -> ParseStringTokens(arg[1])
    [] rule = "Interpolation" -> ParseInterpolation(arg[1], arg[2])
    [] rule = "Rescues" -> ParseRescues(arg[1])
    [] rule = "Parameters" -> ParseParameters(arg[1], arg[2])
    [] rule = "ExceptionHandlers" -> ParseExceptionHandlers(arg[1], arg[2])
    [] rule = "MethodNameOrSymbol" -> ParseMethodNameOrSymbol(arg[1], arg[2])
    [] rule = "MethodName" -> ParseMethodName(arg[1])
    [] rule = "Symbol" -> ParseSymbol(arg[1], arg[2])
    [] rule = "Factor" -> ParseFactor(arg[1])
    [] rule = "ArgumentList" -> ParseArgumentList(arg[1], arg[2])
    [] rule = "Block" -> ParseBlock(arg[1], arg[2])
    [] rule = "Lookup" -> ParseLookup(arg[1])
    [] rule = "Parameter" -> ParseParameter(arg[1], arg[2])

Init == program \in Programs /\ stage = "new" /\ s = Load(NoText)
Parse == stage = "new" /\ stage' = "done" /\ s' = Parsed("Main", <<Load(LexemesOf(program))>>) /\ UNCHANGED program
Next == Parse
Spec == Init /\ [][Next]_vars
=============================================================================
