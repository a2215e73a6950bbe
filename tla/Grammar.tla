------------------------------ MODULE Grammar -------------------------------
(***************************************************************************)
(* How programs are written, and what they mean: the reference the parser  *)
(* is compared with.  A program is a tree; Words writes it down with the   *)
(* parentheses the precedence of operators asks for and no more, Meaning   *)
(* is the tree that the parser has to find for it.                         *)
(***************************************************************************)
EXTENDS Parser
LOCAL INSTANCE SequencesExt

CONSTANT TreeOf(_)   \* the tree a program is written from; Null if it is none

\* --------------------------------------------------------------- lexemes
Word(type, name, ws) == [type |-> type, name |-> name, ws |-> ws, piece |-> "Plain"]
T(type) == <<Word(type, "", TRUE)>>
Tight(type) == <<Word(type, "", FALSE)>>
Ident(name) == <<Word("IDENT", name, TRUE)>>
TightIdent(name) == <<Word("IDENT", name, FALSE)>>
Untied(words) == <<[words[1] EXCEPT !.ws = FALSE]>> \o Tail(words)
Piece(type, piece) == <<[Word(type, "", TRUE) EXCEPT !.piece = piece]>>

\* ------------------------------------------------ what only a program has
Name(name) == Node("Name", name, <<>>)
Written(kind, name, kids) == Node(kind, name, kids)
Parameter(name) == Node("Parameter", name, <<Null>>)
Block(parameters, statements) == Node("Scope", "Closure", <<Node("Parameters", "", parameters), Group(statements)>>)
NoValues == <<>>

\* How tightly a node holds together.
Levels == [Range |-> 8, Ternary |-> 7, Assign |-> 6, OperatorAssign |-> 6, AttributeWrite |-> 6, MultipleAssign |-> 5,
           Command |-> 5, CommandDo |-> 5, Return |-> 5, Break |-> 5, Next |-> 5, BooleanNot |-> 5, And |-> 4, Or |-> 4, UnaryOp |-> 18,
           ModifierIf |-> 3, ModifierUnless |-> 3, ModifierRescue |-> 3, ModifierWhile |-> 3, ModifierUntil |-> 3,
           Alias |-> 4, Undef |-> 4]
Level(node) ==
  CASE node.kind = "BinaryOp" /\ node.name = "POWER" -> 19
    [] node.kind = "BinaryOp" -> 9 + Precedence[node.name]
    [] node.kind \in DOMAIN Levels -> Levels[node.kind]
    [] OTHER -> 20

RECURSIVE Words(_), Separated(_, _), Statements(_)
InParentheses(words) == T("PARENT_OPEN") \o words \o T("PARENT_CLOSE")
Bound(node, level) == IF Level(node) >= level THEN Words(node) ELSE InParentheses(Words(node))
Separated(list, level) ==
  IF list = <<>> THEN <<>>
  ELSE Bound(list[1], level) \o (IF Len(list) = 1 THEN <<>> ELSE T("COMMA") \o Separated(Tail(list), level))
Statements(list) ==
  IF list = <<>> THEN <<>>
  ELSE Words(list[1]) \o (IF Len(list) = 1 THEN <<>> ELSE T("SEMICOLON") \o Statements(Tail(list)))
\* After a name or a jump, a brace starts a block and "if" is a modifier; before the "do" of a
\* loop or a command no call that can take a block of its own may stand bare.
First(node, level) ==
  IF Words(node)[1].type \in {"CURLY_OPEN", "KW_IF", "KW_UNLESS", "KW_WHILE", "KW_UNTIL"} THEN InParentheses(Words(node))
  ELSE Bound(node, level)
FirstOf(list, level) ==
  First(list[1], level) \o (IF Len(list) = 1 THEN <<>> ELSE T("COMMA") \o Separated(Tail(list), level))
RECURSIVE TakesDo(_)
TakesDo(node) == node.kind \in {"Yield", "CommandDo", "Return", "Break", "Next"} \/ \E i \in DOMAIN node.kids : TakesDo(node.kids[i])
BeforeDo(node, words) == IF TakesDo(node) THEN InParentheses(Words(node)) ELSE words
Body(node) == IF node.kind = "Group" THEN Statements(node.kids) ELSE Words(node)
Parenthesized(list) == Tight("PARENT_OPEN") \o Separated(list, 6) \o T("PARENT_CLOSE")

BlockText(node, open, close) ==
  LET list == node.kids[1].kids
      bar == T("BITWISE_OR")
  IN open \o (IF list = <<>> THEN <<>> ELSE bar \o Separated(list, 0) \o bar) \o Body(node.kids[2]) \o close
BlockWords(node) == IF node.kind = "Scope" THEN BlockText(node, T("CURLY_OPEN"), T("CURLY_CLOSE")) ELSE <<>>
CallWords(node) ==
  LET block == IF node.kids[2].kind = "BlockArg" THEN <<node.kids[2]>> ELSE <<>>
      list == Arguments(node) \o block
      object == IF node.kids[1] = Self THEN Ident(node.name)
                ELSE Bound(node.kids[1], 20) \o Tight("DOT") \o TightIdent(node.name)
  IN object \o (IF list = <<>> THEN <<>> ELSE Parenthesized(list)) \o BlockWords(node.kids[2])

RECURSIVE Rescues(_), Clauses(_)
Rescues(list) ==
  IF list = <<>> THEN <<>>
  ELSE T("KW_RESCUE") \o (IF list[1].kids[1] = Null THEN <<>> ELSE Separated(list[1].kids[1].kids, 6))
       \o (IF list[1].kids[2] = Null THEN <<>> ELSE T("ASSOC") \o Words(list[1].kids[2]))
       \o T("KW_THEN") \o Body(list[1].kids[3]) \o T("LINE") \o Rescues(Tail(list))
Clauses(list) ==
  IF list = <<>> THEN <<>>
  ELSE T("KW_WHEN") \o Separated(IF IsMultiple(list[1].kids[1]) THEN list[1].kids[1].kids ELSE <<list[1].kids[1]>>, 6)
       \o T("LINE") \o Body(list[1].kids[2]) \o T("LINE") \o Clauses(Tail(list))
Optional(keyword, node) == IF node = Null THEN <<>> ELSE T(keyword) \o Body(node)
Guarded(node) ==
  IF node.kind # "Handler" THEN Body(node)
  ELSE Body(node.kids[1]) \o T("LINE") \o Rescues(SubSeq(node.kids, 4, Len(node.kids)))
       \o Optional("KW_ELSE", node.kids[2]) \o T("LINE") \o Optional("KW_ENSURE", node.kids[3])
Else(node) == IF node = Nil THEN <<>> ELSE T("KW_ELSE") \o Body(node)

\* The words of operators and of assignments.
OperatorWords(node) ==
  LET level == Level(node) kids == node.kids
  IN CASE node.kind = "BinaryOp" /\ node.name = "POWER" -> Bound(kids[1], 20) \o T("POWER") \o Bound(kids[2], 18)
       [] node.kind = "BinaryOp" -> Bound(kids[1], level) \o T(node.name) \o Bound(kids[2], level + 1)
       [] node.kind = "UnaryOp" ->
            T(CASE node.name = "UNARY_SUB" -> "SUB" [] node.name = "UNARY_ADD" -> "ADD" [] OTHER -> node.name)
            \o Untied(Bound(kids[1], IF node.name = "UNARY_SUB" THEN 18 ELSE 20))
       [] node.kind = "Range" -> Bound(kids[1], 9) \o T(node.name) \o Bound(kids[2], 9)
       [] node.kind = "Ternary" ->
            Bound(kids[1], 8) \o T("QUESTION") \o Bound(kids[2], 6) \o T("COLON") \o Bound(kids[3], 6)
       [] node.kind = "And" -> Bound(kids[1], 4) \o T("KW_AND") \o Bound(kids[2], 5)
       [] node.kind = "Or" -> Bound(kids[1], 4) \o T("KW_OR") \o Bound(kids[2], 5)
       [] node.kind = "BooleanNot" -> T("KW_NOT") \o Bound(kids[1], 5)
       [] node.kind = "Assign" -> Words(kids[1]) \o T("ASSIGN") \o Bound(kids[2], 6)
       [] node.kind = "OperatorAssign" -> Words(kids[1]) \o T(node.name) \o Bound(kids[2], 6)
       [] node.kind = "AttributeWrite" -> Words(kids[1]) \o T("ASSIGN") \o Bound(kids[2], 6)
       [] node.kind = "MultipleAssign" -> Words(kids[1]) \o T("ASSIGN") \o Bound(kids[2], 6)
       [] OTHER ->
            Bound(kids[1], IF node.kind = "ModifierRescue" THEN 8 ELSE 4) \o T([ModifierIf |-> "KW_IF", ModifierUnless |-> "KW_UNLESS", ModifierRescue |-> "KW_RESCUE",
                                    ModifierWhile |-> "KW_WHILE", ModifierUntil |-> "KW_UNTIL"][node.kind]) \o Bound(kids[2], 4)

\* The words of literals, calls and parameters.
RECURSIVE Pieces(_)
Pieces(groups) ==
  Body(groups[1]) \o (IF Len(groups) = 1 THEN Piece("STRING", "Ending")
                      ELSE Piece("STRING", "Continuing") \o Pieces(Tail(groups)))
OperandWords(node) ==
  LET kids == node.kids
  IN CASE node.kind = "Name" -> Ident(node.name)
       [] node.kind \in {"Integer"} -> <<Word("INTEGER", node.name, TRUE)>>
       [] node.kind = "Nil" -> <<Word("KW_NIL", "nil", TRUE)>>
       [] node.kind = "Self" -> <<Word("KW_SELF", "self", TRUE)>>
       [] node.kind = "IVar" -> <<Word("IVAR", node.name, TRUE)>>
       [] node.kind = "Symbol" -> T("COLON") \o TightIdent(node.name)
       [] node.kind = "Data" -> IF node.name = "STRING" THEN Piece("STRING", "Plain") ELSE <<Word("DIV", node.name, TRUE)>>
       [] node.kind = "Interpolate" -> Piece("STRING", "Starting") \o Pieces(kids)
       [] node.kind = "Constant" /\ kids[1] = Null -> Ident(node.name)
       [] node.kind = "Constant" /\ kids[1].kind = "Top" -> T("SCOPE") \o TightIdent(node.name)
       [] node.kind = "Constant" -> Bound(kids[1], 20) \o Tight("SCOPE") \o TightIdent(node.name)
       [] node.kind = "Group" -> T("PARENT_OPEN") \o Statements(kids) \o T("PARENT_CLOSE")
       [] node.kind = "Splat" -> T("MUL") \o Untied(Bound(kids[1], 6))
       [] node.kind = "BlockArg" -> T("AMPERSAND") \o Untied(Bound(kids[1], 6))
       [] node.kind = "Pair" -> Bound(kids[1], 6) \o T("ASSOC") \o Bound(kids[2], 6)
       [] node.kind = "KeyPair" -> Ident(node.name) \o Tight("COLON") \o Bound(kids[1], 6)
       [] node.kind = "Array" -> T("SQUARE_OPEN") \o Separated(kids, 6) \o T("SQUARE_CLOSE")
       [] node.kind = "Hash" -> T("CURLY_OPEN") \o Separated(kids, 6) \o T("CURLY_CLOSE")
       [] node.kind = "MultipleExpressions" -> Separated(kids, 6)
       [] node.kind = "Subscript" -> Bound(kids[1], 20) \o Tight("SQUARE_OPEN") \o Separated(Arguments(node), 6) \o T("SQUARE_CLOSE")
       [] node.kind = "Command" -> Ident(node.name) \o FirstOf(kids, 6)
       [] node.kind = "CommandDo" ->
            Ident(node.name) \o BeforeDo(Multiple(Front(kids)), FirstOf(Front(kids), 6)) \o BlockText(kids[Len(kids)], T("KW_DO"), T("KW_END"))
       [] node.kind = "Yield" -> T("KW_YIELD") \o Parenthesized(kids)
       [] node.kind = "Super" -> T("KW_SUPER") \o (IF node.name = "pass" THEN <<>> ELSE Parenthesized(Arguments(node) \o SelectSeq(<<kids[2]>>, LAMBDA block : block.kind = "BlockArg")))
       [] node.kind = "Block" -> T("BLOCK_POINT") \o T("PARENT_OPEN") \o Separated(kids[1].kids[1].kids, 0) \o T("PARENT_CLOSE")
                                 \o T("CURLY_OPEN") \o Body(kids[1].kids[2]) \o T("CURLY_CLOSE")
       [] node.kind = "Parameter" -> Ident(node.name) \o (IF kids[1] = Null THEN <<>> ELSE T("ASSIGN") \o Bound(kids[1], 20))
       [] node.kind = "ParameterGroup" -> T("PARENT_OPEN") \o Separated(kids[1].kids, 0) \o T("PARENT_CLOSE")
       [] node.kind = "ArrayParameter" -> T("MUL") \o TightIdent(node.name)
       [] node.kind = "BlockParameter" -> T("AMPERSAND") \o TightIdent(node.name)
       [] OTHER -> CallWords(node)

\* The words of statements that end with "end", of jumps and of declarations.
StatementWords(node) ==
  LET kids == node.kids
      name == <<[Word("IDENT", node.name, TRUE) EXCEPT !.type = IF node.name = "if" THEN "KW_IF" ELSE "IDENT"]>>
      scope == kids[Len(kids)]
      list == Separated(scope.kids[1].kids, 0)
      end == T("KW_END")
  IN CASE node.kind = "If" -> T(IF node.name = "inverted" THEN "KW_UNLESS" ELSE "KW_IF") \o Bound(kids[1], 4) \o T("KW_THEN")
                              \o Body(kids[2]) \o T("LINE") \o Else(kids[3]) \o end
       [] node.kind = "ElsIf" -> T("KW_IF") \o Bound(kids[1], 4) \o T("LINE") \o Body(kids[2]) \o T("LINE") \o T("KW_ELSIF")
                                 \o Bound(kids[3], 4) \o T("SEMICOLON") \o Body(kids[4]) \o T("LINE") \o end
       [] node.kind = "Loop" -> T(IF node.name = "inverted" THEN "KW_UNTIL" ELSE "KW_WHILE") \o BeforeDo(kids[1], Bound(kids[1], 4)) \o T("KW_DO")
                                \o Body(kids[2]) \o end
       [] node.kind = "For" -> T("KW_FOR") \o Separated(kids[1].kids, 6) \o T("KW_IN") \o BeforeDo(kids[2], Bound(kids[2], 4)) \o T("KW_DO")
                               \o Body(kids[3]) \o end
       [] node.kind = "Case" -> T("KW_CASE") \o (IF kids[1] = Null THEN <<>> ELSE Bound(kids[1], 4)) \o T("LINE")
                                \o Clauses(SubSeq(kids, 3, Len(kids))) \o Optional("KW_ELSE", kids[2]) \o T("LINE") \o end
       [] node.kind = "Handler" -> T("KW_BEGIN") \o Guarded(node) \o T("LINE") \o end
       [] node.kind = "Redo" -> T("KW_REDO")
       [] node.kind \in {"Return", "Break", "Next"} ->
            T([Return |-> "KW_RETURN", Break |-> "KW_BREAK", Next |-> "KW_NEXT"][node.kind])
            \o (IF kids[1] = Nil THEN <<>> ELSE First(kids[1], 6))
       [] node.kind = "Alias" -> T("KW_ALIAS") \o Words(kids[1]) \o Words(kids[2])
       [] node.kind = "Undef" -> T("KW_UNDEF") \o Separated(kids, 0)
       [] node.kind = "Class" -> T("KW_CLASS") \o (IF node.name = "singleton" THEN T("LEFT_SHIFT") ELSE <<>>) \o Bound(kids[1], 18)
                                 \o (IF kids[2] = Null THEN <<>> ELSE T("LESS") \o Bound(kids[2], 13)) \o T("LINE")
                                 \o Body(scope.kids[2]) \o end
       [] node.kind = "Module" -> T("KW_MODULE") \o Words(kids[1]) \o T("LINE") \o Body(scope.kids[2]) \o end
       [] OTHER -> T("KW_DEF") \o (IF kids[1] = Null THEN <<>> ELSE Words(kids[1]) \o Tight("DOT")) \o name
                   \o (IF list = <<>> THEN T("LINE") ELSE Tight("PARENT_OPEN") \o list \o T("PARENT_CLOSE"))
                   \o Guarded(scope.kids[2]) \o T("LINE") \o end

OperatorKinds == {"BinaryOp"} \cup (DOMAIN Levels \ {"Command", "CommandDo", "Return", "Break", "Next", "Alias", "Undef"})
StatementKinds == {"If", "ElsIf", "Loop", "For", "Case", "Handler", "Redo", "Return", "Break", "Next", "Alias", "Undef",
                   "Class", "Module", "Method"}
Words(node) ==
  CASE node.kind \in OperatorKinds -> OperatorWords(node)
    [] node.kind \in StatementKinds -> StatementWords(node)
    [] OTHER -> OperandWords(node)
Text(tree) == Statements(tree.kids) \o T("END")

\* ------------------------------------------------------- what names stand for
\* A name is a variable from where it is first assigned on, to the end of the text of its scope
\* and in the blocks there; else it is a call.  Scopes are numbered as they are opened.  The
\* resolver goes through a program in the order it is written: e is what it knows, e.n the
\* node it went through, with the scope that owns the variable where a name stands for one.
RECURSIVE Owner(_, _, _), Resolve(_, _), ResolveKids(_, _, _)
Owner(e, id, name) ==
  CASE name \in e.scopes[id].names -> id
    [] e.scopes[id].type = "Closure" -> Owner(e, e.scopes[id].parent, name)
    [] OTHER -> 0
With(e, node) == [e EXCEPT !.n = node]
Declared(e, name) == [e EXCEPT !.scopes[e.at].names = @ \cup {name}]
Assigned(e, name) == IF Owner(e, e.at, name) = 0 THEN Declared(e, name) ELSE e
Opened(e, type) ==
  [e EXCEPT !.scopes = Append(@, [type |-> type, parent |-> e.at, names |-> {}, block |-> ""]), !.at = Len(e.scopes) + 1]
Within(e, id) == [e EXCEPT !.at = id]
Use(e, name) == With(e, [Name(name) EXCEPT !.ref = <<Owner(e, e.at, name), 0>>])

\* The order in which the parts of a node are written.
Order(node) ==
  LET From(i) == [j \in 1..(Len(node.kids) - i + 1) |-> i + j - 1]
  IN CASE node.kind \in CallKinds \cup {"Super"} -> <<1>> \o From(3) \o <<2>>
       [] node.kind = "Handler" -> <<1>> \o From(4) \o <<2, 3>>
       [] node.kind = "Case" -> <<1>> \o From(3) \o <<2>>
       [] OTHER -> From(1)
ResolveKids(e, node, order) ==
  IF order = <<>> THEN With(e, node)
  ELSE LET in == Resolve(node.kids[order[1]], e)
       IN ResolveKids(in, [node EXCEPT !.kids[order[1]] = in.n], Tail(order))

\* The names on the left of an assignment come to be after what is called there.
RECURSIVE Targets(_)
Targets(node) ==
  CASE node.kind = "Name" -> {node.name}
    [] node.kind \in {"Splat", "MultipleExpressions"} -> UNION {Targets(node.kids[i]) : i \in DOMAIN node.kids}
    [] OTHER -> {}
RECURSIVE AssignedAll(_, _)
AssignedAll(e, names) ==
  IF names = {} THEN e ELSE LET name == CHOOSE n \in names : TRUE IN AssignedAll(Assigned(e, name), names \ {name})
RECURSIVE Bind(_, _)
Bind(e, node) ==
  CASE node.kind = "Name" -> Use(e, node.name).n
    [] node.kind \in {"Splat", "MultipleExpressions"} -> [node EXCEPT !.kids = [i \in DOMAIN @ |-> Bind(e, @[i])]]
    [] OTHER -> node
ResolveLeft(e, node) ==
  LET in == Resolve(node, e)
      named == AssignedAll(in, Targets(node))
  IN With(named, Bind(named, in.n))
ResolveAssignment(e, node) ==
  LET left == ResolveLeft(e, node.kids[1])
      right == Resolve(node.kids[2], left)
  IN With(right, [node EXCEPT !.kids = <<left.n, right.n>>])
ResolveParameter(e, node) ==
  LET named == [Declared(e, node.name) EXCEPT !.scopes[e.at].block = IF node.kind = "BlockParameter" THEN node.name ELSE @]
  IN ResolveKids(named, node, Order(node))
ResolveScope(e, node) ==
  LET in == ResolveKids(Opened(e, node.name), node, <<1, 2>>)
  IN Within(in, e.at)
\* The variables and the body of a for are in a block, what it goes through is not.
ResolveFor(e, node) ==
  LET open == Opened(e, "Closure")
      variables == ResolveLeft(open, node.kids[1])
      object == Resolve(node.kids[2], Within(variables, e.at))
      body == Resolve(node.kids[3], Within(object, open.at))
  IN Within(With(body, [node EXCEPT !.kids = <<variables.n, object.n, body.n>>]), e.at)
ResolveYield(e, node) ==
  LET in == ResolveKids(e, node, Order(node))
  IN With(in, [in.n EXCEPT !.name = in.scopes[e.at].block, !.ref = <<e.at, 0>>])
Resolve(node, e) ==
  CASE node.kind = "Name" -> Use(e, node.name)
    [] node.kind \in {"Assign", "OperatorAssign", "MultipleAssign", "AttributeWrite"} -> ResolveAssignment(e, node)
    [] node.kind = "Rescue" /\ node.kids[2] # Null ->
         LET pattern == Resolve(node.kids[1], e)
             in == ResolveKids(ResolveLeft(pattern, node.kids[2]), node, <<2, 3>>)
         IN With(in, [in.n EXCEPT !.kids[1] = pattern.n])
    [] node.kind \in {"Parameter", "ArrayParameter", "BlockParameter"} -> ResolveParameter(e, node)
    [] node.kind = "Scope" -> ResolveScope(e, node)
    [] node.kind = "For" -> ResolveFor(e, node)
    [] node.kind = "Yield" -> ResolveYield(e, node)
    [] node.kind = "Method" /\ node.kids[1].kind = "Name" -> ResolveKids(Assigned(e, node.kids[1].name), node, <<1, 2>>)
    [] OTHER -> ResolveKids(e, node, Order(node))
Resolved(tree) == Resolve(tree, Opened([at |-> 0, scopes |-> <<>>, n |-> Null], "Top")).n

\* ------------------------------------------------- what a program means
RECURSIVE Meaning(_), Shape(_)
MeaningOf(list) == [i \in DOMAIN list |-> Meaning(list[i])]
IsPair(node) == node.kind \in {"Pair", "KeyPair"}
PairMeaning(node) ==
  IF node.kind = "Pair" THEN MeaningOf(node.kids) ELSE <<SymbolNode(node.name), Meaning(node.kids[1])>>
RECURSIVE Pairs(_)
Pairs(list) == IF list = <<>> THEN <<>> ELSE PairMeaning(list[1]) \o Pairs(Tail(list))

\* The pairs at the end of a list are a hash.
ListMeaning(list) ==
  MeaningOf(SelectSeq(list, LAMBDA node : ~IsPair(node)))
  \o (IF \E i \in DOMAIN list : IsPair(list[i]) THEN <<Node("Hash", "", Pairs(SelectSeq(list, IsPair)))>> ELSE <<>>)
Setter(node) == [node EXCEPT !.name = @ \o "="]
CallMeaning(node) == Call(node.kind, Meaning(node.kids[1]), node.name, Meaning(node.kids[2]), ListMeaning(Arguments(node)))
LeftMeaning(node) == IF node.kind \in {"Call", "Subscript"} THEN Setter(Meaning(node)) ELSE Meaning(node)

\* x.m += v evaluates x, and the arguments, once.
UpdateMeaning(target, op, value) ==
  LET once == Name("")
      list == <<Splat(once)>>
      operation == Binary(op, Call(target.kind, once, target.name, Null, list), value)
  IN Group(<<Assignment(once, target.kids[1]), Assignment(once, Multiple(Arguments(target))),
             Call("Call", once, target.name \o "=", Null, Append(list, operation))>>)
ForMeaning(node) ==
  LET body == node.kids[3]
      scope == Node("Scope", "Closure", <<Node("Parameters", "", <<Node("ArrayParameter", "", <<Null>>)>>),
                                          Group(<<Assignment(Multiple(node.kids[1].kids), Name("")), body>>)>>)
  IN Call("Call", node.kids[2], "each", scope, <<>>)
Meaning(node) ==
  LET kids == MeaningOf(node.kids)
      op == AssignToOperator[node.name]
  IN CASE node.kind \in {"Call", "Subscript"} -> CallMeaning(node)
       [] node.kind = "Command" -> Call("Call", Self, node.name, Null, ListMeaning(node.kids))
       [] node.kind = "CommandDo" -> Call("Call", Self, node.name, kids[Len(kids)], ListMeaning(Front(node.kids)))
       [] node.kind = "Yield" -> Call("Call", [Name(node.name) EXCEPT !.ref = node.ref], "call", Null, ListMeaning(node.kids))
       [] node.kind = "Super" ->
            Node("Super", node.name, <<Null, kids[2]>> \o ListMeaning(SubSeq(node.kids, 3, Len(node.kids))))
       [] node.kind = "Array" -> Node("Array", "", ListMeaning(node.kids))
       [] node.kind = "Hash" -> Node("Hash", "", Pairs(node.kids))
       [] node.kind = "And" -> Binary("LOGICAL_AND", kids[1], kids[2])
       [] node.kind = "Or" -> Binary("LOGICAL_OR", kids[1], kids[2])
       [] node.kind = "Ternary" -> If(kids[1], kids[2], kids[3])
       [] node.kind = "ElsIf" -> If(kids[1], kids[2], If(kids[3], kids[4], Nil))
       [] node.kind = "ModifierIf" -> If(kids[2], kids[1], Nil)
       [] node.kind = "ModifierUnless" -> Unless(kids[2], kids[1], Nil)
       [] node.kind = "ModifierRescue" -> Handler(kids[1], <<Rescue(Null, Null, kids[2])>>, Null, Null)
       [] node.kind = "ModifierWhile" -> Node("Loop", "", <<kids[2], kids[1]>>)
       [] node.kind = "ModifierUntil" -> Node("Loop", "inverted", <<kids[2], kids[1]>>)
       [] node.kind = "For" -> ForMeaning([node EXCEPT !.kids = kids])
       [] node.kind = "Assign" -> Assignment(kids[1], kids[2])
       [] node.kind = "AttributeWrite" -> [Setter(kids[1]) EXCEPT !.kids = Append(@, kids[2])]
       [] node.kind = "MultipleAssign" ->
            Assignment(Multiple([i \in DOMAIN node.kids[1].kids |-> LeftMeaning(node.kids[1].kids[i])]), kids[2])
       [] node.kind = "OperatorAssign" /\ IsAttribute(kids[1]) -> UpdateMeaning(kids[1], op, kids[2])
       [] node.kind = "OperatorAssign" -> Assignment(kids[1], Binary(op, kids[1], kids[2]))
       [] node.kind \in {"Alias", "Undef"} -> [node EXCEPT !.kids = [i \in DOMAIN @ |-> SymbolNode(@[i].name)]]
       [] OTHER -> [node EXCEPT !.kids = kids]

\* Trees up to what does not matter: groups of one, numbers, whether a name is a variable.
IsName(node) == node.kind \in {"Variable", "Name"} \/ (node.kind = "Ident" /\ Len(node.kids) = 2 /\ node.kids[2] = Null)
Shape(node) ==
  CASE node.kind = "Group" /\ Len(node.kids) = 1 -> Shape(node.kids[1])
    [] IsName(node) -> Name(node.name)
    [] node.kind = "Parameters" ->
         [node EXCEPT !.kids = LET named == SelectSeq(node.kids, LAMBDA kid : kid.kind # "BlockParameter" \/ kid.name # "")
                               IN [i \in DOMAIN named |-> Shape(named[i])]]
    [] OTHER -> Node(IF node.kind = "Ident" THEN "Call" ELSE node.kind, node.name, [i \in DOMAIN node.kids |-> Shape(node.kids[i])])
ProgramMeaning == Node("Scope", "Top", <<Node("Parameters", "", <<>>), Meaning(Resolved(TreeOf(program)))>>)

\* ---------------------------------------------------------------- properties
Finished == stage = "done"
IsProgram == TreeOf(program) # Null

\* Every program is accepted and read back as the tree it is written from: precedence, what
\* belongs to a call and where a statement ends are as the grammar has them.
ParsedAsWritten == Finished /\ IsProgram => s.errors \subseteq {"Jump outside of block"} /\ Shape(s.n) = Shape(ProgramMeaning)

\* Every name stands for the variable the text says, or for a call where there is none: what a
\* name is depends on what was assigned before it, in its scope and in those around a block.
RECURSIVE Names(_)
Names(node) ==
  IF IsName(node) THEN (IF node.name = "" THEN <<>> ELSE <<<<node.name, node.ref[1]>>>>)
  ELSE FlattenSeq([i \in DOMAIN node.kids |-> Names(node.kids[i])])
NamesResolved == Finished /\ IsProgram => Names(s.n) = Names(ProgramMeaning)

\* A variable that a block inside uses outlives the frame: it is on the heap, in a place of its
\* own, and each scope from the block up to the owner of the variable knows the owner, so that
\* the heap can be passed on when the blocks are created; a variable only its own scope uses is
\* not there.
RECURSIVE UsedIn(_, _), Between(_, _, _)
Between(p, id, owner) == IF id = owner THEN {} ELSE {id} \cup Between(p, p.scopes[id].parent, owner)
UsedIn(node, scope) ==
  CASE node.kind = "Variable" -> {<<scope, node.ref[1], node.ref[2]>>}
    [] OTHER -> UNION {UsedIn(node.kids[i], IF node.kind = "Scope" THEN node.ref[1] ELSE scope) : i \in DOMAIN node.kids}
HeapVariables(id) == {i \in DOMAIN s.scopes[id].variables : s.scopes[id].variables[i].heap}
SharedVariablesReachable ==
  Finished /\ s.errors = {} =>
    LET used == UsedIn(s.n, 1)
        outside == {use \in used : use[1] # use[2]}
    IN /\ \A use \in outside :
            /\ use[3] \in HeapVariables(use[2])
            /\ \A id \in Between(s, use[1], use[2]) : \E i \in DOMAIN s.scopes[id].references : s.scopes[id].references[i] = use[2]
       /\ \A id \in DOMAIN s.scopes :
            /\ {s.scopes[id].variables[i].loc : i \in HeapVariables(id)} = 0..(s.scopes[id].heapVars - 1)
            /\ Cardinality(HeapVariables(id)) = s.scopes[id].heapVars
            /\ IsProgram => \A i \in HeapVariables(id) : \E use \in outside : use[2] = id /\ use[3] = i

\* Where a jump goes: the loop whose body it is in, if that is in the same scope, and whether it
\* leaves the part of a begin that an ensure group guards.  clean: no scope is closed in the
\* statement of the scope's body it is part of.
RECURSIVE HasScope(_), JumpsIn(_, _)
HasScope(node) == node.kind = "Scope" \/ \E i \in DOMAIN node.kids : HasScope(node.kids[i])
JumpsIn(node, at) ==
  LET Kid(i, place) == JumpsIn(node.kids[i], place)
      all == UNION {Kid(i, at) : i \in DOMAIN node.kids}
  IN CASE node.kind \in {"Break", "Next", "Redo", "Return"} -> all \cup {[at EXCEPT !.jump = node.ref[1], !.kind = node.kind]}
       [] node.kind = "Loop" -> Kid(1, at) \cup Kid(2, [at EXCEPT !.target = node.ref[1], !.ensure = FALSE])
       [] node.kind = "Handler" /\ node.kids[3] # Null ->
            Kid(1, [at EXCEPT !.ensure = TRUE]) \cup UNION {Kid(i, at) : i \in 2..Len(node.kids)}
       [] node.kind = "Scope" ->
            LET body == IF node.kids[2].kind = "Group" THEN node.kids[2].kids ELSE <<node.kids[2]>>
                inside == [at EXCEPT !.scope = node.ref[1], !.target = 0, !.ensure = FALSE]
            IN Kid(1, inside) \cup UNION {JumpsIn(body[i], [inside EXCEPT !.clean = ~HasScope(body[i])]) : i \in DOMAIN body}
       [] OTHER -> all
AllJumps == JumpsIn(s.n, [jump |-> 0, kind |-> "", scope |-> 0, target |-> 0, ensure |-> FALSE, clean |-> TRUE])
ReachesItsLoop(jump) ==
  jump.kind # "Return" => s.jumps[jump.jump].target = jump.target /\ s.jumps[jump.jump].ensure = jump.ensure

\* A jump in a statement without blocks or definitions reaches its loop through every begin in
\* between, and is reported if there is none to reach.
JumpsReachTheirLoop ==
  Finished /\ IsProgram =>
    /\ \A jump \in AllJumps : jump.clean => ReachesItsLoop(jump)
    /\ \A jump \in AllJumps :
         jump.target = 0 /\ OutsideOfBlock(s, s.jumps[jump.jump]) => "Jump outside of block" \in s.errors

\* A break is "outside of block." only where there is no loop (tree.cpp:71).
ReportedJumpIsOutside ==
  Finished /\ IsProgram /\ "Jump outside of block" \in s.errors => \E jump \in AllJumps : jump.target = 0

\* A text the parser accepts without a message is in the tree from the first word to the last.
RECURSIVE Numbers(_)
Numbers(node) ==
  (IF node.kind = "Integer" THEN {node.name} ELSE {}) \cup UNION {Numbers(node.kids[i]) : i \in DOMAIN node.kids}
NothingDropped ==
  Finished /\ s.errors = {} => {s.text[i].name : i \in {j \in DOMAIN s.text : s.text[j].type = "INTEGER"}} = Numbers(s.n)
=============================================================================
