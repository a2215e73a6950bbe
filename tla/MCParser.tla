------------------------------ MODULE MCParser ------------------------------
EXTENDS Grammar, TLC
LOCAL INSTANCE SequencesExt

A == Name("a")
One == Node("Integer", "1", <<>>)
B == Constant(Null, "B")
Method(name, object, block, list) == Call("Call", object, name, block, list)
F(list) == Method("f", Self, Null, list)
DoBlock(x) == Block(<<>>, <<x>>)

\* Every way to put an expression between others.
Ops == <<"MUL", "ADD", "LEFT_SHIFT", "BITWISE_OR", "LESS", "EQUALITY", "LOGICAL_AND", "LOGICAL_OR", "POWER">>
Operations(x) ==
  [i \in DOMAIN Ops |-> Binary(Ops[i], x, A)] \o [i \in DOMAIN Ops |-> Binary(Ops[i], A, x)]
  \o <<Node("UnaryOp", "UNARY_SUB", <<x>>), Node("UnaryOp", "LOGICAL_NOT", <<x>>), Node("BooleanNot", "", <<x>>), Node("And", "", <<x, A>>), Node("And", "", <<A, x>>), Node("Or", "", <<A, x>>),
        Node("Range", "RANGE_INCL", <<x, A>>), Node("Range", "RANGE_INCL", <<A, x>>),
        Node("Ternary", "", <<x, A, One>>), Node("Ternary", "", <<A, x, One>>), Node("Ternary", "", <<A, One, x>>),
       Node("ModifierIf", "", <<x, A>>), Node("ModifierUnless", "", <<x, A>>), Node("ModifierWhile", "", <<x, A>>),
       Node("ModifierRescue", "", <<x, A>>), Node("ModifierIf", "", <<A, x>>), Node("ModifierUntil", "", <<A, x>>),
       Node("ModifierRescue", "", <<A, x>>)>>
Assignments(x) ==
  <<Node("Assign", "", <<A, x>>), Node("OperatorAssign", "ASSIGN_ADD", <<A, x>>), Node("Assign", "", <<B, x>>),
   Node("AttributeWrite", "", <<Method("m", A, Null, <<>>), x>>), Node("AttributeWrite", "", <<Method("m", x, Null, <<>>), A>>),
   Node("AttributeWrite", "", <<Call("Subscript", A, "[]", Null, <<x>>), One>>),
   Node("OperatorAssign", "ASSIGN_LOGICAL_OR", <<Method("m", A, Null, <<>>), x>>),
   Node("OperatorAssign", "ASSIGN_MUL", <<Call("Subscript", x, "[]", Null, <<A>>), One>>),
   Node("MultipleAssign", "", <<Multiple(<<A, Splat(Name("b"))>>), Multiple(<<x, One>>)>>),
   Node("MultipleAssign", "", <<Multiple(<<A, Name("b")>>), x>>),
   Node("MultipleAssign", "", <<Multiple(<<Method("m", x, Null, <<>>), A>>), Multiple(<<One, Splat(A)>>)>>)>>
Calls(x) ==
  <<F(<<x>>), F(<<A, x>>), F(<<Splat(x)>>), F(<<A, Node("Pair", "", <<x, A>>)>>), F(<<Node("Pair", "", <<A, x>>)>>),
   F(<<Node("KeyPair", "k", <<x>>), Node("KeyPair", "l", <<A>>)>>),
   Node("Command", "f", <<x>>), Node("Command", "f", <<A, x>>), Node("Command", "f", <<Node("KeyPair", "k", <<x>>)>>),
   Node("Command", "f", <<Splat(x)>>), Node("Command", "f", <<Node("UnaryOp", "UNARY_SUB", <<x>>)>>),
   Method("f", Self, BlockArg(x), <<A>>), Method("m", x, Null, <<>>), Method("m", x, Null, <<A>>), Method("m", A, Null, <<x>>),
   Call("Subscript", x, "[]", Null, <<A>>), Call("Subscript", A, "[]", Null, <<x, One>>),
   Method("f", Self, Block(<<>>, <<x>>), <<>>), Method("f", Self, Block(<<Parameter("p")>>, <<x, A>>), <<A>>),
   Method("m", x, Block(<<Parameter("p"), Node("ArrayParameter", "q", <<Null>>)>>, <<One>>), <<>>),
   Node("CommandDo", "f", <<x, Block(<<>>, <<A>>)>>), Node("CommandDo", "f", <<A, Block(<<Parameter("p")>>, <<x>>)>>),
   Node("Yield", "", <<x>>), Node("Yield", "", <<A, x>>), Node("Super", "", <<Null, Null, x>>), Node("Super", "", <<Null, BlockArg(x)>>),
   Node("Block", "", <<Block(<<>>, <<x>>)>>), Node("Block", "", <<Block(<<Parameter("p"), Node("BlockParameter", "q", <<Null>>)>>, <<x>>)>>),
   Constant(x, "B")>>
Literals(x) ==
  <<Node("Array", "", <<x>>), Node("Array", "", <<A, x>>), Node("Array", "", <<Splat(x), Node("Pair", "", <<A, One>>)>>),
   Node("Hash", "", <<Node("Pair", "", <<x, A>>), Node("Pair", "", <<A, x>>)>>), Node("Hash", "", <<Node("KeyPair", "k", <<x>>)>>),
   Node("Interpolate", "STRING", <<x>>), Node("Interpolate", "STRING", <<x, A>>), Group(<<x, One>>)>>

Body1(x) == Group(<<x>>)
Def(name, object, parameters, x) == Node("Method", name, <<object, Node("Scope", "Method", <<Node("Parameters", "", parameters), x>>)>>)
Module(kind, name, object, super, x) ==
  Node(kind, name, <<object>> \o super \o <<Node("Scope", kind, <<Node("Parameters", "", <<>>), Group(<<x>>)>>)>>)
Structures(x) ==
  <<If(x, A, Nil), If(A, x, One), Unless(A, One, x), Node("ElsIf", "", <<A, x, One, A>>), Node("ElsIf", "", <<A, One, x, A>>),
   Node("Loop", "", <<x, A>>), Node("Loop", "inverted", <<A, x>>),
   Node("For", "", <<Multiple(<<Name("v")>>), x, A>>), Node("For", "", <<Multiple(<<Name("v"), Name("w")>>), A, x>>),
   Node("Case", "", <<x, Null, Node("When", "", <<A, One>>)>>),
   Node("Case", "", <<A, x, Node("When", "", <<Multiple(<<One, x>>), A>>), Node("When", "", <<One, A>>)>>),
   Node("Case", "", <<Null, Null, Node("When", "", <<x, Group(<<A, x>>)>>)>>),
   Handler(x, <<>>, Null, A), Handler(A, <<Rescue(Multiple(<<x>>), Name("e"), A)>>, Null, Null),
   Handler(A, <<Rescue(Null, Null, x), Rescue(Multiple(<<B, A>>), Null, One)>>, x, A), Handler(A, <<>>, Null, x),
   Node("Return", "", <<x>>), Node("Return", "", <<Node("Array", "", <<x>>)>>)>>
Definitions(x) ==
  <<Def("d", Null, <<>>, x), Def("d", Self, <<Parameter("p")>>, Group(<<x, A>>)), Def("if", Null, <<>>, x), Def("d", Null, <<Node("ArrayParameter", "r", <<Null>>), Node("BlockParameter", "s", <<Null>>)>>, Group(<<x, A>>)), Def("d", A, <<>>, x),
   Def("d", Null, <<Parameter("p"), [Parameter("q") EXCEPT !.kids = <<x>>]>>, Handler(A, <<Rescue(Null, Null, x)>>, Null, A)),
   Module("Class", "", B, <<Null>>, x), Module("Class", "", B, <<x>>, A), Module("Class", "singleton", x, <<Null>>, A),
   Module("Module", "", Constant(B, "C"), <<>>, x),
   Group(<<Node("Alias", "", <<Name("if"), Name("b")>>), x>>), Group(<<Node("Undef", "", <<Name("b"), Name("if")>>), x>>)>>
\* Form 307 is the seventh of the third group.
Forms(group, x) ==
  CASE group = 1 -> Operations(x) [] group = 2 -> Assignments(x) [] group = 3 -> Calls(x)
    [] group = 4 -> Literals(x) [] group = 5 -> Structures(x) [] group = 6 -> Definitions(x)
Form(number, x) == Forms(number \div 100, x)[number % 100]
AllForms == UNION {{100 * group + i : i \in DOMAIN Forms(group, A)} : group \in 1..6}

\* Statements about the name a, and ways to put two of them into scopes.
Uses == <<A, Node("Assign", "", <<A, One>>), F(<<A>>), Method("f", Self, DoBlock(A), <<>>),
          Method("f", Self, DoBlock(Node("Assign", "", <<A, One>>)), <<>>), Method("f", Self, Block(<<Parameter("a")>>, <<A>>), <<>>),
          Node("MultipleAssign", "", <<Multiple(<<Method("m", A, Null, <<>>), A>>), A>>),
          Handler(One, <<Rescue(Null, A, A)>>, Null, Null), Node("ModifierIf", "", <<Node("Assign", "", <<A, A>>), A>>)>>
Around(i, x, y) ==
  <<Method("f", Self, Block(<<>>, <<x, y>>), <<>>),
    Method("f", Self, Block(<<Parameter("b")>>, <<x, Method("f", Self, DoBlock(y), <<>>)>>), <<>>),
    Def("d", Null, <<Parameter("b")>>, Group(<<x, y>>)),
    Node("For", "", <<Multiple(<<A>>), x, y>>),
    Group(<<x, Node("Block", "", <<Block(<<[Parameter("p") EXCEPT !.kids = <<A>>]>>, <<Method("f", Self, DoBlock(y), <<>>)>>)>>)>>)>>[i]

\* Jumps, and what may stand around them.
Jumps == <<Node("Break", "", <<Nil>>), Node("Next", "", <<One>>), Node("Redo", "", <<Nil>>), Node("Return", "", <<A>>)>>
F0 == Method("f", Self, DoBlock(A), <<>>)
Jumping(x) ==
  <<Node("Loop", "", <<A, x>>), Node("Loop", "", <<x, A>>), Node("ModifierWhile", "", <<x, A>>), Node("ModifierUntil", "", <<A, x>>),
    Method("f", Self, DoBlock(x), <<>>), Group(<<x, F0, x>>), Handler(x, <<>>, Null, A), Handler(A, <<Rescue(Null, Null, x)>>, x, Null),
    Handler(A, <<>>, Null, x), If(A, x, Nil), Def("d", Null, <<>>, Handler(x, <<>>, Null, A)),
    If(F0, x, Nil), Node("Loop", "", <<F0, x>>), Node("And", "", <<Method("m", F0, Null, <<>>), x>>)>>

\* Words in any order.
Soup == <<Ident("a"), T("INTEGER"), T("SEMICOLON"), T("COMMA"), T("ASSIGN"), T("MUL"), T("PARENT_OPEN"), T("PARENT_CLOSE"),
          T("SQUARE_OPEN"), T("SQUARE_CLOSE"), T("QUESTION"), T("COLON"), T("CURLY_OPEN"), T("CURLY_CLOSE"), T("KW_IF"), T("KW_DO"),
          T("KW_END"), T("KW_RESCUE"), Tight("DOT"), T("BITWISE_OR"), T("KW_WHILE"), T("LINE")>>
Numbered(words) == [i \in DOMAIN words |-> IF words[i].type = "INTEGER" THEN [words[i] EXCEPT !.name = ToString(i)] ELSE words[i]]

\* A program is numbered by the forms it is put together from, the outer one first; 0, -1 and
\* -2 start the numbers of names, jumps and words.
RECURSIVE Tree(_), JumpTree(_)
Tree(code) == IF Len(code) = 1 THEN <<A, One>>[code[1]] ELSE Form(Head(code), Tree(Tail(code)))
JumpTree(code) == IF Len(code) = 1 THEN Jumps[code[1]] ELSE Jumping(JumpTree(Tail(code)))[Head(code)]
MCTreeOf(code) ==
  CASE code[1] = 0 -> Group(<<Around(code[2], Uses[code[3]], Uses[code[4]]), Uses[code[5]]>>)
    [] code[1] = -1 -> Group(<<JumpTree(Tail(code))>>)
    [] code[1] = -2 -> Null
    [] OTHER -> Group(<<Tree(code)>>)
MCLexemesOf(code) ==
  IF code[1] = -2 THEN Numbered([i \in 1..(Len(code) - 1) |-> Soup[code[i + 1]][1]]) \o T("END")
  ELSE Text(MCTreeOf(code))
Operators == 101..118
Expressions == (AllForms \X AllForms \X {1, 2}) \cup (Operators \X Operators \X Operators \X {1})
NamePrograms == {0} \X (1..5) \X (1..9) \X (1..9) \X (1..9)
NestedJumps == {-1} \X (1..14) \X (1..14) \X (1..4)
JumpPrograms == NestedJumps \cup ({-1} \X (1..14) \X (1..14) \X (1..14) \X (1..3))
Soups == ({-2} \X (1..22) \X (1..22) \X (1..22)) \cup ({-2} \X (1..9) \X (1..9) \X (1..9) \X (1..9))
MCPrograms == Expressions \cup NamePrograms \cup JumpPrograms \cup Soups
=============================================================================
