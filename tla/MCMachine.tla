------------------------------ MODULE MCMachine ------------------------------
EXTENDS MCParser, Evaluation

V(name) == Name(name)
Let(name, x) == Node("Assign", "", <<V(name), x>>)
Do(list) == Method("f", Self, Block(<<>>, list), <<>>)
Each(list) == Method("each", Self, Block(<<Parameter("p")>>, list), <<A>>)
D(list) == Method("d", Self, Null, list)
Num(n) == Node("Integer", ToString(n), <<>>)
Default(name, x) == [Parameter(name) EXCEPT !.kids = <<x>>]
Plus(x, y) == Binary("ADD", x, y)
When(condition, jump) == Node("ModifierIf", "", <<jump, condition>>)
Jump1(kind, x) == Node(kind, "", <<x>>)
Rest(name) == Node("ArrayParameter", name, <<Null>>)
Defd(parameters, list) == Def("d", Null, parameters, Group(list))
Several(list, x) == Node("MultipleAssign", "", <<Multiple(list), x>>)

\* Programs about what closures share, how arguments find their parameters, and where jumps go:
\* lists of statements.
Stories(x) ==
  <<<<Let("b", One), Do(<<Let("b", x)>>), Do(<<F(<<V("b")>>)>>)>>,
    <<Let("b", x), Do(<<Let("c", One), Do(<<Plus(V("c"), V("b"))>>)>>)>>,
    <<Defd(<<Parameter("p"), Default("q", x), Parameter("r")>>, <<F(<<V("p"), V("q"), V("r")>>)>>),
      D(<<One, Num(2)>>), D(<<One, Num(2), Num(3)>>), D(<<One>>)>>,
    <<Defd(<<Default("p", x), Default("q", V("p")), Rest("r")>>, <<F(<<V("p"), V("q"), V("r")>>)>>),
      D(<<>>), D(<<One>>), D(<<One, Num(2), Num(3), Num(4)>>)>>,
    <<Defd(<<Parameter("p"), Node("BlockParameter", "q", <<Null>>)>>, <<Node("Yield", "", <<V("p"), x>>)>>),
      Method("d", Self, Block(<<Parameter("p"), Rest("r")>>, <<Plus(V("p"), V("r"))>>), <<One>>)>>,
    <<Let("b", Each(<<When(x, Jump1("Break", V("p"))), Plus(V("p"), One)>>)), F(<<V("b")>>)>>,
    <<Each(<<When(x, Jump1("Next", V("p"))), Plus(V("p"), One)>>), F(<<One>>)>>,
    <<Each(<<Plus(V("p"), One), When(x, Node("Redo", "", <<Nil>>))>>)>>,
    <<Defd(<<Parameter("p")>>, <<Each(<<When(x, Jump1("Return", V("p")))>>), F(<<V("p")>>)>>), F(<<D(<<One>>)>>)>>,
    <<Node("Loop", "", <<A, Group(<<When(x, Jump1("Break", x)), F(<<One>>)>>)>>)>>,
    <<Node("Loop", "", <<A, Group(<<When(x, Jump1("Next", One)), F(<<One>>)>>)>>)>>,
    <<Several(<<V("b"), Splat(V("c")), V("e")>>, Multiple(<<One, x, Num(2), Num(3)>>)), F(<<V("b"), V("c"), V("e")>>)>>,
    <<Several(<<V("b"), Splat(V("c")), V("e")>>, x), F(<<V("b"), V("c"), V("e")>>)>>,
    <<Node("Case", "", <<x, One, Node("When", "", <<Multiple(<<One, Splat(x), Num(2)>>), F(<<A>>)>>), Node("When", "", <<A, x>>)>>)>>,
    <<Node("Class", "", <<Constant(Null, "A"), Null, Node("Scope", "Class", <<Node("Parameters", "", <<>>),
        Group(<<Node("Assign", "", <<B, x>>), F(<<B, Self>>)>>)>>)>>), F(<<Constant(Constant(Null, "A"), "B")>>)>>,
    <<Defd(<<Parameter("p"), Parameter("q")>>, <<Let("p", x), F(<<Node("Super", "pass", <<Null, Null>>)>>)>>), D(<<One, Num(2)>>)>>,
    <<Let("b", Node("Block", "", <<Block(<<Parameter("p")>>, <<Plus(V("p"), x)>>)>>)),
      Method("call", V("b"), Null, <<One>>), Method("f", Self, BlockArg(V("b")), <<>>)>>,
    <<Method("f", Self, BlockArg(x), <<One>>)>>,
    <<Let("b", One), Node("For", "", <<Multiple(<<V("b"), V("c")>>), x, Plus(V("b"), V("c"))>>), F(<<V("b")>>)>>,
    <<Def("d", V("b"), <<>>, x), Node("Assign", "", <<Node("IVar", "i", <<>>), x>>), F(<<Node("IVar", "i", <<>>)>>)>>>>
MachineTree(numbers) ==
  IF numbers[1] > 700 THEN Group(Stories(Tree(Tail(numbers)))[numbers[1] - 700]) ELSE Group(<<Tree(numbers)>>)
MachineLexemes(numbers) == Text(MachineTree(numbers))

\* Handlers are Unwind's.  Some forms can be compiled only where their value is used; super with
\* arguments passes a closure of its own that the meaning does not know; commands are left out of
\* the stories, whose nesting is deep enough.
Handled == {133, 136, 513, 514, 515, 516, 606}
Alone == {125, 126, 406, 407, 329}
Plain == AllForms \ (Handled \cup Alone)
Inner == Plain \ ({325} \cup (308..311) \cup {321, 322, 518})
Few == {108, 201, 209, 303, 318, 327, 501, 506, 510, 517, 601, 607}
MachinePrograms == ((701..720) \X Inner \X {1}) \cup ((701..720) \X {1, 2}) \cup (Plain \X Few \X {1}) \cup (Alone \X {1})
MachineOracles == {<<>>, <<TRUE, FALSE, FALSE, TRUE>>}
=============================================================================
