---------------------------- MODULE HandlerCode ----------------------------
(***************************************************************************)
(* What the byte code generator (codegen/bytecode.cpp) makes of the nodes  *)
(* that exceptions and jumps are about: begin, while, break, next, redo,   *)
(* return, calls and yield.  A program is a sequence of scopes, the first  *)
(* of them the script; Unwind runs what Compile returns.                   *)
(*                                                                         *)
(* Which jumps unwind instead of branching (VoidNode::in_ensure) and which *)
(* loops need a handler for that (LoopNode::trap_exceptions) is decided by *)
(* the parser's VoidTrappers, read here off the tree.                      *)
(***************************************************************************)
EXTENDS Integers, Sequences, SequencesExt

\* Nodes: [n |-> kind, ...].  Absent else and ensure groups are Nil.
Nil == [n |-> "nil"]
Jumps == {"break", "next", "redo"}
HasEnsure(t) == t.ensure # Nil

RECURSIVE Unwinds(_, _)

\* Some jump of t to the loop around t passes the body of a begin with an ensure
\* ("crossed" says that one has been passed already).  Only the body of a begin has a
\* VoidTrapper, not its rescue, else and ensure groups; a loop's own body targets it.
Unwinds(t, crossed) ==
  CASE t.n \in Jumps -> crossed
    [] t.n = "seq"   -> \E i \in DOMAIN t.body : Unwinds(t.body[i], crossed)
    [] t.n = "if"    -> Unwinds(t.body, crossed)
    [] t.n = "begin" -> \/ Unwinds(t.body, crossed \/ HasEnsure(t))
                        \/ \E i \in DOMAIN t.rescues : Unwinds(t.rescues[i].body, crossed)
                        \/ Unwinds(t.else, crossed) \/ Unwinds(t.ensure, crossed)
    [] OTHER -> FALSE

-----------------------------------------------------------------------------
(* The generator: ops, labels (the address each was placed at), exception   *)
(* blocks and current_exception_block.                                      *)
(*                                                                          *)
(* "in" (of an op) and "outer" (of a block) are no part of the byte code:   *)
(* they say which begin or loop handler the source puts them under, 0 being *)
(* none.  "goal" is where the source sends a jump, 0 being out of the scope.*)

Op(name, to, in, goal) == [name |-> name, to |-> to, with |-> 0, in |-> in, goal |-> goal]

BodyLabel  == 1   \* ByteCodeGenerator::body
EpilogLabel == 2  \* ByteCodeGenerator::epilog
StartLabel == 3   \* no label of the code: where body is placed first

Emit(s, op)        == [s EXCEPT !.ops = Append(@, op)]
CreateLabels(s, n) == [s EXCEPT !.labels = @ \o [i \in 1 .. n |-> 0]]
NextLabel(s)       == Len(s.labels) + 1
Place(s, label)    == [s EXCEPT !.labels[label] = Len(s.ops) + 1]

RECURSIVE Gen(_, _, _)

\* The context of a node: the handler it is under, whether it is in the body of a begin
\* with an ensure, the labels of the loop around it (0: none) and its scope.
Unblocked(scope) == [in |-> 0, inEnsure |-> FALSE, loop |-> 0, scope |-> scope]

\* label_start, label_body and label_end of a loop are created one after the other.
LoopStart(l) == l
LoopBody(l)  == l + 1
LoopEnd(l)   == l + 2

\* convert_loop.  Every evaluation of the condition may go either way.
GenPlainLoop(t, s, c) ==
  LET l == NextLabel(s)
      s1 == Place(CreateLabels(s, 3), LoopStart(l))
      s2 == Emit(Place(s1, LoopBody(l)), Op("branch_unless", LoopEnd(l), c.in, 0))
      s3 == Gen(t.body, s2, [c EXCEPT !.loop = l, !.inEnsure = FALSE])
      s4 == Emit(Place(s3, BodyLabel), Op("branch", LoopStart(l), c.in, LoopStart(l)))
  IN Place(s4, LoopEnd(l))

\* convert_handler on a loop with trap_exceptions.
GenTrappingLoop(t, s, c) ==
  LET b == Len(s.blocks) + 1
      l == NextLabel(s)
      block == [parent |-> s.current, outer |-> c.in, handlers |-> <<>>, ensure |-> 0,
                next |-> LoopStart(l), break |-> LoopEnd(l)]
      s1 == Emit([s EXCEPT !.blocks = Append(@, block), !.current = b], Op("handler", b, c.in, 0))
      s2 == GenPlainLoop(t, s1, [c EXCEPT !.in = b])
  IN [Emit(s2, Op("handler", block.parent, c.in, 0)) EXCEPT !.current = block.parent]

\* One rescue clause of block b.  The test of a clause with a pattern cannot raise here.
GenRescue(r, s, c, b, ok) ==
  LET test == IF r.filter
              THEN Emit(Emit(s, Op("step", 0, c.in, 0)), Op("unwind_filter", 0, c.in, 0))
              ELSE s
      handler == [filter |-> r.filter, classes |-> r.classes,
                  test |-> Len(s.ops) + 1, rescue |-> Len(test.ops) + 1]
      body == Gen(r.body, [test EXCEPT !.blocks[b].handlers = Append(@, handler)], c)
  IN Emit(body, Op("branch", ok, c.in, ok))

\* convert_handler.
GenBegin(t, s, c) ==
  LET b == Len(s.blocks) + 1
      ok == NextLabel(s)
      else == ok + 1
      block == [parent |-> s.current, outer |-> c.in, handlers |-> <<>>, ensure |-> 0,
                next |-> 0, break |-> 0]
      s1 == [CreateLabels(s, 2) EXCEPT !.blocks = Append(@, block), !.current = b]
      s2 == Gen(t.body, Emit(s1, Op("handler", b, c.in, 0)),
                [c EXCEPT !.in = b, !.inEnsure = @ \/ HasEnsure(t)])
      s3 == Emit(s2, Op("handler", block.parent, c.in, 0))
      s4 == IF t.rescues = <<>> THEN s3
            ELSE FoldLeft(LAMBDA g, r : GenRescue(r, g, c, b, ok),
                          Emit(s3, Op("branch", else, c.in, else)), t.rescues)
      s5 == Gen(t.else, Place([s4 EXCEPT !.current = block.parent], else), c)
      s6 == Place(s5, ok)
      s7 == [s6 EXCEPT !.blocks[b].ensure = Len(s6.ops) + 1]
  IN IF HasEnsure(t) THEN Emit(Gen(t.ensure, s7, c), Op("unwind_ensure", 0, c.in, 0)) ELSE s6

\* convert_break: in a closure it leaves the call the closure was passed to.
GenBreak(s, c) ==
  IF c.loop = 0 THEN Emit(s, Op("unwind_break", c.scope.parent, c.in, 0))
  ELSE Emit(s, Op(IF c.inEnsure THEN "unwind_break" ELSE "branch",
                  IF c.inEnsure THEN 0 ELSE LoopEnd(c.loop), c.in, LoopEnd(c.loop)))

\* convert_next.
GenNext(s, c) ==
  IF c.inEnsure THEN Emit(s, Op("unwind_next", 0, c.in, IF c.loop = 0 THEN 0 ELSE LoopStart(c.loop)))
  ELSE IF c.loop # 0 THEN Emit(s, Op("branch", LoopStart(c.loop), c.in, LoopStart(c.loop)))
  ELSE Emit(s, Op("branch", EpilogLabel, c.in, EpilogLabel))

\* convert_redo.
GenRedo(s, c) ==
  Emit(s, Op(IF c.inEnsure THEN "unwind_redo" ELSE "branch",
             IF c.loop = 0 THEN BodyLabel ELSE LoopBody(c.loop), c.in,
             IF c.loop = 0 THEN StartLabel ELSE LoopBody(c.loop)))

\* convert_return.  A return never reaches a VoidTrapper but the scope's: in_ensure of a
\* ReturnNode is always false.
GenReturn(s, c) ==
  IF c.scope.closure THEN Emit(s, Op("unwind_return", c.scope.owner, c.in, 0))
  ELSE Emit(s, Op("branch", EpilogLabel, c.in, EpilogLabel))

\* convert_if, for its control: the body may be skipped.
GenIf(t, s, c) ==
  LET skip == NextLabel(s)
      s1 == Emit(CreateLabels(s, 1), Op("branch_unless", skip, c.in, 0))
  IN Place(Gen(t.body, s1, c), skip)

Gen(t, s, c) ==
  CASE t.n = "nil"    -> s
    [] t.n = "seq"    -> FoldLeft(LAMBDA g, u : Gen(u, g, c), s, t.body)
    [] t.n = "if"     -> GenIf(t, s, c)
    [] t.n = "begin"  -> GenBegin(t, s, c)
    [] t.n = "loop"   -> IF Unwinds(t.body, FALSE) THEN GenTrappingLoop(t, s, c)
                         ELSE GenPlainLoop(t, s, c)
    [] t.n = "break"  -> GenBreak(s, c)
    [] t.n = "next"   -> GenNext(s, c)
    [] t.n = "redo"   -> GenRedo(s, c)
    [] t.n = "return" -> GenReturn(s, c)
    [] t.n = "call"   -> Emit(s, [Op("call", t.code, c.in, 0) EXCEPT !.with = t.block])
    [] OTHER          -> Emit(s, Op(t.n, 0, c.in, 0))   \* work, step, yield

-----------------------------------------------------------------------------
\* finalize: labels become addresses.
Labelled == {"branch", "branch_unless", "unwind_redo"}

Resolved(s) ==
  LET at(label) == IF label = 0 THEN 0 ELSE s.labels[label]
  IN [ops |-> [i \in DOMAIN s.ops |->
                [s.ops[i] EXCEPT !.to = IF s.ops[i].name \in Labelled THEN at(@) ELSE @,
                                 !.goal = at(@)]],
      blocks |-> [b \in DOMAIN s.blocks |->
                   [s.blocks[b] EXCEPT !.next = at(@), !.break = at(@)]]]

\* generate.  A scope is [tree, closure, owner, parent]: owner is the number of the
\* method a closure is in, parent that of the scope around it.
CompileScope(scope) ==
  LET s0 == [ops |-> <<>>, labels |-> <<0, 0, 0>>, blocks |-> <<>>, current |-> 0]
      s1 == Gen(scope.tree, Place(Place(s0, BodyLabel), StartLabel), Unblocked(scope))
  IN Resolved(Emit(Place(s1, EpilogLabel), Op("return", 0, 0, 0)))

Compile(scopes) == [i \in DOMAIN scopes |-> CompileScope(scopes[i])]
=============================================================================
