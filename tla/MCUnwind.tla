------------------------------ MODULE MCUnwind ------------------------------
(***************************************************************************)
(* Small programs for Unwind.  MCPrograms are those whose rescue, else and *)
(* ensure groups do not raise, jump or contain a begin, and which leave a  *)
(* begin by a jump only if it has an ensure and no rescue around it.  TLC  *)
(* evaluates the assumptions of Unwind on them: they pass the checks of    *)
(* VerifiedCode, which the proofs about Unwind rely on.                    *)
(***************************************************************************)
EXTENDS Unwind, HandlerCode

Script(tree)  == [tree |-> tree, closure |-> FALSE, owner |-> 1, parent |-> 0]
Method(tree)  == [tree |-> tree, closure |-> FALSE, owner |-> 2, parent |-> 0]
Closure(tree) == [tree |-> tree, closure |-> TRUE, owner |-> 1, parent |-> 1]

Node(name) == [n |-> name]
Seq2(t, u) == [n |-> "seq", body |-> <<t, u>>]
If(t)      == [n |-> "if", body |-> t]
While(t)   == [n |-> "loop", body |-> t]
CallOf(code, block) == [n |-> "call", code |-> code, block |-> block]
Begin(body, rescues, else, ensure) ==
  [n |-> "begin", body |-> body, rescues |-> rescues, else |-> else, ensure |-> ensure]

work == Node("work")
step == Node("step")

Rescue(body)      == [filter |-> FALSE, classes |-> {"standard", "jump"}, body |-> body]
RescueFatal(body) == [filter |-> TRUE, classes |-> {"fatal"}, body |-> body]

\* Begins around a body.
Begins(bodies) ==
  {Begin(body, rescues, else, ensure) :
     body \in bodies, else \in {Nil, step}, ensure \in {Nil, step},
     rescues \in {<<>>, <<Rescue(step)>>, <<RescueFatal(step), Rescue(step)>>}}

Ensures(body)     == Begin(body, <<>>, Nil, step)
Simple            == Begins({work})
Nested            == Begins({Seq2(work, Seq2(t, work)) : t \in Simple})

\* A loop whose body jumps out of one or two begins.
Loops ==
  {While(t) : t \in
     UNION {{Ensures(Seq2(If(Node(jump)), work)), Ensures(Seq2(Ensures(If(Node(jump))), work)),
             Seq2(work, Ensures(Seq2(If(Node(jump)), work))),
             If(Node(jump)), Ensures(Seq2(While(If(Node(jump))), work))} : jump \in Jumps}}

\* Scripts that pass a closure to a method that yields.
Yielding(method, closure) ==
  <<Script(Begin(Seq2(CallOf(2, 3), work), <<RescueFatal(step)>>, Nil, step)),
    Method(method), Closure(closure)>>

Closures ==
  {Ensures(Seq2(If(Node(jump)), work)) : jump \in Jumps \cup {"return"}}
    \cup {If(Node(jump)) : jump \in Jumps \cup {"return"}} \cup {Ensures(work)}

MCPrograms ==
  {Compile(<<Script(t)>>) : t \in Nested \cup {Ensures(Seq2(t, work)) : t \in Loops}}
    \cup {Compile(<<Script(t), Method(u)>>) : t \in Begins({Seq2(CallOf(2, 0), work)}), u \in Nested}
    \cup {Compile(Yielding(method, closure)) :
            method \in {Node("yield"), Ensures(Node("yield")), While(Node("yield"))},
            closure \in Closures}

=============================================================================
