---------------------------- MODULE VerifiedCode ----------------------------
(***************************************************************************)
(* What the virtual machine relies on in the byte code of a program when   *)
(* it unwinds: a check of the kind a byte code verifier makes, op by op    *)
(* and address by address.  vm.cpp makes none.  The code generator's       *)
(* output (HandlerCode) passes it unless the source has one of the forms   *)
(* in which exceptions and jumps are known to go astray.                   *)
(*                                                                         *)
(* A program p is a sequence of scopes, a scope s its ops and its          *)
(* ExceptionBlocks.  An address i is the position of an op.                *)
(***************************************************************************)
EXTENDS Integers, Sequences, FiniteSetsExt

LocalJumps == {"unwind_next", "unwind_redo"}
RaisingNames == {"work", "call", "yield", "unwind_return", "unwind_break"} \cup LocalJumps
OpNames == RaisingNames \cup {"step", "branch", "branch_unless", "handler", "return",
                              "unwind_ensure", "unwind_filter"}
Classes == {"standard", "fatal", "jump"}

OpType == [name : OpNames, to : Nat, with : Nat, in : Nat, goal : Nat]
ClauseType == [filter : BOOLEAN, classes : SUBSET Classes, test : Nat, rescue : Nat]
BlockType == [parent : Nat, outer : Nat, handlers : Seq(ClauseType),
              ensure : Nat, next : Nat, break : Nat]

-----------------------------------------------------------------------------
(* What holds at an address, read off the text of the code.                *)

Name(s, i) == s.ops[i].name
BlockNumbers(s) == 0 .. Len(s.blocks)
Parent(s, b) == s.blocks[b].parent
Ensured(s) == {b \in DOMAIN s.blocks : s.blocks[b].ensure # 0}

\* Loops that trap jumps have a block of their own.
IsLoop(s, b) == b # 0 /\ s.blocks[b].next # 0

\* The blocks around code in block b, and b, as the source nests them.
Around(s, b) ==
  LET around[i \in BlockNumbers(s)] ==
        IF i = 0 THEN {} ELSE {i} \cup around[s.blocks[i].outer]
  IN around[b]

\* The begins among them, and those that have an ensure.
BeginsAround(s, b) == {a \in Around(s, b) : ~IsLoop(s, a)}
EnsuredAround(s, b) == Around(s, b) \cap Ensured(s)

\* The handler in effect at i: what the last op "handler" before i set.
Under(s, i) ==
  LET set == {j \in 1 .. i - 1 : Name(s, j) = "handler"}
  IN IF set = {} THEN 0 ELSE s.ops[Max(set)].to

\* The begins entered before i whose ensure group comes after i.
OpenAt(s, i) ==
  {b \in Ensured(s) : /\ i < s.blocks[b].ensure
                      /\ \E j \in 1 .. i - 1 : Name(s, j) = "handler" /\ s.ops[j].to = b}

\* The clauses whose pattern is tested at i.
TestsAt(s, i) ==
  UNION {{<<b, k>> : k \in {k \in DOMAIN s.blocks[b].handlers :
                              LET h == s.blocks[b].handlers[k]
                              IN h.filter /\ h.test <= i /\ i < h.rescue}} : b \in DOMAIN s.blocks}

\* An exception may be pending at i: a pattern is tested, or an ensure group runs.
MayPend(s, i) ==
  \/ TestsAt(s, i) # {}
  \/ \E b \in Ensured(s) :
       /\ s.blocks[b].ensure <= i
       /\ \A j \in s.blocks[b].ensure .. i - 1 : Name(s, j) # "unwind_ensure"

-----------------------------------------------------------------------------
(* The check.                                                              *)

\* Blocks are numbered from the outside in, and handled in the order the source nests
\* them in.
BlocksNested(s) ==
  /\ Around(s, 0) = {}
  /\ \A b \in DOMAIN s.blocks :
       /\ Parent(s, b) \in 0 .. b - 1
       /\ Around(s, b) = Around(s, Parent(s, b)) \cup {b} /\ Around(s, b) \subseteq 1 .. b
       /\ IsLoop(s, b) => s.blocks[b].handlers = <<>> /\ s.blocks[b].ensure = 0

\* Code that is reached with handler b in effect and the begins of open entered may
\* stand at i: nothing is tested there.
Reaches(s, i, b, open) ==
  /\ i \in DOMAIN s.ops
  /\ Under(s, i) = b
  /\ OpenAt(s, i) = {a \in open : s.blocks[a].ensure # i}

\* What handle_exception may jump to.
HandlersPlaced(s) ==
  \A b \in DOMAIN s.blocks :
    LET block == s.blocks[b] IN
    /\ \A k \in DOMAIN block.handlers :
         LET h == block.handlers[k] IN
         /\ Reaches(s, h.rescue, block.parent, EnsuredAround(s, b)) /\ TestsAt(s, h.rescue) = {}
         /\ h.filter => /\ Reaches(s, h.test, block.parent, EnsuredAround(s, b))
                        /\ TestsAt(s, h.test) = {<<b, k>>}
    /\ b \in Ensured(s) => /\ Reaches(s, block.ensure, block.parent, EnsuredAround(s, b))
                           /\ MayPend(s, block.ensure) /\ TestsAt(s, block.ensure) = {}
    /\ IsLoop(s, b) => \A i \in {block.next, block.break} :
                         Reaches(s, i, b, EnsuredAround(s, b)) /\ TestsAt(s, i) = {}

\* The addresses that come after i, unless the op throws.
After(s, i) ==
  CASE Name(s, i) = "branch"        -> {s.ops[i].to}
    [] Name(s, i) = "branch_unless" -> {i + 1, s.ops[i].to}
    [] Name(s, i) \in {"return", "unwind_filter"} -> {}
    [] OTHER                        -> {i + 1}

\* From op to op the handler in effect and the begins entered are what the ops make
\* of them, whichever way an address is reached.
FlowKept(s) ==
  /\ 1 \in DOMAIN s.ops /\ Under(s, 1) = 0 /\ OpenAt(s, 1) = {} /\ TestsAt(s, 1) = {}
  /\ \A i \in DOMAIN s.ops :
       LET op == s.ops[i]
           sets == op.name = "handler"
           enters == IF sets THEN {op.to} \cap Ensured(s) ELSE {}
       IN /\ sets => op.to \in BlockNumbers(s) /\ ~MayPend(s, i)
          /\ \A j \in After(s, i) :
               /\ Reaches(s, j, IF sets THEN op.to ELSE Under(s, i), OpenAt(s, i) \cup enters)
               /\ TestsAt(s, j) = TestsAt(s, i)
               /\ MayPend(s, i) /\ op.name # "unwind_ensure" => MayPend(s, j)

\* The loop a local jump from under b goes to, 0 being none: the innermost.
IsHome(s, b, home) ==
  LET loops == {a \in Around(s, b) : IsLoop(s, a)}
  IN home \in loops \cup {0} /\ \A a \in loops : a <= home

\* Ops that throw stand where the source says, with every begin around them still to
\* run its ensure group, and not where an exception may be pending.
OpsPlaced(s) ==
  \A i \in DOMAIN s.ops :
    LET op == s.ops[i] IN
    /\ op.name \in RaisingNames =>
         /\ Under(s, i) = op.in /\ op.in \in BlockNumbers(s)
         /\ OpenAt(s, i) = EnsuredAround(s, op.in) /\ OpenAt(s, i + 1) = OpenAt(s, i)
         /\ ~MayPend(s, i)
    /\ op.name = "return" => OpenAt(s, i) = {} /\ ~MayPend(s, i)
    /\ op.name = "unwind_ensure" =>
         OpenAt(s, i) = EnsuredAround(s, Under(s, i)) /\ TestsAt(s, i) = {}
    /\ op.name = "unwind_filter" => TestsAt(s, i) # {}
    /\ op.name = "unwind_redo" =>
         /\ ~IsLoop(s, op.in)
         /\ \E home \in BlockNumbers(s) :
              /\ IsHome(s, op.in, home)
              /\ Reaches(s, op.to, home, EnsuredAround(s, home)) /\ TestsAt(s, op.to) = {}
    /\ \A t \in TestsAt(s, i) :
         /\ TestsAt(s, i) = {t} /\ OpenAt(s, i) = EnsuredAround(s, t[1])

\* Calls: a closure is there where the callee yields, and does not yield itself.
Yields(s) == \E i \in DOMAIN s.ops : Name(s, i) = "yield"

\* A break that leaves a closure names the scope the closure is in.
BreaksTo(s, t) == \E i \in DOMAIN s.ops : t # 0 /\ s.ops[i].to = t /\ Name(s, i) = "unwind_break"

CallsPlaced(p) ==
  /\ 1 \in DOMAIN p /\ ~Yields(p[1]) /\ \A t \in DOMAIN p : ~BreaksTo(p[1], t)
  /\ \A c \in DOMAIN p : \A i \in DOMAIN p[c].ops :
       Name(p[c], i) = "unwind_break" => p[c].ops[i].to \in 0 .. Len(p)
  /\ \A c \in DOMAIN p : \A i \in DOMAIN p[c].ops :
       LET op == p[c].ops[i] IN
       op.name = "call" =>
         /\ op.to \in DOMAIN p
         /\ op.with \in 0 .. Len(p)
         /\ Yields(p[op.to]) => op.with # 0
         /\ op.with # 0 => ~Yields(p[op.with])
         /\ \A t \in DOMAIN p : /\ ~BreaksTo(p[op.to], t)
                                /\ op.with # 0 /\ BreaksTo(p[op.with], t) => t = c

ScopeVerified(s) ==
  /\ BlocksNested(s) /\ HandlersPlaced(s) /\ FlowKept(s) /\ OpsPlaced(s)

Verified(p) ==
  /\ p \in Seq([ops : Seq(OpType), blocks : Seq(BlockType)])
  /\ CallsPlaced(p)
  /\ \A c \in DOMAIN p : ScopeVerified(p[c])

-----------------------------------------------------------------------------
(* The check of jumps: nothing takes one on the way to where it should go. *)

\* Clauses of b rescue jumps, as they do LocalJumpErrors.
TakesJumps(s, b) == \E k \in DOMAIN s.blocks[b].handlers : "jump" \in s.blocks[b].handlers[k].classes

\* Something around code in b takes a jump of the kind that is to leave the scope.
Guarded(s, b, kind) ==
  \E a \in Around(s, b) : TakesJumps(s, a) \/ (IsLoop(s, a) /\ kind = "break")

\* A jump of the kind from under b, to end at goal within the scope: its loop is home,
\* and no begin in between rescues it.
HomeJump(s, b, home, kind, to, goal) ==
  /\ IsHome(s, b, home)
  /\ \A a \in Around(s, b) : home < a => ~TakesJumps(s, a)
  /\ kind = "next" => goal = IF home = 0 THEN 0 ELSE s.blocks[home].next
  /\ kind = "redo" => goal = to
  /\ kind = "break" => home # 0 /\ goal = s.blocks[home].break

JumpStays(s, op, kind) ==
  /\ ~IsLoop(s, op.in)
  /\ \E home \in BlockNumbers(s) : HomeJump(s, op.in, home, kind, op.to, op.goal)

JumpsStay(s) ==
  \A i \in DOMAIN s.ops :
    LET op == s.ops[i] IN
    /\ op.name = "unwind_next" => JumpStays(s, op, "next")
    /\ op.name = "unwind_redo" => JumpStays(s, op, "redo")
    /\ op.name = "unwind_break" /\ op.to = 0 => JumpStays(s, op, "break")

\* Some closure returns from the scope t; owner gives the scope each closure is in.
Returned(p, t) ==
  \E c \in DOMAIN p : \E i \in DOMAIN p[c].ops : Name(p[c], i) = "unwind_return" /\ p[c].ops[i].to = t

\* A jump that leaves the scope c ends in t, or goes on outside.
Leads(p, owner, kind, c, t) ==
  IF kind = "break" THEN BreaksTo(p[c], t) ELSE t # 0 /\ owner[c] = t /\ Returned(p, t)

\* Nothing takes a jump out of a closure where the closure is passed to a call, nor
\* where the callee yields to it, unless the jump ends there.
CallLets(p, owner, c, op) ==
  \A kind \in {"break", "return"}, t \in DOMAIN p :
    op.with # 0 /\ Leads(p, owner, kind, op.with, t) =>
      /\ kind = "return" => ~Guarded(p[c], op.in, kind)
      /\ \A j \in DOMAIN p[op.to].ops :
           Name(p[op.to], j) = "yield" => ~Guarded(p[op.to], p[op.to].ops[j].in, kind)

\* Ops that throw out of a scope, and calls.
ExitsPlaced(p, owner) ==
  /\ owner[1] = 0
  /\ \A c \in DOMAIN p : \A i \in DOMAIN p[c].ops :
       LET op == p[c].ops[i] IN
       /\ op.name = "unwind_return" =>
            op.to = owner[c] /\ op.to # 0 /\ op.goal = 0 /\ ~Guarded(p[c], op.in, "return")
       /\ op.name = "unwind_break" /\ op.to # 0 =>
            op.to # c /\ ~Guarded(p[c], op.in, "break")
       /\ op.name = "call" =>
            /\ owner[op.to] = 0
            /\ op.with # 0 => owner[op.with] = IF owner[c] = 0 THEN c ELSE owner[c]
            /\ CallLets(p, owner, c, op)

JumpsVerified(p) ==
  /\ \A c \in DOMAIN p : JumpsStay(p[c])
  /\ \E owner \in [DOMAIN p -> 0 .. Len(p)] : ExitsPlaced(p, owner)
=============================================================================
