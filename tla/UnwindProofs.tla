---------------------------- MODULE UnwindProofs ----------------------------
(***************************************************************************)
(* Proofs about Unwind, for every set of verified programs.                *)
(*                                                                         *)
(* The inductive invariant IInv says of every frame that what it keeps is  *)
(* what the code at its address was compiled for: the handler in effect,   *)
(* the begins entered, and where an exception it is handling may be        *)
(* pending.  Of the stack it says that the frames below the running one    *)
(* are past a call, and that an exception in flight was thrown by the      *)
(* running frame or is leaving it.                                         *)
(***************************************************************************)
EXTENDS Unwind, WellFoundedInduction, TLAPS

ExceptionType ==
  [kind : ExceptionKinds, class : Classes \cup {"none"}, target : Nat, pos : Nat, goal : Nat \X Nat]
FrameType ==
  [code : Nat, block : Nat, ip : Nat, mode : Modes, current : Nat, loop : Nat, handler : Nat,
   exception : ExceptionType, open : SUBSET Nat]
ScopeType == [ops : Seq(OpType), blocks : Seq(BlockType)]

TypeInv ==
  /\ program \in Programs
  /\ frames \in Seq(FrameType)
  /\ flying \in ExceptionType
  /\ errors \in 0 .. MaxErrors
  /\ landing \in [kind : ExceptionKinds, goal : Nat \X Nat, at : Nat \X Nat]

\* c is the handler a frame has in effect where the code is compiled for u.
Near(s, c, u) == c = u \/ (u \in DOMAIN s.blocks /\ IsLoop(s, u) /\ c = Parent(s, u))

FrameOK(p, f) ==
  /\ f.code \in DOMAIN p /\ f.block \in 0 .. Len(p)
  /\ f.ip \in DOMAIN p[f.code].ops
  /\ f.current \in BlockNumbers(p[f.code]) /\ f.loop \in BlockNumbers(p[f.code])
  /\ Yields(p[f.code]) => f.block # 0
  /\ f.block # 0 => ~Yields(p[f.block])

\* A frame that runs.
RunOK(s, f) ==
  f.mode = "run" =>
    /\ Near(s, f.current, Under(s, f.ip))
    /\ f.open = OpenAt(s, f.ip)
    /\ f.exception # NoException => MayPend(s, f.ip)
    /\ \A t \in TestsAt(s, f.ip) :
         f.exception # NoException /\ t = <<f.loop, f.handler>> /\ f.current = Parent(s, f.loop)

\* A frame that looks for a block, and one that goes through the clauses of a block.
HandleOK(s, f) ==
  f.mode = "handle" => f.exception # NoException /\ f.open = EnsuredAround(s, f.current)

MatchOK(s, f) ==
  f.mode = "match" =>
    /\ f.exception # NoException
    /\ f.loop # 0 /\ f.current = Parent(s, f.loop) /\ f.open = EnsuredAround(s, f.loop)
    /\ f.handler \in 1 .. Len(s.blocks[f.loop].handlers) + 1

\* The block whose clauses are tried, or that comes next.
Trying(s, f) ==
  IF f.mode = "match" \/ (f.mode = "run" /\ TestsAt(s, f.ip) # {}) THEN f.loop ELSE f.current

\* A redo from under b goes to pos, an address in the innermost loop around b.
RedoLands(s, b, pos) ==
  \E home \in BlockNumbers(s) :
    /\ IsHome(s, b, home)
    /\ Reaches(s, pos, home, EnsuredAround(s, home)) /\ TestsAt(s, pos) = {}

RedoOK(s, f) == f.exception.kind = "redo" => RedoLands(s, Trying(s, f), f.exception.pos)

FrameInv(p, f) ==
  LET s == p[f.code]
  IN FrameOK(p, f) /\ RunOK(s, f) /\ HandleOK(s, f) /\ MatchOK(s, f) /\ RedoOK(s, f)

FramesInv == \A d \in 1 .. Len(frames) : FrameInv(program, frames[d])

\* The frame is past an op of one of these names and handles nothing.
Threw(p, f, names) ==
  /\ f.mode = "run" /\ f.exception = NoException
  /\ f.ip > 1 /\ Name(p[f.code], f.ip - 1) \in names

CallersInv == \A d \in 1 .. Len(frames) - 1 : Threw(program, frames[d], {"call", "yield"})

\* A frame f over which e flies.
FliesOver(p, f, e) ==
  \/ /\ Threw(p, f, RaisingNames)
     /\ e.kind = "redo" =>
          /\ ~IsLoop(p[f.code], Under(p[f.code], f.ip))
          /\ RedoLands(p[f.code], Under(p[f.code], f.ip), e.pos)
  \/ f.exception = e /\ f.mode = "handle" /\ f.current = 0 /\ e.kind # "redo"

FlyingInv == flying # NoException /\ Len(frames) > 0 => FliesOver(program, frames[Len(frames)], flying)

\* The scope that a break out of f, or out of the closure f was called with, names runs.
BreaksFrom(p, f, t) ==
  BreaksTo(p[f.code], t) \/ (f.block # 0 /\ BreaksTo(p[f.block], t))

ClosuresInv ==
  \A d \in 1 .. Len(frames), t \in DOMAIN program :
    BreaksFrom(program, frames[d], t) => \E e \in 1 .. d - 1 : frames[e].code = t

IInv == TypeInv /\ FramesInv /\ CallersInv /\ FlyingInv /\ ClosuresInv

-----------------------------------------------------------------------------
(* Verified programs.                                                      *)

\* The types of a verified program.
LEMMA ProgramTyped ==
  ASSUME NEW p \in Programs
  PROVE  /\ Verified(p) /\ p \in Seq(ScopeType) /\ DOMAIN p = 1 .. Len(p) /\ Len(p) \in Nat
         /\ \A c \in DOMAIN p : p[c] \in ScopeType /\ ScopeVerified(p[c])
<1>1. Verified(p)  BY ProgramsAssumption
<1>2. p \in Seq(ScopeType)  BY <1>1 DEF Verified, ScopeType
<1>3. DOMAIN p = 1 .. Len(p) /\ Len(p) \in Nat  BY <1>2
<1>4. \A c \in DOMAIN p : p[c] \in ScopeType  BY <1>2
<1> QED BY <1>1, <1>2, <1>3, <1>4 DEF Verified

\* The types of a scope.
LEMMA ScopeTyped ==
  ASSUME NEW s \in ScopeType
  PROVE  /\ s.ops \in Seq(OpType) /\ s.blocks \in Seq(BlockType)
         /\ DOMAIN s.ops = 1 .. Len(s.ops) /\ Len(s.ops) \in Nat
         /\ DOMAIN s.blocks = 1 .. Len(s.blocks) /\ Len(s.blocks) \in Nat
         /\ \A i \in DOMAIN s.ops : s.ops[i] \in OpType
         /\ \A b \in DOMAIN s.blocks :
              /\ s.blocks[b] \in BlockType
              /\ DOMAIN s.blocks[b].handlers = 1 .. Len(s.blocks[b].handlers)
              /\ Len(s.blocks[b].handlers) \in Nat
              /\ \A k \in DOMAIN s.blocks[b].handlers : s.blocks[b].handlers[k] \in ClauseType
         /\ BlockNumbers(s) = DOMAIN s.blocks \cup {0}
<1>1. s.ops \in Seq(OpType) /\ s.blocks \in Seq(BlockType)  BY DEF ScopeType
<1>2. /\ DOMAIN s.ops = 1 .. Len(s.ops) /\ Len(s.ops) \in Nat
      /\ DOMAIN s.blocks = 1 .. Len(s.blocks) /\ Len(s.blocks) \in Nat
      /\ \A i \in DOMAIN s.ops : s.ops[i] \in OpType
      /\ \A b \in DOMAIN s.blocks : s.blocks[b] \in BlockType
  BY <1>1
<1>3. ASSUME NEW b \in DOMAIN s.blocks
      PROVE  /\ DOMAIN s.blocks[b].handlers = 1 .. Len(s.blocks[b].handlers)
             /\ Len(s.blocks[b].handlers) \in Nat
             /\ \A k \in DOMAIN s.blocks[b].handlers : s.blocks[b].handlers[k] \in ClauseType
  <2>1. s.blocks[b].handlers \in Seq(ClauseType)  BY <1>2 DEF BlockType
  <2> QED BY <2>1
<1>4. BlockNumbers(s) = DOMAIN s.blocks \cup {0}  BY <1>2 DEF BlockNumbers
<1> QED BY <1>1, <1>2, <1>3, <1>4

\* Addresses are numbers.
LEMMA AddressTyped ==
  ASSUME NEW s \in ScopeType, NEW i \in DOMAIN s.ops
  PROVE  i \in Nat
BY ScopeTyped

\* Around a loop no more begins have an ensure than around the block it is in, and no
\* more begins stand around it.
LEMMA LoopNear ==
  ASSUME NEW s \in ScopeType, BlocksNested(s), NEW u, NEW c \in BlockNumbers(s), Near(s, c, u)
  PROVE  /\ u \in BlockNumbers(s)
         /\ EnsuredAround(s, c) = EnsuredAround(s, u)
         /\ BeginsAround(s, c) = BeginsAround(s, u)
<1>1. CASE c = u  BY <1>1
<1>2. CASE u \in DOMAIN s.blocks /\ IsLoop(s, u) /\ c = Parent(s, u)
  <2>1. u \in DOMAIN s.blocks  BY <1>2
  <2>2. /\ Parent(s, u) \in 0 .. u - 1 /\ Around(s, u) = Around(s, Parent(s, u)) \cup {u}
        /\ s.blocks[u].ensure = 0
    BY <2>1, <1>2 DEF BlocksNested
  <2>3. u \in BlockNumbers(s)  BY <2>1, ScopeTyped
  <2>4. EnsuredAround(s, c) = EnsuredAround(s, u)  BY <2>2, <1>2 DEF EnsuredAround, Ensured
  <2>5. BeginsAround(s, c) = BeginsAround(s, u)  BY <2>2, <1>2 DEF BeginsAround
  <2> QED BY <2>3, <2>4, <2>5
<1> QED BY <1>1, <1>2 DEF Near

-----------------------------------------------------------------------------
(* Frames.                                                                 *)

\* What a frame that satisfies the invariant knows of its scope.
LEMMA FrameScope ==
  ASSUME program \in Programs, NEW f \in FrameType, FrameOK(program, f),
         NEW s, s = program[f.code]
  PROVE  /\ s \in ScopeType /\ ScopeVerified(s)
         /\ f.ip \in DOMAIN s.ops /\ f.ip \in 1 .. Len(s.ops) /\ s.ops[f.ip] \in OpType
         /\ f.current \in BlockNumbers(s) /\ f.loop \in BlockNumbers(s)
         /\ Blocks(f) = s.blocks /\ Ops(f) = s.ops
<1>1. f.code \in DOMAIN program  BY DEF FrameOK
<1>2. s \in ScopeType /\ ScopeVerified(s)  BY <1>1, ProgramTyped
<1> QED BY <1>1, <1>2, ScopeTyped DEF FrameOK, Blocks, Ops

\* What GoTo makes of a frame.
LEMMA GoToFields ==
  ASSUME NEW f \in FrameType, NEW i \in Nat, NEW s, s = program[f.code]
  PROVE  /\ GoTo(f, i) \in FrameType
         /\ GoTo(f, i).code = f.code /\ GoTo(f, i).block = f.block /\ GoTo(f, i).ip = i
         /\ GoTo(f, i).mode = "run" /\ GoTo(f, i).current = f.current
         /\ GoTo(f, i).loop = f.loop /\ GoTo(f, i).handler = f.handler
         /\ GoTo(f, i).exception = f.exception
         /\ GoTo(f, i).open = {b \in f.open : s.blocks[b].ensure # i}
<1>1. {b \in f.open : Block(f, b).ensure # i} = {b \in f.open : s.blocks[b].ensure # i}
  BY DEF Block, Blocks
<1>2. {b \in f.open : Block(f, b).ensure # i} \in SUBSET Nat  BY DEF FrameType
<1>3. "run" \in Modes  BY DEF Modes
<1> QED BY <1>1, <1>2, <1>3 DEF GoTo, FrameType

\* A frame that goes on at an address where it may stand.
LEMMA StandsAt ==
  ASSUME program \in Programs, NEW f \in FrameType, FrameOK(program, f),
         NEW s, s = program[f.code], NEW i, NEW u,
         Reaches(s, i, u, f.open), Near(s, f.current, u),
         f.exception # NoException => MayPend(s, i),
         \A t \in TestsAt(s, i) :
           f.exception # NoException /\ t = <<f.loop, f.handler>> /\ f.current = Parent(s, f.loop),
         f.exception.kind = "redo" =>
           RedoLands(s, IF TestsAt(s, i) # {} THEN f.loop ELSE f.current, f.exception.pos)
  PROVE  GoTo(f, i) \in FrameType /\ FrameInv(program, GoTo(f, i))
<1>1. i \in DOMAIN s.ops /\ i \in Nat
  BY FrameScope, ScopeTyped DEF Reaches
<1> DEFINE g == GoTo(f, i)
<1>2. /\ g \in FrameType /\ g.code = f.code /\ g.block = f.block /\ g.ip = i
      /\ g.mode = "run" /\ g.current = f.current /\ g.loop = f.loop /\ g.handler = f.handler
      /\ g.exception = f.exception /\ g.open = {b \in f.open : s.blocks[b].ensure # i}
  BY <1>1, GoToFields
<1> HIDE DEF g
<1>3. FrameOK(program, g)  BY <1>1, <1>2 DEF FrameOK
<1>4. RunOK(s, g)
  <2>1. Near(s, g.current, Under(s, g.ip)) /\ g.open = OpenAt(s, g.ip)
    BY <1>2 DEF Reaches
  <2> QED BY <2>1, <1>2 DEF RunOK
<1>5. HandleOK(s, g) /\ MatchOK(s, g)  BY <1>2 DEF HandleOK, MatchOK
<1>6. RedoOK(s, g)  BY <1>2 DEF RedoOK, Trying
<1> QED BY <1>2, <1>3, <1>4, <1>5, <1>6 DEF FrameInv, g

\* A frame that runs goes on, by any op that does not set the handler, and by an
\* UnwindEnsure only if no exception is pending.
LEMMA FlowsOn ==
  ASSUME program \in Programs, NEW f \in FrameType, FrameInv(program, f), f.mode = "run",
         NEW s, s = program[f.code], NEW j \in After(s, f.ip),
         Name(s, f.ip) # "handler", Name(s, f.ip) = "unwind_ensure" => f.exception = NoException
  PROVE  GoTo(f, j) \in FrameType /\ FrameInv(program, GoTo(f, j))
<1>1. FrameOK(program, f) /\ RunOK(s, f) /\ RedoOK(s, f)  BY DEF FrameInv
<1>2. /\ ScopeVerified(s) /\ f.ip \in DOMAIN s.ops  BY <1>1, FrameScope
<1>3. /\ Reaches(s, j, Under(s, f.ip), OpenAt(s, f.ip) \cup {})
      /\ TestsAt(s, j) = TestsAt(s, f.ip)
      /\ MayPend(s, f.ip) /\ Name(s, f.ip) # "unwind_ensure" => MayPend(s, j)
  BY <1>2 DEF ScopeVerified, FlowKept, Name
<1>4. Reaches(s, j, Under(s, f.ip), f.open)
  <2>1. OpenAt(s, f.ip) \cup {} = f.open  BY <1>1 DEF RunOK
  <2> QED BY <2>1, <1>3
<1>5. Near(s, f.current, Under(s, f.ip))  BY <1>1 DEF RunOK
<1>6. f.exception # NoException => MayPend(s, j)  BY <1>1, <1>3 DEF RunOK
<1>7. \A t \in TestsAt(s, j) :
        f.exception # NoException /\ t = <<f.loop, f.handler>> /\ f.current = Parent(s, f.loop)
  BY <1>1, <1>3 DEF RunOK
<1>8. f.exception.kind = "redo" =>
        RedoLands(s, IF TestsAt(s, j) # {} THEN f.loop ELSE f.current, f.exception.pos)
  BY <1>1, <1>3 DEF RedoOK, Trying
<1> QED BY <1>1, <1>4, <1>5, <1>6, <1>7, <1>8, StandsAt


\* A frame that runs an op "handler".
LEMMA HandlerSets ==
  ASSUME program \in Programs, NEW f \in FrameType, FrameInv(program, f), f.mode = "run",
         NEW s, s = program[f.code], Name(s, f.ip) = "handler",
         NEW b, b = s.ops[f.ip].to,
         NEW h \in FrameType, h.code = f.code, h.block = f.block, h.ip = f.ip, h.loop = f.loop,
         h.exception = f.exception, h.current = b, h.open = f.open \cup ({b} \cap Ensured(s))
  PROVE  /\ Step(h) \in FrameType /\ Step(h).code = f.code /\ Step(h).block = f.block
         /\ FrameInv(program, Step(h))
<1>1. FrameOK(program, f) /\ RunOK(s, f) /\ RedoOK(s, f)  BY DEF FrameInv
<1>2. s \in ScopeType /\ ScopeVerified(s) /\ f.ip \in DOMAIN s.ops /\ f.ip \in Nat
  BY <1>1, FrameScope, AddressTyped
<1> DEFINE j == f.ip + 1
<1>3. j \in After(s, f.ip)  BY DEF After
<1>4. /\ b \in BlockNumbers(s) /\ ~MayPend(s, f.ip)
      /\ Reaches(s, j, b, OpenAt(s, f.ip) \cup ({b} \cap Ensured(s)))
      /\ TestsAt(s, j) = TestsAt(s, f.ip)
  BY <1>2, <1>3, SMTT(30) DEF ScopeVerified, FlowKept, Name
<1>5. Reaches(s, j, b, h.open)
  <2>1. f.open = OpenAt(s, f.ip)  BY <1>1 DEF RunOK
  <2> QED BY <1>4, <2>1
<1>6. TestsAt(s, j) = {} /\ f.exception = NoException
  BY <1>1, <1>4 DEF MayPend, RunOK
<1>7. FrameOK(program, h)  BY <1>1, <1>4 DEF FrameOK
<1>8. Near(s, h.current, b)  BY DEF Near
<1>9. NoException.kind # "redo"  BY DEF NoException, Exception
<1>10. GoTo(h, j) \in FrameType /\ FrameInv(program, GoTo(h, j))
  BY <1>5, <1>6, <1>7, <1>8, <1>9, StandsAt
<1>11. j \in Nat  BY <1>2
<1>12. GoTo(h, j).code = f.code /\ GoTo(h, j).block = f.block  BY <1>11, GoToFields
<1>13. Step(h) = GoTo(h, j)  BY DEF Step
<1> QED BY <1>10, <1>12, <1>13

\* A frame past an op that throws.
LEMMA StepsPast ==
  ASSUME program \in Programs, NEW f \in FrameType, FrameInv(program, f), f.mode = "run",
         NEW s, s = program[f.code], NEW names \in SUBSET RaisingNames, Name(s, f.ip) \in names
  PROVE  /\ Step(f) \in FrameType /\ FrameInv(program, Step(f))
         /\ Step(f).code = f.code /\ Step(f).block = f.block
         /\ Threw(program, Step(f), names)
         /\ Step(f).current = f.current /\ Step(f).ip = f.ip + 1
         /\ Under(s, f.ip + 1) = s.ops[f.ip].in
<1>1. FrameOK(program, f) /\ RunOK(s, f)  BY DEF FrameInv
<1>2. /\ s \in ScopeType /\ ScopeVerified(s) /\ f.ip \in DOMAIN s.ops /\ f.ip \in 1 .. Len(s.ops)
      /\ s.ops[f.ip] \in OpType /\ Len(s.ops) \in Nat
  BY <1>1, FrameScope, ScopeTyped
<1> DEFINE j == f.ip + 1
<1>3. j \in After(s, f.ip) /\ Name(s, f.ip) \notin {"handler", "unwind_ensure"}
  BY DEF After, RaisingNames, LocalJumps
<1>4. Step(f) = GoTo(f, j)  BY DEF Step
<1>5. GoTo(f, j) \in FrameType /\ FrameInv(program, GoTo(f, j))
  BY <1>3, FlowsOn
<1>6. j \in Nat  BY <1>2
<1>7. /\ GoTo(f, j).code = f.code /\ GoTo(f, j).block = f.block /\ GoTo(f, j).ip = j
      /\ GoTo(f, j).mode = "run" /\ GoTo(f, j).current = f.current
      /\ GoTo(f, j).exception = f.exception
  BY <1>6, GoToFields
<1>8. ~MayPend(s, f.ip) /\ Under(s, f.ip) = s.ops[f.ip].in
  BY <1>2 DEF ScopeVerified, OpsPlaced, Name
<1>9. f.exception = NoException  BY <1>1, <1>8 DEF RunOK
<1>10. j - 1 = f.ip /\ j > 1  BY <1>2
<1>11. Threw(program, GoTo(f, j), names)  BY <1>7, <1>9, <1>10 DEF Threw
<1>12. Under(s, j) = Under(s, f.ip)
  BY <1>2, <1>3 DEF ScopeVerified, FlowKept, Reaches, Name
<1> QED BY <1>4, <1>5, <1>7, <1>8, <1>11, <1>12


-----------------------------------------------------------------------------
(* Handling an exception.                                                  *)

\* In a begin, the innermost loop around is that around the begin.
LEMMA HomeOfBegin ==
  ASSUME NEW s \in ScopeType, BlocksNested(s), NEW b \in DOMAIN s.blocks, ~IsLoop(s, b),
         NEW pos, RedoLands(s, b, pos)
  PROVE  RedoLands(s, Parent(s, b), pos)
<1>1. Around(s, b) = Around(s, Parent(s, b)) \cup {b}  BY DEF BlocksNested
<1>2. {a \in Around(s, b) : IsLoop(s, a)} = {a \in Around(s, Parent(s, b)) : IsLoop(s, a)}
  BY <1>1
<1> QED BY <1>2 DEF RedoLands, IsHome

\* The innermost loop around the body of a loop is the loop.
LEMMA HomeOfLoop ==
  ASSUME NEW s \in ScopeType, BlocksNested(s), NEW b \in DOMAIN s.blocks, IsLoop(s, b),
         NEW pos, RedoLands(s, b, pos)
  PROVE  Reaches(s, pos, b, EnsuredAround(s, b)) /\ TestsAt(s, pos) = {}
<1>1. b \in Around(s, b) /\ Around(s, b) \subseteq 1 .. b /\ b \in Nat
  BY ScopeTyped DEF BlocksNested
<1>2. PICK home \in BlockNumbers(s) :
        /\ IsHome(s, b, home)
        /\ Reaches(s, pos, home, EnsuredAround(s, home)) /\ TestsAt(s, pos) = {}
  BY DEF RedoLands
<1>3. home \in {a \in Around(s, b) : IsLoop(s, a)} \cup {0} /\ b <= home
  BY <1>1, <1>2 DEF IsHome
<1>4. home = b  BY <1>1, <1>3
<1> QED BY <1>2, <1>4

\* A frame that threw catches an exception.
LEMMA Caught ==
  ASSUME program \in Programs, NEW f \in FrameType, FrameInv(program, f),
         NEW s, s = program[f.code], NEW e \in ExceptionType, e # NoException,
         FliesOver(program, f, e), f.exception = NoException
  PROVE  LET g == [f EXCEPT !.exception = e, !.mode = "handle"]
         IN g \in FrameType /\ g.code = f.code /\ g.block = f.block /\ FrameInv(program, g)
<1>1. FrameOK(program, f) /\ RunOK(s, f)  BY DEF FrameInv
<1>2. /\ s \in ScopeType /\ ScopeVerified(s) /\ f.ip \in DOMAIN s.ops /\ f.ip \in 1 .. Len(s.ops)
      /\ Len(s.ops) \in Nat /\ DOMAIN s.ops = 1 .. Len(s.ops)
  BY <1>1, FrameScope, ScopeTyped
<1>3. Threw(program, f, RaisingNames)  BY DEF FliesOver
<1>4. PICK i \in DOMAIN s.ops : i + 1 = f.ip /\ Name(s, i) \in RaisingNames
  <2>1. f.ip - 1 \in DOMAIN s.ops /\ (f.ip - 1) + 1 = f.ip  BY <1>2, <1>3 DEF Threw
  <2> QED BY <2>1, <1>3 DEF Threw
<1>5. /\ Under(s, i) \in BlockNumbers(s) /\ OpenAt(s, i + 1) = EnsuredAround(s, Under(s, i))
  BY <1>2, <1>4 DEF ScopeVerified, OpsPlaced, Name
<1>6. Under(s, i + 1) = Under(s, i)
  <2>1. i + 1 \in After(s, i) /\ Name(s, i) # "handler"  BY <1>4 DEF After, RaisingNames, LocalJumps
  <2> QED BY <1>2, <2>1, <1>4 DEF ScopeVerified, FlowKept, Reaches, Name
<1>7. Near(s, f.current, Under(s, f.ip)) /\ f.open = OpenAt(s, f.ip)
  BY <1>1, <1>3 DEF RunOK, Threw
<1>8. f.open = EnsuredAround(s, f.current)
  <2>1. f.current \in BlockNumbers(s) /\ BlocksNested(s)  BY <1>1, <1>2 DEF ScopeVerified, FrameOK
  <2>2. EnsuredAround(s, f.current) = EnsuredAround(s, Under(s, f.ip))
    BY <1>2, <1>7, <2>1, LoopNear
  <2> QED BY <1>4, <1>5, <1>6, <1>7, <2>2
<1>9. e.kind = "redo" => RedoLands(s, f.current, e.pos)
  BY <1>7 DEF FliesOver, Near
<1>10. PICK g : g = [f EXCEPT !.exception = e, !.mode = "handle"]  OBVIOUS
<1>11. /\ g \in FrameType /\ g.code = f.code /\ g.block = f.block /\ g.ip = f.ip
       /\ g.mode = "handle" /\ g.current = f.current /\ g.loop = f.loop /\ g.exception = e
       /\ g.open = f.open
  BY <1>10 DEF FrameType, Modes
<1>12. FrameOK(program, g)  BY <1>1, <1>11 DEF FrameOK
<1>13. RunOK(s, g) /\ MatchOK(s, g)  BY <1>11 DEF RunOK, MatchOK
<1>14. HandleOK(s, g)  BY <1>8, <1>11 DEF HandleOK
<1>15. RedoOK(s, g)  BY <1>9, <1>11 DEF RedoOK, Trying
<1> QED BY <1>10, <1>11, <1>12, <1>13, <1>14, <1>15 DEF FrameInv

\* An ensure group ends with an exception pending.
LEMMA EnsureEnds ==
  ASSUME program \in Programs, NEW f \in FrameType, FrameInv(program, f), f.mode = "run",
         NEW s, s = program[f.code], Name(s, f.ip) = "unwind_ensure", f.exception # NoException
  PROVE  LET g == [f EXCEPT !.mode = "handle"]
         IN g \in FrameType /\ g.code = f.code /\ g.block = f.block /\ FrameInv(program, g)
<1>1. FrameOK(program, f) /\ RunOK(s, f) /\ RedoOK(s, f)  BY DEF FrameInv
<1>2. s \in ScopeType /\ ScopeVerified(s) /\ f.ip \in DOMAIN s.ops
  BY <1>1, FrameScope
<1>3. OpenAt(s, f.ip) = EnsuredAround(s, Under(s, f.ip)) /\ TestsAt(s, f.ip) = {}
  BY <1>2 DEF ScopeVerified, OpsPlaced, Name
<1>4. f.open = EnsuredAround(s, f.current)
  BY <1>1, <1>2, <1>3, LoopNear DEF ScopeVerified, RunOK, FrameOK
<1>5. PICK g : g = [f EXCEPT !.mode = "handle"]  OBVIOUS
<1>6. /\ g \in FrameType /\ g.code = f.code /\ g.block = f.block /\ g.ip = f.ip
      /\ g.mode = "handle" /\ g.current = f.current /\ g.loop = f.loop /\ g.exception = f.exception
      /\ g.open = f.open
  BY <1>5 DEF FrameType, Modes
<1>7. FrameOK(program, g)  BY <1>1, <1>6 DEF FrameOK
<1>8. RunOK(s, g) /\ MatchOK(s, g) /\ HandleOK(s, g)
  BY <1>4, <1>6 DEF RunOK, MatchOK, HandleOK
<1>9. RedoOK(s, g)  BY <1>1, <1>3, <1>6 DEF RedoOK, Trying
<1> QED BY <1>5, <1>6, <1>7, <1>8, <1>9 DEF FrameInv

\* handle_exception takes the next block.
LEMMA BlockTried ==
  ASSUME program \in Programs, NEW f \in FrameType, FrameInv(program, f), f.mode = "handle",
         NEW s, s = program[f.code], f.current # 0
  PROVE  LET g == [f EXCEPT !.mode = "match", !.loop = f.current, !.handler = 1,
                            !.current = Block(f, f.current).parent]
         IN g \in FrameType /\ g.code = f.code /\ g.block = f.block /\ FrameInv(program, g)
<1>1. FrameOK(program, f) /\ HandleOK(s, f) /\ RedoOK(s, f)  BY DEF FrameInv
<1>2. /\ s \in ScopeType /\ ScopeVerified(s) /\ f.current \in DOMAIN s.blocks
      /\ Block(f, f.current).parent = Parent(s, f.current)
  BY <1>1, FrameScope, ScopeTyped DEF Block, Parent
<1>3. Parent(s, f.current) \in BlockNumbers(s) /\ Parent(s, f.current) \in Nat
  BY <1>2, ScopeTyped DEF ScopeVerified, BlocksNested, BlockNumbers
<1>4. PICK g : g = [f EXCEPT !.mode = "match", !.loop = f.current, !.handler = 1,
                             !.current = Block(f, f.current).parent]
  OBVIOUS
<1>5. /\ g \in FrameType /\ g.code = f.code /\ g.block = f.block /\ g.ip = f.ip
      /\ g.mode = "match" /\ g.current = Parent(s, f.current) /\ g.loop = f.current
      /\ g.handler = 1 /\ g.exception = f.exception /\ g.open = f.open
  BY <1>2, <1>3, <1>4 DEF FrameType, Modes
<1>6. FrameOK(program, g)  BY <1>1, <1>3, <1>5 DEF FrameOK
<1>7. RunOK(s, g) /\ HandleOK(s, g)  BY <1>5 DEF RunOK, HandleOK
<1>8. MatchOK(s, g)
  <2>1. Len(s.blocks[f.current].handlers) \in Nat  BY <1>2, ScopeTyped
  <2>2. 1 \in 1 .. Len(s.blocks[f.current].handlers) + 1
    <3>1. PICK n : n = Len(s.blocks[f.current].handlers)  OBVIOUS
    <3>2. n \in Nat  BY <2>1, <3>1
    <3>3. 1 \in 1 .. n + 1  BY <3>2
    <3> QED BY <3>1, <3>3
  <2> QED BY <1>1, <1>5, <2>2 DEF MatchOK, HandleOK
<1>9. RedoOK(s, g)  BY <1>1, <1>5 DEF RedoOK, Trying
<1> QED BY <1>4, <1>5, <1>6, <1>7, <1>8, <1>9 DEF FrameInv

\* A frame goes through the clauses of a block: handle_exception does, or the pattern of
\* a clause has been tested.
AtClause(s, f) ==
  f.mode = "match" \/ (f.mode = "run" /\ Name(s, f.ip) = "unwind_filter")

ClauseOf(s, f) == s.blocks[f.loop].handlers[f.handler]

\* What is known there.
LEMMA ClauseKnown ==
  ASSUME program \in Programs, NEW f \in FrameType, FrameInv(program, f),
         NEW s, s = program[f.code], AtClause(s, f)
  PROVE  /\ f.exception # NoException
         /\ f.loop \in DOMAIN s.blocks /\ f.current = Parent(s, f.loop)
         /\ f.open = EnsuredAround(s, f.loop)
         /\ f.handler \in 1 .. Len(s.blocks[f.loop].handlers) + 1
         /\ f.mode = "run" => f.handler \in DOMAIN s.blocks[f.loop].handlers
         /\ f.exception.kind = "redo" => RedoLands(s, f.loop, f.exception.pos)
<1>1. FrameOK(program, f) /\ RunOK(s, f) /\ MatchOK(s, f) /\ RedoOK(s, f)  BY DEF FrameInv
<1>2. s \in ScopeType /\ ScopeVerified(s) /\ f.ip \in DOMAIN s.ops /\ f.loop \in BlockNumbers(s)
  BY <1>1, FrameScope
<1>3. CASE f.mode = "match"
  BY <1>1, <1>2, <1>3, ScopeTyped DEF MatchOK, RedoOK, Trying
<1>4. CASE f.mode = "run" /\ Name(s, f.ip) = "unwind_filter"
  <2>1. PICK t : t \in TestsAt(s, f.ip) /\ OpenAt(s, f.ip) = EnsuredAround(s, t[1])
    BY <1>2, <1>4 DEF ScopeVerified, OpsPlaced, Name
  <2>2. f.exception # NoException /\ t = <<f.loop, f.handler>> /\ f.current = Parent(s, f.loop)
    BY <1>1, <1>4, <2>1 DEF RunOK
  <2>3. f.loop \in DOMAIN s.blocks /\ f.handler \in DOMAIN s.blocks[f.loop].handlers
    BY <2>1, <2>2 DEF TestsAt
  <2>4. f.handler \in 1 .. Len(s.blocks[f.loop].handlers) + 1
    BY <1>2, <2>3, ScopeTyped
  <2>5. f.open = EnsuredAround(s, f.loop)  BY <1>1, <1>4, <2>1, <2>2 DEF RunOK
  <2>6. f.exception.kind = "redo" => RedoLands(s, f.loop, f.exception.pos)
    BY <1>1, <1>4, <2>1 DEF RedoOK, Trying
  <2> QED BY <2>2, <2>3, <2>4, <2>5, <2>6
<1> QED BY <1>3, <1>4 DEF AtClause


\* Handled leaves a frame as it is, but for its exception.
LEMMA HandledFields ==
  ASSUME NEW f \in FrameType
  PROVE  /\ Handled(f) \in FrameType
         /\ Handled(f).code = f.code /\ Handled(f).block = f.block /\ Handled(f).ip = f.ip
         /\ Handled(f).mode = f.mode /\ Handled(f).current = f.current
         /\ Handled(f).loop = f.loop /\ Handled(f).handler = f.handler
         /\ Handled(f).exception = NoException /\ Handled(f).open = f.open
<1>1. NoException \in ExceptionType
  BY DEF NoException, Exception, ExceptionType, ExceptionKinds, Classes
<1> QED BY <1>1 DEF Handled, FrameType

\* A frame has handled its exception and goes on at i.
LEMMA GoesOn ==
  ASSUME program \in Programs, NEW f \in FrameType, FrameOK(program, f),
         NEW s, s = program[f.code], NEW i, NEW u,
         Reaches(s, i, u, f.open), TestsAt(s, i) = {}, Near(s, f.current, u)
  PROVE  /\ GoTo(Handled(f), i) \in FrameType /\ FrameInv(program, GoTo(Handled(f), i))
         /\ GoTo(Handled(f), i).code = f.code /\ GoTo(Handled(f), i).block = f.block
         /\ i \in Nat
<1>1. PICK h : h = Handled(f)  OBVIOUS
<1>2. /\ h \in FrameType /\ h.code = f.code /\ h.block = f.block /\ h.ip = f.ip
      /\ h.current = f.current /\ h.loop = f.loop /\ h.exception = NoException /\ h.open = f.open
  BY <1>1, HandledFields
<1>3. FrameOK(program, h)  BY <1>2 DEF FrameOK
<1>4. NoException.kind # "redo"  BY DEF NoException, Exception
<1>5. GoTo(h, i) \in FrameType /\ FrameInv(program, GoTo(h, i))
  BY <1>2, <1>3, <1>4, StandsAt
<1>6. i \in Nat
  BY FrameScope, ScopeTyped DEF Reaches
<1>7. GoTo(h, i).code = f.code /\ GoTo(h, i).block = f.block  BY <1>2, <1>6, GoToFields
<1> QED BY <1>1, <1>5, <1>6, <1>7

\* A clause takes the exception.
LEMMA ClauseRuns ==
  ASSUME program \in Programs, NEW f \in FrameType, FrameInv(program, f),
         NEW s, s = program[f.code], AtClause(s, f),
         f.handler \in DOMAIN s.blocks[f.loop].handlers,
         NEW g, g = GoTo(Handled(f), ClauseOf(s, f).rescue)
  PROVE  /\ g \in FrameType /\ g.code = f.code /\ g.block = f.block /\ FrameInv(program, g)
         /\ ClauseOf(s, f).rescue \in Nat
<1>1. FrameOK(program, f)  BY DEF FrameInv
<1>2. s \in ScopeType /\ ScopeVerified(s)  BY <1>1, FrameScope
<1>3. /\ f.loop \in DOMAIN s.blocks /\ f.current = Parent(s, f.loop)
      /\ f.open = EnsuredAround(s, f.loop)
  BY ClauseKnown
<1>4. PICK i : i = ClauseOf(s, f).rescue  OBVIOUS
<1>5. Reaches(s, i, Parent(s, f.loop), EnsuredAround(s, f.loop)) /\ TestsAt(s, i) = {}
  BY <1>2, <1>3, <1>4 DEF ScopeVerified, HandlersPlaced, Parent, ClauseOf
<1>6. Near(s, f.current, Parent(s, f.loop))  BY <1>3 DEF Near
<1> QED BY <1>1, <1>3, <1>4, <1>5, <1>6, GoesOn, SMTT(30)

\* A clause does not take it: the next one is tried.
LEMMA ClausePassed ==
  ASSUME program \in Programs, NEW f \in FrameType, FrameInv(program, f),
         NEW s, s = program[f.code], AtClause(s, f),
         f.handler \in DOMAIN s.blocks[f.loop].handlers
  PROVE  LET g == [f EXCEPT !.mode = "match", !.handler = @ + 1]
         IN g \in FrameType /\ g.code = f.code /\ g.block = f.block /\ FrameInv(program, g)
<1>1. FrameOK(program, f)  BY DEF FrameInv
<1>2. s \in ScopeType  BY <1>1, FrameScope
<1>3. /\ f.exception # NoException
      /\ f.loop \in DOMAIN s.blocks /\ f.current = Parent(s, f.loop)
      /\ f.open = EnsuredAround(s, f.loop)
      /\ f.exception.kind = "redo" => RedoLands(s, f.loop, f.exception.pos)
  BY ClauseKnown
<1>4. f.handler + 1 \in 1 .. Len(s.blocks[f.loop].handlers) + 1 /\ f.handler + 1 \in Nat
  <2>1. PICK n : n = Len(s.blocks[f.loop].handlers)  OBVIOUS
  <2>2. n \in Nat /\ f.handler \in 1 .. n  BY <1>2, <1>3, <2>1, ScopeTyped
  <2> QED BY <2>1, <2>2
<1>5. PICK g : g = [f EXCEPT !.mode = "match", !.handler = @ + 1]  OBVIOUS
<1>6. /\ g \in FrameType /\ g.code = f.code /\ g.block = f.block /\ g.ip = f.ip
      /\ g.mode = "match" /\ g.current = f.current /\ g.loop = f.loop
      /\ g.handler = f.handler + 1 /\ g.exception = f.exception /\ g.open = f.open
  BY <1>4, <1>5 DEF FrameType, Modes
<1>7. FrameOK(program, g)  BY <1>1, <1>6 DEF FrameOK
<1>8. RunOK(s, g) /\ HandleOK(s, g)  BY <1>6 DEF RunOK, HandleOK
<1>9. f.loop # 0  BY <1>2, <1>3, ScopeTyped
<1>10. MatchOK(s, g)  BY <1>3, <1>4, <1>6, <1>9 DEF MatchOK
<1>11. RedoOK(s, g)  BY <1>3, <1>6 DEF RedoOK, Trying
<1> QED BY <1>5, <1>6, <1>7, <1>8, <1>10, <1>11 DEF FrameInv

\* The pattern of a clause is tested.
LEMMA ClauseTested ==
  ASSUME program \in Programs, NEW f \in FrameType, FrameInv(program, f), f.mode = "match",
         NEW s, s = program[f.code],
         f.handler \in DOMAIN s.blocks[f.loop].handlers, ClauseOf(s, f).filter,
         NEW g, g = GoTo(f, ClauseOf(s, f).test)
  PROVE  g \in FrameType /\ g.code = f.code /\ g.block = f.block /\ FrameInv(program, g)
<1>1. FrameOK(program, f)  BY DEF FrameInv
<1>2. s \in ScopeType /\ ScopeVerified(s)  BY <1>1, FrameScope
<1>3. /\ f.exception # NoException
      /\ f.loop \in DOMAIN s.blocks /\ f.current = Parent(s, f.loop)
      /\ f.open = EnsuredAround(s, f.loop)
      /\ f.exception.kind = "redo" => RedoLands(s, f.loop, f.exception.pos)
  BY ClauseKnown DEF AtClause
<1>4. PICK i : i = ClauseOf(s, f).test  OBVIOUS
<1>5. /\ Reaches(s, i, Parent(s, f.loop), EnsuredAround(s, f.loop))
      /\ TestsAt(s, i) = {<<f.loop, f.handler>>}
  BY <1>2, <1>3, <1>4 DEF ScopeVerified, HandlersPlaced, Parent, ClauseOf
<1>6. MayPend(s, i)  BY <1>5 DEF MayPend
<1>7. Near(s, f.current, Parent(s, f.loop))  BY <1>3 DEF Near
<1>8. TestsAt(s, i) # {}  BY <1>5
<1>9. GoTo(f, i) \in FrameType /\ FrameInv(program, GoTo(f, i))
  BY <1>1, <1>3, <1>5, <1>6, <1>7, <1>8, StandsAt
<1>10. i \in Nat
  <2>1. i \in DOMAIN s.ops  BY <1>5 DEF Reaches
  <2> QED BY <1>2, <2>1, AddressTyped
<1>11. GoTo(f, i).code = f.code /\ GoTo(f, i).block = f.block  BY <1>10, GoToFields
<1> QED BY <1>4, <1>9, <1>11

\* A loop takes a jump.
LEMMA LoopGoesOn ==
  ASSUME program \in Programs, NEW f \in FrameType, FrameInv(program, f), f.mode = "match",
         LoopTakes(f)
  PROVE  LET g == GoTo(Handled(f), LoopAddress(f))
         IN /\ g \in FrameType /\ g.code = f.code /\ g.block = f.block /\ FrameInv(program, g)
            /\ LoopAddress(f) \in Nat
<1>1. PICK s : s = program[f.code]  OBVIOUS
<1>2. FrameOK(program, f)  BY DEF FrameInv
<1>3. s \in ScopeType /\ ScopeVerified(s) /\ Blocks(f) = s.blocks  BY <1>1, <1>2, FrameScope
<1>4. /\ f.loop \in DOMAIN s.blocks /\ f.current = Parent(s, f.loop)
      /\ f.open = EnsuredAround(s, f.loop)
      /\ f.exception.kind = "redo" => RedoLands(s, f.loop, f.exception.pos)
  BY <1>1, ClauseKnown DEF AtClause
<1>5. IsLoop(s, f.loop)
  <2>1. f.loop # 0  BY <1>3, <1>4, ScopeTyped
  <2> QED BY <1>3, <2>1 DEF LoopTakes, Block, IsLoop
<1>6. Near(s, f.current, f.loop)  BY <1>4, <1>5 DEF Near
<1>7. /\ Reaches(s, LoopAddress(f), f.loop, EnsuredAround(s, f.loop))
      /\ TestsAt(s, LoopAddress(f)) = {}
  <2>1. \A i \in {s.blocks[f.loop].next, s.blocks[f.loop].break} :
          Reaches(s, i, f.loop, EnsuredAround(s, f.loop)) /\ TestsAt(s, i) = {}
    BY <1>3, <1>4, <1>5 DEF ScopeVerified, HandlersPlaced
  <2>2. CASE f.exception.kind = "break"  BY <1>3, <2>1, <2>2 DEF LoopAddress, Block
  <2>3. CASE f.exception.kind = "next"  BY <1>3, <2>1, <2>3 DEF LoopAddress, Block
  <2>4. CASE f.exception.kind = "redo"
    <3>1. LoopAddress(f) = f.exception.pos  BY <2>4 DEF LoopAddress
    <3> QED BY <1>3, <1>4, <1>5, <2>4, <3>1, HomeOfLoop DEF ScopeVerified
  <2> QED BY <2>2, <2>3, <2>4 DEF LoopTakes
<1> QED BY <1>1, <1>2, <1>4, <1>6, <1>7, GoesOn

\* What RunEnsure makes of a frame.
LeftBlock(f) ==
  LET block == Block(f, f.loop)
      up == [f EXCEPT !.current = block.parent]
  IN IF block.ensure # 0 THEN GoTo(up, block.ensure) ELSE [up EXCEPT !.mode = "handle"]

\* No clause and no loop takes it: the ensure group runs, or the parent block is next.
LEMMA BlockLeft ==
  ASSUME program \in Programs, NEW f \in FrameType, FrameInv(program, f), f.mode = "match",
         ~LoopTakes(f), NEW g, g = LeftBlock(f)
  PROVE  g \in FrameType /\ g.code = f.code /\ g.block = f.block /\ FrameInv(program, g)
<1>1. PICK s : s = program[f.code]  OBVIOUS
<1>2. FrameOK(program, f)  BY DEF FrameInv
<1>3. s \in ScopeType /\ ScopeVerified(s) /\ Blocks(f) = s.blocks  BY <1>1, <1>2, FrameScope
<1>4. /\ f.exception # NoException
      /\ f.loop \in DOMAIN s.blocks /\ f.current = Parent(s, f.loop)
      /\ f.open = EnsuredAround(s, f.loop)
      /\ f.exception.kind = "redo" => RedoLands(s, f.loop, f.exception.pos)
  BY <1>1, ClauseKnown DEF AtClause
<1> DEFINE block == Block(f, f.loop)
           up == [f EXCEPT !.current = block.parent]
<1>5. block = s.blocks[f.loop] /\ block.parent = f.current
  BY <1>3, <1>4 DEF Block, Parent
<1>6. up = f  BY <1>5 DEF FrameType
<1>7. g = IF block.ensure # 0 THEN GoTo(up, block.ensure) ELSE [up EXCEPT !.mode = "handle"]
  BY DEF LeftBlock
<1> HIDE DEF block, up
<1>10. f.exception.kind = "redo" => RedoLands(s, f.current, f.exception.pos)
  <2>1. f.exception.kind = "redo" => ~IsLoop(s, f.loop)
    BY <1>5 DEF LoopTakes, IsLoop, block
  <2> QED BY <1>3, <1>4, <2>1, HomeOfBegin DEF ScopeVerified
<1>8. CASE block.ensure # 0
  <2>1. f.loop \in Ensured(s)  BY <1>4, <1>5, <1>8 DEF Ensured
  <2>2. /\ Reaches(s, block.ensure, f.current, f.open)
        /\ MayPend(s, block.ensure) /\ TestsAt(s, block.ensure) = {}
    BY <1>3, <1>4, <1>5, <2>1 DEF ScopeVerified, HandlersPlaced
  <2>3. Near(s, f.current, f.current)  BY DEF Near
  <2>4. GoTo(f, block.ensure) \in FrameType /\ FrameInv(program, GoTo(f, block.ensure))
    BY <1>1, <1>2, <1>4, <1>10, <2>2, <2>3, StandsAt
  <2>5. block.ensure \in Nat  BY <1>3, <2>2, ScopeTyped DEF Reaches
  <2> QED BY <1>6, <1>8, <1>7, <2>4, <2>5, GoToFields
<1>9. CASE block.ensure = 0
  <2>1. g = [f EXCEPT !.mode = "handle"]  BY <1>6, <1>9, <1>7
  <2>2. /\ g \in FrameType /\ g.code = f.code /\ g.block = f.block /\ g.ip = f.ip
        /\ g.mode = "handle" /\ g.current = f.current /\ g.loop = f.loop
        /\ g.exception = f.exception /\ g.open = f.open
    BY <2>1 DEF FrameType, Modes
  <2>3. FrameOK(program, g)  BY <1>2, <2>2 DEF FrameOK
  <2>4. EnsuredAround(s, f.loop) = EnsuredAround(s, f.current)
    <3>1. Around(s, f.loop) = Around(s, f.current) \cup {f.loop} /\ f.loop \notin Ensured(s)
      BY <1>3, <1>4, <1>5, <1>9 DEF ScopeVerified, BlocksNested, Ensured
    <3> QED BY <3>1 DEF EnsuredAround
  <2>5. RunOK(s, g) /\ MatchOK(s, g) /\ HandleOK(s, g)
    BY <1>4, <2>2, <2>4 DEF RunOK, MatchOK, HandleOK
  <2>6. RedoOK(s, g)  BY <1>10, <2>2 DEF RedoOK, Trying
  <2> QED BY <1>1, <2>2, <2>3, <2>5, <2>6 DEF FrameInv
<1> QED BY <1>8, <1>9

\* A redo that no block takes starts the frame's code again.
LEMMA CodeRestarts ==
  ASSUME program \in Programs, NEW f \in FrameType, FrameInv(program, f), f.mode = "handle",
         f.current = 0, f.exception.kind = "redo"
  PROVE  LET g == GoTo(Handled(f), f.exception.pos)
         IN /\ g \in FrameType /\ g.code = f.code /\ g.block = f.block /\ FrameInv(program, g)
            /\ f.exception.pos \in Nat
<1>1. PICK s : s = program[f.code]  OBVIOUS
<1>2. FrameOK(program, f) /\ HandleOK(s, f) /\ RedoOK(s, f)  BY <1>1 DEF FrameInv
<1>3. s \in ScopeType /\ ScopeVerified(s)  BY <1>1, <1>2, FrameScope
<1>4. RedoLands(s, 0, f.exception.pos)  BY <1>2 DEF RedoOK, Trying
<1>5. Around(s, 0) = {}  BY <1>3 DEF ScopeVerified, BlocksNested
<1>6. Reaches(s, f.exception.pos, 0, EnsuredAround(s, 0)) /\ TestsAt(s, f.exception.pos) = {}
  BY <1>4, <1>5 DEF RedoLands, IsHome
<1>7. f.open = EnsuredAround(s, 0)  BY <1>2 DEF HandleOK
<1>8. Near(s, f.current, 0)  BY DEF Near
<1> QED BY <1>1, <1>2, <1>6, <1>7, <1>8, GoesOn


-----------------------------------------------------------------------------
(* The stack of frames.                                                    *)

\* What the invariant says of the running frame.
LEMMA TopInv ==
  ASSUME IInv, Depth > 0
  PROVE  /\ program \in Programs /\ Depth \in 1 .. Len(frames) /\ Depth = Len(frames)
         /\ Top \in FrameType /\ Top = frames[Depth] /\ FrameInv(program, Top)
         /\ FrameOK(program, Top)
<1>1. frames \in Seq(FrameType) /\ Len(frames) \in Nat  BY DEF IInv, TypeInv
<1>2. Depth \in 1 .. Len(frames) /\ Depth = Len(frames)  BY <1>1 DEF Depth
<1>3. Top = frames[Depth] /\ Top \in FrameType  BY <1>1, <1>2 DEF Top
<1> QED BY <1>2, <1>3 DEF IInv, TypeInv, FramesInv, FrameInv

\* The running frame changes, in the same code and with the same closure.
LEMMA TopChanges ==
  ASSUME IInv, Depth > 0, NEW g \in FrameType, g.code = Top.code, g.block = Top.block,
         FrameInv(program, g), SetTop(g), program' = program
  PROVE  /\ frames' \in Seq(FrameType) /\ FramesInv' /\ CallersInv' /\ ClosuresInv'
         /\ Len(frames') = Len(frames) /\ frames'[Len(frames')] = g
<1>1. /\ frames \in Seq(FrameType) /\ Len(frames) \in Nat /\ Depth = Len(frames)
      /\ Depth \in 1 .. Len(frames) /\ frames[Depth] = Top
  BY TopInv DEF IInv, TypeInv
<1>2. /\ frames' \in Seq(FrameType) /\ Len(frames') = Len(frames)
      /\ \A d \in 1 .. Len(frames) : frames'[d] = IF d = Depth THEN g ELSE frames[d]
  BY <1>1 DEF SetTop
<1>3. FramesInv'
  <2>1. ASSUME NEW d \in 1 .. Len(frames) PROVE FrameInv(program, frames'[d])
    BY <1>2, <2>1 DEF IInv, FramesInv
  <2> QED BY <1>2, <2>1 DEF FramesInv
<1>4. CallersInv'
  <2>1. ASSUME NEW d \in 1 .. Len(frames) - 1 PROVE Threw(program, frames'[d], {"call", "yield"})
    <3>1. d \in 1 .. Len(frames) /\ d # Depth  BY <1>1
    <3> QED BY <1>2, <3>1 DEF IInv, CallersInv
  <2> QED BY <1>2, <2>1 DEF CallersInv
<1>5. ClosuresInv'
  <2>1. ASSUME NEW d \in 1 .. Len(frames), NEW t \in DOMAIN program,
               BreaksFrom(program, frames'[d], t)
        PROVE  \E e \in 1 .. d - 1 : frames'[e].code = t
    <3>1. frames'[d].code = frames[d].code /\ frames'[d].block = frames[d].block
      BY <1>1, <1>2
    <3>2. PICK e \in 1 .. d - 1 : frames[e].code = t
      BY <2>1, <3>1 DEF IInv, ClosuresInv, BreaksFrom
    <3>3. e \in 1 .. Len(frames) /\ e # Depth  BY <1>1
    <3> QED BY <1>2, <3>2, <3>3
  <2> QED BY <1>2, <2>1 DEF ClosuresInv
<1> QED BY <1>1, <1>2, <1>3, <1>4, <1>5

\* The running frame is left.
LEMMA TopLeft ==
  ASSUME IInv, Depth > 0, Pop, program' = program
  PROVE  /\ frames' \in Seq(FrameType) /\ FramesInv' /\ CallersInv' /\ ClosuresInv'
         /\ Len(frames') = Len(frames) - 1
         /\ \A d \in 1 .. Len(frames) - 1 : frames'[d] = frames[d]
<1>1. /\ frames \in Seq(FrameType) /\ Len(frames) \in Nat /\ Depth = Len(frames)
      /\ Depth \in 1 .. Len(frames)
  BY TopInv DEF IInv, TypeInv
<1>2. /\ frames' \in Seq(FrameType) /\ Len(frames') = Len(frames) - 1
      /\ \A d \in 1 .. Len(frames) - 1 : frames'[d] = frames[d]
  BY <1>1 DEF Pop
<1>3. FramesInv'
  <2>1. ASSUME NEW d \in 1 .. Len(frames) - 1 PROVE FrameInv(program, frames'[d])
    BY <1>1, <1>2, <2>1 DEF IInv, FramesInv
  <2> QED BY <1>2, <2>1 DEF FramesInv
<1>4. CallersInv'
  <2>1. ASSUME NEW d \in 1 .. Len(frames) - 1 - 1
        PROVE  Threw(program, frames'[d], {"call", "yield"})
    BY <1>1, <1>2 DEF IInv, CallersInv
  <2> QED BY <1>2, <2>1 DEF CallersInv
<1>5. ClosuresInv'
  <2>1. ASSUME NEW d \in 1 .. Len(frames) - 1, NEW t \in DOMAIN program,
               BreaksFrom(program, frames'[d], t)
        PROVE  \E e \in 1 .. d - 1 : frames'[e].code = t
    <3>1. d \in 1 .. Len(frames) /\ frames'[d] = frames[d]  BY <1>1, <1>2
    <3>2. PICK e \in 1 .. d - 1 : frames[e].code = t
      BY <2>1, <3>1 DEF IInv, ClosuresInv
    <3>3. e \in 1 .. Len(frames) - 1  BY <1>1
    <3> QED BY <1>2, <3>2, <3>3
  <2> QED BY <1>2, <2>1 DEF ClosuresInv
<1> QED BY <1>2, <1>3, <1>4, <1>5

\* A frame for a scope begins its code.
LEMMA FrameBegins ==
  ASSUME program \in Programs, NEW c \in DOMAIN program, NEW b \in 0 .. Len(program),
         Yields(program[c]) => b # 0, b # 0 => ~Yields(program[b])
  PROVE  NewFrame(c, b) \in FrameType /\ FrameInv(program, NewFrame(c, b))
<1>1. PICK s : s = program[c]  OBVIOUS
<1>2. /\ s \in ScopeType /\ ScopeVerified(s) /\ c \in Nat /\ b \in Nat
  BY <1>1, ProgramTyped
<1>3. /\ 1 \in DOMAIN s.ops /\ Under(s, 1) = 0 /\ OpenAt(s, 1) = {} /\ TestsAt(s, 1) = {}
  BY <1>2 DEF ScopeVerified, FlowKept
<1>4. NoException \in ExceptionType /\ NoException.kind # "redo"
  BY DEF NoException, Exception, ExceptionType, ExceptionKinds, Classes
<1>5. PICK g : g = NewFrame(c, b)  OBVIOUS
<1>6. /\ g \in FrameType /\ g.code = c /\ g.block = b /\ g.ip = 1 /\ g.mode = "run"
      /\ g.current = 0 /\ g.loop = 0 /\ g.exception = NoException /\ g.open = {}
  BY <1>2, <1>4, <1>5 DEF NewFrame, FrameType, Modes
<1>7. 0 \in BlockNumbers(s)  BY <1>2, ScopeTyped
<1>8. FrameOK(program, g)  BY <1>1, <1>3, <1>6, <1>7 DEF FrameOK
<1>9. RunOK(s, g)  BY <1>3, <1>6 DEF RunOK, Near
<1>10. HandleOK(s, g) /\ MatchOK(s, g) /\ RedoOK(s, g)
  BY <1>4, <1>6 DEF HandleOK, MatchOK, RedoOK
<1> QED BY <1>1, <1>5, <1>6, <1>8, <1>9, <1>10 DEF FrameInv


\* The running frame is past a call, and a frame is put above it.
LEMMA FrameAdded ==
  ASSUME IInv, Depth > 0, program' = program,
         NEW g \in FrameType, g.code = Top.code, g.block = Top.block, FrameInv(program, g),
         Threw(program, g, {"call", "yield"}),
         NEW h \in FrameType, FrameInv(program, h),
         \A t \in DOMAIN program : BreaksFrom(program, h, t) => t = g.code \/ BreaksFrom(program, g, t),
         frames' = Append([frames EXCEPT ![Depth] = g], h)
  PROVE  frames' \in Seq(FrameType) /\ FramesInv' /\ CallersInv' /\ ClosuresInv'
<1>1. /\ frames \in Seq(FrameType) /\ Len(frames) \in Nat /\ Depth = Len(frames)
      /\ Depth \in 1 .. Len(frames) /\ frames[Depth] = Top
  BY TopInv DEF IInv, TypeInv
<1>2. PICK low : low = [frames EXCEPT ![Depth] = g]  OBVIOUS
<1>3. /\ low \in Seq(FrameType) /\ Len(low) = Len(frames)
      /\ \A d \in 1 .. Len(frames) : low[d] = IF d = Depth THEN g ELSE frames[d]
  BY <1>1, <1>2
<1>4. /\ frames' \in Seq(FrameType) /\ Len(frames') = Depth + 1 /\ frames'[Depth + 1] = h
      /\ frames'[Depth] = g
      /\ \A d \in 1 .. Depth - 1 : frames'[d] = frames[d]
  BY <1>1, <1>2, <1>3
<1>5. PICK top : top = Depth + 1 /\ top \in Nat /\ top - 1 = Depth  BY <1>1
<1>6. FramesInv'
  <2>1. ASSUME NEW d \in 1 .. top PROVE FrameInv(program, frames'[d])
    <3>1. CASE d = top  BY <1>4, <1>5, <3>1
    <3>2. CASE d = Depth  BY <1>4, <3>2
    <3>3. CASE d \in 1 .. Depth - 1
      <4>1. d \in 1 .. Len(frames)  BY <1>1, <3>3
      <4> QED BY <1>4, <3>3, <4>1 DEF IInv, FramesInv
    <3> QED BY <1>1, <1>5, <3>1, <3>2, <3>3
  <2> QED BY <1>4, <1>5, <2>1 DEF FramesInv
<1>7. CallersInv'
  <2>1. ASSUME NEW d \in 1 .. Depth PROVE Threw(program, frames'[d], {"call", "yield"})
    <3>1. CASE d = Depth  BY <1>4, <3>1
    <3>2. CASE d \in 1 .. Depth - 1  BY <1>1, <1>4, <3>2 DEF IInv, CallersInv
    <3> QED BY <1>1, <3>1, <3>2
  <2> QED BY <1>4, <1>5, <2>1 DEF CallersInv
<1>8. ASSUME NEW t \in DOMAIN program, BreaksFrom(program, g, t)
      PROVE  \E e \in 1 .. Depth - 1 : frames'[e].code = t
  <2>1. BreaksFrom(program, frames[Depth], t)  BY <1>1, <1>8 DEF BreaksFrom
  <2>2. PICK e \in 1 .. Depth - 1 : frames[e].code = t
    BY <1>1, <2>1 DEF IInv, ClosuresInv
  <2> QED BY <1>4, <2>2
<1>9. ClosuresInv'
  <2>1. ASSUME NEW d \in 1 .. top, NEW t \in DOMAIN program, BreaksFrom(program, frames'[d], t)
        PROVE  \E e \in 1 .. d - 1 : frames'[e].code = t
    <3>1. CASE d = top
      <4>1. CASE t = g.code
        <5>1. Depth \in 1 .. d - 1  BY <1>1, <1>5, <3>1
        <5> QED BY <1>4, <4>1, <5>1
      <4>2. CASE BreaksFrom(program, g, t)
        <5>1. 1 .. Depth - 1 \subseteq 1 .. d - 1  BY <1>1, <1>5, <3>1
        <5> QED BY <1>8, <4>2, <5>1
      <4> QED BY <1>4, <1>5, <2>1, <3>1, <4>1, <4>2
    <3>2. CASE d = Depth  BY <1>4, <1>8, <2>1, <3>2
    <3>3. CASE d \in 1 .. Depth - 1
      <4>1. d \in 1 .. Len(frames)  BY <1>1, <3>3
      <4>2. PICK e \in 1 .. d - 1 : frames[e].code = t
        BY <1>4, <2>1, <3>3, <4>1 DEF IInv, ClosuresInv
      <4>3. e \in 1 .. Depth - 1  BY <1>1, <3>3
      <4> QED BY <1>4, <4>2, <4>3
    <3> QED BY <1>1, <1>5, <3>1, <3>2, <3>3
  <2> QED BY <1>4, <1>5, <2>1, ZenonT(40) DEF ClosuresInv
<1> QED BY <1>4, <1>6, <1>7, <1>9

-----------------------------------------------------------------------------
(* Greatest and least numbers.                                             *)

\* A nonempty set of numbers has a least one.
LEMMA LeastOf ==
  ASSUME NEW T \in SUBSET Nat, T # {}
  PROVE  Min(T) \in T /\ \A x \in T : Min(T) <= x
<1>1. PICK x \in T : \A y \in T : ~(<<y, x>> \in OpToRel(<, Nat))
  BY NatLessThanWellFounded, WFMin
<1>2. \A y \in T : ~(y < x)  BY <1>1 DEF OpToRel
<1>3. \A y \in T : x <= y  BY <1>2
<1> QED BY <1>3 DEF Min

\* A nonempty set of numbers up to a bound has a greatest one.
LEMMA GreatestOf ==
  ASSUME NEW n \in Nat, NEW T \in SUBSET (0 .. n), T # {}
  PROVE  Max(T) \in T /\ \A x \in T : x <= Max(T)
<1> DEFINE R == {n - x : x \in T}
<1>1. R \in SUBSET Nat /\ R # {}
  <2>1. \A x \in T : x \in 0 .. n /\ n - x \in Nat  OBVIOUS
  <2>2. \A y \in R : y \in Nat  BY <2>1
  <2>3. PICK x \in T : TRUE  OBVIOUS
  <2>4. n - x \in R  BY <2>3
  <2> QED BY <2>2, <2>4
<1>2. Min(R) \in R /\ \A y \in R : Min(R) <= y  BY <1>1, LeastOf
<1>3. PICK m \in T : Min(R) = n - m  BY <1>2
<1>4. \A x \in T : n - m <= n - x  BY <1>2, <1>3
<1>5. \A x \in T : m >= x  BY <1>4
<1> QED BY <1>5 DEF Max

-----------------------------------------------------------------------------
(* Every step keeps the invariant.                                         *)

\* A step that is not a throw, changes the running frame and keeps what it runs.
LEMMA Ordinary ==
  ASSUME IInv, Depth > 0, NEW g \in FrameType, g.code = Top.code, g.block = Top.block,
         FrameInv(program, g), SetTop(g), program' = program,
         flying' = NoException, errors' = errors,
         landing' = landing \/ \E k \in ExceptionKinds, a \in Nat \X Nat, b \in Nat \X Nat :
                                  landing' = [kind |-> k, goal |-> a, at |-> b]
  PROVE  IInv'
<1>1. frames' \in Seq(FrameType) /\ FramesInv' /\ CallersInv' /\ ClosuresInv'
  BY TopChanges
<1>2. NoException \in ExceptionType
  BY DEF NoException, Exception, ExceptionType, ExceptionKinds, Classes
<1>3. FlyingInv'  BY DEF FlyingInv
<1>4. TypeInv'  BY <1>1, <1>2 DEF IInv, TypeInv
<1> QED BY <1>1, <1>3, <1>4 DEF IInv

\* What it is to run an op.
LEMMA RunsOp ==
  ASSUME IInv, NEW name, Runs(name), NEW s, s = program[Top.code]
  PROVE  /\ Depth > 0 /\ flying = NoException /\ Top.mode = "run"
         /\ CurrentOp = s.ops[Top.ip] /\ Name(s, Top.ip) = name
         /\ s \in ScopeType /\ ScopeVerified(s) /\ Top.ip \in DOMAIN s.ops
         /\ CurrentOp \in OpType
<1>1. Depth > 0 /\ flying = NoException /\ Top.mode = "run"  BY DEF Runs
<1>2. CurrentOp = s.ops[Top.ip] /\ Name(s, Top.ip) = name
  BY DEF Runs, CurrentOp, Ops, Name
<1> QED BY <1>1, <1>2, TopInv, FrameScope

\* An exception lands at an address.
LEMMA LandsTyped ==
  ASSUME NEW e \in ExceptionType, NEW d \in Nat, NEW i \in Nat, Lands(e, d, i)
  PROVE  \E k \in ExceptionKinds, a \in Nat \X Nat, b \in Nat \X Nat :
           landing' = [kind |-> k, goal |-> a, at |-> b]
<1>1. e.kind \in ExceptionKinds /\ e.goal \in Nat \X Nat /\ <<d, i>> \in Nat \X Nat
  BY DEF ExceptionType
<1> QED BY <1>1 DEF Lands

\* Ops that go on to the next or to another address.
LEMMA FlowSteps ==
  ASSUME IInv, Plain \/ Branch \/ BranchUnless
  PROVE  IInv'
<1>1. PICK s : s = program[Top.code]  OBVIOUS
<1>2. PICK name \in {"step", "branch", "branch_unless"} :
        Runs(name) /\ \E j \in After(s, Top.ip) : SetTop(GoTo(Top, j))
  <2>1. CASE Plain
    <3>1. Runs("step") /\ SetTop(GoTo(Top, Top.ip + 1))  BY <2>1 DEF Plain, Step
    <3> QED BY <1>1, <3>1, RunsOp DEF After
  <2>2. CASE Branch
    <3>1. Runs("branch") /\ SetTop(GoTo(Top, CurrentOp.to))  BY <2>2 DEF Branch
    <3> QED BY <1>1, <3>1, RunsOp DEF After
  <2>3. CASE BranchUnless
    <3>1. /\ Runs("branch_unless")
          /\ SetTop(GoTo(Top, Top.ip + 1)) \/ SetTop(GoTo(Top, CurrentOp.to))
      BY <2>3 DEF BranchUnless, Step
    <3> QED BY <1>1, <3>1, RunsOp DEF After
  <2> QED BY <2>1, <2>2, <2>3
<1>3. PICK j \in After(s, Top.ip) : SetTop(GoTo(Top, j))  BY <1>2
<1>4. UNCHANGED <<program, flying, errors, landing>>  BY DEF Plain, Branch, BranchUnless
<1>5. /\ Depth > 0 /\ flying = NoException /\ Top.mode = "run" /\ Name(s, Top.ip) = name
      /\ s \in ScopeType /\ ScopeVerified(s) /\ Top.ip \in DOMAIN s.ops
  BY <1>1, <1>2, RunsOp
<1>6. Top \in FrameType /\ FrameInv(program, Top) /\ program \in Programs  BY <1>5, TopInv
<1>7. PICK f : f = Top  OBVIOUS
<1>8. GoTo(f, j) \in FrameType /\ FrameInv(program, GoTo(f, j))
  BY <1>1, <1>2, <1>3, <1>5, <1>6, <1>7, FlowsOn
<1>9. j \in Nat
  <2>1. FrameOK(program, GoTo(f, j))  BY <1>8 DEF FrameInv
  <2>2. j \in DOMAIN s.ops
    BY <1>2, <1>3, <1>5 DEF ScopeVerified, FlowKept, Reaches
  <2> QED BY <1>5, <2>2, AddressTyped
<1>10. GoTo(f, j).code = f.code /\ GoTo(f, j).block = f.block  BY <1>6, <1>7, <1>9, GoToFields
<1> QED BY <1>3, <1>4, <1>5, <1>7, <1>8, <1>10, Ordinary


\* An op that sets the handler.
LEMMA HandlerStep ==
  ASSUME IInv, Handler
  PROVE  IInv'
<1>1. PICK s : s = program[Top.code]  OBVIOUS
<1>2. PICK f : f = Top  OBVIOUS
<1>3. PICK b : b = CurrentOp.to  OBVIOUS
<1>4. PICK ensured : ensured = IF b # 0 /\ Block(f, b).ensure # 0 THEN {b} ELSE {}  OBVIOUS
<1>5. PICK h : h = [f EXCEPT !.current = b, !.open = @ \cup ensured]  OBVIOUS
<1>6. Runs("handler") /\ UNCHANGED <<program, flying, errors, landing>> /\ SetTop(Step(h))
  BY <1>2, <1>3, <1>4, <1>5 DEF Handler
<1>7. /\ Depth > 0 /\ flying = NoException /\ f.mode = "run" /\ Name(s, f.ip) = "handler"
      /\ b = s.ops[f.ip].to /\ s \in ScopeType /\ ScopeVerified(s) /\ f.ip \in DOMAIN s.ops
  BY <1>1, <1>2, <1>3, <1>6, RunsOp
<1>8. f \in FrameType /\ FrameInv(program, f) /\ program \in Programs  BY <1>2, <1>7, TopInv
<1>9. b \in BlockNumbers(s) /\ b \in Nat
  <2>1. b \in BlockNumbers(s)  BY <1>7 DEF ScopeVerified, FlowKept, Name
  <2>2. Len(s.blocks) \in Nat  BY <1>7, ScopeTyped
  <2> QED BY <2>1, <2>2 DEF BlockNumbers
<1>10. ensured = {b} \cap Ensured(s)
  <2>1. b # 0 => b \in DOMAIN s.blocks  BY <1>7, <1>9, ScopeTyped
  <2>2. 0 \notin DOMAIN s.blocks  BY <1>7, ScopeTyped
  <2>3. Block(f, b) = s.blocks[b]  BY <1>1, <1>2 DEF Block, Blocks
  <2> QED BY <1>4, <2>1, <2>2, <2>3 DEF Ensured
<1>11. ensured \in SUBSET Nat  BY <1>9, <1>10
<1>12. /\ h \in FrameType /\ h.code = f.code /\ h.block = f.block /\ h.ip = f.ip
       /\ h.loop = f.loop /\ h.exception = f.exception /\ h.current = b
       /\ h.open = f.open \cup ({b} \cap Ensured(s))
  BY <1>5, <1>8, <1>9, <1>10, <1>11 DEF FrameType
<1>13. /\ Step(h) \in FrameType /\ Step(h).code = f.code /\ Step(h).block = f.block
       /\ FrameInv(program, Step(h))
  BY <1>1, <1>2, <1>7, <1>8, <1>12, HandlerSets
<1> QED BY <1>2, <1>6, <1>7, <1>13, Ordinary

\* Where an op stands that a frame runs or has thrown at: under a block of its scope.
LEMMA OpAtPlaced ==
  ASSUME IInv, NEW d \in 1 .. Depth, NEW s, s = program[frames[d].code],
         d = Depth => Top.mode = "run" /\ OpAt(d).name \in RaisingNames
  PROVE  /\ s \in ScopeType /\ ScopeVerified(s) /\ frames[d] \in FrameType
         /\ Blocks(frames[d]) = s.blocks
         /\ OpAt(d).in \in BlockNumbers(s) /\ Near(s, frames[d].current, OpAt(d).in)
         /\ frames[d].current \in BlockNumbers(s)
<1>1. /\ frames[d] \in FrameType /\ FrameInv(program, frames[d]) /\ program \in Programs
      /\ FrameOK(program, frames[d]) /\ RunOK(s, frames[d])
  BY DEF IInv, TypeInv, FramesInv, FrameInv, Depth
<1>2. PICK f : f = frames[d]  OBVIOUS
<1>3. /\ s \in ScopeType /\ ScopeVerified(s) /\ Blocks(f) = s.blocks /\ Ops(f) = s.ops
      /\ f.ip \in DOMAIN s.ops /\ f.current \in BlockNumbers(s)
  BY <1>1, <1>2, FrameScope
<1>4. f.mode = "run" /\ Near(s, f.current, Under(s, f.ip))
  <2>1. CASE d = Depth  BY <1>1, <1>2, <2>1 DEF Top, RunOK
  <2>2. CASE d # Depth
    <3>1. d \in 1 .. Len(frames) - 1  BY <2>2 DEF Depth, IInv, TypeInv
    <3> QED BY <1>1, <1>2, <3>1 DEF IInv, CallersInv, Threw, RunOK
  <2> QED BY <2>1, <2>2
<1>5. PICK i \in DOMAIN s.ops : /\ OpAt(d) = s.ops[i] /\ Name(s, i) \in RaisingNames
                               /\ Under(s, i) = Under(s, f.ip)
  <2>1. CASE d = Depth
    <3>1. OpAt(d) = s.ops[f.ip] /\ Name(s, f.ip) \in RaisingNames
      BY <1>2, <1>3, <2>1 DEF OpAt, Name
    <3> QED BY <1>3, <3>1
  <2>2. CASE d # Depth
    <3>1. d \in 1 .. Len(frames) - 1  BY <2>2 DEF Depth, IInv, TypeInv
    <3>2. Threw(program, f, {"call", "yield"})  BY <1>2, <3>1 DEF IInv, CallersInv
    <3>3. PICK i \in DOMAIN s.ops : i = f.ip - 1 /\ i + 1 = f.ip /\ Name(s, i) \in {"call", "yield"}
      <4>1. DOMAIN s.ops = 1 .. Len(s.ops) /\ Len(s.ops) \in Nat  BY <1>3, ScopeTyped
      <4>2. f.ip - 1 \in DOMAIN s.ops /\ (f.ip - 1) + 1 = f.ip  BY <1>3, <3>2, <4>1 DEF Threw
      <4> QED BY <1>2, <3>2, <4>2 DEF Threw
    <3>4. OpAt(d) = s.ops[i]  BY <1>2, <1>3, <2>2, <3>3 DEF OpAt
    <3>5. i + 1 \in After(s, i)  BY <3>3 DEF After
    <3>6. Under(s, i + 1) = Under(s, i)
      BY <1>3, <3>3, <3>5 DEF ScopeVerified, FlowKept, Reaches, Name
    <3> QED BY <3>3, <3>4, <3>6 DEF RaisingNames
  <2> QED BY <2>1, <2>2
<1>6. Under(s, i) = s.ops[i].in /\ s.ops[i].in \in BlockNumbers(s)
  BY <1>3, <1>5 DEF ScopeVerified, OpsPlaced, Name
<1> QED BY <1>1, <1>2, <1>3, <1>4, <1>5, <1>6

\* Where an error must end, as a pair of numbers.
LEMMA RescuerTyped ==
  ASSUME IInv, Runs("work"), NEW class
  PROVE  Rescuer(class) \in Nat \X Nat
<1> DEFINE depths == {d \in 1 .. Depth : Rescuing(d, class) # {}}
           d == Max(depths)
           b == Max(Rescuing(d, class))
           block == Block(frames[d], b)
           h == Min(Taking(block, class))
<1>1. Rescuer(class) = IF depths = {} THEN <<0, 0>> ELSE <<d, block.handlers[h].rescue>>
  BY DEF Rescuer
<1>2. ASSUME depths # {}
      PROVE  d \in Nat /\ block.handlers[h].rescue \in Nat
  <2>1. Depth \in Nat /\ depths \in SUBSET (0 .. Depth)  BY DEF IInv, TypeInv, Depth
  <2>2. d \in depths /\ d \in Nat
    <3>1. PICK n : n = Depth  OBVIOUS
    <3>2. PICK T : T = depths  OBVIOUS
    <3>3. n \in Nat /\ T \in SUBSET (0 .. n) /\ T # {}  BY <1>2, <2>1, <3>1, <3>2
    <3>4. Max(T) \in T  BY <3>3, GreatestOf
    <3>5. \A x \in T : x \in Nat  BY <3>3
    <3> QED BY <3>2, <3>4, <3>5
  <2> HIDE DEF d
  <2>3. PICK s : s = program[frames[d].code]  OBVIOUS
  <2>4. PICK in : in = OpAt(d).in  OBVIOUS
  <2>5. /\ s \in ScopeType /\ BlocksNested(s) /\ Blocks(frames[d]) = s.blocks
        /\ in \in BlockNumbers(s)
    <3>1. d = Depth => Top.mode = "run" /\ OpAt(d).name \in RaisingNames
      BY DEF Runs, OpAt, CurrentOp, Top, RaisingNames
    <3> QED BY <2>2, <2>3, <2>4, <3>1, OpAtPlaced DEF ScopeVerified
  <2>6. Around(s, in) \subseteq DOMAIN s.blocks /\ DOMAIN s.blocks \in SUBSET (0 .. Len(s.blocks))
        /\ Len(s.blocks) \in Nat
    <3>1. DOMAIN s.blocks = 1 .. Len(s.blocks) /\ Len(s.blocks) \in Nat  BY <2>5, ScopeTyped
    <3>2. CASE in = 0  BY <2>5, <3>1, <3>2 DEF BlocksNested
    <3>3. CASE in \in DOMAIN s.blocks  BY <2>5, <3>1, <3>3 DEF BlocksNested
    <3> QED BY <2>5, <3>1, <3>2, <3>3, ScopeTyped
  <2>7. Rescuing(d, class) \in SUBSET (0 .. Len(s.blocks)) /\ Rescuing(d, class) # {}
        /\ Rescuing(d, class) \subseteq DOMAIN s.blocks
    BY <2>2, <2>3, <2>4, <2>6 DEF Rescuing
  <2>8. b \in Rescuing(d, class) /\ b \in DOMAIN s.blocks  BY <2>6, <2>7, GreatestOf
  <2>9. block = s.blocks[b]  BY <2>5 DEF Block
  <2>10. Taking(block, class) # {}  BY <2>8 DEF Rescuing
  <2> HIDE DEF b, block
  <2>11. DOMAIN block.handlers \in SUBSET Nat /\ \A k \in DOMAIN block.handlers : block.handlers[k] \in ClauseType
    BY <2>5, <2>8, <2>9, ScopeTyped
  <2>12. Taking(block, class) \in SUBSET Nat /\ Taking(block, class) \subseteq DOMAIN block.handlers
    BY <2>11 DEF Taking
  <2>13. h \in DOMAIN block.handlers  BY <2>10, <2>12, LeastOf
  <2> QED BY <2>2, <2>11, <2>13 DEF ClauseType
<1> QED BY <1>1, <1>2


\* A step by which the running frame, past its op, throws.
LEMMA Throws ==
  ASSUME IInv, NEW names \in SUBSET RaisingNames, NEW name \in names, Runs(name),
         SetTop(Step(Top)), program' = program,
         NEW e \in ExceptionType, flying' = e,
         errors' \in 0 .. MaxErrors, landing' = landing,
         NEW s, s = program[Top.code],
         e.kind = "redo" => ~IsLoop(s, CurrentOp.in) /\ RedoLands(s, CurrentOp.in, e.pos)
  PROVE  IInv'
<1>1. PICK f : f = Top  OBVIOUS
<1>2. /\ Depth > 0 /\ f.mode = "run" /\ Name(s, f.ip) = name /\ CurrentOp = s.ops[f.ip]
  BY <1>1, RunsOp
<1>3. f \in FrameType /\ FrameInv(program, f) /\ program \in Programs  BY <1>1, <1>2, TopInv
<1>4. PICK g : g = Step(f)  OBVIOUS
<1>5. /\ g \in FrameType /\ FrameInv(program, g) /\ g.code = f.code /\ g.block = f.block
      /\ Threw(program, g, names) /\ g.ip = f.ip + 1
      /\ Under(s, f.ip + 1) = s.ops[f.ip].in
  BY <1>1, <1>2, <1>3, <1>4, StepsPast
<1>6. /\ frames' \in Seq(FrameType) /\ FramesInv' /\ CallersInv' /\ ClosuresInv'
      /\ frames'[Len(frames')] = g
  BY <1>1, <1>2, <1>4, <1>5, TopChanges
<1>7. FliesOver(program, g, e)
  <2>1. Threw(program, g, RaisingNames)  BY <1>5 DEF Threw
  <2>2. s = program[g.code]  BY <1>1, <1>5
  <2>3. Under(s, g.ip) = CurrentOp.in  BY <1>2, <1>5
  <2> QED BY <2>1, <2>2, <2>3 DEF FliesOver
<1>8. FlyingInv'  BY <1>6, <1>7 DEF FlyingInv
<1>9. TypeInv'  BY <1>6 DEF IInv, TypeInv
<1> QED BY <1>6, <1>8, <1>9 DEF IInv

\* Code that may raise.
LEMMA WorkStep ==
  ASSUME IInv, Work
  PROVE  IInv'
<1>1. /\ Runs("work") /\ SetTop(Step(Top)) /\ program' = program /\ landing' = landing
  BY DEF Work
<1>2. PICK s : s = program[Top.code]  OBVIOUS
<1>3. PICK f : f = Top  OBVIOUS
<1>4. Depth > 0 /\ flying = NoException /\ f.mode = "run" /\ Name(s, f.ip) = "work"
  BY <1>1, <1>2, <1>3, RunsOp
<1>5. f \in FrameType /\ FrameInv(program, f) /\ program \in Programs  BY <1>3, <1>4, TopInv
<1>6. {"work"} \in SUBSET RaisingNames  BY DEF RaisingNames
<1>7. CASE UNCHANGED <<flying, errors>>
  <2>1. /\ Step(f) \in FrameType /\ FrameInv(program, Step(f))
        /\ Step(f).code = f.code /\ Step(f).block = f.block
    BY <1>2, <1>3, <1>4, <1>5, <1>6, StepsPast
  <2> QED BY <1>1, <1>3, <1>4, <1>7, <2>1, Ordinary
<1>8. CASE /\ errors < MaxErrors /\ errors' = errors + 1
           /\ \E class \in {"standard", "fatal"} :
                flying' = Exception("error", class, 0, 0, Rescuer(class))
  <2>1. PICK class \in {"standard", "fatal"} :
          flying' = Exception("error", class, 0, 0, Rescuer(class))
    BY <1>8
  <2>2. PICK e : e = Exception("error", class, 0, 0, Rescuer(class))  OBVIOUS
  <2>3. Rescuer(class) \in Nat \X Nat  BY <1>1, RescuerTyped
  <2>4. e \in ExceptionType /\ e.kind = "error"
    BY <2>2, <2>3 DEF Exception, ExceptionType, ExceptionKinds, Classes
  <2>5. errors' \in 0 .. MaxErrors  BY <1>8, MaxErrorsAssumption DEF IInv, TypeInv
  <2> QED BY <1>1, <1>2, <1>6, <2>1, <2>2, <2>4, <2>5, Throws
<1> QED BY <1>7, <1>8 DEF Work

\* The frame a jump names runs.
LEMMA HomeRuns ==
  ASSUME IInv, Runs("unwind_break"), NEW t, t = CurrentOp.to, t # 0
  PROVE  /\ t \in DOMAIN program /\ FrameOf(t) \in 1 .. Depth /\ frames[FrameOf(t)].code = t
         /\ \A d \in 1 .. Depth : frames[d].code = t => d <= FrameOf(t)
<1>1. PICK s : s = program[Top.code]  OBVIOUS
<1>2. /\ Depth > 0 /\ CurrentOp = s.ops[Top.ip] /\ Name(s, Top.ip) = "unwind_break"
      /\ Top.ip \in DOMAIN s.ops
  BY <1>1, RunsOp
<1>3. /\ program \in Programs /\ Depth \in 1 .. Len(frames) /\ Top = frames[Depth]
      /\ Top.code \in DOMAIN program
  BY <1>2, TopInv DEF FrameOK
<1>4. t \in DOMAIN program
  <2>1. CallsPlaced(program) /\ DOMAIN program = 1 .. Len(program) /\ Len(program) \in Nat
    BY <1>3, ProgramTyped DEF Verified
  <2>2. t \in 0 .. Len(program)  BY <1>1, <1>2, <1>3, <2>1 DEF CallsPlaced
  <2> QED BY <2>1, <2>2
<1>5. BreaksTo(s, t)  BY <1>2 DEF BreaksTo
<1>6. PICK d \in 1 .. Depth : frames[d].code = t
  <2>1. PICK e \in 1 .. Depth - 1 : frames[e].code = t
    BY <1>1, <1>3, <1>4, <1>5 DEF IInv, ClosuresInv, BreaksFrom
  <2>2. e \in 1 .. Depth  BY <1>3
  <2> QED BY <2>1, <2>2
<1>7. PICK n : n = Depth  OBVIOUS
<1>8. PICK T : T = {x \in 1 .. n : frames[x].code = t}  OBVIOUS
<1>9. n \in Nat /\ T \in SUBSET (0 .. n) /\ T # {}
  <2>1. n \in Nat  BY <1>3, <1>7
  <2> QED BY <1>6, <1>7, <1>8, <2>1
<1>10. Max(T) \in T /\ \A x \in T : x <= Max(T)  BY <1>9, GreatestOf
<1>11. FrameOf(t) = Max(T)  BY <1>7, <1>8, <1>9 DEF FrameOf
<1> QED BY <1>4, <1>7, <1>8, <1>10, <1>11

\* The frames that run a scope are counted by numbers.
LEMMA FrameOfTyped ==
  ASSUME IInv, NEW t
  PROVE  FrameOf(t) \in Nat
<1>1. PICK n : n = Depth  OBVIOUS
<1>2. PICK T : T = {x \in 1 .. n : frames[x].code = t}  OBVIOUS
<1>3. n \in Nat /\ T \in SUBSET (0 .. n)  BY <1>1, <1>2 DEF Depth, IInv, TypeInv
<1>4. CASE T = {}  BY <1>1, <1>2, <1>4 DEF FrameOf
<1>5. CASE T # {}
  <2>1. Max(T) \in T  BY <1>3, <1>5, GreatestOf
  <2>2. \A x \in T : x \in Nat  BY <1>3
  <2>3. FrameOf(t) = Max(T)  BY <1>1, <1>2, <1>5 DEF FrameOf
  <2> QED BY <2>1, <2>2, <2>3
<1> QED BY <1>4, <1>5

\* A jump that unwinds.
LEMMA JumpStep ==
  ASSUME IInv, UnwindJump
  PROVE  IInv'
<1>1. PICK name \in DOMAIN JumpKind : Runs(name)  BY DEF UnwindJump
<1>2. name \in {"unwind_return", "unwind_break", "unwind_next", "unwind_redo"}
  BY DEF JumpKind
<1>3. {"unwind_return", "unwind_break", "unwind_next", "unwind_redo"} \in SUBSET RaisingNames
  BY DEF RaisingNames, LocalJumps
<1>4. PICK s : s = program[Top.code]  OBVIOUS
<1>5. PICK op : op = CurrentOp  OBVIOUS
<1>6. /\ Depth > 0 /\ op = s.ops[Top.ip] /\ op.name = name /\ op \in OpType
      /\ s \in ScopeType /\ ScopeVerified(s) /\ Top.ip \in DOMAIN s.ops
  BY <1>1, <1>4, <1>5, RunsOp DEF Name
<1>7. PICK kind : kind = JumpKind[op.name]  OBVIOUS
<1>8. PICK target : target = IF kind \in {"return", "break"} THEN op.to ELSE 0  OBVIOUS
<1>9. PICK pos : pos = IF kind = "redo" THEN op.to ELSE 0  OBVIOUS
<1>10. PICK home : home = IF target = 0 THEN Depth ELSE FrameOf(target)  OBVIOUS
<1>11. PICK address : address = IF kind = "break" /\ target # 0 THEN frames[home].ip ELSE op.goal
  OBVIOUS
<1>12. PICK e : e = Exception(kind, "jump", target, pos, <<home, address>>)  OBVIOUS
<1>13. /\ flying' = e /\ SetTop(Step(Top)) /\ UNCHANGED <<program, errors, landing>>
  BY <1>5, <1>7, <1>8, <1>9, <1>10, <1>11, <1>12 DEF UnwindJump
<1>14. kind \in {"return", "break", "next", "redo"} /\ (kind = "redo" <=> name = "unwind_redo")
       /\ (kind = "break" <=> name = "unwind_break")
  BY <1>2, <1>6, <1>7 DEF JumpKind
<1>15. op.to \in Nat /\ op.goal \in Nat  BY <1>6 DEF OpType
<1>16. target \in Nat /\ pos \in Nat  BY <1>8, <1>9, <1>15
<1>17. home \in Nat
  BY <1>6, <1>10, TopInv, FrameOfTyped
<1>18. address \in Nat
  <2>1. CASE kind = "break" /\ target # 0
    <3>1. Runs("unwind_break") /\ target = CurrentOp.to  BY <1>1, <1>5, <1>8, <1>14, <2>1
    <3>2. FrameOf(target) \in 1 .. Depth  BY <2>1, <3>1, HomeRuns
    <3>3. frames[home] \in FrameType  BY <1>10, <2>1, <3>2 DEF IInv, TypeInv, Depth
    <3> QED BY <1>11, <2>1, <3>3 DEF FrameType
  <2>2. CASE ~(kind = "break" /\ target # 0)  BY <1>11, <1>15, <2>2
  <2> QED BY <2>1, <2>2
<1>19. e \in ExceptionType /\ e.kind = kind /\ e.pos = pos
  BY <1>12, <1>14, <1>16, <1>17, <1>18 DEF Exception, ExceptionType, ExceptionKinds, Classes
<1>20. kind = "redo" => ~IsLoop(s, op.in) /\ RedoLands(s, op.in, pos)
  BY <1>6, <1>9, <1>14 DEF ScopeVerified, OpsPlaced, RedoLands
<1>21. errors' \in 0 .. MaxErrors  BY <1>13 DEF IInv, TypeInv
<1> QED BY <1>1, <1>2, <1>3, <1>4, <1>5, <1>13, <1>14, <1>19, <1>20, <1>21, Throws


\* A call, and a yield.
LEMMA CallStep ==
  ASSUME IInv, Call
  PROVE  IInv'
<1>1. PICK name \in {"call", "yield"} : Runs(name)  BY DEF Call
<1>2. PICK s : s = program[Top.code]  OBVIOUS
<1>3. PICK f : f = Top  OBVIOUS
<1>4. PICK op : op = CurrentOp  OBVIOUS
<1>5. /\ Depth > 0 /\ f.mode = "run" /\ Name(s, f.ip) = name /\ op = s.ops[f.ip] /\ op.name = name
      /\ f.ip \in DOMAIN s.ops
  BY <1>1, <1>2, <1>3, <1>4, RunsOp DEF Name
<1>6. f \in FrameType /\ FrameInv(program, f) /\ program \in Programs /\ FrameOK(program, f)
  BY <1>3, <1>5, TopInv
<1>7. PICK g : g = Step(f)  OBVIOUS
<1>8. {"call", "yield"} \in SUBSET RaisingNames  BY DEF RaisingNames
<1>9. /\ g \in FrameType /\ FrameInv(program, g) /\ g.code = f.code /\ g.block = f.block
      /\ Threw(program, g, {"call", "yield"})
  BY <1>1, <1>2, <1>3, <1>5, <1>6, <1>7, <1>8, StepsPast
<1>10. CallsPlaced(program) /\ DOMAIN program = 1 .. Len(program) /\ Len(program) \in Nat
  BY <1>6, ProgramTyped DEF Verified
<1>11. PICK h : h = IF name = "call" THEN NewFrame(op.to, op.with) ELSE NewFrame(f.block, 0)
  OBVIOUS
<1>12. frames' = Append([frames EXCEPT ![Depth] = g], h) /\ UNCHANGED <<program, flying, errors, landing>>
  BY <1>3, <1>4, <1>5, <1>7, <1>11 DEF Call
<1>13. f.code \in DOMAIN program  BY <1>6 DEF FrameOK
<1>14. PICK c, b : /\ h = NewFrame(c, b) /\ c \in DOMAIN program /\ b \in 0 .. Len(program)
                   /\ Yields(program[c]) => b # 0
                   /\ b # 0 => ~Yields(program[b])
                   /\ \A t \in DOMAIN program :
                        BreaksTo(program[c], t) => BreaksFrom(program, g, t)
                   /\ \A t \in DOMAIN program :
                        b # 0 /\ BreaksTo(program[b], t) => t = g.code
  <2>1. CASE name = "call"
    <3>1. h = NewFrame(op.to, op.with)  BY <1>11, <2>1
    <3>2. /\ op.to \in DOMAIN program /\ op.with \in 0 .. Len(program)
          /\ Yields(program[op.to]) => op.with # 0
          /\ op.with # 0 => ~Yields(program[op.with])
          /\ \A t \in DOMAIN program :
               /\ ~BreaksTo(program[op.to], t)
               /\ op.with # 0 /\ BreaksTo(program[op.with], t) => t = f.code
      <4>1. op = program[f.code].ops[f.ip] /\ f.ip \in DOMAIN program[f.code].ops
        BY <1>2, <1>3, <1>5
      <4>2. op.name = "call"  BY <1>5, <2>1
      <4>3. op.to \in DOMAIN program /\ op.with \in 0 .. Len(program)
        BY <1>10, <1>13, <4>1, <4>2 DEF CallsPlaced
      <4>4. Yields(program[op.to]) => op.with # 0
        BY <1>10, <1>13, <4>1, <4>2 DEF CallsPlaced
      <4>5. op.with # 0 => ~Yields(program[op.with])
        BY <1>10, <1>13, <4>1, <4>2 DEF CallsPlaced
      <4>6. ASSUME NEW t \in DOMAIN program
            PROVE  /\ ~BreaksTo(program[op.to], t)
                   /\ op.with # 0 /\ BreaksTo(program[op.with], t) => t = f.code
        BY <1>10, <1>13, <4>1, <4>2 DEF CallsPlaced
      <4> QED BY <4>3, <4>4, <4>5, <4>6
    <3> QED BY <1>9, <3>1, <3>2
  <2>2. CASE name = "yield"
    <3>1. h = NewFrame(f.block, 0)  BY <1>11, <2>2
    <3>2. Yields(s)  BY <1>5, <2>2 DEF Yields
    <3>3. f.block \in DOMAIN program /\ ~Yields(program[f.block]) /\ f.block # 0
      BY <1>2, <1>3, <1>6, <1>10, <3>2 DEF FrameOK
    <3>4. 0 \in 0 .. Len(program)  BY <1>10
    <3>5. \A t \in DOMAIN program : BreaksTo(program[f.block], t) => BreaksFrom(program, g, t)
      BY <1>9, <3>3 DEF BreaksFrom
    <3> QED BY <3>1, <3>3, <3>4, <3>5
  <2> QED BY <1>1, <2>1, <2>2
<1>15. h \in FrameType /\ FrameInv(program, h)  BY <1>6, <1>14, FrameBegins
<1>16. h.code = c /\ h.block = b  BY <1>14 DEF NewFrame
<1>17. \A t \in DOMAIN program :
         BreaksFrom(program, h, t) => t = g.code \/ BreaksFrom(program, g, t)
  BY <1>14, <1>16 DEF BreaksFrom
<1>18. frames' \in Seq(FrameType) /\ FramesInv' /\ CallersInv' /\ ClosuresInv'
  BY <1>3, <1>5, <1>9, <1>12, <1>15, <1>17, FrameAdded
<1>19. flying = NoException  BY <1>1 DEF Runs
<1>20. FlyingInv' /\ TypeInv'
  BY <1>12, <1>18, <1>19 DEF FlyingInv, IInv, TypeInv
<1> QED BY <1>18, <1>20 DEF IInv

\* A frame that is left while nothing flies.
LEMMA LeftQuietly ==
  ASSUME IInv, Depth > 0, Pop, program' = program, flying' = NoException, errors' = errors,
         landing' = landing \/ \E k \in ExceptionKinds, a \in Nat \X Nat, b \in Nat \X Nat :
                                  landing' = [kind |-> k, goal |-> a, at |-> b]
  PROVE  IInv'
<1>1. frames' \in Seq(FrameType) /\ FramesInv' /\ CallersInv' /\ ClosuresInv'
  BY TopLeft
<1>2. NoException \in ExceptionType
  BY DEF NoException, Exception, ExceptionType, ExceptionKinds, Classes
<1>3. FlyingInv'  BY DEF FlyingInv
<1>4. TypeInv'  BY <1>1, <1>2 DEF IInv, TypeInv
<1> QED BY <1>1, <1>3, <1>4 DEF IInv

\* Return, and an exception that ends the frame.
LEMMA ReturnSteps ==
  ASSUME IInv, Return \/ ReturnValue
  PROVE  IInv'
<1>1. CASE Return  BY <1>1, LeftQuietly DEF Return, Runs
<1>2. CASE ReturnValue
  <2>1. /\ Depth > 0 /\ Pop /\ Lands(Top.exception, Depth, 0) /\ flying = NoException
        /\ UNCHANGED <<program, flying, errors>>
    BY <1>2 DEF ReturnValue, Handling
  <2>2. Top.exception \in ExceptionType /\ Depth \in Nat
    BY <2>1, TopInv DEF FrameType
  <2>3. \E k \in ExceptionKinds, a \in Nat \X Nat, b \in Nat \X Nat :
           landing' = [kind |-> k, goal |-> a, at |-> b]
    BY <2>1, <2>2, LandsTyped
  <2> QED BY <2>1, <2>3, LeftQuietly
<1> QED BY <1>1, <1>2

\* The end of an ensure group.
LEMMA EnsureEndStep ==
  ASSUME IInv, UnwindEnsure
  PROVE  IInv'
<1>1. PICK s : s = program[Top.code]  OBVIOUS
<1>2. PICK f : f = Top  OBVIOUS
<1>3. /\ Runs("unwind_ensure") /\ UNCHANGED <<program, flying, errors, landing>>
      /\ SetTop(IF f.exception # NoException THEN [f EXCEPT !.mode = "handle"] ELSE Step(f))
  BY <1>2 DEF UnwindEnsure
<1>4. /\ Depth > 0 /\ flying = NoException /\ f.mode = "run" /\ Name(s, f.ip) = "unwind_ensure"
      /\ s \in ScopeType /\ ScopeVerified(s) /\ f.ip \in DOMAIN s.ops
  BY <1>1, <1>2, <1>3, RunsOp
<1>5. f \in FrameType /\ FrameInv(program, f) /\ program \in Programs  BY <1>2, <1>4, TopInv
<1>6. CASE f.exception # NoException
  <2>1. PICK g : g = [f EXCEPT !.mode = "handle"]  OBVIOUS
  <2>2. g \in FrameType /\ g.code = f.code /\ g.block = f.block /\ FrameInv(program, g)
    BY <1>1, <1>2, <1>4, <1>5, <1>6, <2>1, EnsureEnds
  <2> QED BY <1>2, <1>3, <1>4, <1>6, <2>1, <2>2, Ordinary
<1>7. CASE f.exception = NoException
  <2>1. PICK j : j = f.ip + 1  OBVIOUS
  <2>2. j \in After(s, f.ip)  BY <1>4, <2>1 DEF After
  <2>3. GoTo(f, j) \in FrameType /\ FrameInv(program, GoTo(f, j))
    BY <1>1, <1>2, <1>4, <1>5, <1>7, <2>2, FlowsOn
  <2>4. j \in Nat  BY <1>4, <2>1, AddressTyped
  <2>5. GoTo(f, j).code = f.code /\ GoTo(f, j).block = f.block  BY <1>5, <2>4, GoToFields
  <2>6. SetTop(GoTo(f, j))  BY <1>3, <1>7, <2>1 DEF Step
  <2> QED BY <1>2, <1>3, <1>4, <2>3, <2>5, <2>6, Ordinary
<1> QED BY <1>6, <1>7

\* The steps that go through the clauses of a block.
LEMMA ClauseSteps ==
  ASSUME IInv, UnwindFilter \/ TryStandard
  PROVE  IInv'
<1>1. PICK s : s = program[Top.code]  OBVIOUS
<1>2. PICK f : f = Top  OBVIOUS
<1>3. Depth > 0 /\ flying = NoException /\ AtClause(s, f) /\ UNCHANGED <<program, flying, errors>>
  <2>1. CASE UnwindFilter
    <3>1. Runs("unwind_filter") /\ UNCHANGED <<program, flying, errors>>  BY <2>1 DEF UnwindFilter
    <3> QED BY <1>1, <1>2, <3>1, RunsOp DEF AtClause
  <2>2. CASE TryStandard  BY <1>2, <2>2 DEF TryStandard, Handling, AtClause
  <2> QED BY <2>1, <2>2
<1>4. f \in FrameType /\ FrameInv(program, f) /\ program \in Programs /\ FrameOK(program, f)
  BY <1>2, <1>3, TopInv
<1>5. Clauses = s.blocks[f.loop].handlers  BY <1>1, <1>2 DEF Clauses, Block, Blocks
<1>6. f.handler \in DOMAIN s.blocks[f.loop].handlers
  <2>1. CASE UnwindFilter
    <3>1. f.mode = "run"  BY <1>2, <2>1 DEF UnwindFilter, Runs
    <3> QED BY <1>1, <1>2, <1>3, <1>4, <3>1, ClauseKnown
  <2>2. CASE TryStandard
    <3>1. f.loop \in DOMAIN s.blocks /\ f.handler \in 1 .. Len(s.blocks[f.loop].handlers) + 1
      BY <1>1, <1>2, <1>3, <1>4, ClauseKnown
    <3>2. s \in ScopeType  BY <1>1, <1>2, <1>4, FrameScope
    <3>3. /\ DOMAIN s.blocks[f.loop].handlers = 1 .. Len(s.blocks[f.loop].handlers)
          /\ Len(s.blocks[f.loop].handlers) \in Nat
      BY <3>1, <3>2, ScopeTyped
    <3>4. f.handler <= Len(s.blocks[f.loop].handlers)  BY <1>2, <1>5, <2>2 DEF TryStandard
    <3>5. PICK n : n = Len(s.blocks[f.loop].handlers)  OBVIOUS
    <3>6. f.handler \in 1 .. n  BY <3>1, <3>3, <3>4, <3>5
    <3> QED BY <3>3, <3>5, <3>6
  <2> QED BY <2>1, <2>2
<1>7. PICK clause : clause = ClauseOf(s, f)  OBVIOUS
<1>8. RunHandler(clause) \/ NextHandler
  BY <1>2, <1>5, <1>7 DEF ClauseOf, UnwindFilter, TryStandard
<1>9. CASE RunHandler(clause)
  <2>1. PICK g : g = GoTo(Handled(f), clause.rescue)  OBVIOUS
  <2>2. /\ g \in FrameType /\ g.code = f.code /\ g.block = f.block /\ FrameInv(program, g)
        /\ clause.rescue \in Nat
    BY <1>1, <1>2, <1>3, <1>4, <1>6, <1>7, <2>1, ClauseRuns
  <2>3. SetTop(g) /\ Lands(f.exception, Depth, clause.rescue)
    BY <1>2, <1>9, <2>1 DEF RunHandler
  <2>4. f.exception \in ExceptionType /\ Depth \in Nat  BY <1>3, <1>4, TopInv DEF FrameType
  <2>5. \E k \in ExceptionKinds, a \in Nat \X Nat, b \in Nat \X Nat :
           landing' = [kind |-> k, goal |-> a, at |-> b]
    BY <2>2, <2>3, <2>4, LandsTyped
  <2> QED BY <1>2, <1>3, <2>2, <2>3, <2>5, Ordinary
<1>10. CASE NextHandler
  <2>1. PICK g : g = [f EXCEPT !.mode = "match", !.handler = @ + 1]  OBVIOUS
  <2>2. g \in FrameType /\ g.code = f.code /\ g.block = f.block /\ FrameInv(program, g)
    BY <1>1, <1>2, <1>3, <1>4, <1>6, <2>1, ClausePassed
  <2>3. SetTop(g) /\ landing' = landing  BY <1>2, <1>10, <2>1 DEF NextHandler
  <2> QED BY <1>2, <1>3, <2>2, <2>3, Ordinary
<1> QED BY <1>8, <1>9, <1>10

\* The pattern of a clause is to be tested.
LEMMA FilterStep ==
  ASSUME IInv, TryFilter
  PROVE  IInv'
<1>1. PICK s : s = program[Top.code]  OBVIOUS
<1>2. PICK f : f = Top  OBVIOUS
<1>3. /\ Depth > 0 /\ flying = NoException /\ f.mode = "match"
      /\ UNCHANGED <<program, flying, errors, landing>>
  BY <1>2 DEF TryFilter, Handling
<1>4. f \in FrameType /\ FrameInv(program, f) /\ program \in Programs /\ FrameOK(program, f)
  BY <1>2, <1>3, TopInv
<1>5. PICK clause : clause = ClauseOf(s, f)  OBVIOUS
<1>6. Clauses = s.blocks[f.loop].handlers  BY <1>1, <1>2 DEF Clauses, Block, Blocks
<1>7. f.handler <= Len(s.blocks[f.loop].handlers) /\ SetTop(GoTo(f, clause.test)) /\ clause.filter
  BY <1>2, <1>5, <1>6 DEF TryFilter, ClauseOf
<1>8. f.handler \in DOMAIN s.blocks[f.loop].handlers
  <2>1. f.loop \in DOMAIN s.blocks /\ f.handler \in 1 .. Len(s.blocks[f.loop].handlers) + 1
    BY <1>1, <1>2, <1>3, <1>4, ClauseKnown DEF AtClause
  <2>2. s \in ScopeType  BY <1>1, <1>2, <1>4, FrameScope
  <2>3. /\ DOMAIN s.blocks[f.loop].handlers = 1 .. Len(s.blocks[f.loop].handlers)
        /\ Len(s.blocks[f.loop].handlers) \in Nat
    BY <2>1, <2>2, ScopeTyped
  <2>4. PICK n : n = Len(s.blocks[f.loop].handlers)  OBVIOUS
  <2>5. f.handler <= n  BY <1>7, <2>4
  <2>6. f.handler \in 1 .. n  BY <2>1, <2>3, <2>4, <2>5
  <2> QED BY <2>3, <2>4, <2>6
<1>9. PICK g : g = GoTo(f, clause.test)  OBVIOUS
<1>10. g \in FrameType /\ g.code = f.code /\ g.block = f.block /\ FrameInv(program, g)
  BY <1>1, <1>2, <1>3, <1>4, <1>5, <1>7, <1>8, <1>9, ClauseTested
<1>11. SetTop(g)  BY <1>7, <1>9
<1> QED BY <1>2, <1>3, <1>10, <1>11, Ordinary


\* A frame rethrows what it was leaving with.
LEMMA RethrowStep ==
  ASSUME IInv, Rethrow
  PROVE  IInv'
<1>1. /\ flying # NoException /\ Depth > 0 /\ Top.exception # NoException /\ Pop
      /\ UNCHANGED <<program, errors>>
  BY DEF Rethrow
<1>2. /\ Depth \in 1 .. Len(frames) /\ Depth = Len(frames) /\ Top = frames[Depth]
      /\ Len(frames) \in Nat
  BY <1>1, TopInv DEF IInv, TypeInv
<1>3. flying.kind # "redo" /\ flying = Top.exception
  BY <1>1, <1>2 DEF IInv, FlyingInv, FliesOver, Threw
<1>4. /\ frames' \in Seq(FrameType) /\ FramesInv' /\ CallersInv' /\ ClosuresInv'
      /\ Len(frames') = Len(frames) - 1
      /\ \A d \in 1 .. Len(frames) - 1 : frames'[d] = frames[d]
  BY <1>1, TopLeft
<1>5. CASE Depth = 1
  <2>1. flying' = NoException /\ Lands(flying, 0, 0)  BY <1>5 DEF Rethrow
  <2>2. \E k \in ExceptionKinds, a \in Nat \X Nat, b \in Nat \X Nat :
           landing' = [kind |-> k, goal |-> a, at |-> b]
    BY <2>1, LandsTyped DEF IInv, TypeInv
  <2> QED BY <1>1, <2>1, <2>2, LeftQuietly
<1>6. CASE Depth # 1
  <2>1. UNCHANGED <<flying, landing>>  BY <1>6 DEF Rethrow
  <2>2. PICK d : d = Depth - 1 /\ d \in 1 .. Len(frames) - 1  BY <1>2, <1>6
  <2>3. Threw(program, frames[d], {"call", "yield"})  BY <2>2 DEF IInv, CallersInv
  <2>4. Threw(program, frames[d], RaisingNames)  BY <2>3 DEF Threw, RaisingNames
  <2>5. frames'[Len(frames')] = frames[d]  BY <1>2, <1>4, <2>2
  <2>6. FlyingInv'  BY <1>1, <1>3, <2>1, <2>4, <2>5 DEF FlyingInv, FliesOver
  <2>7. TypeInv'  BY <1>1, <1>4, <2>1 DEF IInv, TypeInv
  <2> QED BY <1>4, <2>6, <2>7 DEF IInv
<1> QED BY <1>5, <1>6

\* A break ends in the frame it names.
LEMMA BreakStep ==
  ASSUME IInv, CatchBreak
  PROVE  IInv'
<1>1. /\ Depth > 0 /\ flying' = NoException /\ Lands(flying, Depth, Top.ip)
      /\ UNCHANGED <<program, frames, errors>>
  BY DEF CatchBreak
<1>2. flying \in ExceptionType /\ Depth \in Nat /\ Top.ip \in Nat
  BY <1>1, TopInv DEF FrameType, IInv, TypeInv
<1>3. \E k \in ExceptionKinds, a \in Nat \X Nat, b \in Nat \X Nat :
         landing' = [kind |-> k, goal |-> a, at |-> b]
  BY <1>1, <1>2, LandsTyped
<1>4. NoException \in ExceptionType
  BY DEF NoException, Exception, ExceptionType, ExceptionKinds, Classes
<1>5. FramesInv' /\ CallersInv' /\ ClosuresInv'
  BY <1>1 DEF IInv, FramesInv, CallersInv, ClosuresInv
<1>6. FlyingInv' /\ TypeInv'  BY <1>1, <1>3, <1>4 DEF FlyingInv, IInv, TypeInv
<1> QED BY <1>5, <1>6 DEF IInv

\* A frame catches an exception and looks for a block that takes it.
LEMMA CatchStep ==
  ASSUME IInv, Catch
  PROVE  IInv'
<1>1. PICK s : s = program[Top.code]  OBVIOUS
<1>2. PICK f : f = Top  OBVIOUS
<1>3. PICK e : e = flying  OBVIOUS
<1>4. PICK g : g = [f EXCEPT !.exception = e, !.mode = "handle"]  OBVIOUS
<1>5. /\ e # NoException /\ Depth > 0 /\ f.exception = NoException /\ SetTop(g)
      /\ flying' = NoException /\ UNCHANGED <<program, errors, landing>>
  BY <1>2, <1>3, <1>4 DEF Catch
<1>6. /\ f \in FrameType /\ FrameInv(program, f) /\ program \in Programs
      /\ f = frames[Len(frames)] /\ e \in ExceptionType /\ Len(frames) > 0
  BY <1>2, <1>3, <1>5, TopInv DEF IInv, TypeInv
<1>7. FliesOver(program, f, e)  BY <1>3, <1>5, <1>6 DEF IInv, FlyingInv
<1>8. g \in FrameType /\ g.code = f.code /\ g.block = f.block /\ FrameInv(program, g)
  BY <1>1, <1>2, <1>4, <1>5, <1>6, <1>7, Caught
<1> QED BY <1>2, <1>5, <1>8, Ordinary

\* A redo starts the code of the frame again.
LEMMA RestartStep ==
  ASSUME IInv, RestartBlock
  PROVE  IInv'
<1>1. PICK f : f = Top  OBVIOUS
<1>2. PICK g : g = GoTo(Handled(f), f.exception.pos)  OBVIOUS
<1>3. /\ Depth > 0 /\ flying = NoException /\ f.mode = "handle" /\ f.current = 0
      /\ f.exception.kind = "redo" /\ SetTop(g) /\ Lands(f.exception, Depth, f.exception.pos)
      /\ UNCHANGED <<program, flying, errors>>
  BY <1>1, <1>2 DEF RestartBlock, Handling
<1>4. f \in FrameType /\ FrameInv(program, f) /\ program \in Programs  BY <1>1, <1>3, TopInv
<1>5. /\ g \in FrameType /\ g.code = f.code /\ g.block = f.block /\ FrameInv(program, g)
      /\ f.exception.pos \in Nat
  BY <1>2, <1>3, <1>4, CodeRestarts
<1>6. f.exception \in ExceptionType /\ Depth \in Nat  BY <1>3, <1>4, TopInv DEF FrameType
<1>7. \E k \in ExceptionKinds, a \in Nat \X Nat, b \in Nat \X Nat :
         landing' = [kind |-> k, goal |-> a, at |-> b]
  BY <1>3, <1>5, <1>6, LandsTyped
<1> QED BY <1>1, <1>3, <1>5, <1>7, Ordinary

\* No block is left: the exception leaves the frame.
LEMMA LeaveStep ==
  ASSUME IInv, LeaveFrame
  PROVE  IInv'
<1>1. /\ Depth > 0 /\ Top.mode = "handle" /\ Top.current = 0 /\ Top.exception.kind # "redo"
      /\ flying' = Top.exception /\ UNCHANGED <<program, frames, errors, landing>>
  BY DEF LeaveFrame, Handling
<1>2. Top \in FrameType /\ Top = frames[Len(frames)]  BY <1>1, TopInv
<1>3. FlyingInv'
  BY <1>1, <1>2 DEF FlyingInv, FliesOver
<1>4. FramesInv' /\ CallersInv' /\ ClosuresInv'
  BY <1>1 DEF IInv, FramesInv, CallersInv, ClosuresInv
<1>5. TypeInv'  BY <1>1, <1>2 DEF IInv, TypeInv, FrameType
<1> QED BY <1>3, <1>4, <1>5 DEF IInv

\* The next block is tried.
LEMMA BlockStep ==
  ASSUME IInv, TryBlock
  PROVE  IInv'
<1>1. PICK s : s = program[Top.code]  OBVIOUS
<1>2. PICK f : f = Top  OBVIOUS
<1>3. PICK g : g = [f EXCEPT !.mode = "match", !.loop = f.current, !.handler = 1,
                             !.current = Block(f, f.current).parent]
  OBVIOUS
<1>4. /\ Depth > 0 /\ flying = NoException /\ f.mode = "handle" /\ f.current # 0 /\ SetTop(g)
      /\ UNCHANGED <<program, flying, errors, landing>>
  BY <1>2, <1>3 DEF TryBlock, Handling
<1>5. f \in FrameType /\ FrameInv(program, f) /\ program \in Programs  BY <1>2, <1>4, TopInv
<1>6. g \in FrameType /\ g.code = f.code /\ g.block = f.block /\ FrameInv(program, g)
  BY <1>1, <1>2, <1>3, <1>4, <1>5, BlockTried
<1> QED BY <1>2, <1>4, <1>6, Ordinary

\* A loop takes a jump.
LEMMA LoopStep ==
  ASSUME IInv, ContinueLoop
  PROVE  IInv'
<1>1. PICK f : f = Top  OBVIOUS
<1>2. PICK g : g = GoTo(Handled(f), LoopAddress(f))  OBVIOUS
<1>3. /\ Depth > 0 /\ flying = NoException /\ f.mode = "match" /\ LoopTakes(f) /\ SetTop(g)
      /\ Lands(f.exception, Depth, LoopAddress(f)) /\ UNCHANGED <<program, flying, errors>>
  BY <1>1, <1>2 DEF ContinueLoop, Handling
<1>4. f \in FrameType /\ FrameInv(program, f) /\ program \in Programs  BY <1>1, <1>3, TopInv
<1>5. /\ g \in FrameType /\ g.code = f.code /\ g.block = f.block /\ FrameInv(program, g)
      /\ LoopAddress(f) \in Nat
  BY <1>2, <1>3, <1>4, LoopGoesOn
<1>6. f.exception \in ExceptionType /\ Depth \in Nat  BY <1>3, <1>4, TopInv DEF FrameType
<1>7. \E k \in ExceptionKinds, a \in Nat \X Nat, b \in Nat \X Nat :
         landing' = [kind |-> k, goal |-> a, at |-> b]
  BY <1>3, <1>5, <1>6, LandsTyped
<1> QED BY <1>1, <1>3, <1>5, <1>7, Ordinary

\* Nothing in the block takes it.
LEMMA EnsureStep ==
  ASSUME IInv, RunEnsure
  PROVE  IInv'
<1>1. PICK f : f = Top  OBVIOUS
<1>2. PICK g : g = LeftBlock(f)  OBVIOUS
<1>3. /\ Depth > 0 /\ flying = NoException /\ f.mode = "match" /\ ~LoopTakes(f) /\ SetTop(g)
      /\ UNCHANGED <<program, flying, errors, landing>>
  BY <1>1, <1>2 DEF RunEnsure, Handling, LeftBlock
<1>4. f \in FrameType /\ FrameInv(program, f) /\ program \in Programs  BY <1>1, <1>3, TopInv
<1>5. g \in FrameType /\ g.code = f.code /\ g.block = f.block /\ FrameInv(program, g)
  BY <1>2, <1>3, <1>4, BlockLeft
<1> QED BY <1>1, <1>3, <1>5, Ordinary

\* The initial states.
LEMMA InitIInv == Init => IInv
<1> SUFFICES ASSUME Init PROVE IInv  OBVIOUS
<1>1. PICK f : f = NewFrame(1, 0)  OBVIOUS
<1>2. program \in Programs /\ frames = <<f>> /\ flying = NoException /\ errors = 0
      /\ landing = [kind |-> "none", goal |-> <<0, 0>>, at |-> <<0, 0>>]
  BY <1>1 DEF Init
<1>3. CallsPlaced(program) /\ DOMAIN program = 1 .. Len(program) /\ Len(program) \in Nat
  BY <1>2, ProgramTyped DEF Verified
<1>4. /\ 1 \in DOMAIN program /\ 0 \in 0 .. Len(program) /\ ~Yields(program[1])
      /\ \A t \in DOMAIN program : ~BreaksTo(program[1], t)
  BY <1>3 DEF CallsPlaced
<1>5. f \in FrameType /\ FrameInv(program, f)  BY <1>1, <1>2, <1>4, FrameBegins
<1>6. f.code = 1 /\ f.block = 0  BY <1>1 DEF NewFrame
<1>7. Len(frames) = 1 /\ frames[1] = f /\ frames \in Seq(FrameType)  BY <1>2, <1>5
<1>8. TypeInv
  <2>1. NoException \in ExceptionType
    BY DEF NoException, Exception, ExceptionType, ExceptionKinds, Classes
  <2>2. 0 \in 0 .. MaxErrors  BY MaxErrorsAssumption
  <2>3. landing \in [kind : ExceptionKinds, goal : Nat \X Nat, at : Nat \X Nat]
    BY <1>2 DEF ExceptionKinds
  <2> QED BY <1>2, <1>7, <2>1, <2>2, <2>3 DEF TypeInv
<1>9. FramesInv /\ CallersInv /\ FlyingInv  BY <1>2, <1>5, <1>7 DEF FramesInv, CallersInv, FlyingInv
<1>10. ClosuresInv  BY <1>4, <1>6, <1>7 DEF ClosuresInv, BreaksFrom
<1> QED BY <1>8, <1>9, <1>10 DEF IInv

\* Every step keeps the invariant.
LEMMA NextIInv == IInv /\ [Next]_vars => IInv'
<1> SUFFICES ASSUME IInv, [Next]_vars PROVE IInv'  OBVIOUS
<1>1. CASE UNCHANGED vars
  <2>1. UNCHANGED <<program, frames, flying, errors, landing>>  BY <1>1 DEF vars
  <2>2. TypeInv' /\ FlyingInv'  BY <2>1 DEF IInv, TypeInv, FlyingInv
  <2>3. FramesInv' /\ CallersInv' /\ ClosuresInv'
    BY <2>1 DEF IInv, FramesInv, CallersInv, ClosuresInv
  <2> QED BY <2>2, <2>3 DEF IInv
<1>2. CASE Next
  BY <1>2, WorkStep, FlowSteps, HandlerStep, CallStep, ReturnSteps, JumpStep, EnsureEndStep,
     ClauseSteps, RethrowStep, BreakStep, CatchStep, RestartStep, LeaveStep, BlockStep,
     FilterStep, LoopStep, EnsureStep
     DEF Next
<1> QED BY <1>1, <1>2

\* The invariant holds always.
LEMMA IInvHolds == Spec => []IInv
<1> QED BY InitIInv, NextIInv, PTL DEF Spec

-----------------------------------------------------------------------------
(* What it implies.                                                        *)

\* The types, and that frames, handlers and addresses are those of the program.
LEMMA IInvTypes == IInv => TypeOK
<1> SUFFICES ASSUME IInv PROVE TypeOK  OBVIOUS
<1>1. ASSUME NEW d \in 1 .. Depth, NEW f, f = frames[d]
      PROVE  /\ f.code \in DOMAIN program /\ f.block \in 0 .. Len(program)
             /\ f.ip \in 1 .. Len(Ops(f)) /\ f.mode \in Modes
             /\ {f.current, f.loop} \subseteq 0 .. Len(Blocks(f)) /\ f.open \subseteq DOMAIN Blocks(f)
             /\ f.handler \in Nat /\ f.exception.kind \in ExceptionKinds
  <2>1. PICK s : s = program[f.code]  OBVIOUS
  <2>2. /\ f \in FrameType /\ FrameInv(program, f) /\ FrameOK(program, f) /\ program \in Programs
        /\ RunOK(s, f) /\ HandleOK(s, f) /\ MatchOK(s, f)
    BY <1>1, <2>1 DEF IInv, TypeInv, FramesInv, FrameInv, Depth
  <2>3. /\ s \in ScopeType /\ f.ip \in 1 .. Len(s.ops) /\ Blocks(f) = s.blocks /\ Ops(f) = s.ops
        /\ f.current \in BlockNumbers(s) /\ f.loop \in BlockNumbers(s)
    BY <2>1, <2>2, FrameScope
  <2>4. f.open \subseteq DOMAIN s.blocks
    <3>1. OpenAt(s, f.ip) \subseteq DOMAIN s.blocks  BY DEF OpenAt, Ensured
    <3>2. \A b : EnsuredAround(s, b) \subseteq DOMAIN s.blocks  BY DEF EnsuredAround, Ensured
    <3>3. f.mode \in Modes  BY <2>2 DEF FrameType
    <3> QED BY <2>2, <3>1, <3>2, <3>3 DEF RunOK, HandleOK, MatchOK, Modes
  <2> QED BY <2>2, <2>3, <2>4 DEF FrameOK, FrameType, ExceptionType, BlockNumbers
<1>2. /\ flying.kind \in ExceptionKinds /\ errors \in 0 .. MaxErrors /\ landing.kind \in ExceptionKinds
  BY DEF IInv, TypeInv, ExceptionType
<1> QED BY <1>1, <1>2 DEF TypeOK

\* Handlers in effect.
LEMMA IInvHandlers == IInv => HandlerInEffect
<1> SUFFICES ASSUME IInv, NEW d \in 1 .. Depth, frames[d].mode = "run",
                    OpAt(d).name \in {"work", "call", "yield"}
             PROVE  BeginsAround(program[frames[d].code], frames[d].current)
                      = BeginsAround(program[frames[d].code], OpAt(d).in)
  BY DEF HandlerInEffect
<1>1. PICK s : s = program[frames[d].code]  OBVIOUS
<1>2. d = Depth => Top.mode = "run" /\ OpAt(d).name \in RaisingNames
  BY DEF Top, RaisingNames
<1>3. /\ s \in ScopeType /\ BlocksNested(s) /\ Near(s, frames[d].current, OpAt(d).in)
      /\ frames[d].current \in BlockNumbers(s)
  BY <1>1, <1>2, OpAtPlaced DEF ScopeVerified
<1>4. BeginsAround(s, frames[d].current) = BeginsAround(s, OpAt(d).in)
  BY <1>3, LoopNear
<1> QED BY <1>1, <1>4

\* A frame that ends has nothing open, and what it was handling is not lost.
LEMMA IInvLeaving ==
  ASSUME IInv, Depth > 0
  PROVE  /\ Leaving => Top.open = {}
         /\ Runs("return") => Top.exception = NoException
         /\ flying # NoException /\ Top.exception # NoException => flying = Top.exception
<1>1. PICK s : s = program[Top.code]  OBVIOUS
<1>2. PICK f : f = Top  OBVIOUS
<1>3. /\ f \in FrameType /\ FrameInv(program, f) /\ FrameOK(program, f) /\ program \in Programs
      /\ f = frames[Len(frames)] /\ Len(frames) > 0
  BY <1>2, TopInv DEF IInv, TypeInv
<1>4. RunOK(s, f) /\ HandleOK(s, f) /\ s \in ScopeType /\ ScopeVerified(s)
  BY <1>1, <1>2, <1>3, FrameScope DEF FrameInv
<1>5. EnsuredAround(s, 0) = {}  BY <1>4 DEF ScopeVerified, BlocksNested, EnsuredAround
<1>6. flying # NoException /\ f.exception # NoException => flying = f.exception /\ f.open = {}
  <2> SUFFICES ASSUME flying # NoException, f.exception # NoException
               PROVE  flying = f.exception /\ f.open = {}
    OBVIOUS
  <2>1. f.exception = flying /\ f.mode = "handle" /\ f.current = 0
    BY <1>3 DEF IInv, FlyingInv, FliesOver, Threw
  <2> QED BY <1>4, <1>5, <2>1 DEF HandleOK
<1>7. Runs("return") => f.open = {} /\ f.exception = NoException
  <2> SUFFICES ASSUME Runs("return") PROVE f.open = {} /\ f.exception = NoException  OBVIOUS
  <2>1. f.mode = "run" /\ Name(s, f.ip) = "return" /\ f.ip \in DOMAIN s.ops /\ flying = NoException
    BY <1>1, <1>2, RunsOp
  <2>2. OpenAt(s, f.ip) = {} /\ ~MayPend(s, f.ip)
    BY <1>4, <2>1 DEF ScopeVerified, OpsPlaced, Name
  <2> QED BY <1>4, <2>1, <2>2 DEF RunOK
<1>8. f.mode = "handle" /\ f.current = 0 => f.open = {}
  BY <1>4, <1>5 DEF HandleOK
<1>9. Leaving => \/ flying # NoException /\ f.exception # NoException
                 \/ Runs("return")
                 \/ f.mode = "handle" /\ f.current = 0
  BY <1>2 DEF Leaving, Handling
<1> QED BY <1>2, <1>6, <1>7, <1>8, <1>9

-----------------------------------------------------------------------------
(* The theorems.                                                           *)

\* The variables keep their types: frames, handlers and addresses are those of the
\* program, whatever evaluate_block and handle_exception do.
THEOREM TypeCorrect == Spec => []TypeOK
<1> QED BY IInvHolds, IInvTypes, PTL

\* Wherever code may raise, current_exception_block is the begin the source has the code
\* under, in every frame and after any number of exceptions, clauses and ensure groups.
THEOREM HandlersInEffect == Spec => []HandlerInEffect
<1> QED BY IInvHolds, IInvHandlers, PTL

\* No frame is left, by a return, a jump or an exception, before each begin it entered
\* has run its ensure group.
THEOREM EnsuresRun == Spec => []EnsureRuns
<1>1. IInv => EnsureRuns  BY IInvLeaving DEF EnsureRuns
<1> QED BY <1>1, IInvHolds, PTL

\* An exception that is pending while an ensure group runs is thrown on when it has, and
\* no frame returns with one pending.
THEOREM NothingIsForgotten == Spec => []NothingForgotten
<1>1. IInv => NothingForgotten  BY IInvLeaving DEF NothingForgotten, Runs
<1> QED BY <1>1, IInvHolds, PTL

-----------------------------------------------------------------------------
(***************************************************************************)
(* Exceptions end where the source says (LandsRight).                      *)
(*                                                                         *)
(* goal is computed once, when an exception is raised, from the whole      *)
(* stack; where it ends is found by the machine frame by frame and block   *)
(* by block.  The inductive invariant LInv ties the two: of the exception  *)
(* that flies or is handled it says that its goal is what the blocks still *)
(* to be tried, then the frames below, would make of it (Pends, Flies,     *)
(* ClausePends).  For an error that is the first clause found by a search  *)
(* from there (RescuedFrom); for a jump within the scope its loop, with    *)
(* nothing in between that rescues jumps (StayPends); for a jump out of a  *)
(* closure the innermost frame of its target, with the scope it passes on  *)
(* the way to that frame (OnWay) and nothing that takes it (Guarded).      *)
(* StackInv says which op made each frame, which is how a jump is followed *)
(* from a closure to the frame that yields to it, to the one that passed   *)
(* it on.                                                                  *)
(***************************************************************************)

\* The scopes closures are in.
Owner(p) == CHOOSE owner \in [DOMAIN p -> 0 .. Len(p)] : ExitsPlaced(p, owner)

\* The op a frame is past.
PastOp(p, f) == p[f.code].ops[f.ip - 1]
CodeOf(p, fs, d) == p[fs[d].code]
InOf(p, fs, d) == PastOp(p, fs[d]).in

\* The blocks around code in b with a clause for the class, and the first such clause.
Rescuers(s, b, class) == {a \in Around(s, b) : Taking(s.blocks[a], class) # {}}
FirstClause(s, b, class) ==
  LET block == s.blocks[Max(Rescuers(s, b, class))]
  IN block.handlers[Min(Taking(block, class))].rescue

\* Where an error ends that flies over frame d, and one in frame d that the blocks
\* around b may take.
RescuingFrames(p, fs, d, class) ==
  {e \in 1 .. d : Rescuers(CodeOf(p, fs, e), InOf(p, fs, e), class) # {}}
Rescued(p, fs, d, class) ==
  LET rescuing == RescuingFrames(p, fs, d, class)
      e == Max(rescuing)
  IN IF rescuing = {} THEN <<0, 0>>
     ELSE <<e, FirstClause(CodeOf(p, fs, e), InOf(p, fs, e), class)>>
RescuedFrom(p, fs, d, b, class) ==
  IF Rescuers(CodeOf(p, fs, d), b, class) # {}
  THEN <<d, FirstClause(CodeOf(p, fs, d), b, class)>>
  ELSE Rescued(p, fs, d - 1, class)

\* The innermost of the frames 1 .. d that runs the code t.
RunningFrames(fs, d, t) == {e \in 1 .. d : fs[e].code = t}
Running(fs, d, t) ==
  IF RunningFrames(fs, d, t) = {} THEN 0 ELSE Max(RunningFrames(fs, d, t))

\* Jumps that end in the frame they are thrown in, and those that leave it.
Stays(e) == e.kind \in {"next", "redo"} \/ (e.kind = "break" /\ e.target = 0)
Exits(e) == e.kind = "return" \/ (e.kind = "break" /\ e.target # 0)

\* A jump leads on from f to where a closure was called or made, or ends there.
LeadsOn(p, c, e) == Leads(p, Owner(p), e.kind, c, e.target)
OnWay(p, f, e) ==
  f.code = e.target \/ LeadsOn(p, f.code, e) \/ (f.block # 0 /\ LeadsOn(p, f.block, e))

ExitGoal(fs, d, e) ==
  LET home == Running(fs, d, e.target)
  IN /\ e.kind = "break" => home # 0
     /\ e.goal = <<home, IF e.kind = "break" THEN fs[home].ip ELSE 0>>

BreakIn(f, e) == e.kind = "break" /\ e.target # 0 /\ f.code = e.target

\* e, which the blocks around b in frame d may take, and then the frames below, ends
\* where it should.
ErrorPends(p, fs, d, b, e) ==
  /\ e.kind = "error" /\ e.class \in {"standard", "fatal"}
  /\ e.goal = RescuedFrom(p, fs, d, b, e.class)

StayPends(s, d, b, e) ==
  /\ Stays(e) /\ e.class = "jump" /\ e.goal[1] = d
  /\ \E home \in BlockNumbers(s) : HomeJump(s, b, home, e.kind, e.pos, e.goal[2])

ExitPends(p, fs, d, b, e) ==
  /\ Exits(e) /\ e.class = "jump" /\ ExitGoal(fs, d, e) /\ OnWay(p, fs[d], e)
  /\ ~BreakIn(fs[d], e) /\ ~Guarded(CodeOf(p, fs, d), b, e.kind)

Pends(p, fs, d, b, e) ==
  \/ ErrorPends(p, fs, d, b, e)
  \/ StayPends(CodeOf(p, fs, d), d, b, e)
  \/ ExitPends(p, fs, d, b, e)

\* e is thrown over frame d, which handles nothing.
Flies(p, fs, d, e) ==
  \/ /\ Pends(p, fs, d, InOf(p, fs, d), e)
     /\ Stays(e) => ~IsLoop(CodeOf(p, fs, d), InOf(p, fs, d))
  \/ BreakIn(fs[d], e) /\ e.goal = <<d, fs[d].ip>>

\* The clauses left of the block that is tried.
LeftClauses(s, f, class) == {k \in Taking(s.blocks[f.loop], class) : k >= f.handler}

\* What frame d handles may still be taken by the clauses left.
ClausePends(p, fs, d, e) ==
  LET f == fs[d]
      s == CodeOf(p, fs, d)
      left == LeftClauses(s, f, e.class)
  IN \/ /\ e.kind = "error" /\ e.class \in {"standard", "fatal"} /\ left # {}
        /\ e.goal = <<d, s.blocks[f.loop].handlers[Min(left)].rescue>>
     \/ left = {} /\ ErrorPends(p, fs, d, f.current, e)
     \/ StayPends(s, d, f.loop, e)
     \/ ExitPends(p, fs, d, f.loop, e)

AtClauses(s, f) == f.mode = "match" \/ (f.mode = "run" /\ TestsAt(s, f.ip) # {})
Handles(p, fs, d) ==
  IF AtClauses(CodeOf(p, fs, d), fs[d]) THEN ClausePends(p, fs, d, fs[d].exception)
  ELSE Pends(p, fs, d, fs[d].current, fs[d].exception)

\* The op each frame is past made the one above it.
Made(p, f, g) ==
  \/ PastOp(p, f).name = "call" /\ g.code = PastOp(p, f).to /\ g.block = PastOp(p, f).with
  \/ PastOp(p, f).name = "yield" /\ g.code = f.block /\ g.block = 0

StackInv ==
  /\ Len(frames) > 0 => frames[1].code = 1 /\ frames[1].block = 0
  /\ \A d \in 1 .. Len(frames) - 1 : Made(program, frames[d], frames[d + 1])

GoalInv ==
  Len(frames) > 0 =>
    LET d == Len(frames)
        f == frames[d]
    IN /\ flying # NoException /\ f.exception = NoException => Flies(program, frames, d, flying)
       /\ flying # NoException /\ f.exception # NoException =>
            Pends(program, frames, d, 0, flying) /\ ~EndsFrame(f)
       /\ flying = NoException /\ f.exception # NoException => Handles(program, frames, d)

LInv == StackInv /\ GoalInv /\ LandsRight
-----------------------------------------------------------------------------
(* Blocks and what they take.                                              *)

\* Verified programs know which scope each closure is in.
LEMMA OwnerPlaced ==
  ASSUME NEW p \in Programs
  PROVE  ExitsPlaced(p, Owner(p)) /\ \A c \in DOMAIN p : JumpsStay(p[c])
<1>1. /\ \E owner \in [DOMAIN p -> 0 .. Len(p)] : ExitsPlaced(p, owner)
      /\ \A c \in DOMAIN p : JumpsStay(p[c])
  BY JumpsAssumption DEF JumpsVerified
<1> QED BY <1>1 DEF Owner

\* The blocks around a block are blocks of the scope, and among them is it.
LEMMA AroundTyped ==
  ASSUME NEW s \in ScopeType, BlocksNested(s), NEW b \in BlockNumbers(s)
  PROVE  /\ Around(s, b) \subseteq DOMAIN s.blocks
         /\ Around(s, b) \in SUBSET (0 .. Len(s.blocks)) /\ Len(s.blocks) \in Nat
         /\ b # 0 => /\ b \in DOMAIN s.blocks /\ b \in Nat /\ b \in Around(s, b)
                     /\ Around(s, b) = Around(s, Parent(s, b)) \cup {b}
                     /\ Around(s, b) \subseteq 1 .. b
                     /\ Parent(s, b) \in BlockNumbers(s)
         /\ b = 0 => Around(s, b) = {}
<1>1. DOMAIN s.blocks = 1 .. Len(s.blocks) /\ Len(s.blocks) \in Nat
      /\ BlockNumbers(s) = DOMAIN s.blocks \cup {0}
  BY ScopeTyped
<1>2. CASE b = 0  BY <1>1, <1>2 DEF BlocksNested
<1>3. CASE b \in DOMAIN s.blocks
  <2>1. /\ Around(s, b) = Around(s, Parent(s, b)) \cup {b} /\ Around(s, b) \subseteq 1 .. b
        /\ Parent(s, b) \in 0 .. b - 1
    BY <1>3 DEF BlocksNested
  <2>2. Parent(s, b) \in BlockNumbers(s)  BY <1>1, <1>3, <2>1 DEF BlockNumbers
  <2>3. b # 0 /\ b \in Nat  BY <1>1, <1>3
  <2> QED BY <1>1, <1>3, <2>1, <2>2, <2>3
<1> QED BY <1>1, <1>2, <1>3

\* A loop has no clauses and no ensure group.
LEMMA LoopEmpty ==
  ASSUME NEW s \in ScopeType, BlocksNested(s), NEW b \in DOMAIN s.blocks, IsLoop(s, b)
  PROVE  s.blocks[b].handlers = <<>> /\ ~TakesJumps(s, b) /\ \A class : Taking(s.blocks[b], class) = {}
BY DEF BlocksNested, TakesJumps, Taking

\* Whether the block itself takes an error of the class, or one around it may.
LEMMA RescuersStep ==
  ASSUME NEW s \in ScopeType, BlocksNested(s), NEW b \in DOMAIN s.blocks, NEW class
  PROVE  /\ Taking(s.blocks[b], class) # {} =>
              Rescuers(s, b, class) # {} /\ Max(Rescuers(s, b, class)) = b
         /\ Taking(s.blocks[b], class) = {} =>
              Rescuers(s, b, class) = Rescuers(s, Parent(s, b), class)
<1>1. b \in BlockNumbers(s)  BY ScopeTyped
<1>2. /\ b \in Nat /\ b \in Around(s, b) /\ Around(s, b) \subseteq 1 .. b
      /\ Around(s, b) = Around(s, Parent(s, b)) \cup {b}
  BY <1>1, AroundTyped, ScopeTyped
<1>3. PICK T : T = Rescuers(s, b, class)  OBVIOUS
<1>4. T \in SUBSET (0 .. b)  BY <1>2, <1>3 DEF Rescuers
<1>5. ASSUME Taking(s.blocks[b], class) # {}
      PROVE  T # {} /\ Max(T) = b
  <2>1. b \in T  BY <1>2, <1>3, <1>5 DEF Rescuers
  <2>2. Max(T) \in T /\ \A x \in T : x <= Max(T)  BY <1>2, <1>4, <2>1, GreatestOf
  <2>3. Max(T) \in 0 .. b /\ b <= Max(T)  BY <1>4, <2>1, <2>2
  <2> QED BY <1>2, <2>1, <2>3
<1>6. Taking(s.blocks[b], class) = {} => T = Rescuers(s, Parent(s, b), class)
  BY <1>2, <1>3 DEF Rescuers
<1> QED BY <1>3, <1>5, <1>6

\* Loops take no errors, and no block does where there is none.
LEMMA RescuersNear ==
  ASSUME NEW s \in ScopeType, BlocksNested(s), NEW c \in BlockNumbers(s), NEW u, Near(s, c, u),
         NEW class
  PROVE  Rescuers(s, c, class) = Rescuers(s, u, class)
<1>1. CASE c = u  BY <1>1
<1>2. CASE u \in DOMAIN s.blocks /\ IsLoop(s, u) /\ c = Parent(s, u)
  <2>1. Taking(s.blocks[u], class) = {}  BY <1>2, LoopEmpty
  <2> QED BY <1>2, <2>1, RescuersStep
<1> QED BY <1>1, <1>2 DEF Near

\* No block around is none that rescues.
LEMMA RescuersNone ==
  ASSUME NEW s \in ScopeType, BlocksNested(s), NEW class
  PROVE  Rescuers(s, 0, class) = {}
BY DEF BlocksNested, Rescuers

\* What guards the block around a block, or a loop's, guards it.
LEMMA GuardedStep ==
  ASSUME NEW s \in ScopeType, BlocksNested(s), NEW b \in DOMAIN s.blocks, NEW kind,
         Guarded(s, Parent(s, b), kind)
  PROVE  Guarded(s, b, kind)
<1>1. b \in BlockNumbers(s)  BY ScopeTyped
<1>2. b # 0  BY ScopeTyped
<1>3. Around(s, Parent(s, b)) \subseteq Around(s, b)  BY <1>1, <1>2, AroundTyped
<1> QED BY <1>3 DEF Guarded

\* What guards the handler in effect guards the block the code is under.
LEMMA GuardedNear ==
  ASSUME NEW s \in ScopeType, BlocksNested(s), NEW c \in BlockNumbers(s), NEW u, Near(s, c, u),
         NEW kind, Guarded(s, c, kind)
  PROVE  Guarded(s, u, kind)
BY GuardedStep DEF Near

\* A jump goes on from a begin that does not take it to the blocks around.
LEMMA HomeStep ==
  ASSUME NEW s \in ScopeType, BlocksNested(s), NEW b \in DOMAIN s.blocks, ~IsLoop(s, b),
         NEW home \in BlockNumbers(s), NEW kind, NEW to, NEW goal,
         HomeJump(s, b, home, kind, to, goal)
  PROVE  HomeJump(s, Parent(s, b), home, kind, to, goal)
<1>1. b \in BlockNumbers(s) /\ b # 0  BY ScopeTyped
<1>2. Around(s, b) = Around(s, Parent(s, b)) \cup {b}  BY <1>1, AroundTyped
<1>3. {a \in Around(s, b) : IsLoop(s, a)} = {a \in Around(s, Parent(s, b)) : IsLoop(s, a)}
  BY <1>2
<1>4. IsHome(s, Parent(s, b), home)  BY <1>3 DEF HomeJump, IsHome
<1> QED BY <1>2, <1>4 DEF HomeJump

\* The home of a jump is not further in than where it is thrown, and a clause there
\* does not take it.
LEMMA HomeOutside ==
  ASSUME NEW s \in ScopeType, BlocksNested(s), NEW b \in DOMAIN s.blocks,
         NEW home \in BlockNumbers(s), NEW kind, NEW to, NEW goal,
         HomeJump(s, b, home, kind, to, goal)
  PROVE  /\ IsLoop(s, b) => home = b
         /\ ~TakesJumps(s, b)
<1>1. b \in BlockNumbers(s) /\ b # 0  BY ScopeTyped
<1>2. b \in Nat /\ b \in Around(s, b) /\ Around(s, b) \subseteq 1 .. b  BY <1>1, AroundTyped
<1>3. /\ home \in {a \in Around(s, b) : IsLoop(s, a)} \cup {0}
      /\ \A a \in {a \in Around(s, b) : IsLoop(s, a)} : a <= home
  BY DEF HomeJump, IsHome
<1>4. IsLoop(s, b) => home = b
  <2> SUFFICES ASSUME IsLoop(s, b) PROVE home = b  OBVIOUS
  <2>1. b \in {a \in Around(s, b) : IsLoop(s, a)}  BY <1>2
  <2>2. PICK m : m = home  OBVIOUS
  <2>3. b <= m  BY <1>3, <2>1, <2>2
  <2>4. m \in 0 .. b
    <3>1. 0 \in 0 .. b /\ 1 .. b \subseteq 0 .. b  BY <1>2
    <3> QED BY <1>2, <1>3, <2>2, <3>1
  <2>5. m = b  BY <1>2, <2>3, <2>4
  <2> QED BY <2>2, <2>5
<1>5. CASE home < b  BY <1>2, <1>4, <1>5 DEF HomeJump
<1>6. CASE ~(home < b)
  <2>1. home = b  BY <1>2, <1>3, <1>6
  <2>2. IsLoop(s, b)  BY <1>1, <1>3, <2>1
  <2> QED BY <1>4, <2>2, LoopEmpty
<1> QED BY <1>4, <1>5, <1>6

\* Where no block is around, a jump has no home.
LEMMA HomeNone ==
  ASSUME NEW s \in ScopeType, BlocksNested(s), NEW home, NEW kind, NEW to, NEW goal,
         HomeJump(s, 0, home, kind, to, goal)
  PROVE  home = 0
BY DEF BlocksNested, HomeJump, IsHome

-----------------------------------------------------------------------------
(* Frames below one another.                                               *)

\* Where an error ends depends on the last frame and those below.
LEMMA RescuedLast ==
  ASSUME NEW p, NEW fs, NEW d \in Nat \ {0}, NEW class
  PROVE  Rescued(p, fs, d, class) = RescuedFrom(p, fs, d, InOf(p, fs, d), class)
<1>1. PICK T : T = RescuingFrames(p, fs, d, class)  OBVIOUS
<1>2. PICK U : U = RescuingFrames(p, fs, d - 1, class)  OBVIOUS
<1>3. T \in SUBSET (0 .. d)  BY <1>1 DEF RescuingFrames
<1>4. PICK R : R = Rescuers(CodeOf(p, fs, d), InOf(p, fs, d), class)  OBVIOUS
<1>5. CASE R # {}
  <2>1. d \in T  BY <1>1, <1>4, <1>5 DEF RescuingFrames
  <2>2. Max(T) \in T /\ \A x \in T : x <= Max(T)  BY <1>3, <2>1, GreatestOf
  <2>3. Max(T) \in 0 .. d /\ d <= Max(T)  BY <1>3, <2>1, <2>2
  <2>4. Max(T) = d /\ T # {}  BY <2>1, <2>3
  <2> QED BY <1>1, <1>4, <1>5, <2>4 DEF Rescued, RescuedFrom
<1>6. CASE R = {}
  <2>1. T = U
    <3>1. d \notin T  BY <1>1, <1>4, <1>6 DEF RescuingFrames
    <3>2. \A e : e \in 1 .. d - 1 <=> e \in 1 .. d /\ e # d  OBVIOUS
    <3>3. \A e : e \in U <=> e \in T /\ e # d  BY <1>1, <1>2, <3>2 DEF RescuingFrames
    <3> QED BY <3>1, <3>3
  <2> QED BY <1>1, <1>2, <1>4, <1>6, <2>1 DEF Rescued, RescuedFrom
<1> QED BY <1>5, <1>6

\* Below the script there is nothing.
LEMMA RescuedNone ==
  ASSUME NEW p, NEW fs, NEW class
  PROVE  Rescued(p, fs, 0, class) = <<0, 0>>
BY DEF Rescued, RescuingFrames

\* And on nothing else.
LEMMA RescuedSame ==
  ASSUME NEW p, NEW fs, NEW gs, NEW d \in Nat, \A i \in 1 .. d : gs[i] = fs[i], NEW class
  PROVE  Rescued(p, gs, d, class) = Rescued(p, fs, d, class)
<1>1. \A i \in 1 .. d : CodeOf(p, gs, i) = CodeOf(p, fs, i) /\ InOf(p, gs, i) = InOf(p, fs, i)
  BY DEF CodeOf, InOf
<1>2. RescuingFrames(p, gs, d, class) = RescuingFrames(p, fs, d, class)
  BY <1>1 DEF RescuingFrames
<1>3. PICK T : T = RescuingFrames(p, fs, d, class)  OBVIOUS
<1>4. T \in SUBSET (0 .. d) /\ T \subseteq 1 .. d  BY <1>3 DEF RescuingFrames
<1>5. T # {} => Max(T) \in 1 .. d  BY <1>4, GreatestOf
<1> QED BY <1>1, <1>2, <1>3, <1>5 DEF Rescued

\* The innermost frame that runs a scope.
LEMMA RunningLast ==
  ASSUME NEW fs, NEW d \in Nat \ {0}, NEW t
  PROVE  /\ fs[d].code = t => Running(fs, d, t) = d
         /\ fs[d].code # t => Running(fs, d, t) = Running(fs, d - 1, t)
<1>1. PICK T : T = RunningFrames(fs, d, t)  OBVIOUS
<1>2. T \in SUBSET (0 .. d)  BY <1>1 DEF RunningFrames
<1>3. ASSUME fs[d].code = t PROVE Running(fs, d, t) = d
  <2>1. d \in T  BY <1>1, <1>3 DEF RunningFrames
  <2>2. Max(T) \in T /\ \A x \in T : x <= Max(T)  BY <1>2, <2>1, GreatestOf
  <2>3. Max(T) \in 0 .. d /\ d <= Max(T)  BY <1>2, <2>1, <2>2
  <2>4. Max(T) = d /\ T # {}  BY <2>1, <2>3
  <2> QED BY <1>1, <2>4 DEF Running
<1>4. ASSUME fs[d].code # t PROVE Running(fs, d, t) = Running(fs, d - 1, t)
  <2>1. \A e : e \in 1 .. d - 1 <=> e \in 1 .. d /\ e # d  OBVIOUS
  <2>2. RunningFrames(fs, d, t) = RunningFrames(fs, d - 1, t)
    BY <1>4, <2>1 DEF RunningFrames
  <2> QED BY <2>2 DEF Running
<1> QED BY <1>3, <1>4

\* It depends on the scopes the frames run, and on nothing else.
LEMMA RunningSame ==
  ASSUME NEW fs, NEW gs, NEW d \in Nat, \A i \in 1 .. d : gs[i].code = fs[i].code, NEW t
  PROVE  /\ Running(gs, d, t) = Running(fs, d, t) /\ Running(fs, d, t) \in 0 .. d
         /\ Running(fs, d, t) # 0 => fs[Running(fs, d, t)].code = t
<1>1. RunningFrames(gs, d, t) = RunningFrames(fs, d, t)  BY DEF RunningFrames
<1>2. PICK T : T = RunningFrames(fs, d, t)  OBVIOUS
<1>3. T \in SUBSET (0 .. d) /\ \A e \in T : fs[e].code = t  BY <1>2 DEF RunningFrames
<1>4. T # {} => Max(T) \in T  BY <1>3, GreatestOf
<1> QED BY <1>1, <1>2, <1>3, <1>4 DEF Running

\* A pending exception does not mind what its frame does meanwhile.
LEMMA PendsSame ==
  ASSUME NEW p, NEW fs, NEW gs, NEW d \in Nat \ {0}, \A i \in 1 .. d - 1 : gs[i] = fs[i],
         gs[d].code = fs[d].code, gs[d].block = fs[d].block, NEW b, NEW e
  PROVE  /\ ErrorPends(p, fs, d, b, e) => ErrorPends(p, gs, d, b, e)
         /\ ExitPends(p, fs, d, b, e) => ExitPends(p, gs, d, b, e)
         /\ Pends(p, fs, d, b, e) => Pends(p, gs, d, b, e)
<1>1. CodeOf(p, gs, d) = CodeOf(p, fs, d)  BY DEF CodeOf
<1>2. d - 1 \in Nat  OBVIOUS
<1>3. \A class : Rescued(p, gs, d - 1, class) = Rescued(p, fs, d - 1, class)
  BY <1>2, RescuedSame
<1>4. ErrorPends(p, fs, d, b, e) => ErrorPends(p, gs, d, b, e)
  BY <1>1, <1>3 DEF ErrorPends, RescuedFrom
<1>5. ASSUME ExitPends(p, fs, d, b, e) PROVE ExitPends(p, gs, d, b, e)
  <2>1. PICK home : home = Running(fs, d, e.target)  OBVIOUS
  <2>2. \A i \in 1 .. d : gs[i].code = fs[i].code
    <3>1. \A i \in 1 .. d : i = d \/ i \in 1 .. d - 1  OBVIOUS
    <3> QED BY <3>1
  <2>3. /\ Running(gs, d, e.target) = home /\ home \in 0 .. d
        /\ home # 0 => fs[home].code = e.target
    <3>1. PICK t : t = e.target  OBVIOUS
    <3>2. /\ Running(gs, d, t) = Running(fs, d, t) /\ Running(fs, d, t) \in 0 .. d
          /\ Running(fs, d, t) # 0 => fs[Running(fs, d, t)].code = t
      BY <2>2, RunningSame
    <3> QED BY <2>1, <3>1, <3>2
  <2>4. e.kind = "break" => gs[home].ip = fs[home].ip
    <3> SUFFICES ASSUME e.kind = "break" PROVE gs[home].ip = fs[home].ip  OBVIOUS
    <3>1. home # 0 /\ e.target # 0 /\ fs[d].code # e.target
      BY <1>5, <2>1 DEF ExitPends, ExitGoal, Exits, BreakIn
    <3>2. home \in 1 .. d - 1  BY <2>3, <3>1
    <3> QED BY <3>2
  <2>5. ExitGoal(gs, d, e)  BY <1>5, <2>1, <2>3, <2>4 DEF ExitPends, ExitGoal
  <2>6. OnWay(p, gs[d], e) /\ ~BreakIn(gs[d], e)  BY <1>5 DEF ExitPends, OnWay, BreakIn
  <2> QED BY <1>1, <1>5, <2>5, <2>6 DEF ExitPends
<1> QED BY <1>1, <1>4, <1>5 DEF Pends

\* No block around b takes it that is not also around u: a frame that caught an
\* exception where it is under c.
LEMMA PendsNear ==
  ASSUME NEW p, NEW fs, NEW d, NEW s \in ScopeType, s = CodeOf(p, fs, d), BlocksNested(s),
         NEW c \in BlockNumbers(s), NEW u, Near(s, c, u), NEW e,
         Pends(p, fs, d, u, e), Stays(e) => ~IsLoop(s, u)
  PROVE  Pends(p, fs, d, c, e)
<1>1. CASE ErrorPends(p, fs, d, u, e)
  <2>1. Rescuers(s, c, e.class) = Rescuers(s, u, e.class)  BY RescuersNear
  <2> QED BY <1>1, <2>1 DEF ErrorPends, RescuedFrom, FirstClause, Pends
<1>2. CASE StayPends(s, d, u, e)
  <2>1. c = u  BY <1>2 DEF StayPends, Near
  <2> QED BY <1>2, <2>1 DEF Pends
<1>3. CASE ExitPends(p, fs, d, u, e)
  <2>1. ~Guarded(s, c, e.kind)  BY <1>3, GuardedNear DEF ExitPends
  <2> QED BY <1>3, <2>1 DEF ExitPends, Pends
<1> QED BY <1>1, <1>2, <1>3 DEF Pends

\* The block b does not take it, nor does an error have a clause there: those around may.
LEMMA PendsPast ==
  ASSUME NEW p, NEW fs, NEW d, NEW s \in ScopeType, s = CodeOf(p, fs, d), BlocksNested(s),
         NEW b \in DOMAIN s.blocks, NEW e
  PROVE  /\ ErrorPends(p, fs, d, b, e) /\ Taking(s.blocks[b], e.class) = {} =>
              ErrorPends(p, fs, d, Parent(s, b), e)
         /\ StayPends(s, d, b, e) /\ ~IsLoop(s, b) => StayPends(s, d, Parent(s, b), e)
         /\ ExitPends(p, fs, d, b, e) => ExitPends(p, fs, d, Parent(s, b), e)
<1>1. ASSUME ErrorPends(p, fs, d, b, e), Taking(s.blocks[b], e.class) = {}
      PROVE  ErrorPends(p, fs, d, Parent(s, b), e)
  <2>1. Rescuers(s, b, e.class) = Rescuers(s, Parent(s, b), e.class)  BY <1>1, RescuersStep
  <2> QED BY <1>1, <2>1 DEF ErrorPends, RescuedFrom, FirstClause
<1>2. StayPends(s, d, b, e) /\ ~IsLoop(s, b) => StayPends(s, d, Parent(s, b), e)
  BY HomeStep DEF StayPends
<1>3. ExitPends(p, fs, d, b, e) => ExitPends(p, fs, d, Parent(s, b), e)
  BY GuardedStep DEF ExitPends
<1> QED BY <1>1, <1>2, <1>3

\* A frame past an op that throws: the op stands under a block near the handler in effect.
LEMMA PastPlaced ==
  ASSUME program \in Programs, NEW f \in FrameType, FrameInv(program, f),
         Threw(program, f, RaisingNames), NEW s, s = program[f.code]
  PROVE  /\ s \in ScopeType /\ BlocksNested(s) /\ f.current \in BlockNumbers(s)
         /\ PastOp(program, f).in \in BlockNumbers(s)
         /\ Near(s, f.current, PastOp(program, f).in)
         /\ \E i \in DOMAIN s.ops : i = f.ip - 1 /\ PastOp(program, f) = s.ops[i]
<1>1. FrameOK(program, f) /\ RunOK(s, f)  BY DEF FrameInv
<1>2. /\ s \in ScopeType /\ ScopeVerified(s) /\ f.ip \in 1 .. Len(s.ops)
      /\ Len(s.ops) \in Nat /\ DOMAIN s.ops = 1 .. Len(s.ops) /\ f.current \in BlockNumbers(s)
  BY <1>1, FrameScope, ScopeTyped
<1>3. PICK i \in DOMAIN s.ops : i = f.ip - 1 /\ i + 1 = f.ip /\ Name(s, i) \in RaisingNames
  <2>1. f.ip - 1 \in DOMAIN s.ops /\ (f.ip - 1) + 1 = f.ip  BY <1>2 DEF Threw
  <2> QED BY <2>1 DEF Threw
<1>4. PastOp(program, f) = s.ops[i]  BY <1>3 DEF PastOp
<1>5. Under(s, i) = s.ops[i].in /\ s.ops[i].in \in BlockNumbers(s)
  BY <1>2, <1>3 DEF ScopeVerified, OpsPlaced, Name
<1>6. Under(s, i + 1) = Under(s, i)
  <2>1. i + 1 \in After(s, i) /\ Name(s, i) # "handler"  BY <1>3 DEF After, RaisingNames, LocalJumps
  <2> QED BY <1>2, <2>1, <1>3 DEF ScopeVerified, FlowKept, Reaches, Name
<1>7. Near(s, f.current, Under(s, f.ip))  BY <1>1 DEF RunOK, Threw
<1> QED BY <1>2, <1>3, <1>4, <1>5, <1>6, <1>7 DEF ScopeVerified

\* The frames when the running one has changed.
LEMMA TopSet ==
  ASSUME IInv, Depth > 0, NEW g \in FrameType, NEW fs, fs = [frames EXCEPT ![Depth] = g]
  PROVE  /\ Depth \in Nat \ {0} /\ Depth = Len(frames) /\ Top = frames[Depth]
         /\ Len(fs) = Len(frames) /\ fs[Depth] = g
         /\ \A i \in 1 .. Depth - 1 : fs[i] = frames[i]
<1>1. /\ frames \in Seq(FrameType) /\ Len(frames) \in Nat /\ Depth = Len(frames)
      /\ Depth \in 1 .. Len(frames) /\ frames[Depth] = Top
  BY TopInv DEF IInv, TypeInv
<1> QED BY <1>1

\* The running frame goes on, and nothing is thrown.
LEMMA LKept ==
  ASSUME IInv, LInv, Depth > 0, NEW g \in FrameType, g.code = Top.code, g.block = Top.block,
         SetTop(g), NEW fs, fs = [frames EXCEPT ![Depth] = g], program' = program,
         g.exception # NoException /\ flying' = NoException => Handles(program, fs, Depth),
         g.exception = NoException /\ flying' # NoException => Flies(program, fs, Depth, flying'),
         g.exception = NoException \/ flying' = NoException,
         LandsRight'
  PROVE  LInv'
<1>1. /\ Depth \in Nat \ {0} /\ Depth = Len(frames) /\ Top = frames[Depth]
      /\ Len(fs) = Len(frames) /\ fs[Depth] = g
      /\ \A i \in 1 .. Depth - 1 : fs[i] = frames[i]
  BY TopSet
<1>2. frames' = fs  BY DEF SetTop
<1>3. StackInv'
  <2>1. fs[1].code = 1 /\ fs[1].block = 0
    <3>1. frames[1].code = 1 /\ frames[1].block = 0  BY <1>1 DEF LInv, StackInv
    <3>2. Depth = 1 \/ 1 \in 1 .. Depth - 1  BY <1>1
    <3> QED BY <1>1, <3>1, <3>2
  <2>2. ASSUME NEW i \in 1 .. Depth - 1 PROVE Made(program, fs[i], fs[i + 1])
    <3>1. Made(program, frames[i], frames[i + 1])  BY <1>1 DEF LInv, StackInv
    <3>2. i + 1 = Depth \/ i + 1 \in 1 .. Depth - 1  BY <1>1
    <3>3. fs[i + 1].code = frames[i + 1].code /\ fs[i + 1].block = frames[i + 1].block
      BY <1>1, <3>2
    <3> QED BY <1>1, <3>1, <3>3 DEF Made
  <2> QED BY <1>1, <1>2, <2>1, <2>2 DEF StackInv
<1>4. GoalInv'
  <2>1. Len(fs) = Depth /\ fs[Len(fs)] = g  BY <1>1
  <2> QED BY <1>2, <2>1 DEF GoalInv
<1> QED BY <1>3, <1>4 DEF LInv

\* A frame is left with nothing thrown over the one below.
LEMMA LPopped ==
  ASSUME IInv, LInv, Depth > 0, Pop, program' = program, flying' = NoException, LandsRight'
  PROVE  LInv'
<1>1. /\ Depth = Len(frames) /\ Len(frames) \in Nat /\ Depth \in 1 .. Len(frames)
  BY TopInv DEF IInv, TypeInv
<1>2. /\ frames' \in Seq(FrameType) /\ Len(frames') = Len(frames) - 1
      /\ \A d \in 1 .. Len(frames) - 1 : frames'[d] = frames[d]
  BY TopLeft
<1>3. StackInv'
  <2>1. Len(frames) - 1 > 0 => frames'[1].code = 1 /\ frames'[1].block = 0
    BY <1>1, <1>2 DEF LInv, StackInv
  <2>2. ASSUME NEW d \in 1 .. (Len(frames) - 1) - 1 PROVE Made(program, frames'[d], frames'[d + 1])
    <3>1. d \in 1 .. Len(frames) - 1 /\ d + 1 \in 1 .. Len(frames) - 1  BY <1>1
    <3> QED BY <1>2, <3>1 DEF LInv, StackInv
  <2> QED BY <1>2, <2>1, <2>2 DEF StackInv
<1>4. GoalInv'
  <2>1. Len(frames) - 1 > 0 => frames'[Len(frames) - 1].exception = NoException
    <3> SUFFICES ASSUME Len(frames) - 1 > 0
                 PROVE  frames'[Len(frames) - 1].exception = NoException
      OBVIOUS
    <3>1. Len(frames) - 1 \in 1 .. Len(frames) - 1  BY <1>1
    <3> QED BY <1>2, <3>1 DEF IInv, CallersInv, Threw
  <2> QED BY <1>2, <2>1 DEF GoalInv
<1> QED BY <1>3, <1>4 DEF LInv

\* What a frame handles stays where it is while the frame goes on.
LEMMA HandlesSame ==
  ASSUME NEW p, NEW fs, NEW gs, NEW d \in Nat \ {0}, \A i \in 1 .. d - 1 : gs[i] = fs[i],
         NEW f, f = fs[d], NEW g, g = gs[d], g.code = f.code, g.block = f.block,
         g.exception = f.exception, g.current = f.current, g.loop = f.loop, g.handler = f.handler,
         NEW s, s = p[f.code], AtClauses(s, g) <=> AtClauses(s, f), Handles(p, fs, d)
  PROVE  Handles(p, gs, d)
<1>1. PICK e : e = f.exception  OBVIOUS
<1>2. CodeOf(p, fs, d) = s /\ CodeOf(p, gs, d) = s  BY DEF CodeOf
<1>3. CASE AtClauses(s, f)
  <2>1. ClausePends(p, fs, d, e)  BY <1>1, <1>2, <1>3 DEF Handles
  <2>2. LeftClauses(s, g, e.class) = LeftClauses(s, f, e.class)  BY DEF LeftClauses
  <2>3. ErrorPends(p, fs, d, f.current, e) => ErrorPends(p, gs, d, f.current, e)  BY PendsSame
  <2>4. ExitPends(p, fs, d, f.loop, e) => ExitPends(p, gs, d, f.loop, e)  BY PendsSame
  <2>5. ClausePends(p, gs, d, e)  BY <1>2, <2>1, <2>2, <2>3, <2>4 DEF ClausePends
  <2> QED BY <1>1, <1>2, <1>3, <2>5 DEF Handles
<1>4. CASE ~AtClauses(s, f)
  <2>1. Pends(p, fs, d, f.current, e)  BY <1>1, <1>2, <1>4 DEF Handles
  <2>2. Pends(p, gs, d, f.current, e)  BY <2>1, PendsSame
  <2> QED BY <1>1, <1>2, <1>4, <2>2 DEF Handles
<1> QED BY <1>3, <1>4

-----------------------------------------------------------------------------
(* Every step keeps the invariant: ops.                                    *)

\* What the invariant says of the running frame and the exception.
LEMMA LTop ==
  ASSUME IInv, LInv, Depth > 0, NEW f, f = Top
  PROVE  /\ flying # NoException /\ f.exception = NoException => Flies(program, frames, Depth, flying)
         /\ flying # NoException /\ f.exception # NoException =>
              Pends(program, frames, Depth, 0, flying) /\ ~EndsFrame(f)
         /\ flying = NoException /\ f.exception # NoException => Handles(program, frames, Depth)
<1>1. Depth = Len(frames) /\ f = frames[Len(frames)] /\ Len(frames) > 0
  BY TopInv
<1> QED BY <1>1 DEF LInv, GoalInv

\* Ops that go on to the next or to another address.
LEMMA FlowLands ==
  ASSUME IInv, LInv, Plain \/ Branch \/ BranchUnless
  PROVE  LInv'
<1>1. PICK s : s = program[Top.code]  OBVIOUS
<1>2. PICK name \in {"step", "branch", "branch_unless"} :
        Runs(name) /\ \E j \in After(s, Top.ip) : SetTop(GoTo(Top, j))
  <2>1. CASE Plain
    <3>1. Runs("step") /\ SetTop(GoTo(Top, Top.ip + 1))  BY <2>1 DEF Plain, Step
    <3> QED BY <1>1, <3>1, RunsOp DEF After
  <2>2. CASE Branch
    <3>1. Runs("branch") /\ SetTop(GoTo(Top, CurrentOp.to))  BY <2>2 DEF Branch
    <3> QED BY <1>1, <3>1, RunsOp DEF After
  <2>3. CASE BranchUnless
    <3>1. /\ Runs("branch_unless")
          /\ SetTop(GoTo(Top, Top.ip + 1)) \/ SetTop(GoTo(Top, CurrentOp.to))
      BY <2>3 DEF BranchUnless, Step
    <3> QED BY <1>1, <3>1, RunsOp DEF After
  <2> QED BY <2>1, <2>2, <2>3
<1>3. PICK j \in After(s, Top.ip) : SetTop(GoTo(Top, j))  BY <1>2
<1>4. UNCHANGED <<program, flying, errors, landing>>  BY DEF Plain, Branch, BranchUnless
<1>5. PICK f : f = Top  OBVIOUS
<1>6. /\ Depth > 0 /\ flying = NoException /\ f.mode = "run" /\ Name(s, f.ip) = name
      /\ s \in ScopeType /\ ScopeVerified(s) /\ f.ip \in DOMAIN s.ops
  BY <1>1, <1>2, <1>5, RunsOp
<1>7. f \in FrameType /\ FrameInv(program, f) /\ program \in Programs  BY <1>5, <1>6, TopInv
<1>8. j \in DOMAIN s.ops /\ TestsAt(s, j) = TestsAt(s, f.ip)
  BY <1>3, <1>5, <1>6 DEF ScopeVerified, FlowKept, Reaches
<1>9. PICK g : g = GoTo(f, j)  OBVIOUS
<1>10. j \in Nat  BY <1>6, <1>8, AddressTyped
<1>11. /\ g \in FrameType /\ g.code = f.code /\ g.block = f.block /\ g.ip = j
       /\ g.mode = "run" /\ g.current = f.current /\ g.loop = f.loop /\ g.handler = f.handler
       /\ g.exception = f.exception
  BY <1>7, <1>9, <1>10, GoToFields
<1>12. AtClauses(s, g) <=> AtClauses(s, f)  BY <1>6, <1>8, <1>11 DEF AtClauses
<1>13. PICK fs : fs = [frames EXCEPT ![Depth] = g]  OBVIOUS
<1>14. PICK d : d = Depth  OBVIOUS
<1>15. /\ d \in Nat \ {0} /\ f = frames[d] /\ g = fs[d] /\ \A i \in 1 .. d - 1 : fs[i] = frames[i]
  BY <1>5, <1>6, <1>11, <1>13, <1>14, TopSet
<1>16. g.exception # NoException => Handles(program, fs, d)
  <2>1. f.exception # NoException => Handles(program, frames, d)  BY <1>5, <1>6, <1>14, LTop
  <2>2. s = program[f.code]  BY <1>1, <1>5
  <2> QED BY <1>11, <1>12, <1>15, <2>1, <2>2, HandlesSame
<1>17. SetTop(g) /\ LandsRight'  BY <1>3, <1>4, <1>5, <1>9 DEF LInv, LandsRight
<1> QED BY <1>4, <1>5, <1>6, <1>11, <1>13, <1>14, <1>16, <1>17, LKept

\* A frame that goes on without an exception to handle.
LEMMA LQuiet ==
  ASSUME IInv, LInv, Depth > 0, NEW g \in FrameType, g.code = Top.code, g.block = Top.block,
         g.exception = NoException, SetTop(g), program' = program, flying' = NoException,
         LandsRight'
  PROVE  LInv'
<1>1. PICK fs : fs = [frames EXCEPT ![Depth] = g]  OBVIOUS
<1> QED BY <1>1, LKept

\* An op that sets the handler.
LEMMA HandlerLands ==
  ASSUME IInv, LInv, Handler
  PROVE  LInv'
<1>1. PICK s : s = program[Top.code]  OBVIOUS
<1>2. PICK f : f = Top  OBVIOUS
<1>3. PICK b : b = CurrentOp.to  OBVIOUS
<1>4. PICK ensured : ensured = IF b # 0 /\ Block(f, b).ensure # 0 THEN {b} ELSE {}  OBVIOUS
<1>5. PICK h : h = [f EXCEPT !.current = b, !.open = @ \cup ensured]  OBVIOUS
<1>6. Runs("handler") /\ UNCHANGED <<program, flying, errors, landing>> /\ SetTop(Step(h))
  BY <1>2, <1>3, <1>4, <1>5 DEF Handler
<1>7. /\ Depth > 0 /\ flying = NoException /\ f.mode = "run" /\ Name(s, f.ip) = "handler"
      /\ b = s.ops[f.ip].to /\ s \in ScopeType /\ ScopeVerified(s) /\ f.ip \in DOMAIN s.ops
  BY <1>1, <1>2, <1>3, <1>6, RunsOp
<1>8. /\ f \in FrameType /\ FrameInv(program, f) /\ program \in Programs /\ RunOK(s, f)
  BY <1>1, <1>2, <1>7, TopInv DEF FrameInv
<1>9. b \in BlockNumbers(s) /\ b \in Nat /\ ~MayPend(s, f.ip)
  <2>1. b \in BlockNumbers(s) /\ ~MayPend(s, f.ip)  BY <1>7 DEF ScopeVerified, FlowKept, Name
  <2>2. Len(s.blocks) \in Nat  BY <1>7, ScopeTyped
  <2> QED BY <2>1, <2>2 DEF BlockNumbers
<1>10. f.exception = NoException  BY <1>7, <1>8, <1>9 DEF RunOK
<1>11. ensured \in SUBSET Nat  BY <1>4, <1>9
<1>12. /\ h \in FrameType /\ h.code = f.code /\ h.block = f.block /\ h.ip = f.ip
       /\ h.exception = f.exception
  BY <1>5, <1>8, <1>9, <1>11 DEF FrameType
<1>13. PICK i : i = h.ip + 1 /\ i \in Nat  BY <1>7, <1>12, AddressTyped
<1>14. PICK g : g = Step(h)  OBVIOUS
<1>15. /\ g \in FrameType /\ g.code = f.code /\ g.block = f.block /\ g.exception = NoException
  BY <1>10, <1>12, <1>13, <1>14, GoToFields DEF Step
<1>16. LandsRight'  BY <1>6 DEF LInv, LandsRight
<1> QED BY <1>2, <1>6, <1>7, <1>14, <1>15, <1>16, LQuiet

\* What a frame past an op that throws, or calls, is made of.
LEMMA ThrowsPast ==
  ASSUME IInv, NEW name \in RaisingNames, Runs(name), NEW f, f = Top, NEW g, g = Step(f),
         NEW op, op = CurrentOp, NEW s, s = program[f.code]
  PROVE  /\ g \in FrameType /\ g.code = f.code /\ g.block = f.block /\ g.ip = f.ip + 1
         /\ f.exception = NoException /\ g.exception = NoException /\ PastOp(program, g) = op
         /\ op = s.ops[f.ip] /\ op.name = name /\ f.ip \in DOMAIN s.ops /\ op \in OpType
         /\ Depth > 0 /\ flying = NoException /\ s \in ScopeType /\ ScopeVerified(s)
         /\ f \in FrameType /\ FrameInv(program, f) /\ program \in Programs
         /\ f.code \in DOMAIN program /\ FrameInv(program, g) /\ Threw(program, g, RaisingNames)
<1>1. /\ Depth > 0 /\ flying = NoException /\ f.mode = "run" /\ Name(s, f.ip) = name
      /\ op = s.ops[f.ip] /\ s \in ScopeType /\ ScopeVerified(s) /\ f.ip \in DOMAIN s.ops
      /\ op \in OpType
  BY RunsOp
<1>2. /\ f \in FrameType /\ FrameInv(program, f) /\ program \in Programs /\ FrameOK(program, f)
  BY <1>1, TopInv
<1>3. /\ g \in FrameType /\ FrameInv(program, g) /\ g.code = f.code /\ g.block = f.block
      /\ Threw(program, g, RaisingNames) /\ g.ip = f.ip + 1
  BY <1>1, <1>2, StepsPast
<1>4. f.exception = NoException
  <2>1. ~MayPend(s, f.ip)  BY <1>1 DEF ScopeVerified, OpsPlaced, Name
  <2> QED BY <1>1, <1>2, <2>1 DEF FrameInv, RunOK
<1>5. g.exception = NoException  BY <1>3 DEF Threw
<1>6. PastOp(program, g) = op
  <2>1. f.ip \in Nat  BY <1>1, AddressTyped
  <2>2. (f.ip + 1) - 1 = f.ip  BY <2>1
  <2> QED BY <1>1, <1>3, <2>2 DEF PastOp
<1> QED BY <1>1, <1>2, <1>3, <1>4, <1>5, <1>6 DEF Name, FrameOK

\* A call, and a yield.
LEMMA CallLands ==
  ASSUME IInv, LInv, Call
  PROVE  LInv'
<1>1. PICK name \in {"call", "yield"} : Runs(name)  BY DEF Call
<1>2. PICK f : f = Top  OBVIOUS
<1>3. PICK op : op = CurrentOp  OBVIOUS
<1>4. PICK g : g = Step(f)  OBVIOUS
<1>5. PICK s : s = program[f.code]  OBVIOUS
<1>6. name \in RaisingNames  BY DEF RaisingNames
<1>7. /\ g \in FrameType /\ g.code = f.code /\ g.block = f.block
      /\ g.exception = NoException /\ PastOp(program, g) = op /\ op.name = name
      /\ Depth > 0 /\ flying = NoException
  BY <1>1, <1>2, <1>3, <1>4, <1>5, <1>6, ThrowsPast
<1>8. PICK h : h = IF op.name = "call" THEN NewFrame(op.to, op.with) ELSE NewFrame(f.block, 0)
  OBVIOUS
<1>9. PICK low : low = [frames EXCEPT ![Depth] = g]  OBVIOUS
<1>10. frames' = Append(low, h) /\ UNCHANGED <<program, flying, errors, landing>>
  BY <1>2, <1>3, <1>4, <1>8, <1>9 DEF Call
<1>11. /\ Depth \in Nat \ {0} /\ Depth = Len(frames) /\ Top = frames[Depth]
       /\ Len(low) = Len(frames) /\ low[Depth] = g
       /\ \A i \in 1 .. Depth - 1 : low[i] = frames[i]
  BY <1>7, <1>9, TopSet
<1>12. PICK d : d = Depth  OBVIOUS
<1>13. /\ d \in Nat \ {0} /\ Len(frames') = d + 1 /\ frames'[d + 1] = h /\ frames'[d] = g
       /\ \A i \in 1 .. d - 1 : frames'[i] = frames[i]
  <2>1. frames \in Seq(FrameType)  BY DEF IInv, TypeInv
  <2>2. low \in Seq(FrameType)  BY <1>7, <1>9, <1>11, <2>1
  <2> QED BY <1>10, <1>11, <1>12, <2>2
<1>14. h.exception = NoException  BY <1>8 DEF NewFrame
<1>15. Made(program, g, h)  BY <1>1, <1>7, <1>8 DEF Made, NewFrame
<1>16. StackInv'
  <2>1. frames'[1].code = 1 /\ frames'[1].block = 0
    <3>1. frames[1].code = 1 /\ frames[1].block = 0  BY <1>11 DEF LInv, StackInv
    <3>2. d = 1 \/ 1 \in 1 .. d - 1  BY <1>13
    <3> QED BY <1>2, <1>7, <1>11, <1>12, <1>13, <3>1, <3>2
  <2>2. ASSUME NEW i \in 1 .. d PROVE Made(program, frames'[i], frames'[i + 1])
    <3>1. CASE i = d  BY <1>13, <1>15, <3>1
    <3>2. CASE i \in 1 .. d - 1
      <4>1. Made(program, frames[i], frames[i + 1])  BY <1>11, <1>12, <3>2 DEF LInv, StackInv
      <4>2. i + 1 = d \/ i + 1 \in 1 .. d - 1  BY <1>13, <3>2
      <4>3. frames'[i + 1].code = frames[i + 1].code /\ frames'[i + 1].block = frames[i + 1].block
        BY <1>2, <1>7, <1>11, <1>12, <1>13, <4>2
      <4> QED BY <1>13, <3>2, <4>1, <4>3 DEF Made
    <3> QED BY <1>13, <3>1, <3>2
  <2>3. (d + 1) - 1 = d  BY <1>13
  <2> QED BY <1>10, <1>13, <2>1, <2>2, <2>3 DEF StackInv
<1>17. GoalInv'  BY <1>7, <1>10, <1>13, <1>14 DEF GoalInv
<1>18. LandsRight'  BY <1>10 DEF LInv, LandsRight
<1> QED BY <1>16, <1>17, <1>18 DEF LInv

\* An ensure group ends.
LEMMA EnsureEndLands ==
  ASSUME IInv, LInv, UnwindEnsure
  PROVE  LInv'
<1>1. PICK s : s = program[Top.code]  OBVIOUS
<1>2. PICK f : f = Top  OBVIOUS
<1>3. /\ Runs("unwind_ensure") /\ UNCHANGED <<program, flying, errors, landing>>
      /\ SetTop(IF f.exception # NoException THEN [f EXCEPT !.mode = "handle"] ELSE Step(f))
  BY <1>2 DEF UnwindEnsure
<1>4. /\ Depth > 0 /\ flying = NoException /\ f.mode = "run" /\ Name(s, f.ip) = "unwind_ensure"
      /\ s \in ScopeType /\ ScopeVerified(s) /\ f.ip \in DOMAIN s.ops
  BY <1>1, <1>2, <1>3, RunsOp
<1>5. f \in FrameType /\ FrameInv(program, f) /\ program \in Programs  BY <1>2, <1>4, TopInv
<1>6. LandsRight'  BY <1>3 DEF LInv, LandsRight
<1>7. CASE f.exception = NoException
  <2>1. PICK i : i = f.ip + 1 /\ i \in Nat  BY <1>4, AddressTyped
  <2>2. PICK g : g = Step(f)  OBVIOUS
  <2>3. /\ g \in FrameType /\ g.code = f.code /\ g.block = f.block /\ g.exception = NoException
    BY <1>5, <1>7, <2>1, <2>2, GoToFields DEF Step
  <2> QED BY <1>2, <1>3, <1>4, <1>6, <1>7, <2>2, <2>3, LQuiet
<1>8. CASE f.exception # NoException
  <2>1. PICK g : g = [f EXCEPT !.mode = "handle"]  OBVIOUS
  <2>2. /\ g \in FrameType /\ g.code = f.code /\ g.block = f.block
        /\ g.mode = "handle" /\ g.current = f.current /\ g.loop = f.loop /\ g.handler = f.handler
        /\ g.exception = f.exception
    BY <1>5, <2>1 DEF FrameType, Modes
  <2>3. TestsAt(s, f.ip) = {}  BY <1>4 DEF ScopeVerified, OpsPlaced, Name
  <2>4. AtClauses(s, g) <=> AtClauses(s, f)  BY <1>4, <2>2, <2>3 DEF AtClauses
  <2>5. PICK fs : fs = [frames EXCEPT ![Depth] = g]  OBVIOUS
  <2>6. PICK d : d = Depth  OBVIOUS
  <2>7. /\ d \in Nat \ {0} /\ f = frames[d] /\ g = fs[d] /\ \A i \in 1 .. d - 1 : fs[i] = frames[i]
    BY <1>2, <1>4, <2>2, <2>5, <2>6, TopSet
  <2>8. Handles(program, frames, d)  BY <1>2, <1>4, <1>8, <2>6, LTop
  <2>9. s = program[f.code]  BY <1>1, <1>2
  <2>10. Handles(program, fs, d)  BY <2>2, <2>4, <2>7, <2>8, <2>9, HandlesSame
  <2>11. SetTop(g)  BY <1>3, <1>8, <2>1
  <2> QED BY <1>2, <1>3, <1>4, <1>6, <2>2, <2>5, <2>6, <2>10, <2>11, LKept
<1> QED BY <1>7, <1>8

\* Where the model says an error must end is where it is found from the frames.
LEMMA RescuerFound ==
  ASSUME IInv, NEW g, Depth > 0, NEW fs, NEW class,
         NEW d \in Nat \ {0}, d = Depth, fs[d] = g, \A i \in 1 .. d - 1 : fs[i] = frames[i],
         g.code = Top.code, PastOp(program, g) = CurrentOp, Top = frames[d]
  PROVE  Rescuer(class) = Rescued(program, fs, d, class)
<1>1. ASSUME NEW x \in 1 .. d
      PROVE  /\ Rescuing(x, class) = Rescuers(CodeOf(program, fs, x), InOf(program, fs, x), class)
             /\ frames[x].code = fs[x].code
  <2>1. fs[x].code = frames[x].code
    <3>1. x = d \/ x \in 1 .. d - 1  OBVIOUS
    <3> QED BY <3>1
  <2>2. OpAt(x) = PastOp(program, fs[x])
    <3>1. CASE x = d  BY <3>1 DEF OpAt, CurrentOp, Ops
    <3>2. CASE x # d
      <4>1. x \in 1 .. d - 1  BY <3>2
      <4> QED BY <3>2, <4>1 DEF OpAt, PastOp, Ops
    <3> QED BY <3>1, <3>2
  <2> QED BY <2>1, <2>2 DEF Rescuing, Rescuers, CodeOf, InOf, Block, Blocks
<1>2. PICK T : T = {x \in 1 .. d : Rescuing(x, class) # {}}  OBVIOUS
<1>3. T = RescuingFrames(program, fs, d, class)  BY <1>1, <1>2 DEF RescuingFrames
<1>4. Rescuer(class) =
        IF T = {} THEN <<0, 0>>
        ELSE <<Max(T), Block(frames[Max(T)], Max(Rescuing(Max(T), class))).handlers[
                Min(Taking(Block(frames[Max(T)], Max(Rescuing(Max(T), class))), class))].rescue>>
  BY <1>2 DEF Rescuer
<1>5. CASE T = {}  BY <1>3, <1>4, <1>5 DEF Rescued
<1>6. CASE T # {}
  <2>1. T \in SUBSET (0 .. d)  BY <1>2
  <2>2. Max(T) \in T  BY <1>6, <2>1, GreatestOf
  <2>3. PICK e : e = Max(T)  OBVIOUS
  <2>4. e \in 1 .. d  BY <1>2, <2>2, <2>3
  <2>5. Rescuing(e, class) = Rescuers(CodeOf(program, fs, e), InOf(program, fs, e), class)
        /\ frames[e].code = fs[e].code
    BY <1>1, <2>4
  <2>6. PICK b : b = Max(Rescuing(e, class))  OBVIOUS
  <2>7. Block(frames[e], b) = CodeOf(program, fs, e).blocks[b]
    BY <2>5 DEF Block, Blocks, CodeOf
  <2>8. Rescuer(class) = <<e, CodeOf(program, fs, e).blocks[b].handlers[
                               Min(Taking(CodeOf(program, fs, e).blocks[b], class))].rescue>>
    BY <1>4, <1>6, <2>3, <2>6, <2>7
  <2>9. Rescued(program, fs, d, class) =
          <<e, FirstClause(CodeOf(program, fs, e), InOf(program, fs, e), class)>>
    BY <1>3, <1>6, <2>3 DEF Rescued
  <2> QED BY <2>5, <2>6, <2>8, <2>9 DEF FirstClause
<1> QED BY <1>5, <1>6

\* Code that may raise.
LEMMA WorkLands ==
  ASSUME IInv, LInv, Work
  PROVE  LInv'
<1>1. /\ Runs("work") /\ SetTop(Step(Top)) /\ program' = program /\ landing' = landing
  BY DEF Work
<1>2. PICK f : f = Top  OBVIOUS
<1>3. PICK op : op = CurrentOp  OBVIOUS
<1>4. PICK g : g = Step(f)  OBVIOUS
<1>5. PICK s : s = program[f.code]  OBVIOUS
<1>6. "work" \in RaisingNames  BY DEF RaisingNames
<1>7. /\ g \in FrameType /\ g.code = f.code /\ g.block = f.block
      /\ g.exception = NoException /\ PastOp(program, g) = op
      /\ Depth > 0 /\ flying = NoException
  BY <1>1, <1>2, <1>3, <1>4, <1>5, <1>6, ThrowsPast
<1>8. PICK fs : fs = [frames EXCEPT ![Depth] = g]  OBVIOUS
<1>9. PICK d : d = Depth  OBVIOUS
<1>10. /\ d \in Nat \ {0} /\ f = frames[d] /\ g = fs[d] /\ \A i \in 1 .. d - 1 : fs[i] = frames[i]
  BY <1>2, <1>7, <1>8, <1>9, TopSet
<1>11. LandsRight' /\ SetTop(g)  BY <1>1, <1>2, <1>4 DEF LInv, LandsRight
<1>12. CASE UNCHANGED <<flying, errors>>
  BY <1>1, <1>2, <1>7, <1>11, <1>12, LQuiet
<1>13. CASE \E class \in {"standard", "fatal"} :
              flying' = Exception("error", class, 0, 0, Rescuer(class))
  <2>1. PICK class \in {"standard", "fatal"} :
          flying' = Exception("error", class, 0, 0, Rescuer(class))
    BY <1>13
  <2>2. PICK e : e = Exception("error", class, 0, 0, Rescuer(class))  OBVIOUS
  <2>3. e.kind = "error" /\ e.class = class /\ e.goal = Rescuer(class)  BY <2>2 DEF Exception
  <2>4. Rescuer(class) = Rescued(program, fs, d, class)
    BY <1>2, <1>3, <1>7, <1>9, <1>10, RescuerFound
  <2>5. ErrorPends(program, fs, d, InOf(program, fs, d), e)
    BY <1>10, <2>1, <2>3, <2>4, RescuedLast DEF ErrorPends
  <2>6. Flies(program, fs, d, e)  BY <2>3, <2>5 DEF Flies, Pends, Stays
  <2> QED BY <1>1, <1>2, <1>7, <1>8, <1>9, <1>11, <2>1, <2>2, <2>6, LKept
<1> QED BY <1>12, <1>13 DEF Work

\* A jump that stays in its frame.
LEMMA StayThrown ==
  ASSUME NEW s \in ScopeType, NEW op, NEW kind \in {"next", "redo", "break"}, JumpStays(s, op, kind),
         NEW d, NEW e, e.kind = kind, e.class = "jump", kind = "break" => e.target = 0,
         kind = "redo" => e.pos = op.to, e.goal = <<d, op.goal>>
  PROVE  StayPends(s, d, op.in, e) /\ ~IsLoop(s, op.in)
<1>1. Stays(e)  BY DEF Stays
<1>2. PICK home \in BlockNumbers(s) : HomeJump(s, op.in, home, kind, op.to, op.goal)
  BY DEF JumpStays
<1>3. HomeJump(s, op.in, home, kind, e.pos, op.goal)  BY <1>2 DEF HomeJump
<1> QED BY <1>1, <1>3 DEF StayPends, JumpStays

\* A jump that leaves its frame.
LEMMA ExitThrown ==
  ASSUME NEW p \in Programs, NEW c \in DOMAIN p, NEW i \in DOMAIN p[c].ops, NEW op, op = p[c].ops[i],
         NEW e, e.target = op.to, op.to # 0,
         \/ op.name = "unwind_return" /\ e.kind = "return"
         \/ op.name = "unwind_break" /\ e.kind = "break"
  PROVE  /\ LeadsOn(p, c, e) /\ ~Guarded(p[c], op.in, e.kind)
         /\ e.kind = "break" => op.to # c
         /\ e.kind = "return" => op.goal = 0
<1>1. ExitsPlaced(p, Owner(p))  BY OwnerPlaced
<1>2. CASE op.name = "unwind_return" /\ e.kind = "return"
  <2>1. op.to = Owner(p)[c] /\ op.goal = 0 /\ ~Guarded(p[c], op.in, "return")
    BY <1>1, <1>2 DEF ExitsPlaced
  <2>2. Returned(p, op.to)  BY <1>2 DEF Returned, Name
  <2> QED BY <1>2, <2>1, <2>2 DEF LeadsOn, Leads
<1>3. CASE op.name = "unwind_break" /\ e.kind = "break"
  <2>1. op.to # c /\ ~Guarded(p[c], op.in, "break")  BY <1>1, <1>3 DEF ExitsPlaced
  <2>2. BreaksTo(p[c], op.to)  BY <1>3 DEF BreaksTo, Name
  <2> QED BY <1>3, <2>1, <2>2 DEF LeadsOn, Leads
<1> QED BY <1>2, <1>3

\* A jump that unwinds.
LEMMA JumpLands ==
  ASSUME IInv, LInv, UnwindJump
  PROVE  LInv'
<1>1. PICK name \in DOMAIN JumpKind : Runs(name)  BY DEF UnwindJump
<1>2. name \in {"unwind_return", "unwind_break", "unwind_next", "unwind_redo"}
  BY DEF JumpKind
<1>3. name \in RaisingNames  BY <1>2 DEF RaisingNames, LocalJumps
<1>4. PICK f : f = Top  OBVIOUS
<1>5. PICK op : op = CurrentOp  OBVIOUS
<1>6. PICK g : g = Step(f)  OBVIOUS
<1>7. PICK s : s = program[f.code]  OBVIOUS
<1>8. /\ g \in FrameType /\ g.code = f.code /\ g.block = f.block /\ g.exception = NoException
      /\ PastOp(program, g) = op /\ op = s.ops[f.ip] /\ op.name = name /\ f.ip \in DOMAIN s.ops
      /\ Depth > 0 /\ flying = NoException /\ s \in ScopeType
      /\ program \in Programs /\ f.code \in DOMAIN program
  BY <1>1, <1>3, <1>4, <1>5, <1>6, <1>7, ThrowsPast
<1>9. PICK fs : fs = [frames EXCEPT ![Depth] = g]  OBVIOUS
<1>10. PICK d : d = Depth  OBVIOUS
<1>11. /\ d \in Nat \ {0} /\ f = frames[d] /\ g = fs[d] /\ \A i \in 1 .. d - 1 : fs[i] = frames[i]
  BY <1>4, <1>8, <1>9, <1>10, TopSet
<1>12. PICK kind : kind = JumpKind[op.name]  OBVIOUS
<1>13. PICK target : target = IF kind \in {"return", "break"} THEN op.to ELSE 0  OBVIOUS
<1>14. PICK pos : pos = IF kind = "redo" THEN op.to ELSE 0  OBVIOUS
<1>15. PICK home : home = IF target = 0 THEN d ELSE FrameOf(target)  OBVIOUS
<1>16. PICK address : address = IF kind = "break" /\ target # 0 THEN frames[home].ip ELSE op.goal
  OBVIOUS
<1>17. PICK e : e = Exception(kind, "jump", target, pos, <<home, address>>)  OBVIOUS
<1>18. /\ flying' = e /\ SetTop(g) /\ UNCHANGED <<program, errors, landing>>
  BY <1>4, <1>5, <1>6, <1>10, <1>12, <1>13, <1>14, <1>15, <1>16, <1>17 DEF UnwindJump
<1>19. /\ e.kind = kind /\ e.class = "jump" /\ e.target = target /\ e.pos = pos
       /\ e.goal = <<home, address>>
  BY <1>17 DEF Exception
<1>20. /\ kind \in {"return", "break", "next", "redo"}
       /\ kind = "return" <=> name = "unwind_return"
       /\ kind = "break" <=> name = "unwind_break"
       /\ kind = "next" <=> name = "unwind_next"
       /\ kind = "redo" <=> name = "unwind_redo"
  BY <1>2, <1>8, <1>12 DEF JumpKind
<1>21. CodeOf(program, fs, d) = s /\ InOf(program, fs, d) = op.in
  BY <1>7, <1>8, <1>11 DEF CodeOf, InOf
<1>22. ASSUME kind \in {"next", "redo"} \/ (kind = "break" /\ op.to = 0)
       PROVE  Flies(program, fs, d, e)
  <2>1. JumpStays(s, op, kind)
    <3>1. JumpsStay(s)  BY <1>7, <1>8, OwnerPlaced
    <3> QED BY <1>8, <1>20, <1>22, <3>1 DEF JumpsStay
  <2>2. target = 0 /\ home = d /\ address = op.goal /\ (kind = "redo" => pos = op.to)
    BY <1>13, <1>14, <1>15, <1>16, <1>22
  <2>3. StayPends(s, d, op.in, e) /\ ~IsLoop(s, op.in)
    BY <1>8, <1>19, <1>22, <2>1, <2>2, StayThrown
  <2>4. Pends(program, fs, d, InOf(program, fs, d), e)  BY <1>21, <2>3 DEF Pends
  <2>5. ~IsLoop(CodeOf(program, fs, d), InOf(program, fs, d))  BY <1>21, <2>3
  <2> QED BY <2>4, <2>5 DEF Flies
<1>23. ASSUME kind = "return" \/ (kind = "break" /\ op.to # 0)
       PROVE  Flies(program, fs, d, e)
  <2>1. target = op.to  BY <1>13, <1>23
  <2>2. op.to # 0
    <3>1. ExitsPlaced(program, Owner(program))  BY <1>8, OwnerPlaced
    <3> QED BY <1>7, <1>8, <1>20, <1>23, <3>1 DEF ExitsPlaced
  <2>3. /\ LeadsOn(program, f.code, e) /\ ~Guarded(s, op.in, e.kind)
        /\ kind = "break" => op.to # f.code
        /\ kind = "return" => op.goal = 0
    BY <1>7, <1>8, <1>19, <1>20, <1>23, <2>1, <2>2, ExitThrown
  <2>4. PICK t : t = op.to  OBVIOUS
  <2>5. home = Running(frames, d, t)
    BY <1>10, <1>15, <2>1, <2>2, <2>4 DEF FrameOf, Running, RunningFrames
  <2>6. \A i \in 1 .. d : fs[i].code = frames[i].code
    <3>1. \A i \in 1 .. d : i = d \/ i \in 1 .. d - 1  BY <1>11
    <3> QED BY <1>8, <1>11, <3>1
  <2>7. /\ Running(fs, d, t) = home /\ home \in 0 .. d
        /\ home # 0 => frames[home].code = t
    BY <1>11, <2>5, <2>6, RunningSame
  <2>8. kind = "break" => home # 0 /\ address = fs[home].ip
    <3> SUFFICES ASSUME kind = "break" PROVE home # 0 /\ address = fs[home].ip  OBVIOUS
    <3>1. Runs("unwind_break") /\ t = CurrentOp.to /\ t # 0  BY <1>1, <1>5, <1>20, <2>2, <2>4
    <3>2. FrameOf(t) \in 1 .. Depth  BY <3>1, HomeRuns
    <3>3. home # 0 /\ frames[home].code = t /\ home # d
      BY <1>10, <1>11, <1>15, <2>1, <2>2, <2>3, <2>4, <2>7, <3>2
    <3>4. home \in 1 .. d - 1  BY <1>11, <2>7, <3>3
    <3> QED BY <1>11, <1>16, <2>1, <2>2, <3>3, <3>4
  <2>9. kind = "return" => address = 0  BY <1>16, <2>3
  <2>10. ExitGoal(fs, d, e)
    BY <1>19, <1>23, <2>1, <2>4, <2>7, <2>8, <2>9 DEF ExitGoal
  <2>11. OnWay(program, g, e) /\ ~BreakIn(g, e)
    BY <1>8, <1>19, <2>1, <2>3 DEF OnWay, BreakIn
  <2>12. Exits(e) /\ ~Stays(e)  BY <1>19, <1>23, <2>1, <2>2 DEF Exits, Stays
  <2>13. ExitPends(program, fs, d, op.in, e)
    BY <1>11, <1>19, <1>21, <2>3, <2>10, <2>11, <2>12 DEF ExitPends
  <2>14. Pends(program, fs, d, InOf(program, fs, d), e)  BY <1>21, <2>13 DEF Pends
  <2> QED BY <2>12, <2>14 DEF Flies
<1>24. Flies(program, fs, d, e)  BY <1>20, <1>22, <1>23
<1>25. LandsRight'  BY <1>18 DEF LInv, LandsRight
<1> QED BY <1>4, <1>8, <1>9, <1>10, <1>18, <1>24, <1>25, LKept

-----------------------------------------------------------------------------
(* Every step keeps the invariant: exceptions.                             *)

\* A frame at a clause tries the block its exception may be taken by.
LEMMA LClause ==
  ASSUME IInv, LInv, Depth > 0, flying = NoException, NEW f, f = Top,
         NEW s, s = program[f.code], AtClause(s, f)
  PROVE  /\ ClausePends(program, frames, Depth, f.exception) /\ AtClauses(s, f)
         /\ s \in ScopeType /\ BlocksNested(s) /\ HandlersPlaced(s)
         /\ f \in FrameType /\ FrameInv(program, f) /\ program \in Programs
         /\ f = frames[Depth] /\ CodeOf(program, frames, Depth) = s
         /\ Depth \in Nat \ {0} /\ f.exception \in ExceptionType
         /\ f.loop \in DOMAIN s.blocks /\ f.current = Parent(s, f.loop)
         /\ f.loop \in Around(s, f.loop) /\ f.handler \in Nat /\ f.exception # NoException
<1>1. /\ f \in FrameType /\ FrameInv(program, f) /\ program \in Programs /\ FrameOK(program, f)
      /\ f = frames[Depth] /\ Depth \in Nat \ {0}
  BY TopInv DEF IInv, TypeInv
<1>2. s \in ScopeType /\ ScopeVerified(s) /\ f.ip \in DOMAIN s.ops  BY <1>1, FrameScope
<1>3. f.loop \in DOMAIN s.blocks /\ f.current = Parent(s, f.loop) /\ f.exception # NoException
  BY <1>1, ClauseKnown
<1>4. AtClauses(s, f)
  <2>1. Name(s, f.ip) = "unwind_filter" => TestsAt(s, f.ip) # {}
    BY <1>2 DEF ScopeVerified, OpsPlaced, Name
  <2> QED BY <2>1 DEF AtClause, AtClauses
<1>5. CodeOf(program, frames, Depth) = s  BY <1>1 DEF CodeOf
<1>6. Handles(program, frames, Depth)  BY <1>3, LTop
<1>7. ClausePends(program, frames, Depth, f.exception)
  BY <1>1, <1>4, <1>5, <1>6 DEF Handles
<1>8. f.loop \in Around(s, f.loop)
  <2>1. f.loop \in BlockNumbers(s) /\ f.loop # 0  BY <1>2, <1>3, ScopeTyped
  <2> QED BY <1>2, <2>1, AroundTyped DEF ScopeVerified
<1> QED BY <1>1, <1>2, <1>3, <1>4, <1>5, <1>7, <1>8 DEF ScopeVerified, FrameType

\* The clause that takes an exception is the one it should end in.
LEMMA ClauseIsGoal ==
  ASSUME NEW p, NEW fs, NEW d \in Nat \ {0}, NEW f \in FrameType, f = fs[d],
         NEW s \in ScopeType, s = CodeOf(p, fs, d), BlocksNested(s),
         NEW b \in DOMAIN s.blocks, b = f.loop, b \in Around(s, b),
         NEW k, k = f.handler, NEW e \in ExceptionType, k \in Taking(s.blocks[b], e.class),
         ClausePends(p, fs, d, e)
  PROVE  e.goal = <<d, s.blocks[b].handlers[k].rescue>>
<1>1. k \in DOMAIN s.blocks[b].handlers /\ e.class \in s.blocks[b].handlers[k].classes
  BY DEF Taking
<1>2. PICK left : left = LeftClauses(s, f, e.class)  OBVIOUS
<1>3. k \in Nat /\ DOMAIN s.blocks[b].handlers \in SUBSET Nat
  BY <1>1, ScopeTyped, SMTT(30)
<1>4. left \in SUBSET Nat /\ k \in left /\ \A x \in left : k <= x
  <2>1. PICK T : T = Taking(s.blocks[b], e.class)  OBVIOUS
  <2>2. T \in SUBSET Nat /\ k \in T  BY <1>1, <1>3, <2>1 DEF Taking
  <2>3. left = {x \in T : x >= k}  BY <1>1, <1>2, <2>1 DEF LeftClauses
  <2>4. \A x \in T : x >= k <=> k <= x  BY <1>3, <2>2
  <2>5. k >= k  BY <1>3
  <2> QED BY <2>2, <2>3, <2>4, <2>5
<1>5. Min(left) = k
  <2>1. Min(left) \in left /\ \A x \in left : Min(left) <= x  BY <1>4, LeastOf
  <2>2. PICK m : m = Min(left)  OBVIOUS
  <2>3. m \in Nat /\ m <= k /\ k <= m  BY <1>4, <2>1, <2>2
  <2> QED BY <1>3, <2>2, <2>3
<1>6. ~StayPends(s, d, b, e)
  <2> SUFFICES ASSUME StayPends(s, d, b, e) PROVE FALSE  OBVIOUS
  <2>1. PICK home \in BlockNumbers(s) : HomeJump(s, b, home, e.kind, e.pos, e.goal[2])
    BY DEF StayPends
  <2>2. ~TakesJumps(s, b)  BY <1>1, <2>1, HomeOutside
  <2> QED BY <1>1, <2>2 DEF TakesJumps, StayPends
<1>7. ~ExitPends(p, fs, d, b, e)
  <2> SUFFICES ASSUME ExitPends(p, fs, d, b, e) PROVE FALSE  OBVIOUS
  <2>1. ~TakesJumps(s, b)  BY <1>1 DEF ExitPends, Guarded
  <2> QED BY <1>1, <2>1 DEF TakesJumps, ExitPends
<1> QED BY <1>1, <1>2, <1>4, <1>5, <1>6, <1>7 DEF ClausePends

\* A clause takes the exception, or does not.
LEMMA ClauseLands ==
  ASSUME IInv, LInv, flying = NoException, Depth > 0, NEW f, f = Top,
         NEW s, s = program[f.code], AtClause(s, f),
         f.handler \in DOMAIN s.blocks[f.loop].handlers,
         IF Matches(ClauseOf(s, f), f.exception) THEN RunHandler(ClauseOf(s, f)) ELSE NextHandler,
         UNCHANGED <<program, flying, errors>>
  PROVE  LInv'
<1>1. PICK e : e = f.exception  OBVIOUS
<1>2. PICK d : d = Depth  OBVIOUS
<1>3. /\ ClausePends(program, frames, d, e) /\ AtClauses(s, f)
      /\ s \in ScopeType /\ BlocksNested(s)
      /\ f \in FrameType /\ FrameInv(program, f) /\ program \in Programs
      /\ f = frames[d] /\ CodeOf(program, frames, d) = s
      /\ d \in Nat \ {0} /\ e \in ExceptionType
      /\ f.loop \in DOMAIN s.blocks /\ f.loop \in Around(s, f.loop) /\ f.handler \in Nat
      /\ e # NoException
  BY <1>1, <1>2, LClause
<1>4. PICK k : k = f.handler  OBVIOUS
<1>5. ClauseOf(s, f) = s.blocks[f.loop].handlers[k]  BY <1>4 DEF ClauseOf
<1>6. CASE Matches(ClauseOf(s, f), f.exception)
  <2>1. PICK i : i = ClauseOf(s, f).rescue  OBVIOUS
  <2>2. e.goal = <<d, i>>
    <3>1. k \in DOMAIN s.blocks[f.loop].handlers  BY <1>4
    <3>2. k \in Taking(s.blocks[f.loop], e.class)
      BY <1>1, <1>5, <1>6, <3>1 DEF Matches, Taking
    <3>3. PICK b : b = f.loop  OBVIOUS
    <3>4. e.goal = <<d, s.blocks[b].handlers[k].rescue>>
      BY <1>3, <1>4, <3>2, <3>3, ClauseIsGoal, SMTT(30)
    <3> QED BY <1>5, <2>1, <3>3, <3>4
  <2>3. PICK g : g = GoTo(Handled(f), i)  OBVIOUS
  <2>4. SetTop(g) /\ Lands(e, Depth, i)  BY <1>1, <1>6, <2>1, <2>3 DEF RunHandler
  <2>5. LandsRight'  BY <1>2, <2>2, <2>4 DEF LandsRight, Lands
  <2>6. g \in FrameType /\ g.code = f.code /\ g.block = f.block /\ i \in Nat
    BY <1>3, <2>1, <2>3, ClauseRuns
  <2>7. g.exception = NoException
    <3>1. PICK h : h = Handled(f)  OBVIOUS
    <3>2. h \in FrameType /\ h.exception = NoException  BY <1>3, <3>1, HandledFields
    <3> QED BY <2>3, <2>6, <3>1, <3>2, GoToFields
  <2> QED BY <2>4, <2>5, <2>6, <2>7, LQuiet
<1>7. CASE ~Matches(ClauseOf(s, f), f.exception)
  <2>1. PICK g : g = [f EXCEPT !.mode = "match", !.handler = @ + 1]  OBVIOUS
  <2>2. SetTop(g) /\ landing' = landing  BY <1>7, <2>1 DEF NextHandler
  <2>3. /\ g \in FrameType /\ g.code = f.code /\ g.block = f.block /\ g.mode = "match"
        /\ g.current = f.current /\ g.loop = f.loop /\ g.handler = k + 1 /\ g.exception = e
    <3>1. f.handler + 1 = k + 1 /\ f.handler + 1 \in Nat  BY <1>3, <1>4
    <3> QED BY <1>1, <1>3, <2>1, <3>1 DEF FrameType, Modes
  <2>4. PICK fs : fs = [frames EXCEPT ![Depth] = g]  OBVIOUS
  <2>5. g = fs[d] /\ \A i \in 1 .. d - 1 : fs[i] = frames[i]  BY <1>2, <2>3, <2>4, TopSet
  <2>6. LeftClauses(s, g, e.class) = LeftClauses(s, f, e.class)
    <3>1. k \notin Taking(s.blocks[f.loop], e.class)
      BY <1>1, <1>5, <1>7 DEF Taking, Matches
    <3>2. \A x \in DOMAIN s.blocks[f.loop].handlers : x \in Nat  BY <1>3, ScopeTyped
    <3>3. \A x \in Taking(s.blocks[f.loop], e.class) : x \in Nat /\ x # k
      BY <3>1, <3>2 DEF Taking
    <3>4. \A x \in Taking(s.blocks[f.loop], e.class) : x >= k + 1 <=> x >= k
      BY <1>3, <1>4, <3>3
    <3> QED BY <1>4, <2>3, <3>4 DEF LeftClauses
  <2>7. CodeOf(program, fs, d) = s  BY <2>3, <2>5 DEF CodeOf
  <2>8. ErrorPends(program, frames, d, f.current, e) => ErrorPends(program, fs, d, f.current, e)
    BY <1>3, <2>3, <2>5, PendsSame
  <2>9. ExitPends(program, frames, d, f.loop, e) => ExitPends(program, fs, d, f.loop, e)
    BY <1>3, <2>3, <2>5, PendsSame
  <2>10. ClausePends(program, fs, d, e)
    BY <1>3, <2>3, <2>5, <2>6, <2>7, <2>8, <2>9 DEF ClausePends
  <2>11. Handles(program, fs, d)
    BY <2>3, <2>5, <2>7, <2>10 DEF Handles, AtClauses
  <2>12. LandsRight'  BY <2>2 DEF LInv, LandsRight
  <2> QED BY <1>2, <2>2, <2>3, <2>4, <2>11, <2>12, LKept
<1> QED BY <1>6, <1>7

\* UnwindFilter and the clauses without a list.
LEMMA MatchLands ==
  ASSUME IInv, LInv, UnwindFilter \/ TryStandard
  PROVE  LInv'
<1>1. PICK s : s = program[Top.code]  OBVIOUS
<1>2. PICK f : f = Top  OBVIOUS
<1>3. Depth > 0 /\ flying = NoException /\ AtClause(s, f) /\ UNCHANGED <<program, flying, errors>>
  <2>1. CASE UnwindFilter
    <3>1. Runs("unwind_filter") /\ UNCHANGED <<program, flying, errors>>  BY <2>1 DEF UnwindFilter
    <3> QED BY <1>1, <1>2, <3>1, RunsOp DEF AtClause
  <2>2. CASE TryStandard  BY <1>2, <2>2 DEF TryStandard, Handling, AtClause
  <2> QED BY <2>1, <2>2
<1>4. f \in FrameType /\ FrameInv(program, f) /\ program \in Programs /\ FrameOK(program, f)
  BY <1>2, <1>3, TopInv
<1>5. Clauses = s.blocks[f.loop].handlers  BY <1>1, <1>2 DEF Clauses, Block, Blocks
<1>6. f.handler \in DOMAIN s.blocks[f.loop].handlers
  <2>1. CASE UnwindFilter
    <3>1. f.mode = "run"  BY <1>2, <2>1 DEF UnwindFilter, Runs
    <3> QED BY <1>1, <1>2, <1>3, <1>4, <3>1, ClauseKnown
  <2>2. CASE TryStandard
    <3>1. f.loop \in DOMAIN s.blocks /\ f.handler \in 1 .. Len(s.blocks[f.loop].handlers) + 1
      BY <1>1, <1>2, <1>3, <1>4, ClauseKnown
    <3>2. s \in ScopeType  BY <1>1, <1>2, <1>4, FrameScope
    <3>3. /\ DOMAIN s.blocks[f.loop].handlers = 1 .. Len(s.blocks[f.loop].handlers)
          /\ Len(s.blocks[f.loop].handlers) \in Nat
      BY <3>1, <3>2, ScopeTyped
    <3>4. f.handler <= Len(s.blocks[f.loop].handlers)  BY <1>2, <1>5, <2>2 DEF TryStandard
    <3>5. PICK n : n = Len(s.blocks[f.loop].handlers)  OBVIOUS
    <3>6. f.handler \in 1 .. n  BY <3>1, <3>3, <3>4, <3>5
    <3> QED BY <3>3, <3>5, <3>6
  <2> QED BY <2>1, <2>2
<1>7. IF Matches(ClauseOf(s, f), f.exception) THEN RunHandler(ClauseOf(s, f)) ELSE NextHandler
  BY <1>2, <1>5 DEF ClauseOf, UnwindFilter, TryStandard
<1>8. s = program[f.code]  BY <1>1, <1>2
<1> QED BY <1>2, <1>3, <1>6, <1>7, <1>8, ClauseLands

\* The pattern of a clause is to be tested.
LEMMA FilterLands ==
  ASSUME IInv, LInv, TryFilter
  PROVE  LInv'
<1>1. PICK s : s = program[Top.code]  OBVIOUS
<1>2. PICK f : f = Top  OBVIOUS
<1>3. /\ Depth > 0 /\ flying = NoException /\ f.mode = "match"
      /\ UNCHANGED <<program, flying, errors, landing>>
  BY <1>2 DEF TryFilter, Handling
<1>4. s = program[f.code] /\ AtClause(s, f)  BY <1>1, <1>2, <1>3 DEF AtClause
<1>5. PICK d : d = Depth  OBVIOUS
<1>6. /\ AtClauses(s, f) /\ s \in ScopeType /\ HandlersPlaced(s) /\ f \in FrameType
      /\ f = frames[d] /\ d \in Nat \ {0} /\ f.loop \in DOMAIN s.blocks /\ f.handler \in Nat
      /\ f.exception # NoException /\ FrameInv(program, f) /\ program \in Programs
  BY <1>2, <1>3, <1>4, <1>5, LClause
<1>7. PICK clause : clause = ClauseOf(s, f)  OBVIOUS
<1>8. Clauses = s.blocks[f.loop].handlers  BY <1>1, <1>2 DEF Clauses, Block, Blocks
<1>9. f.handler <= Len(s.blocks[f.loop].handlers) /\ SetTop(GoTo(f, clause.test)) /\ clause.filter
  BY <1>2, <1>7, <1>8 DEF TryFilter, ClauseOf
<1>10. f.handler \in DOMAIN s.blocks[f.loop].handlers
  <2>1. f.handler \in 1 .. Len(s.blocks[f.loop].handlers) + 1  BY <1>4, <1>6, ClauseKnown
  <2>2. /\ DOMAIN s.blocks[f.loop].handlers = 1 .. Len(s.blocks[f.loop].handlers)
        /\ Len(s.blocks[f.loop].handlers) \in Nat
    BY <1>6, ScopeTyped
  <2>3. PICK n : n = Len(s.blocks[f.loop].handlers)  OBVIOUS
  <2>4. f.handler \in 1 .. n  BY <1>9, <2>1, <2>2, <2>3
  <2> QED BY <2>2, <2>3, <2>4
<1>11. clause.test \in DOMAIN s.ops /\ TestsAt(s, clause.test) # {}
  <2>1. PICK i : i = ClauseOf(s, f).test  OBVIOUS
  <2>2. /\ Reaches(s, i, Parent(s, f.loop), EnsuredAround(s, f.loop))
        /\ TestsAt(s, i) = {<<f.loop, f.handler>>}
    BY <1>6, <1>7, <1>9, <1>10, <2>1 DEF HandlersPlaced, Parent, ClauseOf
  <2> QED BY <1>7, <2>1, <2>2 DEF Reaches
<1>12. PICK i : i = clause.test /\ i \in Nat  BY <1>6, <1>11, AddressTyped
<1>13. PICK g : g = GoTo(f, i)  OBVIOUS
<1>14. /\ g \in FrameType /\ g.code = f.code /\ g.block = f.block /\ g.ip = i
       /\ g.mode = "run" /\ g.current = f.current /\ g.loop = f.loop /\ g.handler = f.handler
       /\ g.exception = f.exception
  BY <1>6, <1>12, <1>13, GoToFields
<1>15. AtClauses(s, g)  BY <1>11, <1>12, <1>14 DEF AtClauses
<1>16. PICK fs : fs = [frames EXCEPT ![Depth] = g]  OBVIOUS
<1>17. g = fs[d] /\ \A j \in 1 .. d - 1 : fs[j] = frames[j]
  BY <1>3, <1>5, <1>14, <1>16, TopSet
<1>18. Handles(program, frames, d)  BY <1>2, <1>3, <1>5, <1>6, LTop
<1>19. Handles(program, fs, d)
  BY <1>4, <1>6, <1>14, <1>15, <1>17, <1>18, HandlesSame
<1>20. SetTop(g) /\ LandsRight'  BY <1>3, <1>9, <1>12, <1>13 DEF LInv, LandsRight
<1> QED BY <1>2, <1>3, <1>5, <1>14, <1>16, <1>19, <1>20, LKept

\* The next block is tried.
LEMMA BlockLands ==
  ASSUME IInv, LInv, TryBlock
  PROVE  LInv'
<1>1. PICK s : s = program[Top.code]  OBVIOUS
<1>2. PICK f : f = Top  OBVIOUS
<1>3. PICK b : b = f.current  OBVIOUS
<1>4. PICK g : g = [f EXCEPT !.mode = "match", !.loop = f.current, !.handler = 1,
                             !.current = Block(f, f.current).parent]
  OBVIOUS
<1>5. /\ Depth > 0 /\ flying = NoException /\ f.mode = "handle" /\ b # 0 /\ SetTop(g)
      /\ UNCHANGED <<program, flying, errors, landing>>
  BY <1>2, <1>3, <1>4 DEF TryBlock, Handling
<1>6. /\ f \in FrameType /\ FrameInv(program, f) /\ program \in Programs /\ FrameOK(program, f)
      /\ HandleOK(s, f)
  BY <1>1, <1>2, <1>5, TopInv DEF FrameInv
<1>7. s \in ScopeType /\ BlocksNested(s) /\ b \in DOMAIN s.blocks
  BY <1>1, <1>2, <1>3, <1>5, <1>6, FrameScope, ScopeTyped DEF ScopeVerified
<1>8. Block(f, b).parent = Parent(s, b) /\ Parent(s, b) \in Nat
  <2>1. Block(f, b).parent = Parent(s, b)  BY <1>1, <1>2 DEF Block, Blocks, Parent
  <2>2. s.blocks[b] \in BlockType  BY <1>7, ScopeTyped
  <2> QED BY <2>1, <2>2 DEF Parent, BlockType
<1>9. /\ g \in FrameType /\ g.code = f.code /\ g.block = f.block
      /\ g.mode = "match" /\ g.current = Parent(s, b) /\ g.loop = b
      /\ g.handler = 1 /\ g.exception = f.exception
  <2>1. b \in Nat  BY <1>7, ScopeTyped
  <2> QED BY <1>3, <1>4, <1>6, <1>8, <2>1 DEF FrameType, Modes
<1>10. PICK fs : fs = [frames EXCEPT ![Depth] = g]  OBVIOUS
<1>11. PICK d : d = Depth  OBVIOUS
<1>12. PICK e : e = f.exception  OBVIOUS
<1>13. /\ d \in Nat \ {0} /\ f = frames[d] /\ g = fs[d] /\ \A i \in 1 .. d - 1 : fs[i] = frames[i]
  BY <1>2, <1>5, <1>9, <1>10, <1>11, TopSet
<1>14. CodeOf(program, frames, d) = s /\ CodeOf(program, fs, d) = s
  BY <1>1, <1>2, <1>9, <1>13 DEF CodeOf
<1>15. Pends(program, frames, d, b, e)
  <2>1. e # NoException  BY <1>5, <1>6, <1>12 DEF HandleOK
  <2>2. Handles(program, frames, d)  BY <1>2, <1>5, <1>11, <1>12, <2>1, LTop
  <2>3. ~AtClauses(s, f)  BY <1>5 DEF AtClauses
  <2> QED BY <1>3, <1>12, <1>13, <1>14, <2>2, <2>3 DEF Handles
<1>16. LeftClauses(s, g, e.class) = Taking(s.blocks[b], e.class)
  <2>1. \A x \in DOMAIN s.blocks[b].handlers : x >= 1  BY <1>7, ScopeTyped
  <2>2. \A x \in Taking(s.blocks[b], e.class) : x >= 1  BY <2>1 DEF Taking
  <2> QED BY <1>9, <2>2 DEF LeftClauses
<1>17. ClausePends(program, fs, d, e)
  <2>1. CASE ErrorPends(program, frames, d, b, e)
    <3>1. CASE Taking(s.blocks[b], e.class) # {}
      <4>1. PICK class : class = e.class  OBVIOUS
      <4>2. Rescuers(s, b, class) # {} /\ Max(Rescuers(s, b, class)) = b
        BY <1>7, <3>1, <4>1, RescuersStep
      <4>3. e.goal = <<d, FirstClause(s, b, class)>>
        BY <1>14, <2>1, <4>1, <4>2 DEF ErrorPends, RescuedFrom
      <4>4. FirstClause(s, b, class) = s.blocks[b].handlers[Min(Taking(s.blocks[b], class))].rescue
        BY <4>2 DEF FirstClause
      <4> QED BY <1>9, <1>13, <1>14, <1>16, <2>1, <3>1, <4>1, <4>3, <4>4 DEF ClausePends, ErrorPends
    <3>2. CASE Taking(s.blocks[b], e.class) = {}
      <4>1. ErrorPends(program, frames, d, Parent(s, b), e)  BY <1>7, <1>14, <2>1, <3>2, PendsPast
      <4>2. ErrorPends(program, fs, d, Parent(s, b), e)  BY <1>9, <1>13, <4>1, PendsSame
      <4> QED BY <1>9, <1>13, <1>14, <1>16, <3>2, <4>2 DEF ClausePends
    <3> QED BY <3>1, <3>2
  <2>2. CASE StayPends(s, d, b, e)  BY <1>9, <1>13, <1>14, <2>2 DEF ClausePends
  <2>3. CASE ExitPends(program, frames, d, b, e)
    <3>1. ExitPends(program, fs, d, b, e)  BY <1>9, <1>13, <2>3, PendsSame
    <3> QED BY <1>9, <1>13, <1>14, <3>1 DEF ClausePends
  <2> QED BY <1>14, <1>15, <2>1, <2>2, <2>3 DEF Pends
<1>18. Handles(program, fs, d)
  BY <1>9, <1>12, <1>13, <1>14, <1>17 DEF Handles, AtClauses
<1>19. LandsRight'  BY <1>5 DEF LInv, LandsRight
<1> QED BY <1>2, <1>5, <1>9, <1>10, <1>11, <1>18, <1>19, LKept

\* Nothing in the block takes it: the ensure group runs, or the parent block is next.
LEMMA EnsureLands ==
  ASSUME IInv, LInv, RunEnsure
  PROVE  LInv'
<1>1. PICK s : s = program[Top.code]  OBVIOUS
<1>2. PICK f : f = Top  OBVIOUS
<1>3. PICK g : g = LeftBlock(f)  OBVIOUS
<1>4. /\ Depth > 0 /\ flying = NoException /\ f.mode = "match" /\ ~LoopTakes(f) /\ SetTop(g)
      /\ UNCHANGED <<program, flying, errors, landing>> /\ f.handler > Len(Clauses)
  BY <1>2, <1>3 DEF RunEnsure, Handling, LeftBlock
<1>5. s = program[f.code] /\ AtClause(s, f)  BY <1>1, <1>2, <1>4 DEF AtClause
<1>6. PICK d : d = Depth  OBVIOUS
<1>7. PICK e : e = f.exception  OBVIOUS
<1>8. PICK b : b = f.loop  OBVIOUS
<1>9. /\ ClausePends(program, frames, d, e) /\ s \in ScopeType /\ BlocksNested(s)
      /\ HandlersPlaced(s) /\ f \in FrameType /\ FrameInv(program, f) /\ program \in Programs
      /\ f = frames[d] /\ CodeOf(program, frames, d) = s
      /\ d \in Nat \ {0} /\ e \in ExceptionType /\ e # NoException
      /\ b \in DOMAIN s.blocks /\ f.current = Parent(s, b) /\ f.handler \in Nat
  BY <1>2, <1>4, <1>5, <1>6, <1>7, <1>8, LClause
<1>10. /\ g \in FrameType /\ g.code = f.code /\ g.block = f.block
       /\ g.current = f.current /\ g.exception = e /\ ~AtClauses(s, g)
  <2>1. PICK i : i = s.blocks[b].ensure  OBVIOUS
  <2>2. Block(f, f.loop) = s.blocks[b]  BY <1>5, <1>8 DEF Block, Blocks
  <2>3. [f EXCEPT !.current = s.blocks[b].parent] = f  BY <1>9 DEF FrameType, Parent
  <2>4. g = IF i # 0 THEN GoTo(f, i) ELSE [f EXCEPT !.mode = "handle"]
    BY <1>3, <2>1, <2>2, <2>3 DEF LeftBlock
  <2>5. CASE i # 0
    <3>1. Reaches(s, i, Parent(s, b), EnsuredAround(s, b)) /\ TestsAt(s, i) = {}
      BY <1>9, <2>1, <2>5 DEF HandlersPlaced, Ensured, Parent
    <3>2. i \in Nat  BY <1>9, <3>1, AddressTyped DEF Reaches
    <3>3. /\ g \in FrameType /\ g.code = f.code /\ g.block = f.block /\ g.ip = i
          /\ g.mode = "run" /\ g.current = f.current /\ g.exception = f.exception
      BY <1>9, <2>4, <2>5, <3>2, GoToFields
    <3> QED BY <1>7, <3>1, <3>3 DEF AtClauses
  <2>6. CASE i = 0
    <3>1. g = [f EXCEPT !.mode = "handle"]  BY <2>4, <2>6
    <3>2. /\ g \in FrameType /\ g.code = f.code /\ g.block = f.block
          /\ g.mode = "handle" /\ g.current = f.current /\ g.exception = f.exception
      BY <1>9, <3>1 DEF FrameType, Modes
    <3> QED BY <1>7, <3>2 DEF AtClauses
  <2> QED BY <2>5, <2>6
<1>11. LeftClauses(s, f, e.class) = {}
  <2>1. Clauses = s.blocks[b].handlers  BY <1>1, <1>2, <1>8 DEF Clauses, Block, Blocks
  <2>2. /\ DOMAIN s.blocks[b].handlers = 1 .. Len(s.blocks[b].handlers)
        /\ Len(s.blocks[b].handlers) \in Nat
    BY <1>9, ScopeTyped
  <2>3. PICK n : n = Len(s.blocks[b].handlers)  OBVIOUS
  <2>4. \A k \in 1 .. n : ~(k >= f.handler)  BY <1>4, <1>9, <2>1, <2>2, <2>3
  <2>5. \A k \in DOMAIN s.blocks[b].handlers : ~(k >= f.handler)  BY <2>2, <2>3, <2>4
  <2> QED BY <1>8, <2>5 DEF LeftClauses, Taking
<1>12. Pends(program, frames, d, f.current, e)
  <2>1. CASE ErrorPends(program, frames, d, f.current, e)  BY <2>1 DEF Pends
  <2>2. CASE StayPends(s, d, b, e)
    <3>1. ~IsLoop(s, b)
      <4>1. Block(f, f.loop) = s.blocks[b]  BY <1>5, <1>8 DEF Block, Blocks
      <4> QED BY <1>4, <1>7, <2>2, <4>1 DEF LoopTakes, StayPends, Stays, IsLoop
    <3>2. StayPends(s, d, Parent(s, b), e)  BY <1>9, <2>2, <3>1, PendsPast
    <3> QED BY <1>9, <3>2 DEF Pends
  <2>3. CASE ExitPends(program, frames, d, b, e)
    <3>1. ExitPends(program, frames, d, Parent(s, b), e)  BY <1>9, <2>3, PendsPast
    <3> QED BY <1>9, <3>1 DEF Pends
  <2> QED BY <1>8, <1>9, <1>11, <2>1, <2>2, <2>3 DEF ClausePends
<1>13. PICK fs : fs = [frames EXCEPT ![Depth] = g]  OBVIOUS
<1>14. g = fs[d] /\ \A i \in 1 .. d - 1 : fs[i] = frames[i]
  BY <1>4, <1>6, <1>10, <1>13, TopSet
<1>15. Pends(program, fs, d, f.current, e)  BY <1>9, <1>10, <1>12, <1>14, PendsSame
<1>16. CodeOf(program, fs, d) = s  BY <1>5, <1>10, <1>14 DEF CodeOf
<1>17. Handles(program, fs, d)  BY <1>10, <1>14, <1>15, <1>16 DEF Handles
<1>18. LandsRight'  BY <1>4 DEF LInv, LandsRight
<1> QED BY <1>2, <1>4, <1>6, <1>10, <1>13, <1>17, <1>18, LKept

\* A frame that goes on with its exception handled.
LEMMA HandledLands ==
  ASSUME IInv, LInv, Depth > 0, flying = NoException, NEW f, f = Top, NEW i \in Nat,
         SetTop(GoTo(Handled(f), i)), f.exception.goal = <<Depth, i>>,
         Lands(f.exception, Depth, i), UNCHANGED <<program, flying, errors>>
  PROVE  LInv'
<1>1. f \in FrameType  BY TopInv
<1>2. PICK h : h = Handled(f)  OBVIOUS
<1>3. h \in FrameType /\ h.code = f.code /\ h.block = f.block /\ h.exception = NoException
  BY <1>1, <1>2, HandledFields
<1>4. PICK g : g = GoTo(h, i)  OBVIOUS
<1>5. g \in FrameType /\ g.code = f.code /\ g.block = f.block /\ g.exception = NoException
  BY <1>3, <1>4, GoToFields
<1>6. LandsRight'  BY DEF LandsRight, Lands
<1> QED BY <1>2, <1>4, <1>5, <1>6, LQuiet

\* A loop takes a jump.
LEMMA LoopLands ==
  ASSUME IInv, LInv, ContinueLoop
  PROVE  LInv'
<1>1. PICK s : s = program[Top.code]  OBVIOUS
<1>2. PICK f : f = Top  OBVIOUS
<1>3. PICK i : i = LoopAddress(f)  OBVIOUS
<1>4. /\ Depth > 0 /\ flying = NoException /\ f.mode = "match" /\ LoopTakes(f)
      /\ SetTop(GoTo(Handled(f), i)) /\ Lands(f.exception, Depth, i)
      /\ UNCHANGED <<program, flying, errors>>
  BY <1>2, <1>3 DEF ContinueLoop, Handling
<1>5. s = program[f.code] /\ AtClause(s, f)  BY <1>1, <1>2, <1>4 DEF AtClause
<1>6. PICK d : d = Depth  OBVIOUS
<1>7. PICK e : e = f.exception  OBVIOUS
<1>8. PICK b : b = f.loop  OBVIOUS
<1>9. /\ ClausePends(program, frames, d, e) /\ s \in ScopeType /\ BlocksNested(s)
      /\ f \in FrameType /\ FrameInv(program, f) /\ program \in Programs
      /\ CodeOf(program, frames, d) = s /\ f = frames[d]
      /\ e \in ExceptionType /\ b \in DOMAIN s.blocks /\ b \in Around(s, b)
  BY <1>2, <1>4, <1>5, <1>6, <1>7, <1>8, LClause
<1>10. i \in Nat  BY <1>3, <1>4, <1>9, LoopGoesOn
<1>11. /\ Block(f, f.loop) = s.blocks[b] /\ IsLoop(s, b) /\ e.kind \in {"break", "next", "redo"}
       /\ b # 0
  <2>1. Block(f, f.loop) = s.blocks[b]  BY <1>5, <1>8 DEF Block, Blocks
  <2>2. b # 0  BY <1>9, ScopeTyped
  <2> QED BY <1>4, <1>7, <2>1, <2>2 DEF LoopTakes, IsLoop
<1>12. StayPends(s, d, b, e)
  <2>1. ~ExitPends(program, frames, d, b, e)
    <3> SUFFICES ASSUME ExitPends(program, frames, d, b, e) PROVE FALSE  OBVIOUS
    <3>1. e.kind = "break"  BY <1>11 DEF ExitPends, Exits
    <3>2. Guarded(s, b, e.kind)  BY <1>9, <1>11, <3>1 DEF Guarded
    <3> QED BY <1>9, <3>2 DEF ExitPends
  <2>2. e.kind # "error"  BY <1>11
  <2> QED BY <1>8, <1>9, <2>1, <2>2 DEF ClausePends, ErrorPends
<1>13. PICK home \in BlockNumbers(s) : HomeJump(s, b, home, e.kind, e.pos, e.goal[2])
  BY <1>12 DEF StayPends
<1>14. home = b  BY <1>9, <1>11, <1>13, HomeOutside
<1>15. e.goal[2] = i
  <2>1. CASE e.kind = "break"  BY <1>3, <1>7, <1>11, <1>13, <1>14, <2>1 DEF HomeJump, LoopAddress
  <2>2. CASE e.kind = "next"  BY <1>3, <1>7, <1>11, <1>13, <1>14, <2>2 DEF HomeJump, LoopAddress
  <2>3. CASE e.kind = "redo"  BY <1>3, <1>7, <1>11, <1>13, <1>14, <2>3 DEF HomeJump, LoopAddress
  <2> QED BY <1>11, <2>1, <2>2, <2>3
<1>16. e.goal = <<d, i>>
  <2>1. e.goal \in Nat \X Nat /\ e.goal[1] = d  BY <1>9, <1>12 DEF ExceptionType, StayPends
  <2> QED BY <1>15, <2>1
<1> QED BY <1>2, <1>4, <1>6, <1>7, <1>10, <1>16, HandledLands

\* What a frame that no block is left in has to do with its exception.
LEMMA LNoBlock ==
  ASSUME IInv, LInv, Handling("handle"), Top.current = 0, NEW f, f = Top,
         NEW e, e = f.exception, NEW d, d = Depth, NEW s, s = program[f.code]
  PROVE  /\ Pends(program, frames, d, 0, e) /\ e # NoException
         /\ s \in ScopeType /\ BlocksNested(s) /\ CodeOf(program, frames, d) = s
         /\ f \in FrameType /\ FrameInv(program, f) /\ program \in Programs
         /\ f = frames[d] /\ d \in Nat \ {0} /\ e \in ExceptionType
         /\ Depth > 0 /\ flying = NoException /\ f.mode = "handle"
<1>1. Depth > 0 /\ flying = NoException /\ f.mode = "handle"  BY DEF Handling
<1>2. /\ f \in FrameType /\ FrameInv(program, f) /\ program \in Programs /\ FrameOK(program, f)
      /\ f = frames[d] /\ d \in Nat \ {0} /\ HandleOK(s, f)
  BY <1>1, TopInv DEF IInv, TypeInv, FrameInv
<1>3. s \in ScopeType /\ BlocksNested(s)  BY <1>2, FrameScope DEF ScopeVerified
<1>4. e # NoException  BY <1>1, <1>2 DEF HandleOK
<1>5. Handles(program, frames, d)  BY <1>1, <1>4, LTop
<1>6. CodeOf(program, frames, d) = s  BY <1>2 DEF CodeOf
<1>7. ~AtClauses(s, f)  BY <1>1 DEF AtClauses
<1>8. Pends(program, frames, d, 0, e)  BY <1>2, <1>5, <1>6, <1>7 DEF Handles
<1> QED BY <1>1, <1>2, <1>3, <1>4, <1>6, <1>8 DEF FrameType

\* A redo starts the code of the frame again.
LEMMA RestartLands ==
  ASSUME IInv, LInv, RestartBlock
  PROVE  LInv'
<1>1. PICK f : f = Top  OBVIOUS
<1>2. PICK e : e = f.exception  OBVIOUS
<1>3. PICK i : i = e.pos  OBVIOUS
<1>4. /\ Handling("handle") /\ Top.current = 0 /\ e.kind = "redo" /\ f.current = 0
      /\ SetTop(GoTo(Handled(f), i)) /\ Lands(f.exception, Depth, i)
      /\ UNCHANGED <<program, flying, errors>>
  BY <1>1, <1>2, <1>3 DEF RestartBlock
<1>5. PICK d : d = Depth  OBVIOUS
<1>6. PICK s : s = program[f.code]  OBVIOUS
<1>7. /\ Pends(program, frames, d, 0, e)
      /\ s \in ScopeType /\ BlocksNested(s) /\ CodeOf(program, frames, d) = s
      /\ e \in ExceptionType /\ Depth > 0 /\ flying = NoException
  BY <1>1, <1>2, <1>4, <1>5, <1>6, LNoBlock
<1>8. StayPends(s, d, 0, e)
  BY <1>4, <1>7 DEF Pends, ErrorPends, ExitPends, Exits
<1>9. e.goal[1] = d /\ e.goal[2] = i
  BY <1>3, <1>4, <1>8 DEF StayPends, HomeJump
<1>10. e.goal \in Nat \X Nat /\ i \in Nat  BY <1>3, <1>7 DEF ExceptionType
<1>11. e.goal = <<d, i>>  BY <1>9, <1>10
<1> QED BY <1>1, <1>2, <1>4, <1>5, <1>7, <1>10, <1>11, HandledLands

\* next, or return, ends the frame.
LEMMA ReturnValueLands ==
  ASSUME IInv, LInv, ReturnValue
  PROVE  LInv'
<1>1. PICK f : f = Top  OBVIOUS
<1>2. PICK e : e = f.exception  OBVIOUS
<1>3. /\ Handling("handle") /\ Top.current = 0 /\ EndsFrame(f) /\ Pop /\ Lands(e, Depth, 0)
      /\ UNCHANGED <<program, flying, errors>>
  BY <1>1, <1>2 DEF ReturnValue
<1>4. PICK d : d = Depth  OBVIOUS
<1>5. PICK s : s = program[f.code]  OBVIOUS
<1>6. /\ Pends(program, frames, d, 0, e)
      /\ s \in ScopeType /\ BlocksNested(s) /\ CodeOf(program, frames, d) = s
      /\ f = frames[d] /\ d \in Nat \ {0}
      /\ e \in ExceptionType /\ Depth > 0 /\ flying = NoException
  BY <1>1, <1>2, <1>3, <1>4, <1>5, LNoBlock
<1>7. e.goal = <<d, 0>>
  <2>1. CASE e.kind = "next"
    <3>1. StayPends(s, d, 0, e)  BY <1>6, <2>1 DEF Pends, ErrorPends, ExitPends, Exits
    <3>2. PICK home \in BlockNumbers(s) : HomeJump(s, 0, home, e.kind, e.pos, e.goal[2])
      BY <3>1 DEF StayPends
    <3>3. home = 0  BY <1>6, <3>2, HomeNone
    <3>4. e.goal[1] = d /\ e.goal[2] = 0  BY <2>1, <3>1, <3>2, <3>3 DEF StayPends, HomeJump
    <3>5. e.goal \in Nat \X Nat  BY <1>6 DEF ExceptionType
    <3> QED BY <3>4, <3>5
  <2>2. CASE e.kind = "return" /\ e.target = f.code
    <3>1. ExitPends(program, frames, d, 0, e)  BY <1>6, <2>2 DEF Pends, ErrorPends, StayPends, Stays
    <3>2. PICK t : t = e.target  OBVIOUS
    <3>3. frames[d].code = t  BY <1>6, <2>2, <3>2
    <3>4. Running(frames, d, t) = d  BY <1>6, <3>3, RunningLast
    <3> QED BY <2>2, <3>1, <3>2, <3>4 DEF ExitPends, ExitGoal
  <2> QED BY <1>2, <1>3, <2>1, <2>2 DEF EndsFrame
<1>8. LandsRight'  BY <1>3, <1>4, <1>7 DEF LandsRight, Lands
<1> QED BY <1>3, <1>6, <1>8, LPopped

\* No block is left: the exception leaves the frame.
LEMMA LeaveLands ==
  ASSUME IInv, LInv, LeaveFrame
  PROVE  LInv'
<1>1. PICK f : f = Top  OBVIOUS
<1>2. PICK e : e = f.exception  OBVIOUS
<1>3. /\ Handling("handle") /\ Top.current = 0 /\ ~EndsFrame(f) /\ flying' = e
      /\ UNCHANGED <<program, frames, errors, landing>>
  BY <1>1, <1>2 DEF LeaveFrame
<1>4. PICK d : d = Depth  OBVIOUS
<1>5. PICK s : s = program[f.code]  OBVIOUS
<1>6. Pends(program, frames, d, 0, e) /\ e # NoException /\ f = frames[d] /\ Depth > 0
  BY <1>1, <1>2, <1>3, <1>4, <1>5, LNoBlock
<1>7. d = Len(frames)  BY <1>4 DEF Depth
<1>8. GoalInv'  BY <1>2, <1>3, <1>6, <1>7 DEF GoalInv
<1>9. StackInv' /\ LandsRight'  BY <1>3 DEF LInv, StackInv, LandsRight
<1> QED BY <1>8, <1>9 DEF LInv

\* A return op.
LEMMA ReturnLands ==
  ASSUME IInv, LInv, Return
  PROVE  LInv'
<1>1. /\ Runs("return") /\ Pop /\ UNCHANGED <<program, flying, errors, landing>>
  BY DEF Return
<1>2. Depth > 0 /\ flying = NoException  BY <1>1 DEF Runs
<1>3. LandsRight'  BY <1>1 DEF LInv, LandsRight
<1> QED BY <1>1, <1>2, <1>3, LPopped

\* A break ends in the frame it names.
LEMMA BreakLands ==
  ASSUME IInv, LInv, CatchBreak
  PROVE  LInv'
<1>1. PICK f : f = Top  OBVIOUS
<1>2. PICK e : e = flying  OBVIOUS
<1>3. PICK d : d = Depth  OBVIOUS
<1>4. /\ e.kind = "break" /\ Depth > 0 /\ f.exception = NoException /\ e.target = f.code
      /\ flying' = NoException /\ Lands(e, d, f.ip) /\ UNCHANGED <<program, frames, errors>>
  BY <1>1, <1>2, <1>3 DEF CatchBreak
<1>5. /\ program \in Programs /\ FrameOK(program, f) /\ f = frames[d] /\ d = Len(frames)
  BY <1>1, <1>3, <1>4, TopInv
<1>6. f.code # 0  BY <1>5, ProgramTyped DEF FrameOK
<1>7. e # NoException  BY <1>4 DEF NoException, Exception
<1>8. Flies(program, frames, d, e)  BY <1>1, <1>2, <1>3, <1>4, <1>7, LTop
<1>9. BreakIn(f, e)  BY <1>4, <1>6 DEF BreakIn
<1>10. ~Pends(program, frames, d, InOf(program, frames, d), e)
  BY <1>4, <1>5, <1>6, <1>9 DEF Pends, ErrorPends, StayPends, Stays, ExitPends
<1>11. e.goal = <<d, f.ip>>  BY <1>5, <1>8, <1>10 DEF Flies
<1>12. LandsRight'  BY <1>4, <1>11 DEF LandsRight, Lands
<1>13. GoalInv'  BY <1>1, <1>4, <1>5 DEF GoalInv
<1>14. StackInv'  BY <1>4 DEF LInv, StackInv
<1> QED BY <1>12, <1>13, <1>14 DEF LInv

\* A frame catches an exception.
LEMMA CatchLands ==
  ASSUME IInv, LInv, Catch
  PROVE  LInv'
<1>1. PICK f : f = Top  OBVIOUS
<1>2. PICK e : e = flying  OBVIOUS
<1>3. PICK d : d = Depth  OBVIOUS
<1>4. PICK g : g = [f EXCEPT !.exception = e, !.mode = "handle"]  OBVIOUS
<1>5. /\ e # NoException /\ Depth > 0 /\ f.exception = NoException /\ SetTop(g)
      /\ ~(e.kind = "break" /\ e.target = f.code)
      /\ flying' = NoException /\ UNCHANGED <<program, errors, landing>>
  BY <1>1, <1>2, <1>4 DEF Catch
<1>6. /\ f \in FrameType /\ FrameInv(program, f) /\ program \in Programs
      /\ f = frames[Len(frames)] /\ f = frames[d] /\ e \in ExceptionType /\ Len(frames) > 0
  BY <1>1, <1>2, <1>3, <1>5, TopInv DEF IInv, TypeInv
<1>7. PICK s : s = program[f.code]  OBVIOUS
<1>8. Threw(program, f, RaisingNames)
  <2>1. FliesOver(program, f, e)  BY <1>2, <1>5, <1>6 DEF IInv, FlyingInv
  <2> QED BY <1>5, <2>1 DEF FliesOver
<1>9. /\ s \in ScopeType /\ BlocksNested(s) /\ f.current \in BlockNumbers(s)
      /\ Near(s, f.current, PastOp(program, f).in)
  BY <1>6, <1>7, <1>8, PastPlaced
<1>10. s = CodeOf(program, frames, d) /\ PastOp(program, f).in = InOf(program, frames, d)
  BY <1>6, <1>7 DEF CodeOf, InOf
<1>11. PICK u : u = InOf(program, frames, d)  OBVIOUS
<1>12. Pends(program, frames, d, u, e) /\ (Stays(e) => ~IsLoop(s, u))
  <2>1. Flies(program, frames, d, e)  BY <1>1, <1>2, <1>3, <1>5, LTop
  <2>2. ~BreakIn(frames[d], e)  BY <1>5, <1>6 DEF BreakIn
  <2> QED BY <1>10, <1>11, <2>1, <2>2 DEF Flies
<1>13. Pends(program, frames, d, f.current, e)
  BY <1>9, <1>10, <1>11, <1>12, PendsNear
<1>14. /\ g \in FrameType /\ g.code = f.code /\ g.block = f.block
       /\ g.mode = "handle" /\ g.current = f.current /\ g.exception = e
  BY <1>4, <1>6 DEF FrameType, Modes
<1>15. PICK fs : fs = [frames EXCEPT ![Depth] = g]  OBVIOUS
<1>16. d \in Nat \ {0} /\ g = fs[d] /\ \A i \in 1 .. d - 1 : fs[i] = frames[i]
  BY <1>3, <1>5, <1>14, <1>15, TopSet
<1>17. Pends(program, fs, d, f.current, e)  BY <1>6, <1>13, <1>14, <1>16, PendsSame
<1>18. Handles(program, fs, d)
  BY <1>14, <1>16, <1>17 DEF Handles, AtClauses
<1>19. LandsRight'  BY <1>5 DEF LInv, LandsRight
<1> QED BY <1>1, <1>3, <1>5, <1>14, <1>15, <1>18, <1>19, LKept

\* What a jump leads to is a scope of the program.
LEMMA LeadsTyped ==
  ASSUME NEW p \in Programs, NEW kind \in {"break", "return"}, NEW c \in DOMAIN p, NEW t,
         Leads(p, Owner(p), kind, c, t)
  PROVE  t \in DOMAIN p
<1>1. CallsPlaced(p) /\ DOMAIN p = 1 .. Len(p) /\ Len(p) \in Nat  BY ProgramTyped DEF Verified
<1>2. t \in 0 .. Len(p)
  <2>1. CASE kind = "break"
    <3>1. PICK i \in DOMAIN p[c].ops : p[c].ops[i].to = t /\ Name(p[c], i) = "unwind_break"
      BY <2>1 DEF Leads, BreaksTo
    <3> QED BY <1>1, <3>1 DEF CallsPlaced
  <2>2. CASE kind = "return"
    <3>1. Owner(p) \in [DOMAIN p -> 0 .. Len(p)]
      <4>1. \E owner \in [DOMAIN p -> 0 .. Len(p)] : ExitsPlaced(p, owner)
        BY JumpsAssumption DEF JumpsVerified
      <4> QED BY <4>1 DEF Owner
    <3> QED BY <2>2, <3>1 DEF Leads
  <2> QED BY <2>1, <2>2
<1>3. t # 0  BY DEF Leads, BreaksTo
<1> QED BY <1>1, <1>2, <1>3

\* What is known of a call.
LEMMA CallPlaced ==
  ASSUME NEW p \in Programs, NEW c \in DOMAIN p, NEW i \in DOMAIN p[c].ops,
         NEW op, op = p[c].ops[i], op.name = "call"
  PROVE  /\ op.to \in DOMAIN p /\ (op.with # 0 => op.with \in DOMAIN p)
         /\ \A t \in DOMAIN p : /\ ~BreaksTo(p[op.to], t)
                                /\ op.with # 0 /\ BreaksTo(p[op.with], t) => t = c
         /\ Owner(p)[op.to] = 0
         /\ op.with # 0 => Owner(p)[op.with] = IF Owner(p)[c] = 0 THEN c ELSE Owner(p)[c]
         /\ CallLets(p, Owner(p), c, op)
<1>1. /\ CallsPlaced(p) /\ ExitsPlaced(p, Owner(p)) /\ DOMAIN p = 1 .. Len(p) /\ Len(p) \in Nat
      /\ Name(p[c], i) = "call"
  BY OwnerPlaced, ProgramTyped DEF Verified, Name
<1>2. /\ op.to \in DOMAIN p /\ op.with \in 0 .. Len(p)
      /\ \A t \in DOMAIN p : /\ ~BreaksTo(p[op.to], t)
                             /\ op.with # 0 /\ BreaksTo(p[op.with], t) => t = c
  BY <1>1 DEF CallsPlaced
<1>3. op.with # 0 => op.with \in DOMAIN p  BY <1>1, <1>2
<1>4. /\ Owner(p)[op.to] = 0
      /\ op.with # 0 => Owner(p)[op.with] = IF Owner(p)[c] = 0 THEN c ELSE Owner(p)[c]
      /\ CallLets(p, Owner(p), c, op)
  BY <1>1 DEF ExitsPlaced
<1> QED BY <1>2, <1>3, <1>4

\* A jump that leaves the frame f, called by c, leads on from there: nothing c has around
\* its call takes it, unless it ends there.  under called c.
LEMMA ExitLeaves ==
  ASSUME NEW p \in Programs, NEW e, Exits(e),
         NEW c \in FrameType, FrameInv(p, c), Threw(p, c, {"call", "yield"}),
         NEW s, s = p[c.code],
         NEW i \in DOMAIN s.ops, i = c.ip - 1, NEW op, op = s.ops[i],
         NEW f \in FrameType, FrameInv(p, f), Made(p, c, f), f.code # e.target, OnWay(p, f, e),
         c.block = 0 \/ \E under \in FrameType : /\ FrameInv(p, under) /\ Made(p, under, c)
                                                 /\ Threw(p, under, {"call", "yield"})
  PROVE  BreakIn(c, e) \/ (OnWay(p, c, e) /\ ~BreakIn(c, e) /\ ~Guarded(s, op.in, e.kind))
<1>1. PICK t : t = e.target  OBVIOUS
<1>2. PICK kind : kind = e.kind  OBVIOUS
<1>3. kind \in {"break", "return"} /\ (kind = "break" => t # 0)  BY <1>1, <1>2 DEF Exits
<1>4. ExitsPlaced(p, Owner(p)) /\ CallsPlaced(p)  BY OwnerPlaced, ProgramTyped DEF Verified
<1>5. FrameOK(p, c) /\ FrameOK(p, f) /\ c.code \in DOMAIN p  BY DEF FrameInv, FrameOK
<1>6. PastOp(p, c) = op /\ Name(s, i) = op.name  BY DEF PastOp, Name
<1>7. LeadsOn(p, f.code, e) \/ (f.block # 0 /\ LeadsOn(p, f.block, e))  BY DEF OnWay
<1>8. CASE op.name = "call" /\ f.code = op.to /\ f.block = op.with
  <2>1. /\ Owner(p)[op.to] = 0
        /\ op.with # 0 => Owner(p)[op.with] = IF Owner(p)[c.code] = 0 THEN c.code ELSE Owner(p)[c.code]
        /\ CallLets(p, Owner(p), c.code, op)
    BY <1>5, <1>8, CallPlaced
  <2>2. \A t1 \in DOMAIN p : /\ ~BreaksTo(p[op.to], t1)
                             /\ op.with # 0 /\ BreaksTo(p[op.with], t1) => t1 = c.code
    BY <1>5, <1>8, CallPlaced
  <2>3. op.to \in DOMAIN p /\ (op.with # 0 => op.with \in DOMAIN p)
    BY <1>5, <1>8, CallPlaced
  <2>4. ~LeadsOn(p, op.to, e)
    <3> SUFFICES ASSUME Leads(p, Owner(p), kind, op.to, t) PROVE FALSE
      BY <1>1, <1>2 DEF LeadsOn
    <3>1. t \in DOMAIN p  BY <1>3, <2>3, LeadsTyped
    <3> QED BY <1>3, <2>1, <2>2, <3>1 DEF Leads
  <2>5. op.with # 0 /\ Leads(p, Owner(p), kind, op.with, t)
    BY <1>1, <1>2, <1>7, <1>8, <2>4 DEF LeadsOn
  <2>6. t \in DOMAIN p  BY <1>3, <2>3, <2>5, LeadsTyped
  <2>7. CASE kind = "break"
    <3>1. t = c.code  BY <2>2, <2>5, <2>6, <2>7 DEF Leads
    <3> QED BY <1>1, <1>2, <1>3, <2>7, <3>1 DEF BreakIn
  <2>8. CASE kind = "return"
    <3>1. ~Guarded(s, op.in, kind)  BY <1>3, <2>1, <2>5, <2>6, <2>8 DEF CallLets
    <3>2. Owner(p)[op.with] = t /\ t # 0 /\ Returned(p, t)  BY <2>5, <2>8 DEF Leads
    <3>3. c.code = t \/ Leads(p, Owner(p), kind, c.code, t)
      BY <2>1, <2>5, <2>8, <3>2 DEF Leads
    <3>4. OnWay(p, c, e)  BY <1>1, <1>2, <3>3 DEF OnWay, LeadsOn
    <3>5. ~BreakIn(c, e)  BY <1>2, <2>8 DEF BreakIn
    <3> QED BY <1>2, <3>1, <3>4, <3>5
  <2> QED BY <1>3, <2>7, <2>8
<1>9. CASE op.name = "yield" /\ f.code = c.block /\ f.block = 0
  <2>1. LeadsOn(p, c.block, e)  BY <1>7, <1>9
  <2>2. c.block # 0 /\ c.block \in DOMAIN p
    <3>1. Yields(s)  BY <1>6, <1>9 DEF Yields
    <3>2. c.block # 0  BY <1>5, <3>1 DEF FrameOK
    <3> QED BY <1>5, <1>9, <3>2 DEF FrameOK
  <2>3. OnWay(p, c, e)  BY <2>1, <2>2 DEF OnWay
  <2>4. PICK under \in FrameType : /\ FrameInv(p, under) /\ Made(p, under, c)
                                   /\ Threw(p, under, {"call", "yield"})
    BY <2>2
  <2>5. PICK j \in DOMAIN p[under.code].ops : j = under.ip - 1
    <3>1. FrameOK(p, under)  BY <2>4 DEF FrameInv
    <3>2. under.code \in DOMAIN p /\ under.ip \in DOMAIN p[under.code].ops  BY <3>1 DEF FrameOK
    <3>3. p[under.code] \in ScopeType  BY <3>2, ProgramTyped
    <3>4. DOMAIN p[under.code].ops = 1 .. Len(p[under.code].ops) /\ Len(p[under.code].ops) \in Nat
      BY <3>3, ScopeTyped
    <3> QED BY <2>4, <3>2, <3>4 DEF Threw
  <2>6. PICK call : call = p[under.code].ops[j]  OBVIOUS
  <2>7. /\ PastOp(p, under) = call /\ Name(p[under.code], j) = call.name /\ under.code \in DOMAIN p
    BY <2>4, <2>5, <2>6 DEF PastOp, Name, FrameInv, FrameOK
  <2>8. call.name = "call" /\ c.code = call.to /\ c.block = call.with
    BY <2>2, <2>4, <2>7 DEF Made
  <2>9. CallLets(p, Owner(p), under.code, call)  BY <2>6, <2>7, <2>8, CallPlaced
  <2>10. Leads(p, Owner(p), kind, call.with, t) /\ call.with \in DOMAIN p
    BY <1>1, <1>2, <2>1, <2>2, <2>8 DEF LeadsOn
  <2>11. t \in DOMAIN p  BY <1>3, <2>10, LeadsTyped
  <2>12. ~Guarded(s, op.in, kind)
    <3>1. call.to = c.code /\ call.with # 0  BY <2>2, <2>8
    <3>2. \A x \in DOMAIN p[c.code].ops :
            Name(p[c.code], x) = "yield" => ~Guarded(p[c.code], p[c.code].ops[x].in, kind)
      BY <1>3, <2>9, <2>10, <2>11, <3>1 DEF CallLets
    <3> QED BY <1>6, <1>9, <3>2
  <2> QED BY <1>2, <2>3, <2>12
<1> QED BY <1>6, <1>8, <1>9 DEF Made


\* What leaves a frame goes on looking below: an error no block around takes, and a jump
\* that is to end elsewhere.
LEMMA ErrorBelow ==
  ASSUME NEW p, NEW fs, NEW d \in Nat \ {0}, NEW s \in ScopeType, BlocksNested(s),
         CodeOf(p, fs, d) = s, NEW e, ErrorPends(p, fs, d, 0, e)
  PROVE  /\ e.kind = "error" /\ e.class \in {"standard", "fatal"}
         /\ e.goal = Rescued(p, fs, d - 1, e.class)
BY RescuersNone DEF ErrorPends, RescuedFrom

\* A jump that leaves the scope it is in.
LEMMA ExitBelow ==
  ASSUME NEW p, NEW fs, NEW d \in Nat \ {0}, NEW e, ExitPends(p, fs, d, 0, e),
         fs[d].code # e.target
  PROVE  Exits(e) /\ e.class = "jump" /\ ExitGoal(fs, d - 1, e) /\ OnWay(p, fs[d], e)
<1>1. PICK t : t = e.target  OBVIOUS
<1>2. Running(fs, d, t) = Running(fs, d - 1, t)  BY <1>1, RunningLast
<1> QED BY <1>1, <1>2 DEF ExitPends, ExitGoal

\* What is thrown on from a frame is an error, or a jump that is to end elsewhere.
LEMMA ThrownOn ==
  ASSUME IInv, LInv, Depth > 0, flying # NoException, Top.exception # NoException,
         NEW f, f = Top, NEW e, e = flying, NEW d, d = Depth
  PROVE  \/ ErrorPends(program, frames, d, 0, e)
         \/ ExitPends(program, frames, d, 0, e) /\ f.code # e.target
<1>1. /\ f \in FrameType /\ FrameInv(program, f) /\ FrameOK(program, f) /\ program \in Programs
      /\ f = frames[d] /\ f = frames[Len(frames)] /\ Len(frames) > 0
  BY TopInv DEF IInv, TypeInv
<1>2. PICK s : s = program[f.code]  OBVIOUS
<1>3. s \in ScopeType /\ BlocksNested(s) /\ CodeOf(program, frames, d) = s
  BY <1>1, <1>2, FrameScope DEF ScopeVerified, CodeOf
<1>4. f.exception = e /\ e.kind # "redo"
  BY <1>1 DEF IInv, FlyingInv, FliesOver, Threw
<1>5. Pends(program, frames, d, 0, e) /\ ~EndsFrame(f)  BY LTop
<1>6. e.kind # "next" /\ ~(e.kind = "return" /\ e.target = f.code)
  BY <1>4, <1>5 DEF EndsFrame
<1>7. ~StayPends(s, d, 0, e)
  <2> SUFFICES ASSUME StayPends(s, d, 0, e) PROVE FALSE  OBVIOUS
  <2>1. PICK home \in BlockNumbers(s) : HomeJump(s, 0, home, e.kind, e.pos, e.goal[2])
    BY DEF StayPends
  <2>2. home = 0  BY <1>3, <2>1, HomeNone
  <2>3. e.kind = "break"  BY <1>4, <1>6 DEF StayPends, Stays
  <2> QED BY <2>1, <2>2, <2>3 DEF HomeJump
<1>8. ExitPends(program, frames, d, 0, e) => f.code # e.target
  BY <1>1, <1>6 DEF ExitPends, Exits, BreakIn
<1> QED BY <1>3, <1>5, <1>7, <1>8 DEF Pends

\* The script's frame: an error is nobody's, and a jump does not come this far.
LEMMA RethrowEnds ==
  ASSUME IInv, LInv, Rethrow, Depth = 1
  PROVE  LInv'
<1>1. PICK f : f = Top  OBVIOUS
<1>2. PICK e : e = flying  OBVIOUS
<1>3. /\ e # NoException /\ f.exception # NoException /\ Pop /\ flying' = NoException
      /\ Lands(e, 0, 0) /\ program' = program
  BY <1>1, <1>2 DEF Rethrow
<1>4. /\ f \in FrameType /\ FrameOK(program, f) /\ program \in Programs
      /\ f = frames[1] /\ Len(frames) = 1
  BY <1>1, TopInv
<1>5. PICK s : s = program[f.code]  OBVIOUS
<1>6. s \in ScopeType /\ BlocksNested(s) /\ CodeOf(program, frames, 1) = s
  BY <1>4, <1>5, FrameScope DEF ScopeVerified, CodeOf
<1>7. f.code = 1 /\ f.block = 0  BY <1>4 DEF LInv, StackInv
<1>8. ~(ExitPends(program, frames, 1, 0, e) /\ f.code # e.target)
  <2> SUFFICES ASSUME ExitPends(program, frames, 1, 0, e), f.code # e.target PROVE FALSE
    OBVIOUS
  <2>1. Exits(e) /\ ExitGoal(frames, 0, e) /\ OnWay(program, f, e)
    <3>1. 1 - 1 = 0 /\ 1 \in Nat \ {0}  OBVIOUS
    <3>2. ExitGoal(frames, 1 - 1, e)  BY <1>4, <3>1, ExitBelow
    <3> QED BY <1>4, <3>1, <3>2, ExitBelow
  <2>2. Leads(program, Owner(program), e.kind, 1, e.target)
    BY <1>7, <2>1 DEF OnWay, LeadsOn
  <2>3. Running(frames, 0, e.target) = 0  BY DEF Running, RunningFrames
  <2>4. e.kind = "return"  BY <2>1, <2>3 DEF Exits, ExitGoal
  <2>5. Owner(program)[1] = 0  BY <1>4, OwnerPlaced DEF ExitsPlaced
  <2> QED BY <2>2, <2>4, <2>5 DEF Leads
<1>9. ErrorPends(program, frames, 1, 0, e)  BY <1>1, <1>2, <1>3, <1>8, ThrownOn
<1>10. e.goal = <<0, 0>>
  <2>1. 1 - 1 = 0 /\ 1 \in Nat \ {0}  OBVIOUS
  <2>2. e.goal = Rescued(program, frames, 0, e.class)  BY <1>6, <1>9, <2>1, ErrorBelow
  <2> QED BY <2>2, RescuedNone
<1>11. LandsRight'  BY <1>3, <1>10 DEF LandsRight, Lands
<1> QED BY <1>3, <1>11, LPopped

\* The frames below the running one, each past the op that made the next.
LEMMA FrameBelow ==
  ASSUME IInv, LInv, NEW k \in 1 .. Len(frames) - 1, NEW c, c = frames[k]
  PROVE  /\ c \in FrameType /\ FrameInv(program, c) /\ Threw(program, c, {"call", "yield"})
         /\ Made(program, c, frames[k + 1])
         /\ c.block = 0 \/ \E under \in FrameType :
                             /\ FrameInv(program, under) /\ Made(program, under, c)
                             /\ Threw(program, under, {"call", "yield"})
<1>1. frames \in Seq(FrameType) /\ Len(frames) \in Nat  BY DEF IInv, TypeInv
<1>2. /\ \A d \in 1 .. Len(frames) - 1 :
           /\ frames[d] \in FrameType /\ FrameInv(program, frames[d])
           /\ Threw(program, frames[d], {"call", "yield"})
           /\ Made(program, frames[d], frames[d + 1])
  BY <1>1 DEF IInv, FramesInv, CallersInv, LInv, StackInv
<1>3. CASE k = 1
  <2>1. c.block = 0  BY <1>1, <1>3 DEF LInv, StackInv
  <2> QED BY <1>2, <2>1
<1>4. CASE k # 1
  <2>1. PICK d : d = k - 1  OBVIOUS
  <2>2. d \in 1 .. Len(frames) - 1 /\ d + 1 = k  BY <1>1, <1>4, <2>1
  <2> QED BY <1>2, <2>2
<1> QED BY <1>3, <1>4

\* An exception is thrown on over the frame below.
LEMMA RethrowFlies ==
  ASSUME IInv, LInv, Rethrow, Depth # 1, NEW k, k = Depth - 1, NEW e, e = flying
  PROVE  k \in 1 .. Len(frames) - 1 /\ Flies(program, frames, k, e)
<1>1. PICK f : f = Top  OBVIOUS
<1>2. PICK d : d = Depth  OBVIOUS
<1>3. e # NoException /\ f.exception # NoException /\ d > 0  BY <1>1, <1>2 DEF Rethrow
<1>4. /\ f \in FrameType /\ FrameInv(program, f) /\ program \in Programs
      /\ f = frames[d] /\ d = Len(frames) /\ d \in Nat \ {0} /\ FrameOK(program, f)
  BY <1>1, <1>2, <1>3, TopInv
<1>5. k \in 1 .. Len(frames) - 1 /\ k + 1 = d /\ k = d - 1 /\ k \in Nat \ {0}
  BY <1>2, <1>4
<1>6. PICK c : c = frames[k]  OBVIOUS
<1>7. /\ c \in FrameType /\ FrameInv(program, c) /\ Threw(program, c, {"call", "yield"})
      /\ Made(program, c, f)
      /\ c.block = 0 \/ \E under \in FrameType :
                          /\ FrameInv(program, under) /\ Made(program, under, c)
                          /\ Threw(program, under, {"call", "yield"})
  BY <1>4, <1>5, <1>6, FrameBelow
<1>8. CASE ErrorPends(program, frames, d, 0, e)
  <2>1. PICK s : s = program[f.code]  OBVIOUS
  <2>2. s \in ScopeType /\ BlocksNested(s) /\ CodeOf(program, frames, d) = s
    BY <1>4, <2>1, FrameScope DEF ScopeVerified, CodeOf
  <2>3. /\ e.kind = "error" /\ e.class \in {"standard", "fatal"}
        /\ e.goal = Rescued(program, frames, k, e.class)
    BY <1>4, <1>5, <1>8, <2>2, ErrorBelow
  <2>4. ErrorPends(program, frames, k, InOf(program, frames, k), e)
    BY <1>5, <2>3, RescuedLast DEF ErrorPends
  <2>5. ~Stays(e)  BY <2>3 DEF Stays
  <2> QED BY <1>5, <2>4, <2>5 DEF Flies, Pends
<1>9. CASE ExitPends(program, frames, d, 0, e) /\ f.code # e.target
  <2>1. Exits(e) /\ e.class = "jump" /\ ExitGoal(frames, k, e) /\ OnWay(program, f, e)
    BY <1>4, <1>5, <1>9, ExitBelow
  <2>2. PICK s : s = program[c.code]  OBVIOUS
  <2>3. Threw(program, c, RaisingNames)  BY <1>7 DEF Threw, RaisingNames
  <2>4. PICK i \in DOMAIN s.ops : i = c.ip - 1 /\ PastOp(program, c) = s.ops[i]
    BY <1>4, <1>7, <2>2, <2>3, PastPlaced
  <2>5. PICK op : op = s.ops[i]  OBVIOUS
  <2>6. BreakIn(c, e) \/ (OnWay(program, c, e) /\ ~BreakIn(c, e) /\ ~Guarded(s, op.in, e.kind))
    BY <1>4, <1>7, <1>9, <2>1, <2>2, <2>4, <2>5, ExitLeaves
  <2>7. InOf(program, frames, k) = op.in /\ CodeOf(program, frames, k) = s
    BY <1>6, <2>2, <2>4, <2>5 DEF InOf, CodeOf
  <2>8. ~Stays(e)  BY <2>1 DEF Stays, Exits
  <2>9. CASE BreakIn(c, e)
    <3>1. PICK t : t = e.target  OBVIOUS
    <3>2. frames[k].code = t  BY <1>6, <2>9, <3>1 DEF BreakIn
    <3>3. Running(frames, k, t) = k  BY <1>5, <3>2, RunningLast
    <3>4. e.goal = <<k, frames[k].ip>>  BY <2>1, <2>9, <3>1, <3>3 DEF ExitGoal, BreakIn
    <3> QED BY <1>5, <1>6, <2>9, <3>4 DEF Flies
  <2>10. CASE OnWay(program, c, e) /\ ~BreakIn(c, e) /\ ~Guarded(s, op.in, e.kind)
    <3>1. ExitPends(program, frames, k, InOf(program, frames, k), e)
      BY <1>6, <2>1, <2>7, <2>10 DEF ExitPends
    <3> QED BY <1>5, <2>8, <3>1 DEF Flies, Pends
  <2> QED BY <2>6, <2>9, <2>10
<1> QED BY <1>1, <1>2, <1>3, <1>8, <1>9, ThrownOn

\* What flies over a frame depends on that frame and those below.
LEMMA FliesSame ==
  ASSUME NEW p, NEW fs, NEW gs, NEW k \in Nat \ {0}, \A i \in 1 .. k : gs[i] = fs[i], NEW e,
         Flies(p, fs, k, e)
  PROVE  Flies(p, gs, k, e)
<1>1. gs[k] = fs[k] /\ \A i \in 1 .. k - 1 : gs[i] = fs[i]  OBVIOUS
<1>2. CodeOf(p, gs, k) = CodeOf(p, fs, k) /\ InOf(p, gs, k) = InOf(p, fs, k)
  BY <1>1 DEF CodeOf, InOf
<1>3. PICK b : b = InOf(p, fs, k)  OBVIOUS
<1>4. Pends(p, fs, k, b, e) => Pends(p, gs, k, b, e)  BY <1>1, PendsSame
<1> QED BY <1>1, <1>2, <1>3, <1>4 DEF Flies

\* A frame rethrows what it was leaving with.
LEMMA RethrowLands ==
  ASSUME IInv, LInv, Rethrow
  PROVE  LInv'
<1>1. CASE Depth = 1  BY <1>1, RethrowEnds
<1>2. CASE Depth # 1
  <2>1. PICK k : k = Depth - 1  OBVIOUS
  <2>2. PICK e : e = flying  OBVIOUS
  <2>3. /\ k \in 1 .. Len(frames) - 1 /\ Flies(program, frames, k, e)
    BY <1>2, <2>1, <2>2, RethrowFlies
  <2>4. /\ Depth > 0 /\ e # NoException /\ Pop /\ UNCHANGED <<program, flying, landing>>
    BY <1>2, <2>2 DEF Rethrow
  <2>5. PICK fs : fs = frames'  OBVIOUS
  <2>6. /\ Len(fs) = Len(frames) - 1 /\ \A d \in 1 .. Len(frames) - 1 : fs[d] = frames[d]
        /\ Len(frames) \in Nat /\ Depth = Len(frames)
    BY <2>4, <2>5, TopLeft, TopInv DEF IInv, TypeInv
  <2>7. k = Len(fs) /\ k \in Nat \ {0} /\ \A d \in 1 .. k : fs[d] = frames[d]
    BY <2>1, <2>3, <2>6
  <2>8. Flies(program, fs, k, e)  BY <2>3, <2>7, FliesSame
  <2>9. fs[k].exception = NoException
    BY <2>3, <2>6 DEF IInv, CallersInv, Threw
  <2>10. GoalInv'  BY <2>2, <2>4, <2>5, <2>7, <2>8, <2>9 DEF GoalInv
  <2>11. StackInv'
    <3>1. fs[1].code = 1 /\ fs[1].block = 0
      <4>1. 1 \in 1 .. k  BY <2>7
      <4> QED BY <2>6, <2>7, <4>1 DEF LInv, StackInv
    <3>2. ASSUME NEW d \in 1 .. Len(fs) - 1 PROVE Made(program, fs[d], fs[d + 1])
      <4>1. d \in 1 .. Len(frames) - 1 /\ d + 1 \in 1 .. Len(frames) - 1  BY <2>6, <2>7
      <4> QED BY <2>6, <4>1 DEF LInv, StackInv
    <3> QED BY <2>4, <2>5, <3>1, <3>2 DEF StackInv
  <2>12. LandsRight'  BY <2>4 DEF LInv, LandsRight
  <2> QED BY <2>10, <2>11, <2>12 DEF LInv
<1> QED BY <1>1, <1>2

-----------------------------------------------------------------------------
(* The theorem.                                                            *)

\* The initial states.
LEMMA InitLInv == Init => LInv
<1> SUFFICES ASSUME Init PROVE LInv  OBVIOUS
<1>1. PICK f : f = NewFrame(1, 0)  OBVIOUS
<1>2. /\ frames = <<f>> /\ flying = NoException
      /\ landing = [kind |-> "none", goal |-> <<0, 0>>, at |-> <<0, 0>>]
  BY <1>1 DEF Init
<1>3. f.code = 1 /\ f.block = 0 /\ f.exception = NoException  BY <1>1 DEF NewFrame
<1>4. Len(frames) = 1 /\ frames[1] = f /\ frames[Len(frames)] = f  BY <1>2
<1>5. StackInv  BY <1>3, <1>4 DEF StackInv
<1>6. GoalInv  BY <1>2, <1>3, <1>4 DEF GoalInv
<1>7. LandsRight  BY <1>2 DEF LandsRight
<1> QED BY <1>5, <1>6, <1>7 DEF LInv

\* Every step keeps the invariant.
LEMMA NextLInv == IInv /\ LInv /\ [Next]_vars => LInv'
<1> SUFFICES ASSUME IInv, LInv, [Next]_vars PROVE LInv'  OBVIOUS
<1>1. CASE UNCHANGED vars
  <2>1. UNCHANGED <<program, frames, flying, errors, landing>>  BY <1>1 DEF vars
  <2>2. StackInv' /\ LandsRight'  BY <2>1 DEF LInv, StackInv, LandsRight
  <2>3. GoalInv'  BY <2>1 DEF LInv, GoalInv
  <2> QED BY <2>2, <2>3 DEF LInv
<1>2. CASE Next
  BY <1>2, WorkLands, FlowLands, HandlerLands, CallLands, ReturnLands, JumpLands, EnsureEndLands,
     MatchLands, FilterLands, RethrowLands, BreakLands, CatchLands, RestartLands,
     ReturnValueLands, LeaveLands, BlockLands, LoopLands, EnsureLands
     DEF Next
<1> QED BY <1>1, <1>2

\* An exception ends where the source says, whatever frames, begins and loops it passes:
\* an error in the first clause, of the innermost begin of the innermost frame, that takes
\* it, and outside of the script when there is none; a break, next, redo or return at its
\* loop, call or method (throw_exception and handle_exception of vm.cpp).
THEOREM ExceptionsLand == Spec => []LandsRight
<1>1. Spec => [](IInv /\ LInv)
  <2>1. Init => IInv /\ LInv  BY InitIInv, InitLInv
  <2>2. (IInv /\ LInv) /\ [Next]_vars => (IInv /\ LInv)'  BY NextIInv, NextLInv
  <2> QED BY <2>1, <2>2, PTL DEF Spec
<1>2. LInv => LandsRight  BY DEF LInv
<1> QED BY <1>1, <1>2, PTL
=============================================================================
