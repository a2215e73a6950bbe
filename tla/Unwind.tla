------------------------------- MODULE Unwind -------------------------------
(***************************************************************************)
(* How the virtual machine (vm.cpp, evaluate_block) raises, rescues and    *)
(* passes on exceptions.  break, next, redo and return are exceptions too  *)
(* wherever they have to run an ensure group or leave a closure.           *)
(*                                                                         *)
(* A frame runs one scope's byte code (HandlerCode).  It keeps the handler *)
(* in effect (current_exception_block) and the exception it is handling    *)
(* (frame.exception) while it looks for a handler and while it runs ensure *)
(* groups; a C++ throw is "flying" from frame to frame.  What the code     *)
(* computes is left out: an op "work" may raise or not and a condition may *)
(* hold or not.                                                            *)
(***************************************************************************)
EXTENDS Integers, Sequences, FiniteSetsExt, VerifiedCode

CONSTANTS
  Programs,   \* compiled programs: sequences of scopes, the script first
  MaxErrors   \* how many times "work" may raise

ASSUME ProgramsAssumption == \A p \in Programs : Verified(p)
ASSUME JumpsAssumption == \A p \in Programs : JumpsVerified(p)
ASSUME MaxErrorsAssumption == MaxErrors \in Nat

VARIABLES
  program,
  frames,     \* the frames from the script's to the running one
  flying,     \* the exception being thrown, or NoException
  errors,     \* how many times "work" has raised
  landing     \* history: where an exception last ended, and where it should have

vars == <<program, frames, flying, errors, landing>>

-----------------------------------------------------------------------------
(* Frames.                                                                 *)

Depth == Len(frames)
Top == frames[Depth]
Ops(f) == program[f.code].ops
Blocks(f) == program[f.code].blocks
Block(f, b) == Blocks(f)[b]
CurrentOp == Ops(Top)[Top.ip]

\* Exceptions.  "class" is what a rescue clause sees: errors are "standard" or "fatal"
\* (no StandardError), and jumps are LocalJumpErrors, "jump".  goal is history: the
\* depth and the address the exception should end at, an address of 0 being the end
\* of the frame and a depth of 0 that of the program.
Exception(kind, class, target, pos, goal) ==
  [kind |-> kind, class |-> class, target |-> target, pos |-> pos, goal |-> goal]
NoException == Exception("none", "none", 0, 0, <<0, 0>>)

\* rescue without a list takes what is a StandardError, as LocalJumpError is.
Matches(handler, e) == e.class \in handler.classes

NewFrame(code, block) ==
  [code |-> code, block |-> block, ip |-> 1, mode |-> "run", current |-> 0, loop |-> 0,
   handler |-> 0, exception |-> NoException, open |-> {}]

\* f goes on at ip.  open is history: the begins with an ensure whose body f has entered
\* and whose ensure group it has not.
GoTo(f, ip) ==
  [f EXCEPT !.ip = ip, !.mode = "run", !.open = {b \in @ : Block(f, b).ensure # ip}]

Step(f) == GoTo(f, f.ip + 1)

SetTop(f) == frames' = [frames EXCEPT ![Depth] = f]
Pop == frames' = SubSeq(frames, 1, Depth - 1)

\* The running frame executes an op of the given name.
Runs(name) ==
  /\ flying = NoException /\ Depth > 0
  /\ Top.mode = "run" /\ CurrentOp.name = name

Lands(e, depth, ip) == landing' = [kind |-> e.kind, goal |-> e.goal, at |-> <<depth, ip>>]

-----------------------------------------------------------------------------
(* Where the source says an exception must end (history only).             *)

\* The op the frame at depth d is at: a frame that called is past its call.
OpAt(d) == Ops(frames[d])[IF d = Depth THEN frames[d].ip ELSE frames[d].ip - 1]

\* The clauses of a block that take errors of the class, and the blocks around the op
\* the frame at depth d is at that have one.
Taking(block, class) == {h \in DOMAIN block.handlers : class \in block.handlers[h].classes}
Rescuing(d, class) ==
  {b \in Around(program[frames[d].code], OpAt(d).in) : Taking(Block(frames[d], b), class) # {}}

\* The innermost frame, there the innermost begin, and of that the first clause.
Rescuer(class) ==
  LET depths == {d \in 1 .. Depth : Rescuing(d, class) # {}}
      d == Max(depths)
      block == Block(frames[d], Max(Rescuing(d, class)))
  IN IF depths = {} THEN <<0, 0>>
     ELSE <<d, block.handlers[Min(Taking(block, class))].rescue>>

\* The innermost frame that runs the code.
FrameOf(code) ==
  LET depths == {d \in 1 .. Depth : frames[d].code = code}
  IN IF depths = {} THEN 0 ELSE Max(depths)

-----------------------------------------------------------------------------
(* Ops.                                                                    *)

\* Anything that may raise: a call of native code, a failed lookup.
Work ==
  /\ Runs("work")
  /\ SetTop(Step(Top))
  /\ \/ UNCHANGED <<flying, errors>>
     \/ /\ errors < MaxErrors
        /\ errors' = errors + 1
        /\ \E class \in {"standard", "fatal"} :
             flying' = Exception("error", class, 0, 0, Rescuer(class))
  /\ UNCHANGED <<program, landing>>

Plain == Runs("step") /\ SetTop(Step(Top)) /\ UNCHANGED <<program, flying, errors, landing>>

Branch ==
  /\ Runs("branch")
  /\ SetTop(GoTo(Top, CurrentOp.to))
  /\ UNCHANGED <<program, flying, errors, landing>>

BranchUnless ==
  /\ Runs("branch_unless")
  /\ SetTop(Step(Top)) \/ SetTop(GoTo(Top, CurrentOp.to))
  /\ UNCHANGED <<program, flying, errors, landing>>

Handler ==
  /\ Runs("handler")
  /\ LET b == CurrentOp.to
         ensured == IF b # 0 /\ Block(Top, b).ensure # 0 THEN {b} ELSE {}
     IN SetTop(Step([Top EXCEPT !.current = b, !.open = @ \cup ensured]))
  /\ UNCHANGED <<program, flying, errors, landing>>

\* Call, and yield to the closure the frame was called with.
Call ==
  /\ Runs("call") \/ Runs("yield")
  /\ LET callee == IF CurrentOp.name = "call" THEN NewFrame(CurrentOp.to, CurrentOp.with)
                   ELSE NewFrame(Top.block, 0)
     IN frames' = Append([frames EXCEPT ![Depth] = Step(Top)], callee)
  /\ UNCHANGED <<program, flying, errors, landing>>

Return ==
  /\ Runs("return")
  /\ Pop
  /\ UNCHANGED <<program, flying, errors, landing>>

\* The jumps that unwind: each op throws.  break and return name a scope to end at.
JumpKind == [unwind_return |-> "return", unwind_break |-> "break",
             unwind_next |-> "next", unwind_redo |-> "redo"]

UnwindJump ==
  /\ \E name \in DOMAIN JumpKind : Runs(name)
  /\ LET op == CurrentOp
         kind == JumpKind[op.name]
         target == IF kind \in {"return", "break"} THEN op.to ELSE 0
         pos == IF kind = "redo" THEN op.to ELSE 0
         home == IF target = 0 THEN Depth ELSE FrameOf(target)
         address == IF kind = "break" /\ target # 0 THEN frames[home].ip ELSE op.goal
     IN flying' = Exception(kind, "jump", target, pos, <<home, address>>)
  /\ SetTop(Step(Top))
  /\ UNCHANGED <<program, errors, landing>>

UnwindEnsure ==
  /\ Runs("unwind_ensure")
  /\ SetTop(IF Top.exception # NoException THEN [Top EXCEPT !.mode = "handle"] ELSE Step(Top))
  /\ UNCHANGED <<program, flying, errors, landing>>

-----------------------------------------------------------------------------
(* catch(InternalException e).                                             *)

Rethrow ==
  /\ flying # NoException /\ Depth > 0
  /\ Top.exception # NoException
  /\ Pop
  /\ IF Depth = 1 THEN flying' = NoException /\ Lands(flying, 0, 0)
     ELSE UNCHANGED <<flying, landing>>
  /\ UNCHANGED <<program, errors>>

\* A break from a closure this frame passed to the call it is in.
CatchBreak ==
  /\ flying.kind = "break" /\ Depth > 0
  /\ Top.exception = NoException /\ flying.target = Top.code
  /\ flying' = NoException
  /\ Lands(flying, Depth, Top.ip)
  /\ UNCHANGED <<program, frames, errors>>

Catch ==
  /\ flying # NoException /\ Depth > 0
  /\ Top.exception = NoException
  /\ ~(flying.kind = "break" /\ flying.target = Top.code)
  /\ SetTop([Top EXCEPT !.exception = flying, !.mode = "handle"])
  /\ flying' = NoException
  /\ UNCHANGED <<program, errors, landing>>

-----------------------------------------------------------------------------
(* handle_exception.                                                       *)

Handling(mode) == flying = NoException /\ Depth > 0 /\ Top.mode = mode
Handled(f) == [f EXCEPT !.exception = NoException]

\* No block is left: a jump may end here, anything else leaves the frame.
RestartBlock ==
  /\ Handling("handle") /\ Top.current = 0 /\ Top.exception.kind = "redo"
  /\ SetTop(GoTo(Handled(Top), Top.exception.pos))
  /\ Lands(Top.exception, Depth, Top.exception.pos)
  /\ UNCHANGED <<program, flying, errors>>

EndsFrame(f) ==
  \/ f.exception.kind = "next"
  \/ f.exception.kind = "return" /\ f.exception.target = f.code

ReturnValue ==
  /\ Handling("handle") /\ Top.current = 0 /\ EndsFrame(Top)
  /\ Pop
  /\ Lands(Top.exception, Depth, 0)
  /\ UNCHANGED <<program, flying, errors>>

LeaveFrame ==
  /\ Handling("handle") /\ Top.current = 0
  /\ Top.exception.kind # "redo" /\ ~EndsFrame(Top)
  /\ flying' = Top.exception
  /\ UNCHANGED <<program, frames, errors, landing>>

\* Mutant of TryBlock: current_exception_block is not set to the parent.
TryBlockStays ==
  /\ Handling("handle") /\ Top.current # 0
  /\ SetTop([Top EXCEPT !.mode = "match", !.loop = Top.current, !.handler = 1])
  /\ UNCHANGED <<program, flying, errors, landing>>

TryBlock ==
  /\ Handling("handle") /\ Top.current # 0
  /\ SetTop([Top EXCEPT !.mode = "match", !.loop = Top.current, !.handler = 1,
                        !.current = Block(Top, Top.current).parent])
  /\ UNCHANGED <<program, flying, errors, landing>>

Clauses == Block(Top, Top.loop).handlers

\* Mutant of RunHandler: frame.exception is kept.
RunHandlerKeeps(clause) ==
  /\ SetTop(GoTo(Top, clause.rescue))
  /\ Lands(Top.exception, Depth, clause.rescue)

\* run_handler
RunHandler(clause) ==
  /\ SetTop(GoTo(Handled(Top), clause.rescue))
  /\ Lands(Top.exception, Depth, clause.rescue)

\* continue
NextHandler ==
  /\ SetTop([Top EXCEPT !.mode = "match", !.handler = @ + 1])
  /\ UNCHANGED landing

TryFilter ==
  /\ Handling("match") /\ Top.handler <= Len(Clauses) /\ Clauses[Top.handler].filter
  /\ SetTop(GoTo(Top, Clauses[Top.handler].test))
  /\ UNCHANGED <<program, flying, errors, landing>>

\* UnwindFilter goes on in the loop it was tested for (exception_block_handler).
UnwindFilter ==
  /\ Runs("unwind_filter")
  /\ IF Matches(Clauses[Top.handler], Top.exception)
     THEN RunHandler(Clauses[Top.handler]) ELSE NextHandler
  /\ UNCHANGED <<program, flying, errors>>

TryStandard ==
  /\ Handling("match") /\ Top.handler <= Len(Clauses) /\ ~Clauses[Top.handler].filter
  /\ IF Matches(Clauses[Top.handler], Top.exception)
     THEN RunHandler(Clauses[Top.handler]) ELSE NextHandler
  /\ UNCHANGED <<program, flying, errors>>

\* The block is a loop's and the exception a jump: the loop takes it, whoever threw it.
LoopTakes(f) == Block(f, f.loop).next # 0 /\ f.exception.kind \in {"break", "next", "redo"}

\* Mutant of LoopAddress: break and next are swapped.
LoopAddressSwapped(f) ==
  CASE f.exception.kind = "break" -> Block(f, f.loop).next
    [] f.exception.kind = "next"  -> Block(f, f.loop).break
    [] f.exception.kind = "redo"  -> f.exception.pos

LoopAddress(f) ==
  CASE f.exception.kind = "break" -> Block(f, f.loop).break
    [] f.exception.kind = "next"  -> Block(f, f.loop).next
    [] f.exception.kind = "redo"  -> f.exception.pos

ContinueLoop ==
  /\ Handling("match") /\ Top.handler > Len(Clauses) /\ LoopTakes(Top)
  /\ SetTop(GoTo(Handled(Top), LoopAddress(Top)))
  /\ Lands(Top.exception, Depth, LoopAddress(Top))
  /\ UNCHANGED <<program, flying, errors>>

\* Mutant of RunEnsure: the ensure group is left out.
RunEnsureNever ==
  /\ Handling("match") /\ Top.handler > Len(Clauses) /\ ~LoopTakes(Top)
  /\ SetTop([Top EXCEPT !.current = Block(Top, Top.loop).parent, !.mode = "handle"])
  /\ UNCHANGED <<program, flying, errors, landing>>

\* No clause took it: the ensure group runs, or the parent block is next.
RunEnsure ==
  /\ Handling("match") /\ Top.handler > Len(Clauses) /\ ~LoopTakes(Top)
  /\ LET block == Block(Top, Top.loop)
         up == [Top EXCEPT !.current = block.parent]
     IN SetTop(IF block.ensure # 0 THEN GoTo(up, block.ensure)
               ELSE [up EXCEPT !.mode = "handle"])
  /\ UNCHANGED <<program, flying, errors, landing>>

-----------------------------------------------------------------------------
Init ==
  /\ program \in Programs
  /\ frames = <<NewFrame(1, 0)>>
  /\ flying = NoException
  /\ errors = 0
  /\ landing = [kind |-> "none", goal |-> <<0, 0>>, at |-> <<0, 0>>]

Next ==
  \/ Work \/ Plain \/ Branch \/ BranchUnless \/ Handler \/ Call \/ Return
  \/ UnwindJump \/ UnwindEnsure \/ UnwindFilter
  \/ Rethrow \/ CatchBreak \/ Catch
  \/ RestartBlock \/ ReturnValue \/ LeaveFrame
  \/ TryBlock \/ TryFilter \/ TryStandard \/ ContinueLoop \/ RunEnsure

Spec == Init /\ [][Next]_vars

-----------------------------------------------------------------------------
(* Properties.                                                             *)

Modes == {"run", "handle", "match"}
ExceptionKinds == {"none", "error", "break", "next", "redo", "return"}

\* The types of the variables.
TypeOK ==
  /\ \A d \in 1 .. Depth : LET f == frames[d] IN
       /\ f.code \in DOMAIN program /\ f.block \in 0 .. Len(program)
       /\ f.ip \in 1 .. Len(Ops(f)) /\ f.mode \in Modes
       /\ {f.current, f.loop} \subseteq 0 .. Len(Blocks(f)) /\ f.open \subseteq DOMAIN Blocks(f)
       /\ f.handler \in Nat /\ f.exception.kind \in ExceptionKinds
  /\ flying.kind \in ExceptionKinds
  /\ errors \in 0 .. MaxErrors
  /\ landing.kind \in ExceptionKinds

\* Wherever code may raise, current_exception_block is the handler the source puts
\* that code under, but for loops: the block of a loop, which rescues nothing, is not
\* in effect any more after a jump to its start.
HandlerInEffect ==
  flying = NoException =>
    \A d \in 1 .. Depth :
      LET f == frames[d]
          s == program[f.code]
      IN f.mode = "run" /\ OpAt(d).name \in {"work", "call", "yield"} =>
           BeginsAround(s, f.current) = BeginsAround(s, OpAt(d).in)

\* The running frame ends in the next step.
Leaving ==
  \/ flying # NoException /\ Top.exception # NoException
  \/ Runs("return")
  \/ Handling("handle") /\ Top.current = 0 /\ EndsFrame(Top)

\* A frame is not left before every begin it entered has run its ensure group.
EnsureRuns == Depth > 0 /\ Leaving => Top.open = {}

\* An exception ends where the source says: an error in the first clause of the innermost
\* begin that takes it, a jump at its loop, block, call or method, an error nobody
\* rescues outside of the script.
LandsRight == landing.at = landing.goal

\* An exception a frame was handling is not forgotten: it is none any more when the
\* frame returns, and what its catch clause throws again ("We are rethrowing") is it.
NothingForgotten ==
  /\ Runs("return") => Top.exception = NoException
  /\ flying # NoException /\ Depth > 0 /\ Top.exception # NoException =>
       flying = Top.exception
=============================================================================
