-------------------------------- MODULE Lexer --------------------------------
(***************************************************************************)
(* The lexer (src/src/lexer) as a machine over the characters of a file.   *)
(* The text of a literal is taken one character per step, as its loops do; *)
(* a name, a number or an operator is one step.  What is hard here is that *)
(* the lexer calls itself: a newline anywhere, also within a string, reads *)
(* the heredocs that wait for it, whose interpolated groups the parser     *)
(* asks lexemes for before the interrupted lexeme is finished.             *)
(*                                                                         *)
(* The stack of C++ calls is `calls`.  Characters are strings of length    *)
(* one, "bq" a backtick, "dq" a double quote and "nul" a zero within the   *)
(* file.  The contents of literals, symbols and messages are left out.     *)
(***************************************************************************)
EXTENDS Naturals, Sequences, FiniteSets, SequencesExt

CONSTANT Texts              \* the files that are read

ASSUME TextsAssumption == \A t \in Texts : t \in Seq(STRING) /\ \A i \in DOMAIN t : t[i] # "end"

VARIABLES text,             \* the file
          pos,              \* input
          lex,              \* lexeme
          heredocs,         \* those that wait for the next newline
          mode,             \* the function that runs
          str,              \* the InterpolateState, or the like, of the literal being read
          calls,            \* what the functions that wait will do
          tokens            \* the lexemes the parser has gone past (history)
vars == <<text, pos, lex, heredocs, mode, str, calls, tokens>>
------------------------------------------------------------------------------
\* The zero that ends the file is "end": process_null tells it from "nul".
Char(p) == IF p <= Len(text) THEN text[p] ELSE "end"

LineEnds == {"\n", "\r"}
White == {" ", "\t", "\f"}
Digits == {"0", "1", "7", "9"}
Letters == {"A", "B", "a", "b", "c", "d", "e", "i", "n", "q", "g", "r", "s", "w", "x"}
StartIdent == Letters \union {"_"}
Ident == StartIdent \union Digits
Unknown == {"unk"}          \* characters that begin no lexeme

\* input++ while the character is one of S
Skip(p, S) == CHOOSE q \in p .. Len(text) + 1 :
                 /\ Char(q) \notin S
                 /\ \A r \in p .. q - 1 : Char(r) \in S

Spelled(p, s) == \A i \in 1 .. Len(s) : Char(p + i - 1) = s[i]

\* The place after the line end at p; a carriage return takes a newline with it.
AfterLineEnd(p) == IF Spelled(p, <<"\r", "\n">>) THEN p + 2 ELSE p + 1

\* skip_numbers: digits with underscores after them
SkipNumbers(p, D) == IF Char(p) \in D THEN Skip(p, D \union {"_"}) ELSE p

\* delimiter_mapping
Terminator(c) == CASE c = "(" -> ")" [] c = "{" -> "}" [] c = "[" -> "]" [] c = "<" -> ">"
                   [] OTHER -> c

\* single, assign, colon, compare, exclamation, assign_equal, sub and the dots of real:
\* each takes the longest of the spellings it knows.
Signs ==
  { "+", "-", "*", "/", "%", "^", "&", "|", "~", "!", "(", ")", "[", "]", ";", ",", "?",
    ":", "=", "<", ">", "." }
Operators ==
  {<<c>> : c \in Signs}
    \union {<<c, "=">> : c \in {"+", "-", "*", "/", "%", "^", "&", "|", "!", "<", ">"}}
    \union {<<c, c>> : c \in {"*", "&", "|", ":", "=", "<", ">", "."}}
    \union {<<"-", ">">>, <<"!", "~">>, <<"=", ">">>, <<"=", "~">>}
    \union {<<c, c, "=">> : c \in {"*", "&", "|", "=", "<", ">"}}
    \union {<<"<", "=", ">">>, <<".", ".", ".">>}

OperatorAt(p) ==
  LET fit == {s \in Operators : Spelled(p, s)}
  IN  CHOOSE s \in fit : \A t \in fit : Len(t) <= Len(s)

OperatorType(s) ==
  CASE s = <<"%">> -> "MOD"          [] s = <<"%", "=">> -> "ASSIGN_MOD"
    [] s = <<"/">> -> "DIV"          [] s = <<"/", "=">> -> "ASSIGN_DIV"
    [] s = <<"<", "<">> -> "LEFT_SHIFT"
    [] s = <<"?">> -> "QUESTION"     [] s \in {<<"+">>, <<"-">>} -> "SIGN"
    [] OTHER -> "OPERATOR"
------------------------------------------------------------------------------
\* An InterpolateState, and the variables of the other loops over literals.  origin is
\* where the literal starts (state->start), of which the code keeps the range.
NoHeredoc == [name |-> <<>>, ident |-> FALSE]
Literal(type, opener, terminator, origin) ==
  [type |-> type, opener |-> opener, terminator |-> terminator, nested |-> 0,
   heredoc |-> FALSE, h |-> NoHeredoc, continuing |-> FALSE, origin |-> origin]
NoLiteral == Literal("NONE", "end", "end", 0)
Null == NoLiteral           \* the null pointer an ordinary curly brace pushes

Lexeme(type, p) == [lex EXCEPT !.type = type, !.stop = p, !.piece = "none"]

\* restep, up to the jump table
Restep(l, p, ws) == [l EXCEPT !.start = p, !.ws = ws, !.line = l.cur, !.piece = "none"]

Restart(p, ws) ==
  /\ pos' = p
  /\ lex' = Restep(lex, p, ws)
  /\ mode' = "dispatch"
  /\ UNCHANGED <<text, heredocs, str, calls, tokens>>

\* A lexeme is complete: back to the parser.
Finish(l, p) ==
  /\ pos' = p
  /\ lex' = l
  /\ mode' = "parser"
  /\ UNCHANGED <<text, heredocs, str, calls, tokens>>

IsComment(p) == Spelled(p, <<"=", "b", "e", "g", "i", "n">>) /\ Char(p + 6) \notin Ident
IsCommentEnd(p) == Spelled(p, <<"=", "e", "n", "d">>) /\ Char(p + 4) \notin Ident

\* What a function that called process_newline does when it returns: kind names it, mode and
\* str are of a loop over a literal, the others of process_newline while it reads a heredoc.
Frame(kind) == [kind |-> kind, mode |-> mode, str |-> str, old |-> lex,
                comment |-> FALSE, last |-> FALSE]

\* process_newline with p after the line end and l the lexeme; `waiting` are the calls, the
\* last of which is its caller.  A heredoc that waits is read first, the last announced one.
ProcessNewline(l, p, no_heredoc, allow_comment, waiting) ==
  LET counted == [l EXCEPT !.cur = @ + 1]
      h == Last(heredocs)
  IN  /\ IF heredocs # <<>> /\ ~ no_heredoc
           THEN /\ heredocs' = Front(heredocs)
                /\ calls' = Append(waiting, [Frame("heredoc") EXCEPT
                                               !.old = counted, !.comment = allow_comment])
                /\ str' = [Literal(h.type, "end", "end", p) EXCEPT !.heredoc = TRUE, !.h = h]
                /\ lex' = [counted EXCEPT !.start = p, !.line = counted.cur,
                                          !.type = h.type, !.piece = "Plain"]
                /\ mode' = "interpolate"
           ELSE /\ calls' = waiting
                /\ lex' = counted
                /\ mode' = IF allow_comment /\ IsComment(p) THEN "comment" ELSE "return"
                /\ UNCHANGED <<heredocs, str>>
      /\ pos' = p
      /\ UNCHANGED <<text, tokens>>

\* newline and carrige_return
Newline(l, p, waiting) ==
  ProcessNewline([l EXCEPT !.type = "LINE"], AfterLineEnd(p), FALSE, TRUE, waiting)
------------------------------------------------------------------------------
(* The jump table: one action per kind of handler.                         *)

Dispatch(S) == mode = "dispatch" /\ Char(pos) \in S

Spaces == Dispatch(White) /\ Restart(Skip(pos, White), TRUE)

Comment ==
  /\ Dispatch({"#"})
  /\ Restart(Skip(pos, {text[i] : i \in 1 .. Len(text)} \ (LineEnds \union {"nul"})), FALSE)

\* Mutant of UnknownCharacters: the first character is not gone past
UnknownCharactersStay ==
  /\ \/ Dispatch(Unknown \union {"nul"})
     \/ Dispatch({"\\"}) /\ Char(pos + 1) \notin LineEnds
  /\ Restart(Skip(pos, Unknown), FALSE)

UnknownCharacters ==
  /\ \/ Dispatch(Unknown \union {"nul"})
     \/ Dispatch({"\\"}) /\ Char(pos + 1) \notin LineEnds
  /\ Restart(Skip(pos + 1, Unknown), FALSE)

\* skip_line
ContinuedLine ==
  /\ Dispatch({"\\"}) /\ Char(pos + 1) \in LineEnds
  /\ Newline(lex, pos + 1, Append(calls, Frame("restep")))

LineEnd == Dispatch(LineEnds) /\ Newline(lex, pos, Append(calls, Frame("line")))

EndOfFile == Dispatch({"end"}) /\ Finish(Lexeme("END", pos), pos)

\* ident: a name, perhaps with ? or !; keywords are not told from names.
Name ==
  /\ Dispatch(StartIdent)
  /\ LET q == Skip(pos, Ident)
         stop == IF Char(q) \in {"?", "!"} THEN q + 1 ELSE q
     IN  Finish(Lexeme("IDENT", stop), stop)

\* exponent, at p
Exponent(p) ==
  IF Char(p) # "e" THEN p
  ELSE SkipNumbers(IF Char(p + 1) \in {"+", "-"} THEN p + 2 ELSE p + 1, Digits)

\* number and real: the end of a decimal number whose first digit is at p
Decimal(p) ==
  LET q == SkipNumbers(p, Digits)
  IN  IF Exponent(q) # q \/ Char(q) # "." \/ Char(q + 1) \notin Digits THEN Exponent(q)
      ELSE Exponent(SkipNumbers(q + 1, Digits))

\* zero and hex: the digits of other bases; one that does not fit makes the rest decimal
\* (get_number).
AfterZero(p) ==
  LET based(q, D) == LET r == SkipNumbers(q, D) IN IF Char(r) \in Digits THEN Decimal(r) ELSE r
  IN  CASE Char(p) = "x" -> SkipNumbers(Skip(p + 1, {"_"}),
                                        Digits \union {"A", "B", "a", "b", "c", "d", "e"})
        [] Char(p) = "b" -> based(p + 1, {"0", "1"})
        [] Char(p) = "_" -> based(p + 1, Digits \ {"9"})
        [] Char(p) = "d" -> based(p + 1, Digits)
        [] Char(p) \in Digits -> based(p, Digits \ {"9"})
        [] Char(p) = "." /\ Char(p + 1) \in Digits -> Exponent(SkipNumbers(p + 1, Digits))
        [] Char(p) = "." /\ Char(p + 1) \notin Digits -> p
        [] OTHER -> Exponent(p)

NumberLexeme ==
  /\ \/ Dispatch(Digits)
     \/ Dispatch({"."}) /\ Char(pos + 1) \in Digits
  /\ LET q == CASE Char(pos) = "0" -> AfterZero(pos + 1)
                [] Char(pos) = "." -> Exponent(SkipNumbers(pos + 1, Digits))
                [] OTHER -> Decimal(pos)
     IN  Finish(Lexeme("NUMBER", q), q)

Operator ==
  /\ Dispatch({s[1] : s \in Operators})
  /\ ~ (Char(pos) = "." /\ Char(pos + 1) \in Digits)
  /\ LET s == OperatorAt(pos)
     IN  Finish(Lexeme(OperatorType(s), pos + Len(s)), pos + Len(s))

\* ivar and global: @a, @@a, $a, $-a and $ with one of the characters it knows
VariableEnd(p) ==
  IF Char(p) = "@" THEN Skip(IF Char(p + 1) = "@" THEN p + 2 ELSE p + 1, Ident) ELSE
  CASE Char(p + 1) \in Ident -> Skip(p + 1, Ident)
    [] Char(p + 1) = "-" -> IF Char(p + 2) \in Ident THEN p + 3 ELSE p + 2
    [] Char(p + 1) \in {":", ">", "<", "\\", "/", "@", "$", "bq", "&", "+", ".", ",",
                        "~", ";", "dq", "'", "*", "?", "!"} -> p + 2
    [] OTHER -> p + 1

Variable ==
  /\ Dispatch({"@", "$"})
  /\ Finish(Lexeme("VARIABLE", VariableEnd(pos)), VariableEnd(pos))

\* Mutant of CurlyOpen: an ordinary brace does not push a null pointer
CurlyOpenUnpushed == Dispatch({"{"}) /\ Finish(Lexeme("CURLY_OPEN", pos + 1), pos + 1)

CurlyOpen ==
  /\ Dispatch({"{"})
  /\ Finish([Lexeme("CURLY_OPEN", pos + 1) EXCEPT !.curlies = Append(@, Null)], pos + 1)

\* Mutant of Interpolate: the type of a literal is not set again after a group
InterpolateKeepsType(l, p, s) ==
  /\ pos' = p
  /\ lex' = [l EXCEPT !.type = IF s.continuing THEN @ ELSE s.type,
                      !.piece = IF s.continuing THEN "Ending" ELSE "Plain"]
  /\ str' = s
  /\ mode' = "interpolate"
  /\ UNCHANGED <<text, heredocs, calls, tokens>>

\* parse_interpolate up to its loop, at p
Interpolate(l, p, s) ==
  /\ pos' = p
  /\ lex' = [l EXCEPT !.type = s.type, !.piece = IF s.continuing THEN "Ending" ELSE "Plain"]
  /\ str' = s
  /\ mode' = "interpolate"
  /\ UNCHANGED <<text, heredocs, calls, tokens>>

\* curly_close: the brace goes on with the literal whose group it ends, if it does.
CurlyClose ==
  /\ Dispatch({"}"})
  /\ LET top == IF lex.curlies = <<>> THEN Null ELSE Last(lex.curlies)
         popped == IF lex.curlies = <<>> THEN lex
                   ELSE [lex EXCEPT !.curlies = Front(@)]
     IN  IF top = Null
           THEN Finish([popped EXCEPT !.type = "CURLY_CLOSE", !.stop = pos + 1], pos + 1)
           ELSE Interpolate(popped, pos + 1, [top EXCEPT !.continuing = TRUE])

DoubleQuoted ==
  /\ Dispatch({"dq"})
  /\ Interpolate(lex, pos + 1, Literal("STRING", "dq", "dq", lex.start))

\* command: where the parser expects the name of a method (allow_keywords is false) the
\* backtick is one, which is the parser's choice here.
Command ==
  /\ Dispatch({"bq"})
  /\ Interpolate(lex, pos + 1, Literal("COMMAND", "bq", "bq", lex.start))
Backtick == Dispatch({"bq"}) /\ Finish(Lexeme("BACKTICK", pos + 1), pos + 1)

\* parse_simple_string and the loop of %w up to their loops
Simple(p, m, s) ==
  /\ pos' = p
  /\ lex' = [lex EXCEPT !.type = s.type, !.piece = "Plain"]
  /\ str' = s
  /\ mode' = m
  /\ UNCHANGED <<text, heredocs, calls, tokens>>

SingleQuoted ==
  /\ Dispatch({"'"})
  /\ Simple(pos + 1, "simple", Literal("STRING", "'", "'", lex.start))
------------------------------------------------------------------------------
(* The loops over literals: one action per case of their switch.           *)

\* %w sets the type of its lexeme when it is done, the others when they begin.
Typed(l) == IF mode = "words" THEN [l EXCEPT !.type = str.type] ELSE l

\* The literal ends: a piece of it is complete.
Done(l, p) ==
  LET q == IF l.type = "REGEXP" /\ l.piece \in {"Plain", "Ending"}
             THEN Skip(p, Letters)              \* regexp_options
             ELSE p
  IN  /\ pos' = q
      /\ lex' = [Typed(l) EXCEPT !.stop = p]
      /\ mode' = "parser"
      /\ UNCHANGED <<text, heredocs, str, calls, tokens>>

\* The delimiters, looked at before the switch.  Interpolated literals and %w count the
\* openers the same way; %q and '' do not take an opener that is the terminator for one.
IsOpener == str.opener # str.terminator /\ Char(pos) = str.opener
IsTerminator == Char(pos) = str.terminator /\ Char(pos) # "end"
Nested(p) == IF IsOpener THEN str.nested + 1
             ELSE IF IsTerminator /\ str.nested > 0 THEN str.nested - 1 ELSE str.nested

InLiteral(S) == mode \in S /\ (str.heredoc \/ ~ (IsTerminator /\ str.nested = 0))
InText == InLiteral({"interpolate", "simple", "words"})

LiteralEnds ==
  /\ mode \in {"interpolate", "simple", "words"} /\ ~ str.heredoc
  /\ IsTerminator /\ str.nested = 0
  /\ Done(lex, pos + 1)

\* The loop goes on at p.
Loop(p) ==
  /\ pos' = p
  /\ str' = IF str.heredoc THEN str ELSE [str EXCEPT !.nested = Nested(pos)]
  /\ UNCHANGED <<text, lex, heredocs, mode, calls, tokens>>

AtEnd == pos > Len(text)

\* report_end and its like
Unterminated ==
  /\ InText /\ AtEnd
  /\ Finish([Typed(lex) EXCEPT !.stop = pos], pos)

\* heredoc_terminates: the place after the name if the line after the line end at p is it
TerminatorLine(p) ==
  LET q == IF str.h.ident THEN Skip(AfterLineEnd(p), White) ELSE AfterLineEnd(p)
  IN  [name |-> SubSeq(text, q, Skip(q, {text[i] : i \in 1 .. Len(text)} \ LineEnds) - 1),
       stop |-> Skip(q, {text[i] : i \in 1 .. Len(text)} \ LineEnds)]
HeredocTerminates(p) == TerminatorLine(p).name = str.h.name

HeredocEnds ==
  /\ mode = "interpolate" /\ str.heredoc
  /\ Char(pos) \in LineEnds /\ HeredocTerminates(pos)
  /\ Done([lex EXCEPT !.cur = @ + 1], TerminatorLine(pos).stop)

\* A line end within a literal, after a backslash or not; only the text of a heredoc does
\* not begin another one.  p is the place of the line end.
LineInText(p) ==
  ProcessNewline(lex, AfterLineEnd(p), str.heredoc, FALSE,
                 Append(calls, [Frame("text") EXCEPT !.str.nested = Nested(pos)]))

NewlineInText ==
  /\ InText /\ Char(pos) \in LineEnds
  /\ ~ (mode = "interpolate" /\ str.heredoc /\ HeredocTerminates(pos))
  /\ LineInText(pos)

\* parse_escape, at the character after the backslash.  \c, \C- and \M- take one more
\* character (plain) or escape with them.
AfterControl(q) == CASE Char(q) = "c" -> q + 1
                     [] Char(q) \in {"C", "M"} -> IF Char(q + 1) = "-" THEN q + 2 ELSE q + 1
                     [] OTHER -> q
EscapeTarget(p) ==
  LET target[q \in Nat] ==
        IF AfterControl(q) = q THEN [at |-> q, plain |-> FALSE]
        ELSE IF Char(AfterControl(q)) # "\\" THEN [at |-> AfterControl(q), plain |-> TRUE]
        ELSE target[AfterControl(q) + 1]
  IN  target[p]

\* Where the escape ends.  Up to three octal or two hexadecimal digits are one character;
\* letters with no meaning stand for themselves.
EscapeEnd(t) ==
  LET octal == {"0", "1", "7"}
      hex == Digits \union {"A", "B", "a", "b", "c", "d", "e"}
      upto(q, n, S) == IF Skip(q, S) > q + n THEN q + n ELSE Skip(q, S)
  IN  CASE t.at > Len(text) -> Len(text) + 1
        [] ~ t.plain /\ Char(t.at) \in octal -> upto(t.at, 3, octal)
        [] ~ t.plain /\ Char(t.at) = "x" -> upto(t.at + 1, 2, hex)
        [] OTHER -> t.at + 1

IsEscapedLine(t) == ~ t.plain /\ Char(t.at) \in LineEnds

InEscape == InLiteral({"interpolate"}) /\ Char(pos) = "\\"
Escape == InEscape /\ ~ IsEscapedLine(EscapeTarget(pos + 1)) /\ Loop(EscapeEnd(EscapeTarget(pos + 1)))
EscapedNewline ==
  /\ InEscape /\ IsEscapedLine(EscapeTarget(pos + 1))
  /\ LineInText(EscapeTarget(pos + 1).at)

\* In '' and %q a backslash only protects itself and the delimiters.
SimpleEscape ==
  /\ InLiteral({"simple"}) /\ Char(pos) = "\\"
  /\ Loop(IF Char(pos + 1) \in {"\\", str.terminator, str.opener} /\ pos + 1 <= Len(text)
            THEN pos + 2 ELSE pos + 1)

\* #{ : the state is kept on curlies, and the parser gets the piece before it.
GroupStarts ==
  /\ InLiteral({"interpolate"}) /\ Char(pos) = "#" /\ Char(pos + 1) = "{"
  /\ Done([lex EXCEPT !.piece = IF str.continuing THEN "Continuing" ELSE "Starting",
                      !.curlies = Append(@, [str EXCEPT !.nested = Nested(pos)])], pos + 2)

\* #@a and #$a
VariableInText ==
  /\ InLiteral({"interpolate"}) /\ Char(pos) = "#" /\ Char(pos + 1) \in {"@", "$"}
  /\ Loop(VariableEnd(pos + 1))

OtherCharacter ==
  /\ InText /\ ~ AtEnd
  /\ Char(pos) \notin LineEnds
  /\ mode = "interpolate" =>
       /\ Char(pos) # "\\"
       /\ ~ (Char(pos) = "#" /\ Char(pos + 1) \in {"{", "@", "$"})
  /\ mode = "simple" => Char(pos) # "\\"
  /\ Loop(pos + 1)

\* process_comment, from =begin to =end at the start of a line
\* A carriage return there is counted again and again and a zero looked at for ever: the
\* texts of the runs have neither in such a comment.
CommentText ==
  /\ mode = "comment" /\ ~ AtEnd
  /\ LET next == CASE Char(pos) = "\n" -> pos + 1
                    [] Char(pos) \in {"\r", "nul"} -> pos
                    [] OTHER -> pos + 1
         ends == Char(pos) \in LineEnds /\ IsCommentEnd(next)
     IN  /\ lex' = IF Char(pos) \in LineEnds THEN [lex EXCEPT !.cur = @ + 1] ELSE lex
         /\ pos' = IF ends THEN next + 4 ELSE next
         /\ mode' = IF ends THEN "return" ELSE mode
  /\ UNCHANGED <<text, heredocs, str, calls, tokens>>

CommentUnterminated ==
  /\ mode = "comment" /\ AtEnd
  /\ mode' = "return"
  /\ lex' = [lex EXCEPT !.stop = pos]
  /\ UNCHANGED <<text, pos, heredocs, str, calls, tokens>>
------------------------------------------------------------------------------
(* process_newline or process_comment returns to its caller.               *)

Pop(kind) == mode = "return" /\ calls # <<>> /\ Last(calls).kind = kind /\ calls' = Front(calls)

\* load goes on with the first step
ReturnToLoad ==
  /\ Pop("load")
  /\ lex' = Restep(lex, pos, FALSE)
  /\ mode' = "dispatch"
  /\ UNCHANGED <<text, pos, heredocs, str, tokens>>

\* newline: the lexeme is empty and stands after all that was read.  What called newline
\* for it goes on: step, or process_newline after a heredoc.
ReturnToLine ==
  /\ Pop("line")
  /\ lex' = [lex EXCEPT !.start = pos, !.stop = pos]
  /\ mode' = "parser"
  /\ UNCHANGED <<text, pos, heredocs, str, tokens>>

\* process_newline took a line end after the heredoc it had read
ReturnToHeredocEnd ==
  /\ Pop("after")
  /\ lex' = [lex EXCEPT !.start = pos, !.stop = pos]
  /\ mode' = IF Last(calls).comment /\ IsComment(pos) THEN "comment" ELSE "return"
  /\ UNCHANGED <<text, pos, heredocs, str, tokens>>

ReturnToSkipLine ==
  /\ Pop("restep")
  /\ lex' = Restep([lex EXCEPT !.stop = pos], pos, FALSE)
  /\ mode' = "dispatch"
  /\ UNCHANGED <<text, pos, heredocs, str, tokens>>

ReturnToText ==
  /\ Pop("text")
  /\ str' = Last(calls).str
  /\ mode' = Last(calls).mode
  /\ UNCHANGED <<text, pos, lex, heredocs, tokens>>
------------------------------------------------------------------------------
(* The parser.                                                             *)

InHeredoc == calls # <<>> /\ Last(calls).kind = "heredoc"

\* parse_data of the heredoc has its last piece and takes one lexeme more, or finds the
\* file at its end.
LastPiece == str.heredoc /\ lex.piece \in {"Plain", "Ending"}

\* step
Step ==
  /\ mode = "parser" /\ lex.type # "END"
  /\ InHeredoc => ~ Last(calls).last
  /\ tokens' = Append(tokens, [type |-> lex.type, start |-> lex.start, stop |-> lex.stop,
                               piece |-> lex.piece, heredoc |-> lex.piece # "none" /\ str.heredoc,
                               origin |-> IF lex.piece = "none" THEN 0 ELSE str.origin])
  /\ calls' = IF InHeredoc /\ lex.piece # "none" /\ LastPiece
                THEN [calls EXCEPT ![Len(calls)].last = TRUE] ELSE calls
  /\ lex' = Restep(lex, pos, FALSE)
  /\ mode' = "dispatch"
  /\ UNCHANGED <<text, pos, heredocs, str>>

\* Mutant of HeredocDone: the lexeme is restored with its line
HeredocDoneOldLine ==
  /\ mode = "parser" /\ InHeredoc
  /\ Last(calls).last \/ lex.type = "END"
  /\ LET f == Last(calls)
     IN  IF Char(pos) \in LineEnds
           THEN Newline(f.old, pos, Append(Front(calls), [f EXCEPT !.kind = "after"]))
           ELSE /\ lex' = f.old
                /\ calls' = Front(calls)
                /\ mode' = IF f.comment /\ IsComment(pos) THEN "comment" ELSE "return"
                /\ UNCHANGED <<text, pos, heredocs, str, tokens>>

\* process_newline after the heredoc: the lexeme it interrupted is restored, except for
\* the line; a line end that follows is taken, too.
HeredocDone ==
  /\ mode = "parser" /\ InHeredoc
  /\ Last(calls).last \/ lex.type = "END"
  /\ LET f == Last(calls)
         old == [f.old EXCEPT !.cur = lex.cur]
     IN  IF Char(pos) \in LineEnds
           THEN Newline(old, pos, Append(Front(calls), [f EXCEPT !.kind = "after"]))
           ELSE /\ lex' = old
                /\ calls' = Front(calls)
                /\ mode' = IF f.comment /\ IsComment(pos) THEN "comment" ELSE "return"
                /\ UNCHANGED <<text, pos, heredocs, str, tokens>>

(* Where an expression begins, or an argument, the parser has the lexeme   *)
(* read again: these are its decisions.                                    *)

Again(S) == mode = "parser" /\ lex.type \in S

DivToRegexp ==
  /\ Again({"DIV", "ASSIGN_DIV"})
  /\ Interpolate(lex, lex.start + 1, Literal("REGEXP", "/", "/", lex.start))

\* parse_delimited_data
Delimited(type, p) ==
  Interpolate(lex, IF p > Len(text) THEN p ELSE p + 1,
              Literal(type, Char(p), Terminator(Char(p)), lex.start))

LiteralType(c) == CASE c = "r" -> "REGEXP" [] c = "s" -> "SYMBOL" [] c = "x" -> "COMMAND"
                    [] c = "Q" -> "STRING" [] c = "W" -> "ARRAY"

ModToLiteral ==
  /\ Again({"MOD", "ASSIGN_MOD"})
  /\ LET p == lex.start + 1
         c == Char(p)
         literal(type) == Literal(type, Char(p + 1), Terminator(Char(p + 1)), lex.start)
     IN  CASE c \in {"r", "s", "x", "Q", "W"} -> Delimited(LiteralType(c), p + 1)
           [] c = "q" -> Simple(p + 2, "simple", literal("STRING"))
           [] c = "w" /\ p + 1 <= Len(text) -> Simple(p + 2, "words", literal("ARRAY"))
           [] c = "w" /\ p + 1 > Len(text) -> Finish([lex EXCEPT !.type = "NONE"], p + 1)
           [] c \in (Letters \union Digits) \ {"r", "s", "x", "q", "w"} ->
                Finish([lex EXCEPT !.type = "NONE"], p)
           [] OTHER -> Delimited("STRING", p)

\* The name, from p, and what ends it: a name, or up to a quote like the one before it.
HeredocName(p) ==
  LET quoted == Char(p) \in {"bq", "dq", "'"}
      stop == IF quoted THEN Skip(p + 1, {text[i] : i \in 1 .. Len(text)} \ (LineEnds \union {Char(p)}))
              ELSE Skip(p, Ident)
  IN  [name |-> SubSeq(text, IF quoted THEN p + 1 ELSE p, stop - 1),
       type |-> IF Char(p) = "bq" THEN "COMMAND" ELSE "STRING",
       stop |-> IF quoted /\ Char(stop) = Char(p) THEN stop + 1 ELSE stop]

LeftShiftToHeredoc ==
  /\ Again({"LEFT_SHIFT"})
  /\ LET p == IF Char(pos) = "-" THEN pos + 1 ELSE pos
         n == HeredocName(p)
     IN  IF Char(p) \in Ident \union {"bq", "dq", "'"}
           THEN /\ heredocs' = Append(heredocs, [name |-> n.name, ident |-> p # pos, type |-> n.type])
                /\ pos' = n.stop
                /\ lex' = [lex EXCEPT !.type = "HEREDOC", !.stop = n.stop]
                /\ UNCHANGED <<text, mode, str, calls, tokens>>
           ELSE Finish([lex EXCEPT !.type = "NONE", !.stop = p], p)

QuestionToCharacter ==
  /\ Again({"QUESTION"})
  /\ LET t == EscapeTarget(pos + 1)
         character == [lex EXCEPT !.type = "STRING", !.piece = "Plain"]
     IN  IF Char(pos) = "\\" /\ IsEscapedLine(t)
           THEN ProcessNewline(character, AfterLineEnd(t.at), FALSE, FALSE,
                               Append(calls, Frame("character")))
           ELSE LET q == IF Char(pos) = "\\" THEN EscapeEnd(t)
                         ELSE IF AtEnd THEN pos ELSE pos + 1
                IN  /\ pos' = q
                    /\ lex' = [character EXCEPT !.stop = q]
                    /\ str' = Literal("STRING", "end", "end", lex.start)
                    /\ UNCHANGED <<text, heredocs, mode, calls, tokens>>

\* The lexeme becomes the character here, whatever the line end has made of it.
ReturnToCharacter ==
  /\ Pop("character")
  /\ lex' = [lex EXCEPT !.type = "STRING", !.piece = "Plain", !.stop = pos]
  /\ mode' = "parser"
  /\ str' = Literal("STRING", "end", "end", Last(calls).old.start)
  /\ UNCHANGED <<text, pos, heredocs, tokens>>

ExpandToUnary ==
  /\ Again({"SIGN"}) /\ Char(pos) = "@"
  /\ Finish(Lexeme("UNARY", pos + 1), pos + 1)
------------------------------------------------------------------------------
\* load
Init ==
  /\ text \in Texts
  /\ pos = 1
  /\ lex = [type |-> "NONE", start |-> 1, stop |-> 1, line |-> 0, cur |-> 0, ws |-> FALSE,
            piece |-> "none", curlies |-> <<>>]
  /\ heredocs = <<>>
  /\ str = NoLiteral
  /\ tokens = <<>>
  /\ mode = IF IsComment(1) THEN "comment" ELSE "dispatch"
  /\ calls = IF IsComment(1)
               THEN <<[kind |-> "load", mode |-> "load", str |-> NoLiteral, old |-> lex,
                       comment |-> FALSE, last |-> FALSE]>>
               ELSE <<>>

Dispatched ==
  \/ Spaces \/ Comment \/ UnknownCharacters \/ ContinuedLine \/ LineEnd \/ EndOfFile
  \/ Name \/ NumberLexeme \/ Operator \/ Variable \/ CurlyOpen \/ CurlyClose
  \/ DoubleQuoted \/ Command \/ Backtick \/ SingleQuoted

Text ==
  \/ LiteralEnds \/ Unterminated \/ HeredocEnds \/ NewlineInText \/ Escape
  \/ EscapedNewline \/ SimpleEscape \/ GroupStarts \/ VariableInText \/ OtherCharacter
  \/ CommentText \/ CommentUnterminated

Return ==
  \/ ReturnToLoad \/ ReturnToLine \/ ReturnToHeredocEnd \/ ReturnToSkipLine
  \/ ReturnToText \/ ReturnToCharacter

Parsing ==
  \/ Step \/ HeredocDone \/ DivToRegexp \/ ModToLiteral \/ LeftShiftToHeredoc
  \/ QuestionToCharacter \/ ExpandToUnary

Next == Dispatched \/ Text \/ Return \/ Parsing

\* One thread, whose loops go on.
Spec == Init /\ [][Next]_vars /\ WF_vars(Next)
------------------------------------------------------------------------------
(* Type invariant *)
Pieces == {"none", "Plain", "Starting", "Continuing", "Ending"}
TypeOK ==
  /\ pos \in 1 .. Len(text) + 2         \* %q at the end is taken for one character more
  /\ lex.start \in Nat /\ lex.stop \in Nat /\ lex.line <= lex.cur
  /\ lex.piece \in Pieces
  /\ mode \in {"dispatch", "parser", "interpolate", "simple", "words", "comment", "return"}
  /\ mode = "return" => calls # <<>>

LinesBefore(p) ==
  Cardinality({i \in 1 .. p - 1 : \/ Char(i) = "\n"
                                  \/ Char(i) = "\r" /\ Char(i + 1) # "\n"})

\* What a line end may follow and not be seen as one: it is the character of a ?, the
\* delimiter of a % literal or the character of a control escape.
Hiding ==
  {<<"?">>, <<"%">>} \union {<<"%", c>> : c \in {"q", "w", "r", "s", "x", "Q", "W"}}
    \union {<<"\\", c>> : c \in {"c", "C", "M"}} \union {<<"\\", c, "-">> : c \in {"C", "M"}}

\* The file has no such line end, and no carriage return in a =begin comment, which is
\* counted again and again.
LineEndsSeen ==
  /\ \A p \in 1 .. Len(text) : \A s \in Hiding :
       Spelled(p, s) => Char(p + Len(s)) \notin LineEnds
  /\ \A p \in 1 .. Len(text) : \A q \in p + 1 .. Len(text) :
       IsComment(p) /\ Char(q) = "\r" => \E r \in p .. q - 1 : Char(r) = "\n" /\ IsCommentEnd(r + 1)

\* Every lexeme begins on the line it says, whatever was read before it on the way: literals
\* of several lines, escaped line ends, and heredocs, after which the interrupted lexeme is
\* restored but not the line (process_newline).
LinesCounted == mode = "dispatch" /\ LineEndsSeen => lex.line = LinesBefore(lex.start)

\* The groups and braces that are open after the lexemes the parser has gone past: where the
\* literal of each starts, 0 for a brace.
OpenAfter ==
  LET open[n \in 0 .. Len(tokens)] ==
        IF n = 0 THEN <<>>
        ELSE LET t == tokens[n] IN
             CASE t.type = "CURLY_OPEN" -> Append(open[n - 1], 0)
               [] t.piece = "Starting" -> Append(open[n - 1], t.origin)
               [] t.type = "CURLY_CLOSE" /\ open[n - 1] # <<>> -> Front(open[n - 1])
               [] t.piece = "Ending" -> Front(open[n - 1])
               [] OTHER -> open[n - 1]
  IN  open[Len(tokens)]

\* A brace that closes goes on with the literal whose group it ends, the innermost one, also
\* when heredocs, which keep a list of their own by saving the lexeme, were read in between.
\* At the end of the file a heredoc gives up the groups it has opened.
PiecesMatch ==
  /\ Dispatch({"}"}) =>
       IF OpenAfter = <<>> THEN lex.curlies = <<>>
       ELSE lex.curlies # <<>> /\ Last(lex.curlies).origin = Last(OpenAfter)
  /\ (mode = "parser" /\ lex.piece \in {"Continuing", "Ending"} /\ pos <= Len(text)) =>
       OpenAfter # <<>> /\ Last(OpenAfter) = str.origin

\* A literal is delivered as what it began as, whatever its text makes the lexer do in between
\* - unless a heredoc was read within it: an empty line after that leaves the type LINE.
LiteralKeepsType ==
  (mode = "parser" /\ lex.piece # "none") =>
    \/ lex.type = str.type
    \/ \E i \in 1 .. Len(tokens) : tokens[i].heredoc /\ tokens[i].origin > str.origin

\* Literals in groups in literals, with heredocs between their lines, go on as what they are.
LiteralsContinue == PiecesMatch /\ LiteralKeepsType

\* Every file is read to its end.
Terminates == <>(mode = "parser" /\ lex.type = "END" /\ calls = <<>>)
==============================================================================
