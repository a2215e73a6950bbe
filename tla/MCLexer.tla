------------------------------ MODULE MCLexer ------------------------------
EXTENDS Lexer

\* Files are put together from pieces; each family has those that go together.
Files(Pieces_, n) ==
  UNION {{FlattenSeq(s) : s \in [1 .. k -> Pieces_]} : k \in 1 .. n}

Strings == {<<"dq">>, <<"#", "{">>, <<"}">>, <<"{">>, <<"\n">>, <<"\\">>, <<"'">>}
HeredocPieces == {<<"<", "<", "A", "\n", "a">>, <<"<", "<", "A", "dq", "\n", "a">>, <<"<", "<", "-", "'", "B", "'">>, <<"\n">>,
                  <<"<", "<", "A", "?", "\\", "\n", "a">>, <<"\n", "A", "\n">>, <<"\n", " ", "B", "\r", "\n">>,
                  <<"#", "{">>, <<"}">>, <<"dq">>, <<"'">>}
Literals == {<<"%", "q", "(">>, <<"%", "w", "(">>, <<"%", "r", "/">>, <<"%">>, <<"(">>, <<")">>,
             <<"/", "a">>, <<"\r", "\n">>, <<"\\">>, <<"#", "{">>, <<"}">>, <<"#", "@", "a">>}
Comments == {<<"=", "b", "e", "g", "i", "n">>, <<"\n">>, <<"=", "e", "n", "d">>, <<"#">>, <<"a">>,
             <<"unk">>, <<" ">>}
Numbers == {<<"0">>, <<"1">>, <<"x">>, <<"b">>, <<".">>, <<"_">>, <<"e">>, <<"-">>}
Others == {<<"?">>, <<"\\">>, <<"\r">>, <<"\n">>, <<"c">>, <<"bq">>, <<"@">>, <<"$">>, <<"-">>,
           <<"1">>, <<"nul">>, <<"<", "<">>}

\* Heredocs that wait while a literal with line ends is read.
Interrupted == {<<"<", "<", "-", "'", "B", "'", "dq", "\n", "a">>, <<"<", "<", "B", "%", "w", "(", "\n", "a">>,
                <<"\n", " ", "B", "\r", "\n">>, <<"\n">>, <<"dq">>, <<")">>, <<"#", "{">>, <<"}">>}

\* Heredocs with groups, read while a literal goes on after a group of its own.
Resumed ==
  {<<"<", "<", "A", "dq", "#", "{", "}", "\n">> \o t :
     t \in Files({<<"#", "{">>, <<"}">>, <<"{">>, <<"\n", "A", "\n">>, <<"dq">>}, 5)}

MCTexts ==
  UNION {Files(Strings, 4), Files(HeredocPieces, 3), Files(Literals, 3), Files(Comments, 3),
         Files(Numbers, 3), Files(Others, 3), Files(Interrupted, 4), Resumed}
=============================================================================
