---------------------------- MODULE LexerProofs ----------------------------
(***************************************************************************)
(* For every file: that the lexer never loses count of the lines, and that *)
(* literals go on as what they are.                                        *)
(***************************************************************************)
EXTENDS Lexer, FiniteSetTheorems, WellFoundedInduction, TLAPS

-----------------------------------------------------------------------------
(* Texts.                                                                  *)

\* Char, spelled out for a text t.
At(t, p) == IF p <= Len(t) THEN t[p] ELSE "end"
Says(t, p, s) == \A i \in 1 .. Len(s) : At(t, p + i - 1) = s[i]

\* The lines that end before p.
LineEndAt(t, p) == At(t, p) = "\n" \/ (At(t, p) = "\r" /\ At(t, p + 1) # "\n")
Lines(t, p) == Cardinality({i \in 1 .. p - 1 : LineEndAt(t, i)})

\* The lexer may go from p to q without counting a line.
Clean(t, p, q) == p <= q /\ \A r \in p .. q - 1 : At(t, r) \notin LineEnds
Passes(t, p, q) == q \in p .. Len(t) + 1 /\ Clean(t, p, q)

\* LineEndsSeen, in two parts.
Seen(t) ==
  \A p \in 1 .. Len(t) : \A s \in Hiding : Says(t, p, s) => At(t, p + Len(s)) \notin LineEnds

CommentAt(t, p) == Says(t, p, <<"=", "b", "e", "g", "i", "n">>) /\ At(t, p + 6) \notin Ident
CommentEndAt(t, p) == Says(t, p, <<"=", "e", "n", "d">>) /\ At(t, p + 4) \notin Ident
SeenIn(t) ==
  /\ Seen(t)
  /\ \A p \in 1 .. Len(t) : \A q \in p + 1 .. Len(t) :
       CommentAt(t, p) /\ At(t, q) = "\r" =>
         \E r \in p .. q - 1 : At(t, r) = "\n" /\ CommentEndAt(t, r + 1)

IsText(t) == t \in Seq(STRING) /\ \A i \in DOMAIN t : t[i] # "end"

\* A character is one within the file, or its end.
LEMMA Characters ==
  ASSUME NEW t, IsText(t), NEW p \in Nat \ {0}
  PROVE  /\ At(t, p) \in STRING \cup {"end"}
         /\ At(t, p) = "end" <=> p > Len(t)
         /\ At(t, p) # "end" => p \in 1 .. Len(t)
<1>1. Len(t) \in Nat /\ t \in [1 .. Len(t) -> STRING]  BY DEF IsText
<1>2. CASE p <= Len(t)
  <2>1. p \in 1 .. Len(t)  BY <1>1, <1>2
  <2>2. t[p] \in STRING /\ t[p] # "end"  BY <1>1, <2>1 DEF IsText
  <2> QED BY <1>1, <1>2, <2>1, <2>2 DEF At
<1>3. CASE p > Len(t)
  <2>1. At(t, p) = "end"  BY <1>1, <1>3 DEF At
  <2> QED BY <1>3, <2>1
<1> QED BY <1>1, <1>2, <1>3

LEMMA CharAt == ASSUME NEW p PROVE Char(p) = At(text, p)
BY DEF Char, At

LEMMA PassTwice ==
  ASSUME NEW t, t \in Seq(STRING), NEW p \in Nat, NEW q \in Nat, NEW r \in Nat,
         Passes(t, p, q), Passes(t, q, r)
  PROVE  Passes(t, p, r)
BY DEF Passes, Clean

LEMMA PassNone ==
  ASSUME NEW t, t \in Seq(STRING), NEW p \in 1 .. Len(t) + 1
  PROVE  Passes(t, p, p)
BY DEF Passes, Clean

LEMMA PassOne ==
  ASSUME NEW t, IsText(t), NEW p \in Nat \ {0}, At(t, p) \notin LineEnds \cup {"end"}
  PROVE  Passes(t, p, p + 1) /\ p + 1 \in Nat \ {0} /\ p + 1 <= Len(t) + 1
<1>1. p \in 1 .. Len(t)  BY Characters
<1>2. \A r \in p .. p + 1 - 1 : r = p  OBVIOUS
<1> QED BY <1>1, <1>2 DEF Passes, Clean, IsText

\* Where no line ends, none is counted.
LEMMA SameLine ==
  ASSUME NEW t, t \in Seq(STRING), NEW p \in Nat \ {0}, NEW q \in Nat, Clean(t, p, q)
  PROVE  Lines(t, q) = Lines(t, p)
<1>1. \A i \in 1 .. q - 1 : LineEndAt(t, i) => i \in 1 .. p - 1
  BY DEF Clean, LineEndAt, LineEnds
<1>2. \A i \in 1 .. p - 1 : i \in 1 .. q - 1
  BY DEF Clean
<1>3. {i \in 1 .. q - 1 : LineEndAt(t, i)} = {i \in 1 .. p - 1 : LineEndAt(t, i)}
  BY <1>1, <1>2
<1> QED BY <1>3 DEF Lines

\* A line end, of one character or two, is counted once.
LEMMA NextLine ==
  ASSUME NEW t, IsText(t), NEW p \in Nat \ {0}, At(t, p) \in LineEnds,
         NEW q, q = IF Says(t, p, <<"\r", "\n">>) THEN p + 2 ELSE p + 1
  PROVE  Lines(t, q) = Lines(t, p) + 1 /\ q \in 1 .. Len(t) + 1
<1> DEFINE Before == {i \in 1 .. p - 1 : LineEndAt(t, i)}
           Upto   == {i \in 1 .. q - 1 : LineEndAt(t, i)}
<1>1. p \in 1 .. Len(t) /\ Len(t) \in Nat
  BY Characters DEF LineEnds, IsText
<1>2. Says(t, p, <<"\r", "\n">>) <=> At(t, p) = "\r" /\ At(t, p + 1) = "\n"
  <2>1. Says(t, p, <<"\r", "\n">>) => At(t, p + 1 - 1) = "\r" /\ At(t, p + 2 - 1) = "\n"
    BY DEF Says
  <2>2. p + 1 - 1 = p /\ p + 2 - 1 = p + 1  OBVIOUS
  <2>3. \A i \in 1 .. 2 : i = 1 \/ i = 2  OBVIOUS
  <2> QED BY <2>1, <2>2, <2>3 DEF Says
<1>3. PICK e \in Nat : e \notin 1 .. p - 1 /\ Upto = Before \cup {e}
  <2>1. CASE Says(t, p, <<"\r", "\n">>)
    <3>1. q - 1 = p + 1  BY <2>1
    <3>2. ~LineEndAt(t, p) /\ LineEndAt(t, p + 1)  BY <1>2, <2>1 DEF LineEndAt
    <3>3. \A i \in 1 .. p + 1 : i \in 1 .. p - 1 \/ i = p \/ i = p + 1  OBVIOUS
    <3>4. Upto = Before \cup {p + 1}  BY <3>1, <3>2, <3>3
    <3> QED BY <3>4
  <2>2. CASE ~Says(t, p, <<"\r", "\n">>)
    <3>1. q - 1 = p  BY <2>2
    <3>2. LineEndAt(t, p)  BY <1>2, <2>2 DEF LineEndAt, LineEnds
    <3>3. \A i \in 1 .. p : i \in 1 .. p - 1 \/ i = p  OBVIOUS
    <3>4. Upto = Before \cup {p}  BY <3>1, <3>2, <3>3
    <3> QED BY <3>4
  <2> QED BY <2>1, <2>2
<1>4. IsFiniteSet(Before)
  <2>1. IsFiniteSet(1 .. p - 1)  BY FS_Interval
  <2>2. Before \subseteq 1 .. p - 1  OBVIOUS
  <2> QED BY <2>1, <2>2, FS_Subset
<1>5. e \notin Before  BY <1>3
<1>6. Cardinality(Upto) = Cardinality(Before) + 1  BY <1>3, <1>4, <1>5, FS_AddElement
<1>7. q \in 1 .. Len(t) + 1
  <2>1. CASE Says(t, p, <<"\r", "\n">>)
    <3>1. p + 1 \in 1 .. Len(t)  BY <1>2, <2>1, Characters
    <3> QED BY <3>1, <2>1, <1>1
  <2>2. CASE ~Says(t, p, <<"\r", "\n">>)  BY <2>2, <1>1
  <2> QED BY <2>1, <2>2
<1> QED BY <1>6, <1>7 DEF Lines

\* What is looked for from p on is found at the end, if not before.
LEMMA SkipStops ==
  ASSUME IsText(text), NEW p \in 1 .. Len(text) + 1, NEW S, "end" \notin S,
         NEW q, q = Skip(p, S)
  PROVE  /\ q \in p .. Len(text) + 1
         /\ At(text, q) \notin S
         /\ \A r \in p .. q - 1 : At(text, r) \in S
<1> DEFINE T == {r \in p .. Len(text) + 1 : At(text, r) \notin S}
<1>1. Len(text) \in Nat  BY DEF IsText
<1>2. T \in SUBSET Nat  BY <1>1
<1>3. Len(text) + 1 \in T
  <2>1. At(text, Len(text) + 1) = "end"  BY <1>1 DEF At
  <2> QED BY <1>1, <2>1
<1>4. PICK m \in T : \A r \in T : ~(<<r, m>> \in OpToRel(<, Nat))
  BY <1>2, <1>3, NatLessThanWellFounded, WFMin
<1>5. \A r \in T : ~(r < m)  BY <1>2, <1>4 DEF OpToRel
<1>6. /\ m \in p .. Len(text) + 1
      /\ Char(m) \notin S
      /\ \A r \in p .. m - 1 : Char(r) \in S
  <2>1. \A r \in p .. m - 1 : r \in p .. Len(text) + 1 /\ r < m  BY <1>1
  <2> QED BY <1>5, <2>1, CharAt
<1>7. /\ q \in p .. Len(text) + 1
      /\ Char(q) \notin S
      /\ \A r \in p .. q - 1 : Char(r) \in S
  BY <1>6 DEF Skip
<1> QED BY <1>7, CharAt

LEMMA SkipPasses ==
  ASSUME IsText(text), NEW p \in 1 .. Len(text) + 1, NEW S, S \cap (LineEnds \cup {"end"}) = {},
         NEW q, q = Skip(p, S)
  PROVE  Passes(text, p, q) /\ q \in 1 .. Len(text) + 1
<1>1. "end" \notin S  OBVIOUS
<1>2. q \in p .. Len(text) + 1 /\ \A r \in p .. q - 1 : At(text, r) \in S
  BY <1>1, SkipStops
<1>3. Len(text) \in Nat  BY DEF IsText
<1> QED BY <1>2, <1>3 DEF Passes, Clean

\* Numbers stand on one line.
LEMMA SkipNumbersPasses ==
  ASSUME IsText(text), NEW p \in 1 .. Len(text) + 1, NEW D, D \cap (LineEnds \cup {"end"}) = {},
         NEW q, q = SkipNumbers(p, D)
  PROVE  Passes(text, p, q) /\ q \in 1 .. Len(text) + 1
<1>1. (D \cup {"_"}) \cap (LineEnds \cup {"end"}) = {}  BY DEF LineEnds
<1>2. IsText(text) => text \in Seq(STRING)  BY DEF IsText
<1>3. CASE q = p  BY <1>2, <1>3, PassNone
<1>4. CASE q = Skip(p, D \cup {"_"})  BY <1>1, <1>4, SkipPasses
<1> QED BY <1>3, <1>4 DEF SkipNumbers

LEMMA ExponentPasses ==
  ASSUME IsText(text), NEW p \in 1 .. Len(text) + 1, NEW q, q = Exponent(p)
  PROVE  Passes(text, p, q) /\ q \in 1 .. Len(text) + 1
<1>1. text \in Seq(STRING) /\ Len(text) \in Nat  BY DEF IsText
<1>2. CASE At(text, p) # "e"
  BY <1>1, <1>2, PassNone, CharAt DEF Exponent
<1>3. CASE At(text, p) = "e"
  <2>1. Passes(text, p, p + 1) /\ p + 1 \in Nat \ {0} /\ p + 1 <= Len(text) + 1
    BY <1>3, PassOne DEF LineEnds
  <2>2. PICK r : r = IF At(text, p + 1) \in {"+", "-"} THEN p + 2 ELSE p + 1  OBVIOUS
  <2>3. Passes(text, p, r) /\ r \in 1 .. Len(text) + 1
    <3>1. CASE At(text, p + 1) \in {"+", "-"}
      <4>1. PICK p1 \in Nat \ {0} : p1 = p + 1  BY <2>1
      <4>2. Passes(text, p1, p1 + 1) /\ p1 + 1 <= Len(text) + 1
        BY <3>1, <4>1, PassOne DEF LineEnds
      <4>3. r = p1 + 1 /\ r \in Nat  BY <2>2, <3>1, <4>1
      <4>4. Passes(text, p, r)  BY <1>1, <2>1, <4>1, <4>2, <4>3, PassTwice
      <4> QED BY <4>1, <4>2, <4>3, <4>4
    <3>2. CASE At(text, p + 1) \notin {"+", "-"}  BY <2>1, <2>2, <3>2
    <3> QED BY <3>1, <3>2
  <2>4. q = SkipNumbers(r, Digits)  BY <1>3, <2>2, CharAt DEF Exponent
  <2>5. Digits \cap (LineEnds \cup {"end"}) = {}  BY DEF Digits, LineEnds
  <2>6. Passes(text, r, q) /\ q \in 1 .. Len(text) + 1  BY <2>3, <2>4, <2>5, SkipNumbersPasses
  <2> QED BY <1>1, <2>3, <2>6, PassTwice
<1> QED BY <1>2, <1>3

\* A digit after a point.
LEMMA FractionPasses ==
  ASSUME IsText(text), NEW p \in 1 .. Len(text) + 1, At(text, p) = ".",
         NEW q, q = Exponent(SkipNumbers(p + 1, Digits))
  PROVE  Passes(text, p, q) /\ q \in 1 .. Len(text) + 1
<1>1. text \in Seq(STRING) /\ Len(text) \in Nat  BY DEF IsText
<1>2. PICK p1 : p1 = p + 1  OBVIOUS
<1>3. Passes(text, p, p1) /\ p1 \in 1 .. Len(text) + 1
  BY <1>1, <1>2, PassOne DEF LineEnds
<1>4. PICK r : r = SkipNumbers(p1, Digits)  OBVIOUS
<1>5. Digits \cap (LineEnds \cup {"end"}) = {}  BY DEF Digits, LineEnds
<1>6. Passes(text, p1, r) /\ r \in 1 .. Len(text) + 1  BY <1>3, <1>4, <1>5, SkipNumbersPasses
<1>7. Passes(text, r, q) /\ q \in 1 .. Len(text) + 1
  <2>1. q = Exponent(r)  BY <1>2, <1>4
  <2> QED BY <1>6, <2>1, ExponentPasses
<1>8. Passes(text, p, r)  BY <1>1, <1>3, <1>6, PassTwice
<1> QED BY <1>1, <1>6, <1>7, <1>8, PassTwice

LEMMA DecimalPasses ==
  ASSUME IsText(text), NEW p \in 1 .. Len(text) + 1, NEW q, q = Decimal(p)
  PROVE  Passes(text, p, q) /\ q \in 1 .. Len(text) + 1
<1>1. text \in Seq(STRING) /\ Len(text) \in Nat  BY DEF IsText
<1>2. PICK r : r = SkipNumbers(p, Digits)  OBVIOUS
<1>3. Digits \cap (LineEnds \cup {"end"}) = {}  BY DEF Digits, LineEnds
<1>4. Passes(text, p, r) /\ r \in 1 .. Len(text) + 1  BY <1>2, <1>3, SkipNumbersPasses
<1>5. q = Exponent(r) \/ (At(text, r) = "." /\ q = Exponent(SkipNumbers(r + 1, Digits)))
  BY <1>2, CharAt DEF Decimal
<1>6. Passes(text, r, q) /\ q \in 1 .. Len(text) + 1
  BY <1>4, <1>5, ExponentPasses, FractionPasses
<1> QED BY <1>1, <1>4, <1>6, PassTwice

LEMMA AfterZeroPasses ==
  ASSUME IsText(text), NEW p \in 1 .. Len(text) + 1, NEW q, q = AfterZero(p)
  PROVE  Passes(text, p, q) /\ q \in 1 .. Len(text) + 1
<1> DEFINE Based(r, D) == LET s == SkipNumbers(r, D) IN IF Char(s) \in Digits THEN Decimal(s) ELSE s
           Hex == Digits \union {"A", "B", "a", "b", "c", "d", "e"}
           NoEnds(D) == D \cap (LineEnds \cup {"end"}) = {}
<1>1. text \in Seq(STRING) /\ Len(text) \in Nat  BY DEF IsText
<1>2. NoEnds(Digits) /\ NoEnds(Hex) /\ NoEnds({"_"}) /\ NoEnds({"0", "1"}) /\ NoEnds(Digits \ {"9"})
  BY DEF Digits, LineEnds
<1>0. Char(p) = At(text, p) /\ {"x", "b", "_", "d", "."} \cap Digits = {}  BY CharAt DEF Digits
<1>3. ASSUME NEW r \in 1 .. Len(text) + 1, NEW D, NoEnds(D), NEW e, e = Based(r, D)
      PROVE  Passes(text, r, e) /\ e \in 1 .. Len(text) + 1
  <2>1. PICK s : s = SkipNumbers(r, D)  OBVIOUS
  <2>2. Passes(text, r, s) /\ s \in 1 .. Len(text) + 1  BY <1>3, <2>1, SkipNumbersPasses
  <2>3. e = s \/ e = Decimal(s)  BY <1>3, <2>1
  <2>4. CASE e = Decimal(s)
    <3>1. Passes(text, s, e) /\ e \in 1 .. Len(text) + 1  BY <2>2, <2>4, DecimalPasses
    <3> QED BY <1>1, <2>2, <3>1, PassTwice
  <2> QED BY <2>2, <2>3, <2>4
<1>4. CASE At(text, p) \in {"x", "b", "_", "d"}
  <2>1. PICK p1 : p1 = p + 1  OBVIOUS
  <2>2. Passes(text, p, p1) /\ p1 \in 1 .. Len(text) + 1
    <3>1. At(text, p) \notin LineEnds \cup {"end"}  BY <1>4 DEF LineEnds
    <3> QED BY <1>1, <2>1, <3>1, PassOne
  <2>3. CASE At(text, p) = "x"
    <3>1. PICK r : r = Skip(p1, {"_"})  OBVIOUS
    <3>2. Passes(text, p1, r) /\ r \in 1 .. Len(text) + 1
      <4>1. {"_"} \cap (LineEnds \union {"end"}) = {}  BY DEF LineEnds
      <4> QED BY <2>2, <3>1, <4>1, SkipPasses
    <3>3. q = SkipNumbers(r, Hex)  BY <1>0, <2>1, <2>3, <3>1 DEF AfterZero
    <3>4. Passes(text, r, q) /\ q \in 1 .. Len(text) + 1
      BY <1>2, <3>2, <3>3, SkipNumbersPasses
    <3>5. Passes(text, p, r)  BY <1>1, <2>2, <3>2, PassTwice
    <3> QED BY <1>1, <3>2, <3>4, <3>5, PassTwice
  <2>4. CASE At(text, p) # "x"
    <3>1. \/ q = Based(p1, {"0", "1"}) \/ q = Based(p1, Digits \ {"9"}) \/ q = Based(p1, Digits)
      BY <1>0, <1>4, <2>1, <2>4 DEF AfterZero
    <3>2. Passes(text, p1, q) /\ q \in 1 .. Len(text) + 1
      BY <1>2, <1>3, <2>2, <3>1
    <3> QED BY <1>1, <2>2, <3>2, PassTwice
  <2> QED BY <2>3, <2>4
<1>5. CASE At(text, p) \notin {"x", "b", "_", "d"}
  <2>1. \/ q = Based(p, Digits \ {"9"}) \/ q = p \/ q = Exponent(p)
        \/ At(text, p) = "." /\ q = Exponent(SkipNumbers(p + 1, Digits))
    BY <1>0, <1>5 DEF AfterZero
  <2>2. CASE q = Based(p, Digits \ {"9"})  BY <1>2, <1>3, <2>2
  <2>3. CASE q = p  BY <1>1, <2>3, PassNone
  <2>4. CASE q = Exponent(p)  BY <2>4, ExponentPasses
  <2>5. CASE At(text, p) = "." /\ q = Exponent(SkipNumbers(p + 1, Digits))
    BY <2>5, FractionPasses
  <2> QED BY <2>1, <2>2, <2>3, <2>4, <2>5
<1> QED BY <1>4, <1>5

\* So does the name of a variable.
LEMMA VariablePasses ==
  ASSUME IsText(text), NEW p \in 1 .. Len(text) + 1, At(text, p) \in {"@", "$"},
         NEW q, q = VariableEnd(p)
  PROVE  Passes(text, p, q) /\ q \in 1 .. Len(text) + 1
<1>1. text \in Seq(STRING) /\ Len(text) \in Nat  BY DEF IsText
<1>2. Ident \cap (LineEnds \cup {"end"}) = {} /\ "-" \notin Ident
  BY DEF Ident, StartIdent, Letters, Digits, LineEnds
<1>3. PICK p1 : p1 = p + 1  OBVIOUS
<1>4. Passes(text, p, p1) /\ p1 \in 1 .. Len(text) + 1
  <2>1. At(text, p) \notin LineEnds \cup {"end"}  BY DEF LineEnds
  <2> QED BY <1>1, <1>3, <2>1, PassOne
<1>5. Char(p) = At(text, p) /\ Char(p1) = At(text, p1) /\ Char(p1 + 1) = At(text, p1 + 1)
  BY CharAt
<1>6. p + 2 = p1 + 1 /\ p + 3 = p1 + 1 + 1  BY <1>3
<1> DEFINE Known == {":", ">", "<", "\\", "/", "@", "$", "bq", "&", "+", ".", ",",
                     "~", ";", "dq", "'", "*", "?", "!"}
<1>7. Known \cap (LineEnds \cup {"end"}) = {}  BY DEF LineEnds
<1>12. Known \cap (Ident \cup {"-"}) = {}  BY DEF Ident, StartIdent, Letters, Digits
<1>8. ASSUME At(text, p1) \in Known \cup {"-"}
      PROVE  Passes(text, p, p1 + 1) /\ p1 + 1 \in 1 .. Len(text) + 1
  <2>1. At(text, p1) \notin LineEnds \cup {"end"}  BY <1>7, <1>8 DEF LineEnds
  <2>2. Passes(text, p1, p1 + 1) /\ p1 + 1 \in 1 .. Len(text) + 1
    BY <1>1, <1>4, <2>1, PassOne
  <2>3. PICK p2 : p2 = p1 + 1  OBVIOUS
  <2> QED BY <1>1, <1>4, <2>2, <2>3, PassTwice
<1>9. ASSUME NEW r \in 1 .. Len(text) + 1, Passes(text, p, r), q = Skip(r, Ident)
      PROVE  Passes(text, p, q) /\ q \in 1 .. Len(text) + 1
  BY <1>1, <1>2, <1>9, SkipPasses, PassTwice
<1>10. CASE At(text, p) = "@"
  <2>1. q = Skip(p1, Ident) \/ (At(text, p1) = "@" /\ q = Skip(p1 + 1, Ident))
    BY <1>3, <1>5, <1>6, <1>10 DEF VariableEnd
  <2>2. CASE q = Skip(p1, Ident)  BY <1>4, <1>9, <2>2
  <2>3. CASE At(text, p1) = "@" /\ q = Skip(p1 + 1, Ident)
    <3>1. PICK p2 : p2 = p1 + 1  OBVIOUS
    <3>2. Passes(text, p, p2) /\ p2 \in 1 .. Len(text) + 1  BY <1>8, <2>3, <3>1
    <3> QED BY <1>9, <2>3, <3>1, <3>2
  <2> QED BY <2>1, <2>2, <2>3
<1>11. CASE At(text, p) # "@"
  <2>1. \/ q = p1
        \/ q = Skip(p1, Ident)
        \/ At(text, p1) \in Known \cup {"-"} /\ q = p1 + 1
        \/ At(text, p1) = "-" /\ At(text, p1 + 1) \in Ident /\ q = p1 + 1 + 1
    BY <1>2, <1>3, <1>5, <1>6, <1>11, <1>12 DEF VariableEnd
  <2>2. CASE q = Skip(p1, Ident)  BY <1>4, <1>9, <2>2
  <2>3. CASE At(text, p1) = "-" /\ At(text, p1 + 1) \in Ident /\ q = p1 + 1 + 1
    <3>1. PICK p2 : p2 = p1 + 1  OBVIOUS
    <3>2. Passes(text, p, p2) /\ p2 \in 1 .. Len(text) + 1  BY <1>8, <2>3, <3>1
    <3>3. At(text, p2) \notin LineEnds \cup {"end"}  BY <1>2, <2>3, <3>1
    <3>4. Passes(text, p2, q) /\ q \in 1 .. Len(text) + 1
      BY <1>1, <2>3, <3>1, <3>2, <3>3, PassOne
    <3> QED BY <1>1, <3>2, <3>4, PassTwice
  <2> QED BY <1>4, <1>8, <2>1, <2>2, <2>3
<1> QED BY <1>10, <1>11

\* The operators are short and of characters of their own, and any beginning of one of
\* one character is one.
LEMMA OperatorsShort ==
  ASSUME NEW s \in Operators
  PROVE  /\ Len(s) \in 1 .. 3
         /\ \A i \in 1 .. Len(s) : s[i] \notin LineEnds \cup {"end"}
         /\ <<s[1]>> \in Operators
<1>1. Signs \cap (LineEnds \cup {"end"}) = {}  BY DEF Signs, LineEnds
<1>2. \/ \E c \in Signs : s = <<c>>
      \/ \E c, d \in Signs : s = <<c, d>>
      \/ \E c, d, e \in Signs : s = <<c, d, e>>
  <2>1. ASSUME NEW S, S \subseteq Signs, s \in {<<c, "=">> : c \in S} \cup {<<c, c>> : c \in S}
        PROVE  \E c, d \in Signs : s = <<c, d>>
    BY <2>1 DEF Signs
  <2>2. ASSUME NEW S, S \subseteq Signs, s \in {<<c, c, "=">> : c \in S}
        PROVE  \E c, d, e \in Signs : s = <<c, d, e>>
    BY <2>2, ZenonT(40) DEF Signs
  <2>3. CASE s \in {<<c, "=">> : c \in {"+", "-", "*", "/", "%", "^", "&", "|", "!", "<", ">"}}
    BY <2>1, <2>3, ZenonT(40) DEF Signs
  <2>4. CASE s \in {<<c, c>> : c \in {"*", "&", "|", ":", "=", "<", ">", "."}}
    BY <2>1, <2>4, ZenonT(40) DEF Signs
  <2>5. CASE s \in {<<"-", ">">>, <<"!", "~">>, <<"=", ">">>, <<"=", "~">>}
    <3>1. {"-", "!", "=", ">", "~"} \subseteq Signs  BY DEF Signs
    <3> QED BY <2>5, <3>1
  <2>6. CASE s \in {<<c, c, "=">> : c \in {"*", "&", "|", "=", "<", ">"}}
    BY <2>2, <2>6, ZenonT(40) DEF Signs
  <2>7. CASE s \in {<<"<", "=", ">">>, <<".", ".", ".">>}
    BY <2>7 DEF Signs
  <2> QED BY <2>3, <2>4, <2>5, <2>6, <2>7 DEF Operators
<1>3. CASE \E c \in Signs : s = <<c>>  BY <1>1, <1>3 DEF Operators
<1>4. CASE \E c, d \in Signs : s = <<c, d>>  BY <1>1, <1>4 DEF Operators
<1>5. CASE \E c, d, e \in Signs : s = <<c, d, e>>  BY <1>1, <1>5 DEF Operators
<1> QED BY <1>2, <1>3, <1>4, <1>5

\* The longest operator at a place.
LEMMA OperatorThere ==
  ASSUME IsText(text), NEW p \in 1 .. Len(text), Char(p) \in {s[1] : s \in Operators},
         NEW s, s = OperatorAt(p)
  PROVE  s \in Operators /\ Spelled(p, s)
<1> DEFINE Fit == {t \in Operators : Spelled(p, t)}
<1>1. PICK t \in Operators : Char(p) = t[1]  OBVIOUS
<1>2. <<t[1]>> \in Fit
  <2>1. <<t[1]>> \in Operators  BY OperatorsShort
  <2>2. Spelled(p, <<t[1]>>)  BY <1>1 DEF Spelled
  <2> QED BY <2>1, <2>2
<1>3. \A u \in Fit : Len(u) \in 1 .. 3  BY OperatorsShort
<1> HIDE DEF Fit
<1>4. \E u \in Fit : \A v \in Fit : Len(v) <= Len(u)
  <2>1. CASE \E u \in Fit : Len(u) = 3  BY <1>3, <2>1, SMTT(30)
  <2>2. CASE (~\E u \in Fit : Len(u) = 3) /\ \E u \in Fit : Len(u) = 2
    <3>1. \A v \in Fit : Len(v) # 3  BY <2>2
    <3>2. \A v \in Fit : Len(v) <= 2  BY <1>3, <3>1
    <3> QED BY <2>2, <3>2
  <2>3. CASE ~\E u \in Fit : Len(u) = 3 \/ Len(u) = 2
    <3>1. \A v \in Fit : Len(v) = 1  BY <1>3, <2>3
    <3> QED BY <1>2, <3>1
  <2> QED BY <2>1, <2>2, <2>3
<1>5. s \in Fit  BY <1>4 DEF OperatorAt, Fit
<1> QED BY <1>5 DEF Fit

LEMMA OperatorPasses ==
  ASSUME IsText(text), NEW p \in 1 .. Len(text), NEW s \in Operators, Spelled(p, s)
  PROVE  Passes(text, p, p + Len(s)) /\ p + Len(s) \in 1 .. Len(text) + 1 /\ Len(s) \in 1 .. 3
<1>0. Len(s) \in 1 .. 3  BY OperatorsShort
<1>1. text \in Seq(STRING) /\ Len(text) \in Nat /\ Len(s) \in 1 .. 3  BY <1>0 DEF IsText
<1>2. ASSUME NEW r \in p .. p + Len(s) - 1 PROVE At(text, r) \notin LineEnds \cup {"end"}
  <2>1. r - p + 1 \in 1 .. Len(s) /\ p + (r - p + 1) - 1 = r  BY <1>1
  <2>2. Char(p + (r - p + 1) - 1) = s[r - p + 1]  BY <2>1 DEF Spelled
  <2>3. At(text, r) = s[r - p + 1]  BY <2>1, <2>2, CharAt
  <2> QED BY <2>1, <2>3, OperatorsShort
<1>3. p + Len(s) - 1 \in p .. p + Len(s) - 1  BY <1>1
<1>4. PICK r : r = p + Len(s) - 1  OBVIOUS
<1>5. r \in 1 .. Len(text)
  <2>1. r \in Nat \ {0} /\ At(text, r) # "end"  BY <1>1, <1>2, <1>3, <1>4
  <2> QED BY <2>1, Characters
<1>6. Clean(text, p, p + Len(s))  BY <1>1, <1>2 DEF Clean
<1> QED BY <1>1, <1>4, <1>5, <1>6 DEF Passes

-----------------------------------------------------------------------------
(* Escapes.                                                                *)

\* Where a control prefix leads to another escape.
GoesOn(q) == AfterControl(q) # q /\ Char(AfterControl(q)) = "\\"

Target(q) == IF AfterControl(q) = q THEN [at |-> q, plain |-> FALSE]
             ELSE [at |-> AfterControl(q), plain |-> TRUE]

\* The places an escape at q goes through.
Closed(X) == \A r \in X : GoesOn(r) => AfterControl(r) + 1 \in X
Through(q) == {r \in Nat : \A X \in SUBSET Nat : q \in X /\ Closed(X) => r \in X}

LEMMA AfterControlNat ==
  ASSUME NEW q \in Nat
  PROVE  AfterControl(q) \in Nat /\ AfterControl(q) >= q
BY DEF AfterControl

LEMMA ThroughClosed ==
  ASSUME NEW q \in Nat
  PROVE  Through(q) \subseteq Nat /\ q \in Through(q) /\ Closed(Through(q))
<1>1. ASSUME NEW r \in Through(q), GoesOn(r) PROVE AfterControl(r) + 1 \in Through(q)
  <2>1. r \in Nat /\ AfterControl(r) + 1 \in Nat  BY AfterControlNat DEF Through
  <2>2. ASSUME NEW X \in SUBSET Nat, q \in X, Closed(X) PROVE AfterControl(r) + 1 \in X
    BY <1>1, <2>2 DEF Through, Closed
  <2> QED BY <2>1, <2>2 DEF Through
<1> QED BY <1>1 DEF Through, Closed

\* One that does not go on has got there, and one that goes on goes through the same
\* places as the next, but for itself.
LEMMA ThroughNext ==
  ASSUME NEW q \in Nat, NEW out \in Nat, ~GoesOn(out)
  PROVE  /\ ~GoesOn(q) => (out \in Through(q) <=> out = q)
         /\ GoesOn(q) => (out \in Through(q) <=> out \in Through(AfterControl(q) + 1))
<1>1. ASSUME ~GoesOn(q), out \in Through(q) PROVE out = q
  <2>1. Closed({q})  BY <1>1 DEF Closed
  <2> QED BY <1>1, <2>1 DEF Through
<1>2. ASSUME out = q PROVE out \in Through(q)  BY <1>2, ThroughClosed
<1>3. ASSUME GoesOn(q) PROVE out \in Through(q) <=> out \in Through(AfterControl(q) + 1)
  <2>1. PICK n : n = AfterControl(q) + 1  OBVIOUS
  <2>2. n \in Nat  BY <2>1, AfterControlNat
  <2>3. ASSUME out \in Through(q) PROVE out \in Through(n)
    <3>1. ASSUME NEW X \in SUBSET Nat, n \in X, Closed(X) PROVE out \in X
      <4>1. Closed(X \cup {q})  BY <2>1, <3>1 DEF Closed
      <4>2. out \in X \cup {q}  BY <2>3, <4>1 DEF Through
      <4>3. out # q  BY <1>3
      <4> QED BY <4>2, <4>3
    <3> QED BY <3>1 DEF Through
  <2>4. ASSUME out \in Through(n) PROVE out \in Through(q)
    <3>1. ASSUME NEW X \in SUBSET Nat, q \in X, Closed(X) PROVE out \in X
      <4>1. n \in X  BY <1>3, <2>1, <3>1 DEF Closed
      <4> QED BY <2>4, <3>1, <4>1 DEF Through
    <3> QED BY <3>1 DEF Through
  <2> QED BY <2>1, <2>3, <2>4
<1> QED BY <1>1, <1>2, <1>3

\* EscapeTarget is the target of the place in which that ends.
Outs(q) == {r \in Through(q) : ~GoesOn(r)}

LEMMA EscapeTargetIs ==
  ASSUME NEW p \in Nat, NEW out \in Outs(p)
  PROVE  EscapeTarget(p) = Target(out)
<1> DEFINE E(f, q) == IF AfterControl(q) = q THEN [at |-> q, plain |-> FALSE]
                      ELSE IF Char(AfterControl(q)) # "\\"
                        THEN [at |-> AfterControl(q), plain |-> TRUE]
                      ELSE f[AfterControl(q) + 1]
           g == [q \in Nat |-> Target(CHOOSE r \in Outs(q) : TRUE)]
           h == CHOOSE f : f = [q \in Nat |-> E(f, q)]
<1>1. ASSUME NEW q \in Nat PROVE g[q] = E(g, q)
  <2>1. CASE ~GoesOn(q)
    <3>1. Outs(q) = {q}  BY <2>1, ThroughNext, ThroughClosed DEF Outs, Through
    <3>2. g[q] = Target(q)  BY <3>1
    <3>3. Target(q) = E(g, q)  BY <2>1 DEF Target, GoesOn
    <3> QED BY <3>2, <3>3
  <2>2. CASE GoesOn(q)
    <3>1. PICK n : n = AfterControl(q) + 1  OBVIOUS
    <3>2. n \in Nat  BY <3>1, AfterControlNat
    <3>3. Outs(q) = Outs(n)
      BY <2>2, <3>1, <3>2, ThroughNext DEF Outs, Through
    <3>4. g[q] = g[n]  BY <3>2, <3>3
    <3>5. E(g, q) = g[n]  BY <2>2, <3>1 DEF GoesOn
    <3> QED BY <3>4, <3>5
  <2> QED BY <2>1, <2>2
<1>2. g = [q \in Nat |-> E(g, q)]
  <2>1. g = [q \in Nat |-> g[q]]  OBVIOUS
  <2> HIDE DEF g
  <2> QED BY <1>1, <2>1
<1>3. h = [q \in Nat |-> E(h, q)]
  <2> HIDE DEF g
  <2> QED BY <1>2
<1>4. EscapeTarget(p) = h[p]  BY DEF EscapeTarget
<1>5. \A q \in Nat : h[q] = E(h, q)
  <2> HIDE DEF h
  <2> QED BY <1>3
<1> HIDE DEF h
<1> DEFINE X == {r \in Nat : h[r] = h[p]}
<1>6. Closed(X)
  <2>1. ASSUME NEW r \in X, GoesOn(r) PROVE AfterControl(r) + 1 \in X
    <3>1. PICK n : n = AfterControl(r) + 1  OBVIOUS
    <3>2. n \in Nat  BY <3>1, AfterControlNat
    <3>3. h[r] = h[n]  BY <1>5, <2>1, <3>1 DEF GoesOn
    <3> QED BY <3>1, <3>2, <3>3
  <2> QED BY <2>1 DEF Closed
<1>7. out \in X  BY <1>6 DEF Outs, Through
<1>8. h[out] = Target(out)  BY <1>5, <1>7 DEF Outs, GoesOn, Target
<1> QED BY <1>4, <1>7, <1>8

\* What an escape at p goes through lies ahead, and no line ends on the way.
LEMMA ControlPasses ==
  ASSUME IsText(text), NEW p \in 1 .. Len(text) + 1, NEW q, q = AfterControl(p)
  PROVE  Passes(text, p, q) /\ q \in 1 .. Len(text) + 1
<1>1. text \in Seq(STRING) /\ Len(text) \in Nat  BY DEF IsText
<1>2. CASE q = p  BY <1>1, <1>2, PassNone
<1>3. CASE q # p
  <2>1. PICK p1 : p1 = p + 1  OBVIOUS
  <2>2. Char(p) = At(text, p) /\ Char(p1) = At(text, p1)  BY CharAt
  <2>3. At(text, p) \in {"c", "C", "M"} /\ (q = p1 \/ (At(text, p1) = "-" /\ q = p1 + 1))
    BY <1>3, <2>1, <2>2 DEF AfterControl
  <2>4. At(text, p) \notin LineEnds \cup {"end"}  BY <2>3 DEF LineEnds
  <2>5. Passes(text, p, p1) /\ p1 \in 1 .. Len(text) + 1  BY <1>1, <2>1, <2>4, PassOne
  <2>6. CASE At(text, p1) = "-" /\ q = p1 + 1
    <3>1. At(text, p1) \notin LineEnds \cup {"end"}  BY <2>6 DEF LineEnds
    <3>2. Passes(text, p1, q) /\ q \in 1 .. Len(text) + 1  BY <1>1, <2>5, <2>6, <3>1, PassOne
    <3> QED BY <1>1, <2>5, <3>2, PassTwice
  <2> QED BY <2>3, <2>5, <2>6
<1> QED BY <1>2, <1>3

LEMMA ThroughPasses ==
  ASSUME IsText(text), NEW p \in 1 .. Len(text) + 1, At(text, p - 1) = "\\",
         NEW q \in Through(p)
  PROVE  Passes(text, p, q) /\ q \in 1 .. Len(text) + 1 /\ At(text, q - 1) = "\\"
<1>1. text \in Seq(STRING) /\ Len(text) \in Nat  BY DEF IsText
<1> DEFINE X == {r \in 1 .. Len(text) + 1 : Passes(text, p, r) /\ At(text, r - 1) = "\\"}
<1>2. ASSUME NEW r \in X, GoesOn(r) PROVE AfterControl(r) + 1 \in X
  <2>1. PICK c : c = AfterControl(r)  OBVIOUS
  <2>2. Passes(text, r, c) /\ c \in 1 .. Len(text) + 1  BY <2>1, ControlPasses
  <2>3. At(text, c) = "\\"  BY <1>2, <2>1, CharAt DEF GoesOn
  <2>4. At(text, c) \notin LineEnds \cup {"end"}  BY <2>3 DEF LineEnds
  <2>5. PICK n : n = c + 1  OBVIOUS
  <2>6. Passes(text, c, n) /\ n \in 1 .. Len(text) + 1  BY <1>1, <2>2, <2>4, <2>5, PassOne
  <2>7. Passes(text, p, c)  BY <1>1, <2>2, PassTwice
  <2>8. Passes(text, p, n)  BY <1>1, <2>2, <2>6, <2>7, PassTwice
  <2>9. At(text, n - 1) = "\\"
    <3>1. n - 1 = c  BY <2>2, <2>5
    <3> QED BY <2>3, <3>1
  <2> QED BY <2>1, <2>5, <2>6, <2>8, <2>9
<1>3. Closed(X)  BY <1>2 DEF Closed
<1>4. X \in SUBSET Nat /\ p \in X  BY <1>1, PassNone
<1>5. q \in X  BY <1>3, <1>4 DEF Through
<1> QED BY <1>5

\* And it ends: the last place does not go on.
LEMMA ThroughEnds ==
  ASSUME IsText(text), NEW p \in 1 .. Len(text) + 1, At(text, p - 1) = "\\"
  PROVE  Outs(p) # {}
<1> SUFFICES ASSUME Outs(p) = {} PROVE FALSE  OBVIOUS
<1>1. text \in Seq(STRING) /\ Len(text) \in Nat  BY DEF IsText
<1> DEFINE R == {Len(text) + 1 - r : r \in Through(p)}
<1>2. \A r \in Through(p) : r \in 1 .. Len(text) + 1  BY ThroughPasses
<1>3. R \in SUBSET Nat  BY <1>1, <1>2
<1>4. p \in Through(p) /\ Closed(Through(p))  BY ThroughClosed
<1>0. R # {}  BY <1>4
<1>5. PICK m \in R : \A r \in R : ~(<<r, m>> \in OpToRel(<, Nat))
  BY <1>0, <1>3, NatLessThanWellFounded, WFMin
<1>6. \A r \in R : ~(r < m)  BY <1>3, <1>5 DEF OpToRel
<1>7. PICK r \in Through(p) : m = Len(text) + 1 - r  BY <1>5
<1>8. GoesOn(r)  BY <1>7 DEF Outs
<1>9. PICK n : n = AfterControl(r) + 1  OBVIOUS
<1>10. n \in Through(p)  BY <1>4, <1>8, <1>9 DEF Closed
<1>11. r \in 1 .. Len(text) + 1 /\ n \in 1 .. Len(text) + 1  BY <1>2, <1>10
<1>12. AfterControl(r) \in Nat /\ AfterControl(r) >= r  BY <1>11, AfterControlNat
<1>13. Len(text) + 1 - n < m  BY <1>1, <1>7, <1>9, <1>11, <1>12
<1> QED BY <1>6, <1>10, <1>13

\* The character an escape is about is ahead on this line, or a line end that the lexer
\* sees.
LEMMA EscapeTargetPasses ==
  ASSUME IsText(text), NEW p \in 1 .. Len(text) + 1, At(text, p - 1) = "\\", p > 1,
         NEW t, t = EscapeTarget(p)
  PROVE  /\ t.at \in 1 .. Len(text) + 1 /\ Passes(text, p, t.at)
         /\ t.plain \in BOOLEAN
         /\ Seen(text) /\ t.plain => At(text, t.at) \notin LineEnds
<1>1. text \in Seq(STRING) /\ Len(text) \in Nat  BY DEF IsText
<1>2. PICK out \in Outs(p) : TRUE  BY ThroughEnds
<1>3. out \in 1 .. Len(text) + 1 /\ Passes(text, p, out) /\ At(text, out - 1) = "\\"
  BY ThroughPasses DEF Outs
<1>4. t = Target(out)  BY EscapeTargetIs
<1>5. PICK c : c = AfterControl(out)  OBVIOUS
<1>6. Passes(text, out, c) /\ c \in 1 .. Len(text) + 1  BY <1>3, <1>5, ControlPasses
<1>7. CASE c = out
  <2>1. t.at = out /\ t.plain = FALSE  BY <1>4, <1>5, <1>7 DEF Target
  <2> QED BY <1>3, <2>1
<1>8. CASE c # out
  <2>1. t.at = c /\ t.plain = TRUE  BY <1>4, <1>5, <1>8 DEF Target
  <2>2. Passes(text, p, c)  BY <1>1, <1>3, <1>6, PassTwice
  <2>3. ASSUME Seen(text) PROVE At(text, c) \notin LineEnds
    <3>1. PICK b : b = out - 1  OBVIOUS
    <3>2. b \in 1 .. Len(text) /\ out = b + 1 /\ At(text, b) = "\\"
      BY <1>1, <1>3, <3>1 DEF Passes
    <3>3. Char(out) = At(text, b + 1) /\ Char(out + 1) = At(text, b + 2)  BY <3>2, CharAt
    <3>4. PICK d \in {"c", "C", "M"} : At(text, b + 1) = d
      BY <1>5, <1>8, <3>3 DEF AfterControl
    <3>5. \/ c = b + 2
          \/ d \in {"C", "M"} /\ At(text, b + 2) = "-" /\ c = b + 3
      BY <1>5, <1>8, <3>2, <3>3, <3>4 DEF AfterControl
    <3>6. CASE c = b + 2
      <4>1. PICK s : s = <<"\\", d>>  OBVIOUS
      <4>2. s \in Hiding /\ Len(s) = 2  BY <4>1 DEF Hiding
      <4>3. Says(text, b, s)
        <5>1. \A i \in 1 .. 2 : i = 1 \/ i = 2  OBVIOUS
        <5>2. b + 1 - 1 = b /\ b + 2 - 1 = b + 1  BY <3>2
        <5> QED BY <3>2, <3>4, <4>1, <4>2, <5>1, <5>2 DEF Says
      <4> QED BY <2>3, <3>2, <3>6, <4>2, <4>3 DEF Seen
    <3>7. CASE d \in {"C", "M"} /\ At(text, b + 2) = "-" /\ c = b + 3
      <4>1. PICK s : s = <<"\\", d, "-">>  OBVIOUS
      <4>2. s \in Hiding /\ Len(s) = 3  BY <3>7, <4>1 DEF Hiding
      <4>3. Says(text, b, s)
        <5>1. \A i \in 1 .. 3 : i = 1 \/ i = 2 \/ i = 3  OBVIOUS
        <5>2. b + 1 - 1 = b /\ b + 2 - 1 = b + 1 /\ b + 3 - 1 = b + 2  BY <3>2
        <5> QED BY <3>2, <3>4, <3>7, <4>1, <4>2, <5>1, <5>2 DEF Says
      <4> QED BY <2>3, <3>2, <3>7, <4>2, <4>3 DEF Seen
    <3> QED BY <3>5, <3>6, <3>7
  <2> QED BY <1>6, <2>1, <2>2, <2>3
<1> QED BY <1>7, <1>8

\* Up to n characters of a set.
LEMMA UptoPasses ==
  ASSUME IsText(text), NEW p \in 1 .. Len(text) + 1, NEW S, S \cap (LineEnds \cup {"end"}) = {},
         NEW n \in Nat, NEW q, q = IF Skip(p, S) > p + n THEN p + n ELSE Skip(p, S)
  PROVE  Passes(text, p, q) /\ q \in 1 .. Len(text) + 1
<1>1. text \in Seq(STRING) /\ Len(text) \in Nat  BY DEF IsText
<1>2. PICK r : r = Skip(p, S)  OBVIOUS
<1>3. Passes(text, p, r) /\ r \in 1 .. Len(text) + 1  BY <1>2, SkipPasses
<1>4. CASE q = r  BY <1>3, <1>4
<1>5. CASE r > p + n /\ q = p + n
  <2>1. q \in p .. r /\ q \in 1 .. Len(text) + 1  BY <1>1, <1>3, <1>5
  <2>2. \A i \in p .. q - 1 : i \in p .. r - 1  BY <1>3, <2>1
  <2> QED BY <1>1, <1>3, <2>1, <2>2 DEF Passes, Clean
<1> QED BY <1>2, <1>4, <1>5

LEMMA EscapeEndPasses ==
  ASSUME IsText(text), NEW t, t.at \in 1 .. Len(text) + 1, At(text, t.at) \notin LineEnds,
         NEW q, q = EscapeEnd(t)
  PROVE  Passes(text, t.at, q) /\ q \in 1 .. Len(text) + 1
<1>1. text \in Seq(STRING) /\ Len(text) \in Nat  BY DEF IsText
<1> DEFINE Octal == {"0", "1", "7"}
           Hex   == Digits \union {"A", "B", "a", "b", "c", "d", "e"}
           Upto(r, n, S) == IF Skip(r, S) > r + n THEN r + n ELSE Skip(r, S)
<1>2. PICK p : p = t.at  OBVIOUS
<1>3. p \in 1 .. Len(text) + 1 /\ At(text, p) \notin LineEnds /\ Char(p) = At(text, p)
  BY <1>2, CharAt
<1>4. Octal \cap (LineEnds \cup {"end"}) = {} /\ Hex \cap (LineEnds \cup {"end"}) = {}
  BY DEF Digits, LineEnds
<1>5. CASE p > Len(text)
  <2>1. At(text, p) = "end"  BY <1>3, <1>5, Characters
  <2>2. q = Len(text) + 1
    BY <1>2, <1>3, <1>5, <2>1 DEF EscapeEnd
  <2>3. q = p  BY <1>1, <1>3, <1>5, <2>2
  <2> QED BY <1>1, <1>2, <1>3, <2>3, PassNone
<1>6. CASE p <= Len(text)
  <2>1. At(text, p) \notin LineEnds \cup {"end"}  BY <1>3, <1>6, Characters DEF LineEnds
  <2>2. PICK p1 : p1 = p + 1  OBVIOUS
  <2>3. Passes(text, p, p1) /\ p1 \in 1 .. Len(text) + 1  BY <1>1, <1>3, <2>1, <2>2, PassOne
  <2>4. q = Upto(p, 3, Octal) \/ q = Upto(p1, 2, Hex) \/ q = p1
    BY <1>1, <1>2, <1>3, <1>6, <2>2 DEF EscapeEnd
  <2>5. CASE q = Upto(p, 3, Octal)  BY <1>2, <1>3, <1>4, <2>5, UptoPasses
  <2>6. CASE q = Upto(p1, 2, Hex)
    <3>1. Passes(text, p1, q) /\ q \in 1 .. Len(text) + 1  BY <1>4, <2>3, <2>6, UptoPasses
    <3> QED BY <1>1, <1>2, <1>3, <2>3, <3>1, PassTwice
  <2>7. CASE q = p1  BY <1>2, <2>3, <2>7
  <2> QED BY <2>4, <2>5, <2>6, <2>7
<1> QED BY <1>1, <1>3, <1>5, <1>6

-----------------------------------------------------------------------------
(* Heredocs.                                                               *)

OnLine == {text[i] : i \in 1 .. Len(text)} \ LineEnds

\* Whatever the line after a line end is, the lexer stops on it.
LEMMA TerminatorPasses ==
  ASSUME IsText(text), NEW p \in Nat \ {0}, At(text, p) \in LineEnds, str.h.ident \in BOOLEAN,
         NEW q, q = TerminatorLine(p).stop
  PROVE  /\ q \in 1 .. Len(text) + 1 /\ Lines(text, q) = Lines(text, p) + 1 /\ q >= p + 1
         /\ At(text, q) \in LineEnds \cup {"end"}
<1>1. text \in Seq(STRING) /\ Len(text) \in Nat  BY DEF IsText
<1>2. PICK n : n = AfterLineEnd(p)  OBVIOUS
<1>3. n = IF Says(text, p, <<"\r", "\n">>) THEN p + 2 ELSE p + 1
  BY <1>2, CharAt DEF AfterLineEnd, Spelled, Says
<1>4. n \in 1 .. Len(text) + 1 /\ Lines(text, n) = Lines(text, p) + 1 /\ n >= p + 1
  BY <1>3, NextLine
<1>5. PICK r : r = IF str.h.ident THEN Skip(n, White) ELSE n  OBVIOUS
<1>6. White \cap (LineEnds \cup {"end"}) = {}  BY DEF White, LineEnds
<1>7. Passes(text, n, r) /\ r \in 1 .. Len(text) + 1
  BY <1>1, <1>4, <1>5, <1>6, SkipPasses, PassNone
<1>8. q = Skip(r, OnLine)  BY <1>2, <1>5 DEF TerminatorLine, OnLine
<1>9. OnLine \cap (LineEnds \cup {"end"}) = {}  BY <1>1 DEF OnLine, IsText
<1>10. Passes(text, r, q) /\ q \in 1 .. Len(text) + 1  BY <1>7, <1>8, <1>9, SkipPasses
<1>11. Passes(text, n, q)  BY <1>1, <1>4, <1>7, <1>10, PassTwice
<1>12. Clean(text, n, q) /\ q >= n  BY <1>1, <1>4, <1>10, <1>11 DEF Passes
<1>13. Lines(text, q) = Lines(text, n)  BY <1>1, <1>4, <1>10, <1>12, SameLine
<1>14. At(text, q) \in LineEnds \cup {"end"}
  <2>1. At(text, q) \notin OnLine  BY <1>7, <1>8, <1>9, SkipStops
  <2>2. CASE q <= Len(text)
    <3>1. q \in 1 .. Len(text) /\ At(text, q) = text[q]  BY <1>10, <2>2 DEF At
    <3> QED BY <2>1, <3>1 DEF OnLine
  <2>3. CASE ~(q <= Len(text))  BY <2>3 DEF At
  <2> QED BY <2>2, <2>3
<1> QED BY <1>1, <1>4, <1>10, <1>12, <1>13, <1>14

LEMMA HeredocNamePasses ==
  ASSUME IsText(text), NEW p \in 1 .. Len(text) + 1, Char(p) \in Ident \union {"bq", "dq", "'"},
         NEW n, n = HeredocName(p)
  PROVE  /\ n.stop \in 1 .. Len(text) + 1 /\ Passes(text, p, n.stop)
         /\ n.name \in Seq(STRING) /\ n.type \in {"COMMAND", "STRING"}
<1>1. text \in Seq(STRING) /\ Len(text) \in Nat  BY DEF IsText
<1>2. Char(p) = At(text, p)  BY CharAt
<1> DEFINE quoted == Char(p) \in {"bq", "dq", "'"}
           Inside == {text[i] : i \in 1 .. Len(text)} \ (LineEnds \union {Char(p)})
           stop == IF quoted THEN Skip(p + 1, Inside) ELSE Skip(p, Ident)
<1>3. Inside \cap (LineEnds \cup {"end"}) = {} /\ Ident \cap (LineEnds \cup {"end"}) = {}
  <2>1. Inside \cap (LineEnds \cup {"end"}) = {}  BY <1>1 DEF IsText
  <2>2. Ident \cap (LineEnds \cup {"end"}) = {}
    BY DEF Ident, StartIdent, Letters, Digits, LineEnds
  <2> QED BY <2>1, <2>2
<1>4. At(text, p) \notin LineEnds \cup {"end"}
  BY <1>2 DEF Ident, StartIdent, Letters, Digits, LineEnds
<1>5. PICK p1 : p1 = p + 1  OBVIOUS
<1>6. Passes(text, p, p1) /\ p1 \in 1 .. Len(text) + 1  BY <1>1, <1>4, <1>5, PassOne
<1>7. PICK s : s = stop  OBVIOUS
<1>8. s \in 1 .. Len(text) + 1 /\ Passes(text, p, s)
  <2>1. CASE quoted
    <3>1. s = Skip(p1, Inside)  BY <1>5, <1>7, <2>1
    <3> HIDE DEF Inside
    <3>2. Passes(text, p1, s) /\ s \in 1 .. Len(text) + 1  BY <1>3, <1>6, <3>1, SkipPasses
    <3> QED BY <1>1, <1>6, <3>2, PassTwice
  <2>2. CASE ~quoted
    <3>1. s = Skip(p, Ident)  BY <1>7, <2>2
    <3> QED BY <1>3, <3>1, SkipPasses
  <2> QED BY <2>1, <2>2
<1>9. n = [name |-> SubSeq(text, IF quoted THEN p + 1 ELSE p, s - 1),
           type |-> IF Char(p) = "bq" THEN "COMMAND" ELSE "STRING",
           stop |-> IF quoted /\ Char(s) = Char(p) THEN s + 1 ELSE s]
  BY <1>7 DEF HeredocName
<1>10. n.name \in Seq(STRING)
  <2>1. PICK b : b = IF quoted THEN p + 1 ELSE p  OBVIOUS
  <2>2. b \in Nat \ {0} /\ s - 1 \in 0 .. Len(text)  BY <1>1, <1>8, <2>1
  <2>3. SubSeq(text, b, s - 1) \in Seq(STRING)  BY <1>1, <2>2
  <2> QED BY <1>9, <2>1, <2>3
<1>11. n.stop \in 1 .. Len(text) + 1 /\ Passes(text, p, n.stop)
  <2>1. CASE quoted /\ Char(s) = Char(p)
    <3>1. At(text, s) \notin LineEnds \cup {"end"}  BY <1>2, <1>4, <2>1, CharAt
    <3>2. PICK e : e = s + 1  OBVIOUS
    <3>3. Passes(text, s, e) /\ e \in 1 .. Len(text) + 1  BY <1>1, <1>8, <3>1, <3>2, PassOne
    <3>4. n.stop = e  BY <1>9, <2>1, <3>2
    <3> QED BY <1>1, <1>8, <3>3, <3>4, PassTwice
  <2>2. CASE ~(quoted /\ Char(s) = Char(p))
    <3>1. n.stop = s  BY <1>9, <2>2
    <3> QED BY <1>8, <3>1
  <2> QED BY <2>1, <2>2
<1> QED BY <1>9, <1>10, <1>11

-----------------------------------------------------------------------------
(* The inductive invariant, of any values t, p, l, hs, m, s and c of the   *)
(* variables text, pos, lex, heredocs, mode, str and calls.                *)

TextModes == {"interpolate", "simple", "words"}
Modes == TextModes \union {"dispatch", "parser", "comment", "return"}

\* Lexemes the parser may have read again are short and stand on one line.
Rereadable == {"DIV", "ASSIGN_DIV", "MOD", "ASSIGN_MOD", "LEFT_SHIFT", "QUESTION"}
LiteralTypes == {"NONE", "STRING", "COMMAND", "REGEXP", "SYMBOL", "ARRAY"}
Types == LiteralTypes \union Rereadable
           \union {"END", "LINE", "IDENT", "NUMBER", "OPERATOR", "SIGN", "VARIABLE",
                   "CURLY_OPEN", "CURLY_CLOSE", "BACKTICK", "HEREDOC", "UNARY"}

\* What delimits a literal is no line end, if all of those are seen.
Delimiters(t) ==
  {c \in STRING \union {"end", "dq", "'", "bq", "/", ")", "}", "]", ">"} :
     SeenIn(t) => c \notin LineEnds}

Heredocs == [name : Seq(STRING), ident : BOOLEAN, type : LiteralTypes]
Literals(t) ==
  [type : LiteralTypes, opener : Delimiters(t), terminator : Delimiters(t), nested : Nat,
   heredoc : BOOLEAN, h : Heredocs \union {NoHeredoc}, continuing : BOOLEAN, origin : Nat]
Lexemes(t) ==
  [type : Types, start : Nat, stop : Nat, line : Nat, cur : Nat, ws : BOOLEAN,
   piece : Pieces, curlies : Seq(Literals(t))]

\* Literals go on in the mode they were left in, and what a heredoc interrupts is not
\* read again.
AnyFrame(t) ==
  [kind : {"load", "line", "restep", "text", "character", "heredoc", "after"},
   mode : Modes \union {"load"}, str : Literals(t), old : Lexemes(t),
   comment : BOOLEAN, last : BOOLEAN]
Frames(t) ==
  {f \in AnyFrame(t) : /\ f.kind = "text" => f.mode \in TextModes
                       /\ f.kind = "heredoc" => f.old.type \notin Rereadable}

\* The calls that wait while the count of lines is n: a heredoc is read for some other.
WithinHeredoc == {"heredoc", "after"}
Waits(t, c, n) ==
  /\ c \in Seq(Frames(t))
  /\ \A i \in 1 .. Len(c) : /\ c[i].old.line <= n
                            /\ c[i].kind \in WithinHeredoc => i > 1

TypesOK(t, p, l, hs, m, s, c) ==
  /\ t \in Texts /\ p \in 1 .. Len(t) + 2
  /\ l \in Lexemes(t) /\ l.line <= l.cur
  /\ hs \in Seq(Heredocs) /\ m \in Modes /\ s \in Literals(t)
  /\ Waits(t, c, l.cur)
  /\ m \in {"comment", "return"} => c # <<>>
  /\ m \notin {"dispatch", "parser"} => l.type \notin Rereadable

\* The lexeme is where it says.
ReadAgain(t, l, p) ==
  /\ l.start \in 1 .. Len(t) /\ l.start < p /\ Passes(t, l.start, p)
  /\ l.type \in {"MOD", "ASSIGN_MOD"} => At(t, l.start) = "%"
  /\ l.type = "QUESTION" => At(t, l.start) = "?" /\ p = l.start + 1

\* A comment has begun on the way to p and not ended.
InComment(t, p) ==
  \E b \in 1 .. p : /\ CommentAt(t, b)
                    /\ \A r \in b .. p - 1 : ~(At(t, r) = "\n" /\ CommentEndAt(t, r + 1))

\* The lexer has counted the lines it has gone past, whatever function runs.
Good(t, p, l, hs, m, s, c) ==
  /\ TypesOK(t, p, l, hs, m, s, c)
  /\ m = "parser" /\ l.type \in Rereadable => ReadAgain(t, l, p)
  /\ m = "comment" => InComment(t, p)
  /\ m = "dispatch" => l.line = l.cur /\ l.start = p
  /\ SeenIn(t) => l.cur = Lines(t, p)

IInv == Good(text, pos, lex, heredocs, mode, str, calls)

-----------------------------------------------------------------------------
(* The calls that wait.                                                    *)

LEMMA PushCall ==
  ASSUME NEW t, NEW n \in Nat, NEW c, Waits(t, c, n), NEW f \in Frames(t), f.old.line <= n,
         f.kind \in WithinHeredoc => c # <<>>, NEW d, d = Append(c, f)
  PROVE  Waits(t, d, n) /\ d # <<>>
<1>1. c \in Seq(Frames(t)) /\ d \in Seq(Frames(t)) /\ Len(d) = Len(c) + 1 /\ Len(c) \in Nat
  BY DEF Waits
<1>2. \A i \in 1 .. Len(c) : d[i] = c[i]  BY <1>1
<1>3. d[Len(c) + 1] = f  BY <1>1
<1>4. c # <<>> => Len(c) > 0  BY <1>1
<1>5. ASSUME NEW i \in 1 .. Len(d)
      PROVE  d[i].old.line <= n /\ (d[i].kind \in WithinHeredoc => i > 1)
  <2>1. CASE i \in 1 .. Len(c)  BY <1>2, <2>1 DEF Waits
  <2>2. CASE i = Len(c) + 1  BY <1>1, <1>3, <1>4, <2>2
  <2> QED BY <1>1, <2>1, <2>2
<1>6. d # <<>>  BY <1>1
<1> QED BY <1>1, <1>5, <1>6 DEF Waits

LEMMA PopCall ==
  ASSUME NEW t, NEW n \in Nat, NEW c, Waits(t, c, n), c # <<>>
  PROVE  /\ Waits(t, Front(c), n) /\ Last(c) \in Frames(t) /\ Last(c).old.line <= n
         /\ Last(c).kind \in WithinHeredoc => Front(c) # <<>>
<1>1. c \in Seq(Frames(t)) /\ Len(c) \in Nat \ {0}  BY DEF Waits
<1>2. Last(c) = c[Len(c)]  BY DEF Last
<1>3. PICK d : d = Front(c)  OBVIOUS
<1>4. d \in Seq(Frames(t)) /\ Len(d) = Len(c) - 1 /\ \A i \in 1 .. Len(d) : d[i] = c[i]
  <2>1. PICK k : k = Len(c) - 1  OBVIOUS
  <2>2. d = SubSeq(c, 1, k) /\ k \in Nat /\ k <= Len(c)  BY <1>1, <1>3, <2>1 DEF Front
  <2> QED BY <1>1, <2>1, <2>2
<1>5. Waits(t, d, n)  BY <1>1, <1>4 DEF Waits
<1>6. Last(c).kind \in WithinHeredoc => Len(c) > 1  BY <1>1, <1>2 DEF Waits
<1>7. Last(c) \in Frames(t) /\ Last(c).old.line <= n  BY <1>1, <1>2 DEF Waits
<1> QED BY <1>1, <1>3, <1>4, <1>5, <1>6, <1>7

LEMMA LaterCount ==
  ASSUME NEW t, NEW n \in Nat, NEW k \in Nat, n <= k, NEW c, Waits(t, c, n)
  PROVE  Waits(t, c, k)
<1>1. ASSUME NEW i \in 1 .. Len(c)  PROVE c[i].old.line \in Nat
  <2>1. PICK f : f = c[i]  OBVIOUS
  <2>2. f \in Frames(t)  BY <2>1 DEF Waits
  <2>3. f.old \in Lexemes(t)  BY <2>2 DEF Frames, AnyFrame
  <2>4. f.old.line \in Nat  BY <2>3 DEF Lexemes
  <2> QED BY <2>1, <2>4
<1> QED BY <1>1 DEF Waits

-----------------------------------------------------------------------------
(* Where a function ends up.                                               *)

LEMMA TextGiven ==
  ASSUME IInv
  PROVE  IsText(text) /\ text \in Seq(STRING) /\ Len(text) \in Nat
BY TextsAssumption DEF IInv, Good, TypesOK, IsText

\* Taking the lexeme on from the present position (restep) leaves the line it is on.
LEMMA ToDispatch ==
  ASSUME NEW t, NEW p, NEW l, NEW hs, NEW s, NEW c, TypesOK(t, p, l, hs, "parser", s, c),
         SeenIn(t) => l.cur = Lines(t, p), NEW ws \in BOOLEAN, NEW r, r = Restep(l, p, ws),
         IsText(t)
  PROVE  Good(t, p, r, hs, "dispatch", s, c)
<1>1. l \in Lexemes(t) /\ p \in Nat  BY DEF TypesOK, IsText
<1>2. r \in Lexemes(t) /\ r.start = p /\ r.line = l.cur /\ r.cur = l.cur /\ l.cur \in Nat
  BY <1>1 DEF Restep, Lexemes, Pieces
<1>3. r.line <= r.cur  BY <1>2
<1>4. TypesOK(t, p, r, hs, "dispatch", s, c)
  BY <1>2, <1>3 DEF TypesOK, Modes
<1> QED BY <1>2, <1>4 DEF Good

\* A lexeme that is complete is given to the parser as it is.
LEMMA ToParser ==
  ASSUME NEW t, NEW p, NEW l, NEW hs, NEW s, NEW c, TypesOK(t, p, l, hs, "parser", s, c),
         SeenIn(t) => l.cur = Lines(t, p), l.type \in Rereadable => ReadAgain(t, l, p)
  PROVE  Good(t, p, l, hs, "parser", s, c)
BY DEF Good

\* to the loop over a literal, or back to a function that waits
LEMMA ToOther ==
  ASSUME NEW t, NEW p, NEW l, NEW hs, NEW s, NEW c, TypesOK(t, p, l, hs, "parser", s, c),
         SeenIn(t) => l.cur = Lines(t, p), l.type \notin Rereadable,
         NEW m \in TextModes \cup {"comment", "return"}, m \in {"comment", "return"} => c # <<>>,
         m = "comment" => InComment(t, p)
  PROVE  Good(t, p, l, hs, m, s, c)
<1>1. TypesOK(t, p, l, hs, m, s, c)  BY DEF TypesOK, Modes
<1> QED BY <1>1 DEF Good, TextModes

\* Parts of the invariant, and the same for any mode.
LEMMA InvParts ==
  ASSUME IInv
  PROVE  /\ pos \in Nat \ {0} /\ lex \in Lexemes(text) /\ lex.line <= lex.cur /\ lex.cur \in Nat
         /\ lex.type \in Types /\ str \in Literals(text) /\ heredocs \in Seq(Heredocs) /\ mode \in Modes
         /\ Waits(text, calls, lex.cur)
         /\ TypesOK(text, pos, lex, heredocs, "parser", str, calls)
         /\ mode \notin {"dispatch", "parser"} => lex.type \notin Rereadable
         /\ SeenIn(text) => lex.cur = Lines(text, pos)
<1>1. TypesOK(text, pos, lex, heredocs, mode, str, calls)  BY DEF IInv, Good
<1>2. TypesOK(text, pos, lex, heredocs, "parser", str, calls)  BY <1>1 DEF TypesOK, Modes
<1>3. pos \in Nat \ {0} /\ lex \in Lexemes(text)  BY <1>1, TextGiven DEF TypesOK
<1>4. lex.cur \in Nat /\ lex.type \in Types  BY <1>3 DEF Lexemes
<1> QED BY <1>1, <1>2, <1>3, <1>4 DEF IInv, Good, TypesOK

\* The same with another place and lexeme.
LEMMA OtherLexeme ==
  ASSUME IInv, NEW p \in 1 .. Len(text) + 2, NEW l \in Lexemes(text), l.cur = lex.cur,
         l.line <= l.cur, NEW s \in Literals(text)
  PROVE  TypesOK(text, p, l, heredocs, "parser", s, calls)
<1>1. TypesOK(text, pos, lex, heredocs, "parser", str, calls)  BY InvParts
<1> QED BY <1>1 DEF TypesOK

\* Where the lexer passes to, the lines counted are the same.
LEMMA Level ==
  ASSUME NEW t, t \in Seq(STRING), NEW p \in Nat \ {0}, NEW q, Passes(t, p, q)
  PROVE  Lines(t, q) = Lines(t, p) /\ q \in 1 .. Len(t) + 2 /\ q \in Nat \ {0}
<1>1. q \in Nat /\ Clean(t, p, q) /\ q \in 1 .. Len(t) + 2 /\ q \in Nat \ {0}
  BY DEF Passes
<1> QED BY <1>1, SameLine

\* A character at which a handler was called.
LEMMA DispatchedAt ==
  ASSUME IInv, NEW S, Dispatch(S)
  PROVE  /\ mode = "dispatch" /\ At(text, pos) \in S /\ Char(pos) = At(text, pos)
         /\ lex.line = lex.cur /\ lex.start = pos
         /\ "end" \notin S => pos \in 1 .. Len(text)
<1>1. At(text, pos) \in S /\ Char(pos) = At(text, pos) /\ mode = "dispatch"  BY CharAt DEF Dispatch
<1>2. "end" \notin S => pos \in 1 .. Len(text)  BY <1>1, InvParts, TextGiven, Characters
<1> QED BY <1>1, <1>2 DEF IInv, Good

-----------------------------------------------------------------------------
(* What the actions have in common.                                        *)

LEMMA RestartStep ==
  ASSUME IInv, NEW p, Passes(text, pos, p), NEW ws \in BOOLEAN, Restart(p, ws)
  PROVE  IInv'
<1>1. text \in Seq(STRING) /\ IsText(text) /\ pos \in Nat \ {0}  BY TextGiven, InvParts
<1>2. Lines(text, p) = Lines(text, pos) /\ p \in 1 .. Len(text) + 2  BY <1>1, Level
<1>3. lex \in Lexemes(text) /\ lex.line <= lex.cur /\ str \in Literals(text)  BY InvParts
<1>4. TypesOK(text, p, lex, heredocs, "parser", str, calls)  BY <1>2, <1>3, OtherLexeme
<1>5. SeenIn(text) => lex.cur = Lines(text, p)  BY <1>2, InvParts
<1>6. PICK r : r = Restep(lex, p, ws)  OBVIOUS
<1>7. Good(text, p, r, heredocs, "dispatch", str, calls)  BY <1>1, <1>4, <1>5, <1>6, ToDispatch
<1>8. /\ text' = text /\ pos' = p /\ lex' = r /\ mode' = "dispatch"
      /\ heredocs' = heredocs /\ str' = str /\ calls' = calls
  BY <1>6 DEF Restart
<1> QED BY <1>7, <1>8 DEF IInv

LEMMA FinishStep ==
  ASSUME IInv, NEW p \in 1 .. Len(text) + 2, NEW l \in Lexemes(text), Finish(l, p),
         l.cur = lex.cur, l.line = lex.line, SeenIn(text) => Lines(text, p) = Lines(text, pos),
         l.type \in Rereadable => ReadAgain(text, l, p)
  PROVE  IInv'
<1>1. lex.line <= lex.cur /\ str \in Literals(text)  BY InvParts
<1>2. TypesOK(text, p, l, heredocs, "parser", str, calls)  BY <1>1, OtherLexeme
<1>3. SeenIn(text) => l.cur = Lines(text, p)  BY InvParts
<1>4. Good(text, p, l, heredocs, "parser", str, calls)  BY <1>2, <1>3, ToParser
<1>5. /\ text' = text /\ pos' = p /\ lex' = l /\ mode' = "parser"
      /\ heredocs' = heredocs /\ str' = str /\ calls' = calls
  BY DEF Finish
<1> QED BY <1>4, <1>5 DEF IInv

\* A literal begins, or goes on.
LEMMA EnterStep ==
  ASSUME IInv, NEW p \in 1 .. Len(text) + 2, NEW l \in Lexemes(text), NEW s \in Literals(text),
         NEW m \in TextModes, l.cur = lex.cur, l.line = lex.line, l.type \notin Rereadable,
         SeenIn(text) => Lines(text, p) = Lines(text, pos),
         text' = text, pos' = p, lex' = l, mode' = m, heredocs' = heredocs, str' = s, calls' = calls
  PROVE  IInv'
<1>1. lex.line <= lex.cur  BY InvParts
<1>2. TypesOK(text, p, l, heredocs, "parser", s, calls)  BY <1>1, OtherLexeme
<1>3. SeenIn(text) => l.cur = Lines(text, p)  BY InvParts
<1>4. m \in TextModes \cup {"comment", "return"} /\ m \notin {"comment", "return"}  BY DEF TextModes
<1>5. Good(text, p, l, heredocs, m, s, calls)  BY <1>2, <1>3, <1>4, ToOther
<1> QED BY <1>5 DEF IInv

LEMMA InterpolateStep ==
  ASSUME IInv, NEW p \in 1 .. Len(text) + 2, NEW l \in Lexemes(text), NEW s \in Literals(text),
         l.cur = lex.cur, l.line = lex.line,
         SeenIn(text) => Lines(text, p) = Lines(text, pos), Interpolate(l, p, s)
  PROVE  IInv'
<1>1. PICK k : k = [l EXCEPT !.type = s.type, !.piece = IF s.continuing THEN "Ending" ELSE "Plain"]
  OBVIOUS
<1>2. s.type \in LiteralTypes  BY DEF Literals
<1>3. s.type \in Types /\ s.type \notin Rereadable  BY <1>2 DEF Types, LiteralTypes, Rereadable
<1>4. k \in Lexemes(text) /\ k.cur = l.cur /\ k.line = l.line /\ k.type = s.type
  BY <1>1, <1>3 DEF Lexemes, Pieces
<1>5. /\ text' = text /\ pos' = p /\ lex' = k /\ mode' = "interpolate"
      /\ heredocs' = heredocs /\ str' = s /\ calls' = calls
  BY <1>1 DEF Interpolate
<1>6. "interpolate" \in TextModes  BY DEF TextModes
<1> QED BY <1>3, <1>4, <1>5, <1>6, EnterStep

LEMMA SimpleStep ==
  ASSUME IInv, NEW p \in 1 .. Len(text) + 2, NEW s \in Literals(text), NEW m \in TextModes,
         SeenIn(text) => Lines(text, p) = Lines(text, pos), Simple(p, m, s)
  PROVE  IInv'
<1>0. lex \in Lexemes(text)  BY InvParts
<1>1. PICK k : k = [lex EXCEPT !.type = s.type, !.piece = "Plain"]
  OBVIOUS
<1>2. s.type \in LiteralTypes  BY DEF Literals
<1>3. s.type \in Types /\ s.type \notin Rereadable  BY <1>2 DEF Types, LiteralTypes, Rereadable
<1>4. k \in Lexemes(text) /\ k.cur = lex.cur /\ k.line = lex.line /\ k.type = s.type
  BY <1>0, <1>1, <1>3 DEF Lexemes, Pieces
<1>5. /\ text' = text /\ pos' = p /\ lex' = k /\ mode' = m
      /\ heredocs' = heredocs /\ str' = s /\ calls' = calls
  BY <1>1 DEF Simple
<1> QED BY <1>3, <1>4, <1>5, EnterStep

LEMMA AtLineEnd ==
  ASSUME IsText(text), NEW p \in Nat \ {0}, At(text, p) \in LineEnds, NEW q, q = AfterLineEnd(p)
  PROVE  q \in 1 .. Len(text) + 1 /\ Lines(text, q) = Lines(text, p) + 1
<1>1. q = IF Says(text, p, <<"\r", "\n">>) THEN p + 2 ELSE p + 1
  BY CharAt DEF AfterLineEnd, Spelled, Says
<1> QED BY <1>1, NextLine

LEMMA CommentIs ==
  ASSUME NEW p
  PROVE  IsComment(p) <=> CommentAt(text, p)
BY CharAt DEF IsComment, CommentAt, Spelled, Says

LEMMA CommentBegins ==
  ASSUME NEW p \in Nat \ {0}, CommentAt(text, p)
  PROVE  InComment(text, p)
<1>1. p \in 1 .. p /\ \A r \in p .. p - 1 : FALSE  OBVIOUS
<1> QED BY <1>1 DEF InComment

\* A line end is counted, and the heredoc that waits is read (process_newline).
LEMMA NewlineStep ==
  ASSUME IInv, NEW p \in 1 .. Len(text) + 1, NEW l \in Lexemes(text), l.type \notin Rereadable,
         l.line <= l.cur, NEW no_heredoc, NEW allow \in BOOLEAN,
         NEW w, Waits(text, w, l.cur), w # <<>>,
         SeenIn(text) => Lines(text, p) = l.cur + 1,
         ProcessNewline(l, p, no_heredoc, allow, w)
  PROVE  IInv'
<1>1. text \in Texts /\ p \in 1 .. Len(text) + 2 /\ p \in Nat
  BY InvParts, TextGiven DEF TypesOK
<1>2. PICK k : k = [l EXCEPT !.cur = @ + 1]  OBVIOUS
<1>3. l.cur \in Nat /\ l.line \in Nat  BY DEF Lexemes
<1>4. k \in Lexemes(text) /\ k.cur = l.cur + 1 /\ k.line = l.line /\ k.type = l.type
  BY <1>2, <1>3 DEF Lexemes
<1>5. k.line <= k.cur /\ k.cur \in Nat /\ l.cur <= k.cur  BY <1>3, <1>4
<1>6. Waits(text, w, k.cur)  BY <1>3, <1>5, LaterCount
<1>7. CASE heredocs # <<>> /\ ~no_heredoc
  <2>1. heredocs \in Seq(Heredocs)  BY InvParts
  <2>2. PICK h : h = Last(heredocs)  OBVIOUS
  <2>3. h \in Heredocs
    <3>1. Len(heredocs) \in Nat \ {0}  BY <1>7, <2>1
    <3> QED BY <2>1, <2>2, <3>1 DEF Last
  <2>4. PICK hs : hs = Front(heredocs)  OBVIOUS
  <2>5. hs \in Seq(Heredocs)
    <3>1. PICK n : n = Len(heredocs) - 1  OBVIOUS
    <3>2. n \in Nat /\ n <= Len(heredocs)  BY <1>7, <2>1, <3>1
    <3>3. hs = SubSeq(heredocs, 1, n)  BY <2>4, <3>1 DEF Front
    <3> QED BY <2>1, <3>2, <3>3
  <2>6. h.type \in LiteralTypes  BY <2>3 DEF Heredocs
  <2>7. h.type \in Types /\ h.type \notin Rereadable
    BY <2>6 DEF Types, LiteralTypes, Rereadable
  <2>8. PICK f : f = [Frame("heredoc") EXCEPT !.old = k, !.comment = allow]  OBVIOUS
  <2>9. /\ f.kind = "heredoc" /\ f.old = k /\ f.mode = mode /\ f.str = str
        /\ f = [kind |-> "heredoc", mode |-> mode, str |-> str, old |-> k, comment |-> allow,
                last |-> FALSE]
    BY <2>8 DEF Frame
  <2>10. f \in Frames(text)
    <3>1. mode \in Modes /\ str \in Literals(text)  BY InvParts
    <3>2. f \in AnyFrame(text)  BY <1>4, <2>9, <3>1 DEF AnyFrame
    <3> QED BY <1>4, <2>9, <3>2 DEF Frames
  <2>11. PICK c : c = Append(w, f)  OBVIOUS
  <2>12. Waits(text, c, k.cur) /\ c # <<>>
    <3>1. f.old.line <= k.cur  BY <1>5, <2>9
    <3> QED BY <1>5, <1>6, <2>10, <2>11, <3>1, PushCall
  <2>13. PICK s : s = [Literal(h.type, "end", "end", p) EXCEPT !.heredoc = TRUE, !.h = h]
    OBVIOUS
  <2>14. s \in Literals(text)
    <3>1. "end" \in Delimiters(text)  BY DEF Delimiters, LineEnds
    <3> QED BY <1>1, <2>3, <2>6, <2>13, <3>1 DEF Literal, Literals
  <2>15. PICK r : r = [k EXCEPT !.start = p, !.line = k.cur, !.type = h.type, !.piece = "Plain"]
    OBVIOUS
  <2>16. r \in Lexemes(text) /\ r.cur = k.cur /\ r.line = k.cur /\ r.type = h.type
    BY <1>1, <1>4, <1>5, <2>7, <2>15 DEF Lexemes, Pieces
  <2>17. TypesOK(text, p, r, hs, "parser", s, c)
    BY <1>1, <1>5, <2>5, <2>12, <2>14, <2>16 DEF TypesOK, Modes
  <2>18. "interpolate" \in TextModes \cup {"comment", "return"}  BY DEF TextModes
  <2>19. Good(text, p, r, hs, "interpolate", s, c)
    BY <1>4, <2>7, <2>16, <2>17, <2>18, ToOther
  <2>20. /\ text' = text /\ pos' = p /\ lex' = r /\ mode' = "interpolate"
         /\ heredocs' = hs /\ str' = s /\ calls' = c
    BY <1>2, <1>7, <2>2, <2>4, <2>8, <2>11, <2>13, <2>15 DEF ProcessNewline
  <2> QED BY <2>19, <2>20 DEF IInv
<1>8. CASE ~(heredocs # <<>> /\ ~no_heredoc)
  <2>1. PICK m : m = IF allow /\ IsComment(p) THEN "comment" ELSE "return"  OBVIOUS
  <2>2. m \in TextModes \cup {"comment", "return"}  BY <2>1
  <2>3. m = "comment" => InComment(text, p)  BY <1>1, <2>1, CommentIs, CommentBegins
  <2>4. TypesOK(text, p, k, heredocs, "parser", str, w)
    BY <1>1, <1>4, <1>5, <1>6, InvParts DEF TypesOK, Modes
  <2>5. SeenIn(text) => k.cur = Lines(text, p)  BY <1>4
  <2>6. Good(text, p, k, heredocs, m, str, w)
    BY <1>4, <2>2, <2>3, <2>4, <2>5, ToOther
  <2>7. /\ text' = text /\ pos' = p /\ lex' = k /\ mode' = m
        /\ heredocs' = heredocs /\ str' = str /\ calls' = w
    BY <1>2, <1>8, <2>1 DEF ProcessNewline
  <2> QED BY <2>6, <2>7 DEF IInv
<1> QED BY <1>7, <1>8

\* newline and carrige_return, for a lexeme that has counted the lines up to p
LEMMA LineEndStep ==
  ASSUME IInv, NEW p \in Nat \ {0}, At(text, p) \in LineEnds, NEW l \in Lexemes(text), l.line <= l.cur,
         NEW w, Waits(text, w, l.cur), w # <<>>, SeenIn(text) => l.cur = Lines(text, p),
         Newline(l, p, w)
  PROVE  IInv'
<1>1. PICK k : k = [l EXCEPT !.type = "LINE"]  OBVIOUS
<1>2. k \in Lexemes(text) /\ k.cur = l.cur /\ k.line = l.line /\ k.type = "LINE"
  BY <1>1 DEF Lexemes, Types
<1>3. "LINE" \notin Rereadable  BY DEF Rereadable
<1>4. PICK q : q = AfterLineEnd(p)  OBVIOUS
<1>5. q \in 1 .. Len(text) + 1 /\ Lines(text, q) = Lines(text, p) + 1
  BY <1>4, TextGiven, AtLineEnd
<1>6. ProcessNewline(k, q, FALSE, TRUE, w)  BY <1>1, <1>4 DEF Newline
<1> QED BY <1>2, <1>3, <1>5, <1>6, NewlineStep

\* The loop over a literal goes on.
LEMMA LoopStep ==
  ASSUME IInv, mode \in TextModes, NEW p \in 1 .. Len(text) + 2,
         SeenIn(text) => Lines(text, p) = Lines(text, pos), Loop(p)
  PROVE  IInv'
<1>1. lex \in Lexemes(text) /\ str \in Literals(text) /\ lex.type \notin Rereadable
  BY InvParts DEF TextModes
<1>2. PICK s : s = IF str.heredoc THEN str ELSE [str EXCEPT !.nested = Nested(pos)]  OBVIOUS
<1>3. s \in Literals(text)
  <2>1. str.nested \in Nat  BY <1>1 DEF Literals
  <2>2. Nested(pos) \in Nat  BY <2>1 DEF Nested
  <2> QED BY <1>1, <1>2, <2>2 DEF Literals
<1>4. /\ text' = text /\ pos' = p /\ lex' = lex /\ mode' = mode
      /\ heredocs' = heredocs /\ str' = s /\ calls' = calls
  BY <1>2 DEF Loop
<1> QED BY <1>1, <1>3, <1>4, EnterStep

\* A piece of it is complete.
LEMMA DoneStep ==
  ASSUME IInv, mode \in TextModes, NEW p \in 1 .. Len(text) + 1, NEW l \in Lexemes(text),
         l.line <= l.cur, lex.cur <= l.cur, l.type \notin Rereadable,
         SeenIn(text) => l.cur = Lines(text, p), Done(l, p)
  PROVE  IInv'
<1>1. IsText(text) /\ text \in Seq(STRING) /\ Len(text) \in Nat  BY TextGiven
<1>2. str \in Literals(text) /\ Waits(text, calls, lex.cur) /\ lex.cur \in Nat  BY InvParts
<1>3. PICK q : q = IF l.type = "REGEXP" /\ l.piece \in {"Plain", "Ending"}
                     THEN Skip(p, Letters) ELSE p
  OBVIOUS
<1>4. Lines(text, q) = Lines(text, p) /\ q \in 1 .. Len(text) + 2
  <2>1. Letters \cap (LineEnds \cup {"end"}) = {}  BY DEF Letters, LineEnds
  <2>2. Passes(text, p, q)  BY <1>1, <1>3, <2>1, SkipPasses, PassNone
  <2>3. p \in Nat \ {0}  BY <1>1
  <2> QED BY <1>1, <2>2, <2>3, Level
<1>5. PICK k : k = [Typed(l) EXCEPT !.stop = p]  OBVIOUS
<1>6. /\ k \in Lexemes(text) /\ k.cur = l.cur /\ k.line = l.line
      /\ k.type \notin Rereadable
  <2>1. str.type \in LiteralTypes  BY <1>2 DEF Literals
  <2>2. str.type \in Types /\ str.type \notin Rereadable
    BY <2>1 DEF Types, LiteralTypes, Rereadable
  <2>3. PICK j : j = Typed(l)  OBVIOUS
  <2>4. j = l \/ j = [l EXCEPT !.type = str.type]  BY <2>3 DEF Typed
  <2>5. j \in Lexemes(text) /\ j.cur = l.cur /\ j.line = l.line /\ j.type \notin Rereadable
    BY <2>2, <2>4 DEF Lexemes
  <2>6. p \in Nat  BY <1>1
  <2> QED BY <1>5, <2>3, <2>5, <2>6 DEF Lexemes
<1>7. l.cur \in Nat  BY DEF Lexemes
<1>8. Waits(text, calls, k.cur)  BY <1>2, <1>6, <1>7, LaterCount
<1>9. TypesOK(text, pos, lex, heredocs, "parser", str, calls)  BY InvParts
<1>10. TypesOK(text, q, k, heredocs, "parser", str, calls)
  BY <1>4, <1>6, <1>8, <1>9 DEF TypesOK
<1>11. Good(text, q, k, heredocs, "parser", str, calls)
  BY <1>4, <1>6, <1>10, ToParser
<1>12. /\ text' = text /\ pos' = q /\ lex' = k /\ mode' = "parser"
       /\ heredocs' = heredocs /\ str' = str /\ calls' = calls
  BY <1>3, <1>5 DEF Done
<1> QED BY <1>11, <1>12 DEF IInv

\* A line ends in the text of a literal.
LEMMA LineInTextStep ==
  ASSUME IInv, mode \in TextModes, NEW p \in Nat \ {0}, At(text, p) \in LineEnds,
         SeenIn(text) => Lines(text, p) = Lines(text, pos), LineInText(p)
  PROVE  IInv'
<1>1. /\ lex \in Lexemes(text) /\ str \in Literals(text) /\ lex.type \notin Rereadable
      /\ lex.line <= lex.cur /\ lex.cur \in Nat /\ mode \in Modes /\ Waits(text, calls, lex.cur)
      /\ SeenIn(text) => lex.cur = Lines(text, pos)
  BY InvParts DEF TextModes
<1>2. PICK q : q = AfterLineEnd(p)  OBVIOUS
<1>3. q \in 1 .. Len(text) + 1 /\ Lines(text, q) = Lines(text, p) + 1
  BY <1>2, TextGiven, AtLineEnd
<1>4. PICK f : f = [Frame("text") EXCEPT !.str.nested = Nested(pos)]  OBVIOUS
<1>5. PICK s : s = [str EXCEPT !.nested = Nested(pos)]  OBVIOUS
<1>6. s \in Literals(text)
  <2>1. str.nested \in Nat  BY <1>1 DEF Literals
  <2>2. Nested(pos) \in Nat  BY <2>1 DEF Nested
  <2> QED BY <1>1, <1>5, <2>2 DEF Literals
<1>7. f = [kind |-> "text", mode |-> mode, str |-> s, old |-> lex, comment |-> FALSE,
           last |-> FALSE]
  BY <1>4, <1>5 DEF Frame
<1>8. f \in Frames(text) /\ f.old = lex /\ f.kind = "text"
  <2>1. f \in AnyFrame(text)  BY <1>1, <1>6, <1>7 DEF AnyFrame
  <2> QED BY <1>7, <2>1 DEF Frames
<1>9. PICK w : w = Append(calls, f)  OBVIOUS
<1>10. Waits(text, w, lex.cur) /\ w # <<>>
  <2>1. f.old.line <= lex.cur /\ f.kind \notin WithinHeredoc  BY <1>1, <1>8 DEF WithinHeredoc
  <2> QED BY <1>1, <1>8, <1>9, <2>1, PushCall
<1>11. ProcessNewline(lex, q, str.heredoc, FALSE, w)  BY <1>2, <1>4, <1>9 DEF LineInText
<1>12. SeenIn(text) => Lines(text, q) = lex.cur + 1  BY <1>1, <1>3
<1> QED BY <1>1, <1>3, <1>10, <1>11, <1>12, NewlineStep

\* One character that ends no line.
LEMMA OneMore ==
  ASSUME IInv, Char(pos) \notin LineEnds \cup {"end"}
  PROVE  /\ pos + 1 \in 1 .. Len(text) + 1 /\ Passes(text, pos, pos + 1)
         /\ Lines(text, pos + 1) = Lines(text, pos)
<1>1. IsText(text) /\ text \in Seq(STRING) /\ pos \in Nat \ {0}  BY TextGiven, InvParts
<1>2. At(text, pos) \notin LineEnds \cup {"end"}  BY CharAt
<1>3. PICK q : q = pos + 1  OBVIOUS
<1>4. Passes(text, pos, q) /\ q \in Nat \ {0} /\ q <= Len(text) + 1  BY <1>1, <1>2, <1>3, PassOne
<1>5. Lines(text, q) = Lines(text, pos)  BY <1>1, <1>4, Level
<1> QED BY <1>1, <1>3, <1>4, <1>5, TextGiven

\* A character that is what delimits a literal, or none of the ends.
LEMMA Within ==
  ASSUME IInv
  PROVE  /\ str.terminator \in Delimiters(text) /\ str.opener \in Delimiters(text)
         /\ SeenIn(text) => str.terminator \notin LineEnds /\ str.opener \notin LineEnds
         /\ Char(pos) # "end" => pos \in 1 .. Len(text) /\ pos + 1 \in 1 .. Len(text) + 1
<1>1. str \in Literals(text)  BY InvParts
<1>2. str.terminator \in Delimiters(text) /\ str.opener \in Delimiters(text)
  BY <1>1 DEF Literals
<1>3. SeenIn(text) => str.terminator \notin LineEnds /\ str.opener \notin LineEnds
  BY <1>2 DEF Delimiters
<1>4. ASSUME Char(pos) # "end" PROVE pos \in 1 .. Len(text)
  <2>1. At(text, pos) # "end"  BY <1>4, CharAt
  <2> QED BY <2>1, InvParts, TextGiven, Characters
<1> QED BY <1>2, <1>3, <1>4, TextGiven

LEMMA EndsStep ==
  ASSUME IInv, LiteralEnds \/ Unterminated \/ HeredocEnds
  PROVE  IInv'
<1>1. /\ lex \in Lexemes(text) /\ str \in Literals(text) /\ lex.line <= lex.cur /\ lex.cur \in Nat
      /\ mode \notin {"dispatch", "parser"} => lex.type \notin Rereadable
      /\ SeenIn(text) => lex.cur = Lines(text, pos)
      /\ pos \in Nat \ {0}
  BY InvParts
<1>2. IsText(text) /\ text \in Seq(STRING) /\ Len(text) \in Nat  BY TextGiven
<1>3. CASE LiteralEnds
  <2>1. mode \in TextModes /\ Char(pos) = str.terminator /\ Char(pos) # "end" /\ Done(lex, pos + 1)
    BY <1>3 DEF LiteralEnds, IsTerminator, TextModes
  <2>2. lex.type \notin Rereadable  BY <1>1, <2>1 DEF TextModes
  <2>3. PICK q : q = pos + 1  OBVIOUS
  <2>4. q \in 1 .. Len(text) + 1  BY <2>1, <2>3, Within
  <2>5. SeenIn(text) => lex.cur = Lines(text, q)
    <3>1. ASSUME SeenIn(text) PROVE Lines(text, q) = Lines(text, pos)
      <4>1. Char(pos) \notin LineEnds \cup {"end"}  BY <2>1, <3>1, Within
      <4> QED BY <2>3, <4>1, OneMore
    <3> QED BY <1>1, <3>1
  <2> QED BY <1>1, <2>1, <2>2, <2>3, <2>4, <2>5, DoneStep
<1>4. CASE Unterminated
  <2>1. mode \in TextModes /\ Finish([Typed(lex) EXCEPT !.stop = pos], pos)
    BY <1>4 DEF Unterminated, InText, InLiteral, TextModes
  <2>2. lex.type \notin Rereadable  BY <1>1, <2>1 DEF TextModes
  <2>3. str.type \in LiteralTypes  BY <1>1 DEF Literals
  <2>4. str.type \in Types /\ str.type \notin Rereadable
    BY <2>3 DEF Types, LiteralTypes, Rereadable
  <2>5. PICK j : j = Typed(lex)  OBVIOUS
  <2>6. j = lex \/ j = [lex EXCEPT !.type = str.type]  BY <2>5 DEF Typed
  <2>7. j \in Lexemes(text) /\ j.cur = lex.cur /\ j.line = lex.line /\ j.type \notin Rereadable
    BY <1>1, <2>2, <2>4, <2>6 DEF Lexemes
  <2>8. PICK k : k = [j EXCEPT !.stop = pos]  OBVIOUS
  <2>9. k \in Lexemes(text) /\ k.cur = lex.cur /\ k.line = lex.line /\ k.type \notin Rereadable
    BY <1>1, <2>7, <2>8 DEF Lexemes
  <2>10. pos \in 1 .. Len(text) + 2  BY InvParts DEF TypesOK
  <2>11. Finish(k, pos)  BY <2>1, <2>5, <2>8
  <2> QED BY <2>9, <2>10, <2>11, FinishStep
<1>5. CASE HeredocEnds
  <2>1. /\ mode \in TextModes /\ At(text, pos) \in LineEnds
        /\ Done([lex EXCEPT !.cur = @ + 1], TerminatorLine(pos).stop)
    BY <1>5, CharAt DEF HeredocEnds, TextModes
  <2>2. str.h.ident \in BOOLEAN
    <3>1. str.h \in Heredocs \cup {NoHeredoc}  BY <1>1 DEF Literals
    <3>2. CASE str.h \in Heredocs  BY <3>2 DEF Heredocs
    <3>3. CASE str.h = NoHeredoc
      <4>1. NoHeredoc.ident = FALSE  BY DEF NoHeredoc
      <4> QED BY <3>3, <4>1
    <3> QED BY <3>1, <3>2, <3>3
  <2>3. PICK q : q = TerminatorLine(pos).stop  OBVIOUS
  <2>4. q \in 1 .. Len(text) + 1 /\ Lines(text, q) = Lines(text, pos) + 1
    BY <1>1, <1>2, <2>1, <2>2, <2>3, TerminatorPasses
  <2>5. PICK l : l = [lex EXCEPT !.cur = @ + 1]  OBVIOUS
  <2>6. l \in Lexemes(text) /\ l.cur = lex.cur + 1 /\ l.line = lex.line /\ l.type = lex.type
    BY <1>1, <2>5 DEF Lexemes
  <2>7. l.type \notin Rereadable  BY <1>1, <2>1, <2>6 DEF TextModes
  <2>8. lex.line \in Nat  BY <1>1 DEF Lexemes
  <2>9. l.line <= l.cur /\ lex.cur <= l.cur  BY <1>1, <2>6, <2>8
  <2>10. SeenIn(text) => l.cur = Lines(text, q)  BY <1>1, <2>4, <2>6
  <2> QED BY <2>1, <2>3, <2>4, <2>5, <2>6, <2>7, <2>9, <2>10, DoneStep
<1> QED BY <1>3, <1>4, <1>5

\* An escape ends on the line it began on, unless it escapes a line end that is seen.
LEMMA EscapeEndLevel ==
  ASSUME IsText(text), NEW p \in 1 .. Len(text) + 1, At(text, p - 1) = "\\", p > 1,
         NEW t, t = EscapeTarget(p), ~IsEscapedLine(t), NEW e, e = EscapeEnd(t)
  PROVE  e \in 1 .. Len(text) + 2 /\ (SeenIn(text) => Lines(text, e) = Lines(text, p))
<1>1. text \in Seq(STRING) /\ Len(text) \in Nat  BY DEF IsText
<1>2. /\ t.at \in 1 .. Len(text) + 1 /\ Passes(text, p, t.at) /\ t.plain \in BOOLEAN
      /\ Seen(text) /\ t.plain => At(text, t.at) \notin LineEnds
  BY EscapeTargetPasses
<1>3. PICK a : a = t.at  OBVIOUS
<1>4. a \in Nat \ {0} /\ p \in Nat \ {0} /\ Passes(text, p, a)  BY <1>1, <1>2, <1>3
<1>5. Lines(text, a) = Lines(text, p)  BY <1>1, <1>4, Level
<1>6. CASE At(text, a) \notin LineEnds
  <2>1. Passes(text, a, e) /\ e \in 1 .. Len(text) + 1  BY <1>2, <1>3, <1>6, EscapeEndPasses
  <2>2. Lines(text, e) = Lines(text, a) /\ e \in 1 .. Len(text) + 2  BY <1>1, <1>4, <2>1, Level
  <2> QED BY <1>5, <2>2
<1>7. CASE At(text, a) \in LineEnds
  <2>1. t.plain  BY <1>3, <1>7, CharAt DEF IsEscapedLine
  <2>2. ~SeenIn(text)  BY <1>2, <1>3, <1>7, <2>1 DEF SeenIn
  <2>3. a \in 1 .. Len(text)  BY <1>4, <1>7, Characters DEF LineEnds
  <2>4. e = a + 1  BY <1>1, <1>3, <2>1, <2>3 DEF EscapeEnd
  <2>5. e \in 1 .. Len(text) + 2  BY <1>1, <2>3, <2>4
  <2> QED BY <2>2, <2>5
<1> QED BY <1>6, <1>7

\* Escapes.
LEMMA EscapesStep ==
  ASSUME IInv, Escape \/ EscapedNewline \/ SimpleEscape
  PROVE  IInv'
<1>1. pos \in Nat \ {0} /\ IsText(text) /\ text \in Seq(STRING) /\ Len(text) \in Nat
  BY InvParts, TextGiven
<1>2. Char(pos) = "\\" /\ At(text, pos) = "\\" /\ mode \in TextModes
  BY CharAt DEF Escape, EscapedNewline, SimpleEscape, InEscape, InLiteral, TextModes
<1>3. Char(pos) \notin LineEnds \cup {"end"}  BY <1>2 DEF LineEnds
<1>4. PICK q : q = pos + 1  OBVIOUS
<1>5. q \in 1 .. Len(text) + 1 /\ Passes(text, pos, q) /\ q - 1 = pos /\ q > 1
  BY <1>1, <1>3, <1>4, OneMore
<1>6. CASE Escape \/ EscapedNewline
  <2>1. PICK t : t = EscapeTarget(q)  OBVIOUS
  <2>2. /\ t.at \in 1 .. Len(text) + 1 /\ Passes(text, q, t.at) /\ t.plain \in BOOLEAN
        /\ Seen(text) /\ t.plain => At(text, t.at) \notin LineEnds
    BY <1>1, <1>2, <1>5, <2>1, EscapeTargetPasses
  <2>3. PICK a : a = t.at  OBVIOUS
  <2>4. a \in Nat \ {0} /\ Passes(text, pos, a)  BY <1>1, <1>5, <2>2, <2>3, PassTwice
  <2>5. Lines(text, a) = Lines(text, pos)  BY <1>1, <2>4, Level
  <2>6. CASE Escape
    <3>1. ~IsEscapedLine(t) /\ Loop(EscapeEnd(t))  BY <1>4, <2>1, <2>6 DEF Escape
    <3>2. PICK e : e = EscapeEnd(t)  OBVIOUS
    <3>3. /\ e \in 1 .. Len(text) + 2
          /\ SeenIn(text) => Lines(text, e) = Lines(text, q)
      BY <1>1, <1>2, <1>5, <2>1, <3>1, <3>2, EscapeEndLevel
    <3>4. Lines(text, q) = Lines(text, pos)  BY <1>1, <1>5, Level
    <3> QED BY <1>2, <3>1, <3>2, <3>3, <3>4, LoopStep
  <2>7. CASE EscapedNewline
    <3>1. IsEscapedLine(t) /\ LineInText(a)  BY <1>4, <2>1, <2>3, <2>7 DEF EscapedNewline
    <3>2. At(text, a) \in LineEnds  BY <2>3, <3>1, CharAt DEF IsEscapedLine
    <3> QED BY <1>2, <2>4, <2>5, <3>1, <3>2, LineInTextStep
  <2> QED BY <1>6, <2>6, <2>7
<1>7. CASE SimpleEscape
  <2>1. PICK e : e = IF Char(q) \in {"\\", str.terminator, str.opener} /\ q <= Len(text)
                       THEN pos + 2 ELSE q
    OBVIOUS
  <2>2. Loop(e)  BY <1>4, <1>7, <2>1 DEF SimpleEscape
  <2>3. Lines(text, q) = Lines(text, pos)  BY <1>1, <1>5, Level
  <2>4. CASE e = q  BY <1>2, <1>5, <2>2, <2>3, <2>4, LoopStep
  <2>5. CASE e # q
    <3>1. Char(q) \in {"\\", str.terminator, str.opener} /\ q <= Len(text) /\ e = q + 1
      BY <1>1, <1>4, <2>1, <2>5
    <3>2. e \in 1 .. Len(text) + 2  BY <1>1, <1>5, <3>1
    <3>3. ASSUME SeenIn(text) PROVE Lines(text, e) = Lines(text, q)
      <4>1. At(text, q) \notin LineEnds  BY <3>1, <3>3, Within, CharAt DEF LineEnds
      <4>2. At(text, q) # "end"  BY <1>1, <1>5, <3>1, Characters
      <4>3. Passes(text, q, q + 1)  BY <1>1, <1>5, <4>1, <4>2, PassOne
      <4>4. Passes(text, q, e)  BY <3>1, <4>3
      <4> QED BY <1>1, <1>5, <4>4, Level
    <3> QED BY <1>2, <2>2, <2>3, <3>2, <3>3, LoopStep
  <2> QED BY <2>4, <2>5
<1> QED BY <1>6, <1>7

LEMMA InTextStep ==
  ASSUME IInv, GroupStarts \/ VariableInText \/ OtherCharacter \/ NewlineInText
  PROVE  IInv'
<1>1. /\ lex \in Lexemes(text) /\ str \in Literals(text) /\ lex.line <= lex.cur /\ lex.cur \in Nat
      /\ mode \notin {"dispatch", "parser"} => lex.type \notin Rereadable
      /\ SeenIn(text) => lex.cur = Lines(text, pos)
      /\ pos \in Nat \ {0}
  BY InvParts
<1>2. IsText(text) /\ text \in Seq(STRING) /\ Len(text) \in Nat  BY TextGiven
<1>3. mode \in TextModes
  BY DEF GroupStarts, VariableInText, OtherCharacter, NewlineInText, InText, InLiteral, TextModes
<1>4. PICK q : q = pos + 1  OBVIOUS
<1>5. ASSUME Char(pos) = "#"
      PROVE  q \in 1 .. Len(text) + 1 /\ Passes(text, pos, q) /\ Lines(text, q) = Lines(text, pos)
  <2>1. Char(pos) \notin LineEnds \cup {"end"}  BY <1>5 DEF LineEnds
  <2> QED BY <1>4, <2>1, OneMore
<1>6. CASE GroupStarts
  <2>1. Char(pos) = "#" /\ Char(q) = "{"  BY <1>4, <1>6 DEF GroupStarts
  <2>2. PICK e : e = q + 1  OBVIOUS
  <2>3. e = pos + 2  BY <1>1, <1>4, <2>2
  <2>4. At(text, q) \notin LineEnds \cup {"end"}  BY <2>1, CharAt DEF LineEnds
  <2>5. q \in Nat \ {0}  BY <1>1, <1>4
  <2>6. Passes(text, q, e) /\ e \in 1 .. Len(text) + 1  BY <1>2, <2>2, <2>4, <2>5, PassOne
  <2>7. Lines(text, e) = Lines(text, pos)  BY <1>2, <1>5, <2>1, <2>5, <2>6, Level
  <2>8. PICK s : s = [str EXCEPT !.nested = Nested(pos)]  OBVIOUS
  <2>9. s \in Literals(text)
    <3>1. str.nested \in Nat  BY <1>1 DEF Literals
    <3>2. Nested(pos) \in Nat  BY <3>1 DEF Nested
    <3> QED BY <1>1, <2>8, <3>2 DEF Literals
  <2>10. PICK b : b = Append(lex.curlies, s)  OBVIOUS
  <2>11. b \in Seq(Literals(text))
    <3>1. lex.curlies \in Seq(Literals(text))  BY <1>1 DEF Lexemes
    <3> QED BY <2>9, <2>10, <3>1
  <2>12. PICK i : i = IF str.continuing THEN "Continuing" ELSE "Starting"  OBVIOUS
  <2>13. i \in Pieces  BY <2>12 DEF Pieces
  <2>14. PICK l : l = [lex EXCEPT !.piece = i, !.curlies = b]  OBVIOUS
  <2>15. l \in Lexemes(text) /\ l.cur = lex.cur /\ l.line = lex.line /\ l.type = lex.type
    BY <1>1, <2>11, <2>13, <2>14 DEF Lexemes
  <2>16. Done(l, e)  BY <1>6, <2>3, <2>8, <2>10, <2>12, <2>14 DEF GroupStarts
  <2>17. l.type \notin Rereadable  BY <1>1, <1>3, <2>15 DEF TextModes
  <2>18. l.line <= l.cur /\ lex.cur <= l.cur /\ (SeenIn(text) => l.cur = Lines(text, e))
    BY <1>1, <2>7, <2>15
  <2> QED BY <1>3, <2>6, <2>15, <2>16, <2>17, <2>18, DoneStep
<1>7. CASE VariableInText
  <2>1. /\ Char(pos) = "#" /\ At(text, q) \in {"@", "$"} /\ Loop(VariableEnd(q))
    BY <1>4, <1>7, CharAt DEF VariableInText
  <2>2. PICK e : e = VariableEnd(q)  OBVIOUS
  <2>3. q \in 1 .. Len(text) + 1 /\ q \in Nat \ {0}  BY <1>1, <1>4, <1>5, <2>1
  <2>4. Passes(text, q, e) /\ e \in 1 .. Len(text) + 1  BY <1>2, <2>1, <2>2, <2>3, VariablePasses
  <2>5. Lines(text, e) = Lines(text, pos) /\ e \in 1 .. Len(text) + 2
    BY <1>2, <1>5, <2>1, <2>3, <2>4, Level
  <2> QED BY <1>3, <2>1, <2>2, <2>5, LoopStep
<1>8. CASE OtherCharacter
  <2>1. Char(pos) \notin LineEnds /\ ~AtEnd /\ Loop(q)  BY <1>4, <1>8 DEF OtherCharacter
  <2>2. Char(pos) # "end"  BY <1>1, <1>2, <2>1, Characters, CharAt DEF AtEnd
  <2>3. q \in 1 .. Len(text) + 2 /\ Lines(text, q) = Lines(text, pos)
    <3>1. q \in 1 .. Len(text) + 1 /\ Lines(text, q) = Lines(text, pos)
      BY <1>4, <2>1, <2>2, OneMore
    <3> QED BY <1>2, <3>1
  <2> QED BY <1>3, <2>1, <2>3, LoopStep
<1>9. CASE NewlineInText
  <2>1. At(text, pos) \in LineEnds /\ LineInText(pos)  BY <1>9, CharAt DEF NewlineInText
  <2> QED BY <1>1, <1>3, <2>1, LineInTextStep
<1> QED BY <1>6, <1>7, <1>8, <1>9

LEMMA CommentEndIs ==
  ASSUME NEW p
  PROVE  IsCommentEnd(p) <=> CommentEndAt(text, p)
BY CharAt DEF IsCommentEnd, CommentEndAt, Spelled, Says

LEMMA CommentAtIs ==
  ASSUME NEW t, NEW p \in Nat
  PROVE  /\ CommentAt(t, p) => At(t, p) = "="
         /\ CommentEndAt(t, p) => /\ At(t, p) = "=" /\ At(t, p + 1) = "e"
                                  /\ At(t, p + 2) = "n" /\ At(t, p + 3) = "d"
<1>1. p + 1 - 1 = p /\ p + 2 - 1 = p + 1 /\ p + 3 - 1 = p + 2 /\ p + 4 - 1 = p + 3  OBVIOUS
<1>2. CommentAt(t, p) => At(t, p + 1 - 1) = "="  BY DEF CommentAt, Says
<1>3. CommentEndAt(t, p) =>
        /\ At(t, p + 1 - 1) = "=" /\ At(t, p + 2 - 1) = "e"
        /\ At(t, p + 3 - 1) = "n" /\ At(t, p + 4 - 1) = "d"
  BY DEF CommentEndAt, Says
<1> QED BY <1>1, <1>2, <1>3

\* No carriage return is met in a comment.
LEMMA CommentHasNone ==
  ASSUME NEW t, IsText(t), SeenIn(t), NEW p \in 1 .. Len(t), InComment(t, p)
  PROVE  At(t, p) # "\r"
<1>1. PICK b \in 1 .. p : /\ CommentAt(t, b)
                          /\ \A r \in b .. p - 1 : ~(At(t, r) = "\n" /\ CommentEndAt(t, r + 1))
  BY DEF InComment
<1>2. At(t, b) = "="  BY <1>1, CommentAtIs
<1> SUFFICES ASSUME At(t, p) = "\r" PROVE FALSE  OBVIOUS
<1>3. Len(t) \in Nat  BY DEF IsText
<1>4. b \in 1 .. Len(t) /\ p \in b + 1 .. Len(t)  BY <1>2, <1>3
<1> QED BY <1>1, <1>4 DEF SeenIn

LEMMA CommentEndPasses ==
  ASSUME NEW t, IsText(t), NEW p \in Nat \ {0}, CommentEndAt(t, p), NEW q, q = p + 4
  PROVE  Passes(t, p, q) /\ q \in 1 .. Len(t) + 1
<1>1. /\ At(t, p) = "=" /\ At(t, p + 1) = "e" /\ At(t, p + 2) = "n" /\ At(t, p + 3) = "d"
  BY CommentAtIs
<1>2. p + 3 \in 1 .. Len(t) /\ Len(t) \in Nat  BY <1>1, Characters DEF IsText
<1>3. \A r \in p .. q - 1 : r = p \/ r = p + 1 \/ r = p + 2 \/ r = p + 3  OBVIOUS
<1>4. \A r \in p .. q - 1 : At(t, r) \notin LineEnds  BY <1>1, <1>3 DEF LineEnds
<1> QED BY <1>2, <1>4 DEF Passes, Clean

LEMMA CommentStep ==
  ASSUME IInv, CommentText \/ CommentUnterminated
  PROVE  IInv'
<1>1. /\ lex \in Lexemes(text) /\ lex.line <= lex.cur /\ lex.cur \in Nat
      /\ Waits(text, calls, lex.cur)
      /\ SeenIn(text) => lex.cur = Lines(text, pos)
      /\ TypesOK(text, pos, lex, heredocs, "parser", str, calls)
      /\ pos \in Nat \ {0}
  BY InvParts
<1>2. IsText(text) /\ text \in Seq(STRING) /\ Len(text) \in Nat  BY TextGiven
<1>3. mode = "comment"  BY DEF CommentText, CommentUnterminated
<1>4. InComment(text, pos) /\ calls # <<>> /\ lex.type \notin Rereadable
  BY <1>3 DEF IInv, Good, TypesOK
<1>5. lex.line \in Nat  BY <1>1 DEF Lexemes
\* The next state is good if its parts are.
<1>6. ASSUME NEW p \in 1 .. Len(text) + 2, NEW l \in Lexemes(text), l.line <= l.cur,
             lex.cur <= l.cur, l.cur \in Nat, l.type = lex.type, NEW m \in {"comment", "return"},
             SeenIn(text) => l.cur = Lines(text, p), m = "comment" => InComment(text, p),
             text' = text, pos' = p, lex' = l, mode' = m, heredocs' = heredocs, str' = str,
             calls' = calls
      PROVE  IInv'
  <2>1. Waits(text, calls, l.cur)  BY <1>1, <1>6, LaterCount
  <2>2. TypesOK(text, p, l, heredocs, "parser", str, calls)  BY <1>1, <1>6, <2>1 DEF TypesOK
  <2>3. Good(text, p, l, heredocs, m, str, calls)  BY <1>4, <1>6, <2>2, ToOther
  <2> QED BY <1>6, <2>3 DEF IInv
<1>7. CASE CommentUnterminated
  <2>1. PICK l : l = [lex EXCEPT !.stop = pos]  OBVIOUS
  <2>2. /\ l \in Lexemes(text) /\ l.cur = lex.cur /\ l.line = lex.line /\ l.type = lex.type
    BY <1>1, <2>1 DEF Lexemes
  <2>3. pos \in 1 .. Len(text) + 2  BY InvParts DEF TypesOK
  <2>4. /\ text' = text /\ pos' = pos /\ lex' = l /\ mode' = "return"
        /\ heredocs' = heredocs /\ str' = str /\ calls' = calls
    BY <1>7, <2>1 DEF CommentUnterminated
  <2> QED BY <1>1, <1>6, <2>2, <2>3, <2>4
<1>8. CASE CommentText
  <2>1. pos \in 1 .. Len(text)  BY <1>1, <1>2, <1>8 DEF CommentText, AtEnd
  <2>2. PICK q : q = pos + 1  OBVIOUS
  <2>3. q \in 1 .. Len(text) + 2 /\ q \in Nat \ {0} /\ pos \in 1 .. Len(text) + 2
    BY <1>2, <2>1, <2>2
  <2>4. PICK k : k = [lex EXCEPT !.cur = @ + 1]  OBVIOUS
  <2>5. /\ k \in Lexemes(text) /\ k.cur = lex.cur + 1 /\ k.line = lex.line /\ k.type = lex.type
        /\ k.line <= k.cur /\ lex.cur <= k.cur /\ k.cur \in Nat
    BY <1>1, <1>5, <2>4 DEF Lexemes
  <2>6. At(text, pos) = Char(pos)  BY CharAt
  <2>7. /\ text' = text /\ heredocs' = heredocs /\ str' = str /\ calls' = calls
    BY <1>8 DEF CommentText
  <2>8. ASSUME At(text, pos) # "\n" PROVE InComment(text, q)
    <3>1. PICK b \in 1 .. pos : /\ CommentAt(text, b)
                                /\ \A r \in b .. pos - 1 :
                                     ~(At(text, r) = "\n" /\ CommentEndAt(text, r + 1))
      BY <1>4 DEF InComment
    <3>2. b \in 1 .. q /\ \A r \in b .. q - 1 : r \in b .. pos - 1 \/ r = pos  BY <1>1, <2>2
    <3> QED BY <2>8, <3>1, <3>2 DEF InComment
  <2>9. CASE At(text, pos) = "\n"
    <3>1. lex' = k /\ (IF IsCommentEnd(q) THEN pos' = q + 4 /\ mode' = "return"
                                          ELSE pos' = q /\ mode' = mode)
      BY <1>8, <2>2, <2>4, <2>6, <2>9 DEF CommentText, LineEnds
    <3>2. Lines(text, q) = Lines(text, pos) + 1
      <4>1. ~Says(text, pos, <<"\r", "\n">>)
        <5>1. Says(text, pos, <<"\r", "\n">>) => At(text, pos + 1 - 1) = "\r"  BY DEF Says
        <5>2. pos + 1 - 1 = pos  BY <1>1
        <5> QED BY <2>9, <5>1, <5>2
      <4>2. q = IF Says(text, pos, <<"\r", "\n">>) THEN pos + 2 ELSE pos + 1  BY <2>2, <4>1
      <4>3. At(text, pos) \in LineEnds  BY <2>9 DEF LineEnds
      <4> QED BY <1>1, <1>2, <4>2, <4>3, NextLine
    <3>3. SeenIn(text) => k.cur = Lines(text, q)  BY <1>1, <2>5, <3>2
    <3>4. CASE IsCommentEnd(q)
      <4>1. PICK e : e = q + 4  OBVIOUS
      <4>2. Passes(text, q, e) /\ e \in 1 .. Len(text) + 1
        BY <1>2, <2>3, <3>4, <4>1, CommentEndIs, CommentEndPasses
      <4>3. Lines(text, e) = Lines(text, q) /\ e \in 1 .. Len(text) + 2
        BY <1>2, <2>3, <4>2, Level
      <4>4. pos' = e /\ mode' = "return"  BY <3>1, <3>4, <4>1
      <4>5. SeenIn(text) => k.cur = Lines(text, e)  BY <3>3, <4>3
      <4> QED BY <1>6, <2>5, <2>7, <3>1, <4>3, <4>4, <4>5
    <3>5. CASE ~IsCommentEnd(q)
      <4>1. InComment(text, q)
        <5>1. PICK b \in 1 .. pos : /\ CommentAt(text, b)
                                    /\ \A r \in b .. pos - 1 :
                                         ~(At(text, r) = "\n" /\ CommentEndAt(text, r + 1))
          BY <1>4 DEF InComment
        <5>2. b \in 1 .. q /\ \A r \in b .. q - 1 : r \in b .. pos - 1 \/ r = pos  BY <1>1, <2>2
        <5>3. ~CommentEndAt(text, pos + 1)  BY <2>2, <3>5, CommentEndIs
        <5> QED BY <5>1, <5>2, <5>3 DEF InComment
      <4>2. pos' = q /\ mode' = "comment"  BY <1>3, <3>1, <3>5
      <4> QED BY <1>6, <2>3, <2>5, <2>7, <3>1, <3>3, <4>1, <4>2
    <3> QED BY <3>4, <3>5
  <2>10. CASE At(text, pos) = "\r"
    <3>1. ~IsCommentEnd(pos)
      <4>1. ~CommentEndAt(text, pos)  BY <1>1, <2>10, CommentAtIs
      <4> QED BY <4>1, CommentEndIs
    <3>2. lex' = k /\ pos' = pos /\ mode' = "comment"
      BY <1>3, <1>8, <2>4, <2>6, <2>10, <3>1 DEF CommentText, LineEnds
    <3>3. ~SeenIn(text)  BY <1>2, <1>4, <2>1, <2>10, CommentHasNone
    <3> QED BY <1>4, <1>6, <2>3, <2>5, <2>7, <3>2, <3>3
  <2>11. CASE At(text, pos) \notin LineEnds
    <3>0. At(text, pos) # "\n" /\ At(text, pos) # "\r"  BY <2>11 DEF LineEnds
    <3>1. lex' = lex /\ mode' = "comment" /\ (pos' = pos \/ pos' = q)
      BY <1>3, <1>8, <2>2, <2>6, <2>11, <3>0 DEF CommentText
    <3>2. Lines(text, q) = Lines(text, pos)
      <4>1. At(text, pos) # "end"  BY <1>1, <2>1, <1>2, Characters
      <4> QED BY <2>2, <2>6, <2>11, <4>1, OneMore
    <3>3. CASE pos' = pos  BY <1>1, <1>4, <1>6, <2>3, <2>7, <3>1, <3>3
    <3>4. CASE pos' = q  BY <1>1, <1>6, <2>3, <2>7, <2>8, <3>0, <3>1, <3>2, <3>4
    <3> QED BY <3>1, <3>3, <3>4
  <2> QED BY <2>9, <2>10, <2>11 DEF LineEnds
<1> QED BY <1>7, <1>8

-----------------------------------------------------------------------------
(* The jump table.                                                         *)

LEMMA FrameIs ==
  ASSUME IInv, NEW kind \in {"line", "restep", "character"}, NEW w, w = Append(calls, Frame(kind))
  PROVE  Waits(text, w, lex.cur) /\ w # <<>>
<1>1. /\ lex \in Lexemes(text) /\ str \in Literals(text) /\ mode \in Modes
      /\ lex.line <= lex.cur /\ lex.cur \in Nat /\ Waits(text, calls, lex.cur)
  BY InvParts
<1>2. PICK f : f = Frame(kind)  OBVIOUS
<1>3. f = [kind |-> kind, mode |-> mode, str |-> str, old |-> lex, comment |-> FALSE,
           last |-> FALSE]
  BY <1>2 DEF Frame
<1>4. f \in Frames(text)
  <2>1. f \in AnyFrame(text)  BY <1>1, <1>3 DEF AnyFrame
  <2> QED BY <1>3, <2>1 DEF Frames
<1>5. f.old.line <= lex.cur /\ f.kind \notin WithinHeredoc  BY <1>1, <1>3 DEF WithinHeredoc
<1> QED BY <1>1, <1>2, <1>4, <1>5, PushCall

LEMMA LexemeIs ==
  ASSUME IInv, NEW type \in Types, NEW p \in Nat, NEW l, l = Lexeme(type, p)
  PROVE  /\ l \in Lexemes(text) /\ l.type = type /\ l.start = lex.start
         /\ l.cur = lex.cur /\ l.line = lex.line /\ l.curlies = lex.curlies
<1>1. lex \in Lexemes(text)  BY InvParts
<1> QED BY <1>1 DEF Lexeme, Lexemes, Pieces

\* A lexeme that is never read again.
LEMMA LexemeStep ==
  ASSUME IInv, NEW type \in Types \ Rereadable, NEW p, Passes(text, pos, p),
         Finish(Lexeme(type, p), p)
  PROVE  IInv'
<1>1. text \in Seq(STRING) /\ pos \in Nat \ {0}  BY TextGiven, InvParts
<1>2. Lines(text, p) = Lines(text, pos) /\ p \in 1 .. Len(text) + 2 /\ p \in Nat
  BY <1>1, Level
<1>3. PICK l : l = Lexeme(type, p)  OBVIOUS
<1>4. l \in Lexemes(text) /\ l.type = type /\ l.cur = lex.cur /\ l.line = lex.line
  BY <1>2, <1>3, LexemeIs
<1> QED BY <1>2, <1>3, <1>4, FinishStep

LEMMA SkippingStep ==
  ASSUME IInv, Spaces \/ Comment \/ UnknownCharacters
  PROVE  IInv'
<1>1. IsText(text) /\ text \in Seq(STRING) /\ pos \in Nat \ {0} /\ Len(text) \in Nat
  BY TextGiven, InvParts
<1>2. CASE Spaces
  <2>1. Dispatch(White) /\ Restart(Skip(pos, White), TRUE)  BY <1>2 DEF Spaces
  <2>2. White \cap (LineEnds \cup {"end"}) = {}  BY DEF White, LineEnds
  <2>3. pos \in 1 .. Len(text) + 1  BY <1>1, <2>1, <2>2, DispatchedAt
  <2>4. PICK q : q = Skip(pos, White)  OBVIOUS
  <2>5. Passes(text, pos, q)  BY <1>1, <2>2, <2>3, <2>4, SkipPasses
  <2> QED BY <2>1, <2>4, <2>5, RestartStep
<1>3. CASE Comment
  <2> DEFINE Rest == {text[i] : i \in 1 .. Len(text)} \ (LineEnds \union {"nul"})
  <2>1. Dispatch({"#"}) /\ Restart(Skip(pos, Rest), FALSE)  BY <1>3 DEF Comment
  <2>2. Rest \cap (LineEnds \cup {"end"}) = {}  BY <1>1 DEF IsText
  <2>3. pos \in 1 .. Len(text) + 1
    <3>1. "end" \notin {"#"}  OBVIOUS
    <3> QED BY <1>1, <2>1, <3>1, DispatchedAt
  <2> HIDE DEF Rest
  <2>4. PICK q : q = Skip(pos, Rest)  OBVIOUS
  <2>5. Passes(text, pos, q)  BY <1>1, <2>2, <2>3, <2>4, SkipPasses
  <2> QED BY <2>1, <2>4, <2>5, RestartStep
<1>4. CASE UnknownCharacters
  <2>1. Char(pos) \in {"unk", "nul", "\\"} /\ Restart(Skip(pos + 1, Unknown), FALSE)
    BY <1>4 DEF UnknownCharacters, Dispatch, Unknown
  <2>2. Char(pos) \notin LineEnds \cup {"end"}  BY <2>1 DEF LineEnds
  <2>3. PICK r : r = pos + 1  OBVIOUS
  <2>4. r \in 1 .. Len(text) + 1 /\ Passes(text, pos, r)  BY <2>2, <2>3, OneMore
  <2>5. Unknown \cap (LineEnds \cup {"end"}) = {}  BY DEF Unknown, LineEnds
  <2>6. PICK q : q = Skip(r, Unknown)  OBVIOUS
  <2>7. Passes(text, r, q) /\ q \in 1 .. Len(text) + 1  BY <1>1, <2>4, <2>5, <2>6, SkipPasses
  <2>8. Passes(text, pos, q)  BY <1>1, <2>4, <2>7, PassTwice
  <2> QED BY <2>1, <2>3, <2>6, <2>8, RestartStep
<1> QED BY <1>2, <1>3, <1>4

LEMMA LineStep ==
  ASSUME IInv, ContinuedLine \/ LineEnd
  PROVE  IInv'
<1>1. /\ IsText(text) /\ text \in Seq(STRING) /\ pos \in Nat \ {0} /\ Len(text) \in Nat
      /\ lex \in Lexemes(text) /\ lex.line <= lex.cur
      /\ SeenIn(text) => lex.cur = Lines(text, pos)
  BY TextGiven, InvParts
<1>2. CASE ContinuedLine
  <2>1. /\ Char(pos) = "\\" /\ Char(pos + 1) \in LineEnds
        /\ Newline(lex, pos + 1, Append(calls, Frame("restep")))
    BY <1>2 DEF ContinuedLine, Dispatch
  <2>2. PICK q : q = pos + 1  OBVIOUS
  <2>3. PICK w : w = Append(calls, Frame("restep"))  OBVIOUS
  <2>4. Waits(text, w, lex.cur) /\ w # <<>>  BY <2>3, FrameIs
  <2>5. Char(pos) \notin LineEnds \cup {"end"}  BY <2>1 DEF LineEnds
  <2>6. Lines(text, q) = Lines(text, pos) /\ q \in Nat \ {0}  BY <1>1, <2>2, <2>5, OneMore
  <2>7. At(text, q) \in LineEnds  BY <2>1, <2>2, CharAt
  <2> QED BY <1>1, <2>1, <2>2, <2>3, <2>4, <2>6, <2>7, LineEndStep
<1>3. CASE LineEnd
  <2>1. Char(pos) \in LineEnds /\ Newline(lex, pos, Append(calls, Frame("line")))
    BY <1>3 DEF LineEnd, Dispatch
  <2>2. PICK w : w = Append(calls, Frame("line"))  OBVIOUS
  <2>3. Waits(text, w, lex.cur) /\ w # <<>>  BY <2>2, FrameIs
  <2>4. At(text, pos) \in LineEnds  BY <2>1, CharAt
  <2> QED BY <1>1, <2>1, <2>2, <2>3, <2>4, LineEndStep
<1> QED BY <1>2, <1>3

LEMMA OperatorTypeIs ==
  ASSUME NEW s
  PROVE  /\ OperatorType(s) \in Types
         /\ OperatorType(s) \in {"MOD", "ASSIGN_MOD"} => s[1] = "%"
         /\ OperatorType(s) = "QUESTION" => s = <<"?">>
<1>1. OperatorType(s) \in {"MOD", "ASSIGN_MOD", "DIV", "ASSIGN_DIV", "LEFT_SHIFT", "QUESTION",
                           "SIGN", "OPERATOR"}
  BY DEF OperatorType
<1>2. OperatorType(s) = "MOD" => s = <<"%">>  BY DEF OperatorType
<1>3. OperatorType(s) = "ASSIGN_MOD" => s = <<"%", "=">>  BY DEF OperatorType
<1>4. OperatorType(s) = "QUESTION" => s = <<"?">>  BY DEF OperatorType
<1>5. <<"%">>[1] = "%" /\ <<"%", "=">>[1] = "%"  OBVIOUS
<1> QED BY <1>1, <1>2, <1>3, <1>4, <1>5 DEF Types, Rereadable

LEMMA NameStep ==
  ASSUME IInv, EndOfFile \/ Name \/ NumberLexeme \/ Variable \/ Backtick
  PROVE  IInv'
<1>1. IsText(text) /\ text \in Seq(STRING) /\ pos \in Nat \ {0} /\ Len(text) \in Nat
  BY TextGiven, InvParts
<1>2. CASE EndOfFile
  <2>1. Finish(Lexeme("END", pos), pos)  BY <1>2 DEF EndOfFile
  <2>2. PICK l : l = Lexeme("END", pos)  OBVIOUS
  <2>3. "END" \in Types /\ "END" \notin Rereadable  BY DEF Types, Rereadable
  <2>4. l \in Lexemes(text) /\ l.type = "END" /\ l.cur = lex.cur /\ l.line = lex.line
    BY <1>1, <2>2, <2>3, LexemeIs
  <2>5. pos \in 1 .. Len(text) + 2  BY InvParts DEF TypesOK
  <2> QED BY <2>1, <2>2, <2>3, <2>4, <2>5, FinishStep
<1>3. CASE Name
  <2> DEFINE q == Skip(pos, Ident)
             stop == IF Char(q) \in {"?", "!"} THEN q + 1 ELSE q
  <2>1. Dispatch(StartIdent) /\ Finish(Lexeme("IDENT", stop), stop)  BY <1>3 DEF Name
  <2>2. PICK r : r = q  OBVIOUS
  <2>3. PICK e : e = stop  OBVIOUS
  <2>4. e = IF Char(r) \in {"?", "!"} THEN r + 1 ELSE r  BY <2>2, <2>3
  <2>5. Finish(Lexeme("IDENT", e), e)  BY <2>1, <2>3
  <2>6. r = Skip(pos, Ident)  BY <2>2
  <2> HIDE DEF q, stop
  <2>7. "end" \notin StartIdent /\ Ident \cap (LineEnds \cup {"end"}) = {}
    BY DEF Ident, StartIdent, Letters, Digits, LineEnds
  <2>8. pos \in 1 .. Len(text) + 1  BY <1>1, <2>1, <2>7, DispatchedAt
  <2>9. Passes(text, pos, r) /\ r \in 1 .. Len(text) + 1  BY <1>1, <2>6, <2>7, <2>8, SkipPasses
  <2>10. Passes(text, pos, e)
    <3>1. CASE e = r  BY <2>9, <3>1
    <3>2. CASE e # r
      <4>1. e = r + 1 /\ At(text, r) \notin LineEnds \cup {"end"}
        BY <2>4, <3>2, CharAt DEF LineEnds
      <4>2. r \in Nat \ {0}  BY <1>1, <2>9
      <4>3. Passes(text, r, e) /\ e \in Nat  BY <1>1, <4>1, <4>2, PassOne
      <4> QED BY <1>1, <2>9, <4>2, <4>3, PassTwice
    <3> QED BY <3>1, <3>2
  <2>11. "IDENT" \in Types \ Rereadable  BY DEF Types, Rereadable
  <2> QED BY <2>5, <2>10, <2>11, LexemeStep
<1>4. CASE NumberLexeme
  <2> DEFINE q == CASE Char(pos) = "0" -> AfterZero(pos + 1)
                    [] Char(pos) = "." -> Exponent(SkipNumbers(pos + 1, Digits))
                    [] OTHER -> Decimal(pos)
  <2>1. Char(pos) \in Digits \cup {"."} /\ Finish(Lexeme("NUMBER", q), q)
    BY <1>4 DEF NumberLexeme, Dispatch
  <2>2. Char(pos) \notin LineEnds \cup {"end"} /\ Char(pos) = At(text, pos)
    BY <2>1, CharAt DEF Digits, LineEnds
  <2>3. PICK e : e = q  OBVIOUS
  <2>4. PICK p1 : p1 = pos + 1  OBVIOUS
  <2>5. p1 \in 1 .. Len(text) + 1 /\ Passes(text, pos, p1)  BY <2>2, <2>4, OneMore
  <2>6. pos \in 1 .. Len(text) + 1  BY <1>1, <2>4, <2>5
  <2>7. \/ Char(pos) = "0" /\ e = AfterZero(p1)
        \/ Char(pos) = "." /\ e = Exponent(SkipNumbers(pos + 1, Digits))
        \/ e = Decimal(pos)
    BY <2>3, <2>4
  <2>8. Passes(text, pos, e)
    <3>1. CASE e = AfterZero(p1)
      <4>1. Passes(text, p1, e) /\ e \in 1 .. Len(text) + 1  BY <1>1, <2>5, <3>1, AfterZeroPasses
      <4> QED BY <1>1, <2>5, <4>1, PassTwice
    <3>2. CASE Char(pos) = "." /\ e = Exponent(SkipNumbers(pos + 1, Digits))
      BY <1>1, <2>2, <2>6, <3>2, FractionPasses
    <3>3. CASE e = Decimal(pos)  BY <1>1, <2>6, <3>3, DecimalPasses
    <3> QED BY <2>7, <3>1, <3>2, <3>3
  <2>9. "NUMBER" \in Types \ Rereadable  BY DEF Types, Rereadable
  <2> QED BY <2>1, <2>3, <2>8, <2>9, LexemeStep
<1>5. CASE Variable
  <2>1. Dispatch({"@", "$"}) /\ Finish(Lexeme("VARIABLE", VariableEnd(pos)), VariableEnd(pos))
    BY <1>5 DEF Variable
  <2>2. "end" \notin {"@", "$"}  OBVIOUS
  <2>3. pos \in 1 .. Len(text) + 1 /\ At(text, pos) \in {"@", "$"}
    BY <1>1, <2>1, <2>2, DispatchedAt
  <2>4. PICK e : e = VariableEnd(pos)  OBVIOUS
  <2>5. Passes(text, pos, e)  BY <1>1, <2>3, <2>4, VariablePasses
  <2>6. "VARIABLE" \in Types \ Rereadable  BY DEF Types, Rereadable
  <2> QED BY <2>1, <2>4, <2>5, <2>6, LexemeStep
<1>6. CASE Backtick
  <2>1. Char(pos) = "bq" /\ Finish(Lexeme("BACKTICK", pos + 1), pos + 1)
    BY <1>6 DEF Backtick, Dispatch
  <2>2. Char(pos) \notin LineEnds \cup {"end"}  BY <2>1 DEF LineEnds
  <2>3. Passes(text, pos, pos + 1)  BY <2>2, OneMore
  <2>4. "BACKTICK" \in Types \ Rereadable  BY DEF Types, Rereadable
  <2> QED BY <2>1, <2>3, <2>4, LexemeStep
<1> QED BY <1>2, <1>3, <1>4, <1>5, <1>6

LEMMA OperatorStep ==
  ASSUME IInv, Operator
  PROVE  IInv'
<1>1. IsText(text) /\ text \in Seq(STRING) /\ pos \in Nat \ {0} /\ Len(text) \in Nat
  BY TextGiven, InvParts
<1>2. PICK s : s = OperatorAt(pos)  OBVIOUS
<1>3. /\ Dispatch({o[1] : o \in Operators})
      /\ Finish(Lexeme(OperatorType(s), pos + Len(s)), pos + Len(s))
  BY <1>2 DEF Operator
<1>4. "end" \notin {o[1] : o \in Operators}
  <2>1. \A o \in Operators : o[1] # "end"
    <3>1. ASSUME NEW o \in Operators PROVE o[1] # "end"
      <4>1. Len(o) \in 1 .. 3 /\ \A i \in 1 .. Len(o) : o[i] \notin LineEnds \cup {"end"}
        BY OperatorsShort
      <4>2. 1 \in 1 .. Len(o)  BY <4>1
      <4> QED BY <4>1, <4>2
    <3> QED BY <3>1
  <2> QED BY <2>1
<1>5. pos \in 1 .. Len(text) /\ lex.start = pos  BY <1>3, <1>4, DispatchedAt
<1>6. Char(pos) \in {o[1] : o \in Operators}  BY <1>3 DEF Dispatch
<1>7. s \in Operators /\ Spelled(pos, s)  BY <1>1, <1>2, <1>5, <1>6, OperatorThere
<1>8. PICK e : e = pos + Len(s)  OBVIOUS
<1>9. Passes(text, pos, e) /\ e \in 1 .. Len(text) + 1 /\ Len(s) \in 1 .. 3
  BY <1>1, <1>5, <1>7, <1>8, OperatorPasses
<1>10. PICK l : l = Lexeme(OperatorType(s), e)  OBVIOUS
<1>17. PICK n : n = Len(s)  OBVIOUS
<1>18. n \in 1 .. 3 /\ e = pos + n  BY <1>8, <1>9, <1>17
<1>11. e \in Nat /\ e \in 1 .. Len(text) + 2 /\ pos < e  BY <1>1, <1>5, <1>9, <1>18
<1>12. /\ l \in Lexemes(text) /\ l.type = OperatorType(s) /\ l.start = lex.start
       /\ l.cur = lex.cur /\ l.line = lex.line
  BY <1>10, <1>11, OperatorTypeIs, LexemeIs
<1>13. At(text, pos) = s[1]
  <2>1. 1 \in 1 .. Len(s) /\ pos + 1 - 1 = pos  BY <1>1, <1>17, <1>18
  <2>2. Char(pos + 1 - 1) = s[1]  BY <1>7, <2>1 DEF Spelled
  <2> QED BY <2>1, <2>2, CharAt
<1>14. ReadAgain(text, l, e)
  <2>1. l.type \in {"MOD", "ASSIGN_MOD"} => At(text, l.start) = "%"
    BY <1>5, <1>12, <1>13, OperatorTypeIs
  <2>2. ASSUME l.type = "QUESTION" PROVE At(text, l.start) = "?" /\ e = l.start + 1
    <3>1. s = <<"?">>  BY <1>12, <2>2, OperatorTypeIs
    <3>2. s[1] = "?" /\ Len(s) = 1  BY <3>1
    <3> QED BY <1>5, <1>8, <1>12, <1>13, <3>2
  <2> QED BY <1>5, <1>9, <1>11, <1>12, <2>1, <2>2 DEF ReadAgain
<1>15. Lines(text, e) = Lines(text, pos)  BY <1>1, <1>9, Level
<1>16. Finish(l, e)  BY <1>3, <1>8, <1>10
<1> QED BY <1>11, <1>12, <1>14, <1>15, <1>16, FinishStep

LEMMA QuoteStep ==
  ASSUME IInv, CurlyOpen \/ CurlyClose \/ DoubleQuoted \/ Command \/ SingleQuoted
  PROVE  IInv'
<1>1. /\ IsText(text) /\ text \in Seq(STRING) /\ pos \in Nat \ {0} /\ Len(text) \in Nat
      /\ lex \in Lexemes(text)
  BY TextGiven, InvParts
<1>2. PICK e : e = pos + 1  OBVIOUS
<1>3. Char(pos) \in {"{", "}", "dq", "bq", "'"}
  BY DEF CurlyOpen, CurlyClose, DoubleQuoted, Command, SingleQuoted, Dispatch
<1>4. Char(pos) \notin LineEnds \cup {"end"}  BY <1>3 DEF LineEnds
<1>5. Lines(text, e) = Lines(text, pos) /\ e \in 1 .. Len(text) + 1  BY <1>2, <1>4, OneMore
<1>6. e \in 1 .. Len(text) + 2 /\ e \in Nat  BY <1>1, <1>5
<1>7. lex.start \in Nat /\ lex.curlies \in Seq(Literals(text))  BY <1>1 DEF Lexemes
\* A literal of its own delimiters.
<1>8. ASSUME NEW type \in LiteralTypes, NEW c \in {"dq", "bq", "'", "end"},
             NEW origin \in Nat, NEW s, s = Literal(type, c, c, origin)
      PROVE  s \in Literals(text)
  <2>1. c \in Delimiters(text)  BY <1>8 DEF Delimiters, LineEnds
  <2> QED BY <1>8, <2>1 DEF Literal, Literals
<1>9. Null \in Literals(text)
  <2>1. "NONE" \in LiteralTypes  BY DEF LiteralTypes
  <2> QED BY <1>8, <2>1 DEF Null, NoLiteral
<1>10. "STRING" \in LiteralTypes /\ "COMMAND" \in LiteralTypes  BY DEF LiteralTypes
<1>11. CASE CurlyOpen
  <2>1. PICK l : l = Lexeme("CURLY_OPEN", e)  OBVIOUS
  <2>2. "CURLY_OPEN" \in Types /\ "CURLY_OPEN" \notin Rereadable  BY DEF Types, Rereadable
  <2>3. /\ l \in Lexemes(text) /\ l.type = "CURLY_OPEN" /\ l.cur = lex.cur /\ l.line = lex.line
        /\ l.curlies = lex.curlies
    BY <1>6, <2>1, <2>2, LexemeIs
  <2>4. PICK b : b = Append(l.curlies, Null)  OBVIOUS
  <2>5. b \in Seq(Literals(text))  BY <1>7, <1>9, <2>3, <2>4
  <2>6. PICK k : k = [l EXCEPT !.curlies = b]  OBVIOUS
  <2>7. k \in Lexemes(text) /\ k.type = l.type /\ k.cur = l.cur /\ k.line = l.line
    BY <2>3, <2>5, <2>6 DEF Lexemes
  <2>8. Finish(k, e)  BY <1>2, <1>11, <2>1, <2>4, <2>6 DEF CurlyOpen
  <2> QED BY <1>5, <1>6, <2>2, <2>3, <2>7, <2>8, FinishStep
<1>12. CASE CurlyClose
  <2>1. PICK top : top = IF lex.curlies = <<>> THEN Null ELSE Last(lex.curlies)  OBVIOUS
  <2>2. PICK l : l = IF lex.curlies = <<>> THEN lex ELSE [lex EXCEPT !.curlies = Front(@)]
    OBVIOUS
  <2>3. top \in Literals(text) /\ l \in Lexemes(text) /\ l.cur = lex.cur /\ l.line = lex.line
    <3>1. CASE lex.curlies = <<>>  BY <1>1, <1>9, <2>1, <2>2, <3>1
    <3>2. CASE lex.curlies # <<>>
      <4>1. Len(lex.curlies) \in Nat \ {0}  BY <1>7, <3>2
      <4>2. top \in Literals(text)  BY <1>7, <2>1, <3>2, <4>1 DEF Last
      <4>3. PICK n : n = Len(lex.curlies) - 1  OBVIOUS
      <4>4. n \in Nat /\ n <= Len(lex.curlies)  BY <4>1, <4>3
      <4>5. PICK b : b = Front(lex.curlies)  OBVIOUS
      <4>6. b = SubSeq(lex.curlies, 1, n)  BY <4>3, <4>5 DEF Front
      <4>7. b \in Seq(Literals(text))  BY <1>7, <4>4, <4>6
      <4>8. l = [lex EXCEPT !.curlies = b]  BY <2>2, <3>2, <4>5
      <4> QED BY <1>1, <4>2, <4>7, <4>8 DEF Lexemes
    <3> QED BY <3>1, <3>2
  <2>4. CASE top = Null
    <3>1. PICK k : k = [l EXCEPT !.type = "CURLY_CLOSE", !.stop = e]  OBVIOUS
    <3>2. "CURLY_CLOSE" \in Types /\ "CURLY_CLOSE" \notin Rereadable  BY DEF Types, Rereadable
    <3>3. /\ k \in Lexemes(text) /\ k.type = "CURLY_CLOSE" /\ k.cur = l.cur /\ k.line = l.line
      BY <1>6, <2>3, <3>1, <3>2 DEF Lexemes
    <3>4. Finish(k, e)  BY <1>2, <1>12, <2>1, <2>2, <2>4, <3>1 DEF CurlyClose
    <3> QED BY <1>5, <1>6, <2>3, <3>2, <3>3, <3>4, FinishStep
  <2>5. CASE top # Null
    <3>1. PICK s : s = [top EXCEPT !.continuing = TRUE]  OBVIOUS
    <3>2. s \in Literals(text)  BY <2>3, <3>1 DEF Literals
    <3>3. Interpolate(l, e, s)  BY <1>2, <1>12, <2>1, <2>2, <2>5, <3>1 DEF CurlyClose
    <3> QED BY <1>5, <1>6, <2>3, <3>2, <3>3, InterpolateStep
  <2> QED BY <2>4, <2>5
<1>13. CASE DoubleQuoted
  <2>1. PICK s : s = Literal("STRING", "dq", "dq", lex.start)  OBVIOUS
  <2>2. s \in Literals(text)  BY <1>7, <1>8, <1>10, <2>1
  <2>3. Interpolate(lex, e, s)  BY <1>2, <1>13, <2>1 DEF DoubleQuoted
  <2> QED BY <1>1, <1>5, <1>6, <2>2, <2>3, InterpolateStep
<1>14. CASE Command
  <2>1. PICK s : s = Literal("COMMAND", "bq", "bq", lex.start)  OBVIOUS
  <2>2. s \in Literals(text)  BY <1>7, <1>8, <1>10, <2>1
  <2>3. Interpolate(lex, e, s)  BY <1>2, <1>14, <2>1 DEF Command
  <2> QED BY <1>1, <1>5, <1>6, <2>2, <2>3, InterpolateStep
<1>15. CASE SingleQuoted
  <2>1. PICK s : s = Literal("STRING", "'", "'", lex.start)  OBVIOUS
  <2>2. s \in Literals(text)  BY <1>7, <1>8, <1>10, <2>1
  <2>3. Simple(e, "simple", s)  BY <1>2, <1>15, <2>1 DEF SingleQuoted
  <2>4. "simple" \in TextModes  BY DEF TextModes
  <2> QED BY <1>5, <1>6, <2>2, <2>3, <2>4, SimpleStep
<1> QED BY <1>11, <1>12, <1>13, <1>14, <1>15

-----------------------------------------------------------------------------
(* The returns.                                                            *)

\* Going on with fewer calls, in any mode but those with more to say.
LEMMA GoOn ==
  ASSUME IInv, NEW l \in Lexemes(text), l.cur = lex.cur, l.line <= l.cur, l.type \notin Rereadable,
         NEW s \in Literals(text), NEW c, Waits(text, c, lex.cur),
         NEW m \in TextModes \cup {"comment", "return", "parser"},
         m \in {"comment", "return"} => c # <<>>,
         m = "comment" => IsComment(pos),
         text' = text, pos' = pos, lex' = l, heredocs' = heredocs, mode' = m, str' = s, calls' = c
  PROVE  IInv'
<1>1. /\ TypesOK(text, pos, lex, heredocs, "parser", str, calls) /\ pos \in Nat \ {0}
      /\ SeenIn(text) => lex.cur = Lines(text, pos)
  BY InvParts
<1>2. TypesOK(text, pos, l, heredocs, "parser", s, c)  BY <1>1 DEF TypesOK
<1>3. m = "comment" => InComment(text, pos)  BY <1>1, CommentIs, CommentBegins
<1>4. CASE m = "parser"
  <2>1. Good(text, pos, l, heredocs, m, s, c)  BY <1>1, <1>2, <1>4, ToParser
  <2> QED BY <2>1 DEF IInv
<1>5. CASE m # "parser"
  <2>1. m \in TextModes \cup {"comment", "return"}  BY <1>5
  <2>2. Good(text, pos, l, heredocs, m, s, c)  BY <1>1, <1>2, <1>3, <2>1, ToOther
  <2> QED BY <2>2 DEF IInv
<1> QED BY <1>4, <1>5

LEMMA ReturnStep ==
  ASSUME IInv, Return
  PROVE  IInv'
<1>1. /\ lex \in Lexemes(text) /\ str \in Literals(text) /\ lex.line <= lex.cur /\ lex.cur \in Nat
      /\ mode \notin {"dispatch", "parser"} => lex.type \notin Rereadable
      /\ SeenIn(text) => lex.cur = Lines(text, pos)
      /\ pos \in Nat \ {0} /\ Waits(text, calls, lex.cur)
      /\ TypesOK(text, pos, lex, heredocs, "parser", str, calls)
  BY InvParts
<1>2. IsText(text) /\ text \in Seq(STRING) /\ Len(text) \in Nat  BY TextGiven
<1>3. mode = "return" /\ calls # <<>> /\ calls' = Front(calls)
  BY DEF Return, ReturnToLoad, ReturnToLine, ReturnToHeredocEnd, ReturnToSkipLine, ReturnToText,
         ReturnToCharacter, Pop
<1>4. lex.type \notin Rereadable  BY <1>1, <1>3
<1>5. PICK f : f = Last(calls)  OBVIOUS
<1>6. PICK c : c = Front(calls)  OBVIOUS
<1>7. Waits(text, c, lex.cur) /\ f \in Frames(text) /\ (f.kind \in WithinHeredoc => c # <<>>)
  BY <1>1, <1>3, <1>5, <1>6, PopCall
<1>8. PICK l : l = [lex EXCEPT !.start = pos, !.stop = pos]  OBVIOUS
<1>9. l \in Lexemes(text) /\ l.cur = lex.cur /\ l.line = lex.line /\ l.type = lex.type
  BY <1>1, <1>8 DEF Lexemes
<1>10. PICK k : k = [lex EXCEPT !.stop = pos]  OBVIOUS
<1>11. /\ k \in Lexemes(text) /\ k.cur = lex.cur /\ k.line = lex.line /\ k.type = lex.type
  BY <1>1, <1>10 DEF Lexemes
<1>12. ASSUME NEW j \in Lexemes(text), j.cur = lex.cur, j.line = lex.line,
              text' = text, pos' = pos, lex' = Restep(j, pos, FALSE), heredocs' = heredocs,
              mode' = "dispatch", str' = str, calls' = c
       PROVE  IInv'
  <2>1. TypesOK(text, pos, j, heredocs, "parser", str, c)  BY <1>1, <1>7, <1>12 DEF TypesOK
  <2>2. PICK r : r = Restep(j, pos, FALSE)  OBVIOUS
  <2>3. Good(text, pos, r, heredocs, "dispatch", str, c)
    BY <1>1, <1>2, <1>12, <2>1, <2>2, ToDispatch
  <2> QED BY <1>12, <2>2, <2>3 DEF IInv
<1>13. CASE ReturnToLoad
  <2>1. /\ text' = text /\ pos' = pos /\ lex' = Restep(lex, pos, FALSE) /\ heredocs' = heredocs
        /\ mode' = "dispatch" /\ str' = str
    BY <1>13 DEF ReturnToLoad
  <2> QED BY <1>1, <1>3, <1>6, <1>12, <2>1
<1>14. CASE ReturnToLine
  <2>1. /\ text' = text /\ pos' = pos /\ lex' = l /\ heredocs' = heredocs /\ mode' = "parser"
        /\ str' = str
    BY <1>8, <1>14 DEF ReturnToLine
  <2> QED BY <1>1, <1>3, <1>4, <1>6, <1>7, <1>9, <2>1, GoOn
<1>15. CASE ReturnToHeredocEnd
  <2>1. PICK m : m = IF f.comment /\ IsComment(pos) THEN "comment" ELSE "return"  OBVIOUS
  <2>2. /\ text' = text /\ pos' = pos /\ lex' = l /\ heredocs' = heredocs /\ mode' = m
        /\ str' = str /\ f.kind = "after"
    BY <1>5, <1>8, <1>15, <2>1 DEF ReturnToHeredocEnd, Pop
  <2>3. c # <<>>  BY <1>7, <2>2 DEF WithinHeredoc
  <2>4. m \in TextModes \cup {"comment", "return", "parser"} /\ (m = "comment" => IsComment(pos))
    BY <2>1
  <2> QED BY <1>1, <1>3, <1>4, <1>6, <1>7, <1>9, <2>2, <2>3, <2>4, GoOn
<1>16. CASE ReturnToSkipLine
  <2>1. /\ text' = text /\ pos' = pos /\ lex' = Restep(k, pos, FALSE) /\ heredocs' = heredocs
        /\ mode' = "dispatch" /\ str' = str
    BY <1>10, <1>16 DEF ReturnToSkipLine
  <2> QED BY <1>3, <1>6, <1>11, <1>12, <2>1
<1>17. CASE ReturnToText
  <2>1. /\ text' = text /\ pos' = pos /\ lex' = lex /\ heredocs' = heredocs /\ mode' = f.mode
        /\ str' = f.str /\ f.kind = "text"
    BY <1>5, <1>17 DEF ReturnToText, Pop
  <2>2. f.mode \in TextModes /\ f.str \in Literals(text)  BY <1>7, <2>1 DEF Frames, AnyFrame
  <2>3. f.mode \notin {"comment", "return"}  BY <2>2 DEF TextModes
  <2>4. PICK m : m = f.mode  OBVIOUS
  <2>5. PICK s : s = f.str  OBVIOUS
  <2>6. m \in TextModes \cup {"comment", "return", "parser"} /\ m \notin {"comment", "return"}
    BY <2>2, <2>3, <2>4
  <2> QED BY <1>1, <1>3, <1>4, <1>6, <1>7, <2>1, <2>2, <2>4, <2>5, <2>6, GoOn
<1>18. CASE ReturnToCharacter
  <2>1. PICK s : s = Literal("STRING", "end", "end", f.old.start)  OBVIOUS
  <2>2. s \in Literals(text)
    <3>1. "end" \in Delimiters(text) /\ "STRING" \in LiteralTypes
      BY DEF Delimiters, LiteralTypes, LineEnds
    <3>2. f.old.start \in Nat
      <4>1. f.old \in Lexemes(text)  BY <1>7 DEF Frames, AnyFrame
      <4> QED BY <4>1 DEF Lexemes
    <3> QED BY <2>1, <3>1, <3>2 DEF Literal, Literals
  <2>3. PICK j : j = [lex EXCEPT !.type = "STRING", !.piece = "Plain", !.stop = pos]  OBVIOUS
  <2>4. j \in Lexemes(text) /\ j.cur = lex.cur /\ j.line = lex.line /\ j.type = "STRING"
    <3>1. "STRING" \in Types /\ "Plain" \in Pieces  BY DEF Types, LiteralTypes, Pieces
    <3> QED BY <1>1, <2>3, <3>1 DEF Lexemes
  <2>5. j.type \notin Rereadable  BY <2>4 DEF Rereadable
  <2>6. /\ text' = text /\ pos' = pos /\ lex' = j /\ heredocs' = heredocs /\ mode' = "parser"
        /\ str' = s
    BY <1>5, <1>18, <2>1, <2>3 DEF ReturnToCharacter
  <2> QED BY <1>1, <1>3, <1>6, <1>7, <2>2, <2>4, <2>5, <2>6, GoOn
<1> QED BY <1>13, <1>14, <1>15, <1>16, <1>17, <1>18 DEF Return

-----------------------------------------------------------------------------
(* The parser.                                                             *)

LEMMA HeredocStep ==
  ASSUME IInv, HeredocDone
  PROVE  IInv'
<1>1. /\ lex \in Lexemes(text) /\ str \in Literals(text) /\ lex.cur \in Nat
      /\ SeenIn(text) => lex.cur = Lines(text, pos)
      /\ pos \in Nat \ {0} /\ Waits(text, calls, lex.cur)
  BY InvParts
<1>2. PICK f : f = Last(calls)  OBVIOUS
<1>3. calls # <<>> /\ f.kind = "heredoc"  BY <1>2 DEF HeredocDone, InHeredoc
<1>4. PICK c : c = Front(calls)  OBVIOUS
<1>5. /\ Waits(text, c, lex.cur) /\ f \in Frames(text) /\ f.old.line <= lex.cur /\ c # <<>>
  BY <1>1, <1>2, <1>3, <1>4, PopCall DEF WithinHeredoc
<1>6. f.old \in Lexemes(text) /\ f.old.type \notin Rereadable /\ f \in AnyFrame(text)
  BY <1>3, <1>5 DEF Frames, AnyFrame
<1>7. PICK old : old = [f.old EXCEPT !.cur = lex.cur]  OBVIOUS
<1>8. /\ old \in Lexemes(text) /\ old.cur = lex.cur /\ old.line = f.old.line
      /\ old.type = f.old.type
  BY <1>1, <1>6, <1>7 DEF Lexemes
<1>9. CASE Char(pos) \in LineEnds
  <2>1. PICK a : a = [f EXCEPT !.kind = "after"]  OBVIOUS
  <2>2. a \in Frames(text) /\ a.old = f.old /\ a.kind = "after"
    <3>1. a \in AnyFrame(text) /\ a.old = f.old /\ a.kind = "after"  BY <1>6, <2>1 DEF AnyFrame
    <3> QED BY <3>1 DEF Frames
  <2>3. PICK w : w = Append(c, a)  OBVIOUS
  <2>4. Waits(text, w, lex.cur) /\ w # <<>>
    BY <1>1, <1>5, <2>2, <2>3, PushCall
  <2>5. Newline(old, pos, w)
    BY <1>2, <1>4, <1>7, <1>9, <2>1, <2>3 DEF HeredocDone
  <2>6. At(text, pos) \in LineEnds  BY <1>9, CharAt
  <2> QED BY <1>1, <1>5, <1>8, <2>4, <2>5, <2>6, LineEndStep
<1>10. CASE Char(pos) \notin LineEnds
  <2>1. PICK m : m = IF f.comment /\ IsComment(pos) THEN "comment" ELSE "return"  OBVIOUS
  <2>2. /\ text' = text /\ pos' = pos /\ lex' = old /\ heredocs' = heredocs /\ mode' = m
        /\ str' = str /\ calls' = c
    BY <1>2, <1>4, <1>7, <1>10, <2>1 DEF HeredocDone
  <2>3. m \in TextModes \cup {"comment", "return", "parser"} /\ (m = "comment" => IsComment(pos))
    BY <2>1
  <2> QED BY <1>1, <1>5, <1>6, <1>8, <2>2, <2>3, GoOn
<1> QED BY <1>9, <1>10

LEMMA ParserStep ==
  ASSUME IInv, Step
  PROVE  IInv'
<1>1. /\ TypesOK(text, pos, lex, heredocs, "parser", str, calls)
      /\ SeenIn(text) => lex.cur = Lines(text, pos)
      /\ pos \in Nat \ {0} /\ Waits(text, calls, lex.cur)
  BY InvParts
<1>2. PICK c : c = IF InHeredoc /\ lex.piece # "none" /\ LastPiece
                     THEN [calls EXCEPT ![Len(calls)].last = TRUE] ELSE calls
  OBVIOUS
<1>3. Waits(text, c, lex.cur)
  <2>1. CASE c = calls  BY <1>1, <2>1
  <2>2. CASE InHeredoc /\ c = [calls EXCEPT ![Len(calls)].last = TRUE]
    <3>1. calls \in Seq(Frames(text)) /\ calls # <<>>  BY <1>1, <2>2 DEF InHeredoc, Waits
    <3>2. PICK n : n = Len(calls)  OBVIOUS
    <3>3. n \in Nat \ {0} /\ n \in 1 .. n /\ calls[n] \in Frames(text)  BY <3>1, <3>2
    <3>4. PICK g : g = [calls[n] EXCEPT !.last = TRUE]  OBVIOUS
    <3>5. g \in Frames(text) /\ g.old = calls[n].old /\ g.kind = calls[n].kind
      <4>1. /\ g \in AnyFrame(text) /\ g.old = calls[n].old /\ g.kind = calls[n].kind
            /\ g.mode = calls[n].mode
        BY <3>3, <3>4 DEF Frames, AnyFrame
      <4> QED BY <3>3, <4>1 DEF Frames
    <3>6. c = [calls EXCEPT ![n] = g]  BY <2>2, <3>2, <3>4
    <3>7. c \in Seq(Frames(text)) /\ Len(c) = n  BY <3>1, <3>2, <3>3, <3>5, <3>6
    <3>8. \A i \in 1 .. n : c[i] = IF i = n THEN g ELSE calls[i]  BY <3>1, <3>2, <3>6
    <3>9. \A i \in 1 .. n : c[i].old = calls[i].old /\ c[i].kind = calls[i].kind
      BY <3>5, <3>8
    <3>10. \A i \in 1 .. n : /\ calls[i].old.line <= lex.cur
                             /\ calls[i].kind \in WithinHeredoc => i > 1
      BY <1>1, <3>2 DEF Waits
    <3> QED BY <3>7, <3>9, <3>10 DEF Waits
  <2> QED BY <1>2, <2>1, <2>2
<1>4. TypesOK(text, pos, lex, heredocs, "parser", str, c)  BY <1>1, <1>3 DEF TypesOK
<1>5. PICK r : r = Restep(lex, pos, FALSE)  OBVIOUS
<1>6. Good(text, pos, r, heredocs, "dispatch", str, c)
  BY <1>1, <1>4, <1>5, TextGiven, ToDispatch
<1>7. /\ text' = text /\ pos' = pos /\ lex' = r /\ heredocs' = heredocs /\ mode' = "dispatch"
      /\ str' = str /\ calls' = c
  BY <1>2, <1>5 DEF Step
<1> QED BY <1>6, <1>7 DEF IInv

\* A lexeme that is read again begins on this line.
LEMMA AgainAt ==
  ASSUME IInv, mode = "parser", lex.type \in Rereadable
  PROVE  /\ ReadAgain(text, lex, pos)
         /\ lex.start \in 1 .. Len(text) /\ pos \in 1 .. Len(text) + 1 /\ lex.start < pos
         /\ lex.start + 1 \in 1 .. Len(text) + 1 /\ Passes(text, lex.start, lex.start + 1)
         /\ At(text, lex.start) \notin LineEnds
         /\ Lines(text, lex.start) = Lines(text, pos)
<1>1. text \in Seq(STRING) /\ Len(text) \in Nat  BY TextGiven
<1>2. ReadAgain(text, lex, pos)  BY DEF IInv, Good
<1>3. PICK b : b = lex.start  OBVIOUS
<1>4. b \in 1 .. Len(text) /\ b < pos /\ Passes(text, b, pos)  BY <1>2, <1>3 DEF ReadAgain
<1>5. pos \in 1 .. Len(text) + 1  BY <1>1, <1>4 DEF Passes
<1>6. Lines(text, pos) = Lines(text, b)  BY <1>1, <1>4, Level
<1>7. b + 1 \in 1 .. Len(text) + 1 /\ Passes(text, b, b + 1) /\ At(text, b) \notin LineEnds
  <2>1. \A r \in b .. b + 1 - 1 : r \in b .. pos - 1  BY <1>1, <1>4, <1>5
  <2>2. b \in b .. b + 1 - 1 /\ b + 1 \in b .. Len(text) + 1 /\ b + 1 \in 1 .. Len(text) + 1
    BY <1>1, <1>4
  <2> QED BY <1>1, <1>4, <2>1, <2>2 DEF Passes, Clean
<1> QED BY <1>2, <1>3, <1>4, <1>5, <1>6, <1>7

\* parse_delimited_data, at a place that a line end may not be at
LEMMA LiteralAt ==
  ASSUME IInv, NEW p \in Nat \ {0}, SeenIn(text) => At(text, p) \notin LineEnds,
         NEW type \in LiteralTypes, NEW s, s = Literal(type, Char(p), Terminator(Char(p)), lex.start)
  PROVE  s \in Literals(text)
<1>1. lex.start \in Nat
  <2>1. lex \in Lexemes(text)  BY InvParts
  <2> QED BY <2>1 DEF Lexemes
<1>2. PICK c : c = Char(p)  OBVIOUS
<1>3. c \in STRING \cup {"end"} /\ c = At(text, p)  BY <1>2, TextGiven, Characters, CharAt
<1>4. c \in Delimiters(text)  BY <1>3 DEF Delimiters
<1>5. PICK d : d = Terminator(c)  OBVIOUS
<1>6. d \in {")", "}", "]", ">", c}  BY <1>5 DEF Terminator
<1>7. {")", "}", "]", ">"} \subseteq Delimiters(text)  BY DEF Delimiters, LineEnds
<1>8. d \in Delimiters(text)  BY <1>4, <1>6, <1>7
<1>9. s = Literal(type, c, d, lex.start)  BY <1>2, <1>5
<1> QED BY <1>1, <1>4, <1>8, <1>9 DEF Literal, Literals

LEMMA DelimitedStep ==
  ASSUME IInv, NEW p \in 1 .. Len(text) + 1, SeenIn(text) => At(text, p) \notin LineEnds,
         Lines(text, p) = Lines(text, pos), NEW type \in LiteralTypes, Delimited(type, p)
  PROVE  IInv'
<1>1. IsText(text) /\ text \in Seq(STRING) /\ Len(text) \in Nat  BY TextGiven
<1>2. PICK s : s = Literal(type, Char(p), Terminator(Char(p)), lex.start)  OBVIOUS
<1>3. p \in Nat \ {0}  BY <1>1
<1>4. s \in Literals(text)  BY <1>2, <1>3, LiteralAt
<1>5. PICK q : q = IF p > Len(text) THEN p ELSE p + 1  OBVIOUS
<1>6. q \in 1 .. Len(text) + 2  BY <1>1, <1>5
<1>7. ASSUME SeenIn(text) PROVE Lines(text, q) = Lines(text, p)
  <2>1. CASE p > Len(text)  BY <1>5, <2>1
  <2>2. CASE p <= Len(text)
    <3>1. At(text, p) \notin LineEnds \cup {"end"}  BY <1>1, <1>3, <1>7, <2>2, Characters
    <3>2. q = p + 1  BY <1>1, <1>5, <2>2
    <3>3. Passes(text, p, q)  BY <1>1, <1>3, <3>1, <3>2, PassOne
    <3> QED BY <1>1, <1>3, <3>3, Level
  <2> QED BY <1>1, <2>1, <2>2
<1>8. lex \in Lexemes(text)  BY InvParts
<1>9. Interpolate(lex, q, s)  BY <1>2, <1>5 DEF Delimited
<1> QED BY <1>4, <1>6, <1>7, <1>8, <1>9, InterpolateStep

LEMMA DivStep ==
  ASSUME IInv, DivToRegexp
  PROVE  IInv'
<1>1. mode = "parser" /\ lex.type \in Rereadable  BY DEF DivToRegexp, Again, Rereadable
<1>2. text \in Seq(STRING) /\ Len(text) \in Nat /\ lex \in Lexemes(text)  BY TextGiven, InvParts
<1>3. PICK q : q = lex.start + 1  OBVIOUS
<1>4. q \in 1 .. Len(text) + 2 /\ Lines(text, q) = Lines(text, pos)
  <2>1. lex.start \in 1 .. Len(text) /\ Lines(text, lex.start) = Lines(text, pos)
    BY <1>1, AgainAt
  <2>2. Passes(text, lex.start, q) /\ lex.start \in Nat \ {0}  BY <1>1, <1>2, <1>3, <2>1, AgainAt
  <2> QED BY <1>2, <2>1, <2>2, Level
<1>5. PICK s : s = Literal("REGEXP", "/", "/", lex.start)  OBVIOUS
<1>6. s \in Literals(text)
  <2>1. "/" \in Delimiters(text) /\ "REGEXP" \in LiteralTypes
    BY DEF Delimiters, LineEnds, LiteralTypes
  <2>2. lex.start \in Nat  BY <1>2 DEF Lexemes
  <2> QED BY <1>5, <2>1, <2>2 DEF Literal, Literals
<1>7. Interpolate(lex, q, s)  BY <1>3, <1>5 DEF DivToRegexp
<1> QED BY <1>2, <1>4, <1>6, <1>7, InterpolateStep

LEMMA UnaryStep ==
  ASSUME IInv, ExpandToUnary
  PROVE  IInv'
<1>1. Char(pos) = "@" /\ Finish(Lexeme("UNARY", pos + 1), pos + 1)  BY DEF ExpandToUnary
<1>2. Char(pos) \notin LineEnds \cup {"end"}  BY <1>1 DEF LineEnds
<1>3. Passes(text, pos, pos + 1)  BY <1>2, OneMore
<1>4. "UNARY" \in Types \ Rereadable  BY DEF Types, Rereadable
<1> QED BY <1>1, <1>3, <1>4, LexemeStep

\* The lexeme is no literal.
LEMMA NoneStep ==
  ASSUME IInv, NEW p \in 1 .. Len(text) + 2, SeenIn(text) => Lines(text, p) = Lines(text, pos),
         NEW l, l = [lex EXCEPT !.type = "NONE"] \/ l = [lex EXCEPT !.type = "NONE", !.stop = p],
         Finish(l, p)
  PROVE  IInv'
<1>1. lex \in Lexemes(text)  BY InvParts
<1>2. "NONE" \in Types /\ "NONE" \notin Rereadable  BY DEF Types, LiteralTypes, Rereadable
<1>3. p \in Nat  BY TextGiven
<1>4. l \in Lexemes(text) /\ l.type = "NONE" /\ l.cur = lex.cur /\ l.line = lex.line
  BY <1>1, <1>2, <1>3 DEF Lexemes
<1> QED BY <1>2, <1>4, FinishStep

LEMMA ModStep ==
  ASSUME IInv, ModToLiteral
  PROVE  IInv'
<1>1. /\ mode = "parser" /\ lex.type \in {"MOD", "ASSIGN_MOD"} /\ lex.type \in Rereadable
  BY DEF ModToLiteral, Again, Rereadable
<1>2. IsText(text) /\ text \in Seq(STRING) /\ Len(text) \in Nat  BY TextGiven
<1>3. PICK b : b = lex.start  OBVIOUS
<1>4. PICK p : p = b + 1  OBVIOUS
<1>5. /\ b \in 1 .. Len(text) /\ p \in 1 .. Len(text) + 1 /\ Passes(text, b, p)
      /\ Lines(text, b) = Lines(text, pos) /\ At(text, b) = "%"
  BY <1>1, <1>3, <1>4, AgainAt DEF ReadAgain
<1>6. b \in Nat \ {0} /\ p \in Nat \ {0}  BY <1>2, <1>5
<1>7. Lines(text, p) = Lines(text, pos)  BY <1>2, <1>5, <1>6, Level
<1>8. PICK c : c = Char(p)  OBVIOUS
<1>9. c = At(text, p)  BY <1>8, CharAt
<1>10. PICK q : q = p + 1  OBVIOUS
\* What follows the lexeme, or the letter after it, is no line end.
<1>11. SeenIn(text) => At(text, p) \notin LineEnds
  <2>1. <<"%">> \in Hiding  BY DEF Hiding
  <2>2. \A i \in 1 .. Len(<<"%">>) : At(text, b + i - 1) = <<"%">>[i]
    <3>1. ASSUME NEW i \in 1 .. Len(<<"%">>) PROVE At(text, b + i - 1) = <<"%">>[i]
      <4>1. i = 1  OBVIOUS
      <4>2. b + i - 1 = b /\ <<"%">>[i] = "%"  BY <1>6, <4>1
      <4> QED BY <1>5, <4>2
    <3> QED BY <3>1
  <2>3. Says(text, b, <<"%">>)  BY <2>2 DEF Says
  <2>4. b + Len(<<"%">>) = p  BY <1>4
  <2> QED BY <1>5, <2>1, <2>3, <2>4 DEF SeenIn, Seen
<1>12. ASSUME c \in {"q", "w", "r", "s", "x", "Q", "W"}
       PROVE  /\ q \in 1 .. Len(text) + 1 /\ q \in Nat \ {0} /\ Lines(text, q) = Lines(text, pos)
              /\ SeenIn(text) => At(text, q) \notin LineEnds
  <2>1. c \notin LineEnds \cup {"end"}  BY <1>12 DEF LineEnds
  <2>2. Passes(text, p, q) /\ q \in Nat \ {0} /\ q <= Len(text) + 1
    BY <1>2, <1>6, <1>9, <1>10, <2>1, PassOne
  <2>3. Lines(text, q) = Lines(text, pos)  BY <1>2, <1>6, <1>7, <2>2, Level
  <2>4. <<"%", c>> \in Hiding  BY <1>12 DEF Hiding
  <2>5. Says(text, b, <<"%", c>>)
    <3>1. ASSUME NEW i \in 1 .. Len(<<"%", c>>) PROVE At(text, b + i - 1) = <<"%", c>>[i]
      <4>1. i = 1 \/ i = 2  OBVIOUS
      <4>2. CASE i = 1
        <5>1. b + i - 1 = b /\ <<"%", c>>[i] = "%"  BY <1>6, <4>2
        <5> QED BY <1>5, <5>1
      <4>3. CASE i = 2
        <5>1. b + i - 1 = p /\ <<"%", c>>[i] = c  BY <1>4, <1>6, <4>3
        <5> QED BY <1>9, <5>1
      <4> QED BY <4>1, <4>2, <4>3
    <3> QED BY <3>1 DEF Says
  <2>6. b + Len(<<"%", c>>) = q
    <3>1. Len(<<"%", c>>) = 2  OBVIOUS
    <3> QED BY <1>4, <1>6, <1>10, <3>1
  <2>7. SeenIn(text) => At(text, q) \notin LineEnds
    BY <1>5, <2>4, <2>5, <2>6 DEF SeenIn, Seen
  <2> QED BY <1>2, <2>2, <2>3, <2>7
<1>13. \/ c \in {"r", "s", "x", "Q", "W"} /\ Delimited(LiteralType(c), q)
       \/ c = "q" /\ Simple(p + 2, "simple",
                            Literal("STRING", Char(q), Terminator(Char(q)), lex.start))
       \/ c = "w" /\ q <= Len(text)
            /\ Simple(p + 2, "words", Literal("ARRAY", Char(q), Terminator(Char(q)), lex.start))
       \/ c = "w" /\ Finish([lex EXCEPT !.type = "NONE"], q)
       \/ Finish([lex EXCEPT !.type = "NONE"], p)
       \/ Delimited("STRING", p)
  BY <1>3, <1>4, <1>8, <1>10 DEF ModToLiteral
<1>14. CASE c \in {"r", "s", "x", "Q", "W"} /\ Delimited(LiteralType(c), q)
  <2>1. LiteralType(c) \in LiteralTypes  BY <1>14 DEF LiteralType, LiteralTypes
  <2>2. PICK type : type = LiteralType(c)  OBVIOUS
  <2> QED BY <1>12, <1>14, <2>1, <2>2, DelimitedStep
<1>15. ASSUME NEW type \in LiteralTypes, NEW m \in TextModes, c \in {"q", "w"},
              Simple(p + 2, m, Literal(type, Char(q), Terminator(Char(q)), lex.start))
       PROVE  IInv'
  <2>1. PICK s : s = Literal(type, Char(q), Terminator(Char(q)), lex.start)  OBVIOUS
  <2>2. /\ q \in 1 .. Len(text) + 1 /\ q \in Nat \ {0} /\ Lines(text, q) = Lines(text, pos)
        /\ SeenIn(text) => At(text, q) \notin LineEnds
    BY <1>12, <1>15
  <2>3. s \in Literals(text)  BY <2>1, <2>2, LiteralAt
  <2>4. PICK e : e = p + 2  OBVIOUS
  <2>5. e = q + 1 /\ e \in Nat /\ e \in 1 .. Len(text) + 2  BY <1>2, <1>6, <1>10, <2>2, <2>4
  <2>6. ASSUME SeenIn(text) PROVE Lines(text, e) = Lines(text, pos)
    <3>1. \A r \in q .. e - 1 : r = q  BY <2>2, <2>5
    <3>2. Clean(text, q, e)  BY <2>2, <2>5, <2>6, <3>1 DEF Clean
    <3> QED BY <1>2, <2>2, <2>5, <3>2, SameLine
  <2>7. Simple(e, m, s)  BY <1>15, <2>1, <2>4
  <2> QED BY <2>3, <2>5, <2>6, <2>7, SimpleStep
<1>16. "STRING" \in LiteralTypes /\ "ARRAY" \in LiteralTypes /\ "simple" \in TextModes
       /\ "words" \in TextModes
  BY DEF LiteralTypes, TextModes
<1>17. CASE c = "w" /\ Finish([lex EXCEPT !.type = "NONE"], q)
  <2>1. q \in 1 .. Len(text) + 2 /\ Lines(text, q) = Lines(text, pos)  BY <1>2, <1>12, <1>17
  <2> QED BY <1>17, <2>1, NoneStep
<1>18. CASE Finish([lex EXCEPT !.type = "NONE"], p)
  <2>1. p \in 1 .. Len(text) + 2  BY <1>2, <1>5
  <2> QED BY <1>7, <1>18, <2>1, NoneStep
<1>19. CASE Delimited("STRING", p)
  BY <1>5, <1>7, <1>11, <1>16, <1>19, DelimitedStep
<1> QED BY <1>13, <1>14, <1>15, <1>16, <1>17, <1>18, <1>19

LEMMA ShiftStep ==
  ASSUME IInv, LeftShiftToHeredoc
  PROVE  IInv'
<1>1. mode = "parser" /\ lex.type \in Rereadable  BY DEF LeftShiftToHeredoc, Again, Rereadable
<1>2. IsText(text) /\ text \in Seq(STRING) /\ Len(text) \in Nat  BY TextGiven
<1>3. pos \in 1 .. Len(text) + 1 /\ pos \in Nat \ {0}  BY <1>1, <1>2, AgainAt
<1>4. PICK p : p = IF Char(pos) = "-" THEN pos + 1 ELSE pos  OBVIOUS
<1>5. p \in 1 .. Len(text) + 1 /\ p \in Nat \ {0} /\ Lines(text, p) = Lines(text, pos)
  <2>1. CASE Char(pos) = "-"
    <3>1. Char(pos) \notin LineEnds \cup {"end"}  BY <2>1 DEF LineEnds
    <3>2. p = pos + 1  BY <1>4, <2>1
    <3> QED BY <1>2, <3>1, <3>2, OneMore
  <2>2. CASE Char(pos) # "-"  BY <1>3, <1>4, <2>2
  <2> QED BY <2>1, <2>2
<1>6. CASE Char(p) \in Ident \union {"bq", "dq", "'"}
  <2>1. PICK n : n = HeredocName(p)  OBVIOUS
  <2>2. /\ n.stop \in 1 .. Len(text) + 1 /\ Passes(text, p, n.stop)
        /\ n.name \in Seq(STRING) /\ n.type \in {"COMMAND", "STRING"}
    BY <1>2, <1>5, <1>6, <2>1, HeredocNamePasses
  <2>3. PICK e : e = n.stop  OBVIOUS
  <2>4. e \in 1 .. Len(text) + 2 /\ e \in Nat /\ Lines(text, e) = Lines(text, pos)
    BY <1>2, <1>5, <2>2, <2>3, Level
  <2>5. PICK h : h = [name |-> n.name, ident |-> p # pos, type |-> n.type]  OBVIOUS
  <2>6. h \in Heredocs  BY <2>2, <2>5 DEF Heredocs, LiteralTypes
  <2>7. PICK hs : hs = Append(heredocs, h)  OBVIOUS
  <2>8. hs \in Seq(Heredocs)  BY <2>6, <2>7, InvParts
  <2>9. PICK l : l = [lex EXCEPT !.type = "HEREDOC", !.stop = e]  OBVIOUS
  <2>10. "HEREDOC" \in Types /\ "HEREDOC" \notin Rereadable  BY DEF Types, Rereadable
  <2>11. /\ l \in Lexemes(text) /\ l.cur = lex.cur /\ l.line = lex.line /\ l.type = "HEREDOC"
    BY <2>4, <2>9, <2>10, InvParts DEF Lexemes
  <2>12. TypesOK(text, pos, lex, heredocs, "parser", str, calls)  BY InvParts
  <2>13. TypesOK(text, e, l, hs, "parser", str, calls)
    BY <2>4, <2>8, <2>11, <2>12 DEF TypesOK
  <2>14. SeenIn(text) => l.cur = Lines(text, e)  BY <2>4, <2>11, InvParts
  <2>15. Good(text, e, l, hs, "parser", str, calls)  BY <2>10, <2>11, <2>13, <2>14, ToParser
  <2>16. /\ text' = text /\ pos' = e /\ lex' = l /\ heredocs' = hs /\ mode' = "parser"
         /\ str' = str /\ calls' = calls
    BY <1>1, <1>4, <1>6, <2>1, <2>3, <2>5, <2>7, <2>9 DEF LeftShiftToHeredoc
  <2> QED BY <2>15, <2>16 DEF IInv
<1>7. CASE Char(p) \notin Ident \union {"bq", "dq", "'"}
  <2>1. PICK l : l = [lex EXCEPT !.type = "NONE", !.stop = p]  OBVIOUS
  <2>2. Finish(l, p)  BY <1>4, <1>7, <2>1 DEF LeftShiftToHeredoc
  <2>3. p \in 1 .. Len(text) + 2  BY <1>2, <1>5
  <2> QED BY <1>5, <2>1, <2>2, <2>3, NoneStep
<1> QED BY <1>6, <1>7

LEMMA QuestionStep ==
  ASSUME IInv, QuestionToCharacter
  PROVE  IInv'
<1>1. mode = "parser" /\ lex.type = "QUESTION" /\ lex.type \in Rereadable
  BY DEF QuestionToCharacter, Again, Rereadable
<1>2. IsText(text) /\ text \in Seq(STRING) /\ Len(text) \in Nat  BY TextGiven
<1>3. /\ pos \in 1 .. Len(text) + 1 /\ pos \in Nat \ {0} /\ lex.start \in 1 .. Len(text)
      /\ At(text, lex.start) = "?" /\ pos = lex.start + 1
  BY <1>1, <1>2, AgainAt DEF ReadAgain
<1>4. SeenIn(text) => At(text, pos) \notin LineEnds
  <2>1. <<"?">> \in Hiding  BY DEF Hiding
  <2>2. ASSUME NEW i \in 1 .. Len(<<"?">>) PROVE At(text, lex.start + i - 1) = <<"?">>[i]
    <3>1. i = 1  OBVIOUS
    <3>2. lex.start + i - 1 = lex.start /\ <<"?">>[i] = "?"  BY <1>3, <3>1
    <3> QED BY <1>3, <3>2
  <2>3. Says(text, lex.start, <<"?">>)  BY <2>2 DEF Says
  <2>4. lex.start + Len(<<"?">>) = pos  BY <1>3
  <2> QED BY <1>3, <2>1, <2>3, <2>4 DEF SeenIn, Seen
<1>5. /\ lex \in Lexemes(text) /\ lex.line <= lex.cur /\ lex.cur \in Nat
      /\ SeenIn(text) => lex.cur = Lines(text, pos)
      /\ TypesOK(text, pos, lex, heredocs, "parser", str, calls)
  BY InvParts
<1>6. PICK k : k = [lex EXCEPT !.type = "STRING", !.piece = "Plain"]  OBVIOUS
<1>7. /\ k \in Lexemes(text) /\ k.cur = lex.cur /\ k.line = lex.line /\ k.type = "STRING"
      /\ k.type \notin Rereadable
  <2>1. "STRING" \in Types /\ "STRING" \notin Rereadable  BY DEF Types, LiteralTypes, Rereadable
  <2>2. "Plain" \in Pieces  BY DEF Pieces
  <2> QED BY <1>5, <1>6, <2>1, <2>2 DEF Lexemes
<1>8. PICK p : p = pos + 1  OBVIOUS
<1>9. PICK t : t = EscapeTarget(p)  OBVIOUS
<1>10. ASSUME Char(pos) = "\\"
       PROVE  /\ p \in 1 .. Len(text) + 1 /\ At(text, p - 1) = "\\" /\ p > 1 /\ p \in Nat \ {0}
              /\ Lines(text, p) = Lines(text, pos)
  <2>1. Char(pos) \notin LineEnds \cup {"end"}  BY <1>10 DEF LineEnds
  <2>2. p - 1 = pos /\ p > 1 /\ p \in Nat \ {0}  BY <1>3, <1>8
  <2>3. At(text, p - 1) = "\\"  BY <1>10, <2>2, CharAt
  <2> QED BY <1>8, <2>1, <2>2, <2>3, OneMore
\* The character is complete.
<1>11. ASSUME NEW q \in 1 .. Len(text) + 2, SeenIn(text) => Lines(text, q) = Lines(text, pos),
              text' = text, pos' = q, lex' = [k EXCEPT !.stop = q], heredocs' = heredocs,
              mode' = mode, str' = Literal("STRING", "end", "end", lex.start), calls' = calls
       PROVE  IInv'
  <2>1. PICK s : s = Literal("STRING", "end", "end", lex.start)  OBVIOUS
  <2>2. s \in Literals(text)
    <3>1. "end" \in Delimiters(text) /\ "STRING" \in LiteralTypes
      BY DEF Delimiters, LiteralTypes, LineEnds
    <3>2. lex.start \in Nat  BY <1>3
    <3> QED BY <2>1, <3>1, <3>2 DEF Literal, Literals
  <2>3. PICK l : l = [k EXCEPT !.stop = q]  OBVIOUS
  <2>4. /\ l \in Lexemes(text) /\ l.cur = lex.cur /\ l.line = lex.line
        /\ l.type \notin Rereadable
    <3>1. q \in Nat  BY <1>2
    <3> QED BY <1>7, <2>3, <3>1 DEF Lexemes
  <2>5. TypesOK(text, q, l, heredocs, "parser", s, calls)  BY <1>5, <2>2, <2>4, OtherLexeme
  <2>6. SeenIn(text) => l.cur = Lines(text, q)  BY <1>5, <1>11, <2>4
  <2>7. Good(text, q, l, heredocs, "parser", s, calls)  BY <2>4, <2>5, <2>6, ToParser
  <2> QED BY <1>1, <1>11, <2>1, <2>3, <2>7 DEF IInv
<1>12. CASE Char(pos) = "\\" /\ IsEscapedLine(t)
  <2>1. PICK w : w = Append(calls, Frame("character"))  OBVIOUS
  <2>2. PICK a : a = t.at  OBVIOUS
  <2>3. PICK q : q = AfterLineEnd(a)  OBVIOUS
  <2>4. ProcessNewline(k, q, FALSE, FALSE, w)
    BY <1>6, <1>8, <1>9, <1>12, <2>1, <2>2, <2>3 DEF QuestionToCharacter
  <2>5. Waits(text, w, lex.cur) /\ w # <<>>  BY <2>1, FrameIs
  <2>6. a \in 1 .. Len(text) + 1 /\ Passes(text, p, a)
    BY <1>2, <1>9, <1>10, <1>12, <2>2, EscapeTargetPasses
  <2>7. Lines(text, a) = Lines(text, pos) /\ a \in Nat \ {0}
    BY <1>2, <1>10, <1>12, <2>6, Level
  <2>8. At(text, a) \in LineEnds  BY <1>12, <2>2, CharAt DEF IsEscapedLine
  <2>9. q \in 1 .. Len(text) + 1 /\ Lines(text, q) = Lines(text, a) + 1
    BY <1>2, <2>3, <2>7, <2>8, AtLineEnd
  <2>10. SeenIn(text) => Lines(text, q) = k.cur + 1  BY <1>5, <1>7, <2>7, <2>9
  <2>11. k.line <= k.cur /\ Waits(text, w, k.cur)  BY <1>5, <1>7, <2>5
  <2> QED BY <1>7, <2>4, <2>5, <2>9, <2>10, <2>11, NewlineStep
<1>13. CASE ~(Char(pos) = "\\" /\ IsEscapedLine(t))
  <2>1. PICK q : q = IF Char(pos) = "\\" THEN EscapeEnd(t) ELSE IF AtEnd THEN pos ELSE pos + 1
    OBVIOUS
  <2>2. /\ text' = text /\ pos' = q /\ lex' = [k EXCEPT !.stop = q] /\ heredocs' = heredocs
        /\ mode' = mode /\ str' = Literal("STRING", "end", "end", lex.start) /\ calls' = calls
    BY <1>6, <1>8, <1>9, <1>13, <2>1 DEF QuestionToCharacter
  <2>3. q \in 1 .. Len(text) + 2 /\ (SeenIn(text) => Lines(text, q) = Lines(text, pos))
    <3>1. CASE Char(pos) = "\\"
      <4>1. q = EscapeEnd(t) /\ ~IsEscapedLine(t)  BY <1>13, <2>1, <3>1
      <4>2. q \in 1 .. Len(text) + 2 /\ (SeenIn(text) => Lines(text, q) = Lines(text, p))
        BY <1>2, <1>9, <1>10, <3>1, <4>1, EscapeEndLevel
      <4> QED BY <1>10, <3>1, <4>2
    <3>2. CASE Char(pos) # "\\" /\ AtEnd
      <4>1. q = pos /\ pos \in 1 .. Len(text) + 2  BY <1>2, <1>3, <2>1, <3>2
      <4> QED BY <4>1
    <3>3. CASE Char(pos) # "\\" /\ ~AtEnd
      <4>1. q = pos + 1 /\ pos \in 1 .. Len(text)  BY <1>2, <1>3, <2>1, <3>3 DEF AtEnd
      <4>2. At(text, pos) # "end"  BY <1>2, <1>3, <4>1, Characters
      <4>3. ASSUME SeenIn(text) PROVE Lines(text, q) = Lines(text, pos)
        <5>1. Char(pos) \notin LineEnds \cup {"end"}  BY <1>4, <4>2, <4>3, CharAt
        <5> QED BY <4>1, <5>1, OneMore
      <4>4. q \in 1 .. Len(text) + 2  BY <1>2, <4>1
      <4> QED BY <4>3, <4>4
    <3> QED BY <3>1, <3>2, <3>3
  <2> QED BY <1>11, <2>2, <2>3
<1> QED BY <1>12, <1>13

-----------------------------------------------------------------------------
(* The count of lines, as a whole.                                         *)

LEMMA InitCounts == Init => IInv
<1> SUFFICES ASSUME Init PROVE IInv  OBVIOUS
<1>1. text \in Texts /\ pos = 1 /\ heredocs = <<>> /\ str = NoLiteral  BY DEF Init
<1>2. IsText(text) /\ Len(text) \in Nat  BY <1>1, TextsAssumption DEF IsText
<1>3. lex = [type |-> "NONE", start |-> 1, stop |-> 1, line |-> 0, cur |-> 0, ws |-> FALSE,
             piece |-> "none", curlies |-> <<>>]
  BY DEF Init
<1>4. /\ lex \in Lexemes(text) /\ lex.line = 0 /\ lex.cur = 0 /\ lex.start = 1
      /\ lex.type = "NONE"
  BY <1>3 DEF Lexemes, Types, LiteralTypes, Pieces
<1>5. "NONE" \notin Rereadable  BY DEF Rereadable
<1>6. str \in Literals(text)
  <2>1. "end" \in Delimiters(text) /\ "NONE" \in LiteralTypes
    BY DEF Delimiters, LiteralTypes, LineEnds
  <2> QED BY <1>1, <2>1 DEF NoLiteral, Literal, Literals
<1>7. Lines(text, 1) = 0
  <2>1. {i \in 1 .. 1 - 1 : LineEndAt(text, i)} = {}  OBVIOUS
  <2> QED BY <2>1, FS_EmptySet DEF Lines
<1>8. pos \in 1 .. Len(text) + 2 /\ pos \in Nat \ {0}  BY <1>1, <1>2
<1>9. heredocs \in Seq(Heredocs)  BY <1>1
<1>10. Waits(text, <<>>, 0)  BY DEF Waits
<1>11. CASE IsComment(1)
  <2>1. PICK f : f = [kind |-> "load", mode |-> "load", str |-> NoLiteral, old |-> lex,
                      comment |-> FALSE, last |-> FALSE]
    OBVIOUS
  <2>2. f \in Frames(text) /\ f.old = lex /\ f.kind = "load"
    <3>1. f \in AnyFrame(text)  BY <1>1, <1>4, <1>6, <2>1 DEF AnyFrame
    <3> QED BY <2>1, <3>1 DEF Frames
  <2>3. calls = <<f>> /\ mode = "comment"  BY <1>11, <2>1 DEF Init
  <2>4. calls = Append(<<>>, f)  BY <2>3
  <2>5. Waits(text, calls, 0) /\ calls # <<>>
    <3>1. f.old.line <= 0 /\ f.kind \notin WithinHeredoc  BY <1>4, <2>2 DEF WithinHeredoc
    <3> QED BY <1>10, <2>2, <2>4, <3>1, PushCall
  <2>6. TypesOK(text, pos, lex, heredocs, "parser", str, calls)
    BY <1>1, <1>4, <1>6, <1>8, <1>9, <2>5 DEF TypesOK, Modes
  <2>7. InComment(text, pos)  BY <1>1, <1>8, <1>11, CommentIs, CommentBegins
  <2>8. "comment" \in TextModes \cup {"comment", "return"}  OBVIOUS
  <2> QED BY <1>1, <1>4, <1>5, <1>7, <2>3, <2>5, <2>6, <2>7, <2>8, ToOther DEF IInv
<1>12. CASE ~IsComment(1)
  <2>1. calls = <<>> /\ mode = "dispatch"  BY <1>12 DEF Init
  <2>2. TypesOK(text, pos, lex, heredocs, mode, str, calls)
    BY <1>1, <1>4, <1>6, <1>8, <1>9, <1>10, <2>1 DEF TypesOK, Modes
  <2> QED BY <1>1, <1>4, <1>7, <2>1, <2>2 DEF IInv, Good
<1> QED BY <1>11, <1>12

LEMMA NextCounts == IInv /\ [Next]_vars => IInv'
<1> SUFFICES ASSUME IInv, [Next]_vars PROVE IInv'  OBVIOUS
<1>1. CASE Dispatched
  BY <1>1, SkippingStep, LineStep, NameStep, OperatorStep, QuoteStep DEF Dispatched
<1>2. CASE Text
  BY <1>2, EndsStep, EscapesStep, InTextStep, CommentStep DEF Text
<1>3. CASE Return  BY <1>3, ReturnStep
<1>4. CASE Parsing
  BY <1>4, ParserStep, HeredocStep, DivStep, ModStep, ShiftStep, QuestionStep, UnaryStep
     DEF Parsing
<1>5. CASE UNCHANGED vars  BY <1>5 DEF vars, IInv
<1> QED BY <1>1, <1>2, <1>3, <1>4, <1>5 DEF Next

LEMMA InvTypes == IInv => TypeOK
<1> SUFFICES ASSUME IInv PROVE TypeOK  OBVIOUS
<1>1. TypesOK(text, pos, lex, heredocs, mode, str, calls)  BY DEF IInv, Good
<1>2. lex \in Lexemes(text) /\ lex.line <= lex.cur /\ pos \in 1 .. Len(text) + 2  BY <1>1 DEF TypesOK
<1>3. lex.start \in Nat /\ lex.stop \in Nat /\ lex.piece \in Pieces  BY <1>2 DEF Lexemes
<1>4. mode \in Modes /\ (mode = "return" => calls # <<>>)  BY <1>1 DEF TypesOK
<1> QED BY <1>2, <1>3, <1>4 DEF TypeOK, Modes, TextModes

LEMMA SeenIs == LineEndsSeen => SeenIn(text)
<1> SUFFICES ASSUME LineEndsSeen PROVE SeenIn(text)  OBVIOUS
<1>1. Seen(text)
  <2> SUFFICES ASSUME NEW p \in 1 .. Len(text), NEW s \in Hiding, Says(text, p, s)
               PROVE  At(text, p + Len(s)) \notin LineEnds
    BY DEF Seen
  <2>1. Spelled(p, s)  BY CharAt DEF Spelled, Says
  <2>2. Char(p + Len(s)) \notin LineEnds  BY <2>1 DEF LineEndsSeen
  <2> QED BY <2>2, CharAt
<1>2. ASSUME NEW p \in 1 .. Len(text), NEW q \in p + 1 .. Len(text), CommentAt(text, p),
             At(text, q) = "\r"
      PROVE  \E r \in p .. q - 1 : At(text, r) = "\n" /\ CommentEndAt(text, r + 1)
  <2>1. IsComment(p) /\ Char(q) = "\r"  BY <1>2, CommentIs, CharAt
  <2>2. PICK r \in p .. q - 1 : Char(r) = "\n" /\ IsCommentEnd(r + 1)
    BY <2>1 DEF LineEndsSeen
  <2> QED BY <2>2, CharAt, CommentEndIs
<1> QED BY <1>1, <1>2 DEF SeenIn

LEMMA InvCounts == IInv => LinesCounted
<1> SUFFICES ASSUME IInv, mode = "dispatch", LineEndsSeen
             PROVE  lex.line = LinesBefore(lex.start)
  BY DEF LinesCounted
<1>1. lex.line = lex.cur /\ lex.start = pos /\ (SeenIn(text) => lex.cur = Lines(text, pos))
  BY DEF IInv, Good
<1>2. LinesBefore(pos) = Lines(text, pos)
  BY CharAt DEF LinesBefore, Lines, LineEndAt
<1> QED BY <1>1, <1>2, SeenIs

-----------------------------------------------------------------------------
(* Which literal goes on.  The lexeme keeps the groups and braces that are *)
(* open (curlies), but a heredoc read at a line end takes its own groups   *)
(* from the same list, and the literal the line end is in is on no list    *)
(* while it is read: its state is on the stack of C++ calls.               *)

\* What a lexeme does to what is open, as in OpenAfter.
After(S, type, piece, origin) ==
  CASE type = "CURLY_OPEN" -> Append(S, 0)
    [] piece = "Starting" -> Append(S, origin)
    [] type = "CURLY_CLOSE" /\ S # <<>> -> Front(S)
    [] piece = "Ending" -> Front(S)
    [] OTHER -> S

Tokens == [type : Types, start : Nat, stop : Nat, piece : Pieces, heredoc : BOOLEAN, origin : Nat]
OpenTo(f, T) ==
  f = [n \in 0 .. Len(T) |->
         IF n = 0 THEN <<>> ELSE After(f[n - 1], T[n].type, T[n].piece, T[n].origin)]

\* The literal under way: piece is what the lexeme is of it ("Ending" if it has groups behind
\* it, and stands on what is open), own that it is the innermost heredoc, and any that its
\* type is not set yet.  Between literals, own says that the heredoc has its last piece.
Reading(s, m) ==
  [piece |-> IF s.continuing THEN "Ending" ELSE "Plain", type |-> s.type, origin |-> s.origin,
   any |-> m = "words", own |-> s.heredoc]
Between(own) == [piece |-> "none", type |-> "LINE", origin |-> 0, any |-> TRUE, own |-> own]

\* What the call f interrupts, where `last` says that the heredoc below has its last piece.
Interrupts(f, last) ==
  CASE f.kind = "text" -> Reading(f.str, f.mode)
    [] f.kind = "line" -> [Between(last) EXCEPT !.any = FALSE]
    [] f.kind = "character" -> [piece |-> "Plain", type |-> "STRING", origin |-> f.old.start,
                                any |-> TRUE, own |-> FALSE]
    [] OTHER -> Between(FALSE)

\* A heredoc that began after o was read.
Later(T, o) == \E i \in 1 .. Len(T) : T[i].heredoc /\ T[i].origin > o

\* The lexeme is what it began as.
Keeps(l, lit, T) ==
  /\ l.piece = lit.piece
  /\ lit.any \/ l.type = lit.type \/ (l.type = "LINE" /\ Later(T, lit.origin))

\* A level is a heredoc that is read, or the file: what was open when it began, the length of
\* curlies then, and where the literal starts that it interrupts.
Ground == [below |-> <<>>, given |-> 0, heredoc |-> FALSE, since |-> 0]
Levels ==
  {e \in [below : Seq(Nat), given : Nat, heredoc : BOOLEAN, since : Nat] : e.heredoc \/ e = Ground}

\* A mark is what was so when a call was made: the level, what was open, and the literal
\* it interrupts.
Lits == [piece : Pieces, type : Types, origin : Nat, any : BOOLEAN, own : BOOLEAN]
Marks == [level : Levels, open : Seq(Nat), lit : Lits]

LevelOver(f, d) ==
  IF f.kind = "heredoc"
    THEN [below |-> d.open, given |-> Len(f.old.curlies), heredoc |-> TRUE, since |-> d.lit.origin]
    ELSE d.level
LevelAt(c, D) == IF c = <<>> THEN Ground ELSE LevelOver(Last(c), Last(D))

\* A heredoc that is read for another literal begins after that.
Since(x, e) == x.heredoc => x.origin > e.since

\* S is what was open below, the groups and braces of this level, and the literal under way.
\* Of these the first is the heredoc's own, if the level is one.  N, b and n are the lengths.
Pile(S, N, below, b, given, heredoc, since, k, n, lit) ==
  /\ given <= n
  /\ N = IF lit.piece = "Ending" THEN b + (n - given) + 1 ELSE b + (n - given)
  /\ \A j \in 1 .. b : S[j] = below[j]
  /\ \A j \in given + 1 .. n :
       /\ S[b + (j - given)] = k[j].origin
       /\ k[j].heredoc <=> heredoc /\ j = given + 1
       /\ k[j].heredoc => k[j].origin > since
  /\ lit.piece = "Ending" => S[N] = lit.origin
  /\ lit.own <=> heredoc /\ n = given
Stack(S, e, k, lit) ==
  Pile(S, Len(S), e.below, Len(e.below), e.given, e.heredoc, e.since, k, Len(k), lit)

-----------------------------------------------------------------------------
(* What is open, and the list of groups and braces.                        *)

LEMMA OneAbove ==
  ASSUME NEW b \in Nat, NEW g \in Nat, NEW n \in Nat, NEW N, N = b + (n - g)
  PROVE  b + ((n + 1) - g) = N + 1
OBVIOUS

LEMMA SameElements ==
  ASSUME NEW K, NEW s \in Seq(K), NEW r \in Seq(K), Len(s) = Len(r),
         \A i \in 1 .. Len(s) : s[i] = r[i]
  PROVE  s = r
OBVIOUS

LEMMA FrontIs ==
  ASSUME NEW K, NEW s \in Seq(K), s # <<>>, NEW m, m = Front(s)
  PROVE  /\ m \in Seq(K) /\ Len(m) = Len(s) - 1 /\ Len(s) \in Nat \ {0}
         /\ \A j \in 1 .. Len(s) - 1 : m[j] = s[j]
         /\ Last(s) = s[Len(s)] /\ Last(s) \in K /\ s = Append(m, Last(s))
<1>1. Len(s) \in Nat \ {0}  OBVIOUS
<1>2. Last(s) = s[Len(s)] /\ Last(s) \in K  BY <1>1 DEF Last
<1>3. PICK n \in Nat : n = Len(s) - 1  BY <1>1
<1>4. n <= Len(s) /\ m = SubSeq(s, 1, n)  BY <1>1, <1>3 DEF Front
<1>5. m \in Seq(K) /\ Len(m) = n /\ \A j \in 1 .. n : m[j] = s[j]  BY <1>3, <1>4
<1>6. s = Append(m, Last(s))  BY <1>1, <1>2, <1>3, <1>5
<1> QED BY <1>1, <1>2, <1>3, <1>5, <1>6

LEMMA LevelIs ==
  ASSUME NEW e \in Levels
  PROVE  /\ e.below \in Seq(Nat) /\ Len(e.below) \in Nat /\ e.given \in Nat /\ e.since \in Nat
         /\ e.heredoc \in BOOLEAN
         /\ e.heredoc \/ (e.given = 0 /\ e.below = <<>>)
<1>1. Ground.given = 0 /\ Ground.below = <<>>  BY DEF Ground
<1> QED BY <1>1 DEF Levels

\* Only some of the literal under way matters.
LEMMA StackSame ==
  ASSUME NEW S, NEW e, NEW k, NEW a, NEW b, Stack(S, e, k, a), b.own = a.own,
         a.piece # "Ending", b.piece # "Ending"
  PROVE  Stack(S, e, k, b)
BY DEF Stack, Pile

\* A brace or a group is opened.
LEMMA StackPush ==
  ASSUME NEW t, NEW S \in Seq(Nat), NEW e \in Levels, NEW k \in Seq(Literals(t)), NEW a,
         Stack(S, e, k, a), a.piece # "Ending", NEW x \in Literals(t), x.heredoc <=> a.own,
         Since(x, e), NEW z, z.piece # "Ending", z.own = FALSE,
         NEW R, R = Append(S, x.origin), NEW m, m = Append(k, x)
  PROVE  Stack(R, e, m, z) /\ R \in Seq(Nat)
<1>1. PICK N \in Nat : N = Len(S)  OBVIOUS
<1>2. PICK n \in Nat : n = Len(k)  OBVIOUS
<1>3. PICK b \in Nat : b = Len(e.below)  BY LevelIs
<1>4. PICK g \in Nat : g = e.given  BY LevelIs
<1>5. PICK o \in Nat : o = e.since  BY LevelIs
<1>6. PICK h \in BOOLEAN : h = e.heredoc  BY LevelIs
<1>7. Pile(S, N, e.below, b, g, h, o, k, n, a)  BY <1>1, <1>2, <1>3, <1>4, <1>5, <1>6 DEF Stack
<1>8. x.origin \in Nat /\ (x.heredoc => x.origin > o)  BY <1>5 DEF Literals, Since
<1>9. Len(R) = N + 1 /\ R[N + 1] = x.origin /\ R \in Seq(Nat) /\ \A j \in 1 .. N : R[j] = S[j]
  BY <1>1, <1>8
<1>10. Len(m) = n + 1 /\ m[n + 1] = x /\ \A j \in 1 .. n : m[j] = k[j]  BY <1>2
<1>11. g <= n /\ N = b + (n - g) /\ \A j \in 1 .. b : S[j] = e.below[j]  BY <1>7 DEF Pile
<1>12. \A j \in 1 .. b : R[j] = e.below[j]  BY <1>9, <1>11
<1>13. ASSUME NEW j \in g + 1 .. n + 1
      PROVE  /\ R[b + (j - g)] = m[j].origin
             /\ m[j].heredoc <=> h /\ j = g + 1
             /\ m[j].heredoc => m[j].origin > o
  <2>1. CASE j = n + 1
    <3>1. N = b + (n - g)  BY <1>11
    <3>4. b + ((n + 1) - g) = N + 1  BY <3>1
    <3>2. b + (j - g) = N + 1  BY <2>1, <3>4
    <3>3. x.heredoc <=> h /\ j = g + 1  BY <1>7, <2>1 DEF Pile
    <3> QED BY <1>5, <1>8, <1>9, <1>10, <2>1, <3>2, <3>3
  <2>2. CASE j # n + 1
    <3>1. j \in g + 1 .. n /\ j \in 1 .. n  BY <2>2
    <3>2. b + (j - g) \in 1 .. N  BY <1>11, <3>1
    <3>3. m[j] = k[j] /\ R[b + (j - g)] = S[b + (j - g)]  BY <1>9, <1>10, <3>1, <3>2
    <3> QED BY <1>7, <3>1, <3>3 DEF Pile
  <2> QED BY <2>1, <2>2
<1>14. g <= n + 1 /\ n + 1 # g /\ N + 1 = b + ((n + 1) - g)  BY <1>11
<1>15. Pile(R, N + 1, e.below, b, g, h, o, m, n + 1, z)
  BY <1>9, <1>10, <1>12, <1>13, <1>14 DEF Pile
<1> QED BY <1>3, <1>4, <1>5, <1>6, <1>9, <1>10, <1>15 DEF Stack

\* The literal under way, which has groups behind it, opens one more.
LEMMA StackAgain ==
  ASSUME NEW t, NEW S \in Seq(Nat), NEW e \in Levels, NEW k \in Seq(Literals(t)), NEW a,
         Stack(S, e, k, a), a.piece = "Ending", NEW x \in Literals(t), x.heredoc <=> a.own,
         Since(x, e), x.origin = a.origin, NEW z, z.piece # "Ending",
         z.own = FALSE, NEW m, m = Append(k, x)
  PROVE  Stack(S, e, m, z) /\ S # <<>> /\ Last(S) = x.origin
<1>1. PICK N \in Nat : N = Len(S)  OBVIOUS
<1>2. PICK n \in Nat : n = Len(k)  OBVIOUS
<1>3. PICK b \in Nat : b = Len(e.below)  BY LevelIs
<1>4. PICK g \in Nat : g = e.given  BY LevelIs
<1>5. PICK o \in Nat : o = e.since  BY LevelIs
<1>6. PICK h \in BOOLEAN : h = e.heredoc  BY LevelIs
<1>7. Pile(S, N, e.below, b, g, h, o, k, n, a)  BY <1>1, <1>2, <1>3, <1>4, <1>5, <1>6 DEF Stack
<1>8. x.origin \in Nat /\ (x.heredoc => x.origin > o)  BY <1>5 DEF Literals, Since
<1>9. Len(m) = n + 1 /\ m[n + 1] = x /\ \A j \in 1 .. n : m[j] = k[j]  BY <1>2
<1>10. g <= n /\ N = b + (n - g) + 1 /\ (\A j \in 1 .. b : S[j] = e.below[j]) /\ S[N] = x.origin
  BY <1>7 DEF Pile
<1>11. ASSUME NEW j \in g + 1 .. n + 1
      PROVE  /\ S[b + (j - g)] = m[j].origin
             /\ m[j].heredoc <=> h /\ j = g + 1
             /\ m[j].heredoc => m[j].origin > o
  <2>1. CASE j = n + 1
    <3>0. PICK M : M = b + (n - g)  OBVIOUS
    <3>1. N = M + 1  BY <1>10, <3>0
    <3>4. b + ((n + 1) - g) = M + 1  BY <3>0
    <3>2. b + (j - g) = N  BY <2>1, <3>1, <3>4
    <3>3. x.heredoc <=> h /\ j = g + 1  BY <1>7, <2>1 DEF Pile
    <3> QED BY <1>5, <1>8, <1>9, <1>10, <2>1, <3>2, <3>3
  <2>2. CASE j # n + 1
    <3>1. j \in g + 1 .. n /\ j \in 1 .. n  BY <2>2
    <3>2. m[j] = k[j]  BY <1>9, <3>1
    <3> QED BY <1>7, <3>1, <3>2 DEF Pile
  <2> QED BY <2>1, <2>2
<1>12. g <= n + 1 /\ n + 1 # g /\ N = b + ((n + 1) - g) /\ N > 0  BY <1>10
<1>13. Pile(S, N, e.below, b, g, h, o, m, n + 1, z)
  BY <1>7, <1>9, <1>10, <1>11, <1>12 DEF Pile
<1>14. S # <<>> /\ Last(S) = x.origin
  <2>1. N = b + (n - g) + 1 /\ g <= n  BY <1>10
  <2>2. N > 0  BY <1>1, <1>2, <1>3, <1>4, <2>1, SMTT(30)
  <2>3. S[N] = x.origin  BY <1>10
  <2> QED BY <1>1, <2>2, <2>3 DEF Last
<1> QED BY <1>1, <1>3, <1>4, <1>5, <1>6, <1>9, <1>13, <1>14 DEF Stack

\* The literal under way, which has groups behind it, ends.
LEMMA StackEnd ==
  ASSUME NEW t, NEW S \in Seq(Nat), NEW e \in Levels, NEW k \in Seq(Literals(t)), NEW a,
         Stack(S, e, k, a), a.piece = "Ending", NEW z, z.piece # "Ending", z.own = a.own,
         NEW R, R = Front(S)
  PROVE  Stack(R, e, k, z) /\ R \in Seq(Nat) /\ S # <<>> /\ Last(S) = a.origin
<1>1. PICK N \in Nat : N = Len(S)  OBVIOUS
<1>2. PICK n \in Nat : n = Len(k)  OBVIOUS
<1>3. PICK b \in Nat : b = Len(e.below)  BY LevelIs
<1>4. PICK g \in Nat : g = e.given  BY LevelIs
<1>5. PICK o \in Nat : o = e.since  BY LevelIs
<1>6. PICK h \in BOOLEAN : h = e.heredoc  BY LevelIs
<1>7. Pile(S, N, e.below, b, g, h, o, k, n, a)  BY <1>1, <1>2, <1>3, <1>4, <1>5, <1>6 DEF Stack
<1>8. g <= n /\ N = b + (n - g) + 1 /\ (\A j \in 1 .. b : S[j] = e.below[j]) /\ S[N] = a.origin
  BY <1>7 DEF Pile
<1>9. PICK r \in Nat : r = N - 1  BY <1>1, <1>2, <1>3, <1>4, <1>8, SMTT(30)
<1>17. S # <<>> /\ Len(S) = r + 1  BY <1>1, <1>9
<1>10. r <= Len(S) /\ R = SubSeq(S, 1, r)  BY <1>17 DEF Front
<1>11. Len(R) = r /\ R \in Seq(Nat) /\ \A j \in 1 .. r : R[j] = S[j]  BY <1>10
<1>12. \A j \in 1 .. b : R[j] = e.below[j]
  <2>1. \A j \in 1 .. b : j \in 1 .. r  BY <1>8, <1>9
  <2> QED BY <1>8, <1>11, <2>1
<1>13. ASSUME NEW j \in g + 1 .. n  PROVE R[b + (j - g)] = S[b + (j - g)]
  <2>1. b + (j - g) \in 1 .. r  BY <1>8, <1>9
  <2> QED BY <1>11, <2>1
<1>14. r = b + (n - g) /\ N > 0  BY <1>8, <1>9
<1>15. Pile(R, N - 1, e.below, b, g, h, o, k, n, z)
  BY <1>7, <1>8, <1>9, <1>11, <1>12, <1>13, <1>14 DEF Pile
<1>16. S # <<>> /\ Last(S) = a.origin
  <2>1. N = b + (n - g) + 1 /\ g <= n  BY <1>8
  <2>2. N > 0  BY <1>1, <1>2, <1>3, <1>4, <2>1, SMTT(30)
  <2>3. S[N] = a.origin  BY <1>8
  <2> QED BY <1>1, <2>2, <2>3 DEF Last
<1> QED BY <1>2, <1>3, <1>4, <1>5, <1>6, <1>9, <1>11, <1>15, <1>16 DEF Stack

\* The innermost brace or group x is closed, which leaves the list m: if x is a group, its
\* literal goes on where S is open, if it is a brace, R is open.
Popped(t, S, e, x, m, R) ==
  /\ S # <<>> /\ Last(S) = x.origin /\ x \in Literals(t) /\ m \in Seq(Literals(t))
  /\ x.heredoc => e.heredoc /\ x.origin > e.since
  /\ \A z : z.piece = "Ending" /\ z.origin = x.origin /\ z.own = x.heredoc => Stack(S, e, m, z)
  /\ ~x.heredoc => \A z : z.piece # "Ending" /\ z.own = FALSE => Stack(R, e, m, z)
  /\ R \in Seq(Nat)

\* A brace closes: the innermost brace, or the group of a literal that goes on.
LEMMA StackPop ==
  ASSUME NEW t, NEW S \in Seq(Nat), NEW e \in Levels, NEW k \in Seq(Literals(t)), NEW a,
         Stack(S, e, k, a), a.piece # "Ending", a.own = FALSE, k # <<>>,
         NEW x, x = Last(k), NEW m, m = Front(k), NEW R, R = Front(S)
  PROVE  Popped(t, S, e, x, m, R)
<1>1. PICK N \in Nat : N = Len(S)  OBVIOUS
<1>2. PICK n \in Nat : n = Len(k)  OBVIOUS
<1>3. PICK b \in Nat : b = Len(e.below)  BY LevelIs
<1>4. PICK g \in Nat : g = e.given  BY LevelIs
<1>5. PICK o \in Nat : o = e.since  BY LevelIs
<1>6. PICK h \in BOOLEAN : h = e.heredoc  BY LevelIs
<1>7. Pile(S, N, e.below, b, g, h, o, k, n, a)  BY <1>1, <1>2, <1>3, <1>4, <1>5, <1>6 DEF Stack
<1>8. h \/ (g = 0 /\ b = 0)  BY <1>3, <1>4, <1>6, LevelIs
<1>9. g <= n /\ N = b + (n - g) /\ (\A j \in 1 .. b : S[j] = e.below[j]) /\ ~(h /\ n = g)
  BY <1>7 DEF Pile
<1>10. n > 0  BY <1>2
<1>11. n > g /\ N > 0  BY <1>3, <1>4, <1>6, <1>8, <1>9, <1>10
<1>12. PICK q \in Nat : q = n - 1  BY <1>10
<1>13. q <= Len(k) /\ m = SubSeq(k, 1, q) /\ g <= q /\ n = q + 1  BY <1>2, <1>11, <1>12 DEF Front
<1>14. Len(m) = q /\ m \in Seq(Literals(t)) /\ \A j \in 1 .. q : m[j] = k[j]  BY <1>12, <1>13
<1>15. x = k[n] /\ x \in Literals(t)  BY <1>2, <1>10 DEF Last
<1>16. S[N] = x.origin /\ (x.heredoc <=> h /\ q = g) /\ (x.heredoc => x.origin > o)
  <2>1. n \in g + 1 .. n /\ b + (n - g) = N  BY <1>9, <1>11
  <2>2. /\ S[b + (n - g)] = k[n].origin
        /\ k[n].heredoc <=> h /\ n = g + 1
        /\ k[n].heredoc => k[n].origin > o
    BY <1>7, <2>1 DEF Pile
  <2>3. n = g + 1 <=> q = g  BY <1>13
  <2> QED BY <1>15, <2>1, <2>2, <2>3
<1>17. ASSUME NEW j \in g + 1 .. q
      PROVE  /\ S[b + (j - g)] = m[j].origin
             /\ m[j].heredoc <=> h /\ j = g + 1
             /\ m[j].heredoc => m[j].origin > o
  <2>1. j \in g + 1 .. n /\ j \in 1 .. q  BY <1>13
  <2>2. m[j] = k[j]  BY <1>14, <2>1
  <2> QED BY <1>7, <2>1, <2>2 DEF Pile
<1>18. ASSUME NEW z, z.piece = "Ending" /\ z.origin = x.origin /\ z.own = x.heredoc
       PROVE  Pile(S, N, e.below, b, g, h, o, m, q, z)
  <2>1. N = b + (q - g) + 1  BY <1>9, <1>13
  <2> QED BY <1>9, <1>13, <1>16, <1>17, <1>18, <2>1 DEF Pile
<1>19. PICK r \in Nat : r = N - 1  BY <1>11
<1>20. r <= Len(S) /\ R = SubSeq(S, 1, r)  BY <1>1, <1>19 DEF Front
<1>21. Len(R) = r /\ R \in Seq(Nat) /\ \A j \in 1 .. r : R[j] = S[j]  BY <1>19, <1>20
<1>22. ASSUME ~x.heredoc, NEW z, z.piece # "Ending" /\ z.own = FALSE
       PROVE  Pile(R, r, e.below, b, g, h, o, m, q, z)
  <2>1. r = b + (q - g)  BY <1>9, <1>13, <1>19, SMTT(30)
  <2>2. \A j \in 1 .. b : R[j] = e.below[j]  BY <1>9, <1>13, <1>21, <2>1
  <2>3. ASSUME NEW j \in g + 1 .. q  PROVE R[b + (j - g)] = S[b + (j - g)]
    <3>1. b + (j - g) \in 1 .. r  BY <2>1
    <3> QED BY <1>21, <3>1
  <2>4. ~(h /\ q = g)  BY <1>16, <1>22
  <2> QED BY <1>13, <1>17, <1>22, <2>1, <2>2, <2>3, <2>4 DEF Pile
<1>23. S # <<>> /\ Last(S) = x.origin  BY <1>1, <1>11, <1>16 DEF Last
<1>24. ASSUME NEW z, z.piece = "Ending" /\ z.origin = x.origin /\ z.own = x.heredoc
       PROVE  Stack(S, e, m, z)
  BY <1>1, <1>3, <1>4, <1>5, <1>6, <1>14, <1>18, <1>24 DEF Stack
<1>25. ASSUME ~x.heredoc, NEW z, z.piece # "Ending" /\ z.own = FALSE
       PROVE  Stack(R, e, m, z)
  BY <1>3, <1>4, <1>5, <1>6, <1>14, <1>21, <1>22, <1>25 DEF Stack
<1>26. x.heredoc => e.heredoc /\ x.origin > e.since  BY <1>5, <1>6, <1>16
<1> QED BY <1>14, <1>15, <1>21, <1>23, <1>24, <1>25, <1>26 DEF Popped

\* Nothing is open where no brace or group is.
LEMMA StackEmpty ==
  ASSUME NEW S \in Seq(Nat), NEW e \in Levels, NEW a, Stack(S, e, <<>>, a), a.piece # "Ending",
         a.own = FALSE
  PROVE  S = <<>>
<1>1. PICK N \in Nat : N = Len(S)  OBVIOUS
<1>2. PICK b \in Nat : b = Len(e.below)  BY LevelIs
<1>3. PICK g \in Nat : g = e.given  BY LevelIs
<1>4. g <= 0 /\ ~(e.heredoc /\ 0 = g) /\ N = b + (0 - g)  BY <1>1, <1>2, <1>3 DEF Stack, Pile
<1>5. g = 0  BY <1>4
<1>6. Len(S) = 0
  <2>1. b = 0  BY <1>2, <1>4, <1>5, LevelIs
  <2> QED BY <1>1, <1>4, <1>5, <2>1
<1> QED BY <1>6

\* A heredoc begins.
LEMMA StackBase ==
  ASSUME NEW t, NEW S \in Seq(Nat), NEW k \in Seq(Literals(t)), NEW e, e.below = S,
         e.given = Len(k), e.heredoc = TRUE, NEW z, z.piece # "Ending", z.own = TRUE
  PROVE  Stack(S, e, k, z)
<1>1. PICK N \in Nat : N = Len(S)  OBVIOUS
<1>2. PICK n \in Nat : n = Len(k)  OBVIOUS
<1>3. N = N + (n - n) /\ n + 1 .. n = {}  OBVIOUS
<1>4. Pile(S, N, S, N, n, TRUE, e.since, k, n, z)  BY <1>3 DEF Pile
<1> QED BY <1>1, <1>2, <1>4 DEF Stack

\* A heredoc that is done leaves what was open as it was.
LEMMA StackBack ==
  ASSUME NEW t, NEW S \in Seq(Nat), NEW e \in Levels, NEW k \in Seq(Literals(t)), NEW a,
         Stack(S, e, k, a), a.piece # "Ending", a.own = TRUE
  PROVE  S = e.below
<1>1. PICK N \in Nat : N = Len(S)  OBVIOUS
<1>2. PICK b \in Nat : b = Len(e.below)  BY LevelIs
<1>3. PICK g \in Nat : g = e.given  BY LevelIs
<1>4. Len(k) = g /\ N = b + (g - g) /\ \A j \in 1 .. b : S[j] = e.below[j]
  BY <1>1, <1>2, <1>3 DEF Stack, Pile
<1>5. N = b  BY <1>4
<1>6. e.below \in Seq(Nat)  BY LevelIs
<1>7. PICK B \in Seq(Nat) : B = e.below  BY <1>6
<1>8. Len(S) = Len(B) /\ \A j \in 1 .. Len(S) : S[j] = B[j]  BY <1>1, <1>2, <1>4, <1>5, <1>7
<1> QED BY <1>7, <1>8, SameElements

-----------------------------------------------------------------------------
(* What is open, from the lexemes.                                         *)

LEMMA OpenUnique ==
  ASSUME NEW T, NEW n \in Nat, n = Len(T), NEW f, NEW g, OpenTo(f, T), OpenTo(g, T)
  PROVE  f[n] = g[n]
<1> DEFINE E(h, i) == IF i = 0 THEN <<>> ELSE After(h[i - 1], T[i].type, T[i].piece, T[i].origin)
           Bad == {i \in 0 .. n : f[i] # g[i]}
<1>1. \A i \in 0 .. n : f[i] = E(f, i) /\ g[i] = E(g, i)
  <2>1. f = [i \in 0 .. n |-> E(f, i)] /\ g = [i \in 0 .. n |-> E(g, i)]  BY DEF OpenTo
  <2> HIDE DEF E
  <2> QED BY <2>1
<1>2. CASE Bad = {}  BY <1>2
<1>3. CASE Bad # {}
  <2>1. Bad \in SUBSET Nat  OBVIOUS
  <2>2. PICK i \in Bad : \A j \in Bad : ~(<<j, i>> \in OpToRel(<, Nat))
    BY <1>3, <2>1, NatLessThanWellFounded, WFMin
  <2>9. i \in 0 .. n /\ f[i] # g[i]  BY <2>2
  <2>3. i # 0
    <3>1. E(f, 0) = E(g, 0)  OBVIOUS
    <3>2. f[0] = g[0]  BY <1>1, <3>1
    <3> QED BY <2>9, <3>2
  <2>4. PICK j \in 0 .. n : j = i - 1  BY <2>3, <2>9
  <2>5. j \notin Bad
    <3>1. <<j, i>> \in OpToRel(<, Nat)  BY <2>4, <2>9 DEF OpToRel
    <3> QED BY <2>2, <3>1
  <2>6. f[j] = g[j]  BY <2>5
  <2>7. f[i] = E(f, i) /\ g[i] = E(g, i)  BY <1>1, <2>2
  <2>8. E(f, i) = E(g, i)  BY <2>4, <2>6
  <2> HIDE DEF E
  <2> QED BY <2>2, <2>7, <2>8
<1> QED BY <1>2, <1>3

LEMMA OpenIs ==
  ASSUME NEW n \in Nat, n = Len(tokens), NEW f, OpenTo(f, tokens)
  PROVE  OpenAfter = f[n]
<1> DEFINE E(h, i) == IF i = 0 THEN <<>>
                      ELSE After(h[i - 1], tokens[i].type, tokens[i].piece, tokens[i].origin)
           g == CHOOSE h : h = [i \in 0 .. n |-> E(h, i)]
<1>1. OpenAfter = g[n]  BY DEF OpenAfter, After
<1>2. f = [i \in 0 .. n |-> E(f, i)]  BY DEF OpenTo
<1>3. g = [i \in 0 .. n |-> E(g, i)]
  <2> HIDE DEF E
  <2> QED BY <1>2
<1>4. OpenTo(g, tokens)
  <2> HIDE DEF g
  <2> QED BY <1>3 DEF OpenTo
<1> HIDE DEF g
<1> QED BY <1>1, <1>4, OpenUnique

\* One lexeme more.
Opened(f, x, U, n) ==
  /\ Len(U) = n + 1
  /\ \E g : OpenTo(g, U) /\ g[n + 1] = After(f[n], x.type, x.piece, x.origin)

LEMMA OpenNext ==
  ASSUME NEW T \in Seq(Tokens), NEW f, OpenTo(f, T), NEW x \in Tokens, NEW U, U = Append(T, x),
         NEW n \in Nat, n = Len(T)
  PROVE  Opened(f, x, U, n)
<1> DEFINE E(h, i) == IF i = 0 THEN <<>> ELSE After(h[i - 1], T[i].type, T[i].piece, T[i].origin)
           G(h, i) == IF i = 0 THEN <<>> ELSE After(h[i - 1], U[i].type, U[i].piece, U[i].origin)
           new == After(f[n], x.type, x.piece, x.origin)
           g == [i \in 0 .. n + 1 |-> IF i = n + 1 THEN new ELSE f[i]]
<1>1. Len(U) = n + 1 /\ U[n + 1] = x /\ \A i \in 1 .. n : U[i] = T[i]  OBVIOUS
<1>2. \A i \in 0 .. n : f[i] = E(f, i)
  <2>1. f = [i \in 0 .. n |-> E(f, i)]  BY DEF OpenTo
  <2> HIDE DEF E
  <2> QED BY <2>1
<1>3. ASSUME NEW i \in 0 .. n + 1  PROVE g[i] = G(g, i)
  <2>1. CASE i = 0
    <3>1. g[i] = f[i] /\ f[i] = E(f, i)  BY <1>2, <2>1
    <3> QED BY <2>1, <3>1
  <2>2. CASE i \in 1 .. n
    <3>1. g[i] = f[i] /\ f[i] = E(f, i) /\ g[i - 1] = f[i - 1]  BY <1>2, <2>2
    <3>2. U[i] = T[i]  BY <1>1, <2>2
    <3> QED BY <2>2, <3>1, <3>2
  <2>3. CASE i = n + 1
    <3>1. g[i] = new /\ g[i - 1] = f[n]  BY <2>3
    <3> QED BY <1>1, <2>3, <3>1
  <2> QED BY <2>1, <2>2, <2>3
<1>4. g[n + 1] = new  OBVIOUS
<1>5. g = [i \in 0 .. n + 1 |-> G(g, i)]
  <2>1. g = [i \in 0 .. n + 1 |-> g[i]]  OBVIOUS
  <2> HIDE DEF g, G
  <2> QED BY <1>3, <2>1
<1>6. OpenTo(g, U)
  <2> HIDE DEF g
  <2> QED BY <1>1, <1>5 DEF OpenTo
<1> HIDE DEF g
<1> QED BY <1>1, <1>4, <1>6 DEF Opened

-----------------------------------------------------------------------------
(* The calls that wait, and their marks.                                   *)

UpTo(k, P) == \A j \in 1 .. Len(k) : k[j].origin <= P

\* Of the call f with the mark d, when the lexer has come to P: a heredoc waits with what was
\* open, and the lexeme it interrupts is what it began as.
FrameOK(f, d, T, P) ==
  /\ d.lit.origin <= P
  /\ f.kind = "text" /\ f.str.heredoc => d.level.heredoc /\ f.str.origin > d.level.since
  /\ f.kind = "heredoc" =>
       /\ Stack(d.open, d.level, f.old.curlies, d.lit)
       /\ Keeps(f.old, d.lit, T)
       /\ f.last => Later(T, d.lit.origin)
       /\ UpTo(f.old.curlies, P)

\* The call f is the first one, or the one after g.
First(f, d) == f.kind \notin WithinHeredoc /\ d.level = Ground /\ d.lit = Interrupts(f, FALSE)
Upon(g, e, f, d) ==
  /\ d.level = LevelOver(g, e)
  /\ f.kind \in WithinHeredoc => g.kind # "heredoc" /\ d.lit = e.lit
  /\ f.kind \notin WithinHeredoc =>
       /\ g.kind = "heredoc" /\ d.lit = Interrupts(f, g.last)
       /\ f.kind # "line" => g.last = FALSE
Above(c, D, f, d) == IF c = <<>> THEN First(f, d) ELSE Upon(Last(c), Last(D), f, d)

Calls(c, D, T, P) ==
  /\ D \in Seq(Marks) /\ Len(D) = Len(c)
  /\ c # <<>> => First(c[1], D[1])
  /\ \A i \in 2 .. Len(c) : Upon(c[i - 1], D[i - 1], c[i], D[i])
  /\ \A i \in 1 .. Len(c) : FrameOK(c[i], D[i], T, P)

\* One call more.
Pushed(K, w, W, T, P, f, d) ==
  /\ Calls(w, W, T, P) /\ w # <<>> /\ Last(w) = f /\ Last(W) = d
  /\ LevelAt(w, W) = LevelOver(f, d) /\ w \in Seq(K)

LEMMA CallsPush ==
  ASSUME NEW K, NEW c \in Seq(K), NEW D, NEW T, NEW P, Calls(c, D, T, P),
         NEW f \in K, NEW d \in Marks, Above(c, D, f, d), FrameOK(f, d, T, P),
         NEW w, w = Append(c, f), NEW W, W = Append(D, d)
  PROVE  Pushed(K, w, W, T, P, f, d)
<1>1. PICK n \in Nat : n = Len(c)  OBVIOUS
<1>2. D \in Seq(Marks) /\ Len(D) = n  BY <1>1 DEF Calls
<1>3. w \in Seq(K) /\ Len(w) = n + 1 /\ w[n + 1] = f /\ \A i \in 1 .. n : w[i] = c[i]  BY <1>1
<1>4. W \in Seq(Marks) /\ Len(W) = n + 1 /\ W[n + 1] = d /\ \A i \in 1 .. n : W[i] = D[i]  BY <1>2
<1>5. w # <<>> /\ Last(w) = f  BY <1>3 DEF Last
<1>6. Last(W) = d  BY <1>4 DEF Last
<1>7. First(w[1], W[1])
  <2>1. CASE n = 0
    <3>0. Len(c) = 0  BY <1>1, <2>1
    <3>1. c = <<>>  BY <3>0
    <3> QED BY <1>3, <1>4, <2>1, <3>1 DEF Above
  <2>2. CASE n # 0
    <3>1. c # <<>> /\ w[1] = c[1] /\ W[1] = D[1]  BY <1>1, <1>3, <1>4, <2>2
    <3> QED BY <3>1 DEF Calls
  <2> QED BY <2>1, <2>2
<1>8. ASSUME NEW i \in 2 .. n + 1  PROVE Upon(w[i - 1], W[i - 1], w[i], W[i])
  <2>1. PICK h \in 1 .. n : h = i - 1  OBVIOUS
  <2>2. w[h] = c[h] /\ W[h] = D[h]  BY <1>3, <1>4
  <2>3. CASE i = n + 1
    <3>1. h = n /\ n # 0  BY <2>1, <2>3
    <3>2. c # <<>> /\ Last(c) = c[h] /\ Last(D) = D[h]  BY <1>1, <1>2, <3>1 DEF Last
    <3> QED BY <1>3, <1>4, <2>1, <2>2, <2>3, <3>2 DEF Above
  <2>4. CASE i # n + 1
    <3>1. i \in 2 .. n /\ i \in 1 .. n  BY <2>4
    <3>2. w[i] = c[i] /\ W[i] = D[i]  BY <1>3, <1>4, <3>1
    <3>3. Upon(c[i - 1], D[i - 1], c[i], D[i])  BY <1>1, <3>1 DEF Calls
    <3> QED BY <2>1, <2>2, <3>2, <3>3
  <2> QED BY <2>3, <2>4
<1>9. ASSUME NEW i \in 1 .. n + 1  PROVE FrameOK(w[i], W[i], T, P)
  <2>1. CASE i = n + 1  BY <1>3, <1>4, <2>1
  <2>2. CASE i # n + 1
    <3>1. i \in 1 .. n  BY <2>2
    <3> QED BY <1>1, <1>3, <1>4, <3>1 DEF Calls
  <2> QED BY <2>1, <2>2
<1>10. Calls(w, W, T, P)  BY <1>3, <1>4, <1>7, <1>8, <1>9 DEF Calls
<1>11. LevelAt(w, W) = LevelOver(f, d)  BY <1>5, <1>6 DEF LevelAt
<1> QED BY <1>3, <1>5, <1>6, <1>10, <1>11 DEF Pushed

LEMMA CallsPop ==
  ASSUME NEW K, NEW c \in Seq(K), NEW D, NEW T, NEW P, Calls(c, D, T, P), c # <<>>,
         NEW w, w = Front(c), NEW W, W = Front(D)
  PROVE  /\ Calls(w, W, T, P) /\ w \in Seq(K)
         /\ Last(c) \in K /\ Last(D) \in Marks /\ Above(w, W, Last(c), Last(D))
         /\ FrameOK(Last(c), Last(D), T, P) /\ Last(D).level = LevelAt(w, W)
         /\ c = Append(w, Last(c)) /\ D = Append(W, Last(D))
<1>1. PICK n \in Nat \ {0} : n = Len(c)  OBVIOUS
<1>2. D \in Seq(Marks) /\ Len(D) = n  BY <1>1 DEF Calls
<1>3. D # <<>>  BY <1>2
<1>4. /\ w \in Seq(K) /\ Len(w) = n - 1 /\ \A j \in 1 .. n - 1 : w[j] = c[j]
      /\ Last(c) = c[n] /\ Last(c) \in K /\ c = Append(w, Last(c))
  BY <1>1, FrontIs
<1>5. /\ W \in Seq(Marks) /\ Len(W) = n - 1 /\ \A j \in 1 .. n - 1 : W[j] = D[j]
      /\ Last(D) = D[n] /\ Last(D) \in Marks /\ D = Append(W, Last(D))
  <2>1. n = Len(D)  BY <1>2
  <2>2. D \in Seq(Marks)  BY <1>2
  <2>3. /\ W \in Seq(Marks) /\ Len(W) = Len(D) - 1 /\ \A j \in 1 .. Len(D) - 1 : W[j] = D[j]
        /\ Last(D) = D[Len(D)] /\ Last(D) \in Marks /\ D = Append(W, Last(D))
    BY <1>3, <2>2, FrontIs
  <2> QED BY <2>1, <2>3
<1>6. PICK q \in Nat : q = n - 1  OBVIOUS
<1>7. CASE q = 0
  <2>1. w = <<>> /\ W = <<>> /\ n = 1  BY <1>4, <1>5, <1>6, <1>7
  <2>2. First(Last(c), Last(D))  BY <1>4, <1>5, <2>1 DEF Calls
  <2>3. Last(D).level = LevelAt(w, W)  BY <2>1, <2>2 DEF First, LevelAt
  <2>4. FrameOK(Last(c), Last(D), T, P)  BY <1>1, <1>4, <1>5, <2>1 DEF Calls
  <2>5. Calls(w, W, T, P)
    <3>1. Len(w) = 0 /\ Len(W) = 0  BY <2>1
    <3> QED BY <1>5, <2>1, <3>1 DEF Calls
  <2>6. Above(w, W, Last(c), Last(D))  BY <2>1, <2>2 DEF Above
  <2> QED BY <1>4, <1>5, <2>3, <2>4, <2>5, <2>6
<1>8. CASE q # 0
  <2>1. q \in 1 .. n - 1 /\ Len(w) = q /\ Len(W) = q  BY <1>4, <1>5, <1>6, <1>8
  <2>2. w # <<>> /\ Last(w) = c[q] /\ Last(W) = D[q]  BY <1>4, <1>5, <2>1 DEF Last
  <2>3. Upon(c[n - 1], D[n - 1], c[n], D[n])
    <3>1. n \in 2 .. Len(c)  BY <1>1, <1>6, <1>8
    <3> QED BY <3>1 DEF Calls
  <2>4. Upon(Last(w), Last(W), Last(c), Last(D))  BY <1>4, <1>5, <1>6, <2>2, <2>3
  <2>5. Last(D).level = LevelAt(w, W)  BY <2>2, <2>4 DEF Upon, LevelAt
  <2>6. FrameOK(Last(c), Last(D), T, P)  BY <1>1, <1>4, <1>5 DEF Calls
  <2>7. First(w[1], W[1])
    <3>1. 1 \in 1 .. n - 1  BY <2>1
    <3>2. w[1] = c[1] /\ W[1] = D[1]  BY <1>4, <1>5, <3>1
    <3> QED BY <3>2 DEF Calls
  <2>8. ASSUME NEW i \in 2 .. q  PROVE Upon(w[i - 1], W[i - 1], w[i], W[i])
    <3>1. i \in 1 .. n - 1 /\ i - 1 \in 1 .. n - 1 /\ i \in 2 .. Len(c)  BY <1>1, <1>6
    <3>2. w[i] = c[i] /\ W[i] = D[i] /\ w[i - 1] = c[i - 1] /\ W[i - 1] = D[i - 1]
      BY <1>4, <1>5, <3>1
    <3> QED BY <3>1, <3>2 DEF Calls
  <2>9. ASSUME NEW i \in 1 .. q  PROVE FrameOK(w[i], W[i], T, P)
    <3>1. i \in 1 .. n - 1 /\ i \in 1 .. Len(c)  BY <1>1, <1>6
    <3>2. w[i] = c[i] /\ W[i] = D[i]  BY <1>4, <1>5, <3>1
    <3> QED BY <3>1, <3>2 DEF Calls
  <2>10. Calls(w, W, T, P)  BY <1>5, <2>1, <2>7, <2>8, <2>9 DEF Calls
  <2>11. Above(w, W, Last(c), Last(D))  BY <2>2, <2>4 DEF Above
  <2> QED BY <1>4, <1>5, <2>5, <2>6, <2>10, <2>11
<1> QED BY <1>7, <1>8

\* Going on, and passing lexemes, changes nothing for them.
LEMMA CallsGrow ==
  ASSUME NEW t, NEW c \in Seq(Frames(t)), NEW D, NEW T, NEW U, NEW P \in Nat, NEW Q \in Nat, P <= Q,
         Calls(c, D, T, P), \A o : Later(T, o) => Later(U, o)
  PROVE  Calls(c, D, U, Q)
<1>1. Len(c) \in Nat /\ D \in Seq(Marks) /\ Len(D) = Len(c)  BY DEF Calls
<1>2. ASSUME NEW i \in 1 .. Len(c)  PROVE FrameOK(c[i], D[i], U, Q)
  <2>1. PICK f \in Frames(t) : f = c[i]  BY <1>1
  <2>2. PICK d \in Marks : d = D[i]  BY <1>1
  <2>3. FrameOK(f, d, T, P)  BY <2>1, <2>2 DEF Calls
  <2>4. d.lit.origin <= Q
    <3>1. PICK o \in Nat : o = d.lit.origin  BY DEF Marks, Lits
    <3>2. o <= P  BY <2>3, <3>1 DEF FrameOK
    <3>3. o <= Q  BY <3>2
    <3> QED BY <3>1, <3>3
  <2>5. ASSUME f.kind = "heredoc"  PROVE UpTo(f.old.curlies, Q)
    <3>1. PICK k \in Seq(Literals(t)) : k = f.old.curlies  BY DEF Frames, AnyFrame, Lexemes
    <3>2. UpTo(k, P)  BY <2>3, <2>5, <3>1 DEF FrameOK
    <3>3. ASSUME NEW j \in 1 .. Len(k)  PROVE k[j].origin <= Q
      <4>0. k[j] \in Literals(t)  OBVIOUS
      <4>1. PICK o \in Nat : o = k[j].origin  BY <4>0 DEF Literals
      <4>2. o <= P  BY <3>2, <4>1 DEF UpTo
      <4>3. o <= Q  BY <4>2
      <4> QED BY <4>1, <4>3
    <3> QED BY <3>1, <3>3 DEF UpTo
  <2>6. Keeps(f.old, d.lit, T) => Keeps(f.old, d.lit, U)  BY DEF Keeps
  <2>7. FrameOK(f, d, U, Q)  BY <2>3, <2>4, <2>5, <2>6 DEF FrameOK
  <2> QED BY <2>1, <2>2, <2>7
<1> QED BY <1>1, <1>2 DEF Calls

-----------------------------------------------------------------------------
(* The inductive invariant: which literal is under way, with S what is     *)
(* open after the lexemes T, and D the marks of the calls c.               *)

Ends == LineEnds \union {"end"}

\* Where the lexer has come to: a lexeme that is read again is not yet gone past.
Reached(p, l, m) == IF m = "parser" /\ l.type \in Rereadable THEN l.start ELSE p

\* At the end of the file nothing is known of what is open.
Piled(t, r, S, e, k, lit) == r <= Len(t) => S \in Seq(Nat) /\ Stack(S, e, k, lit)

\* Lexemes are read for the file, or for a heredoc, which may have its last piece.
Ready(c) == c # <<>> => Last(c).kind = "heredoc"
Told(c) == c # <<>> /\ Last(c).last

\* The text of a heredoc is read at the level of its own.
Own(s, e) == s.heredoc => e.heredoc /\ s.origin > e.since
LastPieceOf(l, s) == s.heredoc /\ l.piece \in {"Plain", "Ending"}

WaitOK(t, p, l, c, T, S, D) ==
  /\ c # <<>> /\ Last(c).kind # "heredoc" /\ Keeps(l, Last(D).lit, T)
  /\ Piled(t, p, S, LevelAt(c, D), l.curlies, Last(D).lit)
TextOK(t, p, l, m, s, c, T, S, D) ==
  /\ Ready(c) /\ ~Told(c) /\ Keeps(l, Reading(s, m), T)
  /\ Own(s, LevelAt(c, D)) /\ s.origin <= p
  /\ Piled(t, p, S, LevelAt(c, D), l.curlies, Reading(s, m))
DispatchOK(t, p, l, c, S, D) ==
  /\ Ready(c) /\ l.piece = "none"
  /\ Told(c) => At(t, p) \in Ends
  /\ Piled(t, p, S, LevelAt(c, D), l.curlies, Between(Told(c)))
ParserOK(t, p, l, s, c, T, S, D) ==
  /\ Ready(c)
  /\ l.piece # "none" => /\ l.type = s.type \/ (l.type = "LINE" /\ Later(T, s.origin))
                         /\ Own(s, LevelAt(c, D))
  /\ Told(c) => l.type \in {"LINE", "END"} /\ l.piece = "none"
  /\ l.type = "END" => At(t, p) = "end"
  /\ LastPieceOf(l, s) => At(t, p) \in Ends
  /\ Piled(t, Reached(p, l, "parser"), After(S, l.type, l.piece, s.origin), LevelAt(c, D),
           l.curlies, Between(Told(c) \/ LastPieceOf(l, s)))
  /\ Reached(p, l, "parser") <= Len(t) /\ l.piece \in {"Continuing", "Ending"} =>
       S # <<>> /\ Last(S) = s.origin

Fits(t, p, l, m, s, c, T, S, D) ==
  /\ Calls(c, D, T, Reached(p, l, m)) /\ UpTo(l.curlies, Reached(p, l, m))
  /\ m \in {"comment", "return"} => WaitOK(t, p, l, c, T, S, D)
  /\ m \in TextModes => TextOK(t, p, l, m, s, c, T, S, D)
  /\ m = "dispatch" => DispatchOK(t, p, l, c, S, D)
  /\ m = "parser" => ParserOK(t, p, l, s, c, T, S, D)

Passed == tokens \in Seq(Tokens) /\ \E f : OpenTo(f, tokens)
Fit(D) == Fits(text, pos, lex, mode, str, calls, tokens, OpenAfter, D)
LitInv == Passed /\ \E D : Fit(D)

-----------------------------------------------------------------------------
(* Going on.                                                               *)

LEMMA UpToGrow ==
  ASSUME NEW t, NEW k \in Seq(Literals(t)), NEW P \in Nat, NEW Q \in Nat, P <= Q, UpTo(k, P)
  PROVE  UpTo(k, Q)
<1>1. ASSUME NEW j \in 1 .. Len(k)  PROVE k[j].origin <= Q
  <2>1. k[j] \in Literals(t)  OBVIOUS
  <2>2. PICK o \in Nat : o = k[j].origin  BY <2>1 DEF Literals
  <2>3. o <= P  BY <2>2 DEF UpTo
  <2>4. o <= Q  BY <2>3
  <2> QED BY <2>2, <2>4
<1> QED BY <1>1 DEF UpTo

LEMMA UpToMore ==
  ASSUME NEW t, NEW k \in Seq(Literals(t)), NEW P \in Nat, UpTo(k, P), NEW x \in Literals(t),
         x.origin <= P, NEW b, b = Append(k, x)
  PROVE  UpTo(b, P)
<1>1. ASSUME NEW j \in 1 .. Len(b)  PROVE b[j].origin <= P
  <2>1. CASE j \in 1 .. Len(k)
    <3>1. b[j] = k[j]  BY <2>1
    <3> QED BY <2>1, <3>1 DEF UpTo
  <2>2. CASE j = Len(k) + 1
    <3>1. b[j] = x  BY <2>2
    <3> QED BY <3>1
  <2> QED BY <2>1, <2>2
<1> QED BY <1>1 DEF UpTo

LEMMA UpToLess ==
  ASSUME NEW t, NEW k \in Seq(Literals(t)), NEW P, UpTo(k, P), k # <<>>, NEW b, b = Front(k)
  PROVE  UpTo(b, P) /\ Last(k).origin <= P
<1>1. /\ b \in Seq(Literals(t)) /\ Len(b) = Len(k) - 1 /\ Len(k) \in Nat \ {0}
      /\ \A j \in 1 .. Len(k) - 1 : b[j] = k[j]
      /\ Last(k) = k[Len(k)]
  BY FrontIs
<1>2. ASSUME NEW j \in 1 .. Len(b)  PROVE b[j].origin <= P
  <2>1. j \in 1 .. Len(k) - 1 /\ j \in 1 .. Len(k)  BY <1>1
  <2>2. b[j] = k[j]  BY <1>1, <2>1
  <2> QED BY <2>1, <2>2 DEF UpTo
<1>3. Len(k) \in 1 .. Len(k)  BY <1>1
<1> QED BY <1>1, <1>2, <1>3 DEF UpTo

LEMMA LevelKnown ==
  ASSUME NEW t, NEW c \in Seq(Frames(t)), NEW D, NEW T, NEW P, Calls(c, D, T, P)
  PROVE  LevelAt(c, D) \in Levels
<1>1. Ground \in Levels  BY DEF Ground, Levels
<1>2. CASE c = <<>>  BY <1>1, <1>2 DEF LevelAt
<1>3. CASE c # <<>>
  <2>1. Last(c) \in Frames(t) /\ Last(D) \in Marks  BY <1>3, CallsPop
  <2>2. PICK f \in Frames(t) : f = Last(c)  BY <2>1
  <2>3. PICK d \in Marks : d = Last(D)  BY <2>1
  <2>4. LevelAt(c, D) = LevelOver(f, d)  BY <1>3, <2>2, <2>3 DEF LevelAt
  <2>5. d.level \in Levels /\ d.open \in Seq(Nat) /\ d.lit.origin \in Nat  BY DEF Marks, Lits
  <2>6. Len(f.old.curlies) \in Nat
    <3>1. f.old.curlies \in Seq(Literals(t))  BY DEF Frames, AnyFrame, Lexemes
    <3> QED BY <3>1
  <2> QED BY <2>4, <2>5, <2>6 DEF LevelOver, Levels
<1> QED BY <1>2, <1>3

\* A lexeme that is no brace and no piece of a literal with groups opens and closes nothing.
LEMMA AfterSame ==
  ASSUME NEW S, NEW type, NEW piece, NEW o, type \notin {"CURLY_OPEN", "CURLY_CLOSE"},
         piece \in {"none", "Plain", "Continuing"}
  PROVE  After(S, type, piece, o) = S
BY DEF After

\* What is known where the lexer is.
LEMMA FitParts ==
  ASSUME IInv, NEW D, Fit(D), NEW R, R = Reached(pos, lex, mode)
  PROVE  /\ R \in Nat /\ R <= pos /\ pos \in Nat \ {0} /\ Len(text) \in Nat
         /\ calls \in Seq(Frames(text)) /\ Calls(calls, D, tokens, R)
         /\ lex.curlies \in Seq(Literals(text)) /\ UpTo(lex.curlies, R)
         /\ LevelAt(calls, D) \in Levels /\ lex \in Lexemes(text) /\ lex.start \in Nat
         /\ str \in Literals(text) /\ str.origin \in Nat /\ text \in Texts
         /\ mode # "parser" => R = pos
<1>1. /\ pos \in Nat \ {0} /\ lex \in Lexemes(text) /\ str \in Literals(text)
      /\ Waits(text, calls, lex.cur)
  BY InvParts
<1>2. lex.start \in Nat /\ lex.curlies \in Seq(Literals(text)) /\ str.origin \in Nat
  BY <1>1 DEF Lexemes, Literals
<1>3. Calls(calls, D, tokens, R) /\ UpTo(lex.curlies, R)  BY DEF Fit, Fits
<1>4. calls \in Seq(Frames(text))  BY <1>1 DEF Waits
<1>5. LevelAt(calls, D) \in Levels  BY <1>3, <1>4, LevelKnown
<1>6. R \in Nat /\ R <= pos
  <2>1. CASE mode = "parser" /\ lex.type \in Rereadable
    <3>1. lex.start < pos  BY <2>1, AgainAt
    <3>2. R = lex.start  BY <2>1 DEF Reached
    <3> QED BY <1>1, <1>2, <3>1, <3>2
  <2>2. CASE ~(mode = "parser" /\ lex.type \in Rereadable)
    <3>1. R = pos  BY <2>2 DEF Reached
    <3> QED BY <1>1, <3>1
  <2> QED BY <2>1, <2>2
<1>7. text \in Texts  BY InvParts DEF TypesOK
<1>8. mode # "parser" => R = pos  BY DEF Reached
<1> QED BY <1>1, <1>2, <1>3, <1>4, <1>5, <1>6, <1>7, <1>8, TextGiven

\* The next state fits if its parts do.
LEMMA FitNext ==
  ASSUME NEW D, LitInv, text' = text, tokens' = tokens,
         Fits(text, pos', lex', mode', str', calls', tokens, OpenAfter, D)
  PROVE  LitInv'
<1>1. OpenAfter' = OpenAfter  BY DEF OpenAfter
<1>2. Fits(text', pos', lex', mode', str', calls', tokens', OpenAfter', D)  BY <1>1
<1>3. Passed'  BY DEF LitInv, Passed
<1> QED BY <1>2, <1>3 DEF LitInv, Fit

\* Calls and groups as before, further on.
LEMMA GoneOn ==
  ASSUME IInv, NEW D, Fit(D), NEW R, R = Reached(pos, lex, mode), NEW Q \in Nat, R <= Q
  PROVE  Calls(calls, D, tokens, Q) /\ UpTo(lex.curlies, Q)
<1>1. /\ R \in Nat /\ calls \in Seq(Frames(text)) /\ Calls(calls, D, tokens, R)
      /\ lex.curlies \in Seq(Literals(text)) /\ UpTo(lex.curlies, R)
  BY FitParts
<1>2. UpTo(lex.curlies, Q)  BY <1>1, UpToGrow
<1>3. Calls(calls, D, tokens, Q)
  <2>1. \A o : Later(tokens, o) => Later(tokens, o)  OBVIOUS
  <2> QED BY <1>1, <2>1, CallsGrow
<1> QED BY <1>2, <1>3

-----------------------------------------------------------------------------
(* Next states, and what is known where.                                   *)

\* Where less of the file is left, no more is asked of what is open.
LEMMA PiledOn ==
  ASSUME NEW t, Len(t) \in Nat, NEW P \in Nat, NEW Q \in Nat, P <= Q, NEW S, NEW e, NEW k, NEW z,
         Piled(t, P, S, e, k, z)
  PROVE  Piled(t, Q, S, e, k, z)
<1>1. Q <= Len(t) => P <= Len(t)  OBVIOUS
<1> QED BY <1>1 DEF Piled

\* The parser is given a lexeme that is no brace and no piece of a literal with groups.
LEMMA GivenFits ==
  ASSUME LitInv, NEW c, NEW D, NEW p, NEW l, NEW s, NEW Q, Q = Reached(p, l, "parser"),
         Calls(c, D, tokens, Q), UpTo(l.curlies, Q), Ready(c),
         Piled(text, Q, OpenAfter, LevelAt(c, D), l.curlies, Between(Told(c))),
         l.type \notin {"CURLY_OPEN", "CURLY_CLOSE"},
         l.piece = "none" \/ (l.piece = "Plain" /\ l.type = s.type /\ s.heredoc = FALSE),
         Told(c) => l.type \in {"LINE", "END"} /\ l.piece = "none",
         l.type = "END" => At(text, p) = "end",
         text' = text, pos' = p, lex' = l, mode' = "parser", str' = s, calls' = c, tokens' = tokens
  PROVE  LitInv'
<1>1. l.piece \in {"none", "Plain", "Continuing"}  OBVIOUS
<1>2. After(OpenAfter, l.type, l.piece, s.origin) = OpenAfter  BY <1>1, AfterSame
<1>3. ~LastPieceOf(l, s)  BY DEF LastPieceOf
<1>4. Between(Told(c) \/ LastPieceOf(l, s)) = Between(Told(c))
  <2>1. (Told(c) \/ LastPieceOf(l, s)) = Told(c)  BY <1>3 DEF Told
  <2> QED BY <2>1
<1>5. l.piece \notin {"Continuing", "Ending"}  OBVIOUS
<1>6. l.piece # "none" => /\ l.type = s.type \/ (l.type = "LINE" /\ Later(tokens, s.origin))
                          /\ Own(s, LevelAt(c, D))
  BY DEF Own
<1>7. ParserOK(text, p, l, s, c, tokens, OpenAfter, D)
  BY <1>2, <1>3, <1>4, <1>5, <1>6 DEF ParserOK
<1>8. Fits(text, p, l, "parser", s, c, tokens, OpenAfter, D)  BY <1>7 DEF Fits, TextModes
<1> QED BY <1>8, FitNext

\* A lexeme is looked for, again or on from here.
LEMMA SoughtFits ==
  ASSUME LitInv, NEW c, NEW D, NEW p, NEW l, NEW s, Calls(c, D, tokens, p), UpTo(l.curlies, p),
         Ready(c), l.piece = "none", ~Told(c),
         Piled(text, p, OpenAfter, LevelAt(c, D), l.curlies, Between(FALSE)),
         text' = text, pos' = p, lex' = l, mode' = "dispatch", str' = s, calls' = c, tokens' = tokens
  PROVE  LitInv'
<1>1. Between(Told(c)) = Between(FALSE)
  <2>1. Told(c) = FALSE  BY DEF Told
  <2> QED BY <2>1
<1>2. DispatchOK(text, p, l, c, OpenAfter, D)  BY <1>1 DEF DispatchOK
<1>3. Fits(text, p, l, "dispatch", s, c, tokens, OpenAfter, D)
  BY <1>2 DEF Fits, TextModes, Reached
<1> QED BY <1>3, FitNext

\* The text of a literal is read.
LEMMA ReadFits ==
  ASSUME LitInv, NEW c, NEW D, NEW p, NEW l, NEW m \in TextModes, NEW s,
         Calls(c, D, tokens, p), UpTo(l.curlies, p), Ready(c), ~Told(c),
         Keeps(l, Reading(s, m), tokens), Own(s, LevelAt(c, D)), s.origin <= p,
         Piled(text, p, OpenAfter, LevelAt(c, D), l.curlies, Reading(s, m)),
         text' = text, pos' = p, lex' = l, mode' = m, str' = s, calls' = c, tokens' = tokens
  PROVE  LitInv'
<1>1. TextOK(text, p, l, m, s, c, tokens, OpenAfter, D)  BY DEF TextOK
<1>2. m \notin {"comment", "return", "dispatch", "parser"}  BY DEF TextModes
<1>3. Fits(text, p, l, m, s, c, tokens, OpenAfter, D)  BY <1>1, <1>2 DEF Fits, Reached
<1> QED BY <1>3, FitNext

\* A call waits.
LEMMA WaitFits ==
  ASSUME LitInv, NEW c, NEW D, NEW p, NEW l, NEW m \in {"comment", "return"}, NEW s,
         Calls(c, D, tokens, p), UpTo(l.curlies, p), c # <<>>, Last(c).kind # "heredoc",
         Keeps(l, Last(D).lit, tokens),
         Piled(text, p, OpenAfter, LevelAt(c, D), l.curlies, Last(D).lit),
         text' = text, pos' = p, lex' = l, mode' = m, str' = s, calls' = c, tokens' = tokens
  PROVE  LitInv'
<1>1. WaitOK(text, p, l, c, tokens, OpenAfter, D)  BY DEF WaitOK
<1>2. m \notin TextModes \cup {"dispatch", "parser"}  BY DEF TextModes
<1>3. Fits(text, p, l, m, s, c, tokens, OpenAfter, D)  BY <1>1, <1>2 DEF Fits, Reached
<1> QED BY <1>3, FitNext

\* A literal of no groups begins where no other was under way.
LEMMA BeginFits ==
  ASSUME IInv, LitInv, NEW D, Fit(D), NEW R, R = Reached(pos, lex, mode), Ready(calls), ~Told(calls),
         Piled(text, R, OpenAfter, LevelAt(calls, D), lex.curlies, Between(FALSE)),
         NEW p \in Nat, R <= p, NEW l, l.curlies = lex.curlies, l.piece = "Plain",
         NEW m \in TextModes, NEW s, l.type = s.type, s.continuing = FALSE, s.heredoc = FALSE,
         s.origin <= p,
         text' = text, pos' = p, lex' = l, mode' = m, str' = s, calls' = calls, tokens' = tokens
  PROVE  LitInv'
<1>1. R \in Nat /\ Len(text) \in Nat  BY FitParts
<1>2. Calls(calls, D, tokens, p) /\ UpTo(l.curlies, p)  BY GoneOn
<1>3. PICK z : z = Reading(s, m)  OBVIOUS
<1>4. /\ z.piece = "Plain" /\ z.type = s.type /\ z.own = FALSE /\ z.any = (m = "words")
  BY <1>3 DEF Reading
<1>5. Keeps(l, z, tokens)  BY <1>4 DEF Keeps
<1>6. Piled(text, p, OpenAfter, LevelAt(calls, D), lex.curlies, Between(FALSE))
  BY <1>1, PiledOn
<1>7. Between(FALSE).own = FALSE /\ Between(FALSE).piece = "none"  BY DEF Between
<1>8. Piled(text, p, OpenAfter, LevelAt(calls, D), l.curlies, z)
  BY <1>4, <1>6, <1>7, StackSame DEF Piled
<1>9. Own(s, LevelAt(calls, D))  BY DEF Own
<1> QED BY <1>2, <1>3, <1>5, <1>8, <1>9, ReadFits

\* What is known where a handler is called.
LEMMA DispatchFit ==
  ASSUME IInv, NEW D, Fit(D), mode = "dispatch"
  PROVE  /\ Ready(calls) /\ lex.piece = "none" /\ lex.start = pos /\ Reached(pos, lex, mode) = pos
         /\ Told(calls) => At(text, pos) \in Ends
         /\ Piled(text, pos, OpenAfter, LevelAt(calls, D), lex.curlies, Between(Told(calls)))
         /\ Told(calls) \in BOOLEAN
<1>1. DispatchOK(text, pos, lex, calls, OpenAfter, D)  BY DEF Fit, Fits
<1>2. lex.start = pos  BY DEF IInv, Good
<1>3. Reached(pos, lex, mode) = pos  BY DEF Reached
<1>4. Told(calls) \in BOOLEAN
  <2>1. CASE calls = <<>>  BY <2>1 DEF Told
  <2>2. CASE calls # <<>>
    <3>1. Last(calls) \in Frames(text)  BY <2>2, InvParts, PopCall
    <3>2. Last(calls).last \in BOOLEAN  BY <3>1 DEF Frames, AnyFrame
    <3> QED BY <3>2 DEF Told
  <2> QED BY <2>1, <2>2
<1> QED BY <1>1, <1>2, <1>3, <1>4 DEF DispatchOK

\* What is known of a lexeme the parser has read again: it is no piece of a literal.
LEMMA AgainFit ==
  ASSUME IInv, NEW D, Fit(D), mode = "parser", lex.type \in Rereadable \cup {"SIGN"}
  PROVE  /\ Ready(calls) /\ lex.piece = "none" /\ ~Told(calls)
         /\ Piled(text, Reached(pos, lex, mode), OpenAfter, LevelAt(calls, D), lex.curlies,
                  Between(FALSE))
<1>1. ParserOK(text, pos, lex, str, calls, tokens, OpenAfter, D)  BY DEF Fit, Fits
<1>2. str.type \in LiteralTypes
  <2>1. str \in Literals(text)  BY InvParts
  <2> QED BY <2>1 DEF Literals
<1>3. lex.type \notin LiteralTypes \cup {"LINE", "END", "CURLY_OPEN", "CURLY_CLOSE"}
  BY DEF Rereadable, LiteralTypes
<1>4. lex.piece = "none" /\ ~Told(calls)  BY <1>1, <1>2, <1>3 DEF ParserOK
<1>5. ~LastPieceOf(lex, str)  BY <1>4 DEF LastPieceOf
<1>6. Between(Told(calls) \/ LastPieceOf(lex, str)) = Between(FALSE)
  <2>1. (Told(calls) \/ LastPieceOf(lex, str)) = FALSE  BY <1>4, <1>5
  <2> QED BY <2>1
<1>7. After(OpenAfter, lex.type, lex.piece, str.origin) = OpenAfter
  BY <1>3, <1>4, AfterSame
<1>8. Piled(text, Reached(pos, lex, "parser"), OpenAfter, LevelAt(calls, D), lex.curlies,
            Between(FALSE))
  BY <1>1, <1>6, <1>7 DEF ParserOK
<1> QED BY <1>1, <1>4, <1>8 DEF ParserOK

-----------------------------------------------------------------------------
(* Which literal goes on: the jump table.                                  *)

\* Between lexemes, where the character ends no line and not the file.
LEMMA DispatchOn ==
  ASSUME IInv, NEW D, Fit(D), mode = "dispatch", At(text, pos) \notin Ends, NEW Q \in Nat, pos <= Q
  PROVE  /\ Calls(calls, D, tokens, Q) /\ UpTo(lex.curlies, Q) /\ Ready(calls)
         /\ ~Told(calls) /\ lex.piece = "none" /\ lex.start = pos
         /\ Piled(text, Q, OpenAfter, LevelAt(calls, D), lex.curlies, Between(FALSE))
<1>1. /\ Ready(calls) /\ lex.piece = "none" /\ lex.start = pos /\ Reached(pos, lex, mode) = pos
      /\ Told(calls) => At(text, pos) \in Ends
      /\ Piled(text, pos, OpenAfter, LevelAt(calls, D), lex.curlies, Between(Told(calls)))
      /\ Told(calls) \in BOOLEAN
  BY DispatchFit
<1>2. Told(calls) = FALSE  BY <1>1
<1>3. Piled(text, pos, OpenAfter, LevelAt(calls, D), lex.curlies, Between(FALSE))
  BY <1>1, <1>2
<1>4. pos \in Nat /\ Len(text) \in Nat  BY FitParts
<1>5. Piled(text, Q, OpenAfter, LevelAt(calls, D), lex.curlies, Between(FALSE))
  BY <1>3, <1>4, PiledOn
<1>6. Calls(calls, D, tokens, Q) /\ UpTo(lex.curlies, Q)  BY <1>1, GoneOn
<1> QED BY <1>1, <1>2, <1>5, <1>6

LEMMA RestartFits ==
  ASSUME IInv, LitInv, mode = "dispatch", At(text, pos) \notin Ends, NEW p \in Nat, pos <= p,
         NEW ws, Restart(p, ws)
  PROVE  LitInv'
<1>1. PICK D : Fit(D)  BY DEF LitInv
<1>2. /\ Calls(calls, D, tokens, p) /\ UpTo(lex.curlies, p) /\ Ready(calls)
      /\ ~Told(calls) /\ lex.piece = "none"
      /\ Piled(text, p, OpenAfter, LevelAt(calls, D), lex.curlies, Between(FALSE))
  BY <1>1, DispatchOn
<1>3. PICK l : l = Restep(lex, p, ws)  OBVIOUS
<1>4. l.curlies = lex.curlies /\ l.piece = "none"
  <2>1. lex \in Lexemes(text)  BY InvParts
  <2> QED BY <1>3, <2>1 DEF Restep, Lexemes
<1>5. /\ text' = text /\ pos' = p /\ lex' = l /\ mode' = "dispatch" /\ str' = str
      /\ calls' = calls /\ tokens' = tokens
  BY <1>3 DEF Restart
<1> QED BY <1>2, <1>4, <1>5, SoughtFits

LEMMA SkippingFits ==
  ASSUME IInv, LitInv, Spaces \/ Comment \/ UnknownCharacters
  PROVE  LitInv'
<1>1. IsText(text) /\ text \in Seq(STRING) /\ Len(text) \in Nat  BY TextGiven
<1>2. pos \in Nat \ {0}  BY InvParts
<1>3. CASE Spaces
  <2>1. Dispatch(White) /\ Restart(Skip(pos, White), TRUE)  BY <1>3 DEF Spaces
  <2>2. mode = "dispatch" /\ At(text, pos) \in White /\ pos \in 1 .. Len(text)
    <3>1. "end" \notin White  BY DEF White
    <3> QED BY <2>1, <3>1, DispatchedAt
  <2>3. "end" \notin White /\ At(text, pos) \notin Ends  BY <2>2 DEF White, Ends, LineEnds
  <2>4. PICK q : q = Skip(pos, White)  OBVIOUS
  <2>5. q \in pos .. Len(text) + 1
    <3>1. pos \in 1 .. Len(text) + 1  BY <2>2
    <3> QED BY <1>1, <2>3, <2>4, <3>1, SkipStops
  <2>6. q \in Nat /\ pos <= q  BY <1>2, <2>5
  <2> QED BY <2>1, <2>2, <2>3, <2>4, <2>6, RestartFits
<1>4. CASE Comment
  <2> DEFINE S == {text[i] : i \in 1 .. Len(text)} \ (LineEnds \union {"nul"})
  <2>1. Dispatch({"#"}) /\ Restart(Skip(pos, S), FALSE)  BY <1>4 DEF Comment
  <2>2. mode = "dispatch" /\ At(text, pos) = "#" /\ pos \in 1 .. Len(text)
    BY <2>1, DispatchedAt
  <2>3. "end" \notin S /\ At(text, pos) \notin Ends
    <3>1. \A i \in 1 .. Len(text) : text[i] # "end"  BY <1>1 DEF IsText
    <3> QED BY <2>2, <3>1 DEF Ends, LineEnds
  <2> HIDE DEF S
  <2>4. PICK q : q = Skip(pos, S)  OBVIOUS
  <2>5. q \in pos .. Len(text) + 1
    <3>1. pos \in 1 .. Len(text) + 1  BY <2>2
    <3> QED BY <1>1, <2>3, <2>4, <3>1, SkipStops
  <2>6. q \in Nat /\ pos <= q  BY <1>2, <2>5
  <2> QED BY <2>1, <2>2, <2>3, <2>4, <2>6, RestartFits
<1>5. CASE UnknownCharacters
  <2>1. Restart(Skip(pos + 1, Unknown), FALSE)  BY <1>5 DEF UnknownCharacters
  <2>2. Dispatch(Unknown \union {"nul"}) \/ Dispatch({"\\"})  BY <1>5 DEF UnknownCharacters
  <2>3. Dispatch(Unknown \union {"nul", "\\"})  BY <2>2 DEF Dispatch
  <2>4. mode = "dispatch" /\ At(text, pos) \in Unknown \union {"nul", "\\"} /\ pos \in 1 .. Len(text)
    BY <2>3, DispatchedAt DEF Unknown
  <2>5. "end" \notin Unknown /\ At(text, pos) \notin Ends  BY <2>4 DEF Unknown, Ends, LineEnds
  <2>6. PICK p : p = pos + 1  OBVIOUS
  <2>7. PICK q : q = Skip(p, Unknown)  OBVIOUS
  <2>8. p \in 1 .. Len(text) + 1 /\ pos <= p /\ p \in Nat  BY <1>2, <2>4, <2>6
  <2>9. q \in p .. Len(text) + 1  BY <1>1, <2>5, <2>7, <2>8, SkipStops
  <2>10. q \in Nat /\ pos <= q  BY <1>2, <2>8, <2>9
  <2> QED BY <2>1, <2>4, <2>5, <2>6, <2>7, <2>10, RestartFits
<1> QED BY <1>3, <1>4, <1>5

\* A lexeme that is no literal is given to the parser.
LEMMA LexemeFits ==
  ASSUME IInv, LitInv, mode = "dispatch", NEW type, type \in Types \ {"CURLY_OPEN", "CURLY_CLOSE"},
         NEW p \in Nat, pos <= p,
         IF type = "END" THEN At(text, p) = "end" ELSE At(text, pos) \notin Ends,
         Finish(Lexeme(type, p), p)
  PROVE  LitInv'
<1>1. PICK D : Fit(D)  BY DEF LitInv
<1>2. /\ Ready(calls) /\ lex.start = pos /\ Reached(pos, lex, mode) = pos
      /\ Told(calls) => At(text, pos) \in Ends
      /\ Piled(text, pos, OpenAfter, LevelAt(calls, D), lex.curlies, Between(Told(calls)))
  BY <1>1, DispatchFit
<1>3. pos \in Nat /\ Len(text) \in Nat  BY <1>1, FitParts
<1>4. PICK l : l = Lexeme(type, p)  OBVIOUS
<1>5. l.type = type /\ l.start = pos /\ l.curlies = lex.curlies /\ l.piece = "none"
  <2>1. lex \in Lexemes(text)  BY InvParts
  <2> QED BY <1>2, <1>4, <2>1 DEF Lexeme, Lexemes
<1>6. PICK Q : Q = Reached(p, l, "parser")  OBVIOUS
<1>7. Q \in Nat /\ pos <= Q  BY <1>3, <1>5, <1>6 DEF Reached
<1>8. Calls(calls, D, tokens, Q) /\ UpTo(lex.curlies, Q)  BY <1>1, <1>2, <1>7, GoneOn
<1>9. Piled(text, Q, OpenAfter, LevelAt(calls, D), l.curlies, Between(Told(calls)))
  BY <1>2, <1>3, <1>5, <1>7, PiledOn
<1>10. Told(calls) => l.type \in {"LINE", "END"} /\ l.piece = "none"  BY <1>2, <1>5
<1>11. /\ text' = text /\ pos' = p /\ lex' = l /\ mode' = "parser" /\ str' = str
       /\ calls' = calls /\ tokens' = tokens
  BY <1>4 DEF Finish
<1>12. l.type \notin {"CURLY_OPEN", "CURLY_CLOSE"} /\ (l.type = "END" => At(text, p) = "end")
  BY <1>5
<1> QED BY <1>2, <1>5, <1>6, <1>8, <1>9, <1>10, <1>11, <1>12, GivenFits

LEMMA NameFits ==
  ASSUME IInv, LitInv, EndOfFile \/ Name \/ NumberLexeme \/ Operator \/ Variable \/ Backtick
  PROVE  LitInv'
<1>1. IsText(text) /\ text \in Seq(STRING) /\ Len(text) \in Nat  BY TextGiven
<1>2. pos \in Nat \ {0}  BY InvParts
<1>3. ASSUME NEW S, S \cap Ends = {}, Dispatch(S)
      PROVE  mode = "dispatch" /\ At(text, pos) \notin Ends /\ pos \in 1 .. Len(text)
  <2>1. "end" \notin S  BY <1>3 DEF Ends
  <2> QED BY <1>3, <2>1, DispatchedAt
<1>4. ASSUME NEW q, Passes(text, pos, q)  PROVE q \in Nat /\ pos <= q
  BY <1>1, <1>2, <1>4 DEF Passes
<1>5. CASE EndOfFile
  <2>1. Dispatch({"end"}) /\ Finish(Lexeme("END", pos), pos)  BY <1>5 DEF EndOfFile
  <2>2. mode = "dispatch" /\ At(text, pos) = "end"  BY <2>1, DispatchedAt
  <2>3. "END" \in Types \ {"CURLY_OPEN", "CURLY_CLOSE"}  BY DEF Types
  <2> QED BY <1>2, <2>1, <2>2, <2>3, LexemeFits
<1>6. CASE Name
  <2>1. PICK q : q = Skip(pos, Ident)  OBVIOUS
  <2>2. PICK p : p = IF Char(q) \in {"?", "!"} THEN q + 1 ELSE q  OBVIOUS
  <2>3. Dispatch(StartIdent) /\ Finish(Lexeme("IDENT", p), p)  BY <1>6, <2>1, <2>2 DEF Name
  <2>4. StartIdent \cap Ends = {}  BY DEF StartIdent, Letters, Ends, LineEnds
  <2>5. mode = "dispatch" /\ At(text, pos) \notin Ends /\ pos \in 1 .. Len(text)
    BY <1>3, <2>3, <2>4
  <2>6. "end" \notin Ident  BY DEF Ident, StartIdent, Letters, Digits
  <2>7. pos \in 1 .. Len(text) + 1  BY <2>5
  <2>8. q \in pos .. Len(text) + 1  BY <1>1, <2>1, <2>6, <2>7, SkipStops
  <2>9. p \in Nat /\ pos <= p  BY <1>2, <2>2, <2>8
  <2>10. "IDENT" \in Types \ {"CURLY_OPEN", "CURLY_CLOSE"}  BY DEF Types
  <2> QED BY <2>3, <2>5, <2>9, <2>10, LexemeFits
<1>7. CASE NumberLexeme
  <2>1. PICK p : p = CASE Char(pos) = "0" -> AfterZero(pos + 1)
                       [] Char(pos) = "." -> Exponent(SkipNumbers(pos + 1, Digits))
                       [] OTHER -> Decimal(pos)
    OBVIOUS
  <2>2. Finish(Lexeme("NUMBER", p), p) /\ (Dispatch(Digits) \/ Dispatch({"."}))
    BY <1>7, <2>1 DEF NumberLexeme
  <2>3. Digits \cap Ends = {} /\ {"."} \cap Ends = {}  BY DEF Digits, Ends, LineEnds
  <2>4. mode = "dispatch" /\ At(text, pos) \notin Ends /\ pos \in 1 .. Len(text)
    BY <1>3, <2>2, <2>3
  <2>5. p \in Nat /\ pos <= p
    <3>1. PICK r : r = pos + 1  OBVIOUS
    <3>2. r \in 1 .. Len(text) + 1 /\ pos \in 1 .. Len(text) + 1  BY <1>2, <2>4, <3>1
    <3>3. CASE Char(pos) = "0"
      <4>1. p = AfterZero(r)  BY <2>1, <3>1, <3>3
      <4>2. Passes(text, r, p)  BY <1>1, <3>2, <4>1, AfterZeroPasses
      <4> QED BY <1>2, <3>1, <3>2, <4>2 DEF Passes
    <3>4. CASE Char(pos) = "."
      <4>1. p = Exponent(SkipNumbers(pos + 1, Digits))  BY <2>1, <3>4
      <4>2. Passes(text, pos, p)  BY <1>1, <3>2, <3>4, <4>1, CharAt, FractionPasses
      <4> QED BY <1>4, <4>2
    <3>5. CASE Char(pos) \notin {"0", "."}
      <4>1. p = Decimal(pos)  BY <2>1, <3>5
      <4>2. Passes(text, pos, p)  BY <1>1, <3>2, <4>1, DecimalPasses
      <4> QED BY <1>4, <4>2
    <3> QED BY <3>3, <3>4, <3>5
  <2>6. "NUMBER" \in Types \ {"CURLY_OPEN", "CURLY_CLOSE"}  BY DEF Types
  <2> QED BY <2>2, <2>4, <2>5, <2>6, LexemeFits
<1>8. CASE Operator
  <2>1. PICK s : s = OperatorAt(pos)  OBVIOUS
  <2>2. PICK p : p = pos + Len(s)  OBVIOUS
  <2>3. Dispatch({r[1] : r \in Operators}) /\ Finish(Lexeme(OperatorType(s), p), p)
    BY <1>8, <2>1, <2>2 DEF Operator
  <2>4. {r[1] : r \in Operators} \cap Ends = {}
    <3>1. ASSUME NEW r \in Operators PROVE r[1] \notin Ends
      <4>1. Len(r) \in 1 .. 3  BY OperatorsShort
      <4>2. 1 \in 1 .. Len(r)  BY <4>1
      <4>3. \A i \in 1 .. Len(r) : r[i] \notin LineEnds \cup {"end"}  BY OperatorsShort
      <4> QED BY <4>2, <4>3 DEF Ends
    <3> QED BY <3>1
  <2>5. mode = "dispatch" /\ At(text, pos) \notin Ends /\ pos \in 1 .. Len(text)
    BY <1>3, <2>3, <2>4
  <2>6. s \in Operators /\ Spelled(pos, s)
    BY <1>1, <2>1, <2>3, <2>5, OperatorThere DEF Dispatch
  <2>7. p \in Nat /\ pos <= p
    <3>1. Passes(text, pos, p)  BY <1>1, <2>2, <2>5, <2>6, OperatorPasses
    <3> QED BY <1>4, <3>1
  <2>8. OperatorType(s) \in Types \ {"CURLY_OPEN", "CURLY_CLOSE", "END"}
    <3>1. OperatorType(s) \notin {"CURLY_OPEN", "CURLY_CLOSE", "END"}  BY DEF OperatorType
    <3> QED BY <3>1, OperatorTypeIs
  <2> QED BY <2>3, <2>5, <2>7, <2>8, LexemeFits
<1>9. CASE Variable
  <2>1. PICK p : p = VariableEnd(pos)  OBVIOUS
  <2>2. Dispatch({"@", "$"}) /\ Finish(Lexeme("VARIABLE", p), p)  BY <1>9, <2>1 DEF Variable
  <2>3. {"@", "$"} \cap Ends = {}  BY DEF Ends, LineEnds
  <2>4. mode = "dispatch" /\ At(text, pos) \notin Ends /\ pos \in 1 .. Len(text)
    BY <1>3, <2>2, <2>3
  <2>5. p \in Nat /\ pos <= p
    <3>1. At(text, pos) \in {"@", "$"}  BY <2>2, DispatchedAt
    <3>2. pos \in 1 .. Len(text) + 1  BY <2>4
    <3>3. Passes(text, pos, p)  BY <1>1, <2>1, <3>1, <3>2, VariablePasses
    <3> QED BY <1>4, <3>3
  <2>6. "VARIABLE" \in Types \ {"CURLY_OPEN", "CURLY_CLOSE"}  BY DEF Types
  <2> QED BY <2>2, <2>4, <2>5, <2>6, LexemeFits
<1>10. CASE Backtick
  <2>1. PICK p : p = pos + 1  OBVIOUS
  <2>2. Dispatch({"bq"}) /\ Finish(Lexeme("BACKTICK", p), p)  BY <1>10, <2>1 DEF Backtick
  <2>3. {"bq"} \cap Ends = {}  BY DEF Ends, LineEnds
  <2>4. mode = "dispatch" /\ At(text, pos) \notin Ends  BY <1>3, <2>2, <2>3
  <2>5. p \in Nat /\ pos <= p  BY <1>2, <2>1
  <2>6. "BACKTICK" \in Types \ {"CURLY_OPEN", "CURLY_CLOSE"}  BY DEF Types
  <2> QED BY <2>2, <2>4, <2>5, <2>6, LexemeFits
<1> QED BY <1>5, <1>6, <1>7, <1>8, <1>9, <1>10

LEMMA QuotesFit ==
  ASSUME IInv, LitInv, DoubleQuoted \/ Command \/ SingleQuoted
  PROVE  LitInv'
<1>1. PICK D : Fit(D)  BY DEF LitInv
<1>2. PICK p : p = pos + 1  OBVIOUS
<1>3. pos \in Nat /\ p \in Nat /\ pos <= p  BY <1>1, <1>2, FitParts
<1>4. ASSUME NEW c, NEW type, Dispatch({c}), c \notin Ends, NEW m \in TextModes,
             NEW s, s = Literal(type, c, c, lex.start), NEW l,
             l = [lex EXCEPT !.type = s.type, !.piece = "Plain"],
             text' = text, pos' = p, lex' = l, mode' = m, str' = s, calls' = calls,
             tokens' = tokens
      PROVE  LitInv'
  <2>1. mode = "dispatch" /\ At(text, pos) \notin Ends
    <3>1. Dispatch({c}) => mode = "dispatch" /\ At(text, pos) \in {c}  BY CharAt DEF Dispatch
    <3> QED BY <1>4, <3>1
  <2>8. pos <= pos  BY <1>3
  <2>2. /\ Ready(calls) /\ ~Told(calls) /\ lex.start = pos
        /\ Piled(text, pos, OpenAfter, LevelAt(calls, D), lex.curlies, Between(FALSE))
    BY <1>1, <1>3, <2>1, <2>8, DispatchOn
  <2>3. Reached(pos, lex, mode) = pos  BY <2>1 DEF Reached
  <2>4. lex \in Lexemes(text)  BY InvParts
  <2>5. l.curlies = lex.curlies /\ l.piece = "Plain" /\ l.type = s.type
    BY <1>4, <2>4 DEF Lexemes
  <2>6. s.continuing = FALSE /\ s.heredoc = FALSE /\ s.origin = pos
    BY <1>4, <2>2 DEF Literal
  <2>7. s.origin <= p  BY <1>3, <2>6
  <2> QED BY <1>1, <1>3, <1>4, <2>2, <2>3, <2>5, <2>6, <2>7, BeginFits
<1>5. "interpolate" \in TextModes /\ "simple" \in TextModes  BY DEF TextModes
<1>6. {"dq", "bq", "'"} \cap Ends = {}  BY DEF Ends, LineEnds
<1>7. CASE DoubleQuoted
  <2>1. PICK s : s = Literal("STRING", "dq", "dq", lex.start)  OBVIOUS
  <2>2. s.continuing = FALSE  BY <2>1 DEF Literal
  <2>3. Dispatch({"dq"}) /\ Interpolate(lex, p, s)  BY <1>2, <1>7, <2>1 DEF DoubleQuoted
  <2>4. PICK l : l = [lex EXCEPT !.type = s.type, !.piece = "Plain"]  OBVIOUS
  <2>5. /\ text' = text /\ pos' = p /\ lex' = l /\ mode' = "interpolate" /\ str' = s
        /\ calls' = calls /\ tokens' = tokens
    BY <2>2, <2>3, <2>4 DEF Interpolate
  <2> QED BY <1>4, <1>5, <1>6, <2>1, <2>3, <2>4, <2>5
<1>8. CASE Command
  <2>1. PICK s : s = Literal("COMMAND", "bq", "bq", lex.start)  OBVIOUS
  <2>2. s.continuing = FALSE  BY <2>1 DEF Literal
  <2>3. Dispatch({"bq"}) /\ Interpolate(lex, p, s)  BY <1>2, <1>8, <2>1 DEF Command
  <2>4. PICK l : l = [lex EXCEPT !.type = s.type, !.piece = "Plain"]  OBVIOUS
  <2>5. /\ text' = text /\ pos' = p /\ lex' = l /\ mode' = "interpolate" /\ str' = s
        /\ calls' = calls /\ tokens' = tokens
    BY <2>2, <2>3, <2>4 DEF Interpolate
  <2> QED BY <1>4, <1>5, <1>6, <2>1, <2>3, <2>4, <2>5
<1>9. CASE SingleQuoted
  <2>1. PICK s : s = Literal("STRING", "'", "'", lex.start)  OBVIOUS
  <2>3. Dispatch({"'"}) /\ Simple(p, "simple", s)  BY <1>2, <1>9, <2>1 DEF SingleQuoted
  <2>4. PICK l : l = [lex EXCEPT !.type = s.type, !.piece = "Plain"]  OBVIOUS
  <2>5. /\ text' = text /\ pos' = p /\ lex' = l /\ mode' = "simple" /\ str' = s
        /\ calls' = calls /\ tokens' = tokens
    BY <2>3, <2>4 DEF Simple
  <2> QED BY <1>4, <1>5, <1>6, <2>1, <2>3, <2>4, <2>5
<1> QED BY <1>7, <1>8, <1>9

LEMMA NullIs ==
  ASSUME NEW t
  PROVE  Null \in Literals(t) /\ Null.origin = 0 /\ Null.heredoc = FALSE
<1>1. "end" \in Delimiters(t) /\ "NONE" \in LiteralTypes
  BY DEF Delimiters, LiteralTypes, LineEnds
<1> QED BY <1>1 DEF Null, NoLiteral, Literal, Literals

\* The parser is given a brace.
LEMMA BraceGiven ==
  ASSUME LitInv, NEW D, NEW p, NEW l, NEW s, Calls(calls, D, tokens, p), UpTo(l.curlies, p), Ready(calls),
         ~Told(calls), l.type \in {"CURLY_OPEN", "CURLY_CLOSE"}, l.piece = "none",
         Piled(text, p, After(OpenAfter, l.type, "none", s.origin), LevelAt(calls, D), l.curlies,
               Between(FALSE)),
         text' = text, pos' = p, lex' = l, mode' = "parser", str' = s, calls' = calls,
         tokens' = tokens
  PROVE  LitInv'
<1>1. Reached(p, l, "parser") = p  BY DEF Reached, Rereadable
<1>2. ~LastPieceOf(l, s)  BY DEF LastPieceOf
<1>3. Between(Told(calls) \/ LastPieceOf(l, s)) = Between(FALSE)
  <2>1. (Told(calls) \/ LastPieceOf(l, s)) = FALSE  BY <1>2
  <2> QED BY <2>1
<1>4. ParserOK(text, p, l, s, calls, tokens, OpenAfter, D)
  BY <1>1, <1>2, <1>3 DEF ParserOK
<1>5. Fits(text, p, l, "parser", s, calls, tokens, OpenAfter, D)
  BY <1>1, <1>4 DEF Fits, TextModes
<1> QED BY <1>5, FitNext

LEMMA OpenFits ==
  ASSUME IInv, LitInv, CurlyOpen
  PROVE  LitInv'
<1>1. PICK D : Fit(D)  BY DEF LitInv
<1>2. PICK p : p = pos + 1  OBVIOUS
<1>3. /\ pos \in Nat /\ p \in Nat /\ pos <= p /\ Len(text) \in Nat
      /\ lex.curlies \in Seq(Literals(text)) /\ LevelAt(calls, D) \in Levels
  BY <1>1, <1>2, FitParts
<1>4. mode = "dispatch" /\ At(text, pos) = "{"  BY <1>3, CharAt DEF CurlyOpen, Dispatch
<1>5. At(text, pos) \notin Ends  BY <1>4 DEF Ends, LineEnds
<1>6. /\ Calls(calls, D, tokens, p) /\ UpTo(lex.curlies, p) /\ Ready(calls)
      /\ ~Told(calls) /\ lex.piece = "none"
      /\ Piled(text, p, OpenAfter, LevelAt(calls, D), lex.curlies, Between(FALSE))
  BY <1>1, <1>3, <1>4, <1>5, DispatchOn
<1>7. PICK k : k = Append(lex.curlies, Null)  OBVIOUS
<1>8. PICK l : l = [Lexeme("CURLY_OPEN", p) EXCEPT !.curlies = Append(@, Null)]  OBVIOUS
<1>9. l.type = "CURLY_OPEN" /\ l.piece = "none" /\ l.curlies = k
  <2>1. lex \in Lexemes(text)  BY InvParts
  <2> QED BY <1>7, <1>8, <2>1 DEF Lexeme, Lexemes
<1>10. UpTo(k, p)
  <2>0. Null.origin = 0  BY NullIs
  <2>1. Null.origin <= p  BY <1>3, <2>0
  <2> QED BY <1>3, <1>6, <1>7, <2>1, NullIs, UpToMore
<1>11. PICK R : R = Append(OpenAfter, Null.origin)  OBVIOUS
<1>12. After(OpenAfter, l.type, "none", str.origin) = R  BY <1>9, <1>11, NullIs DEF After
<1>13. PICK e \in Levels : e = LevelAt(calls, D)  BY <1>3
<1>14. PICK z : z = Between(FALSE)  OBVIOUS
<1>15. z.piece # "Ending" /\ z.own = FALSE  BY <1>14 DEF Between
<1>16. Piled(text, p, R, e, k, z)
  <2> SUFFICES ASSUME p <= Len(text)  PROVE R \in Seq(Nat) /\ Stack(R, e, k, z)  BY DEF Piled
  <2>1. OpenAfter \in Seq(Nat) /\ Stack(OpenAfter, e, lex.curlies, z)
    BY <1>6, <1>13, <1>14 DEF Piled
  <2>2. Null \in Literals(text) /\ (Null.heredoc <=> z.own) /\ Since(Null, e)
    BY <1>15, NullIs DEF Since
  <2> QED BY <1>3, <1>7, <1>11, <1>15, <2>1, <2>2, StackPush
<1>17. /\ text' = text /\ pos' = p /\ lex' = l /\ mode' = "parser" /\ str' = str
       /\ calls' = calls /\ tokens' = tokens
  BY <1>2, <1>8 DEF CurlyOpen, Finish
<1> QED BY <1>6, <1>9, <1>10, <1>12, <1>13, <1>14, <1>16, <1>17, BraceGiven

LEMMA CloseFits ==
  ASSUME IInv, LitInv, CurlyClose
  PROVE  LitInv'
<1>1. PICK D : Fit(D)  BY DEF LitInv
<1>2. PICK p : p = pos + 1  OBVIOUS
<1>3. /\ pos \in Nat /\ p \in Nat /\ pos <= p /\ Len(text) \in Nat
      /\ lex.curlies \in Seq(Literals(text)) /\ LevelAt(calls, D) \in Levels
  BY <1>1, <1>2, FitParts
<1>4. Dispatch({"}"})  BY DEF CurlyClose
<1>5. mode = "dispatch" /\ At(text, pos) = "}" /\ pos \in 1 .. Len(text)
  <2>1. "end" \notin {"}"}  OBVIOUS
  <2> QED BY <1>4, <2>1, DispatchedAt
<1>6. At(text, pos) \notin Ends  BY <1>5 DEF Ends, LineEnds
<1>7. pos <= pos  BY <1>3
<1>8. Piled(text, pos, OpenAfter, LevelAt(calls, D), lex.curlies, Between(FALSE))
  BY <1>1, <1>3, <1>5, <1>6, <1>7, DispatchOn
<1>9. /\ Calls(calls, D, tokens, p) /\ UpTo(lex.curlies, p) /\ Ready(calls)
      /\ ~Told(calls) /\ lex.piece = "none"
  BY <1>1, <1>3, <1>5, <1>6, DispatchOn
<1>10. PICK e \in Levels : e = LevelAt(calls, D)  BY <1>3
<1>11. PICK z : z = Between(FALSE)  OBVIOUS
<1>12. z.piece # "Ending" /\ z.own = FALSE  BY <1>11 DEF Between
<1>13. PICK S \in Seq(Nat) : S = OpenAfter /\ Stack(S, e, lex.curlies, z)
  <2>0. pos \in 1 .. Len(text) /\ Len(text) \in Nat  BY <1>3, <1>5
  <2>1. pos <= Len(text)  BY <2>0
  <2> QED BY <1>8, <1>10, <1>11, <2>1 DEF Piled
<1>14. lex \in Lexemes(text)  BY InvParts
<1>15. CASE lex.curlies = <<>>
  <2>1. PICK l : l = [lex EXCEPT !.type = "CURLY_CLOSE", !.stop = p]  OBVIOUS
  <2>2. l.type = "CURLY_CLOSE" /\ l.piece = "none" /\ l.curlies = lex.curlies
    BY <1>9, <1>14, <2>1 DEF Lexemes
  <2>3. /\ text' = text /\ pos' = p /\ lex' = l /\ mode' = "parser" /\ str' = str
        /\ calls' = calls /\ tokens' = tokens
    BY <1>2, <1>15, <2>1 DEF CurlyClose, Finish
  <2>4. S = <<>>  BY <1>12, <1>13, <1>15, StackEmpty
  <2>5. After(OpenAfter, l.type, "none", str.origin) = S  BY <1>13, <2>2, <2>4 DEF After
  <2>6. Piled(text, p, S, e, l.curlies, z)  BY <1>13, <2>2 DEF Piled
  <2>7. UpTo(l.curlies, p)  BY <1>9, <2>2
  <2> QED BY <1>9, <1>10, <1>11, <2>2, <2>3, <2>5, <2>6, <2>7, BraceGiven
<1>16. CASE lex.curlies # <<>>
  <2>1. PICK x : x = Last(lex.curlies)  OBVIOUS
  <2>2. PICK m : m = Front(lex.curlies)  OBVIOUS
  <2>3. PICK R : R = Front(S)  OBVIOUS
  <2>4. PICK k \in Seq(Literals(text)) : k = lex.curlies  BY <1>3
  <2>5. Stack(S, e, k, z) /\ k # <<>> /\ x = Last(k) /\ m = Front(k)
    BY <1>13, <1>16, <2>1, <2>2, <2>4
  <2>6. /\ S # <<>> /\ Last(S) = x.origin /\ x \in Literals(text) /\ m \in Seq(Literals(text))
        /\ x.heredoc => e.heredoc /\ x.origin > e.since
        /\ \A y : y.piece = "Ending" /\ y.origin = x.origin /\ y.own = x.heredoc =>
             Stack(S, e, m, y)
        /\ ~x.heredoc => \A y : y.piece # "Ending" /\ y.own = FALSE => Stack(R, e, m, y)
        /\ R \in Seq(Nat)
    <3>1. Popped(text, S, e, x, m, R)  BY <1>12, <2>3, <2>5, StackPop
    <3> QED BY <3>1 DEF Popped
  <2>7. UpTo(m, p) /\ x.origin <= p  BY <1>9, <2>4, <2>5, UpToLess
  <2>8. CASE x = Null
    <3>1. PICK l : l = [[lex EXCEPT !.curlies = m] EXCEPT !.type = "CURLY_CLOSE", !.stop = p]  OBVIOUS
    <3>2. l.type = "CURLY_CLOSE" /\ l.piece = "none" /\ l.curlies = m
      BY <1>9, <1>14, <3>1 DEF Lexemes
    <3>3. /\ text' = text /\ pos' = p /\ lex' = l /\ mode' = "parser" /\ str' = str
          /\ calls' = calls /\ tokens' = tokens
      BY <1>2, <1>16, <2>1, <2>2, <2>8, <3>1 DEF CurlyClose, Finish
    <3>4. After(OpenAfter, l.type, "none", str.origin) = R
      BY <1>13, <2>3, <2>6, <3>2 DEF After
    <3>5. Stack(R, e, m, z)  BY <1>12, <2>6, <2>8, NullIs
    <3>6. Piled(text, p, R, e, l.curlies, z)  BY <2>6, <3>2, <3>5 DEF Piled
    <3>7. UpTo(l.curlies, p)  BY <2>7, <3>2
    <3> QED BY <1>9, <1>10, <1>11, <3>2, <3>3, <3>4, <3>6, <3>7, BraceGiven
  <2>9. CASE x # Null
    <3>1. PICK s : s = [x EXCEPT !.continuing = TRUE]  OBVIOUS
    <3>2. s.continuing = TRUE /\ s.origin = x.origin /\ s.heredoc = x.heredoc /\ s.type = x.type
      BY <2>6, <3>1 DEF Literals
    <3>3. PICK l : l = [[lex EXCEPT !.curlies = m] EXCEPT !.type = s.type, !.piece = "Ending"]
      OBVIOUS
    <3>4. l.type = s.type /\ l.piece = "Ending" /\ l.curlies = m  BY <1>14, <3>3 DEF Lexemes
    <3>5. /\ text' = text /\ pos' = p /\ lex' = l /\ mode' = "interpolate" /\ str' = s
          /\ calls' = calls /\ tokens' = tokens
      BY <1>2, <1>16, <2>1, <2>2, <2>9, <3>1, <3>2, <3>3 DEF CurlyClose, Interpolate
    <3>6. PICK y : y = Reading(s, "interpolate")  OBVIOUS
    <3>7. y.piece = "Ending" /\ y.type = s.type /\ y.origin = x.origin /\ y.own = x.heredoc
      BY <3>2, <3>6 DEF Reading
    <3>8. Keeps(l, y, tokens)  BY <3>4, <3>7 DEF Keeps
    <3>9. Stack(S, e, m, y)  BY <2>6, <3>7
    <3>10. Piled(text, p, OpenAfter, e, l.curlies, y)  BY <1>13, <3>4, <3>9 DEF Piled
    <3>11. Own(s, e)  BY <2>6, <3>2 DEF Own
    <3>12. "interpolate" \in TextModes  BY DEF TextModes
    <3>13. UpTo(l.curlies, p) /\ s.origin <= p  BY <2>7, <3>2, <3>4
    <3> QED BY <1>9, <1>10, <3>5, <3>6, <3>8, <3>10, <3>11, <3>12, <3>13, ReadFits
  <2> QED BY <2>8, <2>9
<1> QED BY <1>15, <1>16

-----------------------------------------------------------------------------
(* Which literal goes on: the loops over literals.                         *)

\* What is known in the text of a literal.
LEMMA TextFit ==
  ASSUME IInv, NEW D, Fit(D), mode \in TextModes
  PROVE  /\ Ready(calls) /\ ~Told(calls) /\ Keeps(lex, Reading(str, mode), tokens)
         /\ Own(str, LevelAt(calls, D)) /\ str.origin <= pos
         /\ Piled(text, pos, OpenAfter, LevelAt(calls, D), lex.curlies, Reading(str, mode))
         /\ Reached(pos, lex, mode) = pos /\ mode \notin {"dispatch", "parser", "comment", "return"}
         /\ lex.type \notin Rereadable
<1>1. TextOK(text, pos, lex, mode, str, calls, tokens, OpenAfter, D)  BY DEF Fit, Fits
<1>2. mode \notin {"dispatch", "parser", "comment", "return"}  BY DEF TextModes
<1>3. Reached(pos, lex, mode) = pos  BY <1>2 DEF Reached
<1>4. lex.type \notin Rereadable  BY <1>2, InvParts
<1> QED BY <1>1, <1>2, <1>3, <1>4 DEF TextOK

\* How many delimiters are open says nothing of which literal is read.
LEMMA LoopFits ==
  ASSUME IInv, LitInv, mode \in TextModes, NEW p \in Nat, pos <= p, Loop(p)
  PROVE  LitInv'
<1>1. PICK D : Fit(D)  BY DEF LitInv
<1>2. /\ Ready(calls) /\ ~Told(calls) /\ Keeps(lex, Reading(str, mode), tokens)
      /\ Own(str, LevelAt(calls, D)) /\ str.origin <= pos
      /\ Piled(text, pos, OpenAfter, LevelAt(calls, D), lex.curlies, Reading(str, mode))
      /\ Reached(pos, lex, mode) = pos
  BY <1>1, TextFit
<1>3. pos \in Nat /\ Len(text) \in Nat /\ str \in Literals(text) /\ str.origin \in Nat
  BY <1>1, FitParts
<1>4. PICK s : s = IF str.heredoc THEN str ELSE [str EXCEPT !.nested = Nested(pos)]  OBVIOUS
<1>5. /\ s.heredoc = str.heredoc /\ s.origin = str.origin /\ s.type = str.type
      /\ s.continuing = str.continuing
  BY <1>3, <1>4 DEF Literals
<1>6. Reading(s, mode) = Reading(str, mode)  BY <1>5 DEF Reading
<1>7. Own(s, LevelAt(calls, D))  BY <1>2, <1>5 DEF Own
<1>8. s.origin <= p  BY <1>2, <1>3, <1>5
<1>9. Calls(calls, D, tokens, p) /\ UpTo(lex.curlies, p)  BY <1>1, <1>2, GoneOn
<1>10. Piled(text, p, OpenAfter, LevelAt(calls, D), lex.curlies, Reading(s, mode))
  BY <1>2, <1>3, <1>6, PiledOn
<1>11. /\ text' = text /\ pos' = p /\ lex' = lex /\ mode' = mode /\ str' = s
       /\ calls' = calls /\ tokens' = tokens
  BY <1>4 DEF Loop
<1> QED BY <1>2, <1>6, <1>7, <1>8, <1>9, <1>10, <1>11, ReadFits

LEMMA EscapeForward ==
  ASSUME IsText(text), NEW t, t.at \in 1 .. Len(text) + 1, NEW q, q = EscapeEnd(t)
  PROVE  q \in Nat /\ t.at <= q
<1>1. PICK a \in 1 .. Len(text) + 1 : a = t.at  OBVIOUS
<1>2. Len(text) \in Nat  BY DEF IsText
<1>3. ASSUME NEW p \in 1 .. Len(text) + 1, NEW S, "end" \notin S, NEW n \in Nat,
             NEW r, r = IF Skip(p, S) > p + n THEN p + n ELSE Skip(p, S)
      PROVE  r \in Nat /\ p <= r
  <2>1. PICK k : k = Skip(p, S)  OBVIOUS
  <2>2. k \in p .. Len(text) + 1  BY <1>3, <2>1, SkipStops
  <2> QED BY <1>2, <1>3, <2>1, <2>2
<1>4. CASE a > Len(text)
  <2>1. q = Len(text) + 1
    <3>1. ~(a <= Len(text))  BY <1>2, <1>4
    <3>2. Char(a) = "end"  BY <3>1 DEF Char
    <3>3. Char(a) \notin {"0", "1", "7", "x"}  BY <3>2
    <3> QED BY <1>1, <1>4, <3>3 DEF EscapeEnd
  <2> QED BY <1>1, <1>2, <2>1
<1>5. CASE a <= Len(text) /\ ~t.plain /\ Char(a) \in {"0", "1", "7"}
  <2>1. q = IF Skip(a, {"0", "1", "7"}) > a + 3 THEN a + 3 ELSE Skip(a, {"0", "1", "7"})
    <3>1. ~(a > Len(text))  BY <1>2, <1>5
    <3> QED BY <1>1, <1>5, <3>1 DEF EscapeEnd
  <2>2. "end" \notin {"0", "1", "7"}  OBVIOUS
  <2> QED BY <1>1, <1>3, <2>1, <2>2
<1>6. CASE a <= Len(text) /\ ~t.plain /\ Char(a) = "x"
  <2> DEFINE hex == Digits \union {"A", "B", "a", "b", "c", "d", "e"}
  <2>1. q = IF Skip(a + 1, hex) > a + 1 + 2 THEN a + 1 + 2 ELSE Skip(a + 1, hex)
    <3>1. ~(a > Len(text)) /\ Char(a) \notin {"0", "1", "7"}  BY <1>2, <1>6
    <3> QED BY <1>1, <1>6, <3>1 DEF EscapeEnd
  <2>2. "end" \notin hex  BY DEF Digits
  <2> HIDE DEF hex
  <2>3. PICK p : p = a + 1  OBVIOUS
  <2>4. p \in 1 .. Len(text) + 1  BY <1>2, <1>6, <2>3
  <2>5. q \in Nat /\ p <= q  BY <1>3, <2>1, <2>2, <2>3, <2>4
  <2> QED BY <1>1, <1>2, <2>3, <2>5
<1>7. CASE a <= Len(text) /\ (t.plain \/ Char(a) \notin {"0", "1", "7", "x"})
  <2>1. q = a + 1
    <3>1. ~(a > Len(text))  BY <1>2, <1>7
    <3> QED BY <1>1, <1>7, <3>1 DEF EscapeEnd
  <2> QED BY <1>1, <1>2, <2>1
<1> QED BY <1>2, <1>4, <1>5, <1>6, <1>7

LEMMA LoopsFit ==
  ASSUME IInv, LitInv, Escape \/ SimpleEscape \/ VariableInText \/ OtherCharacter
  PROVE  LitInv'
<1>1. IsText(text) /\ text \in Seq(STRING) /\ Len(text) \in Nat  BY TextGiven
<1>2. pos \in Nat \ {0}  BY InvParts
<1>3. PICK r : r = pos + 1  OBVIOUS
<1>4. ASSUME Char(pos) \notin LineEnds \cup {"end"}
      PROVE  r \in 1 .. Len(text) + 1 /\ r \in Nat /\ pos <= r /\ r > 1 /\ pos \in 1 .. Len(text) + 1
  <2>1. r \in 1 .. Len(text) + 1  BY <1>3, <1>4, OneMore
  <2> QED BY <1>1, <1>2, <1>3, <2>1
<1>5. CASE Escape
  <2>1. PICK t : t = EscapeTarget(r)  OBVIOUS
  <2>2. PICK q : q = EscapeEnd(t)  OBVIOUS
  <2>3. mode \in TextModes /\ Char(pos) = "\\" /\ Loop(q)
    BY <1>3, <1>5, <2>1, <2>2 DEF Escape, InEscape, InLiteral, TextModes
  <2>4. Char(pos) \notin LineEnds \cup {"end"}  BY <2>3 DEF LineEnds
  <2>5. At(text, r - 1) = "\\"  BY <1>2, <1>3, <2>3, CharAt
  <2>6. t.at \in 1 .. Len(text) + 1 /\ Passes(text, r, t.at)
    BY <1>1, <1>4, <2>1, <2>4, <2>5, EscapeTargetPasses
  <2>7. q \in Nat /\ t.at <= q  BY <1>1, <2>2, <2>6, EscapeForward
  <2>8. pos <= q
    <3>1. PICK a \in Nat : a = t.at /\ r <= a  BY <1>1, <1>4, <2>4, <2>6 DEF Passes
    <3> QED BY <1>2, <1>4, <2>4, <2>7, <3>1
  <2> QED BY <2>3, <2>7, <2>8, LoopFits
<1>6. CASE SimpleEscape
  <2>1. PICK q : q = IF Char(r) \in {"\\", str.terminator, str.opener} /\ r <= Len(text)
                       THEN pos + 2 ELSE r
    OBVIOUS
  <2>2. mode \in TextModes /\ Loop(q)
    BY <1>3, <1>6, <2>1 DEF SimpleEscape, InLiteral, TextModes
  <2>3. q \in Nat /\ pos <= q  BY <1>2, <1>3, <2>1
  <2> QED BY <2>2, <2>3, LoopFits
<1>7. CASE VariableInText
  <2>1. PICK q : q = VariableEnd(r)  OBVIOUS
  <2>2. mode \in TextModes /\ Char(pos) = "#" /\ Char(r) \in {"@", "$"} /\ Loop(q)
    BY <1>3, <1>7, <2>1 DEF VariableInText, InLiteral, TextModes
  <2>3. Char(pos) \notin LineEnds \cup {"end"}  BY <2>2 DEF LineEnds
  <2>4. At(text, r) \in {"@", "$"}  BY <2>2, CharAt
  <2>5. Passes(text, r, q)  BY <1>1, <1>4, <2>1, <2>3, <2>4, VariablePasses
  <2>6. q \in Nat /\ pos <= q
    <3>1. q \in r .. Len(text) + 1  BY <2>5 DEF Passes
    <3> QED BY <1>1, <1>2, <1>3, <3>1
  <2> QED BY <2>2, <2>6, LoopFits
<1>8. CASE OtherCharacter
  <2>1. mode \in TextModes /\ Loop(r)
    BY <1>3, <1>8 DEF OtherCharacter, InText, InLiteral, TextModes
  <2>2. r \in Nat /\ pos <= r  BY <1>2, <1>3
  <2> QED BY <2>1, <2>2, LoopFits
<1> QED BY <1>5, <1>6, <1>7, <1>8

\* The lexeme of a literal has its type, or is LINE.
LEMMA TextType ==
  ASSUME IInv, NEW D, Fit(D), mode \in TextModes, NEW y,
         y = IF mode = "words" THEN str.type ELSE lex.type
  PROVE  /\ y = str.type \/ (y = "LINE" /\ Later(tokens, str.origin))
         /\ y \notin Rereadable \cup {"CURLY_OPEN", "CURLY_CLOSE", "END"}
<1>1. Keeps(lex, Reading(str, mode), tokens)  BY TextFit
<1>2. str.type \in LiteralTypes
  <2>1. str \in Literals(text)  BY InvParts
  <2> QED BY <2>1 DEF Literals
<1>3. y = str.type \/ (y = "LINE" /\ Later(tokens, str.origin))
  BY <1>1 DEF Keeps, Reading
<1> QED BY <1>2, <1>3 DEF LiteralTypes, Rereadable

\* The literal, or what is left of it, is given to the parser.
LEMMA EndFits ==
  ASSUME IInv, LitInv, mode \in TextModes, NEW p \in Nat, pos <= p, NEW l,
         l.curlies = lex.curlies, l.piece = lex.piece,
         l.type = (IF mode = "words" THEN str.type ELSE lex.type),
         str.heredoc => At(text, p) \in Ends,
         text' = text, pos' = p, lex' = l, mode' = "parser", str' = str, calls' = calls,
         tokens' = tokens
  PROVE  LitInv'
<1>1. PICK D : Fit(D)  BY DEF LitInv
<1>2. /\ Ready(calls) /\ ~Told(calls) /\ Keeps(lex, Reading(str, mode), tokens)
      /\ Own(str, LevelAt(calls, D))
      /\ Piled(text, pos, OpenAfter, LevelAt(calls, D), lex.curlies, Reading(str, mode))
      /\ Reached(pos, lex, mode) = pos
  BY <1>1, TextFit
<1>3. /\ pos \in Nat /\ Len(text) \in Nat /\ str \in Literals(text)
      /\ lex.curlies \in Seq(Literals(text)) /\ LevelAt(calls, D) \in Levels
  BY <1>1, FitParts
<1>4. /\ l.type = str.type \/ (l.type = "LINE" /\ Later(tokens, str.origin))
      /\ l.type \notin Rereadable \cup {"CURLY_OPEN", "CURLY_CLOSE", "END"}
  BY <1>1, TextType
<1>5. Reached(p, l, "parser") = p  BY <1>4 DEF Reached
<1>6. Calls(calls, D, tokens, p) /\ UpTo(l.curlies, p)  BY <1>1, <1>2, GoneOn
<1>7. PICK e \in Levels : e = LevelAt(calls, D)  BY <1>3
<1>8. PICK a : a = Reading(str, mode)  OBVIOUS
<1>9. PICK z : z = Between(Told(calls) \/ LastPieceOf(l, str))  OBVIOUS
<1>10. a.piece = l.piece /\ a.piece \in {"Plain", "Ending"} /\ a.own = str.heredoc /\ a.origin = str.origin
  BY <1>2, <1>8 DEF Keeps, Reading
<1>11. z.piece = "none" /\ z.own = a.own
  <2>1. str.heredoc \in BOOLEAN  BY <1>3 DEF Literals
  <2>2. (Told(calls) \/ LastPieceOf(l, str)) = str.heredoc
    BY <1>2, <1>10, <2>1 DEF LastPieceOf
  <2> QED BY <1>9, <1>10, <2>2 DEF Between
<1>12. PICK R : R = After(OpenAfter, l.type, l.piece, str.origin)  OBVIOUS
<1>13. ASSUME p <= Len(text)
       PROVE  /\ R \in Seq(Nat) /\ Stack(R, e, l.curlies, z)
              /\ l.piece \in {"Continuing", "Ending"} => OpenAfter # <<>> /\ Last(OpenAfter) = str.origin
  <2>1. pos <= Len(text)  BY <1>3, <1>13
  <2>2. PICK S \in Seq(Nat) : S = OpenAfter /\ Stack(S, e, lex.curlies, a)
    BY <1>2, <1>7, <1>8, <2>1 DEF Piled
  <2>3. CASE l.piece = "Plain"
    <3>1. R = S  BY <1>4, <1>12, <2>2, <2>3, AfterSame
    <3>2. Stack(S, e, lex.curlies, z)  BY <1>10, <1>11, <2>2, <2>3, StackSame
    <3> QED BY <2>3, <3>1, <3>2
  <2>4. CASE l.piece = "Ending"
    <3>1. PICK F : F = Front(S)  OBVIOUS
    <3>2. R = F  BY <1>4, <1>12, <2>2, <2>4, <3>1 DEF After
    <3>3. PICK k \in Seq(Literals(text)) : k = lex.curlies  BY <1>3
    <3>4. Stack(S, e, k, a) /\ a.piece = "Ending" /\ z.piece # "Ending"
      BY <1>10, <1>11, <2>2, <2>4, <3>3
    <3>5. Stack(F, e, k, z) /\ F \in Seq(Nat) /\ S # <<>> /\ Last(S) = a.origin
      BY <1>11, <3>1, <3>4, StackEnd
    <3> QED BY <1>10, <2>2, <3>2, <3>3, <3>5
  <2> QED BY <1>10, <2>3, <2>4
<1>14. ParserOK(text, p, l, str, calls, tokens, OpenAfter, D)
  <2>1. Piled(text, p, R, e, l.curlies, z)  BY <1>13 DEF Piled
  <2>2. LastPieceOf(l, str) => At(text, p) \in Ends  BY DEF LastPieceOf
  <2> QED BY <1>2, <1>4, <1>5, <1>7, <1>9, <1>12, <1>13, <2>1, <2>2 DEF ParserOK
<1>15. Fits(text, p, l, "parser", str, calls, tokens, OpenAfter, D)
  BY <1>5, <1>6, <1>14 DEF Fits, TextModes
<1> QED BY <1>15, FitNext

\* The delimiter, the end of the file, or the name of the heredoc.
LEMMA EndsFit ==
  ASSUME IInv, LitInv, LiteralEnds \/ Unterminated \/ HeredocEnds
  PROVE  LitInv'
<1>1. IsText(text) /\ text \in Seq(STRING) /\ Len(text) \in Nat  BY TextGiven
<1>2. /\ pos \in Nat \ {0} /\ lex \in Lexemes(text) /\ str \in Literals(text)
  BY InvParts
<1>3. ASSUME NEW p \in 1 .. Len(text) + 1, NEW S, "end" \notin S, NEW q, q = Skip(p, S)
      PROVE  q \in Nat /\ p <= q
  <2>1. q \in p .. Len(text) + 1  BY <1>1, <1>3, SkipStops
  <2> QED BY <1>1, <2>1
<1>4. "end" \notin Letters  BY DEF Letters
<1>5. CASE LiteralEnds
  <2>1. PICK p : p = pos + 1  OBVIOUS
  <2>2. PICK q : q = IF lex.type = "REGEXP" /\ lex.piece \in {"Plain", "Ending"}
                       THEN Skip(p, Letters) ELSE p
    OBVIOUS
  <2>3. PICK l : l = [Typed(lex) EXCEPT !.stop = p]  OBVIOUS
  <2>4. /\ mode \in TextModes /\ ~str.heredoc /\ Char(pos) = str.terminator
        /\ Char(pos) # "end" /\ Done(lex, p)
    BY <1>5, <2>1 DEF LiteralEnds, IsTerminator, TextModes
  <2>5. p \in 1 .. Len(text) + 1  BY <2>1, <2>4, Within
  <2>6. q \in Nat /\ pos <= q
    <3>1. q \in Nat /\ p <= q
      <4>1. CASE q = p
        <5>1. p \in Nat  BY <1>2, <2>1
        <5> QED BY <4>1, <5>1
      <4>2. CASE q = Skip(p, Letters)  BY <1>3, <1>4, <2>5, <4>2
      <4> QED BY <2>2, <4>1, <4>2
    <3> QED BY <1>2, <2>1, <3>1
  <2>7. /\ l.curlies = lex.curlies /\ l.piece = lex.piece
        /\ l.type = (IF mode = "words" THEN str.type ELSE lex.type)
    BY <1>2, <2>3 DEF Typed, Lexemes
  <2>8. /\ text' = text /\ pos' = q /\ lex' = l /\ mode' = "parser" /\ str' = str
        /\ calls' = calls /\ tokens' = tokens
    BY <2>2, <2>3, <2>4 DEF Done
  <2> QED BY <2>4, <2>6, <2>7, <2>8, EndFits
<1>6. CASE Unterminated
  <2>1. PICK l : l = [Typed(lex) EXCEPT !.stop = pos]  OBVIOUS
  <2>2. mode \in TextModes /\ AtEnd /\ Finish(l, pos)
    BY <1>6, <2>1 DEF Unterminated, InText, InLiteral, TextModes
  <2>3. /\ l.curlies = lex.curlies /\ l.piece = lex.piece
        /\ l.type = (IF mode = "words" THEN str.type ELSE lex.type)
    BY <1>2, <2>1 DEF Typed, Lexemes
  <2>4. At(text, pos) \in Ends
    <3>1. At(text, pos) = "end"  BY <1>1, <1>2, <2>2 DEF AtEnd, At
    <3> QED BY <3>1 DEF Ends
  <2>5. /\ text' = text /\ pos' = pos /\ lex' = l /\ mode' = "parser" /\ str' = str
        /\ calls' = calls /\ tokens' = tokens
    BY <2>2 DEF Finish
  <2>6. pos \in Nat /\ pos <= pos  BY <1>2
  <2> QED BY <2>2, <2>3, <2>4, <2>5, <2>6, EndFits
<1>7. CASE HeredocEnds
  <2>1. PICK j : j = [lex EXCEPT !.cur = @ + 1]  OBVIOUS
  <2>2. PICK p : p = TerminatorLine(pos).stop  OBVIOUS
  <2>3. mode = "interpolate" /\ str.heredoc /\ At(text, pos) \in LineEnds /\ Done(j, p)
    BY <1>7, <2>1, <2>2, CharAt DEF HeredocEnds
  <2>4. j.type = lex.type /\ j.piece = lex.piece /\ j.curlies = lex.curlies
    BY <1>2, <2>1 DEF Lexemes
  <2>5. PICK q : q = IF j.type = "REGEXP" /\ j.piece \in {"Plain", "Ending"}
                       THEN Skip(p, Letters) ELSE p
    OBVIOUS
  <2>6. PICK l : l = [j EXCEPT !.stop = p]  OBVIOUS
  <2>7. Typed(j) = j  BY <2>3 DEF Typed
  <2>8. /\ text' = text /\ pos' = q /\ lex' = l /\ mode' = "parser" /\ str' = str
        /\ calls' = calls /\ tokens' = tokens
    BY <2>3, <2>5, <2>6, <2>7 DEF Done
  <2>9. str.h.ident \in BOOLEAN
    <3>1. str.h \in Heredocs \cup {NoHeredoc}  BY <1>2 DEF Literals
    <3>2. CASE str.h \in Heredocs  BY <3>2 DEF Heredocs
    <3>3. CASE str.h = NoHeredoc
      <4>1. NoHeredoc.ident = FALSE  BY DEF NoHeredoc
      <4> QED BY <3>3, <4>1
    <3> QED BY <3>1, <3>2, <3>3
  <2>10. p \in 1 .. Len(text) + 1 /\ p >= pos + 1
    BY <1>1, <1>2, <2>2, <2>3, <2>9, TerminatorPasses
  <2>11. At(text, p) \in Ends
    <3>1. At(text, p) \in LineEnds \cup {"end"}
      BY <1>1, <1>2, <2>2, <2>3, <2>9, TerminatorPasses
    <3> QED BY <3>1 DEF Ends
  <2>12. q = p
    <3>1. CASE q # p
      <4>1. q = Skip(p, Letters)  BY <2>5, <3>1
      <4>2. q \in p .. Len(text) + 1 /\ \A r \in p .. q - 1 : At(text, r) \in Letters
        BY <1>1, <1>4, <2>10, <4>1, SkipStops
      <4>3. p \in p .. q - 1  BY <1>1, <2>10, <3>1, <4>2
      <4>4. At(text, p) \in Letters  BY <4>2, <4>3
      <4>5. Letters \cap Ends = {}  BY DEF Letters, Ends, LineEnds
      <4> QED BY <2>11, <4>4, <4>5
    <3> QED BY <3>1
  <2>13. q \in Nat /\ pos <= q  BY <1>2, <2>10, <2>12
  <2>14. l.curlies = lex.curlies /\ l.piece = lex.piece /\ l.type = lex.type
    BY <1>2, <2>1, <2>6 DEF Lexemes
  <2>15. mode \in TextModes /\ mode # "words"  BY <2>3 DEF TextModes
  <2> QED BY <2>8, <2>11, <2>12, <2>13, <2>14, <2>15, EndFits
<1> QED BY <1>5, <1>6, <1>7

\* A group begins: the literal goes on the list, and on what is open.
LEMMA GroupFits ==
  ASSUME IInv, LitInv, GroupStarts
  PROVE  LitInv'
<1>1. PICK D : Fit(D)  BY DEF LitInv
<1>2. mode = "interpolate" /\ mode \in TextModes /\ Char(pos) = "#"
  BY DEF GroupStarts, InLiteral, TextModes
<1>3. /\ Ready(calls) /\ ~Told(calls) /\ Keeps(lex, Reading(str, mode), tokens)
      /\ Own(str, LevelAt(calls, D)) /\ str.origin <= pos
      /\ Piled(text, pos, OpenAfter, LevelAt(calls, D), lex.curlies, Reading(str, mode))
      /\ Reached(pos, lex, mode) = pos
  BY <1>1, <1>2, TextFit
<1>4. /\ pos \in Nat /\ Len(text) \in Nat /\ str \in Literals(text) /\ str.origin \in Nat
      /\ lex.curlies \in Seq(Literals(text)) /\ LevelAt(calls, D) \in Levels
      /\ lex \in Lexemes(text)
  BY <1>1, FitParts
<1>5. PICK p \in Nat : p = pos + 2 /\ pos <= p  BY <1>4
<1>6. PICK x : x = [str EXCEPT !.nested = Nested(pos)]  OBVIOUS
<1>7. x \in Literals(text) /\ x.origin = str.origin /\ x.heredoc = str.heredoc
  <2>1. str.nested \in Nat  BY <1>4 DEF Literals
  <2>2. Nested(pos) \in Nat  BY <2>1 DEF Nested
  <2> QED BY <1>4, <1>6, <2>2 DEF Literals
<1>8. PICK y : y = IF str.continuing THEN "Continuing" ELSE "Starting"  OBVIOUS
<1>9. PICK j : j = [lex EXCEPT !.piece = y, !.curlies = Append(@, x)]  OBVIOUS
<1>10. PICK m : m = Append(lex.curlies, x)  OBVIOUS
<1>11. j.piece = y /\ j.curlies = m /\ j.type = lex.type  BY <1>4, <1>9, <1>10 DEF Lexemes
<1>12. PICK l : l = [Typed(j) EXCEPT !.stop = p]  OBVIOUS
<1>13. Typed(j) = j  BY <1>2 DEF Typed
<1>14. l.piece = y /\ l.curlies = m /\ l.type = lex.type
  <2>1. m \in Seq(Literals(text))  BY <1>4, <1>7, <1>10
  <2>2. j = [type |-> lex.type, start |-> lex.start, stop |-> lex.stop, line |-> lex.line,
             cur |-> lex.cur, ws |-> lex.ws, piece |-> y, curlies |-> m]
    BY <1>4, <1>9, <1>10 DEF Lexemes
  <2> QED BY <1>12, <1>13, <2>2
<1>15. /\ text' = text /\ pos' = p /\ lex' = l /\ mode' = "parser" /\ str' = str
       /\ calls' = calls /\ tokens' = tokens
  <2>1. Done(j, p)  BY <1>5, <1>6, <1>8, <1>9 DEF GroupStarts
  <2>2. j.piece \notin {"Plain", "Ending"}  BY <1>8, <1>11
  <2> QED BY <1>12, <2>1, <2>2 DEF Done
<1>16. /\ l.type = str.type \/ (l.type = "LINE" /\ Later(tokens, str.origin))
       /\ l.type \notin Rereadable \cup {"CURLY_OPEN", "CURLY_CLOSE", "END"}
  <2>1. l.type = IF mode = "words" THEN str.type ELSE lex.type  BY <1>2, <1>14
  <2> QED BY <1>1, <1>2, <2>1, TextType
<1>17. Reached(p, l, "parser") = p  BY <1>16 DEF Reached
<1>18. Calls(calls, D, tokens, p) /\ UpTo(l.curlies, p)
  <2>1. Calls(calls, D, tokens, p) /\ UpTo(lex.curlies, p)  BY <1>1, <1>3, <1>5, GoneOn
  <2>2. x.origin <= p  BY <1>3, <1>4, <1>5, <1>7
  <2> QED BY <1>4, <1>7, <1>10, <1>14, <2>1, <2>2, UpToMore
<1>19. PICK e \in Levels : e = LevelAt(calls, D)  BY <1>4
<1>20. PICK a : a = Reading(str, mode)  OBVIOUS
<1>21. PICK z : z = Between(FALSE)  OBVIOUS
<1>22. z.piece # "Ending" /\ z.own = FALSE  BY <1>21 DEF Between
<1>23. /\ a.own = x.heredoc /\ a.origin = x.origin
       /\ a.piece = IF str.continuing THEN "Ending" ELSE "Plain"
  BY <1>7, <1>20 DEF Reading
<1>24. ~LastPieceOf(l, str)  BY <1>8, <1>14 DEF LastPieceOf
<1>25. Between(Told(calls) \/ LastPieceOf(l, str)) = z
  <2>1. (Told(calls) \/ LastPieceOf(l, str)) = FALSE  BY <1>3, <1>24
  <2> QED BY <1>21, <2>1
<1>26. Since(x, e)  BY <1>3, <1>7, <1>19 DEF Own, Since
<1>27. PICK R : R = After(OpenAfter, l.type, l.piece, str.origin)  OBVIOUS
<1>28. ASSUME p <= Len(text)
       PROVE  /\ R \in Seq(Nat) /\ Stack(R, e, m, z)
              /\ l.piece \in {"Continuing", "Ending"} => OpenAfter # <<>> /\ Last(OpenAfter) = str.origin
  <2>1. pos <= Len(text)  BY <1>4, <1>5, <1>28
  <2>2. PICK S \in Seq(Nat) : S = OpenAfter /\ Stack(S, e, lex.curlies, a)
    BY <1>3, <1>19, <1>20, <2>1 DEF Piled
  <2>3. PICK k \in Seq(Literals(text)) : k = lex.curlies  BY <1>4
  <2>4. CASE str.continuing
    <3>1. y = "Continuing" /\ a.piece = "Ending"  BY <1>8, <1>23, <2>4
    <3>2. R = S  BY <1>14, <1>16, <1>27, <2>2, <3>1, AfterSame
    <3>3. Stack(S, e, k, a) /\ m = Append(k, x)  BY <1>10, <2>2, <2>3
    <3>5. (x.heredoc <=> a.own) /\ x.origin = a.origin  BY <1>23
    <3>6. x \in Literals(text)  BY <1>7
    <3>4. Stack(S, e, m, z) /\ S # <<>> /\ Last(S) = x.origin
      BY <1>22, <1>26, <3>1, <3>3, <3>5, <3>6, StackAgain
    <3> QED BY <1>7, <2>2, <3>2, <3>4
  <2>5. CASE ~str.continuing
    <3>1. y = "Starting" /\ a.piece = "Plain"  BY <1>8, <1>23, <2>5
    <3>2. R = Append(S, x.origin)  BY <1>7, <1>14, <1>16, <1>27, <2>2, <3>1 DEF After
    <3>3. Stack(S, e, k, a) /\ m = Append(k, x)  BY <1>10, <2>2, <2>3
    <3>4. Stack(R, e, m, z) /\ R \in Seq(Nat)
      BY <1>7, <1>22, <1>23, <1>26, <3>1, <3>2, <3>3, StackPush
    <3>5. l.piece \notin {"Continuing", "Ending"}  BY <1>14, <3>1
    <3> QED BY <3>4, <3>5
  <2> QED BY <2>4, <2>5
<1>29. ParserOK(text, p, l, str, calls, tokens, OpenAfter, D)
  <2>1. Piled(text, p, R, e, l.curlies, z)  BY <1>14, <1>28 DEF Piled
  <2> QED BY <1>3, <1>16, <1>17, <1>19, <1>24, <1>25, <1>27, <1>28, <2>1 DEF ParserOK
<1>30. Fits(text, p, l, "parser", str, calls, tokens, OpenAfter, D)
  BY <1>17, <1>18, <1>29 DEF Fits, TextModes
<1> QED BY <1>15, <1>30, FitNext

-----------------------------------------------------------------------------
(* Which literal goes on: line ends and heredocs.                          *)

\* The call that waits for a line end is on the stack, and the heredoc that waits is read.
LEMMA NewlineFits ==
  ASSUME IInv, IInv', LitInv, NEW P \in Nat, NEW w \in Seq(Frames(text)), NEW W,
         Calls(w, W, tokens, P), w # <<>>, Last(w).kind # "heredoc", NEW l \in Lexemes(text),
         UpTo(l.curlies, P), Keeps(l, Last(W).lit, tokens), OpenAfter \in Seq(Nat),
         Stack(OpenAfter, LevelAt(w, W), l.curlies, Last(W).lit), NEW p \in Nat, P < p,
         NEW none, NEW allow, ProcessNewline(l, p, none, allow, w)
  PROVE  LitInv'
<1>1. P <= p /\ l.cur \in Nat /\ l.curlies \in Seq(Literals(text))  BY DEF Lexemes
<1>2. Calls(w, W, tokens, p)
  <2>1. \A o : Later(tokens, o) => Later(tokens, o)  OBVIOUS
  <2> QED BY <1>1, <2>1, CallsGrow
<1>3. UpTo(l.curlies, p)  BY <1>1, UpToGrow
<1>4. PICK j : j = [l EXCEPT !.cur = @ + 1]  OBVIOUS
<1>5. j.piece = l.piece /\ j.type = l.type /\ j.curlies = l.curlies  BY <1>4 DEF Lexemes
<1>6. Last(w) \in Frames(text) /\ Last(W) \in Marks /\ FrameOK(Last(w), Last(W), tokens, P)
  BY CallsPop
<1>7. PICK lit \in Lits : lit = Last(W).lit  BY <1>6 DEF Marks
<1>8. PICK e \in Levels : e = LevelAt(w, W)  BY LevelKnown
<1>9. PICK S \in Seq(Nat) : S = OpenAfter  OBVIOUS
<1>10. Keeps(j, lit, tokens) /\ Stack(S, e, j.curlies, lit)
  BY <1>5, <1>7, <1>8, <1>9 DEF Keeps
<1>11. CASE ~(heredocs # <<>> /\ ~none)
  <2>1. PICK m : m = IF allow /\ IsComment(p) THEN "comment" ELSE "return"  OBVIOUS
  <2>2. m \in {"comment", "return"}  BY <2>1
  <2>3. Piled(text, p, OpenAfter, LevelAt(w, W), j.curlies, Last(W).lit)
    BY <1>7, <1>8, <1>9, <1>10 DEF Piled
  <2>4. /\ text' = text /\ pos' = p /\ lex' = j /\ mode' = m /\ str' = str /\ calls' = w
        /\ tokens' = tokens
    BY <1>4, <1>11, <2>1 DEF ProcessNewline
  <2>5. Keeps(j, Last(W).lit, tokens) /\ UpTo(j.curlies, p)  BY <1>3, <1>5, <1>7, <1>10
  <2> QED BY <1>2, <2>2, <2>3, <2>4, <2>5, WaitFits
<1>12. CASE heredocs # <<>> /\ ~none
  <2>1. PICK h : h = Last(heredocs)  OBVIOUS
  <2>2. PICK f : f = [Frame("heredoc") EXCEPT !.old = j, !.comment = allow]  OBVIOUS
  <2>3. f.kind = "heredoc" /\ f.old = j /\ f.last = FALSE  BY <2>2 DEF Frame
  <2>4. PICK s : s = [Literal(h.type, "end", "end", p) EXCEPT !.heredoc = TRUE, !.h = h]
    OBVIOUS
  <2>5. s.type = h.type /\ s.heredoc = TRUE /\ s.origin = p /\ s.continuing = FALSE
    BY <2>4 DEF Literal
  <2>6. PICK r : r = [j EXCEPT !.start = p, !.line = j.cur, !.type = h.type, !.piece = "Plain"]
    OBVIOUS
  <2>7. r.type = h.type /\ r.piece = "Plain" /\ r.curlies = l.curlies
    <3>1. j = [type |-> l.type, start |-> l.start, stop |-> l.stop, line |-> l.line,
               cur |-> l.cur + 1, ws |-> l.ws, piece |-> l.piece, curlies |-> l.curlies]
      BY <1>4 DEF Lexemes
    <3> QED BY <2>6, <3>1
  <2>8. PICK c : c = Append(w, f)  OBVIOUS
  <2>9. /\ text' = text /\ pos' = p /\ lex' = r /\ mode' = "interpolate" /\ str' = s
        /\ calls' = c /\ tokens' = tokens
    BY <1>4, <1>12, <2>1, <2>2, <2>4, <2>6, <2>8 DEF ProcessNewline
  <2>10. f \in Frames(text)
    <3>1. Waits(text', calls', lex'.cur)  BY DEF IInv, Good, TypesOK
    <3>2. c \in Seq(Frames(text))  BY <2>9, <3>1 DEF Waits
    <3>3. Len(w) \in Nat /\ Len(c) = Len(w) + 1 /\ c[Len(w) + 1] = f  BY <2>8
    <3>4. Len(w) + 1 \in 1 .. Len(c)  BY <3>3
    <3> QED BY <3>2, <3>3, <3>4
  <2>11. PICK d : d = [level |-> e, open |-> S, lit |-> lit]  OBVIOUS
  <2>12. d \in Marks  BY <2>11 DEF Marks
  <2>13. PICK C : C = Append(W, d)  OBVIOUS
  <2>14. Above(w, W, f, d)
    <3>1. e = LevelOver(Last(w), Last(W))  BY <1>8 DEF LevelAt
    <3>2. Upon(Last(w), Last(W), f, d)  BY <1>7, <2>3, <2>11, <3>1 DEF Upon, WithinHeredoc
    <3> QED BY <3>2 DEF Above
  <2>15. lit.origin <= P /\ lit.origin \in Nat  BY <1>6, <1>7 DEF FrameOK, Lits
  <2>16. FrameOK(f, d, tokens, p)
    <3>1. lit.origin <= p  BY <1>1, <2>15
    <3>2. UpTo(f.old.curlies, p)  BY <1>3, <1>5, <2>3
    <3> QED BY <1>10, <2>3, <2>11, <3>1, <3>2 DEF FrameOK
  <2>17. /\ Calls(c, C, tokens, p) /\ c # <<>> /\ Last(c) = f
         /\ LevelAt(c, C) = LevelOver(f, d)
    <3>1. Pushed(Frames(text), c, C, tokens, p, f, d)
      BY <1>2, <2>8, <2>10, <2>12, <2>13, <2>14, <2>16, CallsPush
    <3> QED BY <3>1 DEF Pushed
  <2>18. PICK b : b = LevelOver(f, d)  OBVIOUS
  <2>19. b.below = S /\ b.given = Len(l.curlies) /\ b.heredoc = TRUE /\ b.since = lit.origin
    BY <1>5, <2>3, <2>11, <2>18 DEF LevelOver
  <2>20. PICK z : z = Reading(s, "interpolate")  OBVIOUS
  <2>21. z.piece = "Plain" /\ z.own = TRUE /\ z.type = h.type  BY <2>5, <2>20 DEF Reading
  <2>22. Keeps(r, z, tokens)  BY <2>7, <2>21 DEF Keeps
  <2>23. Own(s, b)
    <3>1. p > lit.origin  BY <2>15
    <3> QED BY <2>5, <2>19, <3>1 DEF Own
  <2>24. Piled(text, p, OpenAfter, b, r.curlies, z)
    <3>1. PICK k \in Seq(Literals(text)) : k = l.curlies  BY <1>1
    <3>2. z.piece # "Ending"  BY <2>21
    <3>3. Stack(S, b, k, z)  BY <2>19, <2>21, <3>1, <3>2, StackBase
    <3> QED BY <1>9, <2>7, <3>1, <3>3 DEF Piled
  <2>25. Ready(c) /\ ~Told(c)  BY <2>3, <2>17 DEF Ready, Told
  <2>26. s.origin <= p /\ UpTo(r.curlies, p)  BY <1>3, <2>5, <2>7
  <2>27. "interpolate" \in TextModes  BY DEF TextModes
  <2> QED BY <2>9, <2>17, <2>18, <2>20, <2>22, <2>23, <2>24, <2>25, <2>26, <2>27, ReadFits
<1> QED BY <1>11, <1>12

\* A call made between literals, or within one, waits for the line end.
LEMMA CallNewlineFits ==
  ASSUME IInv, IInv', LitInv, NEW D, Fit(D), NEW R, R = Reached(pos, lex, mode), Ready(calls),
         NEW f \in Frames(text), f.kind \notin WithinHeredoc,
         f.kind # "line" => ~Told(calls),
         f.kind = "text" /\ f.str.heredoc => LevelAt(calls, D).heredoc /\ f.str.origin > LevelAt(calls, D).since,
         NEW lit \in Lits, lit = Interrupts(f, Told(calls)), lit.origin <= R,
         NEW l \in Lexemes(text), l.curlies = lex.curlies, Keeps(l, lit, tokens),
         R <= Len(text), Piled(text, R, OpenAfter, LevelAt(calls, D), lex.curlies, lit),
         NEW p \in Nat, R < p, NEW none, NEW allow,
         ProcessNewline(l, p, none, allow, Append(calls, f))
  PROVE  LitInv'
<1>1. /\ R \in Nat /\ calls \in Seq(Frames(text)) /\ Calls(calls, D, tokens, R)
      /\ UpTo(lex.curlies, R) /\ LevelAt(calls, D) \in Levels
  BY FitParts
<1>2. PICK e \in Levels : e = LevelAt(calls, D)  BY <1>1
<1>3. PICK S \in Seq(Nat) : S = OpenAfter /\ Stack(S, e, l.curlies, lit)  BY <1>2 DEF Piled
<1>4. PICK d : d = [level |-> e, open |-> S, lit |-> lit]  OBVIOUS
<1>5. d \in Marks /\ d.level = e /\ d.lit = lit  BY <1>4 DEF Marks
<1>6. Above(calls, D, f, d)
  <2>1. CASE calls = <<>>
    <3>1. Told(calls) = FALSE  BY <2>1 DEF Told
    <3>2. e = Ground  BY <1>2, <2>1 DEF LevelAt
    <3>3. d.lit = Interrupts(f, FALSE)  BY <1>5, <3>1
    <3> QED BY <1>5, <2>1, <3>2, <3>3 DEF Above, First
  <2>2. CASE calls # <<>>
    <3>1. Last(calls).kind = "heredoc"  BY <2>2 DEF Ready
    <3>2. Last(calls).last \in BOOLEAN
      <4>1. Last(calls) \in Frames(text)  BY <1>1, <2>2, CallsPop
      <4> QED BY <4>1 DEF Frames, AnyFrame
    <3>3. Told(calls) = Last(calls).last  BY <2>2, <3>2 DEF Told
    <3>4. e = LevelOver(Last(calls), Last(D))  BY <1>2, <2>2 DEF LevelAt
    <3>5. d.lit = Interrupts(f, Last(calls).last)  BY <1>5, <3>3
    <3>6. f.kind # "line" => Last(calls).last = FALSE  BY <3>2, <3>3
    <3>7. Upon(Last(calls), Last(D), f, d)  BY <1>5, <3>1, <3>4, <3>5, <3>6 DEF Upon
    <3> QED BY <2>2, <3>7 DEF Above
  <2> QED BY <2>1, <2>2
<1>7. FrameOK(f, d, tokens, R)
  <2>1. f.kind # "heredoc"  BY DEF WithinHeredoc
  <2> QED BY <1>2, <1>5, <2>1 DEF FrameOK
<1>8. PICK w : w = Append(calls, f)  OBVIOUS
<1>9. PICK W : W = Append(D, d)  OBVIOUS
<1>10. /\ Calls(w, W, tokens, R) /\ w # <<>> /\ Last(w) = f /\ Last(W) = d
       /\ LevelAt(w, W) = LevelOver(f, d) /\ w \in Seq(Frames(text))
  <2>1. Pushed(Frames(text), w, W, tokens, R, f, d)
    BY <1>1, <1>5, <1>6, <1>7, <1>8, <1>9, CallsPush
  <2> QED BY <2>1 DEF Pushed
<1>11. f.kind # "heredoc"  BY DEF WithinHeredoc
<1>12. LevelAt(w, W) = e  BY <1>5, <1>10, <1>11 DEF LevelOver
<1>13. Last(w).kind # "heredoc" /\ Last(W).lit = lit  BY <1>5, <1>10, <1>11
<1>14. UpTo(l.curlies, R) /\ Keeps(l, Last(W).lit, tokens)  BY <1>1, <1>13
<1>15. OpenAfter \in Seq(Nat) /\ Stack(OpenAfter, LevelAt(w, W), l.curlies, Last(W).lit)
  BY <1>3, <1>12, <1>13
<1>16. ProcessNewline(l, p, none, allow, w)  BY <1>8
<1> QED BY <1>1, <1>10, <1>13, <1>14, <1>15, <1>16, NewlineFits

LEMMA LineEndForward ==
  ASSUME NEW p \in Nat, NEW q, q = AfterLineEnd(p)
  PROVE  q \in Nat /\ p < q
<1>1. q \in {p + 1, p + 2}  BY DEF AfterLineEnd
<1> QED BY <1>1

LEMMA BetweenIs ==
  ASSUME NEW b \in BOOLEAN, NEW z, z = Between(b)
  PROVE  /\ z \in Lits /\ [z EXCEPT !.any = FALSE] \in Lits
         /\ z.piece = "none" /\ z.own = b /\ z.any = TRUE /\ z.origin = 0
BY DEF Between, Lits, Pieces, Types

LEMMA LinesFit ==
  ASSUME IInv, IInv', LitInv, LineEnd \/ ContinuedLine
  PROVE  LitInv'
<1>1. PICK D : Fit(D)  BY DEF LitInv
<1>2. /\ pos \in Nat \ {0} /\ Len(text) \in Nat /\ LevelAt(calls, D) \in Levels
      /\ lex \in Lexemes(text)
  BY <1>1, FitParts
<1>3. mode = "dispatch"  BY DEF LineEnd, ContinuedLine, Dispatch
<1>4. /\ Ready(calls) /\ lex.piece = "none" /\ Reached(pos, lex, mode) = pos
      /\ Told(calls) => At(text, pos) \in Ends
      /\ Piled(text, pos, OpenAfter, LevelAt(calls, D), lex.curlies, Between(Told(calls)))
      /\ Told(calls) \in BOOLEAN
  BY <1>1, <1>3, DispatchFit
<1>5. PICK b \in BOOLEAN : b = Told(calls)  BY <1>4
<1>6. PICK l : l = [lex EXCEPT !.type = "LINE"]  OBVIOUS
<1>7. l \in Lexemes(text) /\ l.type = "LINE" /\ l.piece = "none" /\ l.curlies = lex.curlies
  BY <1>2, <1>4, <1>6 DEF Lexemes, Types
<1>8. PICK z : z = Between(b)  OBVIOUS
<1>9. /\ z \in Lits /\ [z EXCEPT !.any = FALSE] \in Lits
      /\ z.piece = "none" /\ z.own = b /\ z.any = TRUE /\ z.origin = 0
  BY <1>8, BetweenIs
<1>10. pos <= Len(text)
  <2>1. At(text, pos) \in LineEnds \cup {"\\"}  BY CharAt DEF LineEnd, ContinuedLine, Dispatch
  <2>2. At(text, pos) # "end"  BY <2>1 DEF LineEnds
  <2> QED BY <1>2, <2>2 DEF At
<1>11. CASE LineEnd
  <2>1. PICK f : f = Frame("line")  OBVIOUS
  <2>2. f.kind = "line"  BY <2>1 DEF Frame
  <2>3. f \in Frames(text)
    <3>1. PICK w : w = Append(calls, f)  OBVIOUS
    <3>2. Waits(text, w, lex.cur)  BY <2>1, <3>1, FrameIs
    <3>3. w \in Seq(Frames(text)) /\ calls \in Seq(Frames(text))
      BY <1>1, <3>2, FitParts DEF Waits
    <3>4. Len(calls) \in Nat /\ Len(w) = Len(calls) + 1 /\ w[Len(calls) + 1] = f  BY <3>1, <3>3
    <3>5. Len(calls) + 1 \in 1 .. Len(w)  BY <3>4
    <3> QED BY <3>3, <3>4, <3>5
  <2>4. PICK y : y = [z EXCEPT !.any = FALSE]  OBVIOUS
  <2>5. /\ y \in Lits /\ y.piece = "none" /\ y.own = b /\ y.origin = 0 /\ y.any = FALSE
        /\ y.type = z.type
    BY <1>9, <2>4 DEF Lits
  <2>6. y = Interrupts(f, Told(calls))  BY <1>5, <1>8, <2>2, <2>4 DEF Interrupts
  <2>7. Keeps(l, y, tokens)
    <3>1. y.type = "LINE"  BY <1>8, <2>5 DEF Between
    <3> QED BY <1>7, <2>5, <3>1 DEF Keeps
  <2>8. Piled(text, pos, OpenAfter, LevelAt(calls, D), lex.curlies, y)
    BY <1>4, <1>5, <1>8, <1>9, <2>5, StackSame DEF Piled
  <2>9. PICK q : q = AfterLineEnd(pos)  OBVIOUS
  <2>10. q \in Nat /\ pos < q  BY <1>2, <2>9, LineEndForward
  <2>11. ProcessNewline(l, q, FALSE, TRUE, Append(calls, f))
    BY <1>6, <1>11, <2>1, <2>9 DEF LineEnd, Newline
  <2>12. y.origin <= pos  BY <1>2, <2>5
  <2>13. f.kind \notin WithinHeredoc /\ f.kind # "text"  BY <2>2 DEF WithinHeredoc
  <2> QED BY <1>1, <1>4, <1>7, <1>10, <2>2, <2>3, <2>5, <2>6, <2>7, <2>8, <2>10, <2>11, <2>12, <2>13,
             CallNewlineFits
<1>12. CASE ContinuedLine
  <2>1. PICK f : f = Frame("restep")  OBVIOUS
  <2>2. f.kind = "restep"  BY <2>1 DEF Frame
  <2>3. f \in Frames(text)
    <3>1. PICK w : w = Append(calls, f)  OBVIOUS
    <3>2. Waits(text, w, lex.cur)  BY <2>1, <3>1, FrameIs
    <3>3. w \in Seq(Frames(text)) /\ calls \in Seq(Frames(text))
      BY <1>1, <3>2, FitParts DEF Waits
    <3>4. Len(calls) \in Nat /\ Len(w) = Len(calls) + 1 /\ w[Len(calls) + 1] = f  BY <3>1, <3>3
    <3>5. Len(calls) + 1 \in 1 .. Len(w)  BY <3>4
    <3> QED BY <3>3, <3>4, <3>5
  <2>4. b = FALSE
    <3>1. At(text, pos) = "\\"  BY <1>12, CharAt DEF ContinuedLine, Dispatch
    <3>2. At(text, pos) \notin Ends  BY <3>1 DEF Ends, LineEnds
    <3> QED BY <1>4, <1>5, <3>2
  <2>5. z = Interrupts(f, Told(calls))  BY <1>8, <2>2, <2>4 DEF Interrupts
  <2>6. Keeps(l, z, tokens)  BY <1>7, <1>9 DEF Keeps
  <2>7. Piled(text, pos, OpenAfter, LevelAt(calls, D), lex.curlies, z)  BY <1>4, <1>5, <1>8
  <2>8. PICK p \in Nat : p = pos + 1  BY <1>2
  <2>9. PICK q : q = AfterLineEnd(p)  OBVIOUS
  <2>10. q \in Nat /\ p < q  BY <2>9, LineEndForward
  <2>11. pos < q  BY <1>2, <2>8, <2>10
  <2>12. ProcessNewline(l, q, FALSE, TRUE, Append(calls, f))
    BY <1>6, <1>12, <2>1, <2>8, <2>9 DEF ContinuedLine, Newline
  <2>13. z.origin <= pos  BY <1>2, <1>9
  <2>14. f.kind \notin WithinHeredoc /\ f.kind # "text" /\ ~Told(calls)
    BY <1>5, <2>2, <2>4 DEF WithinHeredoc
  <2> QED BY <1>1, <1>4, <1>7, <1>9, <1>10, <2>2, <2>3, <2>5, <2>6, <2>7, <2>10, <2>11, <2>12, <2>13,
             <2>14, CallNewlineFits
<1> QED BY <1>11, <1>12

LEMMA TextNewlineFits ==
  ASSUME IInv, IInv', LitInv, mode \in TextModes, pos <= Len(text), NEW p \in Nat, pos <= p,
         LineInText(p)
  PROVE  LitInv'
<1>1. PICK D : Fit(D)  BY DEF LitInv
<1>2. /\ Ready(calls) /\ ~Told(calls) /\ Keeps(lex, Reading(str, mode), tokens)
      /\ Own(str, LevelAt(calls, D)) /\ str.origin <= pos
      /\ Piled(text, pos, OpenAfter, LevelAt(calls, D), lex.curlies, Reading(str, mode))
      /\ Reached(pos, lex, mode) = pos
  BY <1>1, TextFit
<1>3. /\ pos \in Nat /\ str \in Literals(text) /\ lex \in Lexemes(text)
  BY <1>1, FitParts
<1>4. PICK s : s = [str EXCEPT !.nested = Nested(pos)]  OBVIOUS
<1>5. /\ s \in Literals(text) /\ s.heredoc = str.heredoc /\ s.origin = str.origin
      /\ s.type = str.type /\ s.continuing = str.continuing
  <2>1. str.nested \in Nat  BY <1>3 DEF Literals
  <2>2. Nested(pos) \in Nat  BY <2>1 DEF Nested
  <2> QED BY <1>3, <1>4, <2>2 DEF Literals
<1>6. PICK f : f = [Frame("text") EXCEPT !.str.nested = Nested(pos)]  OBVIOUS
<1>7. f = [kind |-> "text", mode |-> mode, str |-> s, old |-> lex, comment |-> FALSE,
           last |-> FALSE]
  BY <1>4, <1>6 DEF Frame
<1>8. f \in Frames(text)
  <2>1. f \in AnyFrame(text)  BY <1>3, <1>5, <1>7 DEF AnyFrame, Modes
  <2> QED BY <1>7, <2>1 DEF Frames
<1>9. PICK z : z = Reading(str, mode)  OBVIOUS
<1>10. z = Interrupts(f, Told(calls))
  <2>1. Reading(s, mode) = z  BY <1>5, <1>9 DEF Reading
  <2> QED BY <1>7, <2>1 DEF Interrupts
<1>11. z \in Lits /\ z.origin = str.origin
  <2>1. str.type \in Types /\ str.origin \in Nat /\ str.heredoc \in BOOLEAN
    BY <1>3 DEF Literals, Types
  <2> QED BY <1>9, <2>1 DEF Reading, Lits, Pieces
<1>12. PICK q : q = AfterLineEnd(p)  OBVIOUS
<1>13. q \in Nat /\ p < q  BY <1>12, LineEndForward
<1>14. pos < q  BY <1>3, <1>13
<1>15. ProcessNewline(lex, q, str.heredoc, FALSE, Append(calls, f))
  BY <1>6, <1>12 DEF LineInText
<1>16. /\ f.kind \notin WithinHeredoc /\ f.kind = "text" /\ f.str = s
  BY <1>7 DEF WithinHeredoc
<1>17. f.str.heredoc => LevelAt(calls, D).heredoc /\ f.str.origin > LevelAt(calls, D).since
  BY <1>2, <1>5, <1>16 DEF Own
<1>18. z.origin <= pos /\ lex.curlies = lex.curlies  BY <1>2, <1>11
<1> QED BY <1>1, <1>2, <1>3, <1>8, <1>9, <1>10, <1>11, <1>13, <1>14, <1>15, <1>16, <1>17, <1>18,
           CallNewlineFits

LEMMA TextLinesFit ==
  ASSUME IInv, IInv', LitInv, NewlineInText \/ EscapedNewline
  PROVE  LitInv'
<1>1. IsText(text) /\ text \in Seq(STRING) /\ Len(text) \in Nat  BY TextGiven
<1>2. pos \in Nat \ {0}  BY InvParts
<1>3. Char(pos) # "end" /\ mode \in TextModes
  BY DEF NewlineInText, EscapedNewline, InEscape, InText, InLiteral, LineEnds, TextModes
<1>4. pos \in 1 .. Len(text) /\ pos + 1 \in 1 .. Len(text) + 1  BY <1>3, Within
<1>5. pos <= Len(text)  BY <1>1, <1>4
<1>6. CASE NewlineInText
  <2>1. LineInText(pos) /\ pos \in Nat /\ pos <= pos  BY <1>2, <1>6 DEF NewlineInText
  <2> QED BY <1>3, <1>5, <2>1, TextNewlineFits
<1>7. CASE EscapedNewline
  <2>1. PICK r : r = pos + 1  OBVIOUS
  <2>2. PICK t : t = EscapeTarget(r)  OBVIOUS
  <2>3. LineInText(t.at) /\ Char(pos) = "\\"  BY <1>7, <2>1, <2>2 DEF EscapedNewline, InEscape
  <2>4. At(text, r - 1) = "\\" /\ r \in 1 .. Len(text) + 1 /\ r > 1
    BY <1>2, <1>4, <2>1, <2>3, CharAt
  <2>5. t.at \in 1 .. Len(text) + 1 /\ Passes(text, r, t.at)
    BY <1>1, <2>2, <2>4, EscapeTargetPasses
  <2>6. PICK a \in Nat : a = t.at /\ r <= a  BY <1>1, <2>4, <2>5 DEF Passes
  <2>7. pos <= a  BY <1>2, <2>1, <2>6
  <2> QED BY <1>3, <1>5, <2>3, <2>6, <2>7, TextNewlineFits
<1> QED BY <1>6, <1>7

-----------------------------------------------------------------------------
(* Which literal goes on: comments, and calls that return.                 *)

\* What is known where a call waits.
LEMMA WaitFit ==
  ASSUME IInv, NEW D, Fit(D), mode \in {"comment", "return"}
  PROVE  /\ calls # <<>> /\ Last(calls).kind # "heredoc" /\ Keeps(lex, Last(D).lit, tokens)
         /\ Piled(text, pos, OpenAfter, LevelAt(calls, D), lex.curlies, Last(D).lit)
         /\ Reached(pos, lex, mode) = pos
<1>1. WaitOK(text, pos, lex, calls, tokens, OpenAfter, D)  BY DEF Fit, Fits
<1>2. Reached(pos, lex, mode) = pos  BY DEF Reached
<1> QED BY <1>1, <1>2 DEF WaitOK

LEMMA CommentFits ==
  ASSUME IInv, LitInv, CommentText \/ CommentUnterminated
  PROVE  LitInv'
<1>1. PICK D : Fit(D)  BY DEF LitInv
<1>2. mode \in {"comment", "return"}  BY DEF CommentText, CommentUnterminated
<1>3. /\ calls # <<>> /\ Last(calls).kind # "heredoc" /\ Keeps(lex, Last(D).lit, tokens)
      /\ Piled(text, pos, OpenAfter, LevelAt(calls, D), lex.curlies, Last(D).lit)
      /\ Reached(pos, lex, mode) = pos
  BY <1>1, <1>2, WaitFit
<1>4. pos \in Nat /\ Len(text) \in Nat /\ lex \in Lexemes(text)  BY <1>1, FitParts
<1>5. ASSUME NEW p \in Nat, pos <= p, NEW m \in {"comment", "return"}, NEW l,
             l.type = lex.type, l.piece = lex.piece, l.curlies = lex.curlies,
             text' = text, pos' = p, lex' = l, mode' = m, str' = str, calls' = calls,
             tokens' = tokens
      PROVE  LitInv'
  <2>1. Calls(calls, D, tokens, p) /\ UpTo(l.curlies, p)  BY <1>1, <1>3, <1>5, GoneOn
  <2>2. Piled(text, p, OpenAfter, LevelAt(calls, D), l.curlies, Last(D).lit)
    BY <1>3, <1>4, <1>5, PiledOn
  <2>3. Keeps(l, Last(D).lit, tokens)  BY <1>3, <1>5 DEF Keeps
  <2> QED BY <1>3, <1>5, <2>1, <2>2, <2>3, WaitFits
<1>6. CASE CommentText
  <2>1. PICK next : next = CASE Char(pos) = "\n" -> pos + 1
                             [] Char(pos) \in {"\r", "nul"} -> pos
                             [] OTHER -> pos + 1
    OBVIOUS
  <2>2. next \in Nat /\ pos <= next
    <3>1. next = pos \/ next = pos + 1  BY <2>1
    <3> QED BY <1>4, <3>1
  <2>3. PICK ends : ends = (Char(pos) \in LineEnds /\ IsCommentEnd(next))  OBVIOUS
  <2>4. PICK l : l = IF Char(pos) \in LineEnds THEN [lex EXCEPT !.cur = @ + 1] ELSE lex  OBVIOUS
  <2>5. l.type = lex.type /\ l.piece = lex.piece /\ l.curlies = lex.curlies
    BY <1>4, <2>4 DEF Lexemes
  <2>6. PICK p : p = IF ends THEN next + 4 ELSE next  OBVIOUS
  <2>7. p \in Nat /\ pos <= p  BY <1>4, <2>2, <2>6
  <2>8. PICK m : m = IF ends THEN "return" ELSE mode  OBVIOUS
  <2>9. m \in {"comment", "return"}  BY <1>2, <2>8
  <2>10. /\ text' = text /\ pos' = p /\ lex' = l /\ mode' = m /\ str' = str /\ calls' = calls
         /\ tokens' = tokens
    BY <1>6, <2>1, <2>3, <2>4, <2>6, <2>8 DEF CommentText
  <2> QED BY <1>5, <2>5, <2>7, <2>9, <2>10
<1>7. CASE CommentUnterminated
  <2>1. PICK l : l = [lex EXCEPT !.stop = pos]  OBVIOUS
  <2>2. l.type = lex.type /\ l.piece = lex.piece /\ l.curlies = lex.curlies
    BY <1>4, <2>1 DEF Lexemes
  <2>3. /\ text' = text /\ pos' = pos /\ lex' = l /\ mode' = "return" /\ str' = str
        /\ calls' = calls /\ tokens' = tokens
    BY <1>7, <2>1 DEF CommentUnterminated
  <2>4. pos <= pos  BY <1>4
  <2> QED BY <1>4, <1>5, <2>2, <2>3, <2>4
<1> QED BY <1>6, <1>7

\* What was so when the call was made that returns now, which was made where lexemes are read.
LEMMA ReturnFit ==
  ASSUME IInv, NEW D, Fit(D), mode = "return", NEW f, f = Last(calls), NEW w, w = Front(calls),
         NEW W, W = Front(D), f.kind \notin WithinHeredoc, NEW z, z = Interrupts(f, Told(w))
  PROVE  /\ f \in Frames(text) /\ Ready(w) /\ Calls(w, W, tokens, pos) /\ Told(w) \in BOOLEAN
         /\ f.kind # "line" => ~Told(w)
         /\ Keeps(lex, z, tokens) /\ z.origin <= pos
         /\ Piled(text, pos, OpenAfter, LevelAt(w, W), lex.curlies, z)
         /\ f.kind = "text" /\ f.str.heredoc =>
              LevelAt(w, W).heredoc /\ f.str.origin > LevelAt(w, W).since
         /\ UpTo(lex.curlies, pos) /\ lex \in Lexemes(text) /\ pos \in Nat
<1>1. /\ calls # <<>> /\ Keeps(lex, Last(D).lit, tokens)
      /\ Piled(text, pos, OpenAfter, LevelAt(calls, D), lex.curlies, Last(D).lit)
      /\ Reached(pos, lex, mode) = pos
  BY WaitFit
<1>2. /\ calls \in Seq(Frames(text)) /\ Calls(calls, D, tokens, pos) /\ UpTo(lex.curlies, pos)
      /\ lex \in Lexemes(text) /\ pos \in Nat
  BY <1>1, FitParts
<1>3. PICK d : d = Last(D)  OBVIOUS
<1>4. /\ Calls(w, W, tokens, pos) /\ w \in Seq(Frames(text))
      /\ f \in Frames(text) /\ d \in Marks /\ Above(w, W, f, d)
      /\ FrameOK(f, d, tokens, pos) /\ d.level = LevelAt(w, W)
  BY <1>1, <1>2, <1>3, CallsPop
<1>5. f.kind # "heredoc"  BY DEF WithinHeredoc
<1>6. LevelAt(calls, D) = LevelAt(w, W)
  <2>1. LevelAt(calls, D) = d.level  BY <1>1, <1>3, <1>5 DEF LevelAt, LevelOver
  <2> QED BY <1>4, <2>1
<1>7. /\ Ready(w) /\ Told(w) \in BOOLEAN /\ d.lit = z
      /\ f.kind # "line" => ~Told(w)
  <2>1. CASE w = <<>>
    <3>1. Told(w) = FALSE  BY <2>1 DEF Told
    <3>2. First(f, d)  BY <1>4, <2>1 DEF Above
    <3>3. d.lit = z  BY <3>1, <3>2 DEF First
    <3> QED BY <2>1, <3>1, <3>3 DEF Ready
  <2>2. CASE w # <<>>
    <3>1. Upon(Last(w), Last(W), f, d)  BY <1>4, <2>2 DEF Above
    <3>2. Last(w) \in Frames(text)  BY <1>4, <2>2, CallsPop
    <3>3. Last(w).last \in BOOLEAN  BY <3>2 DEF Frames, AnyFrame
    <3>4. Told(w) = Last(w).last  BY <2>2, <3>3 DEF Told
    <3>5. d.lit = z  BY <3>1, <3>4 DEF Upon
    <3> QED BY <3>1, <3>3, <3>4, <3>5 DEF Upon, Ready
  <2> QED BY <2>1, <2>2
<1>8. z.origin <= pos  BY <1>4, <1>7 DEF FrameOK
<1>9. /\ Keeps(lex, z, tokens)
      /\ Piled(text, pos, OpenAfter, LevelAt(w, W), lex.curlies, z)
  BY <1>1, <1>3, <1>6, <1>7
<1>10. f.kind = "text" /\ f.str.heredoc =>
         LevelAt(w, W).heredoc /\ f.str.origin > LevelAt(w, W).since
  BY <1>4 DEF FrameOK
<1> QED BY <1>2, <1>4, <1>7, <1>8, <1>9, <1>10

LEMMA ReturnsFit ==
  ASSUME IInv, LitInv, Return
  PROVE  LitInv'
<1>1. PICK D : Fit(D)  BY DEF LitInv
<1>2. PICK f : f = Last(calls)  OBVIOUS
<1>3. PICK w : w = Front(calls)  OBVIOUS
<1>4. PICK W : W = Front(D)  OBVIOUS
<1>5. mode = "return" /\ calls' = w
  BY <1>3 DEF Return, ReturnToLoad, ReturnToLine, ReturnToHeredocEnd, ReturnToSkipLine,
              ReturnToText, ReturnToCharacter, Pop
<1>6. PICK z : z = Interrupts(f, Told(w))  OBVIOUS
<1>7. PICK b : b = Told(w)  OBVIOUS
<1>8. ASSUME f.kind \notin WithinHeredoc
      PROVE  /\ f \in Frames(text) /\ Ready(w) /\ Calls(w, W, tokens, pos) /\ Told(w) \in BOOLEAN
             /\ f.kind # "line" => ~Told(w)
             /\ Keeps(lex, z, tokens) /\ z.origin <= pos
             /\ Piled(text, pos, OpenAfter, LevelAt(w, W), lex.curlies, z)
             /\ f.kind = "text" /\ f.str.heredoc =>
                  LevelAt(w, W).heredoc /\ f.str.origin > LevelAt(w, W).since
             /\ UpTo(lex.curlies, pos) /\ lex \in Lexemes(text) /\ pos \in Nat
  BY <1>1, <1>2, <1>3, <1>4, <1>5, <1>6, <1>8, ReturnFit
<1>9. CASE ReturnToLoad \/ ReturnToSkipLine
  <2>1. f.kind \in {"load", "restep"}  BY <1>2, <1>9 DEF ReturnToLoad, ReturnToSkipLine, Pop
  <2>2. f.kind \notin WithinHeredoc /\ f.kind # "line"  BY <2>1 DEF WithinHeredoc
  <2>3. z = Between(FALSE)  BY <1>6, <2>1 DEF Interrupts
  <2>4. PICK l : l = lex'  OBVIOUS
  <2>5. l.piece = "none" /\ l.curlies = lex.curlies
    <3>1. lex \in Lexemes(text)  BY <1>8, <2>2
    <3> QED BY <1>9, <2>4, <3>1 DEF ReturnToLoad, ReturnToSkipLine, Restep, Lexemes
  <2>6. /\ text' = text /\ pos' = pos /\ lex' = l /\ mode' = "dispatch" /\ str' = str
        /\ calls' = w /\ tokens' = tokens
    BY <1>5, <1>9, <2>4 DEF ReturnToLoad, ReturnToSkipLine
  <2>7. /\ Calls(w, W, tokens, pos) /\ UpTo(l.curlies, pos) /\ Ready(w) /\ ~Told(w)
        /\ Piled(text, pos, OpenAfter, LevelAt(w, W), l.curlies, Between(FALSE))
    BY <1>8, <2>2, <2>3, <2>5
  <2> QED BY <2>5, <2>6, <2>7, SoughtFits
<1>10. CASE ReturnToLine
  <2>1. f.kind = "line"  BY <1>2, <1>10 DEF ReturnToLine, Pop
  <2>2. f.kind \notin WithinHeredoc  BY <2>1 DEF WithinHeredoc
  <2>3. z = [Between(b) EXCEPT !.any = FALSE]  BY <1>6, <1>7, <2>1 DEF Interrupts
  <2>4. z.piece = "none" /\ z.own = b /\ z.any = FALSE /\ z.type = "LINE"
    BY <2>3 DEF Between
  <2>5. PICK l : l = [lex EXCEPT !.start = pos, !.stop = pos]  OBVIOUS
  <2>6. l.type = lex.type /\ l.piece = lex.piece /\ l.curlies = lex.curlies
    BY <1>8, <2>2, <2>5 DEF Lexemes
  <2>7. l.type = "LINE" /\ l.piece = "none"  BY <1>8, <2>2, <2>4, <2>6 DEF Keeps
  <2>8. Reached(pos, l, "parser") = pos  BY <2>7 DEF Reached, Rereadable
  <2>9. /\ text' = text /\ pos' = pos /\ lex' = l /\ mode' = "parser" /\ str' = str
        /\ calls' = w /\ tokens' = tokens
    BY <1>5, <1>10, <2>5 DEF ReturnToLine
  <2>10. PICK y : y = Between(b)  OBVIOUS
  <2>11. y.piece # "Ending" /\ y.own = z.own  BY <2>4, <2>10 DEF Between
  <2>12. Piled(text, pos, OpenAfter, LevelAt(w, W), l.curlies, Between(Told(w)))
    BY <1>7, <1>8, <2>2, <2>4, <2>6, <2>10, <2>11, StackSame DEF Piled
  <2>13. Calls(w, W, tokens, pos) /\ UpTo(l.curlies, pos) /\ Ready(w)  BY <1>8, <2>2, <2>6
  <2> QED BY <2>7, <2>8, <2>9, <2>12, <2>13, GivenFits
<1>11. CASE ReturnToCharacter
  <2>1. f.kind = "character"  BY <1>2, <1>11 DEF ReturnToCharacter, Pop
  <2>2. f.kind \notin WithinHeredoc /\ f.kind # "line"  BY <2>1 DEF WithinHeredoc
  <2>3. z.piece = "Plain" /\ z.own = FALSE  BY <1>6, <2>1 DEF Interrupts
  <2>4. PICK l : l = [lex EXCEPT !.type = "STRING", !.piece = "Plain", !.stop = pos]  OBVIOUS
  <2>5. l.type = "STRING" /\ l.piece = "Plain" /\ l.curlies = lex.curlies
    BY <1>8, <2>2, <2>4 DEF Lexemes
  <2>6. PICK s : s = Literal("STRING", "end", "end", f.old.start)  OBVIOUS
  <2>7. s.type = "STRING" /\ s.heredoc = FALSE  BY <2>6 DEF Literal
  <2>8. Reached(pos, l, "parser") = pos  BY <2>5 DEF Reached, Rereadable
  <2>9. /\ text' = text /\ pos' = pos /\ lex' = l /\ mode' = "parser" /\ str' = s
        /\ calls' = w /\ tokens' = tokens
    BY <1>2, <1>5, <1>11, <2>4, <2>6 DEF ReturnToCharacter
  <2>10. PICK y : y = Between(FALSE)  OBVIOUS
  <2>11. y.piece # "Ending" /\ y.own = z.own  BY <2>3, <2>10 DEF Between
  <2>12. Told(w) = FALSE  BY <1>8, <2>2
  <2>13. Piled(text, pos, OpenAfter, LevelAt(w, W), l.curlies, Between(Told(w)))
    BY <1>8, <2>2, <2>3, <2>5, <2>10, <2>11, <2>12, StackSame DEF Piled
  <2>14. Calls(w, W, tokens, pos) /\ UpTo(l.curlies, pos) /\ Ready(w)  BY <1>8, <2>2, <2>5
  <2> QED BY <2>5, <2>7, <2>8, <2>9, <2>12, <2>13, <2>14, GivenFits
<1>12. CASE ReturnToText
  <2>1. f.kind = "text"  BY <1>2, <1>12 DEF ReturnToText, Pop
  <2>2. f.kind \notin WithinHeredoc /\ f.kind # "line"  BY <2>1 DEF WithinHeredoc
  <2>3. PICK m : m = f.mode  OBVIOUS
  <2>4. PICK s : s = f.str  OBVIOUS
  <2>5. m \in TextModes  BY <1>8, <2>1, <2>2, <2>3 DEF Frames
  <2>6. z = Reading(s, m)  BY <1>6, <2>1, <2>3, <2>4 DEF Interrupts
  <2>7. Own(s, LevelAt(w, W))  BY <1>8, <2>1, <2>2, <2>4 DEF Own
  <2>8. s.origin <= pos
    <3>1. z.origin = s.origin  BY <2>6 DEF Reading
    <3> QED BY <1>8, <2>2, <3>1
  <2>9. /\ text' = text /\ pos' = pos /\ lex' = lex /\ mode' = m /\ str' = s
        /\ calls' = w /\ tokens' = tokens
    BY <1>2, <1>5, <1>12, <2>3, <2>4 DEF ReturnToText
  <2>10. /\ Calls(w, W, tokens, pos) /\ UpTo(lex.curlies, pos) /\ Ready(w) /\ ~Told(w)
         /\ Keeps(lex, Reading(s, m), tokens)
         /\ Piled(text, pos, OpenAfter, LevelAt(w, W), lex.curlies, Reading(s, m))
    BY <1>8, <2>2, <2>6
  <2> QED BY <2>5, <2>7, <2>8, <2>9, <2>10, ReadFits
<1>13. CASE ReturnToHeredocEnd
  <2>1. f.kind = "after"  BY <1>2, <1>13 DEF ReturnToHeredocEnd, Pop
  <2>2. /\ calls # <<>> /\ Keeps(lex, Last(D).lit, tokens)
        /\ Piled(text, pos, OpenAfter, LevelAt(calls, D), lex.curlies, Last(D).lit)
        /\ Reached(pos, lex, mode) = pos
    BY <1>1, <1>5, WaitFit
  <2>3. /\ calls \in Seq(Frames(text)) /\ Calls(calls, D, tokens, pos) /\ UpTo(lex.curlies, pos)
        /\ lex \in Lexemes(text)
    BY <1>1, <2>2, FitParts
  <2>4. PICK d : d = Last(D)  OBVIOUS
  <2>5. Calls(w, W, tokens, pos) /\ Above(w, W, f, d) /\ d.level = LevelAt(w, W)
    BY <1>2, <1>3, <1>4, <2>2, <2>3, <2>4, CallsPop
  <2>6. w # <<>>
    <3>1. ~First(f, d)  BY <2>1 DEF First, WithinHeredoc
    <3> QED BY <2>5, <3>1 DEF Above
  <2>7. Upon(Last(w), Last(W), f, d)  BY <2>5, <2>6 DEF Above
  <2>8. Last(w).kind # "heredoc" /\ d.lit = Last(W).lit  BY <2>1, <2>7 DEF Upon, WithinHeredoc
  <2>9. LevelAt(calls, D) = LevelAt(w, W)
    <3>1. LevelAt(calls, D) = d.level  BY <1>2, <2>1, <2>2, <2>4 DEF LevelAt, LevelOver
    <3> QED BY <2>5, <3>1
  <2>10. PICK l : l = [lex EXCEPT !.start = pos, !.stop = pos]  OBVIOUS
  <2>11. l.type = lex.type /\ l.piece = lex.piece /\ l.curlies = lex.curlies
    BY <2>3, <2>10 DEF Lexemes
  <2>12. PICK m : m = IF f.comment /\ IsComment(pos) THEN "comment" ELSE "return"  OBVIOUS
  <2>13. m \in {"comment", "return"}  BY <2>12
  <2>14. /\ text' = text /\ pos' = pos /\ lex' = l /\ mode' = m /\ str' = str
         /\ calls' = w /\ tokens' = tokens
    BY <1>2, <1>5, <1>13, <2>10, <2>12 DEF ReturnToHeredocEnd
  <2>15. /\ Keeps(l, Last(W).lit, tokens) /\ UpTo(l.curlies, pos)
         /\ Piled(text, pos, OpenAfter, LevelAt(w, W), l.curlies, Last(W).lit)
    BY <2>2, <2>3, <2>4, <2>8, <2>9, <2>11 DEF Keeps
  <2> QED BY <2>5, <2>6, <2>8, <2>13, <2>14, <2>15, WaitFits
<1> QED BY <1>9, <1>10, <1>11, <1>12, <1>13 DEF Return

-----------------------------------------------------------------------------
(* Which literal goes on: lexemes that are read again.                     *)

\* A lexeme is read again, and is another one of no literal with groups.
LEMMA AgainGiven ==
  ASSUME IInv, LitInv, mode = "parser", lex.type \in Rereadable \cup {"SIGN"},
         NEW R, R = Reached(pos, lex, mode), NEW p \in Nat, R <= p, NEW l,
         l.curlies = lex.curlies, l.type \notin Rereadable \cup {"CURLY_OPEN", "CURLY_CLOSE", "END"},
         NEW s, l.piece = "none" \/ (l.piece = "Plain" /\ l.type = s.type /\ s.heredoc = FALSE),
         text' = text, pos' = p, lex' = l, mode' = "parser", str' = s, calls' = calls,
         tokens' = tokens
  PROVE  LitInv'
<1>1. PICK D : Fit(D)  BY DEF LitInv
<1>2. /\ Ready(calls) /\ ~Told(calls)
      /\ Piled(text, R, OpenAfter, LevelAt(calls, D), lex.curlies, Between(FALSE))
  BY <1>1, AgainFit
<1>3. R \in Nat /\ Len(text) \in Nat  BY <1>1, FitParts
<1>4. Reached(p, l, "parser") = p  BY DEF Reached
<1>5. Calls(calls, D, tokens, p) /\ UpTo(l.curlies, p)  BY <1>1, GoneOn
<1>6. Told(calls) = FALSE  BY <1>2 DEF Told
<1>7. Piled(text, p, OpenAfter, LevelAt(calls, D), l.curlies, Between(Told(calls)))
  BY <1>2, <1>3, <1>6, PiledOn
<1> QED BY <1>2, <1>4, <1>5, <1>7, GivenFits

\* A lexeme is read again, as the beginning of a literal.
LEMMA AgainBegins ==
  ASSUME IInv, LitInv, mode = "parser", lex.type \in Rereadable, NEW p \in Nat, lex.start <= p,
         NEW m \in TextModes, NEW type, NEW a, NEW b, NEW s, s = Literal(type, a, b, lex.start),
         NEW l, l = [lex EXCEPT !.type = s.type, !.piece = "Plain"],
         text' = text, pos' = p, lex' = l, mode' = m, str' = s, calls' = calls, tokens' = tokens
  PROVE  LitInv'
<1>1. PICK D : Fit(D)  BY DEF LitInv
<1>2. PICK R : R = Reached(pos, lex, mode)  OBVIOUS
<1>3. R = lex.start  BY <1>2 DEF Reached
<1>4. /\ Ready(calls) /\ ~Told(calls)
      /\ Piled(text, R, OpenAfter, LevelAt(calls, D), lex.curlies, Between(FALSE))
  BY <1>1, <1>2, AgainFit
<1>5. lex \in Lexemes(text)  BY InvParts
<1>6. l.curlies = lex.curlies /\ l.piece = "Plain" /\ l.type = s.type  BY <1>5 DEF Lexemes
<1>7. s.continuing = FALSE /\ s.heredoc = FALSE /\ s.origin = lex.start  BY DEF Literal
<1>8. R <= p /\ s.origin <= p  BY <1>3, <1>7
<1> QED BY <1>1, <1>2, <1>4, <1>6, <1>7, <1>8, BeginFits

LEMMA LiteralsFit ==
  ASSUME IInv, LitInv, DivToRegexp \/ ModToLiteral
  PROVE  LitInv'
<1>1. mode = "parser" /\ lex.type \in Rereadable
  BY DEF DivToRegexp, ModToLiteral, Again, Rereadable
<1>2. lex \in Lexemes(text) /\ lex.start \in Nat
  <2>1. lex \in Lexemes(text)  BY InvParts
  <2> QED BY <2>1 DEF Lexemes
<1>3. PICK p \in Nat : p = lex.start + 1  BY <1>2
<1>4. "interpolate" \in TextModes /\ "simple" \in TextModes /\ "words" \in TextModes  BY DEF TextModes
<1>5. ASSUME NEW q \in Nat, lex.start <= q, NEW type, NEW a, NEW b,
             Interpolate(lex, q, Literal(type, a, b, lex.start))
      PROVE  LitInv'
  <2>1. PICK s : s = Literal(type, a, b, lex.start)  OBVIOUS
  <2>2. PICK l : l = [lex EXCEPT !.type = s.type, !.piece = "Plain"]  OBVIOUS
  <2>3. s.continuing = FALSE  BY <2>1 DEF Literal
  <2>4. /\ text' = text /\ pos' = q /\ lex' = l /\ mode' = "interpolate" /\ str' = s
        /\ calls' = calls /\ tokens' = tokens
    BY <1>5, <2>1, <2>2, <2>3 DEF Interpolate
  <2> QED BY <1>1, <1>4, <1>5, <2>1, <2>2, <2>4, AgainBegins
<1>6. ASSUME NEW q \in Nat, lex.start <= q, NEW m \in TextModes, NEW type, NEW a, NEW b,
             Simple(q, m, Literal(type, a, b, lex.start))
      PROVE  LitInv'
  <2>1. PICK s : s = Literal(type, a, b, lex.start)  OBVIOUS
  <2>2. PICK l : l = [lex EXCEPT !.type = s.type, !.piece = "Plain"]  OBVIOUS
  <2>3. /\ text' = text /\ pos' = q /\ lex' = l /\ mode' = m /\ str' = s
        /\ calls' = calls /\ tokens' = tokens
    BY <1>6, <2>1, <2>2 DEF Simple
  <2> QED BY <1>1, <1>6, <2>1, <2>2, <2>3, AgainBegins
<1>7. ASSUME NEW q \in Nat, lex.start <= q, NEW type, Delimited(type, q)  PROVE LitInv'
  <2>1. PICK r : r = IF q > Len(text) THEN q ELSE q + 1  OBVIOUS
  <2>2. r \in Nat /\ lex.start <= r  BY <1>2, <1>7, <2>1
  <2>3. Interpolate(lex, r, Literal(type, Char(q), Terminator(Char(q)), lex.start))
    BY <1>7, <2>1 DEF Delimited
  <2> QED BY <1>5, <2>2, <2>3
<1>8. ASSUME NEW q \in Nat, lex.start <= q, Finish([lex EXCEPT !.type = "NONE"], q)  PROVE LitInv'
  <2>1. PICK l : l = [lex EXCEPT !.type = "NONE"]  OBVIOUS
  <2>2. PICK D : Fit(D)  BY DEF LitInv
  <2>3. lex.piece = "none"  BY <1>1, <2>2, AgainFit
  <2>4. l.type = "NONE" /\ l.piece = "none" /\ l.curlies = lex.curlies
    BY <1>2, <2>1, <2>3 DEF Lexemes
  <2>5. PICK R : R = Reached(pos, lex, mode)  OBVIOUS
  <2>6. R <= q  BY <1>1, <1>8, <2>5 DEF Reached
  <2>7. l.type \notin Rereadable \cup {"CURLY_OPEN", "CURLY_CLOSE", "END"}
    BY <2>4 DEF Rereadable
  <2>8. /\ text' = text /\ pos' = q /\ lex' = l /\ mode' = "parser" /\ str' = str
        /\ calls' = calls /\ tokens' = tokens
    BY <1>8, <2>1 DEF Finish
  <2> QED BY <1>1, <1>8, <2>4, <2>5, <2>6, <2>7, <2>8, AgainGiven
<1>9. CASE DivToRegexp
  <2>1. Interpolate(lex, p, Literal("REGEXP", "/", "/", lex.start))  BY <1>3, <1>9 DEF DivToRegexp
  <2>2. lex.start <= p  BY <1>2, <1>3
  <2> QED BY <1>5, <2>1, <2>2
<1>10. CASE ModToLiteral
  <2> DEFINE c == Char(p)
             literal(type) == Literal(type, Char(p + 1), Terminator(Char(p + 1)), lex.start)
  <2>1. PICK r \in Nat : r = p + 1  OBVIOUS
  <2>2. PICK q \in Nat : q = p + 2  OBVIOUS
  <2>3. lex.start <= p /\ lex.start <= r /\ lex.start <= q  BY <1>2, <1>3, <2>1, <2>2
  <2>4. CASE c \in {"r", "s", "x", "Q", "W"}
    <3>1. Delimited(LiteralType(c), r)
      <4>1. "Q" \notin Letters \union Digits /\ "W" \notin Letters \union Digits
        BY DEF Letters, Digits
      <4>3. c # "q" /\ c # "w" /\ c \notin (Letters \union Digits) \ {"r", "s", "x", "q", "w"}
        BY <2>4, <4>1
      <4> QED BY <1>3, <1>10, <2>1, <2>4, <4>3 DEF ModToLiteral
    <3> QED BY <1>7, <2>3, <3>1
  <2>5. CASE c = "q"
    <3>1. Simple(q, "simple", literal("STRING"))  BY <1>3, <1>10, <2>2, <2>5 DEF ModToLiteral
    <3> QED BY <1>4, <1>6, <2>3, <3>1
  <2>6. CASE c = "w" /\ r <= Len(text)
    <3>1. Simple(q, "words", literal("ARRAY"))
      <4>1. ~(r > Len(text))
        <5>1. Len(text) \in Nat  BY TextGiven
        <5> QED BY <2>6, <5>1
      <4> QED BY <1>3, <1>10, <2>1, <2>2, <2>6, <4>1 DEF ModToLiteral
    <3> QED BY <1>4, <1>6, <2>3, <3>1
  <2>7. CASE c = "w" /\ r > Len(text)
    <3>1. Finish([lex EXCEPT !.type = "NONE"], r)
      <4>1. ~(r <= Len(text))
        <5>1. Len(text) \in Nat  BY TextGiven
        <5> QED BY <2>7, <5>1
      <4> QED BY <1>3, <1>10, <2>1, <2>7, <4>1 DEF ModToLiteral
    <3> QED BY <1>8, <2>3, <3>1
  <2>8. CASE c \in (Letters \union Digits) \ {"r", "s", "x", "q", "w"}
    <3>1. Finish([lex EXCEPT !.type = "NONE"], p)
      <4>1. c \notin {"Q", "W"}  BY <2>8 DEF Letters, Digits
      <4> QED BY <1>3, <1>10, <2>8, <4>1 DEF ModToLiteral
    <3> QED BY <1>8, <2>3, <3>1
  <2>9. CASE c \notin {"r", "s", "x", "Q", "W", "q", "w"}
             /\ c \notin (Letters \union Digits) \ {"r", "s", "x", "q", "w"}
    <3>1. Delimited("STRING", p)  BY <1>3, <1>10, <2>9 DEF ModToLiteral
    <3> QED BY <1>7, <2>3, <3>1
  <2>10. r <= Len(text) \/ r > Len(text)
    <3>1. Len(text) \in Nat  BY TextGiven
    <3> QED BY <3>1
  <2> QED BY <2>4, <2>5, <2>6, <2>7, <2>8, <2>9, <2>10
<1> QED BY <1>9, <1>10

LEMMA UnaryFits ==
  ASSUME IInv, LitInv, ExpandToUnary
  PROVE  LitInv'
<1>1. mode = "parser" /\ lex.type = "SIGN"  BY DEF ExpandToUnary, Again
<1>2. pos \in Nat /\ lex \in Lexemes(text)  BY InvParts
<1>3. PICK p \in Nat : p = pos + 1  BY <1>2
<1>4. PICK l : l = Lexeme("UNARY", p)  OBVIOUS
<1>5. l.type = "UNARY" /\ l.piece = "none" /\ l.curlies = lex.curlies
  BY <1>2, <1>4 DEF Lexeme, Lexemes
<1>6. PICK R : R = Reached(pos, lex, mode)  OBVIOUS
<1>7. R <= p
  <2>1. R = pos  BY <1>1, <1>6 DEF Reached, Rereadable
  <2> QED BY <1>2, <1>3, <2>1
<1>8. /\ text' = text /\ pos' = p /\ lex' = l /\ mode' = "parser" /\ str' = str
      /\ calls' = calls /\ tokens' = tokens
  BY <1>3, <1>4 DEF ExpandToUnary, Finish
<1>9. l.type \notin Rereadable \cup {"CURLY_OPEN", "CURLY_CLOSE", "END"}
  BY <1>5 DEF Rereadable
<1> QED BY <1>1, <1>5, <1>6, <1>7, <1>8, <1>9, AgainGiven

LEMMA ShiftFits ==
  ASSUME IInv, LitInv, LeftShiftToHeredoc
  PROVE  LitInv'
<1>1. mode = "parser" /\ lex.type \in Rereadable
  BY DEF LeftShiftToHeredoc, Again, Rereadable
<1>2. lex \in Lexemes(text) /\ lex.start \in Nat /\ pos \in Nat \ {0}
  <2>1. lex \in Lexemes(text) /\ pos \in Nat \ {0}  BY InvParts
  <2> QED BY <2>1 DEF Lexemes
<1>3. lex.start < pos /\ pos \in 1 .. Len(text) + 1  BY <1>1, AgainAt
<1>4. PICK R : R = Reached(pos, lex, mode)  OBVIOUS
<1>5. R = lex.start  BY <1>1, <1>4 DEF Reached
<1>6. lex.piece = "none"
  <2>1. PICK D : Fit(D)  BY DEF LitInv
  <2> QED BY <1>1, <2>1, AgainFit
<1>7. PICK p : p = IF Char(pos) = "-" THEN pos + 1 ELSE pos  OBVIOUS
<1>8. p \in Nat /\ R <= p  BY <1>2, <1>3, <1>5, <1>7
<1>9. CASE Char(p) \in Ident \union {"bq", "dq", "'"}
  <2>1. PICK n : n = HeredocName(p)  OBVIOUS
  <2>2. p \in 1 .. Len(text) + 1
    <3>1. CASE Char(pos) = "-"
      <4>1. pos + 1 \in 1 .. Len(text) + 1  BY <3>1, Within
      <4> QED BY <1>7, <3>1, <4>1
    <3>2. CASE Char(pos) # "-"  BY <1>3, <1>7, <3>2
    <3> QED BY <3>1, <3>2
  <2>3. IsText(text) /\ Len(text) \in Nat  BY TextGiven
  <2>4. n.stop \in 1 .. Len(text) + 1 /\ Passes(text, p, n.stop)
    BY <1>9, <2>1, <2>2, <2>3, HeredocNamePasses
  <2>5. PICK q \in Nat : q = n.stop /\ p <= q  BY <1>8, <2>3, <2>4 DEF Passes
  <2>6. R <= q  BY <1>2, <1>5, <1>8, <2>5
  <2>7. PICK l : l = [lex EXCEPT !.type = "HEREDOC", !.stop = q]  OBVIOUS
  <2>8. l.type = "HEREDOC" /\ l.piece = "none" /\ l.curlies = lex.curlies
    BY <1>2, <1>6, <2>7 DEF Lexemes
  <2>9. l.type \notin Rereadable \cup {"CURLY_OPEN", "CURLY_CLOSE", "END"}
    BY <2>8 DEF Rereadable
  <2>10. /\ text' = text /\ pos' = q /\ lex' = l /\ mode' = "parser" /\ str' = str
         /\ calls' = calls /\ tokens' = tokens
    BY <1>1, <1>7, <1>9, <2>1, <2>5, <2>7 DEF LeftShiftToHeredoc
  <2> QED BY <1>1, <1>4, <2>6, <2>8, <2>9, <2>10, AgainGiven
<1>10. CASE Char(p) \notin Ident \union {"bq", "dq", "'"}
  <2>1. PICK l : l = [lex EXCEPT !.type = "NONE", !.stop = p]  OBVIOUS
  <2>2. l.type = "NONE" /\ l.piece = "none" /\ l.curlies = lex.curlies
    BY <1>2, <1>6, <2>1 DEF Lexemes
  <2>3. l.type \notin Rereadable \cup {"CURLY_OPEN", "CURLY_CLOSE", "END"}
    BY <2>2 DEF Rereadable
  <2>4. Finish(l, p)  BY <1>7, <1>10, <2>1 DEF LeftShiftToHeredoc
  <2>5. /\ text' = text /\ pos' = p /\ lex' = l /\ mode' = "parser" /\ str' = str
        /\ calls' = calls /\ tokens' = tokens
    BY <2>4 DEF Finish
  <2> QED BY <1>1, <1>4, <1>8, <2>2, <2>3, <2>5, AgainGiven
<1> QED BY <1>9, <1>10

LEMMA QuestionFits ==
  ASSUME IInv, IInv', LitInv, QuestionToCharacter
  PROVE  LitInv'
<1>1. mode = "parser" /\ lex.type = "QUESTION" /\ lex.type \in Rereadable
  BY DEF QuestionToCharacter, Again, Rereadable
<1>2. IsText(text) /\ text \in Seq(STRING) /\ Len(text) \in Nat  BY TextGiven
<1>3. /\ pos \in 1 .. Len(text) + 1 /\ pos \in Nat \ {0} /\ lex.start \in 1 .. Len(text)
      /\ lex.start < pos
  BY <1>1, <1>2, AgainAt
<1>4. PICK D : Fit(D)  BY DEF LitInv
<1>5. PICK R \in Nat : R = Reached(pos, lex, mode) /\ R = lex.start
  <2>1. Reached(pos, lex, mode) = lex.start  BY <1>1 DEF Reached
  <2> QED BY <1>3, <2>1
<1>6. /\ Ready(calls) /\ lex.piece = "none" /\ ~Told(calls)
      /\ Piled(text, R, OpenAfter, LevelAt(calls, D), lex.curlies, Between(FALSE))
  BY <1>1, <1>4, <1>5, AgainFit
<1>7. lex \in Lexemes(text)  BY InvParts
<1>8. PICK k : k = [lex EXCEPT !.type = "STRING", !.piece = "Plain"]  OBVIOUS
<1>9. k \in Lexemes(text) /\ k.type = "STRING" /\ k.piece = "Plain" /\ k.curlies = lex.curlies
  <2>1. "STRING" \in Types /\ "Plain" \in Pieces  BY DEF Types, LiteralTypes, Pieces
  <2> QED BY <1>7, <1>8, <2>1 DEF Lexemes
<1>10. PICK p : p = pos + 1  OBVIOUS
<1>11. PICK t : t = EscapeTarget(p)  OBVIOUS
<1>12. ASSUME Char(pos) = "\\"
       PROVE  /\ p \in 1 .. Len(text) + 1 /\ p \in Nat
              /\ t.at \in 1 .. Len(text) + 1 /\ t.at \in Nat /\ pos <= t.at
  <2>1. Char(pos) \notin LineEnds \cup {"end"}  BY <1>12 DEF LineEnds
  <2>2. p - 1 = pos /\ p > 1 /\ p \in Nat \ {0}  BY <1>3, <1>10
  <2>3. At(text, p - 1) = "\\"  BY <1>12, <2>2, CharAt
  <2>4. p \in 1 .. Len(text) + 1  BY <1>10, <2>1, OneMore
  <2>5. t.at \in 1 .. Len(text) + 1 /\ Passes(text, p, t.at)
    BY <1>2, <1>11, <2>2, <2>3, <2>4, EscapeTargetPasses
  <2>6. PICK a \in Nat : a = t.at /\ p <= a  BY <1>2, <2>4, <2>5 DEF Passes
  <2> QED BY <1>3, <2>2, <2>4, <2>5, <2>6
<1>13. CASE Char(pos) = "\\" /\ IsEscapedLine(t)
  <2>1. PICK f : f = Frame("character")  OBVIOUS
  <2>2. f.kind = "character" /\ f.old = lex  BY <2>1 DEF Frame
  <2>3. f \in Frames(text)
    <3>1. PICK w : w = Append(calls, f)  OBVIOUS
    <3>2. Waits(text, w, lex.cur)  BY <2>1, <3>1, FrameIs
    <3>3. w \in Seq(Frames(text)) /\ calls \in Seq(Frames(text))
      BY <1>4, <3>2, FitParts DEF Waits
    <3>4. Len(calls) \in Nat /\ Len(w) = Len(calls) + 1 /\ w[Len(calls) + 1] = f  BY <3>1, <3>3
    <3>5. Len(calls) + 1 \in 1 .. Len(w)  BY <3>4
    <3> QED BY <3>3, <3>4, <3>5
  <2>4. PICK z : z = [piece |-> "Plain", type |-> "STRING", origin |-> R, any |-> TRUE,
                      own |-> FALSE]
    OBVIOUS
  <2>5. z \in Lits
    <3>1. "STRING" \in Types /\ "Plain" \in Pieces  BY DEF Types, LiteralTypes, Pieces
    <3> QED BY <2>4, <3>1 DEF Lits
  <2>6. z = Interrupts(f, Told(calls))
    <3>1. f.old.start = R  BY <1>5, <2>2
    <3> QED BY <2>2, <2>4, <3>1 DEF Interrupts
  <2>7. Keeps(k, z, tokens)  BY <1>9, <2>4 DEF Keeps
  <2>8. PICK y : y = Between(FALSE)  OBVIOUS
  <2>9. y.piece # "Ending" /\ y.own = z.own /\ z.piece # "Ending"  BY <2>4, <2>8 DEF Between
  <2>10. Piled(text, R, OpenAfter, LevelAt(calls, D), lex.curlies, z)
    BY <1>6, <2>8, <2>9, StackSame DEF Piled
  <2>11. PICK a \in Nat : a = t.at /\ pos <= a  BY <1>12, <1>13
  <2>12. PICK q : q = AfterLineEnd(a)  OBVIOUS
  <2>13. q \in Nat /\ a < q  BY <2>12, LineEndForward
  <2>14. R < q  BY <1>3, <1>5, <2>11, <2>13
  <2>15. ProcessNewline(k, q, FALSE, FALSE, Append(calls, f))
    BY <1>8, <1>10, <1>11, <1>13, <2>1, <2>11, <2>12 DEF QuestionToCharacter
  <2>16. f.kind \notin WithinHeredoc /\ f.kind # "text"  BY <2>2 DEF WithinHeredoc
  <2>17. z.origin <= R /\ R <= Len(text)  BY <1>2, <1>3, <1>5, <2>4
  <2> QED BY <1>4, <1>5, <1>6, <1>9, <2>3, <2>5, <2>6, <2>7, <2>10, <2>13, <2>14, <2>15, <2>16,
             <2>17, CallNewlineFits
<1>14. CASE ~(Char(pos) = "\\" /\ IsEscapedLine(t))
  <2>1. PICK q : q = IF Char(pos) = "\\" THEN EscapeEnd(t) ELSE IF AtEnd THEN pos ELSE pos + 1
    OBVIOUS
  <2>2. PICK l : l = [k EXCEPT !.stop = q]  OBVIOUS
  <2>3. PICK s : s = Literal("STRING", "end", "end", lex.start)  OBVIOUS
  <2>4. /\ text' = text /\ pos' = q /\ lex' = l /\ mode' = "parser" /\ str' = s
        /\ calls' = calls /\ tokens' = tokens
    BY <1>1, <1>8, <1>10, <1>11, <1>14, <2>1, <2>2, <2>3 DEF QuestionToCharacter
  <2>5. l.type = "STRING" /\ l.piece = "Plain" /\ l.curlies = lex.curlies
    BY <1>9, <2>2 DEF Lexemes
  <2>6. s.type = "STRING" /\ s.heredoc = FALSE  BY <2>3 DEF Literal
  <2>7. q \in Nat /\ R <= q
    <3>1. CASE Char(pos) = "\\"
      <4>1. q = EscapeEnd(t)  BY <2>1, <3>1
      <4>2. q \in Nat /\ t.at <= q  BY <1>2, <1>12, <3>1, <4>1, EscapeForward
      <4>3. PICK a \in Nat : a = t.at /\ pos <= a  BY <1>12, <3>1
      <4> QED BY <1>3, <1>5, <4>2, <4>3
    <3>2. CASE Char(pos) # "\\"
      <4>1. q = pos \/ q = pos + 1  BY <2>1, <3>2
      <4> QED BY <1>3, <1>5, <4>1
    <3> QED BY <3>1, <3>2
  <2>8. l.type \notin Rereadable \cup {"CURLY_OPEN", "CURLY_CLOSE", "END"}
    BY <2>5 DEF Rereadable
  <2> QED BY <1>1, <1>5, <2>4, <2>5, <2>6, <2>7, <2>8, AgainGiven
<1> QED BY <1>13, <1>14

-----------------------------------------------------------------------------
(* Which literal goes on: the parser.                                      *)

\* What was so when a heredoc began that is now read.
LEMMA HeredocFit ==
  ASSUME IInv, NEW D, Fit(D), mode = "parser", InHeredoc, NEW f, f = Last(calls),
         f.last \/ lex.type = "END", NEW w, w = Front(calls), NEW W, W = Front(D),
         NEW d, d = Last(D)
  PROVE  /\ f \in Frames(text) /\ f.kind = "heredoc" /\ d \in Marks /\ w \in Seq(Frames(text))
         /\ Calls(w, W, tokens, pos) /\ w # <<>> /\ Upon(Last(w), Last(W), f, d)
         /\ FrameOK(f, d, tokens, pos) /\ d.level = LevelAt(w, W)
         /\ pos <= Len(text) => f.last /\ OpenAfter \in Seq(Nat) /\ OpenAfter = d.open
<1>1. ParserOK(text, pos, lex, str, calls, tokens, OpenAfter, D)  BY DEF Fit, Fits
<1>2. f.kind = "heredoc" /\ calls # <<>>  BY DEF InHeredoc
<1>3. lex.type \in {"LINE", "END"} /\ (~(lex.type = "END") => f.last /\ lex.piece = "none")
  BY <1>1, <1>2 DEF ParserOK, Told
<1>4. Reached(pos, lex, "parser") = pos  BY <1>3 DEF Reached, Rereadable
<1>5. /\ calls \in Seq(Frames(text)) /\ Calls(calls, D, tokens, pos) /\ pos \in Nat \ {0}
      /\ LevelAt(calls, D) \in Levels /\ lex.curlies \in Seq(Literals(text))
  BY <1>4, FitParts
<1>6. /\ Calls(w, W, tokens, pos) /\ w \in Seq(Frames(text))
      /\ f \in Frames(text) /\ d \in Marks /\ Above(w, W, f, d)
      /\ FrameOK(f, d, tokens, pos) /\ d.level = LevelAt(w, W)
  BY <1>2, <1>5, CallsPop
<1>7. w # <<>>
  <2>1. ~First(f, d)  BY <1>2 DEF First, WithinHeredoc
  <2> QED BY <1>6, <2>1 DEF Above
<1>8. Upon(Last(w), Last(W), f, d)  BY <1>6, <1>7 DEF Above
<1>9. ASSUME pos <= Len(text)  PROVE f.last /\ OpenAfter \in Seq(Nat) /\ OpenAfter = d.open
  <2>1. lex.type # "END"
    <3>1. At(text, pos) # "end"
      <4>1. IsText(text) /\ Len(text) \in Nat  BY TextGiven
      <4> QED BY <1>5, <1>9, <4>1, Characters
    <3> QED BY <1>1, <3>1 DEF ParserOK
  <2>2. lex.type = "LINE" /\ f.last /\ lex.piece = "none"  BY <1>3, <2>1
  <2>3. After(OpenAfter, lex.type, lex.piece, str.origin) = OpenAfter  BY <2>2, AfterSame
  <2>4. (Told(calls) \/ LastPieceOf(lex, str)) = TRUE
    <3>1. f.last \in BOOLEAN  BY <1>6 DEF Frames, AnyFrame
    <3> QED BY <1>2, <2>2, <3>1 DEF Told
  <2>5. Piled(text, pos, OpenAfter, LevelAt(calls, D), lex.curlies, Between(TRUE))
    BY <1>1, <1>4, <2>3, <2>4 DEF ParserOK
  <2>6. PICK e \in Levels : e = LevelAt(calls, D)  BY <1>5
  <2>7. PICK z : z = Between(TRUE)  OBVIOUS
  <2>8. z.piece # "Ending" /\ z.own = TRUE  BY <2>7 DEF Between
  <2>9. PICK S \in Seq(Nat) : S = OpenAfter /\ Stack(S, e, lex.curlies, z)
    BY <1>9, <2>5, <2>6, <2>7 DEF Piled
  <2>10. S = e.below  BY <1>5, <2>8, <2>9, StackBack
  <2>11. e.below = d.open  BY <1>2, <2>6 DEF LevelAt, LevelOver
  <2> QED BY <2>2, <2>9, <2>10, <2>11
<1> QED BY <1>2, <1>6, <1>7, <1>8, <1>9

LEMMA HeredocFits ==
  ASSUME IInv, IInv', LitInv, HeredocDone
  PROVE  LitInv'
<1>1. PICK D : Fit(D)  BY DEF LitInv
<1>2. PICK f : f = Last(calls)  OBVIOUS
<1>3. PICK w : w = Front(calls)  OBVIOUS
<1>4. PICK W : W = Front(D)  OBVIOUS
<1>5. PICK d : d = Last(D)  OBVIOUS
<1>6. mode = "parser" /\ InHeredoc /\ (f.last \/ lex.type = "END")  BY <1>2 DEF HeredocDone
<1>7. /\ f \in Frames(text) /\ f.kind = "heredoc" /\ d \in Marks /\ w \in Seq(Frames(text))
      /\ Calls(w, W, tokens, pos) /\ w # <<>> /\ Upon(Last(w), Last(W), f, d)
      /\ FrameOK(f, d, tokens, pos) /\ d.level = LevelAt(w, W)
      /\ pos <= Len(text) => f.last /\ OpenAfter \in Seq(Nat) /\ OpenAfter = d.open
  BY <1>1, <1>2, <1>3, <1>4, <1>5, <1>6, HeredocFit
<1>8. /\ Stack(d.open, d.level, f.old.curlies, d.lit) /\ Keeps(f.old, d.lit, tokens)
      /\ f.last => Later(tokens, d.lit.origin)
      /\ UpTo(f.old.curlies, pos) /\ d.lit.origin <= pos
  BY <1>7 DEF FrameOK
<1>9. Last(w).kind # "heredoc" /\ d.lit = Last(W).lit
  BY <1>7 DEF Upon, WithinHeredoc
<1>10. lex \in Lexemes(text) /\ lex.cur \in Nat /\ pos \in Nat \ {0} /\ Len(text) \in Nat
  <2>1. lex \in Lexemes(text) /\ pos \in Nat \ {0}  BY InvParts
  <2> QED BY <2>1, TextGiven DEF Lexemes
<1>11. f.old \in Lexemes(text)  BY <1>7 DEF Frames, AnyFrame
<1>12. PICK o : o = [f.old EXCEPT !.cur = lex.cur]  OBVIOUS
<1>13. /\ o \in Lexemes(text) /\ o.type = f.old.type /\ o.piece = f.old.piece
       /\ o.curlies = f.old.curlies
  BY <1>10, <1>11, <1>12 DEF Lexemes
<1>14. CASE Char(pos) \notin LineEnds
  <2>1. PICK m : m = IF f.comment /\ IsComment(pos) THEN "comment" ELSE "return"  OBVIOUS
  <2>2. m \in {"comment", "return"}  BY <2>1
  <2>3. /\ text' = text /\ pos' = pos /\ lex' = o /\ mode' = m /\ str' = str /\ calls' = w
        /\ tokens' = tokens
    BY <1>2, <1>3, <1>12, <1>14, <2>1 DEF HeredocDone
  <2>4. Keeps(o, Last(W).lit, tokens) /\ UpTo(o.curlies, pos)
    BY <1>8, <1>9, <1>13 DEF Keeps
  <2>5. Piled(text, pos, OpenAfter, LevelAt(w, W), o.curlies, Last(W).lit)
    BY <1>7, <1>8, <1>9, <1>13 DEF Piled
  <2> QED BY <1>7, <1>9, <2>2, <2>3, <2>4, <2>5, WaitFits
<1>15. CASE Char(pos) \in LineEnds
  <2>1. pos <= Len(text)
    <3>1. At(text, pos) \in LineEnds  BY <1>15, CharAt
    <3>2. At(text, pos) # "end"  BY <3>1 DEF LineEnds
    <3> QED BY <1>10, <3>2 DEF At
  <2>2. f.last /\ OpenAfter \in Seq(Nat) /\ OpenAfter = d.open  BY <1>7, <2>1
  <2>3. PICK g : g = [f EXCEPT !.kind = "after"]  OBVIOUS
  <2>4. g \in Frames(text) /\ g.kind = "after"
    <3>1. f \in AnyFrame(text)  BY <1>7 DEF Frames
    <3>2. g \in AnyFrame(text) /\ g.kind = "after"  BY <2>3, <3>1 DEF AnyFrame
    <3> QED BY <3>2 DEF Frames
  <2>5. PICK v : v = Append(w, g)  OBVIOUS
  <2>6. PICK V : V = Append(W, d)  OBVIOUS
  <2>7. Above(w, W, g, d)
    <3>1. Upon(Last(w), Last(W), g, d)  BY <1>7, <2>4 DEF Upon, WithinHeredoc
    <3> QED BY <1>7, <3>1 DEF Above
  <2>8. FrameOK(g, d, tokens, pos)  BY <1>8, <2>4 DEF FrameOK
  <2>9. /\ Calls(v, V, tokens, pos) /\ v # <<>> /\ Last(v) = g /\ Last(V) = d
        /\ LevelAt(v, V) = LevelOver(g, d) /\ v \in Seq(Frames(text))
    <3>1. Pushed(Frames(text), v, V, tokens, pos, g, d)
      BY <1>7, <2>4, <2>5, <2>6, <2>7, <2>8, CallsPush
    <3> QED BY <3>1 DEF Pushed
  <2>10. Last(v).kind # "heredoc" /\ LevelAt(v, V) = d.level  BY <2>4, <2>9 DEF LevelOver
  <2>11. PICK l : l = [o EXCEPT !.type = "LINE"]  OBVIOUS
  <2>12. /\ l \in Lexemes(text) /\ l.type = "LINE" /\ l.piece = f.old.piece
         /\ l.curlies = f.old.curlies
    BY <1>13, <2>11 DEF Lexemes, Types
  <2>13. Keeps(l, Last(V).lit, tokens) /\ UpTo(l.curlies, pos)
    BY <1>8, <2>2, <2>9, <2>12 DEF Keeps
  <2>14. Stack(OpenAfter, LevelAt(v, V), l.curlies, Last(V).lit)
    BY <1>8, <2>2, <2>9, <2>10, <2>12
  <2>15. PICK q : q = AfterLineEnd(pos)  OBVIOUS
  <2>16. q \in Nat /\ pos < q  BY <1>10, <2>15, LineEndForward
  <2>17. ProcessNewline(l, q, FALSE, TRUE, v)
    BY <1>2, <1>3, <1>12, <1>15, <2>3, <2>5, <2>11, <2>15 DEF HeredocDone, Newline
  <2>18. pos \in Nat  BY <1>10
  <2> QED BY <2>2, <2>9, <2>10, <2>12, <2>13, <2>14, <2>16, <2>17, <2>18, NewlineFits
<1> QED BY <1>14, <1>15

LEMMA OpenChosen ==
  ASSUME NEW T, NEW n \in Nat, n = Len(T), NEW f, OpenTo(f, T),
         NEW g, g = CHOOSE h : h = [i \in 0 .. n |->
                      IF i = 0 THEN <<>> ELSE After(h[i - 1], T[i].type, T[i].piece, T[i].origin)]
  PROVE  g[n] = f[n]
<1> DEFINE E(h, i) == IF i = 0 THEN <<>> ELSE After(h[i - 1], T[i].type, T[i].piece, T[i].origin)
<1>1. g = CHOOSE h : h = [i \in 0 .. n |-> E(h, i)]  OBVIOUS
<1>2. f = [i \in 0 .. n |-> E(f, i)]  BY DEF OpenTo
<1>3. g = [i \in 0 .. n |-> E(g, i)]
  <2> HIDE DEF E
  <2> QED BY <1>1, <1>2
<1>4. OpenTo(g, T)  BY <1>3 DEF OpenTo
<1> QED BY <1>4, OpenUnique

\* The same after a step.
LEMMA OpenIsNext ==
  ASSUME NEW T, T = tokens', NEW n \in Nat, n = Len(T), NEW f, OpenTo(f, T)
  PROVE  OpenAfter' = f[n]
<1> DEFINE g == CHOOSE h : h = [i \in 0 .. n |->
                  IF i = 0 THEN <<>> ELSE After(h[i - 1], T[i].type, T[i].piece, T[i].origin)]
<1>1. OpenAfter' = g[n]  BY DEF OpenAfter, After
<1>2. g[n] = f[n]
  <2>1. PICK k : k = g  OBVIOUS
  <2>2. k[n] = f[n]  BY <2>1, OpenChosen
  <2> QED BY <2>1, <2>2
<1> HIDE DEF g
<1> QED BY <1>1, <1>2

IsSet(K, c, p, g, b) ==
  b \in Seq(K) /\ Len(b) = p /\ \A i \in 1 .. p : b[i] = IF i = p THEN g ELSE c[i]
LEMMA LastSet ==
  ASSUME NEW K, NEW c \in Seq(K), NEW p \in Nat \ {0}, p = Len(c), NEW g \in K,
         NEW b, b = [c EXCEPT ![p] = g]
  PROVE  IsSet(K, c, p, g, b)
BY DEF IsSet

\* The last call has its last piece.
HasLast(c, D, T, P, b) ==
  /\ Calls(b, D, T, P) /\ b # <<>> /\ Last(b).kind = "heredoc" /\ Last(b).last = TRUE
  /\ LevelAt(b, D) = LevelAt(c, D)

LEMMA CallTold ==
  ASSUME NEW t, NEW c \in Seq(Frames(t)), NEW D, NEW T, NEW P, Calls(c, D, T, P), c # <<>>,
         Last(c).kind = "heredoc", Later(T, Last(D).lit.origin),
         NEW b, b = [c EXCEPT ![Len(c)].last = TRUE]
  PROVE  HasLast(c, D, T, P, b)
<1>1. PICK w : w = Front(c)  OBVIOUS
<1>2. PICK W : W = Front(D)  OBVIOUS
<1>3. PICK f : f = Last(c)  OBVIOUS
<1>4. PICK d : d = Last(D)  OBVIOUS
<1>5. /\ Calls(w, W, T, P) /\ w \in Seq(Frames(t)) /\ f \in Frames(t) /\ d \in Marks
      /\ Above(w, W, f, d) /\ FrameOK(f, d, T, P) /\ c = Append(w, f) /\ D = Append(W, d)
  BY <1>1, <1>2, <1>3, <1>4, CallsPop
<1>6. PICK g : g = [f EXCEPT !.last = TRUE]  OBVIOUS
<1>7. g \in Frames(t) /\ g.kind = "heredoc" /\ g.last = TRUE /\ g.old = f.old
  <2>1. f \in AnyFrame(t) /\ f.kind = "heredoc" /\ f.old.type \notin Rereadable
    BY <1>3, <1>5 DEF Frames
  <2>2. g \in AnyFrame(t) /\ g.kind = "heredoc" /\ g.last = TRUE /\ g.old = f.old
    BY <1>6, <2>1 DEF AnyFrame
  <2> QED BY <2>1, <2>2 DEF Frames
<1>8. b = Append(w, g)
  <2>0. w \in Seq(Frames(t)) /\ c = Append(w, f)  BY <1>5
  <2>1. PICK m \in Nat : m = Len(w)  BY <2>0
  <2>2. Len(c) = m + 1 /\ c[m + 1] = f  BY <2>0, <2>1
  <2>11. PICK p \in Nat : p = m + 1  OBVIOUS
  <2>3. b = [c EXCEPT ![p] = g]  BY <1>6, <2>2, <2>11
  <2>4. PICK a : a = Append(w, g)  OBVIOUS
  <2>5. a \in Seq(Frames(t)) /\ Len(a) = m + 1 /\ a[m + 1] = g /\ \A i \in 1 .. m : a[i] = w[i]
    BY <1>5, <1>7, <2>1, <2>4
  <2>6. b \in Seq(Frames(t)) /\ Len(b) = m + 1 /\ b[m + 1] = g /\ \A i \in 1 .. m : b[i] = c[i]
    <3>1. p = Len(c) /\ p \in Nat \ {0}  BY <2>2, <2>11
    <3>2. g \in Frames(t)  BY <1>7
    <3>3. /\ b \in Seq(Frames(t)) /\ Len(b) = p
          /\ \A i \in 1 .. p : b[i] = IF i = p THEN g ELSE c[i]
      <4>1. IsSet(Frames(t), c, p, g, b)  BY <2>3, <3>1, <3>2, LastSet
      <4> QED BY <4>1 DEF IsSet
    <3>4. p \in 1 .. p /\ \A i \in 1 .. m : i \in 1 .. p /\ i # p  BY <2>11
    <3>5. b[p] = g /\ \A i \in 1 .. m : b[i] = c[i]  BY <3>3, <3>4
    <3> QED BY <2>11, <3>3, <3>5
  <2>7. \A i \in 1 .. m : c[i] = w[i]  BY <2>0, <2>1
  <2>8. \A i \in 1 .. m + 1 : a[i] = b[i]
    <3>1. \A i \in 1 .. m + 1 : i = m + 1 \/ i \in 1 .. m  OBVIOUS
    <3> QED BY <2>5, <2>6, <2>7, <3>1
  <2>9. Len(a) = Len(b) /\ \A i \in 1 .. Len(a) : a[i] = b[i]  BY <2>5, <2>6, <2>8
  <2>10. a = b  BY <2>5, <2>6, <2>9, SameElements
  <2> QED BY <2>4, <2>10
<1>9. Above(w, W, g, d)
  <2>1. CASE w = <<>>  BY <1>3, <1>5, <2>1 DEF Above, First, WithinHeredoc
  <2>2. CASE w # <<>>  BY <1>3, <1>5, <1>7, <2>2 DEF Above, Upon, WithinHeredoc
  <2> QED BY <2>1, <2>2
<1>10. FrameOK(g, d, T, P)  BY <1>3, <1>4, <1>5, <1>7 DEF FrameOK
<1>11. Calls(b, D, T, P) /\ b # <<>> /\ Last(b) = g /\ LevelAt(b, D) = LevelOver(g, d)
  <2>1. Pushed(Frames(t), b, D, T, P, g, d)  BY <1>5, <1>7, <1>8, <1>9, <1>10, CallsPush
  <2> QED BY <2>1 DEF Pushed
<1>12. LevelAt(c, D) = LevelOver(f, d)  BY <1>3, <1>4 DEF LevelAt
<1>13. LevelOver(g, d) = LevelOver(f, d)  BY <1>3, <1>7 DEF LevelOver
<1> QED BY <1>7, <1>11, <1>12, <1>13 DEF HasLast

LEMMA StepFits ==
  ASSUME IInv, LitInv, Step
  PROVE  LitInv'
<1>1. PICK D : Fit(D)  BY DEF LitInv
<1>2. mode = "parser" /\ (InHeredoc => ~Last(calls).last)  BY DEF Step
<1>3. PICK R : R = Reached(pos, lex, mode)  OBVIOUS
<1>4. /\ R \in Nat /\ R <= pos /\ pos \in Nat \ {0} /\ Len(text) \in Nat
      /\ calls \in Seq(Frames(text)) /\ LevelAt(calls, D) \in Levels
      /\ lex \in Lexemes(text) /\ str \in Literals(text) /\ str.origin \in Nat
  BY <1>1, <1>3, FitParts
<1>5. ParserOK(text, pos, lex, str, calls, tokens, OpenAfter, D)  BY <1>1, <1>2 DEF Fit, Fits
<1>6. PICK o : o = IF lex.piece = "none" THEN 0 ELSE str.origin  OBVIOUS
<1>7. PICK h \in BOOLEAN : h = (lex.piece # "none" /\ str.heredoc)
  BY <1>4 DEF Literals
<1>8. PICK x : x = [type |-> lex.type, start |-> lex.start, stop |-> lex.stop, piece |-> lex.piece,
                    heredoc |-> h, origin |-> o]
  OBVIOUS
<1>9. x \in Tokens
  <2>1. /\ lex.type \in Types /\ lex.start \in Nat /\ lex.stop \in Nat /\ lex.piece \in Pieces
        /\ o \in Nat
    BY <1>4, <1>6 DEF Lexemes
  <2> QED BY <1>8, <2>1 DEF Tokens
<1>10. PICK U : U = Append(tokens, x)  OBVIOUS
<1>11. tokens' = U  BY <1>6, <1>7, <1>8, <1>10 DEF Step
<1>12. tokens \in Seq(Tokens) /\ \E f : OpenTo(f, tokens)  BY DEF LitInv, Passed
<1>13. PICK T \in Seq(Tokens) : T = tokens  BY <1>12
<1>14. PICK n \in Nat : n = Len(T)  OBVIOUS
<1>15. U \in Seq(Tokens) /\ Len(U) = n + 1 /\ U[n + 1] = x /\ \A i \in 1 .. n : U[i] = T[i]
  BY <1>9, <1>10, <1>13, <1>14
<1>16. PICK f : OpenTo(f, T)  BY <1>12, <1>13
<1>17. PICK g : OpenTo(g, U) /\ g[n + 1] = After(f[n], x.type, x.piece, x.origin)
  <2>1. U = Append(T, x)  BY <1>10, <1>13
  <2>2. Opened(f, x, U, n)  BY <1>9, <1>14, <1>16, <2>1, OpenNext
  <2> QED BY <2>2 DEF Opened
<1>18. Passed'  BY <1>11, <1>15, <1>17 DEF Passed
<1>19. PICK S : S = After(OpenAfter, lex.type, lex.piece, str.origin)  OBVIOUS
<1>20. OpenAfter' = S
  <2>1. OpenAfter = f[n]  BY <1>13, <1>14, <1>16, OpenIs
  <2>2. OpenAfter' = g[n + 1]
    <3>1. PICK k \in Nat : k = n + 1  BY <1>14
    <3>2. OpenAfter' = g[k]  BY <1>11, <1>15, <1>17, <3>1, OpenIsNext
    <3> QED BY <3>1, <3>2
  <2>3. After(OpenAfter, lex.type, lex.piece, o) = S  BY <1>6, <1>19 DEF After
  <2> QED BY <1>8, <1>17, <2>1, <2>2, <2>3
<1>21. \A b : Later(tokens, b) => Later(U, b)
  <2> SUFFICES ASSUME NEW b, Later(tokens, b) PROVE Later(U, b)  OBVIOUS
  <2>1. PICK i \in 1 .. n : T[i].heredoc /\ T[i].origin > b  BY <1>13, <1>14 DEF Later
  <2>2. i \in 1 .. Len(U) /\ U[i] = T[i]  BY <1>15
  <2> QED BY <2>1, <2>2 DEF Later
<1>22. Calls(calls, D, U, pos) /\ UpTo(lex.curlies, pos)
  <2>1. pos \in Nat  BY <1>4
  <2>2. Calls(calls, D, tokens, pos) /\ UpTo(lex.curlies, pos)
    BY <1>1, <1>3, <1>4, <2>1, GoneOn
  <2>3. pos <= pos  BY <1>4
  <2> QED BY <1>4, <1>21, <2>1, <2>2, <2>3, CallsGrow
<1>23. Ready(calls) /\ Told(calls) = FALSE
  <2>1. Ready(calls)  BY <1>5 DEF ParserOK
  <2>2. CASE calls = <<>>  BY <2>1, <2>2 DEF Told
  <2>3. CASE calls # <<>>
    <3>1. ~Last(calls).last  BY <1>2, <2>1, <2>3 DEF Ready, InHeredoc
    <3> QED BY <2>1, <3>1 DEF Told
  <2> QED BY <2>2, <2>3
<1>24. PICK e \in Levels : e = LevelAt(calls, D)  BY <1>4
<1>25. PICK b \in BOOLEAN : b = LastPieceOf(lex, str)
  <2>1. str.heredoc \in BOOLEAN  BY <1>4 DEF Literals
  <2> QED BY <2>1 DEF LastPieceOf
<1>26. Piled(text, pos, S, e, lex.curlies, Between(b))
  <2>1. (Told(calls) \/ LastPieceOf(lex, str)) = b  BY <1>23, <1>25
  <2>2. Piled(text, R, S, e, lex.curlies, Between(b))
    BY <1>2, <1>3, <1>5, <1>19, <1>24, <2>1 DEF ParserOK
  <2>3. pos \in Nat  BY <1>4
  <2> QED BY <1>4, <2>2, <2>3, PiledOn
<1>27. PICK c : c = IF b /\ InHeredoc THEN [calls EXCEPT ![Len(calls)].last = TRUE] ELSE calls
  OBVIOUS
<1>28. calls' = c
  <2>1. (InHeredoc /\ lex.piece # "none" /\ LastPiece) <=> (b /\ InHeredoc)
    BY <1>25 DEF LastPiece, LastPieceOf
  <2> QED BY <1>27, <2>1 DEF Step
<1>29. /\ Calls(c, D, U, pos) /\ Ready(c) /\ Told(c) = b /\ LevelAt(c, D) = e
  <2>1. CASE ~b  BY <1>22, <1>23, <1>24, <1>27, <2>1
  <2>2. CASE b
    <3>1. str.heredoc /\ lex.piece # "none"  BY <1>25, <2>2 DEF LastPieceOf
    <3>2. e.heredoc /\ str.origin > e.since  BY <1>5, <1>24, <3>1 DEF ParserOK, Own
    <3>3. calls # <<>>
      <4>1. Ground.heredoc = FALSE  BY DEF Ground
      <4> QED BY <1>24, <3>2, <4>1 DEF LevelAt
    <3>4. InHeredoc /\ Last(calls).kind = "heredoc"  BY <1>23, <3>3 DEF Ready, InHeredoc
    <3>5. e.since = Last(D).lit.origin  BY <1>24, <3>3, <3>4 DEF LevelAt, LevelOver
    <3>6. Later(U, Last(D).lit.origin)
      <4>1. x.heredoc /\ x.origin = str.origin  BY <1>6, <1>7, <1>8, <3>1
      <4>2. n + 1 \in 1 .. Len(U)  BY <1>14, <1>15
      <4> QED BY <1>15, <3>2, <3>5, <4>1, <4>2 DEF Later
    <3>7. c = [calls EXCEPT ![Len(calls)].last = TRUE]  BY <1>27, <2>2, <3>4
    <3>8. HasLast(calls, D, U, pos, c)
      <4>1. calls \in Seq(Frames(text)) /\ Calls(calls, D, U, pos)  BY <1>4, <1>22
      <4>2. Last(calls).kind = "heredoc"  BY <3>4
      <4> QED BY <3>3, <3>6, <3>7, <4>1, <4>2, CallTold
    <3> QED BY <1>24, <2>2, <3>8 DEF HasLast, Ready, Told
  <2> QED BY <2>1, <2>2
<1>30. PICK r : r = Restep(lex, pos, FALSE)  OBVIOUS
<1>31. r.piece = "none" /\ r.curlies = lex.curlies
  BY <1>4, <1>30 DEF Restep, Lexemes
<1>32. DispatchOK(text, pos, r, c, S, D)
  <2>1. b => At(text, pos) \in Ends  BY <1>5, <1>25 DEF ParserOK
  <2> QED BY <1>24, <1>26, <1>29, <1>31, <2>1 DEF DispatchOK
<1>33. Fits(text, pos, r, "dispatch", str, c, U, S, D)
  BY <1>22, <1>29, <1>31, <1>32 DEF Fits, TextModes, Reached
<1>34. /\ text' = text /\ pos' = pos /\ lex' = r /\ mode' = "dispatch" /\ str' = str
  BY <1>30 DEF Step
<1>35. Fits(text', pos', lex', mode', str', calls', tokens', OpenAfter', D)
  BY <1>11, <1>20, <1>28, <1>33, <1>34
<1> QED BY <1>18, <1>35 DEF LitInv, Fit

-----------------------------------------------------------------------------
(* Which literal goes on, as a whole.                                      *)

LEMMA InitFits == Init => LitInv
<1> SUFFICES ASSUME Init PROVE LitInv  OBVIOUS
<1>1. /\ pos = 1 /\ tokens = <<>> /\ lex.curlies = <<>> /\ lex.piece = "none" /\ str = NoLiteral
      /\ Len(text) \in Nat /\ IInv
  BY InitCounts, TextGiven DEF Init
<1>2. PICK f : f = [n \in 0 .. 0 |-> <<>>]  OBVIOUS
<1>3. OpenTo(f, tokens)
  <2>1. Len(tokens) = 0 /\ f[0] = <<>>  BY <1>1, <1>2
  <2>2. f = [n \in 0 .. 0 |-> IF n = 0 THEN <<>>
               ELSE After(f[n - 1], tokens[n].type, tokens[n].piece, tokens[n].origin)]
    <3>1. \A n \in 0 .. 0 : n = 0  OBVIOUS
    <3> QED BY <1>2, <3>1
  <2> QED BY <2>1, <2>2 DEF OpenTo
<1>4. Passed  BY <1>1, <1>3 DEF Passed
<1>5. PICK S \in Seq(Nat) : S = <<>> /\ OpenAfter = S
  <2>1. PICK n \in Nat : n = 0  OBVIOUS
  <2>2. OpenAfter = f[n]  BY <1>1, <1>3, <2>1, OpenIs
  <2>3. f[0] = <<>>  BY <1>2
  <2>4. OpenAfter = <<>> /\ <<>> \in Seq(Nat)  BY <2>1, <2>2, <2>3
  <2> QED BY <2>4
<1>6. PICK z \in Lits : z = Between(FALSE)  BY BetweenIs
<1>7. z.piece = "none" /\ z.own = FALSE /\ z.any = TRUE /\ z.origin = 0  BY <1>6 DEF Between
<1>8. Stack(S, Ground, <<>>, z)
  <2>1. Pile(<<>>, 0, <<>>, 0, 0, FALSE, 0, <<>>, 0, z)
    <3>1. 1 .. 0 = {} /\ 0 + 1 .. 0 = {} /\ 0 = 0 + (0 - 0)  OBVIOUS
    <3> QED BY <1>7, <3>1 DEF Pile
  <2>2. Len(S) = 0 /\ Len(<<>>) = 0  BY <1>5
  <2> QED BY <1>5, <2>1, <2>2 DEF Stack, Ground
<1>9. UpTo(lex.curlies, 1)  BY <1>1 DEF UpTo
<1>10. Piled(text, pos, S, Ground, lex.curlies, z)  BY <1>1, <1>5, <1>8 DEF Piled
<1>11. Calls(<<>>, <<>>, tokens, 1)  BY DEF Calls
<1>12. CASE ~IsComment(1)
  <2>1. calls = <<>> /\ mode = "dispatch"  BY <1>12 DEF Init
  <2>2. ~Told(calls) /\ Ready(calls) /\ LevelAt(calls, <<>>) = Ground
    BY <2>1 DEF Told, Ready, LevelAt
  <2>3. Between(Told(calls)) = z
    <3>1. Told(calls) = FALSE  BY <2>2 DEF Told
    <3> QED BY <1>6, <3>1
  <2>4. DispatchOK(text, pos, lex, calls, S, <<>>)
    BY <1>1, <1>10, <2>2, <2>3 DEF DispatchOK
  <2>5. Fits(text, pos, lex, mode, str, calls, tokens, S, <<>>)
    BY <1>1, <1>9, <1>11, <2>1, <2>4 DEF Fits, TextModes, Reached
  <2> QED BY <1>4, <1>5, <2>5 DEF LitInv, Fit
<1>13. CASE IsComment(1)
  <2>1. PICK g : g = [kind |-> "load", mode |-> "load", str |-> NoLiteral, old |-> lex,
                      comment |-> FALSE, last |-> FALSE]
    OBVIOUS
  <2>2. calls = <<g>> /\ mode = "comment"  BY <1>13, <2>1 DEF Init
  <2>3. g \in Frames(text)
    <3>1. calls \in Seq(Frames(text))  BY <1>1, InvParts DEF Waits
    <3>2. Len(calls) = 1 /\ calls[1] = g  BY <2>2
    <3>3. \A i \in 1 .. Len(calls) : calls[i] \in Frames(text)  BY <3>1
    <3> QED BY <3>2, <3>3
  <2>4. PICK d : d = [level |-> Ground, open |-> S, lit |-> z]  OBVIOUS
  <2>5. d \in Marks
    <3>1. Ground \in Levels  BY DEF Ground, Levels
    <3> QED BY <2>4, <3>1 DEF Marks
  <2>6. g.kind = "load"  BY <2>1
  <2>7. Above(<<>>, <<>>, g, d)
    BY <1>6, <2>4, <2>6 DEF Above, First, Interrupts, WithinHeredoc
  <2>8. FrameOK(g, d, tokens, 1)  BY <1>7, <2>4, <2>6 DEF FrameOK
  <2>9. PICK C : C = Append(<<>>, d)  OBVIOUS
  <2>10. calls = Append(<<>>, g) /\ <<>> \in Seq(Frames(text))  BY <2>2
  <2>11. Pushed(Frames(text), calls, C, tokens, 1, g, d)
    BY <1>11, <2>3, <2>5, <2>7, <2>8, <2>9, <2>10, CallsPush
  <2>12. Calls(calls, C, tokens, 1) /\ calls # <<>> /\ Last(calls) = g /\ Last(C) = d
    BY <2>11 DEF Pushed
  <2>13. LevelAt(calls, C) = Ground
    BY <2>4, <2>6, <2>12 DEF LevelAt, LevelOver
  <2>14. WaitOK(text, pos, lex, calls, tokens, S, C)
    BY <1>1, <1>7, <1>10, <2>4, <2>6, <2>12, <2>13 DEF WaitOK, Keeps
  <2>15. Fits(text, pos, lex, mode, str, calls, tokens, S, C)
    BY <1>1, <1>9, <2>2, <2>12, <2>14 DEF Fits, TextModes, Reached
  <2> QED BY <1>4, <1>5, <2>15 DEF LitInv, Fit
<1> QED BY <1>12, <1>13

LEMMA NextFits == IInv /\ LitInv /\ [Next]_vars => LitInv'
<1> SUFFICES ASSUME IInv, LitInv, [Next]_vars PROVE LitInv'  OBVIOUS
<1>1. IInv'  BY NextCounts
<1>2. CASE Dispatched
  BY <1>1, <1>2, SkippingFits, LinesFit, NameFits, OpenFits, CloseFits, QuotesFit DEF Dispatched
<1>3. CASE Text
  BY <1>1, <1>3, EndsFit, TextLinesFit, LoopsFit, GroupFits, CommentFits DEF Text
<1>4. CASE Return  BY <1>4, ReturnsFit
<1>5. CASE Parsing
  BY <1>1, <1>5, StepFits, HeredocFits, LiteralsFit, ShiftFits, QuestionFits, UnaryFits
     DEF Parsing
<1>6. CASE UNCHANGED vars
  <2>1. /\ text' = text /\ pos' = pos /\ lex' = lex /\ mode' = mode /\ str' = str
        /\ calls' = calls /\ tokens' = tokens
    BY <1>6 DEF vars
  <2>2. PICK D : Fit(D)  BY DEF LitInv
  <2>3. Fits(text, pos', lex', mode', str', calls', tokens, OpenAfter, D)
    BY <2>1, <2>2 DEF Fit
  <2> QED BY <2>1, <2>3, FitNext
<1> QED BY <1>2, <1>3, <1>4, <1>5, <1>6 DEF Next

LEMMA InvContinues == IInv /\ LitInv => LiteralsContinue
<1> SUFFICES ASSUME IInv, LitInv PROVE LiteralsContinue  OBVIOUS
<1>1. PICK D : Fit(D)  BY DEF LitInv
<1>2. /\ pos \in Nat /\ lex.curlies \in Seq(Literals(text)) /\ LevelAt(calls, D) \in Levels
      /\ Len(text) \in Nat /\ str \in Literals(text)
  BY <1>1, FitParts
<1>3. ASSUME Dispatch({"}"})
      PROVE  IF OpenAfter = <<>> THEN lex.curlies = <<>>
             ELSE lex.curlies # <<>> /\ Last(lex.curlies).origin = Last(OpenAfter)
  <2>1. mode = "dispatch" /\ At(text, pos) = "}"  BY <1>3, CharAt DEF Dispatch
  <2>2. At(text, pos) \notin Ends  BY <2>1 DEF Ends, LineEnds
  <2>11. pos <= Len(text)  BY <2>1 DEF At
  <2>3. pos <= Len(text) /\ pos <= pos  BY <1>2, <2>11
  <2>4. Piled(text, pos, OpenAfter, LevelAt(calls, D), lex.curlies, Between(FALSE))
    BY <1>1, <1>2, <2>1, <2>2, <2>3, DispatchOn
  <2>5. PICK e \in Levels : e = LevelAt(calls, D)  BY <1>2
  <2>6. PICK z : z = Between(FALSE)  OBVIOUS
  <2>7. z.piece # "Ending" /\ z.own = FALSE  BY <2>6 DEF Between
  <2>8. PICK S \in Seq(Nat) : S = OpenAfter /\ Stack(S, e, lex.curlies, z)
    BY <2>3, <2>4, <2>5, <2>6 DEF Piled
  <2>9. CASE lex.curlies = <<>>
    <3>1. Stack(S, e, <<>>, z)  BY <2>8, <2>9
    <3>2. S = <<>>  BY <2>7, <3>1, StackEmpty
    <3> QED BY <2>8, <2>9, <3>2
  <2>10. CASE lex.curlies # <<>>
    <3>1. PICK k \in Seq(Literals(text)) : k = lex.curlies  BY <1>2
    <3>2. PICK x : x = Last(k)  OBVIOUS
    <3>3. PICK m : m = Front(k)  OBVIOUS
    <3>4. PICK R : R = Front(S)  OBVIOUS
    <3>5. Popped(text, S, e, x, m, R)
      BY <2>7, <2>8, <2>10, <3>1, <3>2, <3>3, <3>4, StackPop
    <3>6. S # <<>> /\ Last(S) = x.origin  BY <3>5 DEF Popped
    <3> QED BY <2>8, <2>10, <3>1, <3>2, <3>6
  <2> QED BY <2>9, <2>10
<1>4. ASSUME mode = "parser"  PROVE ParserOK(text, pos, lex, str, calls, tokens, OpenAfter, D)
  BY <1>1, <1>4 DEF Fit, Fits
<1>5. ASSUME mode = "parser", lex.piece \in {"Continuing", "Ending"}, pos <= Len(text)
      PROVE  OpenAfter # <<>> /\ Last(OpenAfter) = str.origin
  <2>1. str.type \in LiteralTypes  BY <1>2 DEF Literals
  <2>2. lex.type \in LiteralTypes \cup {"LINE"}  BY <1>4, <1>5, <2>1 DEF ParserOK
  <2>3. Reached(pos, lex, "parser") = pos  BY <2>2 DEF Reached, Rereadable, LiteralTypes
  <2> QED BY <1>4, <1>5, <2>3 DEF ParserOK
<1>6. LiteralKeepsType
  BY <1>4 DEF LiteralKeepsType, ParserOK, Later
<1> QED BY <1>3, <1>5, <1>6 DEF LiteralsContinue, PiecesMatch

-----------------------------------------------------------------------------
(* The theorems.                                                           *)

\* The lexer's state is what its functions take it for, at each step of every file.
THEOREM TypeCorrect == Spec => []TypeOK
<1>1. Spec => []IInv  BY InitCounts, NextCounts, PTL DEF Spec
<1> QED BY <1>1, InvTypes, PTL

\* Every lexeme of every file begins on the line it says.
THEOREM LinesAreCounted == Spec => []LinesCounted
<1>1. Spec => []IInv  BY InitCounts, NextCounts, PTL DEF Spec
<1> QED BY <1>1, InvCounts, PTL

\* In every file a brace that closes goes on with the literal whose group it ends, and each
\* literal is delivered as what it began as, or as LINE if a heredoc was read within it,
\* whatever groups, literals and line ends were read in between.
THEOREM LiteralsGoOn == Spec => []LiteralsContinue
<1>1. Init => IInv /\ LitInv  BY InitCounts, InitFits
<1>2. IInv /\ LitInv /\ [Next]_vars => (IInv /\ LitInv)'  BY NextCounts, NextFits
<1>3. IInv /\ LitInv => LiteralsContinue  BY InvContinues
<1> QED BY <1>1, <1>2, <1>3, PTL DEF Spec
=============================================================================
