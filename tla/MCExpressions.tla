--------------------------- MODULE MCExpressions ---------------------------
(***************************************************************************)
(* Numbers, dimensions and expressions for TLC, with their meanings.  The   *)
(* widths are reduced: integers of 8 bits, dimensions of 7, 4 bits for a    *)
(* fraction of a point.                                                     *)
(***************************************************************************)
EXTENDS Expressions

CountValue == -3
MCFontUnits == [em |-> 20, ex |-> 7]

\* What follows a number, and what of it remains.
Tails == {[text |-> <<"x">>, rest |-> <<"x">>],
          [text |-> <<" ", " ", "x">>, rest |-> <<" ", "x">>]}
SignTexts == {[text |-> <<"-", " ", "+", "-">>, factor |-> 1], [text |-> <<"-">>, factor |-> -1]}

\* The number whose digits are the tokens of a sequence.
DigitValue == "0" :> 0 @@ "1" :> 1 @@ "2" :> 2 @@ "4" :> 4 @@ "7" :> 7 @@ "8" :> 8
                @@ "9" :> 9 @@ "F" :> 15
Positional(tokens, radix) ==
  FoldLeft(LAMBDA acc, t : acc * radix + DigitValue[t], 0, tokens)

\* Constants of integers.
Constants(mark, radix, digits, most) ==
  {[text |-> mark \o s, size |-> Positional(s, radix)] :
     s \in SeqOf(digits, most) \ {<<>>}}

IntConstants ==
  Constants(<<>>, 10, {"0", "1", "2", "7", "8"}, 3)
  \cup Constants(<<"'">>, 8, {"0", "1", "7"}, 4)
  \cup Constants(<<"\"">>, 16, {"7", "8", "F"}, 3)

IntDocuments ==
  {[command |-> "count", text |-> sg.text \o c.text \o tail.text,
    value |-> sg.factor * (IF c.size > MaxInteger THEN MaxInteger ELSE c.size),
    errors |-> IF c.size > MaxInteger THEN {"big"} ELSE {},
    rest |-> tail.rest] :
     sg \in SignTexts, c \in IntConstants, tail \in Tails}

OtherInts ==
  {[command |-> "count", text |-> <<"-", "count", " ", "x">>, value |-> -Count,
    errors |-> {}, rest |-> <<" ", "x">>],
   [command |-> "count", text |-> <<"dimen", "x">>, value |-> Dimen,
    errors |-> {}, rest |-> <<"x">>],
   [command |-> "count", text |-> <<"'", ".", "x">>, value |-> 0,
    errors |-> {"missing"}, rest |-> <<".", "x">>]}

\* A value, with the error when it is too large.
Limited(v, limit) ==
  [value |-> v, errors |-> IF v <= limit /\ -v <= limit THEN {} ELSE {"overflow"}]

\* Fractions: the tokens and the scaled points, rounded to the nearest.
Fractions ==
  {[text |-> <<>>, part |-> 0]}
  \cup {[text |-> <<".">> \o s,
         part |-> LET kept == SubSeq(s, 1, IF Len(s) > FractionDigits
                                           THEN FractionDigits ELSE Len(s)) IN
                  Rounded(Unity * Positional(kept, 10), 10 ^ Len(kept))] :
          s \in SeqOf({"0", "4", "9"}, FractionDigits) \cup {<<"0", "9", "9">>}}

\* Units as fractions of a point or as sizes.
Sizes == FontUnits @@ [dimen |-> Dimen, count |-> Count]
UnitNames == DOMAIN UnitTable \cup DOMAIN FontUnits \cup {"pt", "sp", "dimen", "count", ""}

\* What i points and p scaled points are in a unit.
InUnit(i, p, unit) ==
  CASE unit \in DOMAIN UnitTable ->
         ((i * Unity + p) * UnitTable[unit][1]) \div UnitTable[unit][2]
    [] unit \in {"pt", ""} -> i * Unity + p
    [] unit = "sp" -> i
    [] OTHER -> i * Sizes[unit] + Sign(Sizes[unit]) * ((Size(Sizes[unit]) * p) \div Unity)

DimenDocuments(points, fractions, units) ==
  {[command |-> "dimen",
    text |-> sg.text \o k.text \o fr.text \o (IF unit = "" THEN <<>> ELSE <<unit>>)
            \o tail.text,
    value |-> sg.factor * InUnit(k.size, fr.part, unit),
    errors |-> Limited(InUnit(k.size, fr.part, unit), MaxDimension).errors
               \cup (IF unit = "" THEN {"unit"} ELSE {}),
    rest |-> IF unit \in Registers THEN tail.text
             ELSE IF unit = "" THEN <<"x">> ELSE tail.rest] :
     sg \in SignTexts, k \in points, fr \in fractions, unit \in units, tail \in Tails}

Points == {[text |-> <<"0">>, size |-> 0], [text |-> <<"2">>, size |-> 2],
           [text |-> <<"3">>, size |-> 3], [text |-> <<"6", "3">>, size |-> 63],
           [text |-> <<"1", "2", "7">>, size |-> 127]}
NoPoints == {[text |-> <<>>, size |-> 0]}
NoFraction == {[text |-> <<>>, part |-> 0]}

\* The largest number of points with a fraction that is rounded up to a point: the
\* code accepts it, although the dimension is one more than the largest one.
RoundsUpTooFar(document0) ==
  /\ document0.errors \ {"unit"} = {"overflow"}
  /\ Size(document0.value) = MaxDimension + 1
  /\ \A t \in ToSet(document0.text) : t \notin Registers \cup DOMAIN FontUnits
       \cup DOMAIN UnitTable \cup {"sp"}

AllDimens ==
  DimenDocuments(Points, Fractions, UnitNames)
  \cup DimenDocuments(NoPoints, Fractions \ NoFraction, UnitNames)

OtherDimens ==
  {[command |-> "dimen", text |-> <<"-", "dimen", " ", "x">>, value |-> -Dimen,
    errors |-> {}, rest |-> <<" ", "x">>],
   [command |-> "dimen", text |-> <<"-", "count", "pt", "x">>,
    value |-> -Count * Unity, errors |-> {}, rest |-> <<"x">>],
   [command |-> "dimen", text |-> <<"count", "dimen", "x">>,
    value |-> Count * Dimen, errors |-> {}, rest |-> <<"x">>],
   [command |-> "dimen", text |-> <<"\"", "F", "sp", "x">>, value |-> 15,
    errors |-> {}, rest |-> <<"x">>],
   [command |-> "dimen", text |-> <<"'", "2", ".", "pt", "x">>, value |-> 2 * Unity,
    errors |-> {"unit"}, rest |-> <<".", "pt", "x">>],
   [command |-> "dimen", text |-> <<"pt", " ", "x">>, value |-> 0,
    errors |-> {"missing"}, rest |-> <<"x">>]}
-----------------------------------------------------------------------------
\* Expressions: a tree has a text, a value and the first error of its evaluation.
Good(text, v) == [text |-> text, value |-> v, errors |-> {}]

Quotient(p, q) == Sign(p) * Sign(q) * Rounded(Size(p), Size(q))

\* A product of factors after a first one, from left to right, where a
\* multiplication and the division that follows it are one operation.
RECURSIVE Product(_, _, _)
Product(v, factors, limit) ==
  IF factors = <<>> THEN [value |-> v, errors |-> {}]
  ELSE LET op == factors[1].op
           e == factors[1].by
           scaled == op = "*" /\ Len(factors) > 1 /\ factors[2].op = "/"
           by == factors[IF scaled THEN 2 ELSE 1].by
           divisor == IF op = "/" \/ scaled THEN by.value ELSE 1
           result ==
             IF e.errors # {} THEN e
             ELSE IF by.errors # {} THEN by
             ELSE IF divisor = 0 THEN [value |-> 0, errors |-> {"zero"}]
             ELSE IF op = "/" THEN Limited(Quotient(v, divisor), limit)
             ELSE Limited(Quotient(v * e.value, divisor), limit) IN
       IF result.errors # {} THEN result
       ELSE Product(result.value, SubSeq(factors, IF scaled THEN 3 ELSE 2, Len(factors)),
                    limit)

TextOfProduct(factors) == FlattenSeq([i \in DOMAIN factors |-> <<factors[i].op>> \o factors[i].by.text])

Term(first, factors, limit) ==
  LET p == IF first.errors # {} THEN first ELSE Product(first.value, factors, limit) IN
  [text |-> first.text \o TextOfProduct(factors), value |-> p.value, errors |-> p.errors]

\* The sum or the difference of an expression and a term.
Plus(e, op, t, limit) ==
  LET sum == Limited(e.value + (IF op = "-" THEN -t.value ELSE t.value), limit) IN
  [text |-> e.text \o <<op>> \o t.text, value |-> sum.value,
   errors |-> IF e.errors # {} THEN e.errors
              ELSE IF t.errors # {} THEN t.errors ELSE sum.errors]

Paren(e) == [e EXCEPT !.text = <<"(">> \o @ \o <<" ", ")">>]

Factor(op, e) == [op |-> op, by |-> e]
Factors(ints) == {Factor(op, e) : op \in {"*", "/"}, e \in ints}
AddOps == {"+", "-"}

Trees(first, ints, limit) ==
  LET few == {t \in ints : t.value \in {2, -7}}
      terms2 == {Term(t, <<g>>, limit) : t \in first, g \in Factors(ints)}
      terms3 == {Term(t, <<g1, g2>>, limit) : t \in first, g1, g2 \in Factors(ints)}
      terms4 == {Term(t, <<g1, g2, g3>>, limit) :
                   t \in first, g1, g2, g3 \in Factors(few)}
      sums == {Plus(t, op, u, limit) : t, u \in first, op \in AddOps}
      intSums == {Paren(Plus(t, op, u, MaxInteger)) : t, u \in few, op \in AddOps}
      parens == {Paren(e) : e \in sums \cup terms2} IN
  first \cup terms2 \cup terms3 \cup terms4 \cup sums \cup parens
  \cup {Plus(e, op, u, limit) : e \in sums \cup terms2, op \in AddOps, u \in first}
  \cup {Plus(t, op, u, limit) : t \in first, op \in AddOps, u \in terms2 \cup parens}
  \cup {Term(e, <<g>>, limit) : e \in parens, g \in Factors(few)}
  \cup {Term(t, <<g1, g2>>, limit) :
          t \in first, g1 \in Factors(few), g2 \in Factors(intSums)}
  \cup {Term(Paren(e), <<g1, g2>>, limit) : e \in parens, g1, g2 \in Factors(few)}

Ints == {Good(<<"2">>, 2), Good(<<"-", "7">>, -7), Good(<<"9", "9", " ">>, 99),
         Good(<<"0">>, 0)}
Dimens == {Good(<<"2", "sp">>, 2), Good(<<"-", "1", ".", "4", "pt">>, -22),
           Good(<<"3", "pt", " ">>, 48)}

\* Divided products near the limits, with all signs of the divisor.
Divided ==
  LET wide == {Good(<<"5">>, 5), Good(<<"6", "0">>, 60), Good(<<"6", "1">>, 61),
               Good(<<"7", "7">>, 77), Good(<<"1", "0", "1">>, 101),
               Good(<<"-", "6", "0">>, -60)} IN
  {Term(t, <<Factor("*", u), Factor("/", w)>>, MaxInteger) : t, u, w \in wide}

ExprDocuments(name, trees) ==
  {[command |-> name, text |-> e.text \o <<"relax", " ", "x">>, value |-> e.value,
    errors |-> e.errors, rest |-> <<" ", "x">>] :
     e \in trees}
  \cup {[command |-> name, text |-> e.text \o <<" ", "x">>, value |-> e.value,
         errors |-> e.errors, rest |-> <<"x">>] :
          e \in {u \in trees : Len(u.text) < 5}}

\* A parenthesis is missing: the expression ends where it should be.
Unclosed(name, trees) ==
  {[command |-> name, text |-> <<"(">> \o e.text \o <<"relax", "x">>, value |-> e.value,
    errors |-> {"paren"}, rest |-> <<"x">>] :
     e \in {u \in trees : u.errors = {}}}

IntTrees == Trees(Ints, Ints, MaxInteger) \cup Divided
DimenTrees == Trees(Dimens, Ints, MaxDimension)

MCDocuments ==
  IntDocuments \cup OtherInts
  \cup {w \in AllDimens : ~RoundsUpTooFar(w)} \cup OtherDimens
  \cup ExprDocuments("numexpr", IntTrees) \cup ExprDocuments("dimexpr", DimenTrees)
  \cup Unclosed("numexpr", {Plus(t, "+", u, MaxInteger) : t, u \in Ints})
=============================================================================
