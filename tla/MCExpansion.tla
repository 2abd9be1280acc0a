---------------------------- MODULE MCExpansion ----------------------------
(* Documents for Expansion: definitions, and then every short text.        *)
EXTENDS Expansion

a == Char("a")
b == Char("b")
dot == Char(".")
left == Char("[")
right == Char("]")
one == Char("1")
two == Char("2")
m == Command("m")
n == Command("n")
o == Command("o")
e == Command("e")
long == Command("long")
def == Command("def")
edef == Command("edef")
newcommand == Command("newcommand")

Texts(alphabet, k) == UNION { [1..i -> alphabet] : i \in 0..k }
Def(parameters, body) == <<def, m>> \o parameters \o <<OB>> \o body \o <<CB>>
Arg == <<Hash, one>>
Both == <<Hash, two, left, Hash, one, right>>

\* Arguments with delimiters: every text that follows the call.
Delimiters ==
  { Def(Arg, <<left>> \o Arg \o <<right>>), Def(Arg \o <<dot>>, Arg \o Arg), <<long>> \o Def(Arg \o <<a, dot>>, Arg \o <<b>>),
    Def(<<dot>> \o Arg, Arg), Def(Arg \o <<dot, Hash, two, a>>, Both), Def(Arg \o <<Hash, two>>, Both), Def(Arg \o <<Hash>>, Arg \o <<b>>),
    <<long>> \o Def(Arg \o <<Par>>, Arg) }
Calls == { d \o <<m>> \o t : d \in Delimiters, t \in Texts({a, dot, OB, CB, Par}, 4) }


\* Arguments in brackets.
Optionals ==
  { <<newcommand, m, left, one, right, left, b, right, OB>> \o Arg \o <<a>> \o Arg \o <<CB>>,
    <<newcommand, Star, m, left, two, right, left, right, OB>> \o Both \o <<CB>>,
    <<newcommand, m, left, two, right, left, Command("@dblarg"), right, OB>> \o Both \o <<CB>> }
OptionalCalls == { d \o <<m>> \o t : d \in Optionals, t \in Texts({a, left, right, OB, CB, Space}, 4) }

\* Bodies of \edef, with commands of all kinds.
Meanings == Def(Arg, <<a>> \o Arg) \o <<Command("protected"), def, n, OB, a, CB, def, o, OB, m, b, CB>>
Pieces ==
  { <<a>>, <<m>>, <<n>>, <<o>>, <<OB>>, <<CB>>, Arg, <<Command("noexpand")>>, <<Command("expandafter")>>,
    <<Command("csname"), n, EndCsname>>, <<Command("csname"), o, EndCsname>>, <<Command("@nameuse"), m>>, <<Command("@ifundefined"), o>>, <<Command("@ifundefined"), Char("m")>>, <<Command("@firstoftwo")>>, <<Command("use_i_ii:nnn")>> }
Bodies(pieces, k) == FoldLeft(LAMBDA S, i : S \cup { t \o p : t \in S, p \in pieces }, {<<>>}, [i \in 1..k |-> i])
Edefs == { Meanings \o <<edef, e>> \o Arg \o <<OB>> \o t \o <<CB, e, a>> : t \in Bodies(Pieces, 3) }

\* A forbidden command in every place.
Outers == { <<Command("outer"), def, o, OB, a, CB>> \o d \o t \o <<b, CB>> :
  d \in { <<def, m>>, <<edef, m>> \o Arg, Def(Arg \o <<dot>>, Arg) \o <<m>>, <<newcommand, m>>, <<newcommand, m, left, one, right>> },
  t \in Texts({a, o, dot, OB, CB, left, right, n, Command("expandafter"), Command("noexpand")}, 3) }

\* Parameters of every form.
Parameters1 == { <<def, m>> \o t \o <<OB>> \o u \o <<CB>> : t \in Texts({Hash, one, two, a, CB}, 4), u \in Texts({Hash, one, OB, CB}, 1) }

\* What LaTeX looks ahead for.
Looks == { Def(<<>>, <<b>>) \o t : t \in Bodies(
  { <<Command("@ifstar")>>, <<Command("@ifnextchar")>>, <<Command("@ifundefined"), m>>, <<Command("@ifundefined"), OB, n, CB>>,
    <<OB>>, <<CB>>, <<a>>, <<Star>>, <<OB, a, CB>>, <<Space>>, <<Command("gdef"), m>> }, 3) }

\* Flags before a definition, and before something else.
Flags == { t \o <<def, m, OB, CB>> \o <<m>> : t \in Bodies(
  { <<long>>, <<Command("outer")>>, <<Command("protected")>>, <<Command("global")>>, <<Space>>, <<Command("relax")>>, <<a>>, <<OB>> }, 3) }

MCDocuments == Calls \cup OptionalCalls \cup Edefs \cup Outers \cup Parameters1 \cup Looks \cup Flags
=============================================================================
