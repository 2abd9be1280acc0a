---------------------------- MODULE MCConditions ----------------------------
(* Texts for Conditions: all short sequences of tokens, and the texts that *)
(* are written from nested conditionals, with what they mean.              *)
EXTENDS Conditions, FiniteSets

CONSTANT MaxLength   \* bound on the length of arbitrary texts

ArbitraryTokens == {"if", "case", "else", "or", "fi", "0", "1"}
ArbitraryTexts == UNION { [1..n -> ArbitraryTokens] : n \in 0..MaxLength }

-----------------------------------------------------------------------------
(* A tree is a sequence of digits and conditionals.  A conditional has a   *)
(* test, itself a tree, the branches (one, or those of \ifcase) and the    *)
(* branch after \else, if there is one.                                    *)

Digit(d) == [kind |-> "digit", val |-> d]
Cond(kind, test, branches, final) ==
  [kind |-> kind, test |-> test, branches |-> branches, final |-> final]

RECURSIVE Text(_)
Text(tree) ==
  FlattenSeq([i \in DOMAIN tree |->
    LET x == tree[i]
    IN IF x.kind = "digit" THEN <<x.val>>
       ELSE <<x.kind>> \o Text(x.test)
              \o FlattenSeq([j \in DOMAIN x.branches |->
                   (IF j = 1 THEN <<>> ELSE <<"or">>) \o Text(x.branches[j])])
              \o (IF x.final = <<>> THEN <<>> ELSE <<"else">> \o Text(x.final[1]))
              \o <<"fi">>])

(* What a tree typesets.  The first digit of the test is the number, what  *)
(* the test typesets after it goes in front of the first branch.           *)
RECURSIVE Meaning(_)
Meaning(tree) ==
  FlattenSeq([i \in DOMAIN tree |->
    LET x == tree[i]
    IN IF x.kind = "digit" THEN <<x.val>>
       ELSE LET test == Meaning(x.test)
                v == Value(Head(test))
                branch == IF x.kind = "case" THEN v + 1 ELSE IF Holds(x.kind, v) THEN 1 ELSE 2
            IN IF branch = 1 THEN Tail(test) \o Meaning(x.branches[1])
               ELSE IF branch \in DOMAIN x.branches THEN Meaning(x.branches[branch])
               ELSE IF x.final = <<>> THEN <<>> ELSE Meaning(x.final[1])])

Finals(B) == {<<>>} \cup { <<b>> : b \in B }
Conditionals(T, B) ==
  { Cond(k, t, <<b>>, f) : k \in {"if", "unless"}, t \in T, b \in B, f \in Finals(B) }
    \cup { Cond("case", t, <<b1, b2>>, f) : t \in T, b1 \in B, b2 \in B, f \in Finals(B) }

Numbers == { <<Digit(d)>> : d \in Digits }
Plain == {<<>>, <<Digit("2")>>}
Flat == Conditionals(Numbers, Plain)
FlatTests == { <<c>> : c \in { x \in Flat : Meaning(<<x>>) # <<>> } }
FlatBranches == { <<c>> : c \in Conditionals({<<Digit("0")>>, <<Digit("1")>>}, {<<Digit("2")>>}) }

\* A conditional inside the test (followed by another digit or not), or inside
\* a branch of another conditional.
Nested ==
  Conditionals(Numbers \cup FlatTests \cup { t \o <<Digit("0")>> : t \in FlatTests }, Plain)
    \cup Conditionals(Numbers, FlatBranches)

\* A digit follows the conditional.
Trees == { <<c, Digit("1")>> : c \in Nested }
WellFormedTexts == { Text(tree) : tree \in Trees }
AllTexts == ArbitraryTexts \cup WellFormedTexts
TextAndMeaning == { <<Text(tree), Meaning(tree)>> : tree \in Trees }

\* A text written from nested conditionals is read without error, and what is
\* typeset is the branches the tests select, however the tests and branches
\* that are skipped are nested.
BranchesAreSelected ==
  finished /\ source \in WellFormedTexts => ~errors /\ <<source, output>> \in TextAndMeaning

=============================================================================
