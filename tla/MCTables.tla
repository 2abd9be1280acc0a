------------------------------ MODULE MCTables ------------------------------
(* Documents for Tables.                                                   *)
EXTENDS Tables

Doc(preambles, types, multi, commands, columns, nested, elements) ==
  [preambles |-> preambles, types |-> types, multi |-> multi, commands |-> commands,
   columns |-> columns, nested |-> nested, elements |-> elements]

\* What may stand before, between and after the columns.
Parts == [bar |-> <<<<"bar">>>>, u |-> <<<<"greater">>, <<"1">>>>, v |-> <<<<"less">>, <<"2">>>>, bang |-> <<<<"bang">>, <<"3">>>>]
Cells == {<<<<"c">>>>, <<<<"l">>>>, <<<<"p">>, <<"4">>>>}
Before == {Parts.bar, Parts.bar \o Parts.u, Parts.bang \o Parts.u \o Parts.u}
After == {<<>>, Parts.v, Parts.bar, Parts.bar \o Parts.bar, Parts.v \o Parts.v \o Parts.bar \o Parts.bang}
Columns == { c \o a : c \in Cells, a \in After }
BarredPreambles == { b \o x \o y : b \in Before, x \in Columns, y \in Columns \cup { Parts.u \o z : z \in Columns} }
PlainPreambles == { x \o u \o y : x \in Cells \cup {Parts.u \o c \o Parts.v : c \in Cells}, u \in {<<>>, Parts.u}, y \in Cells }

cc == <<<<"c">>, <<"r">>>>
Template2 == <<<<"greater">>, <<"1">>, <<"c">>, <<"less">>, <<"2">>, <<"r">>>>
Multi(n, preamble) == [kind |-> "multi", n |-> n, preamble |-> preamble]

MCDocuments == <<
  Doc(BarredPreambles \cup PlainPreambles, <<>>, {}, {}, 0, 1, 2),
  \* Column types.
  Doc({<<<<"A">>, <<"l">>>>, <<<<"bar">>, <<"B">>, <<"A">>, <<"bar">>>>, <<<<"B">>, <<"B">>>>},
      <<[c |-> "A", body |-> <<<<"greater">>, <<"5">>, <<"c">>>>], [c |-> "B", body |-> <<<<"A">>, <<"r">>>>]>>, {}, {}, 0, 2, 3),
  \* Cells and their columns.
  Doc({Template2}, <<>>, {Multi(1, <<<<"l">>>>), Multi(2, <<<<"greater">>, <<"5">>, <<"l">>, <<"bar">>>>)}, {"text", "omit"}, 0, 1, 8),
  Doc({Template2, cc}, <<>>, {Multi(2, <<<<"l">>>>)}, {}, 0, 2, 9),
  \* Rules.
  Doc({cc}, <<>>, {Multi(2, <<<<"l">>>>)}, {"cline", "text"}, 3, 1, 7),
  Doc({cc}, <<>>, {}, {"cline", "hline"}, 2, 1, 7) >>

=============================================================================
