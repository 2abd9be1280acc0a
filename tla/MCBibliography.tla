--------------------------- MODULE MCBibliography ---------------------------
(* Documents for Bibliography.                                             *)
EXTENDS Bibliography

Doc(commands, keys, from, own, strings, databases, citations, solved) ==
  [commands |-> commands, keys |-> keys, from |-> from, ids |-> own \cup {NoId}, strings |-> strings,
   databases |-> databases, citations |-> citations, solved |-> solved]

Gives(name, value) == [name |-> name, value |-> value]
Entry(type, key, fields) == [type |-> type, key |-> key, fields |-> fields, eof |-> FALSE]
String(name, value) == [type |-> "string", name |-> name, value |-> value, eof |-> FALSE]
Cut(item) == [item EXCEPT !.eof = TRUE]

\* Keys: two that have a common beginning, the first one in capitals, and another one.
knuth == <<11, 0>>
Knuth == <<11, 1>>
knott == <<12, 0>>
mill == <<31, 0>>
jan == 100

\* Citations of several kinds, and elements that solve them.
None1 == {<<>>, <<<<Entry("book", knuth, <<Gives("title", 1)>>)>>>>}
Solving == Doc({"cite", "nocite", "bibitem"}, {knuth}, {"", "foot"}, {<<"uid", 7>>}, {}, None1, 3, 2)
Mixing == Doc({"cite", "nocite", "bibitem", "citation"}, {knuth, knott}, {""}, {<<"uid", 7>>}, {}, None1, 2, 2)
Cases == Doc({"cite", "bibitem", "citation"}, {knuth, Knuth}, {""}, {}, {}, None1, 2, 2)

\* Entries with a parent, in any order and in two files.
Child == Entry("inproceedings", knuth, <<Gives("author", 21), Gives("crossref", mill)>>)
Parent1 == Entry("proceedings", mill, <<Gives("title", 3), Gives("editor", 22), Gives("year", 98), Gives("note", 4)>>)
Second == Entry("article", knuth, <<Gives("author", 25), Gives("journal", 6)>>)
Odd == Entry("foo", knuth, <<Gives("note", 5), Gives("year", jan)>>)
Other == Entry("inproceedings", knott, <<Gives("title", 1), Gives("crossref", mill), Gives("crossref", knuth), Gives("title", 2)>>)
Pieces == {Child, Parent1, Second, Odd, Other, String(jan, 2001), Cut(Child)}
Orders(n) == { q \in [1..n -> Pieces] : \A i, j \in 1..n : i # j => q[i] # q[j] }
Files ==
  { <<q>> : q \in { o \in Orders(3) : ToSet(o) \cap {Child, Other} # {} /\ Cut(Child) \notin ToSet(o) } }
    \cup { <<<<q[1], q[2]>>, <<q[3]>>>> : q \in { o \in Orders(3) : Cut(Child) \in {o[1], o[2]} /\ Child \notin ToSet(o) } }
Inheriting == Doc({"cite", "nocite*", "omitcite"}, {knuth, mill}, {""}, {}, {jan}, Files, 2, 0)

\* Entries with common labels.
Named(key, who, year, title) ==
  Entry("misc", key, <<Gives("author", who), Gives("title", title)>> \o (IF year = 0 THEN <<>> ELSE <<Gives("year", year)>>))
Works == { Named(knuth, who, year, 7) : who \in {21, 25}, year \in {0, 98, 1998} }
           \cup { Named(knott, 25, year, 7) : year \in {0, 98} }
           \cup { Named(mill, 21, 1998, 8), Entry("misc", mill, <<>>), Entry("misc", <<13, 0>>, <<>>), Entry("misc", <<13, 1>>, <<>>),
                  Entry("proceedings", mill, <<Gives("author", 31), Gives("editor", 29), Gives("year", 98)>>) }
Shelves == { <<<<a, b, c>>>> : a \in Works, b \in Works, c \in Works }
Labelling == Doc({"nocite*"}, {}, {}, {}, {}, { d \in Shelves : d[1][1].key # d[1][2].key /\ d[1][3].key \notin {d[1][1].key, d[1][2].key} }, 0, 0)

MCDocuments == <<Solving, Mixing, Cases, Inheriting, Labelling>>
=============================================================================
