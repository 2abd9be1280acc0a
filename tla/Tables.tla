------------------------------- MODULE Tables -------------------------------
(* The tabular environment: the preamble, which gives a template for each  *)
(* column (NewArray), and the rows and cells, with the rules of \hline and *)
(* \cline (start_a_row, T_cline).  A cell is translated between the u-part *)
(* and the v-part of its column.                                           *)
EXTENDS Integers, FiniteSets, SequencesExt

CONSTANTS
  Documents,  \* the preambles, the commands and the bounds of each document
  MaxLoops    \* max_newcolumn_loops

ASSUME TablesAssumption ==
  /\ MaxLoops \in Nat
  /\ \A d \in DOMAIN Documents : Documents[d].elements \in Nat /\ Documents[d].nested \in Nat

VARIABLES
  document,   \* the index of the document
  attribs,    \* NewArray::attribs, which outlives a preamble
  AI,         \* the columns of the open tables, and the number of the current cell
  elts,       \* tables, rows and cells, by the order of their creation
  frames,     \* the open tables, rows and cells
  row,        \* the variables of the loop of start_a_row
  ruled       \* history: the rules that were asked for

Uses == Documents[document]
Allowed(c) == c \in Uses.commands

vars == <<document, attribs, AI, elts, frames, row, ruled>>

-----------------------------------------------------------------------------
(* The preamble: a sequence of items, each a letter or a list in braces.   *)

NoAtts == [halign |-> "none", left |-> FALSE, right |-> FALSE]
Expects == [pre_bar |-> "bar", pre_inter |-> "inter", pre_v |-> "v", pre_u |-> "u", pre_cell |-> "cell"]
Classes == [c |-> "cell", l |-> "cell", r |-> "cell", p |-> "pre_cell", bar |-> "bar", bang |-> "pre_bar",
            at |-> "pre_inter", less |-> "pre_v", greater |-> "pre_u"]

Letter(item) == IF item = <<>> \/ Head(item) \notin DOMAIN Classes THEN "other" ELSE Head(item)

\* test_pach; a v-part that is not expected is read as an argument of !.
test_pach(s, item) ==
  IF s.last \in DOMAIN Expects THEN Expects[s.last]
  ELSE IF Letter(item) = "other" THEN "cell"
  ELSE IF Letter(item) = "less" /\ s.last \notin {"cell", "v"} THEN "pre_bar"
  ELSE Classes[Letter(item)]

\* An entry of the table (ArrayInfo::add_uv).
Column(s) == [u |-> s.u, v |-> s.v, atts |-> s.atts]

\* Variant for a mutant: the parts of a column are not reset.
add_uv_no_reset(s) == [s EXCEPT !.cols = Append(@, Column(s)), !.atts = NoAtts]

add_uv(s) == [s EXCEPT !.cols = Append(@, Column(s)), !.atts = NoAtts, !.u = <<>>, !.v = <<>>]

\* The previous column ends, when there is one.  The first bar is supposed to be the
\* one before the first column.
ac_maybe_finish(s) ==
  IF s.last = "bar" /\ s.first_bar THEN [s EXCEPT !.first_bar = FALSE]
  ELSE IF s.last \notin {"cell", "v", "bar"} THEN s
  ELSE IF s.main_fct THEN add_uv(s) ELSE s

SetAtt(s, name, value) == [s EXCEPT !.atts[name] = value]
emplace(s, name, value) == IF s.atts[name] = NoAtts[name] THEN SetAtt(s, name, value) ELSE s

AddBorder(s) ==
  CASE s.last = "start" -> SetAtt(s, "left", TRUE)
    [] s.last \in {"bar", "pre_bar"} -> s
    [] OTHER -> emplace(s, "right", TRUE)

\* The item of one turn of the loop of NewArray::run.
RunItem(s, item) ==
  LET class == test_pach(s, item)
      argument == s.last \in DOMAIN Expects
      t == CASE class = "cell" -> LET h == IF argument \/ Letter(item) = "other" THEN "c" ELSE Letter(item)
                                  IN emplace(ac_maybe_finish(s), "halign", h)
             [] class = "bar" -> AddBorder(s)
             [] class = "v" -> [s EXCEPT !.v = item \o @]
             [] class = "u" -> [s EXCEPT !.u = item \o @]
             [] class \in {"pre_u", "pre_cell"} -> ac_maybe_finish(s)
             [] OTHER -> s
  IN [t EXCEPT !.last = class]

\* NewArray::run; the attributes of an unfinished column stay.
run(preamble, main_fct) ==
  LET start == [last |-> "start", first_bar |-> TRUE, main_fct |-> main_fct,
                u |-> <<>>, v |-> <<>>, atts |-> attribs, cols |-> <<>>]
  IN ac_maybe_finish(FoldLeft(RunItem, start, preamble))

\* One pass for the column type c: its body takes the place of each c, and is
\* looked at again, at most mx times (TokenList::expand_nct).  In the items that are
\* left, the ones that were read come last; they are lost when mx is reached.
expand_type(l, c, body, mx) ==
  LET Turn(s, i) ==
        IF s.todo = <<>> \/ s.stop THEN s
        ELSE LET rest == Tail(s.todo)
             IN IF Head(s.todo) # <<c>> THEN [s EXCEPT !.todo = rest, !.read = Append(@, Head(s.todo))]
                ELSE IF s.mx <= 0 THEN [s EXCEPT !.todo = rest, !.mx = @ - 1, !.read = <<>>, !.stop = TRUE]
                ELSE [s EXCEPT !.todo = body \o rest, !.mx = @ - 1]
      turns == Len(l) + (IF mx > 0 THEN mx * Len(body) ELSE 0)
      end == FoldLeft(Turn, [todo |-> l, mx |-> mx, read |-> <<>>, stop |-> FALSE], [i \in 1..turns |-> i])
  IN [list |-> end.todo \o end.read, mx |-> end.mx]

\* Parser::expand_nct: the types in the order of their characters, while one is found.
expand_nct(l) ==
  LET Type(s, t) == LET e == expand_type(s.list, t.c, t.body, s.mx)
                    IN [list |-> e.list, mx |-> e.mx, action |-> s.action \/ e.mx # s.mx]
      Pass(s, i) == IF ~s.action \/ s.mx <= 1 THEN s
                    ELSE FoldLeft(Type, [s EXCEPT !.mx = @ - 1, !.action = FALSE], Uses.types)
  IN FoldLeft(Pass, [list |-> l, mx |-> MaxLoops, action |-> Uses.types # <<>>], [i \in 1..MaxLoops |-> i]).list

-----------------------------------------------------------------------------
(* The tree.                                                               *)

Newline == 0
Document == 1
DummyXid == 0   \* the id for attributes of a row that does not exist

Element(name) == [name |-> name, atts |-> NoAtts, cols |-> 1, top |-> FALSE, bottom |-> FALSE,
                  text |-> <<>>, sons |-> <<>>, plain |-> FALSE]

get_xid(s) == Len(s.elts)
TopElt(s) == Last(s.frames).elt
is_frame(s, name) == Last(s.frames).frame = name
Sons(s, e) == s.elts[e].sons

add_last(s, son) == [s EXCEPT !.elts[TopElt(s)].sons = Append(@, son)]
push1(s, name) ==
  LET n == get_xid(s) + 1
      t == [s EXCEPT !.elts = Append(@, Element(name)), !.elts[TopElt(s)].sons = Append(@, n)]
  IN [t EXCEPT !.frames = Append(@, [frame |-> name, elt |-> n, omit_cell |-> FALSE])]
pop(s) == [s EXCEPT !.frames = Front(@)]
add_nl(s) == IF Sons(s, TopElt(s)) # <<>> /\ Last(Sons(s, TopElt(s))) = Newline THEN s ELSE add_last(s, Newline)

push_cell(s) == push1(s, "cell")
pop_cell(s) == add_nl(pop(s))
add_span(s, n) == [s EXCEPT !.elts[get_xid(s)].cols = n]
add_bottom_rule(s, e) == IF e = DummyXid THEN s ELSE [s EXCEPT !.elts[e].bottom = TRUE]

get_cell_span(s, son) == IF son = Newline THEN 0 ELSE s.elts[son].cols

\* The span of the sons before the k-th one; total_span when there are k - 1.
SpanBefore(s, r, k) == FoldLeft(LAMBDA n, son : n + get_cell_span(s, son), 0, SubSeq(Sons(s, r), 1, k - 1))
total_span(s, r) == SpanBefore(s, r, Len(Sons(s, r)) + 1)

\* Cells of the row r begin after column a - 1 and end at column b, before its last son.
try_cline(s, r, a, b) ==
  /\ \E i \in DOMAIN Sons(s, r) : SpanBefore(s, r, i) = a - 1
  /\ \E i \in DOMAIN Sons(s, r) : SpanBefore(s, r, i) = b

try_cline_action(s, r, a, b) ==
  LET under == { i \in DOMAIN Sons(s, r) : Sons(s, r)[i] # Newline /\ SpanBefore(s, r, i) \in a-1..b-1 }
      marked == { Sons(s, r)[i] : i \in under }
  IN [s EXCEPT !.elts = [e \in DOMAIN @ |-> IF e \in marked THEN [@[e] EXCEPT !.bottom = TRUE] ELSE @[e]]]

\* A row of one empty cell, which \\ may have started.
try_cline_again(s, r) ==
  \E c \in DOMAIN s.elts :
    /\ Sons(s, r) = <<c, Newline>>
    /\ s.elts[c].cols = 1 /\ ~s.elts[c].top /\ s.elts[c].text = <<>> /\ Sons(s, c) = <<>>

\* A row of its own: a - 1 columns, then b columns with a rule.
add_border(s, a, b) ==
  LET t == push_cell(push1(s, "row"))
      w == IF a = 1 THEN t ELSE push_cell(pop_cell(add_span(t, a - 1)))
      z == add_span(w, b)
  IN pop(pop_cell(add_bottom_rule(z, get_xid(z))))

\* A cell with a given span in the row r, which is no longer on the stack.
NewCell(s, r, span) ==
  [s EXCEPT !.elts = Append(@, [Element("cell") EXCEPT !.cols = span]), !.elts[r].sons = Append(@, get_xid(s) + 1)]

\* Variant for a mutant: the empty cell before the rule is one column too wide.
T_cline_wide(s, a, b) ==
  LET sons == Sons(s, TopElt(s))
      r == Last(sons)
      gap == a - total_span(s, r)
      t == NewCell(s, r, gap)
      z == NewCell(t, r, b - a + 1)
  IN IF sons # <<>> /\ ~try_cline(s, r, a, b) /\ gap >= 1 THEN add_bottom_rule(z, get_xid(z))
     ELSE add_border(s, a, b - a + 1)

\* \cline{a-b}, at the place where a row may begin.
T_cline(s, a, b) ==
  LET sons == Sons(s, TopElt(s))
      r == Last(sons)
      gap == a - 1 - total_span(s, r)
      t == IF gap = 0 THEN s ELSE NewCell(s, r, gap)
      z == NewCell(t, r, b - a + 1)
  IN IF sons = <<>> THEN add_border(s, a, b - a + 1)
     ELSE IF try_cline(s, r, a, b) THEN try_cline_action(s, r, a, b)
     ELSE IF gap >= 0 THEN add_bottom_rule(z, get_xid(z))
     ELSE IF try_cline_again(s, r)
          THEN add_border([s EXCEPT !.elts[r].sons = <<>>, !.elts[r].name = ""], a, b - a + 1)
     ELSE add_border(s, a, b - a + 1)

-----------------------------------------------------------------------------
(* Rows and cells, as operators on the whole state s.                      *)

State == [elts |-> elts, frames |-> frames, AI |-> AI, attribs |-> attribs, row |-> row]

Becomes(s) ==
  /\ elts' = s.elts /\ frames' = s.frames /\ AI' = s.AI
  /\ attribs' = s.attribs /\ row' = s.row

\* The template of the current cell; there are no templates after the last one.
NoColumn == [u |-> <<>>, v |-> <<>>, atts |-> NoAtts]
Template(s) == LET A == Last(s.AI) IN IF A.cell_no < Len(A.cols) THEN A.cols[A.cell_no + 1] ELSE NoColumn

Put(s, text) == [s EXCEPT !.elts[TopElt(s)].text = @ \o text]

\* \multicolumn{n}{preamble}, when the cell begins: the attributes go to the cell, the
\* u-part and the v-part around the argument.
multicolumn(s, n, preamble) ==
  LET m == run(expand_nct(preamble), FALSE)
      t == [s EXCEPT !.elts[TopElt(s)].cols = n, !.elts[TopElt(s)].atts = m.atts]
  IN [Put(t, m.u \o <<"x">> \o m.v) EXCEPT !.attribs = NoAtts]

\* What a cell begins with: \omit, \multicolumn, or something else; \end is like \omit.
Plain == [kind |-> "plain"]
Omitted == [kind |-> "omit"]
CellStarts == {Plain} \cup (IF Allowed("omit") THEN {Omitted} ELSE {}) \cup Uses.multi

start_a_cell(s, c) ==
  LET t == push_cell(s)
      w == [t EXCEPT !.frames[Len(t.frames)].omit_cell = c.kind # "plain", !.elts[TopElt(t)].plain = c.kind = "plain"]
  IN CASE c.kind = "plain" -> Put(w, Template(w).u)
       [] c.kind = "multi" -> multicolumn(w, c.n, c.preamble)
       [] OTHER -> w

\* The end of a cell: the v-part (finish_a_cell); the attributes of the column, and the
\* number of the next cell (Stack::finish_cell).  A span of one is not noted.

\* Variant for a mutant: a wide cell counts for one column.
finish_cell_narrow(s) ==
  LET t == IF Last(s.frames).omit_cell THEN s ELSE Put(s, Template(s).v)
  IN [t EXCEPT !.AI[Len(t.AI)].cell_no = @ + 1]

Merge(old, new) == [n \in DOMAIN old |-> IF new[n] = NoAtts[n] THEN old[n] ELSE new[n]]

finish_cell(s) ==
  LET e == TopElt(s)
      t == IF Last(s.frames).omit_cell THEN s ELSE Put(s, Template(s).v)
      w == IF s.elts[e].cols # 1 THEN t ELSE [t EXCEPT !.elts[e].atts = Merge(@, Template(s).atts)]
  IN [w EXCEPT !.AI[Len(w.AI)].cell_no = @ + s.elts[e].cols]

EndCell(s) == pop_cell(finish_cell(s))

\* start_a_row, up to the first token that matters; prev is the row before.
start_a_row(s, first) ==
  LET sons == Sons(s, TopElt(s))
  IN [s EXCEPT !.row = [first |-> first, hline |-> FALSE, prev |-> IF sons = <<>> THEN DummyXid ELSE Last(sons)]]

\* \\, in a cell.
T_cr(s) == LET t == EndCell(s) IN start_a_row(pop([t EXCEPT !.AI[Len(t.AI)].cell_no = 0]), FALSE)

\* \end{tabular}, between two rows; in a cell, \\ is added.
T_end_tabular(s) == [pop(s) EXCEPT !.AI = Front(@)]

-----------------------------------------------------------------------------
(* Commands.                                                               *)

Init ==
  /\ document \in DOMAIN Documents
  /\ attribs = NoAtts /\ AI = <<>>
  /\ elts = <<Element("document")>> /\ frames = <<[frame |-> "document", elt |-> Document, omit_cell |-> FALSE]>>
  /\ row = [first |-> TRUE, hline |-> FALSE, prev |-> DummyXid]
  /\ ruled = {}

InCell == is_frame(State, "cell")
InTable == is_frame(State, "tabular")

T_start_tabular(preamble) ==
  /\ ~InTable /\ Len(AI) < Uses.nested
  /\ LET r == run(expand_nct(preamble), TRUE)
         s == push1(State, "tabular")
     IN Becomes(start_a_row([s EXCEPT !.AI = Append(@, [cols |-> r.cols, cell_no |-> 0, from |-> preamble]), !.attribs = r.atts], TRUE))
  /\ UNCHANGED <<document, ruled>>

RuleAsked(kind, a, b) ==
  ruled' = ruled \cup {[kind |-> kind, table |-> TopElt(State), at |-> Len(Sons(State, TopElt(State))), a |-> a, b |-> b]}

\* \hline: the first row will have a rule above it; the previous row has one below it.
Hline ==
  /\ InTable /\ Allowed("hline")
  /\ Becomes(IF row.first THEN [State EXCEPT !.row.hline = TRUE] ELSE add_bottom_rule(State, row.prev))
  /\ RuleAsked(IF row.first THEN "top" ELSE "hline", 0, 0)
  /\ UNCHANGED document

Cline(a, b) ==
  /\ InTable /\ Allowed("cline")
  /\ Becomes(T_cline(State, a, b))
  /\ RuleAsked("cline", a, b)
  /\ UNCHANGED document

\* The first cell of a row.
StartRow(c) ==
  /\ InTable
  /\ LET s == push1(State, "row")
         t == IF row.hline THEN [s EXCEPT !.elts[TopElt(s)].top = TRUE] ELSE s
     IN Becomes(start_a_cell(t, c))
  /\ UNCHANGED <<document, ruled>>

Characters ==
  /\ InCell /\ Allowed("text") /\ elts[TopElt(State)].text \in {<<>>, Template(State).u}
  /\ Becomes(Put(State, <<"x">>))
  /\ UNCHANGED <<document, ruled>>

T_ampersand(c) ==
  /\ InCell
  /\ Becomes(start_a_cell(EndCell(State), c))
  /\ UNCHANGED <<document, ruled>>

T_backslash ==
  /\ InCell
  /\ Becomes(T_cr(State))
  /\ UNCHANGED <<document, ruled>>

\* & before \end{tabular}
AmpersandEnd ==
  /\ InCell /\ Allowed("omit")
  /\ Becomes(T_end_tabular(T_cr(start_a_cell(EndCell(State), Omitted))))
  /\ UNCHANGED <<document, ruled>>

T_end ==
  /\ InCell \/ InTable
  /\ Becomes(T_end_tabular(IF InCell THEN T_cr(State) ELSE State))
  /\ UNCHANGED <<document, ruled>>

Next ==
  \/ \E p \in Uses.preambles : T_start_tabular(p)
  \/ Hline
  \/ \E a, b \in 1..Uses.columns : a <= b /\ Cline(a, b)
  \/ \E c \in CellStarts : StartRow(c) \/ T_ampersand(c)
  \/ Characters \/ T_backslash \/ AmpersandEnd \/ T_end

Bounded == Len(elts') <= Uses.elements

Spec == Init /\ [][Next /\ Bounded]_vars

-----------------------------------------------------------------------------
(* Properties.                                                             *)

\* What the letters of a preamble say of its columns, by their places: a column is a
\* letter c, l, r or p; the material for it lies between its neighbours.
Specified(l) ==
  LET Places(letters) == { i \in DOMAIN l : Letter(l[i]) \in letters }
      cells == SetToSortSeq(Places({"c", "l", "r", "p"}), <)
      Limit(j) == IF j = 0 THEN 0 ELSE IF j > Len(cells) THEN Len(l) + 1 ELSE cells[j]
      Arguments(letter, from, to) == LET at == SetToSortSeq(Places({letter}) \cap from..to, >)
                                     IN FlattenSeq([i \in DOMAIN at |-> l[at[i] + 1]])
      Halign(letter) == IF letter = "p" THEN "c" ELSE letter
  IN [j \in DOMAIN cells |->
       [u |-> Arguments("greater", Limit(j - 1), Limit(j)), v |-> Arguments("less", Limit(j), Limit(j + 1)),
        atts |-> [halign |-> Halign(Letter(l[cells[j]])), left |-> j = 1 /\ Letter(l[1]) = "bar",
                  right |-> Places({"bar"}) \cap Limit(j)..Limit(j + 1) # {}]]]

\* The column types replaced by what they stand for, in a preamble and in each other.
Meaning(l) ==
  LET Body(item) == LET of == { i \in DOMAIN Uses.types : <<Uses.types[i].c>> = item }
                    IN IF of = {} THEN <<item>> ELSE Uses.types[CHOOSE i \in of : TRUE].body
      Replaced[n \in 0..Len(Uses.types)] ==
        IF n = 0 THEN l ELSE LET m == Replaced[n - 1] IN FlattenSeq([i \in DOMAIN m |-> Body(m[i])])
  IN Replaced[Len(Uses.types)]

\* A preamble gives the columns it specifies (NewArray::run), whatever tables came before.
ColumnsAreSpecified == \A i \in DOMAIN AI : AI[i].cols = Specified(Meaning(AI[i].from))

\* The open tables and their rows; the cells that are not open.
OpenTables == SelectSeq(frames, LAMBDA f : f.frame = "tabular")
IsOpen(e) == \E i \in DOMAIN frames : frames[i].elt = e
Rows(t) == ToSet(elts[t].sons)

\* A cell that is not \multicolumn uses the template of the column in which it stands,
\* the spans of the cells before it included (finish_cell, start_a_cell, T_endv, T_cr).
CellsUseTheirColumn ==
  \A i \in DOMAIN AI : \A r \in Rows(OpenTables[i].elt) : \A k \in DOMAIN elts[r].sons :
     LET e == elts[r].sons[k]
         place == SpanBefore(State, r, k) + 1
         column == IF place \in DOMAIN AI[i].cols THEN AI[i].cols[place] ELSE NoColumn
     IN (e # Newline /\ ~IsOpen(e) /\ elts[e].plain) =>
           /\ elts[e].atts = column.atts
           /\ elts[e].text \in {column.u \o column.v, column.u \o <<"x">> \o column.v}

RuledColumns(r) ==
  UNION { SpanBefore(State, r, k) + 1 .. SpanBefore(State, r, k + 1) :
            k \in { n \in DOMAIN elts[r].sons : elts[r].sons[n] # Newline /\ elts[elts[r].sons[n]].bottom } }

\* \cline{a-b} puts a rule under the columns a to b of the row before it, or of a row
\* made for it, when rows that are emptied do not count, and there are no other rules
\* under cells (T_cline); the rule of \hline is below a row that was there before it,
\* unless it is the first row's rule above (start_a_row).
RulesAreKept ==
  LET asked == { q \in ruled : q.kind = "cline" }
      Row(q, n) == elts[q.table].sons[n]
      Near(q) == { n \in DOMAIN elts[q.table].sons :
                     n >= q.at /\ \A m \in q.at+1 .. n-1 : elts[Row(q, m)].name = "" }
  IN /\ \A q \in asked : \E n \in Near(q) : q.a..q.b \subseteq RuledColumns(Row(q, n))
     /\ \A t \in DOMAIN elts : elts[t].name = "tabular" =>
          \A n \in DOMAIN elts[t].sons : \A c \in RuledColumns(elts[t].sons[n]) :
             \E q \in asked : q.table = t /\ n \in Near(q) /\ c \in q.a..q.b
     /\ \A q \in ruled : q.kind = "hline" => \E n \in 1..q.at : elts[elts[q.table].sons[n]].bottom
=============================================================================
