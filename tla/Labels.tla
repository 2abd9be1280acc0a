------------------------------- MODULE Labels -------------------------------
(* Anchors, labels and references.  \label gives a name to the current     *)
(* anchor, which is local to the current XML element and kept by the XML   *)
(* stack; the number that LaTeX would print, \@currentlabel, is local to   *)
(* the current group and kept by the save stack.  \ref makes an element    *)
(* whose target is known when the document ends (check_all_ids).           *)
EXTENDS Integers, FiniteSets, SequencesExt

CONSTANT Documents    \* what a document may use, and the bounds for it

ASSUME DocumentsAssumption ==
  \A d \in Documents : d.elements \in Nat /\ d.nested \in Nat /\ d.refs \in Nat

VARIABLES
  document,   \* the commands of this document, its names, and the bounds for it
  x,          \* the XML tree and the XML stack
  groups,     \* the open groups: their \@currentlabel and the counter of their list
  counters,   \* the values of the counters
  labels,     \* labinfo
  refs,       \* ref_list, with the targets that are added at the end
  entries,    \* the index: words with their elements
  refindex,   \* refindex_list with the anchors of its labels
  box,        \* the element of box register 0, or 0
  open,       \* the commands whose argument or environment is open
  reported,   \* the names of labels that check_all_ids complains about
  done

vars == <<document, x, groups, counters, labels, refs, entries, refindex, box, open, reported, done>>

-----------------------------------------------------------------------------
(* The tree.  An element is known by its number, the order of creation.    *)

NoId == <<"none", 0>>
Text == 0
Newline == -1

Element(name) == [name |-> name, id |-> NoId, text |-> <<>>, sons |-> <<>>]

\* get_xid: the last element that was created.
get_xid(s) == Len(s.elts)

top_stack(s) == Last(s.frames).elt
first_frame(s) == Last(s.frames).frame
Sons(s, e) == s.elts[e].sons

New(s, name) == [s EXCEPT !.elts = Append(@, Element(name))]
add_last(s, son) == [s EXCEPT !.elts[top_stack(s)].sons = Append(@, son)]
pop_back(s) == [s EXCEPT !.elts[top_stack(s)].sons = Front(@)]
TailIs(s, son) == Sons(s, top_stack(s)) # <<>> /\ Last(Sons(s, top_stack(s))) = son

add_newid0(s, name) == LET t == New(s, name) IN add_last(t, get_xid(t))
add_nl(s) == IF TailIs(s, Newline) THEN s ELSE add_last(s, Newline)

\* Text that is added to text, or to a newline, makes one string.
last_is_string(s) == TailIs(s, Text) \/ TailIs(s, Newline)
add_last_string(s) == add_last(IF last_is_string(s) THEN pop_back(s) ELSE s, Text)

ipush(s, frame, e) ==
  [s EXCEPT !.frames = Append(@, [frame |-> frame, elt |-> e, md |-> s.mode, uid |-> s.cur_lid])]

push1(s, name) == LET t == add_newid0(s, name) IN ipush(t, name, get_xid(t))

\* Variant for a mutant: the anchor of the element stays.
pop_keeps_anchor(s) == [s EXCEPT !.frames = Front(@), !.mode = Last(s.frames).md]

pop(s) == [s EXCEPT !.frames = Front(@), !.mode = Last(s.frames).md, !.cur_lid = Last(s.frames).uid]

pop_if_frame(s, frame) == IF first_frame(s) = frame THEN pop(s) ELSE s

\* The attributes of a paragraph that was empty at \par go to the next one.
ileave_v_mode(s) ==
  LET t == [push1(s, "p") EXCEPT !.mode = "h", !.unfinished_par = 0]
  IN IF s.unfinished_par = 0 THEN t
     ELSE [t EXCEPT !.elts[get_xid(t)].id = s.elts[s.unfinished_par].id,
                    !.elts[get_xid(t)].text = s.elts[s.unfinished_par].text]

leave_v_mode(s) == IF s.mode = "v" THEN ileave_v_mode(s) ELSE s

is_empty_p(s, e) == e > 0 /\ s.elts[e].name = "p" /\ s.elts[e].sons = <<>> /\ s.elts[e].id = NoId

leave_h_mode(s) ==
  IF s.mode # "h" THEN s
  ELSE LET t == pop([s EXCEPT !.unfinished_par = 0])
           p == Last(Sons(t, top_stack(t)))
       IN add_nl(IF is_empty_p(t, p) THEN pop_back(t) ELSE t)

\* \par; an empty paragraph is taken away.
T_par1(s) ==
  LET p == top_stack(s)
  IN IF s.mode # "h" THEN s
     ELSE IF Sons(s, p) # <<>> THEN leave_h_mode(s)
     ELSE pop_back(pop([s EXCEPT !.unfinished_par = p]))

\* An element whose only son is a paragraph gets the sons of the paragraph.
only_son(s, e, son) ==
  \E k \in DOMAIN Sons(s, e) : Sons(s, e)[k] = son /\ \A j \in DOMAIN Sons(s, e) : j # k => Sons(s, e)[j] = Newline

remove_par_bal_if_ok(s, e) ==
  LET single == { p \in DOMAIN s.elts : only_son(s, e, p) /\ s.elts[p].name = "p" }
      p == CHOOSE q \in single : TRUE
  IN IF single = {} THEN s
     ELSE [s EXCEPT !.elts[e].sons = Sons(s, p), !.elts[p].sons = <<>>]

-----------------------------------------------------------------------------
(* Anchors.                                                                *)

create_new_anchor(s, e, id, text) == [s EXCEPT !.elts[e].id = id, !.elts[e].text = text]

\* The id that next_label_id returns becomes the current anchor.
NextId(s) == <<"uid", s.last_label_id + 1>>

\* Variant for a mutant: the number is not counted.
WithNextId_same(s) == [s EXCEPT !.cur_lid = NextId(s)]

WithNextId(s) == [s EXCEPT !.cur_lid = NextId(s), !.last_label_id = @ + 1]

\* The element that was created last is the target.
add_new_anchor(s, text) == create_new_anchor(WithNextId(s), get_xid(s), NextId(s), text)

add_new_anchor_spec(s, text) ==
  LET id == <<"cid", s.last_top_label_id + 1>>
  IN create_new_anchor([s EXCEPT !.cur_lid = id, !.last_top_label_id = @ + 1], get_xid(s), id, text)

is_anchor(s, son) == son > 0 /\ s.elts[son].name = "anchor"
tail_is_anchor(s) ==
  LET sons == Sons(s, top_stack(s)) IN sons # <<>> /\ is_anchor(s, Last(sons))

\* The sons of an element that are anchors; an element has an anchor if one of them
\* is, or the element itself.
AnchorSons(s, e) == { k \in DOMAIN Sons(s, e) : is_anchor(s, Sons(s, e)[k]) }
Anchored(s, e) == s.elts[e].id # NoId \/ AnchorSons(s, e) # {}

\* \anchor, or \anchor* (spec), which makes the current element the anchor.
add_anchor(s, text, spec) ==
  IF ~spec /\ tail_is_anchor(s) THEN s
  ELSE LET t == IF spec THEN WithNextId(s) ELSE add_newid0(WithNextId(s), "anchor")
       IN create_new_anchor(t, IF spec THEN top_stack(t) ELSE get_xid(t), NextId(s), text)

-----------------------------------------------------------------------------
(* Counters.                                                               *)

\* The counters that \thefoo prints, with \p@foo before it.
Printed == [section |-> <<"section">>, subsection |-> <<"section", "subsection">>,
            footnote |-> <<"footnote">>, enumi |-> <<"enumi">>, enumii |-> <<"enumi", "enumii">>]

\* \cl@foo: the counters that \stepcounter{foo} resets.
cl == [section |-> {"subsection"}, subsection |-> {}, footnote |-> {}, enumi |-> {}, enumii |-> {}]

Counters == DOMAIN Printed

\* Variant for a mutant: the reset list is not read.
stepcounter_no_reset(cs, c) == [cs EXCEPT ![c] = @ + 1]

stepcounter(cs, c) == [d \in Counters |-> IF d = c THEN cs[d] + 1 ELSE IF d \in cl[c] THEN 0 ELSE cs[d]]

make_label_inner(cs, c) == [i \in DOMAIN Printed[c] |-> cs[Printed[c][i]]]

\* Variant for a mutant: the label belongs to the outermost group.
string_define_outer(gs, label) == [gs EXCEPT ![1].label = label]

\* \@currentlabel is defined locally.
string_define(gs, label) == [gs EXCEPT ![Len(gs)].label = label]

\* refstepcounter: the counters, and the groups gs after it.
Stepped(c) == stepcounter(counters, c)
LabelOf(c) == make_label_inner(Stepped(c), c)
refstepcounter(c, gs) == counters' = Stepped(c) /\ groups' = string_define(gs, LabelOf(c))

push_level(gs) == Append(gs, Last(gs))

pop_level(gs) == Front(gs)

-----------------------------------------------------------------------------
(* Commands.                                                               *)

Init ==
  /\ document \in Documents
  /\ x = [elts |-> <<Element("document")>>,
          frames |-> <<[frame |-> "document", elt |-> 1, md |-> "v", uid |-> <<"uid", 1>>]>>,
          mode |-> "v", cur_lid |-> <<"uid", 1>>, unfinished_par |-> 0,
          last_label_id |-> 0, last_top_label_id |-> 0, anchor_id |-> 0]
  /\ groups = <<[label |-> <<>>, list_ctr |-> "none"]>>
  /\ counters = [c \in Counters |-> 0]
  /\ labels = [n \in document.names |-> [defined |-> FALSE, id |-> NoId]]
  /\ refs = <<>> /\ entries = <<>> /\ refindex = <<>>
  /\ box = 0 /\ open = <<>> /\ reported = {} /\ done = FALSE

Allowed(c) == ~done /\ c \in document.commands
MayOpen(c) == Allowed(c) /\ Len(open) < document.nested /\ open' = Append(open, c)
Closes(c) == ~done /\ open # <<>> /\ Last(open) = c /\ open' = Front(open)
Inside(c) == \E i \in DOMAIN open : open[i] = c

labelVars == <<labels, refs, reported>>
indexVars == <<entries, refindex>>

\* Characters.
Characters ==
  /\ Allowed("text")
  /\ x' = add_last_string(leave_v_mode(x))
  /\ x' # x
  /\ UNCHANGED <<document, groups, counters, labelVars, indexVars, box, open, done>>

\* \par, outside of boxes.
Par ==
  /\ Allowed("par") /\ first_frame(x) # "hbox"
  /\ x' = T_par1(x)
  /\ UNCHANGED <<document, groups, counters, labelVars, indexVars, box, open, done>>

OpenBrace ==
  /\ MayOpen("group")
  /\ groups' = push_level(groups)
  /\ UNCHANGED <<document, x, counters, labelVars, indexVars, box, done>>

CloseBrace ==
  /\ Closes("group")
  /\ groups' = pop_level(groups)
  /\ UNCHANGED <<document, x, counters, labelVars, indexVars, box, done>>

\* The sections that end: para_aux(0) for \section, para_aux(1) for \subsection.
para_aux(s, y) ==
  LET t == pop_if_frame(s, "div1") IN IF y = 0 THEN pop_if_frame(t, "div0") ELSE t

\* start_paras: the anchor of a section.
anchor_of_section(s, y, c) ==
  IF y = 0 THEN add_new_anchor_spec(s, LabelOf(c)) ELSE add_new_anchor(s, LabelOf(c))

\* \section and \subsection, with a star or not, up to the title, which is
\* translated in a group.
T_paras(c, y, star) ==
  LET s == push1(add_nl(para_aux(leave_h_mode(x), y)), IF y = 0 THEN "div0" ELSE "div1")
      t == IF star THEN s ELSE anchor_of_section(s, y, c)
  IN /\ MayOpen("title") /\ (open = <<>> \/ ("sectionInGroup" \in document.commands /\ ToSet(open) = {"group"}))
     /\ star => "star" \in document.commands
     /\ x' = push1([t EXCEPT !.mode = "arg"], "head")
     /\ IF star THEN groups' = push_level(groups) /\ UNCHANGED counters
        ELSE counters' = Stepped(c) /\ groups' = push_level(string_define(groups, LabelOf(c)))
     /\ UNCHANGED <<document, labelVars, indexVars, box, done>>

EndTitle ==
  /\ Closes("title")
  /\ x' = [add_nl(pop(x)) EXCEPT !.mode = "v"]
  /\ groups' = pop_level(groups)
  /\ UNCHANGED <<document, counters, labelVars, indexVars, box, done>>

\* \footnote.
T_cap_or_note ==
  /\ MayOpen("footnote")
  /\ x' = [add_new_anchor(push1(leave_v_mode(x), "footnote"), LabelOf("footnote")) EXCEPT !.mode = "v"]
  /\ refstepcounter("footnote", push_level(groups))
  /\ UNCHANGED <<document, labelVars, indexVars, box, done>>

EndNote ==
  /\ Closes("footnote")
  /\ LET s == leave_h_mode(x) IN x' = remove_par_bal_if_ok(pop(s), top_stack(s))
  /\ groups' = pop_level(groups)
  /\ UNCHANGED <<document, counters, labelVars, indexVars, box, done>>

\* The depth of lists is a local word.
Depth == Cardinality({ i \in DOMAIN open : open[i] = "list" })

use_counter(c) == counters' = [counters EXCEPT ![c] = 0]

\* \begin{enumerate}
T_listenv ==
  /\ MayOpen("list") /\ Depth < 2
  /\ LET c == IF Depth = 0 THEN "enumi" ELSE "enumii"
     IN /\ groups' = [push_level(groups) EXCEPT ![Len(groups) + 1].list_ctr = c]
        /\ use_counter(c)
  /\ x' = push1(leave_h_mode(x), "list")
  /\ UNCHANGED <<document, labelVars, indexVars, box, done>>

\* \item; the element of its label is not kept.
T_item ==
  /\ Allowed("list") /\ open # <<>> /\ Last(open) = "list"
  /\ LET c == Last(groups).list_ctr
         s == pop_if_frame([leave_h_mode(x) EXCEPT !.unfinished_par = 0], "item")
         t == add_new_anchor(push1(add_nl(s), "item"), LabelOf(c))
     IN /\ x' = ileave_v_mode([t EXCEPT !.mode = "v"])
        /\ refstepcounter(c, groups)
  /\ UNCHANGED <<document, labelVars, indexVars, box, open, done>>

T_listenv_end ==
  /\ Closes("list")
  /\ x' = add_nl(pop(pop_if_frame(leave_h_mode(x), "item")))
  /\ groups' = pop_level(groups)
  /\ UNCHANGED <<document, counters, labelVars, indexVars, box, done>>

\* \global\setbox0\hbox{...}, when the register is void.
begin_box ==
  /\ MayOpen("hbox") /\ box = 0 /\ ~Inside("hbox")
  /\ LET s == New(x, "") IN x' = [ipush(s, "hbox", get_xid(s)) EXCEPT !.mode = "arg"]
  /\ groups' = push_level(groups)
  /\ UNCHANGED <<document, counters, labelVars, indexVars, box, done>>

box_end ==
  /\ Closes("hbox")
  /\ box' = top_stack(x)
  /\ x' = pop(x)
  /\ groups' = pop_level(groups)
  /\ UNCHANGED <<document, counters, labelVars, indexVars, done>>

\* \box0
UseBox ==
  /\ Allowed("hbox") /\ box # 0
  /\ x' = add_last(x, box) /\ box' = 0
  /\ UNCHANGED <<document, groups, counters, labelVars, indexVars, open, done>>

\* \refstepcounter{c}, and \refstepcounter*{c}, which makes an anchor.
UserRefstepcounter(c, star) ==
  /\ Allowed(IF star THEN "refstepcounter*" ELSE "refstepcounter") /\ counters[c] < document.refs
  /\ refstepcounter(c, groups)
  /\ x' = IF star THEN add_new_anchor(x, LabelOf(c)) ELSE x
  /\ UNCHANGED <<document, labelVars, indexVars, box, open, done>>

-----------------------------------------------------------------------------
(* Labels and references.                                                  *)

\* A label that is defined twice has the first anchor, and an error is signalled.
create_label(n, id) ==
  labels' = IF labels[n].defined THEN labels ELSE [labels EXCEPT ![n] = [defined |-> TRUE, id |-> id]]

\* An anchor was made before, in the current element or around it.
HasAnchor == \E i \in DOMAIN x.frames : Anchored(x, x.frames[i].elt)

\* \label{n}
T_label(n) ==
  /\ Allowed("label") /\ (HasAnchor \/ "outOfScope" \in document.commands)
  /\ create_label(n, x.cur_lid)
  /\ UNCHANGED <<document, x, groups, counters, refs, reported, indexVars, box, open, done>>

\* The text of an anchor that has none: a number of its own.
scan_anchor(s) == [s EXCEPT !.anchor_id = @ + 1]
AnchorText(s) == <<0, s.anchor_id>>

\* \anchor and \anchor*
Anchor(spec) ==
  /\ Allowed(IF spec THEN "anchor*" ELSE "anchor")
  /\ LET s == scan_anchor(x) IN x' = add_anchor(s, AnchorText(s), spec)
  /\ UNCHANGED <<document, groups, counters, labelVars, indexVars, box, open, done>>

\* \anchorlabel{n} and \anchorlabel*{n}
AnchorLabel(n, spec) ==
  /\ Allowed(IF spec THEN "anchor*" ELSE "anchor") /\ Allowed("label")
  /\ LET s == scan_anchor(x) IN x' = add_anchor(s, AnchorText(s), spec)
  /\ create_label(n, x'.cur_lid)
  /\ UNCHANGED <<document, groups, counters, refs, reported, indexVars, box, open, done>>

\* \ref{n}
T_ref(n) ==
  /\ Allowed("ref") /\ Len(refs) < document.refs
  /\ x' = add_newid0(leave_v_mode(x), "ref")
  /\ refs' = Append(refs, [elt |-> get_xid(x'), name |-> n, target |-> NoId])
  /\ UNCHANGED <<document, groups, counters, labels, reported, indexVars, box, open, done>>

\* \index{w}: an anchor here, with a label of its own that the entry refers to.
T_index(w) ==
  /\ Allowed("index") /\ Len(refindex) < document.refs
  /\ LET known == { i \in DOMAIN entries : entries[i].word = w }
         s == IF known = {} THEN New(x, "index") ELSE x
         k == IF known = {} THEN Len(entries) + 1 ELSE CHOOSE i \in known : TRUE
     IN /\ entries' = IF known = {} THEN Append(entries, [word |-> w, elt |-> get_xid(s)]) ELSE entries
        /\ x' = add_anchor(s, <<0, 0, Len(refindex) + 1>>, FALSE)
        /\ refindex' = Append(refindex, [entry |-> k, id |-> x'.cur_lid])
  /\ UNCHANGED <<document, groups, counters, labelVars, box, open, done>>

\* The end of the document: the targets of references (check_all_ids); the index is
\* added to the document (finish_index).
Target(n) == IF labels[n].defined THEN labels[n].id ELSE <<n, 0>>
after_main_text ==
  /\ ~done /\ open = <<>> /\ done' = TRUE
  /\ box = 0 \/ "boxLost" \in document.commands
  /\ refs' = [i \in DOMAIN refs |-> [refs[i] EXCEPT !.target = Target(refs[i].name)]]
  /\ reported' = { n \in document.names : ~labels[n].defined /\ \E i \in DOMAIN refs : refs[i].name = n }
  /\ x' = [x EXCEPT !.elts[1].sons = @ \o [i \in DOMAIN entries |-> entries[i].elt]]
  /\ UNCHANGED <<document, groups, counters, labels, indexVars, box, open>>

Next ==
  \/ Characters \/ Par \/ OpenBrace \/ CloseBrace
  \/ \E star \in BOOLEAN : T_paras("section", 0, star) \/ T_paras("subsection", 1, star)
  \/ EndTitle \/ T_cap_or_note \/ EndNote \/ T_listenv \/ T_item \/ T_listenv_end
  \/ begin_box \/ box_end \/ UseBox
  \/ \E c \in {"section", "footnote"}, star \in BOOLEAN : UserRefstepcounter(c, star)
  \/ \E n \in document.names : T_label(n) \/ T_ref(n) \/ (\E spec \in BOOLEAN : AnchorLabel(n, spec)) \/ T_index(n)
  \/ \E spec \in BOOLEAN : Anchor(spec)
  \/ after_main_text

Bounded == Len(x'.elts) <= document.elements /\ x'.anchor_id <= document.refs

Spec == Init /\ [][Next /\ Bounded]_vars

-----------------------------------------------------------------------------
(* Properties.                                                             *)

Without(commands) == document.commands \cap commands = {}
Elements == DOMAIN x.elts

\* The last anchor of an element: its last son that is one, or the element itself.
LastAnchor(s, e) ==
  IF AnchorSons(s, e) = {} THEN s.elts[e].id ELSE s.elts[Sons(s, e)[Max(AnchorSons(s, e))]].id

\* The anchor to which a label would refer is the last one of the innermost open
\* element that has one (doc-a.rst: "anchors are local to the current element"), or the
\* first id when there is none (Stack::ipush, pop, set_cur_id).
CurrentAnchorIsInScope ==
  (~done /\ Without({"refstepcounter*", "anchor*"})) =>
     LET scopes == { i \in DOMAIN x.frames : Anchored(x, x.frames[i].elt) }
     IN x.cur_lid = IF scopes = {} THEN <<"uid", 1>> ELSE LastAnchor(x, x.frames[Max(scopes)].elt)

\* The two scopes agree: when an anchor is in scope, the number at the anchor, which
\* the reader sees through \ref, is the value of \@currentlabel, which is local to groups.
AnchorAgreesWithLabel ==
  (~done /\ HasAnchor /\ Without({"refstepcounter", "refstepcounter*", "anchor", "anchor*", "index", "star", "sectionInGroup"})) =>
     \E e \in Elements : x.elts[e].id = x.cur_lid /\ x.elts[e].text = Last(groups).label

\* The elements of the document, at its end.
InDocument ==
  LET reach[n \in 0..Len(x.elts)] ==
        IF n = 0 THEN {1}
        ELSE reach[n - 1] \cup (UNION { ToSet(Sons(x, e)) : e \in reach[n - 1] } \cap Elements)
  IN reach[Len(x.elts)]

Carriers(id) == { e \in InDocument : x.elts[e].id = id }

\* At the end every reference to a label that is defined, and every entry of the index,
\* refers to exactly one element of the document (check_all_ids, finish_index), where
\* anchors are not made by a command with a star and boxes are used.
ReferencesMeetAnchors ==
  (done /\ Without({"refstepcounter*", "anchor*", "outOfScope", "boxLost"})) =>
     /\ \A i \in DOMAIN refs : labels[refs[i].name].defined => Cardinality(Carriers(refs[i].target)) = 1
     /\ \A i \in DOMAIN refindex : Cardinality(Carriers(refindex[i].id)) = 1

Numbered(name) == { e \in Elements : x.elts[e].name = name /\ x.elts[e].text # <<>> }

\* The elements up to e that count for its number.
Counted(e) ==
  LET name == x.elts[e].name
  IN { f \in Numbered(name) :
         /\ f <= e
         /\ name = "item" => \E l \in Elements : {e, f} \subseteq ToSet(Sons(x, l))
         /\ name = "div1" => \A g \in Numbered("div0") : ~(f < g /\ g < e) }

\* Sections, footnotes and items are numbered from one without holes, subsections
\* in their section and items in their list (stepcounter, \cl@section, \usecounter).
NumbersCount ==
  Without({"refstepcounter", "refstepcounter*", "anchor", "anchor*"}) =>
     \A name \in {"div0", "div1", "footnote", "item"} : \A e \in Numbered(name) :
        Last(x.elts[e].text) = Cardinality(Counted(e))

=============================================================================
