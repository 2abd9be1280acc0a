------------------------------ MODULE XmlStack ------------------------------
(***************************************************************************)
(* How text becomes XML: the stack of open elements (Stack.cpp), the modes *)
(* and the current font (FontInfo.cpp), and the commands that open and     *)
(* close elements (txtranslate.cpp, txparser2.cpp, txcommands.cpp).        *)
(*                                                                         *)
(* A font is a set of attributes, for instance it and bf.  It shows in the *)
(* document as dummy elements, of frame " ", on top of the stack.  Text is *)
(* kept in a buffer; where it ends up is decided when the buffer is        *)
(* flushed.                                                                *)
(*                                                                         *)
(* The input is balanced: what is opened last is closed first.             *)
(***************************************************************************)
EXTENDS Integers, Sequences, FiniteSets, SequencesExt

CONSTANTS
  Attributes,     \* the attributes of a font
  Documents,      \* what a document may be: the records below
  MaxDiv          \* bound on the level of sections

ASSUME AttributesAssumption == Attributes # {} /\ IsFiniteSet(Attributes)
ASSUME BoundsAssumption == MaxDiv \in 0 .. 6

\* The commands of a document, the attributes of its fonts, a bound on the
\* commands and groups that are open, and an option: all attributes of a font
\* in one element, or one for each.
ASSUME DocumentsAssumption ==
  \A d \in Documents : d.attributes \subseteq Attributes /\ d.open \in Nat /\ d.pack_font_elt \in BOOLEAN

VARIABLES
  document,
  x,      \* the output: the record below
  saves,  \* the save stack: for each level, the saved fonts
  open,   \* the commands that are open, the innermost last
  done    \* the document is over

vars == <<document, x, saves, open, done>>

\* The output has these fields:
\*   frames   the stack of elements, each with the mode that was saved and the
\*            attributes it shows
\*   mode     the current mode
\*   font     attrs: the current attributes; packed: those that are selected;
\*            old: those that were; stackval: whether they are on the stack;
\*            level: the level of the last change
\*   buffer   the fonts that were selected for the text in the buffer
\*   badpop   `Error in pop' was signalled
\*   misplaced  text went to an element that shows another font

Frame(name, md, hi) == [frame |-> name, md |-> md, hi |-> hi]

Div(y) == <<"div0", "div1", "div2", "div3", "div4", "div5", "div6">>[y + 1]

Init ==
  /\ document \in Documents
  /\ x = [frames |-> <<Frame("document", "v", {})>>, mode |-> "v",
          font |-> [attrs |-> {}, packed |-> {}, old |-> {}, stackval |-> TRUE, level |-> 0],
          buffer |-> {}, badpop |-> FALSE, misplaced |-> FALSE]
  /\ saves = <<<<>>>> /\ open = <<>> /\ done = FALSE

cur_level == Len(saves)

-----------------------------------------------------------------------------
(* The stack of elements.                                                  *)

\* Position of the first frame from the top that is not in S.
TopNotIn(frames, S) ==
  CHOOSE i \in DOMAIN frames :
    frames[i].frame \notin S /\ \A j \in i + 1 .. Len(frames) : frames[j].frame \in S

first_non_empty(s) == s.frames[TopNotIn(s.frames, {" "})]
first_frame(s) == first_non_empty(s).frame

\* The innermost element that is not part of a line.
Inline == {" ", "fonts", "mbox"}
Block(s) == s.frames[TopNotIn(s.frames, Inline)].frame

\* The attributes that show for text that is added now.
Shown(s) ==
  UNION { s.frames[i].hi : i \in { j \in DOMAIN s.frames : j > TopNotIn(s.frames, Inline) } }

flush_buffer(s) ==
  [s EXCEPT !.buffer = {},
            !.misplaced = @ \/ (Block(s) = "p" /\ \E f \in s.buffer : f # Shown(s))]

push(s, name) == [s EXCEPT !.frames = Append(@, Frame(name, s.mode, {}))]

NoDummies(s) == [s EXCEPT !.frames = SubSeq(@, 1, TopNotIn(@, {" "}))]

\* Stack::pop.
pop(s, name) ==
  LET t == [NoDummies(s) EXCEPT !.font.stackval = @ /\ Last(s.frames).frame # " "]
  IN IF Last(t.frames).frame # name THEN [t EXCEPT !.badpop = TRUE]
     ELSE [t EXCEPT !.frames = Front(@), !.mode = Last(t.frames).md]

pop_if_frame(s, name) == IF first_frame(s) = name THEN pop(s, name) ELSE s

\* The dummy elements for a font.
Dummies(font, md) ==
  IF font.attrs = {} THEN <<>>
  ELSE IF document.pack_font_elt THEN <<Frame(" ", md, font.attrs)>>
  ELSE LET attrs == SetToSeq(font.attrs)
       IN [i \in DOMAIN attrs |-> Frame(" ", md, {attrs[i]})]

check_font(s) ==
  [s EXCEPT !.frames = NoDummies(s).frames \o Dummies(s.font, s.mode), !.font.stackval = TRUE]

push_par(s) == check_font([push(s, "p") EXCEPT !.mode = "h"])

leave_v_mode(s) ==
  LET t == flush_buffer(s) IN IF t.mode = "v" THEN push_par(t) ELSE t

leave_h_mode(s) ==
  IF s.mode = "h" THEN pop(flush_buffer(s), "p") ELSE s

-----------------------------------------------------------------------------
(* Fonts.  These work on the output and the save stack together.           *)

is_ok(font) == font.old = font.packed /\ font.stackval

\* Variant for a mutant: the saved font is taken as the old one.
RestoreFont_same_old(e, s) ==
  LET t == flush_buffer(s)
      f == [attrs |-> e.val, packed |-> e.val, old |-> e.val,
            stackval |-> t.font.stackval, level |-> e.level]
      u == [t EXCEPT !.font = f]
  IN [IF u.mode # "v" /\ ~(f.old = f.packed /\ f.stackval) THEN check_font(u) ELSE u EXCEPT !.font.old = f.packed]

\* Variant for a mutant: the text in the buffer gets the new font.
font_has_changed1_no_flush(s) ==
  IF s.mode # "v" /\ ~is_ok(s.font) THEN check_font(s) ELSE s

font_has_changed1(s) ==
  IF s.mode # "v" /\ ~is_ok(s.font) THEN check_font(flush_buffer(s)) ELSE s

update_old(s) == [s EXCEPT !.font.old = s.font.packed]

\* What save_font pushes; s and sv are the output and the save stack.
save_font(s, sv) ==
  IF s.font.level = Len(sv) THEN sv
  ELSE [sv EXCEPT ![Len(sv)] = Append(@, [level |-> s.font.level, val |-> s.font.old])]

Packed(s) == [s EXCEPT !.font.packed = s.font.attrs]

font_has_changed(s, sv) ==
  update_old(font_has_changed1([Packed(s) EXCEPT !.font.level = Len(sv)]))

\* ~SaveAuxFont.
RestoreFont(e, s) ==
  LET t == flush_buffer(s)
      f == [attrs |-> e.val, packed |-> e.val, old |-> t.font.packed,
            stackval |-> t.font.stackval, level |-> e.level]
  IN update_old(font_has_changed1([t EXCEPT !.font = f]))

\* The fonts of a level are restored, the last change first.
RestoreLevel(s, entries) ==
  LET r[n \in 0 .. Len(entries)] ==
        IF n = 0 THEN s ELSE RestoreFont(entries[Len(entries) + 1 - n], r[n - 1])
  IN r[Len(entries)]

-----------------------------------------------------------------------------
(* Commands.                                                               *)

Allowed(c) == ~done /\ c \in document.commands
MayOpen(c) == Allowed(c) /\ Len(open) < document.open

Opens(kind) == open' = Append(open, [kind |-> kind, sv |-> {}])
Closes(kind) == ~done /\ open # <<>> /\ Last(open).kind = kind /\ open' = Front(open)
push_level == saves' = Append(saves, <<>>)
pop_level(s) == RestoreLevel(s, Last(saves))
PopsSaves == saves' = Front(saves)

\* The innermost command that is not a group.
Innermost ==
  LET S == { i \in DOMAIN open : open[i].kind # "group" }
  IN IF S = {} THEN "none" ELSE open[CHOOSE i \in S : \A j \in S : j <= i].kind

InLine == Innermost \in {"fonts", "mbox"}

\* A character: LC, then it is added to the buffer.
Char ==
  /\ ~done
  /\ LET s == IF x.mode = "v" THEN leave_v_mode(x) ELSE x
     IN x' = [s EXCEPT !.buffer = @ \cup {s.font.packed}]
  /\ UNCHANGED <<saves, open, done>>

OpenBrace ==
  /\ MayOpen("group") /\ Opens("group") /\ push_level
  /\ UNCHANGED <<x, done>>

CloseBrace ==
  /\ Closes("group")
  /\ x' = pop_level(x) /\ PopsSaves
  /\ UNCHANGED done

\* The commands \itshape, \upshape and so on, and \normalfont.
NewAttributes == { x.font.attrs \cup {a} : a \in document.attributes } \cup { x.font.attrs \ {a} : a \in document.attributes } \cup {{}}

see_font_change ==
  /\ Allowed("font") /\ (InLine => "fontInLine" \in document.commands)
  /\ \E attrs \in NewAttributes :
       LET s == [x EXCEPT !.font.attrs = attrs]
       IN x' = font_has_changed(s, saves) /\ saves' = save_font(s, saves)
  /\ UNCHANGED <<open, done>>

\* \fontshape, \fontseries: the attributes are not selected yet.
ltfont ==
  /\ Allowed("ltfont")
  /\ \E attrs \in NewAttributes : x' = [flush_buffer(x) EXCEPT !.font.attrs = attrs]
  /\ UNCHANGED <<saves, open, done>>

selectfont ==
  /\ Allowed("ltfont")
  /\ x' = font_has_changed(x, saves) /\ saves' = save_font(x, saves)
  /\ UNCHANGED <<open, done>>

\* \par.
T_par1 ==
  /\ Allowed("par") /\ (InLine => "parInLine" \in document.commands)
  /\ x.mode # "v" /\ first_frame(x) # "hbox"
  /\ x' = leave_h_mode(flush_buffer(x))
  /\ UNCHANGED <<saves, open, done>>

finish_par_cmd(s) == push_par(leave_h_mode(s))

\* \noindent, except in a paragraph that is empty, where it adds an attribute,
\* and in a line that is not a paragraph, where it is an error.
implicit_par ==
  /\ Allowed("noindent") /\ (x.mode = "arg" => "noindentInBox" \in document.commands)
  /\ x.mode = "h" => first_frame(x) = "p"
  /\ x' = finish_par_cmd(flush_buffer(x))
  /\ UNCHANGED <<saves, open, done>>

\* \textsuperscript{...}: there is no group.
T_fonts ==
  /\ MayOpen("fonts") /\ Opens("fonts")
  /\ x' = push(leave_v_mode(x), "fonts")
  /\ UNCHANGED <<saves, done>>

EndFonts ==
  /\ Closes("fonts")
  /\ x' = pop(flush_buffer(x), "fonts")
  /\ UNCHANGED <<saves, done>>

\* \mbox{...}: braces are added to the argument.
internal_makebox ==
  /\ MayOpen("mbox") /\ Opens("mbox") /\ push_level
  /\ x' = push(leave_v_mode(x), "mbox")
  /\ UNCHANGED done

EndMakebox ==
  /\ Closes("mbox")
  /\ x' = pop(flush_buffer(pop_level(x)), "mbox") /\ PopsSaves
  /\ UNCHANGED done

\* \hbox{...}: the element is not part of the document before the end.
begin_box ==
  /\ MayOpen("hbox") /\ Opens("hbox") /\ push_level
  /\ x' = [push(flush_buffer(x), "hbox") EXCEPT !.mode = "arg"]
  /\ UNCHANGED done

\* pop_level: the fonts are restored, then the box is finished.
EndBox ==
  /\ Closes("hbox")
  /\ x' = pop(flush_buffer(pop_level(x)), "hbox") /\ PopsSaves
  /\ UNCHANGED done

\* \footnote{...}: the current font is put aside, and a normal one is selected.
T_cap_or_note ==
  /\ MayOpen("footnote")
  /\ LET s == push(leave_v_mode(x), "footnote")
         t == [s EXCEPT !.font.attrs = {}]
         sv == Append(saves, <<>>)
     IN /\ open' = Append(open, [kind |-> "footnote", sv |-> s.font])
        /\ x' = [font_has_changed(t, sv) EXCEPT !.mode = "v"]
        /\ saves' = save_font(t, sv)
  /\ UNCHANGED done

\* The font is put back, which saves it once more, and the level ends.
EndNote ==
  /\ Closes("footnote")
  /\ LET s == [leave_h_mode(flush_buffer(x)) EXCEPT !.font = Last(open).sv]
         t == pop(font_has_changed(s, saves), "footnote")
     IN x' = RestoreLevel(t, Last(save_font(s, saves)))
  /\ PopsSaves
  /\ UNCHANGED done

\* Stack::para_aux: the divisions of level at least y are popped.
para_aux(s, y) ==
  LET r[n \in 0 .. MaxDiv + 1 - y] ==
        IF n = 0 THEN s ELSE pop_if_frame(r[n - 1], Div(MaxDiv + 1 - n))
  IN r[MaxDiv + 1 - y]

\* \section: the title is in braces.
T_paras ==
  /\ MayOpen("section") /\ Innermost = "none" /\ Opens("head") /\ push_level
  /\ \E y \in 0 .. MaxDiv :
       LET s == push(para_aux(leave_h_mode(x), y), Div(y))
       IN x' = push([s EXCEPT !.mode = "arg"], "head")
  /\ UNCHANGED done

EndHead ==
  /\ Closes("head")
  /\ x' = [pop(flush_buffer(pop_level(x)), "head") EXCEPT !.mode = "v"] /\ PopsSaves
  /\ UNCHANGED done

\* \begin{itemize}.
T_listenv ==
  /\ MayOpen("list") /\ ~InLine /\ Opens("list") /\ push_level
  /\ x' = push(leave_h_mode(flush_buffer(x)), "list")
  /\ UNCHANGED done

\* Variant for a mutant: the last item stays open.
T_listenv_end_item_open ==
  /\ Closes("list")
  /\ x' = pop_level(pop(leave_h_mode(flush_buffer(x)), "list")) /\ PopsSaves
  /\ UNCHANGED done

\* \end{itemize}.
T_listenv_end ==
  /\ Closes("list")
  /\ LET s == pop(pop_if_frame(leave_h_mode(flush_buffer(x)), "item"), "list")
     IN x' = pop_level(s)
  /\ PopsSaves
  /\ UNCHANGED done

LeaveItem(s) == pop_if_frame(leave_h_mode(s), "item")
StartItem(s) == finish_par_cmd([push(s, "item") EXCEPT !.mode = "v"])

\* \item, and \item[...], whose label is translated in braces first.
T_item ==
  /\ Allowed("list") /\ Innermost = "list"
  /\ x' = StartItem(LeaveItem(x))
  /\ UNCHANGED <<saves, open, done>>

T_item_label ==
  /\ MayOpen("label") /\ Innermost = "list" /\ Opens("labelitem") /\ push_level
  /\ x' = [push(flush_buffer(LeaveItem(x)), "labelitem") EXCEPT !.mode = "arg"]
  /\ UNCHANGED done

EndLabel ==
  /\ Closes("labelitem")
  /\ x' = StartItem(pop(flush_buffer(pop_level(x)), "labelitem")) /\ PopsSaves
  /\ UNCHANGED done

\* \end{document}: end_module pops what is left.
T_enddocument ==
  /\ ~done /\ open = <<>> /\ done' = TRUE
  /\ x' = [flush_buffer(x) EXCEPT !.frames = <<Head(@)>>]
  /\ UNCHANGED <<saves, open>>

Command ==
  \/ Char \/ OpenBrace \/ CloseBrace
  \/ see_font_change \/ ltfont \/ selectfont
  \/ T_par1 \/ implicit_par
  \/ T_fonts \/ EndFonts \/ internal_makebox \/ EndMakebox \/ begin_box \/ EndBox
  \/ T_cap_or_note \/ EndNote \/ T_paras \/ EndHead
  \/ T_listenv \/ T_listenv_end \/ T_item \/ T_item_label \/ EndLabel
  \/ T_enddocument

Next == Command /\ UNCHANGED document

Spec == Init /\ [][Next]_vars

-----------------------------------------------------------------------------
\* Properties.

\* Text is always added to an element that shows the font that was selected when
\* the text was read (flush_buffer, check_font, pop, ~SaveAuxFont), in a document
\* without \fontshape, which check_font shows before it is selected.
TextIsInItsFont == "ltfont" \notin document.commands => ~x.misplaced

\* When another font is selected in a paragraph, or the old one at the end of a
\* group, this font shows at once, also when \fontshape has prepared another one
\* or a paragraph that began in the group has shown it (font_has_changed,
\* check_font, ~SaveAuxFont).
FontChangeShows ==
  [][x'.font.packed # x.font.packed /\ Block(x) = "p" /\ Block(x') = "p"
       => Shown(x') = x'.font.packed]_vars

\* The frames of the commands, the commands that have one, and their order.
Structure == {" ", "p", "document", "item"} \cup { Div(y) : y \in 0 .. MaxDiv }
Elements == { i \in DOMAIN x.frames : x.frames[i].frame \notin Structure }
Commands == { k \in DOMAIN open : open[k].kind # "group" }
Rank(S, i) == Cardinality({ j \in S : j <= i })

\* The n-th of these frames is that of the n-th of these commands.
TopIsExpected ==
  ~done =>
    /\ Cardinality(Elements) = Cardinality(Commands)
    /\ \A i \in Elements, k \in Commands :
         Rank(Elements, i) = Rank(Commands, k) => x.frames[i].frame = open[k].kind

ParagraphsDoNotNest ==
  \A i, j \in DOMAIN x.frames :
    i < j /\ x.frames[i].frame = "p" /\ x.frames[j].frame = "p" =>
      \E k \in i .. j : x.frames[k].frame \in {"footnote", "hbox", "list"}

\* The elements on the stack are those of the commands that are open, a pop always finds the
\* element it expects, and there is no paragraph in a paragraph, unless a footnote, a box or
\* a list comes between them (Stack::pop, leave_v_mode, finish_par_cmd, push_par).
ElementsNest == ~x.badpop /\ TopIsExpected /\ ParagraphsDoNotNest
=============================================================================
