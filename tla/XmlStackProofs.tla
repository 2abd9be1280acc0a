--------------------------- MODULE XmlStackProofs ---------------------------
(* The elements of a document nest (XmlStack.ElementsNest), for every document *)
(* without a paragraph command in a box.  The frames below the dummies that    *)
(* show fonts form a core; the inductive invariant XmlInv says                 *)
(*   - what may be the element on top of another one, and in which mode it was *)
(*     opened (FitsOn, a table over pairs of neighbours): it makes the pop at  *)
(*     the end of each command find the element the command has pushed;        *)
(*   - that the mode of the text fits the top (ModeFits);                      *)
(*   - that divisions lie below everything else (DivsFirst);                   *)
(*   - that the elements of commands and the open commands match by rank       *)
(*     (Matched): each is opened and closed with the other;                    *)
(*   - that every open group has its list of saved fonts (Levels).             *)
(* Text is in its font, and a font that is selected shows (TextIsInItsFont,    *)
(* FontChangeShows), in such a document without a font command in a part of a  *)
(* line; the invariant FontInv says on top of it, for a book that gives the    *)
(* font around each level of the save stack,                                   *)
(*   - that the font in use is selected, that the text in the buffer is in it, *)
(*     and that it shows where the stack ends in a paragraph (Right);          *)
(*   - that each level has saved the font around it, if it has changed it, and *)
(*     the level of the change before it (Chain);                              *)
(*   - that the font around a command shows below its element (Framed), that a *)
(*     footnote has put it aside (Notes), and that it stays in a part of a     *)
(*     line (Steady), which no list begins in (Apart): what the end of the     *)
(*     command restores is what shows there.                                   *)
(* With \fontshape a font that shows need not be selected.  Without notes and  *)
(* parts of lines it still holds that a font shows at once when it is selected *)
(* (XmlLow): between two commands the selected font is the old one, so that    *)
(* check_font runs whenever another one is selected (Tells).                   *)
EXTENDS XmlStack, StackLemmas

-----------------------------------------------------------------------------
(* Cores: the solid frames of the stack of elements, without the dummies *)
Modes == {"v", "h", "arg"}
Divs == { Div(y) : y \in 0 .. MaxDiv }
Kinds == {"list", "fonts", "mbox", "hbox", "footnote", "head", "labelitem"}
\* The name of the dummy frames.
Blank == " "
Names == Kinds \cup {"document", "p", "item"} \cup Divs

\* The names of the divisions are names of their own.
LEMMA DivNames ==
  ASSUME NEW d \in Divs
  PROVE  d \in {"div0", "div1", "div2", "div3", "div4", "div5", "div6"}
<1>1. PICK y \in 0..MaxDiv : d = Div(y)
  BY DEF Divs
<1>2. y \in 0..6
  BY BoundsAssumption
<1>3. y = 0 \/ y = 1 \/ y = 2 \/ y = 3 \/ y = 4 \/ y = 5 \/ y = 6
  BY <1>2
<1>. QED
  BY <1>1, <1>3 DEF Div

\* No division has the name of a command's element, of a paragraph or of an item.
LEMMA DivIsOther ==
  ASSUME NEW d \in Divs
  PROVE  d \notin Kinds /\ d \notin {"document", "p", "item", "none"}
BY DivNames DEF Kinds

\* The dummy frames that show a font have a name of their own.
LEMMA BlankIsOther ==
  Blank \notin Names
<1>1. \A d \in {"div0", "div1", "div2", "div3", "div4", "div5", "div6"} : d # " "
  BY Zenon
<1>2. Blank \notin Divs
  BY <1>1, DivNames, Zenon DEF Blank
<1>3. Blank \notin Kinds \cup {"document", "p", "item"}
  BY Zenon DEF Blank, Kinds
<1>. QED
  BY <1>2, <1>3 DEF Names

-----------------------------------------------------------------------------

Solid(fs) == { i \in DOMAIN fs : fs[i].frame # Blank }
Core(fs) == [i \in Solid(fs) |-> [frame |-> fs[i].frame, md |-> fs[i].md]]

IsCore(c) ==
  /\ c \in [DOMAIN c -> [frame : Names, md : Modes]]
  /\ \E n \in Nat : DOMAIN c \subseteq 1..n
  /\ 1 \in DOMAIN c

Top(c) == CHOOSE i \in DOMAIN c : \A j \in DOMAIN c : j <= i
TopName(c) == c[Top(c)].frame
Under(c, i, j) == i \in DOMAIN c /\ j \in DOMAIN c /\ i < j /\ \A k \in DOMAIN c : k <= i \/ j <= k

\* d is c with one more element, at position p.
Pushed(c, d, p) ==
  /\ p \in Nat /\ DOMAIN d = DOMAIN c \cup {p}
  /\ \A i \in DOMAIN c : i < p /\ d[i] = c[i]

\* The frames of a core are at finitely many positions, from 1 on, with names and modes.
LEMMA CorePositions ==
  ASSUME NEW c, IsCore(c)
  PROVE  /\ IsFiniteSet(DOMAIN c) /\ DOMAIN c \in SUBSET Nat
         /\ 1 \in DOMAIN c /\ \A i \in DOMAIN c : i >= 1
         /\ \A i \in DOMAIN c : c[i].frame \in Names /\ c[i].md \in Modes
<1>1. PICK n \in Nat : DOMAIN c \subseteq 1..n
  BY DEF IsCore
<1>0. IsFiniteSet(1..n)
  BY FS_Interval
<1>2. IsFiniteSet(DOMAIN c)
  BY <1>0, <1>1, FS_Subset
<1>. QED
  BY <1>1, <1>2 DEF IsCore

\* The top of a core is its last position.
LEMMA TopIsGreatest ==
  ASSUME NEW c, IsCore(c)
  PROVE  Top(c) \in DOMAIN c /\ Top(c) \in Nat /\ \A j \in DOMAIN c : j <= Top(c)
<1>1. PICK n \in Nat : DOMAIN c \subseteq 1..n
  BY DEF IsCore
<1>2. DOMAIN c # {}
  BY DEF IsCore
<1>3. \E i \in DOMAIN c : \A j \in DOMAIN c : j <= i
  BY <1>1, <1>2, GreatestPosition
<1>. QED
  BY <1>1, <1>3 DEF Top

\* The last position of a core is its top.
LEMMA TopIs ==
  ASSUME NEW c, IsCore(c), NEW p \in DOMAIN c, \A j \in DOMAIN c : j <= p
  PROVE  Top(c) = p
<1>1. Top(c) \in DOMAIN c /\ Top(c) \in Nat /\ \A j \in DOMAIN c : j <= Top(c)
  BY TopIsGreatest
<1>2. p \in Nat
  BY CorePositions
<1>3. p <= Top(c) /\ Top(c) <= p
  BY <1>1
<1>. QED
  BY <1>1, <1>2, <1>3

\* Every element but the first is on top of another one.
LEMMA UnderExists ==
  ASSUME NEW c, IsCore(c), NEW j \in DOMAIN c, j # 1
  PROVE  \E i \in DOMAIN c : Under(c, i, j)
<1>. DEFINE S == { i \in DOMAIN c : i < j }
<1>1. PICK n \in Nat : DOMAIN c \subseteq 1..n
  BY DEF IsCore
<1>2. 1 \in S /\ S \in SUBSET (1..n)
  BY <1>1, CorePositions
<1>3. PICK i \in S : \A k \in S : k <= i
  BY <1>2, GreatestPosition
<1>4. \A k \in DOMAIN c : k <= i \/ j <= k
  BY <1>1, <1>3
<1>. QED
  BY <1>3, <1>4 DEF Under

-----------------------------------------------------------------------------

\* What push adds to a core is its new top, on top of the old one; the other frames stay
\* where they are on one another.
LEMMA PushedCore ==
  ASSUME NEW c, IsCore(c), NEW d, NEW p, Pushed(c, d, p),
         d \in [DOMAIN d -> [frame : Names, md : Modes]]
  PROVE  /\ IsCore(d) /\ Top(d) = p /\ p \notin DOMAIN c /\ p # 1
         /\ \A i, j : Under(d, i, j) <=> (Under(c, i, j) \/ (i = Top(c) /\ j = p))
<1>1. p \in Nat /\ DOMAIN d = DOMAIN c \cup {p} /\ \A i \in DOMAIN c : i < p /\ d[i] = c[i]
  BY DEF Pushed
<1>2. PICK n \in Nat : DOMAIN c \subseteq 1..n
  BY DEF IsCore
<1>3. 1 \in DOMAIN c /\ DOMAIN c \in SUBSET Nat
  BY CorePositions
<1>4. p > 1 /\ DOMAIN d \subseteq 1..p
  BY <1>1, <1>2, <1>3
<1>5. IsCore(d)
  BY <1>1, <1>3, <1>4 DEF IsCore
<1>6. Top(d) = p
  <2>1. p \in DOMAIN d /\ \A j \in DOMAIN d : j <= p
    BY <1>1, <1>3
  <2>. QED
    BY <1>5, <2>1, TopIs
<1>7. Top(c) \in DOMAIN c /\ Top(c) \in Nat /\ \A j \in DOMAIN c : j <= Top(c)
  BY TopIsGreatest
<1>8. \A i, j : Under(d, i, j) <=> (Under(c, i, j) \/ (i = Top(c) /\ j = p))
  <2>. TAKE i, j
  <2>. DEFINE t == Top(c)
  <2>. HIDE DEF t
  <2>1. t \in DOMAIN c /\ t \in Nat /\ \A k \in DOMAIN c : k <= t
    BY <1>7 DEF t
  <2>2. CASE j \in DOMAIN c
    <3>1. j # p /\ j \in Nat /\ j < p
      BY <1>1, <1>3, <2>2
    <3>2. ASSUME Under(d, i, j) PROVE Under(c, i, j)
      <4>1. i \in DOMAIN d /\ i < j
        BY <3>2 DEF Under
      <4>2. i # p
        BY <1>1, <3>1, <4>1
      <4>3. i \in DOMAIN c
        BY <1>1, <4>1, <4>2
      <4>. QED
        BY <1>1, <2>2, <3>2, <4>1, <4>3 DEF Under
    <3>3. ASSUME Under(c, i, j) PROVE Under(d, i, j)
      <4>1. j <= p
        BY <1>1, <3>1
      <4>. QED
        BY <1>1, <3>3, <4>1 DEF Under
    <3>. QED
      BY <3>1, <3>2, <3>3
  <2>3. CASE j = p
    <3>1. ASSUME Under(d, i, j) PROVE i = t
      <4>1. i \in DOMAIN d /\ i < p /\ \A k \in DOMAIN d : k <= i \/ p <= k
        BY <2>3, <3>1 DEF Under
      <4>2. i \in DOMAIN c
        BY <1>1, <4>1
      <4>3. t <= i
        BY <1>1, <2>1, <4>1
      <4>. QED
        BY <1>3, <2>1, <4>2, <4>3
    <3>2. Under(d, t, p)
      BY <1>1, <2>1 DEF Under
    <3>3. ~Under(c, i, p)
      BY <1>1 DEF Under
    <3>. QED
      BY <2>3, <3>1, <3>2, <3>3 DEF t
  <2>4. CASE j \notin DOMAIN d
    BY <1>1, <2>4 DEF Under
  <2>. QED
    BY <1>1, <2>2, <2>3, <2>4
<1>. QED
  BY <1>1, <1>3, <1>4, <1>5, <1>6, <1>8

\* Popping: the rest of a core.
Rest(c) == [i \in DOMAIN c \ {Top(c)} |-> c[i]]

\* What pop leaves of a core is a core, of which the old one is an extension.
LEMMA RestPushed ==
  ASSUME NEW c, IsCore(c), Top(c) # 1
  PROVE  IsCore(Rest(c)) /\ Pushed(Rest(c), c, Top(c))
<1>1. Top(c) \in DOMAIN c /\ Top(c) \in Nat /\ \A j \in DOMAIN c : j <= Top(c)
  BY TopIsGreatest
<1>2. /\ DOMAIN Rest(c) = DOMAIN c \ {Top(c)}
      /\ \A i \in DOMAIN Rest(c) : Rest(c)[i] = c[i]
  BY DEF Rest
<1>3. DOMAIN c \in SUBSET Nat /\ 1 \in DOMAIN c
  BY CorePositions
<1>4. Rest(c) \in [DOMAIN Rest(c) -> [frame : Names, md : Modes]]
  BY <1>2 DEF IsCore, Rest
<1>5. IsCore(Rest(c))
  BY <1>2, <1>3, <1>4 DEF IsCore
<1>6. Pushed(Rest(c), c, Top(c))
  BY <1>1, <1>2, <1>3 DEF Pushed
<1>. QED
  BY <1>5, <1>6

-----------------------------------------------------------------------------
(* Nesting: what may be on top of what, and the mode it was opened in *)
\* What may be on top of what, with which mode below it
VTops == {"document", "item", "footnote", "list"} \cup Divs

\* The modes of the text that is added to an element.
ModeFits(n, m) ==
  /\ n \in {"document", "item", "footnote"} \cup Divs => m = "v"
  /\ n = "p" => m = "h"
  /\ n \in {"hbox", "labelitem", "head"} => m = "arg"
  /\ n = "list" => m # "h"
  /\ n \in {"fonts", "mbox"} => m # "v"

FitsOn(b, n, m) ==
  /\ n # "document"
  /\ n = "p" => b \in VTops /\ m = "v"
  /\ n = "list" => ModeFits(b, m) /\ m # "h"
  /\ n \in {"item", "labelitem"} => b = "list" /\ m # "h"
  /\ n \in Divs => b \in {"document"} \cup Divs /\ m = "v"
  /\ n = "head" => b \in Divs
  /\ n \in {"fonts", "mbox", "footnote"} => ModeFits(b, m) /\ m # "v"
  /\ n = "hbox" => ModeFits(b, m)

Starts(c) == c[1].frame = "document"
Fits(c) == \A i, j : Under(c, i, j) => FitsOn(c[i].frame, c[j].frame, c[j].md)
DivsFirst(c) ==
  \A i, j \in DOMAIN c : i < j /\ c[j].frame \in Divs => c[i].frame \in {"document"} \cup Divs

Nested(c) == IsCore(c) /\ Starts(c) /\ Fits(c) /\ DivsFirst(c)

\* push of a frame that fits on the top keeps the nesting.
LEMMA NestedPush ==
  ASSUME NEW c, Nested(c), NEW d, NEW p, Pushed(c, d, p),
         d \in [DOMAIN d -> [frame : Names, md : Modes]],
         FitsOn(TopName(c), d[p].frame, d[p].md)
  PROVE  Nested(d) /\ Top(d) = p /\ Top(d) # 1
<1>0. IsCore(c) /\ Starts(c) /\ Fits(c) /\ DivsFirst(c)
  BY DEF Nested
<1>1. /\ IsCore(d) /\ Top(d) = p /\ p \notin DOMAIN c /\ p # 1
      /\ \A i, j : Under(d, i, j) <=> (Under(c, i, j) \/ (i = Top(c) /\ j = p))
  BY <1>0, PushedCore
<1>2. p \in Nat /\ DOMAIN d = DOMAIN c \cup {p} /\ \A i \in DOMAIN c : i < p /\ d[i] = c[i]
  BY DEF Pushed
<1>3. 1 \in DOMAIN c /\ DOMAIN c \in SUBSET Nat
  BY <1>0, CorePositions
<1>4. Top(c) \in DOMAIN c /\ Top(c) \in Nat /\ \A j \in DOMAIN c : j <= Top(c)
  BY <1>0, TopIsGreatest
<1>5. Starts(d)
  BY <1>0, <1>2, <1>3 DEF Starts
<1>6. Fits(d)
  <2>. SUFFICES ASSUME NEW i, NEW j, Under(d, i, j) PROVE FitsOn(d[i].frame, d[j].frame, d[j].md)
    BY DEF Fits
  <2>1. CASE Under(c, i, j)
    <3>1. d[i] = c[i] /\ d[j] = c[j]
      BY <1>2, <2>1 DEF Under
    <3>. QED
      BY <1>0, <2>1, <3>1 DEF Fits
  <2>2. CASE i = Top(c) /\ j = p
    BY <1>2, <1>4, <2>2 DEF TopName
  <2>. QED
    BY <1>1, <2>1, <2>2
<1>7. DivsFirst(d)
  <2>. SUFFICES ASSUME NEW i \in DOMAIN d, NEW j \in DOMAIN d, i < j, d[j].frame \in Divs
                PROVE  d[i].frame \in {"document"} \cup Divs
    BY DEF DivsFirst
  <2>1. i \in DOMAIN c
    BY <1>2, <1>3
  <2>2. CASE j \in DOMAIN c
    BY <1>0, <1>2, <2>1, <2>2 DEF DivsFirst
  <2>3. CASE j = p
    <3>1. TopName(c) \in {"document"} \cup Divs
      BY <2>3 DEF FitsOn
    <3>2. CASE i = Top(c)
      BY <1>2, <2>1, <3>1, <3>2 DEF TopName
    <3>3. CASE i # Top(c)
      <4>1. i < Top(c)
        BY <1>3, <1>4, <2>1, <3>3
      <4>2. CASE c[Top(c)].frame \in Divs
        BY <1>0, <1>2, <1>4, <2>1, <4>1, <4>2 DEF DivsFirst
      <4>3. CASE c[Top(c)].frame = "document"
        <5>1. Top(c) # 1
          BY <1>0, <1>3, <2>1, <4>1, CorePositions
        <5>2. PICK b \in DOMAIN c : Under(c, b, Top(c))
          BY <1>0, <1>4, <5>1, UnderExists
        <5>3. FitsOn(c[b].frame, c[Top(c)].frame, c[Top(c)].md)
          BY <1>0, <5>2 DEF Fits
        <5>. QED
          BY <4>3, <5>3 DEF FitsOn
      <4>. QED
        BY <3>1, <4>2, <4>3 DEF TopName
    <3>. QED
      BY <3>2, <3>3
  <2>. QED
    BY <1>2, <2>2, <2>3
<1>. QED
  BY <1>1, <1>5, <1>6, <1>7 DEF Nested

\* pop of the top keeps the nesting, and tells what the popped frame fitted on.
LEMMA NestedRest ==
  ASSUME NEW c, Nested(c), TopName(c) # "document"
  PROVE  /\ Top(c) # 1 /\ Nested(Rest(c)) /\ Pushed(Rest(c), c, Top(c))
         /\ FitsOn(TopName(Rest(c)), TopName(c), c[Top(c)].md)
<1>0. IsCore(c) /\ Starts(c) /\ Fits(c) /\ DivsFirst(c)
  BY DEF Nested
<1>. DEFINE d == Rest(c)
            p == Top(c)
<1>1. p # 1
  BY <1>0 DEF Starts, TopName
<1>2. IsCore(d) /\ Pushed(d, c, p)
  BY <1>0, <1>1, RestPushed
<1>3. c \in [DOMAIN c -> [frame : Names, md : Modes]]
  BY <1>0 DEF IsCore
<1>. HIDE DEF d, p
<1>4. \A i, j : Under(c, i, j) <=> (Under(d, i, j) \/ (i = Top(d) /\ j = p))
  BY <1>2, <1>3, PushedCore
<1>5. p \in Nat /\ DOMAIN c = DOMAIN d \cup {p} /\ \A i \in DOMAIN d : i < p /\ c[i] = d[i]
  BY <1>2 DEF Pushed
<1>6. 1 \in DOMAIN d
  BY <1>2, CorePositions
<1>7. Top(d) \in DOMAIN d
  BY <1>2, TopIsGreatest
<1>8. Starts(d)
  BY <1>0, <1>5, <1>6 DEF Starts
<1>9. Fits(d)
  <2>. SUFFICES ASSUME NEW i, NEW j, Under(d, i, j) PROVE FitsOn(d[i].frame, d[j].frame, d[j].md)
    BY DEF Fits
  <2>1. Under(c, i, j)
    BY <1>4
  <2>2. d[i] = c[i] /\ d[j] = c[j]
    BY <1>5 DEF Under
  <2>. QED
    BY <1>0, <2>1, <2>2 DEF Fits
<1>10. DivsFirst(d)
  BY <1>0, <1>5 DEF DivsFirst
<1>11. FitsOn(TopName(d), TopName(c), c[p].md)
  <2>1. Under(c, Top(d), p)
    BY <1>4
  <2>2. FitsOn(c[Top(d)].frame, c[p].frame, c[p].md)
    BY <1>0, <2>1 DEF Fits
  <2>. QED
    BY <1>5, <1>7, <2>2 DEF TopName, p
<1>. QED
  BY <1>1, <1>2, <1>8, <1>9, <1>10, <1>11 DEF Nested, d, p

-----------------------------------------------------------------------------
\* What separates one paragraph from the next.
Between == {"footnote", "hbox", "list"}
ParsApart(c) ==
  \A i, j \in DOMAIN c :
    i < j /\ c[i].frame = "p" /\ c[j].frame = "p" =>
      \E k \in DOMAIN c : i <= k /\ k <= j /\ c[k].frame \in Between

\* Between two paragraphs there is a footnote, a box or a list: an open paragraph is never
\* opened again.
LEMMA NestedPars ==
  ASSUME NEW c, Nested(c)
  PROVE  ParsApart(c)
<1>0. IsCore(c) /\ Starts(c) /\ Fits(c) /\ DivsFirst(c)
  BY DEF Nested
<1>1. 1 \in DOMAIN c /\ DOMAIN c \in SUBSET Nat /\ \A i \in DOMAIN c : i >= 1
  BY <1>0, CorePositions
<1>. SUFFICES ASSUME NEW i \in DOMAIN c, NEW j \in DOMAIN c, i < j, c[i].frame = "p", c[j].frame = "p"
              PROVE  \E k \in DOMAIN c : i <= k /\ k <= j /\ c[k].frame \in Between
  BY DEF ParsApart
<1>2. i \in Nat /\ j \in Nat /\ i >= 1 /\ j # 1
  BY <1>1
<1>3. PICK b \in DOMAIN c : Under(c, b, j)
  BY <1>0, <1>2, UnderExists
<1>4. b < j /\ i <= b /\ b \in Nat
  BY <1>1, <1>2, <1>3 DEF Under
<1>5. c[b].frame \in VTops
  BY <1>0, <1>3 DEF Fits, FitsOn
<1>6. b # i /\ i < b
  <2>1. "p" \notin VTops
    BY DivIsOther DEF VTops
  <2>. QED
    BY <1>2, <1>4, <1>5, <2>1
<1>7. CASE c[b].frame \in {"footnote", "list"}
  <2>1. b <= j
    BY <1>2, <1>4
  <2>2. c[b].frame \in Between
    BY <1>7 DEF Between
  <2>. QED
    BY <1>4, <2>1, <2>2
<1>8. ASSUME NEW a \in DOMAIN c, Under(c, a, b)
      PROVE  /\ FitsOn(c[a].frame, c[b].frame, c[b].md) /\ i <= a /\ a <= j
  <2>1. FitsOn(c[a].frame, c[b].frame, c[b].md)
    BY <1>0, <1>8 DEF Fits
  <2>2. a < b /\ a \in Nat /\ i <= a
    BY <1>1, <1>6, <1>8 DEF Under
  <2>. QED
    BY <1>2, <1>4, <2>1, <2>2
<1>9. PICK a \in DOMAIN c : Under(c, a, b)
  <2>1. b # 1
    BY <1>1, <1>6
  <2>. QED
    BY <1>0, <2>1, UnderExists
<1>10. CASE c[b].frame = "document"
  BY <1>8, <1>9, <1>10 DEF FitsOn
<1>11. CASE c[b].frame = "item"
  <2>1. c[a].frame = "list"
    BY <1>8, <1>9, <1>11 DEF FitsOn
  <2>. QED
    BY <1>8, <1>9, <2>1 DEF Between
<1>12. CASE c[b].frame \in Divs
  <2>1. c[i].frame \in {"document"} \cup Divs
    BY <1>0, <1>6, <1>12 DEF DivsFirst
  <2>2. "p" \notin {"document"} \cup Divs
    BY DivIsOther
  <2>. QED
    BY <2>1, <2>2
<1>. QED
  BY <1>5, <1>7, <1>10, <1>11, <1>12 DEF VTops

-----------------------------------------------------------------------------
(* Matching: the elements of commands and the commands that are open, by rank *)
\* The greatest of some positions comes last, the others keep their rank.
LEMMA RankAdd ==
  ASSUME NEW E \in SUBSET Nat, IsFiniteSet(E), NEW p \in Nat, \A i \in E : i < p
  PROVE  /\ Cardinality(E) \in Nat /\ Cardinality(E \cup {p}) = Cardinality(E) + 1
         /\ Rank(E \cup {p}, p) = Cardinality(E) + 1
         /\ \A i \in E : Rank(E \cup {p}, i) = Rank(E, i) /\ Rank(E, i) \in 1..Cardinality(E)
<1>1. p \notin E
  OBVIOUS
<1>2. Cardinality(E) \in Nat /\ Cardinality(E \cup {p}) = Cardinality(E) + 1
  BY <1>1, FS_AddElement, FS_CardinalityType
<1>3. { j \in E \cup {p} : j <= p } = E \cup {p}
  <2>1. \A j \in E \cup {p} : j <= p
    OBVIOUS
  <2>. QED
    BY <2>1
<1>4. ASSUME NEW i \in E PROVE Rank(E \cup {p}, i) = Rank(E, i) /\ Rank(E, i) \in 1..Cardinality(E)
  <2>. DEFINE S == { j \in E : j <= i }
  <2>1. { j \in E \cup {p} : j <= i } = S
    OBVIOUS
  <2>2. S \subseteq E /\ i \in S
    OBVIOUS
  <2>3. IsFiniteSet(S) /\ Cardinality(S) \in Nat /\ Cardinality(S) <= Cardinality(E)
    <3>. HIDE DEF S
    <3>. QED
      BY <2>2, FS_Subset, FS_CardinalityType
  <2>4. Cardinality(S) # 0
    <3>. HIDE DEF S
    <3>. QED
      BY <2>2, <2>3, FS_EmptySet
  <2>5. Rank(E \cup {p}, i) = Cardinality(S) /\ Rank(E, i) = Cardinality(S)
    BY <2>1 DEF Rank
  <2>. HIDE DEF S
  <2>. QED
    BY <1>2, <2>3, <2>4, <2>5
<1>. QED
  BY <1>2, <1>3, <1>4 DEF Rank

-----------------------------------------------------------------------------
\* The elements of commands, and the commands that have one.
Elems(c) == { i \in DOMAIN c : c[i].frame \in Kinds }
Cmds(op) == { k \in DOMAIN op : op[k].kind # "group" }

FontType == [attrs : SUBSET Attributes, packed : SUBSET Attributes, old : SUBSET Attributes,
             stackval : BOOLEAN, level : Nat]
OpenCommands == [kind : (Kinds \ {"footnote"}) \cup {"group"}, sv : {{}}] \cup [kind : {"footnote"}, sv : FontType]

Matched(c, op) ==
  /\ Cardinality(Elems(c)) = Cardinality(Cmds(op))
  /\ \A i \in Elems(c), k \in Cmds(op) :
       Rank(Elems(c), i) = Rank(Cmds(op), k) => c[i].frame = op[k].kind

\* A command that opens is the last of the open ones, and the others keep their places.
LEMMA CmdsAppend ==
  ASSUME NEW op \in Seq(OpenCommands), NEW e \in OpenCommands
  PROVE  /\ Append(op, e) \in Seq(OpenCommands) /\ Append(op, e) # <<>>
         /\ Front(Append(op, e)) = op /\ Last(Append(op, e)) = e
         /\ Cmds(op) \in SUBSET Nat /\ IsFiniteSet(Cmds(op))
         /\ Len(op) + 1 \in Nat /\ \A k \in Cmds(op) : k < Len(op) + 1
         /\ \A k \in Cmds(op) : Append(op, e)[k] = op[k]
         /\ Append(op, e)[Len(op) + 1] = e
         /\ e.kind = "group" => Cmds(Append(op, e)) = Cmds(op)
         /\ e.kind # "group" => Cmds(Append(op, e)) = Cmds(op) \cup {Len(op) + 1}
<1>. DEFINE q == Append(op, e)
            n == Len(op)
<1>1. /\ q \in Seq(OpenCommands) /\ n \in Nat /\ DOMAIN op = 1..n /\ DOMAIN q = 1..(n + 1)
      /\ \A i \in 1..n : q[i] = op[i]
      /\ q[n + 1] = e
  BY PushedAt
<1>2. q # <<>> /\ Front(q) = op /\ Last(q) = e
  BY PushPop
<1>. HIDE DEF q, n
<1>3. Cmds(op) \subseteq 1..n
  BY <1>1 DEF Cmds
<1>0. IsFiniteSet(1..n)
  BY <1>1, FS_Interval
<1>4. IsFiniteSet(Cmds(op))
  BY <1>0, <1>3, FS_Subset
<1>5. e.kind = "group" => Cmds(q) = Cmds(op)
  BY <1>1 DEF Cmds
<1>6. e.kind # "group" => Cmds(q) = Cmds(op) \cup {n + 1}
  BY <1>1 DEF Cmds
<1>. QED
  BY <1>1, <1>2, <1>3, <1>4, <1>5, <1>6 DEF q, n

\* A frame that is pushed is the last of the elements of commands, if it is one.
LEMMA ElemsPushed ==
  ASSUME NEW c, IsCore(c), NEW d, NEW p, Pushed(c, d, p)
  PROVE  /\ Elems(c) \in SUBSET Nat /\ IsFiniteSet(Elems(c))
         /\ p \in Nat /\ \A i \in Elems(c) : i < p /\ d[i] = c[i]
         /\ d[p].frame \in Kinds => Elems(d) = Elems(c) \cup {p}
         /\ d[p].frame \notin Kinds => Elems(d) = Elems(c)
<1>1. p \in Nat /\ DOMAIN d = DOMAIN c \cup {p} /\ \A i \in DOMAIN c : i < p /\ d[i] = c[i]
  BY DEF Pushed
<1>2. IsFiniteSet(DOMAIN c) /\ DOMAIN c \in SUBSET Nat
  BY CorePositions
<1>3. Elems(c) \subseteq DOMAIN c
  BY DEF Elems
<1>4. IsFiniteSet(Elems(c))
  BY <1>2, <1>3, FS_Subset
<1>5. d[p].frame \in Kinds => Elems(d) = Elems(c) \cup {p}
  BY <1>1 DEF Elems
<1>6. d[p].frame \notin Kinds => Elems(d) = Elems(c)
  BY <1>1 DEF Elems
<1>. QED
  BY <1>1, <1>2, <1>3, <1>4, <1>5, <1>6

\* Groups have no elements.
LEMMA MatchedGroup ==
  ASSUME NEW c, NEW op \in Seq(OpenCommands), NEW e \in OpenCommands, e.kind = "group"
  PROVE  Matched(c, Append(op, e)) <=> Matched(c, op)
<1>1. /\ Cmds(Append(op, e)) = Cmds(op)
      /\ \A k \in Cmds(op) : Append(op, e)[k] = op[k]
  BY CmdsAppend
<1>. HIDE DEF Matched
<1>. QED
  BY <1>1 DEF Matched

\* Elements of the structure belong to no command.
LEMMA MatchedStructure ==
  ASSUME NEW c, IsCore(c), NEW d, NEW p, Pushed(c, d, p), d[p].frame \notin Kinds, NEW op
  PROVE  Matched(d, op) <=> Matched(c, op)
<1>1. Elems(d) = Elems(c) /\ \A i \in Elems(c) : d[i] = c[i]
  BY ElemsPushed
<1>. QED
  BY <1>1 DEF Matched

\* A command and its element come and go together.
LEMMA MatchedElement ==
  ASSUME NEW c, IsCore(c), NEW d, NEW p, Pushed(c, d, p), d[p].frame \in Kinds,
         NEW op \in Seq(OpenCommands), NEW e \in OpenCommands, e.kind # "group"
  PROVE  Matched(d, Append(op, e)) <=> (Matched(c, op) /\ d[p].frame = e.kind)
<1>. DEFINE q == Append(op, e)
            r == Len(op) + 1
            E == Elems(c)
            F == Elems(d)
            C == Cmds(op)
            G == Cmds(q)
<1>1. /\ E \in SUBSET Nat /\ IsFiniteSet(E) /\ p \in Nat /\ \A i \in E : i < p /\ d[i] = c[i]
      /\ F = E \cup {p}
  BY ElemsPushed
<1>2. /\ C \in SUBSET Nat /\ IsFiniteSet(C) /\ r \in Nat /\ \A k \in C : k < r /\ q[k] = op[k]
      /\ G = C \cup {r} /\ q[r] = e
  BY CmdsAppend
<1>3. Matched(d, q) <=> (/\ Cardinality(F) = Cardinality(G)
                         /\ \A i \in F, k \in G : Rank(F, i) = Rank(G, k) => d[i].frame = q[k].kind)
  BY DEF Matched
<1>4. Matched(c, op) <=> (/\ Cardinality(E) = Cardinality(C)
                          /\ \A i \in E, k \in C : Rank(E, i) = Rank(C, k) => c[i].frame = op[k].kind)
  BY DEF Matched
<1>. HIDE DEF q, r, E, F, C, G
<1>5. /\ Cardinality(E) \in Nat /\ Cardinality(F) = Cardinality(E) + 1
      /\ Rank(F, p) = Cardinality(E) + 1
      /\ \A i \in E : Rank(F, i) = Rank(E, i) /\ Rank(E, i) \in 1..Cardinality(E)
  BY <1>1, RankAdd
<1>6. /\ Cardinality(C) \in Nat /\ Cardinality(G) = Cardinality(C) + 1
      /\ Rank(G, r) = Cardinality(C) + 1
      /\ \A k \in C : Rank(G, k) = Rank(C, k) /\ Rank(C, k) \in 1..Cardinality(C)
  BY <1>2, RankAdd
<1>7. Cardinality(F) = Cardinality(G) <=> Cardinality(E) = Cardinality(C)
  BY <1>5, <1>6
<1>8. ASSUME Matched(d, q) PROVE Matched(c, op) /\ d[p].frame = e.kind
  <2>1. Cardinality(E) = Cardinality(C)
    BY <1>3, <1>7, <1>8
  <2>2. ASSUME NEW i \in E, NEW k \in C, Rank(E, i) = Rank(C, k) PROVE c[i].frame = op[k].kind
    <3>1. i \in F /\ k \in G /\ Rank(F, i) = Rank(G, k)
      BY <1>1, <1>2, <1>5, <1>6, <2>2
    <3>2. d[i].frame = q[k].kind
      BY <1>3, <1>8, <3>1
    <3>. QED
      BY <1>1, <1>2, <3>2
  <2>3. d[p].frame = e.kind
    <3>1. p \in F /\ r \in G /\ Rank(F, p) = Rank(G, r)
      BY <1>1, <1>2, <1>5, <1>6, <2>1
    <3>2. d[p].frame = q[r].kind
      BY <1>3, <1>8, <3>1
    <3>. QED
      BY <1>2, <3>2
  <2>. QED
    BY <1>4, <2>1, <2>2, <2>3
<1>9. ASSUME Matched(c, op), d[p].frame = e.kind PROVE Matched(d, q)
  <2>1. Cardinality(E) = Cardinality(C)
    BY <1>4, <1>9
  <2>2. ASSUME NEW i \in F, NEW k \in G, Rank(F, i) = Rank(G, k) PROVE d[i].frame = q[k].kind
    <3>1. CASE i \in E /\ k \in C
      <4>1. c[i].frame = op[k].kind
        BY <1>4, <1>5, <1>6, <1>9, <2>2, <3>1
      <4>. QED
        BY <1>1, <1>2, <3>1, <4>1
    <3>2. CASE i = p /\ k = r
      BY <1>2, <1>9, <3>2
    <3>3. CASE i \in E /\ k = r
      <4>1. Rank(E, i) = Cardinality(E) + 1
        BY <1>5, <1>6, <2>1, <2>2, <3>3
      <4>. QED
        BY <1>5, <3>3, <4>1
    <3>4. CASE i = p /\ k \in C
      <4>1. Rank(C, k) = Cardinality(C) + 1
        BY <1>5, <1>6, <2>1, <2>2, <3>4
      <4>. QED
        BY <1>6, <3>4, <4>1
    <3>. QED
      BY <1>1, <1>2, <3>1, <3>2, <3>3, <3>4
  <2>. QED
    BY <1>3, <1>7, <2>1, <2>2
<1>. QED
  BY <1>8, <1>9 DEF q

-----------------------------------------------------------------------------
\* The innermost element of a command, and that of a core
InnerIs(c, k) ==
  \/ Elems(c) = {} /\ k = "none"
  \/ \E m \in Elems(c) : (\A i \in Elems(c) : i <= m) /\ c[m].frame = k

InnerCommand(op) ==
  IF Cmds(op) = {} THEN "none" ELSE op[CHOOSE i \in Cmds(op) : \A j \in Cmds(op) : j <= i].kind

\* The greatest of some positions has the last rank.
LEMMA RankLast ==
  ASSUME NEW E, NEW m \in E, \A i \in E : i <= m
  PROVE  Rank(E, m) = Cardinality(E)
<1>1. { j \in E : j <= m } = E
  OBVIOUS
<1>. QED
  BY <1>1 DEF Rank

\* When elements and commands match, the innermost element is that of the innermost command.
LEMMA InnerMatched ==
  ASSUME NEW c, IsCore(c), NEW op \in Seq(OpenCommands), Matched(c, op)
  PROVE  InnerIs(c, InnerCommand(op))
<1>. DEFINE E == Elems(c)
            C == Cmds(op)
<1>1. /\ Cardinality(E) = Cardinality(C)
      /\ \A i \in E, k \in C : Rank(E, i) = Rank(C, k) => c[i].frame = op[k].kind
  BY DEF Matched
<1>2. PICK n \in Nat : E \subseteq 1..n
  BY DEF IsCore, Elems
<1>3. C \subseteq 1..Len(op) /\ Len(op) \in Nat
  BY LenProperties DEF Cmds
<1>4. IsFiniteSet(E) /\ IsFiniteSet(C)
  <2>1. IsFiniteSet(1..n) /\ IsFiniteSet(1..Len(op))
    BY <1>3, FS_Interval
  <2>. HIDE DEF E, C
  <2>. QED
    BY <1>2, <1>3, <2>1, FS_Subset
<1>5. E = {} <=> C = {}
  <2>. HIDE DEF E, C
  <2>. QED
    BY <1>1, <1>4, FS_EmptySet
<1>6. CASE C = {}
  BY <1>5, <1>6 DEF InnerIs, InnerCommand
<1>7. CASE C # {}
  <2>. DEFINE q == CHOOSE i \in C : \A j \in C : j <= i
  <2>1. \E i \in C : \A j \in C : j <= i
    BY <1>3, <1>7, GreatestPosition
  <2>2. q \in C /\ \A j \in C : j <= q
    BY <2>1
  <2>3. InnerCommand(op) = op[q].kind
    BY <1>7 DEF InnerCommand
  <2>4. PICK m \in E : \A j \in E : j <= m
    BY <1>2, <1>5, <1>7, GreatestPosition
  <2>. HIDE DEF q, E, C
  <2>5. Rank(E, m) = Cardinality(E) /\ Rank(C, q) = Cardinality(C)
    BY <2>2, <2>4, RankLast
  <2>6. c[m].frame = op[q].kind
    BY <1>1, <2>2, <2>4, <2>5
  <2>. QED
    BY <2>3, <2>4, <2>6 DEF InnerIs, E
<1>. QED
  BY <1>6, <1>7

\* Elements of the structure do not change the innermost element.
LEMMA InnerStructure ==
  ASSUME NEW c, IsCore(c), NEW d, NEW p, Pushed(c, d, p), d[p].frame \notin Kinds, NEW k
  PROVE  InnerIs(d, k) <=> InnerIs(c, k)
<1>1. Elems(d) = Elems(c) /\ \A i \in Elems(c) : d[i] = c[i]
  BY ElemsPushed
<1>. QED
  BY <1>1 DEF InnerIs

\* What may be on top of the innermost element.
LEMMA AboveInner ==
  ASSUME NEW c, Nested(c), NEW k, InnerIs(c, k)
  PROVE  /\ k \in {"fonts", "mbox", "hbox", "head", "labelitem"} => TopName(c) = k
         /\ k = "footnote" => TopName(c) \in {"footnote", "p"}
         /\ k = "list" => TopName(c) \in {"list", "item", "p"}
         /\ k = "none" => TopName(c) \in {"document", "p"} \cup Divs
<1>0. IsCore(c) /\ Starts(c) /\ Fits(c) /\ DivsFirst(c)
  BY DEF Nested
<1>. DEFINE t == Top(c)
<1>1. /\ DOMAIN c \in SUBSET Nat /\ 1 \in DOMAIN c /\ \A i \in DOMAIN c : i >= 1
      /\ \A i \in DOMAIN c : c[i].frame \in Names /\ c[i].md \in Modes
  BY <1>0, CorePositions
<1>2. t \in DOMAIN c /\ t \in Nat /\ \A j \in DOMAIN c : j <= t
  BY <1>0, TopIsGreatest
<1>. HIDE DEF t
<1>3. \A i \in DOMAIN c, j \in DOMAIN c : Under(c, i, j) => /\ FitsOn(c[i].frame, c[j].frame, c[j].md)
                                                          /\ i < j /\ \A m \in DOMAIN c : m < j => m <= i
  BY <1>0, <1>1 DEF Under, Fits
<1>4. \A j \in DOMAIN c : j # 1 => \E i \in DOMAIN c : Under(c, i, j)
  BY <1>0, UnderExists
<1>5. \A j \in DOMAIN c : c[j].frame = "document" => j = 1
  BY <1>3, <1>4 DEF FitsOn
<1>6. \A j \in DOMAIN c : c[j].frame \notin Kinds => c[j].frame \in {"document", "p", "item"} \cup Divs
  BY <1>1 DEF Names
<1>7. CASE Elems(c) = {} /\ k = "none"
  <2>1. c[t].frame \notin Kinds
    BY <1>2, <1>7 DEF Elems
  <2>2. c[t].frame # "item"
    <3>. SUFFICES ASSUME c[t].frame = "item" PROVE FALSE
      OBVIOUS
    <3>1. t # 1
      BY <1>0 DEF Starts
    <3>2. PICK i \in DOMAIN c : Under(c, i, t)
      BY <1>2, <1>4, <3>1
    <3>3. c[i].frame = "list"
      BY <1>2, <1>3, <3>2 DEF FitsOn
    <3>. QED
      BY <1>7, <3>3 DEF Elems, Kinds
  <2>. QED
    BY <1>2, <1>6, <1>7, <2>1, <2>2 DEF TopName, t
<1>8. ASSUME NEW m \in Elems(c), \A i \in Elems(c) : i <= m, c[m].frame = k
      PROVE  /\ k \in Kinds /\ k # "none"
             /\ c[t].frame = k \/ (c[t].frame = "item" /\ k = "list") \/ (c[t].frame = "p" /\ k \in {"footnote", "list"})
  <2>1. m \in DOMAIN c /\ k \in Kinds /\ m \in Nat
    BY <1>1, <1>8 DEF Elems
  <2>2. \A j \in DOMAIN c : j > m => c[j].frame \in {"p", "item"} \cup Divs
    <3>1. \A j \in DOMAIN c : j > m => c[j].frame \notin Kinds
      BY <1>1, <1>8, <2>1 DEF Elems
    <3>2. \A j \in DOMAIN c : j > m => j # 1
      BY <1>1, <2>1
    <3>. QED
      BY <1>5, <1>6, <3>1, <3>2
  <2>3. \A j \in DOMAIN c : j > m => c[j].frame \notin Divs
    <3>. SUFFICES ASSUME NEW j \in DOMAIN c, j > m, c[j].frame \in Divs PROVE FALSE
      OBVIOUS
    <3>1. k \in {"document"} \cup Divs
      BY <1>0, <1>1, <1>8, <2>1 DEF DivsFirst
    <3>. QED
      BY <2>1, <3>1, DivIsOther DEF Kinds
  <2>4. \A j \in DOMAIN c : j > m /\ c[j].frame = "item" => k = "list" /\ Under(c, m, j)
    <3>. SUFFICES ASSUME NEW j \in DOMAIN c, j > m, c[j].frame = "item"
                  PROVE  k = "list" /\ Under(c, m, j)
      OBVIOUS
    <3>1. PICK i \in DOMAIN c : Under(c, i, j)
      BY <1>1, <1>4, <2>1
    <3>2. c[i].frame = "list" /\ m <= i
      BY <1>1, <1>3, <2>1, <3>1 DEF FitsOn
    <3>3. i \in Elems(c)
      BY <3>2 DEF Elems, Kinds
    <3>4. i = m
      BY <1>1, <1>8, <2>1, <3>2, <3>3
    <3>. QED
      BY <1>8, <3>1, <3>2, <3>4
  <2>5. CASE t = m
    BY <1>8, <2>1, <2>5 DEF Kinds
  <2>6. CASE t # m
    <3>1. t > m
      BY <1>2, <2>1, <2>6
    <3>2. CASE c[t].frame = "item"
      BY <1>2, <2>1, <2>4, <3>1, <3>2 DEF Kinds
    <3>3. CASE c[t].frame = "p"
      <4>1. PICK i \in DOMAIN c : Under(c, i, t)
        BY <1>1, <1>2, <1>4, <2>1, <3>1
      <4>2. c[i].frame \in VTops /\ m <= i
        BY <1>1, <1>2, <1>3, <2>1, <3>1, <3>3, <4>1 DEF FitsOn
      <4>3. CASE i = m
        <5>1. k \notin {"document", "item"} \cup Divs
          BY <2>1, DivIsOther DEF Kinds
        <5>2. k \in {"footnote", "list"}
          BY <1>8, <4>2, <4>3, <5>1 DEF VTops
        <5>. QED
          BY <2>1, <3>3, <5>2 DEF Kinds
      <4>4. CASE i # m
        <5>1. i > m
          BY <1>1, <2>1, <4>2, <4>4
        <5>2. c[i].frame = "item"
          <6>1. c[i].frame \in {"p", "item"} /\ "p" \notin VTops
            BY <2>2, <2>3, <5>1, DivIsOther DEF VTops
          <6>. QED
            BY <4>2, <6>1
        <5>. QED
          BY <2>1, <2>4, <3>3, <5>1, <5>2 DEF Kinds
      <4>. QED
        BY <4>3, <4>4
    <3>. QED
      BY <1>2, <2>2, <2>3, <3>1, <3>2, <3>3
  <2>. QED
    BY <2>5, <2>6
<1>9. CASE \E m \in Elems(c) : (\A i \in Elems(c) : i <= m) /\ c[m].frame = k
  <2>1. PICK m \in Elems(c) : (\A i \in Elems(c) : i <= m) /\ c[m].frame = k
    BY <1>9
  <2>2. /\ k \in Kinds /\ k # "none"
        /\ c[t].frame = k \/ (c[t].frame = "item" /\ k = "list") \/ (c[t].frame = "p" /\ k \in {"footnote", "list"})
    BY <1>8, <2>1
  <2>. QED
    BY <2>2 DEF TopName, t
<1>. QED
  BY <1>7, <1>9 DEF InnerIs

-----------------------------------------------------------------------------
(* Stacks of frames, with dummies *)
FrameType == [frame : Names \cup {Blank}, md : Modes, hi : SUBSET Attributes]
IsStack(fs) == fs \in Seq(FrameType) /\ 1 \in Solid(fs)
Dummy(ds) == ds \in Seq(FrameType) /\ \A i \in 1..Len(ds) : ds[i].frame = Blank

\* The frames of a stack, by position.
LEMMA StackAt ==
  ASSUME NEW fs, IsStack(fs)
  PROVE  /\ Len(fs) \in Nat \ {0} /\ DOMAIN fs = 1..Len(fs) /\ fs # <<>>
         /\ \A i \in 1..Len(fs) : fs[i] \in FrameType
         /\ Solid(fs) \in SUBSET (1..Len(fs)) /\ 1 \in Solid(fs)
         /\ \A i \in Solid(fs) : fs[i].frame \in Names
<1>1. fs \in Seq(FrameType) /\ 1 \in Solid(fs)
  BY DEF IsStack
<1>2. Len(fs) \in Nat /\ DOMAIN fs = 1..Len(fs) /\ \A i \in 1..Len(fs) : fs[i] \in FrameType
  BY <1>1, LenProperties, ElementOfSeq
<1>3. Solid(fs) \in SUBSET (1..Len(fs)) /\ \A i \in Solid(fs) : fs[i].frame \in Names
  BY <1>2 DEF Solid, FrameType
<1>4. Len(fs) # 0 /\ fs # <<>>
  BY <1>1, <1>2, <1>3
<1>. QED
  BY <1>1, <1>2, <1>3, <1>4

\* The frames that are no dummies form a core.
LEMMA CoreOfStack ==
  ASSUME NEW fs, IsStack(fs)
  PROVE  /\ IsCore(Core(fs)) /\ DOMAIN Core(fs) = Solid(fs)
         /\ \A i \in Solid(fs) : Core(fs)[i].frame = fs[i].frame /\ Core(fs)[i].md = fs[i].md
<1>1. /\ Len(fs) \in Nat \ {0}
      /\ \A i \in 1..Len(fs) : fs[i] \in FrameType
      /\ Solid(fs) \in SUBSET (1..Len(fs)) /\ 1 \in Solid(fs)
      /\ \A i \in Solid(fs) : fs[i].frame \in Names
  BY StackAt
<1>2. DOMAIN Core(fs) = Solid(fs)
  BY DEF Core
<1>3. \A i \in Solid(fs) : fs[i].frame \in Names /\ fs[i].md \in Modes
  BY <1>1 DEF FrameType
<1>4. \A i \in Solid(fs) : Core(fs)[i] = [frame |-> fs[i].frame, md |-> fs[i].md]
  BY DEF Core
<1>5. Core(fs) \in [Solid(fs) -> [frame : Names, md : Modes]]
  BY <1>3 DEF Core
<1>. QED
  BY <1>1, <1>2, <1>4, <1>5 DEF IsCore

\* Equal solid frames make equal cores.
LEMMA SameCore ==
  ASSUME NEW fs, NEW gs, Solid(gs) = Solid(fs), \A i \in Solid(fs) : gs[i] = fs[i]
  PROVE  Core(gs) = Core(fs)
BY DEF Core

\* The first frame from the top that is solid is the top of the core.
LEMMA TopIsTop ==
  ASSUME NEW fs, IsStack(fs)
  PROVE  /\ TopNotIn(fs, {Blank}) = Top(Core(fs))
         /\ Top(Core(fs)) \in Solid(fs) /\ Top(Core(fs)) \in 1..Len(fs)
         /\ \A j \in 1..Len(fs) : j > Top(Core(fs)) => fs[j].frame = Blank
         /\ TopName(Core(fs)) = fs[Top(Core(fs))].frame
<1>. DEFINE t == Top(Core(fs))
            P(i) == fs[i].frame \notin {Blank} /\ \A j \in i + 1 .. Len(fs) : fs[j].frame \in {Blank}
<1>1. /\ IsCore(Core(fs)) /\ DOMAIN Core(fs) = Solid(fs)
      /\ \A i \in Solid(fs) : Core(fs)[i].frame = fs[i].frame /\ Core(fs)[i].md = fs[i].md
  BY CoreOfStack
<1>2. /\ Len(fs) \in Nat \ {0} /\ DOMAIN fs = 1..Len(fs)
      /\ Solid(fs) \in SUBSET (1..Len(fs))
  BY StackAt
<1>3. t \in Solid(fs) /\ t \in Nat /\ \A j \in Solid(fs) : j <= t
  BY <1>1, TopIsGreatest
<1>. HIDE DEF t
<1>4. \A j \in 1..Len(fs) : j > t => fs[j].frame = Blank
  BY <1>2, <1>3 DEF Solid
<1>5. t \in DOMAIN fs /\ P(t)
  BY <1>2, <1>3, <1>4 DEF Solid
<1>6. TopNotIn(fs, {Blank}) = CHOOSE i \in DOMAIN fs : P(i)
  BY DEF TopNotIn
<1>. DEFINE u == CHOOSE i \in DOMAIN fs : P(i)
<1>7. u \in DOMAIN fs /\ P(u)
  BY <1>5
<1>. HIDE DEF u
<1>8. u \in Solid(fs) /\ \A j \in Solid(fs) : j <= u
  BY <1>2, <1>7 DEF Solid
<1>9. u = t
  BY <1>2, <1>3, <1>8
<1>10. TopName(Core(fs)) = fs[t].frame
  BY <1>1, <1>3 DEF TopName, t
<1>. QED
  BY <1>2, <1>3, <1>4, <1>6, <1>9, <1>10 DEF t, u

\* Without the dummy frames on top.
Trimmed(fs) == SubSeq(fs, 1, TopNotIn(fs, {Blank}))

\* The dummy frames on top of the last solid frame go and the core stays.
LEMMA TrimmedCore ==
  ASSUME NEW fs, IsStack(fs)
  PROVE  /\ IsStack(Trimmed(fs)) /\ Core(Trimmed(fs)) = Core(fs)
         /\ Len(Trimmed(fs)) = Top(Core(fs))
         /\ Last(Trimmed(fs)).frame = TopName(Core(fs))
         /\ Last(Trimmed(fs)).md = Core(fs)[Top(Core(fs))].md
<1>. DEFINE t == Top(Core(fs))
            g == Trimmed(fs)
<1>1. /\ TopNotIn(fs, {Blank}) = t
      /\ t \in Solid(fs) /\ t \in 1..Len(fs)
      /\ \A j \in 1..Len(fs) : j > t => fs[j].frame = Blank
      /\ TopName(Core(fs)) = fs[t].frame
  BY TopIsTop
<1>2. /\ Len(fs) \in Nat \ {0} /\ DOMAIN fs = 1..Len(fs)
      /\ \A i \in 1..Len(fs) : fs[i] \in FrameType
      /\ Solid(fs) \in SUBSET (1..Len(fs)) /\ 1 \in Solid(fs)
  BY StackAt
<1>3. Core(fs)[t].md = fs[t].md
  BY <1>1, CoreOfStack
<1>. HIDE DEF t
<1>4. g = SubSeq(fs, 1, t)
  BY <1>1 DEF Trimmed
<1>5. 1 \in Int /\ t \in Int /\ \A i \in 1..t : fs[i] \in FrameType
  BY <1>1, <1>2
<1>6. /\ g \in Seq(FrameType)
      /\ Len(g) = IF 1 <= t THEN t - 1 + 1 ELSE 0
      /\ \A i \in 1 .. t - 1 + 1 : g[i] = fs[1 + i - 1]
  BY <1>4, <1>5, SubSeqProperties
<1>. HIDE DEF g
<1>7. Len(g) = t /\ t - 1 + 1 = t
  BY <1>1, <1>6
<1>8. \A i \in 1..t : g[i] = fs[i]
  <2>1. \A i \in 1..t : 1 + i - 1 = i
    BY <1>5
  <2>. QED
    BY <1>6, <1>7, <2>1
<1>9. DOMAIN g = 1..t
  BY <1>6, <1>7, LenProperties
<1>10. Solid(g) = Solid(fs)
  BY <1>1, <1>2, <1>8, <1>9 DEF Solid
<1>11. \A i \in Solid(fs) : g[i] = fs[i]
  BY <1>8, <1>9, <1>10 DEF Solid
<1>12. Core(g) = Core(fs)
  BY <1>10, <1>11, SameCore
<1>13. Last(g) = fs[t]
  BY <1>1, <1>7, <1>8 DEF Last
<1>. QED
  BY <1>1, <1>2, <1>3, <1>6, <1>7, <1>10, <1>12, <1>13 DEF IsStack, t, g

\* Dummy frames on top of a stack leave its core as it is.
LEMMA DummiesCore ==
  ASSUME NEW fs, IsStack(fs), NEW ds, Dummy(ds)
  PROVE  IsStack(fs \o ds) /\ Core(fs \o ds) = Core(fs)
<1>. DEFINE g == fs \o ds
            n == Len(fs)
<1>1. /\ n \in Nat \ {0} /\ DOMAIN fs = 1..n
      /\ \A i \in 1..n : fs[i] \in FrameType
      /\ Solid(fs) \in SUBSET (1..n) /\ 1 \in Solid(fs)
  BY StackAt
<1>2. fs \in Seq(FrameType) /\ ds \in Seq(FrameType) /\ \A i \in 1..Len(ds) : ds[i].frame = Blank
  BY DEF IsStack, Dummy
<1>3. /\ g \in Seq(FrameType)
      /\ Len(g) = n + Len(ds)
      /\ \A i \in 1 .. n + Len(ds) : g[i] = IF i <= n THEN fs[i] ELSE ds[i - n]
  BY <1>2, ConcatProperties
<1>4. Len(ds) \in Nat /\ DOMAIN g = 1..(n + Len(ds))
  BY <1>2, <1>3, LenProperties
<1>. HIDE DEF g, n
<1>5. \A i \in 1..n : g[i] = fs[i] /\ i \in DOMAIN g
  BY <1>1, <1>3, <1>4
<1>6. \A i \in DOMAIN g : i \notin 1..n => g[i].frame = Blank
  <2>. TAKE i \in DOMAIN g
  <2>1. i \in 1..n \/ (i > n /\ i - n \in 1..Len(ds) /\ i \in 1..(n + Len(ds)))
    BY <1>1, <1>4
  <2>. QED
    BY <1>1, <1>2, <1>3, <2>1
<1>7. Solid(g) = Solid(fs)
  BY <1>1, <1>5, <1>6 DEF Solid
<1>8. \A i \in Solid(fs) : g[i] = fs[i]
  BY <1>1, <1>5
<1>9. Core(g) = Core(fs)
  BY <1>7, <1>8, SameCore
<1>. QED
  BY <1>1, <1>3, <1>7, <1>9 DEF IsStack, g

\* A solid frame appended to a stack is pushed on its core.
LEMMA AppendCore ==
  ASSUME NEW fs, IsStack(fs), NEW f \in FrameType, f.frame # Blank
  PROVE  /\ IsStack(Append(fs, f))
         /\ Pushed(Core(fs), Core(Append(fs, f)), Len(fs) + 1)
         /\ Core(Append(fs, f))[Len(fs) + 1] = [frame |-> f.frame, md |-> f.md]
         /\ Core(Append(fs, f)) \in [DOMAIN Core(Append(fs, f)) -> [frame : Names, md : Modes]]
<1>. DEFINE g == Append(fs, f)
            n == Len(fs)
<1>1. /\ n \in Nat \ {0} /\ DOMAIN fs = 1..n
      /\ Solid(fs) \in SUBSET (1..n) /\ 1 \in Solid(fs)
  BY StackAt
<1>2. fs \in Seq(FrameType)
  BY DEF IsStack
<1>3. /\ g \in Seq(FrameType) /\ DOMAIN g = 1..(n + 1)
      /\ \A i \in 1..n : g[i] = fs[i]
      /\ g[n + 1] = f
  BY <1>2, PushedAt
<1>. HIDE DEF g, n
<1>4. Solid(g) = Solid(fs) \cup {n + 1}
  BY <1>1, <1>3 DEF Solid
<1>5. IsStack(g)
  BY <1>1, <1>3, <1>4 DEF IsStack
<1>6. n + 1 \in Nat /\ \A i \in Solid(fs) : i < n + 1 /\ g[i] = fs[i]
  BY <1>1, <1>3
<1>7. \A i \in Solid(fs) : Core(g)[i] = Core(fs)[i]
  BY <1>4, <1>6 DEF Core
<1>8. DOMAIN Core(g) = Solid(g) /\ DOMAIN Core(fs) = Solid(fs)
  BY DEF Core
<1>9. Pushed(Core(fs), Core(g), n + 1)
  BY <1>4, <1>6, <1>7, <1>8 DEF Pushed
<1>10. Core(g)[n + 1] = [frame |-> f.frame, md |-> f.md]
  BY <1>3, <1>4 DEF Core
<1>11. Core(g) \in [DOMAIN Core(g) -> [frame : Names, md : Modes]]
  BY <1>5, CoreOfStack DEF IsCore
<1>. QED
  BY <1>5, <1>9, <1>10, <1>11 DEF g, n

\* The top frame, which is solid, leaves.
LEMMA FrontCore ==
  ASSUME NEW fs, IsStack(fs), Len(fs) = Top(Core(fs)), Top(Core(fs)) # 1
  PROVE  IsStack(Front(fs)) /\ Core(Front(fs)) = Rest(Core(fs))
<1>. DEFINE g == Front(fs)
            n == Len(fs)
<1>1. /\ n \in Nat \ {0} /\ DOMAIN fs = 1..n /\ fs # <<>>
      /\ Solid(fs) \in SUBSET (1..n) /\ 1 \in Solid(fs)
  BY StackAt
<1>2. fs \in Seq(FrameType)
  BY DEF IsStack
<1>3. g \in Seq(FrameType) /\ DOMAIN g = 1..(n - 1) /\ \A i \in 1..(n - 1) : g[i] = fs[i]
  BY <1>1, <1>2, PoppedAt
<1>4. Top(Core(fs)) = n /\ n # 1
  OBVIOUS
<1>. HIDE DEF g, n
<1>5. Solid(g) = Solid(fs) \ {n}
  BY <1>1, <1>3 DEF Solid
<1>6. \A i \in Solid(g) : g[i] = fs[i]
  BY <1>3 DEF Solid
<1>7. IsStack(g)
  BY <1>1, <1>3, <1>4, <1>5 DEF IsStack
<1>8. Core(g) = Rest(Core(fs))
  <2>1. DOMAIN Core(fs) = Solid(fs) /\ \A i \in Solid(fs) : Core(fs)[i] = [frame |-> fs[i].frame, md |-> fs[i].md]
    BY DEF Core
  <2>2. Rest(Core(fs)) = [i \in Solid(fs) \ {n} |-> Core(fs)[i]]
    BY <1>4, <2>1 DEF Rest
  <2>3. Core(g) = [i \in Solid(fs) \ {n} |-> [frame |-> fs[i].frame, md |-> fs[i].md]]
    BY <1>5, <1>6 DEF Core
  <2>. QED
    BY <2>1, <2>2, <2>3
<1>. QED
  BY <1>7, <1>8 DEF g

-----------------------------------------------------------------------------

\* The sequence of a finite set has its elements at as many places.
LEMMA SequenceOfSet ==
  ASSUME NEW S, IsFiniteSet(S)
  PROVE  SetToSeq(S) \in [1..Cardinality(S) -> S] /\ Cardinality(S) \in Nat
<1>1. ExistsBijection(1..Cardinality(S), S) /\ Cardinality(S) \in Nat
  BY FS_CardinalityType
<1>2. \E f \in [1..Cardinality(S) -> S] : IsInjective(f)
  BY <1>1 DEF ExistsBijection, Bijection, Injection, IsInjective
<1>. QED
  BY <1>1, <1>2 DEF SetToSeq

\* The frames that show a font are dummies.
LEMMA DummiesShow ==
  ASSUME NEW font \in FontType, NEW m \in Modes
  PROVE  Dummy(Dummies(font, m))
<1>1. font.attrs \in SUBSET Attributes
  BY DEF FontType
<1>2. CASE font.attrs = {}
  BY <1>2 DEF Dummies, Dummy
<1>3. CASE font.attrs # {} /\ document.pack_font_elt
  <2>1. Frame(Blank, m, font.attrs) \in FrameType
    BY <1>1 DEF Frame, FrameType
  <2>2. Dummies(font, m) = <<Frame(Blank, m, font.attrs)>>
    BY <1>3, Zenon DEF Dummies, Blank
  <2>3. <<Frame(Blank, m, font.attrs)>> \in Seq(FrameType)
    BY <2>1
  <2>. QED
    BY <2>2, <2>3 DEF Dummy, Frame
<1>4. CASE font.attrs # {} /\ ~document.pack_font_elt
  <2>. DEFINE attrs == SetToSeq(font.attrs)
              ds == [i \in DOMAIN attrs |-> Frame(Blank, m, {attrs[i]})]
  <2>1. Dummies(font, m) = ds
    BY <1>4, Zenon DEF Dummies, Blank
  <2>2. IsFiniteSet(font.attrs)
    BY <1>1, AttributesAssumption, FS_Subset
  <2>3. attrs \in [1..Cardinality(font.attrs) -> font.attrs] /\ Cardinality(font.attrs) \in Nat
    BY <2>2, SequenceOfSet
  <2>. DEFINE n == Cardinality(font.attrs)
  <2>. HIDE DEF attrs, n
  <2>4. DOMAIN attrs = 1..n /\ n \in Nat /\ \A i \in 1..n : attrs[i] \in font.attrs
    BY <2>3 DEF n
  <2>5. \A i \in 1..n : Frame(Blank, m, {attrs[i]}) \in FrameType
    BY <1>1, <2>4 DEF Frame, FrameType
  <2>6. ds \in [1..n -> FrameType]
    BY <2>4, <2>5
  <2>7. ds \in Seq(FrameType) /\ Len(ds) = n
    BY <2>4, <2>6
  <2>8. \A i \in 1..n : ds[i].frame = Blank
    BY <2>4 DEF Frame
  <2>. QED
    BY <2>1, <2>7, <2>8 DEF Dummy
<1>. QED
  BY <1>2, <1>3, <1>4

-----------------------------------------------------------------------------
(* What the change of a font leaves alone *)
Output == [frames : Seq(FrameType), mode : Modes, font : FontType, buffer : SUBSET SUBSET Attributes,
           badpop : BOOLEAN, misplaced : BOOLEAN]
IsOutput(s) == s \in Output /\ IsStack(s.frames)
C(s) == Core(s.frames)

\* t differs from s in what the elements do not depend on.
Alike(s, t) == IsOutput(t) /\ C(t) = C(s) /\ t.mode = s.mode /\ t.badpop = s.badpop

\* flush_buffer leaves the elements as they are.
LEMMA FlushAlike ==
  ASSUME NEW s, IsOutput(s)
  PROVE  Alike(s, flush_buffer(s)) /\ flush_buffer(s).font = s.font
<1>. DEFINE b == s.misplaced \/ (Block(s) = "p" /\ \E f \in s.buffer : f # Shown(s))
<1>1. b \in BOOLEAN
  OBVIOUS
<1>2. flush_buffer(s) = [s EXCEPT !.buffer = {}, !.misplaced = b]
  BY DEF flush_buffer
<1>. HIDE DEF b
<1>3. s \in Output /\ IsStack(s.frames)
  BY DEF IsOutput
<1>4. [s EXCEPT !.buffer = {}, !.misplaced = b] \in Output
  BY <1>1, <1>3 DEF Output
<1>5. /\ [s EXCEPT !.buffer = {}, !.misplaced = b].frames = s.frames
      /\ [s EXCEPT !.buffer = {}, !.misplaced = b].mode = s.mode
      /\ [s EXCEPT !.buffer = {}, !.misplaced = b].badpop = s.badpop
      /\ [s EXCEPT !.buffer = {}, !.misplaced = b].font = s.font
  BY <1>3 DEF Output
<1>. QED
  BY <1>2, <1>3, <1>4, <1>5 DEF Alike, IsOutput, C

\* Another font leaves the elements as they are.
LEMMA WithFont ==
  ASSUME NEW s, IsOutput(s), NEW f \in FontType
  PROVE  Alike(s, [s EXCEPT !.font = f]) /\ [s EXCEPT !.font = f].font = f
<1>1. s \in Output /\ IsStack(s.frames)
  BY DEF IsOutput
<1>2. [s EXCEPT !.font = f] \in Output
  BY <1>1 DEF Output
<1>. QED
  BY <1>1, <1>2 DEF Alike, IsOutput, C, Output

\* Another mode leaves the elements as they are.
LEMMA WithMode ==
  ASSUME NEW s, IsOutput(s), NEW m \in Modes
  PROVE  /\ IsOutput([s EXCEPT !.mode = m]) /\ [s EXCEPT !.mode = m].mode = m
         /\ C([s EXCEPT !.mode = m]) = C(s) /\ [s EXCEPT !.mode = m].badpop = s.badpop
         /\ [s EXCEPT !.mode = m].font = s.font
<1>1. s \in Output /\ IsStack(s.frames)
  BY DEF IsOutput
<1>2. [s EXCEPT !.mode = m] \in Output
  BY <1>1 DEF Output
<1>. QED
  BY <1>1, <1>2 DEF IsOutput, C, Output

\* The parts of the font of an output, and of the fonts made from it.
LEMMA OutputFont ==
  ASSUME NEW s, IsOutput(s)
  PROVE  /\ s.font \in FontType /\ s.mode \in Modes
         /\ \A a \in SUBSET Attributes : /\ [s.font EXCEPT !.attrs = a] \in FontType
                                         /\ [s.font EXCEPT !.packed = a] \in FontType
                                         /\ [s.font EXCEPT !.old = a] \in FontType
         /\ \A b \in BOOLEAN : [s.font EXCEPT !.stackval = b] \in FontType
         /\ \A l \in Nat : [s.font EXCEPT !.level = l] \in FontType
         /\ s.font.attrs \in SUBSET Attributes /\ s.font.packed \in SUBSET Attributes
         /\ s.font.old \in SUBSET Attributes /\ s.font.stackval \in BOOLEAN /\ s.font.level \in Nat
<1>1. s.font \in FontType /\ s.mode \in Modes
  BY DEF IsOutput, Output
<1>. QED
  BY <1>1 DEF FontType

\* check_font shows the font on top of the elements.
LEMMA CheckFontAlike ==
  ASSUME NEW s, IsOutput(s)
  PROVE  Alike(s, check_font(s))
<1>1. s \in Output /\ IsStack(s.frames) /\ s.font \in FontType /\ s.mode \in Modes
  BY OutputFont DEF IsOutput
<1>. DEFINE g == NoDummies(s).frames \o Dummies(s.font, s.mode)
            f == [s.font EXCEPT !.stackval = TRUE]
<1>2. TopNotIn(s.frames, {" "}) = TopNotIn(s.frames, {Blank})
  BY Zenon DEF Blank
<1>3. NoDummies(s).frames = Trimmed(s.frames)
  <2>1. NoDummies(s) = [s EXCEPT !.frames = SubSeq(@, 1, TopNotIn(@, {Blank}))]
    BY <1>2, Zenon DEF NoDummies, Blank
  <2>. QED
    BY <1>1, <2>1 DEF Trimmed, Output
<1>4. IsStack(Trimmed(s.frames)) /\ Core(Trimmed(s.frames)) = Core(s.frames)
  BY <1>1, TrimmedCore
<1>5. Dummy(Dummies(s.font, s.mode))
  BY <1>1, DummiesShow
<1>6. IsStack(g) /\ Core(g) = Core(s.frames)
  BY <1>3, <1>4, <1>5, DummiesCore
<1>7. f \in FontType
  BY <1>1 DEF FontType
<1>8. check_font(s) = [s EXCEPT !.frames = g, !.font = f]
  BY DEF check_font
<1>. HIDE DEF g, f
<1>9. [s EXCEPT !.frames = g, !.font = f] \in Output
  BY <1>1, <1>6, <1>7 DEF Output, IsStack
<1>10. /\ [s EXCEPT !.frames = g, !.font = f].frames = g
       /\ [s EXCEPT !.frames = g, !.font = f].mode = s.mode
       /\ [s EXCEPT !.frames = g, !.font = f].badpop = s.badpop
  BY <1>1 DEF Output
<1>. QED
  BY <1>6, <1>8, <1>9, <1>10 DEF Alike, IsOutput, C

\* Two changes that leave the elements as they are make a third.
LEMMA AlikeTrans ==
  ASSUME NEW s, NEW t, NEW u, Alike(s, t), Alike(t, u)
  PROVE  Alike(s, u)
BY DEF Alike

\* The steps of font_has_changed leave the elements as they are.
LEMMA ChangedFontAlike ==
  ASSUME NEW s, IsOutput(s)
  PROVE  Alike(s, font_has_changed1(s)) /\ Alike(s, update_old(s)) /\ Alike(s, Packed(s))
<1>1. Alike(s, flush_buffer(s))
  BY FlushAlike
<1>2. Alike(flush_buffer(s), check_font(flush_buffer(s)))
  BY <1>1, CheckFontAlike DEF Alike
<1>3. Alike(s, check_font(flush_buffer(s)))
  BY <1>1, <1>2, AlikeTrans
<1>4. Alike(s, s)
  BY DEF Alike
<1>5. Alike(s, font_has_changed1(s))
  BY <1>3, <1>4 DEF font_has_changed1
<1>. DEFINE f == [s.font EXCEPT !.old = s.font.packed]
            g == [s.font EXCEPT !.packed = s.font.attrs]
<1>6. f \in FontType /\ g \in FontType
  BY OutputFont
<1>7. update_old(s) = [s EXCEPT !.font = f] /\ Packed(s) = [s EXCEPT !.font = g]
  BY DEF update_old, Packed
<1>. HIDE DEF f, g
<1>8. Alike(s, [s EXCEPT !.font = f]) /\ Alike(s, [s EXCEPT !.font = g])
  BY <1>6, WithFont
<1>. QED
  BY <1>5, <1>7, <1>8

\* What leaves the elements as they are makes an output.
LEMMA AlikeOutput ==
  ASSUME NEW s, NEW t, Alike(s, t)
  PROVE  IsOutput(t)
BY DEF Alike

\* font_has_changed leaves the elements as they are.
LEMMA FontChangeAlike ==
  ASSUME NEW s, IsOutput(s), NEW sv, Len(sv) \in Nat
  PROVE  Alike(s, font_has_changed(s, sv))
<1>. DEFINE p == Packed(s)
            f == [p.font EXCEPT !.level = Len(sv)]
            t == [p EXCEPT !.font = f]
            u == font_has_changed1(t)
<1>1. Alike(s, p) /\ IsOutput(p)
  BY ChangedFontAlike, AlikeOutput
<1>2. f \in FontType
  BY <1>1, OutputFont
<1>3. font_has_changed(s, sv) = update_old(u)
  BY DEF font_has_changed
<1>. HIDE DEF p, f
<1>4. Alike(p, t) /\ IsOutput(t)
  BY <1>1, <1>2, WithFont, AlikeOutput
<1>. HIDE DEF t
<1>5. Alike(t, u) /\ IsOutput(u)
  BY <1>4, ChangedFontAlike, AlikeOutput
<1>. HIDE DEF u
<1>6. Alike(u, update_old(u))
  BY <1>5, ChangedFontAlike
<1>. QED
  BY <1>1, <1>3, <1>4, <1>5, <1>6, AlikeTrans

SavedType == [level : Nat, val : SUBSET Attributes]

\* Restoring a saved font leaves the elements as they are.
LEMMA RestoreAlike ==
  ASSUME NEW s, IsOutput(s), NEW e \in SavedType
  PROVE  Alike(s, RestoreFont(e, s))
<1>. DEFINE t == flush_buffer(s)
            f == [attrs |-> e.val, packed |-> e.val, old |-> t.font.packed,
                  stackval |-> t.font.stackval, level |-> e.level]
            u == [t EXCEPT !.font = f]
            v == font_has_changed1(u)
<1>1. Alike(s, t) /\ IsOutput(t)
  BY FlushAlike, AlikeOutput
<1>2. RestoreFont(e, s) = update_old(v)
  BY DEF RestoreFont
<1>. HIDE DEF t
<1>3. f \in FontType
  <2>1. t.font.packed \in SUBSET Attributes /\ t.font.stackval \in BOOLEAN
    BY <1>1, OutputFont
  <2>. QED
    BY <2>1 DEF FontType, SavedType
<1>. HIDE DEF f
<1>4. Alike(t, u) /\ IsOutput(u)
  BY <1>1, <1>3, WithFont, AlikeOutput
<1>. HIDE DEF u
<1>5. Alike(u, v) /\ IsOutput(v)
  BY <1>4, ChangedFontAlike, AlikeOutput
<1>. HIDE DEF v
<1>6. Alike(v, update_old(v))
  BY <1>5, ChangedFontAlike
<1>. QED
  BY <1>1, <1>2, <1>4, <1>5, <1>6, AlikeTrans

\* The steps of RestoreLevel.
LEMMA RestoreLevelSteps ==
  ASSUME NEW s, IsOutput(s), NEW entries \in Seq(SavedType)
  PROVE  \E R : /\ R[0] = s
                /\ \A n \in 1..Len(entries) : R[n] = RestoreFont(entries[Len(entries) + 1 - n], R[n - 1])
                /\ RestoreLevel(s, entries) = R[Len(entries)]
<1>. DEFINE N == Len(entries)
            V == { t \in Output : Alike(s, t) }
            E(r) == [n \in 0..N |-> IF n = 0 THEN s ELSE RestoreFont(entries[N + 1 - n], r[n - 1])]
            F == [n \in 1..N |-> [t \in V |-> RestoreFont(entries[N + 1 - n], t)]]
<1>1. N \in Nat /\ \A i \in 1..N : entries[i] \in SavedType
  BY LenProperties, ElementOfSeq
<1>2. RestoreLevel(s, entries) = (CHOOSE r : r = E(r))[N]
  BY DEF RestoreLevel
<1>. HIDE DEF N
<1>3. s \in V
  BY DEF Alike, IsOutput
<1>4. \A n \in 1..N, t \in V : RestoreFont(entries[N + 1 - n], t) \in V
  <2>. TAKE n \in 1..N, t \in V
  <2>1. N + 1 - n \in 1..N
    BY <1>1
  <2>2. entries[N + 1 - n] \in SavedType
    BY <1>1, <2>1
  <2>3. Alike(s, t) /\ IsOutput(t)
    BY AlikeOutput
  <2>4. Alike(t, RestoreFont(entries[N + 1 - n], t))
    BY <2>2, <2>3, RestoreAlike
  <2>5. Alike(s, RestoreFont(entries[N + 1 - n], t))
    BY <2>3, <2>4, AlikeTrans
  <2>. QED
    BY <2>5 DEF Alike, IsOutput
<1>. HIDE DEF V
<1>5. F \in [1..N -> [V -> V]]
  BY <1>4
<1>6. \A n \in 1..N, t \in V : F[n][t] = RestoreFont(entries[N + 1 - n], t)
  OBVIOUS
<1>. HIDE DEF F
<1>7. PICK r : Steps(N, V, F, s, r)
  <2>1. N \in Nat
    BY <1>1
  <2>. QED
    BY ONLY <2>1, <1>3, <1>5, RecursionExists
<1>8. r = E(r)
  <2>0. r \in [0..N -> V] /\ r[0] = s /\ \A n \in 1..N : r[n] = F[n][r[n - 1]]
    BY <1>7 DEF Steps
  <2>1. \A n \in 0..N : r[n] = IF n = 0 THEN s ELSE RestoreFont(entries[N + 1 - n], r[n - 1])
    <3>. TAKE n \in 0..N
    <3>1. CASE n = 0
      BY <2>0, <3>1
    <3>2. CASE n # 0
      <4>1. n \in 1..N /\ n - 1 \in 0..N
        BY <1>1, <3>2
      <4>2. r[n - 1] \in V
        BY <2>0, <4>1
      <4>. QED
        BY <1>6, <2>0, <3>2, <4>1, <4>2
    <3>. QED
      BY <3>1, <3>2
  <2>. QED
    BY <2>0, <2>1
<1>. DEFINE R == CHOOSE r_1 : r_1 = E(r_1)
<1>9. R = E(R)
  BY <1>8, Zenon
<1>. HIDE DEF R
<1>10. /\ R[0] = s
       /\ \A n \in 1..N : R[n] = RestoreFont(entries[N + 1 - n], R[n - 1])
  <2>1. \A n \in 0..N : R[n] = IF n = 0 THEN s ELSE RestoreFont(entries[N + 1 - n], R[n - 1])
    BY <1>9
  <2>. QED
    BY <1>1, <2>1
<1>11. RestoreLevel(s, entries) = R[N]
  BY <1>2 DEF R
<1>. QED
  BY <1>10, <1>11 DEF N

\* The fonts of a level are restored.
LEMMA RestoreLevelAlike ==
  ASSUME NEW s, IsOutput(s), NEW entries \in Seq(SavedType)
  PROVE  Alike(s, RestoreLevel(s, entries))
<1>. DEFINE N == Len(entries)
            V == { t \in Output : Alike(s, t) }
<1>1. N \in Nat /\ \A i \in 1..N : entries[i] \in SavedType
  BY LenProperties, ElementOfSeq
<1>2. PICK R : /\ R[0] = s
               /\ \A n \in 1..N : R[n] = RestoreFont(entries[N + 1 - n], R[n - 1])
               /\ RestoreLevel(s, entries) = R[N]
  BY RestoreLevelSteps
<1>3. R[0] \in V
  BY <1>2 DEF Alike, IsOutput
<1>4. \A n \in 1..N : R[n - 1] \in V => R[n] \in V
  <2>. TAKE n \in 1..N
  <2>. DEFINE t == R[n - 1]
  <2>. HAVE t \in V
  <2>1. N + 1 - n \in 1..N
    BY <1>1
  <2>2. entries[N + 1 - n] \in SavedType
    BY <1>1, <2>1
  <2>3. Alike(s, t) /\ IsOutput(t) /\ R[n] = RestoreFont(entries[N + 1 - n], t)
    BY <1>2, AlikeOutput
  <2>. HIDE DEF t
  <2>4. Alike(t, R[n])
    BY <2>2, <2>3, RestoreAlike
  <2>5. Alike(s, R[n])
    BY <2>3, <2>4, AlikeTrans
  <2>. QED
    BY <2>5 DEF Alike, IsOutput
<1>5. \A t \in V : Alike(s, t)
  OBVIOUS
<1>. HIDE DEF V, N
<1>6. R[N] \in V
  BY ONLY <1>1, <1>3, <1>4, RecursionStays
<1>. QED
  BY <1>2, <1>5, <1>6

-----------------------------------------------------------------------------
(* push and pop *)
\* The elements of the commands are the same.
SameElems(c, d) == Elems(d) = Elems(c) /\ \A i \in Elems(c) : d[i] = c[i]

\* What keeps the elements of the commands keeps their match with the commands.
LEMMA SameElemsKeep ==
  ASSUME NEW c, NEW d, SameElems(c, d)
  PROVE  /\ \A op : Matched(c, op) <=> Matched(d, op)
         /\ \A k : InnerIs(c, k) <=> InnerIs(d, k)
         /\ SameElems(c, c) /\ SameElems(d, c)
         /\ \A e : SameElems(d, e) => SameElems(c, e)
<1>1. ASSUME NEW op PROVE Matched(c, op) <=> Matched(d, op)
  BY DEF SameElems, Matched
<1>2. ASSUME NEW k PROVE InnerIs(c, k) <=> InnerIs(d, k)
  BY DEF SameElems, InnerIs
<1>3. SameElems(c, c) /\ SameElems(d, c) /\ \A e : SameElems(d, e) => SameElems(c, e)
  BY DEF SameElems
<1>. QED
  BY <1>1, <1>2, <1>3

\* The outputs between two commands, and those a command passes through.
Sound(s) == IsOutput(s) /\ Nested(C(s)) /\ ~s.badpop
Settled(s) == Sound(s) /\ ModeFits(TopName(C(s)), s.mode)

\* What leaves the elements as they are keeps the nesting and the mode.
LEMMA AlikeSound ==
  ASSUME NEW s, NEW t, Alike(s, t)
  PROVE  /\ Sound(s) => Sound(t)
         /\ Settled(s) => Settled(t)
         /\ C(t) = C(s) /\ t.mode = s.mode
BY DEF Alike, Sound, Settled

\* first_frame is the top of the core: the dummies are looked through.
LEMMA FirstFrameIsTop ==
  ASSUME NEW s, IsOutput(s)
  PROVE  first_frame(s) = TopName(C(s))
<1>1. IsStack(s.frames)
  BY DEF IsOutput
<1>2. TopNotIn(s.frames, {Blank}) = Top(Core(s.frames)) /\ TopName(Core(s.frames)) = s.frames[Top(Core(s.frames))].frame
  BY <1>1, TopIsTop
<1>3. first_frame(s) = s.frames[TopNotIn(s.frames, {Blank})].frame
  BY Zenon DEF first_frame, first_non_empty, Blank
<1>. QED
  BY <1>2, <1>3 DEF C

-----------------------------------------------------------------------------

\* push of an element that fits keeps the nesting; a command opened with it matches it.
LEMMA PushOutput ==
  ASSUME NEW s, Sound(s), NEW n \in Names, FitsOn(TopName(C(s)), n, s.mode)
  PROVE  /\ Sound(push(s, n)) /\ TopName(C(push(s, n))) = n
         /\ push(s, n).mode = s.mode /\ push(s, n).font = s.font
         /\ n \notin Kinds => SameElems(C(s), C(push(s, n)))
         /\ n \in Kinds => \A op \in Seq(OpenCommands), e \in OpenCommands :
              e.kind = n /\ Matched(C(s), op) => Matched(C(push(s, n)), Append(op, e))
<1>0. s \in Output /\ IsStack(s.frames) /\ s.mode \in Modes /\ Nested(C(s)) /\ ~s.badpop
  BY OutputFont DEF IsOutput, Sound
<1>. DEFINE f == Frame(n, s.mode, {})
            g == Append(s.frames, f)
            u == push(s, n)
            p == Len(s.frames) + 1
            d == Core(g)
<1>1. f \in FrameType /\ f.frame = n /\ f.md = s.mode /\ n # Blank
  BY <1>0, BlankIsOther DEF Frame, FrameType
<1>. HIDE DEF f
<1>2. /\ IsStack(g) /\ Pushed(C(s), d, p)
      /\ d[p] = [frame |-> f.frame, md |-> f.md]
      /\ d \in [DOMAIN d -> [frame : Names, md : Modes]]
  BY <1>0, <1>1, AppendCore DEF C
<1>3. u = [s EXCEPT !.frames = g]
  BY DEF push, f
<1>. HIDE DEF g, u, p, d
<1>4. /\ u \in Output /\ u.frames = g /\ u.mode = s.mode /\ u.font = s.font /\ u.badpop = s.badpop
  BY <1>0, <1>2, <1>3 DEF Output, IsStack
<1>5. d[p].frame = n /\ d[p].md = s.mode
  BY <1>1, <1>2
<1>6. FitsOn(TopName(C(s)), d[p].frame, d[p].md)
  BY <1>5
<1>7. Nested(d) /\ Top(d) = p
  BY <1>0, <1>2, <1>6, NestedPush
<1>8. C(u) = d
  BY <1>4 DEF C, d
<1>9. Sound(u) /\ TopName(C(u)) = n
  BY <1>0, <1>2, <1>4, <1>5, <1>7, <1>8 DEF Sound, IsOutput, TopName
<1>10. IsCore(C(s))
  BY <1>0 DEF Nested
<1>11. ASSUME n \notin Kinds PROVE SameElems(C(s), C(u))
  BY <1>2, <1>5, <1>8, <1>10, <1>11, ElemsPushed DEF SameElems
<1>12. ASSUME n \in Kinds, NEW op \in Seq(OpenCommands), NEW e \in OpenCommands, e.kind = n, Matched(C(s), op)
       PROVE  Matched(C(u), Append(op, e))
  <2>1. e.kind # "group"
    BY <1>12 DEF Kinds
  <2>2. d[p].frame \in Kinds /\ d[p].frame = e.kind
    BY <1>5, <1>12
  <2>3. Matched(d, Append(op, e)) <=> (Matched(C(s), op) /\ d[p].frame = e.kind)
    BY <1>2, <1>10, <2>1, <2>2, MatchedElement
  <2>. QED
    BY <1>8, <1>12, <2>2, <2>3
<1>. QED
  BY <1>4, <1>9, <1>11, <1>12 DEF u

\* What pop does when the dummy frames are gone.
Pop(t, name) ==
  IF Last(t.frames).frame # name THEN [t EXCEPT !.badpop = TRUE]
  ELSE [t EXCEPT !.frames = Front(@), !.mode = Last(t.frames).md]

\* pop of the element that is on top finds it, keeps the nesting, and returns to the mode the
\* element was opened in; the command closed with it leaves the others matched.
LEMMA PopOutput ==
  ASSUME NEW s, Sound(s), NEW n, n = TopName(C(s)), n # "document"
  PROVE  /\ Sound(pop(s, n)) /\ FitsOn(TopName(C(pop(s, n))), n, pop(s, n).mode)
         /\ n \notin Kinds => SameElems(C(s), C(pop(s, n)))
         /\ n \in Kinds => \A op \in Seq(OpenCommands) :
              op # <<>> /\ Last(op).kind # "group" /\ Matched(C(s), op) => Matched(C(pop(s, n)), Front(op))
<1>0. s \in Output /\ IsStack(s.frames) /\ s.mode \in Modes /\ Nested(C(s)) /\ ~s.badpop
  BY OutputFont DEF IsOutput, Sound
<1>. DEFINE c == C(s)
            g == Trimmed(s.frames)
            h == Front(g)
            f == [s.font EXCEPT !.stackval = @ /\ Last(s.frames).frame # Blank]
            t == [s EXCEPT !.frames = g, !.font = f]
            m == c[Top(c)].md
            u == [s EXCEPT !.frames = h, !.font = f, !.mode = m]
<1>1. /\ IsStack(g) /\ Core(g) = c /\ Len(g) = Top(c)
      /\ Last(g).frame = TopName(c) /\ Last(g).md = m
  BY <1>0, TrimmedCore DEF C
<1>2. /\ Top(c) # 1 /\ Nested(Rest(c)) /\ Pushed(Rest(c), c, Top(c))
      /\ FitsOn(TopName(Rest(c)), TopName(c), m)
  BY <1>0, NestedRest
<1>3. IsStack(h) /\ Core(h) = Rest(c)
  BY <1>1, <1>2, FrontCore
<1>4. f \in FontType
  <2>1. (s.font.stackval /\ Last(s.frames).frame # Blank) \in BOOLEAN
    OBVIOUS
  <2>. QED
    BY <1>0 DEF Output, FontType
<1>5. pop(s, n) = u
  <2>1. NoDummies(s) = [s EXCEPT !.frames = g]
    BY Zenon DEF NoDummies, Trimmed, Blank
  <2>2. [NoDummies(s) EXCEPT !.font.stackval = @ /\ Last(s.frames).frame # Blank] = t
    BY <1>0, <2>1 DEF Output
  <2>3. t.frames = g
    BY <1>0 DEF Output
  <2>4. pop(s, n) = IF Last(t.frames).frame # n THEN [t EXCEPT !.badpop = TRUE]
                    ELSE [t EXCEPT !.frames = Front(@), !.mode = Last(t.frames).md]
    <3>1. pop(s, n) = Pop([NoDummies(s) EXCEPT !.font.stackval = @ /\ Last(s.frames).frame # " "], n)
      BY Zenon DEF pop, Pop
    <3>2. pop(s, n) = Pop([NoDummies(s) EXCEPT !.font.stackval = @ /\ Last(s.frames).frame # Blank], n)
      BY <3>1, Zenon DEF Blank
    <3>. HIDE DEF t
    <3>. QED
      BY <2>2, <3>2 DEF Pop
  <2>5. pop(s, n) = [t EXCEPT !.frames = Front(@), !.mode = Last(t.frames).md]
    BY <1>1, <2>3, <2>4
  <2>. QED
    BY <1>0, <1>1, <2>3, <2>5 DEF Output
<1>6. m \in Modes
  BY <1>0, CorePositions, TopIsGreatest DEF Nested
<1>. HIDE DEF c, g, h, f, m
<1>7. u \in Output /\ u.frames = h /\ u.mode = m /\ u.badpop = s.badpop
  BY <1>0, <1>3, <1>4, <1>6 DEF Output, IsStack
<1>. HIDE DEF u
<1>8. C(u) = Rest(c)
  BY <1>3, <1>7 DEF C
<1>9. Sound(u)
  BY <1>0, <1>2, <1>3, <1>7, <1>8 DEF Sound, IsOutput
<1>10. FitsOn(TopName(C(u)), n, u.mode)
  BY <1>2, <1>7, <1>8 DEF c
<1>11. IsCore(Rest(c)) /\ c[Top(c)].frame = n
  BY <1>2 DEF Nested, TopName, c
<1>12. ASSUME n \notin Kinds PROVE SameElems(c, Rest(c))
  BY <1>2, <1>11, <1>12, ElemsPushed DEF SameElems
<1>13. ASSUME n \in Kinds, NEW op \in Seq(OpenCommands), op # <<>>, Last(op).kind # "group", Matched(c, op)
       PROVE  Matched(Rest(c), Front(op))
  <2>1. Front(op) \in Seq(OpenCommands) /\ Last(op) \in OpenCommands
    BY <1>13, PoppedAt
  <2>2. Append(Front(op), Last(op)) = op
    BY <1>13, PushPop
  <2>3. Matched(c, Append(Front(op), Last(op))) <=> (Matched(Rest(c), Front(op)) /\ c[Top(c)].frame = Last(op).kind)
    BY <1>2, <1>11, <1>13, <2>1, MatchedElement
  <2>. QED
    BY <1>13, <2>2, <2>3
<1>. QED
  BY <1>5, <1>8, <1>9, <1>10, <1>12, <1>13 DEF c, u

-----------------------------------------------------------------------------
(* The helpers of the commands: paragraphs, items and divisions *)
\* The top of an output has a name, and the output a mode.
LEMMA TopIsName ==
  ASSUME NEW s, Sound(s)
  PROVE  TopName(C(s)) \in Names /\ IsOutput(s) /\ IsCore(C(s)) /\ Nested(C(s)) /\ s.mode \in Modes
<1>1. IsOutput(s) /\ IsCore(C(s)) /\ Nested(C(s))
  BY DEF Sound, Nested
<1>2. TopName(C(s)) \in Names
  BY <1>1, TopIsGreatest, CorePositions DEF TopName
<1>. QED
  BY <1>1, <1>2, OutputFont

\* The mode tells what the top may be, and the other way round.
LEMMA ModeTells ==
  ASSUME NEW n \in Names, NEW m \in Modes
  PROVE  /\ ModeFits(n, m) /\ m = "v" => n \in VTops
         /\ n \in VTops /\ m = "v" => ModeFits(n, m)
         /\ ModeFits("p", m) <=> m = "h"
         /\ ModeFits(n, m) /\ n \in {"document", "item", "footnote"} \cup Divs => m = "v"
         /\ ModeFits(n, m) /\ n \in {"hbox", "labelitem", "head"} => m = "arg"
         /\ ModeFits("list", m) <=> m # "h"
         /\ "arg" \in Modes /\ "v" \in Modes /\ "h" \in Modes
         /\ ModeFits("hbox", "arg") /\ ModeFits("labelitem", "arg") /\ ModeFits("head", "arg")
         /\ ModeFits("item", "v") /\ ModeFits("footnote", "v")
         /\ m # "v" => ModeFits("fonts", m) /\ ModeFits("mbox", m)
<1>1. "p" \notin Divs /\ "list" \notin Divs /\ "hbox" \notin Divs /\ "labelitem" \notin Divs /\ "head" \notin Divs
      /\ "fonts" \notin Divs /\ "mbox" \notin Divs /\ "item" \notin Divs /\ "footnote" \notin Divs
  BY DivIsOther DEF Kinds
<1>2. n \in VTops => n \notin {"p", "fonts", "mbox", "hbox", "head", "labelitem"}
  BY <1>1 DEF VTops
<1>3. n \in Kinds \cup {"document", "p", "item"} \cup Divs
  BY DEF Names
<1>. QED
  BY <1>1, <1>2, <1>3 DEF ModeFits, VTops, Kinds, Modes

\* push_par in vertical mode opens a paragraph and enters horizontal mode.
LEMMA PushParSettled ==
  ASSUME NEW s, Sound(s), s.mode = "v", TopName(C(s)) \in VTops
  PROVE  /\ Settled(push_par(s)) /\ TopName(C(push_par(s))) = "p" /\ push_par(s).mode = "h"
         /\ SameElems(C(s), C(push_par(s)))
<1>. DEFINE t == push(s, "p")
            u == [t EXCEPT !.mode = "h"]
<1>0. "p" \in Names /\ "p" \notin Kinds /\ "p" \notin Divs /\ "h" \in Modes
  BY DivIsOther DEF Names, Kinds, Modes
<1>1. FitsOn(TopName(C(s)), "p", s.mode)
  BY <1>0 DEF FitsOn
<1>2. Sound(t) /\ TopName(C(t)) = "p" /\ SameElems(C(s), C(t))
  BY <1>0, <1>1, PushOutput
<1>3. push_par(s) = check_font(u)
  BY DEF push_par
<1>. HIDE DEF t
<1>4. IsOutput(u) /\ u.mode = "h" /\ C(u) = C(t) /\ u.badpop = t.badpop
  BY <1>0, <1>2, WithMode DEF Sound
<1>. HIDE DEF u
<1>5. ModeFits("p", "h")
  BY <1>0, ModeTells
<1>6. Settled(u)
  BY <1>2, <1>4, <1>5 DEF Settled, Sound
<1>7. Alike(u, check_font(u))
  BY <1>4, CheckFontAlike
<1>. QED
  BY <1>2, <1>3, <1>4, <1>6, <1>7, AlikeSound

\* flush_buffer keeps an output settled.
LEMMA FlushSettled ==
  ASSUME NEW s, Sound(s)
  PROVE  /\ Sound(flush_buffer(s)) /\ C(flush_buffer(s)) = C(s) /\ flush_buffer(s).mode = s.mode
         /\ Settled(s) => Settled(flush_buffer(s))
         /\ flush_buffer(s).font = s.font
BY FlushAlike, AlikeSound DEF Sound

\* leave_v_mode leaves vertical mode, with a paragraph when it was in it.
LEMMA LeaveVSettled ==
  ASSUME NEW s, Settled(s)
  PROVE  /\ Settled(leave_v_mode(s)) /\ leave_v_mode(s).mode # "v"
         /\ SameElems(C(s), C(leave_v_mode(s)))
<1>. DEFINE t == flush_buffer(s)
<1>1. Settled(t) /\ Sound(t) /\ C(t) = C(s) /\ t.mode = s.mode
  BY FlushSettled DEF Settled
<1>2. leave_v_mode(s) = IF t.mode = "v" THEN push_par(t) ELSE t
  BY DEF leave_v_mode
<1>. HIDE DEF t
<1>3. SameElems(C(s), C(s))
  BY DEF SameElems
<1>4. ASSUME t.mode = "v"
      PROVE  Settled(push_par(t)) /\ push_par(t).mode = "h" /\ SameElems(C(t), C(push_par(t)))
  <2>1. TopName(C(t)) \in VTops
    BY <1>1, <1>4, TopIsName, ModeTells DEF Settled
  <2>. QED
    BY <1>1, <1>4, <2>1, PushParSettled
<1>5. "h" # "v"
  OBVIOUS
<1>. QED
  BY <1>1, <1>2, <1>3, <1>4, <1>5

\* leave_h_mode pops the paragraph, and nothing else, when the output is in one.
LEMMA LeaveHSettled ==
  ASSUME NEW s, Settled(s), s.mode = "h" => TopName(C(s)) = "p"
  PROVE  /\ Settled(leave_h_mode(s)) /\ leave_h_mode(s).mode # "h" /\ TopName(C(leave_h_mode(s))) # "p"
         /\ SameElems(C(s), C(leave_h_mode(s)))
         /\ s.mode = "h" => leave_h_mode(s).mode = "v"
         /\ s.mode # "h" => leave_h_mode(s) = s
<1>. DEFINE t == flush_buffer(s)
            u == pop(t, "p")
<1>0. Settled(t) /\ Sound(t) /\ C(t) = C(s) /\ t.mode = s.mode /\ Sound(s)
  BY FlushSettled DEF Settled
<1>1. leave_h_mode(s) = IF s.mode = "h" THEN u ELSE s
  BY DEF leave_h_mode
<1>. HIDE DEF t
<1>2. ASSUME s.mode = "h"
      PROVE  Settled(u) /\ u.mode = "v" /\ SameElems(C(s), C(u))
  <2>1. TopName(C(t)) = "p" /\ "p" # "document" /\ "p" \notin Kinds
    BY <1>0, <1>2 DEF Kinds
  <2>2. Sound(u) /\ FitsOn(TopName(C(u)), "p", u.mode) /\ SameElems(C(t), C(u))
    BY <1>0, <2>1, PopOutput
  <2>. HIDE DEF u
  <2>3. TopName(C(u)) \in VTops /\ u.mode = "v"
    BY <2>2 DEF FitsOn
  <2>4. TopName(C(u)) \in Names /\ u.mode \in Modes
    BY <2>2, TopIsName
  <2>5. ModeFits(TopName(C(u)), u.mode)
    BY <2>3, <2>4, ModeTells
  <2>. QED
    BY <1>0, <2>2, <2>3, <2>5 DEF Settled
<1>. HIDE DEF u
<1>3. SameElems(C(s), C(s)) /\ "v" # "h"
  BY DEF SameElems
<1>4. /\ Settled(leave_h_mode(s)) /\ leave_h_mode(s).mode # "h"
      /\ SameElems(C(s), C(leave_h_mode(s)))
      /\ s.mode = "h" => leave_h_mode(s).mode = "v"
      /\ s.mode # "h" => leave_h_mode(s) = s
  BY <1>1, <1>2, <1>3
<1>. DEFINE v == leave_h_mode(s)
<1>. HIDE DEF v
<1>5. TopName(C(v)) # "p"
  <2>1. ModeFits(TopName(C(v)), v.mode) /\ v.mode # "h" /\ v.mode \in Modes /\ "p" \in Names
    BY <1>4, TopIsName DEF Settled, v, Names
  <2>. QED
    BY <2>1, ModeTells
<1>. QED
  BY <1>4, <1>5 DEF v

\* What is left of an item is popped.
LEMMA PopItemSettled ==
  ASSUME NEW s, Settled(s), TopName(C(s)) \in {"list", "item"}
  PROVE  /\ Settled(pop_if_frame(s, "item")) /\ TopName(C(pop_if_frame(s, "item"))) = "list"
         /\ SameElems(C(s), C(pop_if_frame(s, "item")))
<1>. DEFINE u == pop(s, "item")
<1>0. Sound(s) /\ IsOutput(s)
  BY DEF Settled, Sound
<1>1. pop_if_frame(s, "item") = IF TopName(C(s)) = "item" THEN u ELSE s
  BY <1>0, FirstFrameIsTop DEF pop_if_frame
<1>2. ASSUME TopName(C(s)) = "item" PROVE Settled(u) /\ TopName(C(u)) = "list" /\ SameElems(C(s), C(u))
  <2>1. "item" # "document" /\ "item" \notin Kinds /\ "list" \in Names
    BY DEF Kinds, Names
  <2>2. Sound(u) /\ FitsOn(TopName(C(u)), "item", u.mode) /\ SameElems(C(s), C(u))
    BY <1>0, <1>2, <2>1, PopOutput
  <2>. HIDE DEF u
  <2>3. TopName(C(u)) = "list" /\ u.mode # "h" /\ u.mode \in Modes
    BY <2>2, TopIsName DEF FitsOn
  <2>4. ModeFits("list", u.mode)
    BY <2>1, <2>3, ModeTells
  <2>. QED
    BY <2>2, <2>3, <2>4 DEF Settled
<1>. HIDE DEF u
<1>3. SameElems(C(s), C(s))
  BY DEF SameElems
<1>. QED
  BY <1>1, <1>2, <1>3

\* In a list, paragraph and item end.
LEMMA LeaveItemSettled ==
  ASSUME NEW s, Settled(s), InnerIs(C(s), "list")
  PROVE  /\ Settled(LeaveItem(s)) /\ TopName(C(LeaveItem(s))) = "list"
         /\ SameElems(C(s), C(LeaveItem(s)))
<1>. DEFINE t == leave_h_mode(s)
<1>0. Sound(s) /\ Nested(C(s)) /\ s.mode \in Modes
  BY TopIsName DEF Settled
<1>1. TopName(C(s)) \in {"list", "item", "p"}
  BY <1>0, AboveInner
<1>2. s.mode = "h" => TopName(C(s)) = "p"
  <2>1. ModeFits(TopName(C(s)), s.mode)
    BY DEF Settled
  <2>2. "item" \in Names /\ "list" \in Names
    BY DEF Names, Kinds
  <2>. QED
    BY <1>0, <1>1, <2>1, <2>2, ModeTells
<1>3. Settled(t) /\ TopName(C(t)) # "p" /\ SameElems(C(s), C(t))
  BY <1>2, LeaveHSettled
<1>4. LeaveItem(s) = pop_if_frame(t, "item")
  BY DEF LeaveItem
<1>. HIDE DEF t
<1>5. InnerIs(C(t), "list") /\ Nested(C(t))
  BY <1>3, SameElemsKeep, TopIsName DEF Settled
<1>6. TopName(C(t)) \in {"list", "item"}
  BY <1>3, <1>5, AboveInner
<1>7. /\ Settled(pop_if_frame(t, "item")) /\ TopName(C(pop_if_frame(t, "item"))) = "list"
      /\ SameElems(C(t), C(pop_if_frame(t, "item")))
  BY <1>3, <1>6, PopItemSettled
<1>. QED
  BY <1>3, <1>4, <1>7, SameElemsKeep

\* An item starts in a list, in vertical mode.
LEMMA StartItemSettled ==
  ASSUME NEW s, Sound(s), TopName(C(s)) = "list", s.mode # "h"
  PROVE  Settled(StartItem(s)) /\ SameElems(C(s), C(StartItem(s)))
<1>. DEFINE t == push(s, "item")
            u == [t EXCEPT !.mode = "v"]
<1>0. "item" \in Names /\ "item" \notin Kinds /\ "item" \notin Divs /\ "v" \in Modes /\ "item" \in VTops
  BY DivIsOther DEF Names, Kinds, Modes, VTops
<1>1. FitsOn(TopName(C(s)), "item", s.mode)
  BY <1>0 DEF FitsOn
<1>2. Sound(t) /\ TopName(C(t)) = "item" /\ SameElems(C(s), C(t))
  BY <1>0, <1>1, PushOutput
<1>3. StartItem(s) = finish_par_cmd(u)
  BY DEF StartItem
<1>. HIDE DEF t
<1>4. IsOutput(u) /\ u.mode = "v" /\ C(u) = C(t) /\ u.badpop = t.badpop
  BY <1>0, <1>2, WithMode DEF Sound
<1>. HIDE DEF u
<1>5. Sound(u) /\ TopName(C(u)) \in VTops
  BY <1>0, <1>2, <1>4 DEF Sound
<1>6. "v" # "h"
  OBVIOUS
<1>7. finish_par_cmd(u) = push_par(u)
  BY <1>4, <1>6 DEF finish_par_cmd, leave_h_mode
<1>8. Settled(push_par(u)) /\ SameElems(C(u), C(push_par(u)))
  BY <1>4, <1>5, PushParSettled
<1>. QED
  BY <1>2, <1>3, <1>4, <1>7, <1>8, SameElemsKeep

-----------------------------------------------------------------------------
\* The steps of para_aux.
LEMMA ParaAuxSteps ==
  ASSUME NEW s, Sound(s), NEW y \in 0..MaxDiv
  PROVE  /\ MaxDiv + 1 - y \in Nat /\ \A n \in 1 .. MaxDiv + 1 - y : Div(MaxDiv + 1 - n) \in Divs
         /\ \E R : /\ R[0] = s
                   /\ \A n \in 1 .. MaxDiv + 1 - y : R[n] = pop_if_frame(R[n - 1], Div(MaxDiv + 1 - n))
                   /\ para_aux(s, y) = R[MaxDiv + 1 - y]
<1>. DEFINE N == MaxDiv + 1 - y
            V == { t \in Output : Sound(t) }
            E(r) == [n \in 0..N |-> IF n = 0 THEN s ELSE pop_if_frame(r[n - 1], Div(MaxDiv + 1 - n))]
            F == [n \in 1..N |-> [t \in V |-> pop_if_frame(t, Div(MaxDiv + 1 - n))]]
<1>1. N \in Nat /\ \A n \in 1..N : MaxDiv + 1 - n \in 0..MaxDiv
  BY BoundsAssumption
<1>2. para_aux(s, y) = (CHOOSE r : r = E(r))[N]
  BY DEF para_aux
<1>. HIDE DEF N
<1>3. s \in V
  BY DEF Sound, IsOutput
<1>4. \A t \in V, d \in Divs : pop_if_frame(t, d) \in V
  <2>. TAKE t \in V, d \in Divs
  <2>0. Sound(t) /\ IsOutput(t)
    BY DEF Sound
  <2>1. pop_if_frame(t, d) = IF TopName(C(t)) = d THEN pop(t, d) ELSE t
    BY <2>0, FirstFrameIsTop DEF pop_if_frame
  <2>2. ASSUME TopName(C(t)) = d PROVE pop(t, d) \in V
    <3>1. d # "document"
      BY DivIsOther
    <3>2. Sound(pop(t, d)) /\ pop(t, d) \in Output
      BY <2>0, <2>2, <3>1, PopOutput DEF Sound, IsOutput
    <3>. QED
      BY <3>2
  <2>. QED
    BY <2>1, <2>2
<1>6. \A n \in 1..N : Div(MaxDiv + 1 - n) \in Divs
  BY <1>1 DEF Divs
<1>5. \A n \in 1..N, t \in V : pop_if_frame(t, Div(MaxDiv + 1 - n)) \in V
  BY <1>4, <1>6
<1>. HIDE DEF V
<1>7. F \in [1..N -> [V -> V]]
  BY <1>5
<1>8. \A n \in 1..N, t \in V : F[n][t] = pop_if_frame(t, Div(MaxDiv + 1 - n))
  OBVIOUS
<1>. HIDE DEF F
<1>9. PICK r : Steps(N, V, F, s, r)
  <2>1. N \in Nat
    BY <1>1
  <2>. QED
    BY ONLY <2>1, <1>3, <1>7, RecursionExists
<1>10. r = E(r)
  <2>0. r \in [0..N -> V] /\ r[0] = s /\ \A n \in 1..N : r[n] = F[n][r[n - 1]]
    BY <1>9 DEF Steps
  <2>1. \A n \in 0..N : r[n] = IF n = 0 THEN s ELSE pop_if_frame(r[n - 1], Div(MaxDiv + 1 - n))
    <3>. TAKE n \in 0..N
    <3>1. CASE n = 0
      BY <2>0, <3>1
    <3>2. CASE n # 0
      <4>1. n \in 1..N /\ n - 1 \in 0..N
        BY <1>1, <3>2
      <4>2. r[n - 1] \in V
        BY <2>0, <4>1
      <4>. QED
        BY <1>8, <2>0, <3>2, <4>1, <4>2
    <3>. QED
      BY <3>1, <3>2
  <2>. QED
    BY <2>0, <2>1
<1>. DEFINE R == CHOOSE q : q = E(q)
<1>11. R = E(R)
  BY <1>10, Zenon
<1>. HIDE DEF R
<1>12. /\ R[0] = s
       /\ \A n \in 1..N : R[n] = pop_if_frame(R[n - 1], Div(MaxDiv + 1 - n))
  <2>1. \A n \in 0..N : R[n] = IF n = 0 THEN s ELSE pop_if_frame(R[n - 1], Div(MaxDiv + 1 - n))
    BY <1>11
  <2>. QED
    BY <1>1, <2>1
<1>13. para_aux(s, y) = R[N]
  BY <1>2 DEF R
<1>. QED
  BY <1>1, <1>6, <1>12, <1>13 DEF N

\* Divisions are popped.
LEMMA ParaAuxSettled ==
  ASSUME NEW s, Settled(s), s.mode = "v", InnerIs(C(s), "none"), NEW y \in 0..MaxDiv
  PROVE  /\ Settled(para_aux(s, y)) /\ para_aux(s, y).mode = "v"
         /\ TopName(C(para_aux(s, y))) \in {"document"} \cup Divs
         /\ SameElems(C(s), C(para_aux(s, y)))
<1>. DEFINE N == MaxDiv + 1 - y
            V == { t \in Output : Settled(t) /\ t.mode = "v" /\ SameElems(C(s), C(t)) }
<1>1. N \in Nat /\ \A n \in 1..N : Div(MaxDiv + 1 - n) \in Divs
  BY ParaAuxSteps DEF Settled
<1>2. PICK R : /\ R[0] = s
               /\ \A n \in 1..N : R[n] = pop_if_frame(R[n - 1], Div(MaxDiv + 1 - n))
               /\ para_aux(s, y) = R[N]
  BY ParaAuxSteps DEF Settled
<1>3. s \in V
  BY DEF SameElems, Settled, Sound, IsOutput
<1>4. \A t \in V, d \in Divs : pop_if_frame(t, d) \in V
  <2>. TAKE t \in V, d \in Divs
  <2>. DEFINE u == pop(t, d)
  <2>0. Settled(t) /\ Sound(t) /\ IsOutput(t) /\ t.mode = "v" /\ SameElems(C(s), C(t))
    BY DEF Settled, Sound
  <2>1. pop_if_frame(t, d) = IF TopName(C(t)) = d THEN u ELSE t
    BY <2>0, FirstFrameIsTop DEF pop_if_frame
  <2>2. ASSUME TopName(C(t)) = d PROVE u \in V
    <3>1. d # "document" /\ d \notin Kinds
      BY DivIsOther
    <3>2. Sound(u) /\ FitsOn(TopName(C(u)), d, u.mode) /\ SameElems(C(t), C(u))
      BY <2>0, <2>2, <3>1, PopOutput
    <3>. HIDE DEF u
    <3>3. TopName(C(u)) \in {"document"} \cup Divs /\ u.mode = "v" /\ TopName(C(u)) \in Names
      BY <3>2, TopIsName DEF FitsOn
    <3>4. TopName(C(u)) \in VTops /\ "v" \in Modes
      BY <3>3 DEF VTops, Modes
    <3>5. ModeFits(TopName(C(u)), u.mode)
      BY <3>3, <3>4, ModeTells
    <3>6. SameElems(C(s), C(u))
      BY <2>0, <3>2, SameElemsKeep
    <3>. QED
      BY <3>2, <3>3, <3>5, <3>6 DEF Settled, Sound, IsOutput
  <2>. QED
    BY <2>1, <2>2
<1>5. \A n \in 1..N : R[n - 1] \in V => R[n] \in V
  BY <1>1, <1>2, <1>4
<1>6. \A t \in V : Settled(t) /\ t.mode = "v" /\ SameElems(C(s), C(t))
  OBVIOUS
<1>. HIDE DEF V, N
<1>7. R[N] \in V
  <2>1. R[0] \in V
    BY <1>2, <1>3
  <2>. QED
    BY ONLY <1>1, <2>1, <1>5, RecursionStays
<1>. DEFINE u == para_aux(s, y)
<1>8. Settled(u) /\ u.mode = "v" /\ SameElems(C(s), C(u))
  BY <1>2, <1>6, <1>7
<1>. HIDE DEF u
<1>9. TopName(C(u)) \in {"document"} \cup Divs
  <2>1. InnerIs(C(u), "none") /\ Nested(C(u))
    BY <1>8, SameElemsKeep, TopIsName DEF Settled
  <2>2. TopName(C(u)) \in {"document", "p"} \cup Divs
    BY <2>1, AboveInner
  <2>3. TopName(C(u)) # "p"
    <3>1. ModeFits(TopName(C(u)), "v") /\ "p" \in Names /\ "v" \in Modes /\ "v" # "h"
      BY <1>8 DEF Settled, Names, Modes
    <3>. QED
      BY <3>1, ModeTells
  <2>. QED
    BY <2>2, <2>3
<1>. QED
  BY <1>8, <1>9 DEF u

-----------------------------------------------------------------------------
(* The levels of groups, and the invariant between two commands *)
Leveled == { e \in OpenCommands : e.kind # "fonts" }
Levels(op, sv) == sv \in Seq(Seq(SavedType)) /\ Len(sv) = Cardinality(At(op, Leveled)) + 1

\* There is a list of saved fonts for every open group, and one for the document.
LEMMA SavesOfLevels ==
  ASSUME NEW op \in Seq(OpenCommands), NEW sv, Levels(op, sv)
  PROVE  /\ sv \in Seq(Seq(SavedType)) /\ sv # <<>> /\ Len(sv) \in Nat \ {0}
         /\ Last(sv) \in Seq(SavedType)
         /\ \A i \in 1..Len(sv) : sv[i] \in Seq(SavedType)
<1>1. Cardinality(At(op, Leveled)) \in Nat
  BY RankType
<1>2. sv \in Seq(Seq(SavedType)) /\ Len(sv) \in Nat \ {0}
  BY <1>1 DEF Levels
<1>3. sv # <<>>
  BY <1>2
<1>. QED
  BY <1>2, <1>3, PoppedAt, ElementOfSeq

\* A group that opens gets a list of saved fonts.
LEMMA PushLevels ==
  ASSUME NEW op \in Seq(OpenCommands), NEW sv, Levels(op, sv), NEW e \in OpenCommands
  PROVE  /\ e.kind # "fonts" => Levels(Append(op, e), Append(sv, <<>>))
         /\ e.kind = "fonts" => Levels(Append(op, e), sv)
<1>1. sv \in Seq(Seq(SavedType)) /\ Len(sv) = Cardinality(At(op, Leveled)) + 1
  BY DEF Levels
<1>2. <<>> \in Seq(SavedType)
  OBVIOUS
<1>3. Append(sv, <<>>) \in Seq(Seq(SavedType)) /\ Len(Append(sv, <<>>)) = Len(sv) + 1
  BY <1>1, <1>2, PushedAt
<1>4. Cardinality(At(Append(op, e), Leveled)) = Cardinality(At(op, Leveled)) + (IF e \in Leveled THEN 1 ELSE 0)
  BY RankAppend
<1>5. e \in Leveled <=> e.kind # "fonts"
  BY DEF Leveled
<1>6. Cardinality(At(op, Leveled)) \in Nat
  BY RankType
<1>. QED
  BY <1>1, <1>3, <1>4, <1>5, <1>6 DEF Levels

\* A group that closes takes its list of saved fonts with it.
LEMMA PopLevels ==
  ASSUME NEW op \in Seq(OpenCommands), NEW sv, Levels(op, sv), op # <<>>
  PROVE  /\ Last(op).kind # "fonts" => Levels(Front(op), Front(sv))
         /\ Last(op).kind = "fonts" => Levels(Front(op), sv)
<1>1. sv \in Seq(Seq(SavedType)) /\ Len(sv) = Cardinality(At(op, Leveled)) + 1 /\ sv # <<>>
  BY SavesOfLevels DEF Levels
<1>2. Front(sv) \in Seq(Seq(SavedType)) /\ Len(Front(sv)) = Len(sv) - 1
  BY <1>1, PoppedAt
<1>3. Cardinality(At(Front(op), Leveled)) = Cardinality(At(op, Leveled)) - (IF Last(op) \in Leveled THEN 1 ELSE 0)
  BY RankFront
<1>4. Last(op) \in Leveled <=> Last(op).kind # "fonts"
  BY PoppedAt DEF Leveled
<1>5. Cardinality(At(op, Leveled)) \in Nat
  BY RankType
<1>. QED
  BY <1>1, <1>2, <1>3, <1>4, <1>5 DEF Levels

\* Saving a font adds no level.
LEMMA SaveFontLevels ==
  ASSUME NEW op \in Seq(OpenCommands), NEW sv, Levels(op, sv), NEW s, IsOutput(s)
  PROVE  Levels(op, save_font(s, sv))
<1>. DEFINE e == [level |-> s.font.level, val |-> s.font.old]
            n == Len(sv)
            w == [sv EXCEPT ![n] = Append(@, e)]
<1>1. /\ sv \in Seq(Seq(SavedType)) /\ n \in Nat \ {0}
      /\ sv[n] \in Seq(SavedType)
  BY SavesOfLevels
<1>2. e \in SavedType
  BY OutputFont DEF SavedType
<1>. HIDE DEF e
<1>3. Append(sv[n], e) \in Seq(SavedType)
  BY <1>1, <1>2, PushedAt
<1>4. w \in Seq(Seq(SavedType)) /\ Len(w) = n
  BY <1>1, <1>3, ExceptSeq
<1>5. save_font(s, sv) = IF s.font.level = n THEN sv ELSE w
  BY DEF save_font, e
<1>. HIDE DEF w
<1>. QED
  BY <1>4, <1>5 DEF Levels

-----------------------------------------------------------------------------
StepInv(s, op, sv) ==
  op \in Seq(OpenCommands) /\ Settled(s) /\ Matched(C(s), op) /\ Levels(op, sv)

\* The innermost element is that of a command, or there is none.
LEMMA InnerType ==
  ASSUME NEW c, NEW k, InnerIs(c, k)
  PROVE  k \in Kinds \cup {"none"}
BY DEF InnerIs, Elems

\* The last command is the innermost.
LEMMA LastIsInner ==
  ASSUME NEW c, IsCore(c), NEW op \in Seq(OpenCommands), Matched(c, op),
         op # <<>>, Last(op).kind # "group"
  PROVE  InnerIs(c, Last(op).kind)
<1>. DEFINE n == Len(op)
            S == Cmds(op)
            m == CHOOSE i \in S : \A j \in S : j <= i
<1>1. n \in Nat \ {0} /\ DOMAIN op = 1..n /\ Last(op) = op[n]
  BY PoppedAt
<1>. HIDE DEF n
<1>2. n \in S /\ \A j \in S : j <= n /\ j \in Nat
  BY <1>1 DEF Cmds
<1>3. InnerCommand(op) = op[m].kind
  BY <1>2 DEF InnerCommand
<1>. HIDE DEF S
<1>4. m \in S /\ \A j \in S : j <= m
  BY <1>2
<1>. HIDE DEF m
<1>5. m = n
  BY <1>1, <1>2, <1>4
<1>6. InnerIs(c, InnerCommand(op))
  BY InnerMatched
<1>. QED
  BY <1>1, <1>3, <1>5, <1>6

\* What holds between two commands.
LEMMA InnerOfStep ==
  ASSUME NEW s, NEW op, NEW sv, StepInv(s, op, sv)
  PROVE  /\ op \in Seq(OpenCommands) /\ Settled(s) /\ Sound(s) /\ IsOutput(s) /\ Nested(C(s)) /\ IsCore(C(s))
         /\ TopName(C(s)) \in Names /\ s.mode \in Modes
         /\ Matched(C(s), op) /\ Levels(op, sv)
         /\ InnerIs(C(s), InnerCommand(op))
         /\ op # <<>> /\ Last(op).kind # "group" => InnerIs(C(s), Last(op).kind)
<1>1. op \in Seq(OpenCommands) /\ Settled(s) /\ Sound(s) /\ Matched(C(s), op) /\ Levels(op, sv)
  BY DEF StepInv, Settled
<1>2. IsOutput(s) /\ Nested(C(s)) /\ IsCore(C(s)) /\ TopName(C(s)) \in Names /\ s.mode \in Modes
  BY <1>1, TopIsName
<1>. QED
  BY <1>1, <1>2, InnerMatched, LastIsInner

\* Outside of fonts and mbox, text that is not in a paragraph is not in mode h.
LEMMA NotInLine ==
  ASSUME NEW s, NEW op, NEW sv, StepInv(s, op, sv), InnerCommand(op) \notin {"fonts", "mbox"}
  PROVE  s.mode = "h" => TopName(C(s)) = "p"
<1>. DEFINE k == InnerCommand(op)
            n == TopName(C(s))
<1>1. InnerIs(C(s), k) /\ Nested(C(s)) /\ n \in Names /\ s.mode \in Modes /\ ModeFits(n, s.mode)
  BY InnerOfStep DEF Settled
<1>2. k \in Kinds \cup {"none"}
  BY <1>1, InnerType
<1>. HIDE DEF k
<1>3. /\ k \in {"fonts", "mbox", "hbox", "head", "labelitem"} => n = k
      /\ k = "footnote" => n \in {"footnote", "p"}
      /\ k = "list" => n \in {"list", "item", "p"}
      /\ k = "none" => n \in {"document", "p"} \cup Divs
  BY <1>1, AboveInner
<1>. HIDE DEF n
<1>4. k \notin {"fonts", "mbox"}
  BY DEF k
<1>5. n \in {"hbox", "head", "labelitem", "footnote", "p", "list", "item", "document"} \cup Divs
  BY <1>2, <1>3, <1>4 DEF Kinds
<1>6. n = "p" \/ s.mode # "h"
  <2>1. CASE n \in {"hbox", "head", "labelitem"}
    BY <1>1, <2>1, ModeTells
  <2>2. CASE n \in {"footnote", "item", "document"} \cup Divs
    BY <1>1, <2>2, ModeTells
  <2>3. CASE n = "list"
    BY <1>1, <2>3, ModeTells
  <2>. QED
    BY <1>5, <2>1, <2>2, <2>3
<1>. QED
  BY <1>6 DEF n

\* A change of the fonts only.
LEMMA AlikeStep ==
  ASSUME NEW s, NEW op, NEW sv, StepInv(s, op, sv), NEW t, Alike(s, t), NEW sw, Levels(op, sw)
  PROVE  StepInv(t, op, sw)
BY AlikeSound DEF StepInv

\* What keeps the elements of the commands keeps the invariant.
LEMMA SameElemsStep ==
  ASSUME NEW s, NEW op, NEW sv, StepInv(s, op, sv), NEW t, Settled(t), SameElems(C(s), C(t))
  PROVE  StepInv(t, op, sv)
BY SameElemsKeep DEF StepInv

\* The records of open commands.
LEMMA OpenTypes ==
  /\ \A k \in (Kinds \ {"footnote"}) \cup {"group"} : [kind |-> k, sv |-> {}] \in OpenCommands
  /\ \A f \in FontType : [kind |-> "footnote", sv |-> f] \in OpenCommands
  /\ \A e \in OpenCommands : e.kind = "footnote" => e.sv \in FontType
BY DEF OpenCommands

\* An element is pushed for a command.
LEMMA OpenStep ==
  ASSUME NEW s, Sound(s), NEW op \in Seq(OpenCommands), Matched(C(s), op), NEW sv, Levels(op, sv),
         NEW e \in OpenCommands, e.kind \in Kinds, e.kind \in Names, FitsOn(TopName(C(s)), e.kind, s.mode)
  PROVE  /\ Append(op, e) \in Seq(OpenCommands)
         /\ Sound(push(s, e.kind)) /\ Matched(C(push(s, e.kind)), Append(op, e))
         /\ TopName(C(push(s, e.kind))) = e.kind /\ push(s, e.kind).mode = s.mode
         /\ push(s, e.kind).font = s.font
         /\ e.kind # "fonts" => Levels(Append(op, e), Append(sv, <<>>))
         /\ e.kind = "fonts" => Levels(Append(op, e), sv)
BY PushOutput, PushLevels, CmdsAppend

\* The element of a command is popped; it is on top.
LEMMA CloseStep ==
  ASSUME NEW s, Sound(s), NEW op \in Seq(OpenCommands), Matched(C(s), op), NEW sv, Levels(op, sv),
         op # <<>>, NEW k, Last(op).kind = k, k \in Kinds, TopName(C(s)) = k
  PROVE  /\ Front(op) \in Seq(OpenCommands)
         /\ Sound(pop(s, k)) /\ Matched(C(pop(s, k)), Front(op))
         /\ FitsOn(TopName(C(pop(s, k))), k, pop(s, k).mode)
         /\ k # "fonts" => Levels(Front(op), Front(sv))
         /\ k = "fonts" => Levels(Front(op), sv)
<1>1. k # "group" /\ k # "document"
  BY DEF Kinds
<1>2. Front(op) \in Seq(OpenCommands)
  BY PoppedAt
<1>. QED
  BY <1>1, <1>2, PopOutput, PopLevels

-----------------------------------------------------------------------------
(* Characters, groups and fonts *)
\* What fits on what, read from both sides.
LEMMA FitsTells ==
  ASSUME NEW b \in Names, NEW m \in Modes
  PROVE  /\ ModeFits(b, m) /\ m # "v" => FitsOn(b, "fonts", m) /\ FitsOn(b, "mbox", m) /\ FitsOn(b, "footnote", m)
         /\ ModeFits(b, m) => FitsOn(b, "hbox", m)
         /\ ModeFits(b, m) /\ m # "h" => FitsOn(b, "list", m)
         /\ b = "list" /\ m # "h" => FitsOn(b, "labelitem", m)
         /\ b \in Divs => FitsOn(b, "head", m)
         /\ \A d \in Divs : b \in {"document"} \cup Divs /\ m = "v" => FitsOn(b, d, m)
         /\ \A k \in {"fonts", "mbox", "footnote", "hbox", "list"} : FitsOn(b, k, m) => ModeFits(b, m)
         /\ FitsOn(b, "labelitem", m) => b = "list" /\ m # "h"
         /\ FitsOn(b, "head", m) => b \in Divs
<1>1. /\ "fonts" \notin Divs /\ "mbox" \notin Divs /\ "footnote" \notin Divs /\ "hbox" \notin Divs
      /\ "list" \notin Divs /\ "labelitem" \notin Divs /\ "head" \notin Divs
  BY DivIsOther DEF Kinds
<1>2. \A d \in Divs : b \in {"document"} \cup Divs /\ m = "v" => FitsOn(b, d, m)
  BY DivIsOther DEF FitsOn, Kinds
<1>. QED
  BY <1>1, <1>2 DEF FitsOn

\* The elements of the commands are names; a group has none.
LEMMA KindNames == Kinds \subseteq Names /\ "group" \notin Kinds
BY DEF Kinds, Names

\* The buffer does not matter.
LEMMA BufferAlike ==
  ASSUME NEW s, IsOutput(s)
  PROVE  Alike(s, [s EXCEPT !.buffer = @ \cup {s.font.packed}])
<1>1. s \in Output /\ s.font.packed \in SUBSET Attributes
  BY OutputFont DEF IsOutput
<1>2. [s EXCEPT !.buffer = @ \cup {s.font.packed}] \in Output
  BY <1>1 DEF Output
<1>. QED
  BY <1>1, <1>2 DEF Alike, IsOutput, C, Output

-----------------------------------------------------------------------------
Before == StepInv(x, open, saves) /\ document \in Documents
After == StepInv(x', open', saves')

\* What holds before a command.
LEMMA BeforeOf ==
  ASSUME Before
  PROVE  /\ StepInv(x, open, saves) /\ open \in Seq(OpenCommands)
         /\ Settled(x) /\ Sound(x) /\ IsOutput(x) /\ IsCore(C(x))
         /\ TopName(C(x)) \in Names /\ x.mode \in Modes
         /\ Matched(C(x), open) /\ Levels(open, saves) /\ Len(saves) \in Nat
         /\ document.attributes \subseteq Attributes
         /\ SameElems(C(x), C(x)) /\ Alike(x, x)
<1>1. StepInv(x, open, saves) /\ document \in Documents
  BY DEF Before
<1>2. Len(saves) \in Nat
  BY <1>1, InnerOfStep, SavesOfLevels
<1>3. SameElems(C(x), C(x)) /\ (IsOutput(x) => Alike(x, x))
  BY DEF SameElems, Alike
<1>. QED
  BY <1>1, <1>2, <1>3, InnerOfStep, DocumentsAssumption

\* A character keeps the invariant.
LEMMA CharStep ==
  ASSUME Before, Char
  PROVE  After
<1>. DEFINE s == IF x.mode = "v" THEN leave_v_mode(x) ELSE x
            t == [s EXCEPT !.buffer = @ \cup {s.font.packed}]
<1>1. x' = t /\ saves' = saves /\ open' = open
  BY DEF Char
<1>2. Settled(s) /\ SameElems(C(x), C(s))
  BY BeforeOf, LeaveVSettled
<1>. HIDE DEF s
<1>3. IsOutput(s)
  BY <1>2 DEF Settled, Sound
<1>4. Alike(s, t)
  BY <1>3, BufferAlike
<1>. HIDE DEF t
<1>5. StepInv(s, open, saves)
  BY <1>2, BeforeOf, SameElemsStep
<1>6. StepInv(t, open, saves)
  BY <1>4, <1>5, BeforeOf, AlikeStep
<1>. QED
  BY <1>1, <1>6 DEF After

\* The opening of a group keeps the invariant.
LEMMA OpenBraceStep ==
  ASSUME Before, OpenBrace
  PROVE  After
<1>. DEFINE e == [kind |-> "group", sv |-> {}]
<1>1. x' = x /\ saves' = Append(saves, <<>>) /\ open' = Append(open, e)
  BY DEF OpenBrace, Opens, push_level
<1>2. e \in OpenCommands /\ e.kind = "group" /\ e.kind # "fonts"
  BY OpenTypes
<1>. HIDE DEF e
<1>3. Append(open, e) \in Seq(OpenCommands) /\ Matched(C(x), Append(open, e))
      /\ Levels(Append(open, e), Append(saves, <<>>))
  BY <1>2, BeforeOf, CmdsAppend, MatchedGroup, PushLevels
<1>. QED
  BY <1>1, <1>3, BeforeOf DEF After, StepInv

\* What is closed was open, and its level has saved fonts.
LEMMA ClosesOf ==
  ASSUME Before, NEW k, Closes(k)
  PROVE  /\ open # <<>> /\ Last(open).kind = k /\ open' = Front(open) /\ Last(open) \in OpenCommands
         /\ Last(saves) \in Seq(SavedType) /\ ~done
         /\ k # "group" => InnerIs(C(x), k)
         /\ Alike(x, pop_level(x))
<1>1. open # <<>> /\ Last(open).kind = k /\ open' = Front(open) /\ ~done
  BY DEF Closes
<1>2. Last(saves) \in Seq(SavedType) /\ Last(open) \in OpenCommands
  BY <1>1, BeforeOf, SavesOfLevels, PoppedAt
<1>3. k # "group" => InnerIs(C(x), k)
  BY <1>1, BeforeOf, LastIsInner
<1>4. Alike(x, pop_level(x))
  BY <1>2, BeforeOf, RestoreLevelAlike DEF pop_level
<1>. QED
  BY <1>1, <1>2, <1>3, <1>4

\* The end of a group keeps the invariant.
LEMMA CloseBraceStep ==
  ASSUME Before, CloseBrace
  PROVE  After
<1>0. Closes("group") /\ x' = pop_level(x) /\ saves' = Front(saves)
  BY DEF CloseBrace, PopsSaves
<1>1. /\ open # <<>> /\ Last(open).kind = "group" /\ open' = Front(open) /\ Last(open) \in OpenCommands
      /\ Alike(x, pop_level(x))
  BY <1>0, ClosesOf
<1>2. Front(open) \in Seq(OpenCommands) /\ Append(Front(open), Last(open)) = open
  BY <1>1, BeforeOf, PoppedAt, PushPop
<1>3. Matched(C(x), Front(open))
  BY <1>1, <1>2, BeforeOf, MatchedGroup
<1>4. Levels(Front(open), Front(saves))
  BY <1>1, BeforeOf, PopLevels
<1>5. Settled(pop_level(x)) /\ C(pop_level(x)) = C(x)
  BY <1>1, BeforeOf, AlikeSound
<1>. QED
  BY <1>0, <1>1, <1>2, <1>3, <1>4, <1>5 DEF After, StepInv

\* A new font, with a saved one.
LEMMA FontStep ==
  ASSUME Before, NEW s, Alike(x, s), x' = font_has_changed(s, saves), saves' = save_font(s, saves), open' = open
  PROVE  After
<1>1. IsOutput(s) /\ Levels(open, saves) /\ Len(saves) \in Nat
  BY BeforeOf, AlikeOutput
<1>2. Alike(x, x')
  BY <1>1, FontChangeAlike, AlikeTrans
<1>3. Levels(open, saves')
  BY <1>1, BeforeOf, SaveFontLevels
<1>4. StepInv(x', open, saves')
  BY <1>2, <1>3, BeforeOf, AlikeStep
<1>. QED
  BY <1>4 DEF After

\* Other attributes of the font leave the elements as they are.
LEMMA AttributesAlike ==
  ASSUME NEW s, IsOutput(s), NEW a \in SUBSET Attributes
  PROVE  Alike(s, [s EXCEPT !.font.attrs = a])
<1>. DEFINE f == [s.font EXCEPT !.attrs = a]
<1>1. f \in FontType
  BY OutputFont
<1>2. [s EXCEPT !.font.attrs = a] = [s EXCEPT !.font = f]
  OBVIOUS
<1>. HIDE DEF f
<1>. QED
  BY <1>1, <1>2, WithFont

\* The attributes a font command may set.
LEMMA NewAttributesType ==
  ASSUME Before
  PROVE  NewAttributes \in SUBSET SUBSET Attributes
<1>1. document.attributes \subseteq Attributes /\ x.font.attrs \in SUBSET Attributes
  BY BeforeOf, OutputFont
<1>. QED
  BY <1>1 DEF NewAttributes

\* A font command keeps the invariant.
LEMMA see_font_changeStep ==
  ASSUME Before, see_font_change
  PROVE  After
<1>1. PICK attrs \in NewAttributes :
        /\ x' = font_has_changed([x EXCEPT !.font.attrs = attrs], saves)
        /\ saves' = save_font([x EXCEPT !.font.attrs = attrs], saves)
  BY DEF see_font_change
<1>2. open' = open /\ attrs \in SUBSET Attributes
  BY NewAttributesType DEF see_font_change
<1>3. Alike(x, [x EXCEPT !.font.attrs = attrs])
  BY <1>2, BeforeOf, AttributesAlike
<1>. QED
  BY <1>1, <1>2, <1>3, FontStep

\* An old font command keeps the invariant.
LEMMA ltfontStep ==
  ASSUME Before, ltfont
  PROVE  After
<1>1. PICK attrs \in NewAttributes : x' = [flush_buffer(x) EXCEPT !.font.attrs = attrs]
  BY DEF ltfont
<1>2. open' = open /\ saves' = saves /\ attrs \in SUBSET Attributes
  BY NewAttributesType DEF ltfont
<1>3. Alike(x, flush_buffer(x)) /\ IsOutput(flush_buffer(x))
  BY BeforeOf, FlushAlike, AlikeOutput
<1>4. Alike(x, x')
  BY <1>1, <1>2, <1>3, AttributesAlike, AlikeTrans
<1>. QED
  BY <1>2, <1>4, BeforeOf, AlikeStep DEF After

\* \selectfont keeps the invariant.
LEMMA selectfontStep ==
  ASSUME Before, selectfont
  PROVE  After
BY BeforeOf, FontStep DEF selectfont

-----------------------------------------------------------------------------
(* Paragraphs, boxes and arguments *)
\* A document without the options of the program's flaws
Plain == document.commands \cap {"noindentInBox", "parInLine"} = {}

\* The innermost command of the model is that of these lemmas.
LEMMA InnermostIs == Innermost = InnerCommand(open)
BY DEF Innermost, InnerCommand, Cmds

\* A step that keeps the commands and their elements.
LEMMA SameStep ==
  ASSUME Before, NEW t, Settled(t), SameElems(C(x), C(t)), x' = t, UNCHANGED <<saves, open, done>>
  PROVE  After
<1>1. StepInv(t, open, saves)
  BY BeforeOf, SameElemsStep
<1>. QED
  BY <1>1 DEF After

\* \par keeps the invariant.
LEMMA T_par1Step ==
  ASSUME Before, Plain, T_par1
  PROVE  After
<1>. DEFINE s == flush_buffer(x)
<1>1. ~InLine /\ x' = leave_h_mode(s) /\ UNCHANGED <<saves, open, done>>
  BY DEF T_par1, Plain
<1>2. x.mode = "h" => TopName(C(x)) = "p"
  <2>1. InnerCommand(open) \notin {"fonts", "mbox"}
    BY <1>1, InnermostIs DEF InLine
  <2>. QED
    BY <2>1, BeforeOf, NotInLine
<1>3. Settled(s) /\ C(s) = C(x) /\ s.mode = x.mode
  BY BeforeOf, FlushSettled
<1>. HIDE DEF s
<1>4. Settled(leave_h_mode(s)) /\ SameElems(C(s), C(leave_h_mode(s)))
  BY <1>2, <1>3, LeaveHSettled
<1>. QED
  BY <1>1, <1>3, <1>4, SameStep

\* The implicit start of a paragraph keeps the invariant.
LEMMA implicit_parStep ==
  ASSUME Before, Plain, implicit_par
  PROVE  After
<1>. DEFINE s == flush_buffer(x)
            t == leave_h_mode(s)
<1>1. /\ x.mode # "arg" /\ (x.mode = "h" => first_frame(x) = "p")
      /\ x' = push_par(t) /\ UNCHANGED <<saves, open, done>>
  BY DEF implicit_par, Plain, finish_par_cmd
<1>2. x.mode = "h" => TopName(C(x)) = "p"
  BY <1>1, BeforeOf, FirstFrameIsTop
<1>3. Settled(s) /\ C(s) = C(x) /\ s.mode = x.mode
  BY BeforeOf, FlushSettled
<1>. HIDE DEF s
<1>4. Settled(t) /\ SameElems(C(s), C(t)) /\ (s.mode = "h" => t.mode = "v") /\ (s.mode # "h" => t = s)
  BY <1>2, <1>3, LeaveHSettled
<1>. HIDE DEF t
<1>5. t.mode = "v"
  <2>1. x.mode \in {"v", "h", "arg"}
    BY BeforeOf DEF Modes
  <2>. QED
    BY <1>1, <1>3, <1>4, <2>1
<1>6. TopName(C(t)) \in VTops /\ Sound(t)
  <2>1. TopName(C(t)) \in Names /\ t.mode \in Modes /\ ModeFits(TopName(C(t)), t.mode)
    BY <1>4, TopIsName DEF Settled
  <2>. QED
    BY <1>4, <1>5, <2>1, ModeTells DEF Settled
<1>7. Settled(push_par(t)) /\ SameElems(C(t), C(push_par(t)))
  BY <1>5, <1>6, PushParSettled
<1>8. SameElems(C(x), C(push_par(t)))
  BY <1>3, <1>4, <1>7, SameElemsKeep
<1>. QED
  BY <1>1, <1>7, <1>8, SameStep

\* Where an argument in a line begins.
LEMMA InLineOpens ==
  ASSUME Before
  PROVE  /\ Settled(leave_v_mode(x)) /\ Sound(leave_v_mode(x)) /\ leave_v_mode(x).mode # "v"
         /\ Matched(C(leave_v_mode(x)), open)
         /\ TopName(C(leave_v_mode(x))) \in Names /\ leave_v_mode(x).mode \in Modes
         /\ FitsOn(TopName(C(leave_v_mode(x))), "fonts", leave_v_mode(x).mode)
         /\ FitsOn(TopName(C(leave_v_mode(x))), "mbox", leave_v_mode(x).mode)
         /\ FitsOn(TopName(C(leave_v_mode(x))), "footnote", leave_v_mode(x).mode)
<1>. DEFINE s == leave_v_mode(x)
<1>1. Settled(s) /\ s.mode # "v" /\ SameElems(C(x), C(s))
  BY BeforeOf, LeaveVSettled
<1>2. Matched(C(s), open)
  BY <1>1, BeforeOf, SameElemsKeep
<1>. HIDE DEF s
<1>3. Sound(s) /\ TopName(C(s)) \in Names /\ s.mode \in Modes /\ ModeFits(TopName(C(s)), s.mode)
  BY <1>1, TopIsName DEF Settled
<1>. QED
  BY <1>1, <1>2, <1>3, FitsTells DEF s

\* The start of a font command with an argument keeps the invariant.
LEMMA T_fontsStep ==
  ASSUME Before, T_fonts
  PROVE  After
<1>. DEFINE s == leave_v_mode(x)
            e == [kind |-> "fonts", sv |-> {}]
            t == push(s, "fonts")
<1>1. x' = t /\ open' = Append(open, e) /\ saves' = saves
  BY DEF T_fonts, Opens
<1>2. e \in OpenCommands /\ e.kind = "fonts" /\ "fonts" \in Kinds /\ "fonts" \in Names
  BY OpenTypes, KindNames DEF Kinds
<1>. HIDE DEF e
<1>3. Sound(s) /\ Matched(C(s), open) /\ FitsOn(TopName(C(s)), "fonts", s.mode) /\ s.mode # "v" /\ s.mode \in Modes
  BY InLineOpens
<1>. HIDE DEF s
<1>4. /\ Append(open, e) \in Seq(OpenCommands)
      /\ Sound(t) /\ Matched(C(t), Append(open, e)) /\ TopName(C(t)) = "fonts" /\ t.mode = s.mode
      /\ Levels(Append(open, e), saves)
  BY <1>2, <1>3, BeforeOf, OpenStep
<1>. HIDE DEF t
<1>5. ModeFits("fonts", t.mode)
  BY <1>2, <1>3, <1>4, ModeTells
<1>. QED
  BY <1>1, <1>4, <1>5 DEF After, StepInv, Settled

\* The start of \mbox keeps the invariant.
LEMMA internal_makeboxStep ==
  ASSUME Before, internal_makebox
  PROVE  After
<1>. DEFINE s == leave_v_mode(x)
            e == [kind |-> "mbox", sv |-> {}]
            t == push(s, "mbox")
<1>1. x' = t /\ open' = Append(open, e) /\ saves' = Append(saves, <<>>)
  BY DEF internal_makebox, Opens, push_level
<1>2. e \in OpenCommands /\ e.kind = "mbox" /\ "mbox" \in Kinds /\ "mbox" \in Names /\ "mbox" # "fonts"
  BY OpenTypes, KindNames DEF Kinds
<1>. HIDE DEF e
<1>3. Sound(s) /\ Matched(C(s), open) /\ FitsOn(TopName(C(s)), "mbox", s.mode) /\ s.mode # "v" /\ s.mode \in Modes
  BY InLineOpens
<1>. HIDE DEF s
<1>4. /\ Append(open, e) \in Seq(OpenCommands)
      /\ Sound(t) /\ Matched(C(t), Append(open, e)) /\ TopName(C(t)) = "mbox" /\ t.mode = s.mode
      /\ Levels(Append(open, e), Append(saves, <<>>))
  BY <1>2, <1>3, BeforeOf, OpenStep
<1>. HIDE DEF t
<1>5. ModeFits("mbox", t.mode)
  BY <1>2, <1>3, <1>4, ModeTells
<1>. QED
  BY <1>1, <1>4, <1>5 DEF After, StepInv, Settled

\* The start of \hbox keeps the invariant.
LEMMA begin_boxStep ==
  ASSUME Before, begin_box
  PROVE  After
<1>. DEFINE s == flush_buffer(x)
            e == [kind |-> "hbox", sv |-> {}]
            t == push(s, "hbox")
            u == [t EXCEPT !.mode = "arg"]
<1>1. x' = u /\ open' = Append(open, e) /\ saves' = Append(saves, <<>>)
  BY DEF begin_box, Opens, push_level
<1>2. e \in OpenCommands /\ e.kind = "hbox" /\ "hbox" \in Kinds /\ "hbox" \in Names /\ "hbox" # "fonts"
  BY OpenTypes, KindNames DEF Kinds
<1>. HIDE DEF e
<1>3. Settled(s) /\ Sound(s) /\ Matched(C(s), open)
  BY BeforeOf, FlushSettled
<1>. HIDE DEF s
<1>4. TopName(C(s)) \in Names /\ s.mode \in Modes /\ ModeFits(TopName(C(s)), s.mode)
  BY <1>3, TopIsName DEF Settled
<1>5. FitsOn(TopName(C(s)), "hbox", s.mode)
  BY <1>4, FitsTells
<1>6. /\ Append(open, e) \in Seq(OpenCommands)
      /\ Sound(t) /\ Matched(C(t), Append(open, e)) /\ TopName(C(t)) = "hbox"
      /\ Levels(Append(open, e), Append(saves, <<>>))
  BY <1>2, <1>3, <1>5, BeforeOf, OpenStep
<1>. HIDE DEF t
<1>7. IsOutput(u) /\ u.mode = "arg" /\ C(u) = C(t) /\ u.badpop = t.badpop
  BY <1>4, <1>6, WithMode, ModeTells DEF Sound
<1>. HIDE DEF u
<1>8. ModeFits("hbox", "arg")
  BY <1>4, ModeTells
<1>9. Settled(u)
  BY <1>6, <1>7, <1>8 DEF Settled, Sound
<1>. QED
  BY <1>1, <1>6, <1>7, <1>9 DEF After, StepInv

\* The end of a command whose element is on top.
LEMMA TopCloses ==
  ASSUME Before, NEW k \in {"fonts", "mbox", "hbox", "head", "labelitem"}, Closes(k), NEW s, Alike(x, s)
  PROVE  /\ open' = Front(open) /\ Front(open) \in Seq(OpenCommands)
         /\ Sound(pop(flush_buffer(s), k)) /\ Matched(C(pop(flush_buffer(s), k)), Front(open))
         /\ FitsOn(TopName(C(pop(flush_buffer(s), k))), k, pop(flush_buffer(s), k).mode)
         /\ TopName(C(pop(flush_buffer(s), k))) \in Names /\ pop(flush_buffer(s), k).mode \in Modes
         /\ k # "fonts" => Levels(Front(open), Front(saves))
         /\ k = "fonts" => Levels(Front(open), saves)
<1>. DEFINE t == flush_buffer(s)
<1>1. /\ open # <<>> /\ Last(open).kind = k /\ open' = Front(open)
      /\ InnerIs(C(x), k) /\ k \in Kinds
  BY ClosesOf DEF Kinds
<1>2. TopName(C(x)) = k
  BY <1>1, BeforeOf, AboveInner DEF Sound
<1>3. Sound(s) /\ C(s) = C(x)
  BY BeforeOf, AlikeSound
<1>4. Sound(t) /\ C(t) = C(x)
  BY <1>3, FlushSettled
<1>. HIDE DEF t
<1>5. /\ Front(open) \in Seq(OpenCommands)
      /\ Sound(pop(t, k)) /\ Matched(C(pop(t, k)), Front(open))
      /\ FitsOn(TopName(C(pop(t, k))), k, pop(t, k).mode)
      /\ k # "fonts" => Levels(Front(open), Front(saves))
      /\ k = "fonts" => Levels(Front(open), saves)
  BY <1>1, <1>2, <1>4, BeforeOf, CloseStep
<1>6. TopName(C(pop(t, k))) \in Names /\ pop(t, k).mode \in Modes
  BY <1>5, TopIsName
<1>. QED
  BY <1>1, <1>5, <1>6 DEF t

\* The end of a font command keeps the invariant.
LEMMA EndFontsStep ==
  ASSUME Before, EndFonts
  PROVE  After
<1>. DEFINE u == pop(flush_buffer(x), "fonts")
<1>1. Closes("fonts") /\ x' = u /\ saves' = saves
  BY DEF EndFonts
<1>2. /\ open' = Front(open) /\ Front(open) \in Seq(OpenCommands)
      /\ Sound(u) /\ Matched(C(u), Front(open)) /\ FitsOn(TopName(C(u)), "fonts", u.mode)
      /\ TopName(C(u)) \in Names /\ u.mode \in Modes /\ Levels(Front(open), saves)
  BY <1>1, BeforeOf, TopCloses
<1>. HIDE DEF u
<1>3. ModeFits(TopName(C(u)), u.mode)
  BY <1>2, FitsTells
<1>. QED
  BY <1>1, <1>2, <1>3 DEF After, StepInv, Settled

\* The end of \mbox keeps the invariant.
LEMMA EndMakeboxStep ==
  ASSUME Before, EndMakebox
  PROVE  After
<1>. DEFINE u == pop(flush_buffer(pop_level(x)), "mbox")
<1>1. Closes("mbox") /\ x' = u /\ saves' = Front(saves)
  BY DEF EndMakebox, PopsSaves
<1>0. Alike(x, pop_level(x))
  BY <1>1, ClosesOf
<1>2. /\ open' = Front(open) /\ Front(open) \in Seq(OpenCommands)
      /\ Sound(u) /\ Matched(C(u), Front(open)) /\ FitsOn(TopName(C(u)), "mbox", u.mode)
      /\ TopName(C(u)) \in Names /\ u.mode \in Modes /\ Levels(Front(open), Front(saves))
  BY <1>0, <1>1, TopCloses
<1>. HIDE DEF u
<1>3. ModeFits(TopName(C(u)), u.mode)
  BY <1>2, FitsTells
<1>. QED
  BY <1>1, <1>2, <1>3 DEF After, StepInv, Settled

\* The end of \hbox keeps the invariant.
LEMMA EndBoxStep ==
  ASSUME Before, EndBox
  PROVE  After
<1>. DEFINE u == pop(flush_buffer(pop_level(x)), "hbox")
<1>1. Closes("hbox") /\ x' = u /\ saves' = Front(saves)
  BY DEF EndBox, PopsSaves
<1>0. Alike(x, pop_level(x))
  BY <1>1, ClosesOf
<1>2. /\ open' = Front(open) /\ Front(open) \in Seq(OpenCommands)
      /\ Sound(u) /\ Matched(C(u), Front(open)) /\ FitsOn(TopName(C(u)), "hbox", u.mode)
      /\ TopName(C(u)) \in Names /\ u.mode \in Modes /\ Levels(Front(open), Front(saves))
  BY <1>0, <1>1, TopCloses
<1>. HIDE DEF u
<1>3. ModeFits(TopName(C(u)), u.mode)
  BY <1>2, FitsTells
<1>. QED
  BY <1>1, <1>2, <1>3 DEF After, StepInv, Settled

\* The end of a title keeps the invariant.
LEMMA EndHeadStep ==
  ASSUME Before, EndHead
  PROVE  After
<1>. DEFINE u == pop(flush_buffer(pop_level(x)), "head")
            w == [u EXCEPT !.mode = "v"]
<1>1. Closes("head") /\ x' = w /\ saves' = Front(saves)
  BY DEF EndHead, PopsSaves
<1>0. Alike(x, pop_level(x))
  BY <1>1, ClosesOf
<1>2. /\ open' = Front(open) /\ Front(open) \in Seq(OpenCommands)
      /\ Sound(u) /\ Matched(C(u), Front(open)) /\ FitsOn(TopName(C(u)), "head", u.mode)
      /\ TopName(C(u)) \in Names /\ u.mode \in Modes /\ Levels(Front(open), Front(saves))
  BY <1>0, <1>1, TopCloses
<1>. HIDE DEF u
<1>3. TopName(C(u)) \in VTops /\ "v" \in Modes
  BY <1>2, FitsTells DEF VTops, Modes
<1>4. ModeFits(TopName(C(u)), "v")
  BY <1>2, <1>3, ModeTells
<1>5. IsOutput(w) /\ w.mode = "v" /\ C(w) = C(u) /\ w.badpop = u.badpop
  BY <1>2, <1>3, WithMode DEF Sound
<1>. HIDE DEF w
<1>6. Settled(w)
  BY <1>2, <1>4, <1>5 DEF Settled, Sound
<1>. QED
  BY <1>1, <1>2, <1>5, <1>6 DEF After, StepInv

\* The end of the label of an item keeps the invariant.
LEMMA EndLabelStep ==
  ASSUME Before, EndLabel
  PROVE  After
<1>. DEFINE u == pop(flush_buffer(pop_level(x)), "labelitem")
            w == StartItem(u)
<1>1. Closes("labelitem") /\ x' = w /\ saves' = Front(saves)
  BY DEF EndLabel, PopsSaves
<1>0. Alike(x, pop_level(x))
  BY <1>1, ClosesOf
<1>2. /\ open' = Front(open) /\ Front(open) \in Seq(OpenCommands)
      /\ Sound(u) /\ Matched(C(u), Front(open)) /\ FitsOn(TopName(C(u)), "labelitem", u.mode)
      /\ TopName(C(u)) \in Names /\ u.mode \in Modes /\ Levels(Front(open), Front(saves))
  BY <1>0, <1>1, TopCloses
<1>. HIDE DEF u
<1>3. TopName(C(u)) = "list" /\ u.mode # "h"
  BY <1>2, FitsTells
<1>4. Settled(w) /\ SameElems(C(u), C(w))
  BY <1>2, <1>3, StartItemSettled
<1>5. Matched(C(w), Front(open))
  BY <1>2, <1>4, SameElemsKeep
<1>. QED
  BY <1>1, <1>2, <1>4, <1>5 DEF After, StepInv

-----------------------------------------------------------------------------
(* Footnotes, divisions and lists *)
\* The start of a footnote keeps the invariant.
LEMMA T_cap_or_noteStep ==
  ASSUME Before, T_cap_or_note
  PROVE  After
<1>. DEFINE q == leave_v_mode(x)
            s == push(q, "footnote")
            t == [s EXCEPT !.font.attrs = {}]
            sv == Append(saves, <<>>)
            e == [kind |-> "footnote", sv |-> s.font]
            u == font_has_changed(t, sv)
            w == [u EXCEPT !.mode = "v"]
<1>1. x' = w /\ open' = Append(open, e) /\ saves' = save_font(t, sv)
  BY DEF T_cap_or_note
<1>2. Sound(q) /\ Matched(C(q), open) /\ FitsOn(TopName(C(q)), "footnote", q.mode) /\ q.font \in FontType
  BY InLineOpens, OutputFont DEF Sound
<1>. HIDE DEF q
<1>0. "footnote" \in Kinds /\ "footnote" \in Names /\ "footnote" # "fonts"
  BY KindNames DEF Kinds
<1>3. s.font = q.font
  BY <1>0, <1>2, PushOutput
<1>4. e \in OpenCommands /\ e.kind = "footnote"
  BY <1>2, <1>3, OpenTypes
<1>. HIDE DEF e
<1>5. /\ Append(open, e) \in Seq(OpenCommands)
      /\ Sound(s) /\ Matched(C(s), Append(open, e)) /\ TopName(C(s)) = "footnote"
      /\ Levels(Append(open, e), sv)
  BY <1>0, <1>2, <1>4, BeforeOf, OpenStep
<1>. HIDE DEF s
<1>6. Alike(s, t) /\ IsOutput(t)
  BY <1>5, AttributesAlike, AlikeOutput DEF Sound
<1>. HIDE DEF t, sv
<1>7. Len(sv) \in Nat
  BY <1>5, SavesOfLevels
<1>8. Alike(t, u)
  BY <1>6, <1>7, FontChangeAlike
<1>9. Sound(u) /\ C(u) = C(s)
  BY <1>5, <1>6, <1>8, AlikeSound
<1>. HIDE DEF u
<1>10. ModeFits("footnote", "v") /\ "v" \in Modes
  BY <1>0, ModeTells DEF Modes
<1>11. IsOutput(w) /\ w.mode = "v" /\ C(w) = C(u) /\ w.badpop = u.badpop
  BY <1>9, <1>10, WithMode DEF Sound
<1>. HIDE DEF w
<1>12. Settled(w)
  BY <1>5, <1>9, <1>10, <1>11 DEF Settled, Sound
<1>13. Levels(Append(open, e), save_font(t, sv))
  BY <1>5, <1>6, SaveFontLevels
<1>. QED
  BY <1>1, <1>5, <1>9, <1>11, <1>12, <1>13 DEF After, StepInv

\* The end of a footnote keeps the invariant.
LEMMA EndNoteStep ==
  ASSUME Before, EndNote
  PROVE  After
<1>. DEFINE f == flush_buffer(x)
            q == leave_h_mode(f)
            s == [q EXCEPT !.font = Last(open).sv]
            r == font_has_changed(s, saves)
            t == pop(r, "footnote")
            u == RestoreLevel(t, Last(save_font(s, saves)))
<1>1. Closes("footnote") /\ x' = u /\ saves' = Front(saves)
  BY DEF EndNote, PopsSaves
<1>0. "footnote" \in Kinds /\ "footnote" \in Names /\ "footnote" # "fonts" /\ "footnote" # "group"
  BY KindNames DEF Kinds
<1>2. /\ open # <<>> /\ Last(open).kind = "footnote" /\ open' = Front(open)
      /\ InnerIs(C(x), "footnote") /\ Last(open).sv \in FontType
  BY <1>0, <1>1, ClosesOf, OpenTypes
<1>3. x.mode = "h" => TopName(C(x)) = "p"
  <2>1. TopName(C(x)) \in {"footnote", "p"}
    BY <1>2, BeforeOf, AboveInner DEF Sound
  <2>2. ModeFits(TopName(C(x)), x.mode)
    BY BeforeOf DEF Settled
  <2>. QED
    BY <1>0, <2>1, <2>2, BeforeOf, ModeTells
<1>4. Settled(f) /\ C(f) = C(x) /\ f.mode = x.mode
  BY BeforeOf, FlushSettled
<1>. HIDE DEF f
<1>5. Settled(q) /\ TopName(C(q)) # "p" /\ SameElems(C(f), C(q))
  BY <1>3, <1>4, LeaveHSettled
<1>. HIDE DEF q
<1>6. InnerIs(C(q), "footnote") /\ Sound(q) /\ Matched(C(q), open)
  BY <1>2, <1>4, <1>5, BeforeOf, SameElemsKeep DEF Settled
<1>7. TopName(C(q)) = "footnote"
  BY <1>5, <1>6, AboveInner DEF Sound
<1>8. Alike(q, s) /\ IsOutput(s)
  BY <1>2, <1>6, WithFont, AlikeOutput DEF Sound
<1>. HIDE DEF s
<1>9. Alike(s, r)
  BY <1>8, BeforeOf, FontChangeAlike
<1>10. Sound(r) /\ C(r) = C(q)
  BY <1>6, <1>8, <1>9, AlikeSound
<1>. HIDE DEF r
<1>11. /\ Front(open) \in Seq(OpenCommands) /\ Sound(t) /\ Matched(C(t), Front(open))
       /\ FitsOn(TopName(C(t)), "footnote", t.mode) /\ Levels(Front(open), Front(saves))
  BY <1>0, <1>2, <1>6, <1>7, <1>10, BeforeOf, CloseStep
<1>. HIDE DEF t
<1>12. Settled(t)
  <2>1. TopName(C(t)) \in Names /\ t.mode \in Modes
    BY <1>11, TopIsName
  <2>. QED
    BY <1>11, <2>1, FitsTells DEF Settled
<1>13. Last(save_font(s, saves)) \in Seq(SavedType)
  BY <1>8, BeforeOf, SaveFontLevels, SavesOfLevels
<1>14. Alike(t, u)
  BY <1>11, <1>13, RestoreLevelAlike DEF Sound
<1>15. Settled(u) /\ C(u) = C(t)
  BY <1>12, <1>14, AlikeSound
<1>. HIDE DEF u
<1>. QED
  BY <1>1, <1>2, <1>11, <1>15 DEF After, StepInv

\* The start of a division keeps the invariant.
LEMMA T_parasStep ==
  ASSUME Before, T_paras
  PROVE  After
<1>1. PICK y \in 0..MaxDiv :
        x' = push([push(para_aux(leave_h_mode(x), y), Div(y)) EXCEPT !.mode = "arg"], "head")
  BY DEF T_paras
<1>. DEFINE q == leave_h_mode(x)
            r == para_aux(q, y)
            d == Div(y)
            s == push(r, d)
            t == [s EXCEPT !.mode = "arg"]
            u == push(t, "head")
            e == [kind |-> "head", sv |-> {}]
<1>2. open' = Append(open, e) /\ saves' = Append(saves, <<>>) /\ Innermost = "none"
  BY DEF T_paras, Opens, push_level
<1>3. InnerIs(C(x), "none")
  BY <1>2, InnermostIs, BeforeOf, InnerOfStep
<1>4. x.mode = "h" => TopName(C(x)) = "p"
  <2>1. TopName(C(x)) \in {"document", "p"} \cup Divs
    BY <1>3, BeforeOf, AboveInner DEF Sound
  <2>2. ModeFits(TopName(C(x)), x.mode)
    BY BeforeOf DEF Settled
  <2>. QED
    BY <2>1, <2>2, BeforeOf, ModeTells
<1>5. Settled(q) /\ TopName(C(q)) # "p" /\ q.mode # "h" /\ SameElems(C(x), C(q))
  BY <1>4, BeforeOf, LeaveHSettled
<1>. HIDE DEF q
<1>6. InnerIs(C(q), "none") /\ q.mode = "v"
  <2>1. InnerIs(C(q), "none")
    BY <1>3, <1>5, SameElemsKeep
  <2>2. TopName(C(q)) \in {"document"} \cup Divs
    BY <1>5, <2>1, AboveInner DEF Settled, Sound
  <2>3. TopName(C(q)) \in Names /\ q.mode \in Modes /\ ModeFits(TopName(C(q)), q.mode)
    BY <1>5, TopIsName DEF Settled
  <2>. QED
    BY <2>1, <2>2, <2>3, ModeTells
<1>7. Settled(r) /\ r.mode = "v" /\ TopName(C(r)) \in {"document"} \cup Divs /\ SameElems(C(q), C(r))
  BY <1>5, <1>6, ParaAuxSettled
<1>. HIDE DEF r
<1>8. d \in Divs /\ d \in Names /\ d \notin Kinds
  BY DivIsOther DEF Divs, Names
<1>. HIDE DEF d
<1>9. Sound(r) /\ Matched(C(r), open) /\ TopName(C(r)) \in Names /\ r.mode \in Modes
  BY <1>5, <1>7, BeforeOf, SameElemsKeep, TopIsName DEF Settled
<1>10. FitsOn(TopName(C(r)), d, r.mode)
  BY <1>7, <1>8, <1>9, FitsTells
<1>11. Sound(s) /\ TopName(C(s)) = d /\ SameElems(C(r), C(s))
  BY <1>8, <1>9, <1>10, PushOutput
<1>. HIDE DEF s
<1>12. "arg" \in Modes /\ ModeFits("head", "arg") /\ "head" \in Kinds /\ "head" \in Names /\ "head" # "fonts"
       /\ FitsOn(d, "head", "arg")
  BY <1>8, <1>9, ModeTells, FitsTells, KindNames DEF Kinds
<1>13. IsOutput(t) /\ t.mode = "arg" /\ C(t) = C(s) /\ t.badpop = s.badpop
  BY <1>11, <1>12, WithMode DEF Sound
<1>. HIDE DEF t
<1>14. Sound(t) /\ Matched(C(t), open) /\ FitsOn(TopName(C(t)), "head", t.mode)
  BY <1>9, <1>11, <1>12, <1>13, SameElemsKeep DEF Sound
<1>15. e \in OpenCommands /\ e.kind = "head"
  BY <1>12, OpenTypes
<1>. HIDE DEF e
<1>16. /\ Append(open, e) \in Seq(OpenCommands)
       /\ Sound(u) /\ Matched(C(u), Append(open, e)) /\ TopName(C(u)) = "head" /\ u.mode = t.mode
       /\ Levels(Append(open, e), Append(saves, <<>>))
  BY <1>12, <1>14, <1>15, BeforeOf, OpenStep
<1>17. x' = u
  BY <1>1 DEF u, t, s, d, r, q
<1>. HIDE DEF u
<1>. QED
  BY <1>2, <1>12, <1>13, <1>16, <1>17 DEF After, StepInv, Settled

\* The start of a list keeps the invariant.
LEMMA T_listenvStep ==
  ASSUME Before, T_listenv
  PROVE  After
<1>. DEFINE f == flush_buffer(x)
            s == leave_h_mode(f)
            e == [kind |-> "list", sv |-> {}]
            t == push(s, "list")
<1>1. ~InLine /\ x' = t /\ open' = Append(open, e) /\ saves' = Append(saves, <<>>)
  BY DEF T_listenv, Opens, push_level
<1>2. x.mode = "h" => TopName(C(x)) = "p"
  <2>1. InnerCommand(open) \notin {"fonts", "mbox"}
    BY <1>1, InnermostIs DEF InLine
  <2>. QED
    BY <2>1, BeforeOf, NotInLine
<1>3. Settled(f) /\ C(f) = C(x) /\ f.mode = x.mode
  BY BeforeOf, FlushSettled
<1>. HIDE DEF f
<1>4. Settled(s) /\ s.mode # "h" /\ SameElems(C(f), C(s))
  BY <1>2, <1>3, LeaveHSettled
<1>. HIDE DEF s
<1>5. Sound(s) /\ Matched(C(s), open) /\ TopName(C(s)) \in Names /\ s.mode \in Modes
  BY <1>3, <1>4, BeforeOf, SameElemsKeep, TopIsName DEF Settled
<1>6. FitsOn(TopName(C(s)), "list", s.mode)
  BY <1>4, <1>5, FitsTells DEF Settled
<1>7. e \in OpenCommands /\ e.kind = "list" /\ "list" \in Kinds /\ "list" \in Names /\ "list" # "fonts"
  BY OpenTypes, KindNames DEF Kinds
<1>. HIDE DEF e
<1>8. /\ Append(open, e) \in Seq(OpenCommands)
      /\ Sound(t) /\ Matched(C(t), Append(open, e)) /\ TopName(C(t)) = "list" /\ t.mode = s.mode
      /\ Levels(Append(open, e), Append(saves, <<>>))
  BY <1>5, <1>6, <1>7, BeforeOf, OpenStep
<1>. HIDE DEF t
<1>9. ModeFits("list", t.mode)
  BY <1>4, <1>5, <1>7, <1>8, ModeTells
<1>. QED
  BY <1>1, <1>8, <1>9 DEF After, StepInv, Settled

\* The end of a list keeps the invariant.
LEMMA T_listenv_endStep ==
  ASSUME Before, T_listenv_end
  PROVE  After
<1>. DEFINE f == flush_buffer(x)
            q == LeaveItem(f)
            s == pop(q, "list")
            u == pop_level(s)
<1>1. Closes("list") /\ x' = u /\ saves' = Front(saves)
  BY DEF T_listenv_end, PopsSaves, LeaveItem
<1>0. "list" \in Kinds /\ "list" # "fonts" /\ "list" # "group"
  BY DEF Kinds
<1>2. /\ open # <<>> /\ Last(open).kind = "list" /\ open' = Front(open)
      /\ InnerIs(C(x), "list") /\ Last(saves) \in Seq(SavedType)
  BY <1>0, <1>1, ClosesOf
<1>3. Settled(f) /\ C(f) = C(x)
  BY BeforeOf, FlushSettled
<1>. HIDE DEF f
<1>4. Settled(q) /\ TopName(C(q)) = "list" /\ SameElems(C(f), C(q))
  BY <1>2, <1>3, LeaveItemSettled
<1>. HIDE DEF q
<1>5. Sound(q) /\ Matched(C(q), open)
  BY <1>3, <1>4, BeforeOf, SameElemsKeep DEF Settled
<1>6. /\ Front(open) \in Seq(OpenCommands) /\ Sound(s) /\ Matched(C(s), Front(open))
      /\ FitsOn(TopName(C(s)), "list", s.mode) /\ Levels(Front(open), Front(saves))
  BY <1>0, <1>2, <1>4, <1>5, BeforeOf, CloseStep
<1>. HIDE DEF s
<1>7. Settled(s)
  <2>1. TopName(C(s)) \in Names /\ s.mode \in Modes
    BY <1>6, TopIsName
  <2>. QED
    BY <1>6, <2>1, FitsTells DEF Settled
<1>8. Alike(s, u)
  BY <1>2, <1>6, RestoreLevelAlike DEF pop_level, Sound
<1>9. Settled(u) /\ C(u) = C(s)
  BY <1>7, <1>8, AlikeSound
<1>. HIDE DEF u
<1>. QED
  BY <1>1, <1>2, <1>6, <1>9 DEF After, StepInv

\* \item keeps the invariant.
LEMMA T_itemStep ==
  ASSUME Before, T_item
  PROVE  After
<1>. DEFINE q == LeaveItem(x)
            u == StartItem(q)
<1>1. Innermost = "list" /\ x' = u /\ UNCHANGED <<saves, open, done>>
  BY DEF T_item
<1>2. InnerIs(C(x), "list")
  BY <1>1, InnermostIs, BeforeOf, InnerOfStep
<1>3. Settled(q) /\ TopName(C(q)) = "list" /\ SameElems(C(x), C(q))
  BY <1>2, BeforeOf, LeaveItemSettled
<1>. HIDE DEF q
<1>4. Sound(q) /\ q.mode # "h"
  <2>1. ModeFits("list", q.mode) /\ Sound(q) /\ "list" \in Names
    BY <1>3 DEF Settled, Names, Kinds
  <2>. QED
    BY <2>1, TopIsName, ModeTells
<1>5. Settled(u) /\ SameElems(C(q), C(u))
  BY <1>3, <1>4, StartItemSettled
<1>. HIDE DEF u
<1>. QED
  BY <1>1, <1>3, <1>5, SameElemsKeep, SameStep

\* \item with a label keeps the invariant.
LEMMA T_item_labelStep ==
  ASSUME Before, T_item_label
  PROVE  After
<1>. DEFINE q == LeaveItem(x)
            s == flush_buffer(q)
            e == [kind |-> "labelitem", sv |-> {}]
            t == push(s, "labelitem")
            u == [t EXCEPT !.mode = "arg"]
<1>1. Innermost = "list" /\ x' = u /\ open' = Append(open, e) /\ saves' = Append(saves, <<>>)
  BY DEF T_item_label, Opens, push_level
<1>2. InnerIs(C(x), "list")
  BY <1>1, InnermostIs, BeforeOf, InnerOfStep
<1>3. Settled(q) /\ TopName(C(q)) = "list" /\ SameElems(C(x), C(q))
  BY <1>2, BeforeOf, LeaveItemSettled
<1>. HIDE DEF q
<1>4. Settled(s) /\ C(s) = C(q)
  BY <1>3, FlushSettled DEF Settled
<1>. HIDE DEF s
<1>5. Sound(s) /\ Matched(C(s), open) /\ TopName(C(s)) = "list" /\ s.mode \in Modes /\ "list" \in Names
  BY <1>3, <1>4, BeforeOf, SameElemsKeep, TopIsName DEF Settled, Names, Kinds
<1>6. FitsOn(TopName(C(s)), "labelitem", s.mode) /\ ModeFits("labelitem", "arg") /\ "arg" \in Modes
  <2>1. s.mode # "h"
    BY <1>4, <1>5, ModeTells DEF Settled
  <2>. QED
    BY <1>5, <2>1, FitsTells, ModeTells
<1>7. e \in OpenCommands /\ e.kind = "labelitem" /\ "labelitem" \in Kinds /\ "labelitem" \in Names /\ "labelitem" # "fonts"
  BY OpenTypes, KindNames DEF Kinds
<1>. HIDE DEF e
<1>8. /\ Append(open, e) \in Seq(OpenCommands)
      /\ Sound(t) /\ Matched(C(t), Append(open, e)) /\ TopName(C(t)) = "labelitem"
      /\ Levels(Append(open, e), Append(saves, <<>>))
  BY <1>5, <1>6, <1>7, BeforeOf, OpenStep
<1>. HIDE DEF t
<1>9. IsOutput(u) /\ u.mode = "arg" /\ C(u) = C(t) /\ u.badpop = t.badpop
  BY <1>6, <1>8, WithMode DEF Sound
<1>. HIDE DEF u
<1>10. Settled(u)
  BY <1>6, <1>8, <1>9 DEF Settled, Sound
<1>. QED
  BY <1>1, <1>8, <1>9, <1>10 DEF After, StepInv

-----------------------------------------------------------------------------
(* The invariant of the specification *)
Over == ~x.badpop /\ DOMAIN x.frames = {1}
XmlInv == document \in Documents /\ (IF done THEN Over ELSE StepInv(x, open, saves))

\* The document starts with its element, in vertical mode, with nothing open.
LEMMA InitXml ==
  ASSUME Init
  PROVE  XmlInv
<1>. DEFINE f == Frame("document", "v", {})
            fs == <<f>>
            font == [attrs |-> {}, packed |-> {}, old |-> {}, stackval |-> TRUE, level |-> 0]
            s == [frames |-> fs, mode |-> "v", font |-> font, buffer |-> {}, badpop |-> FALSE, misplaced |-> FALSE]
            c == Core(fs)
<1>1. x = s /\ saves = <<<<>>>> /\ open = <<>> /\ done = FALSE /\ document \in Documents
  BY DEF Init
<1>2. f \in FrameType /\ f.frame = "document" /\ f.frame # Blank
  BY BlankIsOther DEF Frame, FrameType, Names, Modes
<1>. HIDE DEF f
<1>3. fs \in Seq(FrameType) /\ DOMAIN fs = {1} /\ fs[1] = f
  BY <1>2
<1>. HIDE DEF fs
<1>4. Solid(fs) = {1} /\ IsStack(fs)
  BY <1>2, <1>3 DEF Solid, IsStack
<1>5. IsCore(c) /\ DOMAIN c = {1} /\ c[1].frame = "document"
  BY <1>2, <1>3, <1>4, CoreOfStack
<1>6. font \in FontType /\ s \in Output /\ s.frames = fs
  BY <1>3 DEF FontType, Output, Modes
<1>7. C(s) = c /\ IsOutput(s)
  BY <1>4, <1>6 DEF C, IsOutput
<1>8. s.mode = "v" /\ ~s.badpop
  OBVIOUS
<1>. HIDE DEF c, s
<1>9. Nested(c)
  <2>1. Fits(c)
    BY <1>5 DEF Fits, Under
  <2>2. DivsFirst(c)
    BY <1>5 DEF DivsFirst
  <2>. QED
    BY <1>5, <2>1, <2>2 DEF Nested, Starts
<1>10. TopName(c) = "document"
  <2>1. Top(c) = 1
    BY <1>5, TopIsGreatest
  <2>. QED
    BY <1>5, <2>1 DEF TopName
<1>11. Settled(s)
  <2>1. ModeFits("document", "v")
    BY DEF ModeFits
  <2>. QED
    BY <1>7, <1>8, <1>9, <1>10, <2>1 DEF Settled, Sound
<1>12. open \in Seq(OpenCommands) /\ Cmds(open) = {} /\ At(open, Leveled) = {}
  BY <1>1 DEF Cmds, At
<1>13. Elems(c) = {}
  BY <1>5 DEF Elems, Kinds
<1>14. Matched(c, open)
  BY <1>12, <1>13 DEF Matched
<1>15. Levels(open, saves)
  <2>1. Cardinality(At(open, Leveled)) = 0
    BY <1>12, FS_EmptySet
  <2>2. <<>> \in Seq(SavedType)
    OBVIOUS
  <2>3. saves \in Seq(Seq(SavedType)) /\ Len(saves) = 1
    BY <1>1, <2>2
  <2>. QED
    BY <2>1, <2>3 DEF Levels
<1>16. StepInv(x, open, saves)
  BY <1>1, <1>7, <1>11, <1>12, <1>14, <1>15 DEF StepInv
<1>. QED
  BY <1>1, <1>16 DEF XmlInv

\* At the end of the document only its element is left.
LEMMA T_enddocumentStep ==
  ASSUME Before, T_enddocument
  PROVE  Over' /\ done'
<1>. DEFINE s == flush_buffer(x)
            t == [s EXCEPT !.frames = <<Head(@)>>]
<1>1. x' = t /\ done' = TRUE
  BY DEF T_enddocument
<1>2. Sound(s)
  BY BeforeOf, FlushSettled
<1>3. s \in Output /\ ~s.badpop
  BY <1>2 DEF Sound, IsOutput
<1>. HIDE DEF s
<1>4. t.frames = <<Head(s.frames)>> /\ t.badpop = s.badpop
  BY <1>3 DEF Output
<1>5. DOMAIN <<Head(s.frames)>> = {1}
  OBVIOUS
<1>. HIDE DEF t
<1>. QED
  BY <1>1, <1>3, <1>4, <1>5 DEF Over

\* Nothing is read after the end.
LEMMA OverStays ==
  ASSUME done, Command
  PROVE  FALSE
BY DEF Command, Char, OpenBrace, CloseBrace, see_font_change, ltfont, selectfont, T_par1, implicit_par,
       T_fonts, EndFonts, internal_makebox, EndMakebox, begin_box, EndBox, T_cap_or_note, EndNote, T_paras,
       EndHead, T_listenv, T_listenv_end, T_item, T_item_label, EndLabel, T_enddocument,
       Allowed, MayOpen, Closes

\* Every step of the reader keeps the invariant.
LEMMA StepXml ==
  ASSUME Plain, XmlInv, [Next]_vars
  PROVE  XmlInv' /\ Plain'
<1>1. CASE UNCHANGED vars
  BY <1>1 DEF vars, XmlInv, Plain, Over, StepInv, Settled, Sound, IsOutput, C, Matched, Levels
<1>2. CASE Next
  <2>1. Command /\ document' = document /\ Plain'
    BY <1>2 DEF Next, Plain
  <2>2. ~done /\ Before
    BY <2>1, OverStays DEF XmlInv, Before
  <2>3. CASE T_enddocument
    BY <2>1, <2>2, <2>3, T_enddocumentStep DEF XmlInv
  <2>4. CASE Command /\ ~T_enddocument
    <3>1. done' = done
      BY <2>4 DEF Command, Char, OpenBrace, CloseBrace, see_font_change, ltfont, selectfont, T_par1, implicit_par,
           T_fonts, EndFonts, internal_makebox, EndMakebox, begin_box, EndBox, T_cap_or_note, EndNote, T_paras,
           EndHead, T_listenv, T_listenv_end, T_item, T_item_label, EndLabel
    <3>2. After
      BY <2>2, <2>4, CharStep, OpenBraceStep, CloseBraceStep, see_font_changeStep, ltfontStep, selectfontStep,
         T_par1Step, implicit_parStep, T_fontsStep, EndFontsStep, internal_makeboxStep, EndMakeboxStep,
         begin_boxStep, EndBoxStep, T_cap_or_noteStep, EndNoteStep, T_parasStep, EndHeadStep, T_listenvStep,
         T_listenv_endStep, T_itemStep, T_item_labelStep, EndLabelStep DEF Command
    <3>. QED
      BY <2>1, <2>2, <3>1, <3>2 DEF XmlInv, After, Before
  <2>. QED
    BY <2>1, <2>3, <2>4
<1>. QED
  BY <1>1, <1>2

-----------------------------------------------------------------------------

\* The frames that are no structure are those of the commands.
LEMMA StructureIs ==
  ASSUME NEW n \in Names \cup {Blank}
  PROVE  n \notin Structure <=> n \in Kinds
<1>1. \A d \in Divs : d \notin Kinds
  BY DivIsOther
<1>2. Structure = {Blank, "p", "document", "item"} \cup Divs
  BY Zenon DEF Structure, Blank, Divs
<1>3. Blank \notin Kinds
  BY BlankIsOther, KindNames
<1>. QED
  BY <1>1, <1>2, <1>3 DEF Names, Kinds

\* The invariant says that elements and commands match.
LEMMA NestOfInv ==
  ASSUME XmlInv
  PROVE  ElementsNest
<1>1. CASE done
  <2>1. ~x.badpop /\ DOMAIN x.frames = {1}
    BY <1>1 DEF XmlInv, Over
  <2>2. TopIsExpected
    BY <1>1 DEF TopIsExpected
  <2>3. ParagraphsDoNotNest
    BY <2>1 DEF ParagraphsDoNotNest
  <2>. QED
    BY <2>1, <2>2, <2>3 DEF ElementsNest
<1>2. CASE ~done
  <2>. DEFINE fs == x.frames
              c == C(x)
  <2>0. StepInv(x, open, saves)
    BY <1>2 DEF XmlInv
  <2>1. Settled(x) /\ Sound(x) /\ IsStack(fs) /\ Nested(c) /\ Matched(c, open) /\ ~x.badpop
    BY <2>0, InnerOfStep DEF IsOutput, Sound
  <2>2. /\ DOMAIN c = Solid(fs)
        /\ \A i \in Solid(fs) : c[i].frame = fs[i].frame
    BY <2>1, CoreOfStack DEF C
  <2>3. /\ DOMAIN fs = 1..Len(fs) /\ Len(fs) \in Nat /\ \A i \in 1..Len(fs) : fs[i].frame \in Names \cup {Blank}
    BY <2>1, StackAt DEF FrameType
  <2>4. Elements = Elems(c)
    <3>1. \A i \in DOMAIN fs : fs[i].frame \notin Structure <=> fs[i].frame \in Kinds
      BY <2>3, StructureIs
    <3>2. Elements = { i \in DOMAIN fs : fs[i].frame \in Kinds }
      BY <3>1 DEF Elements
    <3>3. Blank \notin Kinds
      BY BlankIsOther, KindNames
    <3>. HIDE DEF fs, c
    <3>. QED
      BY <2>2, <3>2, <3>3 DEF Elems, Solid
  <2>5. Commands = Cmds(open)
    BY DEF Commands, Cmds
  <2>6. TopIsExpected
    <3>1. \A i \in Elements : c[i].frame = x.frames[i].frame
      BY <2>2, <2>4 DEF Elems
    <3>. HIDE DEF c
    <3>. QED
      BY <2>1, <2>4, <2>5, <3>1 DEF TopIsExpected, Matched
  <2>7. ParagraphsDoNotNest
    <3>1. ParsApart(c)
      BY <2>1, NestedPars
    <3>. HIDE DEF c
    <3>2. SUFFICES ASSUME NEW i \in DOMAIN fs, NEW j \in DOMAIN fs, i < j, fs[i].frame = "p", fs[j].frame = "p"
                   PROVE  \E k \in i..j : fs[k].frame \in {"footnote", "hbox", "list"}
      BY DEF ParagraphsDoNotNest
    <3>3. "p" # Blank
      BY BlankIsOther DEF Names
    <3>4. i \in DOMAIN c /\ j \in DOMAIN c /\ c[i].frame = "p" /\ c[j].frame = "p"
      BY <2>2, <3>2, <3>3 DEF Solid
    <3>5. PICK k \in DOMAIN c : i <= k /\ k <= j /\ c[k].frame \in Between
      BY <3>1, <3>2, <3>4 DEF ParsApart
    <3>6. k \in i..j /\ fs[k].frame \in Between
      BY <2>2, <2>3, <3>5 DEF Solid
    <3>. QED
      BY <3>6 DEF Between
  <2>. QED
    BY <2>1, <2>6, <2>7 DEF ElementsNest
<1>. QED
  BY <1>1, <1>2

\* Elements nest in every document without the options of the program's flaws.
THEOREM ElementsNestHolds == Spec => [](Plain => ElementsNest)
<1>. DEFINE I == Plain => XmlInv
<1>1. Init => I
  BY InitXml
<1>2. I /\ [Next]_vars => I'
  <2>. SUFFICES ASSUME I, [Next]_vars, Plain' PROVE XmlInv'
    OBVIOUS
  <2>1. Plain
    BY DEF Plain, Next, vars
  <2>. QED
    BY <2>1, StepXml
<1>3. I => (Plain => ElementsNest)
  BY NestOfInv
<1>. HIDE DEF I
<1>. QED
  BY <1>1, <1>2, <1>3, PTL DEF Spec

-----------------------------------------------------------------------------
(* Fonts: what shows in an element *)
Line == {"fonts", "mbox"}

\* Where text at position n would be in a paragraph, the attributes that show are v.
Shows(fs, n, v) ==
  \A b \in 1..n : fs[b].frame = "p" /\ (\A i \in b + 1..n : fs[i].frame \in Line \cup {Blank})
    => UNION { fs[i].hi : i \in b + 1..n } = v

\* The frames that are part of a line.
LEMMA InlineIs ==
  /\ Inline = Line \cup {Blank}
  /\ Line \subseteq Kinds /\ "p" \notin Line /\ "p" # Blank /\ Blank \notin Line
<1>1. Inline = Line \cup {Blank}
  BY Zenon DEF Inline, Line, Blank
<1>2. Line \subseteq Kinds /\ "p" \notin Line
  BY DEF Line, Kinds
<1>3. "p" \in Names /\ Line \subseteq Names
  BY <1>2 DEF Names
<1>4. Blank \notin Names
  BY BlankIsOther
<1>. QED
  BY <1>1, <1>2, <1>3, <1>4

\* What shows depends on the frames up to the position.
LEMMA ShowsSame ==
  ASSUME NEW fs, NEW gs, NEW n, \A j \in 1..n : gs[j] = fs[j], NEW v, Shows(fs, n, v)
  PROVE  Shows(gs, n, v)
<1>. SUFFICES ASSUME NEW b \in 1..n, gs[b].frame = "p", \A i \in b + 1..n : gs[i].frame \in Line \cup {Blank}
              PROVE  UNION { gs[i].hi : i \in b + 1..n } = v
  BY DEF Shows
<1>1. \A i \in b + 1..n : i \in 1..n
  OBVIOUS
<1>2. \A i \in b + 1..n : gs[i] = fs[i]
  BY <1>1
<1>3. fs[b].frame = "p" /\ \A i \in b + 1..n : fs[i].frame \in Line \cup {Blank}
  BY <1>2
<1>4. UNION { fs[i].hi : i \in b + 1..n } = v
  BY <1>3 DEF Shows
<1>5. { gs[i].hi : i \in b + 1..n } = { fs[i].hi : i \in b + 1..n }
  BY <1>2
<1>. QED
  BY <1>4, <1>5

\* Outside of paragraphs anything may show.
LEMMA ShowsOutside ==
  ASSUME NEW fs, IsStack(fs), TopName(Core(fs)) \notin Line \cup {"p"}, NEW v
  PROVE  Shows(fs, Len(fs), v)
<1>. DEFINE t == Top(Core(fs))
            n == Len(fs)
<1>1. /\ t \in Solid(fs) /\ t \in 1..n
      /\ \A j \in 1..n : j > t => fs[j].frame = Blank
      /\ TopName(Core(fs)) = fs[t].frame
  BY TopIsTop
<1>2. n \in Nat /\ fs[t].frame \in Names
  BY <1>1, StackAt
<1>. HIDE DEF t, n
<1>. SUFFICES ASSUME NEW b \in 1..n, fs[b].frame = "p", \A i \in b + 1..n : fs[i].frame \in Line \cup {Blank}
              PROVE  FALSE
  BY DEF Shows, n
<1>3. fs[t].frame # Blank
  BY <1>2, BlankIsOther
<1>4. ~(b < t)
  <2>1. b < t => t \in b + 1..n
    BY <1>1, <1>2
  <2>. QED
    BY <1>1, <1>3, <2>1
<1>5. b # t
  BY <1>1
<1>6. ~(b > t)
  BY <1>1, InlineIs
<1>. QED
  BY <1>1, <1>4, <1>5, <1>6

\* A frame that shows nothing and is no paragraph.
LEMMA ShowsNext ==
  ASSUME NEW fs, NEW n \in Nat, fs[n + 1].frame # "p", fs[n + 1].hi = {}, NEW v, Shows(fs, n, v)
  PROVE  Shows(fs, n + 1, v)
<1>. SUFFICES ASSUME NEW b \in 1..n + 1, fs[b].frame = "p", \A i \in b + 1..n + 1 : fs[i].frame \in Line \cup {Blank}
              PROVE  UNION { fs[i].hi : i \in b + 1..n + 1 } = v
  BY DEF Shows
<1>1. b \in 1..n
  OBVIOUS
<1>2. b + 1..n + 1 = (b + 1..n) \cup {n + 1}
  BY <1>1
<1>3. UNION { fs[i].hi : i \in b + 1..n } = v
  BY <1>1, <1>2 DEF Shows
<1>4. { fs[i].hi : i \in b + 1..n + 1 } = { fs[i].hi : i \in b + 1..n } \cup {{}}
  BY <1>2
<1>. QED
  BY <1>3, <1>4

\* Such a frame is pushed.
LEMMA ShowsPushed ==
  ASSUME NEW T, NEW fs \in Seq(T), NEW f \in T, f.frame # "p", f.hi = {}, NEW v, Shows(fs, Len(fs), v)
  PROVE  Shows(Append(fs, f), Len(fs) + 1, v)
<1>. DEFINE gs == Append(fs, f)
            n == Len(fs)
<1>1. /\ n \in Nat /\ gs[n + 1] = f /\ \A i \in 1..n : gs[i] = fs[i]
  BY PushedAt
<1>. HIDE DEF gs, n
<1>2. Shows(gs, n, v)
  BY <1>1, ShowsSame DEF n
<1>. QED
  BY <1>1, <1>2, ShowsNext DEF gs, n

\* The dummies ds show v.
Show(ds, v) == UNION { ds[i].hi : i \in 1..Len(ds) } = v

\* New dummies on top show the font, in a paragraph and in a part of it that has this font.
LEMMA ShowsChecked ==
  ASSUME NEW fs, IsStack(fs), NEW ds, Dummy(ds), NEW v, Show(ds, v),
         TopName(Core(fs)) \in Line => Shows(fs, Top(Core(fs)), v)
  PROVE  /\ Shows(Trimmed(fs) \o ds, Len(Trimmed(fs) \o ds), v)
         /\ \A j \in 1..Top(Core(fs)) : (Trimmed(fs) \o ds)[j] = fs[j]
<1>. DEFINE t == Top(Core(fs))
            g == Trimmed(fs)
            gs == g \o ds
            m == Len(ds)
<1>1. /\ TopNotIn(fs, {Blank}) = t
      /\ t \in Solid(fs) /\ t \in 1..Len(fs)
      /\ TopName(Core(fs)) = fs[t].frame
  BY TopIsTop
<1>2. /\ Len(fs) \in Nat /\ \A i \in 1..Len(fs) : fs[i] \in FrameType
      /\ \A i \in Solid(fs) : fs[i].frame \in Names
  BY StackAt
<1>3. g \in Seq(FrameType) /\ Len(g) = t
  BY TrimmedCore DEF IsStack
<1>4. t \in Nat /\ ds \in Seq(FrameType) /\ \A i \in 1..m : ds[i].frame = Blank
  BY <1>1 DEF Dummy
<1>5. \A i \in 1..t : g[i] = fs[i]
  <2>1. 1 \in Int /\ t \in Int /\ \A i \in 1..t : fs[i] \in FrameType
    BY <1>1, <1>2
  <2>2. g = SubSeq(fs, 1, t)
    BY <1>1 DEF Trimmed
  <2>3. \A i \in 1 .. t - 1 + 1 : g[i] = fs[1 + i - 1]
    BY ONLY <2>1, <2>2, SubSeqProperties
  <2>4. \A i \in 1..t : 1 + i - 1 = i /\ i \in 1 .. t - 1 + 1
    BY <1>4
  <2>. HIDE DEF t, g
  <2>. QED
    BY <2>3, <2>4
<1>. HIDE DEF t, g
<1>6. /\ Len(gs) = t + m
      /\ \A i \in 1 .. t + m : gs[i] = IF i <= t THEN g[i] ELSE ds[i - t]
  BY <1>3, <1>4, ConcatProperties
<1>7. m \in Nat
  BY <1>4, LenProperties
<1>. HIDE DEF gs, m
<1>8. \A j \in 1..t : gs[j] = fs[j]
  BY <1>4, <1>5, <1>6, <1>7
<1>9. \A j \in t + 1..t + m : gs[j] = ds[j - t] /\ j - t \in 1..m
  BY <1>4, <1>6, <1>7
<1>10. { gs[i].hi : i \in t + 1..t + m } = { ds[i].hi : i \in 1..m }
  <2>1. \A i \in t + 1..t + m : gs[i].hi \in { ds[k].hi : k \in 1..m }
    BY <1>9
  <2>2. ASSUME NEW k \in 1..m PROVE ds[k].hi \in { gs[i].hi : i \in t + 1..t + m }
    <3>1. t + k \in t + 1..t + m /\ (t + k) - t = k
      BY <1>4, <1>7
    <3>2. gs[t + k] = ds[k]
      BY <1>9, <3>1
    <3>. QED
      BY <3>1, <3>2
  <2>. QED
    BY <2>1, <2>2
<1>11. UNION { gs[i].hi : i \in t + 1..t + m } = v
  BY <1>10 DEF Show, m
<1>12. Shows(gs, t + m, v)
  <2>. SUFFICES ASSUME NEW b \in 1..t + m, gs[b].frame = "p",
                       \A i \in b + 1..t + m : gs[i].frame \in Line \cup {Blank}
                PROVE  UNION { gs[i].hi : i \in b + 1..t + m } = v
    BY DEF Shows
  <2>1. b \in 1..t
    <3>1. b \in Nat /\ 1 <= b /\ b <= t + m /\ t \in Nat /\ m \in Nat
      BY <1>4, <1>7
    <3>2. CASE b > t
      <4>1. b \in t + 1..t + m
        BY <3>1, <3>2
      <4>2. gs[b].frame = Blank
        BY <1>4, <1>9, <4>1
      <4>. QED
        BY <4>2, InlineIs
    <3>3. CASE b <= t
      BY <3>1, <3>3
    <3>. QED
      BY <3>1, <3>2, <3>3
  <2>2. CASE b = t
    BY <1>11, <2>2
  <2>3. CASE b < t
    <3>1. t \in b + 1..t + m /\ gs[t] = fs[t]
      BY <1>1, <1>4, <1>7, <1>8, <2>1, <2>3
    <3>2. fs[t].frame \in Line
      BY <1>1, <1>2, <3>1, BlankIsOther
    <3>3. Shows(fs, t, v)
      BY <1>1, <3>2 DEF t
    <3>4. \A i \in b + 1..t : gs[i] = fs[i] /\ i \in b + 1..t + m
      BY <1>4, <1>7, <1>8, <2>1
    <3>5. fs[b].frame = "p" /\ \A i \in b + 1..t : fs[i].frame \in Line \cup {Blank}
      BY <1>8, <2>1, <3>4
    <3>6. UNION { fs[i].hi : i \in b + 1..t } = v
      BY <2>1, <3>3, <3>5 DEF Shows
    <3>7. b + 1..t + m = (b + 1..t) \cup (t + 1..t + m)
      BY <1>4, <1>7, <2>1
    <3>8. { gs[i].hi : i \in b + 1..t + m } = { fs[i].hi : i \in b + 1..t } \cup { gs[i].hi : i \in t + 1..t + m }
      BY <3>4, <3>7
    <3>. QED
      BY <1>11, <3>6, <3>8
  <2>. QED
    BY <1>4, <2>1, <2>2, <2>3
<1>. QED
  BY <1>6, <1>8, <1>12 DEF t, g, gs

\* The sequence of a finite set has all of its elements.
LEMMA SequenceHasAll ==
  ASSUME NEW S, IsFiniteSet(S)
  PROVE  \A a \in S : \E i \in 1..Cardinality(S) : SetToSeq(S)[i] = a
<1>. DEFINE n == Cardinality(S)
<1>1. ExistsBijection(1..n, S) /\ n \in Nat
  BY FS_CardinalityType
<1>2. \E f \in [1..n -> S] : IsInjective(f)
  BY <1>1 DEF ExistsBijection, Bijection, Injection, IsInjective
<1>3. SetToSeq(S) \in [1..n -> S] /\ IsInjective(SetToSeq(S))
  BY <1>2 DEF SetToSeq
<1>4. SetToSeq(S) \in Injection(1..n, S)
  BY <1>3 DEF Injection, IsInjective
<1>5. Cardinality(1..n) = n /\ 1 \in Int /\ n \in Int
  BY <1>1, FS_Interval
<1>. HIDE DEF n
<1>6. SetToSeq(S) \in Surjection(1..n, S)
  BY <1>4, <1>5, FS_Injection DEF n
<1>. QED
  BY <1>6 DEF Surjection, n

\* The dummies of a font show its attributes.
LEMMA DummiesAll ==
  ASSUME NEW font \in FontType, NEW m \in Modes
  PROVE  Show(Dummies(font, m), font.attrs)
<1>1. font.attrs \in SUBSET Attributes
  BY DEF FontType
<1>2. CASE font.attrs = {}
  BY <1>2 DEF Dummies, Show
<1>3. CASE font.attrs # {} /\ document.pack_font_elt
  <2>1. Dummies(font, m) = <<Frame(Blank, m, font.attrs)>>
    BY <1>3, Zenon DEF Dummies, Blank
  <2>2. { Dummies(font, m)[i].hi : i \in 1..1 } = {font.attrs}
    BY <2>1 DEF Frame
  <2>3. Len(Dummies(font, m)) = 1
    BY <2>1
  <2>. QED
    BY <2>2, <2>3 DEF Show
<1>4. CASE font.attrs # {} /\ ~document.pack_font_elt
  <2>. DEFINE attrs == SetToSeq(font.attrs)
              ds == [i \in DOMAIN attrs |-> Frame(Blank, m, {attrs[i]})]
              n == Cardinality(font.attrs)
  <2>1. Dummies(font, m) = ds
    BY <1>4, Zenon DEF Dummies, Blank
  <2>2. IsFiniteSet(font.attrs)
    BY <1>1, AttributesAssumption, FS_Subset
  <2>3. attrs \in [1..n -> font.attrs] /\ n \in Nat /\ \A a \in font.attrs : \E i \in 1..n : attrs[i] = a
    BY <2>2, SequenceOfSet, SequenceHasAll
  <2>. HIDE DEF attrs, n
  <2>4. DOMAIN ds = 1..n /\ Len(ds) = n /\ \A i \in 1..n : ds[i].hi = {attrs[i]}
    BY <2>3 DEF Frame
  <2>. HIDE DEF ds
  <2>5. UNION { ds[i].hi : i \in 1..n } = font.attrs
    BY <2>3, <2>4
  <2>. QED
    BY <2>1, <2>4, <2>5 DEF Show
<1>. QED
  BY <1>2, <1>3, <1>4

-----------------------------------------------------------------------------
(* Outputs whose text is in its font *)
\* The font is selected, and the text in the buffer is in this font.
Texts(s) ==
  /\ s.font.attrs = s.font.packed /\ s.font.old = s.font.packed
  /\ s.buffer \subseteq {s.font.packed} /\ ~s.misplaced

\* In a paragraph the font shows, and there is no text outside.
Right(s) ==
  /\ Texts(s) /\ Shows(s.frames, Len(s.frames), s.font.packed)
  /\ s.mode = "v" => s.buffer = {}

\* t has the frames of s up to the last one of a command, and the same font.
Kept(s, t) ==
  /\ Elems(C(t)) = Elems(C(s))
  /\ \A i \in Elems(C(s)) : \A j \in 1..i : t.frames[j] = s.frames[j]
SameFont(s, t) == t.font.packed = s.font.packed /\ t.font.level = s.font.level

\* t has the frames of s, but for the dummies on top.
Redrawn(s, t) ==
  Alike(s, t) /\ \A j \in 1..Top(C(s)) : t.frames[j] = s.frames[j]

\* These relations compose.
LEMMA KeptTrans ==
  ASSUME NEW s, NEW t, NEW u
  PROVE  /\ Kept(s, s) /\ SameFont(s, s)
         /\ Kept(s, t) /\ Kept(t, u) => Kept(s, u)
         /\ SameFont(s, t) /\ SameFont(t, u) => SameFont(s, u)
         /\ Redrawn(s, t) /\ Redrawn(t, u) => Redrawn(s, u)
         /\ IsOutput(s) => Redrawn(s, s)
<1>1. Redrawn(s, t) /\ Redrawn(t, u) => Redrawn(s, u)
  BY DEF Redrawn, Alike
<1>2. IsOutput(s) => Redrawn(s, s)
  BY DEF Redrawn, Alike
<1>3. Kept(s, t) /\ Kept(t, u) => Kept(s, u)
  BY DEF Kept
<1>. QED
  BY <1>1, <1>2, <1>3 DEF Kept, SameFont

\* Other dummies leave the frames of the commands.
LEMMA RedrawnKept ==
  ASSUME NEW s, NEW t, IsOutput(s), Redrawn(s, t)
  PROVE  /\ IsOutput(t) /\ Kept(s, t) /\ C(t) = C(s)
         /\ \A v : Shows(s.frames, Top(C(s)), v) => Shows(t.frames, Top(C(t)), v)
         /\ Sound(s) => Sound(t)
         /\ Settled(s) => Settled(t)
<1>1. Alike(s, t) /\ C(t) = C(s) /\ IsOutput(t)
  BY DEF Redrawn, Alike
<1>2. IsCore(C(s))
  BY CoreOfStack DEF IsOutput, C
<1>3. Top(C(s)) \in Nat /\ \A i \in DOMAIN C(s) : i <= Top(C(s)) /\ i \in Nat
  BY <1>2, TopIsGreatest, CorePositions
<1>4. Kept(s, t)
  <2>1. \A i \in Elems(C(s)) : i \in DOMAIN C(s)
    BY DEF Elems
  <2>2. \A i \in Elems(C(s)) : \A j \in 1..i : j \in 1..Top(C(s))
    BY <1>3, <2>1
  <2>. QED
    BY <1>1, <2>2 DEF Kept, Redrawn
<1>5. \A v : Shows(s.frames, Top(C(s)), v) => Shows(t.frames, Top(C(t)), v)
  BY <1>1, ShowsSame DEF Redrawn
<1>. QED
  BY <1>1, <1>4, <1>5, AlikeSound

\* What Block and Shown say.
LEMMA BlockIs ==
  ASSUME NEW s, Sound(s), NEW v, Shows(s.frames, Len(s.frames), v)
  PROVE  Block(s) = "p" => Shown(s) = v
<1>. DEFINE fs == s.frames
            n == Len(fs)
            P(i) == fs[i].frame \notin Inline /\ \A j \in i + 1 .. n : fs[j].frame \in Inline
            S == { i \in 1..n : fs[i].frame \notin Inline }
            b == TopNotIn(fs, Inline)
<1>1. IsStack(fs) /\ Starts(C(s))
  BY DEF Sound, IsOutput, Nested
<1>2. n \in Nat /\ DOMAIN fs = 1..n /\ 1 \in Solid(fs) /\ 1 \in 1..n
  BY <1>1, StackAt
<1>3. fs[1].frame = "document"
  BY <1>1, <1>2, CoreOfStack DEF Starts, C
<1>4. "document" \notin Inline
  <2>1. "document" \in Names /\ "document" \notin Line
    BY DEF Names, Line
  <2>. QED
    BY <2>1, InlineIs, BlankIsOther
<1>5. b = CHOOSE i \in DOMAIN fs : P(i)
  BY DEF TopNotIn
<1>. HIDE DEF b, fs, n
<1>6. S # {} /\ S \in SUBSET (1..n)
  BY <1>2, <1>3, <1>4
<1>7. PICK m \in S : \A k \in S : k <= m
  BY <1>2, <1>6, GreatestPosition
<1>8. m \in DOMAIN fs /\ P(m)
  BY <1>2, <1>7
<1>9. b \in DOMAIN fs /\ P(b)
  BY <1>5, <1>8
<1>10. b \in 1..n
  BY <1>2, <1>9
<1>11. ASSUME fs[b].frame = "p" PROVE UNION { fs[i].hi : i \in b + 1..n } = v
  <2>1. \A i \in b + 1..n : fs[i].frame \in Line \cup {Blank}
    BY <1>9, InlineIs
  <2>. QED
    BY <1>10, <1>11, <2>1 DEF Shows, fs, n
<1>12. { j \in DOMAIN fs : j > b } = b + 1..n
  BY <1>2, <1>10
<1>13. Shown(s) = UNION { fs[i].hi : i \in { j \in DOMAIN fs : j > b } }
  BY DEF Shown, fs, b
<1>14. Block(s) = fs[b].frame
  BY DEF Block, fs, b
<1>. QED
  BY <1>11, <1>12, <1>13, <1>14

\* flush_buffer puts the text where its font shows.
LEMMA FlushRight ==
  ASSUME NEW s, Sound(s), Right(s)
  PROVE  /\ Right(flush_buffer(s)) /\ flush_buffer(s).buffer = {}
         /\ flush_buffer(s).font = s.font /\ flush_buffer(s).mode = s.mode
         /\ flush_buffer(s).frames = s.frames
         /\ Redrawn(s, flush_buffer(s)) /\ Sound(flush_buffer(s))
         /\ Settled(s) => Settled(flush_buffer(s))
<1>. DEFINE b == s.misplaced \/ (Block(s) = "p" /\ \E f \in s.buffer : f # Shown(s))
            t == [s EXCEPT !.buffer = {}, !.misplaced = b]
<1>1. flush_buffer(s) = t
  BY DEF flush_buffer
<1>2. s \in Output /\ IsOutput(s)
  BY DEF Sound, IsOutput
<1>3. b = FALSE
  <2>1. Block(s) = "p" => Shown(s) = s.font.packed
    BY BlockIs DEF Right
  <2>. QED
    BY <2>1 DEF Right, Texts
<1>. HIDE DEF b
<1>4. /\ t.frames = s.frames /\ t.font = s.font /\ t.mode = s.mode
      /\ t.buffer = {} /\ t.misplaced = FALSE
  BY <1>2, <1>3 DEF Output
<1>5. Alike(s, t)
  BY <1>1, <1>2, FlushAlike
<1>. HIDE DEF t
<1>6. Right(t)
  BY <1>4 DEF Right, Texts
<1>7. Redrawn(s, t)
  BY <1>4, <1>5 DEF Redrawn
<1>. QED
  BY <1>1, <1>2, <1>4, <1>6, <1>7, RedrawnKept

\* check_font shows the font, on top of a part of a line that has it.
LEMMA CheckRight ==
  ASSUME NEW s, IsOutput(s), Texts(s), s.mode = "v" => s.buffer = {},
         TopName(C(s)) \in Line => Shows(s.frames, Top(C(s)), s.font.packed)
  PROVE  /\ Right(check_font(s)) /\ Redrawn(s, check_font(s)) /\ SameFont(s, check_font(s))
         /\ check_font(s).buffer = s.buffer /\ check_font(s).mode = s.mode
<1>1. s \in Output /\ IsStack(s.frames) /\ s.font \in FontType /\ s.mode \in Modes
  BY OutputFont DEF IsOutput
<1>. DEFINE ds == Dummies(s.font, s.mode)
            g == Trimmed(s.frames) \o ds
            f == [s.font EXCEPT !.stackval = TRUE]
            t == [s EXCEPT !.frames = g, !.font = f]
<1>2. TopNotIn(s.frames, {" "}) = TopNotIn(s.frames, {Blank})
  BY Zenon DEF Blank
<1>3. NoDummies(s).frames = Trimmed(s.frames)
  <2>1. NoDummies(s) = [s EXCEPT !.frames = SubSeq(@, 1, TopNotIn(@, {Blank}))]
    BY <1>2, Zenon DEF NoDummies, Blank
  <2>. QED
    BY <1>1, <2>1 DEF Trimmed, Output
<1>4. check_font(s) = t
  BY <1>3 DEF check_font
<1>5. Dummy(ds) /\ Show(ds, s.font.attrs)
  BY <1>1, DummiesShow, DummiesAll
<1>6. s.font.attrs = s.font.packed
  BY DEF Texts
<1>. HIDE DEF ds
<1>7. /\ Shows(g, Len(g), s.font.packed)
      /\ \A j \in 1..Top(C(s)) : g[j] = s.frames[j]
  BY <1>1, <1>5, <1>6, ShowsChecked DEF C
<1>. HIDE DEF g
<1>8. /\ f.packed = s.font.packed /\ f.attrs = s.font.attrs /\ f.old = s.font.old /\ f.level = s.font.level
  BY <1>1 DEF FontType
<1>. HIDE DEF f
<1>9. /\ t.frames = g /\ t.font = f /\ t.mode = s.mode /\ t.buffer = s.buffer /\ t.misplaced = s.misplaced
  BY <1>1 DEF Output
<1>. HIDE DEF t
<1>10. Right(t)
  BY <1>7, <1>8, <1>9 DEF Right, Texts
<1>11. Alike(s, check_font(s))
  BY CheckFontAlike
<1>12. Redrawn(s, t)
  BY <1>4, <1>7, <1>9, <1>11 DEF Redrawn
<1>. QED
  BY <1>4, <1>8, <1>9, <1>10, <1>12 DEF SameFont

\* What pop leaves.
LEMMA PopIs ==
  ASSUME NEW s, Sound(s), NEW n, n = TopName(C(s)), n # "document"
  PROVE  /\ Len(pop(s, n).frames) = Top(C(s)) - 1 /\ Top(C(s)) \in Nat \ {0, 1}
         /\ \A j \in 1..Top(C(s)) - 1 : pop(s, n).frames[j] = s.frames[j]
         /\ pop(s, n).buffer = s.buffer /\ pop(s, n).misplaced = s.misplaced
         /\ pop(s, n).font.packed = s.font.packed /\ pop(s, n).font.attrs = s.font.attrs
         /\ pop(s, n).font.old = s.font.old /\ pop(s, n).font.level = s.font.level
         /\ Elems(C(pop(s, n))) = Elems(C(s)) \ {Top(C(s))}
<1>0. s \in Output /\ IsStack(s.frames) /\ s.mode \in Modes /\ Nested(C(s)) /\ ~s.badpop
  BY OutputFont DEF IsOutput, Sound
<1>. DEFINE c == C(s)
            T == Top(c)
            g == Trimmed(s.frames)
            h == Front(g)
            f == [s.font EXCEPT !.stackval = @ /\ Last(s.frames).frame # Blank]
            t == [s EXCEPT !.frames = g, !.font = f]
            u == [s EXCEPT !.frames = h, !.font = f, !.mode = Last(g).md]
<1>1. /\ IsStack(g) /\ Core(g) = c /\ Len(g) = T /\ Last(g).frame = TopName(c)
  BY <1>0, TrimmedCore DEF C
<1>2. T # 1
  BY <1>0, NestedRest
<1>3. Core(h) = Rest(c)
  BY <1>1, <1>2, FrontCore
<1>4. pop(s, n) = u
  <2>1. NoDummies(s) = [s EXCEPT !.frames = g]
    BY Zenon DEF NoDummies, Trimmed, Blank
  <2>2. [NoDummies(s) EXCEPT !.font.stackval = @ /\ Last(s.frames).frame # Blank] = t
    BY <1>0, <2>1 DEF Output
  <2>3. t.frames = g
    BY <1>0 DEF Output
  <2>4. pop(s, n) = IF Last(t.frames).frame # n THEN [t EXCEPT !.badpop = TRUE]
                    ELSE [t EXCEPT !.frames = Front(@), !.mode = Last(t.frames).md]
    <3>1. pop(s, n) = Pop([NoDummies(s) EXCEPT !.font.stackval = @ /\ Last(s.frames).frame # " "], n)
      BY Zenon DEF pop, Pop
    <3>2. pop(s, n) = Pop([NoDummies(s) EXCEPT !.font.stackval = @ /\ Last(s.frames).frame # Blank], n)
      BY <3>1, Zenon DEF Blank
    <3>. HIDE DEF t
    <3>. QED
      BY <2>2, <3>2 DEF Pop
  <2>5. pop(s, n) = [t EXCEPT !.frames = Front(@), !.mode = Last(t.frames).md]
    BY <1>1, <2>3, <2>4
  <2>. QED
    BY <1>0, <2>3, <2>5 DEF Output
<1>5. g \in Seq(FrameType) /\ g # <<>> /\ T \in Nat
  BY <1>1, StackAt DEF IsStack
<1>6. Len(h) = T - 1 /\ \A j \in 1..T - 1 : h[j] = g[j]
  BY <1>1, <1>5, PoppedAt
<1>7. \A j \in 1..T - 1 : g[j] = s.frames[j]
  <2>0. T \in 1..Len(s.frames) /\ TopNotIn(s.frames, {Blank}) = T
    BY <1>0, TopIsTop DEF C
  <2>1. 1 \in Int /\ T \in Int /\ \A i \in 1..T : s.frames[i] \in FrameType
    <3>1. Len(s.frames) \in Nat /\ \A i \in 1..Len(s.frames) : s.frames[i] \in FrameType
      BY <1>0, StackAt
    <3>. QED
      BY <1>5, <2>0, <3>1
  <2>2. g = SubSeq(s.frames, 1, T)
    BY <2>0 DEF Trimmed
  <2>3. \A i \in 1 .. T - 1 + 1 : g[i] = s.frames[1 + i - 1]
    BY ONLY <2>1, <2>2, SubSeqProperties
  <2>4. \A i \in 1..T - 1 : 1 + i - 1 = i /\ i \in 1 .. T - 1 + 1
    BY <1>5
  <2>. HIDE DEF T, g
  <2>. QED
    BY <2>3, <2>4
<1>8. /\ f.packed = s.font.packed /\ f.attrs = s.font.attrs /\ f.old = s.font.old /\ f.level = s.font.level
  BY <1>0 DEF FontType, Output
<1>9. T # 0
  BY <1>1, <1>5
<1>. HIDE DEF g, h, f, T
<1>10. /\ u.frames = h /\ u.font = f /\ u.buffer = s.buffer /\ u.misplaced = s.misplaced
  BY <1>0 DEF Output
<1>. HIDE DEF u
<1>11. Elems(C(u)) = Elems(C(s)) \ {T}
  <2>1. C(u) = Rest(c)
    BY <1>3, <1>10 DEF C
  <2>. QED
    BY <2>1 DEF Rest, Elems, T
<1>. QED
  BY <1>2, <1>4, <1>5, <1>6, <1>7, <1>8, <1>9, <1>10, <1>11 DEF T, c

-----------------------------------------------------------------------------
(* The helpers of the commands keep the text in its font *)
\* The parts of an output after a change of its font or its mode.
LEMMA PartsWith ==
  ASSUME NEW s, IsOutput(s)
  PROVE  /\ \A m : /\ [s EXCEPT !.mode = m].frames = s.frames /\ [s EXCEPT !.mode = m].font = s.font
                   /\ [s EXCEPT !.mode = m].buffer = s.buffer /\ [s EXCEPT !.mode = m].mode = m
                   /\ [s EXCEPT !.mode = m].misplaced = s.misplaced
         /\ \A f : /\ [s EXCEPT !.font = f].frames = s.frames /\ [s EXCEPT !.font = f].font = f
                   /\ [s EXCEPT !.font = f].buffer = s.buffer /\ [s EXCEPT !.font = f].mode = s.mode
                   /\ [s EXCEPT !.font = f].misplaced = s.misplaced
BY DEF IsOutput, Output

\* What push leaves.
LEMMA PushIs ==
  ASSUME NEW s, Sound(s), NEW n \in Names, FitsOn(TopName(C(s)), n, s.mode)
  PROVE  /\ Len(push(s, n).frames) = Len(s.frames) + 1 /\ Len(s.frames) \in Nat
         /\ \A j \in 1..Len(s.frames) : push(s, n).frames[j] = s.frames[j]
         /\ push(s, n).frames[Len(s.frames) + 1] = Frame(n, s.mode, {})
         /\ Top(C(push(s, n))) = Len(s.frames) + 1
         /\ \A i \in Elems(C(s)) : i \in 1..Len(s.frames)
         /\ n \notin Kinds => Elems(C(push(s, n))) = Elems(C(s))
         /\ n \in Kinds => Elems(C(push(s, n))) = Elems(C(s)) \cup {Len(s.frames) + 1}
         /\ push(s, n).buffer = s.buffer /\ push(s, n).misplaced = s.misplaced
         /\ push(s, n).font = s.font /\ push(s, n).mode = s.mode
<1>0. s \in Output /\ IsStack(s.frames) /\ s.mode \in Modes /\ Nested(C(s))
  BY OutputFont DEF IsOutput, Sound
<1>. DEFINE f == Frame(n, s.mode, {})
            g == Append(s.frames, f)
            u == push(s, n)
            p == Len(s.frames) + 1
            d == Core(g)
<1>1. f \in FrameType /\ f.frame = n /\ f.md = s.mode /\ n # Blank
  BY <1>0, BlankIsOther DEF Frame, FrameType
<1>3. u = [s EXCEPT !.frames = g]
  BY DEF push
<1>. HIDE DEF f
<1>2. /\ IsStack(g) /\ Pushed(C(s), d, p)
      /\ d[p] = [frame |-> f.frame, md |-> f.md]
      /\ d \in [DOMAIN d -> [frame : Names, md : Modes]]
  BY <1>0, <1>1, AppendCore DEF C
<1>4. s.frames \in Seq(FrameType)
  BY <1>0 DEF IsStack
<1>5. /\ Len(s.frames) \in Nat /\ Len(g) = Len(s.frames) + 1 /\ g[Len(s.frames) + 1] = f
      /\ \A j \in 1..Len(s.frames) : g[j] = s.frames[j]
  BY <1>1, <1>4, PushedAt
<1>. HIDE DEF g, u, d
<1>6. /\ u.frames = g /\ u.mode = s.mode /\ u.font = s.font /\ u.buffer = s.buffer /\ u.misplaced = s.misplaced
  BY <1>0, <1>3 DEF Output
<1>7. d[p].frame = n /\ d[p].md = s.mode
  BY <1>1, <1>2
<1>8. FitsOn(TopName(C(s)), d[p].frame, d[p].md)
  BY <1>7
<1>9. Top(d) = p
  BY <1>0, <1>2, <1>8, NestedPush
<1>10. C(u) = d
  BY <1>6 DEF C, d
<1>11. IsCore(C(s))
  BY <1>0 DEF Nested
<1>12. /\ n \notin Kinds => Elems(d) = Elems(C(s))
       /\ n \in Kinds => Elems(d) = Elems(C(s)) \cup {p}
  BY <1>2, <1>7, <1>11, ElemsPushed
<1>13. \A i \in Elems(C(s)) : i \in 1..Len(s.frames)
  BY <1>0, CoreOfStack, StackAt DEF Elems, C, Solid
<1>. QED
  BY <1>5, <1>6, <1>9, <1>10, <1>12, <1>13 DEF u, f

\* A paragraph is pushed: the font shows in it.
LEMMA PushParRight ==
  ASSUME NEW s, Sound(s), s.mode = "v", TopName(C(s)) \in VTops, Texts(s)
  PROVE  Right(push_par(s)) /\ Kept(s, push_par(s)) /\ SameFont(s, push_par(s)) /\ push_par(s).buffer = s.buffer
<1>. DEFINE t == push(s, "p")
            u == [t EXCEPT !.mode = "h"]
<1>0. "p" \in Names /\ "p" \notin Kinds /\ "p" \notin Divs /\ "h" \in Modes
  BY DivIsOther DEF Names, Kinds, Modes
<1>1. FitsOn(TopName(C(s)), "p", s.mode)
  BY <1>0 DEF FitsOn
<1>2. Sound(t) /\ TopName(C(t)) = "p"
  BY <1>0, <1>1, PushOutput
<1>3. /\ \A j \in 1..Len(s.frames) : t.frames[j] = s.frames[j]
      /\ Elems(C(t)) = Elems(C(s)) /\ \A i \in Elems(C(s)) : i \in 1..Len(s.frames)
      /\ Len(s.frames) \in Nat
      /\ t.font = s.font /\ t.buffer = s.buffer /\ t.misplaced = s.misplaced
  BY <1>0, <1>1, PushIs
<1>4. push_par(s) = check_font(u)
  BY DEF push_par
<1>. HIDE DEF t
<1>5. IsOutput(u) /\ u.mode = "h" /\ C(u) = C(t)
  BY <1>0, <1>2, WithMode DEF Sound
<1>6. u.frames = t.frames /\ u.font = t.font /\ u.buffer = t.buffer /\ u.misplaced = t.misplaced
  BY <1>2, PartsWith DEF Sound
<1>. HIDE DEF u
<1>7. Texts(u)
  BY <1>3, <1>6 DEF Texts
<1>8. TopName(C(u)) \notin Line
  BY <1>2, <1>5, InlineIs
<1>9. "h" # "v"
  OBVIOUS
<1>10. /\ Right(check_font(u)) /\ Redrawn(u, check_font(u)) /\ SameFont(u, check_font(u))
       /\ check_font(u).buffer = u.buffer
  BY <1>5, <1>7, <1>8, <1>9, CheckRight
<1>11. Kept(s, u)
  <2>1. \A i \in Elems(C(s)) : \A j \in 1..i : j \in 1..Len(s.frames)
    BY <1>3
  <2>. QED
    BY <1>3, <1>5, <1>6, <2>1 DEF Kept
<1>12. SameFont(s, u)
  BY <1>3, <1>6 DEF SameFont
<1>13. Kept(u, check_font(u))
  BY <1>5, <1>10, RedrawnKept
<1>14. Kept(s, check_font(u)) /\ SameFont(s, check_font(u))
  BY <1>10, <1>11, <1>12, <1>13, KeptTrans
<1>. QED
  BY <1>3, <1>4, <1>6, <1>10, <1>14

\* leave_v_mode: the text of the buffer stays where it is, and a paragraph may begin.
LEMMA LeaveVRight ==
  ASSUME NEW s, Settled(s), Right(s)
  PROVE  /\ Right(leave_v_mode(s)) /\ Kept(s, leave_v_mode(s)) /\ SameFont(s, leave_v_mode(s))
         /\ leave_v_mode(s).buffer = {}
<1>. DEFINE t == flush_buffer(s)
<1>1. /\ Right(t) /\ t.buffer = {} /\ t.font = s.font /\ Redrawn(s, t) /\ Sound(t) /\ Settled(t)
      /\ t.mode = s.mode /\ IsOutput(s)
  BY FlushRight DEF Settled, Sound
<1>2. leave_v_mode(s) = IF t.mode = "v" THEN push_par(t) ELSE t
  BY DEF leave_v_mode
<1>. HIDE DEF t
<1>3. Kept(s, t) /\ SameFont(s, t)
  BY <1>1, RedrawnKept DEF SameFont
<1>4. ASSUME t.mode = "v"
      PROVE  /\ Right(push_par(t)) /\ Kept(t, push_par(t)) /\ SameFont(t, push_par(t)) /\ push_par(t).buffer = {}
  <2>1. TopName(C(t)) \in VTops
    BY <1>1, <1>4, TopIsName, ModeTells DEF Settled
  <2>. QED
    BY <1>1, <1>4, <2>1, PushParRight DEF Right
<1>5. CASE t.mode = "v"
  BY <1>2, <1>3, <1>4, <1>5, KeptTrans
<1>6. CASE t.mode # "v"
  BY <1>1, <1>2, <1>3, <1>6
<1>. QED
  BY <1>5, <1>6

\* An element of the structure is popped, when there is no text in the buffer.
LEMMA PopStructureRight ==
  ASSUME NEW s, Sound(s), Texts(s), s.buffer = {}, NEW n, n = TopName(C(s)), n \in {"p", "item"} \cup Divs
  PROVE  Right(pop(s, n)) /\ Kept(s, pop(s, n)) /\ SameFont(s, pop(s, n)) /\ pop(s, n).buffer = {}
<1>. DEFINE t == pop(s, n)
            p == Top(C(s))
<1>0. n # "document" /\ n \notin Kinds /\ "list" \notin Divs /\ IsCore(C(s)) /\ IsOutput(s)
  BY TopIsName, DivIsOther DEF Kinds
<1>1. /\ Len(t.frames) = p - 1 /\ p \in Nat \ {0, 1}
      /\ \A j \in 1..p - 1 : t.frames[j] = s.frames[j]
      /\ t.buffer = s.buffer /\ t.misplaced = s.misplaced
      /\ t.font.packed = s.font.packed /\ t.font.attrs = s.font.attrs
      /\ t.font.old = s.font.old /\ t.font.level = s.font.level
      /\ Elems(C(t)) = Elems(C(s)) \ {p}
  BY <1>0, PopIs
<1>2. Sound(t) /\ FitsOn(TopName(C(t)), n, t.mode)
  BY <1>0, PopOutput
<1>3. p \notin Elems(C(s)) /\ \A i \in Elems(C(s)) : i \in Nat /\ i < p
  <2>1. p \in DOMAIN C(s) /\ \A i \in DOMAIN C(s) : i <= p /\ i \in Nat
    BY <1>0, TopIsGreatest, CorePositions
  <2>2. C(s)[p].frame = n
    BY DEF TopName
  <2>. QED
    BY <1>0, <1>1, <2>1, <2>2 DEF Elems
<1>. HIDE DEF t, p
<1>4. Kept(s, t)
  <2>1. \A i \in Elems(C(s)) : \A j \in 1..i : j \in 1..p - 1
    BY <1>1, <1>3
  <2>. QED
    BY <1>1, <1>3, <2>1 DEF Kept
<1>5. TopName(C(t)) \in VTops
  BY <1>0, <1>2 DEF FitsOn, VTops
<1>6. TopName(C(t)) \notin Line \cup {"p"}
  BY <1>5, DivIsOther DEF VTops, Line, Kinds
<1>7. Shows(t.frames, Len(t.frames), t.font.packed)
  BY <1>2, <1>6, ShowsOutside DEF Sound, IsOutput, C
<1>8. Right(t)
  BY <1>1, <1>7 DEF Right, Texts
<1>. QED
  BY <1>1, <1>4, <1>8 DEF SameFont, t

\* leave_h_mode: the text of the buffer goes to the paragraph that ends.
LEMMA LeaveHRight ==
  ASSUME NEW s, Settled(s), Right(s), s.mode = "h" => TopName(C(s)) = "p"
  PROVE  /\ Right(leave_h_mode(s)) /\ Kept(s, leave_h_mode(s)) /\ SameFont(s, leave_h_mode(s))
         /\ s.buffer = {} => leave_h_mode(s).buffer = {}
         /\ leave_h_mode(s).mode = "v" => leave_h_mode(s).buffer = {}
<1>. DEFINE t == flush_buffer(s)
            u == pop(t, "p")
<1>1. /\ Right(t) /\ t.buffer = {} /\ t.font = s.font /\ Redrawn(s, t) /\ Sound(t) /\ IsOutput(s)
  BY FlushRight DEF Settled, Sound
<1>2. leave_h_mode(s) = IF s.mode = "h" THEN u ELSE s
  BY DEF leave_h_mode
<1>. HIDE DEF t
<1>3. Kept(s, t) /\ SameFont(s, t) /\ C(t) = C(s)
  BY <1>1, RedrawnKept DEF SameFont
<1>4. CASE s.mode # "h"
  BY <1>2, <1>4, KeptTrans DEF Right
<1>5. CASE s.mode = "h"
  <2>1. Right(u) /\ Kept(t, u) /\ SameFont(t, u) /\ u.buffer = {}
    BY <1>1, <1>3, <1>5, PopStructureRight DEF Right
  <2>. HIDE DEF u
  <2>2. Kept(s, u) /\ SameFont(s, u)
    BY <1>3, <2>1, KeptTrans
  <2>. QED
    BY <1>2, <1>5, <2>1, <2>2
<1>. QED
  BY <1>4, <1>5

\* In a list, paragraph and item end.
LEMMA LeaveItemRight ==
  ASSUME NEW s, Settled(s), Right(s), InnerIs(C(s), "list")
  PROVE  /\ Right(LeaveItem(s)) /\ Kept(s, LeaveItem(s)) /\ SameFont(s, LeaveItem(s))
         /\ s.buffer = {} => LeaveItem(s).buffer = {}
<1>. DEFINE t == leave_h_mode(s)
            u == pop(t, "item")
<1>0. Sound(s) /\ Nested(C(s)) /\ s.mode \in Modes
  BY TopIsName DEF Settled
<1>1. TopName(C(s)) \in {"list", "item", "p"}
  BY <1>0, AboveInner
<1>2. s.mode = "h" => TopName(C(s)) = "p"
  <2>1. ModeFits(TopName(C(s)), s.mode)
    BY DEF Settled
  <2>2. "item" \in Names /\ "list" \in Names
    BY DEF Names, Kinds
  <2>. QED
    BY <1>0, <1>1, <2>1, <2>2, ModeTells
<1>3. Settled(t) /\ Sound(t) /\ IsOutput(t)
  BY <1>2, LeaveHSettled DEF Settled, Sound
<1>4. /\ Right(t) /\ Kept(s, t) /\ SameFont(s, t) /\ (s.buffer = {} => t.buffer = {})
      /\ t.mode = "v" => t.buffer = {}
  BY <1>2, LeaveHRight
<1>5. LeaveItem(s) = pop_if_frame(t, "item")
  BY DEF LeaveItem
<1>. HIDE DEF t
<1>6. LeaveItem(s) = IF TopName(C(t)) = "item" THEN u ELSE t
  BY <1>3, <1>5, FirstFrameIsTop DEF pop_if_frame
<1>7. CASE TopName(C(t)) = "item"
  <2>1. t.mode = "v"
    <3>1. ModeFits("item", t.mode) /\ t.mode \in Modes /\ "item" \in Names
      BY <1>3, <1>7, TopIsName DEF Settled, Names
    <3>. QED
      BY <3>1, ModeTells
  <2>2. Right(u) /\ Kept(t, u) /\ SameFont(t, u) /\ u.buffer = {}
    BY <1>3, <1>4, <1>7, <2>1, PopStructureRight DEF Right
  <2>. HIDE DEF u
  <2>3. Kept(s, u) /\ SameFont(s, u)
    BY <1>4, <2>2, KeptTrans
  <2>. QED
    BY <1>6, <1>7, <2>2, <2>3
<1>8. CASE TopName(C(t)) # "item"
  BY <1>4, <1>6, <1>8
<1>. QED
  BY <1>7, <1>8

\* An item starts; what is in the buffer goes to its paragraph.
LEMMA StartItemRight ==
  ASSUME NEW s, Sound(s), TopName(C(s)) = "list", s.mode # "h", Texts(s)
  PROVE  Right(StartItem(s)) /\ Kept(s, StartItem(s)) /\ SameFont(s, StartItem(s))
<1>. DEFINE t == push(s, "item")
            u == [t EXCEPT !.mode = "v"]
<1>0. "item" \in Names /\ "item" \notin Kinds /\ "item" \notin Divs /\ "v" \in Modes /\ "item" \in VTops
  BY DivIsOther DEF Names, Kinds, Modes, VTops
<1>1. FitsOn(TopName(C(s)), "item", s.mode)
  BY <1>0 DEF FitsOn
<1>2. Sound(t) /\ TopName(C(t)) = "item"
  BY <1>0, <1>1, PushOutput
<1>3. /\ \A j \in 1..Len(s.frames) : t.frames[j] = s.frames[j]
      /\ Elems(C(t)) = Elems(C(s)) /\ \A i \in Elems(C(s)) : i \in 1..Len(s.frames)
      /\ Len(s.frames) \in Nat
      /\ t.font = s.font /\ t.buffer = s.buffer /\ t.misplaced = s.misplaced
  BY <1>0, <1>1, PushIs
<1>4. StartItem(s) = finish_par_cmd(u)
  BY DEF StartItem
<1>. HIDE DEF t
<1>5. IsOutput(u) /\ u.mode = "v" /\ C(u) = C(t) /\ u.badpop = t.badpop
  BY <1>0, <1>2, WithMode DEF Sound
<1>6. u.frames = t.frames /\ u.font = t.font /\ u.buffer = t.buffer /\ u.misplaced = t.misplaced
  BY <1>2, PartsWith DEF Sound
<1>. HIDE DEF u
<1>7. Sound(u) /\ TopName(C(u)) \in VTops
  BY <1>0, <1>2, <1>5 DEF Sound
<1>8. "v" # "h"
  OBVIOUS
<1>9. finish_par_cmd(u) = push_par(u)
  BY <1>5, <1>8 DEF finish_par_cmd, leave_h_mode
<1>10. Texts(u) /\ SameFont(s, u)
  BY <1>3, <1>6 DEF Texts, SameFont
<1>11. Right(push_par(u)) /\ Kept(u, push_par(u)) /\ SameFont(u, push_par(u))
  BY <1>5, <1>7, <1>10, PushParRight
<1>12. Kept(s, u)
  <2>1. \A i \in Elems(C(s)) : \A j \in 1..i : j \in 1..Len(s.frames)
    BY <1>3
  <2>. QED
    BY <1>3, <1>5, <1>6, <2>1 DEF Kept
<1>13. Kept(s, push_par(u)) /\ SameFont(s, push_par(u))
  BY <1>10, <1>11, <1>12, KeptTrans
<1>. QED
  BY <1>4, <1>9, <1>11, <1>13

\* Divisions are popped.
LEMMA ParaAuxRight ==
  ASSUME NEW s, Settled(s), s.mode = "v", InnerIs(C(s), "none"), NEW y \in 0..MaxDiv, Right(s)
  PROVE  /\ Right(para_aux(s, y)) /\ Kept(s, para_aux(s, y)) /\ SameFont(s, para_aux(s, y))
         /\ para_aux(s, y).buffer = {}
<1>. DEFINE N == MaxDiv + 1 - y
            Q(t) == Sound(t) /\ Right(t) /\ t.buffer = {} /\ Kept(s, t) /\ SameFont(s, t)
            V == { t \in Output : Q(t) }
<1>1. N \in Nat /\ \A n \in 1..N : Div(MaxDiv + 1 - n) \in Divs
  BY ParaAuxSteps DEF Settled
<1>2. PICK R : /\ R[0] = s
               /\ \A n \in 1..N : R[n] = pop_if_frame(R[n - 1], Div(MaxDiv + 1 - n))
               /\ para_aux(s, y) = R[N]
  BY ParaAuxSteps DEF Settled
<1>3. s \in V
  BY KeptTrans DEF Settled, Sound, IsOutput, Right
<1>4. \A t \in V, d \in Divs : pop_if_frame(t, d) \in V
  <2>. TAKE t \in V, d \in Divs
  <2>. DEFINE u == pop(t, d)
  <2>0. Sound(t) /\ IsOutput(t) /\ Right(t) /\ t.buffer = {} /\ Kept(s, t) /\ SameFont(s, t)
    BY DEF Sound
  <2>1. pop_if_frame(t, d) = IF TopName(C(t)) = d THEN u ELSE t
    BY <2>0, FirstFrameIsTop DEF pop_if_frame
  <2>2. ASSUME TopName(C(t)) = d PROVE u \in V
    <3>1. d # "document"
      BY DivIsOther
    <3>2. Sound(u) /\ IsOutput(u)
      BY <2>0, <2>2, <3>1, PopOutput DEF Sound
    <3>3. Right(u) /\ Kept(t, u) /\ SameFont(t, u) /\ u.buffer = {}
      BY <2>0, <2>2, PopStructureRight DEF Right
    <3>. HIDE DEF u
    <3>4. Kept(s, u) /\ SameFont(s, u)
      BY <2>0, <3>3, KeptTrans
    <3>. QED
      BY <3>2, <3>3, <3>4 DEF IsOutput
  <2>. QED
    BY <2>1, <2>2
<1>5. \A n \in 1..N : R[n - 1] \in V => R[n] \in V
  BY <1>1, <1>2, <1>4
<1>6. \A t \in V : Right(t) /\ t.buffer = {} /\ Kept(s, t) /\ SameFont(s, t)
  OBVIOUS
<1>. HIDE DEF V, N
<1>7. R[N] \in V
  <2>1. R[0] \in V
    BY <1>2, <1>3
  <2>. QED
    BY ONLY <1>1, <2>1, <1>5, RecursionStays
<1>. QED
  BY <1>2, <1>6, <1>7

-----------------------------------------------------------------------------
(* The changes of the font *)
Current(s) == [level |-> s.font.level, val |-> s.font.packed]

\* An output whose frames show its selected font, once it is the old one as well.
Ready(s) ==
  /\ s.font.attrs = s.font.packed /\ s.buffer \subseteq {s.font.packed} /\ ~s.misplaced
  /\ s.mode = "v" => s.buffer = {}
  /\ Shows(s.frames, Len(s.frames), s.font.packed)

\* update_old ends a change of the font.
LEMMA UpdateRight ==
  ASSUME NEW s, IsOutput(s), Ready(s)
  PROVE  /\ Right(update_old(s)) /\ Redrawn(s, update_old(s)) /\ Current(update_old(s)) = Current(s)
         /\ update_old(s).mode = s.mode /\ update_old(s).buffer = s.buffer
<1>. DEFINE f == [s.font EXCEPT !.old = s.font.packed]
            t == [s EXCEPT !.font = f]
<1>1. s \in Output /\ s.font \in FontType
  BY OutputFont DEF IsOutput
<1>2. update_old(s) = t
  BY <1>1 DEF update_old, Output
<1>3. /\ f.attrs = s.font.attrs /\ f.packed = s.font.packed /\ f.old = s.font.packed /\ f.level = s.font.level
  BY <1>1 DEF FontType
<1>. HIDE DEF f
<1>4. t.frames = s.frames /\ t.font = f /\ t.mode = s.mode /\ t.buffer = s.buffer /\ t.misplaced = s.misplaced
  BY PartsWith
<1>5. Alike(s, t)
  BY <1>2, ChangedFontAlike
<1>. HIDE DEF t
<1>6. Right(t)
  BY <1>3, <1>4 DEF Ready, Right, Texts
<1>7. Redrawn(s, t) /\ Current(t) = Current(s)
  BY <1>3, <1>4, <1>5 DEF Redrawn, Current
<1>. QED
  BY <1>2, <1>4, <1>6, <1>7

\* check_font shows a font that is not yet the old one.
LEMMA CheckReady ==
  ASSUME NEW s, IsOutput(s), s.font.attrs = s.font.packed, s.buffer = {}, ~s.misplaced,
         TopName(C(s)) \in Line => Shows(s.frames, Top(C(s)), s.font.packed)
  PROVE  /\ Ready(check_font(s)) /\ Redrawn(s, check_font(s)) /\ Current(check_font(s)) = Current(s)
         /\ check_font(s).buffer = {}
<1>. DEFINE f == [s.font EXCEPT !.old = s.font.packed]
            t == [s EXCEPT !.font = f]
            u == check_font(s)
            v == check_font(t)
<1>1. s \in Output /\ s.font \in FontType /\ f \in FontType
  BY OutputFont DEF IsOutput
<1>2. /\ f.attrs = s.font.attrs /\ f.packed = s.font.packed /\ f.old = s.font.packed /\ f.level = s.font.level
      /\ [f EXCEPT !.stackval = TRUE] = [[s.font EXCEPT !.stackval = TRUE] EXCEPT !.old = s.font.packed]
  BY <1>1 DEF FontType
<1>3. IsOutput(t) /\ C(t) = C(s)
  BY <1>1, WithFont, AlikeOutput DEF Alike
<1>4. t.frames = s.frames /\ t.font = f /\ t.mode = s.mode /\ t.buffer = s.buffer /\ t.misplaced = s.misplaced
  BY PartsWith
<1>5. v.frames = u.frames
  <2>1. Dummies(t.font, t.mode) = Dummies(s.font, s.mode)
    <3>. HIDE DEF f, t
    <3>. QED
      BY <1>2, <1>4 DEF Dummies
  <2>2. NoDummies(t).frames = NoDummies(s).frames
    <3>. HIDE DEF f
    <3>1. t \in Output
      BY <1>3 DEF IsOutput
    <3>. HIDE DEF t
    <3>. QED
      BY <1>1, <1>4, <3>1 DEF NoDummies, Output
  <2>3. s \in Output /\ t \in Output
    BY <1>1, <1>3 DEF IsOutput
  <2>. HIDE DEF f, t
  <2>. QED
    BY <2>1, <2>2, <2>3 DEF check_font, Output
<1>6. /\ u.font = [s.font EXCEPT !.stackval = TRUE] /\ u.buffer = s.buffer /\ u.misplaced = s.misplaced
      /\ u.mode = s.mode
  BY <1>1 DEF check_font, Output
<1>7. Texts(t)
  <2>. HIDE DEF f, t
  <2>. QED
    BY <1>2, <1>4 DEF Texts
<1>. HIDE DEF f, t
<1>8. Right(v) /\ Redrawn(t, v) /\ SameFont(t, v)
  BY <1>2, <1>3, <1>4, <1>7, CheckRight
<1>9. Alike(s, u)
  BY CheckFontAlike
<1>. HIDE DEF u, v
<1>10. u.font.attrs = s.font.attrs /\ u.font.packed = s.font.packed /\ u.font.level = s.font.level
  BY <1>1, <1>6 DEF FontType
<1>11. Shows(u.frames, Len(u.frames), u.font.packed)
  BY <1>2, <1>4, <1>5, <1>8, <1>10 DEF Right, SameFont
<1>12. Redrawn(s, u)
  BY <1>3, <1>4, <1>5, <1>8, <1>9 DEF Redrawn
<1>. QED
  BY <1>6, <1>10, <1>11, <1>12 DEF Ready, Current, u

\* The font shows where the text goes next, when it was shown or is shown now.
LEMMA Changed1Ready ==
  ASSUME NEW s, IsOutput(s), s.font.attrs = s.font.packed, ~flush_buffer(s).misplaced,
         TopName(C(s)) \in Line => Shows(s.frames, Top(C(s)), s.font.packed),
         s.mode = "v" \/ is_ok(s.font) => Ready(s)
  PROVE  /\ Ready(font_has_changed1(s)) /\ Redrawn(s, font_has_changed1(s))
         /\ Current(font_has_changed1(s)) = Current(s)
         /\ s.buffer = {} => font_has_changed1(s).buffer = {}
<1>. DEFINE t == flush_buffer(s)
<1>1. s \in Output
  BY DEF IsOutput
<1>2. t.frames = s.frames /\ t.font = s.font /\ t.mode = s.mode /\ t.buffer = {}
  BY <1>1 DEF flush_buffer, Output
<1>3. Alike(s, t) /\ IsOutput(t) /\ C(t) = C(s) /\ ~t.misplaced
  BY FlushAlike, AlikeOutput DEF Alike
<1>4. Redrawn(s, t) /\ Current(t) = Current(s)
  BY <1>2, <1>3 DEF Redrawn, Current
<1>5. font_has_changed1(s) = IF s.mode # "v" /\ ~is_ok(s.font) THEN check_font(t) ELSE s
  BY DEF font_has_changed1
<1>. HIDE DEF t
<1>6. CASE s.mode # "v" /\ ~is_ok(s.font)
  <2>1. Ready(check_font(t)) /\ Redrawn(t, check_font(t)) /\ Current(check_font(t)) = Current(t) /\ check_font(t).buffer = {}
    BY <1>2, <1>3, CheckReady
  <2>. QED
    BY <1>4, <1>5, <1>6, <2>1, KeptTrans
<1>7. CASE s.mode = "v" \/ is_ok(s.font)
  BY <1>5, <1>7, KeptTrans
<1>. QED
  BY <1>6, <1>7

\* In vertical mode no font shows.
LEMMA VerticalShows ==
  ASSUME NEW s, Settled(s), s.mode = "v", NEW v
  PROVE  Shows(s.frames, Len(s.frames), v)
<1>1. TopName(C(s)) \in VTops /\ Sound(s)
  BY TopIsName, ModeTells DEF Settled
<1>2. TopName(C(s)) \notin Line \cup {"p"}
  BY <1>1, DivIsOther DEF VTops, Line, Kinds
<1>. QED
  BY <1>1, <1>2, ShowsOutside DEF Sound, IsOutput, C

\* Restoring a font shows it.
LEMMA RestoreRight ==
  ASSUME NEW s, Settled(s), Right(s), NEW e \in SavedType,
         TopName(C(s)) \in Line => Shows(s.frames, Top(C(s)), e.val)
  PROVE  /\ Right(RestoreFont(e, s)) /\ Redrawn(s, RestoreFont(e, s)) /\ Current(RestoreFont(e, s)) = e
         /\ RestoreFont(e, s).buffer = {} /\ Settled(RestoreFont(e, s))
<1>. DEFINE t == flush_buffer(s)
            f == [attrs |-> e.val, packed |-> e.val, old |-> t.font.packed,
                  stackval |-> t.font.stackval, level |-> e.level]
            u == [t EXCEPT !.font = f]
            v == font_has_changed1(u)
<1>1. /\ Right(t) /\ t.buffer = {} /\ t.frames = s.frames /\ Redrawn(s, t) /\ Settled(t) /\ IsOutput(t) /\ IsOutput(s)
      /\ t.font \in FontType
  BY FlushRight, OutputFont DEF Settled, Sound
<1>2. RestoreFont(e, s) = update_old(v)
  BY DEF RestoreFont
<1>. HIDE DEF t
<1>3. f \in FontType /\ e = [level |-> e.level, val |-> e.val]
  BY <1>1 DEF FontType, SavedType
<1>4. f.attrs = e.val /\ f.packed = e.val /\ f.old = t.font.packed /\ f.level = e.level
  OBVIOUS
<1>. HIDE DEF f
<1>5. Alike(t, u) /\ IsOutput(u) /\ C(u) = C(t) /\ u.mode = t.mode
  BY <1>1, <1>3, WithFont, AlikeOutput DEF Alike
<1>6. u.frames = t.frames /\ u.font = f /\ u.buffer = t.buffer /\ u.misplaced = t.misplaced
  BY <1>1, PartsWith
<1>. HIDE DEF u
<1>7. C(t) = C(s)
  BY <1>1, RedrawnKept
<1>8. TopName(C(u)) \in Line => Shows(u.frames, Top(C(u)), u.font.packed)
  BY <1>1, <1>4, <1>5, <1>6, <1>7
<1>9. ~flush_buffer(u).misplaced
  <2>1. u \in Output
    BY <1>5 DEF IsOutput
  <2>2. flush_buffer(u).misplaced = (u.misplaced \/ (Block(u) = "p" /\ \E g \in u.buffer : g # Shown(u)))
    BY <2>1 DEF flush_buffer, Output
  <2>. QED
    BY <1>1, <1>6, <2>2 DEF Right, Texts
<1>10. ASSUME u.mode = "v" \/ is_ok(u.font) PROVE Ready(u)
  <2>1. Shows(u.frames, Len(u.frames), u.font.packed)
    <3>1. CASE u.mode = "v"
      BY <1>1, <1>5, <1>6, <3>1, VerticalShows
    <3>2. CASE is_ok(u.font)
      BY <1>1, <1>4, <1>6, <3>2 DEF is_ok, Right
    <3>. QED
      BY <1>10, <3>1, <3>2
  <2>. QED
    BY <1>1, <1>4, <1>6, <2>1 DEF Ready, Right, Texts
<1>11. Ready(v) /\ Redrawn(u, v) /\ Current(v) = Current(u) /\ v.buffer = {}
  BY <1>1, <1>4, <1>5, <1>6, <1>8, <1>9, <1>10, Changed1Ready
<1>12. IsOutput(v)
  BY <1>5, <1>11, RedrawnKept
<1>. HIDE DEF v
<1>13. /\ Right(update_old(v)) /\ Redrawn(v, update_old(v)) /\ Current(update_old(v)) = Current(v)
       /\ update_old(v).buffer = {}
  BY <1>11, <1>12, UpdateRight
<1>14. Redrawn(t, u)
  BY <1>5, <1>6 DEF Redrawn
<1>15. Redrawn(s, update_old(v))
  BY <1>1, <1>11, <1>13, <1>14, KeptTrans
<1>16. Current(u) = e
  BY <1>3, <1>4, <1>6 DEF Current
<1>. QED
  BY <1>1, <1>2, <1>11, <1>13, <1>15, <1>16, RedrawnKept

\* Another font is selected, where the text is not in a part of a line.
LEMMA ChangeRight ==
  ASSUME NEW r, Sound(r), r.mode = "v" => Settled(r), Right(r), TopName(C(r)) \notin Line,
         NEW g \in FontType, NEW sv, Len(sv) \in Nat,
         g.old = r.font.packed \/ (r.buffer = {} /\ TopName(C(r)) # "p")
  PROVE  LET t == font_has_changed([r EXCEPT !.font = g], sv)
         IN  /\ Right(t) /\ Redrawn(r, t) /\ Current(t) = [level |-> Len(sv), val |-> g.attrs]
             /\ r.buffer = {} => t.buffer = {}
<1>. DEFINE s == [r EXCEPT !.font = g]
            f == [g EXCEPT !.packed = g.attrs, !.level = Len(sv)]
            u == [r EXCEPT !.font = f]
            v == font_has_changed1(u)
<1>1. r \in Output /\ IsOutput(r) /\ f \in FontType
  BY DEF Sound, IsOutput, FontType
<1>2. u = [Packed(s) EXCEPT !.font.level = Len(sv)]
  <2>1. s \in Output
    BY <1>1 DEF Output
  <2>. QED
    BY <1>1, <2>1 DEF Packed, Output, FontType
<1>3. font_has_changed(s, sv) = update_old(v)
  BY <1>2 DEF font_has_changed
<1>4. f.attrs = g.attrs /\ f.packed = g.attrs /\ f.old = g.old /\ f.level = Len(sv)
  BY DEF FontType
<1>. HIDE DEF f
<1>5. Alike(r, u) /\ IsOutput(u) /\ C(u) = C(r) /\ u.mode = r.mode /\ u \in Output
  BY <1>1, WithFont, AlikeOutput DEF Alike, IsOutput
<1>6. u.frames = r.frames /\ u.font = f /\ u.buffer = r.buffer /\ u.misplaced = r.misplaced
  BY <1>1, PartsWith
<1>. HIDE DEF u
<1>7. ~flush_buffer(u).misplaced
  <2>1. flush_buffer(u).misplaced = (u.misplaced \/ (Block(u) = "p" /\ \E h \in u.buffer : h # Shown(u)))
    BY <1>5 DEF flush_buffer, Output
  <2>2. flush_buffer(r).misplaced = (r.misplaced \/ (Block(r) = "p" /\ \E h \in r.buffer : h # Shown(r)))
    BY <1>1 DEF flush_buffer, Output
  <2>3. Block(u) = Block(r) /\ Shown(u) = Shown(r)
    BY <1>6 DEF Block, Shown
  <2>4. ~flush_buffer(r).misplaced
    BY FlushRight DEF Right, Texts
  <2>. QED
    BY <1>6, <2>1, <2>2, <2>3, <2>4
<1>8. ASSUME u.mode = "v" \/ is_ok(u.font) PROVE Ready(u)
  <2>1. CASE u.mode = "v"
    <3>1. Shows(u.frames, Len(u.frames), u.font.packed)
      BY <1>5, <1>6, <2>1, VerticalShows
    <3>. QED
      BY <1>4, <1>5, <1>6, <2>1, <3>1 DEF Ready, Right, Texts
  <2>2. CASE u.mode # "v" /\ g.old = r.font.packed
    <3>1. u.font.packed = r.font.packed
      BY <1>4, <1>6, <1>8, <2>2 DEF is_ok
    <3>. QED
      BY <1>4, <1>5, <1>6, <2>2, <3>1 DEF Ready, Right, Texts
  <2>3. CASE u.mode # "v" /\ r.buffer = {} /\ TopName(C(r)) # "p"
    <3>1. Shows(u.frames, Len(u.frames), u.font.packed)
      BY <1>6, <2>3, ShowsOutside DEF Sound, IsOutput, C
    <3>. QED
      BY <1>4, <1>6, <2>3, <3>1 DEF Ready, Right, Texts
  <2>. QED
    BY <2>1, <2>2, <2>3
<1>9. Ready(v) /\ Redrawn(u, v) /\ Current(v) = Current(u) /\ (u.buffer = {} => v.buffer = {})
  BY <1>4, <1>5, <1>6, <1>7, <1>8, Changed1Ready
<1>10. IsOutput(v)
  BY <1>5, <1>9, RedrawnKept
<1>. HIDE DEF v
<1>11. /\ Right(update_old(v)) /\ Redrawn(v, update_old(v)) /\ Current(update_old(v)) = Current(v)
       /\ update_old(v).buffer = v.buffer
  BY <1>9, <1>10, UpdateRight
<1>12. Redrawn(r, u)
  BY <1>5, <1>6 DEF Redrawn
<1>13. Redrawn(r, update_old(v))
  BY <1>9, <1>11, <1>12, KeptTrans
<1>14. Current(u) = [level |-> Len(sv), val |-> g.attrs]
  BY <1>4, <1>6 DEF Current
<1>. QED
  BY <1>3, <1>6, <1>9, <1>11, <1>13, <1>14

\* The end of a level restores the font from before it.
LEMMA RestoreLevelRight ==
  ASSUME NEW s, Settled(s), Right(s), NEW entries \in Seq(SavedType), NEW e \in SavedType,
         \A i \in 1..Len(entries) : entries[i] = e, entries = <<>> => Current(s) = e,
         TopName(C(s)) \in Line => Shows(s.frames, Top(C(s)), e.val)
  PROVE  /\ Right(RestoreLevel(s, entries)) /\ Redrawn(s, RestoreLevel(s, entries))
         /\ Current(RestoreLevel(s, entries)) = e
         /\ s.buffer = {} => RestoreLevel(s, entries).buffer = {}
<1>. DEFINE N == Len(entries)
            V == { t \in Output : /\ Settled(t) /\ Right(t) /\ Redrawn(s, t) /\ (s.buffer = {} => t.buffer = {}) }
<1>0. IsOutput(s) /\ s \in Output /\ N \in Nat
  BY LenProperties DEF Settled, Sound, IsOutput
<1>1. PICK R : /\ R[0] = s
               /\ \A n \in 1..N : R[n] = RestoreFont(entries[N + 1 - n], R[n - 1])
               /\ RestoreLevel(s, entries) = R[N]
  BY <1>0, RestoreLevelSteps
<1>2. s \in V
  BY <1>0, KeptTrans
<1>3. \A n \in 1..N : entries[N + 1 - n] = e
  <2>1. \A n \in 1..N : N + 1 - n \in 1..N
    BY <1>0
  <2>. QED
    BY <2>1
<1>4. ASSUME NEW t \in V PROVE RestoreFont(e, t) \in V /\ Current(RestoreFont(e, t)) = e
  <2>1. Settled(t) /\ Right(t) /\ Redrawn(s, t)
    OBVIOUS
  <2>2. C(t) = C(s) /\ \A v : Shows(s.frames, Top(C(s)), v) => Shows(t.frames, Top(C(t)), v)
    BY <1>0, <2>1, RedrawnKept
  <2>3. TopName(C(t)) \in Line => Shows(t.frames, Top(C(t)), e.val)
    BY <2>2
  <2>4. /\ Right(RestoreFont(e, t)) /\ Redrawn(t, RestoreFont(e, t)) /\ Current(RestoreFont(e, t)) = e
        /\ RestoreFont(e, t).buffer = {} /\ Settled(RestoreFont(e, t))
    BY <2>1, <2>3, RestoreRight
  <2>5. Redrawn(s, RestoreFont(e, t))
    BY <2>1, <2>4, KeptTrans
  <2>6. RestoreFont(e, t) \in Output
    BY <2>4 DEF Settled, Sound, IsOutput
  <2>. QED
    BY <2>4, <2>5, <2>6
<1>5. \A n \in 1..N : R[n - 1] \in V => R[n] \in V
  BY <1>1, <1>3, <1>4
<1>6. \A t \in V : Settled(t) /\ Right(t) /\ Redrawn(s, t) /\ (s.buffer = {} => t.buffer = {})
  OBVIOUS
<1>. HIDE DEF V, N
<1>7. R[N] \in V
  <2>2. R[0] \in V
    BY <1>1, <1>2
  <2>. QED
    BY ONLY <1>0, <2>2, <1>5, RecursionStays
<1>8. Current(R[N]) = e
  <2>1. CASE N = 0
    <3>1. entries = <<>>
      BY <2>1, EmptySeq DEF N
    <3>. QED
      BY <1>1, <2>1, <3>1
  <2>2. CASE N # 0
    <3>1. N - 1 \in Nat /\ N \in 1..N
      BY <1>0, <2>2
    <3>2. R[N - 1] \in V
      <4>1. \A n \in 1..N - 1 : R[n - 1] \in V => R[n] \in V
        BY <1>0, <1>5
      <4>2. R[0] \in V
        BY <1>1, <1>2
      <4>. QED
        BY ONLY <3>1, <4>1, <4>2, RecursionStays
    <3>3. R[N] = RestoreFont(e, R[N - 1])
      BY <1>1, <1>3, <3>1
    <3>. QED
      BY <1>4, <3>2, <3>3
  <2>. QED
    BY <2>1, <2>2
<1>. QED
  BY <1>1, <1>6, <1>7, <1>8

-----------------------------------------------------------------------------
(* The font around each open command *)
\* The level that the k-th open command opens, or the next one if it opens none.
Inner(op, k) == Cardinality({ j \in At(op, Leveled) : j < k }) + 2

\* b gives for each level the font around it; each level has saved it, when it has changed the
\* font, and knows the level of the change before.
Chain(sv, b) ==
  /\ b \in [1 .. Len(sv) + 1 -> SavedType]
  /\ \A l \in 1..Len(sv) : \/ sv[l] = <<>> /\ b[l + 1] = b[l]
                           \/ sv[l] = <<b[l]>> /\ b[l + 1].level = l
  /\ \A l \in 1 .. Len(sv) + 1 : b[l].level < l

\* The font around the k-th open command.
Outer(op, b, k) == b[Inner(op, k)]

\* In a part of a line the font does not change: in the groups it is that around the part.
Steady(op, b) ==
  \A i \in DOMAIN op : op[i].kind \in Line =>
    \A k \in i + 1 .. Len(op) + 1 :
      (\A j \in i + 1 .. k - 1 : op[j].kind = "group") => Outer(op, b, k).val = Outer(op, b, i).val

\* No list begins in a part of a line.
Apart(op) ==
  \A k \in DOMAIN op : op[k].kind = "list" =>
    \A i \in 1 .. k - 1 : op[i].kind \in Line => \E j \in i + 1 .. k - 1 : op[j].kind # "group"

\* A footnote has put aside the font around it.
Notes(op, b) ==
  \A k \in DOMAIN op : op[k].kind = "footnote" =>
    LET o == op[k].sv
    IN o.attrs = o.old /\ o.packed = o.old /\ Outer(op, b, k) = [level |-> o.level, val |-> o.packed]

Book(op, sv, b) == Chain(sv, b) /\ Steady(op, b) /\ Apart(op) /\ Notes(op, b)

\* The last of the commands that are no groups is part of a line.
LineIn(op) ==
  \E i \in DOMAIN op : op[i].kind \in Line /\ \A j \in i + 1 .. Len(op) : op[j].kind = "group"

\* InLine says so.
LEMMA InLineIs ==
  ASSUME NEW op \in Seq(OpenCommands)
  PROVE  LineIn(op) <=> InnerCommand(op) \in Line
<1>. DEFINE S == Cmds(op)
            n == Len(op)
            m == CHOOSE i \in S : \A j \in S : j <= i
<1>1. n \in Nat /\ DOMAIN op = 1..n
  BY LenProperties
<1>2. S \in SUBSET (1..n) /\ \A k \in 1..n : k \in S <=> op[k].kind # "group"
  BY <1>1 DEF Cmds
<1>3. InnerCommand(op) = IF S = {} THEN "none" ELSE op[m].kind
  BY DEF InnerCommand
<1>4. "group" \notin Line /\ "none" \notin Line
  BY DEF Line
<1>. HIDE DEF S, n
<1>5. ASSUME S # {} PROVE m \in S /\ \A j \in S : j <= m
  <2>1. \E i \in S : \A j \in S : j <= i
    BY <1>1, <1>2, <1>5, GreatestPosition
  <2>. QED
    BY <2>1
<1>. HIDE DEF m
<1>6. ASSUME LineIn(op) PROVE InnerCommand(op) \in Line
  <2>1. PICK i \in 1..n : op[i].kind \in Line /\ \A j \in i + 1 .. n : op[j].kind = "group"
    BY <1>1, <1>6 DEF LineIn, n
  <2>2. i \in S
    BY <1>2, <1>4, <2>1
  <2>3. m \in S /\ i <= m
    BY <1>5, <2>2
  <2>4. ~(m > i)
    <3>1. m > i => m \in i + 1 .. n
      BY <1>1, <1>2, <2>3
    <3>. QED
      BY <1>2, <2>1, <2>3, <3>1
  <2>5. m = i
    BY <1>1, <1>2, <2>3, <2>4
  <2>. QED
    BY <1>3, <2>1, <2>2, <2>5
<1>7. ASSUME InnerCommand(op) \in Line PROVE LineIn(op)
  <2>1. S # {} /\ op[m].kind \in Line
    BY <1>3, <1>4, <1>7
  <2>2. m \in 1..n /\ \A j \in S : j <= m
    BY <1>2, <1>5, <2>1
  <2>3. \A j \in m + 1 .. n : j \in 1..n /\ ~(j <= m)
    BY <1>1, <2>2
  <2>4. \A j \in m + 1 .. n : op[j].kind = "group"
    BY <1>2, <2>2, <2>3
  <2>. QED
    BY <1>1, <2>1, <2>2, <2>4 DEF LineIn, n
<1>. QED
  BY <1>6, <1>7

\* Another command does not change the levels of those before it.
LEMMA InnerAppend ==
  ASSUME NEW op \in Seq(OpenCommands), NEW e \in OpenCommands
  PROVE  \A k \in 1 .. Len(op) + 1 : Inner(Append(op, e), k) = Inner(op, k)
<1>. DEFINE q == Append(op, e)
            n == Len(op)
<1>1. At(op, Leveled) \in SUBSET (1..n) /\ n \in Nat
  BY RankType, LenProperties
<1>2. At(q, Leveled) = IF e \in Leveled THEN At(op, Leveled) \cup {n + 1} ELSE At(op, Leveled)
  BY RankAppend
<1>. HIDE DEF q, n
<1>. SUFFICES ASSUME NEW k \in 1 .. n + 1 PROVE Inner(q, k) = Inner(op, k)
  BY DEF q, n
<1>3. { j \in At(q, Leveled) : j < k } = { j \in At(op, Leveled) : j < k }
  BY <1>1, <1>2
<1>. QED
  BY <1>3 DEF Inner

\* The levels of the open commands, up to the last one.
LEMMA InnerLast ==
  ASSUME NEW op \in Seq(OpenCommands), NEW sv, Levels(op, sv)
  PROVE  /\ Len(sv) \in Nat \ {0}
         /\ Inner(op, Len(op) + 1) = Len(sv) + 1
         /\ \A k \in 1 .. Len(op) + 1 : Inner(op, k) \in 1 .. Len(sv) + 1
         /\ \A k \in 1..Len(op) : op[Len(op)].kind # "fonts" => Inner(op, k) \in 1..Len(sv)
         /\ \A k \in 1..Len(op) : op[k].kind # "fonts" => Inner(op, k) \in 1..Len(sv)
         /\ Len(op) # 0 /\ op[Len(op)].kind # "fonts" => Inner(op, Len(op)) = Len(sv)
         /\ Len(op) # 0 /\ op[Len(op)].kind = "fonts" => Inner(op, Len(op)) = Len(sv) + 1
<1>. DEFINE A == At(op, Leveled)
            n == Len(op)
            B(k) == { j \in A : j < k }
<1>1. A \in SUBSET (1..n) /\ IsFiniteSet(A) /\ Cardinality(A) \in Nat /\ n \in Nat /\ DOMAIN op = 1..n
  BY RankType, LenProperties
<1>2. Len(sv) = Cardinality(A) + 1
  BY DEF Levels
<1>3. \A k \in 1..n : k \in A <=> op[k].kind # "fonts"
  <2>1. \A k \in 1..n : op[k] \in OpenCommands
    BY ElementOfSeq
  <2>. QED
    BY <1>1, <2>1 DEF At, Leveled
<1>. HIDE DEF A, n
<1>4. \A k : IsFiniteSet(B(k)) /\ Cardinality(B(k)) \in Nat /\ Cardinality(B(k)) <= Cardinality(A)
  <2>. TAKE k
  <2>1. B(k) \subseteq A
    OBVIOUS
  <2>. HIDE DEF B
  <2>. QED
    BY <1>1, <2>1, FS_Subset, FS_CardinalityType
<1>5. ASSUME NEW k \in 1..n, NEW i \in A, k <= i PROVE Cardinality(B(k)) <= Cardinality(A) - 1
  <2>1. B(k) \subseteq A \ {i}
    BY <1>1, <1>5
  <2>2. Cardinality(A \ {i}) = Cardinality(A) - 1 /\ IsFiniteSet(A \ {i})
    BY <1>1, FS_RemoveElement
  <2>. HIDE DEF B
  <2>. QED
    BY <2>1, <2>2, FS_Subset
<1>0. \A j \in A : j \in Nat /\ 1 <= j /\ j <= n /\ j < n + 1
  BY <1>1
<1>6. B(n + 1) = A
  BY <1>0
<1>7. ASSUME n # 0 PROVE /\ n \in A => Cardinality(B(n)) = Cardinality(A) - 1
                         /\ n \notin A => Cardinality(B(n)) = Cardinality(A)
  <2>0. \A j \in A : j < n <=> j # n
    BY <1>0, <1>1
  <2>1. n \in A => B(n) = A \ {n}
    BY <2>0
  <2>2. n \notin A => B(n) = A
    BY <2>0
  <2>. HIDE DEF B
  <2>. QED
    BY <1>1, <2>1, <2>2, FS_RemoveElement
<1>8. \A k : Inner(op, k) = Cardinality(B(k)) + 2
  BY DEF Inner, A
<1>. HIDE DEF B
<1>9. Len(sv) \in Nat \ {0} /\ Inner(op, n + 1) = Len(sv) + 1
  BY <1>1, <1>2, <1>6, <1>8
<1>10. \A k \in 1 .. n + 1 : Inner(op, k) \in 1 .. Len(sv) + 1
  BY <1>1, <1>2, <1>4, <1>8
<1>11. \A k \in 1..n, i \in A : k <= i => Inner(op, k) \in 1..Len(sv)
  BY <1>1, <1>2, <1>4, <1>5, <1>8
<1>12. \A k \in 1..n : op[n].kind # "fonts" => Inner(op, k) \in 1..Len(sv)
  <2>. TAKE k \in 1..n
  <2>1. n \in 1..n /\ k <= n
    BY <1>1
  <2>. QED
    BY <1>3, <1>11, <2>1
<1>13. \A k \in 1..n : op[k].kind # "fonts" => Inner(op, k) \in 1..Len(sv)
  <2>. TAKE k \in 1..n
  <2>1. k <= k
    OBVIOUS
  <2>. QED
    BY <1>3, <1>11, <2>1
<1>14. n # 0 => n \in 1..n
  BY <1>1
<1>15. n # 0 /\ op[n].kind # "fonts" => Inner(op, n) = Len(sv)
  BY <1>1, <1>2, <1>3, <1>7, <1>8, <1>14
<1>16. n # 0 /\ op[n].kind = "fonts" => Inner(op, n) = Len(sv) + 1
  BY <1>1, <1>2, <1>3, <1>7, <1>8, <1>14
<1>. QED
  BY <1>9, <1>10, <1>12, <1>13, <1>15, <1>16 DEF n

-----------------------------------------------------------------------------
\* A level begins.
LEMMA ChainPush ==
  ASSUME NEW sv \in Seq(Seq(SavedType)), NEW b, Chain(sv, b)
  PROVE  \E d : /\ Chain(Append(sv, <<>>), d) /\ \A l \in 1 .. Len(sv) + 1 : d[l] = b[l]
                /\ d[Len(sv) + 2] = b[Len(sv) + 1]
<1>. DEFINE n == Len(sv)
            d == [l \in 1 .. n + 2 |-> IF l <= n + 1 THEN b[l] ELSE b[n + 1]]
            w == Append(sv, <<>>)
<1>1. /\ n \in Nat /\ Len(w) = n + 1 /\ w[n + 1] = <<>> /\ \A l \in 1..n : w[l] = sv[l]
  <2>1. <<>> \in Seq(SavedType)
    OBVIOUS
  <2>. QED
    BY <2>1, PushedAt
<1>2. /\ b \in [1 .. n + 1 -> SavedType]
      /\ \A l \in 1..n : \/ sv[l] = <<>> /\ b[l + 1] = b[l]
                         \/ sv[l] = <<b[l]>> /\ b[l + 1].level = l
      /\ \A l \in 1 .. n + 1 : b[l].level < l
  BY DEF Chain
<1>. HIDE DEF n, w
<1>3. /\ \A l \in 1 .. n + 1 : d[l] = b[l]
      /\ d[n + 2] = b[n + 1]
  BY <1>1
<1>4. d \in [1 .. n + 2 -> SavedType]
  <2>1. \A l \in 1 .. n + 2 : (IF l <= n + 1 THEN b[l] ELSE b[n + 1]) \in SavedType
    BY <1>1, <1>2
  <2>. QED
    BY <2>1
<1>. HIDE DEF d
<1>5. \A l \in 1 .. n + 2 : d[l].level < l
  <2>. TAKE l \in 1 .. n + 2
  <2>1. CASE l \in 1 .. n + 1
    BY <1>2, <1>3, <2>1
  <2>2. CASE l = n + 2
    <3>1. b[n + 1].level < n + 1 /\ b[n + 1].level \in Nat
      BY <1>1, <1>2 DEF SavedType
    <3>. QED
      BY <1>1, <1>3, <2>2, <3>1
  <2>. QED
    BY <1>1, <2>1, <2>2
<1>6. \A l \in 1 .. n + 1 : \/ w[l] = <<>> /\ d[l + 1] = d[l]
                            \/ w[l] = <<d[l]>> /\ d[l + 1].level = l
  <2>. TAKE l \in 1 .. n + 1
  <2>1. CASE l \in 1..n
    <3>1. l \in 1 .. n + 1 /\ l + 1 \in 1 .. n + 1
      BY <1>1, <2>1
    <3>2. d[l] = b[l] /\ d[l + 1] = b[l + 1] /\ w[l] = sv[l]
      BY <1>1, <1>3, <2>1, <3>1
    <3>. QED
      BY <1>2, <2>1, <3>2
  <2>2. CASE l = n + 1
    <3>1. l + 1 = n + 2 /\ n + 1 \in 1 .. n + 1
      BY <1>1, <2>2
    <3>. QED
      BY <1>1, <1>3, <2>2, <3>1
  <2>. QED
    BY <1>1, <2>1, <2>2
<1>7. (n + 1) + 1 = n + 2
  BY <1>1
<1>8. Chain(w, d)
  BY <1>1, <1>4, <1>5, <1>6, <1>7 DEF Chain
<1>. QED
  BY <1>3, <1>8 DEF n, w

\* A level ends; its saved fonts are all that around it.
LEMMA ChainPop ==
  ASSUME NEW sv \in Seq(Seq(SavedType)), sv # <<>>, NEW b, Chain(sv, b)
  PROVE  /\ \E d : Chain(Front(sv), d) /\ \A l \in 1..Len(sv) : d[l] = b[l]
         /\ Last(sv) \in Seq(SavedType) /\ b[Len(sv)] \in SavedType
         /\ \A i \in 1..Len(Last(sv)) : Last(sv)[i] = b[Len(sv)]
         /\ Len(Last(sv)) <= 1
         /\ Last(sv) = <<>> => b[Len(sv) + 1] = b[Len(sv)]
<1>. DEFINE n == Len(sv)
            d == [l \in 1..n |-> b[l]]
            w == Front(sv)
<1>1. /\ n \in Nat \ {0} /\ Len(w) = n - 1 /\ \A l \in 1 .. n - 1 : w[l] = sv[l]
      /\ Last(sv) = sv[n] /\ Last(sv) \in Seq(SavedType)
  BY PoppedAt
<1>2. /\ b \in [1 .. n + 1 -> SavedType]
      /\ \A l \in 1..n : \/ sv[l] = <<>> /\ b[l + 1] = b[l]
                         \/ sv[l] = <<b[l]>> /\ b[l + 1].level = l
      /\ \A l \in 1 .. n + 1 : b[l].level < l
  BY DEF Chain
<1>. HIDE DEF n, w
<1>3. \A l \in 1..n : d[l] = b[l]
  OBVIOUS
<1>4. d \in [1..n -> SavedType]
  <2>1. \A l \in 1..n : b[l] \in SavedType
    BY <1>1, <1>2
  <2>. QED
    BY <2>1
<1>. HIDE DEF d
<1>5. \A l \in 1..n : d[l].level < l
  BY <1>1, <1>2, <1>3
<1>6. \A l \in 1 .. n - 1 : \/ w[l] = <<>> /\ d[l + 1] = d[l]
                            \/ w[l] = <<d[l]>> /\ d[l + 1].level = l
  <2>. TAKE l \in 1 .. n - 1
  <2>1. l \in 1..n /\ l + 1 \in 1..n
    BY <1>1
  <2>2. d[l] = b[l] /\ d[l + 1] = b[l + 1] /\ w[l] = sv[l]
    BY <1>1, <1>3, <2>1
  <2>. QED
    BY <1>2, <2>1, <2>2
<1>7. (n - 1) + 1 = n
  BY <1>1
<1>8. Chain(w, d)
  BY <1>1, <1>4, <1>5, <1>6, <1>7 DEF Chain
<1>9. n \in 1..n /\ n \in 1 .. n + 1
  BY <1>1
<1>10. (sv[n] = <<>> /\ b[n + 1] = b[n]) \/ sv[n] = <<b[n]>>
  BY <1>2, <1>9
<1>11. /\ \A i \in 1..Len(sv[n]) : sv[n][i] = b[n]
       /\ Len(sv[n]) <= 1
       /\ sv[n] = <<>> => b[n + 1] = b[n]
  <2>1. CASE sv[n] = <<>>
    BY <1>10, <2>1
  <2>2. CASE sv[n] = <<b[n]>>
    <3>1. Len(<<b[n]>>) = 1 /\ <<b[n]>>[1] = b[n] /\ <<b[n]>> # <<>>
      OBVIOUS
    <3>. QED
      BY <2>2, <3>1
  <2>. QED
    BY <1>10, <2>1, <2>2
<1>. QED
  BY <1>1, <1>2, <1>3, <1>8, <1>9, <1>11 DEF n, w

\* The font of a level changes; the first time, the old one is saved.
LEMMA ChainSave ==
  ASSUME NEW sv \in Seq(Seq(SavedType)), sv # <<>>, NEW b, Chain(sv, b),
         NEW s, b[Len(sv) + 1] = [level |-> s.font.level, val |-> s.font.old],
         NEW f \in SavedType, f.level = Len(sv)
  PROVE  LET d == [b EXCEPT ![Len(sv) + 1] = f]
         IN  /\ Chain(save_font(s, sv), d) /\ \A l \in 1..Len(sv) : d[l] = b[l]
             /\ d[Len(sv) + 1] = f
             /\ Len(save_font(s, sv)) = Len(sv)
<1>. DEFINE n == Len(sv)
            e == [level |-> s.font.level, val |-> s.font.old]
            d == [b EXCEPT ![n + 1] = f]
            z == [sv EXCEPT ![n] = Append(@, e)]
            w == save_font(s, sv)
<1>1. n \in Nat \ {0} /\ \A l \in 1..n : sv[l] \in Seq(SavedType)
  BY PoppedAt, ElementOfSeq
<1>2. /\ b \in [1 .. n + 1 -> SavedType]
      /\ \A l \in 1..n : \/ sv[l] = <<>> /\ b[l + 1] = b[l]
                         \/ sv[l] = <<b[l]>> /\ b[l + 1].level = l
      /\ \A l \in 1 .. n + 1 : b[l].level < l
  BY DEF Chain
<1>3. w = IF e.level = n THEN sv ELSE z
  BY DEF save_font
<1>4. b[n + 1] = e
  OBVIOUS
<1>. HIDE DEF n, e, w
<1>5. n \in 1..n /\ n \in 1 .. n + 1 /\ n + 1 \in 1 .. n + 1 /\ e \in SavedType
  BY <1>1, <1>2, <1>4
<1>6. f \in SavedType /\ f.level = n
  BY DEF n
<1>7. d \in [1 .. n + 1 -> SavedType] /\ d[n + 1] = f /\ \A l \in 1..n : d[l] = b[l]
  BY <1>1, <1>2, <1>5, <1>6
<1>. HIDE DEF d
<1>8. \A l \in 1 .. n + 1 : d[l].level < l
  <2>. TAKE l \in 1 .. n + 1
  <2>1. CASE l \in 1..n
    BY <1>2, <1>5, <1>7, <2>1
  <2>2. CASE l = n + 1
    BY <1>1, <1>6, <1>7, <2>2
  <2>. QED
    BY <1>1, <2>1, <2>2
<1>9. Len(w) = n /\ (\A l \in 1 .. n - 1 : w[l] = sv[l]) /\ w[n] = <<b[n]>>
  <2>1. CASE e.level = n
    <3>1. w = sv
      BY <1>3, <2>1
    <3>2. b[n].level < n /\ b[n].level \in Nat
      BY <1>2, <1>5 DEF SavedType
    <3>3. b[n + 1] # b[n]
      BY <1>1, <1>4, <2>1, <3>2
    <3>4. sv[n] = <<b[n]>>
      BY <1>2, <1>5, <3>3
    <3>. QED
      BY <3>1, <3>4 DEF n
  <2>2. CASE e.level # n
    <3>1. sv[n] = <<>> /\ b[n] = e
      BY <1>2, <1>4, <1>5, <2>2
    <3>2. w = [sv EXCEPT ![n] = Append(@, e)]
      BY <1>3, <2>2
    <3>3. DOMAIN sv = 1..n
      BY PoppedAt DEF n
    <3>4. w[n] = Append(sv[n], e) /\ \A l \in 1 .. n - 1 : w[l] = sv[l]
      BY <1>1, <1>5, <3>2, <3>3
    <3>5. Len(w) = n
      <4>1. Append(sv[n], e) \in Seq(SavedType)
        BY <1>1, <1>5, PushedAt
      <4>2. sv \in Seq(Seq(SavedType))
        OBVIOUS
      <4>. QED
        BY <1>5, <3>2, <4>1, <4>2, ExceptSeq DEF n
    <3>6. Append(<<>>, e) = <<e>>
      OBVIOUS
    <3>. QED
      BY <3>1, <3>4, <3>5, <3>6
  <2>. QED
    BY <2>1, <2>2
<1>10. \A l \in 1..n : \/ w[l] = <<>> /\ d[l + 1] = d[l]
                       \/ w[l] = <<d[l]>> /\ d[l + 1].level = l
  <2>. TAKE l \in 1..n
  <2>1. CASE l \in 1 .. n - 1
    <3>1. l \in 1..n /\ l + 1 \in 1..n
      BY <1>1, <2>1
    <3>. QED
      BY <1>2, <1>7, <1>9, <2>1, <3>1
  <2>2. CASE l = n
    BY <1>5, <1>6, <1>7, <1>9, <2>2
  <2>. QED
    BY <1>1, <2>1, <2>2
<1>11. Chain(w, d)
  BY <1>7, <1>8, <1>9, <1>10 DEF Chain
<1>. QED
  BY <1>7, <1>9, <1>11 DEF n, w, d

SameOuter(op, b, q, d) == \A k \in 1..Len(op) : Outer(q, d, k) = Outer(op, b, k)

\* d is the book b of the commands op, continued for the commands q, with the font o at last.
Follows(op, b, q, sv, d, o) ==
  /\ Book(q, sv, d) /\ d[Len(sv) + 1] = o
  /\ SameOuter(op, b, q, d)

\* A command opens: the fonts around the others are the same, that around it is the current one.
LEMMA BookOpen ==
  ASSUME NEW op \in Seq(OpenCommands), NEW sv, Levels(op, sv), NEW b, Book(op, sv, b),
         NEW e \in OpenCommands, e.kind = "list" => ~LineIn(op),
         e.kind = "footnote" => /\ e.sv.attrs = e.sv.old /\ e.sv.packed = e.sv.old
                                /\ b[Len(sv) + 1] = [level |-> e.sv.level, val |-> e.sv.packed],
         NEW w, w = IF e.kind = "fonts" THEN sv ELSE Append(sv, <<>>)
  PROVE  \E d : /\ Follows(op, b, Append(op, e), w, d, b[Len(sv) + 1])
                /\ Outer(Append(op, e), d, Len(op) + 1) = b[Len(sv) + 1]
<1>. DEFINE q == Append(op, e)
            n == Len(op)
            m == Len(sv)
<1>1. /\ n \in Nat /\ DOMAIN op = 1..n /\ DOMAIN q = 1 .. n + 1 /\ Len(q) = n + 1
      /\ q[n + 1] = e /\ (\A i \in 1..n : q[i] = op[i]) /\ q \in Seq(OpenCommands)
  BY PushedAt
<1>2. sv \in Seq(Seq(SavedType)) /\ m \in Nat \ {0} /\ Chain(sv, b)
  BY SavesOfLevels DEF Book
<1>3. Levels(q, w)
  BY PushLevels
<1>4. PICK d : Chain(w, d) /\ (\A l \in 1 .. m + 1 : d[l] = b[l]) /\ d[Len(w) + 1] = b[m + 1]
  <2>1. CASE e.kind = "fonts"
    BY <1>2, <2>1
  <2>2. CASE e.kind # "fonts"
    <3>1. PICK d : Chain(Append(sv, <<>>), d) /\ (\A l \in 1 .. m + 1 : d[l] = b[l]) /\ d[m + 2] = b[m + 1]
      BY <1>2, ChainPush
    <3>2. Len(Append(sv, <<>>)) + 1 = m + 2
      BY <1>2
    <3>. QED
      BY <2>2, <3>1, <3>2
  <2>. QED
    BY <2>1, <2>2
<1>5. /\ Inner(op, n + 1) = m + 1 /\ \A k \in 1 .. n + 1 : Inner(op, k) \in 1 .. m + 1
  BY InnerLast
<1>6. \A k \in 1 .. n + 1 : Inner(q, k) = Inner(op, k)
  BY InnerAppend
<1>7. Inner(q, n + 2) = Len(w) + 1
  <2>1. Inner(q, Len(q) + 1) = Len(w) + 1
    BY <1>1, <1>3, InnerLast
  <2>2. Len(q) + 1 = n + 2
    BY <1>1
  <2>. QED
    BY <2>1, <2>2
<1>. HIDE DEF q, n, m
<1>8. \A k \in 1 .. n + 1 : Outer(q, d, k) = Outer(op, b, k)
  BY <1>4, <1>5, <1>6 DEF Outer
<1>9. /\ n + 1 \in 1 .. n + 1 /\ Outer(op, b, n + 1) = b[m + 1]
      /\ Outer(q, d, n + 2) = b[m + 1] /\ Outer(q, d, n + 1) = b[m + 1]
  BY <1>1, <1>4, <1>5, <1>7, <1>8 DEF Outer
<1>10. Steady(q, d)
  <2>. SUFFICES ASSUME NEW i \in 1 .. n + 1, q[i].kind \in Line, NEW k \in i + 1 .. n + 2,
                       \A j \in i + 1 .. k - 1 : q[j].kind = "group"
                PROVE  Outer(q, d, k).val = Outer(q, d, i).val
    <3>1. Len(q) + 1 = n + 2
      BY <1>1
    <3>. QED
      BY <1>1, <3>1 DEF Steady
  <2>0. \A i_1 \in 1..n : op[i_1].kind \in Line =>
          \A k_1 \in i_1 + 1 .. n + 1 :
            (\A j \in i_1 + 1 .. k_1 - 1 : op[j].kind = "group") => Outer(op, b, k_1).val = Outer(op, b, i_1).val
    BY <1>1 DEF Book, Steady, n
  <2>1. CASE i = n + 1
    <3>1. k = n + 2
      BY <1>1, <2>1
    <3>2. Outer(q, d, k) = b[m + 1] /\ Outer(q, d, i) = b[m + 1]
      BY <1>9, <2>1, <3>1
    <3>. QED
      BY <3>2
  <2>2. CASE i \in 1..n /\ k \in i + 1 .. n + 1
    <3>1. \A j \in i + 1 .. k - 1 : j \in 1..n
      BY <1>1, <2>2
    <3>2. op[i].kind \in Line /\ \A j \in i + 1 .. k - 1 : op[j].kind = "group"
      BY <1>1, <2>2, <3>1
    <3>3. Outer(op, b, k).val = Outer(op, b, i).val
      BY <2>0, <2>2, <3>2
    <3>4. i \in 1 .. n + 1 /\ k \in 1 .. n + 1
      BY <1>1, <2>2
    <3>5. Outer(q, d, k) = Outer(op, b, k) /\ Outer(q, d, i) = Outer(op, b, i)
      BY <1>8, <3>4
    <3>. QED
      BY <3>3, <3>5
  <2>3. CASE i \in 1..n /\ k = n + 2
    <3>1. \A j \in i + 1 .. (n + 1) - 1 : j \in 1..n /\ j \in i + 1 .. k - 1
      BY <1>1, <2>3
    <3>2. op[i].kind \in Line /\ \A j \in i + 1 .. (n + 1) - 1 : op[j].kind = "group"
      BY <1>1, <2>3, <3>1
    <3>3. i \in 1 .. n + 1 /\ n + 1 \in i + 1 .. n + 1
      BY <1>1, <2>3
    <3>4. Outer(op, b, n + 1).val = Outer(op, b, i).val
      BY <2>0, <2>3, <3>2, <3>3
    <3>. QED
      BY <1>8, <1>9, <2>3, <3>3, <3>4
  <2>4. i = n + 1 \/ (i \in 1..n /\ k \in i + 1 .. n + 1) \/ (i \in 1..n /\ k = n + 2)
    <3>1. n \in Nat
      BY <1>1
    <3>2. i \in Nat /\ 1 <= i /\ i <= n + 1 /\ k \in Nat /\ i + 1 <= k /\ k <= n + 2
      BY <3>1
    <3>. QED
      BY <3>1, <3>2
  <2>. QED
    BY <2>1, <2>2, <2>3, <2>4
<1>11. Apart(q)
  <2>. SUFFICES ASSUME NEW k \in 1 .. n + 1, q[k].kind = "list", NEW i \in 1 .. k - 1, q[i].kind \in Line
                PROVE  \E j \in i + 1 .. k - 1 : q[j].kind # "group"
    BY <1>1 DEF Apart
  <2>1. i \in 1..n /\ op[i].kind \in Line
    BY <1>1
  <2>2. CASE k = n + 1
    <3>1. ~LineIn(op)
      BY <1>1, <2>2
    <3>2. PICK j \in i + 1 .. n : op[j].kind # "group"
      BY <1>1, <2>1, <3>1 DEF LineIn, n
    <3>3. j \in i + 1 .. k - 1 /\ j \in 1..n
      BY <1>1, <2>1, <2>2
    <3>. QED
      BY <1>1, <3>2, <3>3
  <2>3. CASE k \in 1..n
    <3>1. op[k].kind = "list"
      BY <1>1, <2>3
    <3>2. PICK j \in i + 1 .. k - 1 : op[j].kind # "group"
      BY <1>1, <2>1, <2>3, <3>1 DEF Book, Apart
    <3>3. j \in 1..n
      BY <1>1, <2>1, <2>3
    <3>. QED
      BY <1>1, <3>2, <3>3
  <2>. QED
    BY <1>1, <2>2, <2>3
<1>12. Notes(q, d)
  <2>1. ASSUME NEW k \in 1 .. n + 1, q[k].kind = "footnote"
        PROVE  LET o == q[k].sv
               IN o.attrs = o.old /\ o.packed = o.old /\ Outer(q, d, k) = [level |-> o.level, val |-> o.packed]
    <3>1. CASE k = n + 1
      BY <1>1, <1>9, <2>1, <3>1 DEF m
    <3>2. CASE k \in 1..n
      <4>1. op[k].kind = "footnote" /\ q[k] = op[k]
        BY <1>1, <2>1, <3>2
      <4>2. LET o == op[k].sv
            IN o.attrs = o.old /\ o.packed = o.old /\ Outer(op, b, k) = [level |-> o.level, val |-> o.packed]
        BY <1>1, <3>2, <4>1 DEF Book, Notes
      <4>. QED
        BY <1>8, <4>1, <4>2
    <3>. QED
      BY <1>1, <3>1, <3>2
  <2>. QED
    BY <1>1, <2>1 DEF Notes
<1>13. Book(q, w, d)
  BY <1>4, <1>10, <1>11, <1>12 DEF Book
<1>14. \A k \in 1..n : Outer(q, d, k) = Outer(op, b, k)
  BY <1>1, <1>8
<1>. QED
  BY <1>4, <1>9, <1>13, <1>14 DEF Follows, SameOuter, q, n, m

\* A command closes; the font to restore is the one around it.
LEMMA BookClose ==
  ASSUME NEW op \in Seq(OpenCommands), op # <<>>, NEW sv, Levels(op, sv), NEW b, Book(op, sv, b),
         NEW w, w = IF Last(op).kind = "fonts" THEN sv ELSE Front(sv)
  PROVE  /\ \E d : Follows(op, b, Front(op), w, d, Outer(op, b, Len(op)))
         /\ Outer(op, b, Len(op)) \in SavedType /\ Levels(Front(op), w)
         /\ Last(op).kind = "fonts" => b[Len(sv) + 1] = Outer(op, b, Len(op))
         /\ Last(op).kind # "fonts" => /\ Last(sv) \in Seq(SavedType)
                                       /\ \A i \in 1..Len(Last(sv)) : Last(sv)[i] = Outer(op, b, Len(op))
                                       /\ Len(Last(sv)) <= 1
                                       /\ Last(sv) = <<>> => b[Len(sv) + 1] = Outer(op, b, Len(op))
<1>. DEFINE f == Front(op)
            n == Len(f)
            m == Len(sv)
            o == Outer(op, b, Len(op))
<1>1. /\ n \in Nat /\ Len(op) = n + 1 /\ DOMAIN op = 1 .. n + 1 /\ DOMAIN f = 1..n
      /\ f \in Seq(OpenCommands) /\ (\A i \in 1..n : f[i] = op[i])
      /\ Last(op) = op[n + 1] /\ Last(op) \in OpenCommands
  BY PoppedAt
<1>2. Append(f, Last(op)) = op
  BY PushPop
<1>3. sv \in Seq(Seq(SavedType)) /\ sv # <<>> /\ m \in Nat \ {0} /\ Chain(sv, b)
  BY SavesOfLevels DEF Book
<1>4. b \in [1 .. m + 1 -> SavedType]
  BY <1>3 DEF Chain
<1>5. Levels(f, w)
  BY PopLevels
<1>6. \A k \in 1 .. n + 1 : Inner(op, k) = Inner(f, k) /\ Inner(f, k) \in 1 .. Len(w) + 1
  <2>1. \A k \in 1 .. n + 1 : Inner(Append(f, Last(op)), k) = Inner(f, k)
    BY <1>1, InnerAppend
  <2>2. \A k \in 1 .. n + 1 : Inner(f, k) \in 1 .. Len(w) + 1
    BY <1>1, <1>5, InnerLast
  <2>. QED
    BY <1>2, <2>1, <2>2
<1>7. /\ Last(op).kind # "fonts" => Inner(op, n + 1) = m
      /\ Last(op).kind = "fonts" => Inner(op, n + 1) = m + 1
  <2>1. Len(op) # 0
    BY <1>1
  <2>. QED
    BY <1>1, <2>1, InnerLast
<1>8. Inner(op, n + 1) = Len(w) + 1
  <2>1. Last(op).kind # "fonts" => Len(w) = m - 1
    BY <1>3, PoppedAt
  <2>. QED
    BY <1>3, <1>7, <2>1
<1>9. PICK d : Chain(w, d) /\ \A l \in 1 .. Len(w) + 1 : d[l] = b[l]
  <2>1. CASE Last(op).kind = "fonts"
    BY <1>3, <2>1
  <2>2. CASE Last(op).kind # "fonts"
    <3>1. PICK d : Chain(Front(sv), d) /\ \A l \in 1..m : d[l] = b[l]
      BY <1>3, ChainPop
    <3>2. Len(Front(sv)) = m - 1
      BY ONLY <1>3, PoppedAt
    <3>3. Len(Front(sv)) + 1 = m
      BY ONLY <1>3, <3>2
    <3>. QED
      BY <2>2, <3>1, <3>3
  <2>. QED
    BY <2>1, <2>2
<1>10. o = b[Inner(op, n + 1)]
  BY <1>1 DEF Outer
<1>. HIDE DEF f, n, m, o
<1>11. \A k \in 1 .. n + 1 : Outer(f, d, k) = Outer(op, b, k)
  BY <1>6, <1>9 DEF Outer
<1>12. d[Len(w) + 1] = o
  <2>1. n + 1 \in 1 .. n + 1
    BY <1>1
  <2>2. Len(w) + 1 \in 1 .. Len(w) + 1
    BY <1>6, <1>8, <2>1
  <2>. QED
    BY <1>8, <1>9, <1>10, <2>2
<1>13. Steady(f, d)
  <2>. SUFFICES ASSUME NEW i \in 1..n, f[i].kind \in Line, NEW k \in i + 1 .. n + 1,
                       \A j \in i + 1 .. k - 1 : f[j].kind = "group"
                PROVE  Outer(f, d, k).val = Outer(f, d, i).val
    BY <1>1 DEF Steady, n
  <2>1. \A j \in i + 1 .. k - 1 : j \in 1..n
    BY <1>1
  <2>2. op[i].kind \in Line /\ \A j \in i + 1 .. k - 1 : op[j].kind = "group"
    BY <1>1, <2>1
  <2>3. i \in 1 .. n + 1 /\ k \in i + 1 .. (n + 1) + 1 /\ k \in 1 .. n + 1
    BY <1>1
  <2>4. Outer(op, b, k).val = Outer(op, b, i).val
    BY <1>1, <2>2, <2>3 DEF Book, Steady
  <2>. QED
    BY <1>11, <2>3, <2>4
<1>14. Apart(f)
  <2>. SUFFICES ASSUME NEW k \in 1..n, f[k].kind = "list", NEW i \in 1 .. k - 1, f[i].kind \in Line
                PROVE  \E j \in i + 1 .. k - 1 : f[j].kind # "group"
    BY <1>1 DEF Apart
  <2>1. i \in 1..n /\ k \in 1 .. n + 1
    BY <1>1
  <2>2. op[i].kind \in Line /\ op[k].kind = "list"
    BY <1>1, <2>1
  <2>3. PICK j \in i + 1 .. k - 1 : op[j].kind # "group"
    BY <1>1, <2>1, <2>2 DEF Book, Apart
  <2>4. j \in 1..n
    BY <1>1, <2>1
  <2>. QED
    BY <1>1, <2>3, <2>4
<1>15. Notes(f, d)
  <2>1. ASSUME NEW k \in 1..n, f[k].kind = "footnote"
        PROVE  LET p == f[k].sv
               IN p.attrs = p.old /\ p.packed = p.old /\ Outer(f, d, k) = [level |-> p.level, val |-> p.packed]
    <3>1. k \in 1 .. n + 1 /\ op[k] = f[k] /\ op[k].kind = "footnote"
      BY <1>1, <2>1
    <3>2. LET p == op[k].sv
          IN p.attrs = p.old /\ p.packed = p.old /\ Outer(op, b, k) = [level |-> p.level, val |-> p.packed]
      BY <1>1, <3>1 DEF Book, Notes
    <3>. QED
      BY <1>11, <3>1, <3>2
  <2>. QED
    BY <1>1, <2>1 DEF Notes
<1>16. Book(f, w, d)
  BY <1>9, <1>13, <1>14, <1>15 DEF Book
<1>17. o \in SavedType
  <2>1. m + 1 \in 1 .. m + 1 /\ m \in 1 .. m + 1
    BY <1>3
  <2>. QED
    BY <1>4, <1>7, <1>10, <2>1
<1>18. Last(op).kind = "fonts" => b[m + 1] = o
  BY <1>7, <1>10
<1>19. Last(op).kind # "fonts" => /\ Last(sv) \in Seq(SavedType)
                                  /\ \A i \in 1..Len(Last(sv)) : Last(sv)[i] = o
                                  /\ Len(Last(sv)) <= 1
                                  /\ Last(sv) = <<>> => b[m + 1] = o
  <2>1. /\ Last(sv) \in Seq(SavedType) /\ Len(Last(sv)) <= 1
        /\ \A i \in 1..Len(Last(sv)) : Last(sv)[i] = b[m]
        /\ Last(sv) = <<>> => b[m + 1] = b[m]
    BY <1>3, ChainPop DEF m
  <2>. QED
    BY <1>7, <1>10, <2>1
<1>20. Follows(op, b, f, w, d, o)
  BY <1>1, <1>11, <1>12, <1>16 DEF Follows, SameOuter
<1>. QED
  BY <1>5, <1>17, <1>18, <1>19, <1>20 DEF f, m, o

\* The font changes, outside of a part of a line.
LEMMA BookSave ==
  ASSUME NEW op, op \in Seq(OpenCommands), NEW sv \in Seq(Seq(SavedType)), Levels(op, sv), NEW b, Book(op, sv, b),
         ~LineIn(op),
         NEW s, b[Len(sv) + 1] = [level |-> s.font.level, val |-> s.font.old], NEW f \in SavedType, f.level = Len(sv)
  PROVE  /\ Len(save_font(s, sv)) = Len(sv)
         /\ \E d : Follows(op, b, op, save_font(s, sv), d, f)
<1>. DEFINE n == Len(op)
            m == Len(sv)
            w == save_font(s, sv)
            d == [b EXCEPT ![m + 1] = f]
<1>1. n \in Nat /\ DOMAIN op = 1..n
  BY LenProperties
<1>2. sv \in Seq(Seq(SavedType)) /\ sv # <<>> /\ m \in Nat \ {0} /\ Chain(sv, b)
  BY SavesOfLevels DEF Book
<1>3. Chain(w, d) /\ (\A l \in 1..m : d[l] = b[l]) /\ d[m + 1] = f /\ Len(w) = m
  <2>1. /\ Chain(save_font(s, sv), [b EXCEPT ![Len(sv) + 1] = f])
        /\ \A l \in 1..Len(sv) : [b EXCEPT ![Len(sv) + 1] = f][l] = b[l]
        /\ [b EXCEPT ![Len(sv) + 1] = f][Len(sv) + 1] = f
        /\ Len(save_font(s, sv)) = Len(sv)
    <3>1. sv # <<>>
      BY <1>2
    <3>2. Chain(sv, b)
      BY <1>2
    <3>3. b[Len(sv) + 1] = [level |-> s.font.level, val |-> s.font.old]
      OBVIOUS
    <3>4. f.level = Len(sv)
      OBVIOUS
    <3>. QED
      BY ONLY <3>1, <3>2, <3>3, <3>4, ChainSave
  <2>. QED
    BY <2>1
<1>. HIDE DEF w, d
<1>4. \A k \in 1..n : Inner(op, k) \in 1..m
  <2>1. n # 0 => op[n].kind # "fonts"
    <3>. SUFFICES ASSUME n # 0, op[n].kind = "fonts" PROVE LineIn(op)
      OBVIOUS
    <3>1. n \in 1..n /\ "fonts" \in Line /\ n + 1 .. n = {}
      BY <1>1 DEF Line
    <3>. QED
      BY <1>1, <3>1 DEF LineIn
  <2>2. \A k \in 1..n : n # 0
    BY <1>1
  <2>. QED
    BY <2>1, <2>2, InnerLast
<1>. HIDE DEF n, m
<1>5. \A k \in 1..n : Outer(op, d, k) = Outer(op, b, k)
  BY <1>3, <1>4 DEF Outer
<1>6. Steady(op, d)
  <2>. SUFFICES ASSUME NEW i \in 1..n, op[i].kind \in Line, NEW k \in i + 1 .. n + 1,
                       \A j \in i + 1 .. k - 1 : op[j].kind = "group"
                PROVE  Outer(op, d, k).val = Outer(op, d, i).val
    BY <1>1 DEF Steady, n
  <2>1. k # n + 1
    <3>. SUFFICES ASSUME k = n + 1 PROVE LineIn(op)
      OBVIOUS
    <3>1. k - 1 = n
      BY <1>1
    <3>. QED
      BY <1>1, <3>1 DEF LineIn, n
  <2>2. k \in 1..n
    <3>1. n \in Nat
      BY <1>1
    <3>2. i \in Nat /\ 1 <= i /\ k \in Nat /\ i + 1 <= k /\ k <= n + 1
      BY <3>1
    <3>. QED
      BY <2>1, <3>1, <3>2
  <2>3. Outer(op, b, k).val = Outer(op, b, i).val
    BY <1>1 DEF Book, Steady, n
  <2>. QED
    BY <1>5, <2>2, <2>3
<1>7. Notes(op, d)
  <2>1. ASSUME NEW k \in 1..n, op[k].kind = "footnote"
        PROVE  LET p == op[k].sv
               IN p.attrs = p.old /\ p.packed = p.old /\ Outer(op, d, k) = [level |-> p.level, val |-> p.packed]
    <3>1. LET p == op[k].sv
          IN p.attrs = p.old /\ p.packed = p.old /\ Outer(op, b, k) = [level |-> p.level, val |-> p.packed]
      BY <1>1, <2>1 DEF Book, Notes
    <3>. QED
      BY <1>5, <3>1
  <2>. QED
    BY <1>1, <2>1 DEF Notes
<1>8. Book(op, w, d)
  BY <1>3, <1>6, <1>7 DEF Book
<1>9. Follows(op, b, op, w, d, f)
  BY <1>3, <1>5, <1>8 DEF Follows, SameOuter, n
<1>. QED
  BY <1>3, <1>9 DEF w, m

-----------------------------------------------------------------------------
(* The fonts that the elements of commands show below them *)
\* R relates positions of the same rank.
Paired(E, F, R) == \A i \in E, k \in F : Rank(E, i) = Rank(F, k) => <<i, k>> \in R

\* What relates positions of the same rank relates the last two, and the others.
LEMMA PairedAdd ==
  ASSUME NEW E \in SUBSET Nat, IsFiniteSet(E), NEW F \in SUBSET Nat, IsFiniteSet(F), Cardinality(E) = Cardinality(F),
         NEW p \in Nat, \A i \in E : i < p, NEW r \in Nat, \A k \in F : k < r, NEW R
  PROVE  Paired(E \cup {p}, F \cup {r}, R) <=> (Paired(E, F, R) /\ <<p, r>> \in R)
<1>. DEFINE G == E \cup {p}
            H == F \cup {r}
<1>1. /\ Cardinality(E) \in Nat /\ Rank(G, p) = Cardinality(E) + 1
      /\ \A i \in E : Rank(G, i) = Rank(E, i) /\ Rank(E, i) \in 1..Cardinality(E)
  BY RankAdd
<1>2. /\ Cardinality(F) \in Nat /\ Rank(H, r) = Cardinality(F) + 1
      /\ \A k \in F : Rank(H, k) = Rank(F, k) /\ Rank(F, k) \in 1..Cardinality(F)
  BY RankAdd
<1>3. \A i : i \in G <=> i \in E \/ i = p
  OBVIOUS
<1>4. \A k : k \in H <=> k \in F \/ k = r
  OBVIOUS
<1>. HIDE DEF G, H
<1>5. ASSUME Paired(G, H, R) PROVE Paired(E, F, R) /\ <<p, r>> \in R
  <2>1. <<p, r>> \in R
    <3>1. p \in G /\ r \in H /\ Rank(G, p) = Rank(H, r)
      BY <1>1, <1>2, <1>3, <1>4
    <3>. QED
      BY <1>5, <3>1 DEF Paired
  <2>2. ASSUME NEW i \in E, NEW k \in F, Rank(E, i) = Rank(F, k) PROVE <<i, k>> \in R
    <3>1. i \in G /\ k \in H /\ Rank(G, i) = Rank(H, k)
      BY <1>1, <1>2, <1>3, <1>4, <2>2
    <3>. QED
      BY <1>5, <3>1 DEF Paired
  <2>. QED
    BY <2>1, <2>2 DEF Paired
<1>6. ASSUME Paired(E, F, R), <<p, r>> \in R PROVE Paired(G, H, R)
  <2>. SUFFICES ASSUME NEW i \in G, NEW k \in H, Rank(G, i) = Rank(H, k) PROVE <<i, k>> \in R
    BY DEF Paired
  <2>1. CASE i \in E /\ k \in F
    <3>1. Rank(E, i) = Rank(F, k)
      BY <1>1, <1>2, <2>1
    <3>. QED
      BY <1>6, <2>1, <3>1 DEF Paired
  <2>2. CASE i = p /\ k = r
    BY <1>6, <2>2
  <2>3. CASE i \in E /\ k = r
    <3>1. Rank(G, i) \in 1..Cardinality(E) /\ Rank(G, i) = Cardinality(E) + 1
      BY <1>1, <1>2, <2>3
    <3>. QED
      BY <1>1, <3>1
  <2>4. CASE i = p /\ k \in F
    <3>1. Rank(H, k) \in 1..Cardinality(F) /\ Rank(H, k) = Cardinality(F) + 1
      BY <1>1, <1>2, <2>4
    <3>. QED
      BY <1>2, <3>1
  <2>. QED
    BY <1>3, <1>4, <2>1, <2>2, <2>3, <2>4
<1>. QED
  BY <1>5, <1>6 DEF G, H

\* An element shows, for text below it, the font around its command; it adds nothing itself.
Framed(s, op, b) ==
  /\ \A i \in Elems(C(s)) : s.frames[i].hi = {}
  /\ \A i \in Elems(C(s)), k \in Cmds(op) :
       Rank(Elems(C(s)), i) = Rank(Cmds(op), k) => Shows(s.frames, i - 1, Outer(op, b, k).val)

\* The elements are at positions of the stack.
LEMMA ElemsAt ==
  ASSUME NEW s, IsOutput(s)
  PROVE  /\ Elems(C(s)) \in SUBSET (1..Len(s.frames)) /\ IsFiniteSet(Elems(C(s))) /\ Elems(C(s)) \in SUBSET Nat
         /\ Len(s.frames) \in Nat /\ IsCore(C(s))
         /\ Top(C(s)) \in 1..Len(s.frames) /\ \A i \in Elems(C(s)) : i <= Top(C(s))
         /\ TopName(C(s)) \in Kinds => Top(C(s)) \in Elems(C(s))
<1>1. IsStack(s.frames)
  BY DEF IsOutput
<1>2. IsCore(C(s)) /\ DOMAIN C(s) = Solid(s.frames)
  BY <1>1, CoreOfStack DEF C
<1>3. Solid(s.frames) \in SUBSET (1..Len(s.frames)) /\ Len(s.frames) \in Nat
  BY <1>1, StackAt
<1>4. IsFiniteSet(DOMAIN C(s))
  BY <1>2, CorePositions
<1>5. Elems(C(s)) \subseteq DOMAIN C(s)
  BY DEF Elems
<1>6. IsFiniteSet(Elems(C(s)))
  BY <1>4, <1>5, FS_Subset
<1>7. Top(C(s)) \in DOMAIN C(s) /\ \A j \in DOMAIN C(s) : j <= Top(C(s))
  BY <1>2, TopIsGreatest
<1>8. TopName(C(s)) \in Kinds => Top(C(s)) \in Elems(C(s))
  BY <1>7 DEF Elems, TopName
<1>. QED
  BY <1>2, <1>3, <1>5, <1>6, <1>7, <1>8

\* What keeps the elements keeps this.
LEMMA FramedKept ==
  ASSUME NEW s, IsOutput(s), NEW t, Kept(s, t), NEW op, NEW b, Framed(s, op, b),
         NEW d, d = b \/ (op \in Seq(OpenCommands) /\ SameOuter(op, b, op, d))
  PROVE  Framed(t, op, d)
<1>. DEFINE E == Elems(C(s))
<1>1. Elems(C(t)) = E /\ \A i \in E : \A j \in 1..i : t.frames[j] = s.frames[j]
  BY DEF Kept
<1>2. E \in SUBSET Nat /\ \A i \in E : 1 <= i
  BY ElemsAt
<1>3. /\ \A i \in E : s.frames[i].hi = {}
      /\ \A i \in E, k \in Cmds(op) : Rank(E, i) = Rank(Cmds(op), k) => Shows(s.frames, i - 1, Outer(op, b, k).val)
  BY DEF Framed
<1>. HIDE DEF E
<1>0. \A k \in Cmds(op) : Outer(op, d, k) = Outer(op, b, k)
  <2>1. op \in Seq(OpenCommands) => Cmds(op) \subseteq 1..Len(op)
    BY LenProperties DEF Cmds
  <2>. QED
    BY <2>1 DEF SameOuter
<1>4. \A i \in E : t.frames[i].hi = {}
  BY <1>1, <1>2, <1>3
<1>5. ASSUME NEW i \in E, NEW k \in Cmds(op), Rank(E, i) = Rank(Cmds(op), k)
      PROVE  Shows(t.frames, i - 1, Outer(op, d, k).val)
  <2>1. \A j \in 1 .. i - 1 : t.frames[j] = s.frames[j]
    BY <1>1, <1>2
  <2>2. Shows(s.frames, i - 1, Outer(op, b, k).val)
    BY <1>3, <1>5
  <2>3. Outer(op, d, k).val = Outer(op, b, k).val
    BY <1>0
  <2>. QED
    BY <2>1, <2>2, <2>3, ShowsSame
<1>. QED
  BY <1>1, <1>4, <1>5 DEF Framed

\* A group has no element.
LEMMA FramedGroup ==
  ASSUME NEW op \in Seq(OpenCommands), NEW e \in OpenCommands, e.kind = "group", NEW s, NEW b, NEW d,
         SameOuter(op, b, Append(op, e), d)
  PROVE  Framed(s, Append(op, e), d) <=> Framed(s, op, b)
<1>1. Cmds(Append(op, e)) = Cmds(op) /\ Cmds(op) \subseteq 1..Len(op)
  BY CmdsAppend, LenProperties DEF Cmds
<1>. QED
  BY <1>1 DEF Framed, SameOuter

\* t has the frames of s below position p, and there the element of one more command.
Grown(s, t, p) ==
  /\ p \in Nat /\ Elems(C(t)) = Elems(C(s)) \cup {p} /\ \A i \in Elems(C(s)) : i < p
  /\ \A j \in 1 .. p - 1 : t.frames[j] = s.frames[j]

\* A command opens with its element, or closes with it.
LEMMA FramedElement ==
  ASSUME NEW s, IsOutput(s), NEW op \in Seq(OpenCommands), Matched(C(s), op),
         NEW t, NEW p, Grown(s, t, p),
         NEW e \in OpenCommands, e.kind # "group", NEW b, NEW d, SameOuter(op, b, Append(op, e), d)
  PROVE  Framed(t, Append(op, e), d)
           <=> (/\ Framed(s, op, b) /\ t.frames[p].hi = {}
                /\ Shows(t.frames, p - 1, Outer(Append(op, e), d, Len(op) + 1).val))
<1>. DEFINE E == Elems(C(s))
            F == Cmds(op)
            r == Len(op) + 1
            q == Append(op, e)
            R == { z \in (E \cup {p}) \X (F \cup {r}) : Shows(t.frames, z[1] - 1, Outer(q, d, z[2]).val) }
<1>0. /\ p \in Nat /\ Elems(C(t)) = E \cup {p} /\ \A i \in E : i < p
      /\ \A j \in 1 .. p - 1 : t.frames[j] = s.frames[j]
  BY DEF Grown
<1>1. E \in SUBSET Nat /\ IsFiniteSet(E) /\ \A i \in E : 1 <= i /\ i < p
  BY <1>0, ElemsAt
<1>2. F \in SUBSET Nat /\ IsFiniteSet(F) /\ r \in Nat /\ (\A k \in F : k < r) /\ Cmds(q) = F \cup {r}
  BY CmdsAppend
<1>3. Cardinality(E) = Cardinality(F)
  BY DEF Matched
<1>4. F \subseteq 1..Len(op)
  BY LenProperties DEF Cmds
<1>5. \A k \in F : Outer(q, d, k) = Outer(op, b, k)
  BY <1>4 DEF SameOuter
<1>6. \A i \in E \cup {p}, k \in F \cup {r} : <<i, k>> \in R <=> Shows(t.frames, i - 1, Outer(q, d, k).val)
  OBVIOUS
<1>7. /\ Framed(s, op, b) <=> (/\ \A i \in E : s.frames[i].hi = {}
                               /\ \A i \in E, k \in F : Rank(E, i) = Rank(F, k) => Shows(s.frames, i - 1, Outer(op, b, k).val))
      /\ Framed(t, q, d) <=> (/\ \A i \in E \cup {p} : t.frames[i].hi = {}
                              /\ \A i \in E \cup {p}, k \in F \cup {r} :
                                   Rank(E \cup {p}, i) = Rank(F \cup {r}, k) => Shows(t.frames, i - 1, Outer(q, d, k).val))
  BY <1>0, <1>2 DEF Framed
<1>. HIDE DEF E, F, R, q, r
<1>8. \A i \in E : i \in 1 .. p - 1
  <2>. TAKE i \in E
  <2>1. i \in Nat /\ 1 <= i /\ i < p /\ p \in Nat
    BY <1>0, <1>1
  <2>. QED
    BY <2>1
<1>9. \A i \in E : t.frames[i].hi = s.frames[i].hi
  BY <1>0, <1>8
<1>10. ASSUME NEW i \in E, NEW k \in F
       PROVE  Shows(t.frames, i - 1, Outer(q, d, k).val) <=> Shows(s.frames, i - 1, Outer(op, b, k).val)
  <2>1. \A j \in 1 .. i - 1 : t.frames[j] = s.frames[j] /\ s.frames[j] = t.frames[j]
    BY <1>0, <1>1, <1>8
  <2>2. Outer(q, d, k).val = Outer(op, b, k).val
    BY <1>5
  <2>. QED
    BY <2>1, <2>2, ShowsSame
<1>11. (\A i \in E, k \in F : Rank(E, i) = Rank(F, k) => Shows(s.frames, i - 1, Outer(op, b, k).val)) <=> Paired(E, F, R)
  <2>1. \A i \in E, k \in F : <<i, k>> \in R <=> Shows(s.frames, i - 1, Outer(op, b, k).val)
    BY <1>6, <1>10
  <2>. QED
    BY <2>1 DEF Paired
<1>12. (\A i \in E \cup {p}, k \in F \cup {r} :
          Rank(E \cup {p}, i) = Rank(F \cup {r}, k) => Shows(t.frames, i - 1, Outer(q, d, k).val))
       <=> Paired(E \cup {p}, F \cup {r}, R)
  BY <1>6 DEF Paired
<1>13. Paired(E \cup {p}, F \cup {r}, R) <=> (Paired(E, F, R) /\ <<p, r>> \in R)
  BY <1>0, <1>1, <1>2, <1>3, PairedAdd
<1>14. <<p, r>> \in R <=> Shows(t.frames, p - 1, Outer(q, d, r).val)
  BY <1>6
<1>15. (\A i \in E \cup {p} : t.frames[i].hi = {}) <=> (\A i \in E : s.frames[i].hi = {}) /\ t.frames[p].hi = {}
  BY <1>9
<1>. QED
  BY <1>7, <1>11, <1>12, <1>13, <1>14, <1>15 DEF q, r

\* In a part of a line the font around the last commands shows.
LEMMA LineShows ==
  ASSUME NEW s, Sound(s), NEW op \in Seq(OpenCommands), Matched(C(s), op), NEW sv, NEW b, Book(op, sv, b),
         Framed(s, op, b), TopName(C(s)) \in Line
  PROVE  /\ LineIn(op) /\ op # <<>>
         /\ \A k \in {Len(op), Len(op) + 1} : Shows(s.frames, Top(C(s)), Outer(op, b, k).val)
<1>. DEFINE E == Elems(C(s))
            F == Cmds(op)
            p == Top(C(s))
            n == Len(op)
<1>1. IsOutput(s) /\ Line \subseteq Kinds
  BY InlineIs DEF Sound
<1>2. p \in E /\ (\A i \in E : i <= p) /\ E \in SUBSET Nat /\ 1 <= p /\ IsFiniteSet(E)
  BY <1>1, ElemsAt
<1>3. n \in Nat /\ DOMAIN op = 1..n /\ F \in SUBSET (1..n) /\ IsFiniteSet(F)
  <2>1. n \in Nat /\ DOMAIN op = 1..n
    BY LenProperties
  <2>2. F \in SUBSET (1..n)
    BY <2>1 DEF Cmds
  <2>. HIDE DEF F, n
  <2>3. IsFiniteSet(1..n)
    BY <2>1, FS_Interval
  <2>. QED
    BY <2>1, <2>2, <2>3, FS_Subset
<1>4. /\ Cardinality(E) = Cardinality(F)
      /\ \A i \in E, k \in F : Rank(E, i) = Rank(F, k) => C(s)[i].frame = op[k].kind
  BY DEF Matched
<1>5. /\ s.frames[p].hi = {}
      /\ \A k \in F : Rank(E, p) = Rank(F, k) => Shows(s.frames, p - 1, Outer(op, b, k).val)
  BY <1>2 DEF Framed
<1>6. C(s)[p].frame \in Line /\ s.frames[p].frame \in Line
  BY <1>1, TopIsTop DEF TopName, C, IsOutput
<1>7. \A k \in 1..n : k \in F <=> op[k].kind # "group"
  BY <1>3 DEF Cmds
<1>. HIDE DEF E, F, p, n
<1>8. F # {}
  <2>1. Cardinality(E) # 0
    BY <1>2, FS_EmptySet
  <2>. QED
    BY <1>4, <2>1, FS_EmptySet
<1>9. PICK m \in F : \A j \in F : j <= m
  BY <1>3, <1>8, GreatestPosition
<1>10. Rank(E, p) = Rank(F, m)
  BY <1>2, <1>4, <1>9, RankLast
<1>11. op[m].kind \in Line /\ Shows(s.frames, p - 1, Outer(op, b, m).val)
  BY <1>2, <1>4, <1>5, <1>6, <1>9, <1>10
<1>12. Shows(s.frames, p, Outer(op, b, m).val)
  <2>1. p - 1 \in Nat /\ (p - 1) + 1 = p
    BY <1>2
  <2>2. s.frames[p].frame # "p"
    BY <1>6, InlineIs
  <2>. QED
    BY <1>5, <1>11, <2>1, <2>2, ShowsNext
<1>13. \A j \in m + 1 .. n : op[j].kind = "group"
  <2>1. \A j \in m + 1 .. n : j \in 1..n /\ ~(j <= m)
    BY <1>3
  <2>. QED
    BY <1>7, <1>9, <2>1
<1>14. LineIn(op) /\ n # 0
  BY <1>3, <1>9, <1>11, <1>13 DEF LineIn, n
<1>15. ASSUME NEW k \in {n, n + 1} PROVE Shows(s.frames, p, Outer(op, b, k).val)
  <2>1. CASE k = m
    BY <1>12, <2>1
  <2>2. CASE k # m
    <3>1. k \in m + 1 .. n + 1 /\ \A j \in m + 1 .. k - 1 : j \in m + 1 .. n
      BY <1>3, <1>9, <2>2
    <3>2. \A i_1 \in 1..n : op[i_1].kind \in Line =>
            \A k_1 \in i_1 + 1 .. n + 1 :
              (\A j \in i_1 + 1 .. k_1 - 1 : op[j].kind = "group") => Outer(op, b, k_1).val = Outer(op, b, i_1).val
      BY <1>3 DEF Book, Steady, n
    <3>3. m \in 1..n /\ \A j \in m + 1 .. k - 1 : op[j].kind = "group"
      BY <1>3, <1>13, <3>1
    <3>4. Outer(op, b, k).val = Outer(op, b, m).val
      BY <1>11, <3>1, <3>2, <3>3
    <3>. QED
      BY <1>12, <3>4
  <2>. QED
    BY <2>1, <2>2
<1>. QED
  BY <1>14, <1>15 DEF p, n

-----------------------------------------------------------------------------
(* The invariant of the fonts *)
FontInv(s, op, sv) ==
  Right(s) /\ \E b : Book(op, sv, b) /\ Framed(s, op, b) /\ b[Len(sv) + 1] = Current(s)

\* What keeps the elements and the font keeps the invariant.
LEMMA FontKept ==
  ASSUME NEW s, IsOutput(s), NEW op, NEW sv, FontInv(s, op, sv), NEW t, Right(t), Kept(s, t), SameFont(s, t)
  PROVE  FontInv(t, op, sv)
<1>1. PICK b : Book(op, sv, b) /\ Framed(s, op, b) /\ b[Len(sv) + 1] = Current(s)
  BY DEF FontInv
<1>2. Framed(t, op, b)
  BY <1>1, FramedKept
<1>3. Current(t) = Current(s)
  BY DEF Current, SameFont
<1>. QED
  BY <1>1, <1>2, <1>3 DEF FontInv

\* Another mode.
LEMMA FontMode ==
  ASSUME NEW s, IsOutput(s), Right(s), NEW m, m = "v" => s.buffer = {}
  PROVE  LET t == [s EXCEPT !.mode = m] IN Right(t) /\ Kept(s, t) /\ SameFont(s, t) /\ t.buffer = s.buffer
<1>. DEFINE t == [s EXCEPT !.mode = m]
<1>1. t.frames = s.frames /\ t.font = s.font /\ t.buffer = s.buffer /\ t.mode = m /\ t.misplaced = s.misplaced
  BY PartsWith
<1>. HIDE DEF t
<1>2. C(t) = C(s)
  BY <1>1 DEF C
<1>. QED
  BY <1>1, <1>2 DEF Right, Texts, Kept, SameFont, t

\* A group opens.
LEMMA FontGroup ==
  ASSUME NEW s, NEW op \in Seq(OpenCommands), NEW sv, Levels(op, sv), FontInv(s, op, sv),
         NEW e \in OpenCommands, e.kind = "group"
  PROVE  FontInv(s, Append(op, e), Append(sv, <<>>))
<1>. DEFINE w == Append(sv, <<>>)
            q == Append(op, e)
<1>1. PICK b : Book(op, sv, b) /\ Framed(s, op, b) /\ b[Len(sv) + 1] = Current(s)
  BY DEF FontInv
<1>2. /\ w = IF e.kind = "fonts" THEN sv ELSE Append(sv, <<>>)
      /\ e.kind # "list" /\ e.kind # "footnote"
  OBVIOUS
<1>. HIDE DEF w
<1>3. PICK d : Follows(op, b, q, w, d, b[Len(sv) + 1])
  BY <1>1, <1>2, BookOpen
<1>4. SameOuter(op, b, q, d)
  BY <1>3 DEF Follows
<1>5. Framed(s, q, d)
  BY <1>1, <1>4, FramedGroup
<1>6. Right(s)
  BY DEF FontInv
<1>. QED
  BY <1>1, <1>3, <1>5, <1>6 DEF FontInv, Follows, w

\* A command opens with its element.
LEMMA FontPush ==
  ASSUME NEW s, Sound(s), NEW op \in Seq(OpenCommands), Matched(C(s), op), NEW sv, Levels(op, sv), FontInv(s, op, sv),
         NEW e \in OpenCommands, e.kind \in Kinds, FitsOn(TopName(C(s)), e.kind, s.mode),
         e.kind = "list" => ~LineIn(op), e.kind = "footnote" => e.sv = s.font
  PROVE  /\ FontInv(push(s, e.kind), Append(op, e), IF e.kind = "fonts" THEN sv ELSE Append(sv, <<>>))
         /\ push(s, e.kind).buffer = s.buffer
<1>. DEFINE w == IF e.kind = "fonts" THEN sv ELSE Append(sv, <<>>)
            q == Append(op, e)
            n == e.kind
            t == push(s, n)
            r == Len(s.frames)
<1>1. PICK b : Book(op, sv, b) /\ Framed(s, op, b) /\ b[Len(sv) + 1] = Current(s)
  BY DEF FontInv
<1>2. n \in Names /\ n # "group" /\ n # "p" /\ IsOutput(s)
  BY KindNames DEF Sound, Kinds
<1>3. /\ Len(t.frames) = r + 1 /\ r \in Nat /\ (\A j \in 1..r : t.frames[j] = s.frames[j])
      /\ t.frames[r + 1] = Frame(n, s.mode, {})
      /\ Elems(C(t)) = Elems(C(s)) \cup {r + 1} /\ \A i \in Elems(C(s)) : i \in 1..r
      /\ t.buffer = s.buffer /\ t.misplaced = s.misplaced /\ t.font = s.font /\ t.mode = s.mode
  BY <1>2, PushIs
<1>. HIDE DEF w, t
<1>4. Right(s) /\ Shows(s.frames, r, s.font.packed)
  BY DEF FontInv, Right
<1>. HIDE DEF r
<1>5. t.frames[r + 1].frame # "p" /\ t.frames[r + 1].hi = {}
  BY <1>2, <1>3 DEF Frame
<1>6. Shows(t.frames, r, s.font.packed)
  BY <1>3, <1>4, ShowsSame
<1>7. Shows(t.frames, r + 1, s.font.packed)
  BY <1>3, <1>5, <1>6, ShowsNext
<1>8. Right(t)
  BY <1>3, <1>4, <1>7 DEF Right, Texts
<1>9. n = "footnote" => /\ e.sv.attrs = e.sv.old /\ e.sv.packed = e.sv.old
                        /\ b[Len(sv) + 1] = [level |-> e.sv.level, val |-> e.sv.packed]
  BY <1>1, <1>4 DEF Right, Texts, Current
<1>10. PICK d : Follows(op, b, q, w, d, b[Len(sv) + 1]) /\ Outer(q, d, Len(op) + 1) = b[Len(sv) + 1]
  <2>1. w = IF e.kind = "fonts" THEN sv ELSE Append(sv, <<>>)
    BY DEF w
  <2>. QED
    BY <1>1, <1>9, <2>1, BookOpen
<1>11. SameOuter(op, b, q, d)
  BY <1>10 DEF Follows
<1>12. Outer(q, d, Len(op) + 1) = Current(s) /\ Current(s).val = s.font.packed
  BY <1>1, <1>10 DEF Current
<1>13. Shows(t.frames, (r + 1) - 1, Outer(q, d, Len(op) + 1).val)
  BY <1>3, <1>6, <1>12
<1>14. Grown(s, t, r + 1)
  <2>1. /\ r + 1 \in Nat /\ (\A i \in Elems(C(s)) : i < r + 1) /\ (\A j \in 1 .. (r + 1) - 1 : t.frames[j] = s.frames[j])
    BY <1>3
  <2>. QED
    BY <1>3, <2>1 DEF Grown
<1>15. Framed(t, q, d)
  BY <1>1, <1>2, <1>3, <1>5, <1>11, <1>13, <1>14, FramedElement
<1>16. Current(t) = Current(s)
  BY <1>3 DEF Current
<1>. QED
  BY <1>1, <1>3, <1>8, <1>10, <1>15, <1>16 DEF FontInv, Follows, w, t

\* A command closes with its element.
LEMMA FramedPop ==
  ASSUME NEW s, Sound(s), NEW op \in Seq(OpenCommands), op # <<>>, Matched(C(s), op), NEW b, Framed(s, op, b),
         NEW n \in Kinds, n = TopName(C(s)), n = Last(op).kind,
         NEW d, SameOuter(op, b, Front(op), d)
  PROVE  Framed(pop(s, n), Front(op), d) /\ Shows(pop(s, n).frames, Len(pop(s, n).frames), Outer(op, b, Len(op)).val)
<1>. DEFINE t == pop(s, n)
            p == Top(C(s))
            f == Front(op)
            e == Last(op)
<1>1. n # "document" /\ n # "group" /\ IsOutput(s)
  BY DEF Kinds, Sound
<1>2. /\ Len(t.frames) = p - 1 /\ p \in Nat \ {0, 1} /\ (\A j \in 1..p - 1 : t.frames[j] = s.frames[j])
      /\ Elems(C(t)) = Elems(C(s)) \ {p}
  BY <1>1, PopIs
<1>3. p \in Elems(C(s)) /\ \A i \in Elems(C(s)) : i <= p /\ i \in Nat
  BY <1>1, ElemsAt
<1>4. /\ f \in Seq(OpenCommands) /\ e \in OpenCommands /\ e.kind # "group" /\ Append(f, e) = op
      /\ Len(op) = Len(f) + 1 /\ Len(f) \in Nat
  BY <1>1, PoppedAt, PushPop
<1>5. Matched(C(t), f) /\ IsOutput(t)
  BY <1>1, PopOutput DEF Sound
<1>. HIDE DEF t, p, f, e
<1>6. Elems(C(s)) = Elems(C(t)) \cup {p} /\ \A i \in Elems(C(t)) : i < p
  <2>1. ASSUME NEW i \in Elems(C(t)) PROVE i < p
    <3>1. i <= p /\ i # p /\ i \in Nat /\ p \in Nat
      BY <1>2, <1>3
    <3>. QED
      BY <3>1
  <2>. QED
    BY <1>2, <1>3, <2>1
<1>7. Grown(t, s, p)
  BY <1>2, <1>6 DEF Grown
<1>8. SameOuter(f, d, Append(f, e), b)
  BY <1>4 DEF SameOuter, f
<1>9. Framed(s, Append(f, e), b) <=> (/\ Framed(t, f, d) /\ s.frames[p].hi = {}
                                     /\ Shows(s.frames, p - 1, Outer(Append(f, e), b, Len(f) + 1).val))
  BY <1>4, <1>5, <1>7, <1>8, FramedElement
<1>10. Framed(t, f, d) /\ Shows(s.frames, p - 1, Outer(op, b, Len(op)).val)
  BY <1>4, <1>9
<1>11. Shows(t.frames, p - 1, Outer(op, b, Len(op)).val)
  BY <1>2, <1>10, ShowsSame
<1>. QED
  BY <1>2, <1>10, <1>11 DEF t, f

-----------------------------------------------------------------------------
(* Fonts at the end of a group or a command *)
\* The font around the last command is current.
Restored(s, op, sv) ==
  Right(s) /\ \E b : Book(op, sv, b) /\ Framed(s, op, b) /\ Current(s) = Outer(op, b, Len(op))

\* The end of a level restores its font.
LEMMA FontRestored ==
  ASSUME NEW s, Settled(s), NEW op \in Seq(OpenCommands), op # <<>>, Matched(C(s), op), NEW sv, Levels(op, sv),
         FontInv(s, op, sv), Last(op).kind # "fonts"
  PROVE  /\ Restored(RestoreLevel(s, Last(sv)), op, sv) /\ Redrawn(s, RestoreLevel(s, Last(sv)))
         /\ s.buffer = {} => RestoreLevel(s, Last(sv)).buffer = {}
<1>. DEFINE t == RestoreLevel(s, Last(sv))
            w == Front(sv)
<1>1. PICK b : Book(op, sv, b) /\ Framed(s, op, b) /\ b[Len(sv) + 1] = Current(s)
  BY DEF FontInv
<1>2. w = IF Last(op).kind = "fonts" THEN sv ELSE Front(sv)
  OBVIOUS
<1>. HIDE DEF w
<1>. DEFINE o == Outer(op, b, Len(op))
<1>3. o \in SavedType
  BY <1>1, <1>2, BookClose
<1>4. /\ Last(sv) \in Seq(SavedType) /\ \A i \in 1..Len(Last(sv)) : Last(sv)[i] = o
      /\ Last(sv) = <<>> => b[Len(sv) + 1] = o
  BY <1>1, <1>2, BookClose
<1>5. TopName(C(s)) \in Line => Shows(s.frames, Top(C(s)), o.val)
  BY <1>1, LineShows DEF Settled
<1>. HIDE DEF o
<1>6. Right(s) /\ IsOutput(s)
  BY DEF FontInv, Settled, Sound
<1>7. Last(sv) = <<>> => Current(s) = o
  BY <1>1, <1>4
<1>8. Right(t) /\ Redrawn(s, t) /\ Current(t) = o /\ (s.buffer = {} => t.buffer = {})
  BY <1>3, <1>4, <1>5, <1>6, <1>7, RestoreLevelRight
<1>. HIDE DEF t
<1>9. Kept(s, t)
  BY <1>6, <1>8, RedrawnKept
<1>10. Framed(t, op, b)
  BY <1>1, <1>6, <1>9, FramedKept
<1>. QED
  BY <1>1, <1>8, <1>10 DEF Restored, t, o

\* In a font command with an argument the font is that around it.
LEMMA FontsRestored ==
  ASSUME NEW s, NEW op \in Seq(OpenCommands), op # <<>>, NEW sv, Levels(op, sv),
         FontInv(s, op, sv), Last(op).kind = "fonts"
  PROVE  Restored(s, op, sv)
<1>1. PICK b : Book(op, sv, b) /\ Framed(s, op, b) /\ b[Len(sv) + 1] = Current(s)
  BY DEF FontInv
<1>2. sv = IF Last(op).kind = "fonts" THEN sv ELSE Front(sv)
  OBVIOUS
<1>3. b[Len(sv) + 1] = Outer(op, b, Len(op))
  BY <1>1, <1>2, BookClose
<1>. QED
  BY <1>1, <1>3 DEF Restored, FontInv

\* What keeps the elements and the font keeps this.
LEMMA RestoredKept ==
  ASSUME NEW s, IsOutput(s), NEW op, NEW sv, Restored(s, op, sv), NEW t, Right(t), Kept(s, t), SameFont(s, t)
  PROVE  Restored(t, op, sv)
<1>1. PICK b : Book(op, sv, b) /\ Framed(s, op, b) /\ Current(s) = Outer(op, b, Len(op))
  BY DEF Restored
<1>2. Framed(t, op, b)
  BY <1>1, FramedKept
<1>3. Current(t) = Current(s)
  BY DEF Current, SameFont
<1>. QED
  BY <1>1, <1>2, <1>3 DEF Restored

\* A group closes.
LEMMA RestoredGroup ==
  ASSUME NEW s, NEW op \in Seq(OpenCommands), op # <<>>, NEW sv, Levels(op, sv), Restored(s, op, sv), Last(op).kind = "group"
  PROVE  FontInv(s, Front(op), Front(sv))
<1>. DEFINE w == Front(sv)
            f == Front(op)
            e == Last(op)
<1>1. PICK b : Book(op, sv, b) /\ Framed(s, op, b) /\ Current(s) = Outer(op, b, Len(op))
  BY DEF Restored
<1>2. w = IF Last(op).kind = "fonts" THEN sv ELSE Front(sv)
  OBVIOUS
<1>. HIDE DEF w
<1>3. PICK d : Follows(op, b, Front(op), w, d, Outer(op, b, Len(op)))
  BY <1>1, <1>2, BookClose
<1>4. f \in Seq(OpenCommands) /\ e \in OpenCommands /\ Append(f, e) = op /\ Len(op) = Len(f) + 1 /\ Len(f) \in Nat
  BY PoppedAt, PushPop
<1>5. SameOuter(op, b, f, d)
  BY <1>3 DEF Follows
<1>6. e.kind = "group"
  OBVIOUS
<1>. HIDE DEF f, e
<1>7. SameOuter(f, d, Append(f, e), b)
  BY <1>4, <1>5 DEF SameOuter
<1>8. Framed(s, f, d)
  BY <1>1, <1>4, <1>6, <1>7, FramedGroup
<1>. QED
  BY <1>1, <1>3, <1>8 DEF FontInv, Restored, Follows, f, w

\* A command closes with its element; the font below it is current.
LEMMA RestoredPop ==
  ASSUME NEW s, Sound(s), NEW op \in Seq(OpenCommands), op # <<>>, Matched(C(s), op), NEW sv, Levels(op, sv),
         Restored(s, op, sv), NEW n \in Kinds, n = TopName(C(s)), n = Last(op).kind, s.buffer = {}
  PROVE  /\ FontInv(pop(s, n), Front(op), IF n = "fonts" THEN sv ELSE Front(sv))
         /\ pop(s, n).buffer = {}
<1>. DEFINE t == pop(s, n)
            w == IF n = "fonts" THEN sv ELSE Front(sv)
<1>1. PICK b : Book(op, sv, b) /\ Framed(s, op, b) /\ Current(s) = Outer(op, b, Len(op))
  BY DEF Restored
<1>2. w = IF Last(op).kind = "fonts" THEN sv ELSE Front(sv)
  OBVIOUS
<1>. HIDE DEF w
<1>3. PICK d : Follows(op, b, Front(op), w, d, Outer(op, b, Len(op)))
  BY <1>1, <1>2, BookClose
<1>4. SameOuter(op, b, Front(op), d)
  BY <1>3 DEF Follows
<1>5. Framed(t, Front(op), d) /\ Shows(t.frames, Len(t.frames), Outer(op, b, Len(op)).val)
  BY <1>1, <1>4, FramedPop
<1>6. n # "document"
  BY DEF Kinds
<1>7. /\ t.buffer = s.buffer /\ t.misplaced = s.misplaced /\ t.font.packed = s.font.packed
      /\ t.font.attrs = s.font.attrs /\ t.font.old = s.font.old /\ t.font.level = s.font.level
  BY <1>6, PopIs
<1>. HIDE DEF t
<1>8. Current(t) = Current(s) /\ Current(s).val = s.font.packed
  BY <1>7 DEF Current
<1>9. Right(s)
  BY DEF Restored
<1>10. Right(t)
  BY <1>1, <1>5, <1>7, <1>8, <1>9 DEF Right, Texts
<1>. QED
  BY <1>1, <1>3, <1>5, <1>7, <1>8, <1>10 DEF FontInv, Follows, t, w

-----------------------------------------------------------------------------
(* The commands keep the invariant of the fonts *)
FontBefore == Before /\ FontInv(x, open, saves)
FontAfter == FontInv(x', open', saves')

\* What flush_buffer keeps.
LEMMA FlushKept ==
  ASSUME NEW s, Sound(s), Right(s)
  PROVE  /\ Right(flush_buffer(s)) /\ Kept(s, flush_buffer(s)) /\ SameFont(s, flush_buffer(s))
         /\ flush_buffer(s).buffer = {}
<1>1. Right(flush_buffer(s)) /\ flush_buffer(s).buffer = {} /\ Redrawn(s, flush_buffer(s))
      /\ flush_buffer(s).font = s.font
  BY FlushRight
<1>2. Kept(s, flush_buffer(s))
  BY <1>1, RedrawnKept DEF Sound
<1>. QED
  BY <1>1, <1>2 DEF SameFont

\* After another command the font is not in a part of a line.
LEMMA NotLineLast ==
  ASSUME NEW op \in Seq(OpenCommands), op # <<>>, Last(op).kind \notin Line \cup {"group"}
  PROVE  ~LineIn(op)
<1>. DEFINE n == Len(op)
<1>1. n \in Nat \ {0} /\ DOMAIN op = 1..n /\ Last(op) = op[n]
  BY LenProperties, EmptySeq DEF Last
<1>. HIDE DEF n
<1>2. SUFFICES ASSUME NEW i \in 1..n, op[i].kind \in Line, \A j \in i + 1 .. n : op[j].kind = "group"
               PROVE  FALSE
  BY <1>1 DEF LineIn, n
<1>3. i # n
  BY <1>1, <1>2
<1>4. n \in i + 1 .. n
  BY <1>1, <1>3
<1>. QED
  BY <1>1, <1>2, <1>4

\* Another font is selected, where it may be.
LEMMA FontChanged ==
  ASSUME NEW r, Sound(r), r.mode = "v" => Settled(r), NEW op, op \in Seq(OpenCommands), Matched(C(r), op),
         NEW sv, Levels(op, sv), FontInv(r, op, sv), ~LineIn(op),
         NEW g \in FontType, g.old = r.font.old, g.level = r.font.level
  PROVE  LET s == [r EXCEPT !.font = g]
             t == font_has_changed(s, sv)
         IN  /\ FontInv(t, op, save_font(s, sv)) /\ Redrawn(r, t)
             /\ r.buffer = {} => t.buffer = {}
             /\ Current(t) = [level |-> Len(sv), val |-> g.attrs]
<1>. DEFINE s == [r EXCEPT !.font = g]
            t == font_has_changed(s, sv)
            f == [level |-> Len(sv), val |-> g.attrs]
            w == save_font(s, sv)
<1>1. PICK b : Book(op, sv, b) /\ Framed(r, op, b) /\ b[Len(sv) + 1] = Current(r)
  BY DEF FontInv
<1>2. Right(r) /\ IsOutput(r)
  BY DEF FontInv, Sound
<1>3. TopName(C(r)) \notin Line
  BY <1>1, LineShows
<1>4. Len(sv) \in Nat /\ sv \in Seq(Seq(SavedType))
  BY SavesOfLevels
<1>5. g.old = r.font.packed
  BY <1>2 DEF Right, Texts
<1>6. s.font = g
  BY <1>2, PartsWith
<1>7. f \in SavedType /\ f.level = Len(sv)
  BY <1>4 DEF SavedType, FontType
<1>8. b[Len(sv) + 1] = [level |-> s.font.level, val |-> s.font.old]
  BY <1>1, <1>5, <1>6 DEF Current
<1>9. Right(t) /\ Redrawn(r, t) /\ Current(t) = f /\ (r.buffer = {} => t.buffer = {})
  BY <1>2, <1>3, <1>4, <1>5, ChangeRight
<1>. HIDE DEF s, t, f, w
<1>10. Len(w) = Len(sv) /\ \E d : Follows(op, b, op, w, d, f)
  BY <1>1, <1>4, <1>7, <1>8, BookSave DEF w
<1>11. PICK d : Follows(op, b, op, w, d, f)
  BY <1>10
<1>12. Book(op, w, d) /\ d[Len(w) + 1] = f /\ SameOuter(op, b, op, d)
  BY <1>11 DEF Follows
<1>13. Kept(r, t)
  BY <1>2, <1>9, RedrawnKept
<1>14. Framed(t, op, d)
  BY <1>1, <1>2, <1>12, <1>13, FramedKept
<1>15. FontInv(t, op, w)
  BY <1>9, <1>12, <1>14 DEF FontInv
<1>. QED
  BY <1>9, <1>15 DEF s, t, f, w

\* A character is in the buffer with the font that is selected.
LEMMA CharFont ==
  ASSUME FontBefore, Char
  PROVE  FontAfter
<1>. DEFINE s == IF x.mode = "v" THEN leave_v_mode(x) ELSE x
            t == [s EXCEPT !.buffer = @ \cup {s.font.packed}]
<1>1. x' = t /\ saves' = saves /\ open' = open
  BY DEF Char
<1>2. Before /\ FontInv(x, open, saves) /\ Right(x)
  BY DEF FontBefore, FontInv
<1>3. Settled(x) /\ IsOutput(x)
  BY <1>2, BeforeOf
<1>4. Settled(s) /\ s.mode # "v" /\ Right(s) /\ Kept(x, s) /\ SameFont(x, s)
  BY <1>2, <1>3, LeaveVSettled, LeaveVRight, KeptTrans
<1>. HIDE DEF s
<1>5. s \in Output /\ IsOutput(s)
  BY <1>4 DEF Settled, Sound, IsOutput
<1>6. /\ t.frames = s.frames /\ t.font = s.font /\ t.mode = s.mode /\ t.misplaced = s.misplaced
      /\ t.buffer = s.buffer \cup {s.font.packed}
  BY <1>5 DEF Output
<1>. HIDE DEF t
<1>7. C(t) = C(s)
  BY <1>6 DEF C
<1>8. Right(t) /\ Kept(s, t) /\ SameFont(s, t)
  BY <1>4, <1>6, <1>7 DEF Right, Texts, Kept, SameFont
<1>9. Kept(x, t) /\ SameFont(x, t)
  BY <1>4, <1>8, KeptTrans
<1>. QED
  BY <1>1, <1>2, <1>3, <1>8, <1>9, FontKept DEF FontAfter

\* A group begins with the font that is current.
LEMMA OpenBraceFont ==
  ASSUME FontBefore, OpenBrace
  PROVE  FontAfter
<1>. DEFINE e == [kind |-> "group", sv |-> {}]
<1>1. x' = x /\ saves' = Append(saves, <<>>) /\ open' = Append(open, e)
  BY DEF OpenBrace, Opens, push_level
<1>2. e \in OpenCommands /\ e.kind = "group"
  BY OpenTypes
<1>3. Before /\ FontInv(x, open, saves)
  BY DEF FontBefore
<1>. HIDE DEF e
<1>4. open \in Seq(OpenCommands) /\ Levels(open, saves)
  BY <1>3, BeforeOf
<1>. QED
  BY <1>1, <1>2, <1>3, <1>4, FontGroup DEF FontAfter

\* The end of a group restores the font.
LEMMA CloseBraceFont ==
  ASSUME FontBefore, CloseBrace
  PROVE  FontAfter
<1>1. Closes("group") /\ x' = pop_level(x) /\ saves' = Front(saves)
  BY DEF CloseBrace, PopsSaves
<1>2. Before /\ FontInv(x, open, saves)
  BY DEF FontBefore
<1>3. open # <<>> /\ Last(open).kind = "group" /\ open' = Front(open)
  BY <1>1, <1>2, ClosesOf
<1>4. open \in Seq(OpenCommands) /\ Settled(x) /\ Matched(C(x), open) /\ Levels(open, saves)
  BY <1>2, BeforeOf
<1>5. Restored(x', open, saves)
  BY <1>1, <1>2, <1>3, <1>4, FontRestored DEF pop_level
<1>. QED
  BY <1>1, <1>3, <1>4, <1>5, RestoredGroup DEF FontAfter

\* A font command shows its font.
LEMMA see_font_changeFont ==
  ASSUME FontBefore, see_font_change, "fontInLine" \notin document.commands
  PROVE  FontAfter
<1>1. PICK attrs \in NewAttributes :
        /\ x' = font_has_changed([x EXCEPT !.font.attrs = attrs], saves)
        /\ saves' = save_font([x EXCEPT !.font.attrs = attrs], saves)
  BY DEF see_font_change
<1>2. Before /\ FontInv(x, open, saves)
  BY DEF FontBefore
<1>3. open' = open /\ attrs \in SUBSET Attributes /\ ~InLine
  BY <1>2, NewAttributesType DEF see_font_change
<1>4. open \in Seq(OpenCommands) /\ Settled(x) /\ Sound(x) /\ IsOutput(x) /\ Matched(C(x), open) /\ Levels(open, saves)
  BY <1>2, BeforeOf
<1>5. ~LineIn(open)
  BY <1>3, <1>4, InLineIs, InnermostIs DEF InLine, Line
<1>. DEFINE g == [x.font EXCEPT !.attrs = attrs]
<1>6. g \in FontType /\ x.font \in FontType
  BY <1>3, <1>4, OutputFont
<1>7. g.old = x.font.old /\ g.level = x.font.level
  BY <1>6 DEF FontType
<1>8. [x EXCEPT !.font.attrs = attrs] = [x EXCEPT !.font = g]
  OBVIOUS
<1>. HIDE DEF g
<1>. QED
  BY <1>1, <1>2, <1>3, <1>4, <1>5, <1>6, <1>7, <1>8, FontChanged DEF FontAfter

\* \par leaves the text in its paragraph.
LEMMA T_par1Font ==
  ASSUME FontBefore, Plain, T_par1
  PROVE  FontAfter
<1>. DEFINE s == flush_buffer(x)
            t == leave_h_mode(s)
<1>1. ~InLine /\ x' = t /\ UNCHANGED <<saves, open, done>>
  BY DEF T_par1, Plain
<1>2. Before /\ FontInv(x, open, saves) /\ Right(x)
  BY DEF FontBefore, FontInv
<1>3. Settled(x) /\ Sound(x) /\ IsOutput(x) /\ StepInv(x, open, saves)
  BY <1>2, BeforeOf
<1>4. x.mode = "h" => TopName(C(x)) = "p"
  <2>1. InnerCommand(open) \notin {"fonts", "mbox"}
    BY <1>1, InnermostIs DEF InLine
  <2>. QED
    BY <1>3, <2>1, NotInLine
<1>5. Settled(s) /\ C(s) = C(x) /\ s.mode = x.mode
  BY <1>3, FlushSettled
<1>6. Right(s) /\ Kept(x, s) /\ SameFont(x, s)
  BY <1>2, <1>3, FlushKept
<1>. HIDE DEF s
<1>7. Right(t) /\ Kept(s, t) /\ SameFont(s, t)
  BY <1>4, <1>5, <1>6, LeaveHRight
<1>. HIDE DEF t
<1>8. Kept(x, t) /\ SameFont(x, t)
  BY <1>6, <1>7, KeptTrans
<1>. QED
  BY <1>1, <1>2, <1>3, <1>7, <1>8, FontKept DEF FontAfter

\* A paragraph that begins shows the font.
LEMMA implicit_parFont ==
  ASSUME FontBefore, Plain, implicit_par
  PROVE  FontAfter
<1>. DEFINE s == flush_buffer(x)
            t == leave_h_mode(s)
            u == push_par(t)
<1>1. /\ x.mode # "arg" /\ (x.mode = "h" => first_frame(x) = "p")
      /\ x' = u /\ UNCHANGED <<saves, open, done>>
  BY DEF implicit_par, Plain, finish_par_cmd
<1>2. Before /\ FontInv(x, open, saves) /\ Right(x)
  BY DEF FontBefore, FontInv
<1>3. Settled(x) /\ Sound(x) /\ IsOutput(x) /\ x.mode \in {"v", "h", "arg"}
  BY <1>2, BeforeOf DEF Modes
<1>4. x.mode = "h" => TopName(C(x)) = "p"
  BY <1>1, <1>3, FirstFrameIsTop
<1>5. Settled(s) /\ C(s) = C(x) /\ s.mode = x.mode
  BY <1>3, FlushSettled
<1>6. Right(s) /\ Kept(x, s) /\ SameFont(x, s)
  BY <1>2, <1>3, FlushKept
<1>. HIDE DEF s
<1>7. Settled(t) /\ Right(t) /\ Kept(s, t) /\ SameFont(s, t) /\ (s.mode = "h" => t.mode = "v") /\ (s.mode # "h" => t = s)
  BY <1>4, <1>5, <1>6, LeaveHRight, LeaveHSettled
<1>. HIDE DEF t
<1>8. t.mode = "v"
  BY <1>1, <1>3, <1>5, <1>7
<1>9. TopName(C(t)) \in VTops /\ Sound(t)
  <2>1. TopName(C(t)) \in Names /\ t.mode \in Modes /\ ModeFits(TopName(C(t)), t.mode)
    BY <1>7, TopIsName DEF Settled
  <2>. QED
    BY <1>7, <1>8, <2>1, ModeTells DEF Settled
<1>10. Right(u) /\ Kept(t, u) /\ SameFont(t, u)
  BY <1>7, <1>8, <1>9, PushParRight DEF Right
<1>. HIDE DEF u
<1>11. Kept(s, u) /\ SameFont(s, u)
  BY <1>7, <1>10, KeptTrans
<1>12. Kept(x, u) /\ SameFont(x, u)
  BY <1>6, <1>11, KeptTrans
<1>. QED
  BY <1>1, <1>2, <1>3, <1>10, <1>12, FontKept DEF FontAfter

\* Where a part of a line begins, the font is current.
LEMMA InLineFont ==
  ASSUME FontBefore
  PROVE  FontInv(leave_v_mode(x), open, saves) /\ leave_v_mode(x).buffer = {}
<1>1. Before /\ FontInv(x, open, saves) /\ Right(x)
  BY DEF FontBefore, FontInv
<1>2. Settled(x) /\ IsOutput(x)
  BY <1>1, BeforeOf
<1>3. Right(leave_v_mode(x)) /\ Kept(x, leave_v_mode(x)) /\ SameFont(x, leave_v_mode(x)) /\ leave_v_mode(x).buffer = {}
  BY <1>1, <1>2, LeaveVRight
<1>. QED
  BY <1>1, <1>2, <1>3, FontKept

\* A font command with an argument begins with the font around it.
LEMMA T_fontsFont ==
  ASSUME FontBefore, T_fonts
  PROVE  FontAfter
<1>. DEFINE s == leave_v_mode(x)
            e == [kind |-> "fonts", sv |-> {}]
<1>1. x' = push(s, "fonts") /\ open' = Append(open, e) /\ saves' = saves
  BY DEF T_fonts, Opens
<1>2. e \in OpenCommands /\ e.kind = "fonts" /\ e.kind \in Kinds
  BY OpenTypes, KindNames DEF Kinds
<1>. HIDE DEF e
<1>3. Before /\ open \in Seq(OpenCommands) /\ Levels(open, saves)
  BY BeforeOf DEF FontBefore
<1>4. Sound(s) /\ Matched(C(s), open) /\ FitsOn(TopName(C(s)), "fonts", s.mode)
  BY <1>3, InLineOpens
<1>5. FontInv(s, open, saves)
  BY InLineFont
<1>. HIDE DEF s
<1>6. FontInv(push(s, e.kind), Append(open, e), IF e.kind = "fonts" THEN saves ELSE Append(saves, <<>>))
  BY <1>2, <1>3, <1>4, <1>5, FontPush
<1>. QED
  BY <1>1, <1>2, <1>6 DEF FontAfter

\* A box in a line begins with the font around it.
LEMMA internal_makeboxFont ==
  ASSUME FontBefore, internal_makebox
  PROVE  FontAfter
<1>. DEFINE s == leave_v_mode(x)
            e == [kind |-> "mbox", sv |-> {}]
<1>1. x' = push(s, "mbox") /\ open' = Append(open, e) /\ saves' = Append(saves, <<>>)
  BY DEF internal_makebox, Opens, push_level
<1>2. e \in OpenCommands /\ e.kind = "mbox" /\ e.kind \in Kinds
  BY OpenTypes, KindNames DEF Kinds
<1>. HIDE DEF e
<1>3. Before /\ open \in Seq(OpenCommands) /\ Levels(open, saves)
  BY BeforeOf DEF FontBefore
<1>4. Sound(s) /\ Matched(C(s), open) /\ FitsOn(TopName(C(s)), "mbox", s.mode)
  BY <1>3, InLineOpens
<1>5. FontInv(s, open, saves)
  BY InLineFont
<1>. HIDE DEF s
<1>6. FontInv(push(s, e.kind), Append(open, e), IF e.kind = "fonts" THEN saves ELSE Append(saves, <<>>))
  BY <1>2, <1>3, <1>4, <1>5, FontPush
<1>. QED
  BY <1>1, <1>2, <1>6 DEF FontAfter

\* What begins in another mode.
LEMMA FontPushMode ==
  ASSUME NEW s, Sound(s), NEW op \in Seq(OpenCommands), Matched(C(s), op), NEW sv, Levels(op, sv), FontInv(s, op, sv),
         NEW e \in OpenCommands, e.kind \in {"hbox", "head", "labelitem"}, FitsOn(TopName(C(s)), e.kind, s.mode)
  PROVE  FontInv([push(s, e.kind) EXCEPT !.mode = "arg"], Append(op, e), Append(sv, <<>>))
<1>. DEFINE t == push(s, e.kind)
            u == [t EXCEPT !.mode = "arg"]
            w == IF e.kind = "fonts" THEN sv ELSE Append(sv, <<>>)
<1>1. e.kind \in Kinds /\ e.kind \in Names /\ e.kind # "list" /\ e.kind # "footnote" /\ w = Append(sv, <<>>)
  BY KindNames DEF Kinds
<1>2. FontInv(t, Append(op, e), w)
  BY <1>1, FontPush
<1>3. IsOutput(t)
  BY <1>1, PushOutput DEF Sound
<1>. HIDE DEF t
<1>4. Right(t)
  BY <1>2 DEF FontInv
<1>5. Right(u) /\ Kept(t, u) /\ SameFont(t, u)
  BY <1>3, <1>4, FontMode
<1>. HIDE DEF u, w
<1>6. FontInv(u, Append(op, e), w)
  BY <1>2, <1>3, <1>5, FontKept
<1>. QED
  BY <1>1, <1>6 DEF t, u

\* A box begins with the font around it.
LEMMA begin_boxFont ==
  ASSUME FontBefore, begin_box
  PROVE  FontAfter
<1>. DEFINE s == flush_buffer(x)
            e == [kind |-> "hbox", sv |-> {}]
<1>1. x' = [push(s, "hbox") EXCEPT !.mode = "arg"] /\ open' = Append(open, e) /\ saves' = Append(saves, <<>>)
  BY DEF begin_box, Opens, push_level
<1>2. e \in OpenCommands /\ e.kind = "hbox"
  BY OpenTypes DEF Kinds
<1>. HIDE DEF e
<1>3. Before /\ FontInv(x, open, saves) /\ Right(x)
  BY DEF FontBefore, FontInv
<1>4. open \in Seq(OpenCommands) /\ Levels(open, saves) /\ Settled(x) /\ Sound(x) /\ IsOutput(x) /\ Matched(C(x), open)
  BY <1>3, BeforeOf
<1>5. Settled(s) /\ C(s) = C(x) /\ s.mode = x.mode
  BY <1>4, FlushSettled
<1>6. FontInv(s, open, saves)
  BY <1>3, <1>4, FlushKept, FontKept
<1>. HIDE DEF s
<1>7. TopName(C(s)) \in Names /\ s.mode \in Modes /\ ModeFits(TopName(C(s)), s.mode) /\ Sound(s)
  BY <1>5, TopIsName DEF Settled
<1>8. FitsOn(TopName(C(s)), "hbox", s.mode) /\ Matched(C(s), open)
  BY <1>4, <1>5, <1>7, FitsTells
<1>9. FontInv([push(s, e.kind) EXCEPT !.mode = "arg"], Append(open, e), Append(saves, <<>>))
  BY <1>2, <1>4, <1>6, <1>7, <1>8, FontPushMode
<1>. QED
  BY <1>1, <1>2, <1>9 DEF FontAfter

\* A command whose element is on top ends: the font around it is current.
LEMMA TopClosesFont ==
  ASSUME FontBefore, NEW k \in {"fonts", "mbox", "hbox", "head", "labelitem"}, Closes(k),
         NEW s, Redrawn(x, s), Restored(s, open, saves)
  PROVE  /\ FontInv(pop(flush_buffer(s), k), Front(open), IF k = "fonts" THEN saves ELSE Front(saves))
         /\ pop(flush_buffer(s), k).buffer = {} /\ Right(pop(flush_buffer(s), k))
<1>. DEFINE t == flush_buffer(s)
<1>1. Before
  BY DEF FontBefore
<1>2. open # <<>> /\ Last(open).kind = k /\ InnerIs(C(x), k) /\ k \in Kinds
  BY <1>1, ClosesOf DEF Kinds
<1>3. open \in Seq(OpenCommands) /\ Levels(open, saves) /\ Sound(x) /\ IsOutput(x) /\ Matched(C(x), open)
  BY <1>1, BeforeOf
<1>4. TopName(C(x)) = k
  BY <1>2, <1>3, AboveInner DEF Sound
<1>5. Sound(s) /\ IsOutput(s) /\ C(s) = C(x)
  BY <1>3, RedrawnKept
<1>6. Sound(t) /\ C(t) = C(s)
  BY <1>5, FlushSettled
<1>7. Right(s)
  BY DEF Restored
<1>8. Right(t) /\ Kept(s, t) /\ SameFont(s, t) /\ t.buffer = {}
  BY <1>5, <1>7, FlushKept
<1>. HIDE DEF t
<1>9. Restored(t, open, saves)
  BY <1>5, <1>8, RestoredKept
<1>10. FontInv(pop(t, k), Front(open), IF k = "fonts" THEN saves ELSE Front(saves)) /\ pop(t, k).buffer = {}
  BY <1>2, <1>3, <1>4, <1>5, <1>6, <1>8, <1>9, RestoredPop
<1>. QED
  BY <1>10 DEF t, FontInv

\* When the level of such a command ends, its font is restored.
LEMMA LevelFont ==
  ASSUME FontBefore, NEW k, Closes(k), k # "fonts"
  PROVE  Redrawn(x, pop_level(x)) /\ Restored(pop_level(x), open, saves)
<1>1. Before /\ FontInv(x, open, saves)
  BY DEF FontBefore
<1>2. open # <<>> /\ Last(open).kind = k
  BY <1>1, ClosesOf
<1>3. open \in Seq(OpenCommands) /\ Settled(x) /\ Matched(C(x), open) /\ Levels(open, saves)
  BY <1>1, BeforeOf
<1>. QED
  BY <1>1, <1>2, <1>3, FontRestored DEF pop_level

\* The end of a font command restores the font around it.
LEMMA EndFontsFont ==
  ASSUME FontBefore, EndFonts
  PROVE  FontAfter
<1>1. Closes("fonts") /\ x' = pop(flush_buffer(x), "fonts") /\ saves' = saves
  BY DEF EndFonts
<1>2. Before /\ FontInv(x, open, saves)
  BY DEF FontBefore
<1>3. open # <<>> /\ Last(open).kind = "fonts" /\ open' = Front(open)
  BY <1>1, <1>2, ClosesOf
<1>4. open \in Seq(OpenCommands) /\ Levels(open, saves) /\ Redrawn(x, x)
  BY <1>2, BeforeOf, KeptTrans
<1>5. Restored(x, open, saves)
  BY <1>2, <1>3, <1>4, FontsRestored
<1>6. FontInv(pop(flush_buffer(x), "fonts"), Front(open), saves)
  BY <1>1, <1>4, <1>5, TopClosesFont
<1>. QED
  BY <1>1, <1>3, <1>6 DEF FontAfter

\* So does the end of a box in a line.
LEMMA EndMakeboxFont ==
  ASSUME FontBefore, EndMakebox
  PROVE  FontAfter
<1>1. Closes("mbox") /\ x' = pop(flush_buffer(pop_level(x)), "mbox") /\ saves' = Front(saves)
  BY DEF EndMakebox, PopsSaves
<1>2. open' = Front(open)
  BY <1>1, ClosesOf DEF FontBefore
<1>3. Redrawn(x, pop_level(x)) /\ Restored(pop_level(x), open, saves)
  BY <1>1, LevelFont
<1>4. FontInv(pop(flush_buffer(pop_level(x)), "mbox"), Front(open), Front(saves))
  BY <1>1, <1>3, TopClosesFont
<1>. QED
  BY <1>1, <1>2, <1>4 DEF FontAfter

\* And that of a box.
LEMMA EndBoxFont ==
  ASSUME FontBefore, EndBox
  PROVE  FontAfter
<1>1. Closes("hbox") /\ x' = pop(flush_buffer(pop_level(x)), "hbox") /\ saves' = Front(saves)
  BY DEF EndBox, PopsSaves
<1>2. open' = Front(open)
  BY <1>1, ClosesOf DEF FontBefore
<1>3. Redrawn(x, pop_level(x)) /\ Restored(pop_level(x), open, saves)
  BY <1>1, LevelFont
<1>4. FontInv(pop(flush_buffer(pop_level(x)), "hbox"), Front(open), Front(saves))
  BY <1>1, <1>3, TopClosesFont
<1>. QED
  BY <1>1, <1>2, <1>4 DEF FontAfter

\* After a title the mode is vertical.
LEMMA EndHeadFont ==
  ASSUME FontBefore, EndHead
  PROVE  FontAfter
<1>. DEFINE u == pop(flush_buffer(pop_level(x)), "head")
            w == [u EXCEPT !.mode = "v"]
<1>1. Closes("head") /\ x' = w /\ saves' = Front(saves)
  BY DEF EndHead, PopsSaves
<1>0. Before
  BY DEF FontBefore
<1>2. Alike(x, pop_level(x))
  BY <1>0, <1>1, ClosesOf
<1>3. open' = Front(open) /\ Sound(u) /\ IsOutput(u)
  BY <1>0, <1>1, <1>2, TopCloses DEF Sound
<1>4. Redrawn(x, pop_level(x)) /\ Restored(pop_level(x), open, saves)
  BY <1>1, LevelFont
<1>5. FontInv(u, Front(open), Front(saves)) /\ u.buffer = {} /\ Right(u)
  BY <1>1, <1>4, TopClosesFont
<1>. HIDE DEF u
<1>6. Right(w) /\ Kept(u, w) /\ SameFont(u, w)
  BY <1>3, <1>5, FontMode
<1>. QED
  BY <1>1, <1>3, <1>5, <1>6, FontKept DEF FontAfter

\* After the label of an item a paragraph begins.
LEMMA EndLabelFont ==
  ASSUME FontBefore, EndLabel
  PROVE  FontAfter
<1>. DEFINE u == pop(flush_buffer(pop_level(x)), "labelitem")
            w == StartItem(u)
<1>1. Closes("labelitem") /\ x' = w /\ saves' = Front(saves)
  BY DEF EndLabel, PopsSaves
<1>0. Before
  BY DEF FontBefore
<1>2. Alike(x, pop_level(x))
  BY <1>0, <1>1, ClosesOf
<1>3. /\ open' = Front(open) /\ Sound(u) /\ IsOutput(u) /\ FitsOn(TopName(C(u)), "labelitem", u.mode)
      /\ TopName(C(u)) \in Names /\ u.mode \in Modes
  BY <1>0, <1>1, <1>2, TopCloses DEF Sound
<1>4. Redrawn(x, pop_level(x)) /\ Restored(pop_level(x), open, saves)
  BY <1>1, LevelFont
<1>5. FontInv(u, Front(open), Front(saves)) /\ Right(u)
  BY <1>1, <1>4, TopClosesFont
<1>. HIDE DEF u
<1>6. TopName(C(u)) = "list" /\ u.mode # "h"
  BY <1>3, FitsTells
<1>7. Right(w) /\ Kept(u, w) /\ SameFont(u, w)
  BY <1>3, <1>5, <1>6, StartItemRight DEF Right
<1>. QED
  BY <1>1, <1>3, <1>5, <1>7, FontKept DEF FontAfter

\* A footnote begins with a normal font.
LEMMA T_cap_or_noteFont ==
  ASSUME FontBefore, T_cap_or_note
  PROVE  FontAfter
<1>. DEFINE q == leave_v_mode(x)
            s == push(q, "footnote")
            t == [s EXCEPT !.font.attrs = {}]
            sv == Append(saves, <<>>)
            e == [kind |-> "footnote", sv |-> s.font]
            op == Append(open, e)
            u == font_has_changed(t, sv)
            w == [u EXCEPT !.mode = "v"]
<1>1. x' = w /\ open' = op /\ saves' = save_font(t, sv)
  BY DEF T_cap_or_note
<1>2. Before /\ open \in Seq(OpenCommands) /\ Levels(open, saves)
  BY BeforeOf DEF FontBefore
<1>3. /\ Sound(q) /\ Matched(C(q), open) /\ FitsOn(TopName(C(q)), "footnote", q.mode) /\ q.mode # "v"
      /\ q.font \in FontType
  BY <1>2, InLineOpens, OutputFont DEF Sound
<1>4. FontInv(q, open, saves) /\ q.buffer = {}
  BY InLineFont
<1>. HIDE DEF q
<1>5. "footnote" \in Kinds /\ "footnote" \in Names /\ "footnote" # "fonts" /\ "footnote" # "group" /\ "footnote" \notin Line
  BY KindNames DEF Kinds, Line
<1>6. s.font = q.font /\ s.mode = q.mode
  BY <1>3, <1>5, PushOutput
<1>7. e \in OpenCommands /\ e.kind = "footnote" /\ e.sv = q.font
  BY <1>3, <1>6, OpenTypes
<1>. HIDE DEF e
<1>8. op \in Seq(OpenCommands) /\ Sound(s) /\ Matched(C(s), op) /\ Levels(op, sv)
  BY <1>2, <1>3, <1>5, <1>7, OpenStep
<1>9. FontInv(s, op, sv) /\ s.buffer = {}
  <2>1. /\ FontInv(push(q, e.kind), op, IF e.kind = "fonts" THEN saves ELSE sv)
        /\ push(q, e.kind).buffer = q.buffer
    BY <1>2, <1>3, <1>4, <1>5, <1>7, FontPush
  <2>. QED
    BY <1>4, <1>5, <1>7, <2>1
<1>10. ~LineIn(op)
  <2>1. op # <<>> /\ Last(op) = e
    BY <1>2, <1>7, CmdsAppend
  <2>. QED
    BY <1>5, <1>7, <1>8, <2>1, NotLineLast
<1>. HIDE DEF s, op, sv
<1>. DEFINE g == [s.font EXCEPT !.attrs = {}]
<1>11. g \in FontType /\ s.font \in FontType
  BY <1>8, OutputFont DEF Sound
<1>12. g.old = s.font.old /\ g.level = s.font.level /\ t = [s EXCEPT !.font = g]
  BY <1>11 DEF FontType
<1>. HIDE DEF g
<1>13. FontInv(u, op, save_font(t, sv)) /\ Redrawn(s, u) /\ u.buffer = {}
  BY <1>3, <1>6, <1>8, <1>9, <1>10, <1>11, <1>12, FontChanged
<1>14. IsOutput(u) /\ Right(u)
  BY <1>8, <1>13, RedrawnKept DEF Sound, FontInv
<1>. HIDE DEF u, t
<1>15. Right(w) /\ Kept(u, w) /\ SameFont(u, w)
  BY <1>13, <1>14, FontMode
<1>. HIDE DEF w
<1>16. FontInv(w, op, save_font(t, sv))
  BY <1>13, <1>14, <1>15, FontKept
<1>. QED
  BY <1>1, <1>16 DEF FontAfter

\* Where the innermost command is a footnote, its paragraph ends.
LEMMA NoteLeaves ==
  ASSUME FontBefore, Closes("footnote")
  PROVE  LET q == leave_h_mode(flush_buffer(x))
         IN  /\ FontInv(q, open, saves) /\ q.buffer = {} /\ Sound(q) /\ Settled(q) /\ Matched(C(q), open)
             /\ TopName(C(q)) = "footnote"
<1>. DEFINE f == flush_buffer(x)
            q == leave_h_mode(f)
<1>1. Before /\ FontInv(x, open, saves) /\ Right(x)
  BY DEF FontBefore, FontInv
<1>2. "footnote" \in Kinds /\ "footnote" \in Names /\ "footnote" # "group"
  BY KindNames DEF Kinds
<1>3. InnerIs(C(x), "footnote")
  BY <1>1, <1>2, ClosesOf
<1>4. Settled(x) /\ Sound(x) /\ IsOutput(x) /\ Matched(C(x), open) /\ x.mode \in Modes
  BY <1>1, BeforeOf
<1>5. x.mode = "h" => TopName(C(x)) = "p"
  <2>1. TopName(C(x)) \in {"footnote", "p"}
    BY <1>3, <1>4, AboveInner DEF Sound
  <2>2. ModeFits(TopName(C(x)), x.mode)
    BY <1>4 DEF Settled
  <2>. QED
    BY <1>2, <1>4, <2>1, <2>2, ModeTells
<1>6. Settled(f) /\ C(f) = C(x) /\ f.mode = x.mode
  BY <1>4, FlushSettled
<1>7. Right(f) /\ Kept(x, f) /\ SameFont(x, f) /\ f.buffer = {}
  BY <1>1, <1>4, FlushKept
<1>. HIDE DEF f
<1>8. Settled(q) /\ TopName(C(q)) # "p" /\ SameElems(C(f), C(q))
  BY <1>5, <1>6, LeaveHSettled
<1>9. Right(q) /\ Kept(f, q) /\ SameFont(f, q) /\ q.buffer = {}
  BY <1>5, <1>6, <1>7, LeaveHRight
<1>. HIDE DEF q
<1>10. InnerIs(C(q), "footnote") /\ Sound(q) /\ Matched(C(q), open)
  BY <1>3, <1>4, <1>6, <1>8, SameElemsKeep DEF Settled
<1>11. TopName(C(q)) = "footnote"
  BY <1>8, <1>10, AboveInner DEF Sound
<1>12. Kept(x, q) /\ SameFont(x, q)
  BY <1>7, <1>9, KeptTrans
<1>13. FontInv(q, open, saves)
  BY <1>1, <1>4, <1>9, <1>12, FontKept
<1>. QED
  BY <1>8, <1>9, <1>10, <1>11, <1>13 DEF q, f

\* At the end of a footnote, its own font is saved once more.
LEMMA NoteSaves ==
  ASSUME NEW sv, sv \in Seq(Seq(SavedType)), sv # <<>>, NEW o, NEW s, s.font.level = o.level, s.font.old = o.val,
         o \in SavedType, o.level < Len(sv), \A i \in 1..Len(Last(sv)) : Last(sv)[i] = o
  PROVE  /\ Last(save_font(s, sv)) \in Seq(SavedType) /\ Last(save_font(s, sv)) # <<>>
         /\ \A i \in 1..Len(Last(save_font(s, sv))) : Last(save_font(s, sv))[i] = o
<1>. DEFINE n == Len(sv)
            a == Last(sv)
            v == [sv EXCEPT ![n] = Append(@, o)]
<1>1. n \in Nat \ {0} /\ DOMAIN sv = 1..n /\ a = sv[n] /\ n \in 1..n /\ a \in Seq(SavedType)
  BY LenProperties, EmptySeq, ElementOfSeq DEF Last
<1>2. save_font(s, sv) = [sv EXCEPT ![n] = Append(@, [level |-> s.font.level, val |-> s.font.old])]
  <2>1. s.font.level # n
    BY <1>1 DEF SavedType
  <2>. QED
    BY <2>1 DEF save_font
<1>3. [level |-> s.font.level, val |-> s.font.old] = o
  BY DEF SavedType
<1>4. save_font(s, sv) = v
  BY <1>2, <1>3
<1>. HIDE DEF a
<1>5. Append(a, o) \in Seq(SavedType) /\ Len(Append(a, o)) = Len(a) + 1 /\ Len(a) \in Nat
      /\ \A i \in 1 .. Len(a) + 1 : Append(a, o)[i] = IF i <= Len(a) THEN a[i] ELSE o
  BY <1>1, AppendProperties
<1>6. v \in Seq(Seq(SavedType)) /\ Len(v) = n /\ v[n] = Append(a, o)
  BY <1>1, <1>5
<1>. HIDE DEF v, n
<1>7. Last(v) = Append(a, o)
  BY <1>6 DEF Last
<1>8. \A i \in 1 .. Len(a) + 1 : Append(a, o)[i] = o
  BY <1>5 DEF a
<1>9. Append(a, o) # <<>>
  BY <1>5
<1>. QED
  BY <1>4, <1>5, <1>7, <1>8, <1>9

\* The end of a footnote restores the font around it.
LEMMA EndNoteFont ==
  ASSUME FontBefore, EndNote
  PROVE  FontAfter
<1>. DEFINE q == leave_h_mode(flush_buffer(x))
            g == Last(open).sv
            s == [q EXCEPT !.font = g]
            r == font_has_changed(s, saves)
            t == pop(r, "footnote")
            a == Last(save_font(s, saves))
            u == RestoreLevel(t, a)
            F == Front(open)
            w == Front(saves)
            n == Len(open)
<1>1. Closes("footnote") /\ x' = u /\ saves' = w
  BY DEF EndNote, PopsSaves
<1>2. Before /\ open \in Seq(OpenCommands) /\ Levels(open, saves)
  BY BeforeOf DEF FontBefore
<1>3. open # <<>> /\ Last(open).kind = "footnote" /\ open' = F /\ Last(open) \in OpenCommands
  BY <1>1, <1>2, ClosesOf
<1>4. FontInv(q, open, saves) /\ q.buffer = {} /\ Sound(q) /\ Settled(q) /\ Matched(C(q), open) /\ TopName(C(q)) = "footnote"
  BY <1>1, NoteLeaves
<1>. HIDE DEF q
<1>5. IsOutput(q) /\ Right(q) /\ g \in FontType
  BY <1>3, <1>4, OpenTypes DEF Sound, FontInv
<1>6. PICK b : Book(open, saves, b) /\ Framed(q, open, b) /\ b[Len(saves) + 1] = Current(q)
  BY <1>4 DEF FontInv
<1>. DEFINE o == Outer(open, b, n)
<1>7. n \in Nat \ {0} /\ n \in DOMAIN open /\ Last(open) = open[n]
  BY <1>2, <1>3, PoppedAt, LenProperties, EmptySeq DEF Last
<1>8. g.attrs = g.old /\ g.packed = g.old /\ o = [level |-> g.level, val |-> g.packed]
  BY <1>3, <1>6, <1>7 DEF Book, Notes
<1>9. Len(saves) \in Nat \ {0} /\ Inner(open, n) = Len(saves) /\ saves \in Seq(Seq(SavedType)) /\ saves # <<>>
  <2>1. open[n].kind # "fonts"
    BY <1>3, <1>7
  <2>. QED
    BY <1>2, <1>7, <2>1, InnerLast, SavesOfLevels
<1>10. o.level < Len(saves)
  <2>1. \A l \in 1 .. Len(saves) + 1 : b[l].level < l
    BY <1>6 DEF Book, Chain
  <2>2. Len(saves) \in 1 .. Len(saves) + 1 /\ o = b[Len(saves)]
    BY <1>9 DEF Outer
  <2>. QED
    BY <2>1, <2>2
<1>11. w = IF Last(open).kind = "fonts" THEN saves ELSE Front(saves)
  BY <1>3
<1>. HIDE DEF w
<1>12. /\ \E d : Follows(open, b, Front(open), w, d, Outer(open, b, Len(open)))
       /\ o \in SavedType /\ Levels(F, w)
       /\ \A i \in 1..Len(Last(saves)) : Last(saves)[i] = o
  BY <1>2, <1>3, <1>6, <1>11, BookClose
<1>13. PICK d : Follows(open, b, F, w, d, o)
  BY <1>12
<1>14. Book(F, w, d) /\ d[Len(w) + 1] = o /\ SameOuter(open, b, F, d)
  BY <1>13 DEF Follows
<1>15. s.font = g
  BY <1>5, PartsWith
<1>16. Right(r) /\ Redrawn(q, r) /\ Current(r) = [level |-> Len(saves), val |-> g.attrs] /\ r.buffer = {}
  <2>1. "footnote" \notin Line /\ "footnote" # "p"
    BY DEF Line
  <2>2. TopName(C(q)) \notin Line /\ (q.mode = "v" => Settled(q)) /\ Len(saves) \in Nat
        /\ (g.old = q.font.packed \/ (q.buffer = {} /\ TopName(C(q)) # "p"))
    BY <1>4, <1>9, <2>1
  <2>. HIDE DEF g
  <2>. QED
    BY ONLY <1>4, <1>5, <2>2, ChangeRight
<1>17. /\ a \in Seq(SavedType) /\ a # <<>> /\ \A i \in 1..Len(a) : a[i] = o
  <2>1. s.font.level = o.level /\ s.font.old = o.val
    BY <1>8, <1>15
  <2>. QED
    BY <1>9, <1>10, <1>12, <2>1, NoteSaves
<1>. HIDE DEF s, a, o, g, r
<1>18. Sound(r) /\ IsOutput(r) /\ C(r) = C(q) /\ Kept(q, r)
  BY <1>4, <1>5, <1>16, RedrawnKept
<1>19. Framed(r, open, b)
  BY <1>5, <1>6, <1>18, FramedKept
<1>20. "footnote" \in Kinds /\ "footnote" = TopName(C(r)) /\ "footnote" # "document" /\ "footnote" # "fonts"
  BY <1>4, <1>18 DEF Kinds
<1>21. Matched(C(r), open)
  BY <1>4, <1>18
<1>22. Framed(t, F, d) /\ Shows(t.frames, Len(t.frames), o.val)
  BY <1>2, <1>3, <1>14, <1>18, <1>19, <1>20, <1>21, FramedPop DEF o
<1>23. /\ t.buffer = r.buffer /\ t.misplaced = r.misplaced /\ t.font.packed = r.font.packed
       /\ t.font.attrs = r.font.attrs /\ t.font.old = r.font.old
  BY <1>18, <1>20, PopIs
<1>24. /\ F \in Seq(OpenCommands) /\ Sound(t) /\ Matched(C(t), F) /\ FitsOn(TopName(C(t)), "footnote", t.mode)
  BY <1>2, <1>3, <1>18, <1>20, <1>21, CloseStep
<1>. HIDE DEF t
<1>25. r.font.packed = o.val
  BY <1>8, <1>16 DEF Current, o
<1>26. Right(t)
  BY <1>16, <1>22, <1>23, <1>25 DEF Right, Texts
<1>27. Settled(t) /\ IsOutput(t)
  <2>1. TopName(C(t)) \in Names /\ t.mode \in Modes
    BY <1>24, TopIsName
  <2>. QED
    BY <1>24, <2>1, FitsTells DEF Settled, Sound
<1>28. TopName(C(t)) \in Line => Shows(t.frames, Top(C(t)), o.val)
  <2>. SUFFICES ASSUME TopName(C(t)) \in Line PROVE Shows(t.frames, Top(C(t)), o.val)
    OBVIOUS
  <2>1. Shows(t.frames, Top(C(t)), Outer(F, d, Len(F) + 1).val)
    BY <1>14, <1>22, <1>24, LineShows
  <2>2. Inner(F, Len(F) + 1) = Len(w) + 1
    BY <1>12, <1>24, InnerLast
  <2>3. Outer(F, d, Len(F) + 1) = o
    BY <1>14, <2>2 DEF Outer
  <2>. QED
    BY <2>1, <2>3
<1>29. Right(u) /\ Redrawn(t, u) /\ Current(u) = o
  BY <1>12, <1>17, <1>26, <1>27, <1>28, RestoreLevelRight
<1>. HIDE DEF u
<1>30. Kept(t, u)
  BY <1>27, <1>29, RedrawnKept
<1>31. Framed(u, F, d)
  BY <1>22, <1>27, <1>30, FramedKept
<1>. QED
  BY <1>1, <1>3, <1>14, <1>29, <1>31 DEF FontAfter, FontInv

\* An element of the structure that shows nothing is pushed.
LEMMA PushStructureRight ==
  ASSUME NEW s, Sound(s), Right(s), NEW n \in Names, n \notin Kinds, n # "p", FitsOn(TopName(C(s)), n, s.mode)
  PROVE  Right(push(s, n)) /\ Kept(s, push(s, n)) /\ SameFont(s, push(s, n)) /\ push(s, n).buffer = s.buffer
<1>. DEFINE t == push(s, n)
            r == Len(s.frames)
<1>1. /\ Len(t.frames) = r + 1 /\ r \in Nat /\ (\A j \in 1..r : t.frames[j] = s.frames[j])
      /\ t.frames[r + 1] = Frame(n, s.mode, {})
      /\ Elems(C(t)) = Elems(C(s)) /\ \A i \in Elems(C(s)) : i \in 1..r
      /\ t.buffer = s.buffer /\ t.misplaced = s.misplaced /\ t.font = s.font /\ t.mode = s.mode
  BY PushIs
<1>. HIDE DEF t
<1>2. Shows(s.frames, r, s.font.packed)
  BY DEF Right
<1>. HIDE DEF r
<1>3. t.frames[r + 1].frame # "p" /\ t.frames[r + 1].hi = {}
  BY <1>1 DEF Frame
<1>4. Shows(t.frames, r, s.font.packed)
  BY <1>1, <1>2, ShowsSame
<1>5. Shows(t.frames, r + 1, s.font.packed)
  BY <1>1, <1>3, <1>4, ShowsNext
<1>6. Right(t)
  BY <1>1, <1>5 DEF Right, Texts
<1>7. Kept(s, t)
  <2>1. \A i \in Elems(C(s)) : \A j \in 1..i : j \in 1..r
    BY <1>1
  <2>. QED
    BY <1>1, <2>1 DEF Kept
<1>. QED
  BY <1>1, <1>6, <1>7 DEF t, SameFont

\* The title of a division begins with the current font.
LEMMA T_parasFont ==
  ASSUME FontBefore, T_paras
  PROVE  FontAfter
<1>1. PICK y \in 0..MaxDiv :
        x' = push([push(para_aux(leave_h_mode(x), y), Div(y)) EXCEPT !.mode = "arg"], "head")
  BY DEF T_paras
<1>. DEFINE q == leave_h_mode(x)
            r == para_aux(q, y)
            d == Div(y)
            s == push(r, d)
            t == [s EXCEPT !.mode = "arg"]
            u == push(t, "head")
            e == [kind |-> "head", sv |-> {}]
<1>2. open' = Append(open, e) /\ saves' = Append(saves, <<>>) /\ Innermost = "none"
  BY DEF T_paras, Opens, push_level
<1>0. Before /\ FontInv(x, open, saves) /\ Right(x)
  BY DEF FontBefore, FontInv
<1>30. /\ open \in Seq(OpenCommands) /\ Levels(open, saves) /\ Settled(x) /\ Sound(x) /\ IsOutput(x)
       /\ Matched(C(x), open) /\ x.mode \in Modes /\ StepInv(x, open, saves)
  BY <1>0, BeforeOf
<1>3. InnerIs(C(x), "none")
  BY <1>2, <1>30, InnermostIs, InnerOfStep
<1>4. x.mode = "h" => TopName(C(x)) = "p"
  <2>1. TopName(C(x)) \in {"document", "p"} \cup Divs
    BY <1>3, <1>30, AboveInner DEF Sound
  <2>2. ModeFits(TopName(C(x)), x.mode)
    BY <1>30 DEF Settled
  <2>. QED
    BY <1>30, <2>1, <2>2, <1>0, BeforeOf, ModeTells
<1>5. Settled(q) /\ TopName(C(q)) # "p" /\ q.mode # "h" /\ SameElems(C(x), C(q))
  BY <1>4, <1>30, LeaveHSettled
<1>31. Right(q) /\ Kept(x, q) /\ SameFont(x, q)
  BY <1>0, <1>4, <1>30, LeaveHRight
<1>. HIDE DEF q
<1>6. InnerIs(C(q), "none") /\ q.mode = "v"
  <2>1. InnerIs(C(q), "none")
    BY <1>3, <1>5, SameElemsKeep
  <2>2. TopName(C(q)) \in {"document"} \cup Divs
    BY <1>5, <2>1, AboveInner DEF Settled, Sound
  <2>3. TopName(C(q)) \in Names /\ q.mode \in Modes /\ ModeFits(TopName(C(q)), q.mode)
    BY <1>5, TopIsName DEF Settled
  <2>. QED
    BY <2>1, <2>2, <2>3, ModeTells
<1>7. Settled(r) /\ r.mode = "v" /\ TopName(C(r)) \in {"document"} \cup Divs /\ SameElems(C(q), C(r))
  BY <1>5, <1>6, ParaAuxSettled
<1>32. Right(r) /\ Kept(q, r) /\ SameFont(q, r)
  BY <1>5, <1>6, <1>31, ParaAuxRight
<1>. HIDE DEF r
<1>8. d \in Divs /\ d \in Names /\ d \notin Kinds /\ d # "p"
  BY DivIsOther DEF Divs, Names
<1>. HIDE DEF d
<1>9. Sound(r) /\ Matched(C(r), open) /\ TopName(C(r)) \in Names /\ r.mode \in Modes
  BY <1>5, <1>7, <1>30, SameElemsKeep, TopIsName DEF Settled
<1>10. FitsOn(TopName(C(r)), d, r.mode)
  BY <1>7, <1>8, <1>9, FitsTells
<1>11. Sound(s) /\ IsOutput(s) /\ TopName(C(s)) = d /\ SameElems(C(r), C(s))
  BY <1>8, <1>9, <1>10, PushOutput DEF Sound
<1>33. Right(s) /\ Kept(r, s) /\ SameFont(r, s)
  BY <1>8, <1>9, <1>10, <1>32, PushStructureRight
<1>. HIDE DEF s
<1>12. "arg" \in Modes /\ e \in OpenCommands /\ e.kind = "head" /\ FitsOn(d, "head", "arg") /\ e.kind \in Kinds
  BY <1>8, <1>9, ModeTells, FitsTells, OpenTypes DEF Kinds
<1>. HIDE DEF e
<1>13. IsOutput(t) /\ t.mode = "arg" /\ C(t) = C(s) /\ t.badpop = s.badpop
  BY <1>11, <1>12, WithMode
<1>34. Right(t) /\ Kept(s, t) /\ SameFont(s, t)
  BY <1>11, <1>33, FontMode
<1>. HIDE DEF t
<1>14. Sound(t) /\ Matched(C(t), open) /\ FitsOn(TopName(C(t)), "head", t.mode)
  BY <1>9, <1>11, <1>12, <1>13, SameElemsKeep DEF Sound
<1>35. Kept(x, t) /\ SameFont(x, t)
  <2>1. Kept(x, r) /\ SameFont(x, r)
    BY <1>31, <1>32, KeptTrans
  <2>2. Kept(x, s) /\ SameFont(x, s)
    BY <2>1, <1>33, KeptTrans
  <2>. QED
    BY <2>2, <1>34, KeptTrans
<1>36. FontInv(t, open, saves)
  BY <1>0, <1>30, <1>34, <1>35, FontKept
<1>37. FontInv(push(t, e.kind), Append(open, e), IF e.kind = "fonts" THEN saves ELSE Append(saves, <<>>))
  BY <1>12, <1>14, <1>30, <1>36, FontPush
<1>17. x' = push(t, "head")
  BY <1>1 DEF t, s, d, r, q
<1>. QED
  BY <1>2, <1>12, <1>17, <1>37 DEF FontAfter

\* A list begins with the current font.
LEMMA T_listenvFont ==
  ASSUME FontBefore, T_listenv
  PROVE  FontAfter
<1>. DEFINE f == flush_buffer(x)
            s == leave_h_mode(f)
            e == [kind |-> "list", sv |-> {}]
<1>1. ~InLine /\ x' = push(s, "list") /\ open' = Append(open, e) /\ saves' = Append(saves, <<>>)
  BY DEF T_listenv, Opens, push_level
<1>2. Before /\ FontInv(x, open, saves) /\ Right(x)
  BY DEF FontBefore, FontInv
<1>3. /\ open \in Seq(OpenCommands) /\ Levels(open, saves) /\ Settled(x) /\ Sound(x) /\ IsOutput(x)
      /\ Matched(C(x), open) /\ StepInv(x, open, saves)
  BY <1>2, BeforeOf
<1>4. InnerCommand(open) \notin {"fonts", "mbox"}
  BY <1>1, InnermostIs DEF InLine
<1>5. ~LineIn(open) /\ (x.mode = "h" => TopName(C(x)) = "p")
  BY <1>3, <1>4, InLineIs, NotInLine DEF Line
<1>6. Settled(f) /\ C(f) = C(x) /\ f.mode = x.mode
  BY <1>3, FlushSettled
<1>7. Right(f) /\ Kept(x, f) /\ SameFont(x, f)
  BY <1>2, <1>3, FlushKept
<1>. HIDE DEF f
<1>8. Settled(s) /\ s.mode # "h" /\ SameElems(C(f), C(s)) /\ Right(s) /\ Kept(f, s) /\ SameFont(f, s)
  BY <1>5, <1>6, <1>7, LeaveHSettled, LeaveHRight
<1>. HIDE DEF s
<1>9. Sound(s) /\ Matched(C(s), open) /\ TopName(C(s)) \in Names /\ s.mode \in Modes
  BY <1>3, <1>6, <1>8, SameElemsKeep, TopIsName DEF Settled
<1>10. FitsOn(TopName(C(s)), "list", s.mode)
  BY <1>8, <1>9, FitsTells DEF Settled
<1>11. e \in OpenCommands /\ e.kind = "list" /\ e.kind \in Kinds
  BY OpenTypes DEF Kinds
<1>. HIDE DEF e
<1>12. Kept(x, s) /\ SameFont(x, s)
  BY <1>7, <1>8, KeptTrans
<1>13. FontInv(s, open, saves)
  BY <1>2, <1>3, <1>8, <1>12, FontKept
<1>14. FontInv(push(s, e.kind), Append(open, e), IF e.kind = "fonts" THEN saves ELSE Append(saves, <<>>))
  BY <1>3, <1>5, <1>9, <1>10, <1>11, <1>13, FontPush
<1>. QED
  BY <1>1, <1>11, <1>14 DEF FontAfter

\* What is below a list is no part of a line.
LEMMA BelowList ==
  ASSUME NEW op \in Seq(OpenCommands), op # <<>>, Last(op).kind = "list", NEW b, NEW sv, Book(op, sv, b)
  PROVE  ~LineIn(Front(op))
<1>. DEFINE f == Front(op)
            n == Len(f)
<1>1. n \in Nat /\ DOMAIN f = 1..n /\ Len(op) = n + 1 /\ (\A i \in 1..n : f[i] = op[i]) /\ op[n + 1] = Last(op)
      /\ DOMAIN op = 1..n + 1
  <2>1. f \in Seq(OpenCommands) /\ Last(op) \in OpenCommands /\ Append(f, Last(op)) = op
    BY PoppedAt, PushPop
  <2>. HIDE DEF f
  <2>2. /\ Len(Append(f, Last(op))) = n + 1 /\ n \in Nat /\ DOMAIN f = 1..n
        /\ (\A i \in 1..n : Append(f, Last(op))[i] = f[i]) /\ Append(f, Last(op))[n + 1] = Last(op)
    BY <2>1, AppendProperties, LenProperties
  <2>. QED
    BY <2>1, <2>2, LenProperties
<1>. HIDE DEF f, n
<1>2. SUFFICES ASSUME NEW i \in 1..n, f[i].kind \in Line, \A j \in i + 1 .. n : f[j].kind = "group"
               PROVE  FALSE
  BY <1>1 DEF LineIn, n, f
<1>3. \A i_1 \in 1 .. (n + 1) - 1 : op[i_1].kind \in Line => \E j \in i_1 + 1 .. (n + 1) - 1 : op[j].kind # "group"
  BY <1>1 DEF Book, Apart
<1>4. i \in 1 .. (n + 1) - 1 /\ op[i].kind \in Line
  BY <1>1, <1>2
<1>5. PICK j \in i + 1 .. (n + 1) - 1 : op[j].kind # "group"
  BY <1>3, <1>4
<1>6. j \in i + 1 .. n /\ j \in 1..n
  BY <1>1, <1>2, <1>5
<1>. QED
  BY <1>1, <1>2, <1>5, <1>6

\* The end of a list restores the font from before it.
LEMMA T_listenv_endFont ==
  ASSUME FontBefore, T_listenv_end
  PROVE  FontAfter
<1>. DEFINE f == flush_buffer(x)
            q == LeaveItem(f)
            s == pop(q, "list")
            u == pop_level(s)
            F == Front(open)
            w == Front(saves)
            n == Len(open)
<1>1. Closes("list") /\ x' = u /\ saves' = w
  BY DEF T_listenv_end, PopsSaves, LeaveItem
<1>0. "list" \in Kinds /\ "list" # "fonts" /\ "list" # "group" /\ "list" # "document" /\ "p" \in Names
  BY DEF Kinds, Names
<1>2. Before /\ FontInv(x, open, saves) /\ Right(x)
  BY DEF FontBefore, FontInv
<1>3. /\ open # <<>> /\ Last(open).kind = "list" /\ open' = F /\ InnerIs(C(x), "list")
      /\ Last(saves) \in Seq(SavedType)
  BY <1>0, <1>1, <1>2, ClosesOf
<1>4. /\ open \in Seq(OpenCommands) /\ Levels(open, saves) /\ Settled(x) /\ Sound(x) /\ IsOutput(x)
      /\ Matched(C(x), open)
  BY <1>2, BeforeOf
<1>5. Settled(f) /\ C(f) = C(x)
  BY <1>4, FlushSettled
<1>6. Right(f) /\ Kept(x, f) /\ SameFont(x, f) /\ f.buffer = {}
  BY <1>2, <1>4, FlushKept
<1>. HIDE DEF f
<1>7. /\ Settled(q) /\ TopName(C(q)) = "list" /\ SameElems(C(f), C(q))
      /\ Right(q) /\ Kept(f, q) /\ SameFont(f, q) /\ q.buffer = {}
  BY <1>3, <1>5, <1>6, LeaveItemSettled, LeaveItemRight
<1>. HIDE DEF q
<1>8. Sound(q) /\ Matched(C(q), open)
  BY <1>4, <1>5, <1>7, SameElemsKeep DEF Settled
<1>9. Kept(x, q) /\ SameFont(x, q)
  BY <1>6, <1>7, KeptTrans
<1>10. FontInv(q, open, saves)
  BY <1>2, <1>4, <1>7, <1>9, FontKept
<1>11. PICK b : Book(open, saves, b) /\ Framed(q, open, b) /\ b[Len(saves) + 1] = Current(q)
  BY <1>10 DEF FontInv
<1>. DEFINE o == Outer(open, b, n)
<1>12. w = IF Last(open).kind = "fonts" THEN saves ELSE Front(saves)
  BY <1>3
<1>. HIDE DEF w
<1>13. /\ \E d : Follows(open, b, Front(open), w, d, Outer(open, b, Len(open)))
       /\ o \in SavedType /\ Levels(F, w)
       /\ \A i \in 1..Len(Last(saves)) : Last(saves)[i] = o
       /\ Last(saves) = <<>> => b[Len(saves) + 1] = o
  BY <1>0, <1>3, <1>4, <1>11, <1>12, BookClose
<1>14. PICK d : Follows(open, b, F, w, d, o)
  BY <1>13
<1>15. Book(F, w, d) /\ d[Len(w) + 1] = o /\ SameOuter(open, b, F, d)
  BY <1>14 DEF Follows
<1>16. Framed(s, F, d)
  BY <1>0, <1>3, <1>4, <1>7, <1>8, <1>11, <1>15, FramedPop
<1>17. /\ s.buffer = q.buffer /\ s.misplaced = q.misplaced /\ s.font.packed = q.font.packed
       /\ s.font.attrs = q.font.attrs /\ s.font.old = q.font.old /\ s.font.level = q.font.level
  BY <1>0, <1>7, <1>8, PopIs
<1>18. /\ F \in Seq(OpenCommands) /\ Sound(s) /\ Matched(C(s), F) /\ FitsOn(TopName(C(s)), "list", s.mode)
  BY <1>0, <1>3, <1>4, <1>7, <1>8, CloseStep
<1>. HIDE DEF s, o
<1>19. TopName(C(s)) \in Names /\ s.mode \in Modes
  BY <1>18, TopIsName
<1>20. ModeFits(TopName(C(s)), s.mode) /\ s.mode # "h"
  BY <1>0, <1>18, <1>19, FitsTells DEF FitsOn
<1>21. Settled(s) /\ IsOutput(s) /\ IsStack(s.frames)
  BY <1>18, <1>20 DEF Settled, Sound, IsOutput
<1>22. TopName(C(s)) \notin Line \cup {"p"}
  <2>1. TopName(C(s)) # "p"
    BY <1>0, <1>19, <1>20, ModeTells
  <2>2. ~LineIn(F)
    BY <1>3, <1>4, <1>11, BelowList
  <2>3. TopName(C(s)) \notin Line
    BY <1>15, <1>16, <1>18, <2>2, LineShows
  <2>. QED
    BY <2>1, <2>3
<1>23. Shows(s.frames, Len(s.frames), s.font.packed)
  BY <1>21, <1>22, ShowsOutside DEF C
<1>24. Right(s)
  BY <1>7, <1>17, <1>23 DEF Right, Texts
<1>25. Last(saves) = <<>> => Current(s) = o
  BY <1>11, <1>13, <1>17 DEF Current
<1>26. Right(u) /\ Redrawn(s, u) /\ Current(u) = o
  BY <1>3, <1>13, <1>21, <1>22, <1>24, <1>25, RestoreLevelRight DEF pop_level
<1>. HIDE DEF u
<1>27. Kept(s, u)
  BY <1>21, <1>26, RedrawnKept
<1>28. Framed(u, F, d)
  BY <1>16, <1>21, <1>27, FramedKept
<1>. QED
  BY <1>1, <1>3, <1>15, <1>26, <1>28 DEF FontAfter, FontInv

\* In a list the item that is open ends.
LEMMA ItemLeaves ==
  ASSUME FontBefore, Innermost = "list"
  PROVE  /\ Settled(LeaveItem(x)) /\ Sound(LeaveItem(x)) /\ IsOutput(LeaveItem(x)) /\ TopName(C(LeaveItem(x))) = "list"
         /\ LeaveItem(x).mode # "h" /\ Matched(C(LeaveItem(x)), open)
         /\ FontInv(LeaveItem(x), open, saves)
<1>. DEFINE q == LeaveItem(x)
<1>1. Before /\ FontInv(x, open, saves) /\ Right(x)
  BY DEF FontBefore, FontInv
<1>2. Settled(x) /\ IsOutput(x) /\ Matched(C(x), open) /\ StepInv(x, open, saves)
  BY <1>1, BeforeOf
<1>3. InnerIs(C(x), "list")
  BY <1>2, InnermostIs, InnerOfStep
<1>4. /\ Settled(q) /\ TopName(C(q)) = "list" /\ SameElems(C(x), C(q))
      /\ Right(q) /\ Kept(x, q) /\ SameFont(x, q)
  BY <1>1, <1>2, <1>3, LeaveItemSettled, LeaveItemRight
<1>. HIDE DEF q
<1>5. Matched(C(q), open) /\ Sound(q) /\ IsOutput(q)
  BY <1>2, <1>4, SameElemsKeep DEF Settled, Sound
<1>6. q.mode # "h"
  <2>1. ModeFits("list", q.mode) /\ "list" \in Names /\ q.mode \in Modes
    BY <1>4, <1>5, TopIsName DEF Settled, Names, Kinds
  <2>. QED
    BY <2>1, ModeTells
<1>7. FontInv(q, open, saves)
  BY <1>1, <1>2, <1>4, FontKept
<1>. QED
  BY <1>4, <1>5, <1>6, <1>7 DEF q

\* An item begins with a paragraph that shows the font.
LEMMA T_itemFont ==
  ASSUME FontBefore, T_item
  PROVE  FontAfter
<1>. DEFINE q == LeaveItem(x)
            u == StartItem(q)
<1>1. Innermost = "list" /\ x' = u /\ UNCHANGED <<saves, open, done>>
  BY DEF T_item
<1>2. Sound(q) /\ IsOutput(q) /\ TopName(C(q)) = "list" /\ q.mode # "h" /\ FontInv(q, open, saves)
  BY <1>1, ItemLeaves
<1>. HIDE DEF q
<1>3. Right(u) /\ Kept(q, u) /\ SameFont(q, u)
  BY <1>2, StartItemRight DEF FontInv, Right
<1>. HIDE DEF u
<1>. QED
  BY <1>1, <1>2, <1>3, FontKept DEF FontAfter

\* The label of an item begins with the current font.
LEMMA T_item_labelFont ==
  ASSUME FontBefore, T_item_label
  PROVE  FontAfter
<1>. DEFINE q == LeaveItem(x)
            s == flush_buffer(q)
            e == [kind |-> "labelitem", sv |-> {}]
<1>1. /\ Innermost = "list" /\ x' = [push(s, "labelitem") EXCEPT !.mode = "arg"]
      /\ open' = Append(open, e) /\ saves' = Append(saves, <<>>)
  BY DEF T_item_label, Opens, push_level
<1>2. /\ Sound(q) /\ IsOutput(q) /\ TopName(C(q)) = "list" /\ q.mode # "h" /\ Matched(C(q), open)
      /\ FontInv(q, open, saves)
  BY <1>1, ItemLeaves
<1>. HIDE DEF q
<1>3. open \in Seq(OpenCommands) /\ Levels(open, saves)
  BY BeforeOf DEF FontBefore
<1>4. Sound(s) /\ C(s) = C(q) /\ s.mode = q.mode
  BY <1>2, FlushSettled
<1>5. FontInv(s, open, saves)
  BY <1>2, FlushKept, FontKept DEF FontInv
<1>. HIDE DEF s
<1>6. FitsOn(TopName(C(s)), "labelitem", s.mode) /\ Matched(C(s), open)
  <2>1. TopName(C(s)) \in Names /\ s.mode \in Modes
    BY <1>4, TopIsName
  <2>. QED
    BY <1>2, <1>4, <2>1, FitsTells
<1>7. e \in OpenCommands /\ e.kind = "labelitem"
  BY OpenTypes DEF Kinds
<1>. HIDE DEF e
<1>8. FontInv([push(s, e.kind) EXCEPT !.mode = "arg"], Append(open, e), Append(saves, <<>>))
  BY <1>3, <1>4, <1>5, <1>6, <1>7, FontPushMode
<1>. QED
  BY <1>1, <1>7, <1>8 DEF FontAfter

-----------------------------------------------------------------------------
(* The fonts of the specification *)
\* A document without \fontshape, and without a font command in a part of a line.
Selected == document.commands \cap {"ltfont", "fontInLine"} = {}

XmlFonts == Plain /\ Selected /\ XmlInv /\ IF done THEN ~x.misplaced ELSE FontInv(x, open, saves)

\* The document starts with the normal font, and nothing shows.
LEMMA InitFonts ==
  ASSUME Init
  PROVE  FontInv(x, open, saves)
<1>. DEFINE z == [level |-> 0, val |-> {}]
            b == [l \in 1..2 |-> z]
            f == Frame("document", "v", {})
<1>1. /\ x.frames = <<f>> /\ x.font = [attrs |-> {}, packed |-> {}, old |-> {}, stackval |-> TRUE, level |-> 0]
      /\ x.buffer = {} /\ x.misplaced = FALSE /\ saves = <<<<>>>> /\ open = <<>>
  BY DEF Init
<1>2. f.frame = "document" /\ f.frame # "p" /\ f.frame # Blank /\ f.frame \notin Kinds
  BY BlankIsOther DEF Frame, Kinds, Names
<1>. HIDE DEF f
<1>3. Len(x.frames) = 1 /\ DOMAIN x.frames = {1} /\ x.frames[1] = f
  BY <1>1
<1>4. Shows(x.frames, Len(x.frames), x.font.packed)
  BY <1>2, <1>3 DEF Shows
<1>5. Right(x)
  BY <1>1, <1>4 DEF Right, Texts
<1>6. Elems(C(x)) = {}
  <2>1. Solid(x.frames) = {1}
    BY <1>2, <1>3 DEF Solid
  <2>2. DOMAIN C(x) = {1} /\ C(x)[1].frame = f.frame
    BY <1>3, <2>1 DEF C, Core
  <2>. QED
    BY <1>2, <2>2 DEF Elems
<1>7. Framed(x, open, b)
  BY <1>6 DEF Framed
<1>8. Len(saves) = 1 /\ saves[1] = <<>> /\ DOMAIN open = {}
  BY <1>1
<1>9. z \in SavedType /\ z.level = 0 /\ b \in [1..2 -> SavedType] /\ \A l \in 1..2 : b[l] = z
  BY DEF SavedType
<1>10. b[Len(saves) + 1] = Current(x)
  BY <1>1, <1>8 DEF Current
<1>. HIDE DEF z, b
<1>11. Chain(saves, b)
  BY <1>8, <1>9 DEF Chain
<1>12. Book(open, saves, b)
  BY <1>8, <1>11 DEF Book, Steady, Apart, Notes
<1>. QED
  BY <1>5, <1>7, <1>10, <1>12 DEF FontInv

\* At the end of the document the text in the buffer is in its font, which stays.
LEMMA EndFont ==
  ASSUME FontBefore, T_enddocument
  PROVE  ~x'.misplaced /\ x'.font.packed = x.font.packed
<1>. DEFINE s == flush_buffer(x)
<1>1. x' = [s EXCEPT !.frames = <<Head(@)>>]
  BY DEF T_enddocument
<1>2. Sound(x) /\ Right(x)
  BY BeforeOf DEF FontBefore, FontInv
<1>3. Right(s) /\ s.font = x.font /\ Sound(s)
  BY <1>2, FlushRight
<1>. HIDE DEF s
<1>4. s \in Output
  BY <1>3 DEF Sound, IsOutput
<1>5. x'.misplaced = s.misplaced /\ x'.font = s.font
  BY <1>1, <1>4 DEF Output
<1>. QED
  BY <1>3, <1>5 DEF Right, Texts

\* Every command keeps the invariant of the fonts.
LEMMA CommandFont ==
  ASSUME FontBefore, Plain, Selected, Command, ~T_enddocument
  PROVE  FontAfter
<1>1. "fontInLine" \notin document.commands /\ "ltfont" \notin document.commands
  BY DEF Selected
<1>2. ~ltfont /\ ~selectfont
  BY <1>1 DEF ltfont, selectfont, Allowed
<1>. QED
  BY <1>1, <1>2, CharFont, OpenBraceFont, CloseBraceFont, see_font_changeFont, T_par1Font, implicit_parFont,
     T_fontsFont, EndFontsFont, internal_makeboxFont, EndMakeboxFont, begin_boxFont, EndBoxFont,
     T_cap_or_noteFont, EndNoteFont, T_parasFont, EndHeadFont, T_listenvFont, T_listenv_endFont, T_itemFont,
     T_item_labelFont, EndLabelFont DEF Command

\* Every step of the reader keeps it.
LEMMA StepFonts ==
  ASSUME XmlFonts, [Next]_vars
  PROVE  XmlFonts'
<1>1. Plain /\ Selected /\ XmlInv
  BY DEF XmlFonts
<1>2. XmlInv' /\ Plain'
  BY <1>1, StepXml
<1>3. document' = document
  BY DEF Next, vars
<1>4. Selected'
  BY <1>1, <1>3 DEF Selected
<1>5. CASE UNCHANGED vars
  <2>1. x' = x /\ open' = open /\ saves' = saves /\ done' = done
    BY <1>5 DEF vars
  <2>. QED
    BY <1>2, <1>4, <2>1 DEF XmlFonts
<1>6. CASE Next
  <2>1. Command
    BY <1>6 DEF Next
  <2>2. ~done
    BY <2>1, OverStays
  <2>3. FontBefore
    BY <1>1, <2>2 DEF XmlFonts, XmlInv, FontBefore, Before
  <2>4. CASE T_enddocument
    <3>1. done' /\ ~x'.misplaced
      BY <2>3, <2>4, EndFont DEF T_enddocument
    <3>. QED
      BY <1>2, <1>4, <3>1 DEF XmlFonts
  <2>5. CASE ~T_enddocument
    <3>1. FontInv(x', open', saves')
      BY <1>1, <2>1, <2>3, <2>5, CommandFont DEF FontAfter
    <3>2. done' = done
      BY <2>1, <2>5 DEF Command, Char, OpenBrace, CloseBrace, see_font_change, ltfont, selectfont, T_par1, implicit_par,
         T_fonts, EndFonts, internal_makebox, EndMakebox, begin_box, EndBox, T_cap_or_note, EndNote, T_paras,
         EndHead, T_listenv, T_listenv_end, T_item, T_item_label, EndLabel
    <3>. QED
      BY <1>2, <1>4, <2>2, <3>1, <3>2 DEF XmlFonts
  <2>. QED
    BY <2>4, <2>5
<1>. QED
  BY <1>5, <1>6

\* Text is in its font.
LEMMA FontsOfInv ==
  ASSUME XmlFonts
  PROVE  ~x.misplaced
BY DEF XmlFonts, FontInv, Right, Texts

\* A font that changes shows.
LEMMA ShowsOfInv ==
  ASSUME XmlFonts, [Next]_vars, XmlFonts',
         x'.font.packed # x.font.packed, Block(x) = "p", Block(x') = "p"
  PROVE  Shown(x') = x'.font.packed
<1>1. Next
  BY DEF vars
<1>2. ~done
  BY <1>1, OverStays DEF Next
<1>3. ~done'
  <2>1. FontBefore
    BY <1>2 DEF XmlFonts, XmlInv, FontBefore, Before
  <2>2. ~T_enddocument
    BY <2>1, EndFont
  <2>. QED
    BY <1>1, <1>2, <2>2 DEF Next, Command, Char, OpenBrace, CloseBrace, see_font_change, ltfont, selectfont, T_par1,
       implicit_par, T_fonts, EndFonts, internal_makebox, EndMakebox, begin_box, EndBox, T_cap_or_note, EndNote,
       T_paras, EndHead, T_listenv, T_listenv_end, T_item, T_item_label, EndLabel
<1>4. StepInv(x', open', saves') /\ FontInv(x', open', saves')
  BY <1>3 DEF XmlFonts, XmlInv
<1>5. Sound(x') /\ Shows(x'.frames, Len(x'.frames), x'.font.packed)
  BY <1>4 DEF StepInv, Settled, FontInv, Right
<1>. QED
  BY <1>5, BlockIs

\* Text is in its font in every document without the options of the program's flaws.
THEOREM TextIsInItsFontHolds ==
  Spec => [](Plain /\ "fontInLine" \notin document.commands => TextIsInItsFont)
<1>. DEFINE I == Plain /\ Selected => XmlFonts
<1>1. Init => I
  BY InitXml, InitFonts DEF XmlFonts, Init
<1>2. I /\ [Next]_vars => I'
  <2>. SUFFICES ASSUME I, [Next]_vars, Plain', Selected' PROVE XmlFonts'
    OBVIOUS
  <2>1. document' = document
    BY DEF Next, vars
  <2>2. Plain /\ Selected
    BY <2>1 DEF Plain, Selected
  <2>. QED
    BY <2>2, StepFonts
<1>3. I => (Plain /\ "fontInLine" \notin document.commands => TextIsInItsFont)
  BY FontsOfInv DEF TextIsInItsFont, Selected
<1>. HIDE DEF I
<1>. QED
  BY <1>1, <1>2, <1>3, PTL DEF Spec

-----------------------------------------------------------------------------
(* Fonts that are prepared by \fontshape, in documents without parts of lines and notes *)
Simple == document.commands \cap {"fonts", "mbox", "footnote"} = {}

\* None of the open commands is a part of a line or a note.
Sole(op) == \A k \in 1..Len(op) : op[k].kind \notin {"fonts", "mbox", "footnote"}

\* t has the selected font of s.
HasFont(s) ==
  /\ {"frames", "mode", "font", "buffer", "badpop", "misplaced"} \subseteq DOMAIN s
  /\ {"attrs", "packed", "old", "stackval", "level"} \subseteq DOMAIN s.font
Picks(s, t) == HasFont(t) /\ t.font.packed = s.font.packed /\ t.font.old = s.font.old

\* Where another font than that of s is selected, it shows, and it does if that of s did.
Tells(s, t) ==
  t.font.packed # s.font.packed \/ Shows(s.frames, Len(s.frames), s.font.packed)
    => Shows(t.frames, Len(t.frames), t.font.packed)

\* These relations compose.
LEMMA PicksTrans ==
  ASSUME NEW s, NEW t, NEW u
  PROVE  /\ HasFont(s) => Picks(s, s)
         /\ Picks(s, t) /\ Picks(t, u) => Picks(s, u)
         /\ Picks(s, t) => HasFont(t)
         /\ Tells(s, s)
         /\ Tells(s, t) /\ Tells(t, u) => Tells(s, u)
<1>1. Tells(s, s) /\ (Tells(s, t) /\ Tells(t, u) => Tells(s, u))
  BY DEF Tells
<1>. QED
  BY <1>1 DEF Picks

\* An output has a font.
LEMMA OutputHasFont ==
  ASSUME NEW s, IsOutput(s)
  PROVE  HasFont(s)
BY DEF IsOutput, Output, FontType, HasFont

\* Frames are pushed and popped without a change of the font that is selected.
LEMMA FramesPick ==
  ASSUME NEW s, HasFont(s), NEW n, NEW m, NEW b
  PROVE  /\ Picks(s, [s EXCEPT !.mode = m]) /\ Picks(s, [s EXCEPT !.buffer = b])
         /\ Picks(s, [s EXCEPT !.frames = m])
         /\ Picks(s, flush_buffer(s)) /\ Picks(s, push(s, n)) /\ Picks(s, pop(s, n)) /\ Picks(s, check_font(s))
<1>1. /\ Picks(s, [s EXCEPT !.mode = m]) /\ Picks(s, [s EXCEPT !.buffer = b])
      /\ Picks(s, [s EXCEPT !.frames = m])
  BY DEF HasFont, Picks
<1>2. Picks(s, flush_buffer(s))
  BY DEF HasFont, Picks, flush_buffer
<1>3. Picks(s, push(s, n))
  BY DEF HasFont, Picks, push
<1>4. Picks(s, check_font(s))
  BY DEF HasFont, Picks, check_font
<1>5. Picks(s, pop(s, n))
  <2>. DEFINE t == [NoDummies(s) EXCEPT !.font.stackval = @ /\ Last(s.frames).frame # " "]
  <2>1. pop(s, n) = IF Last(t.frames).frame # n THEN [t EXCEPT !.badpop = TRUE]
                    ELSE [t EXCEPT !.frames = Front(@), !.mode = Last(t.frames).md]
    BY DEF pop
  <2>2. Picks(s, t)
    BY DEF HasFont, Picks, NoDummies
  <2>. HIDE DEF t
  <2>3. Picks(t, [t EXCEPT !.badpop = TRUE]) /\ Picks(t, [t EXCEPT !.frames = Front(@), !.mode = Last(t.frames).md])
    BY <2>2 DEF HasFont, Picks
  <2>. QED
    BY <2>1, <2>2, <2>3, PicksTrans
<1>. QED
  BY <1>1, <1>2, <1>3, <1>4, <1>5

\* Nor do paragraphs and items begin and end with one.
LEMMA ParsPick ==
  ASSUME NEW s, HasFont(s), NEW n
  PROVE  /\ Picks(s, push_par(s)) /\ Picks(s, leave_v_mode(s)) /\ Picks(s, leave_h_mode(s))
         /\ Picks(s, pop_if_frame(s, n)) /\ Picks(s, LeaveItem(s)) /\ Picks(s, StartItem(s))
         /\ Picks(s, finish_par_cmd(s))
<1>1. ASSUME NEW t, HasFont(t) PROVE Picks(t, push_par(t))
  <2>. DEFINE u == push(t, "p")
              v == [u EXCEPT !.mode = "h"]
  <2>1. Picks(t, u)
    BY <1>1, FramesPick
  <2>. HIDE DEF u
  <2>2. Picks(t, v)
    BY <2>1, FramesPick, PicksTrans
  <2>3. push_par(t) = check_font(v)
    BY DEF push_par, u
  <2>. HIDE DEF v
  <2>. QED
    BY <2>2, <2>3, FramesPick, PicksTrans
<1>2. Picks(s, leave_v_mode(s))
  <2>. DEFINE t == flush_buffer(s)
  <2>1. Picks(s, t)
    BY FramesPick
  <2>2. leave_v_mode(s) = IF t.mode = "v" THEN push_par(t) ELSE t
    BY DEF leave_v_mode
  <2>. HIDE DEF t
  <2>. QED
    BY <1>1, <2>1, <2>2, PicksTrans
<1>3. ASSUME NEW t, HasFont(t) PROVE Picks(t, leave_h_mode(t))
  <2>1. Picks(t, flush_buffer(t))
    BY <1>3, FramesPick
  <2>2. Picks(flush_buffer(t), pop(flush_buffer(t), "p"))
    BY <2>1, FramesPick, PicksTrans
  <2>. QED
    BY <1>3, <2>1, <2>2, PicksTrans DEF leave_h_mode
<1>4. ASSUME NEW t, HasFont(t), NEW m PROVE Picks(t, pop_if_frame(t, m))
  BY <1>4, FramesPick, PicksTrans DEF pop_if_frame
<1>5. ASSUME NEW t, HasFont(t) PROVE Picks(t, finish_par_cmd(t))
  <2>1. Picks(t, leave_h_mode(t)) /\ HasFont(leave_h_mode(t))
    BY <1>3, <1>5, PicksTrans
  <2>2. Picks(leave_h_mode(t), push_par(leave_h_mode(t)))
    BY <1>1, <2>1
  <2>. QED
    BY <2>1, <2>2, PicksTrans DEF finish_par_cmd
<1>6. Picks(s, LeaveItem(s))
  BY <1>3, <1>4, PicksTrans DEF LeaveItem
<1>7. Picks(s, StartItem(s))
  <2>. DEFINE t == push(s, "item")
              u == [t EXCEPT !.mode = "v"]
  <2>1. Picks(s, t)
    BY FramesPick
  <2>. HIDE DEF t
  <2>2. Picks(s, u)
    BY <2>1, FramesPick, PicksTrans
  <2>3. StartItem(s) = finish_par_cmd(u)
    BY DEF StartItem, t
  <2>. HIDE DEF u
  <2>. QED
    BY <1>5, <2>2, <2>3, PicksTrans
<1>. QED
  BY <1>1, <1>2, <1>3, <1>4, <1>5, <1>6, <1>7

\* The divisions are popped without one.
LEMMA ParaAuxPicks ==
  ASSUME NEW s, Sound(s), NEW y \in 0..MaxDiv
  PROVE  Picks(s, para_aux(s, y))
<1>. DEFINE N == MaxDiv + 1 - y
<1>1. PICK R : /\ R[0] = s
               /\ \A n \in 1..N : R[n] = pop_if_frame(R[n - 1], Div(MaxDiv + 1 - n))
               /\ para_aux(s, y) = R[N]
  BY ParaAuxSteps
<1>2. N \in Nat
  BY ParaAuxSteps
<1>. DEFINE V == { R[n] : n \in { m \in 0..N : Picks(s, R[m]) } }
<1>3. R[0] \in V
  BY <1>1, <1>2, OutputHasFont, PicksTrans DEF Sound
<1>4. \A t \in V : Picks(s, t)
  OBVIOUS
<1>5. \A n \in 1..N : R[n - 1] \in V => R[n] \in V
  <2>. TAKE n \in 1..N
  <2>. HAVE R[n - 1] \in V
  <2>1. Picks(s, R[n])
    BY <1>1, <1>4, ParsPick, PicksTrans
  <2>2. n \in 0..N
    BY <1>2
  <2>. QED
    BY <2>1, <2>2
<1>. HIDE DEF V, N
<1>6. R[N] \in V
  BY ONLY <1>2, <1>3, <1>5, RecursionStays
<1>. QED
  BY <1>1, <1>4, <1>6

\* check_font shows the attributes of the font, outside of parts of lines.
LEMMA CheckShows ==
  ASSUME NEW s, IsOutput(s), TopName(C(s)) \notin Line
  PROVE  Shows(check_font(s).frames, Len(check_font(s).frames), s.font.attrs)
<1>1. s \in Output /\ IsStack(s.frames) /\ s.font \in FontType /\ s.mode \in Modes
  BY OutputFont DEF IsOutput
<1>. DEFINE ds == Dummies(s.font, s.mode)
            g == Trimmed(s.frames) \o ds
<1>2. TopNotIn(s.frames, {" "}) = TopNotIn(s.frames, {Blank})
  BY Zenon DEF Blank
<1>3. NoDummies(s).frames = Trimmed(s.frames)
  <2>1. NoDummies(s) = [s EXCEPT !.frames = SubSeq(@, 1, TopNotIn(@, {Blank}))]
    BY <1>2, Zenon DEF NoDummies, Blank
  <2>. QED
    BY <1>1, <2>1 DEF Trimmed, Output
<1>4. check_font(s).frames = g
  BY <1>1, <1>3 DEF check_font, Output
<1>5. Dummy(ds) /\ Show(ds, s.font.attrs)
  BY <1>1, DummiesShow, DummiesAll
<1>. HIDE DEF ds
<1>6. Shows(g, Len(g), s.font.attrs)
  BY <1>1, <1>5, ShowsChecked DEF C
<1>. QED
  BY <1>4, <1>6

\* font_has_changed1 and update_old show the font that is selected, where it is another one.
LEMMA Changed1Tells ==
  ASSUME NEW u, Settled(u), TopName(C(u)) \notin Line, u.font.attrs = u.font.packed,
         NEW z, z.frames = u.frames, z.font.packed = u.font.old
  PROVE  LET t == update_old(font_has_changed1(u))
         IN  Tells(z, t) /\ t.font.old = t.font.packed
<1>. DEFINE w == flush_buffer(u)
            v == font_has_changed1(u)
            t == update_old(v)
<1>1. IsOutput(u) /\ HasFont(u)
  BY OutputHasFont DEF Settled, Sound
<1>2. IsOutput(w) /\ C(w) = C(u) /\ w.font = u.font /\ HasFont(w)
  BY <1>1, FlushAlike, AlikeOutput, OutputHasFont DEF Alike
<1>3. v = IF u.mode # "v" /\ ~is_ok(u.font) THEN check_font(w) ELSE u
  BY DEF font_has_changed1
<1>. HIDE DEF w
<1>4. HasFont(v) /\ v.font.packed = u.font.packed
  <2>1. Picks(w, check_font(w))
    BY <1>2, FramesPick
  <2>2. HasFont(check_font(w)) /\ check_font(w).font.packed = w.font.packed
    BY <2>1 DEF Picks
  <2>. QED
    BY <1>1, <1>2, <1>3, <2>2
<1>5. CASE u.mode # "v" /\ ~is_ok(u.font)
  <2>1. Shows(v.frames, Len(v.frames), v.font.packed)
    BY <1>2, <1>3, <1>4, <1>5, CheckShows
  <2>. QED
    BY <1>4, <2>1 DEF Tells, HasFont, update_old
<1>6. CASE u.mode = "v"
  <2>1. Shows(v.frames, Len(v.frames), v.font.packed)
    BY <1>3, <1>6, VerticalShows
  <2>. QED
    BY <1>4, <2>1 DEF Tells, HasFont, update_old
<1>7. CASE u.mode # "v" /\ is_ok(u.font)
  <2>1. v = u /\ u.font.old = u.font.packed
    BY <1>3, <1>7 DEF is_ok
  <2>2. t.font.packed = u.font.packed /\ t.font.old = t.font.packed /\ t.frames = u.frames
    BY <1>4, <2>1 DEF HasFont, update_old
  <2>. QED
    BY <2>1, <2>2 DEF Tells
<1>. QED
  BY <1>5, <1>6, <1>7

\* font_has_changed shows a font that is selected.
LEMMA ChangeTells ==
  ASSUME NEW s, Settled(s), TopName(C(s)) \notin Line, NEW sv, Len(sv) \in Nat,
         NEW z, z.frames = s.frames, z.font.packed = s.font.old
  PROVE  Tells(z, font_has_changed(s, sv)) /\ font_has_changed(s, sv).font.old = font_has_changed(s, sv).font.packed
<1>. DEFINE f == [s.font EXCEPT !.packed = s.font.attrs, !.level = Len(sv)]
            u == [s EXCEPT !.font = f]
<1>1. s \in Output /\ IsOutput(s) /\ s.font \in FontType
  BY OutputFont DEF Settled, Sound, IsOutput
<1>2. u = [Packed(s) EXCEPT !.font.level = Len(sv)]
  BY <1>1 DEF Packed, Output, FontType
<1>3. f \in FontType /\ f.attrs = f.packed /\ f.old = s.font.old
  BY <1>1 DEF FontType
<1>. HIDE DEF f
<1>4. Alike(s, u) /\ u.font = f /\ u.frames = s.frames
  BY <1>1, <1>3, WithFont, PartsWith
<1>5. font_has_changed(s, sv) = update_old(font_has_changed1(u))
  BY <1>2 DEF font_has_changed
<1>. HIDE DEF u
<1>6. Settled(u) /\ C(u) = C(s)
  BY <1>4, AlikeSound DEF Settled
<1>. QED
  BY <1>3, <1>4, <1>5, <1>6, Changed1Tells

\* So does the end of a level, which selects the saved fonts.
LEMMA RestoreTells ==
  ASSUME NEW s, Settled(s), TopName(C(s)) \notin Line, NEW e \in SavedType
  PROVE  /\ Tells(s, RestoreFont(e, s)) /\ RestoreFont(e, s).font.old = RestoreFont(e, s).font.packed
         /\ Settled(RestoreFont(e, s)) /\ C(RestoreFont(e, s)) = C(s)
<1>. DEFINE t == flush_buffer(s)
            f == [attrs |-> e.val, packed |-> e.val, old |-> t.font.packed,
                  stackval |-> t.font.stackval, level |-> e.level]
            u == [t EXCEPT !.font = f]
<1>1. IsOutput(s) /\ s \in Output
  BY DEF Settled, Sound, IsOutput
<1>2. Alike(s, t) /\ IsOutput(t) /\ t.font = s.font
  BY <1>1, FlushAlike, AlikeOutput
<1>3. t.frames = s.frames
  BY <1>1 DEF flush_buffer, Output
<1>4. RestoreFont(e, s) = update_old(font_has_changed1(u))
  BY DEF RestoreFont
<1>. HIDE DEF t
<1>5. f \in FontType /\ f.attrs = f.packed /\ f.old = s.font.packed
  <2>1. t.font.packed \in SUBSET Attributes /\ t.font.stackval \in BOOLEAN
    BY <1>2, OutputFont
  <2>. QED
    BY <1>2, <2>1 DEF FontType, SavedType
<1>. HIDE DEF f
<1>6. Alike(t, u) /\ u.font = f /\ u.frames = t.frames
  BY <1>2, <1>5, WithFont, PartsWith
<1>. HIDE DEF u
<1>7. Alike(s, u)
  BY <1>2, <1>6, AlikeTrans
<1>8. Settled(u) /\ C(u) = C(s)
  BY <1>7, AlikeSound DEF Settled
<1>9. Alike(s, RestoreFont(e, s))
  BY <1>1, RestoreAlike
<1>10. Settled(RestoreFont(e, s)) /\ C(RestoreFont(e, s)) = C(s)
  BY <1>9, AlikeSound DEF Settled
<1>. QED
  BY <1>3, <1>4, <1>5, <1>6, <1>8, <1>10, Changed1Tells

\* The end of a level restores all that it has saved, the last change first.
LEMMA RestoreLevelTells ==
  ASSUME NEW s, Settled(s), TopName(C(s)) \notin Line, s.font.old = s.font.packed, NEW entries \in Seq(SavedType)
  PROVE  /\ Tells(s, RestoreLevel(s, entries))
         /\ RestoreLevel(s, entries).font.old = RestoreLevel(s, entries).font.packed
<1>. DEFINE N == Len(entries)
            V == { t \in Output : Settled(t) /\ C(t) = C(s) /\ Tells(s, t) /\ t.font.old = t.font.packed }
<1>1. IsOutput(s) /\ s \in Output /\ N \in Nat /\ \A i \in 1..N : entries[i] \in SavedType
  BY LenProperties, ElementOfSeq DEF Settled, Sound, IsOutput
<1>2. PICK R : /\ R[0] = s
               /\ \A n \in 1..N : R[n] = RestoreFont(entries[N + 1 - n], R[n - 1])
               /\ RestoreLevel(s, entries) = R[N]
  BY <1>1, RestoreLevelSteps
<1>3. R[0] \in V
  BY <1>1, <1>2, PicksTrans
<1>4. \A n \in 1..N : R[n - 1] \in V => R[n] \in V
  <2>. TAKE n \in 1..N
  <2>. DEFINE t == R[n - 1]
              e == entries[N + 1 - n]
  <2>. HAVE t \in V
  <2>1. N + 1 - n \in 1..N
    BY <1>1
  <2>2. e \in SavedType
    BY <1>1, <2>1
  <2>3. Settled(t) /\ C(t) = C(s) /\ Tells(s, t)
    OBVIOUS
  <2>4. R[n] = RestoreFont(e, t)
    BY <1>2
  <2>. HIDE DEF t, e
  <2>5. /\ Tells(t, R[n]) /\ R[n].font.old = R[n].font.packed /\ Settled(R[n]) /\ C(R[n]) = C(t)
    BY <2>2, <2>3, <2>4, RestoreTells
  <2>6. Tells(s, R[n]) /\ R[n] \in Output
    BY <2>3, <2>5, PicksTrans DEF Settled, Sound, IsOutput
  <2>. QED
    BY <2>3, <2>5, <2>6
<1>5. \A t \in V : Tells(s, t) /\ t.font.old = t.font.packed
  OBVIOUS
<1>. HIDE DEF V, N
<1>6. R[N] \in V
  BY ONLY <1>1, <1>3, <1>4, RecursionStays
<1>. QED
  BY <1>2, <1>5, <1>6

\* The block where text is added is on top, outside of parts of lines.
LEMMA BlockIsTop ==
  ASSUME NEW s, Sound(s), TopName(C(s)) \notin Line
  PROVE  Block(s) = TopName(C(s))
<1>. DEFINE fs == s.frames
            n == Len(fs)
            T == Top(C(s))
            P(i) == fs[i].frame \notin Inline /\ \A j \in i + 1 .. n : fs[j].frame \in Inline
            b == TopNotIn(fs, Inline)
<1>1. IsStack(fs)
  BY DEF Sound, IsOutput
<1>2. n \in Nat /\ DOMAIN fs = 1..n
  BY <1>1, StackAt
<1>3. /\ T \in 1..n /\ fs[T].frame = TopName(C(s)) /\ fs[T].frame # Blank
      /\ \A j \in 1..n : j > T => fs[j].frame = Blank
  BY <1>1, TopIsTop DEF C, Solid
<1>4. b = CHOOSE i \in DOMAIN fs : P(i)
  BY DEF TopNotIn
<1>. HIDE DEF b, fs, n, T
<1>5. T \in DOMAIN fs /\ P(T)
  <2>1. \A j \in T + 1 .. n : j \in 1..n /\ j > T
    BY <1>2, <1>3
  <2>. QED
    BY <1>2, <1>3, <2>1, InlineIs
<1>6. b \in DOMAIN fs /\ P(b)
  BY <1>4, <1>5
<1>7. b = T
  <2>1. ~(b > T)
    BY <1>2, <1>3, <1>6, InlineIs
  <2>2. ~(b < T)
    <3>1. b < T => T \in b + 1 .. n
      BY <1>2, <1>3, <1>6
    <3>. QED
      BY <1>5, <1>6, <3>1
  <2>. QED
    BY <1>2, <1>3, <1>6, <2>1, <2>2
<1>. QED
  BY <1>3, <1>7 DEF Block, b, fs

\* This holds of the commands that stay open.
LEMMA SoleFront ==
  ASSUME NEW op \in Seq(OpenCommands), op # <<>>, Sole(op)
  PROVE  Sole(Front(op))
<1>1. /\ Len(op) \in Nat \ {0} /\ Len(Front(op)) = Len(op) - 1
      /\ \A i \in 1 .. Len(op) - 1 : Front(op)[i] = op[i]
  BY PoppedAt
<1>2. \A i \in 1 .. Len(op) - 1 : i \in 1..Len(op)
  BY ONLY <1>1
<1>. QED
  BY <1>1, <1>2 DEF Sole

\* The top is not a part of a line when no such command is open.
LEMMA SoleTop ==
  ASSUME NEW s, Sound(s), NEW op \in Seq(OpenCommands), Matched(C(s), op), Sole(op)
  PROVE  TopName(C(s)) \notin Line
<1>1. ~LineIn(op)
  <2>1. DOMAIN op = 1..Len(op)
    BY LenProperties
  <2>. QED
    BY <2>1 DEF LineIn, Sole, Line
<1>2. InnerCommand(op) \notin Line
  BY <1>1, InLineIs
<1>. DEFINE k == InnerCommand(op)
<1>3. Nested(C(s)) /\ IsCore(C(s))
  BY TopIsName
<1>4. InnerIs(C(s), k)
  BY <1>3, InnerMatched
<1>. HIDE DEF k
<1>5. k \in Kinds \cup {"none"}
  BY <1>4, InnerType
<1>6. /\ k \in {"fonts", "mbox", "hbox", "head", "labelitem"} => TopName(C(s)) = k
      /\ k = "footnote" => TopName(C(s)) \in {"footnote", "p"}
      /\ k = "list" => TopName(C(s)) \in {"list", "item", "p"}
      /\ k = "none" => TopName(C(s)) \in {"document", "p"} \cup Divs
  BY <1>3, <1>4, AboveInner
<1>7. \A d \in Divs : d \notin Line
  BY DivIsOther DEF Kinds, Line
<1>. QED
  BY <1>2, <1>5, <1>6, <1>7 DEF Kinds, Line, k

-----------------------------------------------------------------------------
(* The commands of such a document *)
LowBefore == Before /\ Simple /\ Sole(open) /\ x.font.old = x.font.packed

\* The selected font is the old one, and it shows if it has changed in a paragraph.
LowAfter ==
  /\ x'.font.old = x'.font.packed
  /\ x'.font.packed # x.font.packed /\ Block(x) = "p" /\ Block(x') = "p"
       => Shows(x'.frames, Len(x'.frames), x'.font.packed)

\* What holds before a command.
LEMMA LowOf ==
  ASSUME LowBefore
  PROVE  /\ Before /\ Sole(open) /\ x.font.old = x.font.packed
         /\ Settled(x) /\ Sound(x) /\ IsOutput(x) /\ HasFont(x) /\ TopName(C(x)) \notin Line
         /\ Matched(C(x), open) /\ open \in Seq(OpenCommands)
<1>1. Before /\ Sole(open) /\ x.font.old = x.font.packed
  BY DEF LowBefore
<1>2. Settled(x) /\ Sound(x) /\ IsOutput(x) /\ Matched(C(x), open) /\ open \in Seq(OpenCommands)
  BY <1>1, BeforeOf
<1>. QED
  BY <1>1, <1>2, SoleTop, OutputHasFont

\* Where no font is selected there is nothing to show.
LEMMA PicksLow ==
  ASSUME LowBefore, Picks(x, x')
  PROVE  LowAfter
BY LowOf DEF Picks, LowAfter

\* Nor is there when a paragraph ends, or where none was.
LEMMA OtherLow ==
  ASSUME NEW t, t.font.old = t.font.packed, Picks(t, x'), Block(x) # "p" \/ Block(x') # "p"
  PROVE  LowAfter
BY DEF Picks, LowAfter

\* Characters and prepared fonts select none.
LEMMA TextLow ==
  ASSUME LowBefore, Char \/ OpenBrace \/ ltfont
  PROVE  LowAfter
<1>1. CASE Char
  <2>. DEFINE s == IF x.mode = "v" THEN leave_v_mode(x) ELSE x
              t == [s EXCEPT !.buffer = @ \cup {s.font.packed}]
  <2>1. x' = t
    BY <1>1 DEF Char
  <2>2. Picks(x, s)
    BY LowOf, ParsPick, PicksTrans
  <2>. HIDE DEF s
  <2>3. Picks(x, t)
    BY <2>2 DEF Picks, HasFont
  <2>. QED
    BY <2>1, <2>3, PicksLow
<1>2. CASE OpenBrace
  <2>1. Picks(x, x')
    BY <1>2, LowOf, PicksTrans DEF OpenBrace
  <2>. QED
    BY <2>1, PicksLow
<1>3. CASE ltfont
  <2>1. PICK a : x' = [flush_buffer(x) EXCEPT !.font.attrs = a]
    BY <1>3 DEF ltfont
  <2>2. Picks(x, flush_buffer(x))
    BY LowOf, FramesPick
  <2>3. Picks(flush_buffer(x), x')
    BY <2>1, <2>2 DEF Picks, HasFont
  <2>4. Picks(x, x')
    BY <2>2, <2>3, PicksTrans
  <2>. QED
    BY <2>4, PicksLow
<1>. QED
  BY <1>1, <1>2, <1>3

\* Nor do paragraphs, items and the start of boxes.
LEMMA ParsLow ==
  ASSUME LowBefore, T_par1 \/ implicit_par \/ begin_box \/ T_listenv \/ T_item \/ T_item_label
  PROVE  LowAfter
<1>. DEFINE f == flush_buffer(x)
<1>1. HasFont(x) /\ Picks(x, f) /\ HasFont(f)
  BY LowOf, FramesPick, PicksTrans
<1>2. CASE T_par1
  <2>1. x' = leave_h_mode(f)
    BY <1>2 DEF T_par1
  <2>. QED
    BY <1>1, <2>1, ParsPick, PicksTrans, PicksLow
<1>3. CASE implicit_par
  <2>1. x' = finish_par_cmd(f)
    BY <1>3 DEF implicit_par
  <2>. QED
    BY <1>1, <2>1, ParsPick, PicksTrans, PicksLow
<1>4. CASE begin_box
  <2>1. x' = [push(f, "hbox") EXCEPT !.mode = "arg"]
    BY <1>4 DEF begin_box
  <2>2. Picks(x, push(f, "hbox"))
    BY <1>1, FramesPick, PicksTrans
  <2>. HIDE DEF f
  <2>3. Picks(x, x')
    BY <2>1, <2>2, FramesPick, PicksTrans
  <2>. QED
    BY <2>3, PicksLow
<1>5. CASE T_listenv
  <2>1. x' = push(leave_h_mode(f), "list")
    BY <1>5 DEF T_listenv
  <2>2. Picks(x, leave_h_mode(f))
    BY <1>1, ParsPick, PicksTrans
  <2>. HIDE DEF f
  <2>3. Picks(x, x')
    BY <2>1, <2>2, FramesPick, PicksTrans
  <2>. QED
    BY <2>3, PicksLow
<1>6. CASE T_item
  <2>1. x' = StartItem(LeaveItem(x))
    BY <1>6 DEF T_item
  <2>2. Picks(x, LeaveItem(x))
    BY <1>1, ParsPick
  <2>3. Picks(LeaveItem(x), StartItem(LeaveItem(x)))
    BY <2>2, ParsPick, PicksTrans
  <2>4. Picks(x, x')
    BY <2>1, <2>2, <2>3, PicksTrans
  <2>. QED
    BY <2>4, PicksLow
<1>7. CASE T_item_label
  <2>. DEFINE q == LeaveItem(x)
              r == flush_buffer(q)
              t == push(r, "labelitem")
  <2>1. x' = [t EXCEPT !.mode = "arg"]
    BY <1>7 DEF T_item_label
  <2>2. Picks(x, q)
    BY <1>1, ParsPick
  <2>. HIDE DEF q
  <2>3. Picks(x, r)
    BY <2>2, FramesPick, PicksTrans
  <2>. HIDE DEF r
  <2>4. Picks(x, t)
    BY <2>3, FramesPick, PicksTrans
  <2>. HIDE DEF t
  <2>5. Picks(x, x')
    BY <2>1, <2>4, FramesPick, PicksTrans
  <2>. QED
    BY <2>5, PicksLow
<1>. QED
  BY <1>2, <1>3, <1>4, <1>5, <1>6, <1>7

\* Nor does a section.
LEMMA T_parasLow ==
  ASSUME LowBefore, T_paras
  PROVE  LowAfter
<1>1. PICK y \in 0..MaxDiv :
        x' = push([push(para_aux(leave_h_mode(x), y), Div(y)) EXCEPT !.mode = "arg"], "head")
  BY DEF T_paras
<1>. DEFINE q == leave_h_mode(x)
            r == para_aux(q, y)
            s == push(r, Div(y))
            t == [s EXCEPT !.mode = "arg"]
<1>2. InnerIs(C(x), "none")
  BY LowOf, InnermostIs, BeforeOf, InnerOfStep DEF T_paras
<1>3. x.mode = "h" => TopName(C(x)) = "p"
  <2>1. TopName(C(x)) \in {"document", "p"} \cup Divs
    BY <1>2, LowOf, BeforeOf, AboveInner DEF Sound
  <2>2. ModeFits(TopName(C(x)), x.mode)
    BY LowOf DEF Settled
  <2>. QED
    BY <2>1, <2>2, LowOf, BeforeOf, ModeTells
<1>4. Sound(q) /\ Picks(x, q)
  BY <1>3, LowOf, LeaveHSettled, ParsPick DEF Settled
<1>. HIDE DEF q
<1>5. Picks(x, r)
  BY <1>4, ParaAuxPicks, PicksTrans
<1>. HIDE DEF r
<1>6. Picks(x, s)
  BY <1>5, FramesPick, PicksTrans
<1>. HIDE DEF s
<1>7. Picks(x, t)
  BY <1>6, FramesPick, PicksTrans
<1>8. x' = push(t, "head")
  BY <1>1 DEF q, r, s
<1>. HIDE DEF t
<1>9. Picks(x, x')
  BY <1>7, <1>8, FramesPick, PicksTrans
<1>. QED
  BY <1>9, PicksLow

\* The end of the document selects none.
LEMMA EndLow ==
  ASSUME LowBefore, T_enddocument
  PROVE  LowAfter
<1>1. x' = [flush_buffer(x) EXCEPT !.frames = <<Head(@)>>]
  BY DEF T_enddocument
<1>2. Picks(x, flush_buffer(x))
  BY LowOf, FramesPick
<1>3. Picks(x, x')
  BY <1>1, <1>2, FramesPick, PicksTrans
<1>. QED
  BY <1>3, PicksLow

\* A font that is selected shows.
LEMMA SelectLow ==
  ASSUME LowBefore, see_font_change \/ selectfont
  PROVE  LowAfter
<1>1. Len(saves) \in Nat
  BY LowOf, BeforeOf
<1>2. PICK s : x' = font_has_changed(s, saves) /\ Alike(x, s) /\ s.frames = x.frames /\ s.font.old = x.font.old
  <2>1. CASE see_font_change
    <3>1. PICK a \in NewAttributes : x' = font_has_changed([x EXCEPT !.font.attrs = a], saves)
      BY <2>1 DEF see_font_change
    <3>2. a \in SUBSET Attributes
      BY LowOf, NewAttributesType
    <3>3. Alike(x, [x EXCEPT !.font.attrs = a])
      BY <3>2, LowOf, AttributesAlike
    <3>4. [x EXCEPT !.font.attrs = a].frames = x.frames /\ [x EXCEPT !.font.attrs = a].font.old = x.font.old
      BY LowOf DEF HasFont
    <3>. QED
      BY <3>1, <3>3, <3>4
  <2>2. CASE selectfont
    BY <2>2, LowOf, BeforeOf DEF selectfont
  <2>. QED
    BY <2>1, <2>2
<1>3. Settled(s) /\ C(s) = C(x)
  BY <1>2, LowOf, AlikeSound
<1>4. Tells(x, x') /\ x'.font.old = x'.font.packed
  BY <1>1, <1>2, <1>3, LowOf, ChangeTells
<1>. QED
  BY <1>4 DEF Tells, LowAfter

\* So does one that comes back at the end of a group.
LEMMA CloseBraceLow ==
  ASSUME LowBefore, CloseBrace
  PROVE  LowAfter
<1>1. x' = RestoreLevel(x, Last(saves)) /\ Last(saves) \in Seq(SavedType)
  BY LowOf, ClosesOf DEF CloseBrace, pop_level
<1>2. Tells(x, x') /\ x'.font.old = x'.font.packed
  BY <1>1, LowOf, RestoreLevelTells
<1>. QED
  BY <1>2 DEF Tells, LowAfter

\* Where a box, a title or a label ends there is no paragraph.
LEMMA BoxLow ==
  ASSUME LowBefore, EndBox \/ EndHead \/ EndLabel
  PROVE  LowAfter
<1>. DEFINE t == pop_level(x)
            f == flush_buffer(t)
<1>1. PICK k \in {"hbox", "head", "labelitem"} : Closes(k)
  BY DEF EndBox, EndHead, EndLabel
<1>2. Last(saves) \in Seq(SavedType) /\ Alike(x, t) /\ InnerIs(C(x), k)
  <2>1. k # "group"
    OBVIOUS
  <2>. QED
    BY <1>1, <2>1, LowOf, ClosesOf
<1>3. t.font.old = t.font.packed
  BY <1>2, LowOf, RestoreLevelTells DEF pop_level
<1>4. HasFont(t)
  BY <1>2, AlikeOutput, OutputHasFont
<1>5. TopName(C(x)) = k
  BY <1>2, LowOf, AboveInner DEF Sound
<1>6. Block(x) # "p"
  BY <1>5, LowOf, BlockIsTop
<1>7. x' = pop(f, "hbox") \/ x' = [pop(f, "head") EXCEPT !.mode = "v"] \/ x' = StartItem(pop(f, "labelitem"))
  BY DEF EndBox, EndHead, EndLabel
<1>. HIDE DEF t
<1>8. Picks(t, f)
  BY <1>4, FramesPick
<1>. HIDE DEF f
<1>9. Picks(t, pop(f, "hbox")) /\ Picks(t, pop(f, "head")) /\ Picks(t, pop(f, "labelitem"))
  BY <1>8, FramesPick, PicksTrans
<1>10. Picks(t, x')
  <2>1. CASE x' = pop(f, "hbox")
    BY <1>9, <2>1
  <2>2. CASE x' = [pop(f, "head") EXCEPT !.mode = "v"]
    BY <1>9, <2>2, FramesPick, PicksTrans
  <2>3. CASE x' = StartItem(pop(f, "labelitem"))
    BY <1>9, <2>3, ParsPick, PicksTrans
  <2>. QED
    BY <1>7, <2>1, <2>2, <2>3
<1>. QED
  BY <1>3, <1>6, <1>10, OtherLow

\* A list ends where no paragraph is.
LEMMA ListLow ==
  ASSUME LowBefore, T_listenv_end
  PROVE  LowAfter
<1>. DEFINE f == flush_buffer(x)
            q == LeaveItem(f)
            s == pop(q, "list")
            F == Front(open)
<1>1. Closes("list") /\ x' = RestoreLevel(s, Last(saves))
  BY DEF T_listenv_end, LeaveItem, pop_level
<1>0. "list" \in Kinds /\ "list" # "fonts" /\ "list" # "group" /\ "p" \in Names
  BY DEF Kinds, Names
<1>2. /\ open # <<>> /\ Last(open).kind = "list" /\ InnerIs(C(x), "list") /\ Last(saves) \in Seq(SavedType)
  BY <1>0, <1>1, LowOf, ClosesOf
<1>3. Settled(f) /\ C(f) = C(x) /\ Picks(x, f)
  BY LowOf, FlushSettled, FramesPick
<1>. HIDE DEF f
<1>4. Settled(q) /\ TopName(C(q)) = "list" /\ SameElems(C(f), C(q)) /\ Picks(x, q)
  BY <1>2, <1>3, LeaveItemSettled, ParsPick, PicksTrans
<1>. HIDE DEF q
<1>5. Sound(q) /\ Matched(C(q), open)
  BY <1>3, <1>4, LowOf, SameElemsKeep DEF Settled
<1>6. Levels(open, saves)
  BY LowOf, BeforeOf
<1>7. /\ F \in Seq(OpenCommands) /\ Sound(s) /\ Matched(C(s), F)
      /\ FitsOn(TopName(C(s)), "list", s.mode)
  BY <1>0, <1>2, <1>4, <1>5, <1>6, LowOf, CloseStep
<1>8. Picks(x, s)
  BY <1>4, FramesPick, PicksTrans
<1>. HIDE DEF s
<1>9. TopName(C(s)) \in Names /\ s.mode \in Modes /\ IsOutput(s)
  BY <1>7, TopIsName
<1>10. ModeFits(TopName(C(s)), s.mode) /\ s.mode # "h"
  BY <1>0, <1>7, <1>9, FitsTells DEF FitsOn
<1>11. Settled(s) /\ TopName(C(s)) # "p"
  BY <1>0, <1>7, <1>9, <1>10, ModeTells DEF Settled
<1>12. Sole(F)
  BY <1>2, LowOf, SoleFront
<1>13. TopName(C(s)) \notin Line
  BY <1>7, <1>12, SoleTop
<1>14. s.font.old = s.font.packed
  BY <1>8, LowOf DEF Picks
<1>15. x'.font.old = x'.font.packed
  BY <1>1, <1>2, <1>11, <1>13, <1>14, RestoreLevelTells
<1>16. Alike(s, x')
  BY <1>1, <1>2, <1>9, RestoreLevelAlike
<1>17. Block(x') # "p"
  BY <1>11, <1>13, <1>16, AlikeSound, BlockIsTop DEF Settled
<1>. QED
  BY <1>15, <1>17 DEF LowAfter

\* No part of a line and no note begins.
LEMMA SoleStep ==
  ASSUME Simple, open \in Seq(OpenCommands), Sole(open), Command
  PROVE  Sole(open')
<1>1. ~T_fonts /\ ~internal_makebox /\ ~T_cap_or_note
  BY DEF Simple, T_fonts, internal_makebox, T_cap_or_note, MayOpen, Allowed
<1>2. \/ open' = open
      \/ \E k \in {"group", "hbox", "head", "list", "labelitem"} : Opens(k)
      \/ \E k \in Kinds \cup {"group"} : Closes(k)
  BY <1>1 DEF Command, Char, OpenBrace, CloseBrace, see_font_change, ltfont, selectfont, T_par1, implicit_par,
     EndFonts, EndMakebox, begin_box, EndBox, EndNote, T_paras,
     EndHead, T_listenv, T_listenv_end, T_item, T_item_label, EndLabel, T_enddocument, Kinds
<1>3. CASE open' = open
  BY <1>3
<1>4. ASSUME NEW k \in {"group", "hbox", "head", "list", "labelitem"}, Opens(k) PROVE Sole(open')
  <2>. DEFINE e == [kind |-> k, sv |-> {}]
  <2>1. open' = Append(open, e)
    BY <1>4 DEF Opens
  <2>2. e \in OpenCommands /\ e.kind = k
    BY OpenTypes DEF Kinds
  <2>. HIDE DEF e
  <2>3. /\ Len(open) \in Nat /\ Len(Append(open, e)) = Len(open) + 1
        /\ \A i \in 1..Len(open) : Append(open, e)[i] = open[i]
        /\ Append(open, e)[Len(open) + 1] = e
    BY <2>2, PushedAt
  <2>. QED
    BY <2>1, <2>2, <2>3 DEF Sole
<1>5. ASSUME NEW k \in Kinds \cup {"group"}, Closes(k) PROVE Sole(open')
  <2>1. open' = Front(open) /\ open # <<>>
    BY <1>5 DEF Closes
  <2>. QED
    BY <2>1, SoleFront
<1>. QED
  BY <1>2, <1>3, <1>4, <1>5

\* Between two commands the selected font is the old one.
XmlLow == Plain /\ Simple /\ XmlInv /\ (~done => Sole(open) /\ x.font.old = x.font.packed)

\* Every command of such a document shows the font that it selects.
LEMMA CommandLow ==
  ASSUME LowBefore, Command
  PROVE  LowAfter
<1>1. ~T_fonts /\ ~internal_makebox /\ ~T_cap_or_note
  BY DEF LowBefore, Simple, T_fonts, internal_makebox, T_cap_or_note, MayOpen, Allowed
<1>2. ~EndFonts /\ ~EndMakebox /\ ~EndNote
  <2>1. ASSUME NEW k \in {"fonts", "mbox", "footnote"}, Closes(k) PROVE FALSE
    <3>1. open # <<>> /\ Last(open).kind = k
      BY <2>1 DEF Closes
    <3>2. Last(open) = open[Len(open)] /\ Len(open) \in Nat \ {0}
      BY <3>1, LowOf, PoppedAt
    <3>3. Len(open) \in 1..Len(open)
      BY <3>2
    <3>. QED
      BY <3>1, <3>2, <3>3, LowOf DEF Sole
  <2>. QED
    BY <2>1 DEF EndFonts, EndMakebox, EndNote
<1>. QED
  BY <1>1, <1>2, TextLow, ParsLow, T_parasLow, EndLow, SelectLow, CloseBraceLow, BoxLow, ListLow DEF Command

\* Every step keeps it, and a font that is selected shows.
LEMMA StepLow ==
  ASSUME XmlLow, [Next]_vars
  PROVE  /\ XmlLow'
         /\ x'.font.packed # x.font.packed /\ Block(x) = "p" /\ Block(x') = "p" => Shown(x') = x'.font.packed
<1>1. Plain /\ Simple /\ XmlInv /\ XmlInv' /\ Plain'
  BY StepXml DEF XmlLow
<1>2. Simple'
  BY <1>1 DEF Simple, Next, vars
<1>3. CASE UNCHANGED vars
  <2>1. x' = x /\ open' = open /\ done' = done
    BY <1>3 DEF vars
  <2>. QED
    BY <1>1, <1>2, <2>1 DEF XmlLow
<1>4. CASE Next
  <2>1. Command /\ ~done
    BY <1>4, OverStays DEF Next
  <2>2. LowBefore
    BY <2>1 DEF XmlLow, XmlInv, LowBefore, Before
  <2>3. LowAfter
    BY <2>1, <2>2, CommandLow
  <2>4. Sole(open')
    BY <1>1, <2>1, <2>2, LowOf, SoleStep
  <2>5. XmlLow'
    BY <1>1, <1>2, <2>3, <2>4 DEF XmlLow, LowAfter
  <2>6. ASSUME x'.font.packed # x.font.packed PROVE ~done'
    <3>1. ASSUME T_enddocument PROVE FALSE
      <4>1. x' = [flush_buffer(x) EXCEPT !.frames = <<Head(@)>>]
        BY <3>1 DEF T_enddocument
      <4>2. Picks(x, flush_buffer(x))
        BY <2>2, LowOf, FramesPick
      <4>3. Picks(x, x')
        BY <4>1, <4>2, FramesPick, PicksTrans
      <4>. QED
        BY <2>6, <4>3 DEF Picks
    <3>. QED
      BY <2>1, <3>1 DEF Command, Char, OpenBrace, CloseBrace, see_font_change, ltfont, selectfont, T_par1,
         implicit_par, T_fonts, EndFonts, internal_makebox, EndMakebox, begin_box, EndBox, T_cap_or_note, EndNote,
         T_paras, EndHead, T_listenv, T_listenv_end, T_item, T_item_label, EndLabel
  <2>7. ~done' => Sound(x')
    BY <1>1 DEF XmlInv, StepInv, Settled
  <2>8. x'.font.packed # x.font.packed /\ Block(x) = "p" /\ Block(x') = "p" => Shown(x') = x'.font.packed
    BY <2>3, <2>6, <2>7, BlockIs DEF LowAfter
  <2>. QED
    BY <2>5, <2>8
<1>. QED
  BY <1>3, <1>4

\* A font that is selected shows at once, in every such document without \fontshape, and with it if
\* there are no notes and no parts of lines (FontChangeShows: font_has_changed, ~SaveAuxFont).
THEOREM FontChangeShowsHolds == Spec /\ Plain /\ (Selected \/ Simple) => FontChangeShows
<1>1. Init /\ Plain /\ Selected => XmlFonts
  BY InitXml, InitFonts DEF XmlFonts, Init
<1>2. XmlFonts /\ [Next]_vars => XmlFonts'
  BY StepFonts
<1>3. XmlFonts /\ XmlFonts' /\ [Next]_vars
        => [x'.font.packed # x.font.packed /\ Block(x) = "p" /\ Block(x') = "p" => Shown(x') = x'.font.packed]_vars
  BY ShowsOfInv
<1>4. Init /\ Plain /\ Simple => XmlLow
  <2>1. Init => open = <<>> /\ x.font = [attrs |-> {}, packed |-> {}, old |-> {}, stackval |-> TRUE, level |-> 0]
    BY DEF Init
  <2>2. Sole(<<>>)
    BY DEF Sole
  <2>. QED
    <3>. SUFFICES ASSUME Init, Plain, Simple PROVE XmlLow
      OBVIOUS
    <3>1. Sole(open)
      BY <2>1, <2>2
    <3>2. x.font.old = x.font.packed
      BY <2>1
    <3>. QED
      BY <3>1, <3>2, InitXml DEF XmlLow
<1>5. XmlLow /\ [Next]_vars => XmlLow'
  BY StepLow
<1>6. XmlLow /\ [Next]_vars
        => [x'.font.packed # x.font.packed /\ Block(x) = "p" /\ Block(x') = "p" => Shown(x') = x'.font.packed]_vars
  BY StepLow
<1>. QED
  BY <1>1, <1>2, <1>3, <1>4, <1>5, <1>6, PTL DEF Spec, FontChangeShows
==============================================================================
