---------------------------- MODULE LabelsProofs ----------------------------
(***************************************************************************)
(* Proofs about Labels, for every set of documents: the current anchor is  *)
(* in scope, and the number at the anchor agrees with \@currentlabel.      *)
(*                                                                         *)
(* The anchor is local to elements and the number to groups, so that the   *)
(* invariant has three parts.  Typed: every command that is open has its   *)
(* group, and every list its counter.  Shape: the tree and the XML stack   *)
(* are well formed (Good), each frame has the anchor that was current when *)
(* it was pushed (Scoped), and the frames that commands open, the blocks,  *)
(* follow these commands (Nest).  Agree: where a block meets its command   *)
(* (Matched), the anchor below the block has the number of the group       *)
(* around the command, and the same holds on the top of the stack.         *)
(*                                                                         *)
(* The commands are made of elementary steps that add elements, push a     *)
(* frame or pop one.  Each kind of step is a relation between two states   *)
(* of the tree and the stack, with a lemma that it keeps the invariant and *)
(* a lemma that it composes (Grown, Calm, Moves, Goes, Flows, Opens,       *)
(* Shuts), so that an action is proved by the steps it is made of.         *)
(***************************************************************************)
EXTENDS Labels, StackLemmas

\* The frames that commands open and close (blocks), the frames of the document, and the
\* names of elements.  A box has no name.
BlockNames == {"head", "footnote", "list", "hbox"}
FrameNames == BlockNames \cup {"document", "div0", "div1", "item", "p"}
ElementNames == FrameNames \cup {"", "anchor", "ref", "index"}
NameOf(f) == IF f = "hbox" THEN "" ELSE f

\* What elements, frames and the state of the tree and the stack are made of.
Ids == {"uid", "cid", "none"} \X Nat
Modes == {"v", "h", "arg"}
Elt == [name : ElementNames, id : Ids, text : Seq(Nat), sons : Seq(Int)]
FrameType == [frame : FrameNames, elt : Nat, md : Modes, uid : Ids]
State == [elts : Seq(Elt), frames : Seq(FrameType), mode : Modes, cur_lid : Ids, unfinished_par : Nat,
          last_label_id : Nat, last_top_label_id : Nat, anchor_id : Nat]

\* The mode and the anchor below frame i, or the current ones.
ModeAt(s, i) == IF i > Len(s.frames) THEN s.mode ELSE s.frames[i].md
\* The current anchor below frame i.
UidAt(s, i) == IF i > Len(s.frames) THEN s.cur_lid ELSE s.frames[i].uid

\* The sons of an element exist, a paragraph is newer than the element around it, an item
\* is in a list, and paragraphs are no anchors.
Tree(s) ==
  /\ \A e \in DOMAIN s.elts : \A k \in DOMAIN s.elts[e].sons :
       LET son == s.elts[e].sons[k]
       IN /\ son \in DOMAIN s.elts \cup {Text, Newline}
          /\ son > 0 /\ s.elts[son].name = "p" => e < son
          /\ son > 0 /\ s.elts[son].name = "item" => s.elts[e].name = "list"
  /\ \A e \in DOMAIN s.elts : s.elts[e].name = "p" => s.elts[e].id = NoId
  /\ s.unfinished_par # 0 => s.unfinished_par \in DOMAIN s.elts /\ s.elts[s.unfinished_par].name = "p"

\* What may lie on what.
Fits(f, below) ==
  /\ f # "document"
  /\ f = "p" => below \notin {"p", "head", "hbox"}
  /\ f = "head" => below \in {"div0", "div1"}
  /\ f = "item" => below = "list"
  /\ f = "div0" => below = "document"
  /\ f = "div1" => below \in {"document", "div0"}

\* There is a paragraph in h-mode; titles and boxes have no paragraphs.
ModeFits(mode, frame) ==
  /\ mode = "h" <=> frame = "p"
  /\ frame \in {"head", "hbox"} => mode = "arg"

\* The frames have the names of their elements, and fit the modes.
Named(s) ==
  \A i \in DOMAIN s.frames :
    /\ s.frames[i].elt \in DOMAIN s.elts
    /\ s.elts[s.frames[i].elt].name = NameOf(s.frames[i].frame)
    /\ ModeFits(ModeAt(s, i + 1), s.frames[i].frame)

\* The elements are in the order of their creation.
Ordered(s) == \A i, j \in DOMAIN s.frames : i < j => s.frames[i].elt < s.frames[j].elt

\* The last son.
LastSon(s, e) == Last(s.elts[e].sons)
HasSons(s, e) == s.elts[e].sons # <<>>

\* A paragraph is the last son of the element below it.
Fitted(s) ==
  \A i \in DOMAIN s.frames : i > 1 =>
    /\ Fits(s.frames[i].frame, s.frames[i - 1].frame)
    /\ s.frames[i].frame = "p" => HasSons(s, s.frames[i - 1].elt) /\ LastSon(s, s.frames[i - 1].elt) = s.frames[i].elt

\* The frames of the XML stack.
Stacked(s) ==
  /\ s.frames # <<>> /\ s.frames[1].frame = "document"
  /\ Named(s) /\ Ordered(s) /\ Fitted(s)

\* Every element on the stack has its last anchor as the current one above it, and the
\* current anchor of the element below otherwise.
Scoped(s) ==
  /\ s.frames[1].uid = <<"uid", 1>>
  /\ \A i \in DOMAIN s.frames :
       LET e == s.frames[i].elt
       IN UidAt(s, i + 1) = IF Anchored(s, e) THEN LastAnchor(s, e) ELSE UidAt(s, i)

\* The invariant of the tree and the stack.
Good(s) == s \in State /\ Tree(s) /\ Stacked(s) /\ Scoped(s)

-----------------------------------------------------------------------------
\* What the elementary operations do.

\* The fields that an operation on the tree leaves alone.
SameStack(s, r) ==
  /\ r.frames = s.frames /\ r.mode = s.mode /\ r.cur_lid = s.cur_lid
  /\ r.unfinished_par = s.unfinished_par
  /\ r.last_label_id = s.last_label_id /\ r.last_top_label_id = s.last_top_label_id /\ r.anchor_id = s.anchor_id

\* What an operation on the stack leaves alone.
SameTree(s, r) ==
  /\ r.elts = s.elts /\ r.last_label_id = s.last_label_id
  /\ r.last_top_label_id = s.last_top_label_id /\ r.anchor_id = s.anchor_id

\* The parts of the tree and the stack have their types.
LEMMA StateParts ==
  ASSUME NEW s \in State
  PROVE  /\ s.elts \in Seq(Elt) /\ s.frames \in Seq(FrameType) /\ s.mode \in Modes /\ s.cur_lid \in Ids
         /\ s.unfinished_par \in Nat /\ s.last_label_id \in Nat /\ s.last_top_label_id \in Nat /\ s.anchor_id \in Nat
         /\ Len(s.elts) \in Nat /\ DOMAIN s.elts = 1..Len(s.elts)
         /\ Len(s.frames) \in Nat /\ DOMAIN s.frames = 1..Len(s.frames)
         /\ \A e \in DOMAIN s.elts : /\ s.elts[e] \in Elt /\ s.elts[e].name \in ElementNames /\ s.elts[e].id \in Ids
                                     /\ s.elts[e].text \in Seq(Nat) /\ s.elts[e].sons \in Seq(Int)
         /\ \A i \in DOMAIN s.frames : /\ s.frames[i] \in FrameType /\ s.frames[i].frame \in FrameNames
                                       /\ s.frames[i].elt \in Nat /\ s.frames[i].md \in Modes /\ s.frames[i].uid \in Ids
<1>1. /\ s.elts \in Seq(Elt) /\ s.frames \in Seq(FrameType) /\ s.mode \in Modes /\ s.cur_lid \in Ids
      /\ s.unfinished_par \in Nat /\ s.last_label_id \in Nat /\ s.last_top_label_id \in Nat /\ s.anchor_id \in Nat
  BY DEF State
<1>2. /\ Len(s.elts) \in Nat /\ DOMAIN s.elts = 1..Len(s.elts)
      /\ Len(s.frames) \in Nat /\ DOMAIN s.frames = 1..Len(s.frames)
  BY <1>1, LenProperties
<1>3. \A e \in DOMAIN s.elts : s.elts[e] \in Elt
  BY <1>1, <1>2, ElementOfSeq
<1>4. \A i \in DOMAIN s.frames : s.frames[i] \in FrameType
  BY <1>1, <1>2, ElementOfSeq
<1>. QED
  BY <1>1, <1>2, <1>3, <1>4 DEF Elt, FrameType

\* A new element has no sons.
LEMMA NewEffect ==
  ASSUME NEW s \in State, NEW name \in ElementNames
  PROVE  LET r == New(s, name) IN
         /\ r \in State /\ SameStack(s, r)
         /\ Len(r.elts) = Len(s.elts) + 1
         /\ \A e \in 1..Len(s.elts) : r.elts[e] = s.elts[e]
         /\ r.elts[Len(s.elts) + 1] = Element(name)
<1>. DEFINE r == New(s, name)
<1>0. <<>> \in Seq(Nat) /\ <<>> \in Seq(Int) /\ NoId \in Ids
  BY EmptySeq DEF Ids, NoId
<1>1. s.elts \in Seq(Elt) /\ Element(name) \in Elt
  BY <1>0, StateParts DEF Element, Elt
<1>2. /\ Append(s.elts, Element(name)) \in Seq(Elt)
      /\ Len(Append(s.elts, Element(name))) = Len(s.elts) + 1
      /\ \A e \in 1..Len(s.elts) : Append(s.elts, Element(name))[e] = s.elts[e]
      /\ Append(s.elts, Element(name))[Len(s.elts) + 1] = Element(name)
  BY <1>1, PushedAt
<1>3. r.elts = Append(s.elts, Element(name)) /\ SameStack(s, r)
  BY DEF New, State, SameStack
<1>4. r \in State
  BY <1>2 DEF New, State
<1>. HIDE DEF r
<1>5. /\ r \in State /\ SameStack(s, r)
      /\ Len(r.elts) = Len(s.elts) + 1
      /\ \A e \in 1..Len(s.elts) : r.elts[e] = s.elts[e]
      /\ r.elts[Len(s.elts) + 1] = Element(name)
  BY <1>2, <1>3, <1>4
<1>. QED
  BY <1>5 DEF r

\* The same elements with the same attributes; the sons of e are others.
OtherSons(s, r, e, sons) ==
  /\ Len(r.elts) = Len(s.elts)
  /\ \A d \in 1..Len(s.elts) : d # e => r.elts[d] = s.elts[d]
  /\ r.elts[e].name = s.elts[e].name /\ r.elts[e].id = s.elts[e].id /\ r.elts[e].text = s.elts[e].text
  /\ r.elts[e].sons = sons

\* add_last gives a son to the element on the top of the stack, and changes no other.
LEMMA AddLastEffect ==
  ASSUME NEW s \in State, top_stack(s) \in DOMAIN s.elts, NEW son \in Int
  PROVE  LET r == add_last(s, son) IN
         r \in State /\ SameStack(s, r) /\ OtherSons(s, r, top_stack(s), Append(Sons(s, top_stack(s)), son))
<1>. DEFINE t == top_stack(s)
            es == [s.elts EXCEPT ![t].sons = Append(@, son)]
            r == add_last(s, son)
<1>. HIDE DEF t
<1>1. t \in DOMAIN s.elts
  BY DEF t
<1>2. /\ Len(s.elts) \in Nat /\ DOMAIN s.elts = 1..Len(s.elts) /\ s.elts \in Seq(Elt)
      /\ s.elts[t] \in Elt /\ s.elts[t].sons \in Seq(Int)
  BY <1>1, StateParts
<1>3. Append(s.elts[t].sons, son) \in Seq(Int)
  BY <1>2, PushedAt
<1>4. es \in Seq(Elt) /\ Len(es) = Len(s.elts)
  <2>1. [s.elts[t] EXCEPT !.sons = Append(@, son)] \in Elt
    BY <1>2, <1>3 DEF Elt
  <2>. QED
    BY <1>1, <1>2, <2>1, ExceptSeq
<1>5. r.elts = es /\ SameStack(s, r) /\ r = [s EXCEPT !.elts = es]
  BY DEF add_last, t, State, SameStack
<1>6. r \in State
  BY <1>4, <1>5 DEF State
<1>7. OtherSons(s, r, t, Append(Sons(s, t), son))
  BY <1>1, <1>2, <1>4, <1>5 DEF OtherSons, Sons, Elt
<1>. QED
  BY <1>5, <1>6, <1>7 DEF t

\* pop_back takes away the last son of the element on the top of the stack.
LEMMA PopBackEffect ==
  ASSUME NEW s \in State, top_stack(s) \in DOMAIN s.elts, Sons(s, top_stack(s)) # <<>>
  PROVE  LET r == pop_back(s) IN
         r \in State /\ SameStack(s, r) /\ OtherSons(s, r, top_stack(s), Front(Sons(s, top_stack(s))))
<1>. DEFINE t == top_stack(s)
            es == [s.elts EXCEPT ![t].sons = Front(@)]
            r == pop_back(s)
<1>. HIDE DEF t
<1>1. t \in DOMAIN s.elts
  BY DEF t
<1>2. /\ Len(s.elts) \in Nat /\ DOMAIN s.elts = 1..Len(s.elts) /\ s.elts \in Seq(Elt)
      /\ s.elts[t] \in Elt /\ s.elts[t].sons \in Seq(Int)
  BY <1>1, StateParts
<1>3. Front(s.elts[t].sons) \in Seq(Int)
  <2>1. s.elts[t].sons # <<>>
    BY DEF Sons, t
  <2>. QED
    BY <1>2, <2>1, PoppedAt
<1>4. es \in Seq(Elt) /\ Len(es) = Len(s.elts)
  <2>1. [s.elts[t] EXCEPT !.sons = Front(@)] \in Elt
    BY <1>2, <1>3 DEF Elt
  <2>. QED
    BY <1>1, <1>2, <2>1, ExceptSeq
<1>5. r.elts = es /\ SameStack(s, r) /\ r = [s EXCEPT !.elts = es]
  BY DEF pop_back, t, State, SameStack
<1>6. r \in State
  BY <1>4, <1>5 DEF State
<1>7. OtherSons(s, r, t, Front(Sons(s, t)))
  BY <1>1, <1>2, <1>4, <1>5 DEF OtherSons, Sons, Elt
<1>. QED
  BY <1>5, <1>6, <1>7 DEF t

\* A frame with what the stack saves.
FrameFor(s, frame, e) == [frame |-> frame, elt |-> e, md |-> s.mode, uid |-> s.cur_lid]

\* ipush saves the mode and the current anchor in a frame, and changes neither.
LEMMA IpushEffect ==
  ASSUME NEW s \in State, NEW frame \in FrameNames, NEW e \in Nat
  PROVE  LET r == ipush(s, frame, e) IN
         /\ r \in State /\ SameTree(s, r) /\ r.mode = s.mode /\ r.cur_lid = s.cur_lid
         /\ r.unfinished_par = s.unfinished_par
         /\ FrameFor(s, frame, e) \in FrameType
         /\ r.frames = Append(s.frames, FrameFor(s, frame, e))
<1>. DEFINE r == ipush(s, frame, e)
            f == FrameFor(s, frame, e)
<1>1. f \in FrameType /\ s.frames \in Seq(FrameType)
  BY StateParts DEF FrameFor, FrameType
<1>2. Append(s.frames, f) \in Seq(FrameType)
  BY <1>1, PushedAt
<1>3. r = [s EXCEPT !.frames = Append(@, f)]
  BY DEF ipush, FrameFor
<1>. HIDE DEF f
<1>4. r \in State /\ r.frames = Append(s.frames, f)
  BY <1>2, <1>3 DEF State
<1>5. SameTree(s, r) /\ r.mode = s.mode /\ r.cur_lid = s.cur_lid /\ r.unfinished_par = s.unfinished_par
  BY <1>3 DEF State, SameTree
<1>. QED
  BY <1>1, <1>4, <1>5 DEF f

\* pop restores the mode and the current anchor of the frame that goes.
LEMMA PopEffect ==
  ASSUME NEW s \in State, s.frames # <<>>
  PROVE  LET r == pop(s) IN
         /\ r \in State /\ SameTree(s, r) /\ r.unfinished_par = s.unfinished_par
         /\ r.frames = Front(s.frames) /\ r.mode = Last(s.frames).md /\ r.cur_lid = Last(s.frames).uid
<1>. DEFINE r == pop(s)
<1>1. Front(s.frames) \in Seq(FrameType) /\ Last(s.frames) \in FrameType
  BY StateParts, PoppedAt
<1>2. Last(s.frames).md \in Modes /\ Last(s.frames).uid \in Ids
  BY <1>1 DEF FrameType
<1>. QED
  BY <1>1, <1>2 DEF pop, State, SameTree

-----------------------------------------------------------------------------
\* The invariant of the tree and the stack.

\* Elements keep their names, their ids and their texts; there may be more.
Keeps(s, r) ==
  /\ Len(s.elts) <= Len(r.elts)
  /\ \A e \in 1..Len(s.elts) :
       r.elts[e].name = s.elts[e].name /\ r.elts[e].id = s.elts[e].id /\ r.elts[e].text = s.elts[e].text

\* What it means that elements are kept.
LEMMA KeptElements ==
  ASSUME NEW s \in State, NEW r \in State, Keeps(s, r)
  PROVE  /\ Len(s.elts) \in Nat /\ DOMAIN s.elts = 1..Len(s.elts) /\ Len(r.elts) \in Nat /\ DOMAIN r.elts = 1..Len(r.elts)
         /\ Len(s.elts) <= Len(r.elts)
         /\ \A e \in DOMAIN s.elts : e \in DOMAIN r.elts /\ r.elts[e].name = s.elts[e].name /\ r.elts[e].id = s.elts[e].id
                                      /\ r.elts[e].text = s.elts[e].text
<1>1. /\ Len(s.elts) \in Nat /\ DOMAIN s.elts = 1..Len(s.elts) /\ Len(r.elts) \in Nat /\ DOMAIN r.elts = 1..Len(r.elts)
  BY StateParts
<1>2. \A e \in 1..Len(s.elts) : e \in 1..Len(r.elts)
  BY <1>1 DEF Keeps
<1>. QED
  BY <1>1, <1>2 DEF Keeps

\* The sons of e that are anchors are at the same places.
SameAnchors(s, r, e) ==
  LET a == s.elts[e].sons
      b == r.elts[e].sons
  IN \/ b = a
     \/ \E son \in DOMAIN r.elts \cup {Text, Newline} : b = Append(a, son) /\ ~is_anchor(r, son)
     \/ a # <<>> /\ b = Front(a) /\ ~is_anchor(s, Last(a))

\* An element whose anchors are the same has the same last anchor.
LEMMA AnchorsKept ==
  ASSUME NEW s, Good(s), NEW r \in State, Keeps(s, r), NEW e \in DOMAIN s.elts, SameAnchors(s, r, e)
  PROVE  (Anchored(r, e) <=> Anchored(s, e)) /\ LastAnchor(r, e) = LastAnchor(s, e)
<1>. DEFINE a == s.elts[e].sons
            b == r.elts[e].sons
            A == AnchorSons(s, e)
<1>1. /\ s \in State /\ a \in Seq(Int) /\ b \in Seq(Int)
      /\ Len(s.elts) \in Nat /\ DOMAIN s.elts = 1..Len(s.elts)
      /\ Len(r.elts) \in Nat /\ DOMAIN r.elts = 1..Len(r.elts)
      /\ e \in DOMAIN r.elts
      /\ Len(a) \in Nat /\ DOMAIN a = 1..Len(a) /\ DOMAIN b = 1..Len(b)
  <2>1. s \in State
    BY DEF Good
  <2>2. /\ Len(s.elts) \in Nat /\ DOMAIN s.elts = 1..Len(s.elts)
        /\ Len(r.elts) \in Nat /\ DOMAIN r.elts = 1..Len(r.elts)
    BY <2>1, StateParts
  <2>3. e \in DOMAIN r.elts
    BY <2>2 DEF Keeps
  <2>4. a \in Seq(Int) /\ b \in Seq(Int)
    BY <2>1, <2>3, StateParts
  <2>. QED
    BY <2>1, <2>2, <2>3, <2>4, LenProperties
<1>2. \A k \in DOMAIN a : a[k] \in DOMAIN s.elts \cup {Text, Newline}
  BY DEF Good, Tree
<1>3. \A son \in DOMAIN s.elts \cup {Text, Newline} :
         (is_anchor(r, son) <=> is_anchor(s, son)) /\ (is_anchor(s, son) => r.elts[son].id = s.elts[son].id)
  BY <1>1 DEF is_anchor, Keeps, Text, Newline
<1>4. AnchorSons(s, e) = { k \in DOMAIN a : is_anchor(s, a[k]) } /\ AnchorSons(r, e) = { k \in DOMAIN b : is_anchor(r, b[k]) }
  BY DEF AnchorSons, Sons
<1>5. AnchorSons(r, e) = A /\ \A k \in A : k \in DOMAIN b /\ b[k] = a[k]
  <2>1. CASE b = a
    BY <1>2, <1>3, <1>4, <2>1
  <2>2. ASSUME NEW son \in DOMAIN r.elts \cup {Text, Newline}, b = Append(a, son), ~is_anchor(r, son)
        PROVE  AnchorSons(r, e) = A /\ \A k \in A : k \in DOMAIN b /\ b[k] = a[k]
    <3>1. son \in Int
      BY <1>1 DEF Text, Newline
    <3>2. DOMAIN b = 1..(Len(a) + 1) /\ b[Len(a) + 1] = son /\ \A k \in 1..Len(a) : b[k] = a[k]
      BY <1>1, <2>2, <3>1, PushedAt
    <3>. HIDE DEF a, b
    <3>3. \A k \in DOMAIN b : is_anchor(r, b[k]) => k \in DOMAIN a
      BY <1>1, <2>2, <3>2
    <3>. QED
      BY <1>1, <1>2, <1>3, <1>4, <3>2, <3>3
  <2>3. CASE a # <<>> /\ b = Front(a) /\ ~is_anchor(s, Last(a))
    <3>1. Len(a) \in Nat \ {0} /\ DOMAIN b = 1..(Len(a) - 1) /\ Last(a) = a[Len(a)] /\ \A k \in 1..(Len(a) - 1) : b[k] = a[k]
      BY <1>1, <2>3, PoppedAt
    <3>. HIDE DEF a, b
    <3>2. \A k \in DOMAIN a : is_anchor(s, a[k]) => k \in DOMAIN b
      BY <1>1, <2>3, <3>1
    <3>3. \A k \in DOMAIN b : k \in DOMAIN a
      BY <1>1, <3>1
    <3>. QED
      BY <1>1, <1>2, <1>3, <1>4, <3>1, <3>2, <3>3
  <2>. QED
    BY <2>1, <2>2, <2>3 DEF SameAnchors
<1>6. r.elts[e].id = s.elts[e].id
  BY <1>1 DEF Keeps
<1>7. A # {} => r.elts[b[Max(A)]].id = s.elts[a[Max(A)]].id
  <2>. SUFFICES ASSUME A # {} PROVE r.elts[b[Max(A)]].id = s.elts[a[Max(A)]].id
    OBVIOUS
  <2>1. A \in SUBSET (1..Len(a))
    BY <1>1, <1>4
  <2>2. Max(A) \in A
    <3>. HIDE DEF A, a
    <3>. QED
      BY <1>1, <2>1, GreatestPosition
  <2>. DEFINE m == Max(A)
  <2>. HIDE DEF m
  <2>3. m \in DOMAIN a /\ is_anchor(s, a[m]) /\ b[m] = a[m]
    BY <1>4, <1>5, <2>2 DEF m
  <2>4. r.elts[a[m]].id = s.elts[a[m]].id
    BY <1>2, <1>3, <2>3
  <2>. QED
    BY <2>3, <2>4 DEF m
<1>. QED
  BY <1>5, <1>6, <1>7 DEF Anchored, LastAnchor, Sons

\* The elements that have a number when they have a text.
WithNumber == {"div0", "div1", "footnote", "item"}

\* The items with a number in the list e.
ItemsOf(s, e) ==
  { f \in DOMAIN s.elts : s.elts[f].name = "item" /\ s.elts[f].text # <<>>
                          /\ \E k \in DOMAIN s.elts[e].sons : s.elts[e].sons[k] = f }

\* Nothing that is numbered is added or goes away.
Counts(s, r) ==
  /\ Keeps(s, r)
  /\ \A e \in 1..Len(s.elts) : ItemsOf(r, e) = ItemsOf(s, e)
  /\ \A e \in 1..Len(r.elts) : e > Len(s.elts) =>
       ItemsOf(r, e) = {} /\ (r.elts[e].name \in WithNumber => r.elts[e].text = <<>>)

\* The new elements are not made by \anchor.
NoNewAnchors(s, r) == \A e \in 1..Len(r.elts) : e > Len(s.elts) => r.elts[e].name # "anchor"

\* Elements are kept, and no anchors are added.
Steady(s, r) == Counts(s, r) /\ NoNewAnchors(s, r)

\* A son that element e may get; one that may be taken from it.
MayAdd(r, e, son) ==
  /\ son \in DOMAIN r.elts \cup {Text, Newline}
  /\ son > 0 => /\ r.elts[son].name # "anchor"
                /\ r.elts[son].name = "p" => e < son
                /\ r.elts[son].name = "item" => r.elts[e].name = "list" /\ r.elts[son].text = <<>>
\* The sons that may be taken away.
MayTake(s, son) == son > 0 => s.elts[son].name \notin {"anchor", "item"}

\* Elements are added, and a son to the top of the stack or taken from it.
Grown(s, r) ==
  /\ r \in State /\ r.frames = s.frames /\ r.mode = s.mode /\ r.cur_lid = s.cur_lid
  /\ r.unfinished_par \in {0, s.unfinished_par}
  /\ Keeps(s, r)
  /\ \A e \in 1..Len(s.elts) : e # top_stack(s) => r.elts[e].sons = s.elts[e].sons
  /\ \A e \in 1..Len(r.elts) : e > Len(s.elts) =>
       /\ r.elts[e].id = NoId /\ r.elts[e].sons = <<>> /\ r.elts[e].name # "anchor"
       /\ r.elts[e].name \in WithNumber => r.elts[e].text = <<>>
  /\ LET e == top_stack(s)
         a == s.elts[e].sons
         b == r.elts[e].sons
     IN b = a \/ (\E son \in Int : b = Append(a, son) /\ MayAdd(r, e, son))
              \/ (a # <<>> /\ b = Front(a) /\ MayTake(s, Last(a)))

\* The top of the stack, and its frame.
LEMMA TopOf ==
  ASSUME NEW s, s \in State, Stacked(s)
  PROVE  /\ s.frames # <<>> /\ Len(s.frames) \in Nat \ {0} /\ Len(s.frames) \in DOMAIN s.frames
         /\ Last(s.frames) = s.frames[Len(s.frames)]
         /\ top_stack(s) = s.frames[Len(s.frames)].elt /\ top_stack(s) \in DOMAIN s.elts
         /\ \A i \in DOMAIN s.frames : i # Len(s.frames) => s.frames[i].elt # top_stack(s) /\ s.frames[i].elt < top_stack(s)
<1>1. /\ s.frames \in Seq(FrameType) /\ s.frames # <<>>
      /\ Len(s.frames) \in Nat /\ DOMAIN s.frames = 1..Len(s.frames)
      /\ \A i \in DOMAIN s.frames : s.frames[i].elt \in Nat
  BY StateParts DEF Stacked
<1>2. Len(s.frames) # 0
  BY <1>1, EmptySeq
<1>3. Len(s.frames) \in DOMAIN s.frames
  BY <1>1, <1>2
<1>4. Last(s.frames) = s.frames[Len(s.frames)]
  BY DEF Last
<1>5. \A i \in DOMAIN s.frames : i # Len(s.frames) => s.frames[i].elt < s.frames[Len(s.frames)].elt
  BY <1>1, <1>3 DEF Stacked, Ordered
<1>. QED
  BY <1>1, <1>2, <1>3, <1>4, <1>5 DEF top_stack, Stacked, Named

\* What the sons of an element are after it has grown.
LEMMA GrownSons ==
  ASSUME NEW s, Good(s), NEW r, Grown(s, r), NEW e \in 1..Len(r.elts), NEW k \in DOMAIN r.elts[e].sons
  PROVE  \/ e \in 1..Len(s.elts) /\ k \in DOMAIN s.elts[e].sons /\ r.elts[e].sons[k] = s.elts[e].sons[k]
         \/ e = top_stack(s) /\ MayAdd(r, e, r.elts[e].sons[k])
<1>. DEFINE t == top_stack(s)
            a == s.elts[t].sons
            b == r.elts[t].sons
<1>1. /\ s \in State /\ r \in State /\ Stacked(s)
      /\ Len(s.elts) \in Nat /\ DOMAIN s.elts = 1..Len(s.elts) /\ Len(r.elts) \in Nat
      /\ t \in 1..Len(s.elts) /\ a \in Seq(Int)
  BY StateParts, TopOf DEF Good, Grown
<1>2. CASE e > Len(s.elts)
  <2>1. r.elts[e].sons = <<>>
    BY <1>2 DEF Grown
  <2>2. DOMAIN <<>> = {}
    OBVIOUS
  <2>. QED
    BY <2>1, <2>2
<1>3. CASE e \in 1..Len(s.elts) /\ e # t
  BY <1>3 DEF Grown
<1>4. CASE e = t
  <2>1. CASE b = a
    BY <1>1, <1>4, <2>1
  <2>2. ASSUME NEW son \in Int, b = Append(a, son), MayAdd(r, t, son)
        PROVE  (k \in DOMAIN a /\ b[k] = a[k]) \/ MayAdd(r, t, b[k])
    <3>1. /\ Len(a) \in Nat /\ DOMAIN a = 1..Len(a)
          /\ DOMAIN b = 1..(Len(a) + 1) /\ b[Len(a) + 1] = son /\ \A i \in 1..Len(a) : b[i] = a[i]
      BY <1>1, <2>2, PushedAt
    <3>2. k \in DOMAIN b
      BY <1>4
    <3>. HIDE DEF a, b
    <3>. QED
      BY <2>2, <3>1, <3>2
  <2>3. CASE a # <<>> /\ b = Front(a) /\ MayTake(s, Last(a))
    <3>1. Len(a) \in Nat \ {0} /\ DOMAIN a = 1..Len(a) /\ DOMAIN b = 1..(Len(a) - 1) /\ \A i \in 1..(Len(a) - 1) : b[i] = a[i]
      BY <1>1, <2>3, PoppedAt
    <3>2. k \in DOMAIN b
      BY <1>4
    <3>. HIDE DEF a, b
    <3>3. k \in DOMAIN a /\ b[k] = a[k]
      BY <3>1, <3>2
    <3>. QED
      BY <1>1, <1>4, <3>3 DEF a, b
  <2>. QED
    BY <1>1, <1>4, <2>1, <2>2, <2>3 DEF Grown
<1>. QED
  BY <1>1, <1>2, <1>3, <1>4

\* A tree that grows stays a tree.
LEMMA GrownTree ==
  ASSUME NEW s, Good(s), NEW r, Grown(s, r)
  PROVE  Tree(r)
<1>1. /\ s \in State /\ r \in State /\ Tree(s)
      /\ Len(s.elts) \in Nat /\ DOMAIN s.elts = 1..Len(s.elts) /\ Len(r.elts) \in Nat /\ DOMAIN r.elts = 1..Len(r.elts)
      /\ \A e \in DOMAIN s.elts : e \in DOMAIN r.elts /\ r.elts[e].name = s.elts[e].name /\ r.elts[e].id = s.elts[e].id
  <2>1. s \in State /\ r \in State /\ Tree(s) /\ Keeps(s, r)
    BY DEF Good, Grown
  <2>. QED
    BY <2>1, KeptElements
<1>2. ASSUME NEW e \in DOMAIN r.elts, NEW k \in DOMAIN r.elts[e].sons, NEW son, son = r.elts[e].sons[k]
      PROVE  /\ son \in DOMAIN r.elts \cup {Text, Newline}
             /\ son > 0 /\ r.elts[son].name = "p" => e < son
             /\ son > 0 /\ r.elts[son].name = "item" => r.elts[e].name = "list"
  <2>1. \/ e \in 1..Len(s.elts) /\ k \in DOMAIN s.elts[e].sons /\ son = s.elts[e].sons[k]
        \/ MayAdd(r, e, son)
    BY <1>1, <1>2, GrownSons
  <2>2. CASE e \in 1..Len(s.elts) /\ k \in DOMAIN s.elts[e].sons /\ son = s.elts[e].sons[k]
    <3>1. /\ son \in DOMAIN s.elts \cup {Text, Newline}
          /\ son > 0 /\ s.elts[son].name = "p" => e < son
          /\ son > 0 /\ s.elts[son].name = "item" => s.elts[e].name = "list"
      BY <1>1, <2>2 DEF Tree
    <3>. QED
      BY <1>1, <2>2, <3>1 DEF Text, Newline
  <2>3. CASE MayAdd(r, e, son)
    BY <2>3 DEF MayAdd
  <2>. QED
    BY <2>1, <2>2, <2>3
<1>3. \A e \in DOMAIN r.elts : r.elts[e].name = "p" => r.elts[e].id = NoId
  <2>. TAKE e \in DOMAIN r.elts
  <2>1. CASE e \in DOMAIN s.elts
    BY <1>1, <2>1 DEF Tree
  <2>2. CASE e \notin DOMAIN s.elts
    <3>1. e > Len(s.elts)
      BY <1>1, <2>2
    <3>. QED
      BY <1>1, <3>1 DEF Grown
  <2>. QED
    BY <2>1, <2>2
<1>4. r.unfinished_par # 0 => r.unfinished_par \in DOMAIN r.elts /\ r.elts[r.unfinished_par].name = "p"
  BY <1>1 DEF Tree, Grown
<1>. QED
  BY <1>2, <1>3, <1>4 DEF Tree

\* What has grown is still in order, and nothing that is numbered has changed.
LEMMA GrownGood ==
  ASSUME NEW s, Good(s), NEW r, Grown(s, r)
  PROVE  Good(r) /\ Steady(s, r)
<1>. DEFINE t == top_stack(s)
            m == Len(s.frames)
<1>1. /\ s \in State /\ r \in State /\ Tree(s) /\ Stacked(s) /\ Scoped(s) /\ Keeps(s, r)
      /\ r.frames = s.frames /\ r.mode = s.mode /\ r.cur_lid = s.cur_lid
      /\ Len(s.elts) \in Nat /\ DOMAIN s.elts = 1..Len(s.elts) /\ Len(r.elts) \in Nat /\ DOMAIN r.elts = 1..Len(r.elts)
      /\ \A e \in DOMAIN s.elts : e \in DOMAIN r.elts /\ r.elts[e].name = s.elts[e].name /\ r.elts[e].id = s.elts[e].id
                                   /\ r.elts[e].text = s.elts[e].text
      /\ m \in Nat /\ DOMAIN s.frames = 1..m
  <2>1. /\ s \in State /\ r \in State /\ Tree(s) /\ Stacked(s) /\ Scoped(s) /\ Keeps(s, r)
        /\ r.frames = s.frames /\ r.mode = s.mode /\ r.cur_lid = s.cur_lid
    BY DEF Good, Grown
  <2>2. m \in Nat /\ DOMAIN s.frames = 1..m
    BY <2>1, StateParts
  <2>. QED
    BY <2>1, <2>2, KeptElements
<1>2. /\ m \in DOMAIN s.frames /\ t = s.frames[m].elt /\ t \in DOMAIN s.elts
      /\ \A i \in DOMAIN s.frames : i # m => s.frames[i].elt # t
  BY <1>1, TopOf
<1>3. \A e \in DOMAIN s.elts : e # t => r.elts[e].sons = s.elts[e].sons
  BY <1>1 DEF Grown
<1>4. Stacked(r)
  <2>1. \A i : ModeAt(r, i) = ModeAt(s, i)
    BY <1>1 DEF ModeAt
  <2>. HIDE DEF m, t
  <2>2. Named(r)
    BY <1>1, <2>1 DEF Stacked, Named
  <2>3. Ordered(r)
    BY <1>1 DEF Stacked, Ordered
  <2>4. Fitted(r)
    <3>. SUFFICES ASSUME NEW i \in DOMAIN s.frames, i > 1
                  PROVE  /\ Fits(s.frames[i].frame, s.frames[i - 1].frame)
                         /\ s.frames[i].frame = "p" =>
                              /\ HasSons(r, s.frames[i - 1].elt)
                              /\ LastSon(r, s.frames[i - 1].elt) = s.frames[i].elt
      BY <1>1 DEF Fitted
    <3>1. i - 1 \in DOMAIN s.frames /\ i - 1 # m
      BY <1>1
    <3>2. r.elts[s.frames[i - 1].elt].sons = s.elts[s.frames[i - 1].elt].sons
      BY <1>1, <1>2, <1>3, <3>1 DEF Stacked, Named
    <3>. QED
      BY <1>1, <3>2 DEF Stacked, Fitted, HasSons, LastSon
  <2>. QED
    BY <1>1, <2>2, <2>3, <2>4 DEF Stacked
<1>5. \A e \in DOMAIN s.elts : SameAnchors(s, r, e)
  <2>1. \A e \in DOMAIN s.elts : e # t => SameAnchors(s, r, e)
    BY <1>3 DEF SameAnchors
  <2>2. SameAnchors(s, r, t)
    <3>1. \A son : MayAdd(r, t, son) => son \in DOMAIN r.elts \cup {Text, Newline} /\ ~is_anchor(r, son)
      BY DEF MayAdd, is_anchor
    <3>2. \A son : MayTake(s, son) => ~is_anchor(s, son)
      BY DEF MayTake, is_anchor
    <3>. QED
      BY <3>1, <3>2 DEF Grown, SameAnchors
  <2>. QED
    BY <2>1, <2>2
<1>6. Scoped(r)
  <2>1. \A i : UidAt(r, i) = UidAt(s, i)
    BY <1>1 DEF UidAt
  <2>2. \A e \in DOMAIN s.elts : (Anchored(r, e) <=> Anchored(s, e)) /\ LastAnchor(r, e) = LastAnchor(s, e)
    BY <1>1, <1>5, AnchorsKept
  <2>3. \A i \in DOMAIN s.frames : s.frames[i].elt \in DOMAIN s.elts
    BY <1>1 DEF Stacked, Named
  <2>. HIDE DEF m, t
  <2>. QED
    BY <1>1, <2>1, <2>2, <2>3 DEF Scoped
<1>7. Good(r)
  BY <1>1, <1>4, <1>6, GrownTree DEF Good
<1>8. ASSUME NEW e \in DOMAIN s.elts PROVE ItemsOf(r, e) = ItemsOf(s, e)
  <2>1. ASSUME NEW f \in ItemsOf(r, e) PROVE f \in ItemsOf(s, e)
    <3>1. f \in DOMAIN r.elts /\ r.elts[f].name = "item" /\ r.elts[f].text # <<>>
      BY <2>1 DEF ItemsOf
    <3>2. PICK k \in DOMAIN r.elts[e].sons : r.elts[e].sons[k] = f
      BY <2>1 DEF ItemsOf
    <3>3. ~MayAdd(r, e, f)
      BY <1>1, <3>1 DEF MayAdd
    <3>4. k \in DOMAIN s.elts[e].sons /\ s.elts[e].sons[k] = f
      BY <1>1, <3>2, <3>3, GrownSons
    <3>5. f \in DOMAIN s.elts
      BY <1>1, <3>1 DEF Grown, WithNumber
    <3>. QED
      BY <1>1, <3>1, <3>4, <3>5 DEF ItemsOf
  <2>2. ASSUME NEW f \in ItemsOf(s, e) PROVE f \in ItemsOf(r, e)
    <3>1. f \in DOMAIN s.elts /\ s.elts[f].name = "item" /\ s.elts[f].text # <<>>
      BY <2>2 DEF ItemsOf
    <3>. DEFINE a == s.elts[e].sons
                b == r.elts[e].sons
    <3>2. PICK k \in DOMAIN a : a[k] = f
      BY <2>2 DEF ItemsOf
    <3>3. a \in Seq(Int) /\ DOMAIN a = 1..Len(a) /\ Len(a) \in Nat
      BY <1>1, StateParts, LenProperties
    <3>4. k \in DOMAIN b /\ b[k] = a[k]
      <4>1. CASE e # t
        BY <1>3, <4>1
      <4>2. ASSUME NEW son \in Int, b = Append(a, son) PROVE k \in DOMAIN b /\ b[k] = a[k]
        BY <3>3, <4>2, PushedAt
      <4>3. CASE e = t /\ a # <<>> /\ b = Front(a) /\ MayTake(s, Last(a))
        <5>1. Last(a) # f
          BY <1>1, <3>1, <4>3 DEF MayTake
        <5>2. DOMAIN b = 1..(Len(a) - 1) /\ Last(a) = a[Len(a)] /\ \A i \in 1..(Len(a) - 1) : b[i] = a[i]
          <6>. HIDE DEF a, b
          <6>. QED
            BY <3>3, <4>3, PoppedAt
        <5>. HIDE DEF a, b
        <5>3. k # Len(a)
          BY <3>2, <5>1, <5>2
        <5>. QED
          BY <3>3, <5>2, <5>3
      <4>. QED
        BY <4>1, <4>2, <4>3 DEF Grown
    <3>5. f \in DOMAIN r.elts /\ r.elts[f].name = "item" /\ r.elts[f].text # <<>>
      BY <1>1, <3>1
    <3>. QED
      BY <3>2, <3>4, <3>5 DEF ItemsOf
  <2>. QED
    BY <2>1, <2>2
<1>9. ASSUME NEW e \in 1..Len(r.elts), e > Len(s.elts)
      PROVE  ItemsOf(r, e) = {} /\ (r.elts[e].name \in WithNumber => r.elts[e].text = <<>>)
  <2>1. r.elts[e].sons = <<>>
    BY <1>9 DEF Grown
  <2>2. DOMAIN <<>> = {}
    OBVIOUS
  <2>. QED
    BY <1>9, <2>1, <2>2 DEF ItemsOf, Grown
<1>10. Steady(s, r)
  <2>1. Counts(s, r)
    BY <1>1, <1>8, <1>9 DEF Counts
  <2>2. NoNewAnchors(s, r)
    BY DEF NoNewAnchors, Grown
  <2>. QED
    BY <2>1, <2>2 DEF Steady
<1>. QED
  BY <1>7, <1>10

\* The numbers of elements and of anchors grow along several steps.
LEMMA CountsTrans ==
  ASSUME NEW s \in State, NEW r \in State, NEW q \in State, Counts(s, r), Counts(r, q)
  PROVE  Counts(s, q)
<1>1. /\ Len(s.elts) \in Nat /\ Len(r.elts) \in Nat /\ Len(q.elts) \in Nat
      /\ Len(s.elts) <= Len(r.elts) /\ Len(r.elts) <= Len(q.elts)
  BY StateParts DEF Counts, Keeps
<1>2. \A e \in 1..Len(s.elts) : e \in 1..Len(r.elts)
  BY <1>1
<1>3. Keeps(s, q)
  BY <1>1, <1>2 DEF Counts, Keeps
<1>4. \A e \in 1..Len(s.elts) : ItemsOf(q, e) = ItemsOf(s, e)
  BY <1>2 DEF Counts
<1>5. ASSUME NEW e \in 1..Len(q.elts), e > Len(s.elts)
      PROVE  ItemsOf(q, e) = {} /\ (q.elts[e].name \in WithNumber => q.elts[e].text = <<>>)
  <2>1. CASE e > Len(r.elts)
    BY <1>5, <2>1 DEF Counts
  <2>2. CASE e \in 1..Len(r.elts)
    <3>1. ItemsOf(q, e) = ItemsOf(r, e) /\ q.elts[e].name = r.elts[e].name /\ q.elts[e].text = r.elts[e].text
      BY <2>2 DEF Counts, Keeps
    <3>2. ItemsOf(r, e) = {} /\ (r.elts[e].name \in WithNumber => r.elts[e].text = <<>>)
      BY <1>5, <2>2 DEF Counts
    <3>. QED
      BY <3>1, <3>2
  <2>. QED
    BY <1>1, <1>5, <2>1, <2>2
<1>. QED
  BY <1>3, <1>4, <1>5 DEF Counts

\* Elements are kept along several steps.
LEMMA SteadyTrans ==
  ASSUME NEW s \in State, NEW r \in State, NEW q \in State, Steady(s, r), Steady(r, q)
  PROVE  Steady(s, q)
<1>1. Counts(s, q)
  BY CountsTrans DEF Steady
<1>2. NoNewAnchors(s, q)
  <2>. SUFFICES ASSUME NEW e \in 1..Len(q.elts), e > Len(s.elts) PROVE q.elts[e].name # "anchor"
    BY DEF NoNewAnchors
  <2>1. Len(s.elts) \in Nat /\ Len(r.elts) \in Nat /\ Len(q.elts) \in Nat
    BY StateParts
  <2>2. CASE e > Len(r.elts)
    BY <2>2 DEF Steady, NoNewAnchors
  <2>3. CASE e \in 1..Len(r.elts)
    BY <2>3 DEF Steady, Counts, Keeps, NoNewAnchors
  <2>. QED
    BY <2>1, <2>2, <2>3
<1>. QED
  BY <1>1, <1>2 DEF Steady

\* When the elements are the same nothing that is numbered changes.
LEMMA SameEltsSteady ==
  ASSUME NEW s \in State, NEW r \in State, r.elts = s.elts
  PROVE  Steady(s, r)
<1>1. Len(s.elts) \in Nat
  BY StateParts
<1>2. \A e \in 1..Len(r.elts) : ~(e > Len(s.elts))
  BY <1>1
<1>3. \A e : ItemsOf(r, e) = ItemsOf(s, e)
  BY DEF ItemsOf
<1>. QED
  BY <1>1, <1>2, <1>3 DEF Steady, Counts, NoNewAnchors, Keeps

\* A frame is pushed for an element that is newer than those of the stack.
PushedOn(s, r, f, e) ==
  /\ r \in State /\ r.elts = s.elts /\ r.cur_lid = s.cur_lid
  /\ FrameFor(s, f, e) \in FrameType
  /\ r.frames = Append(s.frames, FrameFor(s, f, e))
  /\ r.unfinished_par \in {0, s.unfinished_par}
  /\ ModeFits(r.mode, f)
  /\ e \in DOMAIN s.elts /\ e > top_stack(s)
  /\ s.elts[e].name = NameOf(f) /\ ~Anchored(s, e)
  /\ Fits(f, Last(s.frames).frame)
  /\ f = "p" => HasSons(s, top_stack(s)) /\ LastSon(s, top_stack(s)) = e

\* The invariant holds after an element is pushed.
LEMMA PushedGood ==
  ASSUME NEW s, Good(s), NEW r, NEW f, NEW e, PushedOn(s, r, f, e)
  PROVE  Good(r) /\ Steady(s, r)
<1>. DEFINE m == Len(s.frames)
            n == m + 1
            F == FrameFor(s, f, e)
<1>1. /\ s \in State /\ r \in State /\ Tree(s) /\ Stacked(s) /\ Named(s) /\ Ordered(s) /\ Fitted(s) /\ Scoped(s)
      /\ r.elts = s.elts
  BY DEF Good, PushedOn, Stacked
<1>2. /\ m \in DOMAIN s.frames /\ m \in Nat \ {0} /\ Last(s.frames) = s.frames[m]
      /\ top_stack(s) = s.frames[m].elt /\ top_stack(s) \in DOMAIN s.elts
      /\ \A i \in DOMAIN s.frames : i # m => s.frames[i].elt < top_stack(s)
  BY <1>1, TopOf
<1>3. /\ s.frames \in Seq(FrameType) /\ DOMAIN s.frames = 1..m /\ DOMAIN s.elts = 1..Len(s.elts) /\ Len(s.elts) \in Nat
  BY <1>1, StateParts
<1>4. /\ DOMAIN r.frames = 1..n /\ Len(r.frames) = n /\ r.frames[n] = F /\ \A i \in 1..m : r.frames[i] = s.frames[i]
      /\ r.frames # <<>>
  <2>1. r.frames = Append(s.frames, F) /\ F \in FrameType
    BY DEF PushedOn
  <2>. HIDE DEF F
  <2>2. /\ DOMAIN r.frames = 1..n /\ Len(r.frames) = n /\ r.frames[n] = F /\ \A i \in 1..m : r.frames[i] = s.frames[i]
    BY <1>3, <2>1, PushedAt
  <2>. QED
    BY <1>2, <2>2, EmptySeq
<1>5. F.frame = f /\ F.elt = e /\ F.md = s.mode /\ F.uid = s.cur_lid
  BY DEF FrameFor
<1>. HIDE DEF m, F
<1>6. \A i \in 1..m : ModeAt(r, i) = ModeAt(s, i) /\ UidAt(r, i) = UidAt(s, i)
  BY <1>2, <1>3, <1>4 DEF ModeAt, UidAt, m
<1>7. /\ ModeAt(r, n) = ModeAt(s, n) /\ UidAt(r, n) = UidAt(s, n) /\ UidAt(s, n) = s.cur_lid
      /\ ModeAt(r, n + 1) = r.mode /\ UidAt(r, n + 1) = r.cur_lid
  BY <1>2, <1>3, <1>4, <1>5 DEF ModeAt, UidAt, m
<1>8. Named(r)
  <2>. SUFFICES ASSUME NEW i \in 1..n
                PROVE  /\ r.frames[i].elt \in DOMAIN s.elts
                       /\ s.elts[r.frames[i].elt].name = NameOf(r.frames[i].frame)
                       /\ ModeFits(ModeAt(r, i + 1), r.frames[i].frame)
    BY <1>1, <1>4 DEF Named
  <2>1. CASE i = n
    BY <1>4, <1>5, <1>7, <2>1 DEF PushedOn
  <2>2. CASE i \in 1..m
    <3>1. ModeAt(r, i + 1) = ModeAt(s, i + 1)
      BY <1>2, <1>6, <1>7, <2>2
    <3>. QED
      BY <1>1, <1>3, <1>4, <2>2, <3>1 DEF Named
  <2>. QED
    BY <1>2, <2>1, <2>2
<1>9. Ordered(r)
  <2>. SUFFICES ASSUME NEW i \in 1..n, NEW j \in 1..n, i < j
                PROVE  r.frames[i].elt < r.frames[j].elt
    BY <1>4 DEF Ordered
  <2>1. CASE j \in 1..m
    <3>1. i \in 1..m /\ i \in DOMAIN s.frames /\ j \in DOMAIN s.frames
      BY <1>2, <1>3, <2>1
    <3>. QED
      BY <1>1, <1>4, <2>1, <3>1 DEF Ordered
  <2>2. CASE j = n
    <3>1. i \in 1..m
      BY <1>2, <2>2
    <3>2. s.frames[i].elt \in Nat /\ top_stack(s) \in Nat /\ e \in Nat /\ e > top_stack(s)
      <4>1. s.frames[i].elt \in DOMAIN s.elts
        BY <1>1, <1>3, <3>1 DEF Named
      <4>2. e \in DOMAIN s.elts /\ e > top_stack(s)
        BY DEF PushedOn
      <4>. QED
        BY <1>2, <1>3, <4>1, <4>2
    <3>3. s.frames[i].elt < e
      BY <1>2, <1>3, <3>1, <3>2
    <3>. QED
      BY <1>4, <1>5, <2>2, <3>1, <3>3
  <2>. QED
    BY <1>2, <2>1, <2>2
<1>10. Fitted(r)
  <2>. SUFFICES ASSUME NEW i \in 1..n, i > 1
                PROVE  /\ Fits(r.frames[i].frame, r.frames[i - 1].frame)
                       /\ r.frames[i].frame = "p" =>
                            HasSons(s, r.frames[i - 1].elt) /\ LastSon(s, r.frames[i - 1].elt) = r.frames[i].elt
    BY <1>1, <1>4 DEF Fitted, HasSons, LastSon
  <2>1. CASE i = n
    <3>1. r.frames[i - 1] = s.frames[m] /\ r.frames[i] = F
      BY <1>2, <1>4, <2>1
    <3>. QED
      BY <1>2, <1>5, <3>1 DEF PushedOn
  <2>2. CASE i \in 1..m
    <3>1. i - 1 \in 1..m
      BY <1>2, <2>2
    <3>. QED
      BY <1>1, <1>3, <1>4, <2>2, <3>1 DEF Fitted
  <2>. QED
    BY <1>2, <2>1, <2>2
<1>11. \A d : (Anchored(r, d) <=> Anchored(s, d)) /\ LastAnchor(r, d) = LastAnchor(s, d)
  BY <1>1 DEF Anchored, LastAnchor, AnchorSons, Sons, is_anchor
<1>12. Scoped(r)
  <2>. SUFFICES ASSUME NEW i \in 1..n, NEW d, d = r.frames[i].elt
                PROVE  UidAt(r, i + 1) = IF Anchored(s, d) THEN LastAnchor(s, d) ELSE UidAt(r, i)
    <3>1. r.frames[1].uid = <<"uid", 1>>
      BY <1>1, <1>2, <1>4 DEF Scoped
    <3>. QED
      BY <1>4, <1>11, <3>1 DEF Scoped
  <2>1. CASE i = n
    BY <1>4, <1>5, <1>7, <2>1 DEF PushedOn
  <2>2. CASE i \in 1..m
    <3>1. UidAt(r, i + 1) = UidAt(s, i + 1) /\ UidAt(r, i) = UidAt(s, i)
      BY <1>2, <1>6, <1>7, <2>2
    <3>. QED
      BY <1>1, <1>3, <1>4, <2>2, <3>1 DEF Scoped
  <2>. QED
    BY <1>2, <2>1, <2>2
<1>13. Tree(r)
  BY <1>1 DEF Tree, PushedOn
<1>14. Stacked(r)
  <2>1. 1 \in 1..m
    BY <1>2
  <2>2. r.frames[1].frame = "document"
    BY <1>1, <1>4, <2>1 DEF Stacked
  <2>. QED
    BY <1>4, <1>8, <1>9, <1>10, <2>2 DEF Stacked
<1>. QED
  BY <1>1, <1>12, <1>13, <1>14, SameEltsSteady DEF Good

\* The last frame is popped, which gives the mode and the anchor back.
PoppedFrom(s, r) ==
  /\ r \in State /\ r.elts = s.elts
  /\ r.frames = Front(s.frames) /\ r.mode = Last(s.frames).md /\ r.cur_lid = Last(s.frames).uid
  /\ r.unfinished_par # 0 => r.unfinished_par \in DOMAIN s.elts /\ s.elts[r.unfinished_par].name = "p"

\* The invariant holds after an element is popped, unless it is the document.
LEMMA PoppedGood ==
  ASSUME NEW s, Good(s), Last(s.frames).frame # "document", NEW r, PoppedFrom(s, r)
  PROVE  Good(r) /\ Steady(s, r)
<1>. DEFINE n == Len(s.frames)
            m == n - 1
<1>1. /\ s \in State /\ r \in State /\ Tree(s) /\ Stacked(s) /\ Named(s) /\ Ordered(s) /\ Fitted(s) /\ Scoped(s)
      /\ r.elts = s.elts
  BY DEF Good, PoppedFrom, Stacked
<1>2. /\ n \in DOMAIN s.frames /\ n \in Nat \ {0} /\ Last(s.frames) = s.frames[n] /\ s.frames # <<>>
      /\ s.frames \in Seq(FrameType) /\ DOMAIN s.frames = 1..n
  BY <1>1, TopOf, StateParts
<1>3. n > 1 /\ m \in Nat \ {0} /\ m \in 1..n
  BY <1>1, <1>2 DEF Stacked
<1>4. /\ DOMAIN r.frames = 1..m /\ Len(r.frames) = m /\ \A i \in 1..m : r.frames[i] = s.frames[i]
      /\ r.frames # <<>>
  <2>1. r.frames = Front(s.frames)
    BY DEF PoppedFrom
  <2>2. /\ DOMAIN r.frames = 1..m /\ Len(r.frames) = m /\ \A i \in 1..m : r.frames[i] = s.frames[i]
    BY <1>2, <2>1, PoppedAt
  <2>. QED
    BY <1>3, <2>2, EmptySeq
<1>. HIDE DEF n
<1>5. \A i \in 1..n : ModeAt(r, i) = ModeAt(s, i) /\ UidAt(r, i) = UidAt(s, i)
  BY <1>2, <1>3, <1>4 DEF ModeAt, UidAt, n, PoppedFrom
<1>6. \A i \in 1..m : i \in 1..n /\ i + 1 \in 1..n /\ r.frames[i] = s.frames[i]
  BY <1>2, <1>3, <1>4
<1>. HIDE DEF m
<1>7. Named(r)
  BY <1>1, <1>2, <1>4, <1>5, <1>6 DEF Named
<1>8. Ordered(r)
  BY <1>1, <1>2, <1>4, <1>6 DEF Ordered
<1>9. Fitted(r)
  <2>1. \A i \in 1..m : i > 1 => i - 1 \in 1..m
    BY <1>3
  <2>. QED
    BY <1>1, <1>2, <1>4, <1>6, <2>1 DEF Fitted, HasSons, LastSon
<1>10. \A d : (Anchored(r, d) <=> Anchored(s, d)) /\ LastAnchor(r, d) = LastAnchor(s, d)
  BY <1>1 DEF Anchored, LastAnchor, AnchorSons, Sons, is_anchor
<1>11. Scoped(r)
  <2>1. r.frames[1].uid = <<"uid", 1>>
    BY <1>1, <1>3, <1>4 DEF Scoped
  <2>. QED
    BY <1>1, <1>2, <1>4, <1>5, <1>6, <1>10, <2>1 DEF Scoped
<1>12. Tree(r)
  BY <1>1 DEF Tree, PoppedFrom
<1>13. Stacked(r)
  <2>1. 1 \in 1..m
    BY <1>3
  <2>2. r.frames[1].frame = "document"
    BY <1>1, <1>4, <2>1 DEF Stacked
  <2>. QED
    BY <1>4, <1>7, <1>8, <1>9, <2>2 DEF Stacked
<1>. QED
  BY <1>1, <1>11, <1>12, <1>13, SameEltsSteady DEF Good

\* The mode may change while there is no paragraph on the top of the stack.
LEMMA OtherMode ==
  ASSUME NEW s, Good(s), NEW r \in State, r.elts = s.elts, r.frames = s.frames, r.cur_lid = s.cur_lid,
         r.unfinished_par \in {0, s.unfinished_par},
         ModeFits(r.mode, Last(s.frames).frame)
  PROVE  Good(r) /\ Steady(s, r)
<1>. DEFINE m == Len(s.frames)
<1>1. s \in State /\ Tree(s) /\ Stacked(s) /\ Named(s) /\ Ordered(s) /\ Fitted(s) /\ Scoped(s)
  BY DEF Good, Stacked
<1>2. m \in Nat \ {0} /\ Last(s.frames) = s.frames[m] /\ DOMAIN s.frames = 1..m
  BY <1>1, TopOf, StateParts
<1>3. \A i : UidAt(r, i) = UidAt(s, i)
  BY DEF UidAt
<1>4. \A i \in 1..m : ModeAt(r, i) = ModeAt(s, i)
  BY <1>2 DEF ModeAt
<1>5. ModeAt(r, m + 1) = r.mode
  BY <1>2 DEF ModeAt
<1>. HIDE DEF m
<1>6. Named(r)
  <2>. SUFFICES ASSUME NEW i \in 1..m PROVE ModeFits(ModeAt(r, i + 1), s.frames[i].frame)
    BY <1>1, <1>2 DEF Named
  <2>1. CASE i = m
    BY <1>2, <1>5, <2>1
  <2>2. CASE i # m
    <3>1. i + 1 \in 1..m
      BY <1>2, <2>2
    <3>. QED
      BY <1>1, <1>2, <1>4, <3>1 DEF Named
  <2>. QED
    BY <2>1, <2>2
<1>7. Ordered(r)
  BY <1>1 DEF Ordered
<1>8. Fitted(r)
  BY <1>1 DEF Fitted, HasSons, LastSon
<1>9. Stacked(r)
  BY <1>1, <1>6, <1>7, <1>8 DEF Stacked
<1>10. \A d : (Anchored(r, d) <=> Anchored(s, d)) /\ LastAnchor(r, d) = LastAnchor(s, d)
  BY DEF Anchored, LastAnchor, AnchorSons, Sons, is_anchor
<1>11. Scoped(r)
  BY <1>1, <1>3, <1>10 DEF Scoped
<1>12. Tree(r)
  BY <1>1 DEF Tree
<1>. QED
  BY <1>1, <1>9, <1>11, <1>12, SameEltsSteady DEF Good

\* The element that was created last, the top of the stack, becomes an anchor.
Marked(s, r, text) ==
  LET n == Len(s.elts)
  IN /\ r \in State /\ Len(r.elts) = n /\ r.frames = s.frames /\ r.mode = s.mode
     /\ r.unfinished_par = s.unfinished_par
     /\ top_stack(s) = n /\ s.elts[n].name \in WithNumber /\ s.elts[n].sons = <<>>
     /\ \A e \in 1..n : r.elts[e].name = s.elts[e].name /\ r.elts[e].sons = s.elts[e].sons
     /\ \A e \in 1..n : e # n => r.elts[e].id = s.elts[e].id /\ r.elts[e].text = s.elts[e].text
     /\ r.elts[n].id = r.cur_lid /\ r.cur_lid # NoId /\ r.elts[n].text = text

\* The invariant holds after the element that was pushed last becomes the current anchor.
LEMMA MarkedGood ==
  ASSUME NEW s, Good(s), NEW r, NEW text, Marked(s, r, text)
  PROVE  Good(r)
<1>. DEFINE m == Len(s.frames)
            n == Len(s.elts)
<1>1. /\ s \in State /\ Tree(s) /\ Stacked(s) /\ Named(s) /\ Ordered(s) /\ Fitted(s) /\ Scoped(s) /\ r \in State
  BY DEF Good, Stacked, Marked
<1>2. /\ m \in Nat \ {0} /\ m \in DOMAIN s.frames /\ Last(s.frames) = s.frames[m] /\ DOMAIN s.frames = 1..m
      /\ n = s.frames[m].elt /\ n \in DOMAIN s.elts
      /\ \A i \in DOMAIN s.frames : i # m => s.frames[i].elt # n
  BY <1>1, TopOf, StateParts DEF Marked
<1>3. DOMAIN s.elts = 1..n /\ DOMAIN r.elts = 1..n /\ r.frames = s.frames /\ n \in Nat
  BY <1>1, StateParts DEF Marked
<1>4. \A e \in 1..n : r.elts[e].name = s.elts[e].name /\ r.elts[e].sons = s.elts[e].sons
  BY DEF Marked
<1>5. \A e \in 1..n : e # n => r.elts[e].id = s.elts[e].id
  BY DEF Marked
<1>6. s.elts[n].name \notin {"p", "anchor"} /\ s.elts[n].sons = <<>>
  BY DEF Marked, WithNumber
<1>7. /\ r.mode = s.mode /\ r.unfinished_par = s.unfinished_par
      /\ r.elts[n].id = r.cur_lid /\ r.cur_lid # NoId
  BY DEF Marked
<1>. HIDE DEF n
<1>8. Tree(r)
  <2>1. \A e \in DOMAIN r.elts : r.elts[e].name = "p" => r.elts[e].id = NoId
    BY <1>1, <1>3, <1>4, <1>5, <1>6 DEF Tree
  <2>2. ASSUME NEW e \in 1..n, NEW k \in DOMAIN r.elts[e].sons, NEW son, son = r.elts[e].sons[k]
        PROVE  /\ son \in 1..n \cup {Text, Newline}
               /\ son > 0 /\ r.elts[son].name = "p" => e < son
               /\ son > 0 /\ r.elts[son].name = "item" => r.elts[e].name = "list"
    <3>1. /\ son \in 1..n \cup {Text, Newline}
          /\ son > 0 /\ s.elts[son].name = "p" => e < son
          /\ son > 0 /\ s.elts[son].name = "item" => s.elts[e].name = "list"
      BY <1>1, <1>3, <1>4, <2>2 DEF Tree
    <3>. QED
      BY <1>3, <1>4, <3>1 DEF Text, Newline
  <2>3. r.unfinished_par # 0 => r.unfinished_par \in DOMAIN r.elts /\ r.elts[r.unfinished_par].name = "p"
    BY <1>1, <1>3, <1>4, <1>7 DEF Tree
  <2>. QED
    BY <1>3, <2>1, <2>2, <2>3 DEF Tree
<1>9. Stacked(r)
  <2>1. \A i : ModeAt(r, i) = ModeAt(s, i)
    BY <1>3, <1>7 DEF ModeAt
  <2>2. Named(r)
    BY <1>1, <1>3, <1>4, <2>1 DEF Named
  <2>3. Ordered(r)
    BY <1>1, <1>3 DEF Ordered
  <2>4. Fitted(r)
    <3>1. \A i \in DOMAIN s.frames : i > 1 => i - 1 \in DOMAIN s.frames
      BY <1>2
    <3>2. \A i \in DOMAIN s.frames : i > 1 => s.frames[i - 1].elt \in 1..n
      BY <1>1, <1>3, <3>1 DEF Named
    <3>. QED
      BY <1>1, <1>3, <1>4, <3>2 DEF Fitted, HasSons, LastSon
  <2>. QED
    BY <1>1, <1>3, <2>2, <2>3, <2>4 DEF Stacked
<1>10. ASSUME NEW e \in 1..n
       PROVE  /\ AnchorSons(r, e) = AnchorSons(s, e)
              /\ e # n => (Anchored(r, e) <=> Anchored(s, e)) /\ LastAnchor(r, e) = LastAnchor(s, e)
  <2>. DEFINE A == AnchorSons(s, e)
              a == s.elts[e].sons
  <2>1. a \in Seq(Int) /\ Len(a) \in Nat /\ DOMAIN a = 1..Len(a) /\ r.elts[e].sons = a
    BY <1>1, <1>3, <1>4, <1>10, StateParts, LenProperties
  <2>2. \A k \in DOMAIN a : a[k] \in 1..n \cup {Text, Newline}
    BY <1>1, <1>3, <1>10 DEF Tree
  <2>3. \A son \in 1..n \cup {Text, Newline} : is_anchor(r, son) <=> is_anchor(s, son)
    BY <1>3, <1>4 DEF is_anchor, Text, Newline
  <2>4. AnchorSons(r, e) = A
    BY <2>1, <2>2, <2>3 DEF AnchorSons, Sons
  <2>5. ASSUME A # {} PROVE r.elts[a[Max(A)]].id = s.elts[a[Max(A)]].id
    <3>1. A \in SUBSET (1..Len(a))
      BY <2>1 DEF AnchorSons, Sons
    <3>2. Max(A) \in A
      <4>. HIDE DEF A, a
      <4>. QED
        BY <2>1, <2>5, <3>1, GreatestPosition
    <3>. DEFINE M == Max(A)
    <3>. HIDE DEF M
    <3>3. M \in DOMAIN a /\ is_anchor(s, a[M])
      BY <3>2 DEF M, AnchorSons, Sons
    <3>4. a[M] \in 1..n /\ a[M] # n
      BY <1>3, <1>6, <2>2, <3>3 DEF is_anchor, Text, Newline
    <3>. QED
      BY <1>5, <3>4 DEF M
  <2>6. e # n => r.elts[e].id = s.elts[e].id
    BY <1>5
  <2>. QED
    BY <2>1, <2>4, <2>5, <2>6 DEF Anchored, LastAnchor, Sons
<1>11. AnchorSons(s, n) = {}
  <2>1. DOMAIN <<>> = {}
    OBVIOUS
  <2>. QED
    BY <1>6, <2>1 DEF AnchorSons, Sons
<1>12. Scoped(r)
  <2>1. \A i \in 1..m : UidAt(r, i) = UidAt(s, i)
    BY <1>2, <1>3 DEF UidAt
  <2>2. UidAt(r, m + 1) = r.cur_lid
    BY <1>2, <1>3 DEF UidAt
  <2>3. Anchored(r, n) /\ LastAnchor(r, n) = r.cur_lid
    BY <1>2, <1>3, <1>7, <1>10, <1>11 DEF Anchored, LastAnchor
  <2>. HIDE DEF m
  <2>4. ASSUME NEW i \in 1..m, NEW e, e = s.frames[i].elt
        PROVE  UidAt(r, i + 1) = IF Anchored(r, e) THEN LastAnchor(r, e) ELSE UidAt(r, i)
    <3>1. CASE i = m
      BY <1>2, <2>2, <2>3, <2>4, <3>1
    <3>2. CASE i # m
      <4>1. i + 1 \in 1..m /\ e # n /\ e \in 1..n
        BY <1>1, <1>2, <1>3, <2>4, <3>2 DEF Named
      <4>2. UidAt(s, i + 1) = IF Anchored(s, e) THEN LastAnchor(s, e) ELSE UidAt(s, i)
        BY <1>1, <1>2, <2>4 DEF Scoped
      <4>. QED
        BY <1>10, <2>1, <4>1, <4>2
    <3>. QED
      BY <3>1, <3>2
  <2>5. r.frames[1].uid = <<"uid", 1>>
    BY <1>1, <1>3 DEF Scoped
  <2>. QED
    BY <1>2, <1>3, <2>4, <2>5 DEF Scoped
<1>. QED
  BY <1>1, <1>8, <1>9, <1>12 DEF Good

-----------------------------------------------------------------------------
\* The operations of the tree.

\* The stack, the mode and the current anchor stay.
Calm(s, r) ==
  /\ Good(r) /\ Steady(s, r)
  /\ r.frames = s.frames /\ r.mode = s.mode /\ r.cur_lid = s.cur_lid

\* Elements and sons that are added disturb neither the anchors nor the stack.
LEMMA GrownCalm ==
  ASSUME NEW s, Good(s), NEW r, Grown(s, r)
  PROVE  Calm(s, r)
BY GrownGood DEF Calm, Grown

\* Two calm steps are one.
LEMMA CalmTrans ==
  ASSUME NEW s, Good(s), NEW r, Calm(s, r), NEW q, Calm(r, q)
  PROVE  Calm(s, q)
<1>1. s \in State /\ r \in State /\ q \in State /\ Steady(s, r) /\ Steady(r, q)
  BY DEF Calm, Good
<1>2. Steady(s, q)
  BY <1>1, SteadyTrans
<1>. QED
  BY <1>2 DEF Calm

\* Doing nothing is calm.
LEMMA CalmRefl ==
  ASSUME NEW s, Good(s)
  PROVE  Calm(s, s)
<1>1. s \in State
  BY DEF Good
<1>. QED
  BY <1>1, SameEltsSteady DEF Calm

\* An element that is created but not yet a son disturbs nothing.
LEMMA NewCalm ==
  ASSUME NEW s, Good(s), NEW name \in ElementNames \ {"anchor"}
  PROVE  LET r == New(s, name) IN
         /\ Calm(s, r) /\ SameStack(s, r) /\ r \in State
         /\ Len(r.elts) = Len(s.elts) + 1 /\ r.elts[Len(s.elts) + 1] = Element(name)
         /\ \A e \in 1..Len(s.elts) : r.elts[e] = s.elts[e]
<1>. DEFINE r == New(s, name)
            n == Len(s.elts)
<1>1. s \in State /\ Stacked(s)
  BY DEF Good
<1>2. /\ r \in State /\ SameStack(s, r)
      /\ Len(r.elts) = n + 1
      /\ \A e \in 1..n : r.elts[e] = s.elts[e]
      /\ r.elts[n + 1] = Element(name)
  BY <1>1, NewEffect
<1>. HIDE DEF r
<1>3. top_stack(s) \in 1..n /\ n \in Nat
  BY <1>1, TopOf, StateParts
<1>4. \A e \in 1..Len(r.elts) : e > n =>
        /\ r.elts[e].id = NoId /\ r.elts[e].sons = <<>> /\ r.elts[e].name # "anchor"
        /\ r.elts[e].name \in WithNumber => r.elts[e].text = <<>>
  <2>. TAKE e \in 1..Len(r.elts)
  <2>. HAVE e > n
  <2>1. e = n + 1
    BY <1>2, <1>3
  <2>. QED
    BY <1>2, <2>1 DEF Element
<1>5. Grown(s, r)
  BY <1>2, <1>3, <1>4 DEF Grown, Keeps, SameStack
<1>6. Calm(s, r)
  BY <1>5, GrownCalm
<1>. QED
  BY <1>2, <1>6 DEF r

\* A son is added to the top of the stack.
LEMMA AddLastCalm ==
  ASSUME NEW s, Good(s), NEW son, MayAdd(s, top_stack(s), son)
  PROVE  LET r == add_last(s, son) IN
         /\ Calm(s, r) /\ SameStack(s, r) /\ r \in State
         /\ OtherSons(s, r, top_stack(s), Append(Sons(s, top_stack(s)), son))
         /\ HasSons(r, top_stack(s)) /\ LastSon(r, top_stack(s)) = son
<1>. DEFINE r == add_last(s, son)
            t == top_stack(s)
<1>1. s \in State /\ Stacked(s)
  BY DEF Good
<1>2. t \in 1..Len(s.elts) /\ DOMAIN s.elts = 1..Len(s.elts) /\ Len(s.elts) \in Nat
  BY <1>1, TopOf, StateParts
<1>3. son \in Int /\ son \in DOMAIN s.elts \cup {Text, Newline}
  BY <1>2 DEF MayAdd, Text, Newline
<1>4. r \in State /\ SameStack(s, r) /\ OtherSons(s, r, t, Append(Sons(s, t), son))
  BY <1>1, <1>2, <1>3, AddLastEffect
<1>. HIDE DEF r
<1>5. Keeps(s, r)
  BY <1>2, <1>4 DEF OtherSons, Keeps
<1>6. MayAdd(r, t, son)
  <2>1. DOMAIN r.elts = DOMAIN s.elts
    BY <1>2, <1>4, StateParts DEF OtherSons
  <2>. QED
    BY <1>2, <1>3, <1>5, <2>1 DEF MayAdd, Keeps, Text, Newline
<1>7. Grown(s, r)
  <2>1. \A e \in 1..Len(r.elts) : ~(e > Len(s.elts))
    BY <1>2, <1>4 DEF OtherSons
  <2>2. /\ \A e \in 1..Len(s.elts) : e # t => r.elts[e].sons = s.elts[e].sons
        /\ r.elts[t].sons = Append(s.elts[t].sons, son)
        /\ r.frames = s.frames /\ r.mode = s.mode /\ r.cur_lid = s.cur_lid /\ r.unfinished_par = s.unfinished_par
    BY <1>4 DEF OtherSons, Sons, SameStack
  <2>. QED
    BY <1>3, <1>4, <1>5, <1>6, <2>1, <2>2 DEF Grown
<1>8. Calm(s, r)
  BY <1>7, GrownCalm
<1>9. HasSons(r, t) /\ LastSon(r, t) = son
  <2>. DEFINE a == s.elts[t].sons
  <2>1. a \in Seq(Int) /\ r.elts[t].sons = Append(a, son)
    BY <1>1, <1>2, <1>4, StateParts DEF OtherSons, Sons
  <2>2. Append(a, son) # <<>> /\ Last(Append(a, son)) = son
    <3>. HIDE DEF a
    <3>. QED
      BY <1>3, <2>1, PushPop
  <2>. QED
    BY <2>1, <2>2 DEF HasSons, LastSon
<1>. QED
  BY <1>4, <1>8, <1>9 DEF r

\* The last son of the top of the stack is taken away.
LEMMA PopBackCalm ==
  ASSUME NEW s, Good(s), HasSons(s, top_stack(s)), MayTake(s, LastSon(s, top_stack(s)))
  PROVE  LET r == pop_back(s) IN Calm(s, r) /\ SameStack(s, r)
<1>. DEFINE r == pop_back(s)
            t == top_stack(s)
<1>1. s \in State /\ Stacked(s)
  BY DEF Good
<1>2. t \in 1..Len(s.elts) /\ DOMAIN s.elts = 1..Len(s.elts) /\ Len(s.elts) \in Nat
  BY <1>1, TopOf, StateParts
<1>3. r \in State /\ SameStack(s, r) /\ OtherSons(s, r, t, Front(Sons(s, t)))
  BY <1>1, <1>2, PopBackEffect DEF HasSons, Sons
<1>. HIDE DEF r
<1>4. Keeps(s, r)
  BY <1>2, <1>3 DEF OtherSons, Keeps
<1>5. Grown(s, r)
  <2>1. \A e \in 1..Len(r.elts) : ~(e > Len(s.elts))
    BY <1>2, <1>3 DEF OtherSons
  <2>2. /\ \A e \in 1..Len(s.elts) : e # t => r.elts[e].sons = s.elts[e].sons
        /\ r.elts[t].sons = Front(s.elts[t].sons)
        /\ r.frames = s.frames /\ r.mode = s.mode /\ r.cur_lid = s.cur_lid /\ r.unfinished_par = s.unfinished_par
    BY <1>3 DEF OtherSons, Sons, SameStack
  <2>3. s.elts[t].sons # <<>> /\ MayTake(s, Last(s.elts[t].sons))
    BY DEF HasSons, LastSon
  <2>. QED
    BY <1>3, <1>4, <2>1, <2>2, <2>3 DEF Grown
<1>. QED
  BY <1>3, <1>5, GrownCalm DEF r

\* A string or a newline at the end of an element may be taken away.
LEMMA TailText ==
  ASSUME NEW s, NEW son \in {Text, Newline}, TailIs(s, son)
  PROVE  HasSons(s, top_stack(s)) /\ MayTake(s, LastSon(s, top_stack(s)))
BY DEF TailIs, HasSons, LastSon, Sons, MayTake, Text, Newline

\* Newlines and strings disturb nothing.
LEMMA TextCalm ==
  ASSUME NEW s, Good(s)
  PROVE  Calm(s, add_nl(s)) /\ Calm(s, add_last_string(s))
<1>1. \A son \in {Text, Newline} : \A r : MayAdd(r, top_stack(r), son)
  BY DEF MayAdd, Text, Newline
<1>2. Calm(s, s) /\ Calm(s, add_last(s, Text)) /\ Calm(s, add_last(s, Newline))
  BY <1>1, AddLastCalm, CalmRefl
<1>3. Calm(s, add_nl(s))
  BY <1>2 DEF add_nl
<1>4. ASSUME last_is_string(s) PROVE Calm(s, add_last(pop_back(s), Text))
  <2>. DEFINE q == pop_back(s)
  <2>1. Calm(s, q)
    BY <1>4, TailText, PopBackCalm DEF last_is_string
  <2>. HIDE DEF q
  <2>2. Calm(q, add_last(q, Text))
    BY <1>1, <2>1, AddLastCalm DEF Calm
  <2>3. Calm(s, add_last(q, Text))
    BY <2>1, <2>2, CalmTrans
  <2>. QED
    BY <2>3 DEF q
<1>5. Calm(s, add_last_string(s))
  BY <1>2, <1>4 DEF add_last_string
<1>. QED
  BY <1>3, <1>5

\* A new element is added to the top of the stack.
LEMMA NewSonCalm ==
  ASSUME NEW s, Good(s), NEW name \in ElementNames \ {"anchor"},
         name = "item" => s.elts[top_stack(s)].name = "list"
  PROVE  LET r == add_newid0(s, name)
             n == Len(s.elts) + 1
         IN
         /\ Calm(s, r) /\ SameStack(s, r) /\ r \in State /\ Len(r.elts) = n
         /\ r.elts[n].name = name /\ r.elts[n].id = NoId /\ r.elts[n].text = <<>> /\ r.elts[n].sons = <<>>
         /\ HasSons(r, top_stack(s)) /\ LastSon(r, top_stack(s)) = n
         /\ r.elts[top_stack(s)].sons = Append(s.elts[top_stack(s)].sons, n)
         /\ top_stack(s) # n /\ \A e \in 1..Len(s.elts) : e # top_stack(s) => r.elts[e] = s.elts[e]
<1>. DEFINE q == New(s, name)
            n == Len(s.elts) + 1
            t == top_stack(s)
            r == add_last(q, n)
<1>1. /\ Calm(s, q) /\ SameStack(s, q) /\ q \in State
      /\ Len(q.elts) = n /\ q.elts[n] = Element(name)
      /\ \A e \in 1..Len(s.elts) : q.elts[e] = s.elts[e]
  BY NewCalm
<1>2. add_newid0(s, name) = r
  BY <1>1 DEF add_newid0, get_xid
<1>. HIDE DEF q
<1>3. t \in 1..Len(s.elts) /\ Len(s.elts) \in Nat /\ top_stack(q) = t /\ t < n /\ DOMAIN q.elts = 1..n
  <2>1. s \in State /\ Stacked(s)
    BY DEF Good
  <2>2. t \in 1..Len(s.elts) /\ Len(s.elts) \in Nat
    BY <2>1, TopOf, StateParts
  <2>3. top_stack(q) = t
    BY <1>1 DEF top_stack, SameStack
  <2>. QED
    BY <1>1, <2>2, <2>3, StateParts
<1>4. q.elts[n].name = name /\ q.elts[n].id = NoId /\ q.elts[n].text = <<>> /\ q.elts[n].sons = <<>>
  BY <1>1 DEF Element
<1>5. MayAdd(q, top_stack(q), n)
  <2>1. n \in DOMAIN q.elts
    BY <1>3
  <2>2. name = "item" => q.elts[t].name = "list"
    BY <1>1, <1>3
  <2>. QED
    BY <1>3, <1>4, <2>1, <2>2 DEF MayAdd
<1>. HIDE DEF n
<1>6. /\ Calm(q, r) /\ SameStack(q, r) /\ r \in State
      /\ OtherSons(q, r, t, Append(Sons(q, t), n))
      /\ HasSons(r, t) /\ LastSon(r, t) = n
  <2>1. Good(q)
    BY <1>1 DEF Calm
  <2>. QED
    BY <1>3, <1>5, <2>1, AddLastCalm
<1>. HIDE DEF r
<1>7. Calm(s, r)
  BY <1>1, <1>6, CalmTrans
<1>8. SameStack(s, r)
  BY <1>1, <1>6 DEF SameStack
<1>9. /\ Len(r.elts) = n
      /\ r.elts[n].name = name /\ r.elts[n].id = NoId /\ r.elts[n].text = <<>> /\ r.elts[n].sons = <<>>
  <2>1. n # t /\ n \in 1..n
    BY <1>3 DEF n
  <2>. QED
    BY <1>1, <1>4, <1>6, <2>1 DEF OtherSons
<1>10. r.elts[t].sons = Append(s.elts[t].sons, n) /\ t # n
  BY <1>1, <1>3, <1>6 DEF OtherSons, Sons
<1>11. \A e \in 1..Len(s.elts) : e # t => r.elts[e] = s.elts[e]
  <2>1. \A e \in 1..Len(s.elts) : e \in 1..Len(q.elts)
    BY <1>1, <1>3 DEF n
  <2>. QED
    BY <1>1, <1>6, <2>1 DEF OtherSons
<1>. QED
  BY <1>2, <1>6, <1>7, <1>8, <1>9, <1>10, <1>11 DEF n

-----------------------------------------------------------------------------
\* The frames that commands of the document open and close.

\* The frames of blocks and their positions.
Block == [frame : BlockNames, elt : Nat, md : Modes, uid : Ids]
Blocks(fr) == At(fr, Block)

\* The frames up to the last block are the same.
SameBlocks(fr, fr2) ==
  /\ Blocks(fr2) = Blocks(fr)
  /\ \A b \in Blocks(fr) : b \in 1..Len(fr2) /\ \A j \in 1..b : fr2[j] = fr[j]

\* A frame is a block by its name.
LEMMA IsBlock ==
  ASSUME NEW f \in FrameType
  PROVE  f \in Block <=> f.frame \in BlockNames
BY DEF FrameType, Block

\* The blocks are among the positions of the stack.
LEMMA BlocksAre ==
  ASSUME NEW fr \in Seq(FrameType)
  PROVE  /\ Len(fr) \in Nat /\ DOMAIN fr = 1..Len(fr) /\ Blocks(fr) \in SUBSET (1..Len(fr))
         /\ \A i \in 1..Len(fr) : i \in Blocks(fr) <=> fr[i].frame \in BlockNames
<1>1. Len(fr) \in Nat /\ DOMAIN fr = 1..Len(fr)
  BY LenProperties
<1>2. \A i \in 1..Len(fr) : fr[i] \in Block <=> fr[i].frame \in BlockNames
  BY <1>1, IsBlock, ElementOfSeq
<1>. QED
  BY <1>1, <1>2 DEF Blocks, At

\* The frame of a paragraph, a section or an item is no block.
LEMMA PushedBlocks ==
  ASSUME NEW fr \in Seq(FrameType), NEW f \in FrameType, f.frame \notin BlockNames
  PROVE  SameBlocks(fr, Append(fr, f))
<1>1. f \notin Block
  BY IsBlock
<1>2. Blocks(Append(fr, f)) = Blocks(fr)
  BY <1>1, RankAppend DEF Blocks
<1>3. /\ Len(fr) \in Nat /\ Len(Append(fr, f)) = Len(fr) + 1
      /\ \A i \in 1..Len(fr) : Append(fr, f)[i] = fr[i]
  BY PushedAt
<1>4. Blocks(fr) \in SUBSET (1..Len(fr))
  BY BlocksAre
<1>. QED
  BY <1>2, <1>3, <1>4 DEF SameBlocks

\* A frame of the text that is popped leaves the blocks alone.
LEMMA PoppedBlocks ==
  ASSUME NEW fr \in Seq(FrameType), fr # <<>>, Last(fr).frame \notin BlockNames
  PROVE  SameBlocks(fr, Front(fr))
<1>1. /\ Len(fr) \in Nat \ {0} /\ Len(Front(fr)) = Len(fr) - 1 /\ Last(fr) \in FrameType
      /\ \A i \in 1..(Len(fr) - 1) : Front(fr)[i] = fr[i]
  BY PoppedAt
<1>2. Last(fr) \notin Block
  BY <1>1, IsBlock
<1>3. Blocks(Front(fr)) = Blocks(fr) \ {Len(fr)} /\ Len(fr) \notin Blocks(fr)
  BY <1>2, RankFront DEF Blocks
<1>4. Blocks(fr) \in SUBSET (1..Len(fr))
  BY BlocksAre
<1>. QED
  BY <1>1, <1>3, <1>4 DEF SameBlocks

\* The blocks are the same along several steps.
LEMMA BlocksTrans ==
  ASSUME NEW f, NEW g, NEW h, SameBlocks(f, g), SameBlocks(g, h), Blocks(f) \in SUBSET Nat
  PROVE  SameBlocks(f, h)
BY DEF SameBlocks

-----------------------------------------------------------------------------
\* The operations of the stack.

\* Frames come and go above the last block.
Moves(s, r) == Good(r) /\ Steady(s, r) /\ SameBlocks(s.frames, r.frames)

\* A calm step leaves the blocks alone.
LEMMA CalmMoves ==
  ASSUME NEW s, Good(s), NEW r, Calm(s, r)
  PROVE  Moves(s, r)
<1>1. Blocks(s.frames) \in SUBSET (1..Len(s.frames))
  BY BlocksAre, StateParts DEF Good
<1>. QED
  BY <1>1 DEF Moves, Calm, SameBlocks

\* Two steps that leave the blocks alone are one.
LEMMA MovesTrans ==
  ASSUME NEW s, Good(s), NEW r, Moves(s, r), NEW q, Moves(r, q)
  PROVE  Moves(s, q)
<1>1. s \in State /\ r \in State /\ q \in State
  BY DEF Moves, Good
<1>2. Steady(s, q)
  BY <1>1, SteadyTrans DEF Moves
<1>3. Blocks(s.frames) \in SUBSET (1..Len(s.frames)) /\ Len(s.frames) \in Nat
  BY <1>1, BlocksAre, StateParts
<1>4. SameBlocks(s.frames, q.frames)
  BY <1>3, BlocksTrans DEF Moves
<1>. QED
  BY <1>2, <1>4 DEF Moves

\* A frame that is no block may be pushed.
LEMMA PushedMoves ==
  ASSUME NEW s, Good(s), NEW r, NEW f, NEW e, PushedOn(s, r, f, e), f \notin BlockNames
  PROVE  Moves(s, r)
<1>1. Good(r) /\ Steady(s, r)
  BY PushedGood
<1>2. r.frames = Append(s.frames, FrameFor(s, f, e)) /\ FrameFor(s, f, e) \in FrameType
  BY DEF PushedOn
<1>3. s.frames \in Seq(FrameType) /\ FrameFor(s, f, e).frame = f
  BY StateParts DEF Good, FrameFor
<1>. QED
  BY <1>1, <1>2, <1>3, PushedBlocks DEF Moves

\* A frame that is no block may be popped, unless it is the document.
LEMMA PoppedMoves ==
  ASSUME NEW s, Good(s), NEW r, PoppedFrom(s, r), Last(s.frames).frame \notin BlockNames \cup {"document"}
  PROVE  Moves(s, r)
<1>1. Good(r) /\ Steady(s, r)
  BY PoppedGood
<1>2. r.frames = Front(s.frames) /\ s.frames \in Seq(FrameType) /\ s.frames # <<>>
  BY StateParts DEF Good, PoppedFrom, Stacked
<1>. QED
  BY <1>1, <1>2, PoppedBlocks DEF Moves

\* What a change of the mode leaves alone.
WithMode(s, md) == [s EXCEPT !.mode = md]

\* A change of the mode changes nothing else.
LEMMA ModeEffect ==
  ASSUME NEW s \in State, NEW md \in Modes
  PROVE  LET r == WithMode(s, md) IN
         /\ r \in State /\ SameTree(s, r) /\ r.frames = s.frames /\ r.mode = md
         /\ r.cur_lid = s.cur_lid /\ r.unfinished_par = s.unfinished_par
BY DEF State, SameTree, WithMode

\* The mode is horizontal when there is a paragraph on the top of the stack.
LEMMA ModeOfTop ==
  ASSUME NEW s, Good(s)
  PROVE  ModeFits(s.mode, Last(s.frames).frame) /\ Last(s.frames).frame = first_frame(s)
<1>1. s \in State /\ Stacked(s) /\ Named(s)
  BY DEF Good, Stacked
<1>2. Len(s.frames) \in DOMAIN s.frames /\ Len(s.frames) \in Nat /\ Last(s.frames) = s.frames[Len(s.frames)]
  BY <1>1, TopOf
<1>3. ModeAt(s, Len(s.frames) + 1) = s.mode
  BY <1>2 DEF ModeAt
<1>. QED
  BY <1>1, <1>2, <1>3 DEF Named, first_frame

\* A new element is added to the document and pushed on the stack.
LEMMA Push1Good ==
  ASSUME NEW s, Good(s), NEW name \in {"head", "footnote", "list", "div0", "div1", "item"}, NEW md \in Modes, NEW r,
         r = WithMode(push1(s, name), md),
         ModeFits(md, name), Fits(name, first_frame(s))
  PROVE  LET n == Len(s.elts) + 1 IN
         /\ Good(r) /\ Steady(s, r) /\ Len(r.elts) = n /\ top_stack(r) = n /\ first_frame(r) = name
         /\ r.elts[n].name = name /\ r.elts[n].sons = <<>> /\ r.elts[n].id = NoId /\ r.elts[n].text = <<>>
         /\ r.frames = Append(s.frames, FrameFor(s, name, n)) /\ FrameFor(s, name, n) \in FrameType
         /\ s.frames \in Seq(FrameType)
         /\ r.mode = md /\ r.cur_lid = s.cur_lid
<1>. DEFINE q == add_newid0(s, name)
            n == Len(s.elts) + 1
            p == ipush(q, name, n)
            F == FrameFor(s, name, n)
<1>1. s \in State /\ Stacked(s) /\ Named(s)
  BY DEF Good, Stacked
<1>2. name = "item" => s.elts[top_stack(s)].name = "list"
  <2>1. /\ Len(s.frames) \in DOMAIN s.frames /\ Last(s.frames) = s.frames[Len(s.frames)]
        /\ top_stack(s) = s.frames[Len(s.frames)].elt
    BY <1>1, TopOf
  <2>2. name = "item" => s.frames[Len(s.frames)].frame = "list"
    BY <2>1 DEF Fits, first_frame
  <2>. QED
    BY <1>1, <2>1, <2>2 DEF Named, NameOf
<1>3. /\ Calm(s, q) /\ SameStack(s, q) /\ q \in State /\ Len(q.elts) = n
      /\ q.elts[n].name = name /\ q.elts[n].id = NoId /\ q.elts[n].text = <<>> /\ q.elts[n].sons = <<>>
  BY <1>2, NewSonCalm DEF ElementNames, FrameNames, BlockNames
<1>4. n \in Nat /\ n \in DOMAIN q.elts /\ n > top_stack(s) /\ top_stack(q) = top_stack(s)
  <2>1. Len(s.elts) \in Nat /\ top_stack(s) \in 1..Len(s.elts)
    BY <1>1, TopOf, StateParts
  <2>2. DOMAIN q.elts = 1..n
    BY <1>3, StateParts
  <2>. QED
    BY <1>3, <2>1, <2>2 DEF top_stack, SameStack
<1>5. push1(s, name) = p
  BY <1>3 DEF push1, get_xid
<1>. HIDE DEF n, q
<1>6. /\ p \in State /\ SameTree(q, p) /\ p.cur_lid = q.cur_lid /\ p.unfinished_par = q.unfinished_par
      /\ p.frames = Append(q.frames, FrameFor(q, name, n)) /\ FrameFor(q, name, n) \in FrameType
  <2>1. name \in FrameNames
    BY DEF FrameNames, BlockNames
  <2>. QED
    BY <1>3, <1>4, <2>1, IpushEffect
<1>7. FrameFor(q, name, n) = F
  BY <1>3 DEF SameStack, FrameFor
<1>8. /\ r \in State /\ SameTree(q, r) /\ r.cur_lid = s.cur_lid /\ r.unfinished_par = s.unfinished_par
      /\ r.frames = Append(s.frames, F) /\ F \in FrameType /\ r.mode = md
  <2>. HIDE DEF p
  <2>1. r \in State /\ SameTree(p, r) /\ r.frames = p.frames /\ r.mode = md /\ r.cur_lid = p.cur_lid
        /\ r.unfinished_par = p.unfinished_par
    BY <1>5, <1>6, ModeEffect
  <2>. QED
    BY <1>3, <1>6, <1>7, <2>1 DEF SameTree, SameStack
<1>9. ~Anchored(q, n)
  <2>1. DOMAIN <<>> = {}
    OBVIOUS
  <2>. QED
    BY <1>3, <2>1 DEF Anchored, AnchorSons, Sons
<1>10. PushedOn(q, r, name, n)
  <2>1. q.elts[n].name = NameOf(name) /\ name # "p"
    BY <1>3 DEF NameOf
  <2>2. Fits(name, Last(q.frames).frame) /\ q.cur_lid = s.cur_lid /\ q.unfinished_par = s.unfinished_par
    BY <1>3 DEF SameStack, first_frame
  <2>3. r.frames = Append(q.frames, FrameFor(q, name, n)) /\ FrameFor(q, name, n) \in FrameType
    BY <1>3, <1>7, <1>8 DEF SameStack
  <2>4. r.elts = q.elts
    BY <1>8 DEF SameTree
  <2>5. n > top_stack(q)
    BY <1>4
  <2>. QED
    BY <1>4, <1>8, <1>9, <2>1, <2>2, <2>3, <2>4, <2>5 DEF PushedOn
<1>11. Good(q) /\ Steady(s, q)
  BY <1>3 DEF Calm
<1>12. Good(r) /\ Steady(q, r)
  BY <1>10, <1>11, PushedGood
<1>13. Steady(s, r)
  BY <1>1, <1>3, <1>8, <1>11, <1>12, SteadyTrans
<1>14. s.frames \in Seq(FrameType)
  BY <1>1, StateParts
<1>15. top_stack(r) = n /\ first_frame(r) = name
  <2>1. F.elt = n /\ F.frame = name
    BY DEF FrameFor
  <2>. HIDE DEF F
  <2>2. Last(Append(s.frames, F)) = F
    BY <1>8, <1>14, PushPop
  <2>. QED
    BY <1>8, <2>1, <2>2 DEF top_stack, first_frame
<1>16. r.elts = q.elts
  BY <1>8 DEF SameTree
<1>17. /\ Good(r) /\ Steady(s, r) /\ Len(r.elts) = n /\ top_stack(r) = n /\ first_frame(r) = name
       /\ r.elts[n].name = name /\ r.elts[n].sons = <<>> /\ r.elts[n].id = NoId /\ r.elts[n].text = <<>>
       /\ r.frames = Append(s.frames, F) /\ F \in FrameType /\ s.frames \in Seq(FrameType)
       /\ r.mode = md /\ r.cur_lid = s.cur_lid
  BY <1>3, <1>8, <1>12, <1>13, <1>14, <1>15, <1>16
<1>. QED
  BY <1>17 DEF n

\* A paragraph starts.
LEMMA ParagraphMoves ==
  ASSUME NEW s, Good(s), first_frame(s) \notin {"p", "head", "hbox"}
  PROVE  LET r == ileave_v_mode(s)
             n == Len(s.elts) + 1 IN
         /\ Moves(s, r) /\ Len(r.elts) = n /\ r.cur_lid = s.cur_lid
         /\ r.frames = Append(s.frames, FrameFor(s, "p", n)) /\ FrameFor(s, "p", n) \in FrameType
<1>. DEFINE q == add_newid0(s, "p")
            n == Len(s.elts) + 1
            u == s.unfinished_par
            text == IF u = 0 THEN <<>> ELSE s.elts[u].text
            es == [q.elts EXCEPT ![n].text = text]
            p == [q EXCEPT !.elts = es]
            F == FrameFor(s, "p", n)
            r == ileave_v_mode(s)
<1>1. s \in State /\ Stacked(s) /\ Tree(s)
  BY DEF Good, Stacked
<1>2. /\ Calm(s, q) /\ SameStack(s, q) /\ q \in State /\ Len(q.elts) = n
      /\ q.elts[n].name = "p" /\ q.elts[n].id = NoId /\ q.elts[n].text = <<>> /\ q.elts[n].sons = <<>>
      /\ HasSons(q, top_stack(s)) /\ LastSon(q, top_stack(s)) = n
      /\ q.elts[top_stack(s)].sons = Append(s.elts[top_stack(s)].sons, n)
      /\ \A e \in 1..Len(s.elts) : e # top_stack(s) => q.elts[e] = s.elts[e]
  <2>1. "p" \in ElementNames \ {"anchor"} /\ "p" # "item"
    BY DEF ElementNames, FrameNames
  <2>. QED
    BY <2>1, NewSonCalm
<1>3. /\ n \in Nat /\ n \in DOMAIN q.elts /\ n > top_stack(s) /\ top_stack(q) = top_stack(s)
      /\ Len(s.elts) \in Nat /\ top_stack(s) \in 1..Len(s.elts) /\ DOMAIN s.elts = 1..Len(s.elts)
  <2>1. Len(s.elts) \in Nat /\ top_stack(s) \in 1..Len(s.elts) /\ DOMAIN s.elts = 1..Len(s.elts)
    BY <1>1, TopOf, StateParts
  <2>2. DOMAIN q.elts = 1..n
    <3>. HIDE DEF q
    <3>. QED
      BY <1>2, StateParts
  <2>3. top_stack(q) = top_stack(s)
    BY <1>2 DEF top_stack, SameStack
  <2>. HIDE DEF q
  <2>. QED
    BY <2>1, <2>2, <2>3
<1>4. text \in Seq(Nat) /\ u \in Nat /\ (u # 0 => u \in 1..Len(s.elts) /\ s.elts[u].name = "p" /\ s.elts[u].id = NoId)
  <2>1. u \in Nat /\ (u # 0 => u \in 1..Len(s.elts) /\ s.elts[u].name = "p")
    BY <1>1, <1>3, StateParts DEF Tree
  <2>2. u # 0 => s.elts[u].id = NoId
    BY <1>1, <1>3, <2>1 DEF Tree
  <2>3. u # 0 => s.elts[u].text \in Seq(Nat)
    BY <1>1, <1>3, <2>1, StateParts
  <2>4. <<>> \in Seq(Nat)
    BY EmptySeq
  <2>. QED
    BY <2>1, <2>2, <2>3, <2>4
<1>. HIDE DEF n, q, text
<1>5. /\ p \in State /\ SameStack(q, p) /\ Len(p.elts) = n /\ p.elts = es
      /\ p.elts[n].name = "p" /\ p.elts[n].id = NoId /\ p.elts[n].sons = <<>>
      /\ \A e \in 1..n : e # n => p.elts[e] = q.elts[e]
  <2>1. q.elts \in Seq(Elt) /\ q.elts[n] \in Elt /\ DOMAIN q.elts = 1..n
    BY <1>2, <1>3, StateParts
  <2>2. [q.elts[n] EXCEPT !.text = text] \in Elt
    BY <1>4, <2>1 DEF Elt
  <2>3. es = [q.elts EXCEPT ![n] = [q.elts[n] EXCEPT !.text = text]]
    OBVIOUS
  <2>4. es \in Seq(Elt) /\ Len(es) = n
    BY <1>2, <1>3, <2>1, <2>2, <2>3, ExceptSeq
  <2>5. p \in State /\ p.elts = es /\ SameStack(q, p)
    BY <1>2, <2>4 DEF State, SameStack
  <2>6. es[n].name = "p" /\ es[n].id = NoId /\ es[n].sons = <<>>
    BY <1>2, <1>3, <2>1 DEF Elt
  <2>7. \A e \in 1..n : e # n => es[e] = q.elts[e]
    BY <2>1
  <2>. QED
    BY <2>4, <2>5, <2>6, <2>7
<1>6. \A e \in 1..Len(s.elts) : e \in 1..n /\ e # n
  BY <1>3 DEF n
<1>. HIDE DEF p, es
<1>7. Grown(s, p)
  <2>. DEFINE t == top_stack(s)
  <2>1. Keeps(s, p)
    <3>1. Keeps(s, q)
      BY <1>2 DEF Calm, Steady, Counts
    <3>. QED
      BY <1>2, <1>5, <1>6, <3>1 DEF Keeps
  <2>2. \A e \in 1..Len(s.elts) : e # t => p.elts[e].sons = s.elts[e].sons
    BY <1>2, <1>5, <1>6
  <2>3. \A e \in 1..Len(p.elts) : e > Len(s.elts) =>
          /\ p.elts[e].id = NoId /\ p.elts[e].sons = <<>> /\ p.elts[e].name # "anchor"
          /\ p.elts[e].name \in WithNumber => p.elts[e].text = <<>>
    <3>. TAKE e \in 1..Len(p.elts)
    <3>. HAVE e > Len(s.elts)
    <3>1. e = n
      BY <1>3, <1>5 DEF n
    <3>. QED
      BY <1>5, <3>1 DEF WithNumber
  <2>4. p.elts[t].sons = Append(s.elts[t].sons, n)
    BY <1>2, <1>3, <1>5, <1>6
  <2>5. MayAdd(p, t, n)
    <3>1. n \in DOMAIN p.elts
      BY <1>3, <1>5, StateParts
    <3>. QED
      BY <1>3, <1>5, <3>1 DEF MayAdd
  <2>6. p.frames = s.frames /\ p.mode = s.mode /\ p.cur_lid = s.cur_lid /\ p.unfinished_par = s.unfinished_par
    BY <1>2, <1>5 DEF SameStack
  <2>. QED
    BY <1>3, <1>5, <2>1, <2>2, <2>3, <2>4, <2>5, <2>6 DEF Grown
<1>8. Calm(s, p) /\ Good(p)
  BY <1>7, GrownCalm DEF Calm
<1>. DEFINE w == ipush(q, "p", n)
            v == [w EXCEPT !.mode = "h", !.unfinished_par = 0]
<1>9. /\ w \in State /\ w.elts = q.elts /\ w.cur_lid = s.cur_lid
      /\ w.frames = Append(s.frames, F) /\ F \in FrameType
  <2>1. "p" \in FrameNames
    BY DEF FrameNames
  <2>2. /\ w \in State /\ SameTree(q, w) /\ w.cur_lid = q.cur_lid
        /\ w.frames = Append(q.frames, FrameFor(q, "p", n)) /\ FrameFor(q, "p", n) \in FrameType
    BY <1>2, <1>3, <2>1, IpushEffect
  <2>. HIDE DEF w
  <2>. QED
    BY <1>2, <2>2 DEF SameTree, SameStack, FrameFor
<1>10. push1(s, "p") = w
  BY <1>2 DEF push1, get_xid, q
<1>. HIDE DEF w, F
<1>11. /\ v \in State /\ v.elts = q.elts /\ v.cur_lid = s.cur_lid /\ v.mode = "h" /\ v.unfinished_par = 0
       /\ v.frames = Append(s.frames, F)
  BY <1>9 DEF State, Modes
<1>12. r = IF u = 0 THEN v ELSE [v EXCEPT !.elts[n].id = s.elts[u].id, !.elts[n].text = s.elts[u].text]
  <2>1. get_xid(v) = n
    BY <1>2, <1>11 DEF get_xid
  <2>. QED
    <3>. DEFINE t == [push1(s, "p") EXCEPT !.mode = "h", !.unfinished_par = 0]
    <3>1. t = v
      BY <1>10
    <3>2. r = IF u = 0 THEN t
              ELSE [t EXCEPT !.elts[get_xid(t)].id = s.elts[u].id, !.elts[get_xid(t)].text = s.elts[u].text]
      BY DEF ileave_v_mode
    <3>. HIDE DEF t, v, r, u
    <3>. QED
      BY <2>1, <3>1, <3>2
<1>. HIDE DEF v, r
<1>13. q.elts \in Seq(Elt) /\ q.elts[n] \in Elt /\ DOMAIN q.elts = 1..n /\ n \in 1..n
  BY <1>2, <1>3, StateParts
<1>14. /\ r.elts = p.elts /\ r \in State /\ r.cur_lid = s.cur_lid /\ r.mode = "h" /\ r.unfinished_par = 0
       /\ r.frames = Append(s.frames, F)
  <2>1. CASE u = 0
    <3>1. text = <<>>
      BY <2>1 DEF text
    <3>2. es = q.elts
      <4>1. [q.elts[n] EXCEPT !.text = <<>>] = q.elts[n]
        BY <1>2, <1>13 DEF Elt
      <4>2. es = [q.elts EXCEPT ![n] = q.elts[n]]
        BY <3>1, <4>1 DEF es
      <4>. QED
        BY <1>13, <4>2
    <3>. QED
      BY <1>5, <1>11, <1>12, <2>1, <3>2
  <2>2. CASE u # 0
    <3>1. text = s.elts[u].text /\ s.elts[u].id = NoId
      BY <1>4, <2>2 DEF text
    <3>2. r = [v EXCEPT !.elts = [q.elts EXCEPT ![n] = [q.elts[n] EXCEPT !.id = NoId, !.text = text]]]
      BY <1>11, <1>12, <1>13, <2>2, <3>1 DEF State
    <3>3. [q.elts[n] EXCEPT !.id = NoId, !.text = text] = [q.elts[n] EXCEPT !.text = text]
      BY <1>2, <1>13 DEF Elt
    <3>4. r = [v EXCEPT !.elts = p.elts]
      BY <1>5, <3>2, <3>3 DEF es
    <3>5. p.elts \in Seq(Elt)
      BY <1>5, StateParts
    <3>. QED
      BY <1>11, <3>4, <3>5 DEF State
  <2>. QED
    BY <2>1, <2>2
<1>15. PushedOn(p, r, "p", n)
  <2>1. p.frames = s.frames /\ p.mode = s.mode /\ p.cur_lid = s.cur_lid /\ top_stack(p) = top_stack(s)
    BY <1>2, <1>5 DEF SameStack, top_stack
  <2>2. F = FrameFor(p, "p", n)
    BY <2>1 DEF F, FrameFor
  <2>3. ModeFits(r.mode, "p") /\ Fits("p", Last(p.frames).frame) /\ NameOf("p") = "p"
    BY <1>14, <2>1 DEF ModeFits, Fits, first_frame, NameOf
  <2>4. ~Anchored(p, n)
    <3>1. DOMAIN <<>> = {}
      OBVIOUS
    <3>. QED
      BY <1>5, <3>1 DEF Anchored, AnchorSons, Sons
  <2>5. HasSons(p, top_stack(s)) /\ LastSon(p, top_stack(s)) = n /\ n \in DOMAIN p.elts
    BY <1>2, <1>3, <1>5, <1>6, StateParts DEF HasSons, LastSon
  <2>. QED
    BY <1>3, <1>5, <1>9, <1>14, <2>1, <2>2, <2>3, <2>4, <2>5 DEF PushedOn
<1>16. Moves(p, r)
  BY <1>8, <1>15, PushedMoves DEF BlockNames
<1>17. Moves(s, r)
  BY <1>8, <1>16, CalmMoves, MovesTrans
<1>. QED
  BY <1>5, <1>9, <1>14, <1>17 DEF n, r, F

\* The frame below the top of the stack.
LEMMA BelowTop ==
  ASSUME NEW s, Good(s), Last(s.frames).frame # "document"
  PROVE  LET below == Last(Front(s.frames)) IN
         /\ Len(s.frames) \in Nat /\ Len(s.frames) > 1 /\ below = s.frames[Len(s.frames) - 1]
         /\ Fits(Last(s.frames).frame, below.frame)
         /\ Last(s.frames).frame = "p" => HasSons(s, below.elt) /\ LastSon(s, below.elt) = Last(s.frames).elt
         /\ below.elt \in DOMAIN s.elts /\ s.elts[below.elt].name = NameOf(below.frame)
         /\ Last(s.frames).elt \in DOMAIN s.elts /\ s.elts[Last(s.frames).elt].name = NameOf(Last(s.frames).frame)
<1>. DEFINE m == Len(s.frames)
<1>1. s \in State /\ Stacked(s) /\ Named(s) /\ Fitted(s)
  BY DEF Good, Stacked
<1>2. /\ s.frames \in Seq(FrameType) /\ s.frames # <<>> /\ m \in Nat \ {0} /\ DOMAIN s.frames = 1..m
      /\ Last(s.frames) = s.frames[m]
  BY <1>1, TopOf, StateParts
<1>3. m > 1
  BY <1>1, <1>2 DEF Stacked
<1>4. Front(s.frames) \in Seq(FrameType) /\ Len(Front(s.frames)) = m - 1 /\ Front(s.frames)[m - 1] = s.frames[m - 1]
  BY <1>2, <1>3, PoppedAt
<1>5. Last(Front(s.frames)) = s.frames[m - 1]
  <2>1. \A f : Last(f) = f[Len(f)]
    BY DEF Last
  <2>. QED
    BY <1>4, <2>1
<1>6. m \in DOMAIN s.frames /\ m - 1 \in DOMAIN s.frames
  BY <1>2, <1>3
<1>7. /\ Fits(s.frames[m].frame, s.frames[m - 1].frame)
      /\ s.frames[m].frame = "p" => HasSons(s, s.frames[m - 1].elt) /\ LastSon(s, s.frames[m - 1].elt) = s.frames[m].elt
  BY <1>1, <1>3, <1>6 DEF Fitted
<1>8. \A i \in {m, m - 1} : s.frames[i].elt \in DOMAIN s.elts /\ s.elts[s.frames[i].elt].name = NameOf(s.frames[i].frame)
  BY <1>1, <1>6 DEF Named
<1>. QED
  BY <1>2, <1>3, <1>5, <1>7, <1>8

\* A paragraph starts or ends, or the stack is the same.
Breaks(s, r) ==
  \/ r.frames = s.frames /\ r.cur_lid = s.cur_lid
  \/ /\ \E f \in FrameType : f.frame = "p" /\ r.frames = Append(s.frames, f) /\ f.uid = s.cur_lid
     /\ r.cur_lid = s.cur_lid
  \/ Last(s.frames).frame = "p" /\ r.frames = Front(s.frames) /\ r.cur_lid = Last(s.frames).uid

\* What pops leave.
LEMMA PopMoves ==
  ASSUME NEW s, Good(s), NEW u, u = s.unfinished_par \/ u = 0 \/ (u \in DOMAIN s.elts /\ s.elts[u].name = "p"),
         Last(s.frames).frame \notin BlockNames \cup {"document"}
  PROVE  LET r == pop([s EXCEPT !.unfinished_par = u]) IN
         /\ Moves(s, r) /\ r.elts = s.elts /\ r.frames = Front(s.frames) /\ r.cur_lid = Last(s.frames).uid
         /\ top_stack(r) = Last(Front(s.frames)).elt /\ first_frame(r) = Last(Front(s.frames)).frame
<1>. DEFINE t == [s EXCEPT !.unfinished_par = u]
            r == pop(t)
<1>1. s \in State /\ Tree(s) /\ Stacked(s) /\ s.frames # <<>>
  BY DEF Good, Stacked
<1>2. (u # 0 => u \in DOMAIN s.elts /\ s.elts[u].name = "p") /\ DOMAIN s.elts \in SUBSET Nat
  BY <1>1, StateParts DEF Tree
<1>3. u \in Nat
  BY <1>2
<1>4. t \in State /\ t.elts = s.elts /\ t.frames = s.frames /\ t.unfinished_par = u
  BY <1>1, <1>3 DEF State
<1>. HIDE DEF t
<1>5. /\ r \in State /\ r.elts = s.elts /\ r.unfinished_par = u
      /\ r.frames = Front(s.frames) /\ r.mode = Last(s.frames).md /\ r.cur_lid = Last(s.frames).uid
  BY <1>1, <1>4, PopEffect DEF SameTree
<1>. HIDE DEF r
<1>6. PoppedFrom(s, r)
  BY <1>2, <1>5 DEF PoppedFrom
<1>7. Moves(s, r)
  BY <1>6, PoppedMoves
<1>8. top_stack(r) = Last(Front(s.frames)).elt /\ first_frame(r) = Last(Front(s.frames)).frame
  BY <1>5 DEF top_stack, first_frame
<1>. QED
  BY <1>5, <1>7, <1>8 DEF r, t

\* The last paragraph ends.
LEMMA LeaveHMoves ==
  ASSUME NEW s, Good(s)
  PROVE  LET r == leave_h_mode(s) IN
         /\ Moves(s, r) /\ Breaks(s, r) /\ first_frame(r) # "p" /\ r.mode # "h"
         /\ s.mode # "h" => r = s
<1>. DEFINE r == leave_h_mode(s)
            t == pop([s EXCEPT !.unfinished_par = 0])
            p == Last(Sons(t, top_stack(t)))
            q == IF is_empty_p(t, p) THEN pop_back(t) ELSE t
<1>1. CASE s.mode # "h"
  <2>1. r = s
    BY <1>1 DEF leave_h_mode
  <2>2. Moves(s, s)
    BY CalmRefl, CalmMoves
  <2>3. first_frame(s) # "p"
    BY <1>1, ModeOfTop DEF ModeFits
  <2>. QED
    BY <1>1, <2>1, <2>2, <2>3 DEF Breaks
<1>2. CASE s.mode = "h"
  <2>1. Last(s.frames).frame = "p"
    BY <1>2, ModeOfTop DEF ModeFits
  <2>2. /\ Moves(s, t) /\ t.elts = s.elts /\ t.frames = Front(s.frames) /\ t.cur_lid = Last(s.frames).uid
        /\ top_stack(t) = Last(Front(s.frames)).elt /\ first_frame(t) = Last(Front(s.frames)).frame
    BY <2>1, PopMoves DEF BlockNames
  <2>3. first_frame(t) # "p"
    BY <2>1, <2>2, BelowTop DEF Fits
  <2>4. HasSons(t, top_stack(t)) /\ p = LastSon(t, top_stack(t))
    BY <2>1, <2>2, BelowTop DEF HasSons, LastSon, Sons
  <2>5. r = add_nl(q)
    BY <1>2 DEF leave_h_mode
  <2>. HIDE DEF t, p, r
  <2>6. Calm(t, q)
    <3>1. is_empty_p(t, p) => MayTake(t, p)
      BY DEF is_empty_p, MayTake
    <3>2. Good(t)
      BY <2>2 DEF Moves
    <3>. QED
      BY <2>4, <3>1, <3>2, PopBackCalm, CalmRefl
  <2>. HIDE DEF q
  <2>7. Calm(t, r)
    BY <2>2, <2>5, <2>6, TextCalm, CalmTrans DEF Moves, Calm
  <2>8. Moves(s, r)
    BY <2>2, <2>7, CalmMoves, MovesTrans DEF Moves
  <2>9. r.frames = Front(s.frames) /\ r.cur_lid = Last(s.frames).uid /\ first_frame(r) # "p"
    BY <2>2, <2>3, <2>7 DEF Calm, first_frame
  <2>10. r.mode # "h"
    BY <2>8, <2>9, ModeOfTop DEF Moves, ModeFits
  <2>. QED
    BY <1>2, <2>1, <2>8, <2>9, <2>10 DEF Breaks, r
<1>. QED
  BY <1>1, <1>2

\* \par
LEMMA ParMoves ==
  ASSUME NEW s, Good(s)
  PROVE  Moves(s, T_par1(s)) /\ Breaks(s, T_par1(s))
<1>. DEFINE p == top_stack(s)
            t == pop([s EXCEPT !.unfinished_par = p])
            r == pop_back(t)
<1>1. CASE s.mode # "h"
  <2>1. T_par1(s) = s
    BY <1>1 DEF T_par1
  <2>. QED
    BY <2>1, CalmRefl, CalmMoves DEF Breaks
<1>2. CASE s.mode = "h" /\ Sons(s, p) # <<>>
  BY <1>2, LeaveHMoves DEF T_par1
<1>3. CASE s.mode = "h" /\ Sons(s, p) = <<>>
  <2>1. T_par1(s) = r
    BY <1>3 DEF T_par1
  <2>2. Last(s.frames).frame = "p" /\ p = Last(s.frames).elt
    BY <1>3, ModeOfTop DEF ModeFits, top_stack
  <2>3. p \in DOMAIN s.elts /\ s.elts[p].name = "p"
    BY <2>2, BelowTop DEF NameOf
  <2>4. /\ Moves(s, t) /\ t.elts = s.elts /\ t.frames = Front(s.frames) /\ t.cur_lid = Last(s.frames).uid
        /\ top_stack(t) = Last(Front(s.frames)).elt
    <3>. HIDE DEF p
    <3>. QED
      BY <2>2, <2>3, PopMoves DEF BlockNames
  <2>. HIDE DEF t, p
  <2>5. HasSons(t, top_stack(t)) /\ LastSon(t, top_stack(t)) = p
    BY <2>2, <2>4, BelowTop DEF HasSons, LastSon
  <2>6. MayTake(t, p)
    BY <2>3, <2>4 DEF MayTake
  <2>7. Calm(t, r)
    BY <2>4, <2>5, <2>6, PopBackCalm DEF Moves
  <2>8. Moves(s, r)
    BY <2>4, <2>7, CalmMoves, MovesTrans DEF Moves
  <2>9. r.frames = Front(s.frames) /\ r.cur_lid = Last(s.frames).uid
    BY <2>4, <2>7 DEF Calm
  <2>. QED
    BY <2>1, <2>2, <2>8, <2>9 DEF Breaks
<1>. QED
  BY <1>1, <1>2, <1>3

\* A paragraph starts in vertical mode.
LEMMA LeaveVMoves ==
  ASSUME NEW s, Good(s)
  PROVE  Moves(s, leave_v_mode(s)) /\ Breaks(s, leave_v_mode(s))
<1>1. CASE s.mode # "v"
  <2>1. leave_v_mode(s) = s
    BY <1>1 DEF leave_v_mode
  <2>. QED
    BY <2>1, CalmRefl, CalmMoves DEF Breaks
<1>2. CASE s.mode = "v"
  <2>. DEFINE r == ileave_v_mode(s)
  <2>1. leave_v_mode(s) = r
    BY <1>2 DEF leave_v_mode
  <2>2. first_frame(s) \notin {"p", "head", "hbox"}
    BY <1>2, ModeOfTop DEF ModeFits
  <2>. DEFINE F == FrameFor(s, "p", Len(s.elts) + 1)
  <2>3. Moves(s, r) /\ r.cur_lid = s.cur_lid /\ r.frames = Append(s.frames, F) /\ F \in FrameType
    BY <2>2, ParagraphMoves
  <2>4. F.frame = "p" /\ F.uid = s.cur_lid
    BY DEF FrameFor
  <2>. HIDE DEF r, F
  <2>5. Breaks(s, r)
    BY <2>3, <2>4 DEF Breaks
  <2>. QED
    BY <2>1, <2>3, <2>5
<1>. QED
  BY <1>1, <1>2

\* The end of a section or of an item.
LEMMA PopIfMoves ==
  ASSUME NEW s, Good(s), NEW f \in {"div0", "div1", "item"}
  PROVE  LET r == pop_if_frame(s, f) IN
         /\ Moves(s, r)
         /\ first_frame(s) # f => r = s
         /\ first_frame(s) = f => /\ r.elts = s.elts /\ first_frame(r) = Last(Front(s.frames)).frame
                                  /\ r.frames = Front(s.frames) /\ Fits(f, first_frame(r))
<1>. DEFINE r == pop_if_frame(s, f)
            t == [s EXCEPT !.unfinished_par = s.unfinished_par]
<1>1. CASE first_frame(s) # f
  <2>1. r = s
    BY <1>1 DEF pop_if_frame
  <2>. QED
    BY <1>1, <2>1, CalmRefl, CalmMoves
<1>2. CASE first_frame(s) = f
  <2>1. r = pop(s)
    BY <1>2 DEF pop_if_frame
  <2>2. t = s
    BY DEF Good, State
  <2>3. Last(s.frames).frame = f
    BY <1>2, ModeOfTop
  <2>4. LET q == pop(t) IN /\ Moves(s, q) /\ q.elts = s.elts /\ first_frame(q) = Last(Front(s.frames)).frame
                           /\ q.frames = Front(s.frames)
    BY <2>3, PopMoves DEF BlockNames
  <2>5. Fits(f, Last(Front(s.frames)).frame)
    BY <2>3, BelowTop
  <2>. HIDE DEF t, r
  <2>. QED
    BY <1>2, <2>1, <2>2, <2>4, <2>5 DEF r
<1>. QED
  BY <1>1, <1>2

\* A new box is not in the document.
LEMMA PushBoxGood ==
  ASSUME NEW s, Good(s), NEW r,
         r = WithMode(ipush(New(s, NameOf("hbox")), "hbox", get_xid(New(s, NameOf("hbox")))), "arg")
  PROVE  LET n == Len(s.elts) + 1 IN
         /\ Good(r) /\ Steady(s, r)
         /\ r.frames = Append(s.frames, FrameFor(s, "hbox", n)) /\ FrameFor(s, "hbox", n) \in FrameType
         /\ r.elts[n].id = NoId
         /\ r.cur_lid = s.cur_lid /\ s.frames \in Seq(FrameType)
<1>. DEFINE q == New(s, NameOf("hbox"))
            n == Len(s.elts) + 1
            p == ipush(q, "hbox", n)
            F == FrameFor(s, "hbox", n)
<1>1. s \in State /\ Stacked(s) /\ s.frames \in Seq(FrameType)
  BY StateParts DEF Good
<1>2. /\ Calm(s, q) /\ SameStack(s, q) /\ q \in State /\ Len(q.elts) = n /\ q.elts[n] = Element(NameOf("hbox"))
  <2>1. NameOf("hbox") \in ElementNames \ {"anchor"}
    BY Zenon DEF ElementNames, NameOf
  <2>. QED
    BY <2>1, NewCalm
<1>3. r = WithMode(p, "arg")
  BY <1>2 DEF get_xid
<1>. HIDE DEF q
<1>4. n \in Nat /\ n \in DOMAIN q.elts /\ n > top_stack(s) /\ top_stack(q) = top_stack(s)
  <2>1. Len(s.elts) \in Nat /\ top_stack(s) \in 1..Len(s.elts)
    BY <1>1, TopOf, StateParts
  <2>2. DOMAIN q.elts = 1..n
    BY <1>2, StateParts
  <2>. QED
    BY <1>2, <2>1, <2>2 DEF top_stack, SameStack
<1>. HIDE DEF n
<1>5. /\ p \in State /\ SameTree(q, p) /\ p.cur_lid = q.cur_lid /\ p.unfinished_par = q.unfinished_par
      /\ p.frames = Append(q.frames, FrameFor(q, "hbox", n)) /\ FrameFor(q, "hbox", n) \in FrameType
  <2>1. "hbox" \in FrameNames
    BY DEF FrameNames, BlockNames
  <2>. QED
    BY <1>2, <1>4, <2>1, IpushEffect
<1>6. FrameFor(q, "hbox", n) = F
  BY <1>2 DEF SameStack, FrameFor
<1>. HIDE DEF p, F
<1>7. /\ r \in State /\ r.elts = q.elts /\ r.cur_lid = q.cur_lid /\ r.unfinished_par = q.unfinished_par
      /\ r.frames = Append(q.frames, F) /\ F \in FrameType /\ r.mode = "arg"
  <2>1. "arg" \in Modes
    BY DEF Modes
  <2>. QED
    <3>1. /\ r \in State /\ SameTree(p, r) /\ r.frames = p.frames /\ r.mode = "arg"
          /\ r.cur_lid = p.cur_lid /\ r.unfinished_par = p.unfinished_par
      <4>. DEFINE v == WithMode(p, "arg")
      <4>1. /\ v \in State /\ SameTree(p, v) /\ v.frames = p.frames /\ v.mode = "arg"
            /\ v.cur_lid = p.cur_lid /\ v.unfinished_par = p.unfinished_par
        BY <1>5, <2>1, ModeEffect
      <4>2. r = v
        BY <1>3
      <4>. HIDE DEF v
      <4>. QED
        BY <4>1, <4>2
    <3>. QED
      BY <1>5, <1>6, <3>1 DEF SameTree
<1>8. PushedOn(q, r, "hbox", n)
  <2>1. q.elts[n].name = NameOf("hbox") /\ q.elts[n].sons = <<>> /\ q.elts[n].id = NoId
    BY <1>2 DEF Element
  <2>2. ~Anchored(q, n)
    <3>1. DOMAIN <<>> = {}
      OBVIOUS
    <3>. QED
      BY <2>1, <3>1 DEF Anchored, AnchorSons, Sons
  <2>3. ModeFits(r.mode, "hbox") /\ Fits("hbox", Last(q.frames).frame)
    BY <1>7 DEF ModeFits, Fits
  <2>. QED
    BY <1>4, <1>6, <1>7, <2>1, <2>2, <2>3 DEF PushedOn
<1>9. Good(q) /\ Steady(s, q)
  BY <1>2 DEF Calm
<1>10. Good(r) /\ Steady(q, r)
  BY <1>8, <1>9, PushedGood
<1>11. Steady(s, r)
  BY <1>1, <1>2, <1>7, <1>9, <1>10, SteadyTrans
<1>12. /\ Good(r) /\ Steady(s, r) /\ r.frames = Append(s.frames, F) /\ F \in FrameType
       /\ r.elts[n].id = NoId
       /\ r.cur_lid = s.cur_lid /\ s.frames \in Seq(FrameType)
  <2>1. r.elts[n].id = NoId
    BY <1>2, <1>7 DEF Element
  <2>. QED
    BY <1>1, <1>2, <1>7, <1>10, <1>11, <2>1 DEF SameStack
<1>. QED
  BY <1>12 DEF n, F

\* \label commands make the element on the top of the stack an anchor.
LEMMA AnchorMarks ==
  ASSUME NEW s, Good(s), NEW text \in Seq(Nat),
         top_stack(s) = Len(s.elts), s.elts[Len(s.elts)].name \in WithNumber, s.elts[Len(s.elts)].sons = <<>>,
         NEW r, r = add_new_anchor(s, text) \/ r = add_new_anchor_spec(s, text)
  PROVE  Marked(s, r, text)
<1>. DEFINE n == Len(s.elts)
            id == r.cur_lid
            es == [s.elts EXCEPT ![n].id = id, ![n].text = text]
<1>1. s \in State /\ s.elts \in Seq(Elt) /\ n \in Nat /\ DOMAIN s.elts = 1..n /\ n \in 1..n
      /\ s.last_label_id \in Nat /\ s.last_top_label_id \in Nat
  <2>1. s \in State /\ Stacked(s)
    BY DEF Good
  <2>. QED
    BY <2>1, TopOf, StateParts
<1>2. /\ r.elts = es /\ r.frames = s.frames /\ r.mode = s.mode /\ r.unfinished_par = s.unfinished_par
      /\ r.cur_lid \in {NextId(s), <<"cid", s.last_top_label_id + 1>>}
      /\ r.anchor_id = s.anchor_id
      /\ r.last_label_id \in {s.last_label_id, s.last_label_id + 1}
      /\ r.last_top_label_id \in {s.last_top_label_id, s.last_top_label_id + 1}
      /\ r = [s EXCEPT !.elts = es, !.cur_lid = r.cur_lid, !.last_label_id = r.last_label_id,
                       !.last_top_label_id = r.last_top_label_id]
  <2>1. CASE r = add_new_anchor(s, text)
    BY <1>1, <2>1 DEF add_new_anchor, create_new_anchor, WithNextId, get_xid, State
  <2>2. CASE r = add_new_anchor_spec(s, text)
    BY <1>1, <2>2 DEF add_new_anchor_spec, create_new_anchor, get_xid, State
  <2>. QED
    BY <2>1, <2>2
<1>3. id \in Ids /\ id # NoId
  BY <1>1, <1>2 DEF Ids, NoId, NextId
<1>. HIDE DEF id, n
<1>4. s.elts[n] \in Elt
  BY <1>1, StateParts
<1>5. [s.elts[n] EXCEPT !.id = id, !.text = text] \in Elt
  BY <1>3, <1>4 DEF Elt
<1>6. es = [s.elts EXCEPT ![n] = [s.elts[n] EXCEPT !.id = id, !.text = text]]
  BY <1>1
<1>7. es \in Seq(Elt) /\ Len(es) = n
  <2>. DEFINE v == [s.elts[n] EXCEPT !.id = id, !.text = text]
  <2>1. v \in Elt /\ es = [s.elts EXCEPT ![n] = v] /\ n \in DOMAIN s.elts
    BY <1>1, <1>5, <1>6
  <2>. HIDE DEF v, es
  <2>2. es \in Seq(Elt) /\ Len(es) = Len(s.elts)
    BY <1>1, <2>1, ExceptSeq
  <2>. QED
    BY <2>2 DEF n
<1>8. r \in State
  <2>. HIDE DEF es
  <2>1. r.cur_lid \in Ids /\ r.last_label_id \in Nat /\ r.last_top_label_id \in Nat
    BY <1>1, <1>2, <1>3 DEF id
  <2>2. r = [s EXCEPT !.elts = es, !.cur_lid = r.cur_lid, !.last_label_id = r.last_label_id,
                      !.last_top_label_id = r.last_top_label_id]
    BY <1>2
  <2>. QED
    BY <1>1, <1>7, <2>1, <2>2 DEF State
<1>9. /\ \A e \in 1..n : es[e].name = s.elts[e].name /\ es[e].sons = s.elts[e].sons
      /\ \A e \in 1..n : e # n => es[e].id = s.elts[e].id /\ es[e].text = s.elts[e].text
      /\ es[n].id = id /\ es[n].text = text
  BY <1>1, <1>4, <1>6 DEF Elt
<1>. HIDE DEF es
<1>10. /\ r \in State /\ Len(r.elts) = n /\ r.frames = s.frames /\ r.mode = s.mode
       /\ r.unfinished_par = s.unfinished_par
       /\ top_stack(s) = n /\ s.elts[n].name \in WithNumber /\ s.elts[n].sons = <<>>
       /\ \A e \in 1..n : r.elts[e].name = s.elts[e].name /\ r.elts[e].sons = s.elts[e].sons
       /\ \A e \in 1..n : e # n => r.elts[e].id = s.elts[e].id /\ r.elts[e].text = s.elts[e].text
       /\ r.elts[n].id = r.cur_lid /\ r.cur_lid # NoId /\ r.elts[n].text = text
  BY <1>2, <1>3, <1>7, <1>8, <1>9 DEF n, id
<1>. QED
  BY <1>10 DEF Marked, n

\* A new anchor is added to the top of the stack.
Dropped(s, r) ==
  LET t == top_stack(s)
      n == Len(s.elts) + 1
  IN /\ r \in State /\ Len(r.elts) = n /\ r.frames = s.frames /\ r.mode = s.mode
     /\ r.unfinished_par = s.unfinished_par
     /\ \A e \in 1..Len(s.elts) : /\ r.elts[e].name = s.elts[e].name /\ r.elts[e].id = s.elts[e].id
                                  /\ r.elts[e].text = s.elts[e].text
                                  /\ e # t => r.elts[e].sons = s.elts[e].sons
     /\ r.elts[t].sons = Append(s.elts[t].sons, n)
     /\ r.elts[n].name = "anchor" /\ r.elts[n].id = r.cur_lid /\ r.elts[n].sons = <<>>

\* The invariant holds after a box is taken off the stack.
LEMMA DroppedGood ==
  ASSUME NEW s, Good(s), NEW r, Dropped(s, r)
  PROVE  Good(r) /\ Counts(s, r)
<1>. DEFINE m == Len(s.frames)
            t == top_stack(s)
            n == Len(s.elts) + 1
            a == s.elts[t].sons
            b == r.elts[t].sons
<1>1. s \in State /\ Tree(s) /\ Stacked(s) /\ Named(s) /\ Ordered(s) /\ Fitted(s) /\ Scoped(s)
  BY DEF Good, Stacked
<1>2. /\ r \in State /\ Len(r.elts) = n /\ r.frames = s.frames /\ r.mode = s.mode
      /\ r.unfinished_par = s.unfinished_par
      /\ r.elts[n].name = "anchor" /\ r.elts[n].id = r.cur_lid /\ r.elts[n].sons = <<>>
      /\ b = Append(a, n)
  BY DEF Dropped
<1>3. /\ m \in Nat \ {0} /\ m \in 1..m /\ DOMAIN s.frames = 1..m /\ t = s.frames[m].elt /\ t \in 1..Len(s.elts)
      /\ \A i \in 1..m : i # m => s.frames[i].elt # t
      /\ Len(s.elts) \in Nat /\ DOMAIN s.elts = 1..Len(s.elts) /\ n \in Nat /\ DOMAIN r.elts = 1..n
      /\ \A e \in 1..Len(s.elts) : e \in 1..n /\ e # n
  <2>1. /\ m \in DOMAIN s.frames /\ t = s.frames[m].elt /\ t \in DOMAIN s.elts /\ m \in Nat \ {0}
        /\ \A i \in DOMAIN s.frames : i # m => s.frames[i].elt # t
    BY <1>1, TopOf
  <2>2. DOMAIN s.frames = 1..m /\ Len(s.elts) \in Nat /\ DOMAIN s.elts = 1..Len(s.elts)
    BY <1>1, StateParts
  <2>3. DOMAIN r.elts = 1..n
    BY <1>2, StateParts
  <2>. QED
    BY <2>1, <2>2, <2>3
<1>4. \A e \in 1..Len(s.elts) : /\ r.elts[e].name = s.elts[e].name /\ r.elts[e].id = s.elts[e].id
                                /\ r.elts[e].text = s.elts[e].text
                                /\ e # t => r.elts[e].sons = s.elts[e].sons
  BY DEF Dropped
<1>5. /\ a \in Seq(Int) /\ Len(a) \in Nat /\ DOMAIN a = 1..Len(a)
      /\ DOMAIN b = 1..(Len(a) + 1) /\ b[Len(a) + 1] = n /\ \A k \in 1..Len(a) : b[k] = a[k]
  <2>1. a \in Seq(Int) /\ n \in Int
    BY <1>1, <1>3, StateParts
  <2>. HIDE DEF a, b, n
  <2>. QED
    BY <1>2, <2>1, PushedAt
<1>. HIDE DEF n, m, a, b, t
<1>6. \A e \in 1..Len(s.elts) : \A k \in DOMAIN s.elts[e].sons :
         k \in DOMAIN r.elts[e].sons /\ r.elts[e].sons[k] = s.elts[e].sons[k]
  <2>. SUFFICES ASSUME NEW e \in 1..Len(s.elts), NEW k \in DOMAIN s.elts[e].sons
                PROVE  k \in DOMAIN r.elts[e].sons /\ r.elts[e].sons[k] = s.elts[e].sons[k]
    OBVIOUS
  <2>1. CASE e = t
    <3>1. r.elts[e].sons = b /\ s.elts[e].sons = a
      BY <2>1 DEF a, b
    <3>2. k \in 1..Len(a)
      BY <1>5, <3>1
    <3>. QED
      BY <1>5, <3>1, <3>2
  <2>2. CASE e # t
    BY <1>4, <2>2
  <2>. QED
    BY <2>1, <2>2
<1>7. \A e \in 1..n : \A k \in DOMAIN r.elts[e].sons :
         \/ e \in 1..Len(s.elts) /\ k \in DOMAIN s.elts[e].sons /\ r.elts[e].sons[k] = s.elts[e].sons[k]
         \/ e = t /\ k = Len(a) + 1 /\ r.elts[e].sons[k] = n
  <2>. SUFFICES ASSUME NEW e \in 1..n, NEW k \in DOMAIN r.elts[e].sons
                PROVE  \/ e \in 1..Len(s.elts) /\ k \in DOMAIN s.elts[e].sons /\ r.elts[e].sons[k] = s.elts[e].sons[k]
                       \/ e = t /\ k = Len(a) + 1 /\ r.elts[e].sons[k] = n
    OBVIOUS
  <2>1. CASE e = t
    <3>1. k \in DOMAIN b /\ r.elts[e].sons[k] = b[k] /\ s.elts[e].sons = a
      BY <2>1 DEF a, b
    <3>2. k \in 1..Len(a) \/ k = Len(a) + 1
      BY <1>5, <3>1
    <3>. QED
      BY <1>3, <1>5, <2>1, <3>1, <3>2
  <2>2. CASE e = n
    <3>1. DOMAIN <<>> = {}
      OBVIOUS
    <3>. QED
      BY <1>2, <2>2, <3>1
  <2>3. CASE e # t /\ e # n
    <3>1. e \in 1..Len(s.elts)
      BY <1>3, <2>3 DEF n
    <3>. QED
      BY <1>4, <2>3, <3>1
  <2>. QED
    BY <2>1, <2>2, <2>3
<1>8. Tree(r)
  <2>1. \A e \in 1..n : r.elts[e].name = "p" => r.elts[e].id = NoId
    <3>. TAKE e \in 1..n
    <3>1. CASE e = n
      BY <1>2, <3>1
    <3>2. CASE e # n
      <4>1. e \in 1..Len(s.elts)
        BY <1>3, <3>2 DEF n
      <4>. QED
        BY <1>1, <1>3, <1>4, <4>1 DEF Tree
    <3>. QED
      BY <3>1, <3>2
  <2>2. ASSUME NEW e \in 1..n, NEW k \in DOMAIN r.elts[e].sons, NEW son, son = r.elts[e].sons[k]
        PROVE  /\ son \in 1..n \cup {Text, Newline}
               /\ son > 0 /\ r.elts[son].name = "p" => e < son
               /\ son > 0 /\ r.elts[son].name = "item" => r.elts[e].name = "list"
    <3>1. CASE e \in 1..Len(s.elts) /\ k \in DOMAIN s.elts[e].sons /\ son = s.elts[e].sons[k]
      <4>1. /\ son \in DOMAIN s.elts \cup {Text, Newline}
            /\ son > 0 /\ s.elts[son].name = "p" => e < son
            /\ son > 0 /\ s.elts[son].name = "item" => s.elts[e].name = "list"
        BY <1>1, <1>3, <3>1 DEF Tree
      <4>. QED
        BY <1>3, <1>4, <3>1, <4>1 DEF Text, Newline
    <3>2. CASE son = n
      BY <1>2, <1>3, <3>2
    <3>. QED
      BY <1>7, <2>2, <3>1, <3>2
  <2>3. r.unfinished_par # 0 => r.unfinished_par \in 1..n /\ r.elts[r.unfinished_par].name = "p"
    BY <1>1, <1>2, <1>3, <1>4 DEF Tree
  <2>. QED
    BY <1>3, <2>1, <2>2, <2>3 DEF Tree
<1>9. \A i : ModeAt(r, i) = ModeAt(s, i)
  BY <1>2 DEF ModeAt
<1>10. Named(r)
  <2>. SUFFICES ASSUME NEW i \in 1..m
                PROVE  /\ r.frames[i].elt \in DOMAIN r.elts
                       /\ r.elts[r.frames[i].elt].name = NameOf(r.frames[i].frame)
                       /\ ModeFits(ModeAt(r, i + 1), r.frames[i].frame)
    BY <1>2, <1>3 DEF Named
  <2>1. /\ s.frames[i].elt \in 1..Len(s.elts)
        /\ s.elts[s.frames[i].elt].name = NameOf(s.frames[i].frame)
        /\ ModeFits(ModeAt(s, i + 1), s.frames[i].frame)
    BY <1>1, <1>3 DEF Named
  <2>. QED
    BY <1>2, <1>3, <1>4, <1>9, <2>1
<1>11. Ordered(r)
  BY <1>1, <1>2 DEF Ordered
<1>12. Fitted(r)
  <2>. SUFFICES ASSUME NEW i \in 1..m, i > 1
                PROVE  /\ Fits(s.frames[i].frame, s.frames[i - 1].frame)
                       /\ s.frames[i].frame = "p" => HasSons(r, s.frames[i - 1].elt) /\ LastSon(r, s.frames[i - 1].elt) = s.frames[i].elt
    BY <1>2, <1>3 DEF Fitted
  <2>1. i - 1 \in 1..m /\ i - 1 # m
    BY <1>3
  <2>2. s.frames[i - 1].elt \in 1..Len(s.elts) /\ s.frames[i - 1].elt # t
    BY <1>1, <1>3, <2>1 DEF Named
  <2>3. r.elts[s.frames[i - 1].elt].sons = s.elts[s.frames[i - 1].elt].sons
    BY <1>4, <2>2
  <2>4. /\ Fits(s.frames[i].frame, s.frames[i - 1].frame)
        /\ s.frames[i].frame = "p" => HasSons(s, s.frames[i - 1].elt) /\ LastSon(s, s.frames[i - 1].elt) = s.frames[i].elt
    BY <1>1, <1>3 DEF Fitted
  <2>. QED
    BY <2>3, <2>4 DEF HasSons, LastSon
<1>13. Stacked(r)
  BY <1>1, <1>2, <1>10, <1>11, <1>12 DEF Stacked
<1>14. Keeps(s, r)
  BY <1>2, <1>3, <1>4 DEF Keeps, n
<1>15. \A e \in 1..Len(s.elts) : e # t => (Anchored(r, e) <=> Anchored(s, e)) /\ LastAnchor(r, e) = LastAnchor(s, e)
  <2>. SUFFICES ASSUME NEW e \in 1..Len(s.elts), e # t
                PROVE  (Anchored(r, e) <=> Anchored(s, e)) /\ LastAnchor(r, e) = LastAnchor(s, e)
    OBVIOUS
  <2>1. SameAnchors(s, r, e)
    BY <1>4 DEF SameAnchors
  <2>. QED
    BY <1>2, <1>3, <1>14, <2>1, AnchorsKept
<1>16. Anchored(r, t) /\ LastAnchor(r, t) = r.cur_lid
  <2>. DEFINE A == AnchorSons(r, t)
              M == Len(a) + 1
  <2>1. A = { k \in DOMAIN b : is_anchor(r, b[k]) }
    BY DEF AnchorSons, Sons, b
  <2>2. is_anchor(r, n) /\ M \in DOMAIN b /\ b[M] = n /\ M \in Nat /\ DOMAIN b = 1..M
    BY <1>2, <1>3, <1>5 DEF is_anchor, n
  <2>. HIDE DEF A, M
  <2>3. M \in A /\ A \in SUBSET (1..M) /\ \A i \in A : i <= M
    BY <2>1, <2>2
  <2>4. Max(A) = M
    BY <2>2, <2>3, MaxIs
  <2>5. A # {}
    BY <2>3
  <2>. QED
    BY <1>2, <2>2, <2>4, <2>5 DEF Anchored, LastAnchor, Sons, A, b
<1>17. Scoped(r)
  <2>1. \A i \in 1..m : UidAt(r, i) = UidAt(s, i)
    BY <1>2, <1>3 DEF UidAt, m
  <2>2. UidAt(r, m + 1) = r.cur_lid
    BY <1>2, <1>3 DEF UidAt, m
  <2>3. ASSUME NEW i \in 1..m, NEW e, e = s.frames[i].elt
        PROVE  UidAt(r, i + 1) = IF Anchored(r, e) THEN LastAnchor(r, e) ELSE UidAt(r, i)
    <3>1. CASE i = m
      BY <1>3, <1>16, <2>2, <2>3, <3>1
    <3>2. CASE i # m
      <4>1. i + 1 \in 1..m /\ e # t /\ e \in 1..Len(s.elts)
        <5>1. i + 1 \in 1..m /\ e # t
          BY <1>3, <2>3, <3>2
        <5>2. e \in DOMAIN s.elts
          BY <1>1, <1>3, <2>3 DEF Named
        <5>. QED
          BY <1>3, <5>1, <5>2
      <4>2. UidAt(s, i + 1) = IF Anchored(s, e) THEN LastAnchor(s, e) ELSE UidAt(s, i)
        BY <1>1, <1>3, <2>3 DEF Scoped
      <4>. QED
        BY <1>15, <2>1, <4>1, <4>2
    <3>. QED
      BY <3>1, <3>2
  <2>4. r.frames[1].uid = <<"uid", 1>>
    BY <1>1, <1>2 DEF Scoped
  <2>. QED
    BY <1>2, <1>3, <2>3, <2>4 DEF Scoped
<1>18. \A e \in 1..Len(s.elts) : ItemsOf(r, e) = ItemsOf(s, e)
  <2>. SUFFICES ASSUME NEW e \in 1..Len(s.elts) PROVE ItemsOf(r, e) = ItemsOf(s, e)
    OBVIOUS
  <2>1. ASSUME NEW f \in ItemsOf(s, e) PROVE f \in ItemsOf(r, e)
    <3>1. PICK k \in DOMAIN s.elts[e].sons : s.elts[e].sons[k] = f
      BY <2>1 DEF ItemsOf
    <3>2. f \in 1..Len(s.elts) /\ s.elts[f].name = "item" /\ s.elts[f].text # <<>>
      BY <1>3, <2>1 DEF ItemsOf
    <3>. QED
      BY <1>3, <1>4, <1>6, <3>1, <3>2 DEF ItemsOf
  <2>2. ASSUME NEW f \in ItemsOf(r, e) PROVE f \in ItemsOf(s, e)
    <3>1. PICK k \in DOMAIN r.elts[e].sons : r.elts[e].sons[k] = f
      BY <2>2 DEF ItemsOf
    <3>2. f \in 1..n /\ r.elts[f].name = "item" /\ r.elts[f].text # <<>>
      BY <1>3, <2>2 DEF ItemsOf
    <3>3. f # n
      BY <1>2, <3>2
    <3>4. f \in 1..Len(s.elts)
      BY <1>3, <3>2, <3>3 DEF n
    <3>5. k \in DOMAIN s.elts[e].sons /\ s.elts[e].sons[k] = f
      BY <1>3, <1>7, <3>1, <3>3
    <3>. QED
      BY <1>3, <1>4, <3>2, <3>4, <3>5 DEF ItemsOf
  <2>. QED
    BY <2>1, <2>2
<1>19. Counts(s, r)
  <2>1. ASSUME NEW e \in 1..Len(r.elts), e > Len(s.elts)
        PROVE  ItemsOf(r, e) = {} /\ (r.elts[e].name \in WithNumber => r.elts[e].text = <<>>)
    <3>1. e = n
      BY <1>2, <1>3, <2>1 DEF n
    <3>2. DOMAIN <<>> = {}
      OBVIOUS
    <3>. QED
      BY <1>2, <3>1, <3>2 DEF ItemsOf, WithNumber
  <2>. QED
    BY <1>14, <1>18, <2>1 DEF Counts
<1>. QED
  BY <1>2, <1>8, <1>13, <1>17, <1>19 DEF Good

\* \anchor adds an anchor, unless there is one.
LEMMA AnchorDrops ==
  ASSUME NEW s, Good(s), NEW text \in Seq(Nat), NEW r, r = add_anchor(s, text, FALSE)
  PROVE  r = s \/ Dropped(s, r)
<1>1. CASE tail_is_anchor(s)
  BY <1>1 DEF add_anchor
<1>2. CASE ~tail_is_anchor(s)
  <2>. DEFINE w == WithNextId(s)
              t == top_stack(s)
              n == Len(s.elts) + 1
              v == New(w, "anchor")
              q == add_last(v, n)
              id == NextId(s)
              es == [q.elts EXCEPT ![n].id = id, ![n].text = text]
  <2>1. s \in State /\ Stacked(s) /\ s.last_label_id \in Nat
    BY StateParts DEF Good
  <2>2. id \in Ids
    BY <2>1 DEF Ids, NextId
  <2>3. /\ w \in State /\ w.elts = s.elts /\ w.frames = s.frames /\ w.mode = s.mode /\ w.cur_lid = id
        /\ w.unfinished_par = s.unfinished_par
    <3>. DEFINE k == s.last_label_id + 1
    <3>1. w = [s EXCEPT !.cur_lid = id, !.last_label_id = k] /\ k \in Nat
      BY <2>1 DEF WithNextId
    <3>. HIDE DEF w, id, k
    <3>. QED
      BY <2>1, <2>2, <3>1 DEF State
  <2>. HIDE DEF w, id
  <2>4. /\ v \in State /\ SameStack(w, v) /\ Len(v.elts) = n /\ v.elts[n] = Element("anchor")
        /\ \A e \in 1..Len(s.elts) : v.elts[e] = s.elts[e]
    <3>1. "anchor" \in ElementNames
      BY Zenon DEF ElementNames
    <3>. QED
      BY <2>3, <3>1, NewEffect
  <2>5. add_newid0(w, "anchor") = q
    BY <2>4 DEF add_newid0, get_xid
  <2>. HIDE DEF v
  <2>6. /\ t \in 1..Len(s.elts) /\ top_stack(v) = t /\ n \in Nat /\ n \in 1..n /\ Len(s.elts) \in Nat
        /\ DOMAIN v.elts = 1..n /\ \A e \in 1..Len(s.elts) : e \in 1..n /\ e # n
    <3>1. t \in 1..Len(s.elts) /\ Len(s.elts) \in Nat
      BY <2>1, TopOf, StateParts
    <3>2. top_stack(v) = t
      BY <2>3, <2>4 DEF top_stack, SameStack
    <3>3. DOMAIN v.elts = 1..n
      BY <2>4, StateParts
    <3>. QED
      BY <3>1, <3>2, <3>3
  <2>. HIDE DEF t, n
  <2>7. q \in State /\ SameStack(v, q) /\ OtherSons(v, q, t, Append(Sons(v, t), n))
    BY <2>4, <2>6, AddLastEffect
  <2>8. Len(q.elts) = n /\ DOMAIN q.elts = 1..n /\ q.elts \in Seq(Elt) /\ q.elts[n] \in Elt
    <3>1. Len(q.elts) = n
      BY <2>4, <2>7 DEF OtherSons
    <3>. QED
      BY <2>6, <2>7, <3>1, StateParts
  <2>. HIDE DEF q
  <2>9. q.elts[n].name = "anchor" /\ q.elts[n].sons = <<>>
    <3>1. q.elts[n] = Element("anchor")
      BY <2>4, <2>6, <2>7 DEF OtherSons
    <3>. QED
      BY <3>1 DEF Element
  <2>10. r = [q EXCEPT !.elts = es]
    <3>1. r = create_new_anchor(q, get_xid(q), NextId(s), text)
      BY <1>2, <2>5 DEF add_anchor, w
    <3>2. r = create_new_anchor(q, n, id, text)
      BY <2>8, <3>1 DEF get_xid, id
    <3>. QED
      BY <2>7, <3>2 DEF create_new_anchor, State
  <2>11. es = [q.elts EXCEPT ![n] = [q.elts[n] EXCEPT !.id = id, !.text = text]]
    BY <2>6, <2>8
  <2>12. es \in Seq(Elt) /\ Len(es) = n
    <3>. DEFINE z == [q.elts[n] EXCEPT !.id = id, !.text = text]
    <3>1. z \in Elt /\ es = [q.elts EXCEPT ![n] = z] /\ n \in DOMAIN q.elts
      BY <2>2, <2>6, <2>8, <2>11 DEF Elt
    <3>. HIDE DEF z, es
    <3>. QED
      BY <2>8, <3>1, ExceptSeq
  <2>13. r \in State /\ SameStack(q, r) /\ r.elts = es
    <3>. HIDE DEF es
    <3>. QED
      BY <2>7, <2>10, <2>12 DEF State, SameStack
  <2>14. /\ es[n].name = "anchor" /\ es[n].sons = <<>> /\ es[n].id = id
         /\ \A e \in 1..n : e # n => es[e] = q.elts[e]
    BY <2>6, <2>8, <2>9, <2>11 DEF Elt
  <2>. HIDE DEF es
  <2>15. \A e \in 1..Len(s.elts) : /\ q.elts[e].name = s.elts[e].name /\ q.elts[e].id = s.elts[e].id
                                   /\ q.elts[e].text = s.elts[e].text
                                   /\ e # t => q.elts[e].sons = s.elts[e].sons
    <3>1. \A e \in 1..Len(s.elts) : e \in 1..Len(v.elts) /\ v.elts[e] = s.elts[e]
      BY <2>4, <2>6
    <3>2. /\ \A e \in 1..Len(v.elts) : e # t => q.elts[e] = v.elts[e]
          /\ q.elts[t].name = v.elts[t].name /\ q.elts[t].id = v.elts[t].id /\ q.elts[t].text = v.elts[t].text
      BY <2>7 DEF OtherSons
    <3>. QED
      BY <2>6, <3>1, <3>2
  <2>16. q.elts[t].sons = Append(s.elts[t].sons, n)
    BY <2>4, <2>6, <2>7 DEF OtherSons, Sons
  <2>17. /\ r \in State /\ Len(r.elts) = n /\ r.frames = s.frames /\ r.mode = s.mode
         /\ r.unfinished_par = s.unfinished_par /\ r.cur_lid = id
    BY <2>3, <2>4, <2>7, <2>12, <2>13 DEF SameStack
  <2>18. \A e \in 1..Len(s.elts) : r.elts[e] = q.elts[e]
    BY <2>6, <2>13, <2>14
  <2>19. r.elts[t].sons = Append(s.elts[t].sons, n) /\ r.elts[n].name = "anchor" /\ r.elts[n].id = r.cur_lid
         /\ r.elts[n].sons = <<>>
    BY <2>6, <2>13, <2>14, <2>16, <2>17, <2>18
  <2>. QED
    BY <2>15, <2>17, <2>18, <2>19 DEF Dropped, t, n
<1>. QED
  BY <1>1, <1>2

\* \anchor without a star keeps the invariant: the new son is the current anchor.
LEMMA AnchorMoves ==
  ASSUME NEW s, Good(s), NEW text \in Seq(Nat), NEW r, r = add_anchor(s, text, FALSE)
  PROVE  Good(r) /\ Counts(s, r) /\ r.frames = s.frames
<1>1. Counts(s, s) /\ s.frames = s.frames
  BY CalmRefl DEF Calm, Steady
<1>2. Dropped(s, r) => Good(r) /\ Counts(s, r) /\ r.frames = s.frames
  BY DroppedGood DEF Dropped
<1>. QED
  BY <1>1, <1>2, AnchorDrops

\* A counter of the tree, or the paragraph that is not finished, may change.
LEMMA SameMoves ==
  ASSUME NEW s, Good(s), NEW r \in State, r.elts = s.elts, r.frames = s.frames, r.cur_lid = s.cur_lid, r.mode = s.mode,
         r.unfinished_par \in {0, s.unfinished_par}
  PROVE  Calm(s, r)
<1>1. ModeFits(r.mode, Last(s.frames).frame)
  BY ModeOfTop
<1>2. Good(r) /\ Steady(s, r)
  BY <1>1, OtherMode
<1>. QED
  BY <1>2 DEF Calm

\* The only paragraph of an element that is not on the stack is opened.
LEMMA OpenedMoves ==
  ASSUME NEW s, Good(s), NEW e \in DOMAIN s.elts, top_stack(s) < e,
         NEW r, r = remove_par_bal_if_ok(s, e)
  PROVE  Moves(s, r) /\ r.frames = s.frames /\ r.cur_lid = s.cur_lid
<1>. DEFINE single == { p \in DOMAIN s.elts : only_son(s, e, p) /\ s.elts[p].name = "p" }
            p == CHOOSE q \in single : TRUE
            es == [s.elts EXCEPT ![e].sons = Sons(s, p), ![p].sons = <<>>]
            n == Len(s.elts)
            m == Len(s.frames)
<1>1. CASE single = {}
  <2>1. r = s
    BY <1>1 DEF remove_par_bal_if_ok
  <2>. QED
    BY <2>1, CalmRefl, CalmMoves
<1>2. CASE single # {}
  <2>1. /\ s \in State /\ Tree(s) /\ Stacked(s) /\ Named(s) /\ Ordered(s) /\ Fitted(s) /\ Scoped(s)
    BY DEF Good, Stacked
  <2>2. /\ s.elts \in Seq(Elt) /\ n \in Nat /\ DOMAIN s.elts = 1..n /\ m \in Nat /\ DOMAIN s.frames = 1..m
    BY <2>1, StateParts
  <2>3. p \in single
    BY <1>2
  <2>4. p \in 1..n /\ s.elts[p].name = "p" /\ only_son(s, e, p)
    BY <2>2, <2>3
  <2>5. r = [s EXCEPT !.elts = es]
    <3>1. r = [s EXCEPT !.elts[e].sons = Sons(s, p), !.elts[p].sons = <<>>]
      BY <1>2 DEF remove_par_bal_if_ok
    <3>. HIDE DEF p
    <3>. QED
      BY <2>1, <3>1 DEF State
  <2>. HIDE DEF p, single, n, m
  <2>6. e < p /\ \A k \in DOMAIN s.elts[e].sons : s.elts[e].sons[k] \in {p, Newline}
    <3>1. PICK k \in DOMAIN Sons(s, e) : Sons(s, e)[k] = p /\ \A j \in DOMAIN Sons(s, e) : j # k => Sons(s, e)[j] = Newline
      BY <2>4 DEF only_son
    <3>2. e < p
      <4>1. k \in DOMAIN s.elts[e].sons /\ s.elts[e].sons[k] = p /\ p > 0
        BY <2>2, <2>4, <3>1 DEF Sons
      <4>. QED
        BY <2>1, <2>4, <4>1 DEF Tree
    <3>. QED
      BY <3>1, <3>2 DEF Sons
  <2>7. e \in 1..n /\ e # p /\ top_stack(s) < e /\ \A i \in 1..m : s.frames[i].elt \in 1..n /\ s.frames[i].elt # e /\ s.frames[i].elt # p
    <3>1. top_stack(s) \in DOMAIN s.elts /\ \A i \in DOMAIN s.frames : i # Len(s.frames) => s.frames[i].elt < top_stack(s)
      BY <2>1, TopOf
    <3>2. top_stack(s) = s.frames[m].elt
      BY <2>1, TopOf DEF m
    <3>3. \A i \in 1..m : s.frames[i].elt \in 1..n
      BY <2>1, <2>2 DEF Named
    <3>4. \A i \in 1..m : s.frames[i].elt < top_stack(s) \/ s.frames[i].elt = top_stack(s)
      BY <2>2, <3>1, <3>2 DEF m
    <3>5. e \in 1..n /\ top_stack(s) < e /\ top_stack(s) \in 1..n
      BY <2>2, <3>1
    <3>6. e # p
      BY <2>2, <2>6
    <3>. QED
      BY <2>2, <2>4, <2>6, <3>3, <3>4, <3>5, <3>6
  <2>8. s.elts[e] \in Elt /\ s.elts[p] \in Elt /\ s.elts[p].sons \in Seq(Int) /\ <<>> \in Seq(Int)
    BY <2>1, <2>2, <2>4, StateParts, EmptySeq
  <2>9. /\ es \in Seq(Elt) /\ Len(es) = n
        /\ es[e] = [s.elts[e] EXCEPT !.sons = s.elts[p].sons] /\ es[p] = [s.elts[p] EXCEPT !.sons = <<>>]
        /\ \A d \in 1..n : d \notin {e, p} => es[d] = s.elts[d]
    <3>. DEFINE y == [s.elts[e] EXCEPT !.sons = s.elts[p].sons]
                z == [s.elts[p] EXCEPT !.sons = <<>>]
                fs == [s.elts EXCEPT ![e] = y]
                gs == [fs EXCEPT ![p] = z]
    <3>1. y \in Elt /\ z \in Elt
      BY <2>8 DEF Elt
    <3>2. es = gs
      BY <2>2, <2>4, <2>7 DEF Sons
    <3>. HIDE DEF y, z, es
    <3>3. fs \in Seq(Elt) /\ Len(fs) = Len(s.elts)
      BY <2>2, <3>1, ExceptSeq
    <3>4. DOMAIN fs = 1..n
      BY <2>2
    <3>5. fs[e] = y /\ \A d \in 1..n : d # e => fs[d] = s.elts[d]
      BY <2>2, <2>7
    <3>. HIDE DEF fs
    <3>6. gs \in Seq(Elt) /\ Len(gs) = Len(fs)
      <4>1. p \in 1..Len(fs) /\ fs \in Seq(Elt) /\ z \in Elt
        BY <2>4, <3>1, <3>3 DEF n
      <4>. QED
        BY <4>1, ExceptSeq
    <3>7. gs[p] = z /\ \A d \in 1..n : d # p => gs[d] = fs[d]
      BY <2>4, <3>4
    <3>. HIDE DEF gs
    <3>8. gs[e] = y /\ \A d \in 1..n : d \notin {e, p} => gs[d] = s.elts[d]
      BY <2>7, <3>5, <3>7
    <3>. QED
      BY <3>2, <3>3, <3>6, <3>7, <3>8 DEF n, y, z
  <2>. HIDE DEF es
  <2>10. /\ r \in State /\ r.elts = es /\ SameStack(s, r)
    BY <2>1, <2>5, <2>9 DEF State, SameStack
  <2>11. \A d \in 1..n : /\ es[d].name = s.elts[d].name /\ es[d].id = s.elts[d].id /\ es[d].text = s.elts[d].text
                         /\ d \notin {e, p} => es[d].sons = s.elts[d].sons
    <3>1. \A f \in Elt : \A q : LET g == [f EXCEPT !.sons = q] IN g.name = f.name /\ g.id = f.id /\ g.text = f.text
      BY DEF Elt
    <3>2. /\ es[e].name = s.elts[e].name /\ es[e].id = s.elts[e].id /\ es[e].text = s.elts[e].text
          /\ es[p].name = s.elts[p].name /\ es[p].id = s.elts[p].id /\ es[p].text = s.elts[p].text
      BY <2>8, <2>9, <3>1
    <3>. QED
      BY <2>9, <3>2
  <2>12. es[e].sons = s.elts[p].sons /\ es[p].sons = <<>> /\ DOMAIN <<>> = {}
    <3>1. es[e].sons = s.elts[p].sons /\ es[p].sons = <<>>
      BY <2>8, <2>9 DEF Elt
    <3>2. DOMAIN <<>> = {}
      OBVIOUS
    <3>. QED
      BY <3>1, <3>2
  <2>13. DOMAIN r.elts = 1..n /\ r.elts = es /\ Len(r.elts) = n
    BY <2>9, <2>10, StateParts
  <2>14. Keeps(s, r)
    BY <2>2, <2>11, <2>13 DEF Keeps, n
  <2>15. \A k \in DOMAIN s.elts[p].sons :
            LET son == s.elts[p].sons[k]
            IN /\ son \in 1..n \cup {Text, Newline}
               /\ son > 0 /\ s.elts[son].name = "p" => p < son
               /\ son > 0 => s.elts[son].name # "item"
    BY <2>1, <2>2, <2>4 DEF Tree
  <2>16. Tree(r)
    <3>1. ASSUME NEW d \in 1..n, NEW k \in DOMAIN es[d].sons, NEW son, son = es[d].sons[k]
          PROVE  /\ son \in 1..n \cup {Text, Newline}
                 /\ son > 0 /\ es[son].name = "p" => d < son
                 /\ son > 0 /\ es[son].name = "item" => es[d].name = "list"
      <4>1. CASE d = e
        <5>1. k \in DOMAIN s.elts[p].sons /\ son = s.elts[p].sons[k]
          BY <2>12, <3>1, <4>1
        <5>2. /\ son \in 1..n \cup {Text, Newline}
              /\ son > 0 /\ s.elts[son].name = "p" => p < son
              /\ son > 0 => s.elts[son].name # "item"
          BY <2>15, <5>1
        <5>3. son > 0 => son \in 1..n
          BY <5>2 DEF Text, Newline
        <5>4. son > 0 => es[son].name = s.elts[son].name
          BY <2>11, <5>3
        <5>. QED
          BY <2>2, <2>4, <2>6, <2>7, <4>1, <5>2, <5>3, <5>4
      <4>2. CASE d = p
        BY <2>12, <3>1, <4>2
      <4>3. CASE d \notin {e, p}
        <5>1. k \in DOMAIN s.elts[d].sons /\ son = s.elts[d].sons[k]
          BY <2>11, <3>1, <4>3
        <5>2. /\ son \in 1..n \cup {Text, Newline}
              /\ son > 0 /\ s.elts[son].name = "p" => d < son
              /\ son > 0 /\ s.elts[son].name = "item" => s.elts[d].name = "list"
          BY <2>1, <2>2, <5>1 DEF Tree
        <5>3. son > 0 => son \in 1..n
          BY <5>2 DEF Text, Newline
        <5>. QED
          BY <2>11, <5>2, <5>3
      <4>. QED
        BY <4>1, <4>2, <4>3
    <3>2. \A d \in 1..n : es[d].name = "p" => es[d].id = NoId
      BY <2>1, <2>2, <2>11 DEF Tree
    <3>3. r.unfinished_par # 0 => r.unfinished_par \in 1..n /\ es[r.unfinished_par].name = "p"
      BY <2>1, <2>2, <2>10, <2>11 DEF Tree, SameStack
    <3>. QED
      BY <2>13, <3>1, <3>2, <3>3 DEF Tree
  <2>17. /\ r.frames = s.frames /\ r.mode = s.mode /\ r.cur_lid = s.cur_lid
    BY <2>10 DEF SameStack
  <2>18. \A i \in 1..m : r.elts[s.frames[i].elt].sons = s.elts[s.frames[i].elt].sons
    BY <2>7, <2>11, <2>13
  <2>19. Stacked(r)
    <3>1. \A i : ModeAt(r, i) = ModeAt(s, i)
      BY <2>17 DEF ModeAt
    <3>2. Named(r)
      <4>. SUFFICES ASSUME NEW i \in 1..m
                    PROVE  /\ r.frames[i].elt \in DOMAIN r.elts
                           /\ r.elts[r.frames[i].elt].name = NameOf(r.frames[i].frame)
                           /\ ModeFits(ModeAt(r, i + 1), r.frames[i].frame)
        BY <2>2, <2>17 DEF Named
      <4>1. /\ s.elts[s.frames[i].elt].name = NameOf(s.frames[i].frame)
            /\ ModeFits(ModeAt(s, i + 1), s.frames[i].frame)
        BY <2>1, <2>2 DEF Named
      <4>. QED
        BY <2>7, <2>11, <2>13, <2>17, <3>1, <4>1
    <3>3. Ordered(r)
      BY <2>1, <2>17 DEF Ordered
    <3>4. Fitted(r)
      <4>1. \A i \in 1..m : i > 1 => i - 1 \in 1..m
        BY <2>2
      <4>. QED
        BY <2>1, <2>2, <2>17, <2>18, <4>1 DEF Fitted, HasSons, LastSon
    <3>. QED
      BY <2>1, <2>17, <3>2, <3>3, <3>4 DEF Stacked
  <2>20. \A i \in 1..m : LET d == s.frames[i].elt
                         IN (Anchored(r, d) <=> Anchored(s, d)) /\ LastAnchor(r, d) = LastAnchor(s, d)
    <3>. SUFFICES ASSUME NEW i \in 1..m, NEW d, d = s.frames[i].elt
                  PROVE  (Anchored(r, d) <=> Anchored(s, d)) /\ LastAnchor(r, d) = LastAnchor(s, d)
      OBVIOUS
    <3>1. SameAnchors(s, r, d) /\ d \in DOMAIN s.elts
      BY <2>2, <2>7, <2>18 DEF SameAnchors
    <3>. QED
      BY <2>10, <2>14, <3>1, AnchorsKept
  <2>21. Scoped(r)
    <3>1. \A i : UidAt(r, i) = UidAt(s, i)
      BY <2>17 DEF UidAt
    <3>. QED
      BY <2>1, <2>2, <2>17, <2>20, <3>1 DEF Scoped
  <2>22. Steady(s, r)
    <3>1. ASSUME NEW d \in 1..n PROVE ItemsOf(r, d) = ItemsOf(s, d)
      <4>1. \A f \in 1..n : r.elts[f].name = s.elts[f].name /\ r.elts[f].text = s.elts[f].text
        BY <2>11, <2>13
      <4>2. CASE d = e
        <5>1. ItemsOf(s, e) = {}
          <6>1. \A f \in DOMAIN s.elts : s.elts[f].name = "item" => f \notin {p, Newline}
            BY <2>2, <2>4 DEF Newline
          <6>. QED
            BY <2>6, <6>1 DEF ItemsOf
        <5>2. ItemsOf(r, e) = {}
          <6>1. \A k \in DOMAIN s.elts[p].sons : s.elts[p].sons[k] > 0 => s.elts[s.elts[p].sons[k]].name # "item"
            BY <2>15
          <6>2. \A f \in ItemsOf(r, e) : f \in 1..n /\ s.elts[f].name = "item" /\ \E k \in DOMAIN s.elts[p].sons : s.elts[p].sons[k] = f
            BY <2>12, <2>13, <4>1 DEF ItemsOf
          <6>3. \A f \in 1..n : f > 0
            BY <2>2
          <6>. QED
            BY <6>1, <6>2, <6>3
        <5>. QED
          BY <4>2, <5>1, <5>2
      <4>3. CASE d = p
        <5>1. ItemsOf(s, p) = {}
          <6>1. \A f \in 1..n : f > 0
            BY <2>2
          <6>. QED
            BY <2>2, <2>15, <6>1 DEF ItemsOf
        <5>2. ItemsOf(r, p) = {}
          BY <2>12, <2>13 DEF ItemsOf
        <5>. QED
          BY <4>3, <5>1, <5>2
      <4>4. CASE d \notin {e, p}
        <5>1. r.elts[d].sons = s.elts[d].sons
          BY <2>11, <2>13, <4>4
        <5>. QED
          BY <2>2, <2>13, <4>1, <5>1 DEF ItemsOf
      <4>. QED
        BY <4>2, <4>3, <4>4
    <3>2. \A d \in 1..Len(r.elts) : ~(d > n)
      BY <2>2, <2>13
    <3>. QED
      BY <2>14, <3>1, <3>2 DEF Steady, Counts, NoNewAnchors, n
  <2>23. Good(r)
    BY <2>10, <2>16, <2>19, <2>21 DEF Good
  <2>24. SameBlocks(s.frames, s.frames)
    BY CalmRefl, CalmMoves DEF Moves
  <2>. QED
    BY <2>17, <2>22, <2>23, <2>24 DEF Moves
<1>. QED
  BY <1>1, <1>2

-----------------------------------------------------------------------------
\* The blocks on the stack and the commands that are open.

\* The commands that open a block, and those that open a group.  A title opens the frame head.
Openers == {"title", "footnote", "list", "hbox"}
Commands == Openers \cup {"group"}
FrameOf(c) == IF c = "title" THEN "head" ELSE c

\* A block and the command that opened it.
Matched(fr, op) ==
  { p \in Blocks(fr) \X At(op, Openers) : RankIn(fr, Block, p[1]) = RankIn(op, Openers, p[2]) }

\* Each command that is open and is no group has its block.
Nest(fr, op) ==
  /\ Cardinality(Blocks(fr)) = Cardinality(At(op, Openers))
  /\ \A p \in Matched(fr, op) : fr[p[1]].frame = FrameOf(op[p[2]])

\* Blocks and commands that match still do when the blocks are the same.
LEMMA MatchedKept ==
  ASSUME NEW fr, NEW fr2, SameBlocks(fr, fr2), Blocks(fr) \in SUBSET Nat, \A b \in Blocks(fr) : b > 0, NEW op
  PROVE  Matched(fr2, op) = Matched(fr, op) /\ (Nest(fr, op) => Nest(fr2, op))
<1>1. Blocks(fr2) = Blocks(fr) /\ \A i : RankIn(fr2, Block, i) = RankIn(fr, Block, i)
  BY DEF SameBlocks, Blocks, RankIn
<1>2. Matched(fr2, op) = Matched(fr, op)
  BY <1>1 DEF Matched
<1>3. \A p \in Matched(fr, op) : p[1] \in Blocks(fr)
  BY DEF Matched
<1>4. \A b \in Blocks(fr) : fr2[b] = fr[b]
  <2>1. \A b \in Blocks(fr) : b \in 1..b
    OBVIOUS
  <2>. QED
    BY <2>1 DEF SameBlocks
<1>. QED
  BY <1>1, <1>2, <1>3, <1>4 DEF Nest

\* A command that opens a block matches it.
LEMMA MatchedPush ==
  ASSUME NEW fr \in Seq(FrameType), NEW op \in Seq(Commands), Nest(fr, op),
         NEW f \in FrameType, NEW c \in Openers, f.frame = FrameOf(c)
  PROVE  /\ Nest(Append(fr, f), Append(op, c))
         /\ Matched(Append(fr, f), Append(op, c)) = Matched(fr, op) \cup {<<Len(fr) + 1, Len(op) + 1>>}
<1>. DEFINE g == Append(fr, f)
            o == Append(op, c)
            C == Cardinality(Blocks(fr))
            a == Len(fr) + 1
            b == Len(op) + 1
<1>1. f \in Block /\ c \in Commands
  <2>1. f.frame \in BlockNames
    BY DEF FrameOf, Openers, BlockNames
  <2>. QED
    BY <2>1, IsBlock DEF Commands
<1>2. /\ Blocks(g) = Blocks(fr) \cup {a} /\ Cardinality(Blocks(g)) = C + 1
      /\ \A i \in Blocks(fr) : RankIn(g, Block, i) = RankIn(fr, Block, i)
      /\ RankIn(g, Block, a) = C + 1
  BY <1>1, RankAppend DEF Blocks
<1>3. /\ At(o, Openers) = At(op, Openers) \cup {b} /\ Cardinality(At(o, Openers)) = C + 1
      /\ \A i \in At(op, Openers) : RankIn(o, Openers, i) = RankIn(op, Openers, i)
      /\ RankIn(o, Openers, b) = C + 1
  BY <1>1, RankAppend DEF Nest
<1>4. /\ Blocks(fr) \in SUBSET (1..Len(fr)) /\ C \in Nat /\ Len(fr) \in Nat
      /\ \A i \in Blocks(fr) : RankIn(fr, Block, i) \in 1..C
  BY RankType, LenProperties DEF Blocks
<1>5. /\ At(op, Openers) \in SUBSET (1..Len(op)) /\ Len(op) \in Nat
      /\ \A i \in At(op, Openers) : RankIn(op, Openers, i) \in 1..C
  BY RankType, LenProperties DEF Nest
<1>6. /\ g[a] = f /\ \A i \in 1..Len(fr) : g[i] = fr[i]
      /\ o[b] = c /\ \A i \in 1..Len(op) : o[i] = op[i]
  BY <1>1, PushedAt
<1>. HIDE DEF g, o, C, a, b
<1>7. \A i \in Blocks(fr) : RankIn(fr, Block, i) # C + 1
  BY <1>4
<1>8. \A i \in At(op, Openers) : RankIn(op, Openers, i) # C + 1
  BY <1>4, <1>5
<1>9. Matched(g, o) = Matched(fr, op) \cup {<<a, b>>}
  <2>1. ASSUME NEW p \in Matched(g, o) PROVE p \in Matched(fr, op) \/ p = <<a, b>>
    <3>1. PICK i \in Blocks(g), k \in At(o, Openers) : p = <<i, k>> /\ RankIn(g, Block, i) = RankIn(o, Openers, k)
      BY <2>1 DEF Matched
    <3>2. CASE i \in Blocks(fr) /\ k \in At(op, Openers)
      BY <1>2, <1>3, <3>1, <3>2 DEF Matched
    <3>3. CASE i \in Blocks(fr) /\ k = b
      BY <1>2, <1>3, <1>7, <3>1, <3>3
    <3>4. CASE i = a /\ k \in At(op, Openers)
      BY <1>2, <1>3, <1>8, <3>1, <3>4
    <3>5. CASE i = a /\ k = b
      BY <3>1, <3>5
    <3>. QED
      BY <1>2, <1>3, <3>2, <3>3, <3>4, <3>5
  <2>2. ASSUME NEW p \in Matched(fr, op) PROVE p \in Matched(g, o)
    BY <1>2, <1>3, <2>2 DEF Matched
  <2>3. <<a, b>> \in Matched(g, o)
    BY <1>2, <1>3 DEF Matched
  <2>. QED
    BY <2>1, <2>2, <2>3
<1>10. \A p \in Matched(fr, op) : p[1] \in 1..Len(fr) /\ p[2] \in 1..Len(op)
  BY <1>4, <1>5 DEF Matched
<1>11. \A p \in Matched(g, o) : g[p[1]].frame = FrameOf(o[p[2]])
  <2>1. \A p \in Matched(fr, op) : g[p[1]].frame = FrameOf(o[p[2]])
    BY <1>6, <1>10 DEF Nest
  <2>2. g[a].frame = FrameOf(o[b])
    BY <1>6
  <2>. QED
    BY <1>9, <2>1, <2>2
<1>12. Nest(g, o)
  BY <1>2, <1>3, <1>11 DEF Nest
<1>. QED
  BY <1>9, <1>12 DEF g, o, a, b

\* A command that ends takes its block away, and the others still match.
LEMMA MatchedPop ==
  ASSUME NEW fr \in Seq(FrameType), NEW op \in Seq(Commands), Nest(fr, op),
         fr # <<>>, op # <<>>, Last(fr).frame \in BlockNames, Last(op) \in Openers
  PROVE  /\ Nest(Front(fr), Front(op))
         /\ Matched(Front(fr), Front(op)) \in SUBSET Matched(fr, op)
<1>. DEFINE g == Front(fr)
            o == Front(op)
<1>1. /\ Len(fr) \in Nat \ {0} /\ Last(fr) \in FrameType /\ g \in Seq(FrameType) /\ Len(g) = Len(fr) - 1
      /\ \A i \in 1..(Len(fr) - 1) : g[i] = fr[i]
  BY PoppedAt
<1>2. /\ Len(op) \in Nat \ {0} /\ o \in Seq(Commands) /\ Len(o) = Len(op) - 1
      /\ \A i \in 1..(Len(op) - 1) : o[i] = op[i]
  BY PoppedAt
<1>3. Last(fr) \in Block
  BY <1>1, IsBlock
<1>4. /\ Blocks(g) = Blocks(fr) \ {Len(fr)} /\ Cardinality(Blocks(g)) = Cardinality(Blocks(fr)) - 1
      /\ \A i \in Blocks(g) : RankIn(g, Block, i) = RankIn(fr, Block, i)
  BY <1>3, RankFront DEF Blocks
<1>5. /\ At(o, Openers) = At(op, Openers) \ {Len(op)} /\ Cardinality(At(o, Openers)) = Cardinality(At(op, Openers)) - 1
      /\ \A i \in At(o, Openers) : RankIn(o, Openers, i) = RankIn(op, Openers, i)
  BY RankFront
<1>6. Blocks(g) \in SUBSET (1..Len(g)) /\ At(o, Openers) \in SUBSET (1..Len(o))
  BY <1>1, <1>2, RankType DEF Blocks
<1>. HIDE DEF g, o
<1>7. Matched(g, o) \in SUBSET Matched(fr, op)
  BY <1>4, <1>5 DEF Matched
<1>8. \A p \in Matched(g, o) : g[p[1]] = fr[p[1]] /\ o[p[2]] = op[p[2]]
  <2>1. \A p \in Matched(g, o) : p[1] \in 1..(Len(fr) - 1) /\ p[2] \in 1..(Len(op) - 1)
    BY <1>1, <1>2, <1>6 DEF Matched
  <2>. QED
    BY <1>1, <1>2, <2>1
<1>9. Nest(g, o)
  BY <1>4, <1>5, <1>7, <1>8 DEF Nest
<1>. QED
  BY <1>7, <1>9 DEF g, o

\* A group matches no block.
LEMMA MatchedGroup ==
  ASSUME NEW fr \in Seq(FrameType), NEW op \in Seq(Commands)
  PROVE  /\ Matched(fr, Append(op, "group")) = Matched(fr, op)
         /\ Nest(fr, op) => Nest(fr, Append(op, "group"))
         /\ op # <<>> /\ Last(op) = "group" => /\ Matched(fr, Front(op)) = Matched(fr, op)
                                               /\ Nest(fr, op) => Nest(fr, Front(op))
<1>1. "group" \in Commands /\ "group" \notin Openers
  BY DEF Commands, Openers
<1>2. At(op, Openers) \in SUBSET (1..Len(op)) /\ Len(op) \in Nat /\ Cardinality(At(op, Openers)) \in Nat
  BY RankType, LenProperties
<1>3. Nest(fr, op) => \A p \in Matched(fr, op) : p[2] \in At(op, Openers) /\ fr[p[1]].frame = FrameOf(op[p[2]])
  BY DEF Matched, Nest
<1>4. /\ Matched(fr, Append(op, "group")) = Matched(fr, op)
      /\ Nest(fr, op) => Nest(fr, Append(op, "group"))
  <2>. DEFINE o == Append(op, "group")
  <2>1. /\ At(o, Openers) = At(op, Openers)
        /\ \A i \in At(op, Openers) : RankIn(o, Openers, i) = RankIn(op, Openers, i)
    BY <1>1, RankAppend
  <2>2. \A i \in 1..Len(op) : o[i] = op[i]
    BY <1>1, PushedAt
  <2>. HIDE DEF o
  <2>3. Matched(fr, o) = Matched(fr, op)
    BY <2>1 DEF Matched
  <2>4. Nest(fr, op) => Nest(fr, o)
    BY <1>2, <1>3, <2>1, <2>2, <2>3 DEF Nest
  <2>. QED
    BY <2>3, <2>4 DEF o
<1>5. ASSUME op # <<>>, Last(op) = "group"
      PROVE  Matched(fr, Front(op)) = Matched(fr, op) /\ (Nest(fr, op) => Nest(fr, Front(op)))
  <2>. DEFINE o == Front(op)
  <2>1. /\ At(o, Openers) = At(op, Openers)
        /\ \A i \in At(o, Openers) : RankIn(o, Openers, i) = RankIn(op, Openers, i)
    <3>1. /\ At(o, Openers) = At(op, Openers) \ {Len(op)} /\ Len(op) \notin At(op, Openers)
          /\ \A i \in At(o, Openers) : RankIn(o, Openers, i) = RankIn(op, Openers, i)
      BY <1>1, <1>5, RankFront
    <3>. QED
      BY <3>1
  <2>2. /\ Len(o) = Len(op) - 1 /\ o \in Seq(Commands) /\ Len(op) \in Nat \ {0}
        /\ \A i \in 1..(Len(op) - 1) : o[i] = op[i]
    BY <1>5, PoppedAt
  <2>3. At(o, Openers) \in SUBSET (1..Len(o))
    BY <2>2, RankType
  <2>. HIDE DEF o
  <2>4. Matched(fr, o) = Matched(fr, op)
    BY <2>1 DEF Matched
  <2>5. Nest(fr, op) => Nest(fr, o)
    BY <1>3, <2>1, <2>2, <2>3, <2>4 DEF Nest
  <2>. QED
    BY <2>4, <2>5 DEF o
<1>. QED
  BY <1>4, <1>5

\* What the command that was opened last finds on the stack.
LEMMA Innermost ==
  ASSUME NEW fr \in Seq(FrameType), NEW op \in Seq(Commands), Nest(fr, op), op # <<>>, Last(op) \in Openers
  PROVE  \E b \in Blocks(fr) : /\ \A h \in Blocks(fr) : h <= b
                               /\ fr[b].frame = FrameOf(Last(op)) /\ <<b, Len(op)>> \in Matched(fr, op)
<1>1. /\ Len(op) \in Nat \ {0} /\ Len(op) \in At(op, Openers) /\ Last(op) = op[Len(op)]
      /\ At(op, Openers) \in SUBSET (1..Len(op)) /\ Cardinality(At(op, Openers)) \in Nat
  BY PoppedAt, RankFront, RankType
<1>2. RankIn(op, Openers, Len(op)) = Cardinality(At(op, Openers))
  <2>1. \A h \in At(op, Openers) : h <= Len(op)
    BY <1>1
  <2>. QED
    BY <1>1, <2>1, RankOfGreatest
<1>3. /\ Blocks(fr) \in SUBSET (1..Len(fr)) /\ Len(fr) \in Nat
      /\ IsFiniteSet(Blocks(fr)) /\ Cardinality(Blocks(fr)) = Cardinality(At(op, Openers))
  BY RankType, LenProperties DEF Blocks, Nest
<1>4. Blocks(fr) # {}
  <2>1. RankIn(op, Openers, Len(op)) \in 1..Cardinality(At(op, Openers))
    BY <1>1, RankType
  <2>2. Cardinality(At(op, Openers)) # 0
    BY <1>1, <2>1
  <2>. QED
    BY <1>3, <2>2, FS_EmptySet
<1>. DEFINE b == Max(Blocks(fr))
<1>5. b \in Blocks(fr) /\ \A h \in Blocks(fr) : h <= b
  BY <1>3, <1>4, GreatestPosition
<1>. HIDE DEF b
<1>6. RankIn(fr, Block, b) = Cardinality(Blocks(fr))
  BY <1>5, RankOfGreatest DEF Blocks
<1>7. <<b, Len(op)>> \in Matched(fr, op)
  BY <1>1, <1>2, <1>3, <1>5, <1>6 DEF Matched
<1>8. fr[b].frame = FrameOf(Last(op))
  BY <1>1, <1>7 DEF Nest
<1>. QED
  BY <1>5, <1>7, <1>8

\* Above the last block are paragraphs, and an item in a list.
LEMMA AboveBlock ==
  ASSUME NEW s, Good(s), NEW b \in Blocks(s.frames), \A h \in Blocks(s.frames) : h <= b,
         NEW i \in DOMAIN s.frames, b < i
  PROVE  /\ s.frames[i].frame \in {"p", "item"}
         /\ s.frames[i].frame = "item" => i = b + 1 /\ s.frames[b].frame = "list"
         /\ Fits(s.frames[i].frame, s.frames[i - 1].frame)
<1>1. s \in State /\ Stacked(s) /\ Fitted(s)
  BY DEF Good, Stacked
<1>2. /\ s.frames \in Seq(FrameType) /\ DOMAIN s.frames = 1..Len(s.frames) /\ Len(s.frames) \in Nat
      /\ \A k \in DOMAIN s.frames : s.frames[k].frame \in FrameNames
  BY <1>1, StateParts
<1>3. /\ Blocks(s.frames) \in SUBSET (1..Len(s.frames))
      /\ \A k \in 1..Len(s.frames) : k \in Blocks(s.frames) <=> s.frames[k].frame \in BlockNames
  BY <1>2, BlocksAre
<1>4. b \in 1..Len(s.frames) /\ i \in 1..Len(s.frames) /\ i > 1 /\ i - 1 \in 1..Len(s.frames) /\ b <= i - 1
  BY <1>2, <1>3
<1>5. s.frames[b].frame \in BlockNames /\ s.frames[i].frame \notin BlockNames /\ s.frames[i].frame \in FrameNames
  BY <1>2, <1>3, <1>4
<1>6. \A k \in 1..Len(s.frames) : k > 1 => Fits(s.frames[k].frame, s.frames[k - 1].frame)
  BY <1>1, <1>2 DEF Fitted
<1>7. Fits(s.frames[i].frame, s.frames[i - 1].frame)
  BY <1>4, <1>6
<1>8. \A k \in 1..Len(s.frames) : s.frames[k].frame = "document" => k = 1
  BY <1>6 DEF Fits
<1>9. s.frames[i].frame # "div0"
  <2>. SUFFICES ASSUME s.frames[i].frame = "div0" PROVE FALSE
    OBVIOUS
  <2>1. i - 1 = 1
    BY <1>4, <1>7, <1>8 DEF Fits
  <2>2. b = 1
    BY <1>4, <2>1
  <2>. QED
    BY <1>1, <1>5, <2>2 DEF Stacked, BlockNames
<1>10. s.frames[i].frame # "div1"
  <2>. SUFFICES ASSUME s.frames[i].frame = "div1" PROVE FALSE
    OBVIOUS
  <2>1. s.frames[i - 1].frame \in {"document", "div0"}
    BY <1>7 DEF Fits
  <2>2. CASE s.frames[i - 1].frame = "document"
    <3>1. i - 1 = 1 /\ b = 1
      BY <1>4, <1>8, <2>2
    <3>. QED
      BY <1>1, <1>5, <3>1 DEF Stacked, BlockNames
  <2>3. CASE s.frames[i - 1].frame = "div0"
    <3>1. i - 1 > 1
      BY <1>1, <1>4, <2>3 DEF Stacked
    <3>2. s.frames[i - 2].frame = "document"
      <4>1. Fits(s.frames[i - 1].frame, s.frames[i - 1 - 1].frame)
        BY <1>4, <1>6, <3>1
      <4>2. i - 1 - 1 = i - 2
        BY <1>4
      <4>. QED
        BY <2>3, <4>1, <4>2 DEF Fits
    <3>3. i - 2 = 1
      BY <1>4, <1>8, <3>1, <3>2
    <3>4. b = 1 \/ b = i - 1
      BY <1>4, <3>3
    <3>. QED
      BY <1>1, <1>5, <2>3, <3>4 DEF Stacked, BlockNames
  <2>. QED
    BY <2>1, <2>2, <2>3
<1>11. s.frames[i].frame \in {"p", "item"}
  BY <1>5, <1>7, <1>9, <1>10 DEF Fits, FrameNames
<1>12. s.frames[i].frame = "item" => i = b + 1 /\ s.frames[b].frame = "list"
  <2>. SUFFICES ASSUME s.frames[i].frame = "item" PROVE i = b + 1 /\ s.frames[b].frame = "list"
    OBVIOUS
  <2>1. s.frames[i - 1].frame = "list"
    BY <1>7 DEF Fits
  <2>2. i - 1 \in Blocks(s.frames)
    BY <1>3, <1>4, <2>1 DEF BlockNames
  <2>3. i - 1 = b
    BY <1>4, <2>2
  <2>. QED
    BY <1>4, <2>1, <2>3
<1>. QED
  BY <1>7, <1>11, <1>12

\* The frame on the top of the stack when a command is closed.
LEMMA ClosingFrame ==
  ASSUME NEW s, Good(s), NEW op \in Seq(Commands), Nest(s.frames, op), op # <<>>, Last(op) \in Openers
  PROVE  /\ Last(op) \in {"title", "hbox"} => Last(s.frames).frame = FrameOf(Last(op))
         /\ Last(op) = "footnote" /\ s.mode # "h" => Last(s.frames).frame = "footnote"
         /\ Last(op) = "list" /\ s.mode # "h" => Last(s.frames).frame \in {"list", "item"}
<1>. DEFINE m == Len(s.frames)
<1>1. s \in State /\ Stacked(s) /\ s.frames \in Seq(FrameType)
  BY StateParts DEF Good
<1>2. m \in Nat \ {0} /\ DOMAIN s.frames = 1..m /\ Last(s.frames) = s.frames[m]
  BY <1>1, TopOf, StateParts
<1>3. PICK b \in Blocks(s.frames) : (\A h \in Blocks(s.frames) : h <= b) /\ s.frames[b].frame = FrameOf(Last(op))
  BY <1>1, Innermost
<1>4. b \in 1..m
  BY <1>1, <1>3, BlocksAre
<1>. HIDE DEF m
<1>5. \A i \in 1..m : b < i =>
        /\ s.frames[i].frame \in {"p", "item"}
        /\ s.frames[i].frame = "item" => i = b + 1 /\ s.frames[b].frame = "list"
        /\ Fits(s.frames[i].frame, s.frames[i - 1].frame)
  BY <1>2, <1>3, AboveBlock
<1>6. s.mode # "h" => s.frames[m].frame # "p"
  BY <1>2, ModeOfTop DEF ModeFits
<1>7. CASE m = b
  BY <1>2, <1>3, <1>7 DEF FrameOf
<1>8. CASE m # b
  <2>1. /\ b < m /\ m - 1 \in 1..m /\ (m - 1 = b \/ b < m - 1)
    BY <1>2, <1>4, <1>8
  <2>2. /\ s.frames[m].frame \in {"p", "item"}
        /\ s.frames[m].frame = "item" => s.frames[b].frame = "list"
        /\ Fits(s.frames[m].frame, s.frames[m - 1].frame)
    BY <1>2, <1>5, <2>1
  <2>3. b < m - 1 => /\ s.frames[m - 1].frame \in {"p", "item"}
                     /\ s.frames[m - 1].frame = "item" => s.frames[b].frame = "list"
    BY <1>5, <2>1
  <2>4. ~(Last(op) \in {"title", "hbox"})
    BY <1>3, <2>1, <2>2, <2>3 DEF Fits, FrameOf
  <2>. QED
    BY <1>2, <1>3, <1>6, <2>2, <2>4 DEF FrameOf
<1>. QED
  BY <1>7, <1>8

-----------------------------------------------------------------------------
\* The groups.

\* A group.
GroupType == [label : Seq(Nat), list_ctr : Counters \cup {"none"}]

\* A group for the document and one for each command that is open; lists have counters.
Levels(gs, op) ==
  /\ gs \in Seq(GroupType) /\ Len(gs) = Len(op) + 1
  /\ \A k \in DOMAIN op : op[k] = "list" => gs[k + 1].list_ctr \in {"enumi", "enumii"}

\* The counters.
LEMMA CountersAre == Counters = {"section", "subsection", "footnote", "enumi", "enumii"}
BY DEF Counters, Printed

\* What a counter prints.
LEMMA LabelType ==
  ASSUME NEW c \in Counters, NEW cs \in [Counters -> Nat]
  PROVE  /\ stepcounter(cs, c) \in [Counters -> Nat]
         /\ make_label_inner(cs, c) \in Seq(Nat) /\ make_label_inner(cs, c) # <<>>
<1>1. stepcounter(cs, c) \in [Counters -> Nat]
  BY DEF stepcounter
<1>. DEFINE P == Printed[c]
            f == [i \in DOMAIN P |-> cs[P[i]]]
<1>2. Len(P) \in {1, 2} /\ DOMAIN P = 1..Len(P) /\ \A i \in DOMAIN P : P[i] \in Counters
  BY CountersAre DEF Printed
<1>. HIDE DEF P
<1>3. f \in [1..Len(P) -> Nat]
  BY <1>2
<1>4. f \in Seq(Nat) /\ Len(f) = Len(P)
  <2>1. Len(P) \in Nat
    BY <1>2
  <2>2. f \in Seq(Nat)
    BY <1>3, <2>1, IsASeq
  <2>. QED
    BY <1>2, <1>3, <2>1, <2>2, LenProperties
<1>5. make_label_inner(cs, c) = f
  BY DEF make_label_inner, P
<1>6. f # <<>>
  BY <1>2, <1>4, EmptySeq
<1>. QED
  BY <1>1, <1>4, <1>5, <1>6

\* \@currentlabel is defined in the current group.
LEMMA DefineEffect ==
  ASSUME NEW gs \in Seq(GroupType), gs # <<>>, NEW label \in Seq(Nat)
  PROVE  LET r == string_define(gs, label)
             n == Len(gs) IN
         /\ r \in Seq(GroupType) /\ Len(r) = n /\ n \in Nat \ {0} /\ r # <<>>
         /\ \A i \in 1..(n - 1) : r[i] = gs[i]
         /\ r[n].label = label /\ r[n].list_ctr = gs[n].list_ctr /\ Last(r) = r[n] /\ Last(gs) = gs[n]
<1>. DEFINE r == string_define(gs, label)
            n == Len(gs)
            g == [gs[n] EXCEPT !.label = label]
<1>1. n \in Nat \ {0} /\ DOMAIN gs = 1..n /\ Last(gs) = gs[n] /\ gs[n] \in GroupType
  BY PoppedAt
<1>2. g \in GroupType /\ g.label = label /\ g.list_ctr = gs[n].list_ctr
  BY <1>1 DEF GroupType
<1>3. r = [gs EXCEPT ![n] = g]
  BY DEF string_define
<1>4. n \in DOMAIN gs
  BY <1>1
<1>. HIDE DEF g, n
<1>5. r \in Seq(GroupType) /\ Len(r) = Len(gs)
  BY <1>2, <1>3, <1>4, ExceptSeq
<1>6. r[n] = g /\ \A i \in 1..(n - 1) : r[i] = gs[i]
  BY <1>1, <1>3, <1>4
<1>. HIDE DEF r
<1>7. r # <<>> /\ Last(r) = r[n]
  <2>1. Len(r) = n
    BY <1>5 DEF n
  <2>2. r # <<>>
    BY <1>1, <1>5, <2>1, EmptySeq
  <2>. QED
    BY <2>1, <2>2 DEF Last
<1>. QED
  BY <1>1, <1>2, <1>5, <1>6, <1>7 DEF r, n

\* A command is opened with a group.
LEMMA LevelsOpen ==
  ASSUME NEW gs, NEW op \in Seq(Commands), Levels(gs, op), NEW c \in Commands,
         NEW r \in Seq(GroupType), Len(r) = Len(gs) + 1, \A i \in 1..Len(gs) : r[i].list_ctr = gs[i].list_ctr,
         c = "list" => r[Len(r)].list_ctr \in {"enumi", "enumii"}
  PROVE  Levels(r, Append(op, c))
<1>. DEFINE o == Append(op, c)
<1>1. /\ Len(op) \in Nat /\ Len(o) = Len(op) + 1 /\ DOMAIN o = 1..(Len(op) + 1) /\ DOMAIN op = 1..Len(op)
      /\ o[Len(op) + 1] = c /\ \A i \in 1..Len(op) : o[i] = op[i]
  BY PushedAt
<1>. HIDE DEF o
<1>2. Len(gs) = Len(op) + 1 /\ Len(r) = Len(op) + 2
  BY <1>1 DEF Levels
<1>3. ASSUME NEW k \in DOMAIN o, o[k] = "list" PROVE r[k + 1].list_ctr \in {"enumi", "enumii"}
  <2>1. CASE k = Len(op) + 1
    BY <1>1, <1>2, <1>3, <2>1
  <2>2. CASE k \in 1..Len(op)
    <3>1. k + 1 \in 1..Len(gs)
      BY <1>1, <1>2, <2>2
    <3>. QED
      BY <1>1, <1>3, <2>2, <3>1 DEF Levels
  <2>. QED
    BY <1>1, <2>1, <2>2
<1>. QED
  BY <1>1, <1>2, <1>3 DEF Levels, o

\* A command is closed with its group.
LEMMA LevelsClose ==
  ASSUME NEW gs, NEW op \in Seq(Commands), Levels(gs, op), op # <<>>
  PROVE  /\ Levels(Front(gs), Front(op)) /\ Front(op) \in Seq(Commands) /\ gs # <<>>
         /\ Len(Front(gs)) = Len(op) /\ Len(op) \in Nat \ {0} /\ Len(Front(op)) = Len(op) - 1
         /\ \A i \in 1..Len(op) : Front(gs)[i] = gs[i]
         /\ Last(Front(gs)) = gs[Len(op)] /\ Last(gs) = gs[Len(op) + 1] /\ Last(op) = op[Len(op)]
         /\ \A i \in 1..(Len(op) - 1) : Front(op)[i] = op[i]
<1>1. /\ Len(op) \in Nat \ {0} /\ Front(op) \in Seq(Commands) /\ Len(Front(op)) = Len(op) - 1
      /\ DOMAIN op = 1..Len(op) /\ DOMAIN Front(op) = 1..(Len(op) - 1)
      /\ Last(op) = op[Len(op)] /\ \A i \in 1..(Len(op) - 1) : Front(op)[i] = op[i]
  BY PoppedAt
<1>2. gs \in Seq(GroupType) /\ Len(gs) = Len(op) + 1 /\ gs # <<>>
  <2>1. gs \in Seq(GroupType) /\ Len(gs) = Len(op) + 1
    BY DEF Levels
  <2>. QED
    BY <1>1, <2>1, EmptySeq
<1>3. /\ Front(gs) \in Seq(GroupType) /\ Len(Front(gs)) = Len(op)
      /\ Last(gs) = gs[Len(op) + 1] /\ \A i \in 1..Len(op) : Front(gs)[i] = gs[i]
  <2>1. /\ Front(gs) \in Seq(GroupType) /\ Len(Front(gs)) = Len(gs) - 1
        /\ Last(gs) = gs[Len(gs)] /\ \A i \in 1..(Len(gs) - 1) : Front(gs)[i] = gs[i]
    BY <1>2, PoppedAt
  <2>. QED
    BY <1>1, <1>2, <2>1
<1>4. Last(Front(gs)) = gs[Len(op)]
  <2>1. Last(Front(gs)) = Front(gs)[Len(Front(gs))]
    BY DEF Last
  <2>. QED
    BY <1>1, <1>3, <2>1
<1>5. Levels(Front(gs), Front(op))
  <2>1. ASSUME NEW k \in 1..(Len(op) - 1), Front(op)[k] = "list" PROVE Front(gs)[k + 1].list_ctr \in {"enumi", "enumii"}
    <3>1. k \in 1..Len(op) /\ k + 1 \in 1..Len(op)
      BY <1>1
    <3>. QED
      BY <1>1, <1>3, <2>1, <3>1 DEF Levels
  <2>. QED
    BY <1>1, <1>3, <2>1 DEF Levels
<1>. QED
  BY <1>1, <1>2, <1>3, <1>4, <1>5

\* The current group is defined again.
LEMMA LevelsDefine ==
  ASSUME NEW gs, NEW op \in Seq(Commands), Levels(gs, op), NEW label \in Seq(Nat)
  PROVE  Levels(string_define(gs, label), op)
<1>. DEFINE r == string_define(gs, label)
<1>1. gs \in Seq(GroupType) /\ Len(gs) = Len(op) + 1 /\ Len(op) \in Nat /\ DOMAIN op = 1..Len(op)
  BY LenProperties DEF Levels
<1>2. gs # <<>>
  BY <1>1, EmptySeq
<1>3. /\ r \in Seq(GroupType) /\ Len(r) = Len(gs)
      /\ \A i \in 1..(Len(gs) - 1) : r[i] = gs[i]
      /\ r[Len(gs)].list_ctr = gs[Len(gs)].list_ctr
  BY <1>1, <1>2, DefineEffect
<1>. HIDE DEF r
<1>4. ASSUME NEW k \in 1..Len(op), op[k] = "list" PROVE r[k + 1].list_ctr \in {"enumi", "enumii"}
  <2>1. gs[k + 1].list_ctr \in {"enumi", "enumii"}
    BY <1>1, <1>4 DEF Levels
  <2>2. k + 1 \in 1..(Len(gs) - 1) \/ k + 1 = Len(gs)
    BY <1>1
  <2>. QED
    BY <1>3, <2>1, <2>2
<1>. QED
  BY <1>1, <1>3, <1>4 DEF Levels, r

-----------------------------------------------------------------------------
\* The anchor that is in scope, and what it shows.

\* No element is made by \anchor.
NoAnchors(s) == \A e \in DOMAIN s.elts : s.elts[e].name # "anchor"

\* One of the elements below frame i is an anchor.
HasId(s, i) == \E j \in 1..(i - 1) : s.elts[s.frames[j].elt].id # NoId

\* The anchor in scope below frame i has the text label.
Shows(s, i, label) ==
  HasId(s, i) => \E e \in DOMAIN s.elts : s.elts[e].id = UidAt(s, i) /\ s.elts[e].text = label

\* The place above the stack.
Top(s) == Len(s.frames) + 1

\* The same anchor is in scope below frame k of r.
SameContext(s, i, r, k) == (HasId(r, k) => HasId(s, i)) /\ UidAt(r, k) = UidAt(s, i)

\* A number that is shown below a frame is shown below a frame with the same anchor.
LEMMA ShowsKept ==
  ASSUME NEW s \in State, NEW r \in State, Keeps(s, r), NEW i, NEW k, SameContext(s, i, r, k),
         NEW label, Shows(s, i, label)
  PROVE  Shows(r, k, label)
<1>. SUFFICES ASSUME HasId(r, k)
              PROVE  \E e \in DOMAIN r.elts : r.elts[e].id = UidAt(r, k) /\ r.elts[e].text = label
  BY DEF Shows
<1>1. PICK e \in DOMAIN s.elts : s.elts[e].id = UidAt(s, i) /\ s.elts[e].text = label
  BY DEF Shows, SameContext
<1>2. e \in DOMAIN r.elts /\ r.elts[e].id = s.elts[e].id /\ r.elts[e].text = s.elts[e].text
  BY <1>1, KeptElements
<1>. QED
  BY <1>1, <1>2 DEF SameContext

\* The same anchor is in scope along several steps.
LEMMA ContextTrans ==
  ASSUME NEW s, NEW i, NEW r, NEW k, NEW q, NEW l, SameContext(s, i, r, k), SameContext(r, k, q, l)
  PROVE  SameContext(s, i, q, l)
BY DEF SameContext

\* Elements are kept along several steps.
LEMMA KeepsTrans ==
  ASSUME NEW s \in State, NEW r \in State, NEW q \in State, Keeps(s, r), Keeps(r, q)
  PROVE  Keeps(s, q)
<1>1. /\ Len(s.elts) \in Nat /\ Len(r.elts) \in Nat /\ Len(q.elts) \in Nat
  BY StateParts
<1>2. \A e \in 1..Len(s.elts) : e \in 1..Len(r.elts)
  BY <1>1 DEF Keeps
<1>. QED
  BY <1>1, <1>2 DEF Keeps

\* When the frames up to i are the same, so is what is in scope there.
LEMMA SameFramesContext ==
  ASSUME NEW s, Good(s), NEW r \in State, Keeps(s, r), NEW i \in 1..Len(s.frames), i \in 1..Len(r.frames),
         \A j \in 1..i : r.frames[j] = s.frames[j]
  PROVE  SameContext(s, i, r, i)
<1>1. s \in State /\ Named(s) /\ Len(s.frames) \in Nat /\ Len(r.frames) \in Nat /\ DOMAIN s.frames = 1..Len(s.frames)
  BY StateParts DEF Good, Stacked
<1>2. UidAt(r, i) = UidAt(s, i)
  <2>1. i \in 1..i
    BY <1>1
  <2>. QED
    BY <1>1, <2>1 DEF UidAt
<1>3. ASSUME NEW j \in 1..(i - 1) PROVE r.elts[r.frames[j].elt].id = s.elts[s.frames[j].elt].id
  <2>1. j \in 1..i /\ j \in DOMAIN s.frames
    BY <1>1
  <2>2. s.frames[j].elt \in DOMAIN s.elts
    BY <1>1, <2>1 DEF Named
  <2>3. r.frames[j] = s.frames[j]
    BY <2>1
  <2>. DEFINE d == s.frames[j].elt
  <2>4. r.elts[d].id = s.elts[d].id
    BY <1>1, <2>2, KeptElements
  <2>. QED
    BY <2>3, <2>4
<1>. QED
  BY <1>2, <1>3 DEF SameContext, HasId

\* The anchor below a block is the same as long as the block is on the stack.
LEMMA BlockContext ==
  ASSUME NEW s, Good(s), NEW r, Good(r), Keeps(s, r), SameBlocks(s.frames, r.frames), NEW b \in Blocks(s.frames)
  PROVE  SameContext(s, b, r, b)
<1>1. s \in State /\ r \in State /\ b \in 1..Len(s.frames)
  BY StateParts, BlocksAre DEF Good
<1>2. b \in 1..Len(r.frames) /\ \A j \in 1..b : r.frames[j] = s.frames[j]
  BY DEF SameBlocks
<1>. QED
  BY <1>1, <1>2, SameFramesContext

\* The top of the stack when the frames and the current anchor are the same.
LEMMA TopContext ==
  ASSUME NEW s, Good(s), NEW r \in State, Keeps(s, r), r.frames = s.frames, r.cur_lid = s.cur_lid
  PROVE  SameContext(s, Top(s), r, Top(r))
<1>1. s \in State /\ Named(s) /\ Len(s.frames) \in Nat /\ DOMAIN s.frames = 1..Len(s.frames)
  BY StateParts DEF Good, Stacked
<1>2. UidAt(r, Top(r)) = UidAt(s, Top(s))
  BY <1>1 DEF UidAt, Top
<1>3. \A j \in 1..Len(s.frames) : r.elts[r.frames[j].elt].id = s.elts[s.frames[j].elt].id
  BY <1>1, KeptElements DEF Named
<1>4. Top(r) = Top(s) /\ Top(s) - 1 = Len(s.frames)
  BY <1>1 DEF Top
<1>. QED
  BY <1>2, <1>3, <1>4 DEF SameContext, HasId

\* The last frame is popped.
LEMMA PopContext ==
  ASSUME NEW s, Good(s), NEW r \in State, Keeps(s, r),
         r.frames = Front(s.frames), r.cur_lid = Last(s.frames).uid
  PROVE  SameContext(s, Len(s.frames), r, Top(r))
<1>. DEFINE m == Len(s.frames)
<1>1. /\ s \in State /\ Named(s) /\ s.frames \in Seq(FrameType) /\ s.frames # <<>>
      /\ m \in Nat \ {0} /\ DOMAIN s.frames = 1..m /\ Last(s.frames) = s.frames[m]
  <2>1. s \in State /\ Stacked(s)
    BY DEF Good
  <2>. QED
    BY <2>1, TopOf, StateParts DEF Stacked
<1>2. Len(r.frames) = m - 1 /\ \A j \in 1..(m - 1) : r.frames[j] = s.frames[j]
  BY <1>1, PoppedAt
<1>. HIDE DEF m
<1>3. Top(r) = m
  BY <1>1, <1>2 DEF Top
<1>4. UidAt(r, Top(r)) = UidAt(s, m)
  BY <1>1, <1>2, <1>3 DEF UidAt, m
<1>5. ASSUME NEW j \in 1..(m - 1) PROVE r.elts[r.frames[j].elt].id = s.elts[s.frames[j].elt].id
  <2>1. j \in DOMAIN s.frames
    BY <1>1
  <2>2. s.frames[j].elt \in DOMAIN s.elts
    BY <1>1, <2>1 DEF Named
  <2>. DEFINE d == s.frames[j].elt
  <2>3. r.elts[d].id = s.elts[d].id
    BY <1>1, <2>2, KeptElements
  <2>. QED
    BY <1>2, <2>3
<1>. QED
  BY <1>3, <1>4, <1>5 DEF SameContext, HasId, m

\* A frame is pushed: below it the scope is that of the top of the stack.
LEMMA PushContext ==
  ASSUME NEW s, Good(s), NEW r \in State, Keeps(s, r),
         NEW f \in FrameType, r.frames = Append(s.frames, f), f.uid = s.cur_lid
  PROVE  /\ SameContext(s, Top(s), r, Top(s))
         /\ r.cur_lid = s.cur_lid /\ r.elts[f.elt].id = NoId => SameContext(s, Top(s), r, Top(r))
<1>. DEFINE m == Len(s.frames)
<1>1. s \in State /\ Named(s) /\ s.frames \in Seq(FrameType) /\ m \in Nat /\ DOMAIN s.frames = 1..m
  BY StateParts DEF Good, Stacked
<1>2. Len(r.frames) = m + 1 /\ r.frames[m + 1] = f /\ \A j \in 1..m : r.frames[j] = s.frames[j]
  BY <1>1, PushedAt
<1>. HIDE DEF m
<1>3. Top(s) = m + 1 /\ Top(r) = m + 2
  BY <1>1, <1>2 DEF Top, m
<1>4. UidAt(r, m + 1) = s.cur_lid /\ UidAt(s, m + 1) = s.cur_lid /\ UidAt(r, m + 2) = r.cur_lid
  BY <1>1, <1>2 DEF UidAt, m
<1>5. ASSUME NEW j \in 1..m PROVE r.elts[r.frames[j].elt].id = s.elts[s.frames[j].elt].id
  <2>1. s.frames[j].elt \in DOMAIN s.elts
    BY <1>1 DEF Named
  <2>. QED
    BY <1>1, <1>2, <2>1, KeptElements
<1>6. HasId(r, m + 1) => HasId(s, m + 1)
  BY <1>1, <1>5 DEF HasId
<1>7. r.elts[f.elt].id = NoId => (HasId(r, m + 2) => HasId(r, m + 1))
  <2>. SUFFICES ASSUME r.elts[f.elt].id = NoId, HasId(r, m + 2)
                PROVE  HasId(r, m + 1)
    OBVIOUS
  <2>0. (m + 2) - 1 = m + 1 /\ (m + 1) - 1 = m
    BY <1>1
  <2>1. PICK j \in 1..(m + 1) : r.elts[r.frames[j].elt].id # NoId
    BY <2>0 DEF HasId
  <2>2. j # m + 1
    <3>. SUFFICES ASSUME j = m + 1 PROVE FALSE
      OBVIOUS
    <3>1. r.frames[j] = f
      BY <1>2
    <3>. QED
      BY <2>1, <3>1
  <2>3. j \in 1..m
    BY <1>1, <2>2
  <2>. QED
    BY <2>0, <2>1, <2>3 DEF HasId
<1>. QED
  BY <1>3, <1>4, <1>6, <1>7 DEF SameContext

\* Paragraphs are no anchors.
LEMMA BreaksContext ==
  ASSUME NEW s, Good(s), NoAnchors(s), NEW r, Good(r), Keeps(s, r), Breaks(s, r)
  PROVE  SameContext(s, Top(s), r, Top(r))
<1>1. s \in State /\ r \in State /\ Tree(s) /\ Tree(r) /\ Named(r) /\ s.frames \in Seq(FrameType)
  BY StateParts DEF Good, Stacked
<1>2. CASE r.frames = s.frames /\ r.cur_lid = s.cur_lid
  BY <1>1, <1>2, TopContext
<1>3. ASSUME NEW f \in FrameType, f.frame = "p", r.frames = Append(s.frames, f), f.uid = s.cur_lid, r.cur_lid = s.cur_lid
      PROVE  SameContext(s, Top(s), r, Top(r))
  <2>1. /\ Len(s.frames) + 1 \in DOMAIN r.frames /\ r.frames[Len(s.frames) + 1] = f
    BY <1>1, <1>3, PushedAt
  <2>2. f.elt \in DOMAIN r.elts /\ r.elts[f.elt].name = "p"
    BY <1>1, <1>3, <2>1 DEF Named, NameOf
  <2>3. r.elts[f.elt].id = NoId
    BY <1>1, <2>2 DEF Tree
  <2>. QED
    BY <1>1, <1>3, <2>3, PushContext
<1>4. CASE Last(s.frames).frame = "p" /\ r.frames = Front(s.frames) /\ r.cur_lid = Last(s.frames).uid
  <2>. DEFINE m == Len(s.frames)
              p == Last(s.frames).elt
  <2>1. SameContext(s, m, r, Top(r))
    BY <1>1, <1>4, PopContext
  <2>2. m \in Nat \ {0} /\ m \in DOMAIN s.frames /\ Last(s.frames) = s.frames[m]
    <3>1. Stacked(s)
      BY DEF Good
    <3>. QED
      BY <1>1, <3>1, TopOf
  <2>3. p \in DOMAIN s.elts /\ s.elts[p].name = "p"
    BY <1>4, BelowTop DEF NameOf
  <2>4. s.elts[p].id = NoId /\ ~Anchored(s, p)
    <3>1. s.elts[p].id = NoId
      BY <1>1, <2>3 DEF Tree
    <3>2. \A k \in DOMAIN s.elts[p].sons : ~is_anchor(s, s.elts[p].sons[k])
      BY <1>1, <2>3 DEF Tree, NoAnchors, is_anchor, Text, Newline
    <3>. QED
      BY <3>1, <3>2 DEF Anchored, AnchorSons, Sons
  <2>5. UidAt(s, m + 1) = UidAt(s, m)
    BY <2>2, <2>4 DEF Good, Scoped
  <2>6. HasId(s, m) => HasId(s, m + 1)
    <3>1. \A j \in 1..(m - 1) : j \in 1..(m + 1 - 1)
      BY <2>2
    <3>. QED
      BY <3>1 DEF HasId
  <2>7. SameContext(s, Top(s), s, m)
    BY <2>5, <2>6 DEF SameContext, Top
  <2>. QED
    BY <2>1, <2>7, ContextTrans
<1>. QED
  BY <1>2, <1>3, <1>4 DEF Breaks

-----------------------------------------------------------------------------
\* The commands of the document.

\* The elements are kept, and there are no new anchors.
Grows(s, r) == Good(r) /\ Keeps(s, r) /\ NoNewAnchors(s, r)

\* Two steps that add elements without anchors are one.
LEMMA GrowsTrans ==
  ASSUME NEW s, Good(s), NEW r, Grows(s, r), NEW q, Grows(r, q)
  PROVE  Grows(s, q)
<1>1. s \in State /\ r \in State /\ q \in State
  BY DEF Grows, Good
<1>2. Keeps(s, q)
  BY <1>1, KeepsTrans DEF Grows
<1>3. ASSUME NEW e \in 1..Len(q.elts), e > Len(s.elts) PROVE q.elts[e].name # "anchor"
  <2>1. Len(r.elts) \in Nat /\ Len(q.elts) \in Nat
    BY <1>1, StateParts
  <2>2. CASE e > Len(r.elts)
    BY <2>2 DEF Grows, NoNewAnchors
  <2>3. CASE e \in 1..Len(r.elts)
    <3>1. r.elts[e].name # "anchor" /\ q.elts[e].name = r.elts[e].name
      BY <1>3, <2>3 DEF Grows, NoNewAnchors, Keeps
    <3>. QED
      BY <3>1
  <2>. QED
    BY <1>3, <2>1, <2>2, <2>3
<1>. QED
  BY <1>2, <1>3 DEF Grows, NoNewAnchors

\* A step that keeps the anchors adds elements.
LEMMA MovesGrows ==
  ASSUME NEW s, NEW r, Good(r), Steady(s, r)
  PROVE  Grows(s, r)
BY DEF Grows, Steady, Counts

\* Where \anchor is not used no element is an anchor.
LEMMA GrowsNoAnchors ==
  ASSUME NEW s, Good(s), NoAnchors(s), NEW r, Grows(s, r)
  PROVE  NoAnchors(r)
<1>1. s \in State /\ r \in State
  BY DEF Grows, Good
<1>2. Len(s.elts) \in Nat /\ DOMAIN s.elts = 1..Len(s.elts) /\ Len(r.elts) \in Nat /\ DOMAIN r.elts = 1..Len(r.elts)
  BY <1>1, StateParts
<1>3. ASSUME NEW e \in 1..Len(r.elts) PROVE r.elts[e].name # "anchor"
  <2>1. CASE e > Len(s.elts)
    BY <2>1 DEF Grows, NoNewAnchors
  <2>2. CASE e \in 1..Len(s.elts)
    <3>1. s.elts[e].name # "anchor" /\ r.elts[e].name = s.elts[e].name
      BY <1>2, <2>2 DEF NoAnchors, Grows, Keeps
    <3>. QED
      BY <3>1
  <2>. QED
    BY <1>2, <2>1, <2>2
<1>. QED
  BY <1>2, <1>3 DEF NoAnchors

\* The mode that is there already.
LEMMA SameMode ==
  ASSUME NEW s \in State
  PROVE  WithMode(s, s.mode) = s
BY DEF State, WithMode

\* push1 keeps the mode.
LEMMA Push1Mode ==
  ASSUME NEW s, Good(s), NEW name \in {"head", "footnote", "list", "div0", "div1", "item"}, Fits(name, first_frame(s))
  PROVE  push1(s, name) \in State /\ push1(s, name) = WithMode(push1(s, name), s.mode)
<1>. DEFINE q == add_newid0(s, name)
            n == Len(s.elts) + 1
            p == ipush(q, name, n)
<1>1. s \in State /\ Stacked(s) /\ Named(s)
  BY DEF Good, Stacked
<1>2. name = "item" => s.elts[top_stack(s)].name = "list"
  <2>1. /\ Len(s.frames) \in DOMAIN s.frames /\ Last(s.frames) = s.frames[Len(s.frames)]
        /\ top_stack(s) = s.frames[Len(s.frames)].elt
    BY <1>1, TopOf
  <2>2. name = "item" => s.frames[Len(s.frames)].frame = "list"
    BY <2>1 DEF Fits, first_frame
  <2>. QED
    BY <1>1, <2>1, <2>2 DEF Named, NameOf
<1>3. SameStack(s, q) /\ q \in State /\ Len(q.elts) = n
  BY <1>2, NewSonCalm DEF ElementNames, FrameNames, BlockNames
<1>4. n \in Nat
  BY <1>1, StateParts
<1>5. push1(s, name) = p
  BY <1>3 DEF push1, get_xid
<1>. HIDE DEF n, q
<1>6. p \in State /\ p.mode = s.mode
  <2>1. name \in FrameNames
    BY DEF FrameNames, BlockNames
  <2>2. p \in State /\ p.mode = q.mode
    BY <1>3, <1>4, <2>1, IpushEffect
  <2>. QED
    BY <1>3, <2>2 DEF SameStack
<1>. HIDE DEF p
<1>7. WithMode(p, p.mode) = p
  BY <1>6, SameMode
<1>. QED
  BY <1>5, <1>6, <1>7

\* The element of a command is pushed on the stack; it is no anchor yet.
LEMMA PushedScope ==
  ASSUME NEW s, Good(s), NEW name \in {"head", "footnote", "list", "div0", "div1", "item"}, NEW md \in Modes, NEW r,
         r = WithMode(push1(s, name), md),
         ModeFits(md, name), Fits(name, first_frame(s))
  PROVE  /\ Grows(s, r) /\ SameContext(s, Top(s), r, Top(s)) /\ SameContext(s, Top(s), r, Top(r))
         /\ \E f \in FrameType : f.frame = name /\ r.frames = Append(s.frames, f)
<1>. DEFINE n == Len(s.elts) + 1
            F == FrameFor(s, name, n)
<1>1. /\ Good(r) /\ Steady(s, r) /\ r.elts[n].id = NoId /\ r.frames = Append(s.frames, F) /\ F \in FrameType
      /\ r.cur_lid = s.cur_lid
  BY Push1Good
<1>2. F.uid = s.cur_lid /\ F.elt = n /\ F.frame = name
  BY DEF FrameFor
<1>3. r \in State /\ Keeps(s, r)
  BY <1>1 DEF Good, Steady, Counts
<1>. HIDE DEF F, n
<1>4. Grows(s, r)
  BY <1>1, MovesGrows
<1>. QED
  BY <1>1, <1>2, <1>3, <1>4, PushContext

\* One of the elements has the id of the current anchor, and shows the label.
Marks(s, label) == \E e \in DOMAIN s.elts : s.elts[e].id = s.cur_lid /\ s.elts[e].text = label

\* An element that has just become the current anchor shows its number.
LEMMA MarksShows ==
  ASSUME NEW s, Good(s), NEW label, Marks(s, label)
  PROVE  Shows(s, Top(s), label)
<1>1. UidAt(s, Top(s)) = s.cur_lid
  <2>1. Len(s.frames) \in Nat
    BY StateParts DEF Good
  <2>. QED
    BY <2>1 DEF UidAt, Top
<1>. QED
  BY <1>1 DEF Shows, Marks

\* The element of a command is pushed and becomes an anchor.
LEMMA NumberedPush ==
  ASSUME NEW s, Good(s), NEW name \in {"footnote", "div0", "div1", "item"},
         NEW md \in Modes, ModeFits(md, name), Fits(name, first_frame(s)),
         NEW text \in Seq(Nat), NEW r,
         \/ r = add_new_anchor(WithMode(push1(s, name), md), text)
         \/ r = add_new_anchor_spec(WithMode(push1(s, name), md), text)
  PROVE  LET n == Len(s.elts) + 1 IN
         /\ Grows(s, r) /\ r.frames = Append(s.frames, FrameFor(s, name, n)) /\ FrameFor(s, name, n) \in FrameType
         /\ s.frames \in Seq(FrameType) /\ first_frame(r) = name /\ r.mode = md
         /\ SameContext(s, Top(s), r, Top(s)) /\ Marks(r, text)
<1>. DEFINE n == Len(s.elts) + 1
            F == FrameFor(s, name, n)
            t == WithMode(push1(s, name), md)
<1>. HIDE DEF t
<1>2. /\ Good(t) /\ Steady(s, t) /\ Len(t.elts) = n /\ top_stack(t) = n /\ first_frame(t) = name
      /\ t.elts[n].name = name /\ t.elts[n].sons = <<>>
      /\ t.frames = Append(s.frames, F) /\ F \in FrameType /\ s.frames \in Seq(FrameType) /\ t.mode = md
  BY Push1Good DEF t
<1>3. r = add_new_anchor(t, text) \/ r = add_new_anchor_spec(t, text)
  BY DEF t
<1>4. Marked(t, r, text)
  BY <1>2, <1>3, AnchorMarks DEF WithNumber
<1>5. Good(r)
  BY <1>2, <1>4, MarkedGood
<1>6. s \in State /\ t \in State /\ r \in State /\ Len(s.elts) \in Nat /\ n \in Nat
  BY <1>2, <1>5, StateParts DEF Good
<1>7. F.uid = s.cur_lid /\ F.elt = n
  BY DEF FrameFor
<1>. HIDE DEF F
<1>8. Keeps(s, t) /\ NoNewAnchors(s, t)
  BY <1>2 DEF Steady, Counts
<1>9. Len(r.elts) = n /\ r.frames = t.frames /\ r.mode = t.mode /\ r.elts[n].id = r.cur_lid /\ r.elts[n].text = text
  BY <1>2, <1>4 DEF Marked
<1>10. \A e \in 1..n : r.elts[e].name = t.elts[e].name
  BY <1>2, <1>4 DEF Marked
<1>11. \A e \in 1..n : e # n => r.elts[e].id = t.elts[e].id /\ r.elts[e].text = t.elts[e].text
  BY <1>2, <1>4 DEF Marked
<1>12. Keeps(s, r)
  <2>1. ASSUME NEW e \in 1..Len(s.elts)
        PROVE  r.elts[e].name = s.elts[e].name /\ r.elts[e].id = s.elts[e].id /\ r.elts[e].text = s.elts[e].text
    <3>1. e \in 1..n /\ e # n
      BY <1>6
    <3>2. t.elts[e].name = s.elts[e].name /\ t.elts[e].id = s.elts[e].id /\ t.elts[e].text = s.elts[e].text
      BY <1>8 DEF Keeps
    <3>. QED
      BY <1>10, <1>11, <3>1, <3>2
  <2>2. Len(s.elts) <= Len(r.elts)
    BY <1>6, <1>9
  <2>. QED
    BY <2>1, <2>2 DEF Keeps
<1>13. NoNewAnchors(s, r)
  BY <1>2, <1>8, <1>9, <1>10 DEF NoNewAnchors
<1>14. Grows(s, r)
  BY <1>5, <1>12, <1>13 DEF Grows
<1>15. SameContext(s, Top(s), r, Top(s))
  BY <1>2, <1>6, <1>7, <1>9, <1>12, PushContext
<1>16. Marks(r, text)
  <2>1. n \in DOMAIN r.elts
    BY <1>6, <1>9, StateParts
  <2>. QED
    BY <1>9, <2>1 DEF Marks
<1>17. first_frame(r) = name
  BY <1>2, <1>9 DEF first_frame
<1>18. /\ Grows(s, r) /\ r.frames = Append(s.frames, F) /\ F \in FrameType
       /\ s.frames \in Seq(FrameType) /\ first_frame(r) = name /\ r.mode = md
       /\ SameContext(s, Top(s), r, Top(s)) /\ Marks(r, text)
  BY <1>2, <1>9, <1>14, <1>15, <1>16, <1>17
<1>. QED
  BY <1>18 DEF F, n

\* The state after an anchor is made.
LEMMA AnchorState ==
  ASSUME NEW s \in State, NEW text
  PROVE  add_new_anchor(s, text) =
           [s EXCEPT !.elts = [s.elts EXCEPT ![Len(s.elts)].id = NextId(s), ![Len(s.elts)].text = text],
                     !.cur_lid = NextId(s), !.last_label_id = s.last_label_id + 1]
BY DEF add_new_anchor, create_new_anchor, WithNextId, NextId, get_xid, State

\* The mode may be set before the anchor is made.
LEMMA ModeAnchor ==
  ASSUME NEW s \in State, NEW text, NEW md \in Modes
  PROVE  WithMode(add_new_anchor(s, text), md) = add_new_anchor(WithMode(s, md), text)
<1>. DEFINE es == [s.elts EXCEPT ![Len(s.elts)].id = NextId(s), ![Len(s.elts)].text = text]
            last == s.last_label_id + 1
            t == WithMode(s, md)
<1>1. add_new_anchor(s, text) = [s EXCEPT !.elts = es, !.cur_lid = NextId(s), !.last_label_id = last]
  BY AnchorState
<1>2. t.elts = s.elts /\ t.last_label_id = s.last_label_id /\ NextId(t) = NextId(s) /\ t \in State
  BY DEF WithMode, State, NextId
<1>3. t = [s EXCEPT !.mode = md]
  BY DEF WithMode
<1>. HIDE DEF t
<1>4. add_new_anchor(t, text) =
        [t EXCEPT !.elts = [t.elts EXCEPT ![Len(t.elts)].id = NextId(t), ![Len(t.elts)].text = text],
                  !.cur_lid = NextId(t), !.last_label_id = t.last_label_id + 1]
  BY <1>2, AnchorState
<1>5. add_new_anchor(t, text) = [t EXCEPT !.elts = es, !.cur_lid = NextId(s), !.last_label_id = last]
  BY <1>2, <1>4
<1>. DEFINE a == add_new_anchor(t, text)
            b == add_new_anchor(s, text)
<1>. HIDE DEF es, last, a, b
<1>6. a = [t EXCEPT !.elts = es, !.cur_lid = NextId(s), !.last_label_id = last]
  BY <1>5 DEF a
<1>7. b = [s EXCEPT !.elts = es, !.cur_lid = NextId(s), !.last_label_id = last]
  BY <1>1 DEF b
<1>8. a = WithMode(b, md)
  BY <1>3, <1>6, <1>7 DEF WithMode, State
<1>. QED
  BY <1>8 DEF a, b, t

\* The block of command c is pushed; below it, frames above the last block may come and go.
Opens(s, r, c) ==
  /\ Grows(s, r)
  /\ \E fr \in Seq(FrameType), f \in FrameType :
       SameBlocks(s.frames, fr) /\ r.frames = Append(fr, f) /\ f.frame = FrameOf(c)

\* Elements are added, and frames come and go above the last block.
Goes(s, r) == Grows(s, r) /\ SameBlocks(s.frames, r.frames)

\* A step that keeps the anchors goes on in the same blocks.
LEMMA MovesGoes ==
  ASSUME NEW s, NEW r, Moves(s, r)
  PROVE  Goes(s, r)
BY MovesGrows DEF Moves, Goes

\* Two steps in the same blocks are one.
LEMMA GoesTrans ==
  ASSUME NEW s, Good(s), NEW r, Goes(s, r), NEW q, Goes(r, q)
  PROVE  Goes(s, q)
<1>1. Grows(s, q)
  BY GrowsTrans DEF Goes
<1>2. s.frames \in Seq(FrameType)
  BY StateParts DEF Good
<1>3. Blocks(s.frames) \in SUBSET (1..Len(s.frames)) /\ Len(s.frames) \in Nat
  BY <1>2, BlocksAre
<1>4. Blocks(s.frames) \in SUBSET Nat
  BY <1>3
<1>5. SameBlocks(s.frames, q.frames)
  BY <1>4, BlocksTrans DEF Goes
<1>. QED
  BY <1>1, <1>5 DEF Goes

\* A step in the same blocks and a frame for a command open the command.
LEMMA PushOpens ==
  ASSUME NEW s, Good(s), NEW t, Goes(s, t), NEW r, Grows(t, r), NEW c, NEW f \in FrameType,
         r.frames = Append(t.frames, f), f.frame = FrameOf(c)
  PROVE  Opens(s, r, c) /\ Len(r.frames) = Top(t)
<1>1. Good(t) /\ SameBlocks(s.frames, t.frames)
  BY DEF Goes, Grows
<1>2. Grows(s, t)
  BY DEF Goes
<1>3. Grows(s, r)
  BY <1>2, GrowsTrans
<1>4. t.frames \in Seq(FrameType)
  BY <1>1, StateParts DEF Good
<1>5. Len(r.frames) = Top(t)
  BY <1>4, PushedAt DEF Top
<1>. QED
  BY <1>1, <1>3, <1>4, <1>5 DEF Opens

\* \begin{enumerate}
LEMMA ListOpens ==
  ASSUME NEW s, Good(s), NEW r, r = push1(leave_h_mode(s), "list")
  PROVE  /\ Opens(s, r, "list")
         /\ NoAnchors(s) => SameContext(s, Top(s), r, Len(r.frames)) /\ SameContext(s, Top(s), r, Top(r))
<1>. DEFINE t == leave_h_mode(s)
            n == Len(t.elts) + 1
            F == FrameFor(t, "list", n)
<1>1. Moves(s, t) /\ Breaks(s, t) /\ first_frame(t) # "p" /\ t.mode # "h"
  BY LeaveHMoves
<1>. HIDE DEF t
<1>2. Good(t) /\ t.mode \in Modes
  BY <1>1, StateParts DEF Moves, Good
<1>3. ModeFits(t.mode, "list") /\ Fits("list", first_frame(t))
  BY <1>1 DEF ModeFits, Fits
<1>4. r = WithMode(push1(t, "list"), t.mode)
  BY <1>2, <1>3, Push1Mode DEF t
<1>5. Grows(t, r) /\ SameContext(t, Top(t), r, Top(t)) /\ SameContext(t, Top(t), r, Top(r))
  BY <1>2, <1>3, <1>4, PushedScope
<1>6. r.frames = Append(t.frames, F) /\ F \in FrameType
  BY <1>2, <1>3, <1>4, Push1Good
<1>7. F.frame = FrameOf("list")
  BY DEF FrameFor, FrameOf
<1>. HIDE DEF F
<1>8. Opens(s, r, "list") /\ Len(r.frames) = Top(t)
  BY <1>1, <1>5, <1>6, <1>7, MovesGoes, PushOpens
<1>9. NoAnchors(s) => SameContext(s, Top(s), t, Top(t))
  BY <1>1, <1>2, BreaksContext DEF Moves, Steady, Counts
<1>. QED
  BY <1>5, <1>8, <1>9, ContextTrans

\* \hbox
LEMMA BoxOpens ==
  ASSUME NEW s, Good(s), NEW r,
         r = WithMode(ipush(New(s, NameOf("hbox")), "hbox", get_xid(New(s, NameOf("hbox")))), "arg")
  PROVE  Opens(s, r, "hbox") /\ SameContext(s, Top(s), r, Len(r.frames)) /\ SameContext(s, Top(s), r, Top(r))
<1>. DEFINE n == Len(s.elts) + 1
            F == FrameFor(s, "hbox", n)
<1>1. /\ Good(r) /\ Steady(s, r) /\ r.frames = Append(s.frames, F) /\ F \in FrameType
      /\ r.elts[n].id = NoId /\ r.cur_lid = s.cur_lid
  BY PushBoxGood
<1>2. F.frame = FrameOf("hbox") /\ F.uid = s.cur_lid /\ F.elt = n
  BY DEF FrameFor, FrameOf
<1>. HIDE DEF F, n
<1>3. Grows(s, r) /\ r \in State /\ Keeps(s, r)
  BY <1>1, MovesGrows DEF Grows, Good
<1>4. Moves(s, s)
  BY CalmRefl, CalmMoves
<1>5. Opens(s, r, "hbox") /\ Len(r.frames) = Top(s)
  BY <1>1, <1>2, <1>3, <1>4, MovesGoes, PushOpens
<1>6. SameContext(s, Top(s), r, Top(s)) /\ SameContext(s, Top(s), r, Top(r))
  BY <1>1, <1>2, <1>3, PushContext
<1>. QED
  BY <1>5, <1>6

\* \footnote
LEMMA NoteOpens ==
  ASSUME NEW s, Good(s), NEW text \in Seq(Nat),
         NEW r, r = WithMode(add_new_anchor(push1(leave_v_mode(s), "footnote"), text), "v")
  PROVE  /\ Opens(s, r, "footnote") /\ Marks(r, text)
         /\ NoAnchors(s) => SameContext(s, Top(s), r, Len(r.frames))
<1>. DEFINE t == leave_v_mode(s)
            n == Len(t.elts) + 1
            F == FrameFor(t, "footnote", n)
            p == push1(t, "footnote")
<1>1. Moves(s, t) /\ Breaks(s, t)
  BY LeaveVMoves
<1>. HIDE DEF t
<1>2. Good(t) /\ "v" \in Modes
  BY <1>1 DEF Moves, Modes
<1>3. ModeFits("v", "footnote") /\ Fits("footnote", first_frame(t))
  BY DEF ModeFits, Fits
<1>4. p \in State
  BY <1>2, <1>3, Push1Mode
<1>. HIDE DEF p
<1>5. r = add_new_anchor(WithMode(p, "v"), text)
  BY <1>2, <1>4, ModeAnchor DEF p, t
<1>6. r = add_new_anchor(WithMode(push1(t, "footnote"), "v"), text)
  BY <1>5 DEF p
<1>7. /\ Grows(t, r) /\ r.frames = Append(t.frames, F) /\ F \in FrameType
      /\ SameContext(t, Top(t), r, Top(t)) /\ Marks(r, text)
  BY <1>2, <1>3, <1>6, NumberedPush
<1>8. F.frame = FrameOf("footnote")
  BY DEF FrameFor, FrameOf
<1>. HIDE DEF F
<1>9. Opens(s, r, "footnote") /\ Len(r.frames) = Top(t)
  BY <1>1, <1>7, <1>8, MovesGoes, PushOpens
<1>10. NoAnchors(s) => SameContext(s, Top(s), t, Top(t))
  BY <1>1, <1>2, BreaksContext DEF Moves, Steady, Counts
<1>. QED
  BY <1>7, <1>9, <1>10, ContextTrans

\* Another mode is set.
LEMMA ModeSet ==
  ASSUME NEW s, Good(s), NEW md \in Modes, ModeFits(md, first_frame(s)), NEW r, r = WithMode(s, md)
  PROVE  /\ Good(r) /\ Moves(s, r)
         /\ r.elts = s.elts /\ r.frames = s.frames /\ r.cur_lid = s.cur_lid /\ r.mode = md
<1>1. s \in State
  BY DEF Good
<1>2. /\ r \in State /\ SameTree(s, r) /\ r.frames = s.frames /\ r.mode = md
      /\ r.cur_lid = s.cur_lid /\ r.unfinished_par = s.unfinished_par
  BY <1>1, ModeEffect
<1>3. r.elts = s.elts
  BY <1>2 DEF SameTree
<1>4. Good(r) /\ Steady(s, r)
  BY <1>2, <1>3, OtherMode DEF first_frame
<1>5. SameBlocks(s.frames, r.frames)
  <2>1. Moves(s, s)
    BY CalmRefl, CalmMoves
  <2>. QED
    BY <1>2, <2>1 DEF Moves
<1>. QED
  BY <1>2, <1>3, <1>4, <1>5 DEF Moves

\* Outside of blocks there are sections only.
LEMMA NoBlocks ==
  ASSUME NEW s, Good(s), Blocks(s.frames) = {}, first_frame(s) # "p"
  PROVE  first_frame(s) \in {"document", "div0", "div1"}
<1>. DEFINE m == Len(s.frames)
<1>1. s.frames \in Seq(FrameType) /\ m \in 1..m /\ Last(s.frames) = s.frames[m] /\ s.frames[m].frame \in FrameNames
      /\ m \in Nat \ {0} /\ DOMAIN s.frames = 1..m
  <2>1. s \in State /\ Stacked(s)
    BY DEF Good
  <2>. QED
    BY <2>1, TopOf, StateParts
<1>. HIDE DEF m
<1>2. s.frames[m].frame \notin BlockNames
  BY <1>1, BlocksAre DEF m
<1>3. s.frames[m].frame # "item"
  <2>. SUFFICES ASSUME s.frames[m].frame = "item" PROVE FALSE
    OBVIOUS
  <2>1. m > 1 /\ Fits("item", s.frames[m - 1].frame)
    BY <1>1, BelowTop DEF m
  <2>2. m - 1 \in 1..m /\ s.frames[m - 1].frame = "list"
    BY <1>1, <2>1 DEF Fits
  <2>3. m - 1 \in Blocks(s.frames)
    BY <1>1, <2>2, BlocksAre DEF BlockNames, m
  <2>. QED
    BY <2>3
<1>. QED
  BY <1>1, <1>2, <1>3 DEF FrameNames, first_frame

\* The sections that end.
LEMMA ParaMoves ==
  ASSUME NEW s, Good(s), Blocks(s.frames) = {}, first_frame(s) # "p", NEW y \in {0, 1}
  PROVE  LET r == para_aux(s, y) IN
         /\ Moves(s, r)
         /\ first_frame(r) \in (IF y = 0 THEN {"document"} ELSE {"document", "div0"})
<1>. DEFINE t == pop_if_frame(s, "div1")
            q == pop_if_frame(t, "div0")
<1>1. first_frame(s) \in {"document", "div0", "div1"}
  BY NoBlocks
<1>2. /\ Moves(s, t)
      /\ first_frame(s) # "div1" => t = s
      /\ first_frame(s) = "div1" => Fits("div1", first_frame(t))
  BY PopIfMoves
<1>. HIDE DEF t
<1>3. first_frame(t) \in {"document", "div0"}
  BY <1>1, <1>2 DEF Fits
<1>4. Good(t)
  BY <1>2 DEF Moves
<1>5. /\ Moves(t, q)
      /\ first_frame(t) # "div0" => q = t
      /\ first_frame(t) = "div0" => Fits("div0", first_frame(q))
  BY <1>4, PopIfMoves
<1>. HIDE DEF q
<1>6. first_frame(q) = "document"
  BY <1>3, <1>5 DEF Fits
<1>7. Moves(s, q)
  BY <1>2, <1>5, MovesTrans
<1>8. para_aux(s, y) = IF y = 0 THEN q ELSE t
  BY DEF para_aux, t, q
<1>. QED
  BY <1>2, <1>3, <1>6, <1>7, <1>8

\* What follows the sections that end.
LEMMA SectionPlace ==
  ASSUME NEW s, Good(s), Blocks(s.frames) = {}, NEW y \in {0, 1}
  PROVE  LET r == add_nl(para_aux(leave_h_mode(s), y)) IN
         /\ Moves(s, r) /\ r.mode \in Modes /\ r.mode # "h"
         /\ Fits(IF y = 0 THEN "div0" ELSE "div1", first_frame(r))
<1>. DEFINE l == leave_h_mode(s)
            p == para_aux(l, y)
            r == add_nl(p)
<1>1. Moves(s, l) /\ first_frame(l) # "p"
  BY LeaveHMoves
<1>. HIDE DEF l
<1>2. Good(l) /\ Blocks(l.frames) = {}
  BY <1>1 DEF Moves, SameBlocks
<1>3. Moves(l, p) /\ first_frame(p) \in (IF y = 0 THEN {"document"} ELSE {"document", "div0"})
  BY <1>1, <1>2, ParaMoves
<1>. HIDE DEF p
<1>4. Good(p)
  BY <1>3 DEF Moves
<1>5. Calm(p, r)
  BY <1>4, TextCalm
<1>. HIDE DEF r
<1>6. first_frame(r) = first_frame(p) /\ Good(r)
  BY <1>5 DEF Calm, first_frame
<1>7. Moves(s, r)
  <2>1. Moves(p, r)
    BY <1>4, <1>5, CalmMoves
  <2>2. Moves(s, p)
    BY <1>1, <1>3, MovesTrans
  <2>. QED
    BY <2>1, <2>2, MovesTrans
<1>8. r.mode \in Modes
  BY <1>6, StateParts DEF Good
<1>9. r.mode # "h"
  <2>1. first_frame(r) # "p"
    BY <1>3, <1>6
  <2>2. ModeFits(r.mode, first_frame(r))
    BY <1>6, ModeOfTop
  <2>. QED
    BY <2>1, <2>2 DEF ModeFits
<1>10. Fits(IF y = 0 THEN "div0" ELSE "div1", first_frame(r))
  BY <1>3, <1>6 DEF Fits
<1>. QED
  BY <1>7, <1>8, <1>9, <1>10 DEF r, p, l

\* \section and \subsection, up to the title.
LEMMA TitleOpens ==
  ASSUME NEW s, Good(s), Blocks(s.frames) = {}, NEW y \in {0, 1}, NEW text \in Seq(Nat),
         NEW d, d = push1(add_nl(para_aux(leave_h_mode(s), y)), IF y = 0 THEN "div0" ELSE "div1"),
         NEW t, t = d \/ t = add_new_anchor(d, text) \/ t = add_new_anchor_spec(d, text),
         NEW r, r = push1(WithMode(t, "arg"), "head")
  PROVE  /\ Opens(s, r, "title")
         /\ t = add_new_anchor(d, text) \/ t = add_new_anchor_spec(d, text) =>
              Shows(r, Len(r.frames), text) /\ Shows(r, Top(r), text)
<1>. DEFINE a == add_nl(para_aux(leave_h_mode(s), y))
            name == IF y = 0 THEN "div0" ELSE "div1"
            n == Len(a.elts) + 1
            D == FrameFor(a, name, n)
            Marked2 == t = add_new_anchor(d, text) \/ t = add_new_anchor_spec(d, text)
<1>1. Moves(s, a) /\ a.mode \in Modes /\ a.mode # "h" /\ Fits(name, first_frame(a))
  BY SectionPlace
<1>2. d = push1(a, name) /\ name \in {"div0", "div1"}
  OBVIOUS
<1>. HIDE DEF a, name
<1>3. Good(a) /\ ModeFits(a.mode, name) /\ name \in {"head", "footnote", "list", "div0", "div1", "item"}
      /\ name \in {"footnote", "div0", "div1", "item"}
  BY <1>1, <1>2 DEF Moves, ModeFits
<1>4. d = WithMode(push1(a, name), a.mode)
  BY <1>1, <1>2, <1>3, Push1Mode
<1>. HIDE DEF Marked2, D
<1>5. /\ Grows(a, t) /\ first_frame(t) = name /\ t.frames = Append(a.frames, D) /\ D \in FrameType
      /\ Marked2 => Marks(t, text)
  <2>1. CASE Marked2
    <3>1. \/ t = add_new_anchor(WithMode(push1(a, name), a.mode), text)
          \/ t = add_new_anchor_spec(WithMode(push1(a, name), a.mode), text)
      BY <1>4, <2>1 DEF Marked2
    <3>. QED
      BY <1>1, <1>3, <3>1, NumberedPush DEF D
  <2>2. CASE t = d /\ ~Marked2
    <3>1. Good(d) /\ Steady(a, d) /\ first_frame(d) = name /\ d.frames = Append(a.frames, D) /\ D \in FrameType
      BY <1>1, <1>3, <1>4, Push1Good DEF D
    <3>. QED
      BY <2>2, <3>1, MovesGrows
  <2>. QED
    BY <2>1, <2>2 DEF Marked2
<1>6. Goes(s, t)
  <2>1. D.frame = name
    BY DEF FrameFor, D
  <2>2. a.frames \in Seq(FrameType)
    BY <1>3, StateParts DEF Good
  <2>3. SameBlocks(a.frames, t.frames)
    BY <1>2, <1>5, <2>1, <2>2, PushedBlocks DEF BlockNames
  <2>4. Goes(a, t)
    BY <1>5, <2>3 DEF Goes
  <2>. QED
    BY <1>1, <2>4, MovesGoes, GoesTrans
<1>. DEFINE q == WithMode(t, "arg")
<1>7. Good(t) /\ "arg" \in Modes /\ ModeFits("arg", first_frame(t))
  BY <1>2, <1>5 DEF Grows, Modes, ModeFits
<1>8. Good(q) /\ Moves(t, q) /\ q.elts = t.elts /\ q.frames = t.frames /\ q.cur_lid = t.cur_lid /\ q.mode = "arg"
  BY <1>7, ModeSet
<1>9. r = push1(q, "head")
  OBVIOUS
<1>. HIDE DEF q
<1>10. ModeFits("arg", "head") /\ Fits("head", first_frame(q))
  <2>1. first_frame(q) = name
    BY <1>5, <1>8 DEF first_frame
  <2>. QED
    BY <1>2, <2>1 DEF Fits, ModeFits
<1>11. r = WithMode(push1(q, "head"), "arg")
  BY <1>8, <1>9, <1>10, Push1Mode
<1>12. Grows(q, r) /\ SameContext(q, Top(q), r, Top(q)) /\ SameContext(q, Top(q), r, Top(r))
  BY <1>7, <1>8, <1>10, <1>11, PushedScope
<1>13. PICK f \in FrameType : f.frame = "head" /\ r.frames = Append(q.frames, f)
  BY <1>7, <1>8, <1>10, <1>11, PushedScope
<1>14. f.frame = FrameOf("title")
  BY <1>13 DEF FrameOf
<1>15. Goes(s, q)
  BY <1>6, <1>8, MovesGoes, GoesTrans
<1>16. Opens(s, r, "title") /\ Len(r.frames) = Top(q)
  BY <1>12, <1>13, <1>14, <1>15, PushOpens
<1>17. Marked2 => Shows(r, Top(q), text) /\ Shows(r, Top(r), text)
  <2>. SUFFICES ASSUME Marked2 PROVE Shows(r, Top(q), text) /\ Shows(r, Top(r), text)
    OBVIOUS
  <2>1. Marks(q, text)
    BY <1>5, <1>8 DEF Marks
  <2>2. Shows(q, Top(q), text)
    BY <1>8, <2>1, MarksShows
  <2>3. q \in State /\ r \in State /\ Keeps(q, r)
    BY <1>8, <1>12 DEF Grows, Good
  <2>. QED
    BY <1>12, <2>2, <2>3, ShowsKept
<1>. QED
  BY <1>16, <1>17 DEF Marked2

-----------------------------------------------------------------------------
\* The end of a command.

\* The block on the top of the stack belongs to the command that was opened last.
LEMMA BlockOnTop ==
  ASSUME NEW s, Good(s), NEW op \in Seq(Commands), Nest(s.frames, op), op # <<>>, Last(op) \in Openers,
         Last(s.frames).frame \in BlockNames
  PROVE  <<Len(s.frames), Len(op)>> \in Matched(s.frames, op)
<1>. DEFINE m == Len(s.frames)
<1>1. s.frames \in Seq(FrameType) /\ m \in 1..m /\ Last(s.frames) = s.frames[m]
  <2>1. s \in State /\ Stacked(s)
    BY DEF Good
  <2>. QED
    BY <2>1, TopOf, StateParts
<1>2. Blocks(s.frames) \in SUBSET (1..m) /\ m \in Blocks(s.frames) /\ m \in Nat
  BY <1>1, BlocksAre
<1>. HIDE DEF m
<1>3. PICK b \in Blocks(s.frames) : (\A h \in Blocks(s.frames) : h <= b) /\ <<b, Len(op)>> \in Matched(s.frames, op)
  BY <1>1, Innermost
<1>4. m <= b /\ b <= m /\ b \in Nat
  BY <1>2, <1>3
<1>5. b = m
  BY <1>2, <1>4
<1>. QED
  BY <1>3, <1>5 DEF m

\* The last command is closed with its block; what is in scope below the other blocks
\* stays, what was in scope below the block is on the top of the stack again.
Shuts(s, r, op) ==
  /\ Grows(s, r) /\ Nest(r.frames, Front(op)) /\ Matched(r.frames, Front(op)) \in SUBSET Matched(s.frames, op)
  /\ \A p \in Matched(r.frames, Front(op)) : SameContext(s, p[1], r, p[1])
  /\ \E b \in Blocks(s.frames) : <<b, Len(op)>> \in Matched(s.frames, op) /\ SameContext(s, b, r, Top(r))

\* What is matched is a block and an open command.
LEMMA MatchedBlocks ==
  ASSUME NEW fr, NEW op, NEW p \in Matched(fr, op)
  PROVE  p[1] \in Blocks(fr) /\ p[2] \in At(op, Openers) /\ p = <<p[1], p[2]>>
BY DEF Matched

\* A block is popped.
LEMMA PopShuts ==
  ASSUME NEW s, Good(s), NEW op \in Seq(Commands), Nest(s.frames, op), op # <<>>, Last(op) \in Openers,
         Last(s.frames).frame \in BlockNames
  PROVE  LET r == pop(s) IN
         /\ Shuts(s, r, op) /\ Good(r) /\ r.elts = s.elts
         /\ top_stack(r) = Last(Front(s.frames)).elt /\ first_frame(r) = Last(Front(s.frames)).frame
         /\ top_stack(s) \in DOMAIN r.elts /\ top_stack(r) < top_stack(s)
<1>. DEFINE r == pop(s)
            m == Len(s.frames)
<1>1. s \in State /\ Stacked(s) /\ s.frames \in Seq(FrameType) /\ s.frames # <<>> /\ Tree(s)
  BY StateParts DEF Good, Stacked
<1>2. /\ r \in State /\ SameTree(s, r) /\ r.unfinished_par = s.unfinished_par
      /\ r.frames = Front(s.frames) /\ r.mode = Last(s.frames).md /\ r.cur_lid = Last(s.frames).uid
  BY <1>1, PopEffect
<1>. HIDE DEF r
<1>3. r.elts = s.elts
  BY <1>2 DEF SameTree
<1>4. PoppedFrom(s, r)
  BY <1>1, <1>2, <1>3 DEF PoppedFrom, Tree
<1>5. Last(s.frames).frame # "document"
  BY DEF BlockNames
<1>6. Good(r) /\ Steady(s, r)
  BY <1>4, <1>5, PoppedGood
<1>7. Grows(s, r) /\ Keeps(s, r)
  BY <1>6, MovesGrows DEF Grows
<1>8. Nest(r.frames, Front(op)) /\ Matched(r.frames, Front(op)) \in SUBSET Matched(s.frames, op)
  BY <1>1, <1>2, MatchedPop
<1>9. /\ Len(r.frames) = m - 1 /\ m \in Nat /\ m > 0 /\ r.frames \in Seq(FrameType)
      /\ \A i \in 1..(m - 1) : r.frames[i] = s.frames[i]
  <2>1. /\ Len(Front(s.frames)) = m - 1 /\ m \in Nat \ {0} /\ Front(s.frames) \in Seq(FrameType)
        /\ \A i \in 1..(m - 1) : Front(s.frames)[i] = s.frames[i]
    BY <1>1, PoppedAt
  <2>. HIDE DEF m
  <2>. QED
    BY <1>2, <2>1
<1>10. ASSUME NEW p \in Matched(r.frames, Front(op)) PROVE SameContext(s, p[1], r, p[1])
  <2>. DEFINE b == p[1]
  <2>1. b \in Blocks(r.frames)
    BY MatchedBlocks
  <2>2. b \in 1..Len(r.frames)
    BY <1>9, <2>1, BlocksAre
  <2>. HIDE DEF b
  <2>3. b \in 1..Len(s.frames) /\ \A j \in 1..b : r.frames[j] = s.frames[j]
    BY <1>9, <2>2
  <2>4. SameContext(s, b, r, b)
    BY <1>2, <1>7, <2>2, <2>3, SameFramesContext
  <2>. QED
    BY <2>4 DEF b
<1>11. \E b \in Blocks(s.frames) : <<b, Len(op)>> \in Matched(s.frames, op) /\ SameContext(s, b, r, Top(r))
  <2>1. SameContext(s, m, r, Top(r))
    BY <1>2, <1>7, PopContext
  <2>2. <<m, Len(op)>> \in Matched(s.frames, op)
    BY BlockOnTop
  <2>3. m \in Blocks(s.frames)
    BY <2>2 DEF Matched
  <2>. QED
    BY <2>1, <2>2, <2>3
<1>12. Shuts(s, r, op)
  BY <1>7, <1>8, <1>10, <1>11 DEF Shuts
<1>14. top_stack(r) = Last(Front(s.frames)).elt /\ first_frame(r) = Last(Front(s.frames)).frame
  BY <1>2 DEF top_stack, first_frame
<1>15. top_stack(s) \in DOMAIN r.elts /\ top_stack(r) < top_stack(s)
  <2>1. /\ m > 1 /\ Last(Front(s.frames)) = s.frames[m - 1]
    BY <1>5, BelowTop
  <2>2. m - 1 \in DOMAIN s.frames /\ m - 1 # m
    BY <1>1, <1>9, <2>1, StateParts
  <2>3. s.frames[m - 1].elt < top_stack(s) /\ top_stack(s) \in DOMAIN s.elts
    BY <1>1, <2>2, TopOf
  <2>. QED
    BY <1>3, <1>14, <2>1, <2>3
<1>. QED
  BY <1>3, <1>6, <1>12, <1>14, <1>15 DEF r

\* A command ends after its text does.
LEMMA ShutsAfter ==
  ASSUME NEW s, Good(s), NEW t, Moves(s, t), NEW op, NEW r, Shuts(t, r, op)
  PROVE  Shuts(s, r, op)
<1>1. s \in State /\ t \in State /\ r \in State /\ Good(t) /\ Grows(s, t) /\ Keeps(s, t) /\ SameBlocks(s.frames, t.frames)
  BY MovesGrows DEF Moves, Good, Grows, Shuts
<1>2. Grows(s, r) /\ Keeps(t, r)
  BY <1>1, GrowsTrans DEF Shuts, Grows
<1>3. Blocks(s.frames) \in SUBSET Nat /\ \A b \in Blocks(s.frames) : b > 0
  <2>1. s.frames \in Seq(FrameType)
    BY <1>1, StateParts
  <2>2. Blocks(s.frames) \in SUBSET (1..Len(s.frames)) /\ Len(s.frames) \in Nat
    BY <2>1, BlocksAre
  <2>. QED
    BY <2>2
<1>4. Matched(t.frames, op) = Matched(s.frames, op)
  BY <1>1, <1>3, MatchedKept
<1>5. ASSUME NEW b \in Blocks(s.frames) PROVE SameContext(s, b, t, b)
  BY <1>1, BlockContext
<1>6. ASSUME NEW p \in Matched(r.frames, Front(op)) PROVE SameContext(s, p[1], r, p[1])
  <2>1. p \in Matched(s.frames, op) /\ SameContext(t, p[1], r, p[1])
    BY <1>4 DEF Shuts
  <2>2. SameContext(s, p[1], t, p[1])
    BY <1>5, <2>1, MatchedBlocks
  <2>. QED
    BY <2>1, <2>2, ContextTrans
<1>7. \E b \in Blocks(s.frames) : <<b, Len(op)>> \in Matched(s.frames, op) /\ SameContext(s, b, r, Top(r))
  <2>1. PICK b \in Blocks(t.frames) : <<b, Len(op)>> \in Matched(t.frames, op) /\ SameContext(t, b, r, Top(r))
    BY DEF Shuts
  <2>2. b \in Blocks(s.frames)
    BY <1>1, <2>1 DEF SameBlocks
  <2>3. SameContext(s, b, r, Top(r))
    BY <1>5, <2>1, <2>2, ContextTrans
  <2>. QED
    BY <1>4, <2>1, <2>2, <2>3
<1>. QED
  BY <1>2, <1>4, <1>6, <1>7 DEF Shuts

\* A command has ended before newlines and modes are added.
LEMMA ShutsBefore ==
  ASSUME NEW s, Good(s), NEW op, NEW r, Shuts(s, r, op), NEW q, Grows(r, q), q.frames = r.frames, q.cur_lid = r.cur_lid
  PROVE  Shuts(s, q, op)
<1>1. Good(r) /\ r \in State /\ q \in State /\ Keeps(r, q) /\ r.frames \in Seq(FrameType)
  BY StateParts DEF Shuts, Grows, Good
<1>2. Grows(s, q)
  BY GrowsTrans DEF Shuts
<1>3. ASSUME NEW p \in Matched(r.frames, Front(op)) PROVE SameContext(s, p[1], q, p[1])
  <2>. DEFINE b == p[1]
  <2>1. b \in Blocks(r.frames)
    BY MatchedBlocks
  <2>2. b \in 1..Len(r.frames)
    BY <1>1, <2>1, BlocksAre
  <2>3. SameContext(s, b, r, b)
    BY DEF Shuts
  <2>. HIDE DEF b
  <2>4. SameContext(r, b, q, b)
    BY <1>1, <2>2, SameFramesContext
  <2>5. SameContext(s, b, q, b)
    BY <2>3, <2>4, ContextTrans
  <2>. QED
    BY <2>5 DEF b
<1>4. SameContext(r, Top(r), q, Top(q))
  BY <1>1, TopContext
<1>5. \E b \in Blocks(s.frames) : <<b, Len(op)>> \in Matched(s.frames, op) /\ SameContext(s, b, q, Top(q))
  <2>1. PICK b \in Blocks(s.frames) : <<b, Len(op)>> \in Matched(s.frames, op) /\ SameContext(s, b, r, Top(r))
    BY DEF Shuts
  <2>. QED
    BY <1>4, <2>1, ContextTrans
<1>. QED
  BY <1>2, <1>3, <1>5 DEF Shuts

\* A calm step adds elements, and leaves the stack alone.
LEMMA CalmGrows ==
  ASSUME NEW s, Good(s), NEW r, Calm(s, r)
  PROVE  Grows(s, r) /\ Good(r) /\ r.frames = s.frames /\ r.cur_lid = s.cur_lid /\ r.mode = s.mode
BY MovesGrows DEF Calm

\* The commands keep their blocks.
LEMMA GoesNest ==
  ASSUME NEW s, Good(s), NEW t, Goes(s, t), NEW op, Nest(s.frames, op)
  PROVE  Good(t) /\ Nest(t.frames, op) /\ Matched(t.frames, op) = Matched(s.frames, op)
<1>1. Good(t) /\ SameBlocks(s.frames, t.frames)
  BY DEF Goes, Grows
<1>2. s.frames \in Seq(FrameType)
  BY StateParts DEF Good
<1>3. Blocks(s.frames) \in SUBSET (1..Len(s.frames)) /\ Len(s.frames) \in Nat
  BY <1>2, BlocksAre
<1>4. Blocks(s.frames) \in SUBSET Nat /\ \A b \in Blocks(s.frames) : b > 0
  BY <1>3
<1>. QED
  BY <1>1, <1>4, MatchedKept

\* The end of the title of a section.
LEMMA TitleShuts ==
  ASSUME NEW s, Good(s), NEW op \in Seq(Commands), Nest(s.frames, op), op # <<>>, Last(op) = "title",
         NEW r, r = WithMode(add_nl(pop(s)), "v")
  PROVE  Shuts(s, r, op)
<1>. DEFINE p == pop(s)
            a == add_nl(p)
<1>1. Last(op) \in Openers /\ FrameOf("title") = "head" /\ "head" \in BlockNames
  BY DEF Openers, FrameOf, BlockNames
<1>2. Last(s.frames).frame = "head"
  BY <1>1, ClosingFrame
<1>3. Shuts(s, p, op) /\ Good(p) /\ first_frame(p) = Last(Front(s.frames)).frame
  BY <1>1, <1>2, PopShuts
<1>4. first_frame(p) \in {"div0", "div1"}
  <2>1. Fits("head", Last(Front(s.frames)).frame)
    BY <1>2, BelowTop
  <2>. QED
    BY <1>3, <2>1 DEF Fits
<1>. HIDE DEF p
<1>5. Grows(p, a) /\ Good(a) /\ a.frames = p.frames /\ a.cur_lid = p.cur_lid
  BY <1>3, TextCalm, CalmGrows
<1>. HIDE DEF a
<1>6. Shuts(s, a, op)
  BY <1>3, <1>5, ShutsBefore
<1>7. "v" \in Modes /\ ModeFits("v", first_frame(a))
  BY <1>4, <1>5 DEF Modes, ModeFits, first_frame
<1>8. r = WithMode(a, "v")
  BY DEF a, p
<1>9. Grows(a, r) /\ r.frames = a.frames /\ r.cur_lid = a.cur_lid
  BY <1>5, <1>7, <1>8, ModeSet, MovesGrows DEF Moves
<1>. QED
  BY <1>6, <1>9, ShutsBefore

\* The end of a note.
LEMMA NoteShuts ==
  ASSUME NEW s, Good(s), NEW op \in Seq(Commands), Nest(s.frames, op), op # <<>>, Last(op) = "footnote",
         NEW r, r = remove_par_bal_if_ok(pop(leave_h_mode(s)), top_stack(leave_h_mode(s)))
  PROVE  Shuts(s, r, op)
<1>. DEFINE t == leave_h_mode(s)
            p == pop(t)
            e == top_stack(t)
<1>1. Last(op) \in Openers /\ "footnote" \in BlockNames
  BY DEF Openers, BlockNames
<1>2. Moves(s, t) /\ t.mode # "h"
  BY LeaveHMoves
<1>3. r = remove_par_bal_if_ok(p, e)
  OBVIOUS
<1>. HIDE DEF t
<1>4. Good(t) /\ Nest(t.frames, op)
  BY <1>2, MovesGoes, GoesNest
<1>5. Last(t.frames).frame = "footnote"
  BY <1>1, <1>2, <1>4, ClosingFrame
<1>6. Shuts(t, p, op) /\ Good(p) /\ e \in DOMAIN p.elts /\ top_stack(p) < e
  BY <1>1, <1>4, <1>5, PopShuts
<1>. HIDE DEF p, e
<1>7. Moves(p, r) /\ r.frames = p.frames /\ r.cur_lid = p.cur_lid
  BY <1>3, <1>6, OpenedMoves
<1>8. Shuts(t, r, op)
  BY <1>4, <1>6, <1>7, ShutsBefore, MovesGrows DEF Moves
<1>. QED
  BY <1>2, <1>8, ShutsAfter

\* \end{enumerate}
LEMMA ListShuts ==
  ASSUME NEW s, Good(s), NEW op \in Seq(Commands), Nest(s.frames, op), op # <<>>, Last(op) = "list",
         NEW r, r = add_nl(pop(pop_if_frame(leave_h_mode(s), "item")))
  PROVE  Shuts(s, r, op)
<1>. DEFINE l == leave_h_mode(s)
            t == pop_if_frame(l, "item")
            p == pop(t)
<1>1. Last(op) \in Openers /\ "list" \in BlockNames
  BY DEF Openers, BlockNames
<1>2. Moves(s, l) /\ l.mode # "h"
  BY LeaveHMoves
<1>3. r = add_nl(p)
  OBVIOUS
<1>. HIDE DEF l
<1>4. Good(l) /\ Nest(l.frames, op)
  BY <1>2, MovesGoes, GoesNest
<1>5. Last(l.frames).frame \in {"list", "item"}
  BY <1>1, <1>2, <1>4, ClosingFrame
<1>6. /\ Moves(l, t)
      /\ first_frame(l) # "item" => t = l
      /\ first_frame(l) = "item" => Fits("item", first_frame(t))
  BY <1>4, PopIfMoves
<1>. HIDE DEF t
<1>7. Last(t.frames).frame = "list"
  BY <1>5, <1>6 DEF first_frame, Fits
<1>8. Good(t) /\ Nest(t.frames, op)
  BY <1>4, <1>6, MovesGoes, GoesNest
<1>9. Shuts(t, p, op) /\ Good(p)
  BY <1>1, <1>7, <1>8, PopShuts
<1>. HIDE DEF p
<1>10. Grows(p, r) /\ r.frames = p.frames /\ r.cur_lid = p.cur_lid
  BY <1>3, <1>9, TextCalm, CalmGrows
<1>11. Shuts(t, r, op)
  BY <1>8, <1>9, <1>10, ShutsBefore
<1>12. Moves(s, t)
  BY <1>2, <1>6, MovesTrans
<1>. QED
  BY <1>11, <1>12, ShutsAfter

\* The end of a box, which is kept in a register.
LEMMA BoxShuts ==
  ASSUME NEW s, Good(s), NEW op \in Seq(Commands), Nest(s.frames, op), op # <<>>, Last(op) = "hbox"
  PROVE  /\ Shuts(s, pop(s), op)
         /\ top_stack(s) \in DOMAIN pop(s).elts /\ pop(s).elts[top_stack(s)].name = NameOf("hbox")
<1>1. Last(op) \in Openers /\ FrameOf("hbox") = "hbox" /\ "hbox" \in BlockNames
  BY DEF Openers, FrameOf, BlockNames
<1>2. Last(s.frames).frame = "hbox"
  BY <1>1, ClosingFrame
<1>3. Shuts(s, pop(s), op) /\ pop(s).elts = s.elts /\ top_stack(s) \in DOMAIN pop(s).elts
  BY <1>1, <1>2, PopShuts
<1>4. s.elts[Last(s.frames).elt].name = NameOf(Last(s.frames).frame)
  BY <1>2, BelowTop
<1>5. s.elts[top_stack(s)].name = NameOf("hbox")
  <2>1. top_stack(s) = Last(s.frames).elt
    BY DEF top_stack
  <2>. QED
    BY <1>2, <1>4, <2>1
<1>. QED
  BY <1>3, <1>5

-----------------------------------------------------------------------------
\* Commands that open and close nothing.

\* The scope on the top of the stack is the same.
Flows(s, r) == Goes(s, r) /\ (NoAnchors(s) => SameContext(s, Top(s), r, Top(r)))

\* A calm step keeps the anchor in scope.
LEMMA CalmFlows ==
  ASSUME NEW s, Good(s), NEW r, Calm(s, r)
  PROVE  Flows(s, r)
<1>1. Goes(s, r)
  BY CalmMoves, MovesGoes
<1>2. r \in State /\ Keeps(s, r) /\ r.frames = s.frames /\ r.cur_lid = s.cur_lid
  BY DEF Calm, Good, Steady, Counts
<1>. QED
  BY <1>1, <1>2, TopContext DEF Flows

\* The end of a paragraph keeps the anchor in scope.
LEMMA BreaksFlows ==
  ASSUME NEW s, Good(s), NEW r, Moves(s, r), Breaks(s, r)
  PROVE  Flows(s, r)
<1>1. Goes(s, r) /\ Good(r) /\ Keeps(s, r)
  BY MovesGoes DEF Moves, Steady, Counts
<1>. QED
  BY <1>1, BreaksContext DEF Flows

\* The anchor in scope is kept along several steps.
LEMMA FlowsTrans ==
  ASSUME NEW s, Good(s), NEW r, Flows(s, r), NEW q, Flows(r, q)
  PROVE  Flows(s, q)
<1>1. Goes(s, q)
  BY GoesTrans DEF Flows
<1>2. ASSUME NoAnchors(s) PROVE SameContext(s, Top(s), q, Top(q))
  <2>1. NoAnchors(r)
    BY <1>2, GrowsNoAnchors DEF Flows, Goes
  <2>. QED
    BY <1>2, <2>1, ContextTrans DEF Flows
<1>. QED
  BY <1>1, <1>2 DEF Flows

\* Text, \ref and \par.
LEMMA TextFlows ==
  ASSUME NEW s, Good(s)
  PROVE  /\ Flows(s, add_last_string(leave_v_mode(s)))
         /\ Flows(s, add_newid0(leave_v_mode(s), "ref"))
         /\ Flows(s, T_par1(s))
<1>. DEFINE t == leave_v_mode(s)
<1>1. Flows(s, t) /\ Good(t)
  BY LeaveVMoves, BreaksFlows DEF Moves
<1>2. Flows(s, T_par1(s))
  BY ParMoves, BreaksFlows
<1>. HIDE DEF t
<1>3. Flows(t, add_last_string(t))
  BY <1>1, TextCalm, CalmFlows
<1>4. Flows(t, add_newid0(t, "ref"))
  <2>1. "ref" \in ElementNames \ {"anchor"} /\ "ref" # "item"
    BY Zenon DEF ElementNames
  <2>2. Calm(t, add_newid0(t, "ref"))
    BY <1>1, <2>1, NewSonCalm
  <2>. QED
    BY <1>1, <2>2, CalmFlows
<1>. QED
  BY <1>1, <1>2, <1>3, <1>4, FlowsTrans DEF t

\* \box0
LEMMA UseBoxFlows ==
  ASSUME NEW s, Good(s), NEW b \in DOMAIN s.elts, s.elts[b].name = NameOf("hbox")
  PROVE  Flows(s, add_last(s, b))
<1>1. NameOf("hbox") \notin {"anchor", "p", "item"}
  BY Zenon DEF NameOf
<1>2. MayAdd(s, top_stack(s), b)
  BY <1>1 DEF MayAdd
<1>3. Calm(s, add_last(s, b))
  BY <1>2, AddLastCalm
<1>. QED
  BY <1>3, CalmFlows

\* What a change of a counter leaves alone.
LEMMA CountEffect ==
  ASSUME NEW s \in State
  PROVE  /\ LET r == [s EXCEPT !.unfinished_par = 0] IN
              /\ r \in State /\ r.elts = s.elts /\ r.frames = s.frames /\ r.cur_lid = s.cur_lid /\ r.mode = s.mode
              /\ r.unfinished_par = 0
         /\ LET r == scan_anchor(s) IN
              /\ r \in State /\ r.elts = s.elts /\ r.frames = s.frames /\ r.cur_lid = s.cur_lid /\ r.mode = s.mode
              /\ r.unfinished_par = s.unfinished_par /\ r.anchor_id \in Nat
<1>1. s.anchor_id + 1 \in Nat
  BY DEF State
<1>2. 0 \in Nat
  OBVIOUS
<1>. QED
  BY <1>1, <1>2 DEF State, scan_anchor

\* \item
LEMMA ItemGoes ==
  ASSUME NEW s, Good(s), NEW op \in Seq(Commands), Nest(s.frames, op), op # <<>>, Last(op) = "list", NEW text \in Seq(Nat),
         NEW u, u = [leave_h_mode(s) EXCEPT !.unfinished_par = 0],
         NEW r, r = ileave_v_mode(WithMode(add_new_anchor(push1(add_nl(pop_if_frame(u, "item")), "item"), text), "v"))
  PROVE  Goes(s, r) /\ (NoAnchors(s) => Shows(r, Top(r), text))
<1>. DEFINE l == leave_h_mode(s)
            i == pop_if_frame(u, "item")
            a == add_nl(i)
            p == push1(a, "item")
            m == WithMode(add_new_anchor(p, text), "v")
            n == Len(m.elts) + 1
            F == FrameFor(m, "p", n)
<1>1. Last(op) \in Openers
  BY DEF Openers
<1>2. Moves(s, l) /\ l.mode # "h"
  BY LeaveHMoves
<1>3. r = ileave_v_mode(m) /\ u = [l EXCEPT !.unfinished_par = 0]
  OBVIOUS
<1>. HIDE DEF l
<1>4. Good(l) /\ Nest(l.frames, op) /\ l \in State
  BY <1>2, MovesGoes, GoesNest DEF Good
<1>5. /\ u \in State /\ u.elts = l.elts /\ u.frames = l.frames /\ u.cur_lid = l.cur_lid /\ u.mode = l.mode
      /\ u.unfinished_par = 0
  BY <1>3, <1>4, CountEffect
<1>6. Calm(l, u) /\ Good(u)
  BY <1>4, <1>5, SameMoves DEF Calm
<1>7. first_frame(u) \in {"list", "item"}
  <2>1. Last(l.frames).frame \in {"list", "item"}
    BY <1>1, <1>2, <1>4, ClosingFrame
  <2>. QED
    BY <1>5, <2>1 DEF first_frame
<1>8. /\ Moves(u, i)
      /\ first_frame(u) # "item" => i = u
      /\ first_frame(u) = "item" => Fits("item", first_frame(i))
  BY <1>6, PopIfMoves
<1>. HIDE DEF i
<1>9. first_frame(i) = "list" /\ Good(i)
  BY <1>7, <1>8 DEF Fits, Moves
<1>10. Calm(i, a) /\ Good(a) /\ first_frame(a) = "list"
  BY <1>9, TextCalm DEF Calm, first_frame
<1>. HIDE DEF a
<1>11. Goes(s, a)
  <2>1. Goes(s, l) /\ Goes(u, i)
    BY <1>2, <1>8, MovesGoes
  <2>2. Goes(l, u) /\ Goes(i, a)
    BY <1>4, <1>6, <1>9, <1>10, CalmMoves, MovesGoes
  <2>3. Goes(s, u)
    BY <1>4, <2>1, <2>2, GoesTrans
  <2>4. Goes(s, i)
    BY <1>6, <2>1, <2>3, GoesTrans
  <2>. QED
    BY <1>9, <2>2, <2>4, GoesTrans
<1>12. ModeFits("v", "item") /\ Fits("item", first_frame(a)) /\ "v" \in Modes
  BY <1>10 DEF ModeFits, Fits, Modes
<1>13. p \in State
  BY <1>10, <1>12, Push1Mode
<1>. HIDE DEF p
<1>14. m = add_new_anchor(WithMode(p, "v"), text)
  BY <1>12, <1>13, ModeAnchor
<1>. HIDE DEF m
<1>15. m = add_new_anchor(WithMode(push1(a, "item"), "v"), text)
  BY <1>14 DEF p
<1>. DEFINE I == FrameFor(a, "item", Len(a.elts) + 1)
<1>16. /\ Grows(a, m) /\ m.frames = Append(a.frames, I) /\ I \in FrameType /\ a.frames \in Seq(FrameType)
       /\ first_frame(m) = "item" /\ Marks(m, text)
  BY <1>10, <1>12, <1>15, NumberedPush
<1>17. Goes(a, m) /\ Good(m)
  <2>1. I.frame = "item" /\ "item" \notin BlockNames
    BY DEF FrameFor, BlockNames
  <2>. HIDE DEF I
  <2>2. SameBlocks(a.frames, m.frames)
    BY <1>16, <2>1, PushedBlocks
  <2>. QED
    BY <1>16, <2>2 DEF Goes, Grows
<1>18. Moves(m, r) /\ Breaks(m, r)
  <2>1. first_frame(m) \notin {"p", "head", "hbox"}
    BY <1>16
  <2>2. /\ Moves(m, r) /\ r.cur_lid = m.cur_lid
        /\ r.frames = Append(m.frames, F) /\ F \in FrameType
    BY <1>3, <1>17, <2>1, ParagraphMoves
  <2>3. F.frame = "p" /\ F.uid = m.cur_lid
    BY DEF FrameFor
  <2>. HIDE DEF F
  <2>. QED
    BY <2>2, <2>3 DEF Breaks
<1>19. Flows(m, r) /\ Goes(m, r)
  BY <1>17, <1>18, BreaksFlows DEF Flows
<1>20. Goes(s, m)
  BY <1>10, <1>11, <1>17, GoesTrans
<1>21. Goes(s, r)
  BY <1>17, <1>19, <1>20, GoesTrans
<1>22. ASSUME NoAnchors(s) PROVE Shows(r, Top(r), text)
  <2>1. NoAnchors(m)
    BY <1>20, <1>22, GrowsNoAnchors DEF Goes
  <2>2. Shows(m, Top(m), text)
    BY <1>16, <1>17, MarksShows
  <2>3. m \in State /\ r \in State /\ Keeps(m, r)
    BY <1>17, <1>19 DEF Goes, Grows, Good
  <2>. QED
    BY <1>19, <2>1, <2>2, <2>3, ShowsKept DEF Flows
<1>. QED
  BY <1>21, <1>22

\* What every command leaves alone when it opens and closes nothing.
Stays(s, r) == Good(r) /\ Keeps(s, r) /\ SameBlocks(s.frames, r.frames)

\* A step in the same blocks keeps the blocks.
LEMMA GoesStays ==
  ASSUME NEW s, NEW r, Goes(s, r)
  PROVE  Stays(s, r)
BY DEF Goes, Grows, Stays

\* \anchor, and \index with a new word or a known one.
LEMMA AnchorStays ==
  ASSUME NEW s, Good(s), NEW t, t = s \/ t = New(s, "index") \/ t = scan_anchor(s), NEW text \in Seq(Nat),
         NEW r, r = add_anchor(t, text, FALSE)
  PROVE  Stays(s, r) /\ Good(t)
<1>1. s \in State
  BY DEF Good
<1>2. Calm(s, t)
  <2>1. CASE t = s
    BY <2>1, CalmRefl
  <2>2. CASE t = New(s, "index")
    <3>1. "index" \in ElementNames \ {"anchor"}
      BY Zenon DEF ElementNames
    <3>. QED
      BY <2>2, <3>1, NewCalm
  <2>3. CASE t = scan_anchor(s)
    <3>1. /\ t \in State /\ t.elts = s.elts /\ t.frames = s.frames /\ t.cur_lid = s.cur_lid /\ t.mode = s.mode
          /\ t.unfinished_par = s.unfinished_par
      BY <1>1, <2>3, CountEffect
    <3>. QED
      BY <3>1, SameMoves
  <2>. QED
    BY <2>1, <2>2, <2>3
<1>3. Good(t) /\ t \in State /\ Keeps(s, t) /\ t.frames = s.frames
  BY <1>2 DEF Calm, Good, Steady, Counts
<1>4. Good(r) /\ Keeps(t, r) /\ r.frames = t.frames /\ r \in State
  BY <1>3, AnchorMoves DEF Good, Counts
<1>5. Keeps(s, r)
  BY <1>1, <1>3, <1>4, KeepsTrans
<1>6. SameBlocks(s.frames, r.frames)
  <2>1. SameBlocks(s.frames, t.frames)
    BY <1>2, CalmMoves DEF Moves
  <2>. QED
    BY <1>4, <2>1
<1>. QED
  BY <1>3, <1>4, <1>5, <1>6 DEF Stays

-----------------------------------------------------------------------------
\* The stack and the commands that are open.

\* The stack is well formed and follows the commands op.
Holds(s, op) == Good(s) /\ Nest(s.frames, op)

\* Blocks are at positions of the stack.
LEMMA BlockPositions ==
  ASSUME NEW s, Good(s)
  PROVE  /\ s.frames \in Seq(FrameType) /\ Len(s.frames) \in Nat
         /\ Blocks(s.frames) \in SUBSET (1..Len(s.frames)) /\ Blocks(s.frames) \in SUBSET Nat
         /\ \A b \in Blocks(s.frames) : b > 0
<1>1. s.frames \in Seq(FrameType)
  BY StateParts DEF Good
<1>2. Blocks(s.frames) \in SUBSET (1..Len(s.frames)) /\ Len(s.frames) \in Nat
  BY <1>1, BlocksAre
<1>. QED
  BY <1>1, <1>2

\* A step that keeps the blocks keeps what is matched.
LEMMA StaysHolds ==
  ASSUME NEW s, NEW op, Holds(s, op), NEW r, Stays(s, r)
  PROVE  Holds(r, op) /\ Matched(r.frames, op) = Matched(s.frames, op)
BY BlockPositions, MatchedKept DEF Holds, Stays

\* A command that opens adds one match, and the anchors below the others stay.
LEMMA OpensHolds ==
  ASSUME NEW s, NEW op \in Seq(Commands), Holds(s, op), NEW c \in Openers, NEW r, Opens(s, r, c)
  PROVE  /\ Holds(r, Append(op, c))
         /\ Matched(r.frames, Append(op, c)) = Matched(s.frames, op) \cup {<<Len(r.frames), Len(op) + 1>>}
         /\ \A p \in Matched(s.frames, op) : SameContext(s, p[1], r, p[1])
<1>1. PICK fr \in Seq(FrameType), f \in FrameType : SameBlocks(s.frames, fr) /\ r.frames = Append(fr, f) /\ f.frame = FrameOf(c)
  BY DEF Opens
<1>2. Good(s) /\ Good(r) /\ Keeps(s, r) /\ r \in State
  BY DEF Holds, Opens, Grows, Good
<1>3. Nest(fr, op) /\ Matched(fr, op) = Matched(s.frames, op)
  BY <1>1, <1>2, BlockPositions, MatchedKept DEF Holds
<1>4. /\ Nest(r.frames, Append(op, c))
      /\ Matched(r.frames, Append(op, c)) = Matched(fr, op) \cup {<<Len(fr) + 1, Len(op) + 1>>}
  BY <1>1, <1>3, MatchedPush
<1>5. Len(r.frames) = Len(fr) + 1 /\ Len(fr) \in Nat /\ \A j \in 1..Len(fr) : r.frames[j] = fr[j]
  BY <1>1, PushedAt
<1>6. ASSUME NEW p \in Matched(s.frames, op) PROVE SameContext(s, p[1], r, p[1])
  <2>. DEFINE b == p[1]
  <2>1. b \in Blocks(s.frames)
    BY MatchedBlocks
  <2>2. b \in 1..Len(s.frames)
    BY <1>2, <2>1, BlockPositions
  <2>3. b \in 1..Len(fr) /\ \A j \in 1..b : fr[j] = s.frames[j]
    BY <1>1, <2>1 DEF SameBlocks
  <2>. HIDE DEF b
  <2>4. b \in 1..Len(r.frames) /\ \A j \in 1..b : r.frames[j] = s.frames[j]
    <3>1. ASSUME NEW j \in 1..b PROVE r.frames[j] = s.frames[j]
      <4>1. j \in 1..Len(fr)
        BY <1>5, <2>3
      <4>. QED
        BY <1>5, <2>3, <4>1
    <3>2. b \in 1..Len(r.frames)
      BY <1>5, <2>3
    <3>. QED
      BY <3>1, <3>2
  <2>5. SameContext(s, b, r, b)
    BY <1>2, <2>2, <2>4, SameFramesContext
  <2>. QED
    BY <2>5 DEF b
<1>. QED
  BY <1>2, <1>3, <1>4, <1>5, <1>6 DEF Holds

\* The stack and the commands still match after the end of a command.
LEMMA ShutsHolds ==
  ASSUME NEW s, NEW op, NEW r, Shuts(s, r, op)
  PROVE  Holds(r, Front(op))
BY DEF Shuts, Grows, Holds

-----------------------------------------------------------------------------
\* The anchor in scope shows the current label.

\* The numbers that are shown are those of the groups gs: on the top of the stack, below every
\* block that is matched, and around every group without a block.
Agrees(s, gs, op) ==
  /\ NoAnchors(s) /\ Shows(s, Top(s), Last(gs).label)
  /\ \A p \in Matched(s.frames, op) : Shows(s, p[1], gs[p[2]].label)
  /\ \A k \in DOMAIN op : op[k] = "group" => gs[k + 1].label = gs[k].label

\* What is matched is shown after elements were added.
LEMMA GoesShows ==
  ASSUME NEW s, NEW op, Holds(s, op), NEW gs, Agrees(s, gs, op), NEW r, Goes(s, r)
  PROVE  /\ NoAnchors(r) /\ Matched(r.frames, op) = Matched(s.frames, op)
         /\ \A p \in Matched(s.frames, op) : Shows(r, p[1], gs[p[2]].label)
<1>1. Good(s) /\ Good(r) /\ s \in State /\ r \in State /\ Keeps(s, r) /\ SameBlocks(s.frames, r.frames)
  BY DEF Holds, Good, Goes, Grows
<1>2. NoAnchors(r)
  BY <1>1, GrowsNoAnchors DEF Goes, Agrees
<1>3. Matched(r.frames, op) = Matched(s.frames, op)
  BY GoesStays, StaysHolds
<1>4. ASSUME NEW p \in Matched(s.frames, op) PROVE Shows(r, p[1], gs[p[2]].label)
  <2>1. SameContext(s, p[1], r, p[1])
    BY <1>1, MatchedBlocks, BlockContext
  <2>2. Shows(s, p[1], gs[p[2]].label)
    BY DEF Agrees
  <2>. QED
    BY <1>1, <2>1, <2>2, ShowsKept
<1>. QED
  BY <1>2, <1>3, <1>4

\* Text keeps the agreement: the anchor in scope and the groups do not change.
LEMMA FlowsAgrees ==
  ASSUME NEW s, NEW op, Holds(s, op), NEW gs, Agrees(s, gs, op), NEW r, Flows(s, r)
  PROVE  Agrees(r, gs, op)
<1>1. /\ NoAnchors(r) /\ Matched(r.frames, op) = Matched(s.frames, op)
      /\ \A p \in Matched(s.frames, op) : Shows(r, p[1], gs[p[2]].label)
  BY GoesShows DEF Flows
<1>2. s \in State /\ r \in State /\ Keeps(s, r)
  BY DEF Holds, Good, Flows, Goes, Grows
<1>3. Shows(r, Top(r), Last(gs).label)
  BY <1>2, ShowsKept DEF Flows, Agrees
<1>. QED
  BY <1>1, <1>3 DEF Agrees

\* Positions of the commands with blocks.
LEMMA MatchedOpen ==
  ASSUME NEW fr, NEW op \in Seq(Commands), NEW p \in Matched(fr, op)
  PROVE  Len(op) \in Nat /\ p[2] \in 1..Len(op)
<1>1. p[2] \in At(op, Openers)
  BY MatchedBlocks
<1>. QED
  BY <1>1, RankType

\* An item keeps the agreement: its number is the number of its anchor and of its group.
LEMMA ItemAgrees ==
  ASSUME NEW s, NEW op \in Seq(Commands), Holds(s, op), NEW gs, Levels(gs, op), Agrees(s, gs, op),
         op # <<>>, Last(op) = "list", NEW label \in Seq(Nat), NEW r, Goes(s, r), Shows(r, Top(r), label)
  PROVE  Agrees(r, string_define(gs, label), op)
<1>. DEFINE hs == string_define(gs, label)
            n == Len(gs)
<1>1. gs \in Seq(GroupType) /\ n = Len(op) + 1 /\ Len(op) \in Nat /\ DOMAIN op = 1..Len(op) /\ Last(op) = op[Len(op)]
  BY LenProperties, PoppedAt DEF Levels
<1>2. gs # <<>>
  BY <1>1, EmptySeq
<1>3. (\A i \in 1..(n - 1) : hs[i] = gs[i]) /\ hs[n].label = label /\ Last(hs) = hs[n]
  BY <1>1, <1>2, DefineEffect
<1>. HIDE DEF hs, n
<1>4. /\ NoAnchors(r) /\ Matched(r.frames, op) = Matched(s.frames, op)
      /\ \A p \in Matched(s.frames, op) : Shows(r, p[1], gs[p[2]].label)
  BY GoesShows
<1>5. ASSUME NEW p \in Matched(s.frames, op) PROVE Shows(r, p[1], hs[p[2]].label)
  <2>1. p[2] \in 1..(n - 1)
    BY <1>1, MatchedOpen
  <2>2. hs[p[2]] = gs[p[2]]
    BY <1>3, <2>1
  <2>. QED
    BY <1>4, <2>2
<1>6. ASSUME NEW k \in 1..Len(op), op[k] = "group" PROVE hs[k + 1].label = hs[k].label
  <2>1. k # Len(op)
    BY <1>1, <1>6
  <2>2. k \in 1..(n - 1) /\ k + 1 \in 1..(n - 1)
    <3>1. k \in Int /\ 1 <= k /\ k <= Len(op) /\ n \in Int /\ n - 1 = Len(op) /\ Len(op) \in Int
      BY <1>1
    <3>2. k + 1 <= Len(op)
      <4>. DEFINE m == Len(op)
      <4>1. k \in Int /\ m \in Int /\ k <= m /\ k # m
        BY <2>1, <3>1
      <4>. HIDE DEF m
      <4>2. k + 1 <= m
        BY <4>1
      <4>. QED
        BY <4>2 DEF m
    <3>. QED
      BY <3>1, <3>2
  <2>3. gs[k + 1].label = gs[k].label
    BY <1>1, <1>6 DEF Agrees
  <2>. QED
    BY <1>3, <2>2, <2>3
<1>. QED
  BY <1>1, <1>3, <1>4, <1>5, <1>6 DEF Agrees, hs

\* A command is opened: its group begins with the label that the anchor shows.
LEMMA OpensAgrees ==
  ASSUME NEW s, NEW op \in Seq(Commands), Holds(s, op), NEW gs, Levels(gs, op), Agrees(s, gs, op),
         NEW c \in Openers, NEW r, Opens(s, r, c), NEW hs,
         Len(hs) = Len(gs) + 1, \A i \in 1..(Len(gs) - 1) : hs[i] = gs[i],
         hs[Len(gs)] = gs[Len(gs)] \/ op = <<>>,
         Shows(r, Len(r.frames), hs[Len(gs)].label), Shows(r, Top(r), hs[Len(gs) + 1].label)
  PROVE  Agrees(r, hs, Append(op, c))
<1>. DEFINE o == Append(op, c)
            n == Len(gs)
<1>1. gs \in Seq(GroupType) /\ n = Len(op) + 1 /\ Len(op) \in Nat /\ DOMAIN op = 1..Len(op)
  BY LenProperties DEF Levels
<1>2. /\ Len(o) = Len(op) + 1 /\ DOMAIN o = 1..(Len(op) + 1)
      /\ o[Len(op) + 1] = c /\ \A i \in 1..Len(op) : o[i] = op[i]
  BY PushedAt DEF Commands
<1>3. /\ Matched(r.frames, o) = Matched(s.frames, op) \cup {<<Len(r.frames), Len(op) + 1>>}
      /\ \A p \in Matched(s.frames, op) : SameContext(s, p[1], r, p[1])
  BY OpensHolds
<1>4. Good(s) /\ s \in State /\ r \in State /\ Keeps(s, r) /\ Grows(s, r)
  BY DEF Holds, Opens, Grows, Good
<1>5. NoAnchors(r)
  BY <1>4, GrowsNoAnchors DEF Agrees
<1>6. Shows(r, Top(r), Last(hs).label)
  BY <1>1 DEF Last
<1>. HIDE DEF o, n
<1>7. ASSUME NEW p \in Matched(r.frames, o) PROVE Shows(r, p[1], hs[p[2]].label)
  <2>1. CASE p = <<Len(r.frames), Len(op) + 1>>
    <3>1. p[1] = Len(r.frames) /\ p[2] = n
      BY <1>1, <2>1
    <3>. QED
      BY <3>1 DEF n
  <2>2. CASE p \in Matched(s.frames, op)
    <3>1. p[2] \in 1..(n - 1)
      BY <1>1, <2>2, MatchedOpen
    <3>2. hs[p[2]] = gs[p[2]]
      BY <3>1 DEF n
    <3>3. Shows(s, p[1], gs[p[2]].label)
      BY <2>2 DEF Agrees
    <3>4. SameContext(s, p[1], r, p[1])
      BY <1>3, <2>2
    <3>. QED
      BY <1>4, <3>2, <3>3, <3>4, ShowsKept
  <2>. QED
    BY <1>3, <2>1, <2>2
<1>8. ASSUME NEW k \in 1..(Len(op) + 1), o[k] = "group" PROVE hs[k + 1].label = hs[k].label
  <2>1. k # Len(op) + 1
    BY <1>2, <1>8 DEF Openers
  <2>2. k \in 1..Len(op)
    BY <1>1, <2>1
  <2>3. op # <<>> /\ op[k] = "group"
    <3>1. op[k] = "group"
      BY <1>2, <1>8, <2>2
    <3>2. op # <<>>
      BY <1>1, <2>2, EmptySeq
    <3>. QED
      BY <3>1, <3>2
  <2>4. gs[k + 1].label = gs[k].label
    BY <1>1, <2>2, <2>3 DEF Agrees
  <2>5. hs[k] = gs[k] /\ hs[k + 1] = gs[k + 1]
    <3>1. k \in 1..(n - 1)
      BY <1>1, <2>2
    <3>2. k + 1 \in 1..(n - 1) \/ k + 1 = n
      BY <1>1, <3>1
    <3>. QED
      BY <2>3, <3>1, <3>2 DEF n
  <2>. QED
    BY <2>4, <2>5
<1>. QED
  BY <1>2, <1>5, <1>6, <1>7, <1>8 DEF Agrees, o

\* A command is closed: the label of the group around it is shown by the anchor around
\* its block.
LEMMA ShutsAgrees ==
  ASSUME NEW s, NEW op \in Seq(Commands), Holds(s, op), NEW gs, Levels(gs, op), Agrees(s, gs, op),
         op # <<>>, NEW r, Shuts(s, r, op)
  PROVE  Agrees(r, Front(gs), Front(op))
<1>. DEFINE hs == Front(gs)
            o == Front(op)
<1>1. /\ o \in Seq(Commands) /\ Len(op) \in Nat \ {0} /\ Len(o) = Len(op) - 1
      /\ \A i \in 1..Len(op) : hs[i] = gs[i]
      /\ Last(hs) = gs[Len(op)] /\ \A i \in 1..(Len(op) - 1) : o[i] = op[i]
  BY LevelsClose
<1>2. DOMAIN op = 1..Len(op) /\ DOMAIN o = 1..(Len(op) - 1)
  BY <1>1, LenProperties
<1>3. Good(s) /\ s \in State /\ r \in State /\ Keeps(s, r) /\ Grows(s, r)
  BY DEF Holds, Shuts, Grows, Good
<1>4. NoAnchors(r)
  BY <1>3, GrowsNoAnchors DEF Agrees
<1>5. Shows(r, Top(r), Last(hs).label)
  <2>1. PICK b \in Blocks(s.frames) : <<b, Len(op)>> \in Matched(s.frames, op) /\ SameContext(s, b, r, Top(r))
    BY DEF Shuts
  <2>. DEFINE p == <<b, Len(op)>>
  <2>2. Shows(s, p[1], gs[p[2]].label)
    BY <2>1 DEF Agrees
  <2>3. Shows(s, b, gs[Len(op)].label)
    BY <2>2
  <2>. QED
    BY <1>1, <1>3, <2>1, <2>3, ShowsKept
<1>. HIDE DEF hs, o
<1>6. ASSUME NEW p \in Matched(r.frames, o) PROVE Shows(r, p[1], hs[p[2]].label)
  <2>1. p \in Matched(s.frames, op) /\ SameContext(s, p[1], r, p[1])
    BY DEF Shuts, o
  <2>2. Shows(s, p[1], gs[p[2]].label)
    BY <2>1 DEF Agrees
  <2>3. p[2] \in 1..Len(op)
    BY <2>1, MatchedOpen
  <2>4. hs[p[2]] = gs[p[2]]
    BY <1>1, <2>3
  <2>. QED
    BY <1>3, <2>1, <2>2, <2>4, ShowsKept
<1>7. ASSUME NEW k \in 1..(Len(op) - 1), o[k] = "group" PROVE hs[k + 1].label = hs[k].label
  <2>1. k \in 1..Len(op) /\ k + 1 \in 1..Len(op) /\ op[k] = "group"
    BY <1>1, <1>7
  <2>2. gs[k + 1].label = gs[k].label
    BY <1>2, <2>1 DEF Agrees
  <2>. QED
    BY <1>1, <2>1, <2>2
<1>. QED
  BY <1>2, <1>4, <1>5, <1>6, <1>7 DEF Agrees, hs, o

\* A group begins or ends.
LEMMA GroupBegins ==
  ASSUME NEW s, NEW op \in Seq(Commands), Holds(s, op), NEW gs, Levels(gs, op)
  PROVE  /\ Holds(s, Append(op, "group"))
         /\ Agrees(s, gs, op) => Agrees(s, push_level(gs), Append(op, "group"))
<1>. DEFINE o == Append(op, "group")
            hs == push_level(gs)
            n == Len(gs)
<1>1. gs \in Seq(GroupType) /\ n = Len(op) + 1 /\ Len(op) \in Nat /\ DOMAIN op = 1..Len(op)
  BY LenProperties DEF Levels
<1>2. gs # <<>>
  BY <1>1, EmptySeq
<1>3. Last(gs) = gs[n] /\ gs[n] \in GroupType
  BY <1>1, <1>2, PoppedAt
<1>4. Len(hs) = n + 1 /\ hs[n + 1] = gs[n] /\ \A i \in 1..n : hs[i] = gs[i]
  BY <1>1, <1>3, PushedAt DEF push_level
<1>5. "group" \in Commands
  BY DEF Commands
<1>6. /\ Len(o) = Len(op) + 1 /\ DOMAIN o = 1..(Len(op) + 1)
      /\ o[Len(op) + 1] = "group" /\ \A i \in 1..Len(op) : o[i] = op[i]
  BY <1>5, PushedAt
<1>7. s.frames \in Seq(FrameType) /\ Nest(s.frames, op) /\ Good(s)
  BY BlockPositions DEF Holds
<1>8. Matched(s.frames, o) = Matched(s.frames, op) /\ Nest(s.frames, o)
  BY <1>7, MatchedGroup
<1>9. Last(hs) = gs[n]
  BY <1>1, <1>4 DEF Last
<1>. HIDE DEF o, hs, n
<1>10. ASSUME Agrees(s, gs, op) PROVE Agrees(s, hs, o)
  <2>1. Shows(s, Top(s), Last(hs).label)
    BY <1>3, <1>9, <1>10 DEF Agrees
  <2>2. ASSUME NEW p \in Matched(s.frames, o) PROVE Shows(s, p[1], hs[p[2]].label)
    <3>1. p \in Matched(s.frames, op)
      BY <1>8
    <3>2. p[2] \in 1..Len(op)
      BY <3>1, MatchedOpen
    <3>3. p[2] \in 1..n
      BY <1>1, <3>2
    <3>4. hs[p[2]] = gs[p[2]]
      BY <1>4, <3>3
    <3>. QED
      BY <1>10, <3>1, <3>4 DEF Agrees
  <2>3. ASSUME NEW k \in 1..(Len(op) + 1), o[k] = "group" PROVE hs[k + 1].label = hs[k].label
    <3>1. CASE k = Len(op) + 1
      <4>1. k = n /\ n \in 1..n
        BY <1>1, <3>1
      <4>. QED
        BY <1>4, <4>1
    <3>2. CASE k \in 1..Len(op)
      <4>1. k \in 1..n /\ k + 1 \in 1..n /\ op[k] = "group"
        BY <1>1, <1>6, <2>3, <3>2
      <4>2. gs[k + 1].label = gs[k].label
        BY <1>1, <1>10, <3>2, <4>1 DEF Agrees
      <4>. QED
        BY <1>4, <4>1, <4>2
    <3>. QED
      BY <1>1, <3>1, <3>2
  <2>. QED
    BY <1>6, <1>10, <2>1, <2>2, <2>3 DEF Agrees
<1>. QED
  BY <1>7, <1>8, <1>10 DEF Holds, o, hs

\* The end of a group without a block keeps the agreement.
LEMMA GroupEnds ==
  ASSUME NEW s, NEW op \in Seq(Commands), Holds(s, op), NEW gs, Levels(gs, op), op # <<>>, Last(op) = "group"
  PROVE  /\ Holds(s, Front(op))
         /\ Agrees(s, gs, op) => Agrees(s, Front(gs), Front(op))
<1>. DEFINE hs == Front(gs)
            o == Front(op)
            n == Len(op)
<1>1. /\ o \in Seq(Commands) /\ n \in Nat \ {0} /\ Len(o) = n - 1
      /\ \A i \in 1..n : hs[i] = gs[i]
      /\ Last(hs) = gs[n] /\ Last(gs) = gs[n + 1] /\ Last(op) = op[n]
      /\ \A i \in 1..(n - 1) : o[i] = op[i]
  BY LevelsClose
<1>2. DOMAIN op = 1..n /\ DOMAIN o = 1..(n - 1)
  BY <1>1, LenProperties
<1>3. s.frames \in Seq(FrameType) /\ Nest(s.frames, op) /\ Good(s)
  BY BlockPositions DEF Holds
<1>4. Matched(s.frames, o) = Matched(s.frames, op) /\ Nest(s.frames, o)
  BY <1>3, MatchedGroup
<1>. HIDE DEF o, hs, n
<1>5. ASSUME Agrees(s, gs, op) PROVE Agrees(s, hs, o)
  <2>1. Shows(s, Top(s), Last(hs).label)
    <3>1. gs[n + 1].label = gs[n].label
      BY <1>1, <1>2, <1>5 DEF Agrees
    <3>2. Shows(s, Top(s), gs[n + 1].label)
      BY <1>1, <1>5 DEF Agrees
    <3>. QED
      BY <1>1, <3>1, <3>2
  <2>2. ASSUME NEW p \in Matched(s.frames, o) PROVE Shows(s, p[1], hs[p[2]].label)
    <3>1. p \in Matched(s.frames, op)
      BY <1>4
    <3>2. p[2] \in 1..n
      BY <3>1, MatchedOpen DEF n
    <3>3. hs[p[2]] = gs[p[2]]
      BY <1>1, <3>2
    <3>. QED
      BY <1>5, <3>1, <3>3 DEF Agrees
  <2>3. ASSUME NEW k \in 1..(n - 1), o[k] = "group" PROVE hs[k + 1].label = hs[k].label
    <3>1. k \in 1..n /\ k + 1 \in 1..n /\ op[k] = "group"
      BY <1>1, <2>3
    <3>2. gs[k + 1].label = gs[k].label
      BY <1>2, <1>5, <3>1 DEF Agrees
    <3>. QED
      BY <1>1, <3>1, <3>2
  <2>. QED
    BY <1>2, <1>5, <2>1, <2>2, <2>3 DEF Agrees
<1>. QED
  BY <1>3, <1>4, <1>5 DEF Holds, hs, o

-----------------------------------------------------------------------------
\* The types that every document keeps: the groups follow the open commands, and
\* lists have counters.
Typed ==
  /\ open \in Seq(Commands) /\ Levels(groups, open)
  /\ counters \in [Counters -> Nat] /\ done \in BOOLEAN

\* A group begins with the label of the group around it.
LEMMA PushLevel ==
  ASSUME NEW gs, NEW op \in Seq(Commands), Levels(gs, op)
  PROVE  /\ push_level(gs) \in Seq(GroupType) /\ Len(push_level(gs)) = Len(gs) + 1 /\ Len(gs) \in Nat \ {0}
         /\ \A i \in 1..Len(gs) : push_level(gs)[i] = gs[i]
         /\ push_level(gs)[Len(gs) + 1] = gs[Len(gs)] /\ push_level(gs) # <<>>
         /\ Last(gs) = gs[Len(gs)] /\ gs \in Seq(GroupType) /\ gs # <<>>
<1>. DEFINE n == Len(gs)
            hs == push_level(gs)
<1>1. gs \in Seq(GroupType) /\ n = Len(op) + 1 /\ Len(op) \in Nat
  BY LenProperties DEF Levels
<1>2. gs # <<>>
  BY <1>1, EmptySeq
<1>3. Last(gs) = gs[n] /\ gs[n] \in GroupType
  BY <1>1, <1>2, PoppedAt
<1>4. hs \in Seq(GroupType) /\ Len(hs) = n + 1 /\ hs[n + 1] = gs[n] /\ \A i \in 1..n : hs[i] = gs[i]
  BY <1>1, <1>3, PushedAt DEF push_level
<1>. HIDE DEF hs, n
<1>5. hs # <<>>
  BY <1>1, <1>4, EmptySeq
<1>. QED
  BY <1>1, <1>2, <1>3, <1>4, <1>5 DEF hs, n

\* Each command that is opened has a group.
LEMMA LevelsPush ==
  ASSUME NEW gs, NEW op \in Seq(Commands), Levels(gs, op), NEW c \in Commands \ {"list"}
  PROVE  Levels(push_level(gs), Append(op, c)) /\ Append(op, c) \in Seq(Commands)
<1>1. /\ push_level(gs) \in Seq(GroupType) /\ Len(push_level(gs)) = Len(gs) + 1
      /\ \A i \in 1..Len(gs) : push_level(gs)[i] = gs[i]
  BY PushLevel
<1>2. Append(op, c) \in Seq(Commands)
  BY PushedAt
<1>. QED
  BY <1>1, <1>2, LevelsOpen

\* The groups after a list begins: the counter is a word of the new group.
ListLevel(gs, c) == [push_level(gs) EXCEPT ![Len(gs) + 1].list_ctr = c]

\* A list has a counter in its group, and the number of the group around it.
LEMMA LevelsList ==
  ASSUME NEW gs, NEW op \in Seq(Commands), Levels(gs, op), NEW c \in {"enumi", "enumii"}
  PROVE  /\ Levels(ListLevel(gs, c), Append(op, "list")) /\ Append(op, "list") \in Seq(Commands)
         /\ Len(ListLevel(gs, c)) = Len(gs) + 1 /\ Len(gs) \in Nat \ {0}
         /\ \A i \in 1..Len(gs) : ListLevel(gs, c)[i] = gs[i]
         /\ ListLevel(gs, c)[Len(gs) + 1].label = Last(gs).label /\ Last(gs) = gs[Len(gs)]
<1>. DEFINE hs == ListLevel(gs, c)
            n == Len(gs)
            ps == push_level(gs)
            g == [gs[n] EXCEPT !.list_ctr = c]
<1>1. /\ ps \in Seq(GroupType) /\ Len(ps) = n + 1 /\ n \in Nat \ {0}
      /\ \A i \in 1..n : ps[i] = gs[i]
      /\ ps[n + 1] = gs[n] /\ Last(gs) = gs[n] /\ gs \in Seq(GroupType)
  BY PushLevel
<1>2. gs[n] \in GroupType
  BY <1>1, ElementOfSeq
<1>3. g \in GroupType /\ g.label = gs[n].label /\ g.list_ctr = c
  BY <1>2, CountersAre DEF GroupType
<1>4. DOMAIN ps = 1..(n + 1) /\ n + 1 \in 1..(n + 1)
  BY <1>1, LenProperties
<1>5. hs = [ps EXCEPT ![n + 1] = g]
  BY <1>1, <1>4 DEF ListLevel
<1>. HIDE DEF ps, g, n, hs
<1>6. hs \in Seq(GroupType) /\ Len(hs) = Len(ps)
  <2>. DEFINE k == n + 1
  <2>1. hs = [ps EXCEPT ![k] = g] /\ k \in 1..Len(ps) /\ k \in DOMAIN ps
    BY <1>1, <1>4, <1>5
  <2>2. ps \in Seq(GroupType) /\ g \in GroupType
    BY <1>1, <1>3
  <2>. HIDE DEF k
  <2>. QED
    BY ONLY <2>1, <2>2, ExceptSeq
<1>7. hs[n + 1] = g /\ \A i \in 1..n : hs[i] = ps[i]
  BY <1>1, <1>4, <1>5
<1>8. "list" \in Commands
  BY DEF Commands, Openers
<1>9. Append(op, "list") \in Seq(Commands)
  BY <1>8, PushedAt
<1>10. Levels(hs, Append(op, "list"))
  <2>1. \A i \in 1..Len(gs) : hs[i].list_ctr = gs[i].list_ctr
    BY <1>1, <1>7 DEF n
  <2>2. Len(hs) = Len(gs) + 1 /\ hs[Len(hs)].list_ctr = c
    BY <1>1, <1>3, <1>6, <1>7 DEF n
  <2>3. "list" = "list" => hs[Len(hs)].list_ctr \in {"enumi", "enumii"}
    BY <2>2
  <2>. QED
    BY <1>6, <1>8, <2>1, <2>2, <2>3, LevelsOpen
<1>. QED
  BY <1>1, <1>3, <1>6, <1>7, <1>9, <1>10 DEF n, hs

\* The group of a command ends with it.
LEMMA LevelsPop ==
  ASSUME NEW gs, NEW op \in Seq(Commands), Levels(gs, op), op # <<>>
  PROVE  Levels(pop_level(gs), Front(op)) /\ Front(op) \in Seq(Commands)
BY LevelsClose DEF pop_level

\* Every action keeps the types.
LEMMA TypedInit == Init => Typed
<1>. SUFFICES ASSUME Init PROVE Typed
  OBVIOUS
<1>1. groups = <<[label |-> <<>>, list_ctr |-> "none"]>> /\ counters = [c \in Counters |-> 0] /\ open = <<>> /\ done = FALSE
  BY DEF Init
<1>2. [label |-> <<>>, list_ctr |-> "none"] \in GroupType
  <2>1. <<>> \in Seq(Nat)
    BY EmptySeq
  <2>. QED
    BY <2>1 DEF GroupType
<1>. DEFINE g == [label |-> <<>>, list_ctr |-> "none"]
<1>3. g \in GroupType /\ groups = <<g>>
  BY <1>1, <1>2
<1>. HIDE DEF g
<1>4. groups \in Seq(GroupType) /\ Len(groups) = 1
  BY <1>3
<1>5. open \in Seq(Commands) /\ Len(open) = 0 /\ DOMAIN open = {}
  BY <1>1, EmptySeq
<1>6. Levels(groups, open)
  BY <1>4, <1>5 DEF Levels
<1>. QED
  BY <1>1, <1>5, <1>6 DEF Typed

\* The types, when commands, groups and counters do not change.
LEMMA TypedSame ==
  ASSUME Typed, open' = open, groups' = groups, counters' = counters, done' \in BOOLEAN
  PROVE  Typed'
BY DEF Typed

\* refstepcounter.
LEMMA StepTyped ==
  ASSUME Typed, NEW c \in Counters
  PROVE  Stepped(c) \in [Counters -> Nat] /\ LabelOf(c) \in Seq(Nat)
<1>1. Stepped(c) \in [Counters -> Nat]
  BY LabelType DEF Typed, Stepped
<1>. QED
  BY <1>1, LabelType DEF LabelOf

\* Every step keeps the types.
LEMMA TypedStep ==
  ASSUME Typed, [Next]_vars
  PROVE  Typed'
<1>1. open \in Seq(Commands) /\ Levels(groups, open) /\ counters \in [Counters -> Nat] /\ done \in BOOLEAN
  BY DEF Typed
<1>2. CASE Characters
  BY <1>1, <1>2, TypedSame DEF Characters
<1>3. CASE Par
  BY <1>1, <1>3, TypedSame DEF Par
<1>4. CASE OpenBrace
  <2>1. open' = Append(open, "group") /\ groups' = push_level(groups) /\ counters' = counters /\ done' = done
    BY <1>4 DEF OpenBrace, MayOpen
  <2>2. "group" \in Commands \ {"list"}
    BY DEF Commands
  <2>. QED
    BY <1>1, <2>1, <2>2, LevelsPush DEF Typed
<1>5. CASE CloseBrace
  <2>1. open # <<>> /\ open' = Front(open) /\ groups' = pop_level(groups) /\ counters' = counters /\ done' = done
    BY <1>5 DEF CloseBrace, Closes
  <2>. QED
    BY <1>1, <2>1, LevelsPop DEF Typed
<1>6. ASSUME NEW c \in {"section", "subsection"}, NEW y, NEW star \in BOOLEAN, T_paras(c, y, star) PROVE Typed'
  <2>1. open' = Append(open, "title") /\ done' = done
    BY <1>6 DEF T_paras, MayOpen
  <2>2. \/ groups' = push_level(groups) /\ counters' = counters
        \/ groups' = push_level(string_define(groups, LabelOf(c))) /\ counters' = Stepped(c)
    BY <1>6 DEF T_paras
  <2>3. "title" \in Commands \ {"list"} /\ c \in Counters
    BY CountersAre DEF Commands, Openers
  <2>4. Stepped(c) \in [Counters -> Nat] /\ LabelOf(c) \in Seq(Nat)
    BY <2>3, StepTyped
  <2>5. Levels(string_define(groups, LabelOf(c)), open)
    BY <1>1, <2>4, LevelsDefine
  <2>6. Levels(groups', open') /\ open' \in Seq(Commands)
    BY <1>1, <2>1, <2>2, <2>3, <2>5, LevelsPush
  <2>. QED
    BY <1>1, <2>1, <2>2, <2>4, <2>6 DEF Typed
<1>7. CASE EndTitle
  <2>1. open # <<>> /\ open' = Front(open) /\ groups' = pop_level(groups) /\ counters' = counters /\ done' = done
    BY <1>7 DEF EndTitle, Closes
  <2>. QED
    BY <1>1, <2>1, LevelsPop DEF Typed
<1>8. CASE T_cap_or_note
  <2>1. /\ open' = Append(open, "footnote") /\ done' = done /\ counters' = Stepped("footnote")
        /\ groups' = string_define(push_level(groups), LabelOf("footnote"))
    BY <1>8 DEF T_cap_or_note, MayOpen, refstepcounter
  <2>2. "footnote" \in Commands \ {"list"} /\ "footnote" \in Counters
    BY CountersAre DEF Commands, Openers
  <2>3. Stepped("footnote") \in [Counters -> Nat] /\ LabelOf("footnote") \in Seq(Nat)
    BY <2>2, StepTyped
  <2>4. Levels(push_level(groups), open') /\ open' \in Seq(Commands)
    BY <1>1, <2>1, <2>2, LevelsPush
  <2>5. Levels(groups', open')
    BY <2>1, <2>3, <2>4, LevelsDefine
  <2>. QED
    BY <1>1, <2>1, <2>3, <2>4, <2>5 DEF Typed
<1>9. CASE EndNote
  <2>1. open # <<>> /\ open' = Front(open) /\ groups' = pop_level(groups) /\ counters' = counters /\ done' = done
    BY <1>9 DEF EndNote, Closes
  <2>. QED
    BY <1>1, <2>1, LevelsPop DEF Typed
<1>10. CASE T_listenv
  <2>. DEFINE c == IF Depth = 0 THEN "enumi" ELSE "enumii"
  <2>1. /\ open' = Append(open, "list") /\ done' = done
        /\ groups' = ListLevel(groups, c) /\ counters' = [counters EXCEPT ![c] = 0]
    BY <1>10 DEF T_listenv, MayOpen, use_counter, ListLevel
  <2>2. c \in {"enumi", "enumii"}
    OBVIOUS
  <2>. HIDE DEF c
  <2>3. counters' \in [Counters -> Nat]
    BY <1>1, <2>1
  <2>4. Levels(groups', open') /\ open' \in Seq(Commands)
    BY <1>1, <2>1, <2>2, LevelsList
  <2>. QED
    BY <1>1, <2>1, <2>3, <2>4 DEF Typed
<1>11. CASE T_item
  <2>. DEFINE c == Last(groups).list_ctr
  <2>1. /\ open # <<>> /\ Last(open) = "list" /\ open' = open /\ done' = done
        /\ groups' = string_define(groups, LabelOf(c)) /\ counters' = Stepped(c)
    BY <1>11 DEF T_item, refstepcounter
  <2>2. c \in {"enumi", "enumii"}
    <3>1. Len(open) \in Nat \ {0} /\ Last(open) = open[Len(open)] /\ Last(groups) = groups[Len(open) + 1]
      BY <1>1, <2>1, LevelsClose
    <3>2. Len(open) \in DOMAIN open
      BY <1>1, <3>1, LenProperties
    <3>. QED
      BY <1>1, <2>1, <3>1, <3>2 DEF Levels
  <2>. HIDE DEF c
  <2>3. c \in Counters
    BY <2>2, CountersAre
  <2>4. Stepped(c) \in [Counters -> Nat] /\ LabelOf(c) \in Seq(Nat)
    BY <2>3, StepTyped
  <2>5. Levels(groups', open)
    BY <1>1, <2>1, <2>4, LevelsDefine
  <2>. QED
    BY <1>1, <2>1, <2>4, <2>5 DEF Typed
<1>12. CASE T_listenv_end
  <2>1. open # <<>> /\ open' = Front(open) /\ groups' = pop_level(groups) /\ counters' = counters /\ done' = done
    BY <1>12 DEF T_listenv_end, Closes
  <2>. QED
    BY <1>1, <2>1, LevelsPop DEF Typed
<1>13. CASE begin_box
  <2>1. open' = Append(open, "hbox") /\ groups' = push_level(groups) /\ counters' = counters /\ done' = done
    BY <1>13 DEF begin_box, MayOpen
  <2>2. "hbox" \in Commands \ {"list"}
    BY DEF Commands, Openers
  <2>. QED
    BY <1>1, <2>1, <2>2, LevelsPush DEF Typed
<1>14. CASE box_end
  <2>1. open # <<>> /\ open' = Front(open) /\ groups' = pop_level(groups) /\ counters' = counters /\ done' = done
    BY <1>14 DEF box_end, Closes
  <2>. QED
    BY <1>1, <2>1, LevelsPop DEF Typed
<1>15. CASE UseBox
  BY <1>1, <1>15, TypedSame DEF UseBox
<1>16. ASSUME NEW c \in {"section", "footnote"}, NEW star \in BOOLEAN, UserRefstepcounter(c, star) PROVE Typed'
  <2>1. open' = open /\ done' = done /\ groups' = string_define(groups, LabelOf(c)) /\ counters' = Stepped(c)
    BY <1>16 DEF UserRefstepcounter, refstepcounter
  <2>2. c \in Counters
    BY CountersAre
  <2>3. Stepped(c) \in [Counters -> Nat] /\ LabelOf(c) \in Seq(Nat)
    BY <2>2, StepTyped
  <2>4. Levels(groups', open)
    BY <1>1, <2>1, <2>3, LevelsDefine
  <2>. QED
    BY <1>1, <2>1, <2>3, <2>4 DEF Typed
<1>17. ASSUME NEW n, T_label(n) \/ T_ref(n) \/ (\E spec \in BOOLEAN : AnchorLabel(n, spec)) \/ T_index(n) PROVE Typed'
  <2>1. open' = open /\ groups' = groups /\ counters' = counters /\ done' = done
    BY <1>17 DEF T_label, T_ref, AnchorLabel, T_index
  <2>. QED
    BY <1>1, <2>1, TypedSame
<1>18. CASE \E spec \in BOOLEAN : Anchor(spec)
  BY <1>1, <1>18, TypedSame DEF Anchor
<1>19. CASE after_main_text
  BY <1>1, <1>19, TypedSame DEF after_main_text
<1>20. CASE UNCHANGED vars
  BY <1>1, <1>20, TypedSame DEF vars
<1>. QED
  BY <1>2, <1>3, <1>4, <1>5, <1>6, <1>7, <1>8, <1>9, <1>10, <1>11, <1>12, <1>13, <1>14, <1>15, <1>16, <1>17, <1>18, <1>19, <1>20
  DEF Next

-----------------------------------------------------------------------------
\* The tree and the stack of documents that make anchors without a star.

\* The documents that do not make the current element an anchor.
Polite == Without({"refstepcounter*", "anchor*"})

\* A word of the index and its element; a link from the index to an anchor.
Word == [word : document.names, elt : Nat]
Link == [entry : Nat, id : Ids]

\* The invariant of the tree and the stack, with the box and the index.
Shape ==
  (~done /\ Polite) =>
    /\ Holds(x, open)
    /\ box # 0 => box \in DOMAIN x.elts /\ x.elts[box].name = NameOf("hbox")
    /\ entries \in Seq(Word) /\ refindex \in Seq(Link)

\* The element of the document is on the stack.
LEMMA ShapeInit == Init => Shape
<1>. SUFFICES ASSUME Init PROVE Shape
  OBVIOUS
<1>. DEFINE e == Element("document")
            f == [frame |-> "document", elt |-> 1, md |-> "v", uid |-> <<"uid", 1>>]
<1>1. /\ x = [elts |-> <<e>>, frames |-> <<f>>,
              mode |-> "v", cur_lid |-> <<"uid", 1>>, unfinished_par |-> 0,
              last_label_id |-> 0, last_top_label_id |-> 0, anchor_id |-> 0]
      /\ open = <<>> /\ entries = <<>> /\ refindex = <<>> /\ box = 0
  BY DEF Init
<1>2. e \in Elt /\ e.name = "document" /\ e.id = NoId /\ e.sons = <<>>
  <2>1. "document" \in ElementNames
    BY Zenon DEF ElementNames, FrameNames
  <2>2. NoId \in Ids
    BY DEF NoId, Ids
  <2>3. <<>> \in Seq(Nat) /\ <<>> \in Seq(Int)
    BY EmptySeq
  <2>. QED
    BY <2>1, <2>2, <2>3 DEF Element, Elt
<1>3. f \in FrameType /\ f.frame = "document" /\ f.elt = 1 /\ f.uid = <<"uid", 1>>
  BY DEF FrameType, FrameNames, Modes, Ids
<1>. HIDE DEF e, f
<1>4. /\ x.elts = <<e>> /\ x.frames = <<f>> /\ x.mode = "v" /\ x.cur_lid = <<"uid", 1>> /\ x.unfinished_par = 0
  BY <1>1
<1>5. /\ Len(x.elts) = 1 /\ DOMAIN x.elts = {1} /\ x.elts[1] = e /\ x.elts \in Seq(Elt)
      /\ Len(x.frames) = 1 /\ DOMAIN x.frames = {1} /\ x.frames[1] = f /\ x.frames \in Seq(FrameType) /\ x.frames # <<>>
  BY <1>2, <1>3, <1>4
<1>6. x \in State
  <2>1. "v" \in Modes /\ <<"uid", 1>> \in Ids
    BY DEF Modes, Ids
  <2>. QED
    BY <1>1, <1>4, <1>5, <2>1 DEF State
<1>7. DOMAIN <<>> = {}
  OBVIOUS
<1>8. Tree(x)
  <2>1. "document" # "p"
    OBVIOUS
  <2>. QED
    BY <1>2, <1>4, <1>5, <1>7, <2>1 DEF Tree
<1>9. Stacked(x)
  <2>1. Named(x)
    <3>1. ModeAt(x, 2) = "v" /\ NameOf("document") = "document" /\ ModeFits("v", "document")
      BY <1>4, <1>5 DEF ModeAt, NameOf, ModeFits
    <3>. QED
      BY <1>2, <1>3, <1>5, <3>1 DEF Named
  <2>2. Ordered(x) /\ Fitted(x)
    BY <1>5 DEF Ordered, Fitted
  <2>. QED
    BY <1>3, <1>5, <2>1, <2>2 DEF Stacked
<1>10. Scoped(x)
  <2>1. ~Anchored(x, 1)
    BY <1>2, <1>5, <1>7 DEF Anchored, AnchorSons, Sons
  <2>2. UidAt(x, 2) = <<"uid", 1>> /\ UidAt(x, 1) = <<"uid", 1>>
    BY <1>3, <1>4, <1>5 DEF UidAt
  <2>. QED
    BY <1>3, <1>5, <2>1, <2>2 DEF Scoped
<1>11. Nest(x.frames, open)
  <2>1. Blocks(x.frames) = {}
    BY <1>3, <1>5, BlocksAre DEF BlockNames
  <2>2. At(open, Openers) = {}
    BY <1>1, <1>7 DEF At
  <2>. QED
    BY <2>1, <2>2 DEF Nest, Matched
<1>12. entries \in Seq(Word) /\ refindex \in Seq(Link)
  BY <1>1, EmptySeq
<1>. QED
  BY <1>1, <1>6, <1>8, <1>9, <1>10, <1>11, <1>12 DEF Shape, Holds, Good

\* The register keeps its box, and the index its words.
LEMMA ShapeKept ==
  ASSUME Shape, ~done, Polite, document' = document, Keeps(x, x'), x' \in State, Holds(x', open'),
         box' = box \/ box' = 0 \/ (box' \in DOMAIN x'.elts /\ x'.elts[box'].name = NameOf("hbox")),
         entries' = entries \/ entries' \in Seq(Word), refindex' = refindex \/ refindex' \in Seq(Link)
  PROVE  Shape'
<1>1. x \in State
  BY DEF Shape, Holds, Good
<1>2. ASSUME box' = box, box # 0 PROVE box' \in DOMAIN x'.elts /\ x'.elts[box'].name = NameOf("hbox")
  <2>1. box \in DOMAIN x.elts /\ x.elts[box].name = NameOf("hbox")
    BY <1>2 DEF Shape
  <2>2. box \in DOMAIN x'.elts /\ x'.elts[box].name = x.elts[box].name
    BY <1>1, <2>1, KeptElements
  <2>. QED
    BY <1>2, <2>1, <2>2
<1>3. Word' = Word /\ Link' = Link
  BY DEF Word, Link
<1>4. entries' \in Seq(Word') /\ refindex' \in Seq(Link')
  BY <1>3 DEF Shape
<1>. QED
  BY <1>2, <1>4 DEF Shape

\* A step that stays in the same blocks keeps the shape.
LEMMA ShapeSame ==
  ASSUME Shape, ~done, Polite, document' = document, x' = x, Holds(x, open'), box' = box, entries' = entries, refindex' = refindex
  PROVE  Shape'
<1>1. x \in State /\ Keeps(x, x)
  BY StateParts DEF Shape, Holds, Good, Keeps
<1>. QED
  BY <1>1, ShapeKept

\* A command that opens and closes nothing, one that opens a block, one that closes it.
LEMMA ShapeStays ==
  ASSUME Shape, ~done, Polite, document' = document, Stays(x, x'), open' = open,
         box' = box \/ box' = 0, entries' = entries \/ entries' \in Seq(Word), refindex' = refindex \/ refindex' \in Seq(Link)
  PROVE  Shape'
<1>1. Holds(x', open') /\ Keeps(x, x') /\ x' \in State
  BY StaysHolds DEF Shape, Stays, Good
<1>. QED
  BY <1>1, ShapeKept

\* A command that opens keeps the shape.
LEMMA ShapeOpens ==
  ASSUME Typed, Shape, ~done, Polite, document' = document, NEW c \in Openers, Opens(x, x', c), open' = Append(open, c),
         box' = box, entries' = entries, refindex' = refindex
  PROVE  Shape'
<1>1. Holds(x', open') /\ Keeps(x, x') /\ x' \in State
  BY OpensHolds DEF Typed, Shape, Opens, Grows, Good
<1>. QED
  BY <1>1, ShapeKept

\* A command that ends keeps the shape.
LEMMA ShapeShuts ==
  ASSUME Shape, ~done, Polite, document' = document, Shuts(x, x', open), open' = Front(open),
         box' = box \/ (box' \in DOMAIN x'.elts /\ x'.elts[box'].name = NameOf("hbox")),
         entries' = entries, refindex' = refindex
  PROVE  Shape'
<1>1. Holds(x', open') /\ Keeps(x, x') /\ x' \in State
  BY ShutsHolds DEF Shuts, Grows, Good
<1>. QED
  BY <1>1, ShapeKept

\* Sections begin outside of blocks.
LEMMA NoOpeners ==
  ASSUME NEW s, NEW op \in Seq(Commands), Holds(s, op), op = <<>> \/ ToSet(op) = {"group"}
  PROVE  Blocks(s.frames) = {}
<1>1. At(op, Openers) = {}
  <2>. SUFFICES ASSUME NEW i \in DOMAIN op, op[i] \in Openers PROVE FALSE
    BY DEF At
  <2>1. op # <<>>
    OBVIOUS
  <2>2. op[i] \in ToSet(op)
    BY DEF ToSet
  <2>. QED
    BY <2>1, <2>2 DEF Openers
<1>2. Cardinality(Blocks(s.frames)) = 0
  BY <1>1, FS_EmptySet DEF Holds, Nest
<1>3. IsFiniteSet(Blocks(s.frames))
  <2>1. Blocks(s.frames) \in SUBSET (1..Len(s.frames)) /\ Len(s.frames) \in Nat
    BY BlockPositions DEF Holds
  <2>2. IsFiniteSet(1..Len(s.frames))
    BY <2>1, FS_Interval
  <2>. QED
    BY <2>1, <2>2, FS_Subset
<1>. QED
  BY <1>2, <1>3, FS_EmptySet

\* What the commands do to the tree and the stack.
LEMMA SectionOpens ==
  ASSUME Typed, Shape, ~done, Polite, NEW c \in {"section", "subsection"}, NEW y \in {0, 1}, NEW star \in BOOLEAN, T_paras(c, y, star)
  PROVE  /\ Opens(x, x', "title")
         /\ ~star => Shows(x', Len(x'.frames), LabelOf(c)) /\ Shows(x', Top(x'), LabelOf(c))
<1>. DEFINE d == push1(add_nl(para_aux(leave_h_mode(x), y)), IF y = 0 THEN "div0" ELSE "div1")
            t == IF star THEN d ELSE anchor_of_section(d, y, c)
<1>1. Holds(x, open) /\ open \in Seq(Commands) /\ (open = <<>> \/ ToSet(open) = {"group"})
  BY DEF T_paras, Typed, Shape
<1>2. Good(x) /\ Blocks(x.frames) = {}
  BY <1>1, NoOpeners DEF Holds
<1>3. x' = push1(WithMode(t, "arg"), "head")
  BY DEF T_paras, WithMode
<1>4. LabelOf(c) \in Seq(Nat)
  BY CountersAre, StepTyped
<1>5. star => t = d
  OBVIOUS
<1>6. ~star => t = add_new_anchor(d, LabelOf(c)) \/ t = add_new_anchor_spec(d, LabelOf(c))
  BY DEF anchor_of_section
<1>. DEFINE r == x'
            text == LabelOf(c)
<1>7. d = push1(add_nl(para_aux(leave_h_mode(x), y)), IF y = 0 THEN "div0" ELSE "div1")
  OBVIOUS
<1>. HIDE DEF t, d, text
<1>8. /\ Opens(x, r, "title")
      /\ t = add_new_anchor(d, text) \/ t = add_new_anchor_spec(d, text) =>
           Shows(r, Len(r.frames), text) /\ Shows(r, Top(r), text)
  <2>1. t = d \/ t = add_new_anchor(d, text) \/ t = add_new_anchor_spec(d, text)
    BY <1>5, <1>6 DEF text
  <2>. HIDE DEF r
  <2>2. r = push1(WithMode(t, "arg"), "head")
    BY <1>3 DEF r
  <2>3. text \in Seq(Nat)
    BY <1>4 DEF text
  <2>. QED
    BY <1>2, <1>7, <2>1, <2>2, <2>3, TitleOpens
<1>. QED
  BY <1>6, <1>8 DEF text

\* A box opens a block without an anchor.
LEMMA BoxBegins ==
  ASSUME Shape, ~done, Polite, begin_box
  PROVE  Opens(x, x', "hbox") /\ SameContext(x, Top(x), x', Len(x'.frames)) /\ SameContext(x, Top(x), x', Top(x'))
<1>1. Good(x)
  BY DEF Shape, Holds
<1>2. New(x, "") = New(x, NameOf("hbox"))
  BY Zenon DEF NameOf
<1>3. x' = [ipush(New(x, ""), "hbox", get_xid(New(x, ""))) EXCEPT !.mode = "arg"]
  BY Zenon DEF begin_box
<1>4. x' = [ipush(New(x, NameOf("hbox")), "hbox", get_xid(New(x, NameOf("hbox")))) EXCEPT !.mode = "arg"]
  BY <1>2, <1>3, Zenon
<1>5. x' = WithMode(ipush(New(x, NameOf("hbox")), "hbox", get_xid(New(x, NameOf("hbox")))), "arg")
  BY <1>4, Zenon DEF WithMode
<1>. QED
  BY <1>1, <1>5, BoxOpens

\* A footnote opens a block, which is the current anchor.
LEMMA NoteBegins ==
  ASSUME Typed, Shape, ~done, Polite, T_cap_or_note
  PROVE  /\ Opens(x, x', "footnote") /\ Marks(x', LabelOf("footnote"))
         /\ NoAnchors(x) => SameContext(x, Top(x), x', Len(x'.frames))
<1>1. Good(x)
  BY DEF Shape, Holds
<1>2. x' = WithMode(add_new_anchor(push1(leave_v_mode(x), "footnote"), LabelOf("footnote")), "v")
  BY DEF T_cap_or_note, WithMode
<1>3. LabelOf("footnote") \in Seq(Nat)
  BY CountersAre, StepTyped
<1>. QED
  BY <1>1, <1>2, <1>3, NoteOpens

\* An item is the current anchor, and its number is that of the counter of the list.
LEMMA ItemStarts ==
  ASSUME Typed, Shape, ~done, Polite, T_item
  PROVE  LET label == LabelOf(Last(groups).list_ctr) IN
         /\ Goes(x, x') /\ (NoAnchors(x) => Shows(x', Top(x'), label))
         /\ label \in Seq(Nat) /\ open # <<>> /\ Last(open) = "list"
<1>. DEFINE c == Last(groups).list_ctr
            u == [leave_h_mode(x) EXCEPT !.unfinished_par = 0]
            label == LabelOf(c)
<1>1. Good(x) /\ open \in Seq(Commands) /\ Nest(x.frames, open) /\ open # <<>> /\ Last(open) = "list" /\ Levels(groups, open)
  BY DEF Shape, Holds, Typed, T_item
<1>2. c \in Counters
  <2>1. Len(open) \in Nat \ {0} /\ Last(open) = open[Len(open)] /\ Last(groups) = groups[Len(open) + 1]
    BY <1>1, LevelsClose
  <2>2. Len(open) \in DOMAIN open
    BY <1>1, <2>1, LenProperties
  <2>3. c \in {"enumi", "enumii"}
    BY <1>1, <2>1, <2>2 DEF Levels
  <2>. QED
    BY <2>3, CountersAre
<1>. HIDE DEF c
<1>3. label \in Seq(Nat)
  BY <1>2, StepTyped
<1>4. x' = ileave_v_mode(WithMode(add_new_anchor(push1(add_nl(pop_if_frame(u, "item")), "item"), label), "v"))
  BY DEF T_item, WithMode, c
<1>5. u = [leave_h_mode(x) EXCEPT !.unfinished_par = 0]
  OBVIOUS
<1>. HIDE DEF u, label
<1>6. Goes(x, x') /\ (NoAnchors(x) => Shows(x', Top(x'), label))
  BY <1>1, <1>3, <1>4, <1>5, ItemGoes
<1>. QED
  BY <1>1, <1>3, <1>6 DEF label, c

\* Every action keeps the shape.
LEMMA ShapeStep ==
  ASSUME Typed, Shape, [Next]_vars
  PROVE  Shape'
<1>1. CASE UNCHANGED vars
  BY <1>1 DEF vars, Shape, Polite, Without, Word, Link, Holds
<1>2. CASE ~UNCHANGED vars
  <2>. USE <1>2
  <2>0. document' = document /\ ~done
    BY DEF Next, vars, Characters, Par, OpenBrace, CloseBrace, T_paras, EndTitle, T_cap_or_note, EndNote, T_listenv, T_item,
           T_listenv_end, begin_box, box_end, UseBox, UserRefstepcounter, T_label, T_ref, AnchorLabel, T_index, Anchor,
           after_main_text, Allowed, MayOpen, Closes
  <2>1. Polite' <=> Polite
    BY <2>0 DEF Polite, Without
  <2>. SUFFICES ASSUME Polite, ~done' PROVE Shape'
    BY <2>1 DEF Shape
  <2>2. Holds(x, open) /\ Good(x) /\ open \in Seq(Commands) /\ Levels(groups, open) /\ Nest(x.frames, open)
    BY <2>0 DEF Shape, Holds, Typed
  <2>3. CASE Characters
    <3>1. x' = add_last_string(leave_v_mode(x)) /\ open' = open /\ box' = box /\ entries' = entries /\ refindex' = refindex
      BY <2>3 DEF Characters, indexVars
    <3>2. Stays(x, x')
      BY <2>2, <3>1, TextFlows, GoesStays DEF Flows
    <3>. QED
      BY <2>0, <3>1, <3>2, ShapeStays
  <2>4. CASE Par
    <3>1. x' = T_par1(x) /\ open' = open /\ box' = box /\ entries' = entries /\ refindex' = refindex
      BY <2>4 DEF Par, indexVars
    <3>2. Stays(x, x')
      BY <2>2, <3>1, TextFlows, GoesStays DEF Flows
    <3>. QED
      BY <2>0, <3>1, <3>2, ShapeStays
  <2>5. CASE OpenBrace
    <3>1. x' = x /\ open' = Append(open, "group") /\ box' = box /\ entries' = entries /\ refindex' = refindex
      BY <2>5 DEF OpenBrace, MayOpen, indexVars
    <3>2. Holds(x, open')
      BY <2>2, <3>1, GroupBegins
    <3>. QED
      BY <2>0, <3>1, <3>2, ShapeSame
  <2>6. CASE CloseBrace
    <3>1. /\ x' = x /\ open # <<>> /\ Last(open) = "group" /\ open' = Front(open) /\ box' = box
          /\ entries' = entries /\ refindex' = refindex
      BY <2>6 DEF CloseBrace, Closes, indexVars
    <3>2. Holds(x, open')
      BY <2>2, <3>1, GroupEnds
    <3>. QED
      BY <2>0, <3>1, <3>2, ShapeSame
  <2>7. ASSUME NEW c \in {"section", "subsection"}, NEW y \in {0, 1}, NEW star \in BOOLEAN, T_paras(c, y, star) PROVE Shape'
    <3>1. open' = Append(open, "title") /\ box' = box /\ entries' = entries /\ refindex' = refindex
      BY <2>7 DEF T_paras, MayOpen, indexVars
    <3>2. Opens(x, x', "title") /\ "title" \in Openers
      BY <2>0, <2>7, SectionOpens DEF Openers
    <3>. QED
      BY <2>0, <3>1, <3>2, ShapeOpens
  <2>8. CASE EndTitle
    <3>1. /\ open # <<>> /\ Last(open) = "title" /\ open' = Front(open) /\ x' = WithMode(add_nl(pop(x)), "v")
          /\ box' = box /\ entries' = entries /\ refindex' = refindex
      BY <2>8 DEF EndTitle, Closes, indexVars, WithMode
    <3>2. Shuts(x, x', open)
      BY <2>2, <3>1, TitleShuts
    <3>. QED
      BY <2>0, <3>1, <3>2, ShapeShuts
  <2>9. CASE T_cap_or_note
    <3>1. open' = Append(open, "footnote") /\ box' = box /\ entries' = entries /\ refindex' = refindex
      BY <2>9 DEF T_cap_or_note, MayOpen, indexVars
    <3>2. Opens(x, x', "footnote") /\ "footnote" \in Openers
      BY <2>0, <2>9, NoteBegins DEF Openers
    <3>. QED
      BY <2>0, <3>1, <3>2, ShapeOpens
  <2>10. CASE EndNote
    <3>1. /\ open # <<>> /\ Last(open) = "footnote" /\ open' = Front(open)
          /\ x' = remove_par_bal_if_ok(pop(leave_h_mode(x)), top_stack(leave_h_mode(x)))
          /\ box' = box /\ entries' = entries /\ refindex' = refindex
      BY <2>10 DEF EndNote, Closes, indexVars
    <3>2. Shuts(x, x', open)
      BY <2>2, <3>1, NoteShuts
    <3>. QED
      BY <2>0, <3>1, <3>2, ShapeShuts
  <2>11. CASE T_listenv
    <3>1. /\ open' = Append(open, "list") /\ x' = push1(leave_h_mode(x), "list")
          /\ box' = box /\ entries' = entries /\ refindex' = refindex
      BY <2>11 DEF T_listenv, MayOpen, indexVars
    <3>2. Opens(x, x', "list") /\ "list" \in Openers
      BY <2>2, <3>1, ListOpens DEF Openers
    <3>. QED
      BY <2>0, <3>1, <3>2, ShapeOpens
  <2>12. CASE T_item
    <3>1. open' = open /\ box' = box /\ entries' = entries /\ refindex' = refindex
      BY <2>12 DEF T_item, indexVars
    <3>2. Stays(x, x')
      BY <2>0, <2>12, ItemStarts, GoesStays
    <3>. QED
      BY <2>0, <3>1, <3>2, ShapeStays
  <2>13. CASE T_listenv_end
    <3>1. /\ open # <<>> /\ Last(open) = "list" /\ open' = Front(open)
          /\ x' = add_nl(pop(pop_if_frame(leave_h_mode(x), "item")))
          /\ box' = box /\ entries' = entries /\ refindex' = refindex
      BY <2>13 DEF T_listenv_end, Closes, indexVars
    <3>2. Shuts(x, x', open)
      BY <2>2, <3>1, ListShuts
    <3>. QED
      BY <2>0, <3>1, <3>2, ShapeShuts
  <2>14. CASE begin_box
    <3>1. open' = Append(open, "hbox") /\ box' = box /\ entries' = entries /\ refindex' = refindex
      BY <2>14 DEF begin_box, MayOpen, indexVars
    <3>2. Opens(x, x', "hbox") /\ "hbox" \in Openers
      BY <2>0, <2>14, BoxBegins DEF Openers
    <3>. QED
      BY <2>0, <3>1, <3>2, ShapeOpens
  <2>15. CASE box_end
    <3>1. /\ open # <<>> /\ Last(open) = "hbox" /\ open' = Front(open) /\ x' = pop(x) /\ box' = top_stack(x)
          /\ entries' = entries /\ refindex' = refindex
      BY <2>15 DEF box_end, Closes, indexVars
    <3>2. Shuts(x, x', open) /\ box' \in DOMAIN x'.elts /\ x'.elts[box'].name = NameOf("hbox")
      BY <2>2, <3>1, BoxShuts
    <3>. QED
      BY <2>0, <3>1, <3>2, ShapeShuts
  <2>16. CASE UseBox
    <3>1. box # 0 /\ open' = open /\ x' = add_last(x, box) /\ box' = 0 /\ entries' = entries /\ refindex' = refindex
      BY <2>16 DEF UseBox, indexVars
    <3>2. box \in DOMAIN x.elts /\ x.elts[box].name = NameOf("hbox")
      BY <2>0, <3>1 DEF Shape
    <3>3. Stays(x, x')
      BY <2>2, <3>1, <3>2, UseBoxFlows, GoesStays DEF Flows
    <3>. QED
      BY <2>0, <3>1, <3>3, ShapeStays
  <2>17. ASSUME NEW c \in {"section", "footnote"}, NEW star \in BOOLEAN, UserRefstepcounter(c, star) PROVE Shape'
    <3>1. ~star /\ x' = x /\ open' = open /\ box' = box /\ entries' = entries /\ refindex' = refindex
      BY <2>17 DEF UserRefstepcounter, Allowed, Polite, Without, indexVars
    <3>. QED
      BY <2>0, <2>2, <3>1, ShapeSame
  <2>18. ASSUME NEW n, T_label(n) PROVE Shape'
    <3>1. x' = x /\ open' = open /\ box' = box /\ entries' = entries /\ refindex' = refindex
      BY <2>18 DEF T_label, indexVars
    <3>. QED
      BY <2>0, <2>2, <3>1, ShapeSame
  <2>19. ASSUME NEW n, T_ref(n) PROVE Shape'
    <3>1. x' = add_newid0(leave_v_mode(x), "ref") /\ open' = open /\ box' = box /\ entries' = entries /\ refindex' = refindex
      BY <2>19 DEF T_ref, indexVars
    <3>2. Stays(x, x')
      BY <2>2, <3>1, TextFlows, GoesStays DEF Flows
    <3>. QED
      BY <2>0, <3>1, <3>2, ShapeStays
  <2>20. ASSUME NEW spec \in BOOLEAN, Anchor(spec) \/ \E n : AnchorLabel(n, spec) PROVE Shape'
    <3>1. /\ ~spec /\ x' = add_anchor(scan_anchor(x), AnchorText(scan_anchor(x)), spec)
          /\ open' = open /\ box' = box /\ entries' = entries /\ refindex' = refindex
      BY <2>20 DEF Anchor, AnchorLabel, Allowed, Polite, Without, indexVars
    <3>2. AnchorText(scan_anchor(x)) \in Seq(Nat)
      <4>1. scan_anchor(x).anchor_id \in Nat
        BY <2>2, CountEffect DEF Good
      <4>. QED
        BY <4>1 DEF AnchorText
    <3>3. Stays(x, x')
      BY <2>2, <3>1, <3>2, AnchorStays
    <3>. QED
      BY <2>0, <3>1, <3>3, ShapeStays
  <2>21. ASSUME NEW w \in document.names, T_index(w) PROVE Shape'
    <3>. DEFINE known == { i \in DOMAIN entries : entries[i].word = w }
                s == IF known = {} THEN New(x, "index") ELSE x
                k == IF known = {} THEN Len(entries) + 1 ELSE CHOOSE i \in known : TRUE
                text == <<0, 0, Len(refindex) + 1>>
    <3>1. /\ entries' = IF known = {} THEN Append(entries, [word |-> w, elt |-> get_xid(s)]) ELSE entries
          /\ x' = add_anchor(s, text, FALSE)
          /\ refindex' = Append(refindex, [entry |-> k, id |-> x'.cur_lid])
          /\ open' = open /\ box' = box
      BY <2>21 DEF T_index
    <3>2. entries \in Seq(Word) /\ refindex \in Seq(Link)
      BY <2>0 DEF Shape
    <3>3. /\ DOMAIN entries = 1..Len(entries) /\ Len(entries) \in Nat /\ Len(refindex) \in Nat
      BY <3>2, LenProperties
    <3>4. k \in Nat
      <4>1. CASE known = {}
        BY <3>3, <4>1
      <4>2. CASE known # {}
        <5>1. k \in known
          BY <4>2
        <5>. QED
          BY <3>3, <5>1
      <4>. QED
        BY <4>1, <4>2
    <3>5. text \in Seq(Nat)
      BY <3>3
    <3>6. s = x \/ s = New(x, "index")
      OBVIOUS
    <3>. HIDE DEF s, k, text, known
    <3>7. Stays(x, x') /\ Good(s)
      BY <2>2, <3>1, <3>5, <3>6, AnchorStays
    <3>8. x'.cur_lid \in Ids /\ get_xid(s) \in Nat
      BY <3>7, StateParts DEF Stays, Good, get_xid
    <3>9. entries' \in Seq(Word)
      <4>1. [word |-> w, elt |-> get_xid(s)] \in Word
        BY <3>8 DEF Word
      <4>. QED
        BY <3>1, <3>2, <4>1, AppendProperties
    <3>10. refindex' \in Seq(Link)
      <4>1. [entry |-> k, id |-> x'.cur_lid] \in Link
        BY <3>4, <3>8 DEF Link
      <4>. QED
        BY <3>1, <3>2, <4>1, AppendProperties
    <3>. QED
      BY <2>0, <3>1, <3>7, <3>9, <3>10, ShapeStays
  <2>22. CASE after_main_text
    BY <2>22 DEF after_main_text
  <2>. QED
    BY <2>3, <2>4, <2>5, <2>6, <2>7, <2>8, <2>9, <2>10, <2>11, <2>12, <2>13, <2>14, <2>15, <2>16, <2>17, <2>18, <2>19,
       <2>20, <2>21, <2>22 DEF Next
<1>. QED
  BY <1>1, <1>2

-----------------------------------------------------------------------------
\* The current anchor.

\* Between the anchors of the elements on the stack the current anchor does not change.
LEMMA UidAbove ==
  ASSUME NEW s, Good(s), NEW q \in Nat, q <= Len(s.frames), NEW v, UidAt(s, q + 1) = v,
         \A i \in DOMAIN s.frames : i > q => ~Anchored(s, s.frames[i].elt)
  PROVE  s.cur_lid = v
<1>. DEFINE m == Len(s.frames)
            D == { i \in (q + 1)..(m + 1) : UidAt(s, i) # v }
<1>1. m \in Nat /\ DOMAIN s.frames = 1..m
  BY StateParts DEF Good
<1>2. UidAt(s, m + 1) = s.cur_lid
  BY <1>1 DEF UidAt
<1>. HIDE DEF m
<1>3. D = {}
  <2>. SUFFICES ASSUME D # {} PROVE FALSE
    OBVIOUS
  <2>1. D \in SUBSET Nat
    BY <1>1
  <2>. HIDE DEF D
  <2>2. PICK d \in D : \A n \in D : d <= n
    BY <2>1, LeastNatural
  <2>3. d \in Nat /\ q + 1 <= d /\ d <= m + 1 /\ UidAt(s, d) # v
    BY <1>1, <2>2 DEF D
  <2>4. d # q + 1
    BY <2>3
  <2>5. d - 1 \in (q + 1)..(m + 1) /\ d - 1 \in 1..m /\ d - 1 > q
    BY <1>1, <2>3, <2>4
  <2>6. ~(d <= d - 1)
    BY <2>3
  <2>7. d - 1 \notin D
    BY <2>2, <2>6
  <2>8. UidAt(s, d - 1) = v
    BY <2>5, <2>7 DEF D
  <2>9. UidAt(s, (d - 1) + 1) = UidAt(s, d - 1)
    BY <1>1, <2>5 DEF Good, Scoped
  <2>10. (d - 1) + 1 = d
    BY <2>3
  <2>. QED
    BY <2>3, <2>8, <2>9, <2>10
<1>4. m + 1 \in (q + 1)..(m + 1)
  BY <1>1 DEF m
<1>. QED
  BY <1>2, <1>3, <1>4

\* The current anchor is the last one of the innermost element that has one.
LEMMA ScopeOfGood ==
  ASSUME NEW s, Good(s)
  PROVE  LET scopes == { i \in DOMAIN s.frames : Anchored(s, s.frames[i].elt) }
         IN s.cur_lid = IF scopes = {} THEN <<"uid", 1>> ELSE LastAnchor(s, s.frames[Max(scopes)].elt)
<1>. DEFINE scopes == { i \in DOMAIN s.frames : Anchored(s, s.frames[i].elt) }
            m == Len(s.frames)
<1>1. m \in Nat /\ DOMAIN s.frames = 1..m /\ s.frames # <<>> /\ s.frames \in Seq(FrameType)
  BY StateParts DEF Good, Stacked
<1>2. CASE scopes = {}
  <2>1. m > 0
    BY <1>1, EmptySeq
  <2>2. UidAt(s, 0 + 1) = <<"uid", 1>>
    BY <1>1, <2>1 DEF UidAt, Good, Scoped
  <2>3. \A i \in DOMAIN s.frames : i > 0 => ~Anchored(s, s.frames[i].elt)
    BY <1>2
  <2>4. s.cur_lid = <<"uid", 1>>
    BY <1>1, <2>2, <2>3, UidAbove
  <2>. QED
    BY <1>2, <2>4
<1>3. CASE scopes # {}
  <2>. DEFINE q == Max(scopes)
  <2>1. scopes \in SUBSET (1..m)
    BY <1>1
  <2>. HIDE DEF scopes, m
  <2>2. q \in scopes /\ \A i \in scopes : i <= q
    BY <1>1, <1>3, <2>1, GreatestPosition
  <2>. HIDE DEF q
  <2>3. q \in 1..m /\ Anchored(s, s.frames[q].elt)
    BY <1>1, <2>2 DEF scopes
  <2>4. UidAt(s, q + 1) = LastAnchor(s, s.frames[q].elt)
    BY <1>1, <2>3 DEF Good, Scoped
  <2>5. ASSUME NEW i \in DOMAIN s.frames, i > q PROVE ~Anchored(s, s.frames[i].elt)
    <3>1. i \notin scopes
      BY <1>1, <2>2, <2>3, <2>5
    <3>. QED
      BY <3>1 DEF scopes
  <2>6. q \in Nat /\ q <= Len(s.frames)
    BY <1>1, <2>3 DEF m
  <2>7. s.cur_lid = LastAnchor(s, s.frames[q].elt)
    BY <2>4, <2>5, <2>6, UidAbove
  <2>. QED
    BY <1>3, <2>7 DEF q, scopes
<1>. QED
  BY <1>2, <1>3 DEF scopes

\* The types are kept by every document.
THEOREM GroupsFollowCommands == Spec => []Typed
<1>1. Init => Typed
  BY TypedInit
<1>2. Typed /\ [Next /\ Bounded]_vars => Typed'
  BY TypedStep
<1>. QED
  BY <1>1, <1>2, PTL DEF Spec

\* The XML stack follows the commands that are open, and every frame keeps the anchor that
\* was current when it was pushed (Stack::ipush, Stack::pop).
THEOREM StackFollowsCommands == Spec => [](Typed /\ Shape)
<1>1. Init => Typed /\ Shape
  BY TypedInit, ShapeInit
<1>2. Typed /\ Shape /\ [Next /\ Bounded]_vars => Typed' /\ Shape'
  BY TypedStep, ShapeStep
<1>. QED
  BY <1>1, <1>2, PTL DEF Spec

\* The current anchor, to which \label refers, is the last anchor of the innermost open element
\* that has one (Stack::ipush, Stack::pop, add_new_anchor).
THEOREM AnchorsAreInScope == Spec => []CurrentAnchorIsInScope
<1>1. Shape => CurrentAnchorIsInScope
  <2>. SUFFICES ASSUME Shape, ~done, Polite
                PROVE  LET scopes == { i \in DOMAIN x.frames : Anchored(x, x.frames[i].elt) }
                       IN x.cur_lid = IF scopes = {} THEN <<"uid", 1>> ELSE LastAnchor(x, x.frames[Max(scopes)].elt)
    BY DEF CurrentAnchorIsInScope, Polite
  <2>1. Good(x)
    BY DEF Shape, Holds
  <2>. QED
    BY <2>1, ScopeOfGood
<1>. QED
  BY <1>1, StackFollowsCommands, PTL

-----------------------------------------------------------------------------
\* The number at the anchor and the current label.

\* The documents in which anchors have the number of the current label.
Simple == Without({"refstepcounter", "refstepcounter*", "anchor", "anchor*", "index", "star", "sectionInGroup"})

\* The invariant for the numbers.
Agree == (~done /\ Simple) => Agrees(x, groups, open)

\* At first there is no anchor, so that nothing is shown.
LEMMA AgreeInit == Init => Agree
<1>. SUFFICES ASSUME Init PROVE Agree
  OBVIOUS
<1>. DEFINE e == Element("document")
            f == [frame |-> "document", elt |-> 1, md |-> "v", uid |-> <<"uid", 1>>]
<1>1. x.elts = <<e>> /\ x.frames = <<f>> /\ open = <<>>
  BY DEF Init
<1>2. e.name = "document" /\ e.id = NoId /\ f.elt = 1
  BY DEF Element
<1>. HIDE DEF e, f
<1>3. /\ DOMAIN x.elts = {1} /\ x.elts[1] = e /\ Len(x.frames) = 1 /\ x.frames[1] = f
  BY <1>1
<1>4. NoAnchors(x)
  BY <1>2, <1>3 DEF NoAnchors
<1>5. ~HasId(x, Top(x))
  <2>1. Top(x) = 2
    BY <1>3 DEF Top
  <2>2. ASSUME NEW j \in 1..(2 - 1) PROVE x.elts[x.frames[j].elt].id = NoId
    <3>1. j = 1
      OBVIOUS
    <3>. QED
      BY <1>2, <1>3, <3>1
  <2>. QED
    BY <2>1, <2>2 DEF HasId
<1>6. At(open, Openers) = {} /\ DOMAIN open = {}
  BY <1>1 DEF At
<1>7. Matched(x.frames, open) = {}
  BY <1>6 DEF Matched
<1>. QED
  BY <1>4, <1>5, <1>6, <1>7 DEF Agree, Agrees, Shows

\* Every action keeps the agreement.
LEMMA AgreeSame ==
  ASSUME Agrees(x, groups, open), Flows(x, x') \/ x' = x, Holds(x, open), open' = open, groups' = groups
  PROVE  Agrees(x', groups', open')
<1>1. CASE Flows(x, x')
  BY <1>1, FlowsAgrees
<1>2. CASE x' = x
  BY <1>2
<1>. QED
  BY <1>1, <1>2

\* A command begins with the label of the text around it.
LEMMA AgreeBegins ==
  ASSUME Typed, Holds(x, open), Agrees(x, groups, open), NEW c \in Openers, Opens(x, x', c),
         SameContext(x, Top(x), x', Len(x'.frames)), open' = Append(open, c),
         Len(groups') = Len(groups) + 1, \A i \in 1..Len(groups) : groups'[i] = groups[i],
         Shows(x', Top(x'), groups'[Len(groups) + 1].label)
  PROVE  Agrees(x', groups', open')
<1>1. open \in Seq(Commands) /\ Levels(groups, open)
  BY DEF Typed
<1>2. Len(groups) \in Nat \ {0} /\ Last(groups) = groups[Len(groups)]
  BY <1>1, PushLevel
<1>3. (\A i \in 1..(Len(groups) - 1) : groups'[i] = groups[i]) /\ groups'[Len(groups)] = groups[Len(groups)]
  BY <1>2
<1>4. Shows(x, Top(x), groups[Len(groups)].label)
  BY <1>2 DEF Agrees
<1>5. x \in State /\ x' \in State /\ Keeps(x, x')
  BY DEF Holds, Opens, Grows, Good
<1>6. Shows(x', Len(x'.frames), groups'[Len(groups)].label)
  BY <1>3, <1>4, <1>5, ShowsKept
<1>. QED
  BY <1>1, <1>3, <1>6, OpensAgrees

\* The end of a command that is matched keeps the agreement: its group and its block end.
LEMMA AgreeEnds ==
  ASSUME Typed, Holds(x, open), Agrees(x, groups, open), open # <<>>, Shuts(x, x', open),
         open' = Front(open), groups' = pop_level(groups)
  PROVE  Agrees(x', groups', open')
BY ShutsAgrees DEF Typed, pop_level

\* Every step keeps the agreement.
LEMMA AgreeStep ==
  ASSUME Typed, Shape, Agree, [Next]_vars
  PROVE  Agree'
<1>1. CASE UNCHANGED vars
  BY <1>1 DEF vars, Agree, Simple, Without
<1>2. CASE ~UNCHANGED vars
  <2>. USE <1>2
  <2>0. document' = document /\ ~done
    BY DEF Next, vars, Characters, Par, OpenBrace, CloseBrace, T_paras, EndTitle, T_cap_or_note, EndNote, T_listenv, T_item,
           T_listenv_end, begin_box, box_end, UseBox, UserRefstepcounter, T_label, T_ref, AnchorLabel, T_index, Anchor,
           after_main_text, Allowed, MayOpen, Closes
  <2>1. Simple' <=> Simple
    BY <2>0 DEF Simple, Without
  <2>. SUFFICES ASSUME Simple, ~done' PROVE Agrees(x', groups', open')
    BY <2>1 DEF Agree
  <2>2. Polite
    BY DEF Simple, Polite, Without
  <2>3. /\ Holds(x, open) /\ Good(x) /\ open \in Seq(Commands) /\ Levels(groups, open) /\ Nest(x.frames, open)
        /\ Agrees(x, groups, open) /\ NoAnchors(x)
    BY <2>0, <2>2 DEF Shape, Holds, Typed, Agree, Agrees
  <2>4. CASE Characters
    <3>1. x' = add_last_string(leave_v_mode(x)) /\ open' = open /\ groups' = groups
      BY <2>4 DEF Characters
    <3>. QED
      BY <2>3, <3>1, TextFlows, AgreeSame
  <2>5. CASE Par
    <3>1. x' = T_par1(x) /\ open' = open /\ groups' = groups
      BY <2>5 DEF Par
    <3>. QED
      BY <2>3, <3>1, TextFlows, AgreeSame
  <2>6. CASE OpenBrace
    <3>1. x' = x /\ open' = Append(open, "group") /\ groups' = push_level(groups)
      BY <2>6 DEF OpenBrace, MayOpen
    <3>. QED
      BY <2>3, <3>1, GroupBegins
  <2>7. CASE CloseBrace
    <3>1. /\ x' = x /\ open # <<>> /\ Last(open) = "group" /\ open' = Front(open) /\ groups' = Front(groups)
      BY <2>7 DEF CloseBrace, Closes, pop_level
    <3>. QED
      BY <2>3, <3>1, GroupEnds
  <2>8. ASSUME NEW c \in {"section", "subsection"}, NEW y \in {0, 1}, NEW star \in BOOLEAN, T_paras(c, y, star)
        PROVE  Agrees(x', groups', open')
    <3>. DEFINE label == LabelOf(c)
                hs == string_define(groups, label)
    <3>1. ~star /\ open = <<>> /\ open' = Append(open, "title") /\ groups' = push_level(hs)
      BY <2>8 DEF T_paras, MayOpen, Simple, Without
    <3>2. Opens(x, x', "title") /\ Shows(x', Len(x'.frames), label) /\ Shows(x', Top(x'), label)
      BY <2>0, <2>2, <2>8, <3>1, SectionOpens
    <3>3. label \in Seq(Nat)
      BY CountersAre, StepTyped
    <3>4. groups \in Seq(GroupType) /\ groups # <<>> /\ Len(groups) \in Nat \ {0}
      BY <2>3, PushLevel
    <3>. HIDE DEF label
    <3>5. /\ Len(hs) = Len(groups) /\ (\A i \in 1..(Len(groups) - 1) : hs[i] = groups[i])
          /\ hs[Len(groups)].label = label /\ Levels(hs, open)
      BY <2>3, <3>3, <3>4, DefineEffect, LevelsDefine
    <3>. HIDE DEF hs
    <3>6. /\ Len(groups') = Len(hs) + 1 /\ \A i \in 1..Len(hs) : groups'[i] = hs[i]
          /\ groups'[Len(hs) + 1] = hs[Len(hs)]
      BY <2>3, <3>1, <3>5, PushLevel
    <3>7. /\ Len(groups') = Len(groups) + 1 /\ \A i \in 1..(Len(groups) - 1) : groups'[i] = groups[i]
          /\ groups'[Len(groups)].label = label /\ groups'[Len(groups) + 1].label = label
      <4>1. ASSUME NEW i \in 1..(Len(groups) - 1) PROVE groups'[i] = groups[i]
        <5>1. i \in 1..Len(hs)
          BY <3>4, <3>5
        <5>. QED
          BY <3>5, <3>6, <5>1
      <4>2. Len(groups) \in 1..Len(hs)
        BY <3>4, <3>5
      <4>. QED
        BY <3>5, <3>6, <4>1, <4>2
    <3>8. "title" \in Openers
      BY DEF Openers
    <3>. QED
      BY <2>3, <3>1, <3>2, <3>7, <3>8, OpensAgrees
  <2>9. CASE EndTitle
    <3>1. /\ open # <<>> /\ Last(open) = "title" /\ open' = Front(open) /\ x' = WithMode(add_nl(pop(x)), "v")
          /\ groups' = pop_level(groups)
      BY <2>9 DEF EndTitle, Closes, WithMode
    <3>2. Shuts(x, x', open)
      BY <2>3, <3>1, TitleShuts
    <3>. QED
      BY <2>3, <3>1, <3>2, AgreeEnds
  <2>10. CASE T_cap_or_note
    <3>. DEFINE label == LabelOf("footnote")
                ps == push_level(groups)
    <3>1. open' = Append(open, "footnote") /\ groups' = string_define(ps, label)
      BY <2>10 DEF T_cap_or_note, MayOpen, refstepcounter
    <3>2. Opens(x, x', "footnote") /\ Marks(x', label) /\ SameContext(x, Top(x), x', Len(x'.frames)) /\ "footnote" \in Openers
      BY <2>0, <2>2, <2>3, <2>10, NoteBegins DEF Openers
    <3>3. label \in Seq(Nat)
      BY CountersAre, StepTyped
    <3>. HIDE DEF label
    <3>4. /\ ps \in Seq(GroupType) /\ ps # <<>> /\ Len(ps) = Len(groups) + 1 /\ Len(groups) \in Nat \ {0}
          /\ \A i \in 1..Len(groups) : ps[i] = groups[i]
      BY <2>3, PushLevel
    <3>. HIDE DEF ps
    <3>5. /\ Len(groups') = Len(ps) /\ (\A i \in 1..(Len(ps) - 1) : groups'[i] = ps[i])
          /\ groups'[Len(ps)].label = label
      BY <3>1, <3>3, <3>4, DefineEffect
    <3>6. /\ Len(groups') = Len(groups) + 1 /\ \A i \in 1..Len(groups) : groups'[i] = groups[i]
          /\ groups'[Len(groups) + 1].label = label
      BY <3>4, <3>5
    <3>7. Shows(x', Top(x'), label)
      BY <3>2, MarksShows DEF Opens, Grows
    <3>. QED
      BY <2>3, <3>1, <3>2, <3>6, <3>7, AgreeBegins
  <2>11. CASE EndNote
    <3>1. /\ open # <<>> /\ Last(open) = "footnote" /\ open' = Front(open) /\ groups' = pop_level(groups)
          /\ x' = remove_par_bal_if_ok(pop(leave_h_mode(x)), top_stack(leave_h_mode(x)))
      BY <2>11 DEF EndNote, Closes
    <3>2. Shuts(x, x', open)
      BY <2>3, <3>1, NoteShuts
    <3>. QED
      BY <2>3, <3>1, <3>2, AgreeEnds
  <2>12. CASE T_listenv
    <3>. DEFINE c == IF Depth = 0 THEN "enumi" ELSE "enumii"
    <3>1. /\ open' = Append(open, "list") /\ x' = push1(leave_h_mode(x), "list")
          /\ groups' = ListLevel(groups, c)
      BY <2>12 DEF T_listenv, MayOpen, ListLevel
    <3>2. c \in {"enumi", "enumii"}
      OBVIOUS
    <3>. HIDE DEF c
    <3>3. /\ Opens(x, x', "list") /\ "list" \in Openers
          /\ SameContext(x, Top(x), x', Len(x'.frames)) /\ SameContext(x, Top(x), x', Top(x'))
      BY <2>3, <3>1, ListOpens DEF Openers
    <3>4. /\ Len(groups') = Len(groups) + 1 /\ \A i \in 1..Len(groups) : groups'[i] = groups[i]
          /\ groups'[Len(groups) + 1].label = Last(groups).label
      BY <2>3, <3>1, <3>2, LevelsList
    <3>5. Shows(x', Top(x'), Last(groups).label)
      BY <2>3, <3>3, ShowsKept DEF Agrees, Opens, Grows, Good
    <3>. QED
      BY <2>3, <3>1, <3>3, <3>4, <3>5, AgreeBegins
  <2>13. CASE T_item
    <3>. DEFINE label == LabelOf(Last(groups).list_ctr)
    <3>1. open' = open /\ groups' = string_define(groups, label)
      BY <2>13 DEF T_item, refstepcounter
    <3>2. /\ Goes(x, x') /\ Shows(x', Top(x'), label) /\ label \in Seq(Nat) /\ open # <<>> /\ Last(open) = "list"
      BY <2>0, <2>2, <2>3, <2>13, ItemStarts
    <3>. HIDE DEF label
    <3>. QED
      BY <2>3, <3>1, <3>2, ItemAgrees
  <2>14. CASE T_listenv_end
    <3>1. /\ open # <<>> /\ Last(open) = "list" /\ open' = Front(open) /\ groups' = pop_level(groups)
          /\ x' = add_nl(pop(pop_if_frame(leave_h_mode(x), "item")))
      BY <2>14 DEF T_listenv_end, Closes
    <3>2. Shuts(x, x', open)
      BY <2>3, <3>1, ListShuts
    <3>. QED
      BY <2>3, <3>1, <3>2, AgreeEnds
  <2>15. CASE begin_box
    <3>. DEFINE ps == push_level(groups)
    <3>1. open' = Append(open, "hbox") /\ groups' = ps
      BY <2>15 DEF begin_box, MayOpen
    <3>2. /\ Opens(x, x', "hbox") /\ "hbox" \in Openers
          /\ SameContext(x, Top(x), x', Len(x'.frames)) /\ SameContext(x, Top(x), x', Top(x'))
      BY <2>0, <2>2, <2>15, BoxBegins DEF Openers
    <3>5. /\ Len(ps) = Len(groups) + 1 /\ \A i \in 1..Len(groups) : ps[i] = groups[i]
          /\ ps[Len(groups) + 1] = groups[Len(groups)] /\ Last(groups) = groups[Len(groups)]
      BY <2>3, PushLevel
    <3>. HIDE DEF ps
    <3>3. /\ Len(groups') = Len(groups) + 1 /\ \A i \in 1..Len(groups) : groups'[i] = groups[i]
          /\ groups'[Len(groups) + 1].label = Last(groups).label
      BY <3>1, <3>5
    <3>4. Shows(x', Top(x'), Last(groups).label)
      BY <2>3, <3>2, ShowsKept DEF Agrees, Opens, Grows, Good
    <3>. QED
      BY <2>3, <3>1, <3>2, <3>3, <3>4, AgreeBegins
  <2>16. CASE box_end
    <3>1. open # <<>> /\ Last(open) = "hbox" /\ open' = Front(open) /\ x' = pop(x) /\ groups' = pop_level(groups)
      BY <2>16 DEF box_end, Closes
    <3>2. Shuts(x, x', open)
      BY <2>3, <3>1, BoxShuts
    <3>. QED
      BY <2>3, <3>1, <3>2, AgreeEnds
  <2>17. CASE UseBox
    <3>1. box # 0 /\ open' = open /\ x' = add_last(x, box) /\ groups' = groups
      BY <2>17 DEF UseBox
    <3>2. box \in DOMAIN x.elts /\ x.elts[box].name = NameOf("hbox")
      BY <2>0, <2>2, <3>1 DEF Shape
    <3>3. Flows(x, x')
      BY <2>3, <3>1, <3>2, UseBoxFlows
    <3>. QED
      BY <2>3, <3>1, <3>3, AgreeSame
  <2>18. ASSUME NEW c, NEW star \in BOOLEAN, UserRefstepcounter(c, star) PROVE Agrees(x', groups', open')
    BY <2>18 DEF UserRefstepcounter, Allowed, Simple, Without
  <2>19. ASSUME NEW n, T_label(n) PROVE Agrees(x', groups', open')
    <3>1. x' = x /\ open' = open /\ groups' = groups
      BY <2>19 DEF T_label
    <3>. QED
      BY <2>3, <3>1, AgreeSame
  <2>20. ASSUME NEW n, T_ref(n) PROVE Agrees(x', groups', open')
    <3>1. x' = add_newid0(leave_v_mode(x), "ref") /\ open' = open /\ groups' = groups
      BY <2>20 DEF T_ref
    <3>. QED
      BY <2>3, <3>1, TextFlows, AgreeSame
  <2>21. ASSUME NEW spec \in BOOLEAN, Anchor(spec) \/ \E n : AnchorLabel(n, spec) PROVE Agrees(x', groups', open')
    BY <2>21 DEF Anchor, AnchorLabel, Allowed, Simple, Without
  <2>22. ASSUME NEW w, T_index(w) PROVE Agrees(x', groups', open')
    BY <2>22 DEF T_index, Allowed, Simple, Without
  <2>23. CASE after_main_text
    BY <2>23 DEF after_main_text
  <2>. QED
    BY <2>4, <2>5, <2>6, <2>7, <2>8, <2>9, <2>10, <2>11, <2>12, <2>13, <2>14, <2>15, <2>16, <2>17, <2>18, <2>19,
       <2>20, <2>21, <2>22, <2>23 DEF Next
<1>. QED
  BY <1>1, <1>2

(* When an anchor is in scope, the number at the anchor, which the reader *)
(* sees through \ref, is the value of \@currentlabel.                    *)
THEOREM AnchorsShowLabels == Spec => []AnchorAgreesWithLabel
<1>1. Init => Typed /\ Shape /\ Agree
  BY TypedInit, ShapeInit, AgreeInit
<1>2. Typed /\ Shape /\ Agree /\ [Next /\ Bounded]_vars => (Typed /\ Shape /\ Agree)'
  <2>1. [Next /\ Bounded]_vars => [Next]_vars
    OBVIOUS
  <2>. QED
    BY <2>1, TypedStep, ShapeStep, AgreeStep
<1>3. Typed /\ Shape /\ Agree => AnchorAgreesWithLabel
  <2>. SUFFICES ASSUME Shape, Agree, ~done, HasAnchor, Simple
                PROVE  \E e \in DOMAIN x.elts : x.elts[e].id = x.cur_lid /\ x.elts[e].text = Last(groups).label
    BY DEF AnchorAgreesWithLabel, Simple, Elements
  <2>1. Polite
    BY DEF Simple, Polite, Without
  <2>2. Holds(x, open) /\ Agrees(x, groups, open)
    BY <2>1 DEF Shape, Agree
  <2>3. x \in State /\ Named(x)
    BY <2>2 DEF Holds, Good, Stacked
  <2>4. /\ Len(x.frames) \in Nat /\ DOMAIN x.frames = 1..Len(x.frames)
        /\ DOMAIN x.elts = 1..Len(x.elts) /\ Len(x.elts) \in Nat
        /\ \A e \in DOMAIN x.elts : x.elts[e].sons \in Seq(Int)
    BY <2>3, StateParts
  <2>5. PICK k \in 1..Len(x.frames) : x.elts[x.frames[k].elt].id # NoId
    <3>1. PICK k \in DOMAIN x.frames : Anchored(x, x.frames[k].elt)
      BY DEF HasAnchor
    <3>. DEFINE e == x.frames[k].elt
    <3>2. e \in DOMAIN x.elts
      BY <2>3, <3>1 DEF Named
    <3>5. Anchored(x, e) /\ k \in 1..Len(x.frames)
      BY <2>4, <3>1
    <3>. SUFFICES x.elts[e].id # NoId
      BY <3>5
    <3>. HIDE DEF e
    <3>3. ASSUME NEW j \in DOMAIN Sons(x, e) PROVE ~is_anchor(x, Sons(x, e)[j])
      BY <2>2, <3>2 DEF Holds, Good, Tree, Agrees, NoAnchors, is_anchor, Sons, Text, Newline
    <3>4. AnchorSons(x, e) = {}
      BY <3>3 DEF AnchorSons
    <3>. QED
      BY <3>4, <3>5 DEF Anchored
  <2>6. HasId(x, Top(x))
    BY <2>4, <2>5 DEF HasId, Top
  <2>7. UidAt(x, Top(x)) = x.cur_lid
    BY <2>4 DEF UidAt, Top
  <2>. QED
    BY <2>2, <2>6, <2>7 DEF Agrees, Shows
<1>. QED
  BY <1>1, <1>2, <1>3, PTL DEF Spec

=============================================================================
