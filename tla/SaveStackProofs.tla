-------------------------- MODULE SaveStackProofs ---------------------------
(***************************************************************************)
(* Proofs about SaveStack, for every set of names, values, fonts, kinds of *)
(* group and environments and every bound.                                 *)
(*                                                                         *)
(* The first invariant is the conjunction of the type of the state,        *)
(* LevelIsDepth and LoopMeetsBoundary: the level can only be lowered       *)
(* because the boundary that is popped was counted in it.                  *)
(*                                                                         *)
(* The second is that what is saved of a name is a chain of entries made in *)
(* groups nested in each other, which is what the test of must_push and the *)
(* order of the items are for.  SavedOncePerGroup reads the chain from the *)
(* table downwards and is not inductive as it stands.  Chain says the same *)
(* of consecutive items, for any stack and any level, so that it can be    *)
(* followed through the stack that a destructor changes in the middle of   *)
(* pop_level.  The names of the environments form a chain of the same      *)
(* sort, which T_begin extends.                                            *)
(*                                                                         *)
(* The last part proves that SaveStack implements Scopes.                  *)
(***************************************************************************)
EXTENDS SaveStack, StackLemmas, SequenceTheorems, FiniteSetTheorems, TLAPS

IInv == TypeOK /\ LevelIsDepth /\ LoopMeetsBoundary

-----------------------------------------------------------------------------
\* Lemmas about the stack.

\* The boundaries of a save stack are finitely many positions of the stack.
LEMMA BoundariesFinite ==
  ASSUME NEW s \in Seq(Item)
  PROVE  /\ Boundaries(s) \subseteq 1..Len(s)
         /\ IsFiniteSet(Boundaries(s))
         /\ Cardinality(Boundaries(s)) \in Nat
<1>1. Boundaries(s) \subseteq 1..Len(s)
  BY DEF Boundaries
<1>2. IsFiniteSet(1..Len(s))
  BY FS_Interval
<1>3. IsFiniteSet(Boundaries(s))
  BY <1>1, <1>2, FS_Subset
<1>. QED
  BY <1>1, <1>3, FS_CardinalityType

\* Pushing an item adds one boundary or none (push_save_stack).
LEMMA BoundariesOfAppend ==
  ASSUME NEW s \in Seq(Item), NEW x \in Item
  PROVE  /\ Append(s, x) \in Seq(Item)
         /\ Boundaries(Append(s, x)) =
              IF x.type = "boundary" THEN Boundaries(s) \cup {Len(s) + 1} ELSE Boundaries(s)
         /\ Cardinality(Boundaries(Append(s, x))) =
              Cardinality(Boundaries(s)) + (IF x.type = "boundary" THEN 1 ELSE 0)
<1>1. Append(s, x) \in Seq(Item)
  BY AppendProperties
<1>2. Boundaries(Append(s, x)) =
        IF x.type = "boundary" THEN Boundaries(s) \cup {Len(s) + 1} ELSE Boundaries(s)
  <2>1. DOMAIN Append(s, x) = 1..(Len(s) + 1) /\ DOMAIN s = 1..Len(s)
    BY AppendProperties, LenProperties
  <2>2. \A i \in 1..Len(s) : Append(s, x)[i] = s[i]
    BY AppendProperties
  <2>3. Append(s, x)[Len(s) + 1] = x
    BY AppendProperties
  <2>4. Len(s) \in Nat
    BY LenProperties
  <2>. QED
    BY <2>1, <2>2, <2>3, <2>4 DEF Boundaries
<1>3. Len(s) + 1 \notin Boundaries(s)
  BY BoundariesFinite, LenProperties
<1>4. Cardinality(Boundaries(s) \cup {Len(s) + 1}) = Cardinality(Boundaries(s)) + 1
  BY <1>3, BoundariesFinite, FS_AddElement
<1>. QED
  BY <1>1, <1>2, <1>4, BoundariesFinite

\* Popping the top item removes one boundary or none (the loop of pop_level).
LEMMA BoundariesOfFront ==
  ASSUME NEW s \in Seq(Item), s # <<>>
  PROVE  /\ Front(s) \in Seq(Item)
         /\ Last(s) \in Item
         /\ Boundaries(Front(s)) = Boundaries(s) \ {Len(s)}
         /\ Len(s) \in Boundaries(s) <=> Last(s).type = "boundary"
         /\ Cardinality(Boundaries(Front(s))) =
              Cardinality(Boundaries(s)) - (IF Last(s).type = "boundary" THEN 1 ELSE 0)
<1>1. Len(s) \in Nat \ {0} /\ DOMAIN s = 1..Len(s)
  BY EmptySeq, LenProperties
<1>2. /\ Front(s) \in Seq(Item)
      /\ DOMAIN Front(s) = 1..(Len(s) - 1)
      /\ \A i \in 1..(Len(s) - 1) : Front(s)[i] = s[i]
  <2>1. \A i \in 1..(Len(s) - 1) : s[i] \in Item
    BY <1>1, ElementOfSeq
  <2>2. /\ Front(s) \in Seq(Item)
        /\ Len(Front(s)) = Len(s) - 1
        /\ \A i \in 1..(Len(s) - 1) : Front(s)[i] = s[i]
    BY <1>1, <2>1, SubSeqProperties DEF Front
  <2>. QED
    BY <2>2, LenProperties
<1>3. Last(s) \in Item
  BY <1>1, ElementOfSeq DEF Last
<1>4. Boundaries(Front(s)) = Boundaries(s) \ {Len(s)}
  BY <1>1, <1>2 DEF Boundaries
<1>5. Len(s) \in Boundaries(s) <=> Last(s).type = "boundary"
  BY <1>1 DEF Boundaries, Last
<1>6. Cardinality(Boundaries(s) \ {Len(s)}) =
        Cardinality(Boundaries(s)) - (IF Len(s) \in Boundaries(s) THEN 1 ELSE 0)
  <2>1. IsFiniteSet(Boundaries(s)) /\ Cardinality(Boundaries(s)) \in Nat
    BY BoundariesFinite
  <2>2. Cardinality(Boundaries(s) \ {Len(s)}) =
          IF Len(s) \in Boundaries(s) THEN Cardinality(Boundaries(s)) - 1
          ELSE Cardinality(Boundaries(s))
    BY <2>1, FS_RemoveElement
  <2>. QED
    BY <2>1, <2>2
<1>. QED
  BY <1>2, <1>3, <1>4, <1>5, <1>6

\* What the loop of pop_level takes from the stack is an item; a boundary
\* that is there is counted.
LEMMA BoundaryCounted ==
  ASSUME NEW s \in Seq(Item)
  PROVE  Boundaries(s) # {} => Cardinality(Boundaries(s)) >= 1
<1>1. IsFiniteSet(Boundaries(s)) /\ Cardinality(Boundaries(s)) \in Nat
  BY BoundariesFinite
<1>2. Cardinality(Boundaries(s)) = 0 <=> Boundaries(s) = {}
  BY <1>1, FS_EmptySet
<1>. QED
  BY <1>1, <1>2

\* An assignment adds an item that is not a boundary, or none.
LEMMA PushedStack ==
  ASSUME NEW s \in Seq(Item), NEW table \in [Keys -> [val : Values, level : Nat]],
         NEW k \in Keys, NEW l \in Nat
  PROVE  /\ Pushed(s, table, k, l) \in Seq(Item)
         /\ Boundaries(Pushed(s, table, k, l)) = Boundaries(s)
<1>1. SavedValue(k, table[k]) \in Item /\ SavedValue(k, table[k]).type = "value"
  BY DEF SavedValue, Item
<1>. QED
  BY <1>1, BoundariesOfAppend DEF Pushed

\* A box that goes to its destination changes the tables only as assignments do.
LEMMA BoxedState ==
  ASSUME NEW s \in Seq(Item), NEW table \in [Keys -> [val : Values, level : Nat]],
         NEW dest \in Dests, NEW c \in Values, NEW l \in Nat
  PROVE  /\ BoxedTable(table, dest, c, l) \in [Keys -> [val : Values, level : Nat]]
         /\ BoxedStack(s, table, dest, l) \in Seq(Item)
         /\ Boundaries(BoxedStack(s, table, dest, l)) = Boundaries(s)
<1>1. CASE dest.to = "tree"
  BY <1>1 DEF BoxedTable, BoxedStack, OutsideTable
<1>2. CASE dest.to # "tree"
  <2>1. dest.pos \in Keys /\ dest.global \in BOOLEAN
    BY <1>2 DEF Dests, Keys
  <2>2. BoxedTable(table, dest, c, l) \in [Keys -> [val : Values, level : Nat]]
    BY <2>1 DEF BoxedTable, Defined
  <2>. QED
    BY <2>1, <2>2, PushedStack DEF BoxedStack
<1>. QED
  BY <1>1, <1>2

\* Front and Last of a stack in the loop of pop_level, by kind of item.
LEMMA PoppedItem ==
  ASSUME TypeOK, NEW type, PopItem(type)
  PROVE  /\ saveStack # <<>>
         /\ saveStack' \in Seq(Item)
         /\ Last(saveStack) \in Item
         /\ type # "boundary" => Cardinality(Boundaries(saveStack')) = Cardinality(Boundaries(saveStack))
         /\ type # "boundary" => Boundaries(saveStack') = Boundaries(saveStack)
<1>1. saveStack \in Seq(Item) /\ saveStack # <<>> /\ saveStack' = Front(saveStack)
  BY DEF TypeOK, PopItem
<1>2. Last(saveStack).type = type
  BY DEF PopItem
<1>3. type # "boundary" => Boundaries(saveStack') = Boundaries(saveStack)
  BY <1>1, <1>2, BoundariesOfFront
<1>. QED
  BY <1>1, <1>3, BoundariesOfFront

-----------------------------------------------------------------------------
\* The invariant holds at the start.
LEMMA InitIInv == Init => IInv
<1>. SUFFICES ASSUME Init PROVE IInv
  OBVIOUS
<1>1. TypeOK
  <2>1. eqtb \in [Keys -> [val : Values, level : Nat]]
    BY DEF Init, Values, InitialValue
  <2>2. cur_font \in [packed : FontSettings, level : Nat]
    BY DEF Init, FontSettings
  <2>3. saveStack \in Seq(Item) /\ TL \in Seq(InputToken)
    BY EmptySeq DEF Init
  <2>4. cur_env_name \in EnvNames
    BY DEF Init, EnvNames
  <2>. QED
    BY <2>1, <2>2, <2>3, <2>4 DEF Init, TypeOK
<1>2. Boundaries(saveStack) = {}
  BY DEF Init, Boundaries
<1>3. LevelIsDepth
  BY <1>2, FS_EmptySet DEF Init, LevelIsDepth
<1>4. LoopMeetsBoundary
  BY DEF Init, LoopMeetsBoundary
<1>. QED
  BY <1>1, <1>3, <1>4 DEF IInv

-----------------------------------------------------------------------------
\* The invariant is preserved by every action.  The actions that push items
\* come first, then the start of pop_level, then the turns of its loop.

\* Assignments to registers and to commands.
LEMMA AssignmentsIInv ==
  ASSUME IInv, NEW c \in Values, NEW gbl \in BOOLEAN
  PROVE  /\ \A k \in WordKeys : word_define(k, c, gbl) => IInv'
         /\ \A k \in CmdKeys : eq_define(k, c, gbl) => IInv'
<1>. USE DEF IInv, TypeOK
<1>1. WordKeys \subseteq Keys /\ CmdKeys \subseteq Keys
  BY DEF Keys
<1>2. ASSUME NEW k \in Keys, NEW l \in Nat
      PROVE  Defined(eqtb, k, c, l) \in [Keys -> [val : Values, level : Nat]]
  BY <1>1 DEF Defined
<1>3. ASSUME NEW k \in WordKeys, word_define(k, c, gbl) PROVE IInv'
  <2>1. saveStack' \in Seq(Item) /\ Boundaries(saveStack') = Boundaries(saveStack)
    BY <1>1, <1>3, PushedStack DEF word_define
  <2>2. /\ Defined(eqtb, k, c, 1) \in [Keys -> [val : Values, level : Nat]]
        /\ Defined(eqtb, k, c, cur_level) \in [Keys -> [val : Values, level : Nat]]
    BY <1>1, <1>2
  <2>3. eqtb' \in [Keys -> [val : Values, level : Nat]]
    BY <1>3, <2>2 DEF word_define
  <2>. QED
    BY <1>3, <2>1, <2>3 DEF word_define, LevelIsDepth, LoopMeetsBoundary
<1>4. ASSUME NEW k \in CmdKeys, eq_define(k, c, gbl) PROVE IInv'
  <2>1. saveStack' \in Seq(Item) /\ Boundaries(saveStack') = Boundaries(saveStack)
    BY <1>1, <1>4, PushedStack DEF eq_define
  <2>2. eqtb' \in [Keys -> [val : Values, level : Nat]]
    BY <1>1, <1>2, <1>4 DEF eq_define
  <2>. QED
    BY <1>4, <2>1, <2>2 DEF eq_define, LevelIsDepth, LoopMeetsBoundary
<1>. QED
  BY <1>3, <1>4

\* \box and \copy, with or without \setbox.
LEMMA BoxCommandsIInv ==
  ASSUME IInv, NEW k \in BoxKeys, NEW dest \in Dests, NEW copy \in BOOLEAN,
         begin_box(k, dest, copy)
  PROVE  IInv'
<1>. USE DEF IInv, TypeOK
<1>. DEFINE emptied == IF copy THEN eqtb ELSE [eqtb EXCEPT ![k].val = Null]
<1>1. k \in Keys /\ Null \in Values
  BY DEF Keys, Values
<1>2. emptied \in [Keys -> [val : Values, level : Nat]]
  BY <1>1
<1>3. eqtb[k].val \in Values
  BY <1>1
<1>4. /\ saveStack' = BoxedStack(saveStack, emptied, dest, cur_level)
      /\ eqtb' = BoxedTable(emptied, dest, eqtb[k].val, cur_level)
  BY DEF begin_box
<1>. HIDE DEF emptied
<1>5. /\ saveStack' \in Seq(Item)
      /\ Boundaries(saveStack') = Boundaries(saveStack)
      /\ eqtb' \in [Keys -> [val : Values, level : Nat]]
  BY <1>2, <1>3, <1>4, BoxedState
<1>. QED
  BY <1>5 DEF begin_box, LevelIsDepth, LoopMeetsBoundary

\* Font commands and \aftergroup.
LEMMA FontAndAftergroupIInv ==
  ASSUME IInv
  PROVE  /\ \A f \in Fonts : font_has_changed(f) => IInv'
         /\ \A t \in Tokens : T_aftergroup(t) => IInv'
<1>. USE DEF IInv, TypeOK
<1>1. ASSUME NEW f \in Fonts, font_has_changed(f) PROVE IInv'
  <2>1. SavedFont(cur_font) \in Item /\ SavedFont(cur_font).type = "font"
    BY DEF SavedFont, Item
  <2>2. saveStack' \in Seq(Item) /\ Boundaries(saveStack') = Boundaries(saveStack)
    BY <1>1, <2>1, BoundariesOfAppend DEF font_has_changed
  <2>3. cur_font' \in [packed : FontSettings, level : Nat]
    BY <1>1 DEF font_has_changed, FontSettings
  <2>. QED
    BY <1>1, <2>2, <2>3 DEF font_has_changed, LevelIsDepth, LoopMeetsBoundary
<1>2. ASSUME NEW t \in Tokens, T_aftergroup(t) PROVE IInv'
  <2>1. Aftergroup(t) \in Item /\ Aftergroup(t).type = "save"
    BY DEF Aftergroup, Item
  <2>2. saveStack' \in Seq(Item) /\ Boundaries(saveStack') = Boundaries(saveStack)
    BY <1>2, <2>1, BoundariesOfAppend DEF T_aftergroup
  <2>. QED
    BY <1>2, <2>2 DEF T_aftergroup, LevelIsDepth, LoopMeetsBoundary
<1>. QED
  BY <1>1, <1>2

\* Opening a group counts one boundary more, whatever is pushed above it.
LEMMA OpeningIInv ==
  ASSUME IInv
  PROVE  /\ \A v \in GroupKinds : push_level(v) => IInv'
         /\ \A s \in Envs : T_begin(s) => IInv'
         /\ \A dest \in Dests, v \in Vals : begin_hbox(dest, v) => IInv'
<1>. USE DEF IInv, TypeOK
<1>1. ASSUME NEW v \in Kinds
      PROVE  /\ Boundary(v) \in Item
             /\ Append(saveStack, Boundary(v)) \in Seq(Item)
             /\ Cardinality(Boundaries(Append(saveStack, Boundary(v)))) =
                  Cardinality(Boundaries(saveStack)) + 1
             /\ Boundaries(Append(saveStack, Boundary(v))) # {}
  <2>1. Boundary(v) \in Item /\ Boundary(v).type = "boundary"
    BY DEF Boundary, Item
  <2>. QED
    BY <2>1, BoundariesOfAppend
<1>2. ASSUME NEW v \in Kinds, NEW x \in Item, x.type # "boundary"
      PROVE  LET stack == Append(Append(saveStack, Boundary(v)), x)
             IN  /\ stack \in Seq(Item)
                 /\ Cardinality(Boundaries(stack)) = Cardinality(Boundaries(saveStack)) + 1
                 /\ Boundaries(stack) # {}
  BY <1>1, <1>2, BoundariesOfAppend
<1>3. GroupKinds \subseteq Kinds /\ "env" \in Kinds /\ "brace" \in Kinds
  BY NamesAssumption DEF Kinds
<1>4. Cardinality(Boundaries(saveStack)) \in Nat
  BY BoundariesFinite
<1>5. ASSUME NEW v \in GroupKinds, push_level(v) PROVE IInv'
  BY <1>1, <1>3, <1>4, <1>5 DEF push_level, LevelIsDepth, LoopMeetsBoundary
<1>6. ASSUME NEW s \in Envs, T_begin(s) PROVE IInv'
  <2>1. SavedEnv(cur_env_name, s) \in Item /\ SavedEnv(cur_env_name, s).type # "boundary"
    BY DEF SavedEnv, Item
  <2>2. s \in EnvNames
    BY DEF EnvNames
  <2>. QED
    BY <1>2, <1>3, <1>4, <1>6, <2>1, <2>2 DEF T_begin, LevelIsDepth, LoopMeetsBoundary
<1>7. ASSUME NEW dest \in Dests, NEW v \in Vals, begin_hbox(dest, v) PROVE IInv'
  <2>1. [dest |-> dest, val |-> v] \in Boxes
    BY DEF Boxes, Values
  <2>2. /\ BoxEnd([dest |-> dest, val |-> v]) \in Item
        /\ BoxEnd([dest |-> dest, val |-> v]).type # "boundary"
    BY <2>1 DEF BoxEnd, Item
  <2>. QED
    BY <1>2, <1>3, <1>4, <1>7, <2>2 DEF begin_hbox, LevelIsDepth, LoopMeetsBoundary
<1>. QED
  BY <1>5, <1>6, <1>7

\* pop_level and the commands that call it enter the loop only above a boundary.
LEMMA ClosingIInv ==
  ASSUME IInv
  PROVE  /\ \A v \in Kinds : ~popping /\ T_close(v) => IInv'
         /\ ~popping /\ sendgroup => IInv'
         /\ \A s \in Envs : T_end(s) => IInv'
         /\ ReadToken => IInv'
<1>. USE DEF IInv, TypeOK
<1>1. ASSUME NEW v, pop_level(v), ~popping
      PROVE  /\ popping' \in BOOLEAN
             /\ LevelIsDepth'
             /\ LoopMeetsBoundary'
  <2>1. popping' \in BOOLEAN /\ (popping' => Boundaries(saveStack) # {})
    BY <1>1 DEF pop_level, first_boundary
  <2>2. theBox = NoBox
    BY <1>1 DEF LoopMeetsBoundary
  <2>. QED
    BY <1>1, <2>1, <2>2 DEF pop_level, LevelIsDepth, LoopMeetsBoundary
<1>2. ASSUME NEW v \in Kinds, ~popping, T_close(v) PROVE IInv'
  BY <1>1, <1>2 DEF T_close, pop_level
<1>3. ASSUME TL # <<>> PROVE Tail(TL) \in Seq(InputToken)
  BY <1>3, HeadTailProperties
<1>4. ASSUME ~popping, sendgroup PROVE IInv'
  BY <1>1, <1>3, <1>4 DEF sendgroup, pop_level
<1>5. ASSUME NEW s \in Envs, T_end(s) PROVE IInv'
  <2>1. <<<<"sendgroup", s>>>> \in Seq(InputToken)
    BY DEF InputToken
  <2>2. TL' \in Seq(InputToken)
    BY <1>5, <2>1, ConcatProperties DEF T_end
  <2>. QED
    BY <1>5, <2>2 DEF T_end, LevelIsDepth, LoopMeetsBoundary
<1>6. ASSUME ReadToken PROVE IInv'
  BY <1>3, <1>6 DEF ReadToken, LevelIsDepth, LoopMeetsBoundary
<1>. QED
  BY <1>2, <1>4, <1>5, <1>6

\* The turns of the loop of pop_level.
LEMMA PopIInv ==
  ASSUME IInv, Pop
  PROVE  IInv'
<1>. USE DEF IInv
<1>0. ASSUME NEW type, PopItem(type), type # "boundary"
      PROVE  /\ Last(saveStack) \in Item /\ Last(saveStack).type = type
             /\ saveStack' \in Seq(Item)
             /\ Boundaries(saveStack') = Boundaries(saveStack)
  BY <1>0, PoppedItem DEF PopItem
<1>. USE DEF TypeOK
<1>1. CASE PopValue
  <2>1. PopItem("value")
    BY <1>1 DEF PopValue
  <2>2. /\ Last(saveStack) \in Item /\ Last(saveStack).type = "value"
        /\ saveStack' \in Seq(Item)
        /\ Boundaries(saveStack') = Boundaries(saveStack)
    BY <2>1, <1>0
  <2>3. /\ Last(saveStack).pos \in Keys
        /\ Last(saveStack).val \in Values
        /\ Last(saveStack).level \in Nat
    BY <2>2 DEF Item
  <2>4. eqtb' \in [Keys -> [val : Values, level : Nat]]
    BY <1>1, <2>3 DEF PopValue, Defined
  <2>. QED
    BY <1>1, <2>1, <2>2, <2>4 DEF PopValue, LevelIsDepth, LoopMeetsBoundary
<1>2. CASE PopEnv
  <2>1. PopItem("env")
    BY <1>2 DEF PopEnv
  <2>2. /\ Last(saveStack) \in Item /\ Last(saveStack).type = "env"
        /\ saveStack' \in Seq(Item)
        /\ Boundaries(saveStack') = Boundaries(saveStack)
    BY <2>1, <1>0
  <2>3. Last(saveStack).oldname \in EnvNames
    BY <2>2 DEF Item
  <2>. QED
    BY <1>2, <2>1, <2>2, <2>3 DEF PopEnv, LevelIsDepth, LoopMeetsBoundary
<1>3. CASE PopFont
  <2>1. PopItem("font")
    BY <1>3 DEF PopFont
  <2>2. /\ Last(saveStack) \in Item /\ Last(saveStack).type = "font"
        /\ saveStack' \in Seq(Item)
        /\ Boundaries(saveStack') = Boundaries(saveStack)
    BY <2>1, <1>0
  <2>3. Last(saveStack).val \in FontSettings /\ Last(saveStack).level \in Nat
    BY <2>2 DEF Item
  <2>. QED
    BY <1>3, <2>1, <2>2, <2>3 DEF PopFont, LevelIsDepth, LoopMeetsBoundary
<1>4. CASE PopBoxEnd
  <2>1. PopItem("box_end") /\ popping
    BY <1>4 DEF PopBoxEnd, PopItem
  <2>2. /\ Last(saveStack) \in Item /\ Last(saveStack).type = "box_end"
        /\ saveStack' \in Seq(Item)
        /\ Boundaries(saveStack') = Boundaries(saveStack)
    BY <2>1, <1>0
  <2>3. Last(saveStack).box \in Boxes
    BY <2>2 DEF Item
  <2>. QED
    BY <1>4, <2>1, <2>2, <2>3 DEF PopBoxEnd, LevelIsDepth, LoopMeetsBoundary
<1>5. CASE PopAftergroup
  <2>1. PopItem("save")
    BY <1>5 DEF PopAftergroup
  <2>2. /\ Last(saveStack) \in Item /\ Last(saveStack).type = "save"
        /\ saveStack' \in Seq(Item)
        /\ Boundaries(saveStack') = Boundaries(saveStack)
    BY <2>1, <1>0
  <2>3. Last(saveStack).val \in Tokens
    BY <2>2 DEF Item
  <2>4. <<<<"plain", Last(saveStack).val>>>> \in Seq(InputToken)
    BY <2>3 DEF InputToken
  <2>5. TL' \in Seq(InputToken)
    BY <1>5, <2>4, ConcatProperties DEF PopAftergroup
  <2>. QED
    BY <1>5, <2>1, <2>2, <2>5 DEF PopAftergroup, LevelIsDepth, LoopMeetsBoundary
<1>6. CASE PopBoundary
  <2>1. saveStack \in Seq(Item) /\ saveStack # <<>> /\ Last(saveStack).type = "boundary"
    BY <1>6 DEF PopBoundary
  <2>2. /\ Front(saveStack) \in Seq(Item)
        /\ Cardinality(Boundaries(Front(saveStack))) = Cardinality(Boundaries(saveStack)) - 1
    BY <2>1, BoundariesOfFront
  <2>3. Cardinality(Boundaries(saveStack)) \in Nat /\ Cardinality(Boundaries(Front(saveStack))) \in Nat
    BY <2>1, <2>2, BoundariesFinite
  <2>4. cur_level' = 1 + Cardinality(Boundaries(Front(saveStack))) /\ cur_level' \in Nat
    BY <1>6, <2>2, <2>3 DEF PopBoundary, LevelIsDepth
  <2>5. /\ saveStack' \in Seq(Item)
        /\ Boundaries(saveStack') = Boundaries(Front(saveStack))
        /\ eqtb' \in [Keys -> [val : Values, level : Nat]]
    <3>1. CASE theBox = NoBox
      BY <1>6, <2>2, <3>1 DEF PopBoundary
    <3>2. CASE theBox # NoBox
      <4>1. theBox.dest \in Dests /\ theBox.val \in Values
        BY <3>2 DEF Boxes
      <4>2. /\ saveStack' = BoxedStack(Front(saveStack), eqtb, theBox.dest, cur_level')
            /\ eqtb' = BoxedTable(eqtb, theBox.dest, theBox.val, cur_level')
        BY <1>6, <3>2 DEF PopBoundary
      <4>. HIDE DEF TypeOK
      <4>3. eqtb \in [Keys -> [val : Values, level : Nat]]
        BY DEF TypeOK
      <4>. QED
        BY <2>2, <2>4, <4>1, <4>2, <4>3, BoxedState
    <3>. QED
      BY <3>1, <3>2
  <2>. QED
    BY <1>6, <2>4, <2>5 DEF PopBoundary, LevelIsDepth, LoopMeetsBoundary
<1>. QED
  BY <1>1, <1>2, <1>3, <1>4, <1>5, <1>6 DEF Pop

\* Every step preserves the invariant.
LEMMA NextIInv == IInv /\ [Next]_vars => IInv'
<1>. SUFFICES ASSUME IInv, [Next]_vars PROVE IInv'
  OBVIOUS
<1>1. CASE UNCHANGED vars
  BY <1>1 DEF vars, IInv, TypeOK, LevelIsDepth, LoopMeetsBoundary
<1>2. CASE ~popping /\ Command
  <2>1. GroupKinds \subseteq Kinds /\ Vals \subseteq Values
    BY DEF Kinds, Values
  <2>. QED
    BY <1>2, <2>1, AssignmentsIInv, BoxCommandsIInv, FontAndAftergroupIInv,
       OpeningIInv, ClosingIInv DEF Command
<1>3. CASE Pop
  BY <1>3, PopIInv
<1>. QED
  BY <1>1, <1>2, <1>3 DEF Next

\* The invariant.
THEOREM SpecIInv == Spec => []IInv
  BY InitIInv, NextIInv, PTL DEF Spec

-----------------------------------------------------------------------------
\* The state of the parser always has its type: no destructor, run in the
\* middle of pop_level, puts anything else in a table or on the stack.
THEOREM TypeCorrect == Spec => []TypeOK
<1>1. IInv => TypeOK
  BY DEF IInv
<1>. QED
  BY <1>1, SpecIInv, PTL

\* cur_level counts the open groups, however groups, boxes, environments and
\* assignments are nested.
THEOREM LevelCountsGroups == Spec => []LevelIsDepth
<1>1. IInv => LevelIsDepth
  BY DEF IInv
<1>. QED
  BY <1>1, SpecIInv, PTL

\* The error "Internal error: empty save stack" is never reported.
THEOREM LoopIsNeverEmpty == Spec => []LoopMeetsBoundary
<1>1. IInv => LoopMeetsBoundary
  BY DEF IInv
<1>. QED
  BY <1>1, SpecIInv, PTL

-----------------------------------------------------------------------------
\* The chain of the entries of a name.

ItemsOf(s, k) == { i \in DOMAIN s : s[i].type = "value" /\ s[i].pos = k }
GroupIn(s, i) == Cardinality({ b \in Boundaries(s) : b <= i })
\* The items above the last one that restores a global entry, and this one.
LiveIn(s, k) == { i \in ItemsOf(s, k) : \A h \in ItemsOf(s, k) : h > i => s[h].level # 1 }

\* j is the next item of k above i.
NextItem(s, k, i, j) == i < j /\ \A h \in ItemsOf(s, k) : h <= i \/ j <= h

\* The entry of k was made at level e, and l is the level of the parser.
Chain(s, k, e, l) ==
  /\ e <= l
  /\ e # 1 =>
       /\ ItemsOf(s, k) = {} => e = 0
       /\ \A i \in ItemsOf(s, k) : (\A j \in ItemsOf(s, k) : j <= i) => e = 1 + GroupIn(s, i)
       /\ \A i \in LiveIn(s, k) :
            /\ s[i].level < 1 + GroupIn(s, i)
            /\ (\A j \in LiveIn(s, k) : i <= j) => s[i].level \in {0, 1}
            /\ \A j \in LiveIn(s, k) : NextItem(s, k, i, j) => s[j].level = 1 + GroupIn(s, i)

Table == [Keys -> [val : Values, level : Nat]]

\* Every name has its chain, in this stack and table.
ChainedIn(s, table, l) == \A k \in Keys : Chain(s, k, table[k].level, l)
Chained == ChainedIn(saveStack, eqtb, cur_level)

-----------------------------------------------------------------------------
\* Lemmas about the items of one name.

\* The groups around a position are counted by a natural number.
LEMMA GroupType ==
  ASSUME NEW s \in Seq(Item), NEW i
  PROVE  GroupIn(s, i) \in Nat /\ GroupIn(s, i) <= Cardinality(Boundaries(s))
BY BoundariesFinite, FS_Subset, FS_CardinalityType DEF GroupIn

\* Pushing adds at most one item of k, at the top, and changes nothing below.
LEMMA PositionsOfAppend ==
  ASSUME NEW s \in Seq(Item), NEW x \in Item, NEW k
  PROVE  /\ ItemsOf(Append(s, x), k) =
              IF x.type = "value" /\ x.pos = k THEN ItemsOf(s, k) \cup {Len(s) + 1}
              ELSE ItemsOf(s, k)
         /\ ItemsOf(s, k) \subseteq 1..Len(s)
         /\ \A i \in 1..Len(s) : Append(s, x)[i] = s[i] /\ GroupIn(Append(s, x), i) = GroupIn(s, i)
         /\ GroupIn(Append(s, x), Len(s) + 1) = Cardinality(Boundaries(Append(s, x)))
<1>1. /\ Append(s, x) \in Seq(Item)
      /\ Len(s) \in Nat /\ DOMAIN s = 1..Len(s)
      /\ DOMAIN Append(s, x) = 1..(Len(s) + 1)
      /\ \A i \in 1..Len(s) : Append(s, x)[i] = s[i]
      /\ Append(s, x)[Len(s) + 1] = x
  BY PushedAt
<1>2. /\ ItemsOf(s, k) \subseteq 1..Len(s)
      /\ ItemsOf(Append(s, x), k) =
           IF x.type = "value" /\ x.pos = k THEN ItemsOf(s, k) \cup {Len(s) + 1}
           ELSE ItemsOf(s, k)
  BY <1>1 DEF ItemsOf
<1>3. ASSUME NEW i \in 1..Len(s)
      PROVE  { b \in Boundaries(Append(s, x)) : b <= i } = { b \in Boundaries(s) : b <= i }
  BY <1>1 DEF Boundaries
<1>4. { b \in Boundaries(Append(s, x)) : b <= Len(s) + 1 } = Boundaries(Append(s, x))
  BY <1>1 DEF Boundaries
<1>. QED
  BY <1>1, <1>2, <1>3, <1>4 DEF GroupIn

\* Popping removes at most one item of k, the top one.
LEMMA PositionsOfFront ==
  ASSUME NEW s \in Seq(Item), s # <<>>, NEW k
  PROVE  /\ ItemsOf(Front(s), k) =
              IF Last(s).type = "value" /\ Last(s).pos = k THEN ItemsOf(s, k) \ {Len(s)}
              ELSE ItemsOf(s, k)
         /\ ItemsOf(s, k) \subseteq 1..Len(s)
         /\ Len(s) \in ItemsOf(s, k) <=> Last(s).type = "value" /\ Last(s).pos = k
         /\ \A i \in 1..(Len(s) - 1) : Front(s)[i] = s[i] /\ GroupIn(Front(s), i) = GroupIn(s, i)
<1>1. /\ Front(s) \in Seq(Item)
      /\ Len(s) \in Nat \ {0} /\ DOMAIN s = 1..Len(s)
      /\ DOMAIN Front(s) = 1..(Len(s) - 1)
      /\ \A i \in 1..(Len(s) - 1) : Front(s)[i] = s[i]
      /\ Last(s) = s[Len(s)]
  BY PoppedAt
<1>2. /\ ItemsOf(s, k) \subseteq 1..Len(s)
      /\ Len(s) \in ItemsOf(s, k) <=> Last(s).type = "value" /\ Last(s).pos = k
      /\ ItemsOf(Front(s), k) = ItemsOf(s, k) \ {Len(s)}
  BY <1>1 DEF ItemsOf
<1>3. ASSUME NEW i \in 1..(Len(s) - 1)
      PROVE  { b \in Boundaries(Front(s)) : b <= i } = { b \in Boundaries(s) : b <= i }
  BY <1>1 DEF Boundaries
<1>. QED
  BY <1>1, <1>2, <1>3 DEF GroupIn

\* The chain of k only depends on the items of k and the groups around them.
LEMMA ChainKept ==
  ASSUME NEW s, NEW s2, NEW k, NEW e, NEW l, NEW l2,
         Chain(s, k, e, l), e <= l2,
         ItemsOf(s2, k) = ItemsOf(s, k),
         \A i \in ItemsOf(s, k) : s2[i] = s[i] /\ GroupIn(s2, i) = GroupIn(s, i)
  PROVE  Chain(s2, k, e, l2)
<1>1. LiveIn(s2, k) = LiveIn(s, k) /\ LiveIn(s, k) \subseteq ItemsOf(s, k)
  BY DEF LiveIn
<1>2. \A i, j : NextItem(s2, k, i, j) <=> NextItem(s, k, i, j)
  BY DEF NextItem
<1>. QED
  BY <1>1, <1>2 DEF Chain

\* An assignment at level l saves the entry it hides when it was made at
\* another level.
LEMMA ChainPushed ==
  ASSUME NEW s \in Seq(Item), NEW table \in Table, NEW k \in Keys,
         NEW l \in Nat, l = 1 + Cardinality(Boundaries(s)),
         Chain(s, k, table[k].level, l)
  PROVE  Chain(Pushed(s, table, k, l), k, l, l)
<1>. DEFINE e == table[k].level
            x == SavedValue(k, table[k])
            s2 == Append(s, x)
            n == Len(s) + 1
<1>1. e \in Nat /\ x \in Item /\ x.type = "value" /\ x.pos = k /\ x.level = e
  BY DEF Table, SavedValue, Item
<1>0. Cardinality(Boundaries(s)) \in Nat
  BY BoundariesFinite
<1>2. CASE ~must_push(e, l)
  <2>1. l = e \/ l = 1
    BY <1>0, <1>2, <1>1 DEF must_push
  <2>2. Pushed(s, table, k, l) = s
    BY <1>2 DEF Pushed
  <2>. QED
    BY <2>1, <2>2 DEF Chain
<1>3. CASE must_push(e, l)
  <2>1. Pushed(s, table, k, l) = s2 /\ e # l /\ l > 1
    BY <1>3 DEF must_push, Pushed
  <2>2. /\ s2 \in Seq(Item) /\ n \in Nat /\ s2[n] = x
        /\ Boundaries(s2) = Boundaries(s)
    BY <1>1, PushedAt, BoundariesOfAppend
  <2>3. /\ ItemsOf(s2, k) = ItemsOf(s, k) \cup {n}
        /\ \A i \in ItemsOf(s, k) : i \in Nat /\ i < n /\ s2[i] = s[i] /\ GroupIn(s2, i) = GroupIn(s, i)
        /\ GroupIn(s2, n) = l - 1
    <3>1. /\ ItemsOf(s2, k) = ItemsOf(s, k) \cup {n}
          /\ ItemsOf(s, k) \subseteq 1..Len(s)
          /\ \A i \in 1..Len(s) : s2[i] = s[i] /\ GroupIn(s2, i) = GroupIn(s, i)
          /\ GroupIn(s2, n) = Cardinality(Boundaries(s2))
      BY <1>1, PositionsOfAppend
    <3>2. Len(s) \in Nat
      BY LenProperties
    <3>. QED
      BY <1>0, <2>2, <3>1, <3>2
  <2>. HIDE DEF s2, n, x, e
  <2>4. n \in LiveIn(s2, k)
    BY <2>2, <2>3 DEF LiveIn
  <2>5. \A i \in LiveIn(s2, k) : i # n => e # 1 /\ i \in LiveIn(s, k)
    BY <1>1, <2>2, <2>3 DEF LiveIn
  <2>6. e # 1 => LiveIn(s2, k) = LiveIn(s, k) \cup {n}
    BY <1>1, <2>2, <2>3, <2>4, <2>5 DEF LiveIn
  <2>7. e < l
    BY <1>1, <2>1 DEF Chain, e
  <2>8. \A i \in ItemsOf(s2, k) : (\A j \in ItemsOf(s2, k) : j <= i) => l = 1 + GroupIn(s2, i)
    <3>. SUFFICES ASSUME NEW i \in ItemsOf(s2, k), \A j \in ItemsOf(s2, k) : j <= i
                  PROVE  l = 1 + GroupIn(s2, i)
      OBVIOUS
    <3>1. i = n
      BY <2>2, <2>3
    <3>. QED
      BY <2>3, <3>1
  <2>9. \A i \in LiveIn(s2, k) : s2[i].level < 1 + GroupIn(s2, i)
    <3>. TAKE i \in LiveIn(s2, k)
    <3>1. CASE i = n
      BY <1>1, <2>2, <2>3, <2>7, <3>1
    <3>2. CASE i # n
      BY <2>3, <2>5, <3>2 DEF Chain, LiveIn, e
    <3>. QED
      BY <3>1, <3>2
  <2>10. ASSUME NEW i \in LiveIn(s2, k), \A j \in LiveIn(s2, k) : i <= j
         PROVE  s2[i].level \in {0, 1}
    <3>1. CASE e = 1
      BY <1>1, <2>2, <2>5, <3>1
    <3>2. CASE e # 1 /\ i # n
      BY <2>3, <2>5, <2>6, <2>10, <3>2 DEF Chain, LiveIn, e
    <3>3. CASE e # 1 /\ i = n
      <4>1. LiveIn(s, k) = {}
        <5>. SUFFICES ASSUME NEW j \in LiveIn(s, k) PROVE FALSE
          OBVIOUS
        <5>1. j \in ItemsOf(s, k) /\ j \in LiveIn(s2, k)
          BY <2>6, <3>3 DEF LiveIn
        <5>2. n <= j /\ j < n /\ j \in Nat
          BY <2>3, <2>10, <3>3, <5>1
        <5>. QED
          BY <2>2, <5>2
      <4>2. ItemsOf(s, k) = {}
        <5>. SUFFICES ASSUME ItemsOf(s, k) # {} PROVE FALSE
          OBVIOUS
        <5>1. ItemsOf(s, k) \in SUBSET (1..Len(s)) /\ Len(s) \in Nat
          BY <1>1, PositionsOfAppend, PushedAt
        <5>2. Max(ItemsOf(s, k)) \in ItemsOf(s, k) /\ \A j \in ItemsOf(s, k) : j <= Max(ItemsOf(s, k))
          BY <5>1, GreatestPosition
        <5>3. Max(ItemsOf(s, k)) \in LiveIn(s, k)
          BY <5>1, <5>2 DEF LiveIn
        <5>. QED
          BY <4>1, <5>3
      <4>3. e = 0
        BY <3>3, <4>2 DEF Chain, e
      <4>. QED
        BY <1>1, <2>2, <3>3, <4>3
    <3>. QED
      BY <3>1, <3>2, <3>3
  <2>11. ASSUME NEW i \in LiveIn(s2, k), NEW j \in LiveIn(s2, k), NextItem(s2, k, i, j)
         PROVE  s2[j].level = 1 + GroupIn(s2, i)
    <3>1. i # n /\ i \in LiveIn(s, k) /\ i \in ItemsOf(s, k) /\ e # 1
      BY <2>2, <2>3, <2>5, <2>11 DEF NextItem, LiveIn
    <3>2. CASE j = n
      <4>1. \A h \in ItemsOf(s, k) : h <= i
        BY <2>2, <2>3, <2>11, <3>2 DEF NextItem
      <4>2. e = 1 + GroupIn(s, i)
        BY <3>1, <4>1 DEF Chain, e
      <4>. QED
        BY <1>1, <2>2, <2>3, <3>1, <3>2, <4>2
    <3>3. CASE j # n
      <4>1. j \in LiveIn(s, k) /\ j \in ItemsOf(s, k) /\ NextItem(s, k, i, j)
        BY <2>3, <2>5, <2>11, <3>3 DEF NextItem, LiveIn
      <4>2. s[j].level = 1 + GroupIn(s, i)
        BY <3>1, <4>1 DEF Chain, e
      <4>. QED
        BY <2>3, <3>1, <4>1, <4>2
    <3>. QED
      BY <3>2, <3>3
  <2>12. l <= l /\ (ItemsOf(s2, k) = {} => l = 0)
    BY <2>3
  <2>. QED
    BY <2>1, <2>8, <2>9, <2>10, <2>11, <2>12 DEF Chain
<1>. QED
  BY <1>2, <1>3

\* Assignments to other names do not disturb the chain of k.
LEMMA ChainsPushed ==
  ASSUME NEW s \in Seq(Item), NEW table \in Table, NEW k \in Keys, NEW c \in Values,
         NEW l \in Nat, l = 1 + Cardinality(Boundaries(s)),
         ChainedIn(s, table, l)
  PROVE  /\ ChainedIn(Pushed(s, table, k, l), Defined(table, k, c, l), l)
         /\ ChainedIn(s, Defined(table, k, c, 1), l)
<1>1. Defined(table, k, c, l)[k].level = l /\ Defined(table, k, c, 1)[k].level = 1
  BY DEF Defined, Table
<1>2. ASSUME NEW k2 \in Keys, k2 # k
      PROVE  /\ Defined(table, k, c, l)[k2] = table[k2]
             /\ Defined(table, k, c, 1)[k2] = table[k2]
  BY <1>2 DEF Defined, Table
<1>3. 1 <= l
  BY BoundariesFinite
<1>4. ASSUME NEW k2 \in Keys
      PROVE  Chain(Pushed(s, table, k, l), k2, Defined(table, k, c, l)[k2].level, l)
  <2>1. CASE k2 = k
    BY <1>1, <2>1, ChainPushed DEF ChainedIn
  <2>2. CASE k2 # k /\ must_push(table[k].level, l)
    <3>1. /\ SavedValue(k, table[k]) \in Item
          /\ SavedValue(k, table[k]).type = "value" /\ SavedValue(k, table[k]).pos = k
          /\ Pushed(s, table, k, l) = Append(s, SavedValue(k, table[k]))
      BY <2>2 DEF Table, SavedValue, Item, Pushed
    <3>2. /\ ItemsOf(Pushed(s, table, k, l), k2) = ItemsOf(s, k2)
          /\ \A i \in ItemsOf(s, k2) : /\ Pushed(s, table, k, l)[i] = s[i]
                                       /\ GroupIn(Pushed(s, table, k, l), i) = GroupIn(s, i)
      <4>. DEFINE x == SavedValue(k, table[k])
      <4>1. x \in Item /\ x.type = "value" /\ x.pos = k /\ Pushed(s, table, k, l) = Append(s, x)
        BY <3>1
      <4>. HIDE DEF x
      <4>2. /\ ItemsOf(Append(s, x), k2) = ItemsOf(s, k2)
            /\ ItemsOf(s, k2) \subseteq 1..Len(s)
            /\ \A i \in 1..Len(s) : Append(s, x)[i] = s[i] /\ GroupIn(Append(s, x), i) = GroupIn(s, i)
        BY <2>2, <4>1, PositionsOfAppend
      <4>. QED
        BY <4>1, <4>2
    <3>3. Chain(s, k2, table[k2].level, l) /\ table[k2].level <= l
      BY DEF ChainedIn, Chain
    <3>. QED
      BY <1>2, <2>2, <3>2, <3>3, ChainKept
  <2>3. CASE k2 # k /\ ~must_push(table[k].level, l)
    BY <1>2, <2>3 DEF ChainedIn, Pushed
  <2>. QED
    BY <2>1, <2>2, <2>3
<1>5. ASSUME NEW k2 \in Keys
      PROVE  Chain(s, k2, Defined(table, k, c, 1)[k2].level, l)
  <2>1. CASE k2 = k
    BY <1>1, <1>3, <2>1 DEF Chain
  <2>2. CASE k2 # k
    BY <1>2, <2>2 DEF ChainedIn
  <2>. QED
    BY <2>1, <2>2
<1>. QED
  BY <1>4, <1>5 DEF ChainedIn

\* An item that is not a saved value disturbs no chain, nor does the level
\* when it becomes higher.
LEMMA ChainsAppend ==
  ASSUME NEW s \in Seq(Item), NEW table \in Table, NEW l \in Nat, NEW l2 \in Nat, l <= l2,
         NEW x \in Item, x.type # "value", ChainedIn(s, table, l)
  PROVE  ChainedIn(Append(s, x), table, l2)
<1>. SUFFICES ASSUME NEW k \in Keys
              PROVE  Chain(Append(s, x), k, table[k].level, l2)
  BY DEF ChainedIn
<1>1. Chain(s, k, table[k].level, l) /\ table[k].level <= l /\ table[k].level \in Nat
  BY DEF ChainedIn, Chain, Table
<1>2. /\ ItemsOf(Append(s, x), k) = ItemsOf(s, k)
      /\ \A i \in ItemsOf(s, k) : /\ Append(s, x)[i] = s[i]
                                 /\ GroupIn(Append(s, x), i) = GroupIn(s, i)
  BY PositionsOfAppend
<1>3. table[k].level <= l2
  BY <1>1
<1>. QED
  BY <1>1, <1>2, <1>3, ChainKept

\* The last item of a name that restores its entry is the one that was made
\* by the last assignment, in the group around it.
LEMMA ChainsFront ==
  ASSUME NEW s \in Seq(Item), s # <<>>, NEW table \in Table,
         NEW l \in Nat, l = 1 + Cardinality(Boundaries(s)), ChainedIn(s, table, l),
         Last(s).type # "value"
  PROVE  ChainedIn(Front(s), table, IF Last(s).type = "boundary" THEN l - 1 ELSE l)
<1>. DEFINE l2 == IF Last(s).type = "boundary" THEN l - 1 ELSE l
<1>. SUFFICES ASSUME NEW k \in Keys
              PROVE  Chain(Front(s), k, table[k].level, l2)
  BY DEF ChainedIn
<1>. DEFINE e == table[k].level
<1>1. Chain(s, k, e, l) /\ e <= l /\ e \in Nat
  BY DEF ChainedIn, Chain, Table
<1>2. /\ ItemsOf(Front(s), k) = ItemsOf(s, k)
      /\ ItemsOf(s, k) \subseteq 1..(Len(s) - 1)
      /\ \A i \in ItemsOf(s, k) : Front(s)[i] = s[i] /\ GroupIn(Front(s), i) = GroupIn(s, i)
  <2>1. Len(s) \in Nat \ {0}
    BY PoppedAt
  <2>. QED
    BY <2>1, PositionsOfFront
<1>3. e <= l2
  <2>1. CASE Last(s).type # "boundary"
    BY <1>1, <2>1
  <2>2. CASE Last(s).type = "boundary"
    <3>1. /\ Front(s) \in Seq(Item)
          /\ Cardinality(Boundaries(Front(s))) = l - 2
          /\ Cardinality(Boundaries(Front(s))) \in Nat
      <4>1. Front(s) \in Seq(Item) /\ Cardinality(Boundaries(s)) \in Nat
        BY BoundariesOfFront, BoundariesFinite
      <4>. QED
        BY <2>2, <4>1, BoundariesOfFront, BoundariesFinite
    <3>2. CASE e = 1
      BY <2>2, <3>1, <3>2
    <3>3. CASE e # 1 /\ ItemsOf(s, k) = {}
      BY <1>1, <2>2, <3>1, <3>3 DEF Chain
    <3>4. CASE e # 1 /\ ItemsOf(s, k) # {}
      <4>1. Len(s) - 1 \in Nat
        BY PoppedAt
      <4>2. PICK i \in ItemsOf(s, k) : \A j \in ItemsOf(s, k) : j <= i
        BY <1>2, <3>4, <4>1, GreatestPosition
      <4>3. e = 1 + GroupIn(s, i)
        BY <1>1, <3>4, <4>2 DEF Chain
      <4>4. GroupIn(Front(s), i) <= l - 2 /\ GroupIn(Front(s), i) \in Nat
        BY <3>1, GroupType
      <4>. QED
        BY <1>2, <2>2, <4>2, <4>3, <4>4
    <3>. QED
      BY <3>2, <3>3, <3>4
  <2>. QED
    BY <2>1, <2>2
<1>. QED
  BY <1>1, <1>2, <1>3, ChainKept

\* The destructor of a saved value makes the chain one item shorter, or ends
\* it when it restores a global entry.
LEMMA ChainPopped ==
  ASSUME NEW s \in Seq(Item), s # <<>>, NEW k \in Keys, NEW e \in Nat,
         NEW l \in Nat, l = 1 + Cardinality(Boundaries(s)), Chain(s, k, e, l), e # 1,
         Last(s).type = "value", Last(s).pos = k
  PROVE  Chain(Front(s), k, Last(s).level, l)
<1>. DEFINE n == Len(s)
            s2 == Front(s)
            e2 == Last(s).level
<1>0. n \in Nat \ {0} /\ s[n] = Last(s) /\ s2 \in Seq(Item) /\ Last(s) \in Item
  BY PoppedAt
<1>1. n \in Nat \ {0} /\ s[n] = Last(s) /\ s2 \in Seq(Item) /\ e2 \in Nat
  BY <1>0 DEF Item
<1>2. /\ n \in ItemsOf(s, k)
      /\ ItemsOf(s2, k) = ItemsOf(s, k) \ {n}
      /\ \A i \in ItemsOf(s, k) : i \in Nat /\ i <= n
      /\ \A i \in ItemsOf(s2, k) : /\ i \in Nat /\ i < n
                                   /\ s2[i] = s[i] /\ GroupIn(s2, i) = GroupIn(s, i)
  <2>1. /\ n \in ItemsOf(s, k)
        /\ ItemsOf(s2, k) = ItemsOf(s, k) \ {n}
        /\ ItemsOf(s, k) \subseteq 1..n
        /\ \A i \in 1..(n - 1) : s2[i] = s[i] /\ GroupIn(s2, i) = GroupIn(s, i)
    BY PositionsOfFront
  <2>. QED
    BY <1>1, <2>1
<1>3. GroupIn(s, n) \in Nat /\ GroupIn(s, n) <= l - 1
  BY GroupType, BoundariesFinite
<1>. HIDE DEF n, s2
<1>4. n \in LiveIn(s, k)
  BY <1>1, <1>2 DEF LiveIn
<1>5. e2 < 1 + GroupIn(s, n)
  BY <1>1, <1>4 DEF Chain
<1>6. e2 <= l
  BY <1>1, <1>3, <1>5
<1>7. CASE e2 = 1
  BY <1>6, <1>7 DEF Chain, s2
<1>8. CASE e2 # 1
  <2>1. LiveIn(s2, k) = LiveIn(s, k) \ {n}
    <3>1. \A h \in ItemsOf(s2, k) : s2[h].level = s[h].level
      BY <1>2
    <3>2. \A i \in ItemsOf(s2, k) :
            (\A h \in ItemsOf(s2, k) : h > i => s2[h].level # 1)
              <=> (\A h \in ItemsOf(s, k) : h > i => s[h].level # 1)
      BY <1>1, <1>2, <1>8, <3>1
    <3>. QED
      BY <1>2, <3>2 DEF LiveIn
  <2>2. ASSUME ItemsOf(s2, k) = {} PROVE e2 = 0
    <3>1. LiveIn(s, k) = {n}
      BY <1>2, <1>4, <2>2 DEF LiveIn
    <3>. QED
      BY <1>1, <1>4, <1>8, <3>1 DEF Chain
  <2>3. ASSUME NEW i \in ItemsOf(s2, k), \A j \in ItemsOf(s2, k) : j <= i
        PROVE  e2 = 1 + GroupIn(s2, i)
    <3>1. i \in LiveIn(s, k) /\ NextItem(s, k, i, n)
      BY <1>1, <1>2, <1>8, <2>3 DEF LiveIn, NextItem
    <3>. QED
      BY <1>1, <1>2, <1>4, <3>1 DEF Chain
  <2>4. ASSUME NEW i \in LiveIn(s2, k)
        PROVE  /\ i \in LiveIn(s, k) /\ i \in ItemsOf(s2, k) /\ i < n /\ i \in Nat
               /\ s2[i].level < 1 + GroupIn(s2, i)
    <3>1. i \in LiveIn(s, k) /\ i \in ItemsOf(s2, k)
      BY <2>1, <2>4 DEF LiveIn
    <3>. QED
      BY <1>2, <3>1 DEF Chain
  <2>5. ASSUME NEW i \in LiveIn(s2, k), \A j \in LiveIn(s2, k) : i <= j
        PROVE  s2[i].level \in {0, 1}
    <3>1. \A j \in LiveIn(s, k) : i <= j
      BY <1>1, <2>1, <2>4, <2>5
    <3>. QED
      BY <1>2, <2>4, <3>1 DEF Chain
  <2>6. ASSUME NEW i \in LiveIn(s2, k), NEW j \in LiveIn(s2, k), NextItem(s2, k, i, j)
        PROVE  s2[j].level = 1 + GroupIn(s2, i)
    <3>1. i \in LiveIn(s, k) /\ j \in LiveIn(s, k) /\ j < n /\ j \in Nat
      BY <2>4
    <3>2. NextItem(s, k, i, j)
      BY <1>1, <1>2, <2>6, <3>1 DEF NextItem
    <3>3. s[j].level = 1 + GroupIn(s, i)
      BY <3>1, <3>2 DEF Chain
    <3>. QED
      BY <1>2, <2>4, <3>3
  <2>. QED
    BY <1>6, <2>2, <2>3, <2>4, <2>5, <2>6 DEF Chain, s2
<1>. QED
  BY <1>7, <1>8

\* A value that is restored: the chains of all names are kept.
LEMMA ChainsPopped ==
  ASSUME NEW s \in Seq(Item), s # <<>>, NEW table \in Table,
         NEW l \in Nat, l = 1 + Cardinality(Boundaries(s)), ChainedIn(s, table, l),
         Last(s).type = "value"
  PROVE  LET p == Last(s)
         IN  ChainedIn(Front(s), IF table[p.pos].level = 1 THEN table
                                 ELSE Defined(table, p.pos, p.val, p.level), l)
<1>. DEFINE p == Last(s)
            table2 == IF table[p.pos].level = 1 THEN table ELSE Defined(table, p.pos, p.val, p.level)
<1>0. p \in Item
  BY PoppedAt
<1>1. p \in Item /\ p.pos \in Keys
  BY <1>0 DEF Item
<1>2. 1 <= l
  BY BoundariesFinite
<1>3. ASSUME NEW k \in Keys PROVE Chain(Front(s), k, table2[k].level, l)
  <2>1. Chain(s, k, table[k].level, l) /\ table[k].level <= l /\ table[k].level \in Nat
    BY DEF ChainedIn, Chain, Table
  <2>2. CASE k # p.pos
    <3>1. table2[k] = table[k]
      BY <2>2 DEF Defined, Table
    <3>2. /\ ItemsOf(Front(s), k) = ItemsOf(s, k)
          /\ \A i \in ItemsOf(s, k) : /\ Front(s)[i] = s[i]
                                     /\ GroupIn(Front(s), i) = GroupIn(s, i)
      <4>1. /\ ItemsOf(Front(s), k) = ItemsOf(s, k)
            /\ ItemsOf(s, k) \subseteq 1..Len(s) /\ Len(s) \notin ItemsOf(s, k)
            /\ \A i \in 1..(Len(s) - 1) : Front(s)[i] = s[i] /\ GroupIn(Front(s), i) = GroupIn(s, i)
        BY <2>2, PositionsOfFront
      <4>2. Len(s) \in Nat
        BY LenProperties
      <4>. QED
        BY <4>1, <4>2
    <3>. QED
      BY <2>1, <3>1, <3>2, ChainKept
  <2>3. CASE k = p.pos /\ table[k].level = 1
    BY <1>2, <2>3 DEF Chain
  <2>4. CASE k = p.pos /\ table[k].level # 1
    <3>1. table2[k].level = p.level
      BY <1>1, <2>4 DEF Defined, Table
    <3>. QED
      BY <2>1, <2>4, <3>1, ChainPopped
  <2>. QED
    BY <2>2, <2>3, <2>4
<1>. QED
  BY <1>3 DEF ChainedIn

\* A box that goes to its destination is assigned as any value is.
LEMMA ChainsBoxed ==
  ASSUME NEW s \in Seq(Item), NEW table \in Table, NEW dest \in Dests, NEW c \in Values,
         NEW l \in Nat, l = 1 + Cardinality(Boundaries(s)), ChainedIn(s, table, l)
  PROVE  ChainedIn(BoxedStack(s, table, dest, l), BoxedTable(table, dest, c, l), l)
<1>1. CASE OutsideTable(dest)
  BY <1>1 DEF BoxedStack, BoxedTable
<1>2. CASE ~OutsideTable(dest)
  <2>1. dest.pos \in Keys
    BY <1>2 DEF OutsideTable, Dests, Keys
  <2>2. /\ ChainedIn(Pushed(s, table, dest.pos, l), Defined(table, dest.pos, c, l), l)
        /\ ChainedIn(s, Defined(table, dest.pos, c, 1), l)
    BY <2>1, ChainsPushed
  <2>. QED
    BY <1>2, <2>2 DEF BoxedStack, BoxedTable
<1>. QED
  BY <1>1, <1>2

-----------------------------------------------------------------------------
\* The invariant is preserved.

\* Assignments to registers and to commands.
LEMMA AssignmentsChained ==
  ASSUME IInv, Chained, NEW c \in Vals, NEW gbl \in BOOLEAN
  PROVE  /\ \A k \in WordKeys : word_define(k, c, gbl) => Chained'
         /\ \A k \in CmdKeys : eq_define(k, c, gbl) => Chained'
<1>1. /\ saveStack \in Seq(Item) /\ eqtb \in Table /\ cur_level \in Nat
      /\ cur_level = 1 + Cardinality(Boundaries(saveStack))
      /\ ChainedIn(saveStack, eqtb, cur_level)
      /\ c \in Values
  BY DEF IInv, TypeOK, LevelIsDepth, Chained, Table, Values
<1>2. ASSUME NEW k \in Keys
      PROVE  /\ ChainedIn(Pushed(saveStack, eqtb, k, cur_level), Defined(eqtb, k, c, cur_level), cur_level)
             /\ ChainedIn(saveStack, Defined(eqtb, k, c, 1), cur_level)
  BY <1>1, ChainsPushed
<1>3. ASSUME NEW k \in WordKeys, word_define(k, c, gbl) PROVE Chained'
  BY <1>1, <1>2, <1>3 DEF word_define, Chained, Keys
<1>4. ASSUME NEW k \in CmdKeys, eq_define(k, c, gbl) PROVE Chained'
  BY <1>1, <1>2, <1>4 DEF eq_define, Chained, Keys
<1>. QED
  BY <1>3, <1>4

\* Emptying a box changes its value only.
LEMMA BoxCommandsChained ==
  ASSUME IInv, Chained, NEW k \in BoxKeys, NEW dest \in Dests, NEW copy \in BOOLEAN,
         begin_box(k, dest, copy)
  PROVE  Chained'
<1>. DEFINE emptied == IF copy THEN eqtb ELSE [eqtb EXCEPT ![k].val = Null]
<1>1. /\ saveStack \in Seq(Item) /\ eqtb \in Table /\ cur_level \in Nat
      /\ cur_level = 1 + Cardinality(Boundaries(saveStack))
      /\ ChainedIn(saveStack, eqtb, cur_level)
  BY DEF IInv, TypeOK, LevelIsDepth, Chained, Table
<1>2. emptied \in Table /\ \A k2 \in Keys : emptied[k2].level = eqtb[k2].level
  BY <1>1 DEF Table, Keys, Values
<1>3. eqtb[k].val \in Values
  BY <1>1 DEF Table, Keys
<1>4. /\ saveStack' = BoxedStack(saveStack, emptied, dest, cur_level)
      /\ eqtb' = BoxedTable(emptied, dest, eqtb[k].val, cur_level)
      /\ cur_level' = cur_level
  BY DEF begin_box
<1>. HIDE DEF emptied
<1>5. ChainedIn(saveStack, emptied, cur_level)
  BY <1>1, <1>2 DEF ChainedIn
<1>6. ChainedIn(saveStack', eqtb', cur_level)
  BY <1>1, <1>2, <1>3, <1>4, <1>5, ChainsBoxed
<1>. QED
  BY <1>4, <1>6 DEF Chained

\* Items that are not saved values are pushed.
LEMMA OtherItemsChained ==
  ASSUME IInv, Chained
  PROVE  /\ \A f \in Fonts : font_has_changed(f) => Chained'
         /\ \A t \in Tokens : T_aftergroup(t) => Chained'
         /\ \A v \in GroupKinds : push_level(v) => Chained'
         /\ \A s \in Envs : T_begin(s) => Chained'
         /\ \A dest \in Dests, v \in Vals : begin_hbox(dest, v) => Chained'
<1>1. /\ saveStack \in Seq(Item) /\ eqtb \in Table /\ cur_level \in Nat /\ cur_level + 1 \in Nat
      /\ ChainedIn(saveStack, eqtb, cur_level)
      /\ cur_env_name \in EnvNames /\ cur_font \in [packed : FontSettings, level : Nat]
  BY DEF IInv, TypeOK, Chained, Table
<1>2. ASSUME NEW x \in Item, x.type # "value"
      PROVE  /\ ChainedIn(Append(saveStack, x), eqtb, cur_level)
             /\ ChainedIn(Append(saveStack, x), eqtb, cur_level + 1)
  <2>1. cur_level <= cur_level /\ cur_level <= cur_level + 1
    BY <1>1
  <2>. QED
    BY <1>1, <1>2, <2>1, ChainsAppend
<1>3. ASSUME NEW v \in Kinds, NEW x \in Item, x.type # "value"
      PROVE  ChainedIn(Append(Append(saveStack, Boundary(v)), x), eqtb, cur_level + 1)
  <2>1. Boundary(v) \in Item /\ Boundary(v).type # "value"
    BY DEF Boundary, Item
  <2>2. Append(saveStack, Boundary(v)) \in Seq(Item)
    BY <1>1, <2>1, AppendProperties
  <2>3. ChainedIn(Append(saveStack, Boundary(v)), eqtb, cur_level + 1)
    BY <1>2, <2>1
  <2>4. cur_level + 1 <= cur_level + 1
    BY <1>1
  <2>. QED
    BY <1>1, <1>3, <2>2, <2>3, <2>4, ChainsAppend
<1>4. GroupKinds \subseteq Kinds /\ "env" \in Kinds /\ "brace" \in Kinds
  BY NamesAssumption DEF Kinds
<1>5. ASSUME NEW f \in Fonts, font_has_changed(f) PROVE Chained'
  <2>1. SavedFont(cur_font) \in Item /\ SavedFont(cur_font).type # "value"
    BY <1>1 DEF SavedFont, Item
  <2>. QED
    BY <1>1, <1>2, <1>5, <2>1 DEF font_has_changed, Chained
<1>6. ASSUME NEW t \in Tokens, T_aftergroup(t) PROVE Chained'
  <2>1. Aftergroup(t) \in Item /\ Aftergroup(t).type # "value"
    BY DEF Aftergroup, Item
  <2>. QED
    BY <1>2, <1>6, <2>1 DEF T_aftergroup, Chained
<1>7. ASSUME NEW v \in GroupKinds, push_level(v) PROVE Chained'
  <2>1. Boundary(v) \in Item /\ Boundary(v).type # "value"
    BY <1>4 DEF Boundary, Item
  <2>. QED
    BY <1>2, <1>7, <2>1 DEF push_level, Chained
<1>8. ASSUME NEW s \in Envs, T_begin(s) PROVE Chained'
  <2>1. SavedEnv(cur_env_name, s) \in Item /\ SavedEnv(cur_env_name, s).type # "value"
    BY <1>1 DEF SavedEnv, Item
  <2>. QED
    BY <1>3, <1>4, <1>8, <2>1 DEF T_begin, Chained
<1>9. ASSUME NEW dest \in Dests, NEW v \in Vals, begin_hbox(dest, v) PROVE Chained'
  <2>1. [dest |-> dest, val |-> v] \in Boxes
    BY DEF Boxes, Values
  <2>2. /\ BoxEnd([dest |-> dest, val |-> v]) \in Item
        /\ BoxEnd([dest |-> dest, val |-> v]).type # "value"
    BY <2>1 DEF BoxEnd, Item
  <2>. QED
    BY <1>3, <1>4, <1>9, <2>2 DEF begin_hbox, Chained
<1>. QED
  BY <1>5, <1>6, <1>7, <1>8, <1>9

\* The turns of the loop of pop_level.
LEMMA PopChained ==
  ASSUME IInv, Chained, Pop
  PROVE  Chained'
<1>. DEFINE s == saveStack
<1>1. /\ s \in Seq(Item) /\ eqtb \in Table /\ cur_level \in Nat
      /\ cur_level = 1 + Cardinality(Boundaries(s))
      /\ ChainedIn(s, eqtb, cur_level)
      /\ theBox \in Boxes \cup {NoBox}
  BY DEF IInv, TypeOK, LevelIsDepth, Chained, Table
<1>2. s # <<>>
  BY DEF Pop, PopItem, PopValue, PopEnv, PopFont, PopBoxEnd, PopAftergroup, PopBoundary
<1>3. CASE PopValue
  <2>1. LET p == Last(s)
        IN  ChainedIn(Front(s), IF eqtb[p.pos].level = 1 THEN eqtb
                                ELSE Defined(eqtb, p.pos, p.val, p.level), cur_level)
    BY <1>1, <1>2, <1>3, ChainsPopped DEF PopValue, PopItem
  <2>. QED
    BY <1>3, <2>1 DEF PopValue, PopItem, Chained
<1>4. CASE PopEnv \/ PopFont \/ PopBoxEnd \/ PopAftergroup
  <2>1. /\ Last(s).type \notin {"value", "boundary"} /\ saveStack' = Front(s)
        /\ UNCHANGED <<eqtb, cur_level>>
    BY <1>4 DEF PopItem, PopEnv, PopFont, PopBoxEnd, PopAftergroup
  <2>2. ChainedIn(Front(s), eqtb, cur_level)
    BY <1>1, <1>2, <2>1, ChainsFront
  <2>. QED
    BY <2>1, <2>2 DEF Chained
<1>5. CASE PopBoundary
  <2>1. Last(s).type = "boundary" /\ cur_level' = cur_level - 1
    BY <1>5 DEF PopBoundary
  <2>2. ChainedIn(Front(s), eqtb, cur_level')
    BY <1>1, <1>2, <2>1, ChainsFront
  <2>3. /\ Front(s) \in Seq(Item) /\ cur_level' \in Nat
        /\ cur_level' = 1 + Cardinality(Boundaries(Front(s)))
    BY <1>1, <1>2, <2>1, BoundariesOfFront, BoundariesFinite
  <2>4. CASE theBox = NoBox
    BY <1>5, <2>2, <2>4 DEF PopBoundary, Chained
  <2>5. CASE theBox # NoBox
    <3>1. theBox.dest \in Dests /\ theBox.val \in Values
      BY <1>1, <2>5 DEF Boxes
    <3>2. ChainedIn(BoxedStack(Front(s), eqtb, theBox.dest, cur_level'),
                    BoxedTable(eqtb, theBox.dest, theBox.val, cur_level'), cur_level')
      BY <1>1, <2>2, <2>3, <3>1, ChainsBoxed
    <3>. QED
      BY <1>5, <2>1, <2>5, <3>2 DEF PopBoundary, Chained
  <2>. QED
    BY <2>4, <2>5
<1>. QED
  BY <1>3, <1>4, <1>5 DEF Pop

\* There are no items at the start.
LEMMA InitChained == Init => Chained
<1>. SUFFICES ASSUME Init, NEW k \in Keys PROVE Chain(saveStack, k, eqtb[k].level, cur_level)
  BY DEF Chained, ChainedIn
<1>1. eqtb[k].level = 0 /\ cur_level = 1 /\ ItemsOf(saveStack, k) = {}
  BY DEF Init, ItemsOf
<1>. QED
  BY <1>1 DEF Chain, LiveIn

\* Every step keeps the chains.
LEMMA NextChained == IInv /\ Chained /\ [Next]_vars => Chained'
<1>. SUFFICES ASSUME IInv, Chained, [Next]_vars PROVE Chained'
  OBVIOUS
<1>1. CASE UNCHANGED vars
  BY <1>1 DEF vars, Chained
<1>2. CASE ~popping /\ Command
  <2>1. ASSUME UNCHANGED <<eqtb, cur_level, saveStack>> PROVE Chained'
    BY <2>1 DEF Chained
  <2>2. ASSUME NEW v, T_close(v) PROVE Chained'
    BY <2>1, <2>2 DEF T_close, pop_level
  <2>3. ASSUME NEW s, T_end(s) PROVE Chained'
    BY <2>1, <2>3 DEF T_end
  <2>4. sendgroup \/ ReadToken => Chained'
    BY <2>1 DEF sendgroup, pop_level, ReadToken
  <2>. QED
    BY <1>2, <2>2, <2>3, <2>4, AssignmentsChained, BoxCommandsChained, OtherItemsChained DEF Command
<1>3. CASE Pop
  BY <1>3, PopChained
<1>. QED
  BY <1>1, <1>2, <1>3 DEF Next

-----------------------------------------------------------------------------
\* Chain says what SavedOncePerGroup says of the entries read from the table.
LEMMA ChainedIsSavedOnce == IInv /\ Chained => SavedOncePerGroup
<1>. SUFFICES ASSUME IInv, Chained, NEW k \in Keys
              PROVE  /\ EntryAbove(k, 0).level \in {0, 1}
                     /\ eqtb[k].level <= cur_level
                     /\ \A i \in Live(k) :
                          /\ EntryAbove(k, i).level = 1 + Group(i)
                          /\ saveStack[i].level < 1 + Group(i)
  BY DEF SavedOncePerGroup
<1>. DEFINE s == saveStack
            e == eqtb[k].level
<1>1. Chain(s, k, e, cur_level) /\ s \in Seq(Item)
  BY DEF Chained, ChainedIn, IInv, TypeOK
<1>2. /\ Items(k) = ItemsOf(s, k)
      /\ Live(k) = IF e = 1 THEN {} ELSE LiveIn(s, k)
      /\ \A i : Group(i) = GroupIn(s, i)
  BY DEF Items, ItemsOf, Live, LiveIn, Group, GroupIn
<1>3. Len(s) \in Nat /\ Items(k) \subseteq 1..Len(s) /\ Live(k) \subseteq Items(k)
  BY <1>1, LenProperties DEF Items, Live
<1>4. e <= cur_level
  BY <1>1 DEF Chain
<1>5. CASE Live(k) = {}
  <2>1. EntryAbove(k, 0) = eqtb[k]
    BY <1>5 DEF EntryAbove
  <2>2. e = 1 \/ Items(k) = {}
    <3>. SUFFICES ASSUME e # 1, Items(k) # {} PROVE FALSE
      OBVIOUS
    <3>1. Max(Items(k)) \in Items(k) /\ \A i \in Items(k) : i <= Max(Items(k))
      BY <1>3, GreatestPosition
    <3>2. Max(Items(k)) \in Live(k)
      BY <1>3, <3>1 DEF Live
    <3>. QED
      BY <1>5, <3>2
  <2>3. e \in {0, 1}
    BY <1>1, <1>2, <2>2 DEF Chain
  <2>. QED
    BY <1>4, <1>5, <2>1, <2>3
<1>6. CASE Live(k) # {}
  <2>1. e # 1 /\ Live(k) = LiveIn(s, k)
    BY <1>2, <1>6
  <2>2. EntryAbove(k, 0).level \in {0, 1}
    <3>1. { h \in Live(k) : h > 0 } = Live(k) /\ Live(k) \in SUBSET Nat
      BY <1>3
    <3>2. Min(Live(k)) \in Live(k) /\ \A j \in Live(k) : Min(Live(k)) <= j
      BY <1>6, <3>1, LeastPosition
    <3>3. s[Min(Live(k))].level \in {0, 1}
      BY <1>1, <2>1, <3>2 DEF Chain
    <3>. QED
      BY <1>6, <3>1, <3>3 DEF EntryAbove
  <2>3. ASSUME NEW i \in Live(k)
        PROVE  EntryAbove(k, i).level = 1 + Group(i)
    <3>. DEFINE above == { h \in Live(k) : h > i }
    <3>1. i \in Items(k) /\ i \in Nat
      BY <1>3
    <3>2. \A h \in Items(k) : h > i => h \in Live(k)
      BY <1>3, <2>1, <3>1 DEF Live
    <3>3. CASE above = {}
      <4>1. \A h \in ItemsOf(s, k) : h <= i
        BY <1>2, <1>3, <3>1, <3>2, <3>3
      <4>2. e = 1 + GroupIn(s, i)
        BY <1>1, <1>2, <2>1, <3>1, <4>1 DEF Chain
      <4>. QED
        BY <1>2, <3>3, <4>2 DEF EntryAbove
    <3>4. CASE above # {}
      <4>1. above \in SUBSET Nat
        BY <1>3
      <4>2. Min(above) \in above /\ \A j \in above : Min(above) <= j
        BY <3>4, <4>1, LeastPosition
      <4>3. \A h \in ItemsOf(s, k) : h <= i \/ Min(above) <= h
        BY <1>2, <1>3, <3>1, <3>2, <4>2
      <4>4. Min(above) \in LiveIn(s, k) /\ i < Min(above)
        BY <1>3, <2>1, <3>1, <4>2
      <4>5. s[Min(above)].level = 1 + GroupIn(s, i)
        BY <1>1, <2>1, <4>3, <4>4 DEF Chain, NextItem
      <4>. QED
        BY <1>2, <3>4, <4>5 DEF EntryAbove
    <3>. QED
      BY <3>3, <3>4
  <2>4. ASSUME NEW i \in Live(k) PROVE s[i].level < 1 + Group(i)
    BY <1>1, <1>2, <2>1 DEF Chain
  <2>. QED
    BY <1>4, <2>2, <2>3, <2>4
<1>. QED
  BY <1>5, <1>6

\* However groups, boxes, global and local assignments follow each other,
\* every value that a group hides is on the save stack once, in the order of
\* the groups that hide it, and what a destructor puts back was made outside
\* the group that is closed.
THEOREM EntriesAreSavedOnce == Spec => []SavedOncePerGroup
<1>1. Init => Chained
  BY InitChained
<1>2. IInv /\ Chained /\ [Next]_vars => Chained'
  BY NextChained
<1>3. IInv /\ Chained => SavedOncePerGroup
  BY ChainedIsSavedOnce
<1>. QED
  BY <1>1, <1>2, <1>3, SpecIInv, PTL DEF Spec
-----------------------------------------------------------------------------
\* The names of the environments.  The lemmas hold for stacks of any items.

EnvsOf(s) == { i \in DOMAIN s : s[i].type = "env" }
NameAt(s, E) == IF E = {} THEN NoEnv ELSE s[Max(E)].name

\* EnvNameIsInnermost for any stack and name.
EnvChain(s, name) ==
  /\ name = NameAt(s, EnvsOf(s))
  /\ \A i \in EnvsOf(s) : s[i].oldname = NameAt(s, { h \in EnvsOf(s) : h < i })

\* The greatest of a set of positions is the one that bounds the others.
LEMMA NameOfGreatest ==
  ASSUME NEW s, NEW n \in Nat, NEW E \in SUBSET (1..n), NEW m \in E,
         \A i \in E : i <= m
  PROVE  NameAt(s, E) = s[m].name
BY MaxIs DEF NameAt

\* The name at some positions is the same in two stacks that agree on them.
LEMMA SameName ==
  ASSUME NEW s, NEW t, NEW n \in Nat, NEW E \in SUBSET (1..n), \A i \in E : s[i] = t[i]
  PROVE  NameAt(s, E) = NameAt(t, E)
<1>1. E # {} => Max(E) \in E
  BY GreatestPosition
<1>. QED
  BY <1>1 DEF NameAt

\* Pushing an item that is not an environment keeps the names.
LEMMA EnvChainAppend ==
  ASSUME NEW I, NEW s \in Seq(I), NEW x \in I, NEW name, EnvChain(s, name), x.type # "env"
  PROVE  EnvChain(Append(s, x), name)
<1>. DEFINE t == Append(s, x)
<1>1. /\ Len(s) \in Nat /\ DOMAIN s = 1..Len(s) /\ DOMAIN t = 1..(Len(s) + 1)
      /\ \A i \in 1..Len(s) : t[i] = s[i]
      /\ t[Len(s) + 1] = x
  BY PushedAt
<1>. HIDE DEF t
<1>2. EnvsOf(t) = EnvsOf(s) /\ EnvsOf(s) \subseteq 1..Len(s)
  BY <1>1 DEF EnvsOf
<1>0. ASSUME NEW E \in SUBSET (1..Len(s)) PROVE NameAt(t, E) = NameAt(s, E)
  BY <1>1, <1>0, SameName
<1>3. NameAt(t, EnvsOf(s)) = NameAt(s, EnvsOf(s))
  BY <1>0, <1>2
<1>4. ASSUME NEW i \in EnvsOf(s)
      PROVE  t[i].oldname = NameAt(t, { h \in EnvsOf(s) : h < i })
  <2>0. { h \in EnvsOf(s) : h < i } \in SUBSET (1..Len(s))
    BY <1>2
  <2>1. NameAt(t, { h \in EnvsOf(s) : h < i }) = NameAt(s, { h \in EnvsOf(s) : h < i })
    BY <1>0, <2>0
  <2>. QED
    BY <1>1, <1>2, <2>1 DEF EnvChain
<1>5. EnvChain(t, name)
  BY <1>2, <1>3, <1>4 DEF EnvChain
<1>. QED
  BY <1>5 DEF t

\* \begin{m}: the name it hides is the name of the environment around it.
LEMMA EnvChainBegin ==
  ASSUME NEW I, NEW s \in Seq(I), NEW name, EnvChain(s, name), NEW m, SavedEnv(name, m) \in I
  PROVE  EnvChain(Append(s, SavedEnv(name, m)), m)
<1>. DEFINE t == Append(s, SavedEnv(name, m))
<1>1. /\ Len(s) \in Nat /\ DOMAIN s = 1..Len(s) /\ DOMAIN t = 1..(Len(s) + 1)
      /\ \A i \in 1..Len(s) : t[i] = s[i]
      /\ t[Len(s) + 1] = SavedEnv(name, m)
  BY PushedAt
<1>. HIDE DEF t
<1>2. EnvsOf(t) = EnvsOf(s) \cup {Len(s) + 1} /\ EnvsOf(s) \subseteq 1..Len(s)
  BY <1>1 DEF EnvsOf, SavedEnv
<1>0. ASSUME NEW E \in SUBSET (1..Len(s)) PROVE NameAt(t, E) = NameAt(s, E)
  BY <1>1, <1>0, SameName
<1>3. NameAt(t, EnvsOf(t)) = m
  <2>0. /\ Len(s) + 1 \in Nat /\ EnvsOf(t) \in SUBSET (1..(Len(s) + 1))
        /\ Len(s) + 1 \in EnvsOf(t) /\ \A i \in EnvsOf(t) : i <= Len(s) + 1
    BY <1>1, <1>2
  <2>1. NameAt(t, EnvsOf(t)) = t[Len(s) + 1].name
    BY <2>0, NameOfGreatest
  <2>. QED
    BY <1>1, <2>1 DEF SavedEnv
<1>4. ASSUME NEW i \in EnvsOf(s)
      PROVE  t[i].oldname = NameAt(t, { h \in EnvsOf(t) : h < i })
  <2>1. { h \in EnvsOf(t) : h < i } = { h \in EnvsOf(s) : h < i }
    BY <1>1, <1>2
  <2>0. { h \in EnvsOf(s) : h < i } \in SUBSET (1..Len(s))
    BY <1>2
  <2>2. NameAt(t, { h \in EnvsOf(s) : h < i }) = NameAt(s, { h \in EnvsOf(s) : h < i })
    BY <1>0, <2>0
  <2>. QED
    BY <1>1, <1>2, <2>1, <2>2 DEF EnvChain
<1>5. t[Len(s) + 1].oldname = NameAt(t, { h \in EnvsOf(t) : h < Len(s) + 1 })
  <2>1. { h \in EnvsOf(t) : h < Len(s) + 1 } = EnvsOf(s)
    BY <1>1, <1>2
  <2>2. NameAt(t, EnvsOf(s)) = NameAt(s, EnvsOf(s))
    BY <1>0, <1>2
  <2>3. t[Len(s) + 1].oldname = name
    BY <1>1 DEF SavedEnv
  <2>. QED
    BY <2>1, <2>2, <2>3 DEF EnvChain
<1>6. EnvChain(t, m)
  BY <1>2, <1>3, <1>4, <1>5 DEF EnvChain
<1>. QED
  BY <1>6 DEF t

\* An item that leaves the stack keeps the names; an environment gives the
\* name back that it hid.
LEMMA EnvChainFront ==
  ASSUME NEW I, NEW s \in Seq(I), s # <<>>, NEW name, EnvChain(s, name)
  PROVE  EnvChain(Front(s), IF Last(s).type = "env" THEN Last(s).oldname ELSE name)
<1>. DEFINE t == Front(s)
<1>1. /\ Len(s) \in Nat \ {0} /\ DOMAIN s = 1..Len(s) /\ DOMAIN t = 1..(Len(s) - 1)
      /\ \A i \in 1..(Len(s) - 1) : t[i] = s[i]
      /\ Last(s) = s[Len(s)]
  BY PoppedAt
<1>. HIDE DEF t
<1>2. EnvsOf(t) = { h \in EnvsOf(s) : h < Len(s) } /\ EnvsOf(t) \subseteq 1..(Len(s) - 1)
  BY <1>1 DEF EnvsOf
<1>3. ASSUME NEW E \in SUBSET (1..(Len(s) - 1)) PROVE NameAt(t, E) = NameAt(s, E)
  <2>1. Len(s) - 1 \in Nat /\ \A i \in E : t[i] = s[i]
    BY <1>1
  <2>. QED
    BY <2>1, SameName
<1>4. ASSUME NEW i \in EnvsOf(t)
      PROVE  t[i].oldname = NameAt(t, { h \in EnvsOf(t) : h < i })
  <2>1. i \in EnvsOf(s) /\ t[i] = s[i]
    BY <1>1, <1>2
  <2>2. { h \in EnvsOf(t) : h < i } = { h \in EnvsOf(s) : h < i }
    <3>1. EnvsOf(s) \subseteq 1..Len(s) /\ i < Len(s) /\ i \in Int
      BY <1>1, <1>2 DEF EnvsOf
    <3>2. \A h \in EnvsOf(s) : h < i => h < Len(s)
      BY <1>1, <3>1
    <3>. QED
      BY <1>2, <3>2
  <2>3. NameAt(t, { h \in EnvsOf(t) : h < i }) = NameAt(s, { h \in EnvsOf(t) : h < i })
    BY <1>2, <1>3
  <2>. QED
    BY <2>1, <2>2, <2>3 DEF EnvChain
<1>5. NameAt(t, EnvsOf(t)) = NameAt(s, EnvsOf(t))
  BY <1>2, <1>3
<1>6. CASE s[Len(s)].type = "env"
  <2>1. Len(s) \in EnvsOf(s)
    BY <1>1, <1>6 DEF EnvsOf
  <2>2. s[Len(s)].oldname = NameAt(s, EnvsOf(t))
    BY <1>2, <2>1 DEF EnvChain
  <2>. QED
    BY <1>1, <1>4, <1>5, <1>6, <2>2 DEF EnvChain, t
<1>7. CASE s[Len(s)].type # "env"
  <2>1. EnvsOf(t) = EnvsOf(s)
    BY <1>1, <1>7 DEF EnvsOf
  <2>2. name = NameAt(s, EnvsOf(t))
    BY <2>1 DEF EnvChain
  <2>. QED
    BY <1>1, <1>4, <1>5, <1>7, <2>2 DEF EnvChain, t
<1>. QED
  BY <1>6, <1>7

\* An assignment, of a box too, pushes no environment.
LEMMA EnvChainBoxed ==
  ASSUME NEW I, NEW s \in Seq(I), NEW name, EnvChain(s, name), NEW table, NEW l,
         \A k \in Keys : SavedValue(k, table[k]) \in I
  PROVE  /\ \A k \in Keys : Pushed(s, table, k, l) \in Seq(I) /\ EnvChain(Pushed(s, table, k, l), name)
         /\ \A dest \in Dests : /\ BoxedStack(s, table, dest, l) \in Seq(I)
                                /\ EnvChain(BoxedStack(s, table, dest, l), name)
<1>1. ASSUME NEW k \in Keys
      PROVE  Pushed(s, table, k, l) \in Seq(I) /\ EnvChain(Pushed(s, table, k, l), name)
  <2>1. SavedValue(k, table[k]) \in I /\ SavedValue(k, table[k]).type # "env"
    BY DEF SavedValue
  <2>2. /\ Append(s, SavedValue(k, table[k])) \in Seq(I)
        /\ EnvChain(Append(s, SavedValue(k, table[k])), name)
    BY <2>1, EnvChainAppend, AppendProperties
  <2>. QED
    BY <2>2 DEF Pushed
<1>2. ASSUME NEW dest \in Dests, ~OutsideTable(dest) PROVE dest.pos \in Keys
  BY <1>2 DEF Dests, OutsideTable, Keys
<1>. QED
  BY <1>1, <1>2 DEF BoxedStack

\* The items that are pushed on the save stack have their types.
LEMMA SavedItems ==
  ASSUME TypeOK
  PROVE  /\ \A k \in Keys : SavedValue(k, eqtb[k]) \in Item
         /\ \A k \in BoxKeys : SavedValue(k, [eqtb[k] EXCEPT !.val = Null]) \in Item
         /\ SavedFont(cur_font) \in Item
         /\ \A t \in Tokens : Aftergroup(t) \in Item
         /\ \A v \in Kinds : Boundary(v) \in Item
         /\ \A m \in Envs : SavedEnv(cur_env_name, m) \in Item
         /\ \A dest \in Dests, v \in Vals : BoxEnd([dest |-> dest, val |-> v]) \in Item
BY DEF TypeOK, Item, Values, Boxes, Keys, SavedValue, SavedFont, Aftergroup, Boundary, SavedEnv, BoxEnd

\* There are no environments at the start.
LEMMA InitEnvChain == Init => EnvChain(saveStack, cur_env_name)
<1>. SUFFICES ASSUME Init PROVE EnvChain(saveStack, cur_env_name)
  OBVIOUS
<1>1. saveStack = <<>> /\ EnvsOf(saveStack) = {}
  BY DEF Init, EnvsOf
<1>. QED
  BY <1>1 DEF Init, EnvChain, NameAt

\* Every step keeps the names: T_begin pushes the name it hides, the turns of
\* the loop of pop_level give it back.
LEMMA NextEnvChain ==
  IInv /\ EnvChain(saveStack, cur_env_name) /\ [Next]_vars => EnvChain(saveStack, cur_env_name)'
<1>. SUFFICES ASSUME IInv, EnvChain(saveStack, cur_env_name), [Next]_vars
              PROVE  EnvChain(saveStack', cur_env_name')
  BY DEF EnvChain, EnvsOf, NameAt
<1>0. TypeOK /\ saveStack \in Seq(Item)
  BY DEF IInv, TypeOK
<1>1. ASSUME NEW x \in Item, x.type # "env"
      PROVE  Append(saveStack, x) \in Seq(Item) /\ EnvChain(Append(saveStack, x), cur_env_name)
  BY <1>0, <1>1, EnvChainAppend, AppendProperties
<1>2. ASSUME NEW k \in Keys, NEW l
      PROVE  EnvChain(Pushed(saveStack, eqtb, k, l), cur_env_name)
  BY <1>0, SavedItems, EnvChainBoxed
<1>3. CASE UNCHANGED <<saveStack, cur_env_name>>
  BY <1>3
<1>4. CASE \/ \E k \in WordKeys, c \in Vals, gbl \in BOOLEAN : word_define(k, c, gbl)
           \/ \E k \in CmdKeys, c \in Vals, gbl \in BOOLEAN : eq_define(k, c, gbl)
  <2>1. WordKeys \subseteq Keys /\ CmdKeys \subseteq Keys
    BY DEF Keys
  <2>. QED
    BY <1>2, <1>4, <2>1 DEF word_define, eq_define
<1>5. ASSUME NEW k \in BoxKeys, NEW dest \in Dests, NEW copy \in BOOLEAN, begin_box(k, dest, copy)
      PROVE  EnvChain(saveStack', cur_env_name')
  <2>. DEFINE emptied == IF copy THEN eqtb ELSE [eqtb EXCEPT ![k].val = Null]
  <2>1. \A n \in Keys : SavedValue(n, emptied[n]) \in Item
    <3>1. \A n \in Keys : emptied[n] = eqtb[n] \/ (n = k /\ emptied[n] = [eqtb[k] EXCEPT !.val = Null])
      BY <1>0 DEF TypeOK
    <3>. HIDE DEF emptied
    <3>. QED
      BY <1>0, <3>1, SavedItems
  <2>2. saveStack' = BoxedStack(saveStack, emptied, dest, cur_level) /\ cur_env_name' = cur_env_name
    BY <1>5 DEF begin_box
  <2>. HIDE DEF emptied
  <2>. QED
    BY <1>0, <2>1, <2>2, EnvChainBoxed
<1>6. CASE \/ \E f \in Fonts : font_has_changed(f)
           \/ \E t \in Tokens : T_aftergroup(t)
  <2>1. SavedFont(cur_font).type # "env" /\ \A t : Aftergroup(t).type # "env"
    BY DEF SavedFont, Aftergroup
  <2>. QED
    BY <1>0, <1>1, <1>6, <2>1, SavedItems DEF font_has_changed, T_aftergroup
<1>7. ASSUME NEW v \in Kinds
      PROVE  /\ Append(saveStack, Boundary(v)) \in Seq(Item)
             /\ EnvChain(Append(saveStack, Boundary(v)), cur_env_name)
  <2>1. Boundary(v) \in Item /\ Boundary(v).type # "env"
    BY <1>0, SavedItems DEF Boundary
  <2>. QED
    BY <1>1, <2>1
<1>8. GroupKinds \subseteq Kinds /\ "env" \in Kinds /\ "brace" \in Kinds
  BY NamesAssumption DEF Kinds
<1>9. CASE \E v \in GroupKinds : push_level(v)
  BY <1>7, <1>8, <1>9 DEF push_level
<1>10. ASSUME NEW m \in Envs, T_begin(m) PROVE EnvChain(saveStack', cur_env_name')
  <2>1. SavedEnv(cur_env_name, m) \in Item
    BY <1>0, SavedItems
  <2>2. /\ saveStack' = Append(Append(saveStack, Boundary("env")), SavedEnv(cur_env_name, m))
        /\ cur_env_name' = m
    BY <1>10 DEF T_begin
  <2>. QED
    BY <1>7, <1>8, <2>1, <2>2, EnvChainBegin
<1>11. ASSUME NEW dest \in Dests, NEW v \in Vals, begin_hbox(dest, v)
       PROVE  EnvChain(saveStack', cur_env_name')
  <2>. DEFINE x == BoxEnd([dest |-> dest, val |-> v])
  <2>1. x \in Item /\ x.type # "env"
    BY <1>0, SavedItems DEF BoxEnd
  <2>2. /\ saveStack' = Append(Append(saveStack, Boundary("brace")), x)
        /\ cur_env_name' = cur_env_name
    BY <1>11 DEF begin_hbox
  <2>. HIDE DEF x
  <2>. QED
    BY <1>7, <1>8, <2>1, <2>2, EnvChainAppend
<1>12. ASSUME saveStack # <<>>
       PROVE  /\ Front(saveStack) \in Seq(Item) /\ Last(saveStack) \in Item
              /\ EnvChain(Front(saveStack), IF Last(saveStack).type = "env" THEN Last(saveStack).oldname
                                            ELSE cur_env_name)
  BY <1>0, <1>12, EnvChainFront, PoppedAt
<1>13. CASE PopValue \/ PopEnv \/ PopFont \/ PopBoxEnd \/ PopAftergroup
  BY <1>12, <1>13 DEF PopValue, PopEnv, PopFont, PopBoxEnd, PopAftergroup, PopItem
<1>14. CASE PopBoundary
  <2>1. saveStack # <<>> /\ Last(saveStack).type = "boundary" /\ cur_env_name' = cur_env_name
    BY <1>14 DEF PopBoundary
  <2>2. EnvChain(Front(saveStack), cur_env_name) /\ Front(saveStack) \in Seq(Item)
    BY <1>12, <2>1
  <2>3. CASE theBox = NoBox
    BY <1>14, <2>1, <2>2, <2>3 DEF PopBoundary
  <2>4. CASE theBox # NoBox
    <3>1. theBox.dest \in Dests
      BY <1>0, <2>4 DEF TypeOK, Boxes
    <3>2. saveStack' = BoxedStack(Front(saveStack), eqtb, theBox.dest, cur_level - 1)
      BY <1>14, <2>4 DEF PopBoundary
    <3>. QED
      BY <1>0, <2>1, <2>2, <3>1, <3>2, SavedItems, EnvChainBoxed
  <2>. QED
    BY <2>3, <2>4
<1>15. CASE ~popping /\ Command
  <2>1. ASSUME NEW v, T_close(v) PROVE UNCHANGED <<saveStack, cur_env_name>>
    BY <2>1 DEF T_close, pop_level
  <2>2. ASSUME NEW m, T_end(m) PROVE UNCHANGED <<saveStack, cur_env_name>>
    BY <2>2 DEF T_end
  <2>3. sendgroup \/ ReadToken => UNCHANGED <<saveStack, cur_env_name>>
    BY DEF sendgroup, pop_level, ReadToken
  <2>. QED
    BY <1>3, <1>4, <1>5, <1>6, <1>9, <1>10, <1>11, <1>15, <2>1, <2>2, <2>3 DEF Command
<1>16. CASE UNCHANGED vars
  BY <1>3, <1>16 DEF vars
<1>. QED
  BY <1>13, <1>14, <1>15, <1>16 DEF Next, Pop

\* After every \begin, every \end (of the innermost environment or of another
\* one) and every group closed in between, cur_env_name and the names waiting
\* on the save stack are those of the environments that are open.
THEOREM EnvironmentsAreNamed == Spec => []EnvNameIsInnermost
<1>1. Init => EnvChain(saveStack, cur_env_name)
  BY InitEnvChain
<1>2. IInv /\ EnvChain(saveStack, cur_env_name) /\ [Next]_vars => EnvChain(saveStack, cur_env_name)'
  BY NextEnvChain
<1>3. EnvChain(saveStack, cur_env_name) => EnvNameIsInnermost
  BY DEF EnvChain, EnvNameIsInnermost, EnvsOf, EnvItems, NameAt
<1>. QED
  BY <1>1, <1>2, <1>3, SpecIInv, PTL DEF Spec

-----------------------------------------------------------------------------
(***************************************************************************)
(* SaveStack implements Scopes: groups, assignments, fonts, boxes,         *)
(* environments and \aftergroup behave as if every open group had its own  *)
(* values, for every set of names and every bound.                         *)
(*                                                                         *)
(* Besides the chains of saved values, the invariant needs two facts.  The *)
(* fonts form a chain of the same sort, so that a font which is not saved  *)
(* again was chosen in the same group.  The item of an environment or a    *)
(* box lies directly on the boundary of its group, so that the group has   *)
(* one name and one box, and a finished box meets the boundary in the next *)
(* turn of pop_level.                                                      *)
(***************************************************************************)

(* The mapping of SaveStack reads the scope of a group off the tables and  *)
(* the stack.  Here this is done for any stack, table and font, so that    *)
(* one lemma about pushing an item serves twice: a command pushes it, a    *)
(* turn of pop_level takes it away.                                        *)

\* The number of groups that are open on a stack.
Groups(s) == Cardinality(Boundaries(s))

\* The positions of the items of one type in group g, and those of all.
TypedIn(s, type, g) == { i \in DOMAIN s : GroupIn(s, i) = g /\ s[i].type = type }
PlacesIn(s, g) == { i \in DOMAIN s : GroupIn(s, i) = g }

\* The kind, the name and the box of a group.
KindIn(s, g) == IF g = 0 THEN "outer"
                ELSE s[Max({ b \in Boundaries(s) : GroupIn(s, b) = g })].val
NameIn(s, g) == NameAt(s, TypedIn(s, "env", g))
BoxIn(s, g) ==
  IF g = 0 \/ TypedIn(s, "box_end", g) = {} THEN NoBox ELSE s[Max(TypedIn(s, "box_end", g))].box

\* The tokens saved at the positions E, in their order.
TokensAt(s, E) == [n \in 1..Cardinality(E) |-> <<"plain", s[NthOf(E, n)].val>>]
AfterIn(s, g) == TokensAt(s, TypedIn(s, "save", g))

\* What is hidden just above position i by later items at the positions E,
\* when c is the current value.
Hidden(s, E, c, i) ==
  LET above == { h \in E : h > i }
  IN IF above = {} THEN c ELSE s[Min(above)].val

\* The items that save a font, and the font of group g when f is current.
FontsOf(s) == { i \in DOMAIN s : s[i].type = "font" }
FontIn(s, f, g) ==
  IF TypedIn(s, "font", g) = {} THEN NoFont ELSE Hidden(s, FontsOf(s), f, Max(TypedIn(s, "font", g)))

\* The items of k that will be restored, and what the groups bind.
LiveOf(s, t, k) == IF t[k].level = 1 THEN {} ELSE LiveIn(s, k)
ValueIn(s, L, c, g) == Hidden(s, L, c, IF g = 0 THEN 0 ELSE Max(L \cap PlacesIn(s, g)))
Binds(s, L, g) == g = 0 \/ L \cap PlacesIn(s, g) # {}
IsBound(s, t, g, k) == Binds(s, LiveOf(s, t, k), g)
Binding(s, t, g, k) == ValueIn(s, LiveOf(s, t, k), t[k].val, g)
BindIn(s, t, g) == [k \in { n \in Keys : IsBound(s, t, g, n) } |-> Binding(s, t, g, k)]

\* The scope of group g, read off a stack, a table and a font.
ViewOf(s, t, f, g) ==
  [kind |-> KindIn(s, g), name |-> NameIn(s, g), bind |-> BindIn(s, t, g),
   font |-> FontIn(s, f, g), after |-> AfterIn(s, g), box |-> BoxIn(s, g)]

-----------------------------------------------------------------------------
\* Lemmas about groups.

\* Pushing an item leaves the groups as they are; a boundary opens a new one.
LEMMA GroupsAppend ==
  ASSUME NEW s \in Seq(Item), NEW x \in Item
  PROVE  /\ Append(s, x) \in Seq(Item)
         /\ Len(s) \in Nat /\ DOMAIN s = 1..Len(s) /\ DOMAIN Append(s, x) = 1..(Len(s) + 1)
         /\ Groups(s) \in Nat
         /\ Groups(Append(s, x)) = Groups(s) + (IF x.type = "boundary" THEN 1 ELSE 0)
         /\ \A i \in 1..Len(s) : /\ Append(s, x)[i] = s[i]
                                 /\ GroupIn(Append(s, x), i) = GroupIn(s, i)
                                 /\ GroupIn(s, i) \in 0..Groups(s)
         /\ Append(s, x)[Len(s) + 1] = x
         /\ GroupIn(Append(s, x), Len(s) + 1) = Groups(Append(s, x))
<1>1. /\ Append(s, x) \in Seq(Item)
      /\ Len(s) \in Nat /\ DOMAIN s = 1..Len(s) /\ DOMAIN Append(s, x) = 1..(Len(s) + 1)
      /\ Append(s, x)[Len(s) + 1] = x
  BY PushedAt
<1>2. /\ Groups(s) \in Nat
      /\ Groups(Append(s, x)) = Groups(s) + (IF x.type = "boundary" THEN 1 ELSE 0)
  BY BoundariesFinite, BoundariesOfAppend DEF Groups
<1>3. /\ \A i \in 1..Len(s) : Append(s, x)[i] = s[i] /\ GroupIn(Append(s, x), i) = GroupIn(s, i)
      /\ GroupIn(Append(s, x), Len(s) + 1) = Groups(Append(s, x))
  BY PositionsOfAppend DEF Groups
<1>4. \A i \in 1..Len(s) : GroupIn(s, i) \in 0..Groups(s)
  <2>. TAKE i \in 1..Len(s)
  <2>1. GroupIn(s, i) \in Nat /\ GroupIn(s, i) <= Groups(s)
    BY GroupType DEF Groups
  <2>. QED
    BY <1>2, <2>1
<1>. QED
  BY <1>1, <1>2, <1>3, <1>4

\* The items of one type in one group, after a push.
LEMMA TypedAppend ==
  ASSUME NEW s \in Seq(Item), NEW x \in Item, NEW type, type # "boundary"
  PROVE  /\ \A g \in 0..Groups(s) :
              TypedIn(Append(s, x), type, g) =
                IF x.type = type /\ g = Groups(s) THEN TypedIn(s, type, g) \cup {Len(s) + 1}
                ELSE TypedIn(s, type, g)
         /\ x.type = "boundary" => TypedIn(Append(s, x), type, Groups(s) + 1) = {}
         /\ \A g : TypedIn(s, type, g) \in SUBSET (1..Len(s))
<1>. DEFINE t == Append(s, x)
<1>1. /\ Len(s) \in Nat /\ DOMAIN s = 1..Len(s) /\ DOMAIN t = 1..(Len(s) + 1)
      /\ Groups(s) \in Nat /\ Groups(t) = Groups(s) + (IF x.type = "boundary" THEN 1 ELSE 0)
      /\ \A i \in 1..Len(s) : t[i] = s[i] /\ GroupIn(t, i) = GroupIn(s, i) /\ GroupIn(s, i) \in 0..Groups(s)
      /\ t[Len(s) + 1] = x /\ GroupIn(t, Len(s) + 1) = Groups(t)
  BY GroupsAppend
<1>. HIDE DEF t
<1>2. ASSUME NEW g \in 0..Groups(s)
      PROVE  TypedIn(t, type, g) =
               IF x.type = type /\ g = Groups(s) THEN TypedIn(s, type, g) \cup {Len(s) + 1}
               ELSE TypedIn(s, type, g)
  BY <1>1 DEF TypedIn
<1>3. x.type = "boundary" => TypedIn(t, type, Groups(s) + 1) = {}
  BY <1>1 DEF TypedIn
<1>4. \A g : TypedIn(s, type, g) \in SUBSET (1..Len(s))
  BY <1>1 DEF TypedIn
<1>. QED
  BY <1>2, <1>3, <1>4 DEF t

\* All items in one group, after a push.
LEMMA PlacesAppend ==
  ASSUME NEW s \in Seq(Item), NEW x \in Item
  PROVE  /\ \A g \in 0..Groups(s) :
              PlacesIn(Append(s, x), g) =
                IF x.type # "boundary" /\ g = Groups(s) THEN PlacesIn(s, g) \cup {Len(s) + 1}
                ELSE PlacesIn(s, g)
         /\ x.type = "boundary" => PlacesIn(Append(s, x), Groups(s) + 1) = {Len(s) + 1}
         /\ \A g : PlacesIn(s, g) \in SUBSET (1..Len(s))
<1>. DEFINE t == Append(s, x)
<1>1. /\ Len(s) \in Nat /\ DOMAIN s = 1..Len(s) /\ DOMAIN t = 1..(Len(s) + 1)
      /\ Groups(s) \in Nat /\ Groups(t) = Groups(s) + (IF x.type = "boundary" THEN 1 ELSE 0)
      /\ \A i \in 1..Len(s) : t[i] = s[i] /\ GroupIn(t, i) = GroupIn(s, i) /\ GroupIn(s, i) \in 0..Groups(s)
      /\ t[Len(s) + 1] = x /\ GroupIn(t, Len(s) + 1) = Groups(t)
  BY GroupsAppend
<1>. HIDE DEF t
<1>2. ASSUME NEW g \in 0..Groups(s)
      PROVE  PlacesIn(t, g) =
               IF x.type # "boundary" /\ g = Groups(s) THEN PlacesIn(s, g) \cup {Len(s) + 1}
               ELSE PlacesIn(s, g)
  BY <1>1 DEF PlacesIn
<1>3. x.type = "boundary" => PlacesIn(t, Groups(s) + 1) = {Len(s) + 1}
  BY <1>1 DEF PlacesIn
<1>4. \A g : PlacesIn(s, g) \in SUBSET (1..Len(s))
  BY <1>1 DEF PlacesIn
<1>. QED
  BY <1>2, <1>3, <1>4 DEF t

\* Positions further up are in groups further in.
LEMMA GroupMonotone ==
  ASSUME NEW s \in Seq(Item), NEW i \in Nat, NEW j \in Nat, i <= j
  PROVE  GroupIn(s, i) <= GroupIn(s, j)
<1>1. IsFiniteSet(Boundaries(s)) /\ \A b \in Boundaries(s) : b \in Int
  BY BoundariesFinite
<1>2. { b \in Boundaries(s) : b <= j } \in SUBSET Boundaries(s)
  OBVIOUS
<1>3. { b \in Boundaries(s) : b <= i } \in SUBSET { b \in Boundaries(s) : b <= j }
  BY <1>1
<1>4. IsFiniteSet({ b \in Boundaries(s) : b <= j })
  BY <1>1, <1>2, FS_Subset
<1>. QED
  BY <1>3, <1>4, FS_Subset DEF GroupIn

\* A boundary between two positions separates their groups.
LEMMA GroupStrict ==
  ASSUME NEW s \in Seq(Item), NEW b \in Boundaries(s), NEW i \in Nat, NEW j \in Nat, i < b, b <= j
  PROVE  GroupIn(s, i) # GroupIn(s, j)
<1>. DEFINE I == { c \in Boundaries(s) : c <= i }
            J == { c \in Boundaries(s) : c <= j }
<1>1. IsFiniteSet(Boundaries(s)) /\ \A c \in Boundaries(s) : c \in Int
  BY BoundariesFinite
<1>2. IsFiniteSet(I) /\ IsFiniteSet(J) /\ b \notin I /\ I \cup {b} \subseteq J
  <2>1. b \notin I /\ I \cup {b} \subseteq J
    BY <1>1
  <2>. QED
    BY <1>1, <2>1, FS_Subset
<1>. HIDE DEF I, J
<1>3. /\ Cardinality(I) \in Nat /\ Cardinality(J) \in Nat
      /\ Cardinality(I \cup {b}) = Cardinality(I) + 1
      /\ Cardinality(I \cup {b}) <= Cardinality(J)
  BY <1>2, FS_AddElement, FS_Subset, FS_CardinalityType
<1>4. Cardinality(I) # Cardinality(J)
  BY <1>3
<1>. QED
  BY <1>4 DEF GroupIn, I, J

-----------------------------------------------------------------------------
\* What a push does to the parts of a scope that are not values.

\* Every group has a boundary, which says its kind.
LEMMA KindAppend ==
  ASSUME NEW s \in Seq(Item), NEW x \in Item
  PROVE  /\ \A g \in 0..Groups(s) : KindIn(Append(s, x), g) = KindIn(s, g)
         /\ x.type = "boundary" => KindIn(Append(s, x), Groups(s) + 1) = x.val
<1>. DEFINE t == Append(s, x)
            OfGroup(y, g) == { b \in Boundaries(y) : GroupIn(y, b) = g }
<1>1. /\ Len(s) \in Nat /\ DOMAIN s = 1..Len(s) /\ DOMAIN t = 1..(Len(s) + 1)
      /\ Groups(s) \in Nat /\ Groups(t) = Groups(s) + (IF x.type = "boundary" THEN 1 ELSE 0)
      /\ \A i \in 1..Len(s) : t[i] = s[i] /\ GroupIn(t, i) = GroupIn(s, i) /\ GroupIn(s, i) \in 0..Groups(s)
      /\ t[Len(s) + 1] = x /\ GroupIn(t, Len(s) + 1) = Groups(t)
  BY GroupsAppend
<1>. HIDE DEF t
<1>2. /\ Boundaries(s) \in SUBSET (1..Len(s))
      /\ \A i : i \in Boundaries(t) <=> i \in Boundaries(s) \/ (i = Len(s) + 1 /\ x.type = "boundary")
  BY <1>1 DEF Boundaries
<1>3. ASSUME NEW g \in 1..Groups(s) PROVE KindIn(t, g) = KindIn(s, g)
  <2>1. OfGroup(t, g) = OfGroup(s, g)
    BY <1>1, <1>2
  <2>2. OfGroup(s, g) \in SUBSET (1..Len(s))
    BY <1>2
  <2>3. OfGroup(s, g) # {}
    <3>1. g \in 1..Cardinality(Boundaries(s))
      BY DEF Groups
    <3>2. \E i \in Boundaries(s) : GroupIn(s, i) = g
      BY <1>1, <1>2, <3>1, RankReached DEF GroupIn
    <3>. QED
      BY <3>2
  <2>. HIDE DEF OfGroup
  <2>4. Max(OfGroup(s, g)) \in 1..Len(s)
    BY <1>1, <2>2, <2>3, GreatestPosition
  <2>5. KindIn(t, g) = t[Max(OfGroup(t, g))].val /\ KindIn(s, g) = s[Max(OfGroup(s, g))].val
    BY DEF KindIn, OfGroup
  <2>. QED
    BY <1>1, <2>1, <2>4, <2>5
<1>4. ASSUME x.type = "boundary" PROVE KindIn(t, Groups(s) + 1) = x.val
  <2>1. OfGroup(t, Groups(s) + 1) = {Len(s) + 1}
    BY <1>1, <1>2, <1>4
  <2>2. Max({Len(s) + 1}) = Len(s) + 1
    BY <1>1, MaxOfNext
  <2>3. KindIn(t, Groups(s) + 1) = t[Max(OfGroup(t, Groups(s) + 1))].val
    BY <1>1 DEF KindIn
  <2>. HIDE DEF OfGroup
  <2>. QED
    BY <1>1, <2>1, <2>2, <2>3
<1>5. \A g \in 0..Groups(s) : g = 0 \/ g \in 1..Groups(s)
  BY <1>1
<1>6. KindIn(t, 0) = KindIn(s, 0)
  BY DEF KindIn
<1>. QED
  BY <1>3, <1>4, <1>5, <1>6 DEF t

\* pop_level looks at the kind of the innermost group.
LEMMA KindTop ==
  ASSUME NEW s \in Seq(Item), Boundaries(s) # {}
  PROVE  KindIn(s, Groups(s)) = s[Max(Boundaries(s))].val /\ Groups(s) \in Nat \ {0}
<1>. DEFINE m == Max(Boundaries(s))
            E == { b \in Boundaries(s) : GroupIn(s, b) = Groups(s) }
<1>1. /\ Len(s) \in Nat /\ Boundaries(s) \in SUBSET (1..Len(s)) /\ Groups(s) \in Nat
      /\ Groups(s) # 0
  BY LenProperties, BoundariesFinite, BoundaryCounted DEF Groups
<1>2. m \in Boundaries(s) /\ \A i \in Boundaries(s) : i <= m
  BY <1>1, GreatestPosition
<1>. HIDE DEF m
<1>3. { b \in Boundaries(s) : b <= m } = Boundaries(s)
  BY <1>2
<1>4. m \in E /\ E \in SUBSET (1..Len(s)) /\ \A i \in E : i <= m
  BY <1>1, <1>2, <1>3 DEF GroupIn, Groups
<1>. HIDE DEF E
<1>5. Max(E) = m
  BY <1>1, <1>4, MaxIs
<1>. QED
  BY <1>1, <1>5 DEF KindIn, E, m

\* The name of a group is that of its environment.
LEMMA NameAppend ==
  ASSUME NEW s \in Seq(Item), NEW x \in Item
  PROVE  /\ \A g \in 0..Groups(s) :
              NameIn(Append(s, x), g) =
                IF x.type = "env" /\ g = Groups(s) THEN x.name ELSE NameIn(s, g)
         /\ x.type = "boundary" => NameIn(Append(s, x), Groups(s) + 1) = NoEnv
<1>. DEFINE t == Append(s, x)
            E(g) == TypedIn(s, "env", g)
            n == Len(s) + 1
<1>1. /\ Len(s) \in Nat /\ n \in Nat /\ Groups(s) \in Nat
      /\ \A i \in 1..Len(s) : t[i] = s[i]
      /\ t[n] = x
  BY GroupsAppend
<1>2. /\ \A g \in 0..Groups(s) :
           TypedIn(t, "env", g) = IF x.type = "env" /\ g = Groups(s) THEN E(g) \cup {n} ELSE E(g)
      /\ x.type = "boundary" => TypedIn(t, "env", Groups(s) + 1) = {}
      /\ \A g : E(g) \in SUBSET (1..Len(s))
  BY TypedAppend
<1>. HIDE DEF t, E
<1>0. ASSUME NEW F \in SUBSET (1..Len(s)) PROVE NameAt(t, F) = NameAt(s, F)
  BY <1>0, <1>1, SameName
<1>3. ASSUME NEW g PROVE NameAt(t, E(g)) = NameAt(s, E(g))
  BY <1>0, <1>2
<1>4. ASSUME NEW g PROVE NameAt(t, E(g) \cup {n}) = x.name
  <2>1. E(g) \cup {n} \in SUBSET (1..n) /\ n \in E(g) \cup {n} /\ \A i \in E(g) \cup {n} : i <= n
    BY <1>1, <1>2
  <2>2. NameAt(t, E(g) \cup {n}) = t[n].name
    BY <1>1, <2>1, NameOfGreatest
  <2>. QED
    BY <1>1, <2>2
<1>5. NameAt(t, {}) = NoEnv
  BY DEF NameAt
<1>. QED
  BY <1>2, <1>3, <1>4, <1>5 DEF NameIn, t, E

\* The box of a group is the one for which it was opened.
LEMMA BoxAppend ==
  ASSUME NEW s \in Seq(Item), NEW x \in Item
  PROVE  /\ \A g \in 0..Groups(s) :
              BoxIn(Append(s, x), g) =
                IF x.type = "box_end" /\ g = Groups(s) /\ g # 0 THEN x.box ELSE BoxIn(s, g)
         /\ x.type = "boundary" => BoxIn(Append(s, x), Groups(s) + 1) = NoBox
<1>. DEFINE t == Append(s, x)
            E(g) == TypedIn(s, "box_end", g)
            n == Len(s) + 1
<1>1. /\ Len(s) \in Nat /\ n \in Nat /\ Groups(s) \in Nat
      /\ \A i \in 1..Len(s) : t[i] = s[i]
      /\ t[n] = x
  BY GroupsAppend
<1>2. /\ \A g \in 0..Groups(s) :
           TypedIn(t, "box_end", g) = IF x.type = "box_end" /\ g = Groups(s) THEN E(g) \cup {n} ELSE E(g)
      /\ x.type = "boundary" => TypedIn(t, "box_end", Groups(s) + 1) = {}
      /\ \A g : E(g) \in SUBSET (1..Len(s))
  BY TypedAppend
<1>. HIDE DEF t, E
<1>3. ASSUME NEW g \in 0..Groups(s), x.type = "box_end" /\ g = Groups(s) /\ g # 0
      PROVE  BoxIn(t, g) = x.box
  <2>1. E(g) \cup {n} # {}
    OBVIOUS
  <2>2. Max(E(g) \cup {n}) = n
    BY <1>1, <1>2, MaxOfNext
  <2>3. TypedIn(t, "box_end", g) = E(g) \cup {n}
    BY <1>2, <1>3
  <2>. QED
    BY <1>1, <1>3, <2>1, <2>2, <2>3 DEF BoxIn
<1>4. ASSUME NEW g \in 0..Groups(s), ~(x.type = "box_end" /\ g = Groups(s) /\ g # 0)
      PROVE  BoxIn(t, g) = BoxIn(s, g)
  <2>1. CASE g = 0
    BY <2>1 DEF BoxIn
  <2>2. CASE g # 0
    <3>1. TypedIn(t, "box_end", g) = E(g) /\ E(g) = TypedIn(s, "box_end", g)
      BY <1>2, <1>4, <2>2 DEF E
    <3>2. E(g) # {} => Max(E(g)) \in 1..Len(s)
      BY <1>1, <1>2, GreatestPosition
    <3>. QED
      BY <1>1, <3>1, <3>2 DEF BoxIn
  <2>. QED
    BY <2>1, <2>2
<1>5. x.type = "boundary" => BoxIn(t, Groups(s) + 1) = NoBox
  BY <1>2 DEF BoxIn
<1>. QED
  BY <1>3, <1>4, <1>5 DEF t

\* The tokens at some positions, when one more is saved and when it is not.
LEMMA TokensAppend ==
  ASSUME NEW s \in Seq(Item), NEW x \in Item, NEW E \in SUBSET (1..Len(s)),
         \A i \in E : s[i].type = "save"
  PROVE  /\ TokensAt(s, E) \in Seq(InputToken)
         /\ TokensAt(Append(s, x), E) = TokensAt(s, E)
         /\ x.type = "save" =>
              /\ <<"plain", x.val>> \in InputToken
              /\ TokensAt(Append(s, x), E \cup {Len(s) + 1}) = Append(TokensAt(s, E), <<"plain", x.val>>)
<1>. DEFINE t == Append(s, x)
            n == Len(s)
            c == Cardinality(E)
<1>1. /\ n \in Nat /\ t[n + 1] = x /\ \A i \in 1..n : t[i] = s[i] /\ s[i] \in Item
  BY GroupsAppend, ElementOfSeq
<1>2. /\ c \in Nat /\ Cardinality(E \cup {n + 1}) = c + 1
      /\ \A r \in 1..c : NthOf(E, r) \in E /\ NthOf(E \cup {n + 1}, r) = NthOf(E, r)
      /\ NthOf(E \cup {n + 1}, c + 1) = n + 1
  BY <1>1, NthAdd
<1>3. \A y \in Item : y.type = "save" => <<"plain", y.val>> \in InputToken
  BY DEF Item, InputToken
<1>. HIDE DEF t, n, c
<1>4. \A r \in 1..c : /\ <<"plain", s[NthOf(E, r)].val>> \in InputToken
                      /\ t[NthOf(E, r)] = s[NthOf(E, r)]
  BY <1>1, <1>2, <1>3 DEF n
<1>5. /\ TokensAt(s, E) = [r \in 1..c |-> <<"plain", s[NthOf(E, r)].val>>]
      /\ TokensAt(t, E) = [r \in 1..c |-> <<"plain", t[NthOf(E, r)].val>>]
      /\ TokensAt(t, E \cup {n + 1}) =
           [r \in 1..(c + 1) |-> <<"plain", t[NthOf(E \cup {n + 1}, r)].val>>]
  BY <1>2 DEF TokensAt, c
<1>6. TokensAt(s, E) \in Seq(InputToken) /\ Len(TokensAt(s, E)) = c
  <2>. DEFINE T == TokensAt(s, E)
  <2>1. T = [r \in 1..c |-> T[r]] /\ \A r \in 1..c : T[r] \in InputToken
    BY <1>4, <1>5
  <2>. HIDE DEF T
  <2>2. T \in [1..c -> InputToken]
    BY <2>1
  <2>3. T \in Seq(InputToken) /\ Len(T) = c
    BY <1>2, <2>2
  <2>. QED
    BY <2>3 DEF T
<1>7. TokensAt(t, E) = TokensAt(s, E)
  BY <1>4, <1>5
<1>8. ASSUME x.type = "save"
      PROVE  TokensAt(t, E \cup {n + 1}) = Append(TokensAt(s, E), <<"plain", x.val>>)
  <2>. DEFINE a == Append(TokensAt(s, E), <<"plain", x.val>>)
              T == TokensAt(t, E \cup {n + 1})
  <2>1. /\ a \in Seq(InputToken) /\ Len(a) = c + 1
        /\ \A r \in 1..c : a[r] = TokensAt(s, E)[r]
        /\ a[c + 1] = <<"plain", x.val>>
    BY <1>3, <1>6, <1>8, PushedAt
  <2>0. c + 1 \in 1..(c + 1) /\ \A r \in 1..c : r \in 1..(c + 1)
    BY <1>2
  <2>2. \A r \in 1..c : T[r] = TokensAt(s, E)[r]
    <3>. TAKE r \in 1..c
    <3>1. NthOf(E \cup {n + 1}, r) = NthOf(E, r) /\ t[NthOf(E, r)] = s[NthOf(E, r)] /\ r \in 1..(c + 1)
      BY <1>2, <1>4, <2>0
    <3>2. T[r] = <<"plain", t[NthOf(E \cup {n + 1}, r)].val>>
      BY <1>5, <3>1
    <3>3. TokensAt(s, E)[r] = <<"plain", s[NthOf(E, r)].val>>
      BY <1>5
    <3>. QED
      BY <3>1, <3>2, <3>3
  <2>3. T[c + 1] = <<"plain", x.val>>
    BY <1>1, <1>2, <1>5, <2>0
  <2>4. T = [r \in 1..(c + 1) |-> T[r]]
    BY <1>5
  <2>. HIDE DEF a, T
  <2>5. \A r \in 1..(c + 1) : T[r] = a[r]
    BY <1>2, <2>1, <2>2, <2>3
  <2>6. a = [r \in 1..(c + 1) |-> a[r]]
    BY <2>1
  <2>7. T = a
    BY <2>4, <2>5, <2>6
  <2>. QED
    BY <2>7 DEF a, T
<1>. QED
  BY <1>3, <1>6, <1>7, <1>8 DEF t, n

\* The tokens of \aftergroup of each group, after a push.
LEMMA AfterAppend ==
  ASSUME NEW s \in Seq(Item), NEW x \in Item
  PROVE  /\ \A g : AfterIn(s, g) \in Seq(InputToken)
         /\ x.type = "save" => <<"plain", x.val>> \in InputToken
         /\ \A g \in 0..Groups(s) :
              AfterIn(Append(s, x), g) =
                IF x.type = "save" /\ g = Groups(s) THEN Append(AfterIn(s, g), <<"plain", x.val>>)
                ELSE AfterIn(s, g)
         /\ x.type = "boundary" => AfterIn(Append(s, x), Groups(s) + 1) = <<>>
<1>. DEFINE t == Append(s, x)
            E(g) == TypedIn(s, "save", g)
<1>1. /\ \A g \in 0..Groups(s) :
           TypedIn(t, "save", g) =
             IF x.type = "save" /\ g = Groups(s) THEN E(g) \cup {Len(s) + 1} ELSE E(g)
      /\ x.type = "boundary" => TypedIn(t, "save", Groups(s) + 1) = {}
      /\ \A g : E(g) \in SUBSET (1..Len(s))
  BY TypedAppend
<1>2. \A g : \A i \in E(g) : s[i].type = "save"
  BY DEF TypedIn
<1>. HIDE DEF t, E
<1>0. ASSUME NEW F \in SUBSET (1..Len(s)), \A i \in F : s[i].type = "save"
      PROVE  /\ TokensAt(s, F) \in Seq(InputToken)
             /\ TokensAt(t, F) = TokensAt(s, F)
             /\ x.type = "save" =>
                  /\ <<"plain", x.val>> \in InputToken
                  /\ TokensAt(t, F \cup {Len(s) + 1}) = Append(TokensAt(s, F), <<"plain", x.val>>)
  BY <1>0, TokensAppend DEF t
<1>3. ASSUME NEW g
      PROVE  /\ TokensAt(s, E(g)) \in Seq(InputToken)
             /\ TokensAt(t, E(g)) = TokensAt(s, E(g))
             /\ x.type = "save" =>
                  /\ <<"plain", x.val>> \in InputToken
                  /\ TokensAt(t, E(g) \cup {Len(s) + 1}) = Append(TokensAt(s, E(g)), <<"plain", x.val>>)
  BY <1>0, <1>1, <1>2
<1>4. TokensAt(t, {}) = <<>>
  <2>1. 1..Cardinality({}) = {}
    BY FS_EmptySet
  <2>. QED
    BY <2>1 DEF TokensAt
<1>. QED
  BY <1>1, <1>3, <1>4 DEF AfterIn, t, E

-----------------------------------------------------------------------------
\* Values and fonts that later items hide.

\* An item that hides the value c behind c2 is met by whoever looks up from
\* below; other items are not seen.
LEMMA HiddenAppend ==
  ASSUME NEW s \in Seq(Item), NEW x \in Item, NEW E \in SUBSET (1..Len(s)), NEW c, NEW c2
  PROVE  /\ \A i \in 0..Len(s) : Hidden(Append(s, x), E, c, i) = Hidden(s, E, c, i)
         /\ x.val = c =>
              \A i \in 0..Len(s) : Hidden(Append(s, x), E \cup {Len(s) + 1}, c2, i) = Hidden(s, E, c, i)
         /\ Hidden(Append(s, x), E \cup {Len(s) + 1}, c2, Len(s) + 1) = c2
<1>. DEFINE t == Append(s, x)
            n == Len(s) + 1
<1>1. /\ Len(s) \in Nat /\ t[n] = x /\ \A i \in 1..Len(s) : t[i] = s[i]
  BY GroupsAppend
<1>. HIDE DEF t
<1>0. n \in Nat /\ \A h \in E : h \in 1..Len(s) /\ h \in Nat /\ h <= n
  BY <1>1
<1>2. ASSUME NEW i \in 0..Len(s) PROVE Hidden(t, E, c, i) = Hidden(s, E, c, i)
  <2>. DEFINE A == { h \in E : h > i }
  <2>1. A \in SUBSET Nat /\ A \in SUBSET (1..Len(s))
    BY <1>0
  <2>. HIDE DEF A
  <2>2. A # {} => Min(A) \in 1..Len(s)
    BY <2>1, LeastPosition
  <2>3. A # {} => t[Min(A)] = s[Min(A)]
    BY <1>1, <2>2
  <2>. QED
    BY <2>3 DEF Hidden, A
<1>3. ASSUME x.val = c, NEW i \in 0..Len(s)
      PROVE  Hidden(t, E \cup {n}, c2, i) = Hidden(s, E, c, i)
  <2>. DEFINE A == { h \in E : h > i }
              B == { h \in E \cup {n} : h > i }
  <2>0. n > i
    BY <1>1
  <2>1. A \in SUBSET Nat /\ A \in SUBSET (1..Len(s)) /\ B = A \cup {n} /\ n \in Nat
    <3>1. B = A \cup {n}
      BY <2>0
    <3>. QED
      BY <1>0, <3>1
  <2>2. Hidden(t, E \cup {n}, c2, i) = t[Min(B)].val
    BY <2>1 DEF Hidden
  <2>3. Hidden(s, E, c, i) = IF A = {} THEN c ELSE s[Min(A)].val
    BY DEF Hidden
  <2>. HIDE DEF A, B
  <2>4. CASE A = {}
    <3>1. Min(B) = n
      BY <2>1, <2>4, MinIs
    <3>. QED
      BY <1>1, <1>3, <2>2, <2>3, <2>4, <3>1
  <2>5. CASE A # {}
    <3>. DEFINE m == Min(A)
    <3>1. m \in A /\ \A j \in A : m <= j
      BY <2>1, <2>5, LeastPosition
    <3>. HIDE DEF m
    <3>2. m \in 1..Len(s) /\ m \in B /\ B \in SUBSET Nat /\ m <= n
      BY <1>0, <2>1, <3>1 DEF A
    <3>3. Min(B) = m
      BY <2>1, <3>1, <3>2, MinIs
    <3>. QED
      BY <1>1, <2>2, <2>3, <2>5, <3>2, <3>3 DEF m
  <2>. QED
    BY <2>4, <2>5
<1>4. Hidden(t, E \cup {n}, c2, n) = c2
  <2>1. \A h \in E \cup {n} : ~(h > n)
    BY <1>1
  <2>2. { h \in E \cup {n} : h > n } = {}
    BY <2>1
  <2>. QED
    BY <2>2 DEF Hidden
<1>. QED
  BY <1>2, <1>3, <1>4 DEF t

\* E is a set of positions of s, and E with the position of the next item.
Within(s, E) == E \in SUBSET (1..Len(s))
WithTop(s, E) == E \cup {Len(s) + 1}

\* HiddenAppend, for sets that are not looked into.
LEMMA HiddenPush ==
  ASSUME NEW s \in Seq(Item), NEW x \in Item, NEW E, Within(s, E), NEW c, x.val = c, NEW c2
  PROVE  /\ \A i \in 0..Len(s) : Hidden(Append(s, x), WithTop(s, E), c2, i) = Hidden(s, E, c, i)
         /\ Hidden(Append(s, x), WithTop(s, E), c2, Len(s) + 1) = c2
BY HiddenAppend DEF Within, WithTop

\* The font of a group is the one that was current when the next one was
\* chosen in a group inside of it.
LEMMA FontAppend ==
  ASSUME NEW s \in Seq(Item), NEW x \in Item, NEW f
  PROVE  /\ x.type # "font" =>
              \A g \in 0..Groups(s) : FontIn(Append(s, x), f, g) = FontIn(s, f, g)
         /\ x.type = "boundary" => FontIn(Append(s, x), f, Groups(s) + 1) = NoFont
         /\ \A v : x.type = "font" /\ v = x.val =>
              \A g \in 0..Groups(s) :
                FontIn(Append(s, x), f, g) = IF g = Groups(s) THEN f ELSE FontIn(s, v, g)
<1>. DEFINE t == Append(s, x)
            n == Len(s) + 1
            E(g) == TypedIn(s, "font", g)
            P == FontsOf(s)
<1>1. /\ Len(s) \in Nat /\ DOMAIN s = 1..Len(s) /\ DOMAIN t = 1..n /\ t[n] = x
      /\ \A i \in 1..Len(s) : t[i] = s[i]
  BY GroupsAppend
<1>2. /\ \A g \in 0..Groups(s) :
           TypedIn(t, "font", g) = IF x.type = "font" /\ g = Groups(s) THEN E(g) \cup {n} ELSE E(g)
      /\ x.type = "boundary" => TypedIn(t, "font", Groups(s) + 1) = {}
      /\ \A g : E(g) \in SUBSET (1..Len(s))
  BY TypedAppend
<1>3. ASSUME NEW c, NEW c2
      PROVE  /\ \A i \in 0..Len(s) : Hidden(t, P, c, i) = Hidden(s, P, c, i)
             /\ x.val = c => \A i \in 0..Len(s) : Hidden(t, P \cup {n}, c2, i) = Hidden(s, P, c, i)
             /\ Hidden(t, P \cup {n}, c2, n) = c2
  <2>1. P \in SUBSET (1..Len(s))
    BY <1>1 DEF FontsOf
  <2>. HIDE DEF P
  <2>. QED
    BY <2>1, HiddenAppend
<1>. HIDE DEF t, E
<1>4. FontsOf(t) = IF x.type = "font" THEN P \cup {n} ELSE P
  BY <1>1 DEF FontsOf
<1>5. ASSUME NEW g, E(g) # {} PROVE Max(E(g)) \in 0..Len(s)
  <2>1. Max(E(g)) \in E(g)
    BY <1>1, <1>2, <1>5, GreatestPosition
  <2>. QED
    BY <1>1, <1>2, <2>1
<1>. HIDE DEF P, n
<1>6. ASSUME x.type # "font", NEW g \in 0..Groups(s)
      PROVE  FontIn(t, f, g) = FontIn(s, f, g)
  BY <1>2, <1>3, <1>4, <1>5, <1>6 DEF FontIn, E, P
<1>7. ASSUME x.type = "boundary" PROVE FontIn(t, f, Groups(s) + 1) = NoFont
  BY <1>2, <1>7 DEF FontIn
<1>8. ASSUME x.type = "font", NEW g \in 0..Groups(s)
      PROVE  FontIn(t, f, g) = IF g = Groups(s) THEN f ELSE FontIn(s, x.val, g)
  <2>1. CASE g = Groups(s)
    <3>1. Max(E(g) \cup {n}) = n
      BY <1>1, <1>2, MaxOfNext DEF n
    <3>2. TypedIn(t, "font", g) = E(g) \cup {n} /\ E(g) \cup {n} # {}
      BY <1>2, <1>8, <2>1
    <3>. QED
      BY <1>3, <1>4, <1>8, <2>1, <3>1, <3>2 DEF FontIn
  <2>2. CASE g # Groups(s)
    <3>1. TypedIn(t, "font", g) = E(g) /\ TypedIn(s, "font", g) = E(g)
      BY <1>2, <2>2 DEF E
    <3>0. \A c2 : \A i \in 0..Len(s) : Hidden(t, P \cup {n}, c2, i) = Hidden(s, P, x.val, i)
      BY <1>3
    <3>2. E(g) # {} => Hidden(t, P \cup {n}, f, Max(E(g))) = Hidden(s, P, x.val, Max(E(g)))
      BY <1>5, <3>0
    <3>. QED
      BY <1>4, <1>8, <2>2, <3>1, <3>2 DEF FontIn, P
  <2>. QED
    BY <2>1, <2>2
<1>. QED
  BY <1>6, <1>7, <1>8 DEF t

\* A font that replaces one chosen in the same group.
LEMMA FontInPlace ==
  ASSUME NEW s \in Seq(Item), NEW f, NEW f2, FontsOf(s) # {},
         GroupIn(s, Max(FontsOf(s))) = Groups(s)
  PROVE  \A g \in 0..Groups(s) : FontIn(s, f2, g) = IF g = Groups(s) THEN f2 ELSE FontIn(s, f, g)
<1>. DEFINE P == FontsOf(s)
            m == Max(P)
            E(g) == TypedIn(s, "font", g)
<1>1. Len(s) \in Nat /\ DOMAIN s = 1..Len(s)
  BY LenProperties
<1>2. P \in SUBSET (1..Len(s)) /\ \A g : E(g) = { i \in P : GroupIn(s, i) = g }
  BY <1>1 DEF FontsOf, TypedIn
<1>. HIDE DEF P, E
<1>3. m \in P /\ \A i \in P : i <= m
  BY <1>1, <1>2, GreatestPosition DEF P
<1>4. m \in E(Groups(s))
  BY <1>2, <1>3 DEF P
<1>. HIDE DEF m
<1>5. Max(E(Groups(s))) = m
  <2>1. E(Groups(s)) \in SUBSET (1..Len(s)) /\ \A i \in E(Groups(s)) : i <= m
    BY <1>2, <1>3
  <2>. QED
    BY <1>1, <1>4, <2>1, MaxIs
<1>6. { h \in P : h > m } = {}
  <2>1. \A h \in P : h \in Nat /\ m \in Nat /\ ~(h > m)
    BY <1>2, <1>3
  <2>. QED
    BY <2>1
<1>7. FontIn(s, f2, Groups(s)) = f2
  BY <1>4, <1>5, <1>6 DEF FontIn, Hidden, E, P
<1>8. ASSUME NEW g, g # Groups(s) PROVE FontIn(s, f2, g) = FontIn(s, f, g)
  <2>1. CASE E(g) = {}
    BY <2>1 DEF FontIn, E
  <2>2. CASE E(g) # {}
    <3>. DEFINE p == Max(E(g))
    <3>0. E(g) \in SUBSET (1..Len(s))
      BY <1>2
    <3>1. p \in E(g)
      BY <1>1, <2>2, <3>0, GreatestPosition
    <3>. HIDE DEF p
    <3>2. p \in P /\ p # m /\ p <= m /\ p \in Nat /\ m \in Nat
      BY <1>2, <1>3, <1>4, <1>8, <3>1
    <3>3. { h \in P : h > p } # {}
      BY <1>3, <3>2
    <3>. QED
      BY <2>2, <3>3 DEF FontIn, Hidden, E, P, p
  <2>. QED
    BY <2>1, <2>2
<1>. QED
  BY <1>7, <1>8

-----------------------------------------------------------------------------
\* The value that a group gives to one name.

\* What a push does to the groups that bind a name whose live items are L, and
\* to the values they give it.
LEMMA BindsAppend ==
  ASSUME NEW s \in Seq(Item), NEW x \in Item, NEW L, Within(s, L), NEW c
  PROVE  /\ \A g \in 0..Groups(s) :
              /\ Binds(Append(s, x), L, g) <=> Binds(s, L, g)
              /\ Binds(s, L, g) => ValueIn(Append(s, x), L, c, g) = ValueIn(s, L, c, g)
         /\ x.type = "boundary" => ~Binds(Append(s, x), L, Groups(s) + 1)
<1>. DEFINE t == Append(s, x)
            n == Len(s) + 1
            B(g) == L \cap PlacesIn(s, g)
            G == Groups(s)
<1>0. Len(s) \in Nat /\ G \in Nat /\ L \in SUBSET (1..Len(s))
  BY GroupsAppend DEF Within
<1>1. /\ \A g \in 0..G : PlacesIn(t, g) = IF x.type # "boundary" /\ g = G THEN PlacesIn(s, g) \cup {n}
                                          ELSE PlacesIn(s, g)
      /\ x.type = "boundary" => PlacesIn(t, G + 1) = {n}
  BY PlacesAppend
<1>2. /\ \A i \in 0..Len(s) : Hidden(t, L, c, i) = Hidden(s, L, c, i)
      /\ Hidden(t, L \cup {n}, c, n) = c
  BY <1>0, HiddenAppend
<1>3. n \notin L
  BY <1>0
<1>. HIDE DEF t, n, G
<1>4. \A g \in 0..G : L \cap PlacesIn(t, g) = B(g)
  BY <1>1, <1>3
<1>5. ASSUME NEW g, Binds(s, L, g)
      PROVE  (IF g = 0 THEN 0 ELSE Max(B(g))) \in 0..Len(s)
  <2>1. CASE g = 0
    BY <1>0, <2>1
  <2>2. CASE g # 0
    <3>0. B(g) \in SUBSET (1..Len(s)) /\ B(g) # {}
      BY <1>0, <1>5, <2>2 DEF Binds
    <3>1. Max(B(g)) \in B(g)
      BY <1>0, <3>0, GreatestPosition
    <3>. QED
      BY <1>0, <2>2, <3>0, <3>1
  <2>. QED
    BY <2>1, <2>2
<1>6. ASSUME NEW g \in 0..G
      PROVE  /\ Binds(t, L, g) <=> Binds(s, L, g)
             /\ Binds(s, L, g) => ValueIn(t, L, c, g) = ValueIn(s, L, c, g)
  <2>. HIDE DEF B
  <2>1. L \cap PlacesIn(t, g) = B(g) /\ L \cap PlacesIn(s, g) = B(g)
    BY <1>4 DEF B
  <2>. QED
    BY <1>2, <1>5, <2>1 DEF ValueIn, Binds
<1>7. ASSUME x.type = "boundary" PROVE ~Binds(t, L, G + 1)
  <2>1. G + 1 # 0
    BY <1>0
  <2>. QED
    BY <1>1, <1>3, <1>7, <2>1 DEF Binds
<1>. QED
  BY <1>6, <1>7 DEF t, G

\* The innermost group with an item of L.
HomeIn(s, L) == IF L = {} THEN 0 ELSE GroupIn(s, Max(L))

\* The current value of a name is that of the innermost group with a live
\* item.  It can change there without being noticed by the others.
LEMMA ValueInPlace ==
  ASSUME NEW s \in Seq(Item), NEW L, Within(s, L), \A i \in L : GroupIn(s, i) # 0,
         NEW c, NEW c2
  PROVE  /\ HomeIn(s, L) \in 0..Groups(s)
         /\ Binds(s, L, HomeIn(s, L))
         /\ ValueIn(s, L, c, HomeIn(s, L)) = c
         /\ \A g \in 0..Groups(s) :
              /\ g > HomeIn(s, L) => ~Binds(s, L, g)
              /\ g # HomeIn(s, L) /\ Binds(s, L, g) => ValueIn(s, L, c2, g) = ValueIn(s, L, c, g)
<1>. DEFINE m == Max(L)
            B(g) == L \cap PlacesIn(s, g)
<1>1. /\ Len(s) \in Nat /\ DOMAIN s = 1..Len(s) /\ Groups(s) \in Nat
      /\ L \in SUBSET (1..Len(s))
  BY LenProperties, BoundariesFinite DEF Groups, Within
<1>2. \A i \in L : i \in Nat /\ i \in 1..Len(s)
  BY <1>1
<1>3. \A i : GroupIn(s, i) \in Nat /\ GroupIn(s, i) <= Groups(s)
  BY GroupType DEF Groups
<1>4. \A g : B(g) = { i \in L : GroupIn(s, i) = g }
  BY <1>1, <1>2 DEF PlacesIn
<1>. HIDE DEF B
<1>5. CASE L = {}
  <2>1. HomeIn(s, L) = 0 /\ \A g : B(g) = {}
    BY <1>4, <1>5 DEF HomeIn
  <2>2. ValueIn(s, L, c, 0) = c
    BY <1>5 DEF ValueIn, Hidden
  <2>3. 0 \in 0..Groups(s)
    BY <1>1
  <2>. QED
    BY <2>1, <2>2, <2>3 DEF B, Binds
<1>6. CASE L # {}
  <2>1. m \in L /\ \A i \in L : i <= m
    BY <1>1, <1>6, GreatestPosition
  <2>2. HomeIn(s, L) = GroupIn(s, m)
    BY <1>6 DEF HomeIn
  <2>. DEFINE H == HomeIn(s, L)
  <2>. HIDE DEF m, H
  <2>3. H \in 0..Groups(s) /\ H # 0 /\ m \in B(H)
    BY <1>1, <1>3, <1>4, <2>1, <2>2 DEF H
  <2>4. Max(B(H)) = m
    <3>1. B(H) \in SUBSET (1..Len(s)) /\ \A i \in B(H) : i <= m
      BY <1>2, <1>4, <2>1
    <3>. QED
      BY <1>1, <2>3, <3>1, MaxIs
  <2>5. { h \in L : h > m } = {}
    <3>1. \A h \in L : h \in Nat /\ m \in Nat /\ ~(h > m)
      BY <1>2, <2>1
    <3>. QED
      BY <3>1
  <2>6. ValueIn(s, L, c, H) = c
    BY <2>3, <2>4, <2>5 DEF ValueIn, Hidden, B
  <2>7. ASSUME NEW g \in 0..Groups(s), g > H PROVE g # 0 /\ B(g) = {}
    <3>1. \A i \in L : GroupIn(s, i) <= GroupIn(s, m)
      BY <1>2, <2>1, GroupMonotone
    <3>2. \A i \in L : GroupIn(s, i) # g
      BY <1>1, <1>3, <2>2, <2>7, <3>1 DEF H
    <3>3. g # 0
      BY <1>1, <2>3, <2>7
    <3>. QED
      BY <1>4, <3>2, <3>3
  <2>8. ASSUME NEW g \in 0..Groups(s), g # H, g = 0 \/ B(g) # {}
        PROVE  ValueIn(s, L, c2, g) = ValueIn(s, L, c, g)
    <3>. DEFINE p == IF g = 0 THEN 0 ELSE Max(B(g))
    <3>1. p \in Nat /\ p < m
      <4>1. CASE g = 0
        BY <1>2, <2>1, <4>1
      <4>2. CASE g # 0
        <5>0. B(g) \in SUBSET (1..Len(s)) /\ B(g) # {}
          BY <1>2, <1>4, <2>8, <4>2
        <5>1. Max(B(g)) \in B(g)
          BY <1>1, <5>0, GreatestPosition
        <5>2. Max(B(g)) \in L /\ Max(B(g)) # m
          BY <1>4, <2>2, <2>8, <5>1 DEF H
        <5>3. /\ Max(B(g)) \in Nat /\ m \in Nat
              /\ Max(B(g)) <= m
          BY <1>2, <2>1, <5>2
        <5>. QED
          BY <4>2, <5>2, <5>3
      <4>. QED
        BY <4>1, <4>2
    <3>. HIDE DEF p
    <3>2. { h \in L : h > p } # {}
      <4>1. m > p
        BY <1>2, <2>1, <3>1
      <4>. QED
        BY <2>1, <4>1
    <3>. QED
      BY <3>2 DEF ValueIn, Hidden, B, p
  <2>. QED
    BY <2>3, <2>6, <2>7, <2>8 DEF H, B, Binds
<1>. QED
  BY <1>5, <1>6

\* The live items of a name, after a push.
LEMMA LiveAppend ==
  ASSUME NEW s \in Seq(Item), NEW x \in Item, NEW k
  PROVE  /\ LiveIn(s, k) \in SUBSET (1..Len(s))
         /\ ~(x.type = "value" /\ x.pos = k) => LiveIn(Append(s, x), k) = LiveIn(s, k)
         /\ x.type = "value" /\ x.pos = k =>
              LiveIn(Append(s, x), k) = IF x.level = 1 THEN {Len(s) + 1} ELSE LiveIn(s, k) \cup {Len(s) + 1}
<1>. DEFINE t == Append(s, x)
            n == Len(s) + 1
<1>1. /\ ItemsOf(t, k) = IF x.type = "value" /\ x.pos = k THEN ItemsOf(s, k) \cup {n} ELSE ItemsOf(s, k)
      /\ ItemsOf(s, k) \subseteq 1..Len(s)
  BY PositionsOfAppend
<1>2. Len(s) \in Nat /\ t[n] = x /\ \A i \in 1..Len(s) : t[i] = s[i]
  BY GroupsAppend
<1>. HIDE DEF t
<1>3. \A i \in ItemsOf(s, k) : i \in Nat /\ i < n /\ t[i] = s[i]
  BY <1>1, <1>2
<1>4. n \in Nat
  BY <1>2
<1>5. LiveIn(s, k) \in SUBSET (1..Len(s))
  BY <1>1 DEF LiveIn
<1>. HIDE DEF n
<1>6. ~(x.type = "value" /\ x.pos = k) => LiveIn(t, k) = LiveIn(s, k)
  BY <1>1, <1>3 DEF LiveIn
<1>7. ASSUME x.type = "value", x.pos = k, x.level = 1 PROVE LiveIn(t, k) = {n}
  <2>1. \A i \in ItemsOf(t, k) : (\A h \in ItemsOf(t, k) : h > i => t[h].level # 1) <=> i = n
    BY <1>1, <1>2, <1>3, <1>4, <1>7
  <2>. QED
    BY <1>1, <1>7, <2>1 DEF LiveIn
<1>8. ASSUME x.type = "value", x.pos = k, x.level # 1 PROVE LiveIn(t, k) = LiveIn(s, k) \cup {n}
  <2>1. \A i \in ItemsOf(s, k) : (\A h \in ItemsOf(t, k) : h > i => t[h].level # 1)
                                   <=> (\A h \in ItemsOf(s, k) : h > i => s[h].level # 1)
    BY <1>1, <1>2, <1>3, <1>4, <1>8
  <2>2. \A h \in ItemsOf(t, k) : h > n => t[h].level # 1
    BY <1>1, <1>3, <1>4, <1>8
  <2>. QED
    BY <1>1, <1>8, <2>1, <2>2 DEF LiveIn
<1>. QED
  BY <1>5, <1>6, <1>7, <1>8 DEF t, n

-----------------------------------------------------------------------------
\* The bindings of a group.

\* The bindings of group g, name by name.
SameBinding(s, t, s2, t2, g, k) ==
  /\ IsBound(s2, t2, g, k) <=> IsBound(s, t, g, k)
  /\ IsBound(s, t, g, k) => Binding(s2, t2, g, k) = Binding(s, t, g, k)

\* Two states give a group the same bindings when they agree on each name.
LEMMA BindSame ==
  ASSUME NEW s, NEW t, NEW g, NEW s2, NEW t2, \A k \in Keys : SameBinding(s, t, s2, t2, g, k)
  PROVE  BindIn(s2, t2, g) = BindIn(s, t, g)
<1>1. { k \in Keys : IsBound(s2, t2, g, k) } = { k \in Keys : IsBound(s, t, g, k) }
  BY DEF SameBinding
<1>. QED
  BY <1>1 DEF BindIn, SameBinding

\* A function without one of its arguments.
Unbound(f, k) == [x \in (DOMAIN f) \ {k} |-> f[x]]

\* When only k changes, g binds it to its new value or does not bind it.
LEMMA BindOne ==
  ASSUME NEW s, NEW t, NEW g, NEW s2, NEW t2, NEW k \in Keys,
         \A n \in Keys : n # k => SameBinding(s, t, s2, t2, g, n)
  PROVE  /\ IsBound(s2, t2, g, k) => BindIn(s2, t2, g) = S!Bound(BindIn(s, t, g), k, Binding(s2, t2, g, k))
         /\ ~IsBound(s2, t2, g, k) => BindIn(s2, t2, g) = Unbound(BindIn(s, t, g), k)
<1>. DEFINE E == { n \in Keys : IsBound(s, t, g, n) }
            E2 == { n \in Keys : IsBound(s2, t2, g, n) }
<1>1. /\ DOMAIN BindIn(s, t, g) = E /\ \A n \in E : BindIn(s, t, g)[n] = Binding(s, t, g, n)
      /\ BindIn(s2, t2, g) = [n \in E2 |-> Binding(s2, t2, g, n)]
  BY DEF BindIn
<1>2. \A n \in Keys : n # k => (n \in E2 <=> n \in E)
  BY DEF SameBinding
<1>3. \A n \in E : n # k => Binding(s2, t2, g, n) = BindIn(s, t, g)[n]
  BY <1>1 DEF SameBinding
<1>4. ASSUME IsBound(s2, t2, g, k)
      PROVE  BindIn(s2, t2, g) = S!Bound(BindIn(s, t, g), k, Binding(s2, t2, g, k))
  <2>1. E2 = E \cup {k}
    BY <1>2, <1>4
  <2>. HIDE DEF E, E2
  <2>. QED
    BY <1>1, <1>3, <2>1 DEF S!Bound
<1>5. ASSUME ~IsBound(s2, t2, g, k)
      PROVE  BindIn(s2, t2, g) = Unbound(BindIn(s, t, g), k)
  <2>1. E2 = E \ {k}
    BY <1>2, <1>5
  <2>. HIDE DEF E, E2
  <2>. QED
    BY <1>1, <1>3, <2>1 DEF Unbound
<1>. QED
  BY <1>4, <1>5

\* An item that k does not see keeps its binding.
LEMMA BindingAppend ==
  ASSUME NEW s \in Seq(Item), NEW x \in Item, NEW t, NEW t2, NEW k \in Keys, t2[k] = t[k],
         LiveOf(Append(s, x), t2, k) = LiveOf(s, t, k)
  PROVE  /\ \A g \in 0..Groups(s) : SameBinding(s, t, Append(s, x), t2, g, k)
         /\ x.type = "boundary" => ~IsBound(Append(s, x), t2, Groups(s) + 1, k)
<1>. DEFINE K == LiveOf(s, t, k)
            c == t[k].val
<1>1. Within(s, K)
  BY LiveAppend DEF LiveOf, Within
<1>2. LiveOf(Append(s, x), t2, k) = K /\ t2[k].val = c
  OBVIOUS
<1>. HIDE DEF K, c
<1>3. /\ \A g \in 0..Groups(s) :
           /\ Binds(Append(s, x), K, g) <=> Binds(s, K, g)
           /\ Binds(s, K, g) => ValueIn(Append(s, x), K, c, g) = ValueIn(s, K, c, g)
      /\ x.type = "boundary" => ~Binds(Append(s, x), K, Groups(s) + 1)
  BY <1>1, BindsAppend
<1>. QED
  BY <1>2, <1>3 DEF SameBinding, IsBound, Binding, K, c

\* What x saves of the names is not looked at: it is no value, or the entry
\* above it is global.
SameLive(s, x, t) == \A k \in Keys : LiveOf(Append(s, x), t, k) = LiveOf(s, t, k)

\* An item is not looked at when it saves no value, or when the entry above
\* it is global.
LEMMA NoValueSameLive ==
  ASSUME NEW s \in Seq(Item), NEW x \in Item, NEW t,
         \A k \in Keys : x.type = "value" /\ x.pos = k => t[k].level = 1
  PROVE  SameLive(s, x, t)
BY LiveAppend DEF SameLive, LiveOf

\* An item that is not a value leaves the bindings as they are.
LEMMA BindAppend ==
  ASSUME NEW s \in Seq(Item), NEW x \in Item, NEW t, SameLive(s, x, t)
  PROVE  /\ \A g \in 0..Groups(s) : BindIn(Append(s, x), t, g) = BindIn(s, t, g)
         /\ x.type = "boundary" => BindIn(Append(s, x), t, Groups(s) + 1) = <<>>
<1>1. \A k \in Keys :
        /\ \A g \in 0..Groups(s) : SameBinding(s, t, Append(s, x), t, g, k)
        /\ x.type = "boundary" => ~IsBound(Append(s, x), t, Groups(s) + 1, k)
  BY BindingAppend DEF SameLive
<1>2. \A g \in 0..Groups(s) : BindIn(Append(s, x), t, g) = BindIn(s, t, g)
  BY <1>1, BindSame
<1>3. ASSUME x.type = "boundary" PROVE BindIn(Append(s, x), t, Groups(s) + 1) = <<>>
  <2>1. { k \in Keys : IsBound(Append(s, x), t, Groups(s) + 1, k) } = {}
    BY <1>1, <1>3
  <2>. QED
    BY <2>1 DEF BindIn
<1>. QED
  BY <1>2, <1>3

\* In the table t2, x saves what t says of k.
Saves(s, t, x, t2, k) ==
  /\ x.type = "value" /\ x.pos = k /\ x.val = t[k].val
  /\ LiveOf(Append(s, x), t2, k) = LiveOf(s, t, k) \cup {Len(s) + 1}
  /\ \A n \in Keys : n # k => t2[n] = t[n]

\* A saved value is found again by the groups below the one in which it was
\* pushed; this one binds the name.
LEMMA BindPush ==
  ASSUME NEW s \in Seq(Item), NEW x \in Item, NEW t, NEW t2, NEW k \in Keys,
         Saves(s, t, x, t2, k), NEW v, v = t2[k].val
  PROVE  /\ \A g \in 0..Groups(s) : g # Groups(s) => BindIn(Append(s, x), t2, g) = BindIn(s, t, g)
         /\ Groups(s) # 0 => BindIn(Append(s, x), t2, Groups(s)) = S!Bound(BindIn(s, t, Groups(s)), k, v)
<1>0. /\ x.type = "value" /\ x.pos = k /\ x.val = t[k].val
      /\ LiveOf(Append(s, x), t2, k) = LiveOf(s, t, k) \cup {Len(s) + 1}
      /\ \A n \in Keys : n # k => t2[n] = t[n]
  BY DEF Saves
<1>. DEFINE u == Append(s, x)
            G == Groups(s)
            L(n) == LiveOf(s, t, n)
<1>1. \A n \in Keys : /\ LiveOf(u, t2, n) = IF n = k THEN L(n) \cup {Len(s) + 1} ELSE L(n)
                      /\ L(n) \in SUBSET (1..Len(s))
  BY <1>0, LiveAppend DEF LiveOf
<1>. HIDE DEF L
<1>2. G \in 0..G
  BY GroupsAppend
<1>3. \A n \in Keys : n # k => \A g \in 0..G : SameBinding(s, t, u, t2, g, n)
  <2>1. \A n \in Keys : n # k => LiveOf(u, t2, n) = LiveOf(s, t, n) /\ t2[n] = t[n]
    BY <1>0, LiveAppend DEF LiveOf
  <2>. QED
    BY <2>1, BindingAppend
<1>4. /\ \A g \in 0..G : g # G =>
           /\ Binds(u, LiveOf(u, t2, k), g) <=> Binds(s, L(k), g)
           /\ Binds(s, L(k), g) => ValueIn(u, LiveOf(u, t2, k), t2[k].val, g) = ValueIn(s, L(k), t[k].val, g)
      /\ G # 0 => /\ Binds(u, LiveOf(u, t2, k), G)
                  /\ ValueIn(u, LiveOf(u, t2, k), t2[k].val, G) = t2[k].val
  <2>. DEFINE K == L(k)
              L2 == LiveOf(u, t2, k)
              c == t2[k].val
              n == Len(s) + 1
              B(g) == K \cap PlacesIn(s, g)
              w == x.val
  <2>0. Len(s) \in Nat /\ G \in Nat
    BY GroupsAppend
  <2>00. L2 = K \cup {n} /\ K \in SUBSET (1..Len(s)) /\ x.type # "boundary" /\ w = t[k].val
    BY <1>0, <1>1
  <2>. HIDE DEF K, L2, c
  <2>1. \A g \in 0..G : /\ PlacesIn(u, g) = IF g = G THEN PlacesIn(s, g) \cup {n} ELSE PlacesIn(s, g)
                        /\ PlacesIn(s, g) \in SUBSET (1..Len(s))
    BY <2>00, PlacesAppend
  <2>2. /\ \A i \in 0..Len(s) : Hidden(u, L2, c, i) = Hidden(s, K, w, i)
        /\ Hidden(u, L2, c, n) = c
    <3>1. w = x.val /\ Within(s, K) /\ L2 = WithTop(s, K)
      BY <2>00 DEF Within, WithTop
    <3>. HIDE DEF w
    <3>. QED
      BY <3>1, HiddenPush
  <2>3. n \notin K
    BY <2>0, <2>00
  <2>. HIDE DEF u, n, G, w
  <2>4. \A g \in 0..G : g # G => L2 \cap PlacesIn(u, g) = B(g)
    <3>. TAKE g \in 0..G
    <3>. HAVE g # G
    <3>1. n \notin PlacesIn(s, g)
      BY <2>0, <2>00, <2>1 DEF n
    <3>. QED
      BY <2>0, <2>00, <2>1, <2>3, <3>1
  <2>5. ASSUME NEW g, Binds(s, K, g)
        PROVE  (IF g = 0 THEN 0 ELSE Max(B(g))) \in 0..Len(s)
    <3>1. CASE g = 0
      BY <2>0, <2>00, <3>1
    <3>2. CASE g # 0
      <4>0. B(g) \in SUBSET (1..Len(s)) /\ B(g) # {}
        BY <2>00, <2>5, <3>2 DEF Binds
      <4>1. Max(B(g)) \in B(g)
        BY <2>0, <2>00, <4>0, GreatestPosition
      <4>. QED
        BY <2>0, <2>00, <3>2, <4>0, <4>1
    <3>. QED
      BY <3>1, <3>2
  <2>6. ASSUME NEW g \in 0..G, g # G
        PROVE  /\ Binds(u, L2, g) <=> Binds(s, K, g)
               /\ Binds(s, K, g) => ValueIn(u, L2, c, g) = ValueIn(s, K, w, g)
    <3>. HIDE DEF B
    <3>1. L2 \cap PlacesIn(u, g) = B(g) /\ K \cap PlacesIn(s, g) = B(g)
      BY <2>4, <2>6 DEF B
    <3>. QED
      BY <2>2, <2>5, <3>1 DEF ValueIn, Binds
  <2>7. ASSUME G # 0 PROVE Binds(u, L2, G) /\ ValueIn(u, L2, c, G) = c
    <3>0. G \in 0..G
      BY <2>0, <2>00
    <3>1. L2 \cap PlacesIn(u, G) = B(G) \cup {n}
      BY <2>0, <2>00, <2>1, <2>3, <3>0
    <3>2. Max(B(G) \cup {n}) = n
      <4>1. B(G) \in SUBSET (1..Len(s))
        BY <2>0, <2>00
      <4>. HIDE DEF B
      <4>. QED
        BY <2>0, <2>00, <4>1, MaxOfNext DEF n
    <3>. QED
      BY <2>2, <2>7, <3>1, <3>2 DEF ValueIn, Binds
  <2>. QED
    BY <2>00, <2>6, <2>7 DEF K, L2, c
<1>. HIDE DEF u, G
<1>5. ASSUME NEW g \in 0..G, g # G PROVE BindIn(u, t2, g) = BindIn(s, t, g)
  <2>1. \A n \in Keys : SameBinding(s, t, u, t2, g, n)
    BY <1>3, <1>4, <1>5 DEF L, SameBinding, IsBound, Binding
  <2>. QED
    BY <2>1, BindSame
<1>6. ASSUME G # 0 PROVE BindIn(u, t2, G) = S!Bound(BindIn(s, t, G), k, v)
  <2>1. \A n \in Keys : n # k => SameBinding(s, t, u, t2, G, n)
    BY <1>2, <1>3 DEF L, SameBinding, IsBound, Binding
  <2>2. IsBound(u, t2, G, k) /\ Binding(u, t2, G, k) = v
    BY <1>4, <1>6 DEF IsBound, Binding
  <2>3. BindIn(u, t2, G) = S!Bound(BindIn(s, t, G), k, Binding(u, t2, G, k))
    BY <2>1, <2>2, BindOne
  <2>. QED
    BY <2>2, <2>3
<1>. QED
  BY <1>5, <1>6 DEF u, G

\* The entry that the destructor of a value writes is the one it saved.
LEMMA RestoredSaves ==
  ASSUME NEW s \in Seq(Item), NEW x \in Item, x.type = "value", NEW t \in Table, t[x.pos].level # 1
  PROVE  x.pos \in Keys /\ Saves(s, Defined(t, x.pos, x.val, x.level), x, t, x.pos)
<1>. DEFINE k == x.pos
            t2 == Defined(t, k, x.val, x.level)
<1>1. k \in Keys
  BY DEF Item
<1>2. t2[k].val = x.val /\ t2[k].level = x.level /\ \A n \in Keys : n # k => t[n] = t2[n]
  BY <1>1 DEF Defined, Table
<1>3. x.type = "value" /\ x.pos = k
  OBVIOUS
<1>4. LiveIn(Append(s, x), k) = IF x.level = 1 THEN {Len(s) + 1} ELSE LiveIn(s, k) \cup {Len(s) + 1}
  BY <1>3, LiveAppend
<1>5. t[k].level # 1
  OBVIOUS
<1>. HIDE DEF k, t2
<1>6. LiveOf(Append(s, x), t, k) = LiveOf(s, t2, k) \cup {Len(s) + 1}
  BY <1>2, <1>4, <1>5 DEF LiveOf
<1>7. Saves(s, t2, x, t, k)
  BY <1>2, <1>3, <1>6 DEF Saves
<1>. QED
  BY <1>1, <1>7 DEF k, t2

-----------------------------------------------------------------------------
\* Assignments.

\* The innermost group that binds k.
HomeOf(s, t, k) == HomeIn(s, LiveOf(s, t, k))

\* What the chain of k says of the groups that bind it.
LEMMA ChainHome ==
  ASSUME NEW s \in Seq(Item), NEW t \in Table, NEW k \in Keys, NEW l, Chain(s, k, t[k].level, l)
  PROVE  /\ Within(s, LiveOf(s, t, k))
         /\ \A i \in LiveOf(s, t, k) : GroupIn(s, i) # 0
         /\ t[k].level > 1 => HomeOf(s, t, k) = t[k].level - 1
<1>. DEFINE e == t[k].level
            I == ItemsOf(s, k)
            L == LiveIn(s, k)
<1>0. e \in Nat /\ Len(s) \in Nat
  BY LenProperties DEF Table
<1>1. /\ I \in SUBSET (1..Len(s)) /\ L \in SUBSET I
      /\ \A i : GroupIn(s, i) \in Nat
      /\ \A i \in I : i \in Nat
  <2>1. I \in SUBSET (1..Len(s)) /\ L \in SUBSET I
    BY <1>0, LenProperties DEF ItemsOf, LiveIn
  <2>2. \A i : GroupIn(s, i) \in Nat
    BY GroupType
  <2>. HIDE DEF I, L
  <2>. QED
    BY <1>0, <2>1, <2>2
<1>2. Within(s, LiveOf(s, t, k))
  BY <1>1 DEF LiveOf, Within
<1>3. ASSUME NEW i \in LiveOf(s, t, k) PROVE GroupIn(s, i) # 0
  <2>1. e # 1 /\ i \in L /\ i \in I
    BY <1>1, <1>3 DEF LiveOf
  <2>. DEFINE A == { h \in I : h > i }
  <2>2. CASE A = {}
    <3>1. \A j \in I : j <= i
      BY <1>1, <2>1, <2>2
    <3>2. e = 1 + GroupIn(s, i)
      BY <2>1, <3>1 DEF Chain
    <3>. QED
      BY <1>1, <2>1, <3>2
  <2>3. CASE A # {}
    <3>. DEFINE j == Min(A)
    <3>0. A \in SUBSET Nat
      BY <1>1
    <3>1. j \in A /\ \A h \in A : j <= h
      BY <2>3, <3>0, LeastPosition
    <3>. HIDE DEF j
    <3>2. j \in I /\ i < j /\ j \in Nat /\ i \in Nat
      BY <1>1, <2>1, <3>1
    <3>3. NextItem(s, k, i, j)
      <4>. SUFFICES ASSUME NEW h \in I PROVE h <= i \/ j <= h
        BY <3>2 DEF NextItem
      <4>1. h \in Nat /\ (h > i => h \in A)
        BY <1>1
      <4>. QED
        BY <3>1, <3>2, <4>1
    <3>4. j \in L
      <4>1. \A h \in I : h > j => h > i
        BY <1>1, <3>2
      <4>2. \A h \in I : h > i => s[h].level # 1
        BY <2>1 DEF LiveIn
      <4>. QED
        BY <3>2, <4>1, <4>2 DEF LiveIn
    <3>5. s[j].level = 1 + GroupIn(s, i)
      BY <2>1, <3>3, <3>4 DEF Chain
    <3>6. s[j].level # 1
      BY <2>1, <3>2 DEF LiveIn
    <3>. QED
      BY <1>1, <3>5, <3>6
  <2>. QED
    BY <2>2, <2>3
<1>4. ASSUME e > 1 PROVE HomeOf(s, t, k) = e - 1
  <2>1. I # {} /\ LiveOf(s, t, k) = L /\ e # 1
    BY <1>0, <1>4 DEF Chain, LiveOf
  <2>. DEFINE m == Max(I)
  <2>2. m \in I /\ \A i \in I : i <= m
    <3>. HIDE DEF I
    <3>. QED
      BY <1>0, <1>1, <2>1, GreatestPosition
  <2>. HIDE DEF m
  <2>3. e = 1 + GroupIn(s, m)
    BY <2>1, <2>2 DEF Chain
  <2>4. m \in L
    <3>1. \A h \in I : ~(h > m)
      BY <1>1, <2>2
    <3>. QED
      BY <2>2, <3>1 DEF LiveIn
  <2>5. Max(L) = m
    <3>. HIDE DEF I, L
    <3>1. L \in SUBSET (1..Len(s)) /\ \A i \in L : i <= m
      BY <1>1, <2>2
    <3>. QED
      BY <1>0, <2>4, <3>1, MaxIs
  <2>. QED
    BY <1>0, <1>1, <2>1, <2>3, <2>4, <2>5 DEF HomeOf, HomeIn
<1>. QED
  BY <1>2, <1>3, <1>4

\* The value of k is given by its home.
LEMMA HomeBinds ==
  ASSUME NEW s \in Seq(Item), NEW t \in Table, NEW k \in Keys, NEW l, Chain(s, k, t[k].level, l)
  PROVE  /\ HomeOf(s, t, k) \in 0..Groups(s)
         /\ IsBound(s, t, HomeOf(s, t, k), k)
         /\ Binding(s, t, HomeOf(s, t, k), k) = t[k].val
         /\ \A g \in 0..Groups(s) : g > HomeOf(s, t, k) => ~IsBound(s, t, g, k)
<1>. DEFINE K == LiveOf(s, t, k)
            c == t[k].val
<1>1. Within(s, K) /\ \A i \in K : GroupIn(s, i) # 0
  BY ChainHome
<1>. HIDE DEF K, c
<1>2. /\ HomeIn(s, K) \in 0..Groups(s) /\ Binds(s, K, HomeIn(s, K))
      /\ ValueIn(s, K, c, HomeIn(s, K)) = c
      /\ \A g \in 0..Groups(s) : g > HomeIn(s, K) => ~Binds(s, K, g)
  BY <1>1, ValueInPlace
<1>. QED
  BY <1>2 DEF HomeOf, IsBound, Binding, K, c

\* t2 is t but for the value of k, and t but for a global entry of k.
InPlace(t, t2, k, v) ==
  v = t2[k].val /\ t2[k].level = t[k].level /\ \A n \in Keys : n # k => t2[n] = t[n]
Globally(t, t2, k, v) ==
  v = t2[k].val /\ t2[k].level = 1 /\ \A n \in Keys : n # k => t2[n] = t[n]

\* A value that is overwritten in place changes in its home.
LEMMA BindInPlace ==
  ASSUME NEW s \in Seq(Item), NEW t \in Table, NEW k \in Keys, NEW l, Chain(s, k, t[k].level, l),
         NEW t2, NEW v, InPlace(t, t2, k, v)
  PROVE  \A g \in 0..Groups(s) :
           BindIn(s, t2, g) = IF g = HomeOf(s, t, k) THEN S!Bound(BindIn(s, t, g), k, v) ELSE BindIn(s, t, g)
<1>. DEFINE K == LiveOf(s, t, k)
            c == t[k].val
            H == HomeOf(s, t, k)
<1>0. v = t2[k].val /\ t2[k].level = t[k].level /\ \A n \in Keys : n # k => t2[n] = t[n]
  BY DEF InPlace
<1>1. Within(s, K) /\ \A i \in K : GroupIn(s, i) # 0
  BY ChainHome
<1>2. LiveOf(s, t2, k) = K /\ \A n \in Keys : n # k => LiveOf(s, t2, n) = LiveOf(s, t, n)
  BY <1>0 DEF LiveOf
<1>3. H = HomeIn(s, K) /\ t[k].val = c
  BY DEF HomeOf
<1>. HIDE DEF K, c, H
<1>4. /\ H \in 0..Groups(s) /\ Binds(s, K, H) /\ ValueIn(s, K, v, H) = v
      /\ \A g \in 0..Groups(s) : g # H /\ Binds(s, K, g) => ValueIn(s, K, v, g) = ValueIn(s, K, c, g)
  BY <1>1, <1>3, ValueInPlace
<1>5. \A n \in Keys : n # k => \A g : SameBinding(s, t, s, t2, g, n)
  BY <1>0, <1>2 DEF SameBinding, IsBound, Binding
<1>6. IsBound(s, t2, H, k) /\ Binding(s, t2, H, k) = v
  BY <1>0, <1>2, <1>4 DEF IsBound, Binding
<1>7. \A g \in 0..Groups(s) : g # H => SameBinding(s, t, s, t2, g, k)
  BY <1>0, <1>2, <1>3, <1>4 DEF SameBinding, IsBound, Binding, K
<1>8. BindIn(s, t2, H) = S!Bound(BindIn(s, t, H), k, v)
  <2>1. BindIn(s, t2, H) = S!Bound(BindIn(s, t, H), k, Binding(s, t2, H, k))
    BY <1>5, <1>6, BindOne
  <2>. QED
    BY <1>6, <2>1
<1>9. \A g \in 0..Groups(s) : g # H => BindIn(s, t2, g) = BindIn(s, t, g)
  <2>. TAKE g \in 0..Groups(s)
  <2>. HAVE g # H
  <2>1. \A n \in Keys : SameBinding(s, t, s, t2, g, n)
    BY <1>5, <1>7
  <2>. QED
    BY <2>1, BindSame
<1>. QED
  BY <1>8, <1>9 DEF H

\* A global assignment binds the name in the outermost group, and only there.
LEMMA BindGlobal ==
  ASSUME NEW s \in Seq(Item), NEW t, NEW k \in Keys, NEW t2, NEW v, Globally(t, t2, k, v)
  PROVE  \A g \in 0..Groups(s) :
           BindIn(s, t2, g) = IF g = 0 THEN S!Bound(BindIn(s, t, g), k, v) ELSE Unbound(BindIn(s, t, g), k)
<1>0. v = t2[k].val /\ t2[k].level = 1 /\ \A n \in Keys : n # k => t2[n] = t[n]
  BY DEF Globally
<1>1. LiveOf(s, t2, k) = {} /\ \A n \in Keys : n # k => LiveOf(s, t2, n) = LiveOf(s, t, n)
  BY <1>0 DEF LiveOf
<1>2. \A n \in Keys : n # k => \A g : SameBinding(s, t, s, t2, g, n)
  BY <1>0, <1>1 DEF SameBinding, IsBound, Binding
<1>3. IsBound(s, t2, 0, k) /\ Binding(s, t2, 0, k) = v
  BY <1>0, <1>1 DEF IsBound, Binding, Binds, ValueIn, Hidden
<1>4. \A g : g # 0 => ~IsBound(s, t2, g, k)
  BY <1>1 DEF IsBound, Binds
<1>5. BindIn(s, t2, 0) = S!Bound(BindIn(s, t, 0), k, v)
  <2>1. BindIn(s, t2, 0) = S!Bound(BindIn(s, t, 0), k, Binding(s, t2, 0, k))
    BY <1>2, <1>3, BindOne
  <2>. QED
    BY <1>3, <2>1
<1>6. \A g : g # 0 => BindIn(s, t2, g) = Unbound(BindIn(s, t, g), k)
  <2>. SUFFICES ASSUME NEW g, g # 0 PROVE BindIn(s, t2, g) = Unbound(BindIn(s, t, g), k)
    OBVIOUS
  <2>1. \A n \in Keys : n # k => SameBinding(s, t, s, t2, g, n)
    BY <1>2
  <2>2. ~IsBound(s, t2, g, k)
    BY <1>4
  <2>. QED
    BY <2>1, <2>2, BindOne
<1>. QED
  BY <1>5, <1>6

\* A local assignment binds the name in the innermost group.
LEMMA BindLocal ==
  ASSUME NEW s \in Seq(Item), NEW t \in Table, NEW k \in Keys, NEW v \in Values,
         NEW l, l = 1 + Groups(s), Chain(s, k, t[k].level, l)
  PROVE  \A g \in 0..Groups(s) :
           BindIn(Pushed(s, t, k, l), Defined(t, k, v, l), g) =
             IF g = Groups(s) THEN S!Bound(BindIn(s, t, g), k, v) ELSE BindIn(s, t, g)
<1>. DEFINE t2 == Defined(t, k, v, l)
            e == t[k].level
<1>0. Groups(s) \in Nat /\ l \in Nat /\ l >= 1 /\ e \in Nat /\ e <= l
  BY BoundariesFinite DEF Groups, Table, Chain
<1>1. t2[k].val = v /\ t2[k].level = l /\ \A n \in Keys : n # k => t2[n] = t[n]
  BY DEF Table, Defined
<1>. HIDE DEF t2
<1>2. CASE l = 1
  <2>1. Pushed(s, t, k, l) = s /\ Groups(s) = 0
    BY <1>0, <1>2 DEF Pushed, must_push
  <2>0. Globally(t, t2, k, v)
    BY <1>1, <1>2 DEF Globally
  <2>2. BindIn(s, t2, 0) = S!Bound(BindIn(s, t, 0), k, v)
    BY <1>0, <2>0, <2>1, BindGlobal
  <2>. QED
    BY <1>0, <2>1, <2>2 DEF t2
<1>3. CASE l # 1 /\ e = l
  <2>1. Pushed(s, t, k, l) = s
    BY <1>3 DEF Pushed, must_push
  <2>2. HomeOf(s, t, k) = Groups(s)
    <3>1. t[k].level > 1 /\ t[k].level = 1 + Groups(s)
      BY <1>0, <1>3
    <3>2. HomeOf(s, t, k) = t[k].level - 1
      BY <3>1, ChainHome
    <3>. QED
      BY <1>0, <3>1, <3>2
  <2>3. \A g \in 0..Groups(s) :
           BindIn(s, t2, g) = IF g = HomeOf(s, t, k) THEN S!Bound(BindIn(s, t, g), k, v) ELSE BindIn(s, t, g)
    <3>1. InPlace(t, t2, k, v)
      BY <1>1, <1>3 DEF InPlace
    <3>. QED
      BY <1>3, <3>1, BindInPlace
  <2>. QED
    BY <2>1, <2>2, <2>3 DEF t2
<1>4. CASE l # 1 /\ e # l
  <2>. DEFINE x == SavedValue(k, t[k])
  <2>1. Pushed(s, t, k, l) = Append(s, x) /\ x \in Item /\ Groups(s) # 0
    <3>1. x \in Item
      BY DEF Table, Item, SavedValue
    <3>. QED
      BY <1>0, <1>4, <3>1 DEF Pushed, must_push
  <2>2. x.type = "value" /\ x.pos = k /\ x.val = t[k].val /\ x.level = e
    BY DEF SavedValue
  <2>. HIDE DEF x
  <2>3. Saves(s, t, x, t2, k)
    <3>1. LiveOf(Append(s, x), t2, k) = LiveIn(Append(s, x), k)
      BY <1>1, <1>4 DEF LiveOf
    <3>2. LiveIn(Append(s, x), k) = IF e = 1 THEN {Len(s) + 1} ELSE LiveIn(s, k) \cup {Len(s) + 1}
      <4>1. x.type = "value" /\ x.pos = k
        BY <2>2
      <4>2. LiveIn(Append(s, x), k) = IF x.level = 1 THEN {Len(s) + 1} ELSE LiveIn(s, k) \cup {Len(s) + 1}
        BY <2>1, <4>1, LiveAppend
      <4>. QED
        BY <2>2, <4>2
    <3>. QED
      BY <1>1, <2>2, <3>1, <3>2 DEF Saves, LiveOf
  <2>4. /\ \A g \in 0..Groups(s) : g # Groups(s) => BindIn(Append(s, x), t2, g) = BindIn(s, t, g)
        /\ Groups(s) # 0 => BindIn(Append(s, x), t2, Groups(s)) = S!Bound(BindIn(s, t, Groups(s)), k, v)
    BY <1>1, <2>1, <2>3, BindPush
  <2>. QED
    BY <2>1, <2>4 DEF t2
<1>. QED
  BY <1>2, <1>3, <1>4

-----------------------------------------------------------------------------
\* What a push does to the scope of a group.

\* An item changes one part of the scope of the innermost group.
LEMMA PartsAppend ==
  ASSUME NEW s \in Seq(Item), NEW x \in Item, NEW t, NEW f, NEW g \in 0..Groups(s)
  PROVE  /\ KindIn(Append(s, x), g) = KindIn(s, g)
         /\ x.type # "env" => NameIn(Append(s, x), g) = NameIn(s, g)
         /\ x.type # "value" => BindIn(Append(s, x), t, g) = BindIn(s, t, g)
         /\ x.type # "font" => FontIn(Append(s, x), f, g) = FontIn(s, f, g)
         /\ x.type # "save" => AfterIn(Append(s, x), g) = AfterIn(s, g)
         /\ x.type # "box_end" => BoxIn(Append(s, x), g) = BoxIn(s, g)
<1>1. KindIn(Append(s, x), g) = KindIn(s, g)
  BY KindAppend
<1>2. x.type # "env" => NameIn(Append(s, x), g) = NameIn(s, g)
  BY NameAppend
<1>3. ASSUME x.type # "value" PROVE BindIn(Append(s, x), t, g) = BindIn(s, t, g)
  <2>1. SameLive(s, x, t)
    BY <1>3, NoValueSameLive
  <2>. QED
    BY <2>1, BindAppend
<1>4. x.type # "font" => FontIn(Append(s, x), f, g) = FontIn(s, f, g)
  BY FontAppend
<1>5. x.type # "save" => AfterIn(Append(s, x), g) = AfterIn(s, g)
  BY AfterAppend
<1>6. x.type # "box_end" => BoxIn(Append(s, x), g) = BoxIn(s, g)
  BY BoxAppend
<1>. QED
  BY <1>1, <1>2, <1>3, <1>4, <1>5, <1>6

\* A new group starts with nothing.
LEMMA ViewBoundary ==
  ASSUME NEW s \in Seq(Item), NEW x \in Item, x.type = "boundary", NEW v, v = x.val, NEW t, NEW f
  PROVE  /\ \A g \in 0..Groups(s) : ViewOf(Append(s, x), t, f, g) = ViewOf(s, t, f, g)
         /\ ViewOf(Append(s, x), t, f, Groups(s) + 1) = S!Scope(v, NoEnv, NoBox)
<1>1. \A g \in 0..Groups(s) : ViewOf(Append(s, x), t, f, g) = ViewOf(s, t, f, g)
  BY PartsAppend DEF ViewOf
<1>2. SameLive(s, x, t)
  BY NoValueSameLive
<1>3. /\ KindIn(Append(s, x), Groups(s) + 1) = v
      /\ NameIn(Append(s, x), Groups(s) + 1) = NoEnv
      /\ BindIn(Append(s, x), t, Groups(s) + 1) = <<>>
      /\ FontIn(Append(s, x), f, Groups(s) + 1) = NoFont
      /\ AfterIn(Append(s, x), Groups(s) + 1) = <<>>
      /\ BoxIn(Append(s, x), Groups(s) + 1) = NoBox
  BY <1>2, KindAppend, NameAppend, BindAppend, FontAppend, AfterAppend, BoxAppend
<1>. QED
  BY <1>1, <1>3 DEF ViewOf, S!Scope

\* An environment names its group.
LEMMA ViewEnv ==
  ASSUME NEW s \in Seq(Item), NEW x \in Item, x.type = "env", NEW t, NEW f
  PROVE  \A g \in 0..Groups(s) :
           ViewOf(Append(s, x), t, f, g) =
             IF g = Groups(s) THEN [ViewOf(s, t, f, g) EXCEPT !.name = x.name] ELSE ViewOf(s, t, f, g)
<1>1. \A g \in 0..Groups(s) : NameIn(Append(s, x), g) = IF g = Groups(s) THEN x.name ELSE NameIn(s, g)
  BY NameAppend
<1>. QED
  BY <1>1, PartsAppend DEF ViewOf

\* A box belongs to its group.
LEMMA ViewBoxEnd ==
  ASSUME NEW s \in Seq(Item), NEW x \in Item, x.type = "box_end", Groups(s) # 0, NEW t, NEW f
  PROVE  /\ \A g \in 0..Groups(s) :
              ViewOf(Append(s, x), t, f, g) =
                IF g = Groups(s) THEN [ViewOf(s, t, f, g) EXCEPT !.box = x.box] ELSE ViewOf(s, t, f, g)
         /\ BoxIn(Append(s, x), Groups(s)) = x.box
<1>1. \A g \in 0..Groups(s) : BoxIn(Append(s, x), g) = IF g = Groups(s) THEN x.box ELSE BoxIn(s, g)
  BY BoxAppend
<1>2. Groups(s) \in 0..Groups(s)
  BY GroupsAppend
<1>. QED
  BY <1>1, <1>2, PartsAppend DEF ViewOf

\* A token of \aftergroup comes after the others of its group.
LEMMA SavedToken ==
  ASSUME NEW s \in Seq(Item), NEW x \in Item, x.type = "save", NEW v, v = x.val
  PROVE  /\ AfterIn(Append(s, x), Groups(s)) = Append(AfterIn(s, Groups(s)), <<"plain", v>>)
         /\ AfterIn(s, Groups(s)) \in Seq(InputToken) /\ <<"plain", v>> \in InputToken
<1>1. Groups(s) \in 0..Groups(s)
  BY GroupsAppend
<1>. QED
  BY <1>1, AfterAppend

\* A saved value concerns the bindings only.
LEMMA ViewValue ==
  ASSUME NEW s \in Seq(Item), NEW x \in Item, x.type = "value", NEW t, NEW t2, NEW f
  PROVE  \A g \in 0..Groups(s) :
           ViewOf(Append(s, x), t2, f, g) = [ViewOf(s, t, f, g) EXCEPT !.bind = BindIn(Append(s, x), t2, g)]
BY PartsAppend DEF ViewOf

\* The scope of a group, when only its bindings change.
LEMMA ViewBind ==
  ASSUME NEW s, NEW t, NEW f, NEW t2, NEW g
  PROVE  /\ ViewOf(s, t, f, g).bind = BindIn(s, t, g)
         /\ ViewOf(s, t2, f, g) = [ViewOf(s, t, f, g) EXCEPT !.bind = BindIn(s, t2, g)]
BY DEF ViewOf

\* The groups around the one in which x was pushed are seen in the same way
\* with x, and without it in the table t2 with the font f2.
AlikeBelow(s, x, t, f, t2, f2) ==
  \A g \in 0..Groups(s) : g # Groups(s) => ViewOf(Append(s, x), t, f, g) = ViewOf(s, t2, f2, g)

\* This is so for every item that a turn of pop_level takes away, with the
\* table and the font that its destructor leaves.
LEMMA PoppedViews ==
  ASSUME NEW s \in Seq(Item), NEW x \in Item, NEW t, NEW f
  PROVE  /\ x.type \notin {"value", "font"} => AlikeBelow(s, x, t, f, t, f)
         /\ \A v : x.type = "font" /\ v = x.val => AlikeBelow(s, x, t, f, t, v)
         /\ x.type = "value" /\ SameLive(s, x, t) => AlikeBelow(s, x, t, f, t, f)
         /\ \A t2 : \A k \in Keys : Saves(s, t2, x, t, k) => AlikeBelow(s, x, t, f, t2, f)
<1>1. ASSUME NEW g \in 0..Groups(s), g # Groups(s)
      PROVE  /\ KindIn(Append(s, x), g) = KindIn(s, g)
             /\ NameIn(Append(s, x), g) = NameIn(s, g)
             /\ AfterIn(Append(s, x), g) = AfterIn(s, g)
             /\ BoxIn(Append(s, x), g) = BoxIn(s, g)
             /\ x.type # "font" => FontIn(Append(s, x), f, g) = FontIn(s, f, g)
             /\ x.type # "value" => BindIn(Append(s, x), t, g) = BindIn(s, t, g)
  <2>1. KindIn(Append(s, x), g) = KindIn(s, g)
    BY KindAppend
  <2>2. NameIn(Append(s, x), g) = NameIn(s, g)
    BY <1>1, NameAppend
  <2>3. AfterIn(Append(s, x), g) = AfterIn(s, g)
    BY <1>1, AfterAppend
  <2>4. BoxIn(Append(s, x), g) = BoxIn(s, g)
    BY <1>1, BoxAppend
  <2>. QED
    BY <2>1, <2>2, <2>3, <2>4, PartsAppend
<1>2. x.type \notin {"value", "font"} => AlikeBelow(s, x, t, f, t, f)
  BY <1>1 DEF AlikeBelow, ViewOf
<1>3. ASSUME NEW v, x.type = "font", v = x.val PROVE AlikeBelow(s, x, t, f, t, v)
  <2>1. \A g \in 0..Groups(s) : g # Groups(s) => FontIn(Append(s, x), f, g) = FontIn(s, v, g)
    BY <1>3, FontAppend
  <2>2. x.type # "value"
    BY <1>3
  <2>. QED
    BY <1>1, <2>1, <2>2 DEF AlikeBelow, ViewOf
<1>4. ASSUME NEW t2, x.type = "value",
             \A g \in 0..Groups(s) : g # Groups(s) => BindIn(Append(s, x), t, g) = BindIn(s, t2, g)
      PROVE  AlikeBelow(s, x, t, f, t2, f)
  <2>1. x.type # "font"
    BY <1>4
  <2>. QED
    BY <1>1, <1>4, <2>1 DEF AlikeBelow, ViewOf
<1>5. ASSUME x.type = "value", SameLive(s, x, t) PROVE AlikeBelow(s, x, t, f, t, f)
  <2>1. \A g \in 0..Groups(s) : BindIn(Append(s, x), t, g) = BindIn(s, t, g)
    BY <1>5, BindAppend
  <2>. QED
    BY <1>4, <1>5, <2>1
<1>6. ASSUME NEW t2, NEW k \in Keys, Saves(s, t2, x, t, k) PROVE AlikeBelow(s, x, t, f, t2, f)
  <2>1. \A g \in 0..Groups(s) : g # Groups(s) => BindIn(Append(s, x), t, g) = BindIn(s, t2, g)
    <3>. DEFINE v == t[k].val
    <3>1. v = t[k].val
      OBVIOUS
    <3>. HIDE DEF v
    <3>. QED
      BY <1>6, <3>1, BindPush
  <2>2. x.type = "value"
    BY <1>6 DEF Saves
  <2>. QED
    BY <1>4, <2>1, <2>2
<1>. QED
  BY <1>2, <1>3, <1>5, <1>6

-----------------------------------------------------------------------------
\* The sequence of the scopes.

\* The scopes of the m outermost groups, the outer one first.
ScopesOf(s, t, f, m) == [n \in 1..m |-> ViewOf(s, t, f, n - 1)]

\* The sequence of scopes has one element for each group.
LEMMA ScopesAt ==
  ASSUME NEW s, NEW t, NEW f, NEW m \in Nat
  PROVE  /\ DOMAIN ScopesOf(s, t, f, m) = 1..m
         /\ Len(ScopesOf(s, t, f, m)) = m
         /\ \A n \in 1..m : ScopesOf(s, t, f, m)[n] = ViewOf(s, t, f, n - 1)
         /\ \A I : (\A n \in 1..m : ViewOf(s, t, f, n - 1) \in I) => ScopesOf(s, t, f, m) \in Seq(I)
<1>. DEFINE A == ScopesOf(s, t, f, m)
<1>1. DOMAIN A = 1..m /\ \A n \in 1..m : A[n] = ViewOf(s, t, f, n - 1)
  BY DEF ScopesOf
<1>2. A = [n \in 1..m |-> A[n]]
  BY DEF ScopesOf
<1>. HIDE DEF A
<1>3. ASSUME NEW I, \A n \in 1..m : ViewOf(s, t, f, n - 1) \in I PROVE A \in Seq(I) /\ Len(A) = m
  <2>1. A \in [1..m -> I]
    BY <1>1, <1>2, <1>3
  <2>. QED
    BY <2>1, LenProperties
<1>4. Len(A) = m
  <2>. DEFINE I == { ViewOf(s, t, f, n - 1) : n \in 1..m }
  <2>1. \A n \in 1..m : ViewOf(s, t, f, n - 1) \in I
    OBVIOUS
  <2>. HIDE DEF I
  <2>. QED
    BY <1>3, <2>1
<1>. QED
  BY <1>1, <1>3, <1>4 DEF A

\* Two states with the same scope for each group have the same scopes.
LEMMA ScopesSame ==
  ASSUME NEW m \in Nat, NEW s, NEW t, NEW f, NEW s2, NEW t2, NEW f2,
         \A g \in 0..(m - 1) : ViewOf(s2, t2, f2, g) = ViewOf(s, t, f, g)
  PROVE  ScopesOf(s2, t2, f2, m) = ScopesOf(s, t, f, m)
<1>1. \A n \in 1..m : ViewOf(s2, t2, f2, n - 1) = ViewOf(s, t, f, n - 1)
  <2>. TAKE n \in 1..m
  <2>1. n - 1 \in 0..(m - 1)
    OBVIOUS
  <2>. QED
    BY <2>1
<1>. QED
  BY <1>1 DEF ScopesOf

\* One group more is one scope more.
LEMMA ScopesPush ==
  ASSUME NEW m \in Nat, NEW s, NEW t, NEW f, NEW s2, NEW t2, NEW f2,
         \A g \in 0..(m - 1) : ViewOf(s2, t2, f2, g) = ViewOf(s, t, f, g)
  PROVE  /\ ScopesOf(s2, t2, f2, m + 1) = Append(ScopesOf(s, t, f, m), ViewOf(s2, t2, f2, m))
         /\ Front(ScopesOf(s2, t2, f2, m + 1)) = ScopesOf(s, t, f, m)
<1>. DEFINE A == ScopesOf(s, t, f, m)
            B == ScopesOf(s2, t2, f2, m + 1)
            x == ViewOf(s2, t2, f2, m)
            I == { ViewOf(s, t, f, n - 1) : n \in 1..m } \cup {x}
<1>1. \A n \in 1..m : ViewOf(s2, t2, f2, n - 1) = ViewOf(s, t, f, n - 1)
  <2>. TAKE n \in 1..m
  <2>1. n - 1 \in 0..(m - 1)
    OBVIOUS
  <2>. QED
    BY <2>1
<1>2. x \in I /\ \A n \in 1..m : ViewOf(s, t, f, n - 1) \in I
  OBVIOUS
<1>3. \A n \in 1..(m + 1) : /\ n \in 1..m \/ (n = m + 1 /\ n - 1 = m)
  OBVIOUS
<1>. HIDE DEF I
<1>4. \A n \in 1..(m + 1) : ViewOf(s2, t2, f2, n - 1) \in I
  BY <1>1, <1>2, <1>3
<1>5. m + 1 \in Nat /\ m + 1 \in 1..(m + 1) /\ (m + 1) - 1 = m
  OBVIOUS
<1>6. /\ A \in Seq(I) /\ Len(A) = m /\ \A n \in 1..m : A[n] = ViewOf(s, t, f, n - 1)
  BY <1>2, ScopesAt
<1>7. /\ B \in Seq(I) /\ Len(B) = m + 1 /\ \A n \in 1..(m + 1) : B[n] = ViewOf(s2, t2, f2, n - 1)
  BY <1>4, <1>5, ScopesAt
<1>8. B[m + 1] = x
  BY <1>5, <1>7
<1>. HIDE DEF A, B, x
<1>9. /\ Append(A, x) \in Seq(I) /\ Len(Append(A, x)) = m + 1
      /\ \A n \in 1..m : Append(A, x)[n] = A[n]
      /\ Append(A, x)[m + 1] = x
  BY <1>2, <1>6, PushedAt
<1>10. \A n \in 1..(m + 1) : B[n] = Append(A, x)[n]
  <2>. TAKE n \in 1..(m + 1)
  <2>1. CASE n \in 1..m
    BY <1>1, <1>6, <1>7, <1>9, <2>1
  <2>2. CASE n = m + 1
    BY <1>8, <1>9, <2>2
  <2>. QED
    BY <1>3, <2>1, <2>2
<1>11. B = Append(A, x)
  BY <1>7, <1>9, <1>10, SeqEqual
<1>12. Front(B) = A
  BY <1>2, <1>6, <1>11, PushPop
<1>. QED
  BY <1>11, <1>12 DEF A, B, x

\* One group less is one scope less.
LEMMA ScopesFront ==
  ASSUME NEW m \in Nat, NEW s, NEW t, NEW f
  PROVE  Front(ScopesOf(s, t, f, m + 1)) = ScopesOf(s, t, f, m)
<1>. DEFINE A == ScopesOf(s, t, f, m)
            B == ScopesOf(s, t, f, m + 1)
            x == ViewOf(s, t, f, m)
            I == { ViewOf(s, t, f, n - 1) : n \in 1..m } \cup {x}
<1>1. B = Append(A, x)
  <2>1. ASSUME NEW s2, \A g \in 0..(m - 1) : ViewOf(s2, t, f, g) = ViewOf(s, t, f, g)
        PROVE  ScopesOf(s2, t, f, m + 1) = Append(ScopesOf(s, t, f, m), ViewOf(s2, t, f, m))
    BY <2>1, ScopesPush
  <2>. QED
    BY <2>1, Zenon
<1>2. x \in I /\ \A n \in 1..m : ViewOf(s, t, f, n - 1) \in I
  OBVIOUS
<1>. HIDE DEF I
<1>3. A \in Seq(I)
  BY <1>2, ScopesAt
<1>. HIDE DEF A, B, x
<1>4. Front(Append(A, x)) = A
  BY <1>2, <1>3, PushPop
<1>5. Front(B) = A
  BY <1>1, <1>4
<1>. QED
  BY <1>5 DEF A, B

\* Of the m outermost groups, only h changes; its scope becomes x.
OneChanged(s, t, f, s2, t2, f2, m, h, x) ==
  /\ h \in 0..(m - 1)
  /\ \A g \in 0..(m - 1) : ViewOf(s2, t2, f2, g) = IF g = h THEN x ELSE ViewOf(s, t, f, g)

\* When one group changes, its scope is replaced.
LEMMA ScopesOne ==
  ASSUME NEW m \in Nat, NEW s, NEW t, NEW f, NEW s2, NEW t2, NEW f2, NEW h, NEW x,
         OneChanged(s, t, f, s2, t2, f2, m, h, x)
  PROVE  ScopesOf(s2, t2, f2, m) = [ScopesOf(s, t, f, m) EXCEPT ![h + 1] = x]
<1>1. \A n \in 1..m : ViewOf(s2, t2, f2, n - 1) = IF n = h + 1 THEN x ELSE ViewOf(s, t, f, n - 1)
  <2>. TAKE n \in 1..m
  <2>1. n - 1 \in 0..(m - 1) /\ (n = h + 1 <=> n - 1 = h)
    BY DEF OneChanged
  <2>. QED
    BY <2>1 DEF OneChanged
<1>. DEFINE V(n) == ViewOf(s, t, f, n - 1)
            W(n) == ViewOf(s2, t2, f2, n - 1)
<1>2. ScopesOf(s, t, f, m) = [n \in 1..m |-> V(n)] /\ ScopesOf(s2, t2, f2, m) = [n \in 1..m |-> W(n)]
  BY DEF ScopesOf
<1>3. \A n \in 1..m : W(n) = IF n = h + 1 THEN x ELSE V(n)
  BY <1>1
<1>. HIDE DEF V, W
<1>. QED
  BY <1>2, <1>3

\* The innermost scope is replaced when the innermost group changes.
LEMMA ScopesTop ==
  ASSUME NEW s \in Seq(Item), NEW t, NEW f, NEW s2, NEW t2, NEW f2, NEW x, NEW l, l = 1 + Groups(s),
         OneChanged(s, t, f, s2, t2, f2, l, Groups(s), x)
  PROVE  /\ ScopesOf(s2, t2, f2, l) = [ScopesOf(s, t, f, l) EXCEPT ![l] = x]
         /\ Len(ScopesOf(s, t, f, l)) = l
         /\ ScopesOf(s, t, f, l)[l] = ViewOf(s, t, f, Groups(s))
<1>1. Groups(s) \in Nat /\ l \in Nat /\ l \in 1..l /\ Groups(s) + 1 = l /\ l - 1 = Groups(s)
  BY BoundariesFinite DEF Groups
<1>2. ScopesOf(s2, t2, f2, l) = [ScopesOf(s, t, f, l) EXCEPT ![l] = x]
  <2>. DEFINE h == Groups(s)
  <2>1. h + 1 = l /\ l \in Nat /\ OneChanged(s, t, f, s2, t2, f2, l, h, x)
    BY <1>1
  <2>. HIDE DEF h
  <2>2. ScopesOf(s2, t2, f2, l) = [ScopesOf(s, t, f, l) EXCEPT ![h + 1] = x]
    BY <2>1, ScopesOne
  <2>. QED
    BY <2>1, <2>2
<1>3. /\ Len(ScopesOf(s, t, f, l)) = l
      /\ ScopesOf(s, t, f, l)[l] = ViewOf(s, t, f, l - 1)
  BY <1>1, ScopesAt
<1>. QED
  BY <1>1, <1>2, <1>3

\* The scopes after a group was opened, with or without an environment or a
\* box.
LEMMA ScopesOpened ==
  ASSUME NEW s \in Seq(Item), NEW x \in Item, x.type = "boundary", NEW v, v = x.val, NEW t, NEW f,
         NEW l, l = 1 + Groups(s)
  PROVE  /\ Append(s, x) \in Seq(Item) /\ Groups(Append(s, x)) = l
         /\ ScopesOf(Append(s, x), t, f, l + 1) = Append(ScopesOf(s, t, f, l), S!Scope(v, NoEnv, NoBox))
         /\ \A y \in Item : y.type = "env" =>
              \A n : n = y.name =>
                ScopesOf(Append(Append(s, x), y), t, f, l + 1) = Append(ScopesOf(s, t, f, l), S!Scope(v, n, NoBox))
         /\ \A y \in Item : y.type = "box_end" =>
              \A b : b = y.box =>
                ScopesOf(Append(Append(s, x), y), t, f, l + 1) = Append(ScopesOf(s, t, f, l), S!Scope(v, NoEnv, b))
<1>. DEFINE u == Append(s, x)
            G == Groups(s)
<1>1. u \in Seq(Item) /\ G \in Nat /\ Groups(u) = G + 1
  BY GroupsAppend
<1>2. l \in Nat /\ l - 1 = G /\ l = G + 1
  BY <1>1
<1>3. /\ \A g \in 0..G : ViewOf(u, t, f, g) = ViewOf(s, t, f, g)
      /\ ViewOf(u, t, f, G + 1) = S!Scope(v, NoEnv, NoBox)
  BY ViewBoundary
<1>. HIDE DEF u
<1>4. ScopesOf(u, t, f, l + 1) = Append(ScopesOf(s, t, f, l), S!Scope(v, NoEnv, NoBox))
  <2>1. \A g \in 0..(l - 1) : ViewOf(u, t, f, g) = ViewOf(s, t, f, g)
    BY <1>2, <1>3
  <2>2. ScopesOf(u, t, f, l + 1) = Append(ScopesOf(s, t, f, l), ViewOf(u, t, f, l))
    BY <1>2, <2>1, ScopesPush
  <2>. QED
    BY <1>2, <1>3, <2>2
<1>5. ASSUME NEW y \in Item, NEW w, \A g \in 0..(G + 1) :
               ViewOf(Append(u, y), t, f, g) = IF g = G + 1 THEN w ELSE ViewOf(u, t, f, g)
      PROVE  ScopesOf(Append(u, y), t, f, l + 1) = Append(ScopesOf(s, t, f, l), w)
  <2>1. \A g \in 0..(l - 1) : ViewOf(Append(u, y), t, f, g) = ViewOf(s, t, f, g)
    <3>. TAKE g \in 0..(l - 1)
    <3>1. g \in 0..G /\ g \in 0..(G + 1) /\ g # G + 1
      BY <1>1, <1>2
    <3>. QED
      BY <1>3, <1>5, <3>1
  <2>2. ScopesOf(Append(u, y), t, f, l + 1) = Append(ScopesOf(s, t, f, l), ViewOf(Append(u, y), t, f, l))
    BY <1>2, <2>1, ScopesPush
  <2>3. l \in 0..(G + 1)
    BY <1>1, <1>2
  <2>. QED
    BY <1>2, <1>5, <2>2, <2>3
<1>6. ASSUME NEW y \in Item, y.type = "env", NEW n, n = y.name
      PROVE  ScopesOf(Append(u, y), t, f, l + 1) = Append(ScopesOf(s, t, f, l), S!Scope(v, n, NoBox))
  <2>1. \A g \in 0..(G + 1) : ViewOf(Append(u, y), t, f, g) =
          IF g = G + 1 THEN [ViewOf(u, t, f, g) EXCEPT !.name = n] ELSE ViewOf(u, t, f, g)
    BY <1>1, <1>6, ViewEnv
  <2>2. [ViewOf(u, t, f, G + 1) EXCEPT !.name = n] = S!Scope(v, n, NoBox)
    BY <1>3, <1>6 DEF S!Scope
  <2>3. \A g \in 0..(G + 1) : ViewOf(Append(u, y), t, f, g) =
          IF g = G + 1 THEN S!Scope(v, n, NoBox) ELSE ViewOf(u, t, f, g)
    BY <2>1, <2>2
  <2>. QED
    BY <1>5, <2>3
<1>7. ASSUME NEW y \in Item, y.type = "box_end", NEW b, b = y.box
      PROVE  ScopesOf(Append(u, y), t, f, l + 1) = Append(ScopesOf(s, t, f, l), S!Scope(v, NoEnv, b))
  <2>0. Groups(u) # 0
    BY <1>1
  <2>1. \A g \in 0..(G + 1) : ViewOf(Append(u, y), t, f, g) =
          IF g = G + 1 THEN [ViewOf(u, t, f, g) EXCEPT !.box = b] ELSE ViewOf(u, t, f, g)
    BY <1>1, <1>7, <2>0, ViewBoxEnd
  <2>2. [ViewOf(u, t, f, G + 1) EXCEPT !.box = b] = S!Scope(v, NoEnv, b)
    BY <1>3 DEF S!Scope
  <2>3. \A g \in 0..(G + 1) : ViewOf(Append(u, y), t, f, g) =
          IF g = G + 1 THEN S!Scope(v, NoEnv, b) ELSE ViewOf(u, t, f, g)
    BY <2>1, <2>2
  <2>. QED
    BY <1>5, <2>3
<1>. QED
  BY <1>1, <1>2, <1>4, <1>6, <1>7 DEF u

\* What a font and a token of \aftergroup change: the innermost scope.
LEMMA TopChanged ==
  ASSUME NEW s \in Seq(Item), NEW x \in Item, NEW t, NEW f, NEW l, l = 1 + Groups(s)
  PROVE  /\ \A f2 : x.type = "font" /\ f = x.val =>
              OneChanged(s, t, f, Append(s, x), t, f2, l, Groups(s), [ViewOf(s, t, f, Groups(s)) EXCEPT !.font = f2])
         /\ \A v : x.type = "save" /\ v = x.val =>
              OneChanged(s, t, f, Append(s, x), t, f, l, Groups(s),
                [ViewOf(s, t, f, Groups(s)) EXCEPT !.after = Append(AfterIn(s, Groups(s)), <<"plain", v>>)])
<1>1. Groups(s) \in 0..(l - 1) /\ 0..(l - 1) = 0..Groups(s)
  BY BoundariesFinite DEF Groups
<1>2. ASSUME NEW f2, x.type = "font", f = x.val
      PROVE  OneChanged(s, t, f, Append(s, x), t, f2, l, Groups(s), [ViewOf(s, t, f, Groups(s)) EXCEPT !.font = f2])
  <2>1. \A g \in 0..Groups(s) :
          FontIn(Append(s, x), f2, g) = IF g = Groups(s) THEN f2 ELSE FontIn(s, f, g)
    BY <1>2, FontAppend
  <2>2. \A g \in 0..Groups(s) : ViewOf(Append(s, x), t, f2, g) =
             IF g = Groups(s) THEN [ViewOf(s, t, f, Groups(s)) EXCEPT !.font = f2] ELSE ViewOf(s, t, f, g)
    BY <1>2, <2>1, PartsAppend DEF ViewOf
  <2>. DEFINE w == [ViewOf(s, t, f, Groups(s)) EXCEPT !.font = f2]
  <2>. HIDE DEF w
  <2>3. \A g \in 0..Groups(s) : ViewOf(Append(s, x), t, f2, g) = IF g = Groups(s) THEN w ELSE ViewOf(s, t, f, g)
    BY <2>2 DEF w
  <2>4. OneChanged(s, t, f, Append(s, x), t, f2, l, Groups(s), w)
    BY <1>1, <2>3 DEF OneChanged
  <2>. QED
    BY <2>4 DEF w
<1>3. ASSUME NEW v, x.type = "save", v = x.val
      PROVE  OneChanged(s, t, f, Append(s, x), t, f, l, Groups(s),
               [ViewOf(s, t, f, Groups(s)) EXCEPT !.after = Append(AfterIn(s, Groups(s)), <<"plain", v>>)])
  <2>. DEFINE a == Append(AfterIn(s, Groups(s)), <<"plain", v>>)
              w == [ViewOf(s, t, f, Groups(s)) EXCEPT !.after = a]
  <2>1. \A g \in 0..Groups(s) : AfterIn(Append(s, x), g) = IF g = Groups(s) THEN a ELSE AfterIn(s, g)
    BY <1>3, AfterAppend
  <2>. HIDE DEF a
  <2>2. \A g \in 0..Groups(s) : ViewOf(Append(s, x), t, f, g) = IF g = Groups(s) THEN w ELSE ViewOf(s, t, f, g)
    BY <1>3, <2>1, PartsAppend DEF ViewOf
  <2>. HIDE DEF w
  <2>3. OneChanged(s, t, f, Append(s, x), t, f, l, Groups(s), w)
    BY <1>1, <2>2 DEF OneChanged
  <2>. QED
    BY <2>3 DEF w, a
<1>. QED
  BY <1>2, <1>3

\* The scopes around a group do not change when it loses its last item.
LEMMA ScopesPopped ==
  ASSUME NEW u \in Seq(Item), NEW x \in Item, x.type # "boundary", NEW t, NEW f, NEW t2, NEW f2,
         AlikeBelow(u, x, t, f, t2, f2)
  PROVE  /\ Groups(Append(u, x)) = Groups(u) /\ Groups(u) \in Nat
         /\ ScopesOf(u, t2, f2, Groups(u)) = ScopesOf(Append(u, x), t, f, Groups(u))
<1>1. Groups(Append(u, x)) = Groups(u) /\ Groups(u) \in Nat
  BY GroupsAppend
<1>. DEFINE m == Groups(u)
<1>2. m \in Nat /\ \A g \in 0..(m - 1) : g \in 0..m /\ g # m
  BY <1>1
<1>3. \A g \in 0..(m - 1) : ViewOf(u, t2, f2, g) = ViewOf(Append(u, x), t, f, g)
  BY <1>2 DEF AlikeBelow
<1>. HIDE DEF m
<1>4. ScopesOf(u, t2, f2, m) = ScopesOf(Append(u, x), t, f, m)
  BY <1>2, <1>3, ScopesSame
<1>. QED
  BY <1>1, <1>4 DEF m

\* The scopes after a local assignment, which perhaps saved a value.
LEMMA ScopesBoundLocally ==
  ASSUME NEW s \in Seq(Item), NEW t \in Table, NEW f, NEW k \in Keys, NEW v \in Values,
         NEW l, l = 1 + Groups(s), ChainedIn(s, t, l)
  PROVE  ScopesOf(Pushed(s, t, k, l), Defined(t, k, v, l), f, l) = S!BoundLocally(ScopesOf(s, t, f, l), k, v)
<1>. DEFINE s2 == Pushed(s, t, k, l)
            t2 == Defined(t, k, v, l)
            G == Groups(s)
            A == ScopesOf(s, t, f, l)
<1>0. G \in Nat /\ l \in Nat /\ l - 1 = G /\ G \in 0..(l - 1) /\ G + 1 = l /\ l \in 1..l
  BY BoundariesFinite DEF Groups
<1>1. \A g \in 0..G : BindIn(s2, t2, g) = IF g = G THEN S!Bound(BindIn(s, t, g), k, v) ELSE BindIn(s, t, g)
  BY BindLocal DEF ChainedIn
<1>2. \A g \in 0..G : ViewOf(s2, t2, f, g) = [ViewOf(s, t, f, g) EXCEPT !.bind = BindIn(s2, t2, g)]
  <2>1. CASE must_push(t[k].level, l)
    <3>. DEFINE x == SavedValue(k, t[k])
    <3>1. s2 = Append(s, x) /\ x \in Item /\ x.type = "value"
      BY <2>1 DEF Pushed, SavedValue, Table, Item
    <3>. HIDE DEF s2, x, t2
    <3>. QED
      BY <3>1, ViewValue
  <2>2. CASE ~must_push(t[k].level, l)
    BY <2>2, ViewBind DEF Pushed
  <2>. QED
    BY <2>1, <2>2
<1>. HIDE DEF s2, t2, G
<1>3. \A g \in 0..G : g # G => ViewOf(s2, t2, f, g) = ViewOf(s, t, f, g)
  BY <1>1, <1>2 DEF ViewOf
<1>4. ViewOf(s2, t2, f, G) = [ViewOf(s, t, f, G) EXCEPT !.bind = S!Bound(BindIn(s, t, G), k, v)]
  BY <1>0, <1>1, <1>2
<1>5. ScopesOf(s2, t2, f, l) =
        [A EXCEPT ![G + 1] = [ViewOf(s, t, f, G) EXCEPT !.bind = S!Bound(BindIn(s, t, G), k, v)]]
  <2>. DEFINE x == [ViewOf(s, t, f, G) EXCEPT !.bind = S!Bound(BindIn(s, t, G), k, v)]
  <2>1. ViewOf(s2, t2, f, G) = x
    BY <1>4
  <2>. HIDE DEF x
  <2>0. OneChanged(s, t, f, s2, t2, f, l, G, x)
    BY <1>0, <1>3, <2>1 DEF OneChanged
  <2>2. ScopesOf(s2, t2, f, l) = [A EXCEPT ![G + 1] = x]
    BY <1>0, <2>0, ScopesOne
  <2>. QED
    BY <2>2 DEF x
<1>6. Len(A) = l /\ A[l] = ViewOf(s, t, f, G)
  BY <1>0, ScopesAt
<1>7. A[l].bind = BindIn(s, t, G)
  BY <1>6, ViewBind
<1>. HIDE DEF A
<1>. QED
  BY <1>0, <1>5, <1>6, <1>7 DEF S!BoundLocally, s2, t2, A

\* The scopes after a global assignment.
LEMMA ScopesBoundGlobally ==
  ASSUME NEW s \in Seq(Item), NEW t, NEW f, NEW k \in Keys, NEW v, NEW l, l = 1 + Groups(s),
         NEW t2, Globally(t, t2, k, v)
  PROVE  ScopesOf(s, t2, f, l) = S!BoundGlobally(ScopesOf(s, t, f, l), k, v)
<1>. DEFINE G == Groups(s)
            A == ScopesOf(s, t, f, l)
<1>0. G \in Nat /\ l \in Nat /\ \A n \in 1..l : n - 1 \in 0..G /\ (n - 1 = 0 <=> n = 1)
  BY BoundariesFinite DEF Groups
<1>1. \A g \in 0..G : BindIn(s, t2, g) = IF g = 0 THEN S!Bound(BindIn(s, t, g), k, v) ELSE Unbound(BindIn(s, t, g), k)
  BY BindGlobal
<1>2. \A g : /\ ViewOf(s, t2, f, g) = [ViewOf(s, t, f, g) EXCEPT !.bind = BindIn(s, t2, g)]
             /\ ViewOf(s, t, f, g).bind = BindIn(s, t, g)
  BY ViewBind
<1>3. DOMAIN A = 1..l /\ \A n \in 1..l : A[n] = ViewOf(s, t, f, n - 1)
  BY <1>0, ScopesAt
<1>. HIDE DEF G, A
<1>4. \A n \in 1..l : ViewOf(s, t2, f, n - 1) =
        [A[n] EXCEPT !.bind = IF n = 1 THEN S!Bound(A[n].bind, k, v) ELSE Unbound(A[n].bind, k)]
  <2>. TAKE n \in 1..l
  <2>1. n - 1 \in 0..G /\ A[n] = ViewOf(s, t, f, n - 1) /\ A[n].bind = BindIn(s, t, n - 1)
    BY <1>0, <1>2, <1>3
  <2>2. BindIn(s, t2, n - 1) = IF n = 1 THEN S!Bound(A[n].bind, k, v) ELSE Unbound(A[n].bind, k)
    BY <1>0, <1>1, <2>1
  <2>. QED
    BY <1>2, <2>1, <2>2
<1>5. ScopesOf(s, t2, f, l) = [n \in 1..l |-> ViewOf(s, t2, f, n - 1)]
  BY DEF ScopesOf
<1>6. S!BoundGlobally(A, k, v) =
        [n \in DOMAIN A |-> [A[n] EXCEPT !.bind = IF n = 1 THEN S!Bound(A[n].bind, k, v) ELSE Unbound(A[n].bind, k)]]
  BY DEF S!BoundGlobally, Unbound
<1>7. ScopesOf(s, t2, f, l) = S!BoundGlobally(A, k, v)
  <2>. DEFINE W(n) == ViewOf(s, t2, f, n - 1)
              N(n) == [A[n] EXCEPT !.bind = IF n = 1 THEN S!Bound(A[n].bind, k, v) ELSE Unbound(A[n].bind, k)]
  <2>1. \A n \in 1..l : W(n) = N(n)
    BY <1>4
  <2>2. ScopesOf(s, t2, f, l) = [n \in 1..l |-> W(n)] /\ S!BoundGlobally(A, k, v) = [n \in DOMAIN A |-> N(n)]
    BY <1>5, <1>6
  <2>. HIDE DEF W, N
  <2>. QED
    BY <1>3, <2>1, <2>2
<1>. QED
  BY <1>7 DEF A

\* A finished box goes to its destination.  The last register is excluded: its
\* local \setbox writes outside the table.
LEMMA ScopesDelivered ==
  ASSUME LastRegister \notin BoxKeys, NEW s \in Seq(Item), NEW t \in Table, NEW f,
         NEW dest \in Dests, NEW v \in Values, NEW l, l = 1 + Groups(s), ChainedIn(s, t, l)
  PROVE  ScopesOf(BoxedStack(s, t, dest, l), BoxedTable(t, dest, v, l), f, l) =
           S!Delivered(ScopesOf(s, t, f, l), dest, v)
<1>1. CASE dest.to = "tree"
  BY <1>1 DEF BoxedStack, BoxedTable, OutsideTable, S!Delivered
<1>2. CASE dest.to # "tree"
  <2>1. dest.to = "register" /\ dest.pos \in BoxKeys /\ dest.global \in BOOLEAN
    BY <1>2 DEF Dests
  <2>2. ~OutsideTable(dest) /\ dest.pos \in Keys
    BY <1>2, <2>1 DEF OutsideTable, Keys
  <2>. DEFINE k == dest.pos
              t2 == Defined(t, k, v, 1)
  <2>3. CASE dest.global
    <3>1. BoxedStack(s, t, dest, l) = s /\ BoxedTable(t, dest, v, l) = t2
      BY <2>2, <2>3 DEF BoxedStack, BoxedTable
    <3>2. Globally(t, t2, k, v)
      BY <2>2 DEF Table, Defined, Globally
    <3>. HIDE DEF t2, k
    <3>3. k \in Keys
      BY <2>2 DEF k
    <3>4. ScopesOf(s, t2, f, l) = S!BoundGlobally(ScopesOf(s, t, f, l), k, v)
      BY <3>2, <3>3, ScopesBoundGlobally
    <3>. QED
      BY <2>1, <2>3, <3>1, <3>4 DEF S!Delivered, k
  <2>4. CASE ~dest.global
    <3>1. BoxedStack(s, t, dest, l) = Pushed(s, t, k, l) /\ BoxedTable(t, dest, v, l) = Defined(t, k, v, l)
      BY <2>2, <2>4 DEF BoxedStack, BoxedTable
    <3>2. ScopesOf(Pushed(s, t, k, l), Defined(t, k, v, l), f, l) = S!BoundLocally(ScopesOf(s, t, f, l), k, v)
      BY <2>2, ScopesBoundLocally
    <3>. QED
      BY <2>1, <2>4, <3>1, <3>2 DEF S!Delivered
  <2>. QED
    BY <2>1, <2>3, <2>4
<1>. QED
  BY <1>1, <1>2

\* The innermost scope of A that binds k.
HomeAt(A, k) == Max({ i \in DOMAIN A : k \in DOMAIN A[i].bind })

\* The innermost scope that binds a name is that of its home, and gives the
\* name the value that the table says.
LEMMA ScopesHome ==
  ASSUME NEW s \in Seq(Item), NEW t \in Table, NEW f, NEW k \in Keys, NEW v, v = t[k].val,
         NEW l, l = 1 + Groups(s), ChainedIn(s, t, l)
  PROVE  /\ HomeOf(s, t, k) \in 0..Groups(s)
         /\ HomeAt(ScopesOf(s, t, f, l), k) = HomeOf(s, t, k) + 1
         /\ ScopesOf(s, t, f, l)[HomeOf(s, t, k) + 1].bind[k] = v
         /\ k \in DOMAIN BindIn(s, t, HomeOf(s, t, k))
<1>. DEFINE H == HomeOf(s, t, k)
            A == ScopesOf(s, t, f, l)
            G == Groups(s)
            E == { i \in DOMAIN A : k \in DOMAIN A[i].bind }
<1>1. /\ H \in 0..G /\ IsBound(s, t, H, k) /\ Binding(s, t, H, k) = t[k].val
      /\ \A g \in 0..G : g > H => ~IsBound(s, t, g, k)
  BY HomeBinds DEF ChainedIn
<1>0. G \in Nat
  BY BoundariesFinite DEF Groups
<1>. HIDE DEF H, G
<1>2. l \in Nat /\ H + 1 \in 1..l /\ (H + 1) - 1 = H /\ \A n \in 1..l : n - 1 \in 0..G
  BY <1>0, <1>1 DEF G
<1>3. DOMAIN A = 1..l /\ \A n \in 1..l : A[n] = ViewOf(s, t, f, n - 1)
  BY <1>2, ScopesAt
<1>4. \A g : ViewOf(s, t, f, g).bind = BindIn(s, t, g)
  BY ViewBind
<1>. HIDE DEF A
<1>41. \A n \in 1..l : A[n].bind = BindIn(s, t, n - 1)
  BY <1>3, <1>4
<1>42. A[H + 1].bind = BindIn(s, t, H)
  BY <1>2, <1>41
<1>43. k \in DOMAIN BindIn(s, t, H) /\ BindIn(s, t, H)[k] = t[k].val
  BY <1>1 DEF BindIn
<1>5. A[H + 1].bind[k] = t[k].val /\ k \in DOMAIN BindIn(s, t, H) /\ H + 1 \in E
  BY <1>2, <1>3, <1>42, <1>43
<1>6. E \in SUBSET (1..l) /\ \A i \in E : i <= H + 1
  <2>. SUFFICES ASSUME NEW i \in E PROVE i <= H + 1
    BY <1>3
  <2>0. i \in 1..l /\ k \in DOMAIN A[i].bind
    BY <1>3
  <2>1. i \in 1..l /\ IsBound(s, t, i - 1, k)
    BY <1>41, <2>0 DEF BindIn
  <2>2. ~(i - 1 > H)
    BY <1>1, <1>2, <2>1
  <2>3. H \in Nat
    BY <1>1
  <2>. QED
    BY <2>1, <2>2, <2>3
<1>. HIDE DEF E
<1>7. Max(E) = H + 1
  BY <1>2, <1>5, <1>6, MaxIs
<1>. QED
  BY <1>1, <1>5, <1>7 DEF HomeAt, H, A, E, G

\* \box empties its register where it was filled.
LEMMA ScopesEmptied ==
  ASSUME NEW s \in Seq(Item), NEW t \in Table, NEW f, NEW k \in Keys, NEW l, l = 1 + Groups(s), ChainedIn(s, t, l),
         NEW v, NEW t2, InPlace(t, t2, k, v)
  PROVE  ScopesOf(s, t2, f, l) = [ScopesOf(s, t, f, l) EXCEPT ![HomeAt(ScopesOf(s, t, f, l), k)].bind[k] = v]
<1>. DEFINE H == HomeOf(s, t, k)
            A == ScopesOf(s, t, f, l)
            G == Groups(s)
            b == S!Bound(BindIn(s, t, H), k, v)
            x == [ViewOf(s, t, f, H) EXCEPT !.bind = b]
<1>1. H \in 0..G /\ HomeAt(A, k) = H + 1 /\ k \in DOMAIN BindIn(s, t, H)
  BY ScopesHome
<1>2. G \in Nat /\ l \in Nat /\ l - 1 = G
  BY BoundariesFinite DEF Groups
<1>3. \A g \in 0..G : BindIn(s, t2, g) = IF g = H THEN S!Bound(BindIn(s, t, g), k, v) ELSE BindIn(s, t, g)
  BY BindInPlace DEF ChainedIn
<1>4. \A g : ViewOf(s, t2, f, g) = [ViewOf(s, t, f, g) EXCEPT !.bind = BindIn(s, t2, g)]
  BY ViewBind
<1>. HIDE DEF H, G, b
<1>5. \A g \in 0..G : ViewOf(s, t2, f, g) = IF g = H THEN x ELSE ViewOf(s, t, f, g)
  <2>1. \A g \in 0..G : g # H => ViewOf(s, t2, f, g) = ViewOf(s, t, f, g)
    BY <1>3, <1>4 DEF ViewOf
  <2>2. ViewOf(s, t2, f, H) = x
    BY <1>1, <1>3, <1>4 DEF b
  <2>. HIDE DEF x
  <2>. QED
    BY <2>1, <2>2
<1>6. ScopesOf(s, t2, f, l) = [A EXCEPT ![H + 1] = x]
  <2>. HIDE DEF x
  <2>1. OneChanged(s, t, f, s, t2, f, l, H, x)
    BY <1>1, <1>2, <1>5 DEF OneChanged
  <2>. QED
    BY <1>2, <2>1, ScopesOne
<1>7. A[H + 1] = ViewOf(s, t, f, H)
  <2>1. H + 1 \in 1..l /\ (H + 1) - 1 = H
    BY <1>1, <1>2
  <2>. QED
    BY <1>2, <2>1, ScopesAt
<1>8. ViewOf(s, t, f, H).bind = BindIn(s, t, H)
  BY ViewBind
<1>9. b = [BindIn(s, t, H) EXCEPT ![k] = v]
  <2>. DEFINE B == BindIn(s, t, H)
  <2>1. B = [n \in DOMAIN B |-> B[n]]
    BY DEF BindIn
  <2>. HIDE DEF B
  <2>2. (DOMAIN B) \cup {k} = DOMAIN B
    BY <1>1 DEF B
  <2>3. S!Bound(B, k, v) = [B EXCEPT ![k] = v]
    BY <2>1, <2>2 DEF S!Bound
  <2>. QED
    BY <2>3 DEF B, b
<1>10. [A EXCEPT ![H + 1].bind[k] = v] = [A EXCEPT ![H + 1] = x]
  <2>1. x = [A[H + 1] EXCEPT !.bind = [A[H + 1].bind EXCEPT ![k] = v]]
    BY <1>7, <1>8, <1>9
  <2>. HIDE DEF A, x
  <2>. QED
    BY <2>1
<1>. QED
  BY <1>1, <1>6, <1>10 DEF A

-----------------------------------------------------------------------------
\* The invariant.

\* The level of the group of the last item in E.
LevelAt(s, E) == IF E = {} THEN 0 ELSE 1 + GroupIn(s, Max(E))

\* Every font was chosen in the group of the item that saves the one before.
FontChain(s, e) ==
  /\ e = LevelAt(s, FontsOf(s))
  /\ \A i \in FontsOf(s) : s[i].level = LevelAt(s, { h \in FontsOf(s) : h < i })

\* An environment and a box come with the boundary of their group.
Opening == {"env", "box_end"}
Opened(s) == \A i \in DOMAIN s : s[i].type \in Opening => i > 1 /\ s[i - 1].type = "boundary"

\* The last item is a boundary.
OnBoundary(s) == s # <<>> /\ Last(s).type = "boundary"

\* The invariant of the refinement.
RInv ==
  /\ IInv /\ Chained
  /\ FontChain(saveStack, cur_font.level)
  /\ Opened(saveStack)
  /\ theBox # NoBox => OnBoundary(saveStack)

-----------------------------------------------------------------------------
\* It is an invariant.

\* The level of a group is not changed by what happens further up.
LEMMA LevelKept ==
  ASSUME NEW s, NEW t, NEW n \in Nat, NEW E \in SUBSET (1..n),
         \A i \in 1..n : GroupIn(t, i) = GroupIn(s, i)
  PROVE  LevelAt(t, E) = LevelAt(s, E)
<1>1. E # {} => Max(E) \in E
  BY GreatestPosition
<1>. QED
  BY <1>1 DEF LevelAt

\* A font is saved with its level when the next one is chosen: the fonts are
\* still a chain.
LEMMA FontChainAppend ==
  ASSUME NEW s \in Seq(Item), NEW x \in Item, NEW e, FontChain(s, e)
  PROVE  /\ x.type # "font" => FontChain(Append(s, x), e)
         /\ x.type = "font" /\ x.level = e => FontChain(Append(s, x), 1 + Groups(s))
<1>. DEFINE t == Append(s, x)
            P == FontsOf(s)
            n == Len(s) + 1
            B(i) == { h \in P : h < i }
<1>1. /\ Len(s) \in Nat /\ DOMAIN s = 1..Len(s) /\ DOMAIN t = 1..n /\ t[n] = x
      /\ \A i \in 1..Len(s) : t[i] = s[i] /\ GroupIn(t, i) = GroupIn(s, i)
      /\ GroupIn(t, n) = Groups(t)
      /\ x.type = "font" => Groups(t) = Groups(s)
  BY GroupsAppend
<1>2. P \in SUBSET (1..Len(s)) /\ \A i : B(i) \in SUBSET (1..Len(s))
  BY <1>1 DEF FontsOf
<1>3. LevelAt(t, P) = LevelAt(s, P) /\ \A i : LevelAt(t, B(i)) = LevelAt(s, B(i))
  <2>1. \A i \in 1..Len(s) : GroupIn(t, i) = GroupIn(s, i)
    BY <1>1
  <2>. HIDE DEF t, P, B
  <2>. QED
    BY <1>1, <1>2, <2>1, LevelKept
<1>4. e = LevelAt(s, P) /\ \A i \in P : s[i].level = LevelAt(s, B(i))
  BY DEF FontChain
<1>. HIDE DEF t
<1>5. ASSUME x.type # "font" PROVE FontChain(t, e)
  <2>1. FontsOf(t) = P
    BY <1>1, <1>5 DEF FontsOf
  <2>2. \A i \in P : t[i].level = LevelAt(t, B(i))
    BY <1>1, <1>2, <1>3, <1>4
  <2>. QED
    BY <1>3, <1>4, <2>1, <2>2 DEF FontChain
<1>6. ASSUME x.type = "font", x.level = e PROVE FontChain(t, 1 + Groups(s))
  <2>1. FontsOf(t) = P \cup {n}
    BY <1>1, <1>6 DEF FontsOf
  <2>2. Max(P \cup {n}) = n
    <3>. HIDE DEF P
    <3>. QED
      BY <1>1, <1>2, MaxOfNext
  <2>3. LevelAt(t, P \cup {n}) = 1 + Groups(s)
    BY <1>1, <1>6, <2>2 DEF LevelAt
  <2>4. ASSUME NEW i \in P \cup {n} PROVE t[i].level = LevelAt(t, { h \in P \cup {n} : h < i })
    <3>1. CASE i \in P
      <4>1. { h \in P \cup {n} : h < i } = B(i)
        BY <1>1, <1>2, <3>1
      <4>2. t[i].level = LevelAt(t, B(i))
        BY <1>1, <1>2, <1>3, <1>4, <3>1
      <4>. QED
        BY <4>1, <4>2
    <3>2. CASE i = n
      <4>1. { h \in P \cup {n} : h < n } = P
        BY <1>1, <1>2
      <4>2. t[n].level = LevelAt(t, P)
        BY <1>1, <1>3, <1>4, <1>6
      <4>. QED
        BY <3>2, <4>1, <4>2
    <3>. QED
      BY <3>1, <3>2
  <2>. QED
    BY <2>1, <2>3, <2>4 DEF FontChain
<1>. QED
  BY <1>5, <1>6 DEF t

\* A font that comes back has the level of the chain below it.
LEMMA FontChainPop ==
  ASSUME NEW s \in Seq(Item), NEW x \in Item, NEW e, FontChain(Append(s, x), e)
  PROVE  /\ x.type # "font" => FontChain(s, e)
         /\ x.type = "font" => \A l : l = x.level => FontChain(s, l)
<1>. DEFINE t == Append(s, x)
            P == FontsOf(s)
            n == Len(s) + 1
            B(i) == { h \in P : h < i }
<1>1. /\ Len(s) \in Nat /\ DOMAIN s = 1..Len(s) /\ DOMAIN t = 1..n /\ t[n] = x
      /\ \A i \in 1..Len(s) : t[i] = s[i] /\ GroupIn(t, i) = GroupIn(s, i)
  BY GroupsAppend
<1>2. P \in SUBSET (1..Len(s)) /\ \A i : B(i) \in SUBSET (1..Len(s))
  BY <1>1 DEF FontsOf
<1>3. LevelAt(t, P) = LevelAt(s, P) /\ \A i : LevelAt(t, B(i)) = LevelAt(s, B(i))
  <2>1. \A i \in 1..Len(s) : GroupIn(t, i) = GroupIn(s, i)
    BY <1>1
  <2>. HIDE DEF t, P, B
  <2>. QED
    BY <1>1, <1>2, <2>1, LevelKept
<1>4. e = LevelAt(t, FontsOf(t)) /\ \A i \in FontsOf(t) : t[i].level = LevelAt(t, { h \in FontsOf(t) : h < i })
  BY DEF FontChain
<1>. HIDE DEF t
<1>5. FontsOf(t) = IF x.type = "font" THEN P \cup {n} ELSE P
  BY <1>1 DEF FontsOf
<1>6. ASSUME NEW i \in P PROVE s[i].level = LevelAt(s, B(i))
  <2>1. { h \in FontsOf(t) : h < i } = B(i) /\ i \in FontsOf(t)
    BY <1>1, <1>2, <1>5
  <2>2. t[i].level = LevelAt(t, B(i))
    BY <1>4, <2>1
  <2>. QED
    BY <1>1, <1>2, <1>3, <2>2
<1>7. ASSUME x.type # "font" PROVE FontChain(s, e)
  BY <1>3, <1>4, <1>5, <1>6, <1>7 DEF FontChain
<1>8. ASSUME x.type = "font", NEW l, l = x.level PROVE FontChain(s, l)
  <2>1. { h \in FontsOf(t) : h < n } = P /\ n \in FontsOf(t)
    BY <1>1, <1>2, <1>5, <1>8
  <2>2. t[n].level = LevelAt(t, P)
    BY <1>4, <2>1
  <2>3. l = LevelAt(s, P)
    BY <1>1, <1>3, <1>8, <2>2
  <2>. QED
    BY <1>6, <2>3 DEF FontChain
<1>. QED
  BY <1>7, <1>8

\* The same, when the last item leaves the stack.
LEMMA FontChainFront ==
  ASSUME NEW s \in Seq(Item), s # <<>>, NEW e, FontChain(s, e)
  PROVE  /\ Last(s).type # "font" => FontChain(Front(s), e)
         /\ Last(s).type = "font" => FontChain(Front(s), Last(s).level)
<1>1. Front(s) \in Seq(Item) /\ Last(s) \in Item /\ Append(Front(s), Last(s)) = s
  BY PoppedAt, PushPop
<1>2. FontChain(Append(Front(s), Last(s)), e)
  BY <1>1
<1>. DEFINE t == Front(s)
            x == Last(s)
<1>. HIDE DEF t, x
<1>3. t \in Seq(Item) /\ x \in Item /\ FontChain(Append(t, x), e)
  BY <1>1, <1>2 DEF t, x
<1>4. /\ x.type # "font" => FontChain(t, e)
      /\ x.type = "font" => \A l : l = x.level => FontChain(t, l)
  BY <1>3, FontChainPop
<1>. QED
  BY <1>4 DEF t, x

\* An environment or a box is pushed on its boundary only.
LEMMA OpenedAppend ==
  ASSUME NEW s \in Seq(Item), Opened(s), NEW x \in Item, x.type \in Opening => OnBoundary(s)
  PROVE  Opened(Append(s, x))
<1>. DEFINE t == Append(s, x)
<1>1. /\ Len(s) \in Nat /\ DOMAIN s = 1..Len(s) /\ DOMAIN t = 1..(Len(s) + 1)
      /\ \A i \in 1..Len(s) : t[i] = s[i]
      /\ t[Len(s) + 1] = x
  BY PushedAt
<1>2. ASSUME s # <<>> PROVE Len(s) > 0 /\ Last(s) = s[Len(s)]
  <2>1. Len(s) \in Nat \ {0} /\ Last(s) = s[Len(s)]
    BY <1>2, PoppedAt
  <2>. QED
    BY <2>1
<1>. HIDE DEF t
<1>3. ASSUME NEW i \in DOMAIN t, t[i].type \in Opening PROVE i > 1 /\ t[i - 1].type = "boundary"
  <2>1. CASE i \in DOMAIN s
    <3>1. i > 1 /\ s[i - 1].type = "boundary"
      BY <1>1, <1>3, <2>1 DEF Opened
    <3>. QED
      BY <1>1, <2>1, <3>1
  <2>2. CASE i = Len(s) + 1
    <3>1. Len(s) > 0 /\ s[Len(s)].type = "boundary"
      BY <1>1, <1>2, <1>3, <2>2 DEF OnBoundary
    <3>. QED
      BY <1>1, <2>2, <3>1
  <2>. QED
    BY <1>1, <2>1, <2>2
<1>. QED
  BY <1>3 DEF Opened, t

\* The item on which an environment or a box was pushed is a boundary.
LEMMA OpenedFront ==
  ASSUME NEW s \in Seq(Item), s # <<>>, Opened(s)
  PROVE  Opened(Front(s)) /\ (Last(s).type \in Opening => OnBoundary(Front(s)))
<1>. DEFINE t == Front(s)
<1>1. /\ Len(s) \in Nat \ {0} /\ DOMAIN s = 1..Len(s)
      /\ DOMAIN t = 1..(Len(s) - 1) /\ Len(t) = Len(s) - 1 /\ t \in Seq(Item)
      /\ \A i \in 1..(Len(s) - 1) : t[i] = s[i]
      /\ Last(s) = s[Len(s)]
  BY PoppedAt
<1>. HIDE DEF t
<1>2. ASSUME NEW i \in DOMAIN t, t[i].type \in Opening PROVE i > 1 /\ t[i - 1].type = "boundary"
  <2>1. i \in DOMAIN s /\ i > 1 /\ s[i - 1].type = "boundary"
    BY <1>1, <1>2 DEF Opened
  <2>. QED
    BY <1>1, <2>1
<1>3. ASSUME Last(s).type \in Opening PROVE OnBoundary(t)
  <2>1. Len(s) > 1 /\ s[Len(s) - 1].type = "boundary"
    BY <1>1, <1>3 DEF Opened
  <2>2. t # <<>> /\ Last(t) = t[Len(t)]
    BY <1>1, <2>1 DEF Last
  <2>. QED
    BY <1>1, <2>1, <2>2 DEF OnBoundary
<1>. QED
  BY <1>2, <1>3 DEF Opened, t

\* The part of RInv that concerns the stack and the level of the font.
Kept(s, e) == FontChain(s, e) /\ Opened(s)

\* Kept is preserved by pushing.
LEMMA KeptAppend ==
  ASSUME NEW s \in Seq(Item), NEW x \in Item, NEW e, Kept(s, e)
  PROVE  /\ x.type \notin {"env", "box_end", "font"} => Kept(Append(s, x), e)
         /\ x.type \in Opening /\ OnBoundary(s) => Kept(Append(s, x), e)
         /\ x.type = "font" /\ x.level = e => Kept(Append(s, x), 1 + Groups(s))
BY FontChainAppend, OpenedAppend DEF Kept, Opening

\* Kept is preserved by popping.
LEMMA KeptFront ==
  ASSUME NEW s \in Seq(Item), s # <<>>, NEW e, Kept(s, e)
  PROVE  /\ Last(s).type # "font" => Kept(Front(s), e)
         /\ Last(s).type = "font" => Kept(Front(s), Last(s).level)
BY FontChainFront, OpenedFront DEF Kept

\* A boundary is the top of the stack after it was pushed.
LEMMA BoundaryOnTop ==
  ASSUME NEW s \in Seq(Item), NEW x \in Item, x.type = "boundary"
  PROVE  OnBoundary(Append(s, x))
BY PushPop DEF OnBoundary

\* Values disturb nothing.
LEMMA KeptBoxed ==
  ASSUME NEW s \in Seq(Item), NEW e, Kept(s, e), NEW table, NEW l,
         \A k \in Keys : SavedValue(k, table[k]) \in Item
  PROVE  /\ \A k \in Keys : Kept(Pushed(s, table, k, l), e)
         /\ \A dest \in Dests : Kept(BoxedStack(s, table, dest, l), e)
<1>1. ASSUME NEW k \in Keys PROVE Kept(Pushed(s, table, k, l), e)
  <2>1. SavedValue(k, table[k]) \in Item /\ SavedValue(k, table[k]).type = "value"
    BY DEF SavedValue
  <2>2. Kept(Append(s, SavedValue(k, table[k])), e)
    BY <2>1, KeptAppend
  <2>. QED
    BY <2>2 DEF Pushed
<1>2. ASSUME NEW dest \in Dests, ~OutsideTable(dest) PROVE dest.pos \in Keys
  BY <1>2 DEF Dests, OutsideTable, Keys
<1>. QED
  BY <1>1, <1>2 DEF BoxedStack

\* An empty stack has no fonts and opens nothing.
LEMMA InitKept == Init => Kept(saveStack, cur_font.level)
<1>. SUFFICES ASSUME Init PROVE Kept(saveStack, cur_font.level)
  OBVIOUS
<1>1. saveStack = <<>> /\ FontsOf(saveStack) = {} /\ cur_font.level = 0
  BY DEF Init, FontsOf
<1>. QED
  BY <1>1 DEF Kept, FontChain, Opened, LevelAt

\* Every step preserves Kept.
LEMMA NextKept == IInv /\ Kept(saveStack, cur_font.level) /\ [Next]_vars => Kept(saveStack, cur_font.level)'
<1>. SUFFICES ASSUME IInv, Kept(saveStack, cur_font.level), [Next]_vars
              PROVE  Kept(saveStack', cur_font'.level)
  BY DEF Kept, FontChain, Opened, Opening, LevelAt, FontsOf, GroupIn, Boundaries
<1>0. /\ TypeOK /\ saveStack \in Seq(Item) /\ eqtb \in Table /\ theBox \in Boxes \cup {NoBox}
      /\ cur_level = 1 + Groups(saveStack)
  BY DEF IInv, TypeOK, Table, LevelIsDepth, Groups
<1>2. ASSUME NEW k \in Keys, NEW l PROVE Kept(Pushed(saveStack, eqtb, k, l), cur_font.level)
  BY <1>0, SavedItems, KeptBoxed
<1>3. CASE UNCHANGED <<saveStack, cur_font>>
  BY <1>3
<1>4. CASE \/ \E k \in WordKeys, c \in Vals, gbl \in BOOLEAN : word_define(k, c, gbl)
           \/ \E k \in CmdKeys, c \in Vals, gbl \in BOOLEAN : eq_define(k, c, gbl)
  <2>1. WordKeys \subseteq Keys /\ CmdKeys \subseteq Keys
    BY DEF Keys
  <2>. QED
    BY <1>2, <1>4, <2>1 DEF word_define, eq_define
<1>5. ASSUME NEW k \in BoxKeys, NEW dest \in Dests, NEW copy \in BOOLEAN, begin_box(k, dest, copy)
      PROVE  Kept(saveStack', cur_font'.level)
  <2>. DEFINE emptied == IF copy THEN eqtb ELSE [eqtb EXCEPT ![k].val = Null]
  <2>1. \A n \in Keys : SavedValue(n, emptied[n]) \in Item
    <3>1. \A n \in Keys : emptied[n] = eqtb[n] \/ (n = k /\ emptied[n] = [eqtb[k] EXCEPT !.val = Null])
      BY <1>0 DEF TypeOK
    <3>. HIDE DEF emptied
    <3>. QED
      BY <1>0, <3>1, SavedItems
  <2>2. saveStack' = BoxedStack(saveStack, emptied, dest, cur_level) /\ cur_font' = cur_font
    BY <1>5 DEF begin_box
  <2>. HIDE DEF emptied
  <2>. QED
    BY <1>0, <2>1, <2>2, KeptBoxed
<1>6. ASSUME NEW f \in Fonts, font_has_changed(f) PROVE Kept(saveStack', cur_font'.level)
  <2>. DEFINE x == SavedFont(cur_font)
  <2>1. x \in Item /\ x.type = "font" /\ x.level = cur_font.level /\ cur_font'.level = cur_level
    BY <1>0, <1>6, SavedItems DEF SavedFont, font_has_changed
  <2>2. saveStack' = IF cur_font.level = cur_level THEN saveStack ELSE Append(saveStack, x)
    BY <1>6 DEF font_has_changed
  <2>. HIDE DEF x
  <2>3. Kept(Append(saveStack, x), cur_level)
    BY <1>0, <2>1, KeptAppend
  <2>. QED
    BY <2>1, <2>2, <2>3
<1>7. CASE \E t \in Tokens : T_aftergroup(t)
  <2>1. \A t \in Tokens : Aftergroup(t) \in Item /\ Aftergroup(t).type = "save"
    BY <1>0, SavedItems DEF Aftergroup
  <2>2. \A t \in Tokens : Kept(Append(saveStack, Aftergroup(t)), cur_font.level)
    BY <1>0, <2>1, KeptAppend
  <2>. QED
    BY <1>7, <2>2 DEF T_aftergroup
<1>8. ASSUME NEW v \in Kinds
      PROVE  /\ Append(saveStack, Boundary(v)) \in Seq(Item)
             /\ Kept(Append(saveStack, Boundary(v)), cur_font.level)
             /\ OnBoundary(Append(saveStack, Boundary(v)))
  <2>1. Boundary(v) \in Item /\ Boundary(v).type = "boundary"
    BY <1>0, SavedItems DEF Boundary
  <2>. QED
    BY <1>0, <2>1, KeptAppend, BoundaryOnTop, AppendProperties
<1>9. GroupKinds \subseteq Kinds /\ "env" \in Kinds /\ "brace" \in Kinds
  BY NamesAssumption DEF Kinds
<1>10. CASE \E v \in GroupKinds : push_level(v)
  BY <1>8, <1>9, <1>10 DEF push_level
<1>11. ASSUME NEW m \in Envs, T_begin(m) PROVE Kept(saveStack', cur_font'.level)
  <2>1. SavedEnv(cur_env_name, m) \in Item /\ SavedEnv(cur_env_name, m).type \in Opening
    BY <1>0, SavedItems DEF SavedEnv, Opening
  <2>2. /\ saveStack' = Append(Append(saveStack, Boundary("env")), SavedEnv(cur_env_name, m))
        /\ cur_font' = cur_font
    BY <1>11 DEF T_begin
  <2>. QED
    BY <1>8, <1>9, <2>1, <2>2, KeptAppend
<1>12. ASSUME NEW dest \in Dests, NEW v \in Vals, begin_hbox(dest, v)
       PROVE  Kept(saveStack', cur_font'.level)
  <2>. DEFINE x == BoxEnd([dest |-> dest, val |-> v])
  <2>1. x \in Item /\ x.type \in Opening
    BY <1>0, SavedItems DEF BoxEnd, Opening
  <2>2. /\ saveStack' = Append(Append(saveStack, Boundary("brace")), x)
        /\ cur_font' = cur_font
    BY <1>12 DEF begin_hbox
  <2>. HIDE DEF x
  <2>. QED
    BY <1>8, <1>9, <2>1, <2>2, KeptAppend
<1>13. ASSUME saveStack # <<>>
       PROVE  /\ Front(saveStack) \in Seq(Item)
              /\ Last(saveStack).type # "font" => Kept(Front(saveStack), cur_font.level)
              /\ Last(saveStack).type = "font" => Kept(Front(saveStack), Last(saveStack).level)
  BY <1>0, <1>13, KeptFront, PoppedAt
<1>14. CASE PopValue \/ PopEnv \/ PopFont \/ PopBoxEnd \/ PopAftergroup
  BY <1>13, <1>14 DEF PopValue, PopEnv, PopFont, PopBoxEnd, PopAftergroup, PopItem
<1>15. CASE PopBoundary
  <2>1. saveStack # <<>> /\ Last(saveStack).type = "boundary" /\ cur_font' = cur_font
    BY <1>15 DEF PopBoundary
  <2>2. Kept(Front(saveStack), cur_font.level) /\ Front(saveStack) \in Seq(Item)
    BY <1>13, <2>1
  <2>3. CASE theBox = NoBox
    BY <1>15, <2>1, <2>2, <2>3 DEF PopBoundary
  <2>4. CASE theBox # NoBox
    <3>1. theBox.dest \in Dests
      BY <1>0, <2>4 DEF Boxes
    <3>2. saveStack' = BoxedStack(Front(saveStack), eqtb, theBox.dest, cur_level - 1)
      BY <1>15, <2>4 DEF PopBoundary
    <3>. QED
      BY <1>0, <2>1, <2>2, <3>1, <3>2, SavedItems, KeptBoxed
  <2>. QED
    BY <2>3, <2>4
<1>16. CASE ~popping /\ Command
  <2>1. ASSUME NEW v, T_close(v) PROVE UNCHANGED <<saveStack, cur_font>>
    BY <2>1 DEF T_close, pop_level
  <2>2. ASSUME NEW m, T_end(m) PROVE UNCHANGED <<saveStack, cur_font>>
    BY <2>2 DEF T_end
  <2>3. sendgroup \/ ReadToken => UNCHANGED <<saveStack, cur_font>>
    BY DEF sendgroup, pop_level, ReadToken
  <2>. QED
    BY <1>3, <1>4, <1>5, <1>6, <1>7, <1>10, <1>11, <1>12, <1>16, <2>1, <2>2, <2>3 DEF Command
<1>17. CASE UNCHANGED vars
  BY <1>3, <1>17 DEF vars
<1>. QED
  BY <1>14, <1>15, <1>16, <1>17 DEF Next, Pop

\* A box waits while the boundary of its group is on the top.
LEMMA NextWaits ==
  IInv /\ Opened(saveStack) /\ (theBox # NoBox => OnBoundary(saveStack)) /\ [Next]_vars
    => (theBox # NoBox => OnBoundary(saveStack))'
<1>. SUFFICES ASSUME IInv, Opened(saveStack), theBox # NoBox => OnBoundary(saveStack), [Next]_vars,
                     theBox' # NoBox
              PROVE  OnBoundary(saveStack')
  BY DEF OnBoundary
<1>0. saveStack \in Seq(Item) /\ (theBox # NoBox => popping)
  BY DEF IInv, TypeOK, LoopMeetsBoundary
<1>1. CASE ~popping /\ Command
  <2>1. theBox = NoBox
    BY <1>0, <1>1
  <2>2. theBox' = theBox
    BY <1>1 DEF Command, push_level, T_close, pop_level, T_begin, T_end, begin_hbox, word_define,
       eq_define, begin_box, font_has_changed, T_aftergroup, sendgroup, ReadToken
  <2>. QED
    BY <2>1, <2>2
<1>2. CASE PopValue \/ PopEnv \/ PopFont \/ PopAftergroup
  <2>1. theBox' = theBox /\ Last(saveStack).type # "boundary"
    BY <1>2 DEF PopValue, PopEnv, PopFont, PopAftergroup, PopItem
  <2>. QED
    BY <2>1 DEF OnBoundary
<1>3. CASE PopBoxEnd
  <2>1. saveStack # <<>> /\ Last(saveStack).type \in Opening /\ saveStack' = Front(saveStack)
    BY <1>3 DEF PopBoxEnd, PopItem, Opening
  <2>. QED
    BY <1>0, <2>1, OpenedFront
<1>4. CASE PopBoundary
  BY <1>4 DEF PopBoundary
<1>5. CASE UNCHANGED vars
  BY <1>5 DEF vars
<1>. QED
  BY <1>1, <1>2, <1>3, <1>4, <1>5 DEF Next, Pop

\* The invariant holds at the start.
LEMMA InitRInv == Init => RInv
<1>1. Init => theBox = NoBox
  BY DEF Init
<1>. QED
  BY <1>1, InitIInv, InitChained, InitKept DEF RInv, Kept

\* Every step preserves the invariant.
LEMMA NextRInv == RInv /\ [Next]_vars => RInv'
<1>1. IInv /\ [Next]_vars => IInv'
  BY NextIInv
<1>2. IInv /\ Chained /\ [Next]_vars => Chained'
  BY NextChained
<1>3. IInv /\ FontChain(saveStack, cur_font.level) /\ Opened(saveStack) /\ [Next]_vars
        => FontChain(saveStack, cur_font.level)' /\ Opened(saveStack)'
  BY NextKept DEF Kept
<1>4. IInv /\ Opened(saveStack) /\ (theBox # NoBox => OnBoundary(saveStack)) /\ [Next]_vars
        => (theBox # NoBox => OnBoundary(saveStack))'
  BY NextWaits
<1>. QED
  BY <1>1, <1>2, <1>3, <1>4 DEF RInv

-----------------------------------------------------------------------------
\* What the mapping shows.

\* The mapping reads the scopes with the operators of this module.
LEMMA MappedScope ==
  /\ \A g : ScopeOf(g) = ViewOf(saveStack, eqtb, cur_font.packed, g)
  /\ \A g : AfterOf(g) = AfterIn(saveStack, g)
  /\ \A g : g # 0 => BoxOf(g) = BoxIn(saveStack, g)
<1>1. /\ \A i : Group(i) = GroupIn(saveStack, i)
      /\ \A k : Items(k) = ItemsOf(saveStack, k)
      /\ FontItems = FontsOf(saveStack)
      /\ \A g : ItemsIn(g) = PlacesIn(saveStack, g)
  BY DEF Group, GroupIn, Items, ItemsOf, FontItems, FontsOf, ItemsIn, PlacesIn
<1>2. \A k : Live(k) = LiveOf(saveStack, eqtb, k)
  BY <1>1 DEF Live, LiveOf, LiveIn
<1>3. ASSUME NEW g, NEW type
      PROVE  /\ { i \in ItemsIn(g) : saveStack[i].type = type } = TypedIn(saveStack, type, g)
             /\ ItemsIn(g) \cap { i \in DOMAIN saveStack : saveStack[i].type = type } = TypedIn(saveStack, type, g)
  BY <1>1 DEF PlacesIn, TypedIn
<1>4. ASSUME NEW g PROVE NameOf(g) = NameIn(saveStack, g)
  BY <1>3 DEF NameOf, NameIn, NameAt, EnvItems
<1>5. ASSUME NEW g PROVE AfterOf(g) = AfterIn(saveStack, g)
  <2>1. { i \in ItemsIn(g) : saveStack[i].type = "save" } = TypedIn(saveStack, "save", g)
    BY <1>3
  <2>. QED
    BY <2>1 DEF AfterOf, AfterIn, TokensAt, NthOf
<1>6. ASSUME NEW g PROVE (IF g = 0 THEN NoBox ELSE BoxOf(g)) = BoxIn(saveStack, g)
  <2>1. { i \in ItemsIn(g) : saveStack[i].type = "box_end" } = TypedIn(saveStack, "box_end", g)
    BY <1>3
  <2>. QED
    BY <2>1 DEF BoxOf, BoxIn
<1>7. ASSUME NEW g PROVE FontOf(g) = FontIn(saveStack, cur_font.packed, g)
  <2>1. FontItems \cap ItemsIn(g) = TypedIn(saveStack, "font", g)
    BY <1>3 DEF FontItems
  <2>2. \A i : FontAbove(i) = Hidden(saveStack, FontsOf(saveStack), cur_font.packed, i)
    BY <1>1 DEF FontAbove, Hidden
  <2>. QED
    BY <2>1, <2>2 DEF FontOf, FontIn
<1>8. ASSUME NEW g PROVE BindingsOf(g) = BindIn(saveStack, eqtb, g)
  <2>1. ASSUME NEW k, NEW i
        PROVE  EntryAbove(k, i).val = Hidden(saveStack, LiveOf(saveStack, eqtb, k), eqtb[k].val, i)
    BY <1>2 DEF EntryAbove, Hidden
  <2>2. (IF g = 0 THEN Keys ELSE { k \in Keys : Live(k) \cap ItemsIn(g) # {} }) =
          { k \in Keys : IsBound(saveStack, eqtb, g, k) }
    BY <1>1, <1>2 DEF IsBound, Binds
  <2>3. ASSUME NEW k
        PROVE  EntryAbove(k, IF g = 0 THEN 0 ELSE Max(Live(k) \cap ItemsIn(g))).val = Binding(saveStack, eqtb, g, k)
    BY <1>1, <1>2, <2>1 DEF Binding, ValueIn
  <2>. QED
    BY <2>2, <2>3 DEF BindingsOf, BindIn
<1>9. ASSUME NEW g
      PROVE  (IF g = 0 THEN "outer" ELSE saveStack[BoundaryOf(g)].val) = KindIn(saveStack, g)
  <2>1. { b \in Boundaries(saveStack) : Group(b) = g } = { b \in Boundaries(saveStack) : GroupIn(saveStack, b) = g }
    BY <1>1
  <2>. QED
    BY <2>1 DEF BoundaryOf, KindIn
<1>10. ASSUME NEW g PROVE ScopeOf(g) = ViewOf(saveStack, eqtb, cur_font.packed, g)
  BY <1>4, <1>5, <1>6, <1>7, <1>8, <1>9 DEF ScopeOf, ViewOf
<1>. QED
  BY <1>5, <1>6, <1>10

\* What the mapping shows of a state outside of pop_level.
Outside ==
  /\ OpenScopes = ScopesOf(saveStack, eqtb, cur_font.packed, cur_level)
  /\ Input = TL
  /\ PendingBox = NoBox
  /\ theBox = NoBox

\* What it shows of a state inside: the innermost group is already gone.
Inside ==
  /\ OpenScopes = ScopesOf(saveStack, eqtb, cur_font.packed, cur_level - 1)
  /\ Input = AfterIn(saveStack, Groups(saveStack)) \o TL
  /\ PendingBox = IF theBox # NoBox THEN theBox ELSE BoxIn(saveStack, Groups(saveStack))
  /\ Groups(saveStack) # 0

\* The parts of the invariant that the steps need.
Sound ==
  /\ TypeOK
  /\ saveStack \in Seq(Item) /\ eqtb \in Table /\ TL \in Seq(InputToken)
  /\ Groups(saveStack) \in Nat /\ cur_level = 1 + Groups(saveStack)
  /\ cur_level \in Nat /\ cur_level - 1 = Groups(saveStack)
  /\ ChainedIn(saveStack, eqtb, cur_level)

\* The mapping shows this of every state in which the invariant holds.
LEMMA Seen ==
  RInv => /\ Sound
          /\ ~popping => Outside
          /\ popping => Inside
<1>. SUFFICES ASSUME RInv PROVE Sound /\ (~popping => Outside) /\ (popping => Inside)
  OBVIOUS
<1>1. Sound
  <2>1. /\ TypeOK /\ saveStack \in Seq(Item) /\ eqtb \in Table /\ TL \in Seq(InputToken)
        /\ cur_level = 1 + Groups(saveStack) /\ ChainedIn(saveStack, eqtb, cur_level)
    BY DEF RInv, IInv, TypeOK, LevelIsDepth, Groups, Chained, Table
  <2>2. Groups(saveStack) \in Nat
    BY <2>1, BoundariesFinite DEF Groups
  <2>. QED
    BY <2>1, <2>2 DEF Sound
<1>2. /\ popping => Groups(saveStack) # 0
      /\ theBox # NoBox => popping
  <2>1. /\ popping => Boundaries(saveStack) # {}
        /\ theBox # NoBox => popping
    BY DEF RInv, IInv, LoopMeetsBoundary
  <2>2. ASSUME Boundaries(saveStack) # {} PROVE Groups(saveStack) # 0
    <3>1. Groups(saveStack) >= 1
      BY <1>1, <2>2, BoundaryCounted DEF Sound, Groups
    <3>. QED
      BY <3>1
  <2>. QED
    BY <2>1, <2>2
<1>3. ASSUME NEW m, m = OpenGroups + 1
      PROVE  OpenScopes = ScopesOf(saveStack, eqtb, cur_font.packed, m)
  BY <1>3, MappedScope DEF OpenScopes, ScopesOf
<1>4. CASE ~popping
  <2>1. OpenGroups + 1 = cur_level
    BY <1>1, <1>4 DEF OpenGroups, Sound, Groups
  <2>. QED
    BY <1>1, <1>2, <1>3, <1>4, <2>1 DEF Outside, Input, PendingBox
<1>5. CASE popping
  <2>1. OpenGroups + 1 = Groups(saveStack) /\ cur_level - 1 = OpenGroups + 1
    BY <1>1, <1>5 DEF OpenGroups, Sound, Groups
  <2>2. Input = AfterIn(saveStack, Groups(saveStack)) \o TL
    BY <1>5, <2>1, MappedScope DEF Input
  <2>3. PendingBox = IF theBox # NoBox THEN theBox ELSE BoxIn(saveStack, Groups(saveStack))
    BY <1>2, <1>5, <2>1, MappedScope DEF PendingBox
  <2>. QED
    BY <1>1, <1>2, <1>3, <1>5, <2>1, <2>2, <2>3 DEF Inside
<1>. QED
  BY <1>1, <1>4, <1>5

\* The same of the next state.
LEMMA SeenNext ==
  RInv' => /\ Sound'
           /\ ~popping' => Outside'
           /\ popping' => Inside'
BY Seen, PTL

-----------------------------------------------------------------------------
\* Opening a group.

\* push_level, \begin and \hbox open a scope.
LEMMA OpenSteps ==
  ASSUME Sound, Outside, Outside'
  PROVE  /\ \A v \in GroupKinds : push_level(v) => S!Open(v)
         /\ \A m \in Envs : T_begin(m) => S!OpenEnv(m)
         /\ \A dest \in Dests, v \in Vals : begin_hbox(dest, v) => S!OpenBox(dest, v)
<1>. DEFINE A == ScopesOf(saveStack, eqtb, cur_font.packed, cur_level)
<1>0. /\ TypeOK /\ saveStack \in Seq(Item) /\ cur_level = 1 + Groups(saveStack) /\ cur_level \in Nat
      /\ OpenScopes = A /\ Len(A) = cur_level
      /\ Input = TL /\ Input' = TL' /\ PendingBox = NoBox /\ PendingBox' = NoBox
      /\ OpenScopes' = ScopesOf(saveStack', eqtb', cur_font'.packed, cur_level')
  BY ScopesAt DEF Sound, Outside
<1>1. GroupKinds \subseteq Kinds /\ "env" \in Kinds /\ "brace" \in Kinds
  BY NamesAssumption DEF Kinds
<1>2. \A v \in Kinds : Boundary(v) \in Item /\ Boundary(v).type = "boundary" /\ v = Boundary(v).val
  BY <1>0, SavedItems DEF Boundary
<1>. HIDE DEF A
<1>3. ASSUME NEW v \in GroupKinds, push_level(v) PROVE S!Open(v)
  <2>1. /\ cur_level < MaxLevel /\ saveStack' = Append(saveStack, Boundary(v)) /\ cur_level' = cur_level + 1
        /\ eqtb' = eqtb /\ cur_font' = cur_font /\ TL' = TL
    BY <1>3 DEF push_level
  <2>2. OpenScopes' = Append(A, S!Scope(v, NoEnv, NoBox))
    <3>. DEFINE x == Boundary(v)
    <3>1. x \in Item /\ x.type = "boundary" /\ v = x.val
      BY <1>1, <1>2
    <3>2. OpenScopes' = ScopesOf(Append(saveStack, x), eqtb, cur_font.packed, cur_level + 1)
      BY <1>0, <2>1
    <3>. HIDE DEF x
    <3>. QED
      BY <1>0, <3>1, <3>2, ScopesOpened DEF A
  <2>. QED
    BY <1>0, <2>1, <2>2 DEF S!Open, S!Depth, S!NoBox, NoBox
<1>4. ASSUME NEW m \in Envs, T_begin(m) PROVE S!OpenEnv(m)
  <2>1. /\ cur_level < MaxLevel /\ cur_level' = cur_level + 1
        /\ saveStack' = Append(Append(saveStack, Boundary("env")), SavedEnv(cur_env_name, m))
        /\ eqtb' = eqtb /\ cur_font' = cur_font /\ TL' = TL
    BY <1>4 DEF T_begin
  <2>2. OpenScopes' = Append(A, S!Scope("env", m, NoBox))
    <3>. DEFINE x == Boundary("env")
                y == SavedEnv(cur_env_name, m)
                v == "env"
    <3>1. x \in Item /\ x.type = "boundary" /\ v = x.val
      BY <1>1, <1>2
    <3>2. OpenScopes' = ScopesOf(Append(Append(saveStack, x), y), eqtb, cur_font.packed, cur_level + 1)
      BY <1>0, <2>1
    <3>3. y \in Item /\ y.type = "env" /\ m = y.name
      BY <1>0, SavedItems DEF SavedEnv
    <3>. HIDE DEF x, y
    <3>. QED
      BY <1>0, <3>1, <3>2, <3>3, ScopesOpened DEF A
  <2>. QED
    BY <1>0, <2>1, <2>2 DEF S!OpenEnv, S!Depth, S!NoBox, NoBox
<1>5. ASSUME NEW dest \in Dests, NEW c \in Vals, begin_hbox(dest, c) PROVE S!OpenBox(dest, c)
  <2>1. /\ cur_level < MaxLevel /\ cur_level' = cur_level + 1
        /\ saveStack' = Append(Append(saveStack, Boundary("brace")), BoxEnd([dest |-> dest, val |-> c]))
        /\ eqtb' = eqtb /\ cur_font' = cur_font /\ TL' = TL
    BY <1>5 DEF begin_hbox
  <2>2. OpenScopes' = Append(A, S!Scope("brace", NoEnv, [dest |-> dest, val |-> c]))
    <3>. DEFINE x == Boundary("brace")
                b == [dest |-> dest, val |-> c]
                y == BoxEnd(b)
                v == "brace"
    <3>1. x \in Item /\ x.type = "boundary" /\ v = x.val
      BY <1>1, <1>2
    <3>2. OpenScopes' = ScopesOf(Append(Append(saveStack, x), y), eqtb, cur_font.packed, cur_level + 1)
      BY <1>0, <2>1
    <3>3. y \in Item /\ y.type = "box_end" /\ b = y.box
      BY <1>0, SavedItems DEF BoxEnd
    <3>. HIDE DEF x, y, b, v
    <3>4. OpenScopes' = Append(A, S!Scope(v, NoEnv, b))
      BY <1>0, <3>1, <3>2, <3>3, ScopesOpened DEF A
    <3>. QED
      BY <3>4 DEF v, b
  <2>. QED
    BY <1>0, <2>1, <2>2 DEF S!OpenBox, S!Depth
<1>. QED
  BY <1>3, <1>4, <1>5

-----------------------------------------------------------------------------
\* Assignments.

\* A name is looked up in the scopes as it is in the table.
LEMMA Looked ==
  ASSUME Sound, Outside, NEW k \in Keys
  PROVE  S!Home(k) = HomeAt(OpenScopes, k) /\ S!Lookup(k) = eqtb[k].val
<1>. DEFINE A == ScopesOf(saveStack, eqtb, cur_font.packed, cur_level)
<1>1. S!Home(k) = HomeAt(OpenScopes, k)
  BY DEF S!Home, S!Max, HomeAt, Max
<1>2. OpenScopes = A
  BY DEF Outside
<1>3. HomeAt(A, k) = HomeOf(saveStack, eqtb, k) + 1 /\ A[HomeOf(saveStack, eqtb, k) + 1].bind[k] = eqtb[k].val
  <2>. DEFINE t == eqtb
              f == cur_font.packed
              v == t[k].val
              l == cur_level
  <2>1. /\ saveStack \in Seq(Item) /\ t \in Table /\ l = 1 + Groups(saveStack) /\ ChainedIn(saveStack, t, l)
        /\ v = t[k].val
    BY DEF Sound
  <2>. HIDE DEF t, f, v, l
  <2>2. LET B == ScopesOf(saveStack, t, f, l)
        IN  HomeAt(B, k) = HomeOf(saveStack, t, k) + 1 /\ B[HomeOf(saveStack, t, k) + 1].bind[k] = v
    BY <2>1, ScopesHome
  <2>. QED
    BY <2>2 DEF t, f, v, l
<1>. HIDE DEF A
<1>. QED
  BY <1>1, <1>2, <1>3 DEF S!Lookup

\* word_define and eq_define assign in the innermost scope or in all of them.
LEMMA AssignSteps ==
  ASSUME Sound, Outside, Outside', NEW c \in Vals, NEW gbl \in BOOLEAN
  PROVE  /\ \A k \in WordKeys : word_define(k, c, gbl) => S!AssignLocal(k, c) \/ S!AssignGlobal(k, c)
         /\ \A k \in CmdKeys : eq_define(k, c, gbl) => S!AssignLocal(k, c) \/ S!AssignGlobal(k, c)
<1>. DEFINE A == ScopesOf(saveStack, eqtb, cur_font.packed, cur_level)
<1>0. /\ saveStack \in Seq(Item) /\ eqtb \in Table /\ cur_level = 1 + Groups(saveStack) /\ cur_level \in Nat
      /\ ChainedIn(saveStack, eqtb, cur_level)
      /\ OpenScopes = A
      /\ Input = TL /\ Input' = TL' /\ PendingBox = NoBox /\ PendingBox' = NoBox
      /\ OpenScopes' = ScopesOf(saveStack', eqtb', cur_font'.packed, cur_level')
      /\ c \in Values
  BY DEF Sound, Outside, Values
<1>. HIDE DEF A
<1>1. ASSUME NEW k \in Keys, saveStack' = saveStack, eqtb' = Defined(eqtb, k, c, 1),
             UNCHANGED <<cur_font, cur_level, TL>>
      PROVE  S!AssignGlobal(k, c)
  <2>1. Globally(eqtb, eqtb', k, c)
    BY <1>0, <1>1 DEF Globally, Defined, Table
  <2>2. OpenScopes' = ScopesOf(saveStack, eqtb', cur_font.packed, cur_level)
    BY <1>0, <1>1
  <2>3. OpenScopes' = S!BoundGlobally(A, k, c)
    <3>. DEFINE t2 == eqtb'
                f == cur_font.packed
    <3>1. Globally(eqtb, t2, k, c) /\ OpenScopes' = ScopesOf(saveStack, t2, f, cur_level)
      BY <2>1, <2>2
    <3>2. A = ScopesOf(saveStack, eqtb, f, cur_level)
      BY DEF A
    <3>. HIDE DEF t2, f
    <3>. QED
      BY <1>0, <3>1, <3>2, ScopesBoundGlobally
  <2>. QED
    BY <1>0, <1>1, <2>3 DEF S!AssignGlobal
<1>2. ASSUME NEW k \in Keys, saveStack' = Pushed(saveStack, eqtb, k, cur_level),
             eqtb' = Defined(eqtb, k, c, cur_level),
             UNCHANGED <<cur_font, cur_level, TL>>
      PROVE  OpenScopes' = S!BoundLocally(OpenScopes, k, c) /\ UNCHANGED <<Input, PendingBox>>
  <2>1. OpenScopes' = ScopesOf(Pushed(saveStack, eqtb, k, cur_level), Defined(eqtb, k, c, cur_level),
                               cur_font.packed, cur_level)
    BY <1>0, <1>2
  <2>2. OpenScopes' = S!BoundLocally(A, k, c)
    BY <1>0, <2>1, ScopesBoundLocally DEF A
  <2>. QED
    BY <1>0, <1>2, <2>2
<1>3. WordKeys \subseteq Keys /\ CmdKeys \subseteq Keys /\ WordKeys \cap CmdKeys = {}
  BY NamesAssumption DEF Keys
<1>4. ASSUME NEW k \in WordKeys, word_define(k, c, gbl) PROVE S!AssignLocal(k, c) \/ S!AssignGlobal(k, c)
  <2>0. UNCHANGED <<cur_font, cur_level, TL>>
    BY <1>4 DEF word_define
  <2>1. CASE gbl
    BY <1>1, <1>3, <1>4, <2>0, <2>1 DEF word_define
  <2>2. CASE ~gbl /\ eqtb[k].val = c
    <3>1. S!Lookup(k) = c
      BY <1>3, <2>2, Looked
    <3>2. UNCHANGED <<eqtb, saveStack>>
      BY <1>4, <2>2 DEF word_define
    <3>3. OpenScopes' = OpenScopes /\ UNCHANGED <<Input, PendingBox>>
      BY <1>0, <2>0, <3>2 DEF A
    <3>. QED
      BY <3>1, <3>3 DEF S!AssignLocal
  <2>3. CASE ~gbl /\ eqtb[k].val # c
    <3>1. S!Lookup(k) # c
      BY <1>3, <2>3, Looked
    <3>2. saveStack' = Pushed(saveStack, eqtb, k, cur_level) /\ eqtb' = Defined(eqtb, k, c, cur_level)
      BY <1>4, <2>3 DEF word_define
    <3>3. OpenScopes' = S!BoundLocally(OpenScopes, k, c) /\ UNCHANGED <<Input, PendingBox>>
      BY <1>2, <1>3, <2>0, <3>2
    <3>. QED
      BY <3>1, <3>3 DEF S!AssignLocal
  <2>. QED
    BY <2>1, <2>2, <2>3
<1>5. ASSUME NEW k \in CmdKeys, eq_define(k, c, gbl) PROVE S!AssignLocal(k, c) \/ S!AssignGlobal(k, c)
  <2>0. UNCHANGED <<cur_font, cur_level, TL>>
    BY <1>5 DEF eq_define
  <2>1. CASE gbl
    BY <1>1, <1>3, <1>5, <2>0, <2>1 DEF eq_define
  <2>2. CASE ~gbl
    <3>1. saveStack' = Pushed(saveStack, eqtb, k, cur_level) /\ eqtb' = Defined(eqtb, k, c, cur_level)
      BY <1>5, <2>2 DEF eq_define
    <3>2. OpenScopes' = S!BoundLocally(OpenScopes, k, c) /\ UNCHANGED <<Input, PendingBox>>
      BY <1>2, <1>3, <2>0, <3>1
    <3>. QED
      BY <1>3, <3>2 DEF S!AssignLocal
  <2>. QED
    BY <2>1, <2>2
<1>. QED
  BY <1>4, <1>5

\* Boxes that are moved or copied.
LEMMA BoxSteps ==
  ASSUME LastRegister \notin BoxKeys, Sound, Outside, Outside',
         NEW k \in BoxKeys, NEW dest \in Dests, NEW copy \in BOOLEAN, begin_box(k, dest, copy)
  PROVE  S!UseBox(k, dest) \/ S!CopyBox(k, dest)
<1>. DEFINE A == ScopesOf(saveStack, eqtb, cur_font.packed, cur_level)
            f == cur_font.packed
            v == eqtb[k].val
            emptied == IF copy THEN eqtb ELSE [eqtb EXCEPT ![k].val = Null]
<1>0. /\ saveStack \in Seq(Item) /\ eqtb \in Table /\ cur_level = 1 + Groups(saveStack) /\ cur_level \in Nat
      /\ ChainedIn(saveStack, eqtb, cur_level)
      /\ OpenScopes = A
      /\ Input = TL /\ Input' = TL' /\ PendingBox = NoBox /\ PendingBox' = NoBox
      /\ OpenScopes' = ScopesOf(saveStack', eqtb', cur_font'.packed, cur_level')
  BY DEF Sound, Outside
<1>1. k \in Keys
  BY DEF Keys
<1>2. v \in Values /\ S!Home(k) = HomeAt(A, k) /\ S!Lookup(k) = v
  BY <1>0, <1>1, Looked DEF Table
<1>3. /\ saveStack' = BoxedStack(saveStack, emptied, dest, cur_level)
      /\ eqtb' = BoxedTable(emptied, dest, v, cur_level)
      /\ UNCHANGED <<cur_font, cur_level, TL>>
  BY DEF begin_box
<1>4. UNCHANGED <<Input, PendingBox>>
  BY <1>0, <1>3
<1>5. emptied \in Table /\ ChainedIn(saveStack, emptied, cur_level) /\ (~copy => InPlace(eqtb, emptied, k, Null))
  <2>1. Null \in Values
    BY DEF Values
  <2>2. emptied \in Table
    BY <1>0, <1>1, <2>1 DEF Table
  <2>3. \A n \in Keys : emptied[n].level = eqtb[n].level
    BY <1>0, <1>1 DEF Table
  <2>4. ~copy => InPlace(eqtb, emptied, k, Null)
    BY <1>0, <1>1 DEF InPlace, Table
  <2>. HIDE DEF emptied
  <2>5. ChainedIn(saveStack, emptied, cur_level)
    BY <1>0, <2>3 DEF ChainedIn
  <2>. QED
    BY <2>2, <2>4, <2>5
<1>6. copy => emptied = eqtb
  OBVIOUS
<1>. HIDE DEF A, emptied, v, f
<1>7. OpenScopes' = ScopesOf(BoxedStack(saveStack, emptied, dest, cur_level),
                             BoxedTable(emptied, dest, v, cur_level), f, cur_level)
  BY <1>0, <1>3 DEF f
<1>8. OpenScopes' = S!Delivered(ScopesOf(saveStack, emptied, f, cur_level), dest, v)
  BY <1>0, <1>2, <1>5, <1>7, ScopesDelivered
<1>9. CASE copy
  <2>1. OpenScopes' = S!Delivered(OpenScopes, dest, v)
    BY <1>0, <1>6, <1>8, <1>9 DEF A, f
  <2>. QED
    BY <1>2, <1>4, <2>1 DEF S!CopyBox
<1>10. CASE ~copy
  <2>0. A = ScopesOf(saveStack, eqtb, f, cur_level)
    BY DEF A, f
  <2>1. ScopesOf(saveStack, emptied, f, cur_level) = [A EXCEPT ![HomeAt(A, k)].bind[k] = Null]
    <3>1. InPlace(eqtb, emptied, k, Null)
      BY <1>5, <1>10
    <3>. QED
      BY <1>0, <1>1, <2>0, <3>1, ScopesEmptied
  <2>2. OpenScopes' = S!Delivered([OpenScopes EXCEPT ![S!Home(k)].bind[k] = Null], dest, S!Lookup(k))
    BY <1>0, <1>2, <1>8, <2>1
  <2>. QED
    BY <1>4, <2>2 DEF S!UseBox
<1>. QED
  BY <1>9, <1>10

-----------------------------------------------------------------------------
\* Fonts and \aftergroup.

\* A font chosen twice in a group replaces the first one.
LEMMA FontTop ==
  ASSUME NEW s \in Seq(Item), NEW e, FontChain(s, e), e = 1 + Groups(s)
  PROVE  FontsOf(s) # {} /\ GroupIn(s, Max(FontsOf(s))) = Groups(s)
<1>1. Groups(s) \in Nat /\ GroupIn(s, Max(FontsOf(s))) \in Nat
  BY BoundariesFinite, GroupType DEF Groups
<1>2. e = LevelAt(s, FontsOf(s)) /\ e # 0
  BY <1>1 DEF FontChain
<1>. QED
  BY <1>1, <1>2 DEF LevelAt

\* font_has_changed sets the font of the innermost scope.
LEMMA FontSteps ==
  ASSUME RInv, Sound, Outside, Outside', NEW f2 \in Fonts, font_has_changed(f2)
  PROVE  S!SetFont(f2)
<1>. DEFINE s == saveStack
            t == eqtb
            f == cur_font.packed
            l == cur_level
            G == Groups(s)
            A == ScopesOf(s, t, f, l)
            w == [ViewOf(s, t, f, G) EXCEPT !.font = f2]
<1>0. /\ TypeOK /\ s \in Seq(Item) /\ l = 1 + G /\ l \in Nat /\ G \in Nat /\ l - 1 = G
      /\ FontChain(s, cur_font.level)
      /\ OpenScopes = A
      /\ Input = TL /\ Input' = TL' /\ PendingBox = NoBox /\ PendingBox' = NoBox
      /\ OpenScopes' = ScopesOf(saveStack', eqtb', cur_font'.packed, cur_level')
  BY DEF Sound, Outside, RInv
<1>1. /\ eqtb' = t /\ cur_level' = l /\ TL' = TL /\ cur_font'.packed = f2
      /\ saveStack' = IF cur_font.level = l THEN s ELSE Append(s, SavedFont(cur_font))
  BY DEF font_has_changed
<1>3. OpenScopes' = ScopesOf(saveStack', t, f2, l)
  BY <1>0, <1>1
<1>4. OneChanged(s, t, f, saveStack', t, f2, l, G, w)
  <2>1. CASE cur_font.level = l
    <3>1. FontsOf(s) # {} /\ GroupIn(s, Max(FontsOf(s))) = Groups(s)
      BY <1>0, <2>1, FontTop
    <3>. HIDE DEF s, f, t
    <3>2. \A g \in 0..Groups(s) : FontIn(s, f2, g) = IF g = Groups(s) THEN f2 ELSE FontIn(s, f, g)
      BY <1>0, <3>1, FontInPlace
    <3>3. \A g \in 0..G : ViewOf(s, t, f2, g) = IF g = G THEN w ELSE ViewOf(s, t, f, g)
      BY <3>2 DEF ViewOf
    <3>4. saveStack' = s
      BY <1>1, <2>1
    <3>. HIDE DEF G, w
    <3>. QED
      BY <1>0, <3>3, <3>4 DEF OneChanged
  <2>2. CASE cur_font.level # l
    <3>. DEFINE x == SavedFont(cur_font)
    <3>1. x \in Item /\ x.type = "font" /\ f = x.val
      BY <1>0, SavedItems DEF SavedFont
    <3>2. saveStack' = Append(s, x)
      BY <1>1, <2>2
    <3>3. s \in Seq(Item) /\ l = 1 + Groups(s)
      BY <1>0
    <3>. HIDE DEF x, s, f, t, l
    <3>. QED
      BY <3>1, <3>2, <3>3, TopChanged
  <2>. QED
    BY <2>1, <2>2
<1>. DEFINE s2 == saveStack'
<1>. HIDE DEF s, t, f, l, s2, w
<1>5. /\ ScopesOf(s2, t, f2, l) = [A EXCEPT ![l] = w] /\ Len(A) = l /\ A[l] = ViewOf(s, t, f, G)
  BY <1>0, <1>4, ScopesTop DEF s2
<1>. HIDE DEF A, G
<1>6. [A EXCEPT ![l].font = f2] = [A EXCEPT ![l] = w]
  <2>1. w = [A[l] EXCEPT !.font = f2]
    BY <1>5 DEF w
  <2>. QED
    BY <2>1
<1>. QED
  BY <1>0, <1>1, <1>3, <1>5, <1>6 DEF S!SetFont, S!Depth, s2

\* \aftergroup adds its token to the innermost scope.
LEMMA AftergroupSteps ==
  ASSUME Sound, Outside, Outside', NEW tok \in Tokens, T_aftergroup(tok)
  PROVE  S!AfterGroup(tok)
<1>. DEFINE s == saveStack
            t == eqtb
            f == cur_font.packed
            l == cur_level
            G == Groups(s)
            A == ScopesOf(s, t, f, l)
            x == Aftergroup(tok)
            a == Append(AfterIn(s, G), <<"plain", tok>>)
            w == [ViewOf(s, t, f, G) EXCEPT !.after = a]
<1>0. /\ TypeOK /\ s \in Seq(Item) /\ l = 1 + G /\ l \in Nat /\ G \in Nat /\ l - 1 = G
      /\ OpenScopes = A
      /\ Input = TL /\ Input' = TL' /\ PendingBox = NoBox /\ PendingBox' = NoBox
      /\ OpenScopes' = ScopesOf(saveStack', eqtb', cur_font'.packed, cur_level')
  BY DEF Sound, Outside
<1>1. TL' = TL /\ OpenScopes' = ScopesOf(Append(s, x), t, f, l)
  BY <1>0 DEF T_aftergroup
<1>2. x \in Item /\ x.type = "save" /\ tok = x.val
  BY <1>0, SavedItems DEF Aftergroup
<1>. HIDE DEF s, t, f, l, x
<1>4. OneChanged(s, t, f, Append(s, x), t, f, l, G, w)
  <2>1. s \in Seq(Item) /\ l = 1 + Groups(s)
    BY <1>0
  <2>. QED
    BY <1>2, <2>1, TopChanged
<1>. DEFINE s2 == Append(s, x)
<1>. HIDE DEF s2, w
<1>5. /\ ScopesOf(s2, t, f, l) = [A EXCEPT ![l] = w] /\ Len(A) = l /\ A[l] = ViewOf(s, t, f, G)
  BY <1>0, <1>4, ScopesTop DEF s2
<1>6. A[l].after = AfterIn(s, G)
  BY <1>5 DEF ViewOf
<1>. HIDE DEF A, G
<1>7. [A EXCEPT ![l].after = Append(@, <<"plain", tok>>)] = [A EXCEPT ![l] = w]
  <2>1. w = [A[l] EXCEPT !.after = Append(A[l].after, <<"plain", tok>>)]
    BY <1>5, <1>6 DEF w
  <2>. QED
    BY <2>1
<1>. QED
  BY <1>0, <1>1, <1>5, <1>7 DEF S!AfterGroup, S!Depth, s2

-----------------------------------------------------------------------------
\* Closing a group.

\* Each environment of the save stack gives its name to one group.
LEMMA EnvNamed ==
  ASSUME NEW s \in Seq(Item), Opened(s), NEW i \in DOMAIN s, s[i].type = "env"
  PROVE  NameIn(s, GroupIn(s, i)) = s[i].name /\ GroupIn(s, i) \in 0..Groups(s)
<1>. DEFINE E == TypedIn(s, "env", GroupIn(s, i))
<1>1. /\ Len(s) \in Nat /\ DOMAIN s = 1..Len(s)
      /\ E \in SUBSET (1..Len(s)) /\ i \in E
  BY LenProperties DEF TypedIn
<1>2. ASSUME NEW j \in E, NEW h \in E, j < h PROVE FALSE
  <2>1. /\ j \in 1..Len(s) /\ h \in 1..Len(s) /\ s[j].type = "env" /\ s[h].type = "env"
        /\ GroupIn(s, j) = GroupIn(s, h)
    BY <1>1 DEF TypedIn
  <2>2. h - 1 \in 1..Len(s) /\ s[h - 1].type = "boundary"
    <3>1. h \in DOMAIN s /\ s[h].type \in Opening
      BY <1>1, <2>1 DEF Opening
    <3>2. h > 1 /\ s[h - 1].type = "boundary"
      BY <3>1 DEF Opened
    <3>. QED
      BY <1>1, <2>1, <3>2
  <2>3. h - 1 \in Boundaries(s) /\ j # h - 1
    BY <1>1, <2>1, <2>2 DEF Boundaries
  <2>4. j < h - 1 /\ h - 1 <= h /\ j \in Nat /\ h \in Nat
    BY <1>1, <1>2, <2>1, <2>3
  <2>. QED
    BY <2>1, <2>3, <2>4, GroupStrict
<1>3. E = {i}
  <2>1. ASSUME NEW j \in E PROVE j = i
    <3>1. j \in 1..Len(s) /\ i \in 1..Len(s)
      BY <1>1
    <3>2. ~(j < i) /\ ~(i < j)
      BY <1>1, <1>2
    <3>. QED
      BY <1>1, <3>1, <3>2
  <2>. QED
    BY <1>1, <2>1
<1>4. Max({i}) = i
  BY <1>1, <1>3, GreatestPosition
<1>5. GroupIn(s, i) \in 0..Groups(s)
  BY GroupType, BoundariesFinite DEF Groups
<1>. QED
  BY <1>3, <1>4, <1>5 DEF NameIn, NameAt

\* pop_level closes the innermost scope, or nothing.
LEMMA CloseLevel ==
  ASSUME Sound, ~popping, Outside, Sound', ~popping' => Outside', popping' => Inside', NEW v, pop_level(v)
  PROVE  /\ popping' => /\ S!Closes(v)
                        /\ OpenScopes' = S!Front(OpenScopes)
                        /\ Input' = S!Top.after \o TL'
                        /\ PendingBox' = S!Top.box
         /\ ~popping' => UNCHANGED <<OpenScopes, PendingBox>> /\ Input' = TL'
         /\ ~popping' /\ v = "env" => ~S!Closes("env")
<1>. DEFINE s == saveStack
            t == eqtb
            f == cur_font.packed
            l == cur_level
            G == Groups(s)
            A == ScopesOf(s, t, f, l)
<1>0. /\ TypeOK /\ s \in Seq(Item) /\ l = 1 + G /\ l \in Nat /\ G \in Nat /\ l - 1 = G /\ l = (l - 1) + 1 /\ l \in 1..l
      /\ OpenScopes = A /\ theBox = NoBox
      /\ Input = TL /\ PendingBox = NoBox
  BY DEF Sound, Outside
<1>1. /\ popping' <=> first_boundary # "impossible" /\ (first_boundary = "env" => v = "env")
      /\ saveStack' = s /\ eqtb' = t /\ cur_font' = cur_font /\ cur_level' = l /\ theBox' = NoBox
  BY <1>0 DEF pop_level
<1>2. Len(A) = l /\ A[l] = ViewOf(s, t, f, G)
  BY <1>0, ScopesAt
<1>3. /\ S!Depth = l /\ S!Top = ViewOf(s, t, f, G)
      /\ S!Top.kind = KindIn(s, G) /\ S!Top.after = AfterIn(s, G) /\ S!Top.box = BoxIn(s, G)
  BY <1>0, <1>2 DEF S!Depth, S!Top, ViewOf
<1>4. Boundaries(s) # {} =>
        /\ KindIn(s, G) = first_boundary /\ G # 0
        /\ first_boundary \in Kinds /\ first_boundary # "impossible"
  <2>. SUFFICES ASSUME Boundaries(s) # {}
                PROVE  /\ KindIn(s, G) = first_boundary /\ G # 0
                       /\ first_boundary \in Kinds /\ first_boundary # "impossible"
    OBVIOUS
  <2>1. KindIn(s, G) = first_boundary /\ G # 0
    BY <1>0, KindTop DEF first_boundary, LastBoundary
  <2>2. Boundaries(s) \in SUBSET (1..Len(s)) /\ Len(s) \in Nat
    BY <1>0, BoundariesFinite, LenProperties
  <2>3. LastBoundary \in 1..Len(s) /\ s[LastBoundary].type = "boundary"
    BY <2>2, GreatestPosition DEF LastBoundary, Boundaries
  <2>4. s[LastBoundary] \in Item
    BY <1>0, <2>3, ElementOfSeq
  <2>5. s[LastBoundary].val \in Kinds
    BY <2>3, <2>4 DEF Item
  <2>6. "impossible" \notin Kinds
    BY NamesAssumption DEF Kinds
  <2>. QED
    BY <2>1, <2>5, <2>6 DEF first_boundary
<1>5. Boundaries(s) = {} => first_boundary = "impossible" /\ G = 0
  BY FS_EmptySet DEF first_boundary, Groups
<1>6. CASE popping'
  <2>1. Boundaries(s) # {} /\ (first_boundary = "env" => v = "env")
    BY <1>1, <1>5, <1>6
  <2>2. S!Closes(v)
    BY <1>0, <1>3, <1>4, <2>1 DEF S!Closes
  <2>3. /\ OpenScopes' = ScopesOf(s, t, f, l - 1)
        /\ Input' = AfterIn(s, G) \o TL'
        /\ PendingBox' = BoxIn(s, G)
    BY <1>1, <1>6 DEF Inside
  <2>4. S!Front(OpenScopes) = ScopesOf(s, t, f, l - 1)
    <3>1. Front(ScopesOf(s, t, f, (l - 1) + 1)) = ScopesOf(s, t, f, l - 1)
      <4>. DEFINE m == l - 1
      <4>1. m \in Nat
        BY <1>0
      <4>. HIDE DEF m, s, t, f
      <4>2. Front(ScopesOf(s, t, f, m + 1)) = ScopesOf(s, t, f, m)
        BY <4>1, ScopesFront
      <4>. QED
        BY <4>2 DEF m
    <3>. QED
      BY <1>0, <3>1 DEF S!Front, Front
  <2>. QED
    BY <1>3, <1>6, <2>2, <2>3, <2>4
<1>7. CASE ~popping'
  <2>1. UNCHANGED <<OpenScopes, PendingBox>> /\ Input' = TL'
    BY <1>0, <1>1, <1>7 DEF Outside
  <2>2. ASSUME v = "env" PROVE ~S!Closes("env")
    <3>1. G = 0
      BY <1>1, <1>4, <1>5, <1>7, <2>2
    <3>. QED
      BY <1>0, <1>3, <3>1 DEF S!Closes
  <2>. QED
    BY <1>7, <2>1, <2>2
<1>. QED
  BY <1>6, <1>7

\* }, \endgroup and the mark of \end close the innermost scope, or are
\* refused as they are by Scopes.
LEMMA CloseSteps ==
  ASSUME Sound, ~popping, Outside, Sound', ~popping' => Outside', popping' => Inside'
  PROVE  /\ \A v \in GroupKinds : T_close(v) => S!Close(v) \/ UNCHANGED S!vars
         /\ sendgroup => S!ReadEnd
<1>0. Input = TL /\ PendingBox = NoBox
  BY DEF Outside
<1>1. ASSUME NEW v, pop_level(v)
      PROVE  /\ popping' => /\ S!Closes(v)
                            /\ OpenScopes' = S!Front(OpenScopes)
                            /\ Input' = S!Top.after \o TL'
                            /\ PendingBox' = S!Top.box
             /\ ~popping' => UNCHANGED <<OpenScopes, PendingBox>> /\ Input' = TL'
             /\ ~popping' /\ v = "env" => ~S!Closes("env")
  BY <1>1, CloseLevel
<1>2. ASSUME NEW v \in GroupKinds, T_close(v) PROVE S!Close(v) \/ UNCHANGED S!vars
  <2>1. pop_level(v) /\ TL' = Input
    BY <1>0, <1>2 DEF T_close
  <2>2. CASE popping'
    BY <1>1, <2>1, <2>2 DEF S!Close, S!CloseTop
  <2>3. CASE ~popping'
    BY <1>0, <1>1, <2>1, <2>3 DEF S!vars
  <2>. QED
    BY <2>2, <2>3
<1>3. ASSUME sendgroup PROVE S!ReadEnd
  <2>1. Input # <<>> /\ Head(Input)[1] = "sendgroup" /\ TL' = Tail(Input) /\ pop_level("env")
    BY <1>0, <1>3 DEF sendgroup
  <2>2. CASE popping'
    <3>1. S!Closes("env") /\ S!CloseTop(Tail(Input))
      BY <1>1, <2>1, <2>2 DEF S!CloseTop
    <3>. QED
      BY <2>1, <3>1 DEF S!ReadEnd
  <2>3. CASE ~popping'
    <3>1. ~S!Closes("env") /\ Input' = Tail(Input) /\ UNCHANGED <<OpenScopes, PendingBox>>
      BY <1>1, <2>1, <2>3
    <3>. QED
      BY <2>1, <3>1 DEF S!ReadEnd
  <2>. QED
    BY <2>2, <2>3
<1>. QED
  BY <1>2, <1>3

\* Tokens are read, and \end looks for its environment among the scopes.
LEMMA ReadSteps ==
  ASSUME Sound, Opened(saveStack), Outside, Outside'
  PROVE  /\ ReadToken => S!Read
         /\ \A n \in Envs : T_end(n) => S!End(n) \/ UNCHANGED S!vars
<1>. DEFINE s == saveStack
            t == eqtb
            f == cur_font.packed
            l == cur_level
            A == ScopesOf(s, t, f, l)
<1>0. /\ s \in Seq(Item) /\ l = 1 + Groups(s) /\ l \in Nat /\ Groups(s) \in Nat
      /\ OpenScopes = A /\ Input = TL /\ Input' = TL' /\ PendingBox = NoBox /\ PendingBox' = NoBox
      /\ OpenScopes' = ScopesOf(saveStack', eqtb', cur_font'.packed, cur_level')
  BY DEF Sound, Outside
<1>1. ASSUME UNCHANGED <<saveStack, eqtb, cur_font, cur_level>>
      PROVE  OpenScopes' = OpenScopes /\ PendingBox' = PendingBox
  BY <1>0, <1>1
<1>2. ReadToken => S!Read
  BY <1>0, <1>1 DEF ReadToken, S!Read
<1>3. ASSUME NEW n \in Envs, T_end(n) PROVE S!End(n) \/ UNCHANGED S!vars
  <2>0. /\ OpenScopes' = OpenScopes /\ PendingBox' = PendingBox
        /\ TL' = IF is_env_on_stack(n) THEN <<<<"sendgroup", n>>>> \o TL ELSE TL
    BY <1>1, <1>3 DEF T_end
  <2>1. CASE is_env_on_stack(n)
    <3>1. PICK i \in DOMAIN s : s[i].type = "env" /\ s[i].name = n
      BY <2>1 DEF is_env_on_stack
    <3>2. NameIn(s, GroupIn(s, i)) = n /\ GroupIn(s, i) \in 0..Groups(s)
      BY <1>0, <3>1, EnvNamed
    <3>. DEFINE g == GroupIn(s, i)
    <3>3. g + 1 \in 1..l /\ (g + 1) - 1 = g
      BY <1>0, <3>2
    <3>4. DOMAIN A = 1..l /\ A[g + 1] = ViewOf(s, t, f, g)
      BY <1>0, <3>3, ScopesAt
    <3>5. A[g + 1].name = n /\ g + 1 \in DOMAIN A
      BY <3>2, <3>3, <3>4 DEF ViewOf
    <3>. HIDE DEF g, A
    <3>6. \E j \in DOMAIN OpenScopes : OpenScopes[j].name = n
      BY <1>0, <3>5
    <3>. QED
      BY <1>0, <2>0, <2>1, <3>6 DEF S!End
  <2>2. CASE ~is_env_on_stack(n)
    BY <1>0, <2>0, <2>2 DEF S!vars
  <2>. QED
    BY <2>1, <2>2
<1>. QED
  BY <1>2, <1>3

-----------------------------------------------------------------------------
\* The loop of pop_level.

\* An item that leaves the stack changes no scope: the group is already gone.
LEMMA PopKeepsScopes ==
  ASSUME Sound, popping, Inside, Sound', popping', Inside',
         NEW u \in Seq(Item), NEW x \in Item, x.type # "boundary",
         saveStack = Append(u, x), saveStack' = u,
         AlikeBelow(u, x, eqtb, cur_font.packed, eqtb', cur_font'.packed)
  PROVE  /\ UNCHANGED OpenScopes
         /\ Groups(saveStack) = Groups(u) /\ Groups(u) \in Nat /\ Groups(u) # 0
         /\ Input = AfterIn(saveStack, Groups(u)) \o TL
         /\ Input' = AfterIn(u, Groups(u)) \o TL'
         /\ PendingBox = IF theBox # NoBox THEN theBox ELSE BoxIn(saveStack, Groups(u))
         /\ PendingBox' = IF theBox' # NoBox THEN theBox' ELSE BoxIn(u, Groups(u))
<1>1. /\ Groups(saveStack) = Groups(u) /\ Groups(u) \in Nat
      /\ ScopesOf(u, eqtb', cur_font'.packed, Groups(u)) = ScopesOf(saveStack, eqtb, cur_font.packed, Groups(u))
  <2>. DEFINE t == eqtb
              f == cur_font.packed
              t2 == eqtb'
              f2 == cur_font'.packed
  <2>1. AlikeBelow(u, x, t, f, t2, f2)
    OBVIOUS
  <2>. HIDE DEF t, f, t2, f2
  <2>2. /\ Groups(Append(u, x)) = Groups(u) /\ Groups(u) \in Nat
        /\ ScopesOf(u, t2, f2, Groups(u)) = ScopesOf(Append(u, x), t, f, Groups(u))
    BY <2>1, ScopesPopped
  <2>. QED
    BY <2>2 DEF t, f, t2, f2
<1>2. cur_level - 1 = Groups(saveStack) /\ cur_level' - 1 = Groups(saveStack')
  BY DEF Sound
<1>3. OpenScopes' = OpenScopes
  BY <1>1, <1>2 DEF Inside
<1>. QED
  BY <1>1, <1>3 DEF Inside

\* The turns of the loop of pop_level before the last one are not seen.
LEMMA PopSteps ==
  ASSUME Sound, popping, Inside, theBox # NoBox => OnBoundary(saveStack), Sound', popping', Inside',
         PopValue \/ PopEnv \/ PopFont \/ PopBoxEnd \/ PopAftergroup
  PROVE  UNCHANGED S!vars
<1>. DEFINE s == saveStack
            u == Front(saveStack)
            x == Last(saveStack)
            t == eqtb
            f == cur_font.packed
            G == Groups(u)
<1>0. TypeOK /\ s \in Seq(Item) /\ t \in Table /\ TL \in Seq(InputToken)
  BY DEF Sound
<1>1. /\ s # <<>> /\ saveStack' = u
      /\ x.type \in {"value", "env", "font", "box_end", "save"}
  BY DEF PopValue, PopEnv, PopFont, PopBoxEnd, PopAftergroup, PopItem
<1>2. u \in Seq(Item) /\ x \in Item /\ s = Append(u, x) /\ x.type # "boundary"
  BY <1>0, <1>1, PoppedAt, PushPop
<1>3. ASSUME AlikeBelow(u, x, eqtb, cur_font.packed, eqtb', cur_font'.packed)
      PROVE  /\ UNCHANGED OpenScopes
             /\ G \in Nat /\ G # 0 /\ Groups(s) = G
             /\ Input = AfterIn(s, G) \o TL
             /\ Input' = AfterIn(u, G) \o TL'
             /\ PendingBox = IF theBox # NoBox THEN theBox ELSE BoxIn(s, G)
             /\ PendingBox' = IF theBox' # NoBox THEN theBox' ELSE BoxIn(u, G)
  <2>. HIDE DEF u, x
  <2>1. saveStack = Append(u, x) /\ saveStack' = u
    BY <1>1, <1>2
  <2>. QED
    BY <1>2, <1>3, <2>1, PopKeepsScopes
<1>. HIDE DEF s, u, x, t, f
<1>4. \A g \in 0..G : /\ x.type # "save" => AfterIn(s, g) = AfterIn(u, g)
                      /\ x.type # "box_end" => BoxIn(s, g) = BoxIn(u, g)
  BY <1>2, PartsAppend
<1>5. /\ x.type \notin {"value", "font"} => AlikeBelow(u, x, t, f, t, f)
      /\ x.type = "font" => AlikeBelow(u, x, t, f, t, x.val)
  BY <1>2, PoppedViews
<1>6. ASSUME x.type \notin {"save", "box_end"}, UNCHANGED <<TL, theBox>>,
             AlikeBelow(u, x, eqtb, cur_font.packed, eqtb', cur_font'.packed)
      PROVE  UNCHANGED S!vars
  <2>1. G \in 0..G
    BY <1>3, <1>6
  <2>2. AfterIn(s, G) = AfterIn(u, G) /\ BoxIn(s, G) = BoxIn(u, G)
    BY <1>4, <1>6, <2>1
  <2>. QED
    BY <1>3, <1>6, <2>2 DEF S!vars
<1>7. CASE PopValue
  <2>1. /\ x.type = "value" /\ UNCHANGED <<TL, theBox, cur_font>>
        /\ eqtb' = IF t[x.pos].level = 1 THEN t ELSE Defined(t, x.pos, x.val, x.level)
    BY <1>7 DEF PopValue, PopItem, x, t
  <2>2. CASE t[x.pos].level = 1
    <3>1. SameLive(u, x, t)
      BY <1>2, <2>2, NoValueSameLive
    <3>2. AlikeBelow(u, x, t, f, t, f)
      BY <1>2, <2>1, <3>1, PoppedViews
    <3>. QED
      BY <1>6, <2>1, <2>2, <3>2 DEF t, f
  <2>3. CASE t[x.pos].level # 1
    <3>. DEFINE t2 == Defined(t, x.pos, x.val, x.level)
                k == x.pos
    <3>1. k \in Keys /\ Saves(u, t2, x, t, k)
      BY <1>0, <1>2, <2>1, <2>3, RestoredSaves
    <3>2. eqtb' = t2
      BY <2>1, <2>3
    <3>. HIDE DEF t2, k
    <3>3. AlikeBelow(u, x, t, f, t2, f)
      <4>1. \A table : \A n \in Keys : Saves(u, table, x, t, n) => AlikeBelow(u, x, t, f, table, f)
        BY <1>2, PoppedViews
      <4>. QED
        BY <3>1, <4>1
    <3>. QED
      BY <1>6, <2>1, <3>2, <3>3 DEF t, f
  <2>. QED
    BY <2>2, <2>3
<1>8. CASE PopEnv
  <2>1. x.type = "env" /\ UNCHANGED <<TL, theBox, cur_font, eqtb>>
    BY <1>8 DEF PopEnv, PopItem, x
  <2>. QED
    BY <1>5, <1>6, <2>1 DEF t, f
<1>9. CASE PopFont
  <2>1. x.type = "font" /\ UNCHANGED <<TL, theBox, eqtb>> /\ cur_font'.packed = x.val
    BY <1>9 DEF PopFont, PopItem, x
  <2>. QED
    BY <1>5, <1>6, <2>1 DEF t, f
<1>10. CASE PopBoxEnd
  <2>1. x.type = "box_end" /\ UNCHANGED <<TL, eqtb, cur_font>> /\ theBox' = x.box
    BY <1>10 DEF PopBoxEnd, PopItem, x
  <2>2. theBox = NoBox
    BY <2>1 DEF OnBoundary, x
  <2>3. AlikeBelow(u, x, eqtb, cur_font.packed, eqtb', cur_font'.packed)
    BY <1>5, <2>1 DEF t, f
  <2>4. G \in 0..G /\ G # 0
    BY <1>3, <2>3
  <2>5. AfterIn(s, G) = AfterIn(u, G)
    BY <1>4, <2>1, <2>4
  <2>6. BoxIn(s, G) = x.box
    BY <1>2, <2>1, <2>4, ViewBoxEnd
  <2>7. x.box # NoBox
    <3>1. x.box \in Boxes
      BY <1>2, <2>1 DEF Item
    <3>2. DOMAIN x.box = {"dest", "val"}
      BY <3>1 DEF Boxes
    <3>. QED
      BY <3>2 DEF NoBox
  <2>. QED
    BY <1>3, <2>1, <2>2, <2>3, <2>5, <2>6, <2>7 DEF S!vars
<1>11. CASE PopAftergroup
  <2>1. x.type = "save" /\ UNCHANGED <<theBox, eqtb, cur_font>> /\ TL' = <<<<"plain", x.val>>>> \o TL
    BY <1>11 DEF PopAftergroup, PopItem, x
  <2>2. AlikeBelow(u, x, eqtb, cur_font.packed, eqtb', cur_font'.packed)
    BY <1>5, <2>1 DEF t, f
  <2>3. G \in 0..G
    BY <1>3, <2>2
  <2>4. BoxIn(s, G) = BoxIn(u, G)
    BY <1>4, <2>1, <2>3
  <2>5. AfterIn(s, G) \o TL = AfterIn(u, G) \o TL'
    <3>. DEFINE v == x.val
                e == <<"plain", v>>
                a == AfterIn(u, G)
    <3>1. AfterIn(s, G) = Append(a, e) /\ a \in Seq(InputToken) /\ e \in InputToken
      <4>1. v = x.val
        OBVIOUS
      <4>. HIDE DEF v, G
      <4>. QED
        BY <1>2, <2>1, <4>1, SavedToken DEF G
    <3>2. TL' = <<e>> \o TL
      BY <2>1
    <3>. HIDE DEF e, a
    <3>3. Append(a, e) \o TL = a \o (<<e>> \o TL)
      BY <1>0, <3>1
    <3>. QED
      BY <3>1, <3>2, <3>3 DEF a
  <2>. QED
    BY <1>3, <2>1, <2>2, <2>4, <2>5 DEF S!vars
<1>. QED
  BY <1>7, <1>8, <1>9, <1>10, <1>11

\* The last turn delivers the box that was finished in the group, if any.
LEMMA BoundarySteps ==
  ASSUME LastRegister \notin BoxKeys, Sound, popping, Inside, Sound', Outside', PopBoundary
  PROVE  S!PlaceBox \/ UNCHANGED S!vars
<1>. DEFINE s == saveStack
            u == Front(saveStack)
            x == Last(saveStack)
            t == eqtb
            f == cur_font.packed
            l == cur_level - 1
            G == Groups(u)
<1>0. /\ TypeOK /\ s \in Seq(Item) /\ t \in Table /\ TL \in Seq(InputToken)
      /\ cur_level \in Nat /\ l = Groups(s) /\ Groups(s) \in Nat /\ cur_level = 1 + Groups(s)
      /\ theBox \in Boxes \cup {NoBox}
      /\ ChainedIn(s, t, cur_level)
  BY DEF Sound, TypeOK
<1>1. /\ s # <<>> /\ x.type = "boundary" /\ UNCHANGED <<TL, cur_font>>
      /\ cur_level' = l
      /\ saveStack' = IF theBox = NoBox THEN u ELSE BoxedStack(u, t, theBox.dest, l)
      /\ eqtb' = IF theBox = NoBox THEN t ELSE BoxedTable(t, theBox.dest, theBox.val, l)
  BY DEF PopBoundary
<1>2. u \in Seq(Item) /\ x \in Item /\ s = Append(u, x)
  BY <1>0, <1>1, PoppedAt, PushPop
<1>3. G \in Nat /\ Groups(s) = G + 1 /\ l = 1 + G /\ l = G + 1 /\ l \in Nat
  <2>1. Groups(u) \in Nat /\ Groups(Append(u, x)) = Groups(u) + 1
    <3>. HIDE DEF u, x
    <3>. QED
      BY <1>1, <1>2, GroupsAppend
  <2>2. Groups(s) = G + 1 /\ G \in Nat
    BY <1>2, <2>1
  <2>. QED
    BY <1>0, <2>2
<1>4. ChainedIn(u, t, l)
  <2>1. cur_level = 1 + Cardinality(Boundaries(s))
    BY <1>0 DEF Groups
  <2>2. ChainedIn(u, t, IF x.type = "boundary" THEN cur_level - 1 ELSE cur_level)
    BY <1>0, <1>1, <2>1, ChainsFront
  <2>. QED
    BY <1>1, <2>2
<1>5. /\ OpenScopes = ScopesOf(s, t, f, l)
      /\ Input = AfterIn(s, G + 1) \o TL
      /\ PendingBox = IF theBox # NoBox THEN theBox ELSE BoxIn(s, G + 1)
      /\ OpenScopes' = ScopesOf(saveStack', eqtb', f, l)
      /\ Input' = TL /\ PendingBox' = NoBox
  BY <1>1, <1>3 DEF Inside, Outside
<1>. HIDE DEF s, u, x, t, f, l
<1>6. \A g \in 0..G : ViewOf(Append(u, x), t, f, g) = ViewOf(u, t, f, g)
  <2>1. x.type \notin {"env", "value", "font", "save", "box_end"}
    BY <1>1
  <2>. QED
    BY <1>2, <2>1, PartsAppend DEF ViewOf
<1>7. AfterIn(s, G + 1) = <<>> /\ BoxIn(s, G + 1) = NoBox
  BY <1>1, <1>2, AfterAppend, BoxAppend
<1>8. Input = TL /\ PendingBox = theBox
  BY <1>0, <1>5, <1>7
<1>9. OpenScopes = ScopesOf(u, t, f, l)
  <2>1. \A g \in 0..(l - 1) : ViewOf(s, t, f, g) = ViewOf(u, t, f, g)
    <3>. TAKE g \in 0..(l - 1)
    <3>1. g \in 0..G
      BY <1>3
    <3>. QED
      BY <1>2, <1>6, <3>1
  <2>2. ScopesOf(s, t, f, l) = ScopesOf(u, t, f, l)
    BY <1>3, <2>1, ScopesSame
  <2>. QED
    BY <1>5, <2>2
<1>10. CASE theBox = NoBox
  BY <1>1, <1>5, <1>8, <1>9, <1>10 DEF S!vars
<1>11. CASE theBox # NoBox
  <2>1. theBox.dest \in Dests /\ theBox.val \in Values
    BY <1>0, <1>11 DEF Boxes
  <2>. DEFINE d == theBox.dest
              v == theBox.val
  <2>2. saveStack' = BoxedStack(u, t, d, l) /\ eqtb' = BoxedTable(t, d, v, l)
    BY <1>1, <1>11
  <2>3. d \in Dests /\ v \in Values
    BY <2>1
  <2>. HIDE DEF d, v
  <2>4. OpenScopes' = S!Delivered(OpenScopes, d, v)
    <3>1. l = 1 + Groups(u)
      BY <1>3
    <3>2. ScopesOf(BoxedStack(u, t, d, l), BoxedTable(t, d, v, l), f, l) = S!Delivered(ScopesOf(u, t, f, l), d, v)
      BY <1>0, <1>2, <1>4, <2>3, <3>1, ScopesDelivered
    <3>. QED
      BY <1>5, <1>9, <2>2, <3>2
  <2>. QED
    BY <1>5, <1>8, <1>11, <2>4 DEF S!PlaceBox, S!NoBox, NoBox, d, v
<1>. QED
  BY <1>10, <1>11

-----------------------------------------------------------------------------
\* The refinement.

\* At the start there is one scope, the outer one, which binds every name to
\* its initial value.
LEMMA ScopesInit == Init => S!Init
<1>. SUFFICES ASSUME Init PROVE S!Init
  OBVIOUS
<1>1. RInv
  BY InitRInv
<1>2. ~popping /\ saveStack = <<>> /\ TL = <<>> /\ cur_level = 1 /\ saveStack \in Seq(Item)
      /\ eqtb = [k \in Keys |-> [val |-> InitialValue(k), level |-> 0]]
  BY DEF Init
<1>3. OpenScopes = ScopesOf(saveStack, eqtb, cur_font.packed, 1) /\ Input = <<>> /\ PendingBox = NoBox
  BY <1>1, <1>2, Seen DEF Outside
<1>4. ViewOf(saveStack, eqtb, cur_font.packed, 0) = S!OuterScope
  <2>1. \A type : TypedIn(saveStack, type, 0) = {}
    BY <1>2 DEF TypedIn
  <2>2. KindIn(saveStack, 0) = "outer" /\ BoxIn(saveStack, 0) = NoBox
    BY DEF KindIn, BoxIn
  <2>3. NameIn(saveStack, 0) = NoEnv /\ FontIn(saveStack, cur_font.packed, 0) = NoFont
    BY <2>1 DEF NameIn, NameAt, FontIn
  <2>4. AfterIn(saveStack, 0) = <<>>
    <3>1. Cardinality({}) = 0 /\ 1..0 = {}
      BY FS_EmptySet
    <3>2. AfterIn(saveStack, 0) = [n \in {} |-> <<"plain", saveStack[NthOf({}, n)].val>>]
      BY <2>1, <3>1 DEF AfterIn, TokensAt
    <3>. QED
      BY <3>2
  <2>5. BindIn(saveStack, eqtb, 0) = [k \in Keys |-> InitialValue(k)]
    <3>1. \A k \in Keys : LiveOf(saveStack, eqtb, k) = {} /\ eqtb[k].val = InitialValue(k)
      BY <1>2 DEF LiveOf, LiveIn, ItemsOf
    <3>2. \A k \in Keys : IsBound(saveStack, eqtb, 0, k) /\ Binding(saveStack, eqtb, 0, k) = InitialValue(k)
      BY <3>1 DEF IsBound, Binds, Binding, ValueIn, Hidden
    <3>3. { n \in Keys : IsBound(saveStack, eqtb, 0, n) } = Keys
      BY <3>2
    <3>. QED
      BY <3>2, <3>3 DEF BindIn
  <2>. QED
    BY <2>2, <2>3, <2>4, <2>5 DEF ViewOf, S!OuterScope, S!NoBox, NoBox, S!Keys, Keys, S!InitialValue, InitialValue
<1>5. OpenScopes = <<S!OuterScope>>
  <2>. DEFINE A == ScopesOf(saveStack, eqtb, cur_font.packed, 1)
  <2>1. A = [n \in 1..1 |-> ViewOf(saveStack, eqtb, cur_font.packed, n - 1)]
    BY DEF ScopesOf
  <2>2. \A n \in 1..1 : n = 1 /\ n - 1 = 0
    OBVIOUS
  <2>3. A = [n \in 1..1 |-> S!OuterScope]
    BY <1>4, <2>1, <2>2
  <2>. QED
    BY <1>3, <2>3
<1>. QED
  BY <1>3, <1>5 DEF S!Init, S!NoBox, NoBox

\* Every step of the save stack is a step of the scopes, or is not seen there.
LEMMA ScopesNext ==
  ASSUME LastRegister \notin BoxKeys, RInv, RInv', [Next]_vars
  PROVE  [S!Next]_(S!vars)
<1>1. /\ Sound /\ (~popping => Outside) /\ (popping => Inside)
      /\ Sound' /\ (~popping' => Outside') /\ (popping' => Inside')
  BY Seen, SeenNext
<1>2. Opened(saveStack) /\ (theBox # NoBox => OnBoundary(saveStack))
  BY DEF RInv
<1>3. CASE UNCHANGED vars
  <2>1. UNCHANGED <<saveStack, eqtb, cur_font, cur_level, popping, theBox, TL>>
    BY <1>3 DEF vars
  <2>2. OpenScopes' = OpenScopes /\ Input' = Input /\ PendingBox' = PendingBox
    <3>1. CASE popping
      BY <1>1, <2>1, <3>1 DEF Inside
    <3>2. CASE ~popping
      BY <1>1, <2>1, <3>2 DEF Outside
    <3>. QED
      BY <3>1, <3>2
  <2>. QED
    BY <2>2 DEF S!vars
<1>4. CASE ~popping /\ Command
  <2>0. Outside /\ PendingBox = S!NoBox
    BY <1>1, <1>4 DEF Outside, S!NoBox, NoBox
  <2>1. ASSUME S!Command PROVE [S!Next]_(S!vars)
    BY <2>0, <2>1 DEF S!Next
  <2>2. ASSUME UNCHANGED popping PROVE Outside'
    BY <1>1, <1>4, <2>2
  <2>3. ASSUME NEW v \in GroupKinds, push_level(v) PROVE S!Open(v)
    BY <1>1, <2>0, <2>2, <2>3, OpenSteps DEF push_level
  <2>4. ASSUME NEW n \in Envs, T_begin(n) PROVE S!OpenEnv(n)
    BY <1>1, <2>0, <2>2, <2>4, OpenSteps DEF T_begin
  <2>5. ASSUME NEW dest \in Dests, NEW v \in Vals, begin_hbox(dest, v) PROVE S!OpenBox(dest, v)
    BY <1>1, <2>0, <2>2, <2>5, OpenSteps DEF begin_hbox
  <2>6. ASSUME NEW k \in WordKeys, NEW c \in Vals, NEW gbl \in BOOLEAN, word_define(k, c, gbl)
        PROVE  S!AssignLocal(k, c) \/ S!AssignGlobal(k, c)
    <3>1. Outside'
      BY <2>2, <2>6 DEF word_define
    <3>. QED
      BY <1>1, <2>0, <2>6, <3>1, AssignSteps
  <2>7. ASSUME NEW k \in CmdKeys, NEW c \in Vals, NEW gbl \in BOOLEAN, eq_define(k, c, gbl)
        PROVE  S!AssignLocal(k, c) \/ S!AssignGlobal(k, c)
    <3>1. Outside'
      BY <2>2, <2>7 DEF eq_define
    <3>. QED
      BY <1>1, <2>0, <2>7, <3>1, AssignSteps
  <2>8. ASSUME NEW k \in BoxKeys, NEW dest \in Dests, NEW copy \in BOOLEAN, begin_box(k, dest, copy)
        PROVE  S!UseBox(k, dest) \/ S!CopyBox(k, dest)
    <3>1. Outside'
      BY <2>2, <2>8 DEF begin_box
    <3>. QED
      BY <1>1, <2>0, <2>8, <3>1, BoxSteps
  <2>9. ASSUME NEW g \in Fonts, font_has_changed(g) PROVE S!SetFont(g)
    <3>1. Outside'
      BY <2>2, <2>9 DEF font_has_changed
    <3>. QED
      BY <1>1, <2>0, <2>9, <3>1, FontSteps
  <2>10. ASSUME NEW tok \in Tokens, T_aftergroup(tok) PROVE S!AfterGroup(tok)
    <3>1. Outside'
      BY <2>2, <2>10 DEF T_aftergroup
    <3>. QED
      BY <1>1, <2>0, <2>10, <3>1, AftergroupSteps
  <2>11. ASSUME NEW v \in GroupKinds, T_close(v) PROVE S!Close(v) \/ UNCHANGED S!vars
    BY <1>1, <1>4, <2>0, <2>11, CloseSteps
  <2>12. ASSUME sendgroup PROVE S!ReadEnd
    BY <1>1, <1>4, <2>0, <2>12, CloseSteps
  <2>13. ASSUME ReadToken PROVE S!Read
    BY <1>1, <1>2, <2>0, <2>2, <2>13, ReadSteps DEF ReadToken
  <2>14. ASSUME NEW n \in Envs, T_end(n) PROVE S!End(n) \/ UNCHANGED S!vars
    BY <1>1, <1>2, <2>0, <2>2, <2>14, ReadSteps DEF T_end
  <2>15. S!Command \/ UNCHANGED S!vars
    BY <1>4, <2>3, <2>4, <2>5, <2>6, <2>7, <2>8, <2>9, <2>10, <2>11, <2>12, <2>13, <2>14
       DEF Command, S!Command, S!Dests, Dests
  <2>. QED
    BY <2>1, <2>15
<1>5. CASE Pop
  <2>1. popping /\ Inside
    BY <1>1, <1>5 DEF Pop, PopValue, PopEnv, PopFont, PopBoxEnd, PopAftergroup, PopBoundary, PopItem
  <2>2. CASE PopBoundary
    <3>1. Outside'
      BY <1>1, <2>2 DEF PopBoundary
    <3>. QED
      BY <1>1, <2>1, <2>2, <3>1, BoundarySteps DEF S!Next
  <2>3. CASE PopValue \/ PopEnv \/ PopFont \/ PopBoxEnd \/ PopAftergroup
    <3>1. popping'
      BY <2>1, <2>3 DEF PopValue, PopEnv, PopFont, PopBoxEnd, PopAftergroup
    <3>2. Inside'
      BY <1>1, <3>1
    <3>3. UNCHANGED S!vars
      BY <1>1, <1>2, <2>1, <2>3, <3>1, <3>2, PopSteps
    <3>. QED
      BY <3>3
  <2>. QED
    BY <1>5, <2>2, <2>3 DEF Pop
<1>. QED
  BY <1>3, <1>4, <1>5 DEF Next

\* SaveStack implements Scopes: after any commands, and in the middle of
\* pop_level, every name, font, box and \aftergroup token is where the scopes of
\* the document say.  The last register is excluded because box_end loses what
\* is assigned to it locally.
THEOREM SaveStackImplementsScopes ==
  ASSUME LastRegister \notin BoxKeys
  PROVE  Spec => ImplementsScopes
<1>1. Init => S!Init
  BY ScopesInit
<1>2. Init => RInv
  BY InitRInv
<1>3. RInv /\ [Next]_vars => RInv'
  BY NextRInv
<1>4. RInv /\ RInv' /\ [Next]_vars => [S!Next]_(S!vars)
  BY ScopesNext
<1>. QED
  BY <1>1, <1>2, <1>3, <1>4, PTL DEF Spec, ImplementsScopes, S!Spec

=============================================================================
