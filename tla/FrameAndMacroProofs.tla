------------------------- MODULE FrameAndMacroProofs ------------------------
(***************************************************************************)
(* Proofs about the two components that are built over SaveStack, first    *)
(* DocumentFrames, for every author and any nesting, then MacroTable, for  *)
(* every finite set of commands and any number of macros.                  *)
(*                                                                         *)
(* Frames.  The first part is about groups that are closed in any order:   *)
(* an EndOfData finds its special_tpa_arg unless an argument ended inside  *)
(* another one, and the environment names survive.  The second part is     *)
(* about documents without mistakes: the level counts the groups and the   *)
(* boundaries of arguments are those of the active calls.                  *)
(*                                                                         *)
(* NoCrash is not inductive: what makes it true is that there are never    *)
(* more boundaries of type bt_tpa on the stack than calls that can catch   *)
(* the exception, between two commands, in the middle of the loop of       *)
(* pop_level that is about to throw, and between the two calls of          *)
(* pop_level in T_end (Caught).  The levels and boundaries need not match  *)
(* each other any more, so that LevelIsDepth is of no use here.            *)
(***************************************************************************)
EXTENDS DocumentFrames, MacroTable, SaveStackProofs

FTable == [Keys -> [val : Values, level : Int]]

\* The items that frames push; a level may be wrong, even negative.
FItem ==
  [type : {"boundary"}, val : Kinds \cup {"local", "tpa"}]
    \cup [type : {"value"}, pos : Keys, val : Values, level : Int]
    \cup [type : {"env"}, oldname : EnvNames, name : Envs]
    \cup [type : {"font"}, val : FontSettings, level : Int]
    \cup [type : {"box_end"}, box : Boxes]
    \cup [type : {"save"}, val : Tokens]

\* The types of the state of the parser, and of what frames add to it.
ParserTypeOK ==
  /\ eqtb \in FTable
  /\ cur_level \in Int
  /\ saveStack \in Seq(FItem)
  /\ cur_env_name \in EnvNames
  /\ cur_font \in [packed : FontSettings, level : Int]
  /\ TL \in Seq(InputToken)
  /\ popping \in BOOLEAN
  /\ theBox \in Boxes \cup {NoBox}

FramesTypeOK ==
  /\ mistakes \in Authors
  /\ calls \in Seq(Call)
  /\ pc \in {"run", "throw", "end_tpa", "end_env", "list", "all", "done", "crashed"}
  /\ seen_document \in BOOLEAN
  /\ nullEntry \in BOOLEAN

IsTpa(x) == x.type = "boundary" /\ x.val = "tpa"
TpaItems == { x \in FItem : IsTpa(x) }
TpaIn(s) == At(s, TpaItems)
CatchersIn(c) == At(c, { y \in Call : y.kind = "tpa" })
FirstOf(s) == IF Boundaries(s) = {} THEN "impossible" ELSE s[Max(Boundaries(s))].val

\* Beside n boundaries that are gone, each of those on the stack has a call
\* that catches what it raises.
Enough(s, c, n) == Cardinality(TpaIn(s)) + n <= Cardinality(CatchersIn(c))

\* The loop that throws, or comes back to T_end, runs above a boundary of
\* type bt_tpa; every EndOfData that can still be thrown is caught.
CaughtIn(s, c, p, loop, null) ==
  /\ p = "throw" => loop /\ FirstOf(s) = "tpa"
  /\ p = "end_tpa" /\ loop => FirstOf(s) = "tpa"
  /\ "list" \notin mistakes =>
       /\ p = "crashed" => null
       /\ p = "list" => Last(c).kind = "local"
       /\ p \in {"run", "throw", "list"} \/ (p = "end_tpa" /\ loop) => Enough(s, c, 0)
       /\ p = "end_env" \/ (p = "end_tpa" /\ ~loop) => Enough(s, c, 1)

Caught == CaughtIn(saveStack, calls, pc, popping, nullEntry)

\* At the outer level the destructor of a boundary pushes nothing.
NoNull ==
  "stop" \notin mistakes => ~nullEntry /\ (pc = "all" => cur_level <= 1)

\* The call whose list is exhausted is active until it returns.
Listed == pc = "list" => \E i \in DOMAIN calls : calls[i].kind = "local"

FInv ==
  ParserTypeOK /\ FramesTypeOK /\ EnvChain(saveStack, cur_env_name) /\ Caught /\ NoNull /\ Listed

-----------------------------------------------------------------------------
\* Lemmas about the two stacks.

\* Boundaries and calls are counted by natural numbers.
LEMMA CountsType ==
  /\ \A s \in Seq(FItem) : Cardinality(TpaIn(s)) \in Nat
  /\ \A c \in Seq(Call) : /\ CatchersIn(c) \in SUBSET (1..Len(c)) /\ Cardinality(CatchersIn(c)) \in Nat
                          /\ Cardinality(CatchersIn(c)) = 0 <=> CatchersIn(c) = {}
<1>1. ASSUME NEW s \in Seq(FItem) PROVE Cardinality(TpaIn(s)) \in Nat
  BY RankType DEF TpaIn
<1>2. ASSUME NEW c \in Seq(Call)
      PROVE  /\ CatchersIn(c) \in SUBSET (1..Len(c)) /\ IsFiniteSet(CatchersIn(c))
             /\ Cardinality(CatchersIn(c)) \in Nat
  BY RankType DEF CatchersIn
<1>. QED
  BY <1>1, <1>2, FS_EmptySet

\* Pushing an item: it is counted when it is a boundary of type bt_tpa, and
\* the names stay unless it is an environment.
LEMMA FramePushed ==
  ASSUME NEW s \in Seq(FItem), NEW x \in FItem
  PROVE  /\ Append(s, x) \in Seq(FItem)
         /\ Cardinality(TpaIn(Append(s, x))) = Cardinality(TpaIn(s)) + (IF IsTpa(x) THEN 1 ELSE 0)
         /\ \A name : EnvChain(s, name) /\ x.type # "env" => EnvChain(Append(s, x), name)
<1>1. Append(s, x) \in Seq(FItem)
  BY AppendProperties
<1>2. ASSUME NEW name, EnvChain(s, name), x.type # "env" PROVE EnvChain(Append(s, x), name)
  BY <1>2, EnvChainAppend
<1>3. Cardinality(At(Append(s, x), TpaItems)) = Cardinality(At(s, TpaItems)) + (IF x \in TpaItems THEN 1 ELSE 0)
  BY RankAppend
<1>. QED
  BY <1>1, <1>2, <1>3 DEF TpaIn, TpaItems

\* Popping an item: the boundary of the current group is the last item, or
\* stays below it.
LEMMA FramePopped ==
  ASSUME NEW s \in Seq(FItem), s # <<>>
  PROVE  /\ Front(s) \in Seq(FItem) /\ Last(s) \in FItem
         /\ Cardinality(TpaIn(Front(s))) = Cardinality(TpaIn(s)) - (IF IsTpa(Last(s)) THEN 1 ELSE 0)
         /\ Last(s).type = "boundary" => FirstOf(s) = Last(s).val
         /\ Last(s).type # "boundary" => FirstOf(Front(s)) = FirstOf(s)
<1>. DEFINE t == Front(s)
<1>1. /\ Len(s) \in Nat \ {0} /\ DOMAIN s = 1..Len(s) /\ DOMAIN t = 1..(Len(s) - 1)
      /\ \A i \in 1..(Len(s) - 1) : t[i] = s[i]
      /\ t \in Seq(FItem) /\ Last(s) = s[Len(s)] /\ Last(s) \in FItem
  BY PoppedAt
<1>. HIDE DEF t
<1>2. Cardinality(At(t, TpaItems)) = Cardinality(At(s, TpaItems)) - (IF Last(s) \in TpaItems THEN 1 ELSE 0)
  BY RankFront DEF t
<1>6. Cardinality(TpaIn(t)) = Cardinality(TpaIn(s)) - (IF IsTpa(Last(s)) THEN 1 ELSE 0)
  BY <1>1, <1>2 DEF TpaIn, TpaItems
<1>7. Boundaries(s) \in SUBSET (1..Len(s))
  BY <1>1 DEF Boundaries
<1>8. Boundaries(s) # {} => /\ Max(Boundaries(s)) \in Boundaries(s)
                            /\ \A i \in Boundaries(s) : i <= Max(Boundaries(s))
  BY <1>1, <1>7, GreatestPosition
<1>9. CASE Last(s).type = "boundary"
  <2>1. Len(s) \in Boundaries(s)
    BY <1>1, <1>9 DEF Boundaries
  <2>. DEFINE M == Max(Boundaries(s))
  <2>. HIDE DEF M
  <2>2. Len(s) \in Int /\ M \in Int /\ M <= Len(s) /\ Len(s) <= M
    BY <1>1, <1>7, <1>8, <2>1 DEF M
  <2>3. M = Len(s)
    BY <2>2
  <2>. QED
    BY <1>1, <1>6, <1>9, <2>1, <2>3 DEF FirstOf, M, t
<1>10. CASE Last(s).type # "boundary"
  <2>1. Boundaries(t) = Boundaries(s) /\ Len(s) \notin Boundaries(s)
    BY <1>1, <1>10 DEF Boundaries
  <2>2. \A i \in Boundaries(s) : t[i] = s[i]
    BY <1>1, <1>7, <2>1
  <2>. QED
    BY <1>1, <1>6, <1>8, <1>10, <2>1, <2>2 DEF FirstOf, t
<1>. QED
  BY <1>9, <1>10

\* An assignment pushes no boundary and no environment.
LEMMA FrameBoxed ==
  ASSUME NEW s \in Seq(FItem), NEW table \in FTable, NEW l \in Int
  PROVE  /\ \A k \in Keys :
              /\ Pushed(s, table, k, l) \in Seq(FItem)
              /\ Cardinality(TpaIn(Pushed(s, table, k, l))) = Cardinality(TpaIn(s))
              /\ \A name : EnvChain(s, name) => EnvChain(Pushed(s, table, k, l), name)
              /\ l <= 1 => Pushed(s, table, k, l) = s
         /\ \A dest \in Dests :
              /\ BoxedStack(s, table, dest, l) \in Seq(FItem)
              /\ Cardinality(TpaIn(BoxedStack(s, table, dest, l))) = Cardinality(TpaIn(s))
              /\ \A name : EnvChain(s, name) => EnvChain(BoxedStack(s, table, dest, l), name)
              /\ l <= 1 => BoxedStack(s, table, dest, l) = s
              /\ \A c \in Values : BoxedTable(table, dest, c, l) \in FTable
<1>1. ASSUME NEW k \in Keys
      PROVE  /\ Pushed(s, table, k, l) \in Seq(FItem)
             /\ Cardinality(TpaIn(Pushed(s, table, k, l))) = Cardinality(TpaIn(s))
             /\ \A name : EnvChain(s, name) => EnvChain(Pushed(s, table, k, l), name)
             /\ l <= 1 => Pushed(s, table, k, l) = s
  <2>1. /\ SavedValue(k, table[k]) \in FItem /\ SavedValue(k, table[k]).type # "env"
        /\ ~IsTpa(SavedValue(k, table[k]))
    BY DEF SavedValue, FItem, FTable, IsTpa
  <2>2. Cardinality(TpaIn(s)) \in Nat
    BY CountsType
  <2>. QED
    BY <2>1, <2>2, FramePushed DEF Pushed, must_push
<1>2. ASSUME NEW k \in Keys, NEW c \in Values, NEW m \in Int PROVE Defined(table, k, c, m) \in FTable
  BY DEF Defined, FTable
<1>3. ASSUME NEW dest \in Dests, ~OutsideTable(dest) PROVE dest.pos \in Keys
  BY <1>3 DEF Dests, OutsideTable, Keys
<1>4. ASSUME NEW dest \in Dests
      PROVE  /\ BoxedStack(s, table, dest, l) \in Seq(FItem)
             /\ Cardinality(TpaIn(BoxedStack(s, table, dest, l))) = Cardinality(TpaIn(s))
             /\ \A name : EnvChain(s, name) => EnvChain(BoxedStack(s, table, dest, l), name)
             /\ l <= 1 => BoxedStack(s, table, dest, l) = s
  BY <1>1, <1>3 DEF BoxedStack
<1>5. ASSUME NEW dest \in Dests, NEW c \in Values PROVE BoxedTable(table, dest, c, l) \in FTable
  BY <1>2, <1>3 DEF BoxedTable
<1>. QED
  BY <1>1, <1>4, <1>5

\* Calls that are made and calls that return.
LEMMA CallsCounted ==
  ASSUME NEW c \in Seq(Call)
  PROVE  /\ \A x \in Call : /\ Append(c, x) \in Seq(Call)
                            /\ Cardinality(CatchersIn(Append(c, x))) =
                                 Cardinality(CatchersIn(c)) + (IF x.kind = "tpa" THEN 1 ELSE 0)
         /\ c # <<>> => Front(c) \in Seq(Call)
         /\ c # <<>> /\ Last(c).kind = "local" => CatchersIn(Front(c)) = CatchersIn(c)
         /\ CatchersIn(c) # {} =>
              LET m == Max(CatchersIn(c)) IN
              /\ SubSeq(c, 1, m - 1) \in Seq(Call)
              /\ Cardinality(CatchersIn(SubSeq(c, 1, m - 1))) = Cardinality(CatchersIn(c)) - 1
<1>. DEFINE P == { y \in Call : y.kind = "tpa" }
<1>0. /\ CatchersIn(c) \in SUBSET (1..Len(c)) /\ IsFiniteSet(CatchersIn(c)) /\ Cardinality(CatchersIn(c)) \in Nat
      /\ Len(c) \in Nat /\ DOMAIN c = 1..Len(c)
  BY RankType, LenProperties DEF CatchersIn
<1>1. ASSUME NEW x \in Call
      PROVE  /\ Append(c, x) \in Seq(Call)
             /\ Cardinality(CatchersIn(Append(c, x))) =
                  Cardinality(CatchersIn(c)) + (IF x.kind = "tpa" THEN 1 ELSE 0)
  <2>1. Cardinality(At(Append(c, x), P)) = Cardinality(At(c, P)) + (IF x \in P THEN 1 ELSE 0)
    BY RankAppend
  <2>. QED
    BY <2>1, AppendProperties DEF CatchersIn
<1>2. ASSUME c # <<>> PROVE /\ Front(c) \in Seq(Call)
                            /\ Last(c).kind = "local" => CatchersIn(Front(c)) = CatchersIn(c)
  <2>1. /\ At(Front(c), P) = At(c, P) \ {Len(c)}
        /\ Len(c) \in At(c, P) <=> Last(c) \in P
        /\ Front(c) \in Seq(Call)
    BY <1>2, RankFront, PoppedAt
  <2>. QED
    BY <2>1 DEF CatchersIn
<1>3. ASSUME CatchersIn(c) # {}
      PROVE  LET m == Max(CatchersIn(c)) IN
             /\ SubSeq(c, 1, m - 1) \in Seq(Call)
             /\ Cardinality(CatchersIn(SubSeq(c, 1, m - 1))) = Cardinality(CatchersIn(c)) - 1
  <2>. DEFINE m == Max(CatchersIn(c))
              t == SubSeq(c, 1, m - 1)
  <2>. HIDE DEF m
  <2>1. m \in CatchersIn(c) /\ \A i \in CatchersIn(c) : i <= m
    BY <1>0, <1>3, GreatestPosition DEF m
  <2>2. m \in 1..Len(c) /\ m - 1 \in 0..Len(c) /\ \A i \in 1..(m - 1) : i \in 1..Len(c)
    BY <1>0, <2>1
  <2>3. \A i \in 1..(m - 1) : c[i] \in Call
    BY <2>2, ElementOfSeq
  <2>4. /\ t \in Seq(Call) /\ Len(t) = m - 1 /\ \A i \in 1..(m - 1) : t[i] = c[i]
    BY <2>2, <2>3, SubSeqProperties
  <2>5. DOMAIN t = 1..(m - 1)
    BY <2>4, LenProperties
  <2>. HIDE DEF t
  <2>6. CatchersIn(t) = CatchersIn(c) \ {m}
    BY <1>0, <2>1, <2>2, <2>3, <2>4, <2>5 DEF CatchersIn, At
  <2>7. Cardinality(CatchersIn(c) \ {m}) = Cardinality(CatchersIn(c)) - 1
    BY <1>0, <2>1, FS_RemoveElement
  <2>. QED
    BY <2>4, <2>6, <2>7 DEF t, m
<1>. QED
  BY <1>1, <1>2, <1>3

-----------------------------------------------------------------------------
\* The steps of the parser, as the frames see them.

\* The invariant of the next state, part by part.
LEMMA FInvNext ==
  ASSUME ParserTypeOK', FramesTypeOK', EnvChain(saveStack', cur_env_name'), NoNull', Listed', UNCHANGED mistakes,
         CaughtIn(saveStack', calls', pc', popping', nullEntry')
  PROVE  FInv'
BY DEF FInv, Caught, CaughtIn, EnvChain, EnvsOf, NameAt, Enough, TpaIn, CatchersIn, At, FirstOf, Boundaries

\* The actions that push items and are no calls.
LEMMA PushingKeeps ==
  ASSUME ParserTypeOK, EnvChain(saveStack, cur_env_name),
         \/ \E v \in GroupKinds \cup {"local"} : push_level(v)
         \/ \E s \in Envs : T_begin(s)
         \/ Assignments
  PROVE  /\ ParserTypeOK' /\ EnvChain(saveStack', cur_env_name') /\ UNCHANGED popping
         /\ Cardinality(TpaIn(saveStack')) = Cardinality(TpaIn(saveStack))
<1>. DEFINE Same(s) == /\ s \in Seq(FItem)
                       /\ Cardinality(TpaIn(s)) = Cardinality(TpaIn(saveStack))
<1>0. saveStack \in Seq(FItem) /\ Cardinality(TpaIn(saveStack)) \in Nat
  BY CountsType DEF ParserTypeOK
<1>1. ASSUME NEW v \in (Kinds \cup {"local"}) \ {"tpa"}
      PROVE  /\ Same(Append(saveStack, Boundary(v)))
             /\ EnvChain(Append(saveStack, Boundary(v)), cur_env_name)
  <2>1. Boundary(v) \in FItem /\ ~IsTpa(Boundary(v)) /\ Boundary(v).type # "env"
    BY DEF Boundary, FItem, IsTpa
  <2>. QED
    BY <1>0, <2>1, FramePushed
<1>2. GroupKinds \cup {"local"} \subseteq (Kinds \cup {"local"}) \ {"tpa"}
      /\ {"env", "brace"} \subseteq (Kinds \cup {"local"}) \ {"tpa"}
  BY NamesAssumption DEF Kinds
<1>3. CASE \E v \in GroupKinds \cup {"local"} : push_level(v)
  <2>1. PICK v \in GroupKinds \cup {"local"} : push_level(v)
    BY <1>3
  <2>2. Same(saveStack') /\ EnvChain(saveStack', cur_env_name')
    BY <1>1, <1>2, <2>1 DEF push_level
  <2>. QED
    BY <2>1, <2>2 DEF push_level, ParserTypeOK
<1>4. ASSUME NEW s \in Envs, T_begin(s) PROVE
         /\ ParserTypeOK' /\ EnvChain(saveStack', cur_env_name') /\ UNCHANGED popping
         /\ Cardinality(TpaIn(saveStack')) = Cardinality(TpaIn(saveStack))
  <2>. DEFINE opened == Append(saveStack, Boundary("env"))
              x == SavedEnv(cur_env_name, s)
  <2>1. Same(opened) /\ EnvChain(opened, cur_env_name)
    BY <1>1, <1>2
  <2>2. saveStack' = Append(opened, x) /\ cur_env_name' = s
    BY <1>4 DEF T_begin
  <2>. HIDE DEF opened
  <2>3. SavedEnv(cur_env_name, s) \in FItem /\ ~IsTpa(SavedEnv(cur_env_name, s))
    BY DEF SavedEnv, FItem, IsTpa, ParserTypeOK
  <2>4. EnvChain(Append(opened, SavedEnv(cur_env_name, s)), s)
    BY <2>1, <2>3, EnvChainBegin
  <2>5. EnvChain(saveStack', cur_env_name')
    BY <2>2, <2>4
  <2>6. x \in FItem /\ ~IsTpa(x)
    BY <2>3
  <2>. HIDE DEF x
  <2>7. Same(saveStack')
    BY <1>0, <2>1, <2>2, <2>6, FramePushed
  <2>8. s \in EnvNames
    BY DEF EnvNames
  <2>. QED
    BY <1>4, <2>5, <2>7, <2>8 DEF T_begin, ParserTypeOK
<1>5. ASSUME NEW k \in CmdKeys, NEW c \in Vals, NEW gbl \in BOOLEAN, eq_define(k, c, gbl) PROVE
         /\ ParserTypeOK' /\ EnvChain(saveStack', cur_env_name') /\ UNCHANGED popping
         /\ Cardinality(TpaIn(saveStack')) = Cardinality(TpaIn(saveStack))
  <2>1. k \in Keys /\ eqtb \in FTable /\ cur_level \in Int
    BY DEF Keys, ParserTypeOK
  <2>2. /\ Pushed(saveStack, eqtb, k, cur_level) \in Seq(FItem)
        /\ Cardinality(TpaIn(Pushed(saveStack, eqtb, k, cur_level))) = Cardinality(TpaIn(saveStack))
        /\ EnvChain(Pushed(saveStack, eqtb, k, cur_level), cur_env_name)
    BY <1>0, <2>1, FrameBoxed
  <2>3. eqtb' \in FTable
    BY <1>5, <2>1 DEF eq_define, Defined, FTable, Values
  <2>. QED
    BY <1>0, <1>5, <2>2, <2>3 DEF eq_define, ParserTypeOK
<1>6. ASSUME NEW dest \in Dests, NEW v \in Vals, begin_hbox(dest, v) PROVE
         /\ ParserTypeOK' /\ EnvChain(saveStack', cur_env_name') /\ UNCHANGED popping
         /\ Cardinality(TpaIn(saveStack')) = Cardinality(TpaIn(saveStack))
  <2>. DEFINE opened == Append(saveStack, Boundary("brace"))
              x == BoxEnd([dest |-> dest, val |-> v])
  <2>1. Same(opened) /\ EnvChain(opened, cur_env_name)
    BY <1>1, <1>2
  <2>2. saveStack' = Append(opened, x) /\ cur_env_name' = cur_env_name
    BY <1>6 DEF begin_hbox
  <2>. HIDE DEF opened
  <2>3. x \in FItem /\ ~IsTpa(x) /\ x.type # "env"
    BY DEF BoxEnd, FItem, IsTpa, Boxes, Values
  <2>. HIDE DEF x
  <2>4. Same(saveStack') /\ EnvChain(saveStack', cur_env_name')
    BY <1>0, <2>1, <2>2, <2>3, FramePushed
  <2>. QED
    BY <1>6, <2>4 DEF begin_hbox, ParserTypeOK
<1>. QED
  BY <1>3, <1>4, <1>5, <1>6 DEF Assignments

\* A turn of the loop of pop_level.
LEMMA PopKeeps ==
  ASSUME ParserTypeOK, EnvChain(saveStack, cur_env_name), Pop
  PROVE  /\ popping /\ saveStack # <<>>
         /\ ParserTypeOK' /\ EnvChain(saveStack', cur_env_name')
         /\ IF Last(saveStack).type = "boundary"
            THEN /\ ~popping'
                 /\ Cardinality(TpaIn(saveStack')) =
                      Cardinality(TpaIn(saveStack)) - (IF FirstOf(saveStack) = "tpa" THEN 1 ELSE 0)
            ELSE /\ popping'
                 /\ UNCHANGED cur_level
                 /\ Cardinality(TpaIn(saveStack')) = Cardinality(TpaIn(saveStack))
                 /\ FirstOf(saveStack') = FirstOf(saveStack)
<1>1. popping /\ saveStack # <<>> /\ saveStack \in Seq(FItem) /\ popping \in BOOLEAN
  BY DEF Pop, PopValue, PopEnv, PopFont, PopBoxEnd, PopAftergroup, PopBoundary, PopItem, ParserTypeOK
<1>2. /\ Front(saveStack) \in Seq(FItem) /\ Last(saveStack) \in FItem
      /\ Cardinality(TpaIn(Front(saveStack))) =
           Cardinality(TpaIn(saveStack)) - (IF IsTpa(Last(saveStack)) THEN 1 ELSE 0)
      /\ Last(saveStack).type = "boundary" => FirstOf(saveStack) = Last(saveStack).val
      /\ Last(saveStack).type # "boundary" => FirstOf(Front(saveStack)) = FirstOf(saveStack)
  BY <1>1, FramePopped
<1>3. EnvChain(Front(saveStack), IF Last(saveStack).type = "env" THEN Last(saveStack).oldname
                                 ELSE cur_env_name)
  BY <1>1, EnvChainFront
<1>4. Cardinality(TpaIn(saveStack)) \in Nat
  BY <1>1, CountsType
<1>5. CASE PopValue \/ PopEnv \/ PopFont \/ PopBoxEnd \/ PopAftergroup
  <2>1. /\ saveStack' = Front(saveStack) /\ UNCHANGED <<popping, cur_level>>
        /\ Last(saveStack).type # "boundary"
        /\ cur_env_name' = IF Last(saveStack).type = "env" THEN Last(saveStack).oldname ELSE cur_env_name
    BY <1>5 DEF PopValue, PopEnv, PopFont, PopBoxEnd, PopAftergroup, PopItem
  <2>2. ParserTypeOK'
    <3>1. CASE PopValue
      <4>1. /\ Last(saveStack).pos \in Keys /\ Last(saveStack).val \in Values
            /\ Last(saveStack).level \in Int
        BY <1>2, <3>1 DEF PopValue, PopItem, FItem
      <4>2. eqtb' \in FTable
        BY <3>1, <4>1 DEF PopValue, Defined, FTable, ParserTypeOK
      <4>. QED
        BY <1>2, <2>1, <3>1, <4>2 DEF PopValue, ParserTypeOK
    <3>2. CASE PopEnv
      <4>1. Last(saveStack).oldname \in EnvNames
        BY <1>2, <3>2 DEF PopEnv, PopItem, FItem
      <4>. QED
        BY <1>2, <2>1, <3>2, <4>1 DEF PopEnv, ParserTypeOK
    <3>3. CASE PopFont
      <4>1. Last(saveStack).val \in FontSettings /\ Last(saveStack).level \in Int
        BY <1>2, <3>3 DEF PopFont, PopItem, FItem
      <4>. QED
        BY <1>2, <2>1, <3>3, <4>1 DEF PopFont, ParserTypeOK
    <3>4. CASE PopBoxEnd
      <4>1. Last(saveStack).box \in Boxes
        BY <1>2, <3>4 DEF PopBoxEnd, PopItem, FItem
      <4>. QED
        BY <1>2, <2>1, <3>4, <4>1 DEF PopBoxEnd, ParserTypeOK
    <3>5. CASE PopAftergroup
      <4>1. Last(saveStack).val \in Tokens
        BY <1>2, <3>5 DEF PopAftergroup, PopItem, FItem
      <4>2. <<<<"plain", Last(saveStack).val>>>> \in Seq(InputToken)
        BY <4>1 DEF InputToken
      <4>3. TL' \in Seq(InputToken)
        BY <3>5, <4>2, ConcatProperties DEF PopAftergroup, ParserTypeOK
      <4>. QED
        BY <1>2, <2>1, <3>5, <4>3 DEF PopAftergroup, ParserTypeOK
    <3>. QED
      BY <1>5, <3>1, <3>2, <3>3, <3>4, <3>5
  <2>. QED
    BY <1>1, <1>2, <1>3, <1>4, <2>1, <2>2 DEF IsTpa
<1>6. CASE PopBoundary
  <2>1. /\ Last(saveStack).type = "boundary" /\ cur_env_name' = cur_env_name /\ ~popping'
        /\ popping' \in BOOLEAN /\ theBox' = NoBox /\ cur_level' = cur_level - 1
        /\ UNCHANGED <<cur_font, TL>>
    BY <1>6 DEF PopBoundary
  <2>2. EnvChain(Front(saveStack), cur_env_name)
    BY <1>3, <2>1
  <2>3. /\ saveStack' \in Seq(FItem) /\ eqtb' \in FTable
        /\ EnvChain(saveStack', cur_env_name)
        /\ Cardinality(TpaIn(saveStack')) = Cardinality(TpaIn(Front(saveStack)))
    <3>1. CASE theBox = NoBox
      BY <1>2, <1>6, <2>2, <3>1 DEF PopBoundary, ParserTypeOK
    <3>2. CASE theBox # NoBox
      <4>1. theBox.dest \in Dests /\ theBox.val \in Values /\ eqtb \in FTable /\ cur_level - 1 \in Int
        BY <3>2 DEF Boxes, ParserTypeOK
      <4>2. /\ saveStack' = BoxedStack(Front(saveStack), eqtb, theBox.dest, cur_level - 1)
            /\ eqtb' = BoxedTable(eqtb, theBox.dest, theBox.val, cur_level - 1)
        BY <1>6, <3>2 DEF PopBoundary
      <4>. DEFINE f == Front(saveStack)
      <4>. HIDE DEF f
      <4>3. f \in Seq(FItem) /\ EnvChain(f, cur_env_name)
        BY <1>2, <2>2 DEF f
      <4>4. /\ BoxedStack(f, eqtb, theBox.dest, cur_level - 1) \in Seq(FItem)
            /\ Cardinality(TpaIn(BoxedStack(f, eqtb, theBox.dest, cur_level - 1))) = Cardinality(TpaIn(f))
            /\ EnvChain(BoxedStack(f, eqtb, theBox.dest, cur_level - 1), cur_env_name)
            /\ BoxedTable(eqtb, theBox.dest, theBox.val, cur_level - 1) \in FTable
        BY <4>1, <4>3, FrameBoxed
      <4>. QED
        BY <4>2, <4>4 DEF f
    <3>. QED
      BY <3>1, <3>2
  <2>4. ParserTypeOK'
    BY <2>1, <2>3 DEF ParserTypeOK
  <2>. QED
    BY <1>1, <1>2, <2>1, <2>3, <2>4 DEF IsTpa
<1>. QED
  BY <1>5, <1>6 DEF Pop

\* The exception leaves one call less that can catch it.
LEMMA ThrownKeeps ==
  ASSUME NEW level \in Int, Thrown(level), calls \in Seq(Call)
  PROVE  /\ calls' \in Seq(Call) /\ cur_level' \in Int
         /\ CatchersIn(calls) = {} => pc' = "crashed"
         /\ CatchersIn(calls) # {} =>
              /\ pc' = "run"
              /\ Cardinality(CatchersIn(calls')) = Cardinality(CatchersIn(calls)) - 1
<1>1. TpaCalls = CatchersIn(calls)
  <2>1. \A i \in DOMAIN calls : calls[i] \in Call
    BY ElementOfSeq, LenProperties
  <2>. QED
    BY <2>1 DEF TpaCalls, CatchersIn, At
<1>2. CASE CatchersIn(calls) = {}
  BY <1>1, <1>2 DEF Thrown
<1>3. CASE CatchersIn(calls) # {}
  <2>. DEFINE m == Max(CatchersIn(calls))
  <2>1. pc' = "run" /\ (cur_level' = level \/ cur_level' = level - 1) /\ calls' = SubSeq(calls, 1, m - 1)
    BY <1>1, <1>3 DEF Thrown
  <2>2. /\ SubSeq(calls, 1, m - 1) \in Seq(Call)
        /\ Cardinality(CatchersIn(SubSeq(calls, 1, m - 1))) = Cardinality(CatchersIn(calls)) - 1
    BY <1>3, CallsCounted
  <2>. HIDE DEF m
  <2>. QED
    BY <1>3, <2>1, <2>2
<1>. QED
  BY <1>2, <1>3

\* The invariant holds at the start.
LEMMA InitFInv == FInit => FInv
<1>. SUFFICES ASSUME FInit PROVE FInv
  OBVIOUS
<1>1. ParserTypeOK
  <2>0. Init
    BY DEF FInit
  <2>1. eqtb \in FTable
    BY DEF FInit, Init, FTable, Values, InitialValue
  <2>2. cur_font \in [packed : FontSettings, level : Int]
    BY DEF FInit, Init, FontSettings
  <2>3. saveStack \in Seq(FItem) /\ TL \in Seq(InputToken)
    BY EmptySeq DEF FInit, Init
  <2>4. theBox \in Boxes \cup {NoBox}
    BY <2>0 DEF Init
  <2>5. cur_env_name \in EnvNames /\ popping \in BOOLEAN
    BY <2>0 DEF Init, EnvNames
  <2>6. cur_level \in Int
    BY <2>0 DEF Init
  <2>. QED
    BY <2>1, <2>2, <2>3, <2>4, <2>5, <2>6 DEF ParserTypeOK
<1>5. FramesTypeOK
  BY EmptySeq DEF FInit, FramesTypeOK
<1>2. EnvChain(saveStack, cur_env_name)
  BY InitEnvChain DEF FInit
<1>3. TpaIn(saveStack) = {} /\ CatchersIn(calls) = {}
  BY DEF FInit, Init, TpaIn, CatchersIn, At
<1>4. Cardinality(TpaIn(saveStack)) + 0 <= Cardinality(CatchersIn(calls))
  BY <1>3, FS_EmptySet
<1>. QED
  BY <1>1, <1>2, <1>4, <1>5 DEF FInv, FInit, Init, Caught, CaughtIn, Enough, NoNull, Listed

\* The commands that leave pc alone: assignments, groups and environments
\* that are opened, groups and environments that are closed as usual.
LEMMA PlainFInv ==
  ASSUME FInv, UNCHANGED frameVars, pc = "run" /\ ~popping,
         \/ \E v \in GroupKinds \cup {"local"} : push_level(v)
         \/ \E s \in Envs : T_begin(s)
         \/ Assignments
         \/ \E s \in Envs : T_end(s)
         \/ sendgroup
  PROVE  FInv'
<1>. USE DEF FInv
<1>1. ParserTypeOK' /\ EnvChain(saveStack', cur_env_name')
      /\ Cardinality(TpaIn(saveStack')) = Cardinality(TpaIn(saveStack))
  <2>1. CASE \/ \E v \in GroupKinds \cup {"local"} : push_level(v)
             \/ \E s \in Envs : T_begin(s)
             \/ Assignments
    BY <2>1, PushingKeeps
  <2>2. ASSUME NEW s \in Envs, T_end(s) PROVE UNCHANGED <<saveStack, cur_env_name>> /\ ParserTypeOK'
    <3>1. <<<<"sendgroup", s>>>> \in Seq(InputToken)
      BY DEF InputToken
    <3>2. TL' \in Seq(InputToken)
      BY <2>2, <3>1, ConcatProperties DEF T_end, ParserTypeOK
    <3>. QED
      BY <2>2, <3>2 DEF T_end, ParserTypeOK
  <2>3. ASSUME sendgroup PROVE UNCHANGED <<saveStack, cur_env_name>> /\ ParserTypeOK'
    <3>1. TL' \in Seq(InputToken)
      BY <2>3, HeadTailProperties DEF sendgroup, ParserTypeOK
    <3>. QED
      BY <2>3, <3>1 DEF sendgroup, pop_level, ParserTypeOK
  <2>. QED
    BY <2>1, <2>2, <2>3
<1>2. pc' = "run" /\ UNCHANGED <<mistakes, calls, seen_document, nullEntry>>
  BY DEF frameVars
<1>3. FramesTypeOK' /\ NoNull' /\ Listed'
  BY <1>2 DEF FramesTypeOK, NoNull, Listed
<1>4. "list" \notin mistakes => Enough(saveStack', calls', 0)
  BY <1>1, <1>2 DEF Caught, CaughtIn, Enough
<1>5. CaughtIn(saveStack', calls', pc', popping', nullEntry')
  BY <1>2, <1>4 DEF CaughtIn
<1>. HIDE DEF FInv
<1>. QED
  BY <1>1, <1>2, <1>3, <1>5, FInvNext

\* Calls that are made: each pushes the boundary that it may have to catch.
LEMMA CallsFInv ==
  ASSUME FInv, pc = "run" /\ ~popping, UNCHANGED mistakes,
         T_arg_local \/ \E env \in BOOLEAN, special \in BOOLEAN : special_tpa_arg(env, special)
  PROVE  FInv'
<1>1. /\ saveStack \in Seq(FItem) /\ calls \in Seq(Call) /\ cur_level \in Int
      /\ Cardinality(TpaIn(saveStack)) \in Nat /\ Cardinality(CatchersIn(calls)) \in Nat
  BY CountsType DEF FInv, ParserTypeOK, FramesTypeOK
<1>2. ParserTypeOK' /\ EnvChain(saveStack', cur_env_name') /\ calls' \in Seq(Call)
      /\ Cardinality(TpaIn(saveStack')) - Cardinality(TpaIn(saveStack)) =
           Cardinality(CatchersIn(calls')) - Cardinality(CatchersIn(calls))
      /\ Cardinality(TpaIn(saveStack')) \in Nat /\ Cardinality(CatchersIn(calls')) \in Nat
  <2>1. CASE T_arg_local
    <3>1. push_level("local") /\ calls' = Append(calls, LocalCall)
      BY <2>1 DEF T_arg_local
    <3>2. ParserTypeOK' /\ EnvChain(saveStack', cur_env_name')
          /\ Cardinality(TpaIn(saveStack')) = Cardinality(TpaIn(saveStack))
      BY <3>1, PushingKeeps DEF FInv
    <3>3. LocalCall \in Call /\ LocalCall.kind = "local"
      BY DEF LocalCall, Call
    <3>4. calls' \in Seq(Call) /\ Cardinality(CatchersIn(calls')) = Cardinality(CatchersIn(calls))
      BY <1>1, <3>1, <3>3, CallsCounted
    <3>. QED
      BY <1>1, <3>2, <3>4
  <2>2. ASSUME NEW env \in BOOLEAN, NEW special \in BOOLEAN, special_tpa_arg(env, special) PROVE
        ParserTypeOK' /\ EnvChain(saveStack', cur_env_name') /\ calls' \in Seq(Call)
      /\ Cardinality(TpaIn(saveStack')) - Cardinality(TpaIn(saveStack)) =
           Cardinality(CatchersIn(calls')) - Cardinality(CatchersIn(calls))
      /\ Cardinality(TpaIn(saveStack')) \in Nat /\ Cardinality(CatchersIn(calls')) \in Nat
    <3>1. Boundary("tpa") \in FItem /\ IsTpa(Boundary("tpa")) /\ Boundary("tpa").type # "env"
      BY DEF Boundary, FItem, IsTpa
    <3>2. saveStack' = Append(saveStack, Boundary("tpa")) /\ calls' = Append(calls, TpaCall(env, special))
      BY <2>2 DEF special_tpa_arg
    <3>3. /\ saveStack' \in Seq(FItem) /\ EnvChain(saveStack', cur_env_name)
          /\ Cardinality(TpaIn(saveStack')) = Cardinality(TpaIn(saveStack)) + 1
      BY <1>1, <3>1, <3>2, FramePushed DEF FInv
    <3>4. TpaCall(env, special) \in Call /\ TpaCall(env, special).kind = "tpa"
      <4>1. ~(env /\ special)
        BY <2>2 DEF special_tpa_arg
      <4>2. TpaCall(env, special).kind = "tpa"
        BY DEF TpaCall
      <4>3. CASE env = TRUE /\ special = FALSE
        BY <4>2, <4>3 DEF Call
      <4>4. CASE env = FALSE /\ special = FALSE
        BY <4>2, <4>4 DEF Call
      <4>5. CASE env = FALSE /\ special = TRUE
        BY <4>2, <4>5 DEF Call
      <4>. QED
        BY <4>1, <4>3, <4>4, <4>5
    <3>5. calls' \in Seq(Call) /\ Cardinality(CatchersIn(calls')) = Cardinality(CatchersIn(calls)) + 1
      BY <1>1, <3>2, <3>4, CallsCounted
    <3>6. ParserTypeOK' /\ cur_env_name' = cur_env_name
      BY <2>2, <3>3 DEF special_tpa_arg, FInv, ParserTypeOK
    <3>. QED
      BY <1>1, <3>3, <3>5, <3>6
  <2>. QED
    BY <2>1, <2>2
<1>3. UNCHANGED <<popping, pc, seen_document, nullEntry>>
  BY DEF T_arg_local, special_tpa_arg, push_level
<1>4. FramesTypeOK' /\ NoNull' /\ Listed'
  BY <1>2, <1>3 DEF FInv, FramesTypeOK, NoNull, Listed
<1>5. "list" \notin mistakes => Enough(saveStack', calls', 0)
  BY <1>1, <1>2 DEF FInv, Caught, CaughtIn, Enough
<1>6. CaughtIn(saveStack', calls', pc', popping', nullEntry')
  BY <1>3, <1>5 DEF CaughtIn
<1>. QED
  BY <1>2, <1>4, <1>6, FInvNext

\* What a command that keeps the stack must do.
LEMMA StackKept ==
  ASSUME FInv, UNCHANGED <<eqtb, saveStack, cur_env_name, cur_font, TL, theBox, calls, mistakes>>,
         cur_level' \in Int, popping' \in BOOLEAN, seen_document' \in BOOLEAN, nullEntry' = nullEntry,
         pc' \in {"run", "throw", "end_tpa", "end_env", "list", "all", "done", "crashed"},
         "stop" \notin mistakes => (pc' = "all" => cur_level' <= 1),
         pc' = "list" => \E i \in DOMAIN calls : calls[i].kind = "local",
         CaughtIn(saveStack, calls, pc', popping', nullEntry)
  PROVE  FInv'
<1>1. ParserTypeOK' /\ FramesTypeOK' /\ NoNull' /\ Listed'
  BY DEF FInv, ParserTypeOK, FramesTypeOK, NoNull, Listed
<1>. QED
  BY <1>1, FInvNext DEF FInv

\* pop_level keeps the stack, and starts the loop for the boundary of an
\* argument.
LEMMA PopLevelKeeps ==
  ASSUME NEW v, pop_level(v)
  PROVE  /\ UNCHANGED <<eqtb, cur_level, saveStack, cur_env_name, cur_font, theBox>>
         /\ popping' \in BOOLEAN
         /\ FirstOf(saveStack) = "tpa" => popping'
         /\ first_boundary = FirstOf(saveStack)
BY DEF pop_level, first_boundary, FirstOf, LastBoundary

\* A closing brace or \endgroup, of the current group or of another one.
LEMMA CloseFInv ==
  ASSUME FInv, pc = "run" /\ ~popping, UNCHANGED mistakes, NEW v, Close(v)
  PROVE  FInv'
<1>1. T_close(v) /\ UNCHANGED <<calls, seen_document, nullEntry>>
  BY DEF Close
<1>2. /\ UNCHANGED <<eqtb, cur_level, saveStack, cur_env_name, cur_font, theBox, TL>>
      /\ popping' \in BOOLEAN
      /\ FirstOf(saveStack) = "tpa" => popping'
      /\ first_boundary = FirstOf(saveStack)
  BY <1>1, PopLevelKeeps DEF T_close
<1>3. pc' = "run" \/ (pc' = "throw" /\ FirstOf(saveStack) = "tpa")
  BY <1>2 DEF Close
<1>4. CaughtIn(saveStack, calls, pc', popping', nullEntry)
  BY <1>2, <1>3 DEF FInv, Caught, CaughtIn
<1>. QED
  BY <1>1, <1>2, <1>3, <1>4, StackKept DEF FInv, ParserTypeOK, FramesTypeOK

\* \end of an environment, whose group may be the argument of a title page
\* command.
LEMMA EndFInv ==
  ASSUME FInv, pc = "run" /\ ~popping, UNCHANGED mistakes, NEW s \in Envs, End(s)
  PROVE  FInv'
<1>1. CASE T_end(s) /\ UNCHANGED pc
  BY <1>1, PlainFInv DEF End, frameVars
<1>2. CASE ~(T_end(s) /\ UNCHANGED pc)
  <2>1. /\ pc' = "end_tpa" /\ popping' = TRUE /\ first_boundary = "tpa"
        /\ UNCHANGED <<eqtb, cur_level, saveStack, cur_env_name, cur_font, TL, theBox>>
        /\ UNCHANGED <<calls, seen_document, nullEntry>>
    BY <1>2 DEF End
  <2>2. FirstOf(saveStack) = "tpa"
    BY <2>1 DEF first_boundary, FirstOf, LastBoundary
  <2>3. CaughtIn(saveStack, calls, pc', popping', nullEntry)
    BY <2>1, <2>2 DEF FInv, Caught, CaughtIn
  <2>. QED
    BY <2>1, <2>3, StackKept DEF FInv, ParserTypeOK, FramesTypeOK
<1>. QED
  BY <1>1, <1>2

\* Arguments that end, the begin and the end of the document.
LEMMA DocumentFInv ==
  ASSUME FInv, UNCHANGED mistakes,
         \/ pc = "run" /\ ~popping /\ (EndOfList \/ T_begindocument \/ pop_all_levels)
         \/ AllNull
         \/ AllDone
  PROVE  FInv'
<1>. USE DEF FInv, ParserTypeOK, FramesTypeOK, Caught, CaughtIn
<1>1. CASE pc = "run" /\ ~popping /\ EndOfList
  BY <1>1, StackKept DEF EndOfList, vars
<1>2. CASE pc = "run" /\ ~popping /\ T_begindocument
  BY <1>2, StackKept DEF T_begindocument
<1>3. CASE pc = "run" /\ ~popping /\ pop_all_levels
  BY <1>3, StackKept DEF pop_all_levels
<1>4. CASE AllNull
  BY <1>4, StackKept DEF AllNull, vars
<1>5. CASE AllDone
  BY <1>5, StackKept DEF AllDone
<1>. QED
  BY <1>1, <1>2, <1>3, <1>4, <1>5

\* Between the two calls of pop_level in T_end.
LEMMA EndTpaFInv ==
  ASSUME FInv, UNCHANGED mistakes, EndTpa
  PROVE  FInv'
<1>1. /\ pc = "end_tpa" /\ ~popping /\ pc' = "end_env" /\ pop_level("env")
      /\ UNCHANGED <<TL, calls, seen_document, nullEntry>>
  BY DEF EndTpa
<1>2. /\ UNCHANGED <<eqtb, cur_level, saveStack, cur_env_name, cur_font, theBox>>
      /\ popping' \in BOOLEAN
  BY <1>1, PopLevelKeeps
<1>3. CaughtIn(saveStack, calls, pc', popping', nullEntry)
  BY <1>1, <1>2 DEF FInv, Caught, CaughtIn
<1>. QED
  BY <1>1, <1>2, <1>3, StackKept DEF FInv, ParserTypeOK, FramesTypeOK

\* Calls that return when their list is exhausted.  A call that can catch
\* EndOfData returns so only when an author makes the mistake "list".
LEMMA ReturnFInv ==
  ASSUME FInv, UNCHANGED mistakes, ReturnFromTpa \/ ReturnFromLocal
  PROVE  FInv'
<1>1. /\ calls \in Seq(Call) /\ cur_level \in Int /\ pc = "list"
      /\ UNCHANGED <<eqtb, saveStack, cur_env_name, cur_font, TL, theBox, seen_document, nullEntry>>
      /\ calls' = Front(calls)
  BY PopLevelKeeps DEF FInv, ParserTypeOK, FramesTypeOK, ReturnFromTpa, ReturnFromLocal, T_close
<1>2. PICK i \in DOMAIN calls : calls[i].kind = "local"
  BY <1>1 DEF FInv, Listed
<1>3. /\ calls # <<>> /\ calls' \in Seq(Call) /\ Len(calls) \in Nat \ {0}
      /\ DOMAIN calls = 1..Len(calls) /\ DOMAIN calls' = 1..(Len(calls) - 1)
      /\ \A j \in 1..(Len(calls) - 1) : calls'[j] = calls[j]
      /\ Last(calls) = calls[Len(calls)]
  <2>1. calls # <<>>
    BY <1>1, <1>2, LenProperties
  <2>. QED
    BY <1>1, <2>1, PoppedAt
<1>4. CASE ReturnFromTpa
  <2>1. Last(calls).kind = "tpa" /\ pc' = "list" /\ cur_level' \in Int /\ UNCHANGED popping
    BY <1>1, <1>4 DEF ReturnFromTpa
  <2>2. "list" \in mistakes
    BY <1>1, <2>1 DEF FInv, Caught, CaughtIn
  <2>3. ParserTypeOK' /\ FramesTypeOK' /\ NoNull'
    BY <1>1, <1>3, <2>1 DEF FInv, ParserTypeOK, FramesTypeOK, NoNull
  <2>4. Listed'
    <3>1. i \in DOMAIN calls' /\ calls'[i].kind = "local"
      BY <1>2, <1>3, <2>1
    <3>. QED
      BY <3>1 DEF Listed
  <2>5. CaughtIn(saveStack', calls', pc', popping', nullEntry')
    BY <2>1, <2>2 DEF CaughtIn
  <2>. QED
    BY <1>1, <2>3, <2>4, <2>5, FInvNext DEF FInv
<1>5. CASE ReturnFromLocal
  <2>1. Last(calls).kind = "local" /\ pc' = "run" /\ UNCHANGED cur_level /\ popping' \in BOOLEAN
    BY <1>5, PopLevelKeeps DEF ReturnFromLocal, T_close
  <2>2. CatchersIn(calls') = CatchersIn(calls)
    BY <1>1, <1>3, <2>1, CallsCounted
  <2>3. ParserTypeOK' /\ FramesTypeOK' /\ NoNull' /\ Listed'
    BY <1>1, <1>3, <2>1 DEF FInv, ParserTypeOK, FramesTypeOK, NoNull, Listed
  <2>4. CaughtIn(saveStack', calls', pc', popping', nullEntry')
    BY <1>1, <2>1, <2>2 DEF FInv, Caught, CaughtIn, Enough
  <2>. QED
    BY <1>1, <2>3, <2>4, FInvNext DEF FInv
<1>. QED
  BY <1>4, <1>5

\* The exception of T_end.  Its two boundaries are gone and its call is not.
LEMMA EndEnvFInv ==
  ASSUME FInv, UNCHANGED mistakes, EndEnv
  PROVE  FInv'
<1>1. /\ pc = "end_env" /\ ~popping /\ Thrown(cur_level + 1)
      /\ UNCHANGED <<eqtb, saveStack, cur_env_name, cur_font, TL, popping, theBox, seen_document, nullEntry>>
      /\ calls \in Seq(Call) /\ saveStack \in Seq(FItem) /\ cur_level + 1 \in Int
  BY DEF EndEnv, FInv, ParserTypeOK, FramesTypeOK
<1>2. /\ Cardinality(TpaIn(saveStack)) \in Nat /\ Cardinality(CatchersIn(calls)) \in Nat
      /\ Cardinality(CatchersIn(calls)) = 0 <=> CatchersIn(calls) = {}
  BY <1>1, CountsType
<1>3. /\ calls' \in Seq(Call) /\ cur_level' \in Int
      /\ CatchersIn(calls) = {} => pc' = "crashed"
      /\ CatchersIn(calls) # {} => /\ pc' = "run"
                                   /\ Cardinality(CatchersIn(calls')) = Cardinality(CatchersIn(calls)) - 1
  BY <1>1, ThrownKeeps
<1>4. ParserTypeOK' /\ FramesTypeOK' /\ NoNull' /\ Listed'
  BY <1>1, <1>3 DEF FInv, ParserTypeOK, FramesTypeOK, NoNull, Listed
<1>5. "list" \notin mistakes => Cardinality(TpaIn(saveStack)) + 1 <= Cardinality(CatchersIn(calls))
  BY <1>1 DEF FInv, Caught, CaughtIn, Enough
<1>6. "list" \notin mistakes => pc' = "run" /\ Enough(saveStack', calls', 0)
  BY <1>1, <1>2, <1>3, <1>5 DEF Enough
<1>7. CaughtIn(saveStack', calls', pc', popping', nullEntry')
  <2>1. pc' \in {"run", "crashed"}
    BY <1>3
  <2>. QED
    BY <1>6, <2>1 DEF CaughtIn
<1>. QED
  BY <1>1, <1>4, <1>7, FInvNext DEF FInv

\* The turns of the loop of pop_level.
LEMMA PopTurnFInv ==
  ASSUME FInv, UNCHANGED mistakes, PopTurn
  PROVE  FInv'
<1>1. /\ pc \in {"run", "end_tpa", "end_env"} /\ Pop /\ UNCHANGED <<calls, pc, seen_document, nullEntry>>
      /\ calls \in Seq(Call) /\ saveStack \in Seq(FItem)
  BY DEF PopTurn, FInv, ParserTypeOK, FramesTypeOK
<1>2. /\ popping
      /\ ParserTypeOK' /\ EnvChain(saveStack', cur_env_name')
      /\ IF Last(saveStack).type = "boundary"
         THEN /\ ~popping'
              /\ Cardinality(TpaIn(saveStack')) =
                   Cardinality(TpaIn(saveStack)) - (IF FirstOf(saveStack) = "tpa" THEN 1 ELSE 0)
         ELSE /\ popping'
              /\ UNCHANGED cur_level
              /\ Cardinality(TpaIn(saveStack')) = Cardinality(TpaIn(saveStack))
              /\ FirstOf(saveStack') = FirstOf(saveStack)
  BY <1>1, PopKeeps DEF FInv
<1>3. Cardinality(TpaIn(saveStack)) \in Nat /\ Cardinality(CatchersIn(calls)) \in Nat
  BY <1>1, CountsType
<1>4. FramesTypeOK' /\ NoNull' /\ Listed'
  BY <1>1 DEF FInv, FramesTypeOK, NoNull, Listed
<1>5. CaughtIn(saveStack', calls', pc', popping', nullEntry')
  <2>1. /\ pc = "end_tpa" => FirstOf(saveStack) = "tpa"
        /\ "list" \notin mistakes =>
             /\ pc \in {"run", "end_tpa"} => Cardinality(TpaIn(saveStack)) + 0 <= Cardinality(CatchersIn(calls))
             /\ pc = "end_env" => Cardinality(TpaIn(saveStack)) + 1 <= Cardinality(CatchersIn(calls))
    BY <1>1, <1>2 DEF FInv, Caught, CaughtIn, Enough
  <2>2. /\ pc = "end_tpa" /\ popping' => FirstOf(saveStack') = "tpa"
        /\ "list" \notin mistakes =>
             /\ pc = "run" => Enough(saveStack', calls', 0)
             /\ pc = "end_tpa" /\ popping' => Enough(saveStack', calls', 0)
             /\ pc = "end_tpa" /\ ~popping' => Enough(saveStack', calls', 1)
             /\ pc = "end_env" => Enough(saveStack', calls', 1)
    BY <1>1, <1>2, <1>3, <2>1 DEF Enough
  <2>. QED
    BY <1>1, <2>2 DEF CaughtIn
<1>. QED
  BY <1>2, <1>4, <1>5, FInvNext

\* The turn that meets the boundary throws, and its boundary is caught.
LEMMA PopTurnThrowFInv ==
  ASSUME FInv, UNCHANGED mistakes, PopTurnThrow
  PROVE  FInv'
<1>1. /\ pc = "throw" /\ UNCHANGED <<seen_document, nullEntry>>
      /\ calls \in Seq(Call) /\ saveStack \in Seq(FItem) /\ cur_level \in Int
  BY DEF PopTurnThrow, FInv, ParserTypeOK, FramesTypeOK
<1>2. /\ Cardinality(TpaIn(saveStack)) \in Nat /\ Cardinality(CatchersIn(calls)) \in Nat
      /\ Cardinality(CatchersIn(calls)) = 0 <=> CatchersIn(calls) = {}
  BY <1>1, CountsType
<1>3. /\ popping /\ FirstOf(saveStack) = "tpa"
      /\ "list" \notin mistakes => Cardinality(TpaIn(saveStack)) + 0 <= Cardinality(CatchersIn(calls))
  BY <1>1 DEF FInv, Caught, CaughtIn, Enough
<1>4. CASE Last(saveStack).type # "boundary"
  <2>1. Pop /\ UNCHANGED <<calls, pc>>
    BY <1>4 DEF PopTurnThrow
  <2>2. /\ popping' /\ ParserTypeOK' /\ EnvChain(saveStack', cur_env_name')
        /\ Cardinality(TpaIn(saveStack')) = Cardinality(TpaIn(saveStack))
        /\ FirstOf(saveStack') = FirstOf(saveStack)
    BY <1>4, <2>1, PopKeeps DEF FInv
  <2>3. FramesTypeOK' /\ NoNull' /\ Listed'
    BY <1>1, <2>1 DEF FInv, FramesTypeOK, NoNull, Listed
  <2>4. CaughtIn(saveStack', calls', pc', popping', nullEntry')
    BY <1>1, <1>3, <2>1, <2>2 DEF CaughtIn, Enough
  <2>. QED
    BY <2>2, <2>3, <2>4, FInvNext
<1>5. CASE Last(saveStack).type = "boundary"
  <2>1. /\ popping /\ popping' = FALSE /\ saveStack' = Front(saveStack) /\ Thrown(cur_level)
        /\ UNCHANGED <<eqtb, cur_env_name, cur_font, TL, theBox>>
    BY <1>5 DEF PopTurnThrow
  <2>2. saveStack # <<>>
    BY <1>3 DEF FirstOf, Boundaries
  <2>3. /\ Front(saveStack) \in Seq(FItem) /\ Last(saveStack).val = "tpa"
        /\ Cardinality(TpaIn(Front(saveStack))) = Cardinality(TpaIn(saveStack)) - (IF IsTpa(Last(saveStack)) THEN 1 ELSE 0)
    BY <1>1, <1>3, <1>5, <2>2, FramePopped
  <2>4. EnvChain(saveStack', cur_env_name')
    BY <1>1, <1>5, <2>1, <2>2, EnvChainFront DEF FInv
  <2>5. Cardinality(TpaIn(saveStack')) = Cardinality(TpaIn(saveStack)) - 1
    BY <1>5, <2>1, <2>3 DEF IsTpa
  <2>6. Cardinality(TpaIn(saveStack')) \in Nat
    BY <2>1, <2>3, CountsType
  <2>7. /\ calls' \in Seq(Call) /\ cur_level' \in Int
        /\ CatchersIn(calls) = {} => pc' = "crashed"
        /\ CatchersIn(calls) # {} => /\ pc' = "run"
                                     /\ Cardinality(CatchersIn(calls')) = Cardinality(CatchersIn(calls)) - 1
    BY <1>1, <2>1, ThrownKeeps
  <2>8. ParserTypeOK' /\ FramesTypeOK' /\ NoNull' /\ Listed'
    BY <1>1, <2>1, <2>3, <2>7 DEF FInv, ParserTypeOK, FramesTypeOK, NoNull, Listed
  <2>9. "list" \notin mistakes => pc' = "run" /\ Enough(saveStack', calls', 0)
    BY <1>2, <1>3, <2>5, <2>6, <2>7 DEF Enough
  <2>10. CaughtIn(saveStack', calls', pc', popping', nullEntry')
    BY <2>7, <2>9 DEF CaughtIn
  <2>. QED
    BY <2>4, <2>8, <2>10, FInvNext
<1>. QED
  BY <1>4, <1>5

\* \end{document}: items are destroyed in place.
LEMMA AllFInv ==
  ASSUME FInv, UNCHANGED mistakes, AllItem \/ AllBoundary
  PROVE  FInv'
<1>1. /\ pc = "all" /\ ~nullEntry /\ saveStack \in Seq(FItem) /\ eqtb \in FTable /\ cur_level \in Int
      /\ UNCHANGED <<calls, pc, seen_document>>
  BY DEF AllItem, AllBoundary, FInv, ParserTypeOK, FramesTypeOK
<1>2. CASE AllItem
  <2>1. Pop /\ Last(saveStack).type # "boundary" /\ UNCHANGED nullEntry
    BY <1>2 DEF AllItem, Pop, PopValue, PopEnv, PopFont, PopBoxEnd, PopAftergroup, PopItem
  <2>2. ParserTypeOK' /\ EnvChain(saveStack', cur_env_name') /\ UNCHANGED cur_level
    BY <2>1, PopKeeps DEF FInv
  <2>3. FramesTypeOK' /\ NoNull' /\ Listed'
    BY <1>1, <2>1, <2>2 DEF FInv, FramesTypeOK, NoNull, Listed
  <2>4. CaughtIn(saveStack', calls', pc', popping', nullEntry')
    BY <1>1 DEF CaughtIn
  <2>. QED
    BY <2>2, <2>3, <2>4, FInvNext
<1>3. CASE AllBoundary
  <2>. DEFINE f == Front(saveStack)
              l == cur_level - 1
  <2>1. /\ saveStack # <<>> /\ Last(saveStack).type = "boundary" /\ cur_level' = l /\ theBox' = NoBox
        /\ UNCHANGED <<cur_env_name, cur_font, TL, popping>>
    BY <1>3 DEF AllBoundary
  <2>2. /\ f \in Seq(FItem) /\ EnvChain(f, cur_env_name)
        /\ Len(saveStack) \in Nat /\ Len(f) = Len(saveStack) - 1 /\ l \in Int
    BY <1>1, <2>1, PoppedAt, EnvChainFront DEF FInv
  <2>3. /\ saveStack' \in Seq(FItem) /\ eqtb' \in FTable /\ EnvChain(saveStack', cur_env_name)
        /\ nullEntry' \in BOOLEAN
        /\ l <= 1 => ~nullEntry'
    <3>1. CASE theBox = NoBox
      <4>1. saveStack' = f /\ UNCHANGED <<eqtb, nullEntry>>
        BY <1>3, <3>1 DEF AllBoundary
      <4>2. ~nullEntry' /\ nullEntry' \in BOOLEAN
        BY <1>1, <4>1 DEF FInv, FramesTypeOK
      <4>. QED
        BY <1>1, <2>2, <4>1, <4>2
    <3>2. CASE theBox # NoBox
      <4>1. /\ saveStack' = BoxedStack(f, eqtb, theBox.dest, l)
            /\ eqtb' = BoxedTable(eqtb, theBox.dest, theBox.val, l)
            /\ nullEntry' \in IF Len(saveStack') = Len(saveStack) THEN BOOLEAN ELSE {FALSE}
        BY <1>3, <3>2 DEF AllBoundary
      <4>2. theBox.dest \in Dests /\ theBox.val \in Values
        BY <3>2 DEF FInv, ParserTypeOK, Boxes
      <4>. HIDE DEF f, l
      <4>3. /\ saveStack' \in Seq(FItem) /\ eqtb' \in FTable /\ EnvChain(saveStack', cur_env_name)
            /\ l <= 1 => saveStack' = f
        BY <1>1, <2>2, <4>1, <4>2, FrameBoxed
      <4>4. l <= 1 => Len(saveStack') # Len(saveStack)
        BY <2>2, <4>3
      <4>. QED
        BY <4>1, <4>3, <4>4
    <3>. QED
      BY <3>1, <3>2
  <2>4. "stop" \notin mistakes => l <= 1
    BY <1>1 DEF FInv, NoNull
  <2>5. ParserTypeOK' /\ FramesTypeOK' /\ NoNull' /\ Listed'
    BY <1>1, <2>1, <2>2, <2>3, <2>4 DEF FInv, ParserTypeOK, FramesTypeOK, NoNull, Listed
  <2>6. CaughtIn(saveStack', calls', pc', popping', nullEntry')
    BY <1>1 DEF CaughtIn
  <2>. QED
    BY <2>1, <2>3, <2>5, <2>6, FInvNext
<1>. QED
  BY <1>2, <1>3

\* Every step preserves the invariant.
LEMMA NextFInv == FInv /\ [FNext]_allVars => FInv'
<1>. SUFFICES ASSUME FInv, [FNext]_allVars PROVE FInv'
  OBVIOUS
<1>1. CASE UNCHANGED allVars
  <2>1. UNCHANGED <<eqtb, cur_level, saveStack, cur_env_name, cur_font, TL, popping, theBox, frameVars>>
    BY <1>1 DEF allVars, vars
  <2>. QED
    BY <2>1, StackKept DEF frameVars, FInv, ParserTypeOK, FramesTypeOK, NoNull, Listed, Caught
<1>2. CASE pc = "run" /\ ~popping /\ FCommand /\ UNCHANGED mistakes
  <2>1. CASE \/ \E v \in GroupKinds \ {"local"} : push_level(v) /\ UNCHANGED <<calls, pc, seen_document, nullEntry>>
             \/ \E s \in Envs : T_begin(s) /\ UNCHANGED <<calls, pc, seen_document, nullEntry>>
             \/ Assignments /\ UNCHANGED <<calls, pc, seen_document, nullEntry>>
             \/ EndGroup
    BY <1>2, <2>1, PlainFInv DEF frameVars, EndGroup
  <2>2. CASE \/ \E v \in GroupKinds \ {"local"} : Close(v)
             \/ \E s \in Envs : End(s)
    BY <1>2, <2>2, CloseFInv, EndFInv
  <2>3. CASE T_arg_local \/ \E env \in BOOLEAN, special \in BOOLEAN : special_tpa_arg(env, special)
    BY <1>2, <2>3, CallsFInv
  <2>4. CASE EndOfList \/ T_begindocument \/ pop_all_levels
    BY <1>2, <2>4, DocumentFInv
  <2>. QED
    BY <1>2, <2>1, <2>2, <2>3, <2>4 DEF FCommand
<1>. QED
  BY <1>1, <1>2, ReturnFInv, EndTpaFInv, EndEnvFInv, PopTurnFInv, PopTurnThrowFInv, AllFInv, DocumentFInv
     DEF FNext, Step, Running

\* The invariant.
THEOREM FSpecFInv == FSpec => []FInv
  BY InitFInv, NextFInv, PTL DEF FSpec

\* Whatever groups, environments and arguments are closed in the wrong order,
\* the program is only aborted by an argument that ends inside a title page
\* argument, or by \end{document} in a group that destroys a null entry.
THEOREM DocumentsDoNotCrash == FSpec => []NoCrash
<1>1. FInv => NoCrash
  BY DEF FInv, Caught, CaughtIn, NoNull, NoCrash
<1>. QED
  BY <1>1, FSpecFInv, PTL

\* Frames, and groups that are closed in the wrong order, do not disturb the
\* names of the environments.
THEOREM FramesKeepEnvironments == FSpec => []EnvNameIsInnermost
<1>1. FInv => EnvNameIsInnermost
  BY DEF FInv, EnvChain, EnvNameIsInnermost, EnvsOf, EnvItems, NameAt
<1>. QED
  BY <1>1, FSpecFInv, PTL

-----------------------------------------------------------------------------
(***************************************************************************)
(* Documents without mistakes.  The boundaries of arguments are those of   *)
(* the calls, in their order (Matching), and the level counts the others   *)
(* and the arguments that raised it (Level).  Neither can be followed      *)
(* through T_end without what Orderly says of the middle of a command:     *)
(* which boundary the loop of pop_level is about to pop, and that the      *)
(* group of the environment is just below that of its argument.            *)
(***************************************************************************)

HeldItems == { x \in FItem : x.type = "boundary" /\ x.val \in {"tpa", "local"} }
CountedItems == { x \in FItem : x.type = "boundary" /\ x.val # "tpa" }
SpecialIn(c) == Cardinality(At(c, { y \in Call : y.special }))

EnvAt(s, i) == i \in DOMAIN s /\ s[i].type = "env"

\* The boundary at i belongs to call y; the argument of an environment is
\* opened just above the name of the environment.
BelongsTo(s, i, y) == s[i].val = y.kind /\ (y.env => EnvAt(s, i - 1))

Matching(s, c) ==
  /\ Cardinality(At(s, HeldItems)) = Len(c)
  /\ \A i \in At(s, HeldItems) : BelongsTo(s, i, c[RankIn(s, HeldItems, i)])

\* T_begin pushes the name of an environment above its boundary.
EnvOpened(s) == \A i \in DOMAIN s : s[i].type = "env" => i > 1 /\ s[i - 1] = Boundary("env")

\* The level is d below the one that is due.
Level(s, c, l, d) == l + d = 1 + Cardinality(At(s, CountedItems)) + SpecialIn(c)

Fits(s, c, l, d) == EnvOpened(s) /\ Matching(s, c) /\ Level(s, c, l, d)

\* The invariant, for a stack, calls, a level and a state of the control.
OrderlyIn(s, c, l, p, loop) ==
  /\ p \in {"run", "list"} /\ ~loop => Fits(s, c, l, 0)
  /\ p = "list" => ~loop /\ FirstOf(s) = "local"
  /\ p = "run" /\ loop =>
       /\ FirstOf(s) # "tpa"
       /\ Fits(s, IF FirstOf(s) = "local" THEN Append(c, LocalCall) ELSE c, l, 0)
  /\ p = "throw" => Fits(s, c, l, 0)
  /\ p = "end_tpa" /\ loop => Fits(s, c, l, 0) /\ Last(c).env
  /\ p \in {"end_tpa", "end_env"} => c # <<>> /\ Last(c).kind = "tpa" /\ ~Last(c).special
  /\ p = "end_env" \/ (p = "end_tpa" /\ ~loop) => Fits(s, Front(c), l, 1)
  /\ (p = "end_tpa" /\ ~loop) \/ (p = "end_env" /\ loop) => FirstOf(s) = "env"

Orderly == mistakes = {} => OrderlyIn(saveStack, calls, cur_level, pc, popping)

-----------------------------------------------------------------------------
\* Lemmas about boundaries and calls that match.

\* The calls of a document, and the names of environments on the stack.
LEMMA ElementsOf ==
  /\ \A c \in Seq(Call) : /\ Len(c) \in Nat /\ DOMAIN c = 1..Len(c)
                          /\ \A i \in 1..Len(c) : c[i] \in Call
  /\ \A s \in Seq(FItem) : /\ Len(s) \in Nat /\ DOMAIN s = 1..Len(s)
                           /\ \A i \in 1..Len(s) : s[i] \in FItem
  /\ HeldItems \subseteq FItem
BY LenProperties, ElementOfSeq DEF HeldItems

\* An item that is not the boundary of an argument disturbs nothing.
LEMMA OtherPushed ==
  ASSUME NEW s \in Seq(FItem), NEW c \in Seq(Call), Matching(s, c), NEW x \in FItem, x \notin HeldItems
  PROVE  Matching(Append(s, x), c)
<1>. DEFINE t == Append(s, x)
<1>1. /\ Len(s) \in Nat /\ DOMAIN s = 1..Len(s) /\ DOMAIN t = 1..(Len(s) + 1)
      /\ \A i \in 1..Len(s) : t[i] = s[i]
  BY PushedAt
<1>2. /\ At(t, HeldItems) = At(s, HeldItems)
      /\ Cardinality(At(t, HeldItems)) = Cardinality(At(s, HeldItems))
      /\ \A i \in At(s, HeldItems) : RankIn(t, HeldItems, i) = RankIn(s, HeldItems, i)
  <2>1. /\ At(Append(s, x), HeldItems) = IF x \in HeldItems THEN At(s, HeldItems) \cup {Len(s) + 1}
                                         ELSE At(s, HeldItems)
        /\ \A i \in At(s, HeldItems) : RankIn(Append(s, x), HeldItems, i) = RankIn(s, HeldItems, i)
    BY RankAppend
  <2>. QED
    BY <2>1
<1>3. At(s, HeldItems) \in SUBSET (1..Len(s))
  BY RankType
<1>. HIDE DEF t
<1>4. ASSUME NEW i \in At(s, HeldItems), NEW y, BelongsTo(s, i, y) PROVE BelongsTo(t, i, y)
  <2>1. t[i] = s[i] /\ i \in 1..Len(s)
    BY <1>1, <1>3
  <2>2. EnvAt(s, i - 1) => EnvAt(t, i - 1)
    BY <1>1 DEF EnvAt
  <2>. QED
    BY <1>4, <2>1, <2>2 DEF BelongsTo
<1>5. Matching(t, c)
  BY <1>2, <1>4 DEF Matching
<1>. QED
  BY <1>5 DEF t

\* A call pushes its boundary.
LEMMA HeldPushed ==
  ASSUME NEW s \in Seq(FItem), NEW c \in Seq(Call), Matching(s, c),
         NEW x \in HeldItems, NEW y \in Call, x.val = y.kind, y.env => s # <<>> /\ Last(s).type = "env"
  PROVE  Matching(Append(s, x), Append(c, y))
<1>. DEFINE t == Append(s, x)
            d == Append(c, y)
<1>1. /\ Len(s) \in Nat /\ DOMAIN s = 1..Len(s) /\ DOMAIN t = 1..(Len(s) + 1)
      /\ \A i \in 1..Len(s) : t[i] = s[i]
      /\ t[Len(s) + 1] = x
  BY PushedAt, ElementsOf
<1>2. /\ Len(c) \in Nat /\ Len(d) = Len(c) + 1
      /\ \A i \in 1..Len(c) : d[i] = c[i]
      /\ d[Len(c) + 1] = y
  BY PushedAt
<1>3. /\ At(t, HeldItems) = At(s, HeldItems) \cup {Len(s) + 1}
      /\ Cardinality(At(t, HeldItems)) = Cardinality(At(s, HeldItems)) + 1
      /\ \A i \in At(s, HeldItems) : RankIn(t, HeldItems, i) = RankIn(s, HeldItems, i)
      /\ RankIn(t, HeldItems, Len(s) + 1) = Cardinality(At(s, HeldItems)) + 1
  BY RankAppend, ElementsOf
<1>4. /\ At(s, HeldItems) \in SUBSET (1..Len(s)) /\ Cardinality(At(s, HeldItems)) = Len(c)
      /\ \A i \in At(s, HeldItems) : RankIn(s, HeldItems, i) \in 1..Len(c)
  BY RankType DEF Matching
<1>. HIDE DEF t, d
<1>5. ASSUME NEW i \in At(s, HeldItems) PROVE BelongsTo(t, i, d[RankIn(t, HeldItems, i)])
  <2>1. d[RankIn(t, HeldItems, i)] = c[RankIn(s, HeldItems, i)]
    BY <1>2, <1>3, <1>4
  <2>2. t[i] = s[i] /\ i \in 1..Len(s)
    BY <1>1, <1>4
  <2>3. EnvAt(s, i - 1) => EnvAt(t, i - 1)
    BY <1>1 DEF EnvAt
  <2>. QED
    BY <2>1, <2>2, <2>3 DEF BelongsTo, Matching
<1>6. BelongsTo(t, Len(s) + 1, d[RankIn(t, HeldItems, Len(s) + 1)])
  <2>1. d[RankIn(t, HeldItems, Len(s) + 1)] = y
    BY <1>2, <1>3, <1>4
  <2>2. y.env => EnvAt(t, Len(s))
    <3>1. s # <<>> => Len(s) \in Nat \ {0} /\ Last(s) = s[Len(s)]
      BY PoppedAt
    <3>2. Len(s) \in Nat \ {0} => Len(s) \in 1..Len(s)
      OBVIOUS
    <3>. QED
      BY <1>1, <3>1, <3>2 DEF EnvAt
  <2>. QED
    BY <1>1, <2>1, <2>2 DEF BelongsTo
<1>7. Matching(t, d)
  BY <1>2, <1>3, <1>4, <1>5, <1>6 DEF Matching
<1>. QED
  BY <1>7 DEF t, d

\* The same for items that leave the stack.
LEMMA OtherPopped ==
  ASSUME NEW s \in Seq(FItem), s # <<>>, NEW c \in Seq(Call), Matching(s, c), Last(s) \notin HeldItems
  PROVE  Matching(Front(s), c)
<1>. DEFINE t == Front(s)
<1>1. /\ Len(s) \in Nat \ {0} /\ DOMAIN s = 1..Len(s) /\ DOMAIN t = 1..(Len(s) - 1)
      /\ \A i \in 1..(Len(s) - 1) : t[i] = s[i]
  BY PoppedAt
<1>2. /\ At(t, HeldItems) = At(s, HeldItems)
      /\ \A i \in At(t, HeldItems) : RankIn(t, HeldItems, i) = RankIn(s, HeldItems, i)
  <2>1. /\ At(Front(s), HeldItems) = At(s, HeldItems) \ {Len(s)}
        /\ Len(s) \in At(s, HeldItems) <=> Last(s) \in HeldItems
        /\ \A i \in At(Front(s), HeldItems) : RankIn(Front(s), HeldItems, i) = RankIn(s, HeldItems, i)
    BY RankFront
  <2>. QED
    BY <2>1
<1>. HIDE DEF t
<1>3. ASSUME NEW i \in At(t, HeldItems), NEW y, BelongsTo(s, i, y) PROVE BelongsTo(t, i, y)
  <2>1. t[i] = s[i] /\ i \in 1..(Len(s) - 1)
    BY <1>1 DEF At
  <2>2. EnvAt(s, i - 1) => EnvAt(t, i - 1)
    BY <1>1, <2>1 DEF EnvAt
  <2>. QED
    BY <1>3, <2>1, <2>2 DEF BelongsTo
<1>4. Matching(t, c)
  BY <1>2, <1>3 DEF Matching
<1>. QED
  BY <1>4 DEF t

\* The boundary of an argument belongs to the innermost call, also when items
\* are above it.
LEMMA InnermostCall ==
  ASSUME NEW s \in Seq(FItem), NEW c \in Seq(Call), Matching(s, c), FirstOf(s) \in {"tpa", "local"}
  PROVE  c # <<>> /\ Last(c) \in Call /\ Last(c).kind = FirstOf(s)
<1>. DEFINE M == Max(Boundaries(s))
<1>1. /\ Boundaries(s) # {} /\ Len(s) \in Nat /\ DOMAIN s = 1..Len(s)
      /\ \A i \in 1..Len(s) : s[i] \in FItem
  BY ElementsOf DEF FirstOf
<1>2. Boundaries(s) \in SUBSET (1..Len(s))
  BY <1>1 DEF Boundaries
<1>3. M \in Boundaries(s) /\ \A i \in Boundaries(s) : i <= M
  BY <1>1, <1>2, GreatestPosition
<1>4. s[M].val = FirstOf(s) /\ s[M].type = "boundary"
  BY <1>1, <1>3 DEF FirstOf, Boundaries
<1>. HIDE DEF M
<1>5. At(s, HeldItems) \subseteq Boundaries(s) /\ M \in At(s, HeldItems)
  BY <1>1, <1>2, <1>3, <1>4 DEF At, HeldItems, Boundaries
<1>6. RankIn(s, HeldItems, M) = Len(c) /\ Len(c) \in 1..Len(c)
  <2>1. RankIn(s, HeldItems, M) = Cardinality(At(s, HeldItems))
    BY <1>3, <1>5, RankOfGreatest
  <2>2. RankIn(s, HeldItems, M) \in 1..Cardinality(At(s, HeldItems))
    BY <1>5, RankType
  <2>. QED
    BY <2>1, <2>2 DEF Matching
<1>7. c # <<>> /\ Last(c) = c[Len(c)] /\ Last(c) \in Call
  <2>1. c # <<>>
    BY <1>6
  <2>. QED
    BY <2>1, PoppedAt
<1>. QED
  BY <1>4, <1>5, <1>6, <1>7 DEF Matching, BelongsTo

\* A boundary of an argument that leaves the stack.
LEMMA HeldPopped ==
  ASSUME NEW s \in Seq(FItem), s # <<>>, NEW c \in Seq(Call), Matching(s, c), Last(s) \in HeldItems
  PROVE  /\ c # <<>> /\ Matching(Front(s), Front(c))
         /\ Last(c).env => Front(s) # <<>> /\ Last(Front(s)).type = "env"
<1>. DEFINE t == Front(s)
            d == Front(c)
<1>1. /\ Len(s) \in Nat \ {0} /\ DOMAIN s = 1..Len(s) /\ DOMAIN t = 1..(Len(s) - 1)
      /\ \A i \in 1..(Len(s) - 1) : t[i] = s[i]
      /\ Last(s) = s[Len(s)] /\ t \in Seq(FItem) /\ Len(t) = Len(s) - 1
  BY PoppedAt
<1>2. /\ Len(s) \in At(s, HeldItems)
      /\ At(t, HeldItems) = At(s, HeldItems) \ {Len(s)}
      /\ Cardinality(At(t, HeldItems)) = Cardinality(At(s, HeldItems)) - 1
      /\ \A i \in At(t, HeldItems) : RankIn(t, HeldItems, i) = RankIn(s, HeldItems, i)
  BY RankFront
<1>3. RankIn(s, HeldItems, Len(s)) = Cardinality(At(s, HeldItems))
      /\ Cardinality(At(s, HeldItems)) \in Nat /\ RankIn(s, HeldItems, Len(s)) \in 1..Cardinality(At(s, HeldItems))
  <2>1. At(s, HeldItems) \in SUBSET (1..Len(s))
    BY RankType
  <2>2. \A h \in At(s, HeldItems) : h <= Len(s)
    BY <1>1, <2>1
  <2>. QED
    BY <1>2, <2>2, RankOfGreatest, RankType
<1>4. Len(c) = Cardinality(At(s, HeldItems)) /\ c # <<>>
  BY <1>3 DEF Matching
<1>5. /\ Len(c) \in Nat \ {0} /\ Len(d) = Len(c) - 1
      /\ \A i \in 1..(Len(c) - 1) : d[i] = c[i]
      /\ Last(c) = c[Len(c)]
  BY <1>4, PoppedAt
<1>6. Cardinality(At(t, HeldItems)) = Len(d)
      /\ \A i \in At(t, HeldItems) : RankIn(t, HeldItems, i) \in 1..Len(d)
  <2>1. \A i \in At(t, HeldItems) : RankIn(t, HeldItems, i) \in 1..Cardinality(At(t, HeldItems))
    BY <1>1, RankType
  <2>. QED
    BY <1>2, <1>4, <1>5, <2>1
<1>. HIDE DEF t, d
<1>7. ASSUME NEW i \in At(t, HeldItems) PROVE BelongsTo(t, i, d[RankIn(t, HeldItems, i)])
  <2>1. d[RankIn(t, HeldItems, i)] = c[RankIn(s, HeldItems, i)]
    BY <1>2, <1>5, <1>6
  <2>2. t[i] = s[i] /\ i \in 1..(Len(s) - 1)
    BY <1>1 DEF At
  <2>3. EnvAt(s, i - 1) => EnvAt(t, i - 1)
    BY <1>1, <2>2 DEF EnvAt
  <2>. QED
    BY <1>2, <2>1, <2>2, <2>3 DEF BelongsTo, Matching
<1>8. ASSUME Last(c).env PROVE t # <<>> /\ Last(t).type = "env"
  <2>1. EnvAt(s, Len(s) - 1)
    BY <1>2, <1>3, <1>4, <1>5, <1>8 DEF Matching, BelongsTo
  <2>2. Len(s) - 1 \in 1..(Len(s) - 1) /\ t[Len(s) - 1].type = "env"
    BY <1>1, <2>1 DEF EnvAt
  <2>3. t # <<>>
    BY <1>1, <2>2
  <2>. QED
    BY <1>1, <2>2, <2>3, PoppedAt
<1>9. Matching(t, d)
  BY <1>6, <1>7 DEF Matching
<1>. QED
  BY <1>4, <1>8, <1>9 DEF t, d

\* The numbers of boundaries and of arguments that raise the level.
LEMMA CountsOf ==
  ASSUME NEW s \in Seq(FItem), NEW c \in Seq(Call)
  PROVE  /\ Cardinality(At(s, CountedItems)) \in Nat /\ SpecialIn(c) \in Nat
         /\ \A x \in FItem : Cardinality(At(Append(s, x), CountedItems)) =
                               Cardinality(At(s, CountedItems)) + (IF x \in CountedItems THEN 1 ELSE 0)
         /\ \A y \in Call : SpecialIn(Append(c, y)) = SpecialIn(c) + (IF y.special THEN 1 ELSE 0)
         /\ s # <<>> => Cardinality(At(Front(s), CountedItems)) =
                          Cardinality(At(s, CountedItems)) - (IF Last(s) \in CountedItems THEN 1 ELSE 0)
         /\ c # <<>> => SpecialIn(Front(c)) = SpecialIn(c) - (IF Last(c).special THEN 1 ELSE 0)
<1>. DEFINE P == { y \in Call : y.special }
<1>1. Cardinality(At(s, CountedItems)) \in Nat /\ Cardinality(At(c, P)) \in Nat
  BY RankType
<1>2. ASSUME NEW x \in FItem
      PROVE  Cardinality(At(Append(s, x), CountedItems)) =
               Cardinality(At(s, CountedItems)) + (IF x \in CountedItems THEN 1 ELSE 0)
  BY RankAppend
<1>3. ASSUME NEW y \in Call
      PROVE  SpecialIn(Append(c, y)) = SpecialIn(c) + (IF y.special THEN 1 ELSE 0)
  <2>1. Cardinality(At(Append(c, y), P)) = Cardinality(At(c, P)) + (IF y \in P THEN 1 ELSE 0)
    BY RankAppend
  <2>. QED
    BY <2>1 DEF SpecialIn
<1>4. ASSUME s # <<>>
      PROVE  Cardinality(At(Front(s), CountedItems)) =
               Cardinality(At(s, CountedItems)) - (IF Last(s) \in CountedItems THEN 1 ELSE 0)
  BY <1>4, RankFront
<1>5. ASSUME c # <<>>
      PROVE  SpecialIn(Front(c)) = SpecialIn(c) - (IF Last(c).special THEN 1 ELSE 0)
  <2>1. Cardinality(At(Front(c), P)) = Cardinality(At(c, P)) - (IF Last(c) \in P THEN 1 ELSE 0)
    BY <1>5, RankFront
  <2>2. Last(c) \in Call
    BY <1>5, PoppedAt
  <2>. QED
    BY <2>1, <2>2 DEF SpecialIn
<1>. QED
  BY <1>1, <1>2, <1>3, <1>4, <1>5 DEF SpecialIn

\* Pushing an item that is no environment, or an environment above its
\* boundary, and popping any item: environments stay above their boundaries.
LEMMA EnvOpenedKept ==
  ASSUME NEW s \in Seq(FItem), EnvOpened(s)
  PROVE  /\ \A x \in FItem : x.type # "env" \/ (s # <<>> /\ Last(s) = Boundary("env")) => EnvOpened(Append(s, x))
         /\ s # <<>> => EnvOpened(Front(s))
<1>0. Len(s) \in Nat /\ DOMAIN s = 1..Len(s)
  BY LenProperties
<1>1. ASSUME NEW x \in FItem, x.type # "env" \/ (s # <<>> /\ Last(s) = Boundary("env"))
      PROVE  EnvOpened(Append(s, x))
  <2>. DEFINE t == Append(s, x)
  <2>1. /\ DOMAIN t = 1..(Len(s) + 1) /\ t[Len(s) + 1] = x
        /\ \A i \in 1..Len(s) : t[i] = s[i]
    BY PushedAt
  <2>2. s # <<>> => Len(s) \in Nat \ {0} /\ Last(s) = s[Len(s)]
    BY PoppedAt
  <2>. HIDE DEF t
  <2>3. ASSUME NEW i \in 1..Len(s), t[i].type = "env" PROVE i > 1 /\ t[i - 1] = Boundary("env")
    <3>1. i > 1 /\ s[i - 1] = Boundary("env")
      BY <1>0, <2>1, <2>3 DEF EnvOpened
    <3>2. i - 1 \in 1..Len(s)
      BY <1>0, <3>1
    <3>. QED
      BY <2>1, <3>1, <3>2
  <2>4. ASSUME x.type = "env" PROVE Len(s) + 1 > 1 /\ t[Len(s)] = Boundary("env")
    <3>1. Len(s) \in Nat \ {0} /\ s[Len(s)] = Boundary("env")
      BY <1>1, <2>2, <2>4
    <3>2. Len(s) \in 1..Len(s)
      BY <3>1
    <3>. QED
      BY <2>1, <3>1, <3>2
  <2>5. \A i \in DOMAIN t : t[i].type = "env" => i > 1 /\ t[i - 1] = Boundary("env")
    <3>. TAKE i \in DOMAIN t
    <3>1. i \in 1..Len(s) \/ i = Len(s) + 1
      BY <1>0, <2>1
    <3>2. (Len(s) + 1) - 1 = Len(s)
      BY <1>0
    <3>. QED
      BY <2>1, <2>3, <2>4, <3>1, <3>2
  <2>. QED
    BY <2>5 DEF EnvOpened, t
<1>2. ASSUME s # <<>> PROVE EnvOpened(Front(s))
  <2>1. /\ DOMAIN Front(s) = 1..(Len(s) - 1)
        /\ \A i \in 1..(Len(s) - 1) : Front(s)[i] = s[i]
    BY <1>2, PoppedAt
  <2>2. ASSUME NEW i \in 1..(Len(s) - 1), s[i].type = "env" PROVE i > 1 /\ Front(s)[i - 1] = Boundary("env")
    <3>1. i > 1 /\ s[i - 1] = Boundary("env")
      BY <1>0, <2>2 DEF EnvOpened
    <3>2. i - 1 \in 1..(Len(s) - 1)
      BY <1>0, <3>1
    <3>. QED
      BY <2>1, <3>1, <3>2
  <2>. QED
    BY <2>1, <2>2 DEF EnvOpened
<1>. QED
  BY <1>1, <1>2

\* The current group when the name of an environment is the last item, and
\* when an item that is not a boundary is pushed.
LEMMA FirstOfTop ==
  ASSUME NEW s \in Seq(FItem)
  PROVE  /\ s # <<>> /\ Last(s).type = "env" /\ EnvOpened(s) => FirstOf(s) = "env"
         /\ \A x \in FItem : x.type # "boundary" => FirstOf(Append(s, x)) = FirstOf(s)
<1>1. ASSUME s # <<>>, Last(s).type = "env", EnvOpened(s) PROVE FirstOf(s) = "env"
  <2>. DEFINE t == Front(s)
  <2>1. /\ Len(s) \in Nat \ {0} /\ DOMAIN s = 1..Len(s) /\ Last(s) = s[Len(s)]
        /\ t \in Seq(FItem) /\ Len(t) = Len(s) - 1
        /\ \A i \in 1..(Len(s) - 1) : t[i] = s[i]
    BY <1>1, PoppedAt
  <2>2. FirstOf(t) = FirstOf(s)
    BY <1>1, FramePopped
  <2>. HIDE DEF t
  <2>3. Len(s) > 1 /\ s[Len(s) - 1] = Boundary("env")
    BY <1>1, <2>1 DEF EnvOpened
  <2>4. t[Len(t)] = Boundary("env") /\ Len(t) # 0
    BY <2>1, <2>3
  <2>5. t # <<>>
    BY <2>4
  <2>6. Last(t) = t[Len(t)]
    BY <2>1, <2>5, PoppedAt
  <2>7. FirstOf(t) = "env"
    BY <2>1, <2>4, <2>5, <2>6, FramePopped DEF Boundary
  <2>. QED
    BY <2>2, <2>7
<1>2. ASSUME NEW x \in FItem, x.type # "boundary" PROVE FirstOf(Append(s, x)) = FirstOf(s)
  <2>. DEFINE t == Append(s, x)
  <2>1. /\ Len(s) \in Nat /\ DOMAIN s = 1..Len(s) /\ DOMAIN t = 1..(Len(s) + 1) /\ t[Len(s) + 1] = x
        /\ \A i \in 1..Len(s) : t[i] = s[i]
    BY PushedAt
  <2>. HIDE DEF t
  <2>2. Boundaries(t) = Boundaries(s) /\ Boundaries(s) \in SUBSET (1..Len(s))
    BY <1>2, <2>1 DEF Boundaries
  <2>3. Boundaries(s) # {} => Max(Boundaries(s)) \in 1..Len(s)
    BY <2>1, <2>2, GreatestPosition
  <2>. QED
    BY <2>1, <2>2, <2>3 DEF FirstOf, t
<1>. QED
  BY <1>1, <1>2

\* A group that is opened raises the level, an item that is no boundary keeps
\* it: what fits still fits.
LEMMA FitsPush ==
  ASSUME NEW s \in Seq(FItem), NEW c \in Seq(Call), NEW l \in Int, NEW d \in Int, Fits(s, c, l, d)
  PROVE  /\ \A x \in FItem : /\ x.type \notin {"boundary", "env"} => Fits(Append(s, x), c, l, d)
                             /\ x.type = "env" /\ s # <<>> /\ Last(s) = Boundary("env") => Fits(Append(s, x), c, l, d)
         /\ \A x \in CountedItems \ HeldItems : Fits(Append(s, x), c, l + 1, d)
<1>1. ASSUME NEW x \in FItem, x \notin HeldItems,
             x.type # "env" \/ (s # <<>> /\ Last(s) = Boundary("env")),
             NEW m \in Int, m = l + (IF x \in CountedItems THEN 1 ELSE 0)
      PROVE  Fits(Append(s, x), c, m, d)
  <2>1. EnvOpened(Append(s, x)) /\ Matching(Append(s, x), c)
    BY <1>1, EnvOpenedKept, OtherPushed DEF Fits
  <2>2. /\ Cardinality(At(s, CountedItems)) \in Nat /\ SpecialIn(c) \in Nat
        /\ Cardinality(At(Append(s, x), CountedItems)) =
             Cardinality(At(s, CountedItems)) + (IF x \in CountedItems THEN 1 ELSE 0)
    BY CountsOf
  <2>3. Level(Append(s, x), c, m, d)
    BY <1>1, <2>2 DEF Fits, Level
  <2>. QED
    BY <2>1, <2>3 DEF Fits
<1>2. ASSUME NEW x \in FItem, x.type # "boundary" PROVE x \notin HeldItems /\ x \notin CountedItems
  BY <1>2 DEF HeldItems, CountedItems
<1>3. ASSUME NEW x \in CountedItems \ HeldItems PROVE x \in FItem /\ x.type # "env" /\ l + 1 \in Int
  BY DEF CountedItems
<1>. QED
  BY <1>1, <1>2, <1>3

\* A call: the boundary of an argument raises the level unless it is of type
\* bt_tpa, where the call does.
LEMMA FitsCall ==
  ASSUME NEW s \in Seq(FItem), NEW c \in Seq(Call), NEW l \in Int, Fits(s, c, l, 0),
         NEW y \in Call, y.env => s # <<>> /\ Last(s).type = "env", y.kind = "local" => ~y.special
  PROVE  Fits(Append(s, Boundary(y.kind)), Append(c, y),
              IF y.kind = "local" \/ y.special THEN l + 1 ELSE l, 0)
<1>. DEFINE x == Boundary(y.kind)
            m == IF y.kind = "local" \/ y.special THEN l + 1 ELSE l
<1>1. y.kind \in {"local", "tpa"}
  BY DEF Call, LocalCall, TpaCall
<1>2. /\ x \in HeldItems /\ x \in FItem /\ x.val = y.kind /\ x.type # "env"
      /\ x \in CountedItems <=> y.kind = "local"
  BY <1>1 DEF Boundary, HeldItems, CountedItems, FItem
<1>. HIDE DEF x
<1>3. Matching(Append(s, x), Append(c, y)) /\ EnvOpened(Append(s, x))
  BY <1>2, HeldPushed, EnvOpenedKept DEF Fits
<1>4. /\ Cardinality(At(s, CountedItems)) \in Nat /\ SpecialIn(c) \in Nat
      /\ Cardinality(At(Append(s, x), CountedItems)) =
           Cardinality(At(s, CountedItems)) + (IF x \in CountedItems THEN 1 ELSE 0)
      /\ SpecialIn(Append(c, y)) = SpecialIn(c) + (IF y.special THEN 1 ELSE 0)
  BY <1>2, CountsOf
<1>5. l + 0 = 1 + Cardinality(At(s, CountedItems)) + SpecialIn(c)
  BY DEF Fits, Level
<1>6. Level(Append(s, x), Append(c, y), m, 0)
  BY <1>1, <1>2, <1>4, <1>5 DEF Level
<1>. QED
  BY <1>3, <1>6 DEF Fits, x

\* An item that is popped, but for the boundary of an argument.
LEMMA FitsPop ==
  ASSUME NEW s \in Seq(FItem), s # <<>>, NEW c \in Seq(Call), NEW l \in Int, NEW d \in Int, Fits(s, c, l, d),
         Last(s) \notin HeldItems
  PROVE  Fits(Front(s), c, IF Last(s).type = "boundary" THEN l - 1 ELSE l, d)
<1>1. EnvOpened(Front(s)) /\ Matching(Front(s), c)
  BY EnvOpenedKept, OtherPopped DEF Fits
<1>2. Last(s) \in CountedItems <=> Last(s).type = "boundary"
  <2>1. Last(s) \in FItem
    BY PoppedAt
  <2>. QED
    BY <2>1 DEF CountedItems, HeldItems
<1>3. /\ Cardinality(At(s, CountedItems)) \in Nat /\ SpecialIn(c) \in Nat
      /\ Cardinality(At(Front(s), CountedItems)) =
           Cardinality(At(s, CountedItems)) - (IF Last(s) \in CountedItems THEN 1 ELSE 0)
  BY CountsOf
<1>4. Level(Front(s), c, IF Last(s).type = "boundary" THEN l - 1 ELSE l, d)
  BY <1>2, <1>3 DEF Fits, Level
<1>. QED
  BY <1>1, <1>4 DEF Fits

\* The boundary of an argument leaves with its call.
LEMMA FitsReturn ==
  ASSUME NEW s \in Seq(FItem), s # <<>>, NEW c \in Seq(Call), NEW l \in Int, Fits(s, c, l, 0),
         Last(s) \in HeldItems
  PROVE  /\ c # <<>> /\ Last(c) \in Call /\ Last(c).kind = Last(s).val
         /\ Fits(Front(s), Front(c), IF Last(s).val = "local" THEN l - 1
                                     ELSE IF Last(c).special THEN l - 1 ELSE l, 0)
         /\ Last(c).env => FirstOf(Front(s)) = "env"
<1>. DEFINE m == IF Last(s).val = "local" THEN l - 1 ELSE IF Last(c).special THEN l - 1 ELSE l
<1>1. /\ c # <<>> /\ Matching(Front(s), Front(c)) /\ EnvOpened(Front(s))
      /\ Last(c).env => Front(s) # <<>> /\ Last(Front(s)).type = "env"
  BY HeldPopped, EnvOpenedKept DEF Fits
<1>2. /\ Last(s).type = "boundary" /\ Last(s).val \in {"tpa", "local"} /\ Last(s) \in FItem
      /\ Last(s) \in CountedItems <=> Last(s).val = "local"
  BY DEF HeldItems, CountedItems
<1>3. FirstOf(s) = Last(s).val
  BY <1>2, FramePopped
<1>4. Last(c) \in Call /\ Last(c).kind = Last(s).val
  BY <1>2, <1>3, InnermostCall DEF Fits
<1>5. Last(s).val = "local" => ~Last(c).special
  BY <1>4 DEF Call, LocalCall, TpaCall
<1>6. /\ Cardinality(At(s, CountedItems)) \in Nat /\ SpecialIn(c) \in Nat
      /\ Cardinality(At(Front(s), CountedItems)) =
           Cardinality(At(s, CountedItems)) - (IF Last(s) \in CountedItems THEN 1 ELSE 0)
      /\ SpecialIn(Front(c)) = SpecialIn(c) - (IF Last(c).special THEN 1 ELSE 0)
  BY <1>1, CountsOf
<1>7. l + 0 = 1 + Cardinality(At(s, CountedItems)) + SpecialIn(c)
  BY DEF Fits, Level
<1>8. Level(Front(s), Front(c), m, 0)
  BY <1>2, <1>5, <1>6, <1>7 DEF Level
<1>9. Front(s) \in Seq(FItem)
  BY PoppedAt
<1>. QED
  BY <1>1, <1>4, <1>8, <1>9, FirstOfTop DEF Fits

\* The stack after a turn of the loop of pop_level.
LEMMA PopShape ==
  ASSUME ParserTypeOK, Pop
  PROVE  /\ popping /\ saveStack # <<>> /\ Last(saveStack) \in FItem /\ Front(saveStack) \in Seq(FItem)
         /\ Last(saveStack).type # "boundary" =>
              saveStack' = Front(saveStack) /\ UNCHANGED <<popping, cur_level>>
         /\ Last(saveStack).type = "boundary" =>
              /\ ~popping' /\ cur_level' = cur_level - 1
              /\ \/ saveStack' = Front(saveStack)
                 \/ \E x \in FItem : x.type = "value" /\ saveStack' = Append(Front(saveStack), x)
<1>1. popping /\ saveStack # <<>> /\ saveStack \in Seq(FItem) /\ eqtb \in FTable
  BY DEF Pop, PopValue, PopEnv, PopFont, PopBoxEnd, PopAftergroup, PopBoundary, PopItem, ParserTypeOK
<1>2. Last(saveStack) \in FItem /\ Front(saveStack) \in Seq(FItem)
  BY <1>1, PoppedAt
<1>3. CASE PopValue \/ PopEnv \/ PopFont \/ PopBoxEnd \/ PopAftergroup
  BY <1>1, <1>2, <1>3 DEF PopValue, PopEnv, PopFont, PopBoxEnd, PopAftergroup, PopItem
<1>4. CASE PopBoundary
  <2>1. Last(saveStack).type = "boundary" /\ ~popping' /\ cur_level' = cur_level - 1
    BY <1>4 DEF PopBoundary
  <2>2. ASSUME NEW k \in Keys PROVE SavedValue(k, eqtb[k]) \in FItem /\ SavedValue(k, eqtb[k]).type = "value"
    BY <1>1 DEF SavedValue, FItem, FTable
  <2>3. ASSUME theBox # NoBox
        PROVE  \/ saveStack' = Front(saveStack)
               \/ \E x \in FItem : x.type = "value" /\ saveStack' = Append(Front(saveStack), x)
    <3>1. theBox.dest \in Dests
      BY <2>3 DEF ParserTypeOK, Boxes
    <3>2. OutsideTable(theBox.dest) \/ theBox.dest.pos \in Keys
      BY <3>1 DEF Dests, OutsideTable, Keys
    <3>3. saveStack' = BoxedStack(Front(saveStack), eqtb, theBox.dest, cur_level - 1)
      BY <1>4, <2>3 DEF PopBoundary
    <3>. QED
      BY <2>2, <3>2, <3>3 DEF BoxedStack, Pushed
  <2>4. theBox = NoBox => saveStack' = Front(saveStack)
    BY <1>4 DEF PopBoundary
  <2>. QED
    BY <1>1, <1>2, <2>1, <2>3, <2>4
<1>. QED
  BY <1>3, <1>4 DEF Pop

\* The exception that is thrown by the group of the innermost call leaves
\* this call only.
LEMMA ThrownInnermost ==
  ASSUME calls \in Seq(Call), calls # <<>>, Last(calls).kind = "tpa", NEW level \in Int, Thrown(level)
  PROVE  /\ pc' = "run" /\ calls' = Front(calls)
         /\ cur_level' = IF Last(calls).special THEN level - 1 ELSE level
<1>1. Len(calls) \in Nat \ {0} /\ DOMAIN calls = 1..Len(calls) /\ Last(calls) = calls[Len(calls)]
  BY PoppedAt
<1>2. TpaCalls \in SUBSET (1..Len(calls)) /\ Len(calls) \in TpaCalls
  BY <1>1 DEF TpaCalls
<1>3. Max(TpaCalls) \in TpaCalls /\ \A i \in TpaCalls : i <= Max(TpaCalls)
  BY <1>1, <1>2, GreatestPosition
<1>. DEFINE m == Max(TpaCalls)
<1>. HIDE DEF m
<1>4. m \in TpaCalls /\ Len(calls) <= m
  BY <1>2, <1>3 DEF m
<1>5. m = Len(calls)
  <2>1. m \in Int /\ Len(calls) \in Int /\ m <= Len(calls) /\ Len(calls) <= m
    <3>1. TpaCalls \subseteq 1..Len(calls)
      BY <1>2
    <3>2. m \in 1..Len(calls)
      BY <1>4, <3>1
    <3>. QED
      BY <1>1, <1>4, <3>2
  <2>. QED
    BY <2>1
<1>6. /\ pc' = "run" /\ calls' = SubSeq(calls, 1, m - 1)
      /\ cur_level' = IF calls[m].special THEN level - 1 ELSE level
  BY <1>2 DEF Thrown, m
<1>. QED
  BY <1>1, <1>5, <1>6 DEF Front

-----------------------------------------------------------------------------
\* The steps of a document without mistakes.

\* The invariant of the next state.
LEMMA OrderlyNext ==
  ASSUME UNCHANGED mistakes, mistakes = {} => OrderlyIn(saveStack', calls', cur_level', pc', popping')
  PROVE  Orderly'
BY DEF Orderly, OrderlyIn, Fits, EnvOpened, Matching, Level, At, RankIn, BelongsTo, EnvAt, SpecialIn,
       FirstOf, Boundaries

\* The types that the steps need.
LEMMA FrameTypes ==
  ASSUME FInv
  PROVE  /\ ParserTypeOK /\ saveStack \in Seq(FItem) /\ calls \in Seq(Call) /\ cur_level \in Int
         /\ eqtb \in FTable /\ popping \in BOOLEAN
         /\ pc \in {"run", "throw", "end_tpa", "end_env", "list", "all", "done", "crashed"}
BY DEF FInv, ParserTypeOK, FramesTypeOK

\* Assignments, and groups and environments that are opened.
LEMMA PushingOrderly ==
  ASSUME FInv, Fits(saveStack, calls, cur_level, 0),
         \/ \E v \in GroupKinds \ {"local"} : push_level(v)
         \/ \E s \in Envs : T_begin(s)
         \/ Assignments
  PROVE  Fits(saveStack', calls, cur_level', 0)
<1>0. saveStack \in Seq(FItem) /\ calls \in Seq(Call) /\ cur_level \in Int /\ eqtb \in FTable
  BY FrameTypes
<1>1. ASSUME NEW x \in FItem, x.type \notin {"boundary", "env"}
      PROVE  Fits(Append(saveStack, x), calls, cur_level, 0)
  BY <1>0, <1>1, FitsPush
<1>2. ASSUME NEW v \in Kinds \ {"local"}
      PROVE  /\ Fits(Append(saveStack, Boundary(v)), calls, cur_level + 1, 0)
             /\ Append(saveStack, Boundary(v)) \in Seq(FItem)
             /\ Append(saveStack, Boundary(v)) # <<>>
             /\ Last(Append(saveStack, Boundary(v))) = Boundary(v)
  <2>0. v # "tpa"
    BY NamesAssumption DEF Kinds
  <2>1. Boundary(v) \in CountedItems \ HeldItems /\ Boundary(v) \in FItem
    BY <2>0 DEF Boundary, CountedItems, HeldItems, FItem
  <2>2. Fits(Append(saveStack, Boundary(v)), calls, cur_level + 1, 0)
    BY <1>0, <2>1, FitsPush
  <2>. DEFINE t == Append(saveStack, Boundary(v))
  <2>3. /\ t \in Seq(FItem) /\ Len(saveStack) \in Nat /\ Len(t) = Len(saveStack) + 1
        /\ t[Len(saveStack) + 1] = Boundary(v)
    BY <1>0, <2>1, PushedAt
  <2>. HIDE DEF t
  <2>4. t # <<>>
    BY <2>3
  <2>5. Last(t) = t[Len(t)]
    BY <2>3, <2>4, PoppedAt
  <2>. QED
    BY <2>2, <2>3, <2>4, <2>5 DEF t
<1>3. /\ GroupKinds \ {"local"} \subseteq Kinds \ {"local"} /\ "env" \in Kinds \ {"local"}
      /\ "brace" \in Kinds \ {"local"}
  BY NamesAssumption DEF Kinds
<1>4. CASE \E v \in GroupKinds \ {"local"} : push_level(v)
  BY <1>2, <1>3, <1>4 DEF push_level
<1>5. ASSUME NEW s \in Envs, T_begin(s) PROVE Fits(saveStack', calls, cur_level', 0)
  <2>. DEFINE t == Append(saveStack, Boundary("env"))
              x == SavedEnv(cur_env_name, s)
  <2>1. /\ Fits(t, calls, cur_level + 1, 0) /\ t \in Seq(FItem) /\ t # <<>> /\ Last(t) = Boundary("env")
        /\ cur_level + 1 \in Int
    BY <1>0, <1>2, <1>3
  <2>2. x \in FItem /\ x.type = "env"
    BY FrameTypes DEF SavedEnv, FItem, ParserTypeOK
  <2>3. saveStack' = Append(t, x) /\ cur_level' = cur_level + 1
    BY <1>5 DEF T_begin
  <2>. HIDE DEF t, x
  <2>. QED
    BY <1>0, <2>1, <2>2, <2>3, FitsPush
<1>6. ASSUME NEW k \in CmdKeys, NEW c \in Vals, NEW gbl \in BOOLEAN, eq_define(k, c, gbl)
      PROVE  Fits(saveStack', calls, cur_level', 0)
  <2>1. k \in Keys
    BY DEF Keys
  <2>2. SavedValue(k, eqtb[k]) \in FItem /\ SavedValue(k, eqtb[k]).type = "value"
    BY <1>0, <2>1 DEF SavedValue, FItem, FTable
  <2>3. cur_level' = cur_level /\ (saveStack' = saveStack \/ saveStack' = Append(saveStack, SavedValue(k, eqtb[k])))
    BY <1>6 DEF eq_define, Pushed
  <2>4. Fits(Append(saveStack, SavedValue(k, eqtb[k])), calls, cur_level, 0)
    BY <1>1, <2>2
  <2>5. CASE saveStack' = saveStack
    BY <2>3, <2>5
  <2>6. CASE saveStack' = Append(saveStack, SavedValue(k, eqtb[k]))
    BY <2>3, <2>4, <2>6
  <2>. QED
    BY <2>3, <2>5, <2>6
<1>7. ASSUME NEW dest \in Dests, NEW v \in Vals, begin_hbox(dest, v)
      PROVE  Fits(saveStack', calls, cur_level', 0)
  <2>. DEFINE t == Append(saveStack, Boundary("brace"))
              x == BoxEnd([dest |-> dest, val |-> v])
  <2>1. Fits(t, calls, cur_level + 1, 0) /\ t \in Seq(FItem) /\ cur_level + 1 \in Int
    BY <1>0, <1>2, <1>3
  <2>2. x \in FItem /\ x.type = "box_end"
    BY DEF BoxEnd, FItem, Boxes, Values
  <2>3. saveStack' = Append(t, x) /\ cur_level' = cur_level + 1
    BY <1>7 DEF begin_hbox
  <2>. HIDE DEF t, x
  <2>. QED
    BY <1>0, <2>1, <2>2, <2>3, FitsPush
<1>. QED
  BY <1>4, <1>5, <1>6, <1>7 DEF Assignments

\* The commands of a document without mistakes.
LEMMA CommandOrderly ==
  ASSUME FInv, mistakes = {}, OrderlyIn(saveStack, calls, cur_level, pc, popping),
         pc = "run", ~popping, FCommand
  PROVE  OrderlyIn(saveStack', calls', cur_level', pc', popping')
<1>0. /\ Fits(saveStack, calls, cur_level, 0)
      /\ saveStack \in Seq(FItem) /\ calls \in Seq(Call) /\ cur_level \in Int /\ popping = FALSE
  BY FrameTypes DEF OrderlyIn
<1>1. CASE /\ \/ \E v \in GroupKinds \ {"local"} : push_level(v)
              \/ \E s \in Envs : T_begin(s)
              \/ Assignments
           /\ UNCHANGED <<calls, pc>>
  <2>1. Fits(saveStack', calls, cur_level', 0)
    BY <1>0, <1>1, PushingOrderly
  <2>2. UNCHANGED popping
    BY <1>1 DEF push_level, T_begin, Assignments, eq_define, begin_hbox
  <2>. QED
    BY <1>1, <2>1, <2>2 DEF OrderlyIn
<1>2. ASSUME NEW v \in GroupKinds \ {"local"}, Close(v)
      PROVE  OrderlyIn(saveStack', calls', cur_level', pc', popping')
  <2>1. /\ UNCHANGED <<saveStack, cur_level, calls>>
        /\ first_boundary = FirstOf(saveStack)
        /\ FirstOf(saveStack) = "tpa" => popping'
    BY <1>2, PopLevelKeeps DEF Close, T_close
  <2>2. v = FirstOf(saveStack) \/ (v = "brace" /\ FirstOf(saveStack) = "tpa")
    BY <1>2, <2>1 DEF Close, Expected
  <2>3. CASE FirstOf(saveStack) = "tpa"
    <3>1. v = "brace" /\ pc' = "throw"
      BY <1>2, <2>1, <2>2, <2>3, NamesAssumption DEF Close
    <3>. QED
      BY <1>0, <2>1, <3>1 DEF OrderlyIn
  <2>4. CASE FirstOf(saveStack) # "tpa"
    <3>1. pc' = "run" /\ FirstOf(saveStack) # "local"
      BY <1>2, <2>1, <2>2, <2>4 DEF Close
    <3>. QED
      BY <1>0, <2>1, <2>4, <3>1 DEF OrderlyIn
  <2>. QED
    BY <2>3, <2>4
<1>3. ASSUME NEW s \in Envs, End(s)
      PROVE  OrderlyIn(saveStack', calls', cur_level', pc', popping')
  <2>1. /\ UNCHANGED <<saveStack, cur_level, calls>>
        /\ first_boundary = FirstOf(saveStack)
    BY <1>3 DEF End, T_end, first_boundary, FirstOf, LastBoundary
  <2>2. CASE FirstOf(saveStack) = "tpa"
    <3>1. pc' = "end_tpa" /\ popping' = TRUE /\ calls # <<>> /\ Last(calls).env
      BY <1>3, <2>1, <2>2 DEF End
    <3>2. Last(calls) \in Call /\ Last(calls).kind = "tpa" /\ ~Last(calls).special
      <4>1. Last(calls) \in Call /\ Last(calls).kind = "tpa"
        BY <1>0, <2>2, InnermostCall DEF Fits
      <4>. QED
        BY <3>1, <4>1 DEF Call, TpaCall, LocalCall
    <3>. QED
      BY <1>0, <2>1, <3>1, <3>2 DEF OrderlyIn
  <2>3. CASE FirstOf(saveStack) # "tpa"
    <3>1. UNCHANGED <<pc, popping>>
      BY <1>3, <2>1, <2>3 DEF End, T_end
    <3>. QED
      BY <1>0, <2>1, <3>1 DEF OrderlyIn
  <2>. QED
    BY <2>2, <2>3
<1>4. CASE EndGroup
  <2>1. pop_level("env") /\ UNCHANGED <<calls, pc>> /\ first_boundary = "env"
    BY <1>4 DEF EndGroup, sendgroup
  <2>2. UNCHANGED <<saveStack, cur_level>> /\ FirstOf(saveStack) = "env" /\ popping' \in BOOLEAN
    BY <2>1, PopLevelKeeps
  <2>. QED
    BY <1>0, <2>1, <2>2 DEF OrderlyIn
<1>5. CASE T_arg_local
  <2>1. push_level("local") /\ calls' = Append(calls, LocalCall) /\ UNCHANGED pc
    BY <1>5 DEF T_arg_local
  <2>2. LocalCall \in Call /\ LocalCall.kind = "local" /\ ~LocalCall.env /\ ~LocalCall.special
    BY DEF LocalCall, Call
  <2>3. Fits(Append(saveStack, Boundary("local")), Append(calls, LocalCall), cur_level + 1, 0)
    BY <1>0, <2>2, FitsCall
  <2>. QED
    BY <1>0, <2>1, <2>3 DEF push_level, OrderlyIn
<1>6. ASSUME NEW env \in BOOLEAN, NEW special \in BOOLEAN, special_tpa_arg(env, special)
      PROVE  OrderlyIn(saveStack', calls', cur_level', pc', popping')
  <2>. DEFINE y == TpaCall(env, special)
  <2>1. /\ saveStack' = Append(saveStack, Boundary("tpa")) /\ calls' = Append(calls, y)
        /\ cur_level' = IF special THEN cur_level + 1 ELSE cur_level
        /\ UNCHANGED <<popping, pc>> /\ ~(env /\ special)
        /\ env => saveStack # <<>> /\ Last(saveStack).type = "env"
    BY <1>6 DEF special_tpa_arg
  <2>2. y.kind = "tpa" /\ y.env = env /\ y.special = special
    BY DEF TpaCall
  <2>3. y \in Call
    <3>1. CASE env = TRUE /\ special = FALSE
      BY <3>1 DEF Call
    <3>2. CASE env = FALSE /\ special = FALSE
      BY <3>2 DEF Call
    <3>3. CASE env = FALSE /\ special = TRUE
      BY <3>3 DEF Call
    <3>. QED
      BY <2>1, <3>1, <3>2, <3>3
  <2>. HIDE DEF y
  <2>4. Fits(Append(saveStack, Boundary(y.kind)), Append(calls, y),
             IF y.kind = "local" \/ y.special THEN cur_level + 1 ELSE cur_level, 0)
    BY <1>0, <2>1, <2>2, <2>3, FitsCall
  <2>5. Fits(saveStack', calls', cur_level', 0)
    BY <2>1, <2>2, <2>4
  <2>. QED
    BY <1>0, <2>1, <2>5 DEF OrderlyIn
<1>7. CASE EndOfList
  <2>1. /\ UNCHANGED <<saveStack, calls, cur_level, popping>> /\ pc' = "list"
        /\ first_boundary = "local"
    BY <1>7 DEF EndOfList, vars
  <2>2. FirstOf(saveStack) = "local"
    BY <2>1 DEF first_boundary, FirstOf, LastBoundary
  <2>. QED
    BY <1>0, <2>1, <2>2 DEF OrderlyIn
<1>8. CASE T_begindocument
  <2>1. cur_level' = cur_level /\ UNCHANGED <<saveStack, calls, pc, popping>>
    BY <1>8 DEF T_begindocument
  <2>. QED
    BY <1>0, <2>1 DEF OrderlyIn
<1>9. CASE pop_all_levels
  BY <1>9 DEF pop_all_levels, OrderlyIn
<1>. QED
  BY <1>1, <1>2, <1>3, <1>4, <1>5, <1>6, <1>7, <1>8, <1>9 DEF FCommand

\* The list of T_arg_local is exhausted: its loop of pop_level pops the
\* boundary that this call has pushed.
LEMMA ReturnOrderly ==
  ASSUME FInv, OrderlyIn(saveStack, calls, cur_level, pc, popping), ReturnFromTpa \/ ReturnFromLocal
  PROVE  OrderlyIn(saveStack', calls', cur_level', pc', popping')
<1>0. saveStack \in Seq(FItem) /\ calls \in Seq(Call) /\ cur_level \in Int /\ pc = "list"
  BY FrameTypes DEF ReturnFromTpa, ReturnFromLocal
<1>1. Fits(saveStack, calls, cur_level, 0) /\ FirstOf(saveStack) = "local"
  BY <1>0 DEF OrderlyIn
<1>2. calls # <<>> /\ Last(calls) \in Call /\ Last(calls).kind = "local"
  BY <1>0, <1>1, InnermostCall DEF Fits
<1>3. Last(calls) = LocalCall
  BY <1>2 DEF Call, TpaCall
<1>4. ReturnFromLocal
  BY <1>2 DEF ReturnFromTpa
<1>5. pop_level("local") /\ calls' = Front(calls) /\ pc' = "run"
  BY <1>4 DEF ReturnFromLocal, T_close
<1>6. UNCHANGED <<saveStack, cur_level>> /\ popping' = TRUE
  <2>1. UNCHANGED <<saveStack, cur_level>> /\ first_boundary = FirstOf(saveStack)
    BY <1>5, PopLevelKeeps
  <2>. QED
    BY <1>1, <1>5, <2>1 DEF pop_level
<1>7. Append(calls', LocalCall) = calls
  BY <1>0, <1>2, <1>3, <1>5, PushPop
<1>. QED
  BY <1>1, <1>5, <1>6, <1>7 DEF OrderlyIn

\* T_end closes the argument, then the environment, then throws EndOfData.
LEMMA EndOrderly ==
  ASSUME FInv, OrderlyIn(saveStack, calls, cur_level, pc, popping), EndTpa \/ EndEnv
  PROVE  OrderlyIn(saveStack', calls', cur_level', pc', popping')
<1>0. saveStack \in Seq(FItem) /\ calls \in Seq(Call) /\ cur_level \in Int
  BY FrameTypes
<1>1. CASE EndTpa
  <2>1. pc = "end_tpa" /\ ~popping /\ pc' = "end_env" /\ pop_level("env") /\ UNCHANGED calls
    BY <1>1 DEF EndTpa
  <2>2. /\ FirstOf(saveStack) = "env" /\ Fits(saveStack, Front(calls), cur_level, 1)
        /\ calls # <<>> /\ Last(calls).kind = "tpa" /\ ~Last(calls).special
    BY <2>1 DEF OrderlyIn
  <2>3. UNCHANGED <<saveStack, cur_level>>
    BY <2>1, PopLevelKeeps
  <2>. QED
    BY <2>1, <2>2, <2>3 DEF OrderlyIn
<1>2. CASE EndEnv
  <2>1. /\ pc = "end_env" /\ ~popping /\ Thrown(cur_level + 1)
        /\ UNCHANGED <<saveStack, popping>> /\ cur_level + 1 \in Int
    BY <1>0, <1>2 DEF EndEnv
  <2>2. /\ Fits(saveStack, Front(calls), cur_level, 1)
        /\ calls # <<>> /\ Last(calls).kind = "tpa" /\ ~Last(calls).special
    BY <2>1 DEF OrderlyIn
  <2>3. pc' = "run" /\ calls' = Front(calls) /\ cur_level' = cur_level + 1
    BY <1>0, <2>1, <2>2, ThrownInnermost
  <2>4. Fits(saveStack, Front(calls), cur_level + 1, 0)
    BY <1>0, <2>2 DEF Fits, Level
  <2>. QED
    BY <2>1, <2>3, <2>4 DEF OrderlyIn
<1>. QED
  BY <1>1, <1>2

\* What the destructor of a boundary may push on the stack s.
LEMMA FitsTurned ==
  ASSUME NEW s \in Seq(FItem), NEW c \in Seq(Call), NEW l \in Int, NEW d \in Int, Fits(s, c, l, d),
         NEW t, t = s \/ \E x \in FItem : x.type = "value" /\ t = Append(s, x)
  PROVE  Fits(t, c, l, d) /\ FirstOf(t) = FirstOf(s)
<1>1. CASE t = s
  BY <1>1
<1>2. ASSUME NEW x \in FItem, x.type = "value", t = Append(s, x) PROVE Fits(t, c, l, d) /\ FirstOf(t) = FirstOf(s)
  <2>1. Fits(Append(s, x), c, l, d)
    BY <1>2, FitsPush
  <2>2. FirstOf(Append(s, x)) = FirstOf(s)
    BY <1>2, FirstOfTop
  <2>. QED
    BY <1>2, <2>1, <2>2
<1>. QED
  BY <1>1, <1>2

\* A turn of the loop that pops no boundary.
LEMMA ItemOrderly ==
  ASSUME FInv, OrderlyIn(saveStack, calls, cur_level, pc, popping), Pop, UNCHANGED <<calls, pc>>,
         pc \in {"run", "throw", "end_tpa", "end_env"}, Last(saveStack).type # "boundary"
  PROVE  OrderlyIn(saveStack', calls', cur_level', pc', popping')
<1>0. saveStack \in Seq(FItem) /\ calls \in Seq(Call) /\ cur_level \in Int /\ ParserTypeOK
  BY FrameTypes
<1>1. popping /\ saveStack # <<>> /\ saveStack' = Front(saveStack) /\ UNCHANGED <<popping, cur_level>>
  BY <1>0, PopShape
<1>2. FirstOf(saveStack') = FirstOf(saveStack) /\ Last(saveStack) \notin HeldItems
  BY <1>0, <1>1, FramePopped DEF HeldItems
<1>3. ASSUME NEW c \in Seq(Call), NEW d \in Int, Fits(saveStack, c, cur_level, d)
      PROVE  Fits(saveStack', c, cur_level, d)
  BY <1>0, <1>1, <1>2, <1>3, FitsPop
<1>4. Append(calls, LocalCall) \in Seq(Call)
  BY <1>0, PushedAt DEF Call
<1>5. calls # <<>> => Front(calls) \in Seq(Call)
  BY <1>0, PoppedAt
<1>6. CASE pc = "run"
  <2>. DEFINE c == IF FirstOf(saveStack) = "local" THEN Append(calls, LocalCall) ELSE calls
  <2>1. FirstOf(saveStack) # "tpa" /\ Fits(saveStack, c, cur_level, 0)
    BY <1>1, <1>6 DEF OrderlyIn
  <2>2. c \in Seq(Call)
    BY <1>0, <1>4
  <2>. HIDE DEF c
  <2>3. Fits(saveStack', c, cur_level, 0)
    BY <1>3, <2>1, <2>2
  <2>. QED
    BY <1>1, <1>2, <1>6, <2>1, <2>3 DEF OrderlyIn, c
<1>7. CASE pc \in {"throw", "end_tpa"}
  <2>1. Fits(saveStack, calls, cur_level, 0)
    BY <1>1, <1>7 DEF OrderlyIn
  <2>2. Fits(saveStack', calls, cur_level, 0)
    BY <1>0, <1>3, <2>1
  <2>. QED
    BY <1>1, <1>7, <2>2 DEF OrderlyIn
<1>8. CASE pc = "end_env"
  <2>1. Fits(saveStack, Front(calls), cur_level, 1) /\ calls # <<>>
    BY <1>1, <1>8 DEF OrderlyIn
  <2>2. Fits(saveStack', Front(calls), cur_level, 1)
    BY <1>3, <1>5, <2>1
  <2>. QED
    BY <1>1, <1>2, <1>8, <2>2 DEF OrderlyIn
<1>. QED
  BY <1>6, <1>7, <1>8

\* The turn that pops the boundary, when the loop throws nothing.
LEMMA BoundaryOrderly ==
  ASSUME FInv, OrderlyIn(saveStack, calls, cur_level, pc, popping), PopTurn, Last(saveStack).type = "boundary"
  PROVE  OrderlyIn(saveStack', calls', cur_level', pc', popping')
<1>. DEFINE f == Front(saveStack)
<1>0. /\ saveStack \in Seq(FItem) /\ calls \in Seq(Call) /\ cur_level \in Int /\ ParserTypeOK
      /\ Pop /\ UNCHANGED <<calls, pc>> /\ pc \in {"run", "end_tpa", "end_env"} /\ cur_level - 1 \in Int
  BY FrameTypes DEF PopTurn
<1>1. /\ popping /\ saveStack # <<>> /\ Last(saveStack) \in FItem /\ f \in Seq(FItem)
      /\ popping' = FALSE /\ cur_level' = cur_level - 1
      /\ saveStack' = f \/ \E x \in FItem : x.type = "value" /\ saveStack' = Append(f, x)
  <2>1. popping' \in BOOLEAN
    BY <1>0 DEF Pop, PopValue, PopEnv, PopFont, PopBoxEnd, PopAftergroup, PopBoundary, ParserTypeOK
  <2>. QED
    BY <1>0, <2>1, PopShape
<1>2. FirstOf(saveStack) = Last(saveStack).val
  BY <1>0, <1>1, FramePopped
<1>. HIDE DEF f
<1>3. ASSUME NEW c \in Seq(Call), NEW d \in Int, Fits(f, c, cur_level - 1, d)
      PROVE  Fits(saveStack', c, cur_level', d) /\ FirstOf(saveStack') = FirstOf(f)
  BY <1>0, <1>1, <1>3, FitsTurned
<1>4. Last(saveStack) \in HeldItems <=> Last(saveStack).val \in {"tpa", "local"}
  BY <1>1 DEF HeldItems
<1>5. CASE pc = "run"
  <2>1. /\ FirstOf(saveStack) # "tpa"
        /\ Fits(saveStack, IF FirstOf(saveStack) = "local" THEN Append(calls, LocalCall) ELSE calls, cur_level, 0)
    BY <1>1, <1>5 DEF OrderlyIn
  <2>2. Fits(f, calls, cur_level - 1, 0)
    <3>1. CASE FirstOf(saveStack) = "local"
      <4>. DEFINE c == Append(calls, LocalCall)
      <4>1. c \in Seq(Call) /\ Front(c) = calls
        <5>1. LocalCall \in Call
          BY DEF Call
        <5>. QED
          BY <1>0, <5>1, PushedAt, PushPop
      <4>. HIDE DEF c
      <4>2. Fits(saveStack, c, cur_level, 0) /\ Last(saveStack) \in HeldItems /\ Last(saveStack).val = "local"
        BY <1>2, <1>4, <2>1, <3>1 DEF c
      <4>3. Fits(Front(saveStack), Front(c), IF Last(saveStack).val = "local" THEN cur_level - 1
                                     ELSE IF Last(c).special THEN cur_level - 1 ELSE cur_level, 0)
        BY <1>0, <1>1, <4>1, <4>2, FitsReturn
      <4>. QED
        BY <4>1, <4>2, <4>3 DEF f
    <3>2. CASE FirstOf(saveStack) # "local"
      <4>1. Fits(saveStack, calls, cur_level, 0) /\ Last(saveStack) \notin HeldItems
        BY <1>2, <1>4, <2>1, <3>2
      <4>2. Fits(Front(saveStack), calls, IF Last(saveStack).type = "boundary" THEN cur_level - 1 ELSE cur_level, 0)
        BY <1>0, <1>1, <4>1, FitsPop
      <4>. QED
        BY <4>2 DEF f
    <3>. QED
      BY <3>1, <3>2
  <2>3. Fits(saveStack', calls, cur_level', 0)
    BY <1>0, <1>3, <2>2
  <2>. QED
    BY <1>0, <1>1, <1>5, <2>3 DEF OrderlyIn
<1>6. CASE pc = "end_tpa"
  <2>1. /\ Fits(saveStack, calls, cur_level, 0) /\ Last(calls).env
        /\ calls # <<>> /\ Last(calls).kind = "tpa" /\ ~Last(calls).special
    BY <1>1, <1>6 DEF OrderlyIn
  <2>2. FirstOf(saveStack) = "tpa"
    BY <1>1, <1>6 DEF FInv, Caught, CaughtIn
  <2>3. Last(saveStack) \in HeldItems /\ Last(saveStack).val = "tpa"
    BY <1>2, <1>4, <2>2
  <2>4. /\ Fits(Front(saveStack), Front(calls), IF Last(saveStack).val = "local" THEN cur_level - 1
                                     ELSE IF Last(calls).special THEN cur_level - 1 ELSE cur_level, 0)
        /\ FirstOf(Front(saveStack)) = "env"
    BY <1>0, <1>1, <2>1, <2>3, FitsReturn
  <2>5. Fits(f, Front(calls), cur_level, 0) /\ FirstOf(f) = "env"
    BY <2>1, <2>3, <2>4 DEF f
  <2>6. Fits(f, Front(calls), cur_level - 1, 1)
    <3>1. (cur_level - 1) + 1 = cur_level + 0
      BY <1>0
    <3>. QED
      BY <2>5, <3>1 DEF Fits, Level
  <2>7. Front(calls) \in Seq(Call)
    BY <1>0, <2>1, PoppedAt
  <2>8. Fits(saveStack', Front(calls), cur_level', 1) /\ FirstOf(saveStack') = "env"
    BY <1>3, <2>5, <2>6, <2>7
  <2>. QED
    BY <1>0, <1>1, <1>6, <2>1, <2>8 DEF OrderlyIn
<1>7. CASE pc = "end_env"
  <2>1. /\ Fits(saveStack, Front(calls), cur_level, 1) /\ FirstOf(saveStack) = "env"
        /\ calls # <<>> /\ Last(calls).kind = "tpa" /\ ~Last(calls).special
    BY <1>1, <1>7 DEF OrderlyIn
  <2>2. Last(saveStack) \notin HeldItems /\ Front(calls) \in Seq(Call)
    BY <1>0, <1>2, <1>4, <2>1, PoppedAt
  <2>3. Fits(Front(saveStack), Front(calls),
             IF Last(saveStack).type = "boundary" THEN cur_level - 1 ELSE cur_level, 1)
    BY <1>0, <1>1, <2>1, <2>2, FitsPop
  <2>4. Fits(f, Front(calls), cur_level - 1, 1)
    BY <2>3 DEF f
  <2>5. Fits(saveStack', Front(calls), cur_level', 1)
    BY <1>3, <2>2, <2>4
  <2>. QED
    BY <1>0, <1>1, <1>7, <2>1, <2>5 DEF OrderlyIn
<1>. QED
  BY <1>0, <1>5, <1>6, <1>7

\* The turn that pops the boundary of a title page argument and throws.
LEMMA ThrowOrderly ==
  ASSUME FInv, OrderlyIn(saveStack, calls, cur_level, pc, popping), PopTurnThrow,
         Last(saveStack).type = "boundary"
  PROVE  OrderlyIn(saveStack', calls', cur_level', pc', popping')
<1>0. /\ saveStack \in Seq(FItem) /\ calls \in Seq(Call) /\ cur_level \in Int
      /\ pc = "throw" /\ popping /\ popping' = FALSE /\ saveStack' = Front(saveStack) /\ Thrown(cur_level)
  BY FrameTypes DEF PopTurnThrow
<1>1. FirstOf(saveStack) = "tpa" /\ Fits(saveStack, calls, cur_level, 0)
  BY <1>0 DEF FInv, Caught, CaughtIn, OrderlyIn
<1>2. saveStack # <<>>
  BY <1>1 DEF FirstOf, Boundaries
<1>3. Last(saveStack) \in FItem /\ Last(saveStack).val = "tpa"
  BY <1>0, <1>1, <1>2, FramePopped
<1>4. Last(saveStack) \in HeldItems
  BY <1>3 DEF HeldItems
<1>5. /\ calls # <<>> /\ Last(calls).kind = Last(saveStack).val
      /\ Fits(Front(saveStack), Front(calls), IF Last(saveStack).val = "local" THEN cur_level - 1
                                     ELSE IF Last(calls).special THEN cur_level - 1 ELSE cur_level, 0)
  BY <1>0, <1>1, <1>2, <1>4, FitsReturn
<1>6. /\ pc' = "run" /\ calls' = Front(calls)
      /\ cur_level' = IF Last(calls).special THEN cur_level - 1 ELSE cur_level
  BY <1>0, <1>3, <1>5, ThrownInnermost
<1>7. Fits(saveStack', calls', cur_level', 0)
  BY <1>0, <1>3, <1>5, <1>6
<1>. QED
  BY <1>0, <1>6, <1>7 DEF OrderlyIn

\* No step of a document without mistakes breaks the order.
LEMMA NextOrderly == FInv /\ Orderly /\ [FNext]_allVars => Orderly'
<1>. SUFFICES ASSUME FInv, Orderly, [FNext]_allVars PROVE Orderly'
  OBVIOUS
<1>1. CASE UNCHANGED allVars
  <2>1. UNCHANGED <<saveStack, calls, cur_level, pc, popping, mistakes>>
    BY <1>1 DEF allVars, vars, frameVars
  <2>2. mistakes = {} => OrderlyIn(saveStack', calls', cur_level', pc', popping')
    BY <2>1 DEF Orderly
  <2>. QED
    BY <2>1, <2>2, OrderlyNext
<1>2. CASE Step /\ UNCHANGED mistakes
  <2>1. ASSUME mistakes = {} PROVE OrderlyIn(saveStack', calls', cur_level', pc', popping')
    <3>0. OrderlyIn(saveStack, calls, cur_level, pc, popping)
      BY <2>1 DEF Orderly
    <3>1. CASE Running /\ FCommand
      BY <2>1, <3>0, <3>1, CommandOrderly DEF Running
    <3>2. CASE ReturnFromTpa \/ ReturnFromLocal
      BY <3>0, <3>2, ReturnOrderly
    <3>3. CASE EndTpa \/ EndEnv
      BY <3>0, <3>3, EndOrderly
    <3>4. CASE PopTurn
      <4>1. Pop /\ UNCHANGED <<calls, pc>> /\ pc \in {"run", "end_tpa", "end_env"}
        BY <3>4 DEF PopTurn
      <4>. QED
        BY <3>0, <3>4, <4>1, ItemOrderly, BoundaryOrderly
    <3>5. CASE PopTurnThrow
      <4>1. CASE Last(saveStack).type = "boundary"
        BY <3>0, <3>5, <4>1, ThrowOrderly
      <4>2. CASE Last(saveStack).type # "boundary"
        <5>1. Pop /\ UNCHANGED <<calls, pc>> /\ pc = "throw"
          BY <3>5, <4>2 DEF PopTurnThrow
        <5>. QED
          BY <3>0, <4>2, <5>1, ItemOrderly
      <4>. QED
        BY <4>1, <4>2
    <3>6. CASE AllItem \/ AllBoundary \/ AllNull \/ AllDone
      <4>1. pc' \in {"all", "crashed", "done"}
        BY <3>6 DEF AllItem, AllBoundary, AllNull, AllDone
      <4>. QED
        BY <4>1 DEF OrderlyIn
    <3>. QED
      BY <1>2, <3>1, <3>2, <3>3, <3>4, <3>5, <3>6 DEF Step
  <2>. QED
    BY <1>2, <2>1, OrderlyNext
<1>. QED
  BY <1>1, <1>2 DEF FNext

\* The order holds when the translation starts.
LEMMA InitOrderly == FInit => Orderly
<1>. SUFFICES ASSUME FInit PROVE Orderly
  OBVIOUS
<1>1. saveStack = <<>> /\ calls = <<>> /\ cur_level = 1 /\ pc = "run" /\ popping = FALSE
  BY DEF FInit, Init
<1>2. /\ At(saveStack, HeldItems) = {} /\ At(saveStack, CountedItems) = {}
      /\ At(calls, { y \in Call : y.special }) = {}
  BY <1>1 DEF At
<1>3. EnvOpened(saveStack)
  BY <1>1 DEF EnvOpened
<1>4. Matching(saveStack, calls)
  BY <1>1, <1>2, FS_EmptySet DEF Matching
<1>5. Level(saveStack, calls, cur_level, 0)
  <2>1. Cardinality(At(saveStack, CountedItems)) = 0 /\ SpecialIn(calls) = 0
    BY <1>2, FS_EmptySet DEF SpecialIn
  <2>. QED
    BY <1>1, <2>1 DEF Level
<1>. QED
  BY <1>1, <1>3, <1>4, <1>5 DEF Orderly, OrderlyIn, Fits

\* The order is kept by every document without mistakes.
THEOREM FSpecOrderly == FSpec => [](FInv /\ Orderly)
  BY InitFInv, NextFInv, InitOrderly, NextOrderly, PTL DEF FSpec

\* \currentgrouplevel is the number of open groups in every document without
\* mistakes, whatever is nested in the arguments of title page commands.
THEOREM FramesKeepTheLevel == FSpec => []GroupLevelIsDepth
<1>1. ASSUME FInv, Orderly PROVE GroupLevelIsDepth
  <2>. SUFFICES ASSUME Running, mistakes = {}
                PROVE  cur_level - 1 = Cardinality(Boundaries(saveStack) \ TpaBoundaries) + Cardinality(SpecialCalls)
    BY DEF GroupLevelIsDepth
  <2>1. saveStack \in Seq(FItem) /\ calls \in Seq(Call) /\ cur_level \in Int
    BY <1>1, FrameTypes
  <2>2. Fits(saveStack, calls, cur_level, 0)
    BY <1>1 DEF Orderly, OrderlyIn, Running
  <2>3. Boundaries(saveStack) \ TpaBoundaries = At(saveStack, CountedItems)
    BY <2>1, ElementsOf DEF Boundaries, TpaBoundaries, At, CountedItems
  <2>4. SpecialCalls = At(calls, { y \in Call : y.special })
    <3>1. \A y \in Call : y.special => y.kind = "tpa"
      BY DEF Call, LocalCall, TpaCall
    <3>2. \A i \in DOMAIN calls : calls[i] \in Call
      BY <2>1, ElementsOf
    <3>. QED
      BY <3>1, <3>2 DEF SpecialCalls, TpaCalls, At
  <2>5. Cardinality(At(saveStack, CountedItems)) \in Nat /\ SpecialIn(calls) \in Nat
    BY <2>1, CountsOf
  <2>6. cur_level - 1 = Cardinality(At(saveStack, CountedItems)) + SpecialIn(calls)
    <3>1. cur_level + 0 = 1 + Cardinality(At(saveStack, CountedItems)) + SpecialIn(calls)
      BY <2>2 DEF Fits, Level
    <3>. QED
      BY <2>1, <2>5, <3>1
  <2>. QED
    BY <2>3, <2>4, <2>6 DEF SpecialIn
<1>. QED
  BY <1>1, FSpecOrderly, PTL

\* Between two commands of a document without mistakes the boundaries of
\* arguments are those of the active calls, in the same order.
THEOREM CallsKeepTheirBoundaries == FSpec => []CallsMatchBoundaries
<1>1. ASSUME FInv, Orderly PROVE CallsMatchBoundaries
  <2>. DEFINE held == { i \in Boundaries(saveStack) : saveStack[i].val \in {"tpa", "local"} }
  <2>. SUFFICES ASSUME Running, mistakes = {}
                PROVE  /\ Cardinality(held) = Len(calls)
                       /\ \A i \in held : saveStack[i].val = calls[Cardinality({ h \in held : h <= i })].kind
    BY DEF CallsMatchBoundaries
  <2>1. saveStack \in Seq(FItem)
    BY <1>1, FrameTypes
  <2>2. Matching(saveStack, calls)
    BY <1>1 DEF Orderly, OrderlyIn, Running, Fits
  <2>3. held = At(saveStack, HeldItems)
    BY <2>1, ElementsOf DEF Boundaries, At, HeldItems
  <2>. HIDE DEF held
  <2>. QED
    BY <2>2, <2>3 DEF Matching, BelongsTo, RankIn
<1>. QED
  BY <1>1, FSpecOrderly, PTL

-----------------------------------------------------------------------------
(* Macros.  The count kept for a macro is the number of the references     *)
(* that are counted, through every definition, \let, global assignment and *)
(* end of group.                                                           *)

Macro == [ptr : BOOLEAN, ref : Int]

\* The commands that mean i in this table, the items of this stack that will
\* restore the meaning i, and their number.
Holders(t, i) == { k \in CmdKeys : t[k].val = i }
Savers(s, i) == { n \in DOMAIN s : s[n].type = "value" /\ s[n].val = i }
Count(t, s, i) == Cardinality(Holders(t, i)) + Cardinality(Savers(s, i))

\* A value that is a macro is in the table of macros.
Exists(v, n) == is_user(v) => v \in 1..n

MTypeOK ==
  /\ theBox = NoBox
  /\ mac_table \in Seq(Macro) /\ Len(mac_table) <= MaxMacros
  /\ \A k \in CmdKeys : Exists(eqtb[k].val, Len(mac_table))
  /\ \A n \in DOMAIN saveStack : saveStack[n].type = "value" =>
       saveStack[n].pos \in CmdKeys /\ Exists(saveStack[n].val, Len(mac_table))

\* ReferencesCounted, by numbers.
Counted(table, t, s) ==
  \A i \in DOMAIN table : table[i].ref = Count(t, s, i) /\ (table[i].ptr <=> Count(t, s, i) > 0)

MInv == IInv /\ MTypeOK /\ Counted(mac_table, eqtb, saveStack)

One(test) == IF test THEN 1 ELSE 0

-----------------------------------------------------------------------------
\* Counting references.

\* The commands that hold a macro are as many as a natural number.
LEMMA HoldersFinite ==
  ASSUME NEW t, NEW i
  PROVE  IsFiniteSet(Holders(t, i)) /\ Cardinality(Holders(t, i)) \in Nat
BY MacrosAssumption, FS_Subset, FS_CardinalityType DEF Holders

\* The items that save a macro are positions of the stack.
LEMMA SaversFinite ==
  ASSUME NEW s \in Seq(Item), NEW i
  PROVE  /\ IsFiniteSet(Savers(s, i)) /\ Cardinality(Savers(s, i)) \in Nat
         /\ Savers(s, i) \subseteq 1..Len(s)
<1>1. Savers(s, i) \subseteq 1..Len(s) /\ Len(s) \in Nat
  BY LenProperties DEF Savers
<1>2. IsFiniteSet(1..Len(s)) /\ IsFiniteSet(Savers(s, i))
  <2>1. IsFiniteSet(1..Len(s))
    BY <1>1, FS_Interval
  <2>. QED
    BY <1>1, <2>1, FS_Subset
<1>. QED
  BY <1>1, <1>2, FS_CardinalityType

\* A macro is referred to when a command or an item refers to it.
LEMMA CountPositive ==
  ASSUME NEW t, NEW s \in Seq(Item), NEW i
  PROVE  /\ Count(t, s, i) \in Nat
         /\ Count(t, s, i) > 0 <=> Holders(t, i) \cup Savers(s, i) # {}
<1>1. /\ Cardinality(Holders(t, i)) \in Nat /\ Cardinality(Savers(s, i)) \in Nat
      /\ Cardinality(Holders(t, i)) = 0 <=> Holders(t, i) = {}
      /\ Cardinality(Savers(s, i)) = 0 <=> Savers(s, i) = {}
  BY HoldersFinite, SaversFinite, FS_EmptySet
<1>. QED
  BY <1>1 DEF Count

\* An assignment to k takes the reference of its old value and counts the new.
LEMMA HoldersOfDefined ==
  ASSUME NEW t \in Table, NEW k \in CmdKeys, NEW c \in Values, NEW l \in Nat, NEW i
  PROVE  Cardinality(Holders(Defined(t, k, c, l), i))
           = Cardinality(Holders(t, i)) - One(t[k].val = i) + One(c = i)
<1>. DEFINE H == Holders(t, i)
            H2 == Holders(Defined(t, k, c, l), i)
<1>1. IsFiniteSet(H) /\ Cardinality(H) \in Nat /\ IsFiniteSet(H \ {k})
  BY HoldersFinite, FS_Subset
<1>2. k \in H <=> t[k].val = i
  BY DEF Holders
<1>3. Cardinality(H \ {k}) = Cardinality(H) - One(t[k].val = i)
  BY <1>1, <1>2, FS_RemoveElement DEF One
<1>4. H2 = IF c = i THEN (H \ {k}) \cup {k} ELSE H \ {k}
  BY DEF Holders, Defined, Table, Keys
<1>5. Cardinality((H \ {k}) \cup {k}) = Cardinality(H \ {k}) + 1
  BY <1>1, FS_AddElement
<1>. HIDE DEF H, H2
<1>6. Cardinality(H2) = Cardinality(H) - One(t[k].val = i) + One(c = i)
  BY <1>1, <1>3, <1>4, <1>5 DEF One
<1>. QED
  BY <1>6 DEF H, H2

\* Pushing and popping an item moves at most one reference.
LEMMA SaversOfAppend ==
  ASSUME NEW s \in Seq(Item), NEW x \in Item, NEW i
  PROVE  Cardinality(Savers(Append(s, x), i))
           = Cardinality(Savers(s, i)) + One(x.type = "value" /\ x.val = i)
<1>1. /\ Len(s) \in Nat /\ DOMAIN s = 1..Len(s)
      /\ DOMAIN Append(s, x) = 1..(Len(s) + 1)
      /\ \A n \in 1..Len(s) : Append(s, x)[n] = s[n]
      /\ Append(s, x)[Len(s) + 1] = x
  BY PushedAt
<1>2. Savers(Append(s, x), i) = IF x.type = "value" /\ x.val = i
                                 THEN Savers(s, i) \cup {Len(s) + 1} ELSE Savers(s, i)
  BY <1>1 DEF Savers
<1>3. Len(s) + 1 \notin Savers(s, i)
  BY <1>1 DEF Savers
<1>4. Cardinality(Savers(s, i) \cup {Len(s) + 1}) = Cardinality(Savers(s, i)) + 1
  BY <1>3, SaversFinite, FS_AddElement
<1>. QED
  BY <1>2, <1>4, SaversFinite DEF One

\* An item that is popped holds its macro no more.
LEMMA SaversOfFront ==
  ASSUME NEW s \in Seq(Item), s # <<>>, NEW i
  PROVE  Cardinality(Savers(Front(s), i))
           = Cardinality(Savers(s, i)) - One(Last(s).type = "value" /\ Last(s).val = i)
<1>1. /\ Len(s) \in Nat \ {0} /\ DOMAIN s = 1..Len(s)
      /\ DOMAIN Front(s) = 1..(Len(s) - 1)
      /\ \A n \in 1..(Len(s) - 1) : Front(s)[n] = s[n]
      /\ Last(s) = s[Len(s)]
  BY PoppedAt
<1>2. /\ Savers(Front(s), i) = Savers(s, i) \ {Len(s)}
      /\ Len(s) \in Savers(s, i) <=> Last(s).type = "value" /\ Last(s).val = i
  BY <1>1 DEF Savers
<1>3. IsFiniteSet(Savers(s, i)) /\ Cardinality(Savers(s, i)) \in Nat
  BY SaversFinite
<1>4. Cardinality(Savers(s, i) \ {Len(s)})
        = IF Len(s) \in Savers(s, i) THEN Cardinality(Savers(s, i)) - 1 ELSE Cardinality(Savers(s, i))
  BY <1>3, FS_RemoveElement
<1>. QED
  BY <1>2, <1>3, <1>4 DEF One

\* incr_macro_ref and delete_macro_ref change the count of one macro.
LEMMA IncrementedTable ==
  ASSUME NEW table \in Seq(Macro), Len(table) <= MaxMacros, NEW v, Exists(v, Len(table))
  PROVE  /\ incr_macro_ref(table, v) \in Seq(Macro)
         /\ Len(incr_macro_ref(table, v)) = Len(table)
         /\ DOMAIN incr_macro_ref(table, v) = DOMAIN table
         /\ \A i \in DOMAIN table :
              /\ incr_macro_ref(table, v)[i].ref = table[i].ref + One(v = i)
              /\ incr_macro_ref(table, v)[i].ptr = table[i].ptr
<1>1. Len(table) \in Nat /\ DOMAIN table = 1..Len(table) /\ MaxMacros \in Nat
  BY LenProperties, MacrosAssumption
<1>2. \A i \in DOMAIN table : table[i] \in Macro /\ i \in MacroIds
  BY <1>1, ElementOfSeq DEF MacroIds
<1>3. CASE ~is_user(v)
  <2>1. \A i \in DOMAIN table : v # i
    BY <1>2, <1>3 DEF is_user
  <2>. QED
    BY <1>2, <1>3, <2>1 DEF incr_macro_ref, One, Macro
<1>4. CASE is_user(v)
  <2>. DEFINE m == [table[v] EXCEPT !.ref = @ + 1]
              new == [table EXCEPT ![v] = m]
  <2>1. v \in DOMAIN table /\ incr_macro_ref(table, v) = new
    BY <1>1, <1>4 DEF Exists, incr_macro_ref
  <2>2. m \in Macro /\ m.ref = table[v].ref + 1 /\ m.ptr = table[v].ptr
    <3>1. table[v] \in Macro /\ table[v].ref + 1 \in Int
      BY <1>2, <2>1 DEF Macro
    <3>. QED
      BY <3>1, Zenon DEF Macro
  <2>. HIDE DEF m
  <2>3. /\ new \in Seq(Macro) /\ Len(new) = Len(table) /\ DOMAIN new = DOMAIN table
        /\ \A i \in DOMAIN table : new[i] = IF i = v THEN m ELSE table[i]
    BY <1>1, <2>1, <2>2, ExceptSeq
  <2>. HIDE DEF new
  <2>4. \A i \in DOMAIN table : new[i].ref = table[i].ref + One(v = i) /\ new[i].ptr = table[i].ptr
    BY <1>2, <2>2, <2>3 DEF One, Macro
  <2>. QED
    BY <2>1, <2>3, <2>4
<1>. QED
  BY <1>3, <1>4

\* One reference less: the pointer is freed with the last one.
LEMMA DecrementedMacro ==
  ASSUME NEW r \in Macro
  PROVE  LET m == [r EXCEPT !.ref = @ - 1, !.ptr = @ /\ r.ref # 1]
         IN  m \in Macro /\ m.ref = r.ref - 1 /\ (m.ptr <=> r.ptr /\ r.ref # 1)
<1>1. r.ref - 1 \in Int
  BY DEF Macro
<1>2. (r.ptr /\ r.ref # 1) \in BOOLEAN
  OBVIOUS
<1>3. \A x \in Int, y \in BOOLEAN : [r EXCEPT !.ref = x, !.ptr = y] \in Macro
  BY DEF Macro
<1>4. [r EXCEPT !.ref = @ - 1, !.ptr = @ /\ r.ref # 1] \in Macro
  BY <1>1, <1>2, <1>3, Zenon
<1>5. LET m == [r EXCEPT !.ref = @ - 1, !.ptr = @ /\ r.ref # 1]
      IN  m.ref = r.ref - 1 /\ (m.ptr <=> r.ptr /\ r.ref # 1)
  BY DEF Macro
<1>. QED
  BY <1>4, <1>5

\* delete_macro_ref gives up one reference to v and none to the others.
LEMMA DecrementedTable ==
  ASSUME NEW table \in Seq(Macro), Len(table) <= MaxMacros, NEW v, Exists(v, Len(table))
  PROVE  /\ delete_macro_ref(table, v) \in Seq(Macro)
         /\ Len(delete_macro_ref(table, v)) = Len(table)
         /\ DOMAIN delete_macro_ref(table, v) = DOMAIN table
         /\ \A i \in DOMAIN table :
              /\ delete_macro_ref(table, v)[i].ref = table[i].ref - One(v = i)
              /\ delete_macro_ref(table, v)[i].ptr <=> table[i].ptr /\ ~(v = i /\ table[i].ref = 1)
<1>1. Len(table) \in Nat /\ DOMAIN table = 1..Len(table) /\ MaxMacros \in Nat
  BY LenProperties, MacrosAssumption
<1>2. \A i \in DOMAIN table : table[i] \in Macro /\ i \in MacroIds
  BY <1>1, ElementOfSeq DEF MacroIds
<1>3. CASE ~is_user(v)
  <2>1. \A i \in DOMAIN table : v # i
    BY <1>2, <1>3 DEF is_user
  <2>. QED
    BY <1>2, <1>3, <2>1 DEF delete_macro_ref, One, Macro
<1>4. CASE is_user(v)
  <2>. DEFINE m == [table[v] EXCEPT !.ref = @ - 1, !.ptr = @ /\ table[v].ref # 1]
              new == [table EXCEPT ![v] = m]
  <2>1. v \in DOMAIN table /\ table[v] \in Macro
    BY <1>1, <1>2, <1>4 DEF Exists
  <2>2. delete_macro_ref(table, v) = new
    BY <1>1, <1>4, <2>1 DEF delete_macro_ref, Macro
  <2>3. /\ m \in Macro /\ m.ref = table[v].ref - 1
        /\ m.ptr <=> table[v].ptr /\ ~(table[v].ref = 1)
    BY <2>1, DecrementedMacro
  <2>. HIDE DEF m
  <2>4. /\ new \in Seq(Macro) /\ Len(new) = Len(table) /\ DOMAIN new = DOMAIN table
        /\ \A i \in DOMAIN table : new[i] = IF i = v THEN m ELSE table[i]
    BY <1>1, <2>1, <2>3, ExceptSeq
  <2>. HIDE DEF new
  <2>5. \A i \in DOMAIN table : /\ new[i].ref = table[i].ref - One(v = i)
                                /\ new[i].ptr <=> table[i].ptr /\ ~(v = i /\ table[i].ref = 1)
    BY <1>2, <2>3, <2>4 DEF One, Macro
  <2>. QED
    BY <2>2, <2>4, <2>5
<1>. QED
  BY <1>3, <1>4

-----------------------------------------------------------------------------
\* What eq_define does to the counts, and what it does to the references.

\* The old value of k moves to the save stack, or nobody refers to it any more.
Released(k, gbl) == ~(~gbl /\ must_push(eqtb[k].level, cur_level))

\* eq_define counts the new value, and gives up the old one unless it is saved.
LEMMA DefinedCounts ==
  ASSUME IInv, NEW k \in CmdKeys, NEW c \in Values, NEW gbl \in BOOLEAN, eq_define(k, c, gbl), NEW i
  PROVE  Count(eqtb', saveStack', i) =
           Count(eqtb, saveStack, i) + One(c = i) - One(Released(k, gbl) /\ eqtb[k].val = i)
<1>1. /\ saveStack \in Seq(Item) /\ eqtb \in Table /\ cur_level \in Nat /\ k \in Keys
      /\ eqtb' = Defined(eqtb, k, c, IF gbl THEN 1 ELSE cur_level)
      /\ saveStack' = IF gbl THEN saveStack ELSE Pushed(saveStack, eqtb, k, cur_level)
  BY DEF IInv, TypeOK, Table, Keys, eq_define
<1>2. Cardinality(Holders(eqtb', i))
        = Cardinality(Holders(eqtb, i)) - One(eqtb[k].val = i) + One(c = i)
  BY <1>1, HoldersOfDefined
<1>3. Cardinality(Savers(saveStack', i))
        = Cardinality(Savers(saveStack, i)) + One(~Released(k, gbl) /\ eqtb[k].val = i)
  <2>1. CASE Released(k, gbl)
    <3>1. saveStack' = saveStack
      BY <1>1, <2>1 DEF Released, Pushed
    <3>. QED
      BY <1>1, <2>1, <3>1, SaversFinite DEF One
  <2>2. CASE ~Released(k, gbl)
    <3>1. saveStack' = Append(saveStack, SavedValue(k, eqtb[k]))
      BY <1>1, <2>2 DEF Released, Pushed
    <3>2. /\ SavedValue(k, eqtb[k]) \in Item
          /\ SavedValue(k, eqtb[k]).type = "value" /\ SavedValue(k, eqtb[k]).val = eqtb[k].val
      BY <1>1 DEF Table, SavedValue, Item
    <3>3. Cardinality(Savers(saveStack', i))
            = Cardinality(Savers(saveStack, i)) + One(eqtb[k].val = i)
      <4>. DEFINE x == SavedValue(k, eqtb[k])
      <4>1. x \in Item /\ x.type = "value" /\ x.val = eqtb[k].val /\ saveStack' = Append(saveStack, x)
        BY <3>1, <3>2
      <4>. HIDE DEF x
      <4>2. Cardinality(Savers(Append(saveStack, x), i))
              = Cardinality(Savers(saveStack, i)) + One(x.type = "value" /\ x.val = i)
        BY <1>1, <4>1, SaversOfAppend
      <4>. QED
        BY <4>1, <4>2 DEF One
    <3>. QED
      BY <2>2, <3>3
  <2>. QED
    BY <2>1, <2>2
<1>4. /\ Cardinality(Holders(eqtb, i)) \in Nat /\ Cardinality(Savers(saveStack, i)) \in Nat
  BY <1>1, HoldersFinite, SaversFinite
<1>. QED
  BY <1>2, <1>3, <1>4 DEF Count, One

\* The table of macros follows: c is counted before the old value is released,
\* so that a macro that is assigned to itself survives.
LEMMA DefinedReferences ==
  ASSUME IInv, NEW k \in CmdKeys, NEW c \in Values, NEW gbl \in BOOLEAN, eq_define(k, c, gbl),
         NEW table \in Seq(Macro), Len(table) <= MaxMacros,
         Exists(c, Len(table)), Exists(eqtb[k].val, Len(table)),
         \A i \in DOMAIN table :
           /\ table[i].ref = Count(eqtb, saveStack, i)
           /\ table[i].ptr <=> Count(eqtb, saveStack, i) > 0 \/ i = c
  PROVE  /\ References(table, k, c, gbl) \in Seq(Macro)
         /\ Len(References(table, k, c, gbl)) = Len(table)
         /\ Counted(References(table, k, c, gbl), eqtb', saveStack')
<1>. DEFINE counted == incr_macro_ref(table, c)
            new == References(table, k, c, gbl)
            old == eqtb[k].val
<1>1. /\ counted \in Seq(Macro) /\ Len(counted) = Len(table) /\ DOMAIN counted = DOMAIN table
      /\ \A i \in DOMAIN table : /\ counted[i].ref = table[i].ref + One(c = i)
                                 /\ counted[i].ptr = table[i].ptr
  BY IncrementedTable
<1>2. /\ delete_macro_ref(counted, old) \in Seq(Macro)
      /\ Len(delete_macro_ref(counted, old)) = Len(table)
      /\ DOMAIN delete_macro_ref(counted, old) = DOMAIN table
      /\ \A i \in DOMAIN table :
           /\ delete_macro_ref(counted, old)[i].ref = counted[i].ref - One(old = i)
           /\ delete_macro_ref(counted, old)[i].ptr <=> counted[i].ptr /\ ~(old = i /\ counted[i].ref = 1)
  BY <1>1, DecrementedTable
<1>3. new = IF Released(k, gbl) THEN delete_macro_ref(counted, old) ELSE counted
  BY DEF References, Released
<1>. HIDE DEF counted, new
<1>4. new \in Seq(Macro) /\ Len(new) = Len(table) /\ DOMAIN new = DOMAIN table
  BY <1>1, <1>2, <1>3
<1>5. ASSUME NEW i \in DOMAIN table
      PROVE  /\ new[i].ref = Count(eqtb', saveStack', i)
             /\ new[i].ptr <=> Count(eqtb', saveStack', i) > 0
  <2>. DEFINE n == Count(eqtb, saveStack, i)
              n2 == Count(eqtb', saveStack', i)
  <2>1. n2 = n + One(c = i) - One(Released(k, gbl) /\ old = i)
    BY DefinedCounts
  <2>2. n \in Nat /\ (old = i => n > 0)
    <3>1. old = i => k \in Holders(eqtb, i)
      BY DEF Holders
    <3>. QED
      BY <3>1, CountPositive DEF IInv, TypeOK
  <2>3. table[i].ref = n /\ (table[i].ptr <=> n > 0 \/ i = c)
    OBVIOUS
  <2>. HIDE DEF n, n2
  <2>4. counted[i].ref = n + One(c = i) /\ (counted[i].ptr <=> n > 0 \/ i = c)
    BY <1>1, <2>3
  <2>5. CASE Released(k, gbl)
    <3>1. /\ new[i].ref = counted[i].ref - One(old = i)
          /\ new[i].ptr <=> counted[i].ptr /\ ~(old = i /\ counted[i].ref = 1)
      BY <1>2, <1>3, <2>5
    <3>. QED
      BY <2>1, <2>2, <2>4, <2>5, <3>1 DEF One, n2
  <2>6. CASE ~Released(k, gbl)
    BY <1>3, <2>1, <2>2, <2>4, <2>6 DEF One, n2
  <2>. QED
    BY <2>5, <2>6
<1>. QED
  BY <1>4, <1>5 DEF Counted, new

-----------------------------------------------------------------------------
\* The invariant is preserved by every action.

\* An assignment, and the table of macros it leaves.
LEMMA DefinedMInv ==
  ASSUME MInv, NEW k \in CmdKeys, NEW c \in Values, NEW gbl \in BOOLEAN, eq_define(k, c, gbl),
         NEW table \in Seq(Macro), Len(table) <= MaxMacros, Len(mac_table) <= Len(table),
         Exists(c, Len(table)),
         \A i \in DOMAIN table :
           /\ table[i].ref = Count(eqtb, saveStack, i)
           /\ table[i].ptr <=> Count(eqtb, saveStack, i) > 0 \/ i = c,
         mac_table' = References(table, k, c, gbl)
  PROVE  MInv'
<1>1. /\ IInv /\ MTypeOK
      /\ saveStack \in Seq(Item) /\ eqtb \in Table /\ cur_level \in Nat /\ k \in Keys
      /\ Len(table) \in Nat /\ Len(mac_table) \in Nat
  BY LenProperties DEF MInv, MTypeOK, IInv, TypeOK, Table, Keys
<1>2. IInv'
  BY <1>1, AssignmentsIInv
<1>3. /\ eqtb' = Defined(eqtb, k, c, IF gbl THEN 1 ELSE cur_level)
      /\ saveStack' = IF gbl THEN saveStack ELSE Pushed(saveStack, eqtb, k, cur_level)
      /\ theBox' = theBox
  BY DEF eq_define
<1>4. \A v : Exists(v, Len(mac_table)) => Exists(v, Len(table))
  BY <1>1 DEF Exists
<1>5. Exists(eqtb[k].val, Len(table))
  BY <1>1, <1>4 DEF MTypeOK
<1>6. /\ mac_table' \in Seq(Macro)
      /\ Len(mac_table') = Len(table)
      /\ Counted(mac_table, eqtb, saveStack)'
  BY <1>1, <1>5, DefinedReferences
<1>7. \A k2 \in CmdKeys : Exists(eqtb'[k2].val, Len(table))
  BY <1>1, <1>3, <1>4 DEF MTypeOK, Defined, Table, Keys
<1>8. \A n \in DOMAIN saveStack' : saveStack'[n].type = "value" =>
        saveStack'[n].pos \in CmdKeys /\ Exists(saveStack'[n].val, Len(table))
  <2>1. CASE saveStack' = saveStack
    BY <1>1, <1>4, <2>1 DEF MTypeOK
  <2>2. CASE saveStack' # saveStack
    <3>1. saveStack' = Append(saveStack, SavedValue(k, eqtb[k]))
      BY <1>3, <2>2 DEF Pushed
    <3>. DEFINE x == SavedValue(k, eqtb[k])
    <3>2. x \in Item /\ x.type = "value" /\ x.pos = k /\ x.val = eqtb[k].val
      BY <1>1 DEF Table, SavedValue, Item
    <3>. HIDE DEF x
    <3>3. /\ Len(saveStack) \in Nat /\ DOMAIN saveStack = 1..Len(saveStack)
          /\ DOMAIN saveStack' = 1..(Len(saveStack) + 1)
          /\ \A n \in 1..Len(saveStack) : saveStack'[n] = saveStack[n]
          /\ saveStack'[Len(saveStack) + 1] = x
      BY <1>1, <3>1, <3>2, PushedAt DEF x
    <3>. QED
      BY <1>1, <1>4, <1>5, <3>2, <3>3 DEF MTypeOK
  <2>. QED
    BY <2>1, <2>2
<1>. QED
  BY <1>1, <1>2, <1>3, <1>6, <1>7, <1>8 DEF MInv, MTypeOK

\* \def, \let and \let to a primitive preserve the invariant.
LEMMA DefinitionsMInv ==
  ASSUME MInv, NEW k \in CmdKeys, NEW gbl \in BOOLEAN
  PROVE  /\ \A redef \in Redefs : mac_define(k, gbl, redef) => MInv'
         /\ \A j \in CmdKeys, redef \in BOOLEAN : M_let(k, j, gbl, redef) => MInv'
         /\ \A c \in {Relax, Undef} : M_let_primitive(k, c, gbl) => MInv'
<1>1. /\ IInv /\ MTypeOK /\ Counted(mac_table, eqtb, saveStack)
      /\ saveStack \in Seq(Item) /\ eqtb \in Table
      /\ mac_table \in Seq(Macro) /\ Len(mac_table) <= MaxMacros
      /\ Len(mac_table) \in Nat /\ DOMAIN mac_table = 1..Len(mac_table)
  BY LenProperties DEF MInv, MTypeOK, IInv, TypeOK, Table
<1>2. \A i : Count(eqtb, saveStack, i) \in Nat
  BY <1>1, CountPositive
<1>3. ASSUME NEW redef \in Redefs, mac_define(k, gbl, redef) PROVE MInv'
  <2>. DEFINE c == Len(mac_table) + 1
              table == mc_new_macro(mac_table)
  <2>1. c \in MacroIds /\ c \in Values
    BY <1>1, <1>3, MacrosAssumption DEF mac_define, MacroIds, Values
  <2>2. [ptr |-> TRUE, ref |-> 0] \in Macro
    BY DEF Macro
  <2>3. /\ table \in Seq(Macro) /\ Len(table) = c /\ DOMAIN table = 1..c
        /\ \A i \in 1..Len(mac_table) : table[i] = mac_table[i]
        /\ table[c] = [ptr |-> TRUE, ref |-> 0]
    BY <1>1, <2>2, PushedAt DEF mc_new_macro
  <2>4. Count(eqtb, saveStack, c) = 0
    <3>1. Holders(eqtb, c) = {} /\ Savers(saveStack, c) = {}
      BY <1>1, <2>1 DEF Holders, Savers, MTypeOK, Exists, is_user
    <3>. QED
      BY <1>1, <1>2, <3>1, CountPositive
  <2>5. \A i \in DOMAIN table :
          /\ table[i].ref = Count(eqtb, saveStack, i)
          /\ table[i].ptr <=> Count(eqtb, saveStack, i) > 0 \/ i = c
    BY <1>1, <2>3, <2>4 DEF Counted
  <2>6. Exists(c, Len(table)) /\ Len(table) <= MaxMacros /\ Len(mac_table) <= Len(table)
    BY <1>1, <2>1, <2>3 DEF Exists, MacroIds
  <2>7. eq_define(k, c, gbl) /\ mac_table' = References(table, k, c, gbl)
    BY <1>3 DEF mac_define
  <2>. HIDE DEF table, c
  <2>. QED
    BY <2>1, <2>3, <2>5, <2>6, <2>7, DefinedMInv
<1>4. ASSUME NEW c \in Values, Exists(c, Len(mac_table)), eq_define(k, c, gbl),
             c \in DOMAIN mac_table => Count(eqtb, saveStack, c) > 0,
             mac_table' = References(mac_table, k, c, gbl)
      PROVE  MInv'
  <2>1. \A i \in DOMAIN mac_table :
          /\ mac_table[i].ref = Count(eqtb, saveStack, i)
          /\ mac_table[i].ptr <=> Count(eqtb, saveStack, i) > 0 \/ i = c
    BY <1>1, <1>4 DEF Counted
  <2>2. Len(mac_table) <= Len(mac_table)
    BY <1>1
  <2>. QED
    BY <1>1, <1>4, <2>1, <2>2, DefinedMInv
<1>5. ASSUME NEW j \in CmdKeys, NEW redef \in BOOLEAN, M_let(k, j, gbl, redef) PROVE MInv'
  <2>1. eqtb[j].val \in Values /\ Exists(eqtb[j].val, Len(mac_table))
    BY <1>1 DEF Table, Keys, MTypeOK
  <2>2. Count(eqtb, saveStack, eqtb[j].val) > 0
    <3>1. j \in Holders(eqtb, eqtb[j].val)
      BY DEF Holders
    <3>. QED
      BY <1>1, <3>1, CountPositive
  <2>. QED
    BY <1>4, <1>5, <2>1, <2>2 DEF M_let
<1>6. ASSUME NEW c \in {Relax, Undef}, M_let_primitive(k, c, gbl) PROVE MInv'
  <2>1. c \in Values /\ c \notin MacroIds
    BY MacrosAssumption DEF Values
  <2>2. Exists(c, Len(mac_table)) /\ c \notin DOMAIN mac_table
    BY <1>1, <2>1, MacrosAssumption DEF Exists, is_user, MacroIds
  <2>. QED
    BY <1>4, <1>6, <2>1, <2>2 DEF M_let_primitive
<1>. QED
  BY <1>3, <1>5, <1>6

\* The saved values are the same in two stacks.
SameValues(s, s2) ==
  \A n : /\ n \in DOMAIN s /\ s[n].type = "value" <=> n \in DOMAIN s2 /\ s2[n].type = "value"
         /\ n \in DOMAIN s /\ s[n].type = "value" => s2[n] = s[n]

\* Items that hold no counted reference are pushed or popped.
LEMMA SameValuesMInv ==
  ASSUME MInv, IInv', SameValues(saveStack, saveStack'), UNCHANGED <<theBox, mac_table, eqtb>>
  PROVE  MInv'
<1>1. MTypeOK /\ Counted(mac_table, eqtb, saveStack)
  BY DEF MInv
<1>2. MTypeOK'
  BY <1>1 DEF MTypeOK, SameValues
<1>3. \A i : Savers(saveStack', i) = Savers(saveStack, i)
  <2>. TAKE i
  <2>1. \A n : n \in Savers(saveStack', i) <=> n \in Savers(saveStack, i)
    BY DEF Savers, SameValues
  <2>. QED
    BY <2>1
<1>4. Counted(mac_table, eqtb, saveStack)'
  BY <1>1, <1>3 DEF Counted, Count
<1>. QED
  BY <1>2, <1>4 DEF MInv

\* An item that saves no value holds no macro, when it is pushed ...
LEMMA OtherItemPushed ==
  ASSUME NEW s \in Seq(Item), NEW x \in Item, x.type # "value"
  PROVE  Append(s, x) \in Seq(Item) /\ SameValues(s, Append(s, x))
<1>1. /\ Append(s, x) \in Seq(Item)
      /\ Len(s) \in Nat /\ DOMAIN s = 1..Len(s)
      /\ DOMAIN Append(s, x) = 1..(Len(s) + 1)
      /\ \A n \in 1..Len(s) : Append(s, x)[n] = s[n]
      /\ Append(s, x)[Len(s) + 1] = x
  BY PushedAt
<1>. QED
  BY <1>1 DEF SameValues

\* ... and when it is popped.
LEMMA OtherItemPopped ==
  ASSUME NEW s \in Seq(Item), s # <<>>, Last(s).type # "value"
  PROVE  SameValues(s, Front(s))
<1>1. /\ Len(s) \in Nat \ {0} /\ DOMAIN s = 1..Len(s)
      /\ DOMAIN Front(s) = 1..(Len(s) - 1)
      /\ \A n \in 1..(Len(s) - 1) : Front(s)[n] = s[n]
      /\ Last(s) = s[Len(s)]
  BY PoppedAt
<1>. QED
  BY <1>1 DEF SameValues

\* The other commands.
LEMMA CommandsMInv ==
  ASSUME MInv, ~popping
  PROVE  /\ \A v \in GroupKinds : (push_level(v) \/ T_close(v)) /\ UNCHANGED mac_table => MInv'
         /\ sendgroup /\ UNCHANGED mac_table => MInv'
         /\ \A s \in Envs : T_begin_env(s) \/ T_end_env(s) => MInv'
<1>1. /\ IInv /\ saveStack \in Seq(Item) /\ cur_env_name \in EnvNames
      /\ GroupKinds \subseteq Kinds /\ "env" \in Kinds
  BY DEF MInv, IInv, TypeOK, Kinds
<1>2. ASSUME NEW v \in Kinds
      PROVE  Boundary(v) \in Item /\ Boundary(v).type # "value"
  BY DEF Boundary, Item
<1>3. SameValues(saveStack, saveStack)
  BY DEF SameValues
<1>4. ASSUME NEW v \in GroupKinds, push_level(v), UNCHANGED mac_table PROVE MInv'
  <2>1. IInv'
    BY <1>1, <1>4, OpeningIInv
  <2>2. SameValues(saveStack, saveStack')
    BY <1>1, <1>2, <1>4, OtherItemPushed DEF push_level
  <2>. QED
    BY <1>4, <2>1, <2>2, SameValuesMInv DEF push_level
<1>5. ASSUME NEW v \in GroupKinds, T_close(v), UNCHANGED mac_table PROVE MInv'
  <2>1. IInv'
    BY <1>1, <1>5, ClosingIInv
  <2>. QED
    BY <1>3, <1>5, <2>1, SameValuesMInv DEF T_close, pop_level
<1>6. ASSUME sendgroup, UNCHANGED mac_table PROVE MInv'
  <2>1. IInv'
    BY <1>1, <1>6, ClosingIInv
  <2>. QED
    BY <1>3, <1>6, <2>1, SameValuesMInv DEF sendgroup, pop_level
<1>7. ASSUME NEW s \in Envs, T_begin_env(s) PROVE MInv'
  <2>1. T_begin(s) /\ UNCHANGED mac_table
    BY <1>7 DEF T_begin_env
  <2>2. IInv'
    BY <1>1, <2>1, OpeningIInv
  <2>. DEFINE s1 == Append(saveStack, Boundary("env"))
              x == SavedEnv(cur_env_name, s)
  <2>3. s1 \in Seq(Item) /\ SameValues(saveStack, s1)
    BY <1>1, <1>2, OtherItemPushed
  <2>4. x \in Item /\ x.type # "value"
    BY <1>1 DEF SavedEnv, Item
  <2>5. saveStack' = Append(s1, x) /\ UNCHANGED <<theBox, eqtb>>
    BY <2>1 DEF T_begin
  <2>. HIDE DEF s1, x
  <2>6. SameValues(s1, saveStack')
    BY <2>3, <2>4, <2>5, OtherItemPushed
  <2>7. SameValues(saveStack, saveStack')
    BY <2>3, <2>6 DEF SameValues
  <2>. QED
    BY <2>1, <2>2, <2>5, <2>7, SameValuesMInv
<1>8. ASSUME NEW s \in Envs, T_end_env(s) PROVE MInv'
  <2>1. T_end(s) /\ UNCHANGED mac_table
    BY <1>8 DEF T_end_env
  <2>2. IInv'
    BY <1>1, <2>1, ClosingIInv
  <2>. QED
    BY <1>3, <2>1, <2>2, SameValuesMInv DEF T_end
<1>. QED
  BY <1>4, <1>5, <1>6, <1>7, <1>8

\* The destructor of a saved command: of the saved meaning and the current one,
\* the one that is lost is released.
LEMMA PopCommandMInv ==
  ASSUME MInv, PopCommand
  PROVE  MInv'
<1>. DEFINE s == saveStack
            p == Last(saveStack)
            global == eqtb[p.pos].level = 1
            lost == IF global THEN p.val ELSE eqtb[p.pos].val
<1>1. /\ IInv /\ MTypeOK /\ Counted(mac_table, eqtb, s)
      /\ s \in Seq(Item) /\ eqtb \in Table
      /\ mac_table \in Seq(Macro) /\ Len(mac_table) <= MaxMacros
      /\ Len(mac_table) \in Nat /\ DOMAIN mac_table = 1..Len(mac_table)
  BY LenProperties DEF MInv, MTypeOK, IInv, TypeOK, Table
<1>2. /\ s # <<>> /\ p.type = "value" /\ s' = Front(s)
      /\ eqtb' = IF global THEN eqtb ELSE Defined(eqtb, p.pos, p.val, p.level)
      /\ mac_table' = delete_macro_ref(mac_table, lost)
      /\ UNCHANGED theBox
  BY DEF PopCommand, PopValue, PopItem
<1>3. IInv'
  BY <1>1, PopIInv DEF PopCommand, Pop
<1>4. p \in Item /\ Len(s) \in DOMAIN s /\ p = s[Len(s)]
  <2>1. /\ Len(s) \in Nat \ {0} /\ DOMAIN s = 1..Len(s)
        /\ p = s[Len(s)] /\ p \in Item
    BY <1>1, <1>2, PoppedAt
  <2>. QED
    BY <2>1
<1>5. p.pos \in CmdKeys /\ p.val \in Values /\ p.level \in Nat /\ Exists(p.val, Len(mac_table))
  BY <1>1, <1>2, <1>4 DEF MTypeOK, Item
<1>6. Exists(lost, Len(mac_table))
  BY <1>1, <1>5 DEF MTypeOK
<1>7. ASSUME NEW i
      PROVE  /\ Count(eqtb', s', i) = Count(eqtb, s, i) - One(lost = i)
             /\ Count(eqtb, s, i) \in Nat /\ (lost = i => Count(eqtb, s, i) > 0)
  <2>1. Cardinality(Savers(s', i)) = Cardinality(Savers(s, i)) - One(p.val = i)
    <3>1. Cardinality(Savers(Front(s), i))
            = Cardinality(Savers(s, i)) - One(p.type = "value" /\ p.val = i)
      BY <1>1, <1>2, SaversOfFront
    <3>. QED
      BY <1>2, <3>1 DEF One
  <2>2. /\ Cardinality(Holders(eqtb, i)) \in Nat /\ Cardinality(Savers(s, i)) \in Nat
        /\ Count(eqtb, s, i) \in Nat
        /\ Count(eqtb, s, i) > 0 <=> Holders(eqtb, i) \cup Savers(s, i) # {}
    BY <1>1, HoldersFinite, SaversFinite, CountPositive
  <2>3. lost = i => Count(eqtb, s, i) > 0
    <3>1. CASE global /\ lost = i
      <4>1. Len(s) \in Savers(s, i)
        BY <1>2, <1>4, <3>1 DEF Savers
      <4>. QED
        BY <2>2, <4>1
    <3>2. CASE ~global /\ lost = i
      <4>1. p.pos \in Holders(eqtb, i)
        BY <1>5, <3>2 DEF Holders
      <4>. QED
        BY <2>2, <4>1
    <3>. QED
      BY <3>1, <3>2
  <2>4. CASE global
    BY <1>2, <2>1, <2>2, <2>3, <2>4 DEF Count, One
  <2>5. CASE ~global
    <3>1. Cardinality(Holders(eqtb', i))
            = Cardinality(Holders(eqtb, i)) - One(eqtb[p.pos].val = i) + One(p.val = i)
      BY <1>1, <1>2, <1>5, <2>5, HoldersOfDefined
    <3>. QED
      BY <2>1, <2>2, <2>3, <2>5, <3>1 DEF Count, One
  <2>. QED
    BY <2>4, <2>5
<1>8. /\ mac_table' \in Seq(Macro)
      /\ Len(mac_table') = Len(mac_table)
      /\ DOMAIN mac_table' = DOMAIN mac_table
      /\ \A i \in DOMAIN mac_table :
           /\ mac_table'[i].ref = mac_table[i].ref - One(lost = i)
           /\ mac_table'[i].ptr <=> mac_table[i].ptr /\ ~(lost = i /\ mac_table[i].ref = 1)
  BY <1>1, <1>2, <1>6, DecrementedTable
<1>9. Counted(mac_table, eqtb, saveStack)'
  <2>. SUFFICES ASSUME NEW i \in DOMAIN mac_table
                PROVE  /\ mac_table'[i].ref = Count(eqtb', s', i)
                       /\ mac_table'[i].ptr <=> Count(eqtb', s', i) > 0
    BY <1>8 DEF Counted
  <2>. DEFINE n == Count(eqtb, s, i)
              n2 == Count(eqtb', s', i)
  <2>1. n2 = n - One(lost = i) /\ n \in Nat /\ (lost = i => n > 0)
    BY <1>7
  <2>2. mac_table[i].ref = n /\ (mac_table[i].ptr <=> n > 0)
    BY <1>1 DEF Counted
  <2>. HIDE DEF n, n2, lost
  <2>3. /\ mac_table'[i].ref = n2
        /\ mac_table'[i].ptr <=> n2 > 0
    BY <1>8, <2>1, <2>2 DEF One
  <2>. QED
    BY <2>3 DEF n2
<1>10. MTypeOK'
  <2>1. \A k \in CmdKeys : Exists(eqtb'[k].val, Len(mac_table))
    BY <1>1, <1>2, <1>5 DEF MTypeOK, Defined, Table, Keys
  <2>2. \A n \in DOMAIN s' : n \in DOMAIN s /\ s'[n] = s[n]
    <3>1. /\ Len(s) \in Nat \ {0} /\ DOMAIN s = 1..Len(s)
          /\ DOMAIN Front(s) = 1..(Len(s) - 1)
          /\ \A n \in 1..(Len(s) - 1) : Front(s)[n] = s[n]
      BY <1>1, <1>2, PoppedAt
    <3>. QED
      BY <1>2, <3>1
  <2>. QED
    BY <1>1, <1>2, <1>8, <2>1, <2>2 DEF MTypeOK
<1>. QED
  BY <1>3, <1>9, <1>10 DEF MInv

\* The invariant holds before the first macro.
LEMMA InitMInv == MInit => MInv
<1>. SUFFICES ASSUME MInit PROVE MInv
  OBVIOUS
<1>1. IInv
  BY InitIInv DEF MInit
<1>2. mac_table = <<>> /\ saveStack = <<>> /\ theBox = NoBox
  BY DEF MInit, Init
<1>3. mac_table \in Seq(Macro) /\ Len(mac_table) = 0 /\ DOMAIN mac_table = {}
  BY <1>2, EmptySeq
<1>4. \A k \in CmdKeys : eqtb[k].val = Undef
  BY NamesAssumption DEF MInit, Init, InitialValue, Keys
<1>5. MTypeOK
  BY <1>2, <1>3, <1>4, MacrosAssumption DEF MTypeOK, Exists, is_user
<1>. QED
  BY <1>1, <1>3, <1>5 DEF MInv, Counted

\* Every step preserves the invariant.
LEMMA NextMInv == MInv /\ [MNext]_macroVars => MInv'
<1>. SUFFICES ASSUME MInv, [MNext]_macroVars PROVE MInv'
  OBVIOUS
<1>1. CASE UNCHANGED macroVars
  <2>1. IInv'
    BY <1>1, NextIInv DEF macroVars, MInv
  <2>. QED
    BY <1>1, <2>1 DEF macroVars, vars, MInv, MTypeOK, Counted
<1>2. CASE ~popping /\ MCommand
  BY <1>2, CommandsMInv, DefinitionsMInv DEF MCommand
<1>3. CASE PopCommand
  BY <1>3, PopCommandMInv
<1>4. CASE PopEnvironment
  <2>1. PopEnv /\ UNCHANGED mac_table
    BY <1>4 DEF PopEnvironment
  <2>2. IInv'
    BY <2>1, PopIInv DEF MInv, Pop
  <2>3. SameValues(saveStack, saveStack') /\ UNCHANGED <<theBox, eqtb>>
    BY <2>1, OtherItemPopped DEF MInv, IInv, TypeOK, PopEnv, PopItem
  <2>. QED
    BY <2>1, <2>2, <2>3, SameValuesMInv
<1>5. CASE PopBoundary /\ UNCHANGED <<mac_table, envCodes, dangling>>
  <2>1. IInv'
    BY <1>5, PopIInv DEF MInv, Pop
  <2>2. theBox = NoBox
    BY DEF MInv, MTypeOK
  <2>3. SameValues(saveStack, saveStack') /\ UNCHANGED <<theBox, eqtb>>
    BY <1>5, <2>2, OtherItemPopped DEF MInv, IInv, TypeOK, PopBoundary
  <2>. QED
    BY <1>5, <2>1, <2>3, SameValuesMInv
<1>. QED
  BY <1>1, <1>2, <1>3, <1>4, <1>5 DEF MNext

\* The number of references says what ReferencesCounted says of the sets.
LEMMA CountedIsReferencesCounted == MInv => ReferencesCounted
<1>. SUFFICES ASSUME MInv, NEW i \in DOMAIN mac_table
              PROVE  /\ mac_table[i].ref = Cardinality(Commands(i)) + Cardinality(SavedCommands(i))
                     /\ mac_table[i].ptr <=> Commands(i) \cup SavedCommands(i) # {}
  BY DEF ReferencesCounted
<1>1. Commands(i) = Holders(eqtb, i) /\ SavedCommands(i) = Savers(saveStack, i)
  BY DEF Commands, SavedCommands, Holders, Savers
<1>2. saveStack \in Seq(Item)
  BY DEF MInv, IInv, TypeOK
<1>. QED
  BY <1>1, <1>2, CountPositive DEF MInv, Counted, Count

\* A macro lives exactly as long as a command means it or will mean it when a
\* group ends: delete_macro_ref never meets a count of zero (where the program
\* stops with "Fatal: macro reference count negative"), and no macro is leaked.
THEOREM MacrosAreCounted == MSpec => []ReferencesCounted
<1>1. MInv => ReferencesCounted
  BY CountedIsReferencesCounted
<1>. QED
  BY <1>1, InitMInv, NextMInv, PTL DEF MSpec

=============================================================================
