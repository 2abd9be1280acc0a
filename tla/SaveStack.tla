------------------------------ MODULE SaveStack -----------------------------
(***************************************************************************)
(* Groups, assignments and the save stack (txparser3.cpp, SaveAux.cpp and  *)
(* the handlers of txparser.cpp, txcommands.cpp and Dispatcher.cpp that    *)
(* open and close groups).                                                 *)
(*                                                                         *)
(* Every name has one entry [val, level] in a table; level 1 is the outer  *)
(* level.  A local assignment overwrites the entry and pushes the old one  *)
(* on the save stack when it was made at another level.  Opening a group   *)
(* pushes a boundary.  Closing it pops items down to the boundary; the     *)
(* effect of an item is in its destructor, which may call back into the    *)
(* parser, so pop_level is modelled item by item: while popping is TRUE    *)
(* only Pop... actions are enabled.                                        *)
(***************************************************************************)
EXTENDS Naturals, Sequences, FiniteSets, SequencesExt

CONSTANTS
  WordKeys, CmdKeys, BoxKeys,   \* integer and other registers; commands; boxes
  Vals, Null, Undef,            \* values; the empty box; the initial value
  Fonts, NoFont, Font0,         \* font settings; NoFont is used by the mapping only
  GroupKinds,                   \* boundary types other than bt_env and bt_tpa
  Envs, NoEnv,                  \* environment names; cur_env_name at the start
  Tokens,                       \* tokens given to \aftergroup
  LastRegister,                 \* the register number last_register (see box_end)
  MaxLevel,                     \* bound on cur_level
  MaxStack,                     \* bound on the size of the save stack
  MaxInput                      \* bound on the tokens waiting in TL

ASSUME BoundsAssumption ==
  /\ MaxLevel \in Nat /\ MaxStack \in Nat /\ MaxInput \in Nat

ASSUME NamesAssumption ==
  /\ WordKeys \cap CmdKeys = {} /\ WordKeys \cap BoxKeys = {} /\ CmdKeys \cap BoxKeys = {}
  /\ "brace" \in GroupKinds /\ GroupKinds \cap {"env", "tpa", "impossible"} = {}
  /\ NoEnv \notin Envs

Keys == WordKeys \cup CmdKeys \cup BoxKeys
Kinds == GroupKinds \cup {"env"}
Values == Vals \cup {Null, Undef}
EnvNames == Envs \cup {NoEnv}
FontSettings == Fonts \cup {Font0}

NoBox == <<>>
Dests == { [to |-> "register", pos |-> k, global |-> g] : k \in BoxKeys, g \in BOOLEAN }
           \cup { [to |-> "tree"] }
Boxes == { [dest |-> d, val |-> v] : d \in Dests, v \in Values }

InitialValue(k) == IF k \in BoxKeys THEN Null ELSE Undef

VARIABLES
  eqtb,          \* eqtb_int_table, box_table, ...: [val, level] of every name
  cur_level,
  saveStack,     \* the_save_stack
  cur_env_name,
  cur_font,      \* the packed font and its level
  TL,            \* the tokens to be read before the file
  popping,       \* the loop of pop_level is running
  theBox         \* the_box_to_end and the_box_position

vars == <<eqtb, cur_level, saveStack, cur_env_name, cur_font, TL, popping, theBox>>

-----------------------------------------------------------------------------
\* The items of the save stack (the classes of SaveAux.h).

Boundary(v) == [type |-> "boundary", val |-> v]
SavedValue(k, e) == [type |-> "value", pos |-> k, val |-> e.val, level |-> e.level]
SavedEnv(oldname, name) == [type |-> "env", oldname |-> oldname, name |-> name]
SavedFont(f) == [type |-> "font", val |-> f.packed, level |-> f.level]
BoxEnd(box) == [type |-> "box_end", box |-> box]
Aftergroup(t) == [type |-> "save", val |-> t]

Item ==
  [type : {"boundary"}, val : Kinds]
    \cup [type : {"value"}, pos : Keys, val : Values, level : Nat]
    \cup [type : {"env"}, oldname : EnvNames, name : Envs]
    \cup [type : {"font"}, val : FontSettings, level : Nat]
    \cup [type : {"box_end"}, box : Boxes]
    \cup [type : {"save"}, val : Tokens]

InputToken == ({"plain"} \X Tokens) \cup ({"sendgroup"} \X Envs)

Boundaries(stack) == { i \in DOMAIN stack : stack[i].type = "boundary" }
\* The position of the boundary of the current group.
LastBoundary == Max(Boundaries(saveStack))
first_boundary == IF Boundaries(saveStack) = {} THEN "impossible"
                  ELSE saveStack[LastBoundary].val

Init ==
  /\ eqtb = [k \in Keys |-> [val |-> InitialValue(k), level |-> 0]]
  /\ cur_level = 1
  /\ saveStack = <<>>
  /\ cur_env_name = NoEnv
  /\ cur_font = [packed |-> Font0, level |-> 0]
  /\ TL = <<>>
  /\ popping = FALSE
  /\ theBox = NoBox

-----------------------------------------------------------------------------
\* Assignments.

\* Variant for a mutant: an entry of this level is saved again.
must_push_always(entryLevel, l) == l > 1

must_push(entryLevel, l) == entryLevel # l /\ l > 1

Defined(table, k, c, l) == [table EXCEPT ![k] = [val |-> c, level |-> l]]

\* The save stack after a local assignment to k at level l.
Pushed(stack, table, k, l) ==
  IF must_push(table[k].level, l) THEN Append(stack, SavedValue(k, table[k])) ELSE stack

HasRoom == Len(saveStack) < MaxStack

\* Tokens that wait in TL or will come back when a group closes.
Waiting == Len(TL) + Cardinality({ i \in DOMAIN saveStack : saveStack[i].type = "save" })

\* word_define, dim_define, glue_define, string_define, token_list_define
word_define(k, c, gbl) ==
  /\ gbl \/ HasRoom
  /\ IF gbl THEN eqtb' = Defined(eqtb, k, c, 1) /\ UNCHANGED saveStack
     ELSE IF eqtb[k].val = c THEN UNCHANGED <<eqtb, saveStack>>    \* reassign
     ELSE /\ saveStack' = Pushed(saveStack, eqtb, k, cur_level)
          /\ eqtb' = Defined(eqtb, k, c, cur_level)
  /\ UNCHANGED <<cur_level, cur_env_name, cur_font, TL, popping, theBox>>

\* Reference counts of user macros are left to another module.
eq_define(k, c, gbl) ==
  /\ gbl \/ HasRoom
  /\ saveStack' = IF gbl THEN saveStack ELSE Pushed(saveStack, eqtb, k, cur_level)
  /\ eqtb' = Defined(eqtb, k, c, IF gbl THEN 1 ELSE cur_level)
  /\ UNCHANGED <<cur_level, cur_env_name, cur_font, TL, popping, theBox>>

\* box_end followed by box_define: table and stack after a box c went to dest.
\* The test for a local destination is pos < last_register, so that a local
\* \setbox of the last register takes the global branch with the index -1 and
\* writes outside box_table.
OutsideTable(dest) == dest.to = "tree" \/ (dest.pos = LastRegister /\ ~dest.global)

BoxedTable(table, dest, c, l) ==
  IF OutsideTable(dest) THEN table
  ELSE Defined(table, dest.pos, c, IF dest.global THEN 1 ELSE l)

BoxedStack(stack, table, dest, l) ==
  IF OutsideTable(dest) \/ dest.global THEN stack ELSE Pushed(stack, table, dest.pos, l)

\* \box and \copy, with or without \setbox in front.
begin_box(k, dest, copy) ==
  LET emptied == IF copy THEN eqtb ELSE [eqtb EXCEPT ![k].val = Null]
  IN /\ HasRoom
     /\ saveStack' = BoxedStack(saveStack, emptied, dest, cur_level)
     /\ eqtb' = BoxedTable(emptied, dest, eqtb[k].val, cur_level)
     /\ UNCHANGED <<cur_level, cur_env_name, cur_font, TL, popping, theBox>>

\* A font command: font_has_changed calls save_font.
font_has_changed(f) ==
  /\ HasRoom
  /\ saveStack' = IF cur_font.level = cur_level THEN saveStack
                  ELSE Append(saveStack, SavedFont(cur_font))
  /\ cur_font' = [packed |-> f, level |-> cur_level]
  /\ UNCHANGED <<eqtb, cur_level, cur_env_name, TL, popping, theBox>>

T_aftergroup(t) ==
  /\ HasRoom /\ Waiting < MaxInput
  /\ saveStack' = Append(saveStack, Aftergroup(t))
  /\ UNCHANGED <<eqtb, cur_level, cur_env_name, cur_font, TL, popping, theBox>>

-----------------------------------------------------------------------------
\* Opening a group.

push_level(v) ==
  /\ cur_level < MaxLevel /\ HasRoom
  /\ saveStack' = Append(saveStack, Boundary(v))
  /\ cur_level' = cur_level + 1
  /\ UNCHANGED <<eqtb, cur_env_name, cur_font, TL, popping, theBox>>

\* Variant for a mutant: the new name and the old one are swapped in the item.
T_begin_swapped(s) ==
  /\ cur_level < MaxLevel /\ Len(saveStack) + 1 < MaxStack
  /\ saveStack' = Append(Append(saveStack, Boundary("env")), SavedEnv(s, cur_env_name))
  /\ cur_level' = cur_level + 1
  /\ cur_env_name' = s
  /\ UNCHANGED <<eqtb, cur_font, TL, popping, theBox>>

T_begin(s) ==
  /\ cur_level < MaxLevel /\ Len(saveStack) + 1 < MaxStack
  /\ saveStack' = Append(Append(saveStack, Boundary("env")), SavedEnv(cur_env_name, s))
  /\ cur_level' = cur_level + 1
  /\ cur_env_name' = s
  /\ UNCHANGED <<eqtb, cur_font, TL, popping, theBox>>

\* Variant for a mutant: the boundary of the box does not raise the level.
begin_hbox_same_level(dest, v) ==
  /\ cur_level < MaxLevel /\ Len(saveStack) + 1 < MaxStack
  /\ saveStack' = Append(Append(saveStack, Boundary("brace")), BoxEnd([dest |-> dest, val |-> v]))
  /\ UNCHANGED <<eqtb, cur_level, cur_env_name, cur_font, TL, popping, theBox>>

\* \hbox{, \xbox{foo}{, \setbox3\hbox{ ...: the body is a group.
begin_hbox(dest, v) ==
  /\ cur_level < MaxLevel /\ Len(saveStack) + 1 < MaxStack
  /\ saveStack' = Append(Append(saveStack, Boundary("brace")), BoxEnd([dest |-> dest, val |-> v]))
  /\ cur_level' = cur_level + 1
  /\ UNCHANGED <<eqtb, cur_env_name, cur_font, TL, popping, theBox>>

-----------------------------------------------------------------------------
\* Closing a group.

\* The tests at the start of pop_level; when it does not return, the loop starts.
pop_level(v) ==
  /\ popping' = /\ first_boundary # "impossible"
                /\ (first_boundary = "env" => v = "env")
  /\ UNCHANGED <<eqtb, cur_level, saveStack, cur_env_name, cur_font, theBox>>

\* }, \endgroup and the translators that open a group and close it themselves.
T_close(v) == pop_level(v) /\ UNCHANGED TL

is_env_on_stack(s) ==
  \E i \in DOMAIN saveStack : saveStack[i].type = "env" /\ saveStack[i].name = s

\* \end{s}: the tokens of \ends, then sendgroup and the name of the environment.
T_end(s) ==
  /\ Waiting < MaxInput
  /\ TL' = IF is_env_on_stack(s) THEN <<<<"sendgroup", s>>>> \o TL ELSE TL
  /\ UNCHANGED <<eqtb, cur_level, saveStack, cur_env_name, cur_font, popping, theBox>>

sendgroup ==
  /\ TL # <<>> /\ Head(TL)[1] = "sendgroup"
  /\ TL' = Tail(TL)
  /\ pop_level("env")

ReadToken ==
  /\ TL # <<>> /\ Head(TL)[1] = "plain"
  /\ TL' = Tail(TL)
  /\ UNCHANGED <<eqtb, cur_level, saveStack, cur_env_name, cur_font, popping, theBox>>

\* One turn of the loop of pop_level: the item leaves the stack, then its
\* destructor runs.
PopItem(type) ==
  /\ popping
  /\ saveStack # <<>> /\ Last(saveStack).type = type
  /\ saveStack' = Front(saveStack)

PopValue ==
  /\ PopItem("value")
  /\ LET p == Last(saveStack) IN
       eqtb' = IF eqtb[p.pos].level = 1 THEN eqtb ELSE Defined(eqtb, p.pos, p.val, p.level)
  /\ UNCHANGED <<cur_level, cur_env_name, cur_font, TL, popping, theBox>>

\* Variant for a mutant: the name of the enclosing environment is not restored.
PopEnv_keep_name ==
  /\ PopItem("env")
  /\ UNCHANGED <<eqtb, cur_level, cur_env_name, cur_font, TL, popping, theBox>>

PopEnv ==
  /\ PopItem("env")
  /\ cur_env_name' = Last(saveStack).oldname
  /\ UNCHANGED <<eqtb, cur_level, cur_font, TL, popping, theBox>>

PopFont ==
  /\ PopItem("font")
  /\ cur_font' = [packed |-> Last(saveStack).val, level |-> Last(saveStack).level]
  /\ UNCHANGED <<eqtb, cur_level, cur_env_name, TL, popping, theBox>>

PopBoxEnd ==
  /\ PopItem("box_end")
  /\ theBox' = Last(saveStack).box
  /\ UNCHANGED <<eqtb, cur_level, cur_env_name, cur_font, TL, popping>>

\* Variant for a mutant: the tokens are queued behind the input.
PopAftergroup_queued ==
  /\ PopItem("save")
  /\ TL' = TL \o <<<<"plain", Last(saveStack).val>>>>
  /\ UNCHANGED <<eqtb, cur_level, cur_env_name, cur_font, popping, theBox>>

PopAftergroup ==
  /\ PopItem("save")
  /\ TL' = <<<<"plain", Last(saveStack).val>>>> \o TL
  /\ UNCHANGED <<eqtb, cur_level, cur_env_name, cur_font, popping, theBox>>

\* Variant for a mutant: the_box_position is not reset.
PopBoundary_no_reset ==
  /\ popping
  /\ saveStack # <<>> /\ Last(saveStack).type = "boundary"
  /\ cur_level' = cur_level - 1
  /\ IF theBox = NoBox THEN saveStack' = Front(saveStack) /\ UNCHANGED eqtb
     ELSE /\ saveStack' = BoxedStack(Front(saveStack), eqtb, theBox.dest, cur_level - 1)
          /\ eqtb' = BoxedTable(eqtb, theBox.dest, theBox.val, cur_level - 1)
  /\ popping' = FALSE
  /\ UNCHANGED <<cur_env_name, cur_font, TL, theBox>>

\* The boundary ends the loop.  Its destructor lowers the level, then calls
\* box_end for the box that was finished in the group.
PopBoundary ==
  /\ popping
  /\ saveStack # <<>> /\ Last(saveStack).type = "boundary"
  /\ cur_level' = cur_level - 1
  /\ IF theBox = NoBox THEN saveStack' = Front(saveStack) /\ UNCHANGED eqtb
     ELSE /\ saveStack' = BoxedStack(Front(saveStack), eqtb, theBox.dest, cur_level - 1)
          /\ eqtb' = BoxedTable(eqtb, theBox.dest, theBox.val, cur_level - 1)
  /\ theBox' = NoBox
  /\ popping' = FALSE
  /\ UNCHANGED <<cur_env_name, cur_font, TL>>

Pop == PopValue \/ PopEnv \/ PopFont \/ PopBoxEnd \/ PopAftergroup \/ PopBoundary

Command ==
  \/ \E v \in GroupKinds : push_level(v) \/ T_close(v)
  \/ \E s \in Envs : T_begin(s) \/ T_end(s)
  \/ \E dest \in Dests, v \in Vals : begin_hbox(dest, v)
  \/ \E k \in WordKeys, c \in Vals, gbl \in BOOLEAN : word_define(k, c, gbl)
  \/ \E k \in CmdKeys, c \in Vals, gbl \in BOOLEAN : eq_define(k, c, gbl)
  \/ \E k \in BoxKeys, dest \in Dests, copy \in BOOLEAN : begin_box(k, dest, copy)
  \/ \E f \in Fonts : font_has_changed(f)
  \/ \E t \in Tokens : T_aftergroup(t)
  \/ sendgroup
  \/ ReadToken

Next == (~popping /\ Command) \/ Pop

Spec == Init /\ [][Next]_vars

-----------------------------------------------------------------------------
\* Reading the save stack.

\* The number of groups that are open around position i.
Group(i) == Cardinality({ b \in Boundaries(saveStack) : b <= i })

Items(k) == { i \in DOMAIN saveStack : saveStack[i].type = "value" /\ saveStack[i].pos = k }

\* The items of k that will be restored: a destructor does nothing when the
\* entry it would overwrite is global.
Live(k) ==
  IF eqtb[k].level = 1 THEN {}
  ELSE { i \in Items(k) : \A h \in Items(k) : h > i => saveStack[h].level # 1 }

\* The entry that hides the one saved at position i (i = 0: the outermost entry).
EntryAbove(k, i) ==
  LET above == { h \in Live(k) : h > i }
  IN IF above = {} THEN eqtb[k]
     ELSE [val |-> saveStack[Min(above)].val, level |-> saveStack[Min(above)].level]

FontItems == { i \in DOMAIN saveStack : saveStack[i].type = "font" }
FontAbove(i) ==
  LET above == { h \in FontItems : h > i }
  IN IF above = {} THEN cur_font.packed ELSE saveStack[Min(above)].val

EnvItems == { i \in DOMAIN saveStack : saveStack[i].type = "env" }

-----------------------------------------------------------------------------
\* Properties.

\* The type of the state.
TypeOK ==
  /\ eqtb \in [Keys -> [val : Values, level : Nat]]
  /\ cur_level \in Nat
  /\ saveStack \in Seq(Item)
  /\ cur_env_name \in EnvNames
  /\ cur_font \in [packed : FontSettings, level : Nat]
  /\ TL \in Seq(InputToken)
  /\ popping \in BOOLEAN
  /\ theBox \in Boxes \cup {NoBox}

\* cur_level, which decides what is saved and what \currentgrouplevel says,
\* counts the boundaries of the save stack, although it is raised by
\* push_level and lowered by a destructor.
LevelIsDepth == cur_level = 1 + Cardinality(Boundaries(saveStack))

\* The loop of pop_level always meets a boundary (its "Internal error: empty
\* save stack" is never printed), and a finished box waits for box_end only
\* while that loop runs.
LoopMeetsBoundary ==
  /\ popping => Boundaries(saveStack) # {}
  /\ theBox # NoBox => popping

\* The entries of a name form a chain: the one made in a group hides one made
\* outside this group, it is saved once, and the outermost one is global or
\* initial.  This is what makes the test of must_push right.
SavedOncePerGroup ==
  \A k \in Keys :
    /\ EntryAbove(k, 0).level \in {0, 1}
    /\ eqtb[k].level <= cur_level
    /\ \A i \in Live(k) :
         /\ EntryAbove(k, i).level = 1 + Group(i)
         /\ saveStack[i].level < 1 + Group(i)

\* cur_env_name is the name of the innermost environment that is on the save
\* stack, also after an environment was closed by the \end of another one.
EnvNameIsInnermost ==
  /\ cur_env_name = IF EnvItems = {} THEN NoEnv ELSE saveStack[Max(EnvItems)].name
  /\ \A i \in EnvItems :
       LET below == { h \in EnvItems : h < i }
       IN saveStack[i].oldname = IF below = {} THEN NoEnv ELSE saveStack[Max(below)].name

-----------------------------------------------------------------------------
(***************************************************************************)
(* Refinement.  A group is gone as soon as pop_level has decided to close  *)
(* it; the scopes that remain are read from the tables and the live items, *)
(* of the group being popped too.                                          *)
(***************************************************************************)

OpenGroups == Cardinality(Boundaries(saveStack)) - (IF popping THEN 1 ELSE 0)

\* The boundary of group g, and the positions of the items pushed in it.
BoundaryOf(g) == Max({ b \in Boundaries(saveStack) : Group(b) = g })
ItemsIn(g) == { i \in DOMAIN saveStack : Group(i) = g }

BindingsOf(g) ==
  LET bound == IF g = 0 THEN Keys ELSE { k \in Keys : Live(k) \cap ItemsIn(g) # {} }
  IN [k \in bound |-> EntryAbove(k, IF g = 0 THEN 0 ELSE Max(Live(k) \cap ItemsIn(g))).val]

FontOf(g) ==
  IF FontItems \cap ItemsIn(g) = {} THEN NoFont
  ELSE FontAbove(Max(FontItems \cap ItemsIn(g)))

\* The tokens of \aftergroup in the order in which they were given.
AfterOf(g) ==
  LET saved == { i \in ItemsIn(g) : saveStack[i].type = "save" }
      Nth(n) == Max({ i \in saved : Cardinality({ h \in saved : h <= i }) = n })
  IN [n \in 1..Cardinality(saved) |-> <<"plain", saveStack[Nth(n)].val>>]

BoxOf(g) ==
  LET ends == { i \in ItemsIn(g) : saveStack[i].type = "box_end" }
  IN IF ends = {} THEN NoBox ELSE saveStack[Max(ends)].box

NameOf(g) ==
  LET envs == ItemsIn(g) \cap EnvItems
  IN IF envs = {} THEN NoEnv ELSE saveStack[Max(envs)].name

ScopeOf(g) ==
  [kind |-> IF g = 0 THEN "outer" ELSE saveStack[BoundaryOf(g)].val,
   name |-> NameOf(g), bind |-> BindingsOf(g), font |-> FontOf(g),
   after |-> AfterOf(g), box |-> IF g = 0 THEN NoBox ELSE BoxOf(g)]

OpenScopes == [n \in 1..(OpenGroups + 1) |-> ScopeOf(n - 1)]
Input == IF popping THEN AfterOf(OpenGroups + 1) \o TL ELSE TL
PendingBox ==
  IF ~popping THEN NoBox
  ELSE IF theBox # NoBox THEN theBox ELSE BoxOf(OpenGroups + 1)

S == INSTANCE Scopes WITH
       MaxDepth <- MaxLevel, scopes <- OpenScopes, input <- Input, pendingBox <- PendingBox

\* Assignments, fonts, environments, boxes and \aftergroup obey the scopes:
\* when a group is closed every name has the value it would have if the
\* assignments of the group that were not global had not been made.
ImplementsScopes == S!Spec

=============================================================================
