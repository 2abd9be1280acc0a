------------------------------- MODULE Scopes -------------------------------
(***************************************************************************)
(* What grouping promises to the author of a document, without levels and  *)
(* without a save stack.  A run of the translator is a stack of scopes,    *)
(* the outermost one first.  A scope binds the names that were assigned in *)
(* it; a name that a scope does not bind has the value the enclosing scope *)
(* gives it.  Closing a scope forgets its bindings, gives its \aftergroup  *)
(* tokens back to the input and, when the scope was the body of a box,     *)
(* hands the box over to the enclosing scope.                              *)
(*                                                                         *)
(* SaveStack implements this module: the scopes are recovered there from   *)
(* the tables, the levels and the save stack.                              *)
(***************************************************************************)
EXTENDS Naturals, Sequences, FiniteSets, SequencesExt

CONSTANTS
  WordKeys,    \* registers whose assignment is skipped when nothing changes
  CmdKeys,     \* control sequences: every assignment counts
  BoxKeys,     \* box registers
  Vals,        \* values of words and commands, contents of boxes
  Null,        \* the empty box
  Undef,       \* the initial value of a word or a command
  Fonts,       \* font settings chosen by the document
  NoFont,      \* "this scope does not change the font"
  Font0,       \* the font in force at the start
  GroupKinds,  \* the kinds of group other than environments
  Envs,        \* environment names
  NoEnv,       \* "not inside an environment"
  Tokens,      \* tokens given to \aftergroup
  MaxDepth,    \* bound: scopes open at the same time, the outer one included
  MaxInput     \* bound: tokens waiting to be read

Keys == WordKeys \cup CmdKeys \cup BoxKeys
Kinds == GroupKinds \cup {"env"}
NoBox == <<>>

\* Where a finished box goes: a box register, locally or globally, or the tree.
Dests == { [to |-> "register", pos |-> k, global |-> g] : k \in BoxKeys, g \in BOOLEAN }
           \cup { [to |-> "tree"] }

InitialValue(k) == IF k \in BoxKeys THEN Null ELSE Undef

VARIABLES scopes, input, pendingBox

vars == <<scopes, input, pendingBox>>

OuterScope ==
  [kind |-> "outer", name |-> NoEnv, bind |-> [k \in Keys |-> InitialValue(k)],
   font |-> NoFont, after |-> <<>>, box |-> NoBox]

Scope(kind, name, box) ==
  [kind |-> kind, name |-> name, bind |-> <<>>, font |-> NoFont, after |-> <<>>, box |-> box]

Depth == Len(scopes)
Top == scopes[Depth]

\* The innermost scope that binds k, and the value of k seen from inside.
Home(k) == Max({ i \in DOMAIN scopes : k \in DOMAIN scopes[i].bind })
Lookup(k) == scopes[Home(k)].bind[k]

Init ==
  /\ scopes = <<OuterScope>>
  /\ input = <<>>
  /\ pendingBox = NoBox

-----------------------------------------------------------------------------

Bound(f, k, v) == [x \in (DOMAIN f) \cup {k} |-> IF x = k THEN v ELSE f[x]]

\* The scopes after a local assignment: the innermost scope binds k.
BoundLocally(s, k, v) == [s EXCEPT ![Len(s)].bind = Bound(@, k, v)]

\* The scopes after a global assignment: the outer scope binds k, no other does.
BoundGlobally(s, k, v) ==
  [i \in DOMAIN s |->
     [s[i] EXCEPT !.bind = IF i = 1 THEN Bound(@, k, v)
                           ELSE [x \in (DOMAIN @) \ {k} |-> @[x]]]]

Delivered(s, dest, v) ==
  CASE dest.to = "tree" -> s
    [] dest.to = "register" /\ dest.global -> BoundGlobally(s, dest.pos, v)
    [] OTHER -> BoundLocally(s, dest.pos, v)

Open(kind) ==
  /\ Depth < MaxDepth
  /\ scopes' = Append(scopes, Scope(kind, NoEnv, NoBox))
  /\ UNCHANGED <<input, pendingBox>>

OpenEnv(s) ==
  /\ Depth < MaxDepth
  /\ scopes' = Append(scopes, Scope("env", s, NoBox))
  /\ UNCHANGED <<input, pendingBox>>

OpenBox(dest, v) ==
  /\ Depth < MaxDepth
  /\ scopes' = Append(scopes, Scope("brace", NoEnv, [dest |-> dest, val |-> v]))
  /\ UNCHANGED <<input, pendingBox>>

\* A register that already has the value keeps the binding it has.
AssignLocal(k, v) ==
  /\ scopes' = IF k \in WordKeys /\ Lookup(k) = v THEN scopes ELSE BoundLocally(scopes, k, v)
  /\ UNCHANGED <<input, pendingBox>>

AssignGlobal(k, v) ==
  /\ scopes' = BoundGlobally(scopes, k, v)
  /\ UNCHANGED <<input, pendingBox>>

\* \box k: the register is emptied in the scope that filled it, then the
\* content goes to its destination.
UseBox(k, dest) ==
  /\ scopes' = Delivered([scopes EXCEPT ![Home(k)].bind[k] = Null], dest, Lookup(k))
  /\ UNCHANGED <<input, pendingBox>>

CopyBox(k, dest) ==
  /\ scopes' = Delivered(scopes, dest, Lookup(k))
  /\ UNCHANGED <<input, pendingBox>>

SetFont(f) ==
  /\ scopes' = [scopes EXCEPT ![Depth].font = f]
  /\ UNCHANGED <<input, pendingBox>>

AfterGroup(t) ==
  /\ scopes' = [scopes EXCEPT ![Depth].after = Append(@, <<"plain", t>>)]
  /\ UNCHANGED <<input, pendingBox>>

\* Only \end closes an environment, and the outer scope is never closed.
Closes(kind) == Depth > 1 /\ (Top.kind = "env" => kind = "env")

CloseTop(rest) ==
  /\ scopes' = Front(scopes)
  /\ input' = Top.after \o rest
  /\ pendingBox' = Top.box

Close(kind) == Closes(kind) /\ CloseTop(input)

\* The box that was just finished reaches its destination.
PlaceBox ==
  /\ pendingBox # NoBox
  /\ scopes' = Delivered(scopes, pendingBox.dest, pendingBox.val)
  /\ pendingBox' = NoBox
  /\ UNCHANGED input

\* \end{s}: the group will be closed when the input comes to the mark.
End(s) ==
  /\ \E i \in DOMAIN scopes : scopes[i].name = s
  /\ input' = <<<<"sendgroup", s>>>> \o input
  /\ UNCHANGED <<scopes, pendingBox>>

ReadEnd ==
  /\ input # <<>> /\ Head(input)[1] = "sendgroup"
  /\ IF Closes("env") THEN CloseTop(Tail(input))
     ELSE input' = Tail(input) /\ UNCHANGED <<scopes, pendingBox>>

Read ==
  /\ input # <<>> /\ Head(input)[1] = "plain"
  /\ input' = Tail(input)
  /\ UNCHANGED <<scopes, pendingBox>>

Command ==
  \/ \E kind \in GroupKinds : Open(kind) \/ Close(kind)
  \/ \E s \in Envs : OpenEnv(s) \/ End(s)
  \/ \E k \in WordKeys \cup CmdKeys, v \in Vals : AssignLocal(k, v) \/ AssignGlobal(k, v)
  \/ \E dest \in Dests, v \in Vals : OpenBox(dest, v)
  \/ \E k \in BoxKeys, dest \in Dests : UseBox(k, dest) \/ CopyBox(k, dest)
  \/ \E f \in Fonts : SetFont(f)
  \/ \E t \in Tokens : AfterGroup(t)
  \/ ReadEnd
  \/ Read

Next == (pendingBox = NoBox /\ Command) \/ PlaceBox

Spec == Init /\ [][Next]_vars

=============================================================================
