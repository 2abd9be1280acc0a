---------------------------- MODULE MCSaveStack -----------------------------
(* SaveStack for TLC.  A document uses some of the names, fonts,           *)
(* environments and tokens; all documents are checked in one run, each     *)
(* with its own bound on the save stack.                                   *)
EXTENDS SaveStack

CONSTANTS w, c, b, v1, v2, e1, e2, t1, t2, f1, f2

VARIABLES
  document,                   \* what the document uses, and the bounds for it
  scopes, input, pendingBox   \* the state of Scopes, evaluated once for each state

MCWordKeys == {w}
MCCmdKeys == {c}
MCBoxKeys == {b}
MCVals == {v1, v2}
MCFonts == {f1, f2}
MCEnvs == {e1, e2}
MCTokens == {t1, t2}
MCGroupKinds == {"brace", "semisimple"}

Uses(names, kinds, level, stack) == [names |-> names, kinds |-> kinds, level |-> level, stack |-> stack]

\* Names in nested groups, boxes with fonts, and the ends of groups of several
\* kinds with environments and \aftergroup.
Documents ==
  { Uses({w, v1, v2}, {"brace"}, 4, 6), Uses({c, v1, v2}, {"brace"}, 3, 6),
    Uses({w, c, v1}, {"brace"}, 3, 5), Uses({b, v1, w}, {"brace"}, 3, 5),
    Uses({b, v1, f1, f2}, {"brace"}, 3, 6),
    Uses({e1, e2, t1, t2}, {"brace", "semisimple"}, 3, 6) }

\* The command only changes what the document uses.
Within ==
  LET d == document
  IN /\ \A k \in Keys \ d.names : eqtb'[k] = eqtb[k]
     /\ \A k \in Keys : eqtb'[k].val \in d.names \cup {Null, Undef}
     /\ cur_level' <= d.level /\ Len(saveStack') <= d.stack
     /\ cur_font'.packed \in d.names \cup {Font0}
     /\ \A i \in DOMAIN saveStack' :
          LET p == saveStack'[i]
          IN CASE p.type = "boundary" -> p.val \in d.kinds \/ d.names \cap Envs # {}
               [] p.type = "save" -> p.val \in d.names
               [] p.type = "env" -> d.names \cap Envs # {}
               [] p.type = "box_end" ->
                    /\ p.box.val \in d.names
                    /\ IF p.box.dest.to = "register" THEN p.box.dest.pos \in d.names ELSE b \in d.names
               [] OTHER -> TRUE

A == INSTANCE Scopes WITH MaxDepth <- MaxLevel

MCInit ==
  /\ Init /\ document \in Documents
  /\ scopes = OpenScopes /\ input = Input /\ pendingBox = PendingBox

MCNext ==
  /\ Next /\ Within /\ UNCHANGED document
  /\ scopes' = OpenScopes' /\ input' = Input' /\ pendingBox' = PendingBox'

MCSpec == MCInit /\ [][MCNext]_<<vars, document, scopes, input, pendingBox>>

\* ImplementsScopes: assignments, fonts, environments, boxes and \aftergroup obey
\* the scopes.
ScopesAreImplemented == A!Spec
=============================================================================
