-------------------------- MODULE MCDocumentFrames --------------------------
(* DocumentFrames for TLC: authors who make no mistake, some, or all, with *)
(* deeper nesting for those who make fewer.                                *)
EXTENDS DocumentFrames

CONSTANTS b, c

VARIABLE document   \* what the document uses, and the bounds for it

\* Groups closed by }, by \endgroup and by the call that opened them.
MCGroupKinds == {"brace", "semisimple", "local"}
MCCmdKeys == {c}
MCBoxKeys == {b}

Uses(made, names, kinds, level, stack, nested) ==
  [made |-> made, names |-> names, kinds |-> kinds, level |-> level, stack |-> stack, nested |-> nested]

Documents ==
  { Uses({}, {}, MCGroupKinds, 4, 7, 3),
    Uses(MistakeKinds \ {"list"}, {c}, {"brace", "local"}, 4, 4, 2),
    Uses(MistakeKinds \ {"list"}, {}, {"brace", "local"}, 4, 5, 2),
    Uses({"stop"}, {b}, {"brace"}, 4, 5, 0),
    Uses({"document"}, {b}, {"brace"}, 4, 5, 0),
    Uses(MistakeKinds, {b}, {"brace", "local"}, 3, 4, 1),
    Uses(MistakeKinds, {}, {"brace", "local"}, 3, 4, 2) }

MCAuthors == { d.made : d \in Documents }

Within ==
  LET d == document
  IN /\ \A k \in Keys \ d.names : eqtb'[k] = eqtb[k]
     /\ cur_level' <= d.level /\ Len(saveStack') <= d.stack /\ Len(calls') <= d.nested
     /\ \A i \in DOMAIN saveStack' :
          LET p == saveStack'[i]
          IN CASE p.type = "boundary" -> p.val \in d.kinds \cup {"env", "tpa"}
               [] p.type = "box_end" -> b \in d.names
               [] OTHER -> TRUE

MCInit == FInit /\ document \in Documents /\ mistakes = document.made
MCNext == FNext /\ Within /\ UNCHANGED document
MCSpec == MCInit /\ [][MCNext]_<<allVars, document>>
=============================================================================
