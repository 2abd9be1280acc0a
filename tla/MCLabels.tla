------------------------------ MODULE MCLabels ------------------------------
(* Documents for Labels.                                                   *)
EXTENDS Labels

Uses(commands, names, elements, nested, references) ==
  [commands |-> commands, names |-> names, elements |-> elements, nested |-> nested, refs |-> references]

MCDocuments == {
  \* Sections, and labels in them and in groups.
  Uses({"title", "group", "text", "label", "ref"}, {"a", "b"}, 6, 2, 1),
  \* Everything that has a number.
  Uses({"title", "star", "footnote", "list", "group", "label", "ref"}, {"a"}, 6, 3, 1),
  Uses({"title", "star"}, {}, 11, 1, 0),
  Uses({"list", "footnote", "par"}, {}, 9, 3, 0),
  \* Boxes, which are made at one place and used at another.
  Uses({"hbox", "footnote", "anchor", "index", "label", "ref"}, {"a"}, 6, 2, 2),
  Uses({"hbox", "list", "text", "par", "label", "ref", "boxLost"}, {"a"}, 5, 2, 1),
  \* The commands of users.
  Uses({"title", "refstepcounter", "anchor", "sectionInGroup", "group", "outOfScope", "label", "ref"}, {"a"}, 5, 1, 2),
  Uses({"refstepcounter*", "anchor*", "footnote", "par"}, {}, 5, 1, 2) }
=============================================================================
