----------------------------- MODULE MCXmlStack -----------------------------
(* Documents for XmlStack.                                                 *)
EXTENDS XmlStack

FontNames == {"bf", "it"}

\* Text with fonts: every command, but fonts do not change and paragraphs do not
\* end in an argument that is part of a line, and no paragraph begins in a box.
Polite == {"group", "font", "par", "noindent", "fonts", "mbox", "hbox", "footnote", "section", "list", "label"}

\* The commands that change fonts in paragraphs and groups.
Fonts == {"group", "font", "par"}

\* \fontshape and \selectfont too.
LowLevel == {"ltfont"}

Uses(commands, attributes, opened, pack) ==
  [commands |-> commands, attributes |-> attributes, open |-> opened, pack_font_elt |-> pack]

MCDocuments ==
  { Uses(Polite, FontNames, 2, FALSE), Uses(Polite \ {"font"}, {}, 4, TRUE),
    Uses(Fonts \cup LowLevel, FontNames, 3, TRUE), Uses(Fonts \cup LowLevel, {"it"}, 3, FALSE) }
=============================================================================
