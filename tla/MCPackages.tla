----------------------------- MODULE MCPackages -----------------------------
(* Documents with classes and packages, what they mean, and the documents  *)
(* of MCInputStack.                                                        *)
EXTENDS Packages, MCInputStack

MCClasses == {"c", "d", "e"}

o1 == <<"o1">>
o2 == <<"o2">>
o3 == <<"o3">>
o4 == <<"o4">>   \* no one gives it
kv == <<"o2", "v">>

DocumentClass(options, c) == <<"documentclass", [names |-> <<c>>, options |-> options]>>
Usepackage(options, names) == <<"load", [names |-> names, options |-> options]>>
UseWithOptions(p) == <<"load_with_options", [names |-> <<p>>, options |-> <<>>]>>
InputClass(f) == <<"inputclass", f>>
Declare(o, code) == <<"DeclareOption", [name |-> o, val |-> code]>>
DeclareStar(code) == <<"DeclareOption*", code>>
AtEnd(code) == <<"AtEndOfPackage", code>>
PassTo(p, options) == <<"pass_options", [name |-> p, options |-> options]>>
PassCurrentTo(p) == <<"pass_current", p>>
Process == <<"ProcessOptions", "ProcessOptions">>
Execute(options) == <<"ExecuteOptions", options>>
NotUsed == <<"OptionNotUsed", "OptionNotUsed">>
Begin == <<<<"begin", "begin">>, document>>

-----------------------------------------------------------------------------
(* A class and a package with their options.                               *)

GivenLists == {<<>>, <<o1>>, <<o2>>, <<kv>>, <<o1, o2>>, <<o2, o1>>, <<o3, kv>>, <<o2, kv>>}
DeclaredLists == {<<>>, <<o1>>, <<o1, o2>>, <<o2, o1>>, <<kv, o1, o2>>, <<o4, o2, o1>>}
Handlers == {<<>>, <<DeclareStar(<<x(40)>>)>>, <<DeclareStar(<<PassCurrentTo("b"), x(41)>>)>>}

\* The code of an option shows its place.
Declarations(K, i) == [k \in DOMAIN K |-> Declare(K[k], <<x(i + k)>>)]

Stars == {<<>>, <<Star>>}

OptionDocument(G, U, K, handler, star) ==
  [f \in {"main", "a", "b", "c"} |->
     CASE f = "main" -> <<<<DocumentClass(G, "c"), x(10)>>, <<Usepackage(U, <<"a">>), x(11)>>, Begin, <<x(12)>>>>
       [] f = "a" -> <<Declarations(K, 20), handler, <<Process>> \o star \o <<x(24)>>, <<Usepackage(<<>>, <<"b">>)>>, <<x(25)>>>>
       [] f = "b" -> <<Declarations(<<o2, o1>>, 30), <<Process>>, <<x(33)>>>>
       [] f = "c" -> <<<<x(50)>>>>]

\* With a star, the option that is declared first is not found among the global ones.
FirstIsGlobal(G, K) == K # <<>> /\ K[1] \in ToSet(G)

OptionDocuments ==
  { OptionDocument(G, U, K, handler, star) :
      <<G, U, K, handler, star>> \in
        { t \in GivenLists \X GivenLists \X DeclaredLists \X Handlers \X Stars : t[5] = <<>> \/ ~FirstIsGlobal(t[1], t[3]) } }

-----------------------------------------------------------------------------
(* Classes and packages that read each other.                              *)

Mains ==
  { <<Usepackage(<<o1>>, <<"a">>), x(11), Usepackage(<<>>, <<"b">>), x(12)>>,
    <<Mac(<<Usepackage(<<>>, <<"a">>), Date, x(11), Usepackage(<<o1>>, <<"a">>)>>), x(12)>>,
    <<PassTo("b", <<o2>>), Usepackage(<<kv>>, <<"a">>), Usepackage(<<o1>>, <<"b", "nofile">>), x(11)>> }

\* The file of package i, which may ask for package q.
Files(i, q) ==
  { <<<<x(i)>>>>,
    <<<<Declare(o1, <<x(i)>>), AtEnd(<<x(i + 1), x(i + 2)>>), Process>>, <<x(i + 3)>>>>,
    <<<<AtEnd(<<x(i)>>), Declare(o4, <<>>), Declare(o2, <<PassTo(q, <<o1>>)>>), Process, Star>>, <<Usepackage(<<o2>>, <<q>>), x(i + 1)>>, <<x(i + 2)>>>>,
    <<<<UseWithOptions(q), Date, x(i)>>, <<x(i + 1), Endinput, AtEnd(<<x(i + 2)>>)>>, <<x(i + 3)>>>>,
    <<<<InputClass("f"), x(i)>>, <<Execute(<<o2, o1>>), Process, x(i + 1), Execute(<<o1>>)>>, <<x(i + 2)>>>> }

ClassFiles ==
  { <<<<DeclareStar(<<PassCurrentTo("d")>>), Declare(o2, <<x(50)>>), Process>>, <<Usepackage(<<>>, <<"d">>), x(51)>>, <<x(52)>>>>,
    <<<<UseWithOptions("d"), AtEnd(<<x(50)>>)>>, <<x(51)>>>>,
    <<<<InputClass("f"), DeclareStar(<<NotUsed>>), x(50)>>, <<Process, Star, Usepackage(<<o1>>, <<"a">>)>>, <<x(51)>>>> }

NestedDocuments ==
  { [f \in {"main", "a", "b", "c", "f", default} |->
      CASE f = "main" -> <<<<DocumentClass(G, c)>>, m, Begin, <<x(12)>>>>
        [] f = "a" -> a
        [] f = "b" -> b
        [] f = "c" -> class
        [] f = "f" -> <<<<Declare(o1, <<x(60)>>), Declare(o2, <<x(61)>>), AtEnd(<<x(62)>>)>>, <<x(63)>>>>
        [] OTHER -> <<<<Declare(o1, <<x(70)>>), x(71)>>, <<Process, x(72)>>>>] :
    G \in {<<>>, <<o1, kv>>, <<o3, o2>>}, c \in {"c", "e"}, default \in {"d", "std"}, class \in ClassFiles,
    m \in Mains, a \in Files(20, "b"), b \in Files(30, "a") }

PackageDocuments == OptionDocuments \cup NestedDocuments

\* The file of a package ends while a command looks at the next token.
LastCommands == {<<>>, <<Process>>, <<Usepackage(<<>>, <<"a">>)>>, <<Usepackage(<<o1>>, <<"f">>)>>, <<UseWithOptions("f")>>}

EndingDocuments ==
  { [f \in {"main", "a", "f"} |->
      CASE f = "main" -> <<<<DocumentClass(<<o2>>, "c"), Usepackage(<<o1>>, <<"a">>)>>, m, Begin, last>>
        [] f = "a" -> <<<<Declare(o1, <<x(20)>>)>>, last>>
        [] f = "f" -> <<<<Declare(o1, <<x(30)>>)>>, m>>] :
    last \in LastCommands \cup {<<Begin[1]>>}, m \in LastCommands \cup {<<x(10)>>, <<Star>>} }

-----------------------------------------------------------------------------
(* What they mean, one file after the other.  w has the text, the warnings *)
(* and what is known of each package; p is the one whose file is read.     *)

NothingKnown == [given |-> <<>>, declared |-> <<>>, handler |-> {}, hook |-> <<>>, processed |-> FALSE, over |-> FALSE, loaded |-> FALSE]

NothingRead(doc) ==
  [doc |-> doc, text |-> <<>>, warned |-> {}, of |-> [p \in {"none", "a", "b", "c", "d", "e", "nofile"} |-> NothingKnown],
   global |-> <<>>, current |-> <<>>, unused |-> NotReported]

Warn(w, cond, what) == IF cond THEN [w EXCEPT !.warned = @ \cup {what}] ELSE w
NamesOf(q) == { q.declared[i].name : i \in DOMAIN q.declared }
CodeOf(q, o) == q.declared[CHOOSE i \in DOMAIN q.declared : q.declared[i].name = o].val

\* The options that \ProcessOptions executes: those that are declared, in the order of the
\* declarations or, with a star, as they are given, but each once; and those that are not.
Executed(q, global, star) ==
  LET names == [i \in DOMAIN q.declared |-> q.declared[i].name]
      first == IF star THEN SelectSeq(global, LAMBDA o : o \in ToSet(names))
                       ELSE SelectSeq(names, LAMBDA o : o \in ToSet(q.given \o global))
  IN FoldLeft(LAMBDA s, o : IF o \in ToSet(names) \cap ToSet(s) THEN s ELSE Append(s, o), first, q.given)

RECURSIVE TokenIn(_, _, _)
RECURSIVE LineIn(_, _, _)
RECURSIVE LinesIn(_, _, _)
RECURSIVE ReadIn(_, _, _)

\* The options of the class that no class or package declares.
UndeclaredIn(w) == ToSet(w.global) \ UNION { NamesOf(w.of[p]) : p \in DOMAIN w.of }

\* \ProcessOptions.
ProcessIn(p, star, w) ==
  LET q == w.of[p]
      global == IF p \in MCClasses THEN <<>> ELSE w.global
      v == [w EXCEPT !.of[p].processed = TRUE, !.of[p].over = TRUE]
      One(u, o) ==
        IF o \in NamesOf(q) THEN LineIn(p, CodeOf(q, o), u)
        ELSE IF q.handler # {} THEN LineIn(p, CHOOSE h \in q.handler : TRUE, [u EXCEPT !.current = o])
        ELSE Warn(u, p \notin MCClasses, <<"unknown", p, o>>)
  IN FoldLeft(One, v, Executed(q, global, star))

\* A class or package is read once; the second time its options are to be among the first ones.
LoadOne(p, n, options, w) ==
  LET q == w.of[n]
  IN IF q.loaded THEN Warn(w, ~(ToSet(options) \subseteq ToSet(q.given)), <<"clash", n>>)
     ELSE ReadIn(p, n, [w EXCEPT !.of[n].loaded = TRUE, !.of[n].given = @ \o options])

\* Several names are as many commands.
LoadIn(p, names, options, w) == FoldLeft(LAMBDA v, n : LoadOne(p, n, options, v), w, names)

\* The file of n is read for p, and then its hook.
ReadIn(p, n, w) ==
  LET f == IF n \in DOMAIN w.doc THEN {n} ELSE IF n \in MCClasses THEN {"std"} \cap DOMAIN w.doc ELSE {}
      v == LinesIn(n, w.doc[CHOOSE g \in f : TRUE], w)
      q == v.of[n]
  IN IF f = {} THEN w ELSE LineIn(p, q.hook, Warn(v, ~q.processed /\ q.given # <<>>, <<"no process", n>>))

TokenIn(p, t, w) ==
  CASE t = document -> [w EXCEPT !.unused = UndeclaredIn(w)]
    [] t[1] = "char" /\ t # document -> [w EXCEPT !.text = Append(@, t)]
    [] t[1] = "mac" -> LineIn(p, t[2], w)
    [] t[1] = "documentclass" ->
         LoadIn(p, t[2].names, t[2].options, [w EXCEPT !.global = t[2].options])
    [] t[1] = "load" -> LoadIn(p, t[2].names, t[2].options, w)
    [] t[1] = "load_with_options" -> LoadIn(p, t[2].names, w.of[p].given, [w EXCEPT !.of[p].processed = TRUE])
    [] t[1] = "inputclass" -> LinesIn(p, w.doc[t[2]], w)
    [] t[1] = "DeclareOption" -> [w EXCEPT !.of[p].declared = Append(@, t[2])]
    [] t[1] = "DeclareOption*" -> [w EXCEPT !.of[p].handler = {t[2]}]
    [] t[1] = "AtEndOfPackage" -> [w EXCEPT !.of[p].hook = @ \o t[2]]
    [] t[1] = "pass_options" -> [w EXCEPT !.of[t[2].name].given = @ \o t[2].options]
    [] t[1] = "pass_current" -> [w EXCEPT !.of[t[2]].given = Append(@, w.current)]
    [] t[1] = "ExecuteOptions" ->
         IF w.of[p].over THEN w
         ELSE FoldLeft(LAMBDA u, o : LineIn(p, CodeOf(w.of[p], o), u), w, t[2])
    [] OTHER -> w

LineIn(p, s, w) ==
  IF s = <<>> THEN w
  ELSE IF Head(s) = Process
       THEN LET star == Len(s) > 1 /\ s[2] = Star
            IN LineIn(p, SubSeq(s, IF star THEN 3 ELSE 2, Len(s)), ProcessIn(p, star, w))
       ELSE LineIn(p, Tail(s), TokenIn(p, Head(s), w))

LinesIn(p, ls, w) ==
  IF ls = <<>> THEN w
  ELSE LET v == LineIn(p, Head(ls), w)
       IN IF Endinput \in ToSet(Head(ls)) THEN v ELSE LinesIn(p, Tail(ls), v)

Reading(doc) == LinesIn("none", doc["main"], NothingRead(doc))

-----------------------------------------------------------------------------
MCDocuments == AllDocuments \cup PackageDocuments \cup EndingDocuments

IsPackageDocument(doc) == "c" \in DOMAIN doc

\* The tokens of \everyeof hide the end of the file.
MCEveryEof(doc) == IF IsPackageDocument(doc) \/ "f" \in DOMAIN doc THEN <<>> ELSE OneToken(doc)

\* Classes and packages are read where they are asked for, each once, with its options and
\* its hook: the text is that of the files one after the other, and the warnings are about
\* options that clash, that no one processes, and that are not known (use_a_package,
\* T_process_options, insert_hook, pop_input_stack).  No
\* \usepackage names two packages with files, no file ends in \ProcessOptions or \usepackage,
\* and with \ProcessOptions* no global option is the one that is declared first: there the code
\* does something else.
PackagesAreReadAsMeant ==
  done /\ IsPackageDocument(files) => output = Reading(files).text /\ warned = Reading(files).warned

\* A package is given an option that it declares, and the first global one with its key is
\* another option: that one is marked as used (remove_from_unused).
KeysMeet(w) ==
  \E p \in DOMAIN w.of : \E o \in ToSet(w.of[p].given) \cap NamesOf(w.of[p]) :
    LET same == SelectSeq(w.global, LAMBDA g : Key(g) = Key(o)) IN same # <<>> /\ same[1] # o

\* "A warning is signaled by the \begin{document} command if no package declares the option":
\* \begin{document} reports the options of the class that no class or package declares, however
\* they were given, passed on, and executed before (check_global_options, check_local_options,
\* check_all_options, remove_from_unused, T_option_not_used, show_unused).
UnusedAreReported ==
  done /\ IsPackageDocument(files) /\ ~KeysMeet(Reading(files)) => unused = Reading(files).unused

=============================================================================
