----------------------------- MODULE Expansion -----------------------------
(* Macros: how they are defined, how a call finds its arguments, and what  *)
(* the C++ calls that read while they expand (\edef, \csname, \expandafter *)
(* and prefixes) see of the input they share.                              *)
EXTENDS Integers, SequencesExt

CONSTANT Documents  \* sequences of tokens

(* A character is a sequence of one string, a command is longer and begins *)
(* with an escape, and <<"#", "1">> is a parameter in a body.              *)
Char(c) == <<c>>
Command(name) == <<"\\", name>>
Csname(buf) == <<"\\">> \o FlattenSeq(buf)
Parameter(n) == <<"#", <<"1", "2", "3">>[n]>>
NotACommand(t) == t = <<>> \/ t[1] # "\\"

End == <<>>
OB == Char("{")
CB == Char("}")
Space == Char(" ")
Hash == Char("#")
Star == Char("*")
Par == Command("par")
EndCsname == Command("endcsname")
DontExpand == <<"\\", "not", "expanded">>

Digits == {Char("1"), Char("2"), Char("3")}
Val(t) == CASE t = Char("1") -> 1 [] t = Char("2") -> 2 [] t = Char("3") -> 3

(* Commands.  A primitive may read n arguments and put some of them back.  *)
Prim(c) == [cmd |-> c]
Pick(n, which) == [cmd |-> "pick", n |-> n, which |-> which]
Primitives ==
  (Par :> Prim("par")) @@ (EndCsname :> Prim("endcsname"))
  @@ (Command("relax") :> Prim("relax")) @@ (Command("@dblarg") :> Prim("dblarg"))
  @@ [t \in {Command("long"), Command("outer"), Command("protected"), Command("global")} |-> [cmd |-> "prefix", flag |-> t[2]]]
  @@ [t \in {Command("def"), Command("edef"), Command("gdef"), Command("newcommand")} |-> [cmd |-> "def", chr |-> t[2]]]
  @@ (Command("expandafter") :> Prim("expandafter")) @@ (Command("noexpand") :> Prim("noexpand"))
  @@ (Command("csname") :> Prim("csname")) @@ (Command("@nameuse") :> Prim("usename"))
  @@ (Command("@ifundefined") :> Prim("ifundefined"))
  @@ (Command("@ifstar") :> Prim("ifstar")) @@ (Command("@ifnextchar") :> Prim("ifnextchar"))
  @@ (Command("@firstofone") :> Pick(1, <<1>>)) @@ (Command("@gobble") :> Pick(1, <<>>))
  @@ (Command("@firstoftwo") :> Pick(2, <<1>>)) @@ (Command("@secondoftwo") :> Pick(2, <<2>>))
  @@ (Command("use_i_ii:nnn") :> Pick(3, <<1, 2>>))

Macro(type, delimiters, body) == [type |-> type, nbargs |-> Len(delimiters) - 1, delimiters |-> delimiters, body |-> body]
User(flags, macro) == [cmd |-> "user", flags |-> flags, macro |-> macro]

VARIABLES
  document,
  TL,              \* the tokens to be read
  calls,           \* the C++ calls that are active, but for the main loop
  eqtb,            \* the meanings given to commands
  groups,          \* the meanings that the open groups will restore
  scanner_status,
  long_state,
  errors           \* how many were signalled

vars == <<document, TL, calls, eqtb, groups, scanner_status, long_state, errors>>

Undef == Prim("undef")
Primitive(t) == IF t \in DOMAIN Primitives THEN Primitives[t] ELSE Undef
Value(t) == IF t \in DOMAIN eqtb THEN eqtb[t] ELSE Primitive(t)
HasFlag(value, flag) == value.cmd = "user" /\ flag \in value.flags
Flagged(t, flag) == ~NotACommand(t) /\ HasFlag(Value(t), flag)

Expandable == {"user", "undef", "expandafter", "noexpand", "csname", "usename", "ifundefined", "pick"}

(* The state of a reader: what the C++ functions below share and change;   *)
(* tok is cur_tok, quiet says that \noexpand was in front of it, res and   *)
(* args are what was read, and bad that the reader gives up.               *)
Reader == [TL |-> TL, status |-> scanner_status, long |-> long_state, errors |-> errors, calls |-> calls,
           tok |-> End, quiet |-> FALSE, res |-> <<>>, args |-> <<>>, bad |-> FALSE]
Error(r) == [r EXCEPT !.errors = @ + 1]
Bad(r) == [r EXCEPT !.bad = TRUE]
Back(r, tokens) == [r EXCEPT !.TL = tokens \o @]
back_input(r) == IF r.tok = End THEN r ELSE Back(r, <<r.tok>>)
Add(r) == [r EXCEPT !.res = Append(@, r.tok)]
After(read, Use(_)) == Use(read)

Quiet(cmd) == IF cmd \in Expandable THEN "relax" ELSE cmd
Cmd(r) == IF NotACommand(r.tok) THEN "char" ELSE IF r.quiet THEN Quiet(Value(r.tok).cmd) ELSE Value(r.tok).cmd
is_expandable(r) == r.tok # End /\ Cmd(r) \in Expandable

-----------------------------------------------------------------------------
(* Readers.                                                                *)

\* Variant for a mutant: the forbidden command is reported and kept.
check_outer_validity_keeps(r) == Error(r)

\* A command that is \outer, where it is not allowed, is replaced by what ends the reader.
check_outer_validity(r) ==
  LET inserted == CASE r.status \in {"defining", "absorbing"} -> <<CB>> [] r.status = "macro" -> <<Par>> [] OTHER -> <<>>
  IN [Error(Back(r, inserted)) EXCEPT !.tok = Space, !.long = IF r.status = "macro" THEN "bad" ELSE @]

Take(r, quiet) ==
  IF r.TL = <<>> THEN [r EXCEPT !.tok = End, !.quiet = FALSE] ELSE [r EXCEPT !.TL = Tail(@), !.tok = Head(r.TL), !.quiet = quiet]
Unmarked(g) == IF g.tok = DontExpand THEN Take(g, TRUE) ELSE g
Checked(g) == IF g.status # "normal" /\ ~g.quiet /\ Flagged(g.tok, "outer") THEN check_outer_validity(g) ELSE g
get_token(r) == Checked(Unmarked(Take(r, FALSE)))

RECURSIVE skip_initial_space(_)
skip_initial_space(r) == After(get_token(r), LAMBDA g : IF g.tok = Space THEN skip_initial_space(g) ELSE g)

\* \par in an argument of a command that is not \long; reported already if it was inserted.
NoPar(r) == r.tok = Par /\ r.long # "long"
runaway(r) == Bad(IF r.long = "bad" THEN [r EXCEPT !.long = "normal"] ELSE Error(r))

\* After an opening brace, b is the number of braces to close.
Brace(t) == IF t = OB THEN 1 ELSE IF t = CB THEN -1 ELSE 0
RECURSIVE scan_group0(_, _)
scan_group0(r, b) ==
  After(get_token(r), LAMBDA g :
    IF g.tok = End THEN Bad(Error(g))
    ELSE IF g.tok = CB /\ b = 1 THEN g
    ELSE IF NoPar(g) THEN runaway(g)
    ELSE scan_group0(Add(g), b + Brace(g.tok)))

\* An undelimited argument.
scan_group2(r) ==
  After(skip_initial_space(r), LAMBDA g :
    IF g.tok = End \/ g.tok = CB THEN Bad(Error(g))
    ELSE IF g.tok = OB THEN scan_group0(g, 1)
    ELSE IF NoPar(g) THEN runaway(g)
    ELSE Add(g))

\* One token or one group of a delimited argument.
scan_group1(r) ==
  IF r.tok = OB THEN LET g == scan_group0(Add(r), 1) IN [g EXCEPT !.res = Append(@, CB)]
  ELSE IF r.tok = CB THEN Bad(Error(r))
  ELSE IF NoPar(r) THEN runaway(r)
  ELSE Add(r)

\* The tokens of the list, if they come next, else nothing is read.
RECURSIVE Delimiter(_, _, _)
Delimiter(r, list, backup) ==
  After(get_token(r), LAMBDA g :
    IF list = <<>> THEN [found |-> TRUE, r |-> r]
    ELSE IF g.tok = End THEN [found |-> FALSE, r |-> Bad(Error(g))]
    ELSE IF g.tok # Head(list) THEN [found |-> FALSE, r |-> Back(g, Append(backup, g.tok))]
    ELSE Delimiter(g, Tail(list), Append(backup, g.tok)))

\* The braces of an argument that is one group.
Inner(list) == SubSeq(list, 2, Len(list) - 1)

\* What an argument consists of: nothing yet, one group, or more.
\* Variant for a mutant: braces go if the last piece is a group.
Grown_last(content, t) == IF t = OB THEN "group" ELSE "more"

Grown(content, t) == IF content = "nothing" /\ t = OB THEN "group" ELSE "more"

RECURSIVE Delimited(_, _, _)
Delimited(r, list, content) ==
  After(Delimiter(r, list, <<>>), LAMBDA d :
    IF d.r.bad THEN d.r
    ELSE IF d.found THEN [d.r EXCEPT !.res = IF content = "group" THEN Inner(@) ELSE @]
    ELSE After(get_token(d.r), LAMBDA g :
      IF g.tok = End THEN Bad(Error(g))
      ELSE After(scan_group1(g), LAMBDA h : IF h.bad THEN h ELSE Delimited(h, list, Grown(content, g.tok)))))

scan_group_del(r, list) == Delimited(r, list, "nothing")

\* Variant for a mutant: the token that is not a bracket is lost.
scan_group_opt_loses(r) ==
  After(skip_initial_space(r), LAMBDA g :
    IF g.tok = Char("[") THEN [have |-> TRUE, r |-> scan_group_del(g, <<Char("]")>>)] ELSE [have |-> FALSE, r |-> IF g.tok = End THEN Bad(g) ELSE g])

\* An argument in brackets, if there is one.
scan_group_opt(r) ==
  After(skip_initial_space(r), LAMBDA g :
    IF g.tok = End THEN [have |-> FALSE, r |-> Bad(g)]
    ELSE IF g.tok = Char("[") THEN [have |-> TRUE, r |-> scan_group_del(g, <<Char("]")>>)]
    ELSE [have |-> FALSE, r |-> back_input(g)])

\* Arguments of primitives, and of \newcommand.
Matching(r) == [r EXCEPT !.status = "matching", !.res = <<>>, !.bad = FALSE]
Normal(r, long) == [r EXCEPT !.status = "normal", !.long = long]
read_optarg(r) ==
  After(scan_group_opt(Matching(r)), LAMBDA o : [have |-> o.have, L |-> o.r.res, r |-> Normal(o.r, o.r.long)])
read_arg_as(r, long) ==
  After(scan_group2([Matching(r) EXCEPT !.long = long]), LAMBDA s : Normal([s EXCEPT !.args = Append(@, s.res)], r.long))
read_arg(r) == read_arg_as(r, "long")
read_args(r, n) == FoldLeft(LAMBDA s, i : read_arg(s), [r EXCEPT !.args = <<>>], [i \in 1..n |-> i])

OnlyToken(L) == IF Len(L.res) = 1 THEN get_token(Back(L, L.res)) ELSE Bad(Error(L))
read_token_arg(r) ==
  After(skip_initial_space([Matching(r) EXCEPT !.long = "long"]), LAMBDA g :
    Normal(IF g.tok = OB THEN OnlyToken(scan_group0(g, 1)) ELSE IF g.tok \in {End, CB} THEN Bad(Error(g)) ELSE g, r.long))

remove_initial_star(r) ==
  After(skip_initial_space(r), LAMBDA g : [star |-> g.tok = Star, r |-> IF g.tok = Star THEN g ELSE back_input(g)])

-----------------------------------------------------------------------------
(* Calls of macros.                                                        *)

RECURSIVE skip_prefix(_, _)
skip_prefix(r, list) ==
  IF list = <<>> THEN r
  ELSE After(get_token(r), LAMBDA g :
    IF g.tok # Head(list) THEN Bad(Error(IF g.tok = CB THEN back_input(g) ELSE g)) ELSE skip_prefix(g, Tail(list)))

Argument(r) == [r EXCEPT !.args = Append(@, r.res), !.res = <<>>]
OptionalTypes == {"optional", "spec_opt"}

\* The first argument may be optional; if the default is \@dblarg it is the second one.
First(r, M) ==
  IF M.type \notin OptionalTypes THEN Argument(scan_group2(r))
  ELSE After(scan_group_opt(r), LAMBDA o :
    IF o.have \/ o.r.bad THEN Argument(o.r)
    ELSE IF M.type = "spec_opt" THEN After(Argument(scan_group2(o.r)), LAMBDA t : [t EXCEPT !.args = @ \o @])
    ELSE [o.r EXCEPT !.args = <<M.delimiters[2]>>])

RECURSIVE Arguments(_, _)
Arguments(r, M) ==
  LET i == Len(r.args) + 1
  IN IF r.bad \/ i > M.nbargs THEN r
     ELSE Arguments(IF M.delimiters[i + 1] # <<>> /\ M.type \in {"delim", "brace"} THEN Argument(scan_group_del(r, M.delimiters[i + 1]))
                    ELSE IF i = 1 THEN First(r, M) ELSE Argument(scan_group2(r)), M)

expand_mac_inner(body, arguments) ==
  FlattenSeq([i \in DOMAIN body |->
    IF body[i][1] = "#" /\ Len(body[i]) = 2 THEN arguments[Val(Char(body[i][2]))] ELSE <<body[i]>>])

expand_mac(r, M) ==
  IF M.type = "empty" THEN r
  ELSE After(Arguments([skip_prefix(r, M.delimiters[1]) EXCEPT !.args = <<>>, !.res = <<>>], M), LAMBDA a :
    IF a.bad THEN a ELSE Back(a, expand_mac_inner(M.body, a.args) \o (IF M.type = "brace" THEN <<OB>> ELSE <<>>)))

E_user(r) ==
  After(Value(r.tok), LAMBDA value :
    [expand_mac([r EXCEPT !.status = "macro", !.long = IF "long" \in value.flags THEN "long" ELSE "normal"], value.macro)
      EXCEPT !.status = r.status, !.long = r.long])

-----------------------------------------------------------------------------
(* Expansion.  What reads and expands is a call with a state of its own.   *)

Push(r, call) == [r EXCEPT !.calls = Append(@, call)]
Pop(r) == [r EXCEPT !.calls = Front(@)]
Main == [kind |-> "main"]
Top == IF calls = <<>> THEN Main ELSE Last(calls)
Expandafter(t) == [kind |-> "expandafter", tok |-> t]
Ifundefined == [kind |-> "ifundefined"]
Name == [kind |-> "csname", buf |-> <<>>]
Prefixed(flags) == [kind |-> "prefixed", flags |-> flags]

list_to_string(r, list) == Push(Back(r, Append(list, EndCsname)), Name)

E_noexpand(r) ==
  After([get_token([r EXCEPT !.status = "normal"]) EXCEPT !.status = r.status], LAMBDA g :
    IF NotACommand(g.tok) THEN back_input(g) ELSE Back(g, <<DontExpand, g.tok>>))

RECURSIVE expand(_)

E_expandafter(r) ==
  After(get_token(r), LAMBDA g : After(get_token(g), LAMBDA h :
    IF is_expandable(h) THEN expand(Push(h, Expandafter(g.tok))) ELSE Back(back_input(h), <<g.tok>>)))

Picked(p, which) == Back(p, FlattenSeq([i \in DOMAIN which |-> p.args[which[i]]]))
NameOf(p) == list_to_string(p, p.args[1])

expand(r) ==
  After(Cmd(r), LAMBDA cmd :
    CASE cmd = "user" -> E_user(r)
      [] cmd = "undef" -> Error(r)
      [] cmd = "pick" -> After(Value(r.tok), LAMBDA value : Picked(read_args(r, value.n), value.which))
      [] cmd = "csname" -> Push(r, Name)
      [] cmd = "usename" -> NameOf(read_args(r, 1))
      [] cmd = "ifundefined" -> NameOf(Push(read_arg_as([r EXCEPT !.args = <<>>], "normal"), Ifundefined))
      [] cmd = "noexpand" -> E_noexpand(r)
      [] cmd = "expandafter" -> E_expandafter(r))

-----------------------------------------------------------------------------
(* Definitions.                                                            *)

\* What a reader defined at its end.
None == [r |-> Reader, token |-> End, value |-> Undef, global |-> FALSE]
Just(r) == [None EXCEPT !.r = r]

ok_to_define(t, always) == ~NotACommand(t) /\ (always \/ Value(t).cmd \in {"undef", "relax"})
mac_define(r, t, value, always) ==
  IF ok_to_define(t, always) THEN [r |-> r, token |-> t, value |-> value, global |-> "global" \in value.flags]
  ELSE Just(IF NotACommand(t) THEN r ELSE Error(r))

correct_type(M) ==
  [M EXCEPT !.type = IF @ = "normal" /\ M.body = <<>> /\ M.nbargs = 0 THEN "empty"
                     ELSE IF @ = "optional" /\ M.nbargs > 1 /\ M.delimiters[2] = <<Command("@dblarg")>> THEN "spec_opt"
                     ELSE @]

\* The token after # in a body with N arguments.
IsParameter(t, N) == t \in Digits /\ Val(t) <= N
after_parameter(r, N) ==
  IF r.tok = Hash \/ r.tok = End THEN r
  ELSE IF IsParameter(r.tok, N) THEN [r EXCEPT !.tok = Parameter(Val(@))]
  ELSE [Error(back_input(r)) EXCEPT !.tok = Hash]

RECURSIVE scan_group3(_, _, _)
scan_group3(r, b, N) ==
  After(get_token(r), LAMBDA g :
    IF g.tok = End THEN Error(g)
    ELSE IF g.tok = CB /\ b = 1 THEN g
    ELSE IF g.tok = Hash THEN scan_group3(Add(after_parameter(get_token(g), N)), b, N)
    ELSE scan_group3(Add(g), b + Brace(g.tok), N))

\* The parameters, with the lists between them; L is the one that is being read.
RECURSIVE Parameters(_, _, _, _)
Parameters(r, type, lists, L) ==
  LET ends(s, t, list) == [r |-> s, macro |-> Macro(t, Append(lists, list), <<>>)]
  IN After(get_token(r), LAMBDA g :
       IF g.tok \in {End, OB, CB} THEN ends(g, type, L)
       ELSE IF g.tok # Hash THEN Parameters(g, "delim", lists, Append(L, g.tok))
       ELSE After(get_token(g), LAMBDA h :
         IF h.tok = End THEN ends(h, type, L)
         ELSE IF h.tok = OB THEN ends(h, "brace", Append(L, OB))
         ELSE IF h.tok \in Digits /\ Val(h.tok) = Len(lists) + 1 THEN Parameters(h, type, Append(lists, L), <<>>)
         ELSE Parameters(Error(h), type, lists, L)))

Defining(r) == [r EXCEPT !.status = "defining", !.res = <<>>]
get_def_nbargs(r) == [Parameters(Defining(r), "normal", <<>>, <<>>) EXCEPT !.r.status = "normal"]

read_mac_body(r, N) ==
  After(skip_initial_space(Defining(r)), LAMBDA g :
    [IF g.tok = OB THEN scan_group3(g, 1, N) ELSE Error(g) EXCEPT !.status = "normal"])

\* from and errors are for the properties: the text, and the errors before it.
Edef(r, t, flags, macro) ==
  [kind |-> "edef", token |-> t, flags |-> flags, macro |-> macro, b |-> 1, hash |-> FALSE, from |-> r.TL, errors |-> r.errors]

UserMacro(flags, macro, body) == User(flags, correct_type([macro EXCEPT !.body = body]))
NameToDefine(n) == IF NotACommand(n.tok) THEN Error(n) ELSE n

\* \def and \gdef; \edef begins to read its body.
BodyOf(r, t, flags, macro) ==
  After(read_mac_body(r, macro.nbargs), LAMBDA s : mac_define(s, t, UserMacro(flags, macro, s.res), TRUE))
M_def(r, edef, flags) ==
  After(skip_initial_space(r), LAMBDA n : After(get_def_nbargs(NameToDefine(n)), LAMBDA p :
    After(back_input(p.r), LAMBDA q : After(skip_initial_space(Defining(q)), LAMBDA first :
      IF edef /\ first.tok = OB THEN Just(Push(first, Edef(first, n.tok, flags, p.macro)))
      ELSE BodyOf(q, n.tok, flags, p.macro)))))

OneCommand(L) == IF Len(L.res) # 1 THEN Bad(L) ELSE [L EXCEPT !.tok = L.res[1], !.bad = NotACommand(L.res[1])]
get_r_token(r) ==
  After(skip_initial_space(r), LAMBDA g :
    After(IF g.tok = OB THEN OneCommand(scan_group0([g EXCEPT !.res = <<>>], 1)) ELSE [g EXCEPT !.bad = NotACommand(g.tok)], LAMBDA name :
      IF name.bad THEN [Error(name) EXCEPT !.tok = End] ELSE name))

read_mac_nbargs(r) ==
  After(read_optarg(r), LAMBDA o :
    IF o.L = <<>> THEN [n |-> 0, r |-> o.r]
    ELSE IF Len(o.L) = 1 /\ o.L[1] \in Digits THEN [n |-> Val(o.L[1]), r |-> o.r]
    ELSE [n |-> 0, r |-> Error(o.r)])

LatexLists(n, default) == <<<<>>>> \o [i \in 1..n |-> IF i = 1 THEN default ELSE <<>>]
read_latex_macro(r) ==
  After(read_mac_nbargs(r), LAMBDA a : After(read_optarg(a.r), LAMBDA o : After(read_mac_body(o.r, a.n), LAMBDA body :
    [r |-> body,
     macro |-> correct_type(Macro(IF o.have THEN "optional" ELSE "normal", LatexLists(a.n, o.L), body.res))])))

M_newcommand(r) ==
  After(remove_initial_star(r), LAMBDA s : After(get_r_token(s.r), LAMBDA name : After(read_latex_macro(name), LAMBDA m :
    mac_define(m.r, name.tok, User(IF s.star THEN {} ELSE {"long"}, m.macro), FALSE))))

define_something(r, chr, flags) ==
  IF chr = "newcommand" THEN M_newcommand(r)
  ELSE M_def(r, chr = "edef", flags \cup (IF chr = "gdef" THEN {"global"} ELSE {}))

-----------------------------------------------------------------------------
(* One token for the innermost call.                                       *)

Init ==
  /\ document \in Documents
  /\ TL = document /\ calls = <<>> /\ eqtb = [t \in {} |-> Undef] /\ groups = <<>>
  /\ scanner_status = "normal" /\ long_state = "long" /\ errors = 0

Define(table, d) == IF d.token = End THEN table ELSE (d.token :> d.value) @@ table

Returns(d) ==
  /\ TL' = d.r.TL /\ calls' = d.r.calls /\ errors' = d.r.errors
  /\ scanner_status' = d.r.status /\ long_state' = d.r.long
  /\ eqtb' = Define(eqtb, d)
  /\ groups' = IF d.global THEN [i \in DOMAIN groups |-> Define(groups[i], d)] ELSE groups
  /\ UNCHANGED document

\* The rest of E_expandafter.
EndExpandafter == Top.kind = "expandafter" /\ Returns(Just(Back(Pop(Reader), <<Top.tok>>)))

OneOfTwo(r, first) == Back(r, r.args[IF first THEN 1 ELSE 2])
\* The rest of E_ifundefined.
EndIfundefined ==
  /\ Top.kind = "ifundefined"
  /\ \E g \in {get_token(Pop(Reader))} : Returns(Just(OneOfTwo(read_args(g, 2), Cmd(g) = "relax")))

Token == get_token(Reader)

\* Variant for a mutant: protected commands are expanded.
Expands_all(r) == is_expandable(r)

\* \edef does not expand what is protected, but it does so after #.
Expands(r) == is_expandable(r) /\ (Top.kind = "edef" /\ ~Top.hash => ~Flagged(r.tok, "protected"))
Expand == Top.kind \notin {"expandafter", "ifundefined"} /\ \E g \in {Token} : Expands(g) /\ Returns(Just(expand(g)))
Reads(kind, g) == Top.kind = kind /\ ~Expands(g)

SetTop(r, call) == Push(Pop(r), call)

\* \edef (edef_aux, scan_group3); \csname (list_to_string0, finish_csname).
EdefEnds(r) ==
  mac_define([Pop(r) EXCEPT !.status = "normal"], Top.token, User(Top.flags, correct_type(Top.macro)), TRUE)
EdefTakes(r, b) == Just(SetTop(r, [Top EXCEPT !.macro.body = Append(@, r.tok), !.b = b, !.hash = FALSE]))
EdefToken ==
  \E g \in {Token} :
    /\ Reads("edef", g)
    /\ Returns(IF g.tok = End THEN EdefEnds(Error(g))
               ELSE IF Top.hash THEN EdefTakes(after_parameter(g, Top.macro.nbargs), Top.b)
               ELSE IF g.tok = CB /\ Top.b = 1 THEN EdefEnds(g)
               ELSE IF g.tok = Hash THEN Just(SetTop(g, [Top EXCEPT !.hash = TRUE]))
               ELSE EdefTakes(g, Top.b + Brace(g.tok)))

finish_csname(r) ==
  LET t == Csname(Top.buf)
  IN [Just(Back(Pop(r), <<t>>)) EXCEPT !.token = IF Value(t) = Undef THEN t ELSE End, !.value = Prim("relax")]
CsnameToken ==
  \E g \in {Token} :
    /\ Reads("csname", g)
    /\ Returns(IF Cmd(g) = "endcsname" THEN finish_csname(g)
               ELSE IF g.tok # End /\ NotACommand(g.tok) THEN Just(SetTop(g, [Top EXCEPT !.buf = Append(@, g.tok[1])]))
               ELSE finish_csname(Error(back_input(g))))

\* \long and the others (M_prefixed).
PrefixToken ==
  \E g \in {Token} : \E cmd \in {Cmd(g)} :
    /\ Reads("prefixed", g)
    /\ Returns(IF cmd = "relax" \/ g.tok = Space THEN Just(g)
               ELSE IF cmd = "prefix" THEN Just(SetTop(g, Prefixed(Top.flags \cup {Value(g.tok).flag})))
               ELSE IF cmd = "def" THEN define_something(Pop(g), Value(g.tok).chr, Top.flags)
               ELSE Just(Error(back_input(Pop(g)))))

T_ifstar(r) == After(remove_initial_star(read_args(r, 2)), LAMBDA s : OneOfTwo(s.r, s.star))
T_ifnextchar(r) ==
  After(read_token_arg(r), LAMBDA d : After(skip_initial_space(read_args(d, 2)), LAMBDA t :
    OneOfTwo(back_input(t), t.tok = IF d.bad THEN Command("relax") ELSE d.tok)))

\* The main loop.
Execute ==
  \E g \in {Token} : \E cmd \in {Cmd(g)} :
    /\ Reads("main", g) /\ g.tok \notin {End, OB, CB}
    /\ Returns(CASE cmd = "prefix" -> Just(Push(g, Prefixed({Value(g.tok).flag})))
                 [] cmd = "def" -> define_something(g, Value(g.tok).chr, {})
                 [] cmd = "ifstar" -> Just(T_ifstar(g))
                 [] cmd = "ifnextchar" -> Just(T_ifnextchar(g))
                 [] cmd = "endcsname" -> Just(Error(g))
                 [] OTHER -> Just(g))

Group ==
  \E g \in {Token} :
    /\ Reads("main", g)
    /\ TL' = g.TL
    /\ \/ /\ g.tok = OB /\ groups' = Append(groups, eqtb)
          /\ UNCHANGED <<eqtb, errors>>
       \/ /\ g.tok = CB /\ groups # <<>>
          /\ groups' = Front(groups) /\ eqtb' = Last(groups)
          /\ UNCHANGED errors
       \/ /\ g.tok = CB /\ groups = <<>> /\ errors' = errors + 1
          /\ UNCHANGED <<groups, eqtb>>
    /\ UNCHANGED <<document, calls, scanner_status, long_state>>

Next == EndExpandafter \/ EndIfundefined \/ Expand \/ EdefToken \/ CsnameToken \/ PrefixToken \/ Execute \/ Group

Spec == Init /\ [][Next]_vars

-----------------------------------------------------------------------------
(* What a call means, by the text alone: an argument ends where its        *)
(* delimiter first stands outside of braces.                               *)

Net(text) == FoldLeft(LAMBDA n, t : n + Brace(t), 0, text)
Balanced(text) == Net(text) = 0 /\ \A n \in DOMAIN text : Net(SubSeq(text, 1, n)) >= 0
Least(S) == CHOOSE n \in S : \A m \in S : n <= m
Rest(text, n) == SubSeq(text, n + 1, Len(text))
OneGroup(text) == Len(text) >= 2 /\ text[1] = OB /\ \A n \in 1..Len(text)-1 : ~Balanced(SubSeq(text, 1, n))

Fails == [ok |-> FALSE, arg |-> <<>>, rest |-> <<>>]
Argued(text, n, skip, long) ==
  LET arg == SubSeq(text, 1, n)
  IN [ok |-> long \/ Par \notin ToSet(arg), arg |-> IF OneGroup(arg) THEN Inner(arg) ELSE arg, rest |-> Rest(text, n + skip)]

DelimitedArg(text, list, long) ==
  LET ends == { n \in 0..Len(text)-Len(list) : Balanced(SubSeq(text, 1, n)) /\ SubSeq(text, n + 1, n + Len(list)) = list }
  IN IF ends = {} THEN Fails ELSE Argued(text, Least(ends), Len(list), long)

Unspaced(text) == Rest(text, Least({ n \in 0..Len(text) : n = Len(text) \/ text[n + 1] # Space }))
UndelimitedArg(text, long) ==
  LET from == Unspaced(text)
      ends == { n \in 1..Len(from) : IF from[1] = OB THEN Balanced(SubSeq(from, 1, n)) ELSE from[1] # CB }
  IN IF ends = {} THEN Fails ELSE Argued(from, Least(ends), 0, long)

OptionalArg(text, default, long) ==
  LET from == Unspaced(text)
  IN IF from = <<>> THEN Fails
     ELSE IF from[1] = Char("[") THEN DelimitedArg(Tail(from), <<Char("]")>>, long)
     ELSE [ok |-> TRUE, arg |-> default, rest |-> from]

\* \m{x} means \m[{x}]{x} if the default is \@dblarg.
Doubled(text, long) ==
  LET u == UndelimitedArg(text, long)
  IN IF ~u.ok \/ Unspaced(text)[1] = Char("[") THEN text
     ELSE <<Char("["), OB>> \o u.arg \o <<CB, Char("]"), OB>> \o u.arg \o <<CB>> \o u.rest

\* The arguments from i on, and the text after them.
RECURSIVE Matched(_, _, _, _)
Matched(M, i, text, long) ==
  IF i > M.nbargs THEN [ok |-> TRUE, args |-> <<>>, rest |-> text]
  ELSE After(IF i = 1 /\ M.type \in OptionalTypes THEN OptionalArg(text, M.delimiters[2], long)
             ELSE IF M.type \in OptionalTypes \/ M.delimiters[i + 1] = <<>> THEN UndelimitedArg(text, long)
             ELSE DelimitedArg(text, M.delimiters[i + 1], long), LAMBDA a :
    IF a.ok THEN [Matched(M, i + 1, a.rest, long) EXCEPT !.args = <<a.arg>> \o @]
    ELSE [ok |-> FALSE, args |-> <<>>, rest |-> <<>>])

\* The text that a call becomes; no call sees what is behind a forbidden command.
Plain(text) == SelectSeq(text, LAMBDA t : t # DontExpand)
Called(value, text) ==
  LET M == value.macro
      long == HasFlag(value, "long")
      shown == Least({ n \in 0..Len(text) : n = Len(text) \/ Flagged(text[n + 1], "outer") })
      prefix == M.delimiters[1]
      result(seen) ==
        After(Matched(M, 1, IF M.type = "spec_opt" THEN Doubled(seen, long) ELSE Rest(seen, Len(prefix)), long), LAMBDA m :
          IF ~IsPrefix(prefix, seen) \/ ~m.ok THEN [ok |-> FALSE, text |-> <<>>]
          ELSE [ok |-> TRUE,
                text |-> expand_mac_inner(M.body, m.args) \o (IF M.type = "brace" THEN <<OB>> ELSE <<>>) \o m.rest \o Rest(text, shown)])
  IN IF M.nbargs = 0 /\ prefix = <<>> THEN [ok |-> TRUE, text |-> M.body \o text] ELSE result(Plain(SubSeq(text, 1, shown)))

\* A call takes the arguments that its parameters describe, or reports that it cannot,
\* unless the text ends before an optional argument (expand_mac, scan_group_del).
ArgumentsAreMatched ==
  [][\A g \in {Token} :
       Top.kind \notin {"expandafter", "ifundefined"} /\ Expands(g) /\ Cmd(g) = "user" =>
         \A value \in {Value(g.tok)} : \A c \in {Called(value, g.TL)} :
           IF c.ok THEN Plain(TL') = Plain(c.text) /\ errors' = errors
           ELSE errors' > errors \/ (value.macro.type \in OptionalTypes /\ Unspaced(g.TL) = <<>>)]_vars

\* One expansion of the first token of a text, and all of them up to a closing brace.
RECURSIVE Once(_), Named(_, _), FullText(_, _, _), Unexpandable(_)
CanExpand(t) == ~NotACommand(t) /\ Value(t).cmd \in Expandable
Undelimited(n) == Macro("normal", [i \in 1..n+1 |-> <<>>], <<>>)
Once(text) ==
  LET t == text[1]
      rest == Tail(text)
      args(n, from, result(_)) == After(Matched(Undelimited(n), 1, from, TRUE), result)
  IN After(Value(t), LAMBDA value :
       CASE value.cmd = "user" -> Called(value, rest).text
         [] value.cmd = "pick" -> args(value.n, rest, LAMBDA p : FlattenSeq([i \in DOMAIN value.which |-> p.args[value.which[i]]]) \o p.rest)
         [] value.cmd = "csname" -> Named(rest, <<>>)
         [] value.cmd = "usename" -> args(1, rest, LAMBDA p : Named(p.args[1] \o <<EndCsname>> \o p.rest, <<>>))
         [] value.cmd = "ifundefined" ->
              args(1, rest, LAMBDA p : After(Named(p.args[1] \o <<EndCsname>> \o p.rest, <<>>), LAMBDA u :
                args(2, Tail(u), LAMBDA q : q.args[IF Value(u[1]).cmd \in {"undef", "relax"} THEN 1 ELSE 2] \o q.rest)))
         [] value.cmd = "noexpand" -> IF NotACommand(rest[1]) THEN rest ELSE <<DontExpand>> \o rest
         [] value.cmd = "expandafter" -> <<rest[1]>> \o (IF CanExpand(rest[2]) THEN Once(Tail(rest)) ELSE Tail(rest)))
Unexpandable(text) == IF text[1] # DontExpand /\ CanExpand(text[1]) THEN Unexpandable(Once(text)) ELSE Plain(text)
Named(text, buf) ==
  After(Unexpandable(text), LAMBDA u :
    IF u[1] = EndCsname THEN <<Csname(buf)>> \o Tail(u) ELSE Named(Tail(u), Append(buf, u[1][1])))
FullText(text, b, N) ==
  LET t == text[1]
      more(list, n, left) == After(FullText(left, n, N), LAMBDA f : [f EXCEPT !.body = list \o @])
  IN IF t = DontExpand THEN more(<<text[2]>>, b, Rest(text, 2))
     ELSE IF CanExpand(t) /\ ~Flagged(t, "protected") THEN FullText(Once(text), b, N)
     ELSE IF t = CB /\ b = 1 THEN [body |-> <<>>, rest |-> Tail(text)]
     ELSE IF t = Hash THEN After(Unexpandable(Tail(text)), LAMBDA u : more(<<IF u[1] = Hash THEN Hash ELSE Parameter(Val(u[1]))>>, b, Tail(u)))
     ELSE more(<<t>>, b + Brace(t), Tail(text))

\* The body of \edef is the full expansion of its text, although the calls that expand
\* it share the input (edef_aux, E_expandafter, E_noexpand, list_to_string0).
EdefIsFullExpansion ==
  [][Top.kind = "edef" /\ Len(calls') < Len(calls) /\ errors' = Top.errors =>
       LET f == FullText(Top.from, 1, Top.macro.nbargs)
       IN NotACommand(Top.token) \/ (eqtb'[Top.token].macro.body = f.body /\ TL' = f.rest)]_vars

\* No definition contains a command that was forbidden in it (check_outer_validity); when
\* a command that reads arguments is expanded in it the scanner forgets where it is.
Forgets(t) == ~NotACommand(t) /\ Value(t).cmd \in {"pick", "usename", "ifundefined", "noexpand"}
OuterStaysOut ==
  (\A i \in DOMAIN document : ~Forgets(document[i])) =>
    \A t \in DOMAIN eqtb : eqtb[t].cmd = "user" =>
      \A i \in DOMAIN eqtb[t].macro.body : ~Flagged(eqtb[t].macro.body[i], "outer")

\* Without errors, what is read and what is put back have their braces: the open groups
\* and the open braces of definitions match those of the tokens that are still to come.
Held(call) ==
  CASE call.kind = "edef" -> call.b
    [] call.kind = "expandafter" -> Brace(call.tok)
    [] call.kind = "csname" -> FoldLeft(LAMBDA n, c : n + Brace(Char(c)), 0, call.buf)
    [] OTHER -> 0
BracesBalance ==
  errors = 0 /\ Net(document) = 0 =>
    Len(groups) + FoldLeft(LAMBDA n, call : n + Held(call), 0, calls) + Net(TL) = 0
=============================================================================
