------------------------------ MODULE Packages ------------------------------
(***************************************************************************)
(* Classes and packages (txclasses.cpp), over the input stack: the files   *)
(* that are read, the options that their code declares and processes, and  *)
(* the hook that is inserted when the file of a package ends.              *)
(*                                                                         *)
(* A command that may be followed by a star or by an optional argument     *)
(* looks at the next token, which may be in another file: between its two  *)
(* steps the current file may end, and with it the current package.        *)
(***************************************************************************)
EXTENDS InputStack, FiniteSetsExt

CONSTANTS
  Classes,       \* the names that are classes; the others are packages
  DefaultClass   \* the class that is read for one without a file

VARIABLES
  packages,        \* what is known of each class or package
  global_options,  \* the options of \documentclass, and whether they were used
  call,            \* the command that waits for the next token
  CurrentOption,   \* the value of \CurrentOption
  unused,          \* the options reported by \begin{document}, once it was seen
  warned           \* the other warnings

pvars == <<packages, global_options, call, CurrentOption, unused, warned>>
allvars == <<vars, pvars>>

\* The character *, and the argument {document} of \begin.
Star == Char(0)
document == Char(1)
Date == <<"date", "date">>
NoCall == [cmd |-> "none"]
NotReported == {<<"not", "reported">>}

(* An option is <<key>> or <<key, value>>.                                 *)
Key(o) == <<o[1]>>

LatexPackage ==
  [Uoptions |-> <<>>, Poptions |-> <<>>, has_a_default |-> FALSE, default_handler |-> <<>>, hook |-> <<>>,
   seen_process |-> FALSE, checked |-> FALSE]

is_class(p) == p \in Classes
cur_pack == cur_file_pos.pack

PackagesInit ==
  /\ Init
  /\ packages = ("none" :> LatexPackage) /\ global_options = <<>>
  /\ call = NoCall /\ CurrentOption = <<>> /\ unused = NotReported /\ warned = {}

Find(known, p) == IF p \in DOMAIN known THEN known ELSE known @@ (p :> LatexPackage)

\* A command is read when none waits.
Command(kind) == call = NoCall /\ Reads(kind)

-----------------------------------------------------------------------------
(* Files.  u has the packages, the input and the warnings.                 *)

Pending == [packages |-> packages, stack |-> stack, lines |-> lines, pos |-> cur_file_pos, warned |-> warned,
          require_eof |-> require_eof, every_eof |-> every_eof, TL |-> TL, line |-> input_line]

Becomes(u) ==
  /\ packages' = u.packages /\ stack' = u.stack /\ lines' = u.lines /\ cur_file_pos' = u.pos /\ warned' = u.warned
  /\ require_eof' = u.require_eof /\ every_eof' = u.every_eof /\ TL' = u.TL /\ input_line' = u.line

open_tex_file(u, new, pos) ==
  [u EXCEPT !.stack = Append(@, [TL |-> u.TL, line |-> u.line, lines |-> u.lines, file_pos |-> u.pos,
                                 require_eof |-> u.require_eof, every_eof |-> u.every_eof]),
            !.TL = <<>>, !.line = <<>>, !.lines = new, !.pos = pos, !.require_eof = TRUE, !.every_eof = TRUE]

\* The file of a class or package, or no file.
FileOf(p) ==
  IF p \in DOMAIN files THEN {p}
  ELSE IF is_class(p) /\ DefaultClass \in DOMAIN files THEN {DefaultClass} ELSE {}

is_in_option(A, o) == \E i \in DOMAIN A : A[i] = o /\ \A j \in 1..(i - 1) : Key(A[j]) # Key(o)
compare_options(A, B) == \A i \in DOMAIN B : is_in_option(A, B[i])

\* Variant for a mutant: options that were passed before are lost.
use_a_package_fresh(u, p, options) ==
  LET known == Find(u.packages, p)
      w == [u EXCEPT !.packages = [known EXCEPT ![p].checked = TRUE, ![p].Uoptions = options]]
  IN IF known[p].checked
     THEN IF compare_options(known[p].Uoptions, options) THEN u ELSE [u EXCEPT !.warned = @ \cup {<<"clash", p>>}]
     ELSE IF FileOf(p) = {} THEN w
     ELSE open_tex_file(w, files[CHOOSE f \in FileOf(p) : TRUE], [pack |-> p, hook |-> TRUE])

\* A class or package is read once; the second time its options are compared (reload).
use_a_package(u, p, options) ==
  LET known == Find(u.packages, p)
      w == [u EXCEPT !.packages = [known EXCEPT ![p].checked = TRUE, ![p].Uoptions = @ \o options]]
  IN IF known[p].checked
     THEN IF compare_options(known[p].Uoptions, options) THEN u ELSE [u EXCEPT !.warned = @ \cup {<<"clash", p>>}]
     ELSE IF FileOf(p) = {} THEN w
     ELSE open_tex_file(w, files[CHOOSE f \in FileOf(p) : TRUE], [pack |-> p, hook |-> TRUE])

\* \documentclass, \LoadClass, \usepackage, and \LoadClassWithOptions and
\* \RequirePackageWithOptions, up to the optional date.
Loads == {"documentclass", "load", "load_with_options"}
BeginLoad ==
  /\ \E kind \in Loads : Command(kind) /\ call' = [cmd |-> kind] @@ cur_tok[2]
  /\ packages' = IF Reads("load_with_options") THEN [packages EXCEPT ![cur_pack].seen_process = TRUE] ELSE packages
  /\ back_input(<<>>)
  /\ UNCHANGED <<files, stack, states, restricted, flags, definition, output, done, global_options, CurrentOption, unused, warned>>

\* The next token, when a command waits for it; it is put back unless it is the one that
\* the command may take.  While a date is looked for no file may end.
Waits(kinds) == call.cmd \in kinds /\ ~done /\ ~Exhausted
ReadingArgument == call.cmd \in Loads \cup {"begin"}
PutBack(optional) == IF cur_tok = optional THEN <<>> ELSE <<cur_tok>>
Runaway == IF cur_tok = eof_token THEN {<<"runaway", call.cmd>>} ELSE {}

EndLoad ==
  /\ Waits(Loads)
  /\ LET options == IF call.cmd = "load_with_options" THEN packages[cur_pack].Uoptions ELSE call.options
         u == [Pending EXCEPT !.TL = PutBack(Date) \o RestOfTL, !.line = RestOfLine, !.warned = @ \cup Runaway]
     IN /\ \E w \in {FoldLeft(LAMBDA v, p : use_a_package(v, p, options), u, call.names)} : Becomes(w)
        /\ global_options' = IF call.cmd = "documentclass" THEN [i \in DOMAIN options |-> [option |-> options[i], used |-> FALSE]]
                             ELSE global_options
  /\ call' = NoCall
  /\ UNCHANGED <<files, states, restricted, force_eof, definition, output, done, CurrentOption, unused>>

\* \InputClass: the file belongs to the current class, and has no hook.
T_inputclass ==
  /\ Command("inputclass")
  /\ LET u == [Pending EXCEPT !.TL = RestOfTL, !.line = RestOfLine]
     IN Becomes(open_tex_file(u, files[cur_tok[2]], [cur_file_pos EXCEPT !.hook = FALSE]))
  /\ UNCHANGED <<files, states, restricted, force_eof, definition, output, done, global_options, call, CurrentOption, unused>>

\* The current file ends, maybe while a command waits.
EndOfFile ==
  LET C == packages[cur_pack]
  IN /\ pop_input_stack(ReadingArgument, IF cur_file_pos.hook THEN C.hook ELSE <<>>)
     /\ warned' = IF cur_file_pos.hook /\ ~C.seen_process /\ C.Uoptions # <<>>
                  THEN warned \cup {<<"no process", cur_pack>>} ELSE warned
     /\ UNCHANGED <<packages, global_options, call, CurrentOption, unused>>

-----------------------------------------------------------------------------
(* Declarations.                                                           *)

Declares == UNCHANGED <<files, stack, states, restricted, flags, definition, output, done, call, CurrentOption, unused, warned>>

T_declare_options ==
  /\ Command("DeclareOption")
  /\ packages' = [packages EXCEPT ![cur_pack].Poptions = Append(@, [name |-> cur_tok[2].name, val |-> cur_tok[2].val, used |-> FALSE])]
  /\ back_input(<<>>)
  /\ UNCHANGED global_options /\ Declares

T_declare_option_star ==
  /\ Command("DeclareOption*")
  /\ packages' = [packages EXCEPT ![cur_pack].has_a_default = TRUE, ![cur_pack].default_handler = cur_tok[2]]
  /\ back_input(<<>>)
  /\ UNCHANGED global_options /\ Declares

T_at_end_of_class ==
  /\ Command("AtEndOfPackage")
  /\ packages' = [packages EXCEPT ![cur_pack].hook = @ \o cur_tok[2]]
  /\ back_input(<<>>)
  /\ UNCHANGED global_options /\ Declares

Pass(p, options) ==
  LET known == Find(packages, p) IN packages' = [known EXCEPT ![p].Uoptions = @ \o options]

\* \PassOptionsToPackage, \PassOptionsToClass; the option may be \CurrentOption.
T_pass_options ==
  /\ \/ Command("pass_options") /\ Pass(cur_tok[2].name, cur_tok[2].options)
     \/ Command("pass_current") /\ Pass(cur_tok[2], <<CurrentOption>>)
  /\ back_input(<<>>)
  /\ UNCHANGED global_options /\ Declares

-----------------------------------------------------------------------------
(* Options.  GO are the global ones, DO those that are declared, CO those  *)
(* that were given.  The code searches vectors for the first match.        *)

FirstOf(places) == IF places = {} THEN 0 ELSE Min(places)
find_option(DO, name) == FirstOf({ i \in DOMAIN DO : DO[i].name = name })
is_in_vector(GO, option) == FirstOf({ i \in DOMAIN GO : GO[i].option = option })
KeyInVector(GO, key) == FirstOf({ i \in DOMAIN GO : Key(GO[i].option) = key })

\* \ProcessOptions* in a package: the global options in their order, but not the option
\* that was declared first.
check_global_options(DO, GO) ==
  LET Found(k) == LET j == find_option(DO, GO[k].option)
                  IN IF j > 1 /\ ~DO[j].used /\ is_in_vector(GO, GO[k].option) = k THEN <<j>> ELSE <<>>
  IN FlattenSeq([k \in DOMAIN GO |-> Found(k)])

\* \ProcessOptions: in the order of their declaration, the options that were given and,
\* in a package, the global ones.
check_local_options(DO, GO, CO, class) ==
  SelectSeq([i \in DOMAIN DO |-> i],
            LAMBDA i : /\ ~DO[i].used
                       /\ DO[i].name \in ToSet(CO) \/ (~class /\ is_in_vector(GO, DO[i].name) # 0))

\* The code for an option that is not declared.
unknown_option(p, option) ==
  IF packages[p].has_a_default THEN <<<<"CurrentOption", option>>>> \o packages[p].default_handler ELSE <<>>

\* The code of the options that were given and are not executed before, in their order.
check_all_options(p, DO, CO, before) ==
  LET Code(k) ==
        LET j == find_option(DO, CO[k])
        IN IF j = 0 THEN unknown_option(p, CO[k])
           ELSE IF DO[j].used \/ j \in ToSet(before) \/ (\E i \in 1..(k - 1) : CO[i] = CO[k]) THEN <<>>
           ELSE DO[j].val
  IN FlattenSeq([k \in DOMAIN CO |-> Code(k)])

Unknown(p, DO, CO) ==
  IF packages[p].has_a_default \/ is_class(p) THEN {}
  ELSE { <<"unknown", p, o>> : o \in { q \in ToSet(CO) : find_option(DO, q) = 0 } }

\* Variant for a mutant: remove_from_unused is not called for the options that were given.
Used_no_given(DO, GO, CO, before, star) ==
  { is_in_vector(GO, DO[j].name) : j \in { i \in ToSet(before) : star \/ DO[i].name \notin ToSet(CO) } }

\* The places of the global options that are used: those that are executed; and for an
\* option that was given, the first one with the same key (remove_from_unused).
Used(DO, GO, CO, before, star) ==
  { is_in_vector(GO, DO[j].name) : j \in { i \in ToSet(before) : star \/ DO[i].name \notin ToSet(CO) } }
  \cup { KeyInVector(GO, Key(o)) : o \in { q \in ToSet(CO) : find_option(DO, q) # 0 } }

\* \ProcessOptions looks for a star; then the current package may be another one.
BeginProcess ==
  /\ Command("ProcessOptions")
  /\ call' = [cmd |-> "ProcessOptions"]
  /\ back_input(<<>>)
  /\ UNCHANGED <<files, stack, states, restricted, flags, definition, output, done,
                 packages, global_options, CurrentOption, unused, warned>>

T_process_options ==
  /\ Waits({"ProcessOptions"})
  /\ LET p == cur_pack
         star == cur_tok = Star
         CO == packages[p].Uoptions
         DO == packages[p].Poptions
         before == IF ~star THEN check_local_options(DO, global_options, CO, is_class(p))
                   ELSE IF is_class(p) THEN <<>> ELSE check_global_options(DO, global_options)
         action == FlattenSeq([k \in DOMAIN before |-> DO[before[k]].val]) \o check_all_options(p, DO, CO, before)
         used == Used(DO, global_options, CO, before, star)
     IN /\ packages' = [packages EXCEPT ![p].seen_process = TRUE,
                                        ![p].Poptions = [i \in DOMAIN DO |-> [DO[i] EXCEPT !.val = <<>>, !.used = TRUE]]]
        /\ global_options' = [i \in DOMAIN global_options |-> [global_options[i] EXCEPT !.used = @ \/ i \in used]]
        /\ warned' = warned \cup Unknown(p, DO, CO)
        /\ back_input(action \o PutBack(Star))
  /\ call' = NoCall
  /\ UNCHANGED <<files, stack, states, restricted, flags, definition, output, done, CurrentOption, unused>>

T_execute_options ==
  /\ Command("ExecuteOptions")
  /\ LET DO == packages[cur_pack].Poptions
         Code(o) == LET j == find_option(DO, o) IN IF j = 0 THEN <<>> ELSE DO[j].val
     IN back_input(FlattenSeq([i \in DOMAIN cur_tok[2] |-> Code(cur_tok[2][i])]))
  /\ UNCHANGED <<packages, global_options>> /\ Declares

\* \def\CurrentOption, which comes before the code for an unknown option.
DefCurrentOption ==
  /\ Command("CurrentOption")
  /\ CurrentOption' = cur_tok[2]
  /\ back_input(<<>>)
  /\ UNCHANGED <<files, stack, states, restricted, flags, definition, output, done, packages, global_options, call, unused, warned>>

T_option_not_used ==
  /\ Command("OptionNotUsed")
  /\ LET j == KeyInVector(global_options, CurrentOption)
     IN global_options' = IF ~is_class(cur_pack) \/ j = 0 THEN global_options ELSE [global_options EXCEPT ![j].used = FALSE]
  /\ back_input(<<>>)
  /\ UNCHANGED packages /\ Declares

-----------------------------------------------------------------------------
(* \begin reads its argument; T_begindocument reports the unused options.  *)

T_begin ==
  /\ Command("begin")
  /\ call' = [cmd |-> "begin"]
  /\ back_input(<<>>)
  /\ UNCHANGED <<files, stack, states, restricted, flags, definition, output, done,
                 packages, global_options, CurrentOption, unused, warned>>

T_begindocument ==
  /\ Waits({"begin"})
  /\ LET left == { i \in DOMAIN global_options : ~global_options[i].used }
     IN unused' = IF cur_tok = document THEN { global_options[i].option : i \in left } ELSE unused
  /\ warned' = warned \cup Runaway
  /\ call' = NoCall
  /\ back_input(<<>>)
  /\ UNCHANGED <<files, stack, states, restricted, flags, definition, output, done, packages, global_options, CurrentOption>>

Next ==
  \/ call = NoCall /\ ReadToken /\ UNCHANGED pvars
  \/ ReadLine /\ UNCHANGED pvars
  \/ EndOfFile
  \/ EndOfInput(ReadingArgument) /\ UNCHANGED pvars
  \/ BeginLoad \/ EndLoad \/ T_inputclass
  \/ T_declare_options \/ T_declare_option_star \/ T_at_end_of_class \/ T_pass_options
  \/ BeginProcess \/ T_process_options \/ T_execute_options \/ DefCurrentOption \/ T_option_not_used
  \/ T_begin \/ T_begindocument

Spec == PackagesInit /\ [][Next]_allvars /\ WF_allvars(Next)

=============================================================================
