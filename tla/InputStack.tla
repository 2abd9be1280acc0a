----------------------------- MODULE InputStack -----------------------------
(***************************************************************************)
(* Where the tokens come from (txscan.cpp, InputStack.h, LineList.cpp).    *)
(* A token is taken from the token list TL, then from the current line,    *)
(* then from the next line of the current file; \input and \scantokens put *)
(* the three aside on cur_input_stack, and the end of a file takes them    *)
(* back.  In the restricted mode, used to translate the argument of a      *)
(* command, nothing is read when TL is empty.  Packages completes this     *)
(* component: what happens at the end of a file depends on what is being   *)
(* read in it and on the class or package whose file it is.                *)
(*                                                                         *)
(* A token is a pair.  "mac" is a macro with its replacement text, "arg" a *)
(* command that translates its argument, "hook" a command that evaluates a *)
(* string via tokenize_buffer, "edef" stands for \edef\foo{ and "close"    *)
(* for a closing brace.                                                    *)
(***************************************************************************)
EXTENDS Naturals, Sequences, SequencesExt

CONSTANTS
  Documents,   \* the documents a run may read: the lines of each file
  EveryEof(_)  \* the value of \everyeof in a document

VARIABLES
  files,         \* the document: a function from file names to lines
  TL,            \* the token list
  input_line,    \* what remains of the current line
  lines,         \* the lines of the current file that were not read
  stack,         \* cur_input_stack
  cur_file_pos,  \* the class or package to which the current file belongs
  states,        \* the saved states of T_translate, the innermost last
  restricted,    \* nothing is read when TL is empty
  force_eof,     \* \endinput was seen
  require_eof,   \* the end of the current file is outer
  every_eof,     \* \everyeof is to be inserted at the end of the current file
  braces,        \* open braces in the definition that is being read, or 0
  crossed,       \* a file ended inside the last definition
  runaway,       \* `Runaway definition' was signalled for it
  output,        \* what was typeset
  done

source == <<TL, input_line, lines, cur_file_pos>>
flags == <<force_eof, require_eof, every_eof>>
definition == <<braces, crossed, runaway>>
vars == <<files, source, stack, states, restricted, flags, definition, output, done>>

Char(c) == <<"char", c>>
CB_token == <<"close", "}">>
eof_token == <<"eof", "eof">>

\* A position that is negative in the code has no hook.
NoPack == [pack |-> "none", hook |-> FALSE]

Init ==
  /\ files \in Documents
  /\ TL = <<>> /\ input_line = <<>> /\ lines = files["main"]
  /\ stack = <<>> /\ cur_file_pos = NoPack /\ states = <<>> /\ restricted = FALSE
  /\ force_eof = FALSE /\ require_eof = TRUE /\ every_eof = FALSE
  /\ braces = 0 /\ crossed = FALSE /\ runaway = FALSE
  /\ output = <<>> /\ done = FALSE

-----------------------------------------------------------------------------
\* The next token.

Exhausted == TL = <<>> /\ (restricted \/ input_line = <<>>)
cur_tok == IF TL # <<>> THEN Head(TL) ELSE Head(input_line)

Reads(kind) == ~done /\ ~Exhausted /\ cur_tok[1] = kind

\* What remains of TL and of the line once the token is read.
RestOfTL == IF TL # <<>> THEN Tail(TL) ELSE <<>>
RestOfLine == IF TL # <<>> THEN input_line ELSE Tail(input_line)

back_input(L) ==
  /\ TL' = L \o RestOfTL
  /\ input_line' = RestOfLine
  /\ UNCHANGED <<lines, cur_file_pos>>

push_input_stack(new) ==
  /\ stack' = Append(stack, [TL |-> RestOfTL, line |-> RestOfLine, lines |-> lines,
                             file_pos |-> cur_file_pos,
                             require_eof |-> require_eof, every_eof |-> every_eof])
  /\ TL' = <<>> /\ input_line' = <<>> /\ lines' = new
  /\ cur_file_pos' = NoPack
  /\ require_eof' = TRUE /\ every_eof' = TRUE

-----------------------------------------------------------------------------
\* Commands.

\* A character is typeset, or becomes part of the definition.
Character ==
  /\ Reads("char")
  /\ output' = IF braces = 0 THEN Append(output, cur_tok) ELSE output
  /\ back_input(<<>>)
  /\ UNCHANGED <<files, stack, states, restricted, flags, definition, done>>

\* A macro is replaced by its body, in a definition too.
Expand ==
  /\ Reads("mac")
  /\ back_input(cur_tok[2])
  /\ UNCHANGED <<files, stack, states, restricted, flags, definition, output, done>>

\* \input: open_tex_file.
T_input ==
  /\ Reads("input")
  /\ push_input_stack(files[cur_tok[2]])
  /\ UNCHANGED <<files, states, restricted, force_eof, definition, output, done>>

\* \scantokens: the tokens become a file of one line.
T_scantokens ==
  /\ Reads("scantokens")
  /\ push_input_stack(<<cur_tok[2]>>)
  /\ UNCHANGED <<files, states, restricted, force_eof, definition, output, done>>

E_endinput ==
  /\ Reads("endinput")
  /\ force_eof' = TRUE
  /\ back_input(<<>>)
  /\ UNCHANGED <<files, stack, states, restricted, require_eof, every_eof, definition, output, done>>

\* \endallinput: what was put aside is destroyed, but the entries stay.
E_endallinput ==
  /\ Reads("endallinput")
  /\ force_eof' = TRUE
  /\ stack' = [i \in DOMAIN stack |-> [stack[i] EXCEPT !.TL = <<>>, !.line = <<>>, !.lines = <<>>]]
  /\ back_input(<<>>)
  /\ UNCHANGED <<files, states, restricted, require_eof, every_eof, definition, output, done>>

\* tokenize_buffer reads a line of its own and gives its tokens, then what was
\* put aside is back.  It is closed before it is read when \endinput is pending.
tokenize_buffer ==
  /\ Reads("hook") /\ braces = 0
  /\ back_input(IF force_eof THEN <<>> ELSE cur_tok[2])
  /\ force_eof' = FALSE
  /\ UNCHANGED <<files, stack, states, restricted, require_eof, every_eof, definition, output, done>>

\* Variant for a mutant: the rest of the token list is not put aside.
T_translate_no_save ==
  /\ Reads("arg") /\ braces = 0
  /\ states' = Append(states, [TL |-> <<>>, restricted |-> restricted])
  /\ TL' = cur_tok[2] /\ restricted' = TRUE
  /\ input_line' = RestOfLine
  /\ output' = Append(output, <<"open", cur_tok[1]>>)
  /\ UNCHANGED <<files, lines, cur_file_pos, stack, flags, definition, done>>

\* T_translate: a new SaveState, and TL is the argument.
T_translate ==
  /\ Reads("arg") /\ braces = 0
  /\ states' = Append(states, [TL |-> RestOfTL, restricted |-> restricted])
  /\ TL' = cur_tok[2] /\ restricted' = TRUE
  /\ input_line' = RestOfLine
  /\ output' = Append(output, <<"open", cur_tok[1]>>)
  /\ UNCHANGED <<files, lines, cur_file_pos, stack, flags, definition, done>>

\* The argument is read: translate_all returns and ~SaveState restores TL.
EndTranslate ==
  /\ ~done /\ Exhausted /\ restricted
  /\ TL' = Last(states).TL /\ restricted' = Last(states).restricted
  /\ states' = Front(states)
  /\ output' = Append(output, <<"close", "arg">>)
  /\ UNCHANGED <<files, input_line, lines, cur_file_pos, stack, flags, definition, done>>

\* \edef\foo{ begins a definition; inside one it is absorbed.
M_def ==
  /\ Reads("edef")
  /\ braces' = braces + 1
  /\ IF braces = 0 THEN crossed' = FALSE /\ runaway' = FALSE
                   ELSE UNCHANGED <<crossed, runaway>>
  /\ back_input(<<>>)
  /\ UNCHANGED <<files, stack, states, restricted, flags, output, done>>

\* A closing brace ends the definition, or is an error outside one.
CloseBrace ==
  /\ Reads("close")
  /\ braces' = IF braces = 0 THEN 0 ELSE braces - 1
  /\ back_input(<<>>)
  /\ UNCHANGED <<files, stack, states, restricted, flags, crossed, runaway, output, done>>

\* check_outer_validity: a brace is inserted after the end of file marker,
\* which is otherwise ignored.
EofMarker ==
  /\ Reads("eof")
  /\ back_input(IF braces = 0 THEN <<>> ELSE <<CB_token>>)
  /\ runaway' = (runaway \/ braces # 0)
  /\ UNCHANGED <<files, stack, states, restricted, flags, braces, crossed, output, done>>

-----------------------------------------------------------------------------
\* get_a_new_line, called when TL and the line are empty.

AtEndOfLine == ~done /\ Exhausted /\ ~restricted

\* There is a line.
NextLine ==
  /\ AtEndOfLine /\ ~force_eof /\ lines # <<>>
  /\ input_line' = Head(lines) /\ lines' = Tail(lines)
  /\ UNCHANGED <<files, TL, cur_file_pos, stack, states, restricted, flags, definition, output, done>>

AtEndOfFile == AtEndOfLine /\ (force_eof \/ lines = <<>>)

InsertsEveryEof == ~force_eof /\ every_eof /\ EveryEof(files) # <<>>

\* Variant for a mutant: the tokens of \everyeof are inserted again and again.
EveryEofTokens_again ==
  /\ AtEndOfFile /\ InsertsEveryEof
  /\ TL' = EveryEof(files)
  /\ UNCHANGED <<files, input_line, lines, cur_file_pos, stack, states, restricted, flags, definition, output, done>>

\* The file ended: the tokens of \everyeof come before the end of file.
EveryEofTokens ==
  /\ AtEndOfFile /\ InsertsEveryEof
  /\ TL' = EveryEof(files) /\ every_eof' = FALSE
  /\ UNCHANGED <<files, input_line, lines, cur_file_pos, stack, states, restricted, force_eof, require_eof,
                 definition, output, done>>

\* The marker is pushed when something is being read that no file may end.
EndMarker(reading) == IF require_eof /\ (reading \/ braces # 0) THEN <<eof_token>> ELSE <<>>

\* Variant for a mutant: no marker is pushed.
pop_input_stack_no_eof(reading, hook) ==
  /\ AtEndOfFile /\ ~InsertsEveryEof /\ stack # <<>>
  /\ LET W == Last(stack)
     IN /\ TL' = hook \o W.TL
        /\ input_line' = W.line /\ lines' = W.lines /\ cur_file_pos' = W.file_pos
        /\ require_eof' = W.require_eof /\ every_eof' = W.every_eof
  /\ stack' = Front(stack)
  /\ force_eof' = FALSE /\ crossed' = (crossed \/ braces # 0)
  /\ UNCHANGED <<files, states, restricted, braces, runaway, output, done>>

\* The file ended and another one is open.  The hook of a package and what was put aside
\* go in front of the marker.
pop_input_stack(reading, hook) ==
  /\ AtEndOfFile /\ ~InsertsEveryEof /\ stack # <<>>
  /\ LET W == Last(stack)
     IN /\ TL' = hook \o W.TL \o EndMarker(reading)
        /\ input_line' = W.line /\ lines' = W.lines /\ cur_file_pos' = W.file_pos
        /\ require_eof' = W.require_eof /\ every_eof' = W.every_eof
  /\ stack' = Front(stack)
  /\ force_eof' = FALSE /\ crossed' = (crossed \/ braces # 0)
  /\ UNCHANGED <<files, states, restricted, braces, runaway, output, done>>

\* The main file ended.
EndOfInput(reading) ==
  /\ AtEndOfFile /\ ~InsertsEveryEof /\ stack = <<>>
  /\ TL' = EndMarker(reading)
  /\ input_line' = <<>> /\ lines' = <<>>
  /\ every_eof' = FALSE /\ force_eof' = FALSE
  /\ crossed' = (crossed \/ braces # 0)
  /\ done' = (EndMarker(reading) = <<>>)
  /\ UNCHANGED <<files, cur_file_pos, stack, states, restricted, require_eof, braces, runaway, output>>

\* A token is read, and the next line.
ReadToken ==
  \/ Character \/ Expand \/ T_input \/ T_scantokens \/ E_endinput \/ E_endallinput \/ tokenize_buffer
  \/ T_translate \/ EndTranslate
  \/ M_def \/ CloseBrace \/ EofMarker

ReadLine == NextLine \/ EveryEofTokens

-----------------------------------------------------------------------------
\* Properties.

\* No definition that is read from the lines of files extends over the end of a
\* file without an error: when it is over, either no file ended inside it or
\* `Runaway definition' was signalled (get_a_new_line, check_outer_validity).
RunawayIsReported == crossed /\ braces = 0 => runaway

\* The document is read to its end, however its files are nested: nothing is
\* inserted for ever at the end of a file (get_a_new_line).
Terminates == <>done

=============================================================================
