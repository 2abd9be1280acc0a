--------------------------- MODULE DocumentFrames ---------------------------
(***************************************************************************)
(* The C++ calls that hold groups open, and the begin and the end of the   *)
(* document, on top of SaveStack.                                          *)
(*                                                                         *)
(* T_arg_local, T_cap_or_note and T_hanl_text open a group, translate a    *)
(* token list in a nested call and close the group when the list is        *)
(* exhausted.  special_tpa_arg pushes a boundary of type bt_tpa that does  *)
(* not raise the level, translates in a nested call, and is left by the    *)
(* exception EndOfData, which pop_level throws for a closing brace and     *)
(* translate_all for \end.  The exception unwinds the calls down to the    *)
(* innermost special_tpa_arg; when there is none the program is aborted.   *)
(*                                                                         *)
(* \begin{document} forces the level to 1; \end{document} may run          *)
(* pop_all_levels (package checkend), whose loop destroys an item in place *)
(* while the destructor may push a new one.                                *)
(***************************************************************************)
EXTENDS SaveStack, Integers

CONSTANTS
  Authors,    \* the sets of mistakes an author may make, subsets of MistakeKinds
  MaxCalls    \* bound on the nested calls

MistakeKinds == {"close",      \* a group closed by the token of another kind of group
                 "end",        \* \end of an environment that is not the innermost group
                 "list",       \* an argument that ends inside a group it opened
                 "document",   \* \begin{document} inside a group
                 "stop"}       \* \end{document} inside a group

ASSUME AuthorsAssumption == Authors \subseteq SUBSET MistakeKinds /\ MaxCalls \in Nat

VARIABLES
  mistakes,       \* the mistakes the author of this document may make
  calls,          \* the nested calls that hold a boundary, the innermost last
  pc,             \* what goes on after the current loop of pop_level
  seen_document,
  nullEntry       \* the last entry of the save stack is a null pointer

frameVars == <<mistakes, calls, pc, seen_document, nullEntry>>
allVars == <<vars, frameVars>>

LocalCall == [kind |-> "local", env |-> FALSE, special |-> FALSE]
TpaCall(env, special) == [kind |-> "tpa", env |-> env, special |-> special]
\* An environment has no hook.
Call == {LocalCall, TpaCall(TRUE, FALSE), TpaCall(FALSE, FALSE), TpaCall(FALSE, TRUE)}

TpaCalls == { i \in DOMAIN calls : calls[i].kind = "tpa" }
TpaBoundaries == { i \in Boundaries(saveStack) : saveStack[i].val = "tpa" }
SpecialCalls == { i \in TpaCalls : calls[i].special }

FInit ==
  /\ Init /\ mistakes \in Authors
  /\ calls = <<>> /\ pc = "run" /\ seen_document = FALSE /\ nullEntry = FALSE

Running == pc = "run" /\ ~popping

-----------------------------------------------------------------------------
\* Nested calls.

T_arg_local ==
  /\ Len(calls) < MaxCalls
  /\ push_level("local")
  /\ calls' = Append(calls, LocalCall)
  /\ UNCHANGED <<pc, seen_document, nullEntry>>

\* The argument of a title page command; env: the command is an environment;
\* special: the command has a hook, and the level is raised for it.
special_tpa_arg(env, special) ==
  /\ Len(calls) < MaxCalls /\ cur_level \in 1..(MaxLevel - 1) /\ HasRoom
  /\ ~(env /\ special)
  /\ env => saveStack # <<>> /\ Last(saveStack).type = "env"
  /\ saveStack' = Append(saveStack, Boundary("tpa"))
  /\ cur_level' = IF special THEN cur_level + 1 ELSE cur_level
  /\ calls' = Append(calls, TpaCall(env, special))
  /\ UNCHANGED <<eqtb, cur_env_name, cur_font, TL, popping, theBox, pc, seen_document, nullEntry>>

\* The list of the innermost T_arg_local is exhausted.  A special_tpa_arg that
\* was called while it was read returns, its boundary stays.
EndOfList ==
  /\ calls # <<>> /\ \E i \in DOMAIN calls : calls[i].kind = "local"
  /\ "list" \in mistakes \/ (first_boundary = "local" /\ Last(calls).kind = "local")
  /\ pc' = "list"
  /\ UNCHANGED <<vars, calls, seen_document, nullEntry>>

ReturnFromTpa ==
  /\ pc = "list" /\ Last(calls).kind = "tpa"
  /\ cur_level' = IF Last(calls).special THEN cur_level - 1 ELSE cur_level
  /\ calls' = Front(calls)
  /\ UNCHANGED <<eqtb, saveStack, cur_env_name, cur_font, TL, popping, theBox, pc, seen_document, nullEntry>>

ReturnFromLocal ==
  /\ pc = "list" /\ Last(calls).kind = "local"
  /\ T_close("local")
  /\ calls' = Front(calls)
  /\ pc' = "run"
  /\ UNCHANGED <<seen_document, nullEntry>>

\* The exception leaves the calls above the innermost special_tpa_arg, and
\* this one; "crashed" when nobody catches it.
Thrown(level) ==
  IF TpaCalls = {} THEN pc' = "crashed" /\ cur_level' = level /\ UNCHANGED calls
  ELSE /\ pc' = "run"
       /\ cur_level' = IF calls[Max(TpaCalls)].special THEN level - 1 ELSE level
       /\ calls' = SubSeq(calls, 1, Max(TpaCalls) - 1)

-----------------------------------------------------------------------------
\* Groups closed by tokens.

Expected(v) ==
  \/ v = first_boundary /\ v # "local"
  \/ v = "brace" /\ first_boundary = "tpa" /\ calls # <<>> /\ Last(calls).kind = "tpa" /\ ~Last(calls).env

Close(v) ==
  /\ "close" \in mistakes \/ Expected(v)
  /\ T_close(v)
  /\ pc' = IF v = "brace" /\ first_boundary = "tpa" THEN "throw" ELSE "run"
  /\ UNCHANGED <<calls, seen_document, nullEntry>>

InnermostEnv == saveStack[Max(EnvItems)].name

\* \end{s}: the usual case, and the case of an argument of a title page command.
End(s) ==
  /\ "end" \in mistakes \/ /\ is_env_on_stack(s) /\ InnermostEnv = s
                           /\ first_boundary \in {"env", "tpa"}
                           /\ first_boundary = "tpa" => calls # <<>> /\ Last(calls).env
  /\ IF is_env_on_stack(s) /\ first_boundary = "tpa" THEN
       /\ pc' = "end_tpa" /\ popping' = TRUE
       /\ UNCHANGED <<eqtb, cur_level, saveStack, cur_env_name, cur_font, TL, theBox>>
     ELSE T_end(s) /\ UNCHANGED pc
  /\ UNCHANGED <<calls, seen_document, nullEntry>>

\* The tokens of \ends have been read: the group of the environment is closed.
EndGroup ==
  /\ TL # <<>>
  /\ "end" \in mistakes \/ (first_boundary = "env" /\ InnermostEnv = Head(TL)[2])
  /\ sendgroup
  /\ UNCHANGED <<calls, pc, seen_document, nullEntry>>

\* After pop_level(bt_tpa): pop_level(bt_env), without the name in cur_tok.
EndTpa ==
  /\ pc = "end_tpa" /\ ~popping
  /\ pc' = "end_env"
  /\ pop_level("env")
  /\ UNCHANGED <<TL, calls, seen_document, nullEntry>>

\* Variant for a mutant: cur_level++ is forgotten after the two calls of pop_level.
EndEnv_no_increment ==
  /\ pc = "end_env" /\ ~popping
  /\ Thrown(cur_level)
  /\ UNCHANGED <<eqtb, saveStack, cur_env_name, cur_font, TL, popping, theBox, seen_document, nullEntry>>

\* Variant for a mutant: T_end returns true and the call goes on.
EndEnv_no_throw ==
  /\ pc = "end_env" /\ ~popping
  /\ pc' = "run"
  /\ cur_level' = cur_level + 1
  /\ UNCHANGED <<eqtb, saveStack, cur_env_name, cur_font, TL, popping, theBox, calls, seen_document, nullEntry>>

\* T_end returns false and translate_all throws.
EndEnv ==
  /\ pc = "end_env" /\ ~popping
  /\ Thrown(cur_level + 1)
  /\ UNCHANGED <<eqtb, saveStack, cur_env_name, cur_font, TL, popping, theBox, seen_document, nullEntry>>

\* Variant for a mutant: the exception is thrown as soon as an item is popped.
PopTurnThrow_early ==
  /\ pc = "throw"
  /\ popping /\ popping' = FALSE
  /\ saveStack' = Front(saveStack)
  /\ Thrown(cur_level)
  /\ UNCHANGED <<eqtb, cur_env_name, cur_font, TL, theBox, seen_document, nullEntry>>

\* A turn of the loop of pop_level.  The boundary of a closing brace that ends
\* the argument of a title page command lowers a level that is raised before
\* the exception is thrown.
PopTurn ==
  /\ pc \in {"run", "end_tpa", "end_env"}
  /\ Pop
  /\ UNCHANGED <<calls, pc, seen_document, nullEntry>>

PopTurnThrow ==
  /\ pc = "throw"
  /\ IF Last(saveStack).type = "boundary" THEN
       /\ popping /\ popping' = FALSE
       /\ saveStack' = Front(saveStack)
       /\ Thrown(cur_level)
       /\ UNCHANGED <<eqtb, cur_env_name, cur_font, TL, theBox>>
     ELSE Pop /\ UNCHANGED <<calls, pc>>
  /\ UNCHANGED <<seen_document, nullEntry>>

-----------------------------------------------------------------------------
\* The document.

\* T_begin pushes a boundary and the environment, T_begindocument pops them.
T_begindocument ==
  /\ ~seen_document
  /\ "document" \in mistakes \/ cur_level = 1
  /\ seen_document' = TRUE
  /\ cur_level' = 1
  /\ UNCHANGED <<eqtb, saveStack, cur_env_name, cur_font, TL, popping, theBox, calls, pc, nullEntry>>

\* \end{document} with checkend: pop_all_levels, after the group of the
\* environment document was opened by T_end and popped.
pop_all_levels ==
  /\ seen_document
  /\ "stop" \in mistakes \/ (cur_level = 1 /\ calls = <<>>)
  /\ pc' = "all"
  /\ popping' = TRUE
  /\ UNCHANGED <<eqtb, cur_level, saveStack, cur_env_name, cur_font, TL, theBox, calls, seen_document, nullEntry>>

\* Items other than boundaries are destroyed as in pop_level.
AllItem ==
  /\ pc = "all" /\ ~nullEntry
  /\ PopValue \/ PopEnv \/ PopFont \/ PopBoxEnd \/ PopAftergroup
  /\ UNCHANGED <<calls, pc, seen_document, nullEntry>>

\* pop_back destroys the boundary in place.  If the destructor pushes an item,
\* it goes to the slot being destroyed: depending on the build the pointer is
\* reset afterwards or not.
AllBoundary ==
  /\ pc = "all" /\ ~nullEntry
  /\ saveStack # <<>> /\ Last(saveStack).type = "boundary"
  /\ cur_level' = cur_level - 1
  /\ IF theBox = NoBox THEN
       saveStack' = Front(saveStack) /\ UNCHANGED <<eqtb, nullEntry>>
     ELSE
       /\ saveStack' = BoxedStack(Front(saveStack), eqtb, theBox.dest, cur_level - 1)
       /\ eqtb' = BoxedTable(eqtb, theBox.dest, theBox.val, cur_level - 1)
       /\ nullEntry' \in IF Len(saveStack') = Len(saveStack) THEN BOOLEAN ELSE {FALSE}
  /\ theBox' = NoBox
  /\ UNCHANGED <<cur_env_name, cur_font, TL, popping, calls, pc, seen_document>>

\* tmp->type is read through the null pointer.
AllNull ==
  /\ pc = "all" /\ nullEntry
  /\ pc' = "crashed"
  /\ UNCHANGED <<vars, calls, seen_document, nullEntry>>

\* The end of pop_all_levels, then sendgroup closes the environment document.
AllDone ==
  /\ pc = "all" /\ saveStack = <<>>
  /\ pc' = "done"
  /\ popping' = FALSE
  /\ UNCHANGED <<eqtb, cur_level, saveStack, cur_env_name, cur_font, TL, theBox, calls, seen_document, nullEntry>>

-----------------------------------------------------------------------------

Assignments ==
  \/ \E k \in CmdKeys, c \in Vals, gbl \in BOOLEAN : eq_define(k, c, gbl)
  \/ \E dest \in Dests, v \in Vals : begin_hbox(dest, v)

FCommand ==
  \/ \E v \in GroupKinds \ {"local"} : push_level(v) /\ UNCHANGED <<calls, pc, seen_document, nullEntry>>
  \/ \E v \in GroupKinds \ {"local"} : Close(v)
  \/ \E s \in Envs : T_begin(s) /\ UNCHANGED <<calls, pc, seen_document, nullEntry>>
  \/ \E s \in Envs : End(s)
  \/ Assignments /\ UNCHANGED <<calls, pc, seen_document, nullEntry>>
  \/ EndGroup
  \/ T_arg_local
  \/ \E env \in BOOLEAN, special \in BOOLEAN : special_tpa_arg(env, special)
  \/ EndOfList
  \/ T_begindocument
  \/ pop_all_levels

Step ==
  \/ Running /\ FCommand
  \/ ReturnFromTpa
  \/ ReturnFromLocal
  \/ EndTpa
  \/ EndEnv
  \/ PopTurn
  \/ PopTurnThrow
  \/ AllItem
  \/ AllBoundary
  \/ AllNull
  \/ AllDone

FNext == Step /\ UNCHANGED mistakes

FSpec == FInit /\ [][FNext]_allVars

-----------------------------------------------------------------------------
\* Properties.

\* "The variable \currentgrouplevel holds the current group level (number of
\* unclosed braces)": the boundaries that are not arguments of title page
\* commands, and the arguments for which the level was raised.  Groups that
\* are closed in the wrong order and \begin{document} in a group break this.
GroupLevelIsDepth ==
  Running /\ mistakes = {} =>
    cur_level - 1 = Cardinality(Boundaries(saveStack) \ TpaBoundaries) + Cardinality(SpecialCalls)

\* The translation is not aborted by an exception or a null pointer, whatever
\* groups are closed in the wrong order, but in two cases: an argument ends
\* inside a title page argument, whose boundary then has no call that catches
\* EndOfData; \end{document} destroys a boundary of an open group while the
\* destructor pushes an item.
NoCrash ==
  /\ pc = "crashed" => "list" \in mistakes \/ nullEntry
  /\ nullEntry => "stop" \in mistakes

\* A title page argument closes inside the call that opened it: while a call
\* is active its boundary is on the stack, in the order of the calls, when
\* groups are closed in order.
CallsMatchBoundaries ==
  Running /\ mistakes = {} =>
    LET held == { i \in Boundaries(saveStack) : saveStack[i].val \in {"tpa", "local"} }
    IN  /\ Cardinality(held) = Len(calls)
        /\ \A i \in held : saveStack[i].val = calls[Cardinality({ h \in held : h <= i })].kind

=============================================================================
