----------------------------- MODULE Conditions -----------------------------
(***************************************************************************)
(* Conditionals (Condition.cpp and E_if_test, E_fi_or_else, pass_text of   *)
(* txparser.cpp).  A text is a sequence of tokens; \ifodd and \ifcase      *)
(* stand for all tests, since they read a number by expanding tokens, so   *)
(* that conditionals, and the ends of conditionals, may occur inside a     *)
(* test.  A number is one digit.                                           *)
(*                                                                         *)
(* The stack of conditions is shared by all activations of E_if_test; an   *)
(* activation remembers the size sz the stack had when it pushed its own   *)
(* entry and uses it after the test, which may have pushed others.         *)
(***************************************************************************)
EXTENDS Naturals, Sequences, SequencesExt

CONSTANT Texts   \* the texts a run may read

IfTokens == {"if", "unless", "case"}
FiOrElse == {"fi", "else", "or"}
Digits == {"0", "1", "2"}
Tokens == IfTokens \cup FiOrElse \cup Digits \cup {"relax"}

ASSUME TextsAssumption == Texts \subseteq Seq(Tokens \ {"relax"})

VARIABLES
  source,      \* the text, as it was at the start
  input,       \* the tokens to be read
  output,      \* the digits that were typeset
  conditions,  \* the stack of Condition: the if_limit of each entry
  calls,       \* the activations of E_if_test, the innermost last
  errors,      \* an error was signalled
  finished     \* final_checks was called

vars == <<source, input, output, conditions, calls, errors, finished>>

Code(t) == CASE t = "if" -> 1 [] t = "fi" -> 2 [] t = "else" -> 3 [] t = "or" -> 4

\* sz: where the entry is; n: the number of \or that \ifcase still has to skip.
Call == [sz : Nat, kind : IfTokens, phase : {"test", "skip"}, n : Nat]
Top == Last(calls)

is_this_if(n) == Len(conditions) = n

Init ==
  /\ source \in Texts /\ input = source
  /\ output = <<>> /\ conditions = <<>> /\ calls = <<>>
  /\ errors = FALSE /\ finished = FALSE

-----------------------------------------------------------------------------
\* Skipping.

Occurrences(s, p, kinds) == Len(SelectSeq(SubSeq(s, 1, p), LAMBDA t : t \in kinds))

\* The positions of the \fi, \else, \or that are not inside a conditional of s.
AtLevelZero(s) ==
  { p \in DOMAIN s : /\ s[p] \in FiOrElse
                     /\ Occurrences(s, p - 1, IfTokens) = Occurrences(s, p - 1, {"fi"}) }

Least(S) == CHOOSE p \in S : \A q \in S : p <= q

\* Variant for a mutant: nested conditionals are not counted.
pass_text_flat(s) ==
  LET stops == { p \in DOMAIN s : s[p] \in FiOrElse }
  IN IF stops = {} THEN [tok |-> "fi", rest |-> <<>>, eof |-> TRUE]
     ELSE [tok |-> s[Least(stops)], rest |-> SubSeq(s, Least(stops) + 1, Len(s)), eof |-> FALSE]

\* The first \fi, \else or \or at level zero and what follows it; at the end of
\* the text a \fi is made up.
pass_text(s) ==
  LET stops == AtLevelZero(s)
  IN IF stops = {} THEN [tok |-> "fi", rest |-> <<>>, eof |-> TRUE]
     ELSE [tok |-> s[Least(stops)], rest |-> SubSeq(s, Least(stops) + 1, Len(s)), eof |-> FALSE]

\* What follows the first \fi at level zero: pass_text until it finds one.
PassFi(s) ==
  LET stops == { p \in AtLevelZero(s) : s[p] = "fi" }
  IN IF stops = {} THEN [rest |-> <<>>, eof |-> TRUE]
     ELSE [rest |-> SubSeq(s, Least(stops) + 1, Len(s)), eof |-> FALSE]

-----------------------------------------------------------------------------
\* Tokens that are expanded, by the main loop or by a test.

Expanding == ~finished /\ (calls # <<>> => Top.phase = "test")

Reads(kinds) == Expanding /\ input # <<>> /\ Head(input) \in kinds

\* \ifodd, \unless\ifodd, \ifcase: E_if_test pushes an entry and starts a test.
E_if_test ==
  /\ Reads(IfTokens)
  /\ conditions' = Append(conditions, "if")
  /\ calls' = Append(calls, [sz |-> Len(conditions) + 1, kind |-> Head(input), phase |-> "test", n |-> 0])
  /\ input' = Tail(input)
  /\ UNCHANGED <<source, output, errors, finished>>

\* Variant for a mutant: \relax is not inserted.
E_fi_or_else_no_relax ==
  /\ Reads(FiOrElse)
  /\ IF conditions = <<>> THEN
       /\ input' = Tail(input) /\ errors' = TRUE
       /\ UNCHANGED conditions
     ELSE IF Last(conditions) = "if" THEN
       UNCHANGED <<input, errors, conditions>>
     ELSE IF Code(Head(input)) > Code(Last(conditions)) THEN
       /\ input' = Tail(input) /\ errors' = TRUE
       /\ UNCHANGED conditions
     ELSE
       LET passed == IF Head(input) = "fi" THEN [rest |-> Tail(input), eof |-> FALSE] ELSE PassFi(Tail(input))
       IN /\ input' = passed.rest
          /\ errors' = (errors \/ passed.eof)
          /\ conditions' = Front(conditions)
  /\ UNCHANGED <<source, output, calls, finished>>

\* \fi, \else, \or: ignored when there is no conditional or the branch is not
\* allowed any more; insert_relax when the test of the last conditional is being
\* read; otherwise the rest is skipped and the conditional ends.
E_fi_or_else ==
  /\ Reads(FiOrElse)
  /\ IF conditions = <<>> THEN
       /\ input' = Tail(input) /\ errors' = TRUE
       /\ UNCHANGED conditions
     ELSE IF Last(conditions) = "if" THEN
       /\ input' = <<"relax">> \o input
       /\ UNCHANGED <<errors, conditions>>
     ELSE IF Code(Head(input)) > Code(Last(conditions)) THEN
       /\ input' = Tail(input) /\ errors' = TRUE
       /\ UNCHANGED conditions
     ELSE
       LET passed == IF Head(input) = "fi" THEN [rest |-> Tail(input), eof |-> FALSE] ELSE PassFi(Tail(input))
       IN /\ input' = passed.rest
          /\ errors' = (errors \/ passed.eof)
          /\ conditions' = Front(conditions)
  /\ UNCHANGED <<source, output, calls, finished>>

\* The main loop typesets a digit, and ignores \relax.
Typeset ==
  /\ calls = <<>> /\ Reads(Digits \cup {"relax"})
  /\ output' = IF Head(input) = "relax" THEN output ELSE Append(output, Head(input))
  /\ input' = Tail(input)
  /\ UNCHANGED <<source, conditions, calls, errors, finished>>

-----------------------------------------------------------------------------
\* The end of a test.

Value(t) == CASE t = "0" -> 0 [] t = "1" -> 1 [] t = "2" -> 2

Holds(kind, v) == IF kind = "unless" THEN v % 2 = 0 ELSE v % 2 = 1

\* E_if_test after scan_int returned v: the branch is chosen, or text is skipped.
Tested(v) ==
  IF (Top.kind = "case" /\ v = 0) \/ (Top.kind # "case" /\ Holds(Top.kind, v)) THEN
    /\ conditions' = [conditions EXCEPT ![Top.sz] = IF Top.kind = "case" THEN "or" ELSE "else"]
    /\ calls' = Front(calls)
  ELSE
    /\ calls' = [calls EXCEPT ![Len(calls)].phase = "skip", ![Len(calls)].n = v]
    /\ UNCHANGED conditions

TestDigit ==
  /\ calls # <<>> /\ Reads(Digits)
  /\ Tested(Value(Head(input)))
  /\ input' = Tail(input)
  /\ UNCHANGED <<source, output, errors, finished>>

\* Missing number: \relax, or the end of the text; the number is zero.
TestMissing ==
  /\ calls # <<>>
  /\ Reads({"relax"}) \/ (Expanding /\ input = <<>>)
  /\ Tested(0)
  /\ errors' = TRUE
  /\ UNCHANGED <<source, input, output, finished>>

-----------------------------------------------------------------------------
\* The loops of E_if_test that skip text: one call of pass_text.

Chosen(limit) ==
  /\ conditions' = [conditions EXCEPT ![Top.sz] = limit]
  /\ calls' = Front(calls)

Ended == conditions' = Front(conditions) /\ calls' = Front(calls)

\* Variant for a mutant: the size of the stack is not looked at.
Skip_any ==
  /\ ~finished /\ calls # <<>> /\ Top.phase = "skip"
  /\ LET passed == pass_text(input)
     IN /\ input' = passed.rest
        /\ errors' = (errors \/ passed.eof \/ (passed.tok = "or" /\ Top.kind # "case"))
        /\ CASE passed.tok = "fi" -> Ended
             [] passed.tok = "else" -> Chosen("fi")
             [] passed.tok = "or" /\ Top.kind = "case" ->
                  IF Top.n = 1 THEN Chosen("or")
                  ELSE calls' = [calls EXCEPT ![Len(calls)].n = @ - 1] /\ UNCHANGED conditions
             [] OTHER -> UNCHANGED <<conditions, calls>>
  /\ UNCHANGED <<source, output, finished>>

\* It stops when the entry of this activation is the last one and its branch was
\* found; a \fi met before belongs to a conditional opened by the test.
Skip ==
  /\ ~finished /\ calls # <<>> /\ Top.phase = "skip"
  /\ LET passed == pass_text(input)
     IN /\ input' = passed.rest
        /\ errors' = (errors \/ passed.eof
                        \/ (passed.tok = "or" /\ Top.kind # "case" /\ is_this_if(Top.sz)))
        /\ CASE ~is_this_if(Top.sz) ->
                  /\ conditions' = IF passed.tok = "fi" THEN Front(conditions) ELSE conditions
                  /\ UNCHANGED calls
             [] is_this_if(Top.sz) /\ passed.tok = "fi" -> Ended
             [] is_this_if(Top.sz) /\ passed.tok = "else" -> Chosen("fi")
             [] is_this_if(Top.sz) /\ passed.tok = "or" /\ Top.kind = "case" ->
                  IF Top.n = 1 THEN Chosen("or")
                  ELSE calls' = [calls EXCEPT ![Len(calls)].n = @ - 1] /\ UNCHANGED conditions
             [] OTHER -> UNCHANGED <<conditions, calls>>
  /\ UNCHANGED <<source, output, finished>>

\* terminate: every conditional that is left is an error.
Terminate ==
  /\ ~finished /\ calls = <<>> /\ input = <<>>
  /\ finished' = TRUE
  /\ errors' = (errors \/ conditions # <<>>)
  /\ conditions' = <<>>
  /\ UNCHANGED <<source, input, output, calls>>

Next ==
  \/ E_if_test
  \/ E_fi_or_else
  \/ Typeset
  \/ TestDigit
  \/ TestMissing
  \/ Skip
  \/ Terminate

\* The translator is one thread: it goes on as long as it can take a step.
Spec == Init /\ [][Next]_vars /\ WF_vars(Next)

-----------------------------------------------------------------------------
\* Properties.

\* An activation of E_if_test finds its entry where it left it (set_limit uses
\* at(n - 1), back() is used without a test): while it runs, its entry is on the
\* stack with the limit if_code, whatever the test expanded or skipped; and the
\* entries that have this limit are those of the activations.
CallsOwnEntries ==
  /\ \A j \in DOMAIN calls : calls[j].sz <= Len(conditions) /\ conditions[calls[j].sz] = "if"
  /\ \A i \in DOMAIN conditions : conditions[i] = "if" => \E j \in DOMAIN calls : calls[j].sz = i
  /\ \A i, j \in DOMAIN calls : i < j => calls[i].sz < calls[j].sz

\* Every text is read to its end, although insert_relax makes it longer.
Terminates == <>finished

=============================================================================
