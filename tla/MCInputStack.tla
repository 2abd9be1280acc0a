---------------------------- MODULE MCInputStack ----------------------------
(* Documents of three files for InputStack, and what they mean.            *)
EXTENDS InputStack

\* Characters are numbered by where they are, so that their order shows.
x(i) == Char(i)

Endinput == <<"endinput", "endinput">>
Endallinput == <<"endallinput", "endallinput">>
Input(f) == <<"input", f>>
Scan(body) == <<"scantokens", body>>
Mac(body) == <<"mac", body>>
Arg(body) == <<"arg", body>>
Hook(body) == <<"hook", body>>
Edef == <<"edef", "edef">>

\* The commands at place i that read no other file.
Simple(i) == { x(i), Endinput, Endallinput, Mac(<<x(i), Endinput, x(i + 1)>>), Arg(<<Mac(<<Arg(<<x(i)>>), x(i + 1)>>), x(i + 2)>>),
               Arg(<<x(i), Endinput, x(i + 1)>>), Hook(<<x(i), x(i + 1)>>) }

\* The commands at place i that read file f or a list of tokens.
Readers(i, f) == { Input(f), Mac(<<x(i), Input(f), x(i + 1)>>), Scan(<<x(i), x(i + 1)>>),
                   Mac(<<x(i), Scan(<<x(i + 1), Endinput, x(i + 2)>>), Endinput, x(i + 3)>>),
                   Scan(<<Input(f), x(i)>>) }

\* Definitions that are read from a line.
Definitions(f) == { <<Edef, Input(f), CB_token>>, <<Edef, x(90), CB_token>>,
                    <<Edef, Edef, Scan(<<x(90)>>), CB_token, CB_token>>,
                    <<Edef, Scan(<<x(90), CB_token>>)>>, <<Edef>> }

Document(m, a, b) ==
  [f \in {"main", "a", "b"} |->
    CASE f = "main" -> <<m, <<x(1)>>>> [] f = "a" -> <<a, <<x(2)>>>> [] f = "b" -> <<b, <<x(3)>>>>]

Pairs(S, T) == { <<s, t>> : s \in S, t \in T }

-----------------------------------------------------------------------------
(* The meaning of a list of tokens in a file: what is typeset; whether the *)
(* rest of the file is not to be read, or nothing of any file; whether the *)
(* rest of the list is not read either, because a file that is read from   *)
(* it has ended all files.                                                 *)

Means(text, stop, cut) == [text |-> text, stop |-> stop, cut |-> cut]
StopOf(m1, m2) == IF "all" \in {m1.stop, m2.stop} THEN "all"
                  ELSE IF "file" \in {m1.stop, m2.stop} THEN "file" ELSE "no"

RECURSIVE TokensMean(_, _)
RECURSIVE LinesMean(_, _, _)

FileMeans(ls, doc) ==
  LET m == LinesMean(ls, EveryEof(doc), doc)
  IN Means(m.text, IF m.stop = "all" THEN "all" ELSE "no", m.stop = "all")

TokenMeans(t, doc) ==
  CASE t[1] = "char" -> Means(<<t>>, "no", FALSE)
    [] t[1] = "endinput" -> Means(<<>>, "file", FALSE)
    [] t[1] = "endallinput" -> Means(<<>>, "all", FALSE)
    [] t[1] = "input" -> FileMeans(doc[t[2]], doc)
    [] t[1] = "scantokens" -> FileMeans(<<t[2]>>, doc)
    [] t[1] \in {"mac", "hook"} -> TokensMean(t[2], doc)
    [] t[1] = "arg" ->
         LET m == TokensMean(t[2], doc)
         IN [m EXCEPT !.text = <<<<"open", "arg">>>> \o @ \o <<<<"close", "arg">>>>]

TokensMean(s, doc) ==
  IF s = <<>> THEN Means(<<>>, "no", FALSE)
  ELSE LET first == TokenMeans(Head(s), doc)
           rest == TokensMean(Tail(s), doc)
       IN IF first.cut THEN first
          ELSE Means(first.text \o rest.text, StopOf(first, rest), rest.cut)

\* The tokens `last' come at the end of a file that was not ended by its own
\* \endinput or \endallinput.
LinesMean(ls, last, doc) ==
  IF ls = <<>> THEN Means(last, "no", FALSE)
  ELSE LET first == TokensMean(Head(ls), doc)
           rest == LinesMean(Tail(ls), last, doc)
       IN IF first.cut THEN [first EXCEPT !.text = @ \o last]
          ELSE IF first.stop # "no" THEN first
          ELSE Means(first.text \o rest.text, rest.stop, rest.cut)

\* There is no \everyeof for the main file.
DocumentMeans(doc) == LinesMean(doc["main"], <<>>, doc).text

-----------------------------------------------------------------------------
(* On a line, nothing that reads another file follows \endinput or        *)
(* \endallinput.                                                          *)

RECURSIVE Has(_, _)
Has(t, kinds) == t[1] \in kinds \/ (t[1] \in {"mac", "arg", "hook"} /\ \E i \in DOMAIN t[2] : Has(t[2][i], kinds))

Polite(s) ==
  \A i, j \in DOMAIN s : i < j /\ Has(s[i], {"endinput", "endallinput"}) => ~Has(s[j], {"input", "scantokens", "hook"})

AnyPairs(i, f) == Pairs(Simple(i) \cup Readers(i, f), Simple(i + 4) \cup Readers(i + 4, f))

\* In the file that is read the second command is one of these.
SecondCommands(i, f) == { x(i), Endinput, Endallinput, Input(f), Arg(<<x(i), Endinput, x(i + 1)>>), Scan(<<Input(f), x(i)>>) }

PoliteDocuments ==
  { Document(m, a, b) :
      m \in { p \in AnyPairs(10, "a") : Polite(p) },
      a \in { p \in Pairs(Simple(20) \cup Readers(20, "b"), SecondCommands(24, "b")) : Polite(p) },
      b \in {<<x(30)>>, <<x(30), Endinput, x(31)>>} }

WithDefinitions ==
  { Document(m \o <<x(10)>>, a, <<x(30)>>) :
      m \in Definitions("a"),
      a \in { <<x(20)>>, <<x(20), CB_token, x(21)>>, <<Endinput>> }
            \cup Definitions("b") \cup Pairs(Readers(20, "b"), Simple(24)) }

AllDocuments == PoliteDocuments \cup WithDefinitions

OneToken(doc) == <<x(80)>>

-----------------------------------------------------------------------------
\* When the document is read, what was typeset is the text of its files in
\* order: each file where it is asked for, with what follows \endinput on its
\* line and nothing of the next lines (E_input, push_input_stack,
\* pop_input_stack, get_a_new_line, T_translate).
TextInOrder == done /\ files \in PoliteDocuments => output = DocumentMeans(files)
=============================================================================
