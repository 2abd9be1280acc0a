# A verification development for Tralics

Tralics translates LaTeX documents to XML.  It is a C++ program of one thread
(`src/src/`, about 47 000 lines): a TeX interpreter (tokens, macros, groups,
registers, conditionals, input files) whose "typesetting" commands build an XML
tree, which is patched and printed when the document ends.

There is no concurrency in the usual sense.  What makes this code hard is
*re-entrance and order*: the destructors of saved values call the parser while
a group is being popped; tests of conditionals, arguments, boxes and files are
read by nested calls that share one input, one save stack and one XML stack;
exceptions cut through these calls; and every user may write the commands in an
order nobody has tested.  The specifications therefore treat the *document* as
the environment: a state machine whose actions are the commands a document may
contain, in any order, with the code's guards, and whose state is what the
handlers share.

## 1. Inventory

| Component | State | Operations | Hard behaviour | What makes it correct |
|---|---|---|---|---|
| Groups, assignments, save stack (`txparser3.cpp`, `SaveAux.cpp`, `EQTB.h`, `globals.cpp`) | tables of `[val, level]`, `cur_level`, `the_save_stack`, `cur_env_name`, `cur_font` | local and global definitions, `push_level`, `pop_level`, boxes, `\aftergroup`, environments | destructors that push, assign and put back tokens while the stack is popped; recovery from wrong closings | assignments have the scope of their group; `cur_level` is the nesting; entries are saved once |
| Frames of the document (`txtranslate.cpp`, `txcommands.cpp`) | the C++ calls that are active, `EndOfData` | local arguments, title page arguments, `\begin{document}`, `\end{document}` | exceptions through several groups; `pop_all_levels` | calls and boundaries match; nothing is thrown that is not caught |
| Table of macros (`Mactab`, `txparser.cpp`) | macros with reference counts | `\def`, `\let`, restoration, end code of environments | counts kept by hand | a macro lives exactly as long as something refers to it |
| Expansion (`txparser.cpp`, `Macro.h`) | the pending tokens, the active calls, `scanner_status`, `long_state` | definitions, calls with arguments, `\edef`, `\csname`, `\expandafter`, prefixes, `\@ifstar` | calls that read while they expand take tokens from one list and put some back; delimiters that break off; `\outer` commands anywhere | an argument is the one TeX defines; `\edef` holds the full expansion; braces balance in what is stored |
| Conditionals (`Condition.cpp`, `txparser.cpp`) | the condition stack, the tokens | `\if…`, `\else`, `\or`, `\fi` | tests that contain conditionals | the branch that is read is the one selected; reading ends |
| Input (`txscan.cpp`, `LineList.cpp`) | stack of files, line, pending tokens, flags | `\input`, `\scantokens`, `\endinput`, `\endallinput`, `\everyeof` | one flag for all files, pending tokens put aside | text comes in document order; unfinished definitions are reported; reading ends |
| XML stack and fonts (`Stack.cpp`, `FontInfo.cpp`, `txtranslate.cpp`) | stack of open elements, mode, current font, text buffer | paragraphs, fonts, sections, lists, notes, boxes | text buffered across font changes; dummy elements; modes saved with elements | elements close in order, text is in its font |
| Arrays (`NewArray.cpp`, `ArrayInfo.cpp`, `Parser.cpp`, `txtranslate.cpp`) | the templates of the columns, rows, the current cell | preamble with column types, `&`, `\\`, `\multicolumn`, `\omit`, `\hline`, `\cline` | a column is finished when the next one begins; spans; rules that belong to a row that is not there yet | columns are what the preamble says, a cell uses the template of the column it stands in, rules are kept |
| Numbers and expressions (`ScaledInt.cpp`, `ScanSlot.cpp`, `Token.cpp`, `txscan.cpp`) | the tokens, the stack of slots of an expression, the loop of `scale` | `scan_int`, `scan_dimen`, `scan_expr`, `ScaledInt::scale` | overflow at every step, rounding, parentheses and signs | the mathematical value or an error; the text after the number is untouched |
| Floating point (`txfp.cpp`) | a stack | decimal arithmetic | carries, 36 digits | the exact value |
| Labels and counters (`Stack.cpp`, `txpost.cpp`, `txtranslate.cpp`, `txparser2.cpp`) | the current anchor `cur_lid`, `labinfo`, `ref_list`, `refindex_list`, counters, `\@currentlabel` | `\label`, `\anchor`, `\ref`, `\index`, `\refstepcounter` | two scopes, elements and groups, restored at different moments; forward references; elements that vanish | every reference meets one element, whose number is the current label |
| Tokenizer (`txscan.cpp`, `Hashtab.cpp`) | state N, M, S; hash table | next token, `^^` | states at line ends | spaces and `\par` as in TeX |
| Mathematics (`txmath*.cpp`, `MathP.cpp`) | the formula | reading, conversion to MathML | nested environments, delimiters | a tree conversion |
| Bibliography (`Bibtex.cpp`, `BibEntry.cpp`, `Bibliography.cpp`, `Parser.cpp`) | citations, entries, strings | `\cite`, `\nocite`, `\bibitem`, `\XMLsolvecite`; reading, `crossref`, sorting, labels | citations before, after or without what solves them; references between entries in any order | one id for one citation, the right entries with the right fields, labels that tell entries apart |
| Classes and packages (`txclasses.cpp`, `KeyAndVal.cpp`) | what is known of each package, the global options, the package of the current file | `\usepackage`, `\documentclass`, `\DeclareOption`, `\ProcessOptions`, hooks | packages read each other; options come from four sides; a command that looks ahead may end the file | packages are read once, where they are asked for; each option is executed once or reported |
| Key-values, expl3 (`xkeyval.cpp`, `txl3.cpp`) | keys | `\setkeys` | order of keys | each key once |
| XML post-processing, title page, buffers, tables of primitives, main program | trees, strings | sequential passes | little | – |

The components call each other directly and share state: a closing brace calls
`pop_level`, whose destructors may finish a box (XML stack), select a font (XML
stack) or put tokens back (input); a conditional or a macro that is expanded
reads from the input; an argument is translated by a nested call of the
translator, which puts the pending tokens aside (frames, input).

Each entry of `components` in `PROJECT.json` has the status and the reason for
what is left out; `hazards` lists where the code can go wrong and which property
would show it.

## 2. Modules

    Scopes  <--implements--  SaveStack  <--EXTENDS--  MacroTable
                                    ^---- EXTENDS ---- DocumentFrames

    Scale, ScanNumbers  <--EXTENDS--  Expressions

    InputStack  <--EXTENDS--  Packages

    Conditions    Expansion    XmlStack    Labels    Tables    Bibliography

    StackLemmas, SaveStackProofs, FrameAndMacroProofs, ConditionsProofs, ScaleProofs,
    LabelsProofs, XmlStackProofs, BibliographyProofs:  theorems (section 4)

    MC<module>.tla + MC<module>[_<run>].cfg instantiate each of them for TLC

**`Scopes`** is what groups promise, without a stack of old values: every open
group has its own value of every name.  A local assignment changes the innermost
group, a global one all of them, closing a group forgets it.

**`SaveStack`** is how the code does it.  `eqtb` stands for `eqtb_int_table`,
`box_table`, the table of commands and so on, which all follow the pattern
"push when `must_push`, then overwrite".  `saveStack` holds the items of
`SaveAux.h`.  Closing a group is *not* atomic: `pop_level` sets `popping` and
each item is one action `Pop…`, whose effect is that of its destructor, since a
destructor reads and writes what the others will see (`SaveAuxBoxend` leaves a box
that is stored when the boundary is destroyed, one level further out).  The tokens that
commands put back (`back_input`) wait in `TL`.  The refinement `ImplementsScopes`
maps the stack to the scopes of the groups (`ScopeOf` reads the values, the font, the box and
the tokens of a group off the stack, as they will be when `pop_level` is done) and is the property `ScopesAreImplemented` of the run
`save_scopes`.

**`MacroTable`** adds to it the table of macros and the reference counts that
`mac_define`, `eq_define`, `M_let` and `~SaveAuxCmd` keep.  `CmdKeys` now hold macros.

**`DocumentFrames`** adds the C++ calls: `calls` is the stack of active
`T_arg_local`, `special_tpa_arg` and `translate_all`.  `EndOfData` is an
action-by-action unwinding, and `pop_all_levels` is modelled with what
`pop_back` does when a destructor pushes an entry on the same vector: the
slot that is null afterwards is one of the outcomes a build may show.

**`Expansion`** is how macros are defined and called.  A token is a character, a command or
a parameter; `TL` is what the program has still to read, and `calls` is the stack of the C++ calls
that are active because they *expand while they read*: `\expandafter`, `\csname`,
`\@ifundefined`, `\edef` and the prefixes.  Each of them takes one token per action, and so the
model shows what the inner call leaves to the outer one.  What reads without expanding
(parameters of a definition, delimited and optional arguments, `\@ifstar`) is one action:
a record `r` of the reader (tokens, current token, status, what was read, whether it gave
up) is threaded through operators with the names of the C++ functions.  The
reference definitions are big-step: `Matched` says which arguments a text has, by the
shortest prefix that is balanced and followed by the delimiter, and `FullText` what a
body expands to, neither with a list on which tokens are put back.

**`Conditions`** reads a text of tokens with the stack of `Condition.h`.  Nested
calls of `E_if_test` are activations on a stack of their own, each with the
position `sz` of its entry, so that the model shows what an inner conditional,
or an `\else` in a test, does to the outer one.  The tests themselves are
`\ifodd` and `\ifcase` of one digit.

**`InputStack`** has the files as sequences of lines of tokens, the input stack
with everything `push_input_stack` saves, the flags `force_eof`, `require_eof`
and `every_eof`, and the restricted translation of arguments (`T_translate`,
`SaveState`) and of lists of tokens (`tokenize_buffer`).  What happens when a file ends depends on
what is being read and on the package of the file, and so `pop_input_stack` and `EndOfInput` have
parameters, and the next-state relation is that of `Packages`.

**`Packages`** adds the classes and packages: `cur_file_pos` says whose file is read, the token
commands declare, pass, process and execute options, and `EndOfFile` is `pop_input_stack` with the
hook and the warning of `insert_hook`.  A command that looks for a star, a date or an argument is two
actions with `call` between them, since reading the next token may end the current file.  A package is
a name; an option is a key, with or without a value.  The loops of the code that look for the first
match in a vector are set expressions (`check_local_options`, `check_all_options`, `Used`).  The meaning in
`MCPackages` is that of the documentation: it reads the files one after the other, also those of one `\usepackage`,
without a stack of files or a token list, and says from the sets of given, global and declared options which ones
are executed, and which ones no one declares.  The documents leave out where the program does something else (section 3, *Inputs*, and section 6).

**`XmlStack`** has the stack of frames, the modes, the paragraphs, the current
font in its three forms (current, selected, old) with the level of its last
change, the fonts on the save stack, and the text buffer.  Commands with an
argument are two actions, the beginning and the end of the handler, and the
argument is whatever comes between them.

**`Scale`** is `ScaledInt::scale`, which computes `x*n/d` rounded without a wider
integer: the signs are taken off, the part of the answer that needs no product is
put aside, and a loop halves `n` while it doubles or carries what is left.  One
action per stage and one per turn of the loop.

**`ScanNumbers`** reads one number from a sequence of tokens: optional signs and
spaces, the three radices, registers, the decimal fraction of a dimension with its
rounding (`RealNumber`), units (proportional, font relative, `pt`, `sp`, and the
parameter of a unit that is a register), the checks against `MaxInteger` and
`MaxDimension` at each digit, and what remains to be read.

**`Expressions`** adds `scan_expr`: the explicit stack of `ScanSlot`, the operator
that waits for its second operand, the sum and the product that are kept apart so
that priorities come out, and the delayed multiplication `a*b/c`, which is a call
of `Scale`.  A document is one assignment: `\count0=`, `\dimen0=`, `\numexpr` or
`\dimexpr`.

**`Labels`** has the tree of elements with their anchors (`id` and `id-text`) and the
text as one mark, the XML stack with the saved `cur_lid`, the groups with their
`\@currentlabel` and list counter, the counters with their reset lists, and the tables
of labels, references and index entries, which `after_main_text` joins.  It repeats
from `XmlStack` what pushes and pops elements, since it needs the tree that `XmlStack`
leaves out, and leaves out the fonts.  The state of one element or of the stack is a
record `x`, so that the C++ calls of a handler compose as operators.

**`Tables`** has the preamble as a sequence of items, which `test_pach` classifies by the
one before as the code does, the templates it makes (`AI`, one per open table, since a cell may hold a
table), and the tables, rows and cells in the order of their creation.  `start_a_row` is a loop
over the rules that follow a `\\`, one action for each, as a row may be created or taken
away by each of them.  A column is described a second time by
`Specified`, from the preamble alone.

**`Bibliography`** has the citations with their ids and the elements that solve them while
the document is read, then the databases item by item (`read`), and at the end the pass
of `Bibtex::work`: cross references, sort keys and labels, which is one action as nothing
can come between; the entries are put into any order that `std::sort` may give (`Sorted`).  The loops over citations,
fields and entries are recursive functions of the position.  A key is a name and its case, a field a number (empty when 0), a label
the first letters of the author and the last digits of the year: what the comparisons of the code
look at.

How to read a module: state, helpers and actions have the names of the C++ symbols
where there is one; the `map` of `PROJECT.json` gives the lines.  Definitions whose
comment begins with "Variant for a mutant" are plausible bugs of one definition and
are used only to see that a property can fail.

## 3. Runs

Bounds are in the `.cfg` files and in the sets `Documents` of the MC modules: an
element of it says what one document uses (names, commands, kinds of groups) and how
deep it nests.  It is chosen in the initial state, so that one run checks all
the documents, each only as deep as its question needs.  The bounds are guards of the
actions that would go beyond (`MaxLevel`, `MaxStack`, `MaxInput`, `MaxCalls`, `MaxMacros`,
`MaxDiv`, and `Bounded` of `Labels`); nothing else is bounded.  `MistakeKinds` of `DocumentFrames` names the
things an author may do that the code does not survive; a document has the set of
those its author makes, and the properties say what each of them costs.

| Run | Question | Bounds, and why they suffice |
|---|---|---|
| `save_scopes` | do assignments, fonts, environments, boxes and `\aftergroup` follow the scopes? does the level count the groups, is an entry saved once for each? | one word with two values in three nested groups (an old value can come from the level, from an outer one, or be stale after a global assignment); a command and a word, a box and a word, a box and two fonts (two pushes by different ways at one level, a box in a group in a box); two environments, two kinds of groups and three waiting tokens (orders of tokens and names differ) |
| `frames` | do calls and groups match, is everything caught that is thrown, is the name of the environment the innermost one? | three nested calls without mistakes; two with a subset of the mistakes; boxes and commands apart |
| `macro_refs` | reference counts | three macros (an index is never used again), two commands, two nested groups, one environment |
| `macro_end` | does the end code of an environment exist when it is used? | counterexample, section 6 |
| `expansion` | are arguments the ones TeX defines? is `\edef` the full expansion? do `\outer` commands stay out of what is read as a whole? do braces balance in what is stored? | definitions of every form with every text of at most four tokens after the call; bodies of `\edef` and forbidden commands of three pieces, each a command that reads while it expands or what it could read; parameters of four tokens of five; three flags or looks ahead: two calls that share tokens, and a third thing that one of them leaves to the other |
| `conditionals` | is the branch that is read the one selected? does reading end? | every text of at most five of seven tokens, and every conditional with a conditional in its test or in a branch, against a recursive meaning |
| `input_files` | is the text that of the files in their order, are packages read once with their options, is every option executed once or reported? ends of files in definitions | three files with two commands on their first lines and a second line each; definitions of five forms that span files; a class and a package with up to two given, two global and three declared options out of five, every handler, and a star where the option that is declared first is not global; a class, two packages and a file of `\InputClass` that ask for each other in every combination of five forms (two packages in two commands, an option that is passed before and given, a package asked for again by another); files that end while a command looks ahead; all against a recursive meaning |
| `xml` | is text in its font, do elements close in order, without a paragraph in a paragraph? | two attributes with two open commands of any kind; four open commands without fonts; three open groups with changes of font, with and without the packing of fonts |
| `numbers` | is the value the exact one, or an error? | see below |
| `labels` | is the current anchor that of the innermost element, does it agree with the current label, do numbers count, do references meet one element? | documents of five to eleven elements with up to three open commands: sections with and without star five deep in sequence (a reset needs two sections with a subsection each), lists in lists and notes with second items, boxes made at one place and used at another, anchors and an index, commands of users |
| `tables` | are columns what the preamble says? does a cell use the template of the column it stands in? are rules kept, and under the columns they name? | preambles of two columns with everything that may stand before, between and after them; column types that use each other; a row of cells with spans of one and two columns, wide, omitted and empty; a table in a cell; two rules and a cell that spans |
| `bibliography` | are ids unique, citations solved or reported, the right entries printed with their own fields and the parent's? do labels tell entries apart? | three citations and two elements that solve them, in any order, one key in capitals; files of three items out of seven, in every order: a child, its parent, a duplicate, an unknown type, a string, a file cut off; three entries with labels that are equal or not |

*Widths of numbers.*  The constants `MaxInteger`, `MaxDimension`, `Unity`, `HalfWord` and
`FractionDigits` are 2^31-1, 2^30-1, 2^16, 2^15 and 17 in the code, and 127, 63, 16, 8 and 2
in the run: still `MaxInteger = 2*MaxDimension + 1` and `MaxDimension + 1 = HalfWord^2`, a
whole number of units, so that every check can succeed and fail just at its bound.
`WidthAssumption` says what is needed of them.  Documents are constants next to each
bound, all units, and expressions of up to four operations with parentheses; the
definitions `ExpressionIsExact` and `NumberIsExact` compare them with a meaning that
is computed with unbounded integers from the structure of the document and not from
its tokens.

*Deadlock.*  `CHECK_DEADLOCK FALSE` is set where the system stops: at the end of the
document (`Conditions`, `Packages`, `Expansion`, `XmlStack`, `Expressions`, `Bibliography`, and `Labels` and `Tables`, also at their bounds), or after an exception that
nothing catches (`DocumentFrames`).  `SaveStack` and `MacroTable` never stop.

*Fairness.*  Liveness is claimed for `Conditions` and `Packages` (with `InputStack`) only
(`Terminates`), under weak fairness of the whole next-state relation: the program
has one thread, which does not wait for anything, so the next step is always
taken.  No fairness is assumed between alternatives.

*Inputs.*  `InputStack` reads documents in which no definition is begun and no file is opened inside an
argument.  `Packages` has no option that is given twice to the class or declared twice, and passes options
only before the package is read; the last command of a file looks ahead only in `EndingDocuments`, of which
the run asks that they are read to the end.  The documents of `PackagesAreReadAsMeant` and
`UnusedAreReported` name one package with a file in each `\usepackage`, and with a star no option that is both global and declared first;
`UnusedAreReported` leaves out those where an option that is given has the key of another one that is global (`KeysMeet`).  `XmlStack` reads balanced documents (wrong closings are those of
`SaveStack`), does not distinguish empty paragraphs from others, and has neither
color nor sizes of fonts; `cur_centering` is never 1.  `Labels` reads balanced documents
too; labels are defined where an anchor is in scope unless the document has
`"outOfScope"`, boxes are used unless it has `"boxLost"`, and sections are not in
groups unless it has `"sectionInGroup"`: each property says which of these it excludes.
`\anchor*` and `\refstepcounter*` may put a second id on an element that has one, which
loses the first, and so `CurrentAnchorIsInScope` and `ReferencesMeetAnchors` exclude
them; `ReferencesMeetAnchors` also excludes an anchor on a paragraph that a note takes out.
`Expansion` reads documents whose definitions are complete (the null token at the end of the
data is not modelled) and without `\the`; `OuterStaysOut` excludes bodies of `\edef`
with a command that reads arguments.  `Tables` has preambles that begin with a bar or have none, and no `@`
after a column.  `Bibliography` has no two labels that differ only by case, no string that is cut
off, and no parent with a parent of its own.  Section 6 says what happens otherwise.

## 4. Proofs

What is proved holds for every set of names, values, fonts, kinds of groups, environments and
macros and for every bound.  The assumptions are those of the modules (`BoundsAssumption`,
`NamesAssumption`, `MacrosAssumption`, `AuthorsAssumption`, `TextsAssumption`, `DocumentsAssumption`, `BibliographyAssumption`), which TLC evaluates
in the runs.  Two parts of them came with the proofs (and `BibliographyAssumption`, which gives the types of keys, fields and items): `CmdKeys` is finite, so that references can be counted (the hash table of the
code has a fixed size), and the kinds of groups that `push_level` is called with are not `bt_impossible`, which no caller gives it.  `StackLemmas` has what the components share: pushing and popping, the greatest and the
least position of a set, the rank of an element among those of its kind (`RankAppend`, `RankFront`), and recursion:
a loop of the code is a recursive function in the model, and that there is
a function that satisfies such a recursion is itself a lemma (`RecursionExists`), proved by the least number for
which there is none, with `RecursionStays` for what each turn preserves.

**The save stack** (`SaveStackProofs`):

* `TypeCorrect`: `Spec => []TypeOK`,
* `LevelCountsGroups`: `Spec => []LevelIsDepth` - `cur_level` is one more than
  the number of boundaries on the save stack,
* `LoopIsNeverEmpty`: `Spec => []LoopMeetsBoundary` - while `pop_level` pops, there
  is a boundary on the stack, so its "Internal error: empty save stack" is dead
  code,
* `EntriesAreSavedOnce`: `Spec => []SavedOncePerGroup` - one entry is saved for each group, and
  the outermost is global or initial,
* `EnvironmentsAreNamed`: `Spec => []EnvNameIsInnermost`.

The invariant of the first three is `IInv`, their conjunction.  None is inductive alone:
the level is changed by the destructor of a boundary only, so that `LevelIsDepth`
needs to know that the loop meets one, and this needs the level to be above 1
when a group is closed; both need the types of the items.
`SavedOncePerGroup` reads the entries from the table downwards.  When a destructor takes the last item away,
or an assignment screens the items below by a global value, all of that changes; and nothing in it
speaks of the items below a global entry, which become visible to no one but stay on the stack.  `Chain` says it of one
name and of *consecutive* items of any stack and level: the table is one level above the group of the last
item, each item was made in the group of the item below it, until one is met that is global.  Pushing and
popping change one link (`ChainPushed`, `ChainPopped`); `ChainedIsSavedOnce` goes back to the property.
`EnvChain` is the same for the names of environments.

**The scopes** (the last part of `SaveStackProofs`): `SaveStackImplementsScopes`: `Spec => ImplementsScopes`, for
every set of names and every bound.  The one hypothesis is that the last register is not among those of the
document: `box_end` takes it for "no register", and a local `\setbox` of it is lost (section 6).  The mapping reads
the scope of a group from the place where its values are hidden by later items, so that every item
that is pushed or popped may change what is read of every group.  The proof therefore first has the
mapping as an operator of any stack, table and font, `ViewOf`, and lemmas about one item that is pushed
onto a stack: it changes the scope of the last group as an assignment does, or not at all.  A command uses them in
one direction, a turn of `pop_level` in the other, where the stack without the item is the new one.
Then each command is an action of `Scopes`, a turn of the loop is a stutter, and the turn that
destroys the boundary closes the group and stores its box.  The invariant `RInv` adds to `IInv` and `Chained`: the
fonts are a chain of the same sort (`FontChain`), the item of an environment or a box lies directly on the boundary
of its group (`Opened`), and a box that is finished waits only when the boundary is the last item, so that no
other destructor can come between.

**Macros** (the last part of `FrameAndMacroProofs`): `MacrosAreCounted`: `MSpec => []ReferencesCounted`.  The invariant `MInv` has `IInv`,
the types of the values (a saved meaning is a macro of the table or none) and `Counted`: the
count is the *number* of commands and of saved items that refer to the macro, and the macro is there
if this is not 0.  The proof follows the two halves of `eq_define` and of the destructor separately, what they do to
the counts (`incr_macro_ref`, `delete_macro_ref`) and what they do to the references; that they agree, also when the
old and the new meaning are the same macro, is the theorem.

**Conditionals** (`ConditionsProofs`): `ActivationsKeepTheirEntries`: `Spec => []CallsOwnEntries`, for every text.  The
invariant `CInv` adds the types of the two stacks and that `\ifcase` skips only while branches are left
to be skipped: otherwise a `\fi` would end a conditional whose activation is still reading.

**Frames of the document** (`FrameAndMacroProofs`):

* `DocumentsDoNotCrash`: `FSpec => []NoCrash` - an exception is caught and no null entry is left, but for the
  mistakes that `NoCrash` names,
* `FramesKeepEnvironments`: `FSpec => []EnvNameIsInnermost`, which `pop_all_levels` and exceptions could break,
* `FramesKeepTheLevel`: `FSpec => []GroupLevelIsDepth` and `CallsKeepTheirBoundaries`:
  `FSpec => []CallsMatchBoundaries`, for documents without mistakes.

Two invariants.  `FInv`, for all documents, says that what is thrown is caught: `Caught` counts the
boundaries of title page arguments, which throw, and the calls that catch (one each, with one to spare between the throw and
the catch), whatever else the author closes in the wrong order; this is enough without knowing which call belongs to which
boundary.  `Orderly`, for documents without mistakes, says that: the n-th boundary of an argument belongs to the n-th call,
and the level is right up to what the code still has to do at each value of `pc` (between the throw and
the return of `T_end` the call is gone and its level is not yet lowered).  `EnvOpened` is needed for a call
that is ended by `\end`: the boundary under the name of an environment is that of the environment.
To be inductive `NoCrash` had to be stated with *which* mistake costs what: an argument that ends in a title page
argument an exception, a stop in a group a null entry.

**Scaling** (`ScaleProofs`), for all integers `x`, `n`, `d` and every limit:

* `ScaleIsExact`: `ScaleSpec => []ScaleRounds` - when `scale` is done, the answer is
  `x*n/d` rounded to the nearest integer, half away from zero, with its sign, or the
  overflow value exactly when that is larger than the limit,
* `LoopKeepsTheSum`: `ScaleSpec => []NothingIsLost` - what the comment of the loop says
  stays equal to what was asked for.

The invariant is `ScaleInv`: the types, `ArgumentsAreReduced` (inside the loop the
arguments are below `d`, so that the sums of the code are too), and the two
properties.  The loop is a division by doubling; each turn keeps the sum because of
`Halves`, and the answer follows at its end from `Quotient`, `QuotientIsUnique`
(a quotient is what lies between two multiples) and `AnswerIsExact`.  Integers are
unbounded in the proof.  The code computes with `long`, and `ArgumentsAreReduced` is
why that is no restriction: operands are below 2^31, sums and products of them below
2^62.

**Labels** (`LabelsProofs`), for every document, every depth of nesting and every number of elements:

* `AnchorsAreInScope`: `Spec => []CurrentAnchorIsInScope` - `\label` refers to the last anchor of the innermost open
  element that has one,
* `AnchorsShowLabels`: `Spec => []AnchorAgreesWithLabel` - the number at that anchor is `\@currentlabel`,
* `GroupsFollowCommands`, `StackFollowsCommands`: the invariants `Typed` and `Typed /\ Shape` from which these two follow.

Neither property is inductive: when a frame is popped, the anchor that was saved in it comes back, and that this is
the one in scope now must be known while it is hidden.  `Scoped` says it of every frame: the anchor above an
element on the stack is its last anchor, or that of the frame below when it has none.  That `pop` restores the right
one also depends on the tree: no element in the middle of the stack gets an anchor or loses one, so the invariant has
the order of creation (`Ordered`), what may lie on what (`Fitted`: para_aux pops one `div1` and one `div0` and must meet nothing
else) and that paragraphs, the only elements that are taken away, have no anchor of their own.  It holds for documents without
`\anchor*` and `\refstepcounter*`, as the property does.

The second property compares two scopes that are opened by the same commands and kept by two stacks, which have other
entries in between: sections, items and paragraphs have a frame and no group, braces a group and no frame.  `Matched` pairs the
frame of the n-th open block with the n-th open command that makes one, and `Agrees` says for every
pair that the anchor below the frame shows the number of the group around the command, and that a group without
a block has the number of the group around it.  The end of a command then takes both back to a pair that agrees.
The steps on the tree and the stack are relations that compose (`Calm`, `Moves`, `Goes`, `Flows`, `Opens`, `Shuts`); an action of the model is a chain of them.

**Elements** (`XmlStackProofs`): `ElementsNestHolds`: `Spec => [](Plain => ElementsNest)`, for every document, any depth of
commands and every level of divisions.  `Plain` excludes the two commands with which the property fails (section 6):
`\par` in an argument that is part of a line and `\noindent` in a box.  `ElementsNest` says that a pop finds the
element it expects; which one that is depends on the mode, since `leave_h_mode` pops a paragraph in horizontal mode,
whatever is on top.  `XmlInv` therefore has a table, `FitsOn`: what may be directly on top of an element, and in which
mode it was pushed, which is the mode that its pop restores.  Because the table speaks of neighbours only, a push or a pop
has one new pair to look at (`NestedPush`, `NestedRest`), and what the rest of the stack may be follows: a note has
only a paragraph on top of it when it ends, a list a paragraph or an item (`AboveInner`), two paragraphs have a note, a
box or a list between them (`NestedPars`).  `Matched` says that the frames of commands and the open commands have the same
ranks.  The dummy frames that show fonts come and go with every change of font, so the table is about the `Core` of the
stack, its solid frames at their positions, and a relation, `Alike`, says that all the font operations leave the core, the
mode and `badpop` alone.  `RestoreLevel` and `para_aux` are loops, to which `RecursionExists` and `RecursionStays` apply.

**Fonts** (`XmlStackProofs`), for documents in which no font command is in an argument that is part of a line, with which both
properties fail (section 6), and which are `Plain`:

* `TextIsInItsFontHolds`: `Spec => [](Plain /\ "fontInLine" \notin document.commands => TextIsInItsFont)`,
* `FontChangeShowsHolds`: `Spec /\ Plain /\ (Selected \/ Simple) => FontChangeShows`, where `Selected` excludes `\fontshape` too, and
  `Simple` excludes instead footnotes and the parts of lines, so that each document of the run is among them.

What shows is on one stack and what is restored on another, and the frames that show a font come and go while the levels stay.  The
invariant `FontInv` goes between them with a book that gives the font around each level of the save stack: the level has saved
this font, if it has changed it (`Chain`), and this font shows below the element of the command that opened the
level (`Framed`), even while a paragraph above it shows others.  So what `pop_level` restores is what the end of
the command uncovers.  A footnote puts the font aside and its end selects it once more, which saves the font of the note in the level that is
about to end (`Notes`); the part of a line keeps the font around it (`Steady`), and no list begins in it
(`Apart`).  At the top (`Right`) the current font is selected, the buffer has text in this font only, and it shows
if the innermost block is a paragraph.  The steps are relations: `Kept` leaves the fonts that show below alone, `SameFont` those in use,
`Redrawn` draws the font again.

With `\fontshape` what shows in a paragraph may be a font that is only prepared, and `FontInv` does not hold.  The second case has an
invariant of its own, `XmlLow`: between two commands the selected font is also the old one.  A command that selects
another font therefore finds that it has changed and calls `check_font`, and for the end of a group the relation `Tells` says
this of each restored font in turn.  What is popped between the two would take the font away again: this is why the end of a box, a title or a
list must be shown to be outside of paragraphs (`BlockIsTop`), and why footnotes and parts of lines are left out, which are not.

**Bibliography** (`BibliographyProofs`), for every document and all databases, with any number of citations, elements and entries:

* `IdsAreUniqueHolds`: `OwnIds => (Spec => []IdsAreUnique)` - no two elements of the document get the same id, be
  they made for a `\bibitem`, an `\XMLsolvecite` or an entry of a database,
* `CitationsAreSolvedHolds`: `OwnIds => (Spec => []CitationsAreSolved)` - the target of every `\cite` is in the end the id of
  an element, or the key was reported,
* `LabelsTellApartHolds`: `OwnIds => (Spec => []LabelsTellApart)` - labels are different after `work`, and no
  field is printed twice.

`OwnIds` says that no element that the author writes has an id of the form that `unique_bid` makes: an element `<p id="bid3">` that
solves a citation would have the id of a later entry, and the program does not look.  The documents of the run satisfy it.

The invariant `IInv` follows a citation on its way.  In the text (`TextOk`) its id is the target of
every `\cite` of its key, and the id of the element that solved it, if there is one (`Linked`).  `dump_bibtex` makes
an entry with this id, or reports the key, as another citation of the same key may already have an entry (`Dumped`): here the
induction over the table needs to know of each citation that was looked at that it is accounted for and
of the others that their ids are still free (`DumpOk`).  What is read from databases never changes the id, the key or the reason of an
entry (`Grows`, `Follows`), and neither do cross references (`Alike`); from then on
a target belongs to an element, an entry or a reported key (`CitationsKnown`), and `work` prints that
entry unless it is of unknown type, which reports it.  Through all of this, entries have ids that differ from
each other and from the elements, and those that come next are free (`Apart`).

For the labels, equal labels must be neighbours in the order that is sorted: between two entries with the same label only
such can lie, since `SortLabel` begins with the label up to its case, unless labels differ by case only.  Along such a
run the rank grows by one (`forward_pass`), and an entry without a letter is followed by no equal one (`reverse_pass`).

**Only model-checked.**  Liveness (`Terminates` of `Conditions` and `Packages`) is out of the reach of the prover.  So is what compares
a run with a recursive meaning of the document, which would need induction over the document:
`BranchesAreSelected`, `TextInOrder`, `PackagesAreReadAsMeant`, `UnusedAreReported`, `ExpressionIsExact`, `NumberIsExact`,
`EntriesAreSelected`, `FieldsAreInherited`, and all of `Expansion`, whose reference definitions are recursive operators.  The properties of `Tables`
depend on folds over sequences (the classification of a preamble), where the same holds.
`RunawayIsReported` is true of documents whose definitions are
of the forms of `MCInputStack` and not of every one (section 6).  Of `Labels`, `NumbersCount` needs a bijection between
the numbers of a counter and the elements that have them, in the order of a tree, and `ReferencesMeetAnchors`
is about what is reachable in the tree at the end, which is a recursion over it.

## 5. What is not modelled

Of the modelled parts: the conversions (`\the`, `\string`, `\number`), loops and `\let` in
`Expansion`; the tests of conditionals; encodings of files; tracing and the log;
attributes of elements other than anchors; anchors of figures, tables and formulas; glue, `mu` and
`fil` units, character constants and the commands `\advance`, `\multiply` and `\divide`; widths of
tables and their rules; packages that are built in, dates and the options of `kvoptions`; the characters of databases, the splitting of names and the text of
printed items.  Not at all: floating point, the tokenizer, mathematics, keys and values, expl3, the passes after the document, the title page.  `components` gives the reason for
each, section 7 the order in which they are planned.

## 6. Disagreements found

Each was reproduced with the program.  One has a run that ends in the
counterexample, and a finding in `PROJECT.json`: in `macro_end`, `\gdef\endfoo` in the environment
`foo` crashes at `\end{foo}`, because the item of the environment has no reference.

The others are outside of what the passing runs state; this is what to change to see
them:

| What happens | Change |
|---|---|
| a local `\setbox1023` loses its box: the last register is also where "no register" is kept (`txparser.cpp:4056`) | put `LastRegister` into `BoxKeys` (`save_scopes`) |
| an argument that ends inside a title page argument leaves a boundary whose `EndOfData` nobody catches: the program is aborted | state `NoCrash` without its exception for the mistake `list` |
| `\begin{document}` in a group is reported, and `\currentgrouplevel`, "the number of unclosed braces" (`docs/cmds/doc-c.rst:1852`), is 0 in the group and -1 after it; with `\end{document}` in a group (the mistake `stop`) `pop_all_levels` may leave a null entry on the stack | state `GroupLevelIsDepth` without its exception for mistakes, or `NoCrash` without `nullEntry` |
| `\footnote{x \input{a} y}`: the note ends at `x`, the rest comes after it (`txtranslate.cpp:107`) | let `Arg` of `MCInputStack` contain an `Input` |
| `\endinput\input a` closes `a` and not the current file; a file that ends in a definition made by a macro is not reported | leave the condition `Polite` out of `PoliteDocuments`, or `Mac` with `Edef` in `Definitions` |
| `\hbox{\noindent a}`: the box and the rest of the document are lost | put `"noindentInBox"` into a document of `MCXmlStack` (`ElementsNest`) |
| after `\textsuperscript{\it b}` the text is not in the current font | put `"fontInLine"` into `Polite` of `MCXmlStack` |
| `\fontshape` without `\selectfont` shows in the next paragraph; it is not saved in the group (`Dispatcher.cpp:441`) | ask `TextIsInItsFont` of the documents with `"ltfont"` |
| `'18` is read as 16: `Token::tex_is_digit` lets 8 pass for an octal digit | add the text `'18x` with the value 1 and the rest `8x` to `IntDocuments` (`numbers`) |
| `\dimen0=16383.999999pt` gives 16384pt without an error, since the check comes before the fraction is rounded | leave the condition `~RoundsUpTooFar` out of `MCDocuments` (`numbers`) |
| `{\section{A}}\label{a}`: the anchor is that of the section, `\@currentlabel` is restored | put `"sectionInGroup"` into the first document of `MCLabels`, and leave it out of the exceptions of `AnchorAgreesWithLabel` |
| `\label` before any anchor gets `uid1`, the id of the first anchor that comes, wherever it is | leave `"outOfScope"` out of the exceptions of `ReferencesMeetAnchors` (`labels`) |
| `\footnote{x\anchor*\label{a}}\ref{a}`: the target of the reference is on a paragraph that is taken out of the note, and no error is signalled | leave `"anchor*"` out of the exceptions of `ReferencesMeetAnchors` |
| `c\|r\|l`: in a preamble that does not begin with a bar, the first bar loses the column before it (`NewArray.cpp:272`) | add such a preamble to `MCTables` |
| `@{}` after a column loses the column, and `NewArray::attribs` leaks into the next table; `docs/array.rst` says that `@` and its argument are ignored | add `<<"at">>` with an argument to the preambles of `MCTables` |
| `\multicolumn{1}{l}` gets the alignment of the column, where `docs/cmds/doc-o.rst:250` says that it can change it | ask that a `multi` cell of one column has the attributes of its own preamble |
| a `\hline` next to a `\cline` on a row that is emptied is lost | ask in `RulesAreKept` that the row with the rule of an `\hline` still has cells |
| entries whose labels differ only by case may interleave, and then get no letter | leave `mixed` out of `LabelsTellApart` |
| an entry of unknown type stays undefined, and a later entry with the same key is merged with it | let `Read` of `Bibliography` keep the entry whose type is known |
| a parent with a parent of its own: what is inherited depends on the order of the entries | leave `Parents(parent) = {}` out of `FieldsAreInherited`, and give `Parent1` of `MCBibliography` a `crossref` |
| after a syntax error in a database the flag for the comma (`start_comma`) is stale | not modelled |
| a macro with an optional argument at the end of an argument that is translated alone vanishes: with `\newcommand\foo[1][x]{(#1)}`, `\footnote{a \foo}` gives `a` (`txparser.cpp:1430`) | not modelled (the end of the data) |
| a command that reads an argument in `\edef` leaves `scanner_status` normal, and an `\outer` command after it gets into the body; `docs/cmds/doc-o.rst:504` says that it is an error there | leave the condition `Forgets` out of `OuterStaysOut` |
| `\ProcessOptions` as the last command of a file: looking for the star ends the file, and the options of the package that asked for it are processed (`txclasses.cpp:477`); `docs/cmds/doc-d.rst:472` says that the code of the user-declared options is executed | let the file of `b` in `OptionDocument` of `MCPackages` end in `<<Process>>` (`PackagesAreReadAsMeant`) |
| `\ProcessOptions*` does not find the option that is declared first among the global ones (`txclasses.cpp:358`): its code is not executed, and it may be reported as unused; `docs/cmds/doc-p.rst:1241` says that these options are visible by every package | leave the condition `FirstIsGlobal` out of `OptionDocuments` in `MCPackages` |
| `\usepackage{a,b}` reads `b` before `a` (`txclasses.cpp:593`); `docs/changelog.rst:799` says that it is the same as `\usepackage{a}` and `\usepackage{b}` | add `<<Usepackage(<<>>, <<"a", "b">>)>>` to `Mains` in `MCPackages` |
| `\RequirePackage{x}` as the last command of a file: looking for the date leaves the end of file marker behind the pending tokens, and `\begin{document}` ends with "Runaway argument"; with `\RequirePackageWithOptions` the options are those of another package | in `OptionDocument` of `MCPackages`, let the file of `a` end in its `Usepackage`, and put the two tokens of `Begin` right after the `Usepackage` of `a` in `main`; for the options, let it end in `UseWithOptions("b")` |
| a global option handled by the code of `\DeclareOption*` of the class is reported as unused | let `UndeclaredIn` of `MCPackages` leave out the options that a handler was given for |
| `\documentclass[o,o=v]{c}` with `\usepackage[o=v]{a}`, where `a` declares `o=v`: this is executed, and `o=v` is reported as unused, since the mark goes to the first option with the key `o`; and with `\documentclass[o=v]{c}` and `\usepackage[o]{a}`, where `a` declares `o`, the unused `o=v` is not reported (`txclasses.cpp:736`) | leave the condition `KeysMeet` out of `UnusedAreReported` |
| the `\outer` command that is reported is lost, where TeX reads it again | let `check_outer_validity` of `Expansion` put it back |

## 7. Plan

Done: the save stack and its proofs, frames, macros, expansion, conditionals, input, the XML stack,
numbers with the proofs of `Scale`, labels with the proofs of the scopes of anchors, tables, the bibliography, classes and packages.  In this order remain:

1. `KeyValues`: `\setkeys` and the options of `kvoptions`.
2. `Tokenizer`: the states of a line and `^^`; the end of the data in `Expansion`, with `\the` and
   `\let`, composed with `MacroTable`.
3. Reading of formulas: nested environments, delimiters, `$` in text in formulas.
4. Anchors of figures, tables and formulas in `Labels`; glue in `Expressions`; the arithmetic of `fp` with
   a small base.
5. Proofs: `NumbersCount` of `Labels`, after sequences are read by position there, and for documents with mistakes what of `GroupLevelIsDepth` is left.
