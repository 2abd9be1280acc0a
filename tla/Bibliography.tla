---------------------------- MODULE Bibliography ----------------------------
(* Citations and databases.  \cite makes an element whose target is the id *)
(* of a citation; \bibitem and \XMLsolvecite solve a citation; when the    *)
(* document ends the others become entries (dump_bibtex), which are filled *)
(* from the databases, completed by cross references, sorted and labelled  *)
(* (Bibtex::work), and translated to the elements with these ids.          *)
EXTENDS Integers, FiniteSets, SequencesExt

CONSTANT Documents  \* the commands, the keys, the databases and the bounds of each document

VARIABLES
  document,        \* the index of the document
  phase,           \* "text", "read" or "done"
  citation_table,  \* the citations: key, from, id and the element that solves it
  nocite,          \* \nocite{*} was seen
  omitcite_list,
  biblio_src,      \* the databases: sequences of items
  unread,          \* what is still to be read of them
  last_bid,        \* Bibliography::last_bid
  refs,            \* the targets of the elements that \cite made
  ids,             \* the ids of the elements that solve a citation, as they are given
  macros,          \* the strings: a value, or 0
  all_entries,
  output,          \* the entries in the order of the bibliography
  reported         \* keys of citations and entries for which there was an error

vars == <<document, phase, citation_table, nocite, omitcite_list, biblio_src, unread, last_bid,
          refs, ids, macros, all_entries, output, reported>>

Uses == Documents[document]
Allowed(c) == phase = "text" /\ c \in Uses.commands

-----------------------------------------------------------------------------
(* Keys, types and fields.  A key is a name with a case; a field is a      *)
(* number, zero when it is empty.  A database is a sequence of files that  *)
(* are not empty; its items are strings, and entries with their fields.    *)

Lower(key) == key[1]

Unknown == "unknown"
Types == {"article", "book", "inproceedings", "proceedings", "misc", "phdthesis"}
find_type(s) == IF s \in Types THEN s ELSE Unknown

Names == {"key", "author", "editor", "title", "booktitle", "journal", "year", "type", "note"}
NoFields == [n \in Names |-> 0]

Key == Int \X Int
Field == [name : Names, value : Int] \cup [name : {"crossref"}, value : Key]
Item == [type : {"string"}, name : Int, value : Int, eof : BOOLEAN]
          \cup [type : STRING \ {"string"}, key : Key, fields : Seq(Field), eof : BOOLEAN]

ASSUME BibliographyAssumption ==
  \A d \in DOMAIN Documents :
    /\ Documents[d].citations \in Nat /\ Documents[d].solved \in Nat
    /\ Documents[d].keys \subseteq Key /\ Documents[d].strings \subseteq Int
    /\ Documents[d].databases \subseteq Seq(Seq(Item) \ {<<>>})

NoId == <<"none", 0>>
NoKey == <<0, 0>>
None == 0   \* no entry

BibEntry(key, why, id) ==
  [key |-> key, why |-> why, id |-> id, type |-> Unknown, fields |-> NoFields,
   parent |-> NoKey, crossref |-> None, explicit |-> FALSE]

\* unique_bid, from the last one.
Bid(n) == <<"bid", n + 1>>

-----------------------------------------------------------------------------
(* Citations in the text.                                                  *)

Unsolved(item) == item.solved = NoId
Citation(key, from) == [key |-> key, from |-> from, id |-> NoId, solved |-> NoId]
Matching(key, from) == { i \in DOMAIN citation_table : citation_table[i].key = key /\ citation_table[i].from = from }
MatchingStar(key) == { i \in DOMAIN citation_table : citation_table[i].key = key /\ Unsolved(citation_table[i]) }
First(S) == CHOOSE i \in S : \A k \in S : i <= k

\* The place of a citation in the table with one more at the end; find_citation_star
\* takes any unsolved citation of the key.
find_citation_item(key, from) ==
  IF Matching(key, from) # {} THEN First(Matching(key, from)) ELSE Len(citation_table) + 1

find_citation_star(key, from) ==
  IF Matching(key, from) = {} /\ MatchingStar(key) # {} THEN First(MatchingStar(key)) ELSE find_citation_item(key, from)

With(n, key, from) == IF n <= Len(citation_table) THEN citation_table ELSE Append(citation_table, Citation(key, from))

\* get_id, in the table t.
IdOf(t, n) == IF t[n].id = NoId THEN Bid(last_bid) ELSE t[n].id
NextBid(t, n) == IF t[n].id = NoId THEN last_bid + 1 ELSE last_bid

Bound == Len(refs) + Cardinality(omitcite_list) < Uses.citations

entryVars == <<biblio_src, unread, macros, all_entries, output>>

\* \cite[from][]{key}
T_cite_one(key, from) ==
  /\ Allowed("cite") /\ Bound
  /\ LET n == find_citation_item(key, from)
         t == With(n, key, from)
     IN /\ citation_table' = [t EXCEPT ![n].id = IdOf(t, n)]
        /\ last_bid' = NextBid(t, n)
        /\ refs' = Append(refs, IdOf(t, n))
  /\ UNCHANGED <<document, phase, nocite, omitcite_list, ids, entryVars, reported>>

\* \nocite{key} and \nocite{*}
T_nocite(key) ==
  /\ Allowed("nocite") /\ Bound
  /\ citation_table' = With(find_citation_item(key, ""), key, "")
  /\ UNCHANGED <<document, phase, nocite, omitcite_list, last_bid, refs, ids, entryVars, reported>>

set_nocite ==
  /\ Allowed("nocite*") /\ nocite' = TRUE
  /\ UNCHANGED <<document, phase, citation_table, omitcite_list, last_bid, refs, ids, entryVars, reported>>

T_omitcite(key) ==
  /\ Allowed("omitcite") /\ Bound
  /\ omitcite_list' = omitcite_list \cup {key}
  /\ UNCHANGED <<document, phase, citation_table, nocite, last_bid, refs, ids, entryVars, reported>>

\* Variant for a mutant: a citation may be solved by several elements.
CannotSolve_again(item, own) == own /\ item.id # NoId

\* A citation is solved once; an element that has an id cannot solve one that was used.
CannotSolve(item, own) == ~Unsolved(item) \/ (own /\ item.id # NoId)

\* \bibitem{key}, which is with a star; \XMLsolvecite[elt][from]{key}, with a star or
\* not, for an element that may have an id.
solve_cite(key, from, star, my_id) ==
  /\ Allowed("bibitem") /\ Len(ids) < Uses.solved /\ my_id \notin ToSet(ids)
  /\ LET n == IF star THEN find_citation_star(key, from) ELSE find_citation_item(key, from)
         t == With(n, key, from)
         own == my_id # NoId
         id == IF own THEN my_id ELSE IdOf(t, n)
     IN IF CannotSolve(t[n], own)
        THEN reported' = reported \cup {key} /\ citation_table' = t /\ UNCHANGED <<last_bid, ids>>
        ELSE /\ citation_table' = [t EXCEPT ![n].id = id, ![n].solved = id]
             /\ last_bid' = IF own THEN last_bid ELSE NextBid(t, n)
             /\ ids' = Append(ids, id)
             /\ UNCHANGED reported
  /\ UNCHANGED <<document, phase, nocite, omitcite_list, refs, entryVars>>

-----------------------------------------------------------------------------
(* Entries.                                                                *)

SameLower(es, key) == { i \in DOMAIN es : Lower(es[i].key) = Lower(key) }

\* The exact key, else the last entry with this key but for its case, else None.
find_entry(es, key) ==
  LET same == { i \in DOMAIN es : es[i].key = key }
      lower == SameLower(es, key)
  IN IF same # {} THEN First(same) ELSE IF lower # {} THEN CHOOSE i \in lower : \A k \in lower : k <= i ELSE None

\* An entry that is created has a new id.
find_or_make(s, key, why) ==
  IF find_entry(s.entries, key) # None THEN s
  ELSE [s EXCEPT !.entries = Append(@, BibEntry(key, why, Bid(s.bid))), !.bid = @ + 1]

\* \bibitem of the language of bibliographies, which makes a <citation>.
exec_bibitem(key) ==
  /\ Allowed("citation") /\ Len(ids) < Uses.solved
  /\ LET s == find_or_make([entries |-> all_entries, bid |-> last_bid], key, "all")
         n == find_entry(s.entries, key)
     IN IF s.entries[n].type # Unknown
        THEN reported' = reported \cup {key} /\ UNCHANGED <<last_bid, all_entries, ids>>
        ELSE /\ all_entries' = [s.entries EXCEPT ![n].type = "article", ![n].explicit = TRUE]
             /\ last_bid' = s.bid /\ ids' = Append(ids, s.entries[n].id)
             /\ UNCHANGED reported
  /\ UNCHANGED <<document, phase, citation_table, nocite, omitcite_list, biblio_src, unread, refs, macros, output>>

\* Variant for a mutant: an entry has an id of its own.
dump_bibtex_new(s, item) ==
  IF ~Unsolved(item) \/ \E e \in DOMAIN s.entries : s.entries[e].key = item.key THEN s
  ELSE [s EXCEPT !.entries = Append(@, BibEntry(item.key, "cite", Bid(s.bid))), !.bid = @ + 1]

\* An entry for each citation that is not solved, unless its key has one already.
dump_bibtex(s, item) ==
  IF ~Unsolved(item) THEN s
  ELSE IF \E e \in DOMAIN s.entries : s.entries[e].key = item.key
       THEN [s EXCEPT !.reported = @ \cup {item.key}]
  ELSE IF item.id = NoId
       THEN [s EXCEPT !.entries = Append(@, BibEntry(item.key, "cite", Bid(s.bid))), !.bid = @ + 1]
       ELSE [s EXCEPT !.entries = Append(@, BibEntry(item.key, "cite", item.id))]

\* The citations one after the other.
Dumped(s) ==
  LET dumped[n \in 0 .. Len(citation_table)] ==
        IF n = 0 THEN s ELSE dump_bibtex(dumped[n - 1], citation_table[n])
  IN dumped[Len(citation_table)]

\* The end of the document; the databases that \bibliography named.
after_main_text ==
  /\ phase = "text" /\ phase' = "read"
  /\ biblio_src' \in Uses.databases /\ unread' = biblio_src'
  /\ LET s == Dumped([entries |-> all_entries, bid |-> last_bid, reported |-> reported])
     IN all_entries' = s.entries /\ last_bid' = s.bid /\ reported' = s.reported
  /\ UNCHANGED <<document, citation_table, nocite, omitcite_list, refs, ids, macros, output>>

-----------------------------------------------------------------------------
(* Databases.  An item is a string, or an entry with its fields, one after *)
(* the other; the file may end in an entry, which has the fields so far.   *)

\* A field is a literal, or the value of a string, if it is defined.
read_field(value) == IF value \in DOMAIN macros THEN macros[value] ELSE value

\* Variant for a mutant: the parent is printed too.
Creator_all == "all"

\* Why parse_crossref makes an entry.
Creator == IF nocite THEN "all" ELSE "crossref"

\* A cross reference makes the entry of its key, which may come later.
parse_crossref(s, n, key) ==
  LET t == find_or_make(s, key, Creator)
      y == find_entry(t.entries, key)
  IN IF y = n THEN t ELSE [t EXCEPT !.entries[n].crossref = y]

\* A field that has a value keeps it.
store_field(s, n, field) ==
  IF field.name # "crossref"
  THEN IF s.entries[n].fields[field.name] # 0 THEN s
       ELSE [s EXCEPT !.entries[n].fields[field.name] = read_field(field.value)]
  ELSE IF s.entries[n].parent # NoKey THEN s
  ELSE parse_crossref([s EXCEPT !.entries[n].parent = field.value], n, field.value)

\* The entry to fill, or None: an entry that is not wanted, or that was filled before.
Wanted(s, item) ==
  LET n == find_entry(s.entries, item.key)
  IN IF item.key \in omitcite_list \/ n = None \/ s.entries[n].type # Unknown THEN None ELSE n

see_new_entry(s, item) ==
  IF item.key \in omitcite_list \/ ~nocite THEN s ELSE find_or_make(s, item.key, "all")

\* The fields of an item are stored in the entry n.
store_fields(s, n, fields) ==
  LET stored[i \in 0 .. Len(fields)] ==
        IF i = 0 THEN s ELSE store_field(stored[i - 1], n, fields[i])
  IN stored[Len(fields)]

ReadEntry(s, item) ==
  LET t == see_new_entry(s, item)
      n == Wanted(t, item)
  IN IF n = None THEN t
     ELSE store_fields([t EXCEPT !.entries[n].type = find_type(item.type)], n, item.fields)

\* The first item of the first database; the file may end in an entry.
parse_one_item ==
  /\ phase = "read" /\ unread # <<>>
  /\ LET file == Head(unread)
         item == Head(file)
         left == IF item.eof THEN <<>> ELSE Tail(file)
     IN /\ unread' = IF left = <<>> THEN Tail(unread) ELSE <<left>> \o Tail(unread)
        /\ \/ /\ item.type = "string"
              /\ macros' = [macros EXCEPT ![item.name] = item.value]
              /\ UNCHANGED <<all_entries, last_bid>>
           \/ /\ item.type # "string"
              /\ LET s == ReadEntry([entries |-> all_entries, bid |-> last_bid], item)
                 IN all_entries' = s.entries /\ last_bid' = s.bid
              /\ UNCHANGED macros
  /\ UNCHANGED <<document, phase, citation_table, nocite, omitcite_list, biblio_src, refs, ids, output, reported>>

-----------------------------------------------------------------------------
(* The bibliography.                                                       *)

\* The fields of the cross reference, but for the key.
copy_from(es, n, y) ==
  IF es[y].type = Unknown THEN es
  ELSE [es EXCEPT ![n].fields = [f \in Names |-> IF @[f] = 0 /\ f # "key" THEN es[y].fields[f] ELSE @[f]]]

\* Variant for a mutant: the fields of the entry itself are lost.
un_crossref_all(es, n) ==
  IF es[n].crossref = None THEN es ELSE [es EXCEPT ![n].fields = es[es[n].crossref].fields]

un_crossref(es, n) == IF es[n].crossref = None THEN es ELSE copy_from(es, n, es[n].crossref)

\* The entries one after the other.
Completed(es) ==
  LET completed[n \in 0 .. Len(es)] == IF n = 0 THEN es ELSE un_crossref(completed[n - 1], n)
  IN completed[Len(es)]

\* Entries that the bibliography has.
Real(e) == e.type # Unknown /\ ~e.explicit /\ e.why # "crossref"

\* normalise: a year of two digits.
FullYear(y) == IF y \in 10..99 THEN (IF y > 50 THEN 1900 ELSE 2000) + y ELSE y

FullFields(fields) == [fields EXCEPT !.year = FullYear(@)]

\* sort_author: the authors, or the editors, which come first for proceedings.
Who(e) ==
  LET first == IF e.type = "proceedings" THEN "editor" ELSE "author"
      second == IF e.type = "proceedings" THEN "author" ELSE "editor"
  IN IF e.fields[first] # 0 THEN e.fields[first] ELSE e.fields[second]

\* presort: the label is the beginning of the names, of the field key, or of the key,
\* with the last two digits of the year; entries are sorted by it without regard to
\* case, and then by what follows.  A name is a number whose tens are its beginning, of
\* one length for all; names begin with a capital letter, keys as they are.
Upper == 1
Name(e) == IF Who(e) # 0 THEN <<Who(e), Upper>> ELSE IF e.fields.key # 0 THEN <<e.fields.key, Upper>> ELSE e.key
TwoDigits(e) == IF e.fields.year = 0 THEN -1 ELSE FullYear(e.fields.year) % 100
Label(e) == <<Name(e)[1] \div 10, Name(e)[2], TwoDigits(e)>>
SortLabel(e, serial) ==
  <<Name(e)[1] \div 10, TwoDigits(e), Name(e)[1], FullYear(e.fields.year), e.fields.title, serial>>

Less(p, q) == \E i \in DOMAIN p : p[i] < q[i] /\ \A j \in 1 .. i-1 : p[j] = q[j]

\* The rank of an entry among the ones that have the same label.
forward_pass(table) ==
  LET last_num[i \in 0 .. Len(table)] ==
        IF i <= 1 THEN 0
        ELSE IF Label(table[i]) = Label(table[i - 1]) THEN last_num[i - 1] + 1 ELSE 0
  IN [i \in DOMAIN table |-> last_num[i]]

\* Variant for a mutant: the first of several entries with the same label has no letter.
reverse_pass_first(nums) == [i \in DOMAIN nums |-> IF nums[i] = 0 THEN -1 ELSE 0]

\* The first of several has a letter too, but an entry that is alone has none (-1).
reverse_pass(nums) ==
  [i \in DOMAIN nums |-> IF nums[i] = 0 /\ ~(i < Len(nums) /\ nums[i + 1] = 1) THEN -1 ELSE nums[i]]

\* The fields that are printed, in their order (call_type_special, call_type).
format_author(e) == IF e.type = "proceedings" THEN <<>> ELSE <<"author">>
Middle(type) ==
  CASE type = "article" -> <<"journal">>
    [] type = "book" -> <<>>
    [] type = "inproceedings" -> <<"booktitle", "editor">>
    [] type = "misc" -> <<"editor", "booktitle">>
    [] type = "phdthesis" -> <<"type">>
    [] OTHER -> <<>>
AllFields(e) ==
  format_author(e) \o (IF e.type = "book" THEN <<"editor">> ELSE <<>>) \o <<"title">>
    \o (IF e.type = "proceedings" THEN <<"editor">> ELSE <<>>) \o Middle(e.type) \o <<"year", "note">>

\* Those that are not empty; a type has a default.
call_type(e) ==
  LET called[i \in 0 .. Len(AllFields(e))] ==
        IF i = 0 THEN <<>>
        ELSE LET f == AllFields(e)[i]
             IN IF e.fields[f] # 0 \/ f = "type" THEN Append(called[i - 1], f) ELSE called[i - 1]
  IN called[Len(AllFields(e))]

\* The orders that std::sort may give, by the places of the entries.
Sorted(es) ==
  LET real == { i \in DOMAIN es : Real(es[i]) }
      Before(i, k) == Less(SortLabel(es[i], i), SortLabel(es[k], k))
  IN { order \in Bijection(1 .. Cardinality(real), real) :
         \A i, k \in DOMAIN order : i < k => Before(order[i], order[k]) }

\* The items of the bibliography for a sorted table of entries.
Printed(table) ==
  LET extra == reverse_pass(forward_pass(table))
  IN [i \in DOMAIN table |->
       [key |-> table[i].key, id |-> table[i].id, label |-> Append(Label(table[i]), extra[i]),
        fields |-> FullFields(table[i].fields), printed |-> call_type(table[i])]]

\* Bibtex::work, and the translation of its result.
work ==
  /\ phase = "read" /\ unread = <<>> /\ phase' = "done"
  /\ LET es == Completed(all_entries)
     IN /\ all_entries' = es
        /\ \E order \in Sorted(es) : output' = Printed([i \in DOMAIN order |-> es[order[i]]])
        /\ reported' = reported \cup { es[i].key : i \in { k \in DOMAIN es : es[k].type = Unknown } }
  /\ UNCHANGED <<document, citation_table, nocite, omitcite_list, biblio_src, unread, last_bid, refs, ids, macros>>

-----------------------------------------------------------------------------

Init ==
  /\ document \in DOMAIN Documents
  /\ phase = "text" /\ citation_table = <<>> /\ nocite = FALSE /\ omitcite_list = {}
  /\ biblio_src = <<>> /\ unread = <<>> /\ last_bid = -1 /\ refs = <<>> /\ ids = <<>>
  /\ macros = [m \in Uses.strings |-> 0]
  /\ all_entries = <<>> /\ output = <<>> /\ reported = {}

Next ==
  \/ \E key \in Uses.keys :
       \/ \E from \in Uses.from : T_cite_one(key, from)
       \/ T_nocite(key) \/ T_omitcite(key) \/ exec_bibitem(key)
       \/ \E from \in Uses.from, star \in BOOLEAN, id \in Uses.ids : solve_cite(key, from, star, id)
  \/ set_nocite \/ after_main_text \/ parse_one_item \/ work

Spec == Init /\ [][Next]_vars

-----------------------------------------------------------------------------
(* Properties.                                                             *)

Done == phase = "done"
Distinct(s) == \A i, k \in DOMAIN s : s[i] = s[k] => i = k

\* An id is given to one element only: the elements that solve a citation and the
\* entries that are printed have different ids (unique_bid, get_id, make_entry).
IdsAreUnique == Distinct(ids \o [i \in DOMAIN output |-> output[i].id])

\* In the end, the target of each \cite is the id of an element, or an error was
\* signalled for its key (find_citation_item, solve_cite, dump_bibtex, work).
CitationsAreSolved ==
  Done => \A i \in DOMAIN refs :
    \/ refs[i] \in ToSet(ids) \/ \E k \in DOMAIN output : output[k].id = refs[i]
    \/ \E k \in DOMAIN citation_table : citation_table[k].id = refs[i] /\ citation_table[k].key \in reported

\* What is read of the databases, one item after the other.
Items == FlattenSeq([i \in DOMAIN biblio_src |->
           LET ends == { k \in DOMAIN biblio_src[i] : biblio_src[i][k].eof }
           IN IF ends = {} THEN biblio_src[i] ELSE SubSeq(biblio_src[i], 1, First(ends))])

IsEntry(i) == Items[i].type # "string"
Places(key) == { i \in DOMAIN Items : IsEntry(i) /\ Items[i].key = key }
Known(key) == { i \in Places(key) : Items[i].type \in Types }
Crossrefs(i) == SelectSeq(Items[i].fields, LAMBDA f : f.name = "crossref")
Keys == { Items[i].key : i \in { k \in DOMAIN Items : IsEntry(k) } }

\* No other key of the document differs from this one by its case.
AllKeys ==
  Keys \cup { citation_table[i].key : i \in DOMAIN citation_table } \cup { all_entries[i].key : i \in DOMAIN all_entries }
  \cup UNION { { Crossrefs(i)[k].value : k \in DOMAIN Crossrefs(i) } : i \in { k \in DOMAIN Items : IsEntry(k) } }
Plain(key) == \A k \in AllKeys : Lower(k) = Lower(key) => k = key

Explicit(key) == \E i \in DOMAIN all_entries : all_entries[i].key = key /\ all_entries[i].explicit
Cited(key) == \E i \in DOMAIN citation_table : citation_table[i].key = key /\ Unsolved(citation_table[i])
Selected(key) == (nocite \/ Cited(key)) /\ key \notin omitcite_list /\ ~Explicit(key) /\ Known(key) # {}

\* The bibliography has the entries that are cited, or all, but those that are omitted,
\* once each; parents of cross references do not count (see_new_entry, parse_crossref).
EntriesAreSelected ==
  Done => \A key \in Keys : Plain(key) =>
    Cardinality({ i \in DOMAIN output : output[i].key = key }) = IF Selected(key) THEN 1 ELSE 0

\* The value of a field where it is read, and the first value of a field of a key.
Value(i, v) ==
  LET before == { k \in 1..i-1 : ~IsEntry(k) /\ Items[k].name = v }
  IN IF v \notin Uses.strings THEN v ELSE IF before = {} THEN 0 ELSE Items[CHOOSE k \in before : \A l \in before : l <= k].value
Read(key) == { i \in Places(key) : Known(key) # {} /\ i <= First(Known(key)) }
Own(from, key, f) ==
  LET given == FlattenSeq([i \in DOMAIN Items |->
                 IF i \in Read(key) /\ i >= from
                 THEN LET of == SelectSeq(Items[i].fields, LAMBDA g : g.name = f) IN [k \in DOMAIN of |-> Value(i, of[k].value)]
                 ELSE <<>>])
      values == SelectSeq(given, LAMBDA v : v # 0)
  IN IF values = <<>> THEN 0 ELSE values[1]
Full(f, v) == IF f = "year" THEN FullYear(v) ELSE v
Parents(key) == { i \in Read(key) : Crossrefs(i) # <<>> }
Parent(key) == Crossrefs(First(Parents(key)))[1].value

\* An entry has its own fields, the first ones that are given, and the others from its
\* parent, if that is cited or comes later and has no parent itself (store_field,
\* parse_crossref, un_crossref).
FieldsAreInherited ==
  Done => \A i \in DOMAIN output : LET key == output[i].key IN
    Plain(key) => \A f \in Names \ {"key"} :
      LET parent == Parent(key)
          from == IF nocite \/ Cited(parent) THEN 1 ELSE First(Parents(key))
          inherits == parent # key /\ Plain(parent) /\ ~Explicit(parent) /\ Parents(parent) = {}
          read == \E k \in Known(parent) : k >= from
      IN output[i].fields[f] =
           IF Own(1, key, f) # 0 \/ Parents(key) = {} THEN Full(f, Own(1, key, f))
           ELSE IF parent \in omitcite_list \/ ~read THEN 0
           ELSE IF inherits THEN Full(f, Own(from, parent, f))
           ELSE output[i].fields[f]

\* Labels tell the entries apart, unless some of them differ only by case, and no
\* field is printed twice (forward_pass, reverse_pass, call_type).
LabelsTellApart ==
  LET labels == [i \in DOMAIN output |-> output[i].label]
      mixed == \E i, k \in DOMAIN output :
                 labels[i][1] = labels[k][1] /\ labels[i][2] # labels[k][2] /\ labels[i][3] = labels[k][3]
  IN (mixed \/ Distinct(labels)) /\ \A i \in DOMAIN output : Distinct(output[i].printed)
=============================================================================
