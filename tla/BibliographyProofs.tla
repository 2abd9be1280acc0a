------------------------- MODULE BibliographyProofs -------------------------
(***************************************************************************)
(* Proofs about Bibliography: the ids of elements and entries are unique,  *)
(* every citation is solved or reported, and labels tell entries apart.    *)
(* The invariant follows a citation: in the text its id is that of the     *)
(* element that solved it, if any; then that of an entry, unless its key   *)
(* was reported; the databases and the cross references keep the ids.      *)
(***************************************************************************)
EXTENDS Bibliography, StackLemmas

\* The ids that the program makes, and all ids there may be.
Bids == { Bid(n) : n \in Int }
Ids == {NoId} \cup Bids \cup UNION { Documents[d].ids : d \in DOMAIN Documents }

\* The types of citations, of entries, and of what the passes over them change.
Froms == {""} \cup UNION { Documents[d].from : d \in DOMAIN Documents }
CitationType == [key : Key, from : Froms, id : Ids, solved : Ids]
Reasons == {"cite", "all", "crossref"}
EntryType == [key : Key, why : Reasons, id : Ids, type : Types \cup {Unknown}, fields : [Names -> Int],
              parent : Key, crossref : Nat, explicit : BOOLEAN]
Made == [entries : Seq(EntryType), bid : Int]

\* The ids that the program makes are different.
LEMMA BidsDiffer ==
  /\ \A n \in Int : Bid(n) \in Ids /\ Bid(n) \in Bids /\ Bid(n) # NoId
  /\ \A n, k \in Int : Bid(n) = Bid(k) => n = k
  /\ NoId \in Ids /\ NoId \notin Bids
BY DEF Bid, NoId, Ids, Bids

\* First of some places is one of them.
LEMMA FirstIs ==
  ASSUME NEW n \in Nat, NEW S \in SUBSET (1..n), S # {}
  PROVE  First(S) \in S
<1>1. S \in SUBSET Nat
  OBVIOUS
<1>2. \E m \in S : \A k \in S : m <= k
  BY <1>1, LeastNatural
<1>. QED
  BY <1>2 DEF First

\* What there is to know of an entry that is found.
LEMMA FindEntryIs ==
  ASSUME NEW es \in Seq(EntryType), NEW key
  PROVE  /\ find_entry(es, key) \in DOMAIN es \cup {None} /\ None \notin DOMAIN es
         /\ (\E i \in DOMAIN es : es[i].key = key) => find_entry(es, key) \in DOMAIN es
<1>. DEFINE same == { i \in DOMAIN es : es[i].key = key }
            lower == SameLower(es, key)
<1>1. DOMAIN es = 1..Len(es) /\ Len(es) \in Nat
  OBVIOUS
<1>2. same # {} => First(same) \in same
  BY <1>1, FirstIs
<1>3. lower # {} => (CHOOSE i \in lower : \A k \in lower : k <= i) \in lower
  <2>1. lower \in SUBSET (1..Len(es))
    BY <1>1 DEF SameLower
  <2>2. lower # {} => \E i \in lower : \A k \in lower : k <= i
    BY <1>1, <2>1, GreatestPosition
  <2>. HIDE DEF lower
  <2>. QED
    BY <2>2
<1>4. lower \subseteq DOMAIN es
  BY DEF SameLower
<1>5. None \notin DOMAIN es
  BY <1>1 DEF None
<1>6. find_entry(es, key) = IF same # {} THEN First(same) ELSE IF lower # {} THEN CHOOSE i \in lower : \A k \in lower : k <= i ELSE None
  BY DEF find_entry
<1>. QED
  BY <1>2, <1>3, <1>4, <1>5, <1>6

\* A new entry.
LEMMA NewEntry ==
  ASSUME NEW key \in Key, NEW why \in Reasons, NEW id \in Ids
  PROVE  /\ BibEntry(key, why, id) \in EntryType
         /\ BibEntry(key, why, id).id = id /\ BibEntry(key, why, id).key = key
         /\ BibEntry(key, why, id).why = why /\ ~BibEntry(key, why, id).explicit
         /\ BibEntry(key, why, id).type = Unknown /\ BibEntry(key, why, id).crossref = None
<1>1. NoKey \in Key /\ NoFields \in [Names -> Int] /\ None \in Nat
  BY DEF NoKey, Key, NoFields, None
<1>. QED
  BY <1>1 DEF BibEntry, EntryType

\* fs has the entries of es, with their keys and ids, and perhaps more.
Grows(es, fs) ==
  /\ DOMAIN es \subseteq DOMAIN fs
  /\ \A i \in DOMAIN es : /\ fs[i].id = es[i].id /\ fs[i].key = es[i].key /\ fs[i].why = es[i].why
                          /\ fs[i].explicit = es[i].explicit

\* The entries have ids of their own, which are not those of the elements S unless an
\* element was made for the entry, and there is always a new id.
Apart(es, bid, S) ==
  /\ es \in Seq(EntryType) /\ bid \in Int
  /\ \A i, k \in DOMAIN es : es[i].id = es[k].id => i = k
  /\ \A i \in DOMAIN es : ~es[i].explicit => es[i].id \notin S
  /\ \A n \in Int : n >= bid => Bid(n) \notin S /\ \A i \in DOMAIN es : es[i].id # Bid(n)
  /\ \A i \in DOMAIN es : es[i].crossref \in DOMAIN es \cup {None}

\* Entries that grow grow further.
LEMMA GrowsOn ==
  ASSUME NEW es, NEW fs, NEW gs
  PROVE  Grows(es, es) /\ (Grows(es, fs) /\ Grows(fs, gs) => Grows(es, gs))
BY DEF Grows

\* An entry with an id that no other has.
LEMMA ApartWith ==
  ASSUME NEW es, NEW bid, NEW S, Apart(es, bid, S), NEW key \in Key, NEW why \in Reasons, NEW id \in Ids,
         NEW b \in Int, b >= bid, id \notin S, \A i \in DOMAIN es : es[i].id # id,
         \A n \in Int : n >= b => id # Bid(n)
  PROVE  /\ Apart(Append(es, BibEntry(key, why, id)), b, S)
         /\ Grows(es, Append(es, BibEntry(key, why, id)))
<1>. DEFINE e == BibEntry(key, why, id)
            fs == Append(es, e)
<1>1. es \in Seq(EntryType) /\ bid \in Int /\ DOMAIN es = 1..Len(es) /\ Len(es) \in Nat
  BY DEF Apart
<1>2. e \in EntryType /\ e.id = id /\ ~e.explicit /\ e.crossref = None
  BY NewEntry
<1>. HIDE DEF e
<1>3. /\ fs \in Seq(EntryType) /\ DOMAIN fs = DOMAIN es \cup {Len(es) + 1}
      /\ fs[Len(es) + 1] = e /\ \A i \in DOMAIN es : fs[i] = es[i] /\ i # Len(es) + 1
  BY <1>1, <1>2
<1>. HIDE DEF fs
<1>4. \A i, k \in DOMAIN fs : fs[i].id = fs[k].id => i = k
  BY <1>2, <1>3 DEF Apart
<1>5. \A i \in DOMAIN fs : ~fs[i].explicit => fs[i].id \notin S
  BY <1>1, <1>2, <1>3 DEF Apart
<1>6. \A n \in Int : n >= b => Bid(n) \notin S /\ \A i \in DOMAIN fs : fs[i].id # Bid(n)
  BY <1>1, <1>2, <1>3 DEF Apart
<1>7. \A i \in DOMAIN fs : fs[i].crossref \in DOMAIN fs \cup {None}
  BY <1>1, <1>2, <1>3 DEF Apart
<1>8. Apart(fs, b, S)
  BY <1>3, <1>4, <1>5, <1>6, <1>7 DEF Apart
<1>9. Grows(es, fs)
  BY <1>3 DEF Grows
<1>. QED
  BY <1>8, <1>9 DEF fs, e

\* An entry with a new id.
LEMMA ApartNew ==
  ASSUME NEW es, NEW bid, NEW S, Apart(es, bid, S), NEW key \in Key, NEW why \in Reasons
  PROVE  /\ Apart(Append(es, BibEntry(key, why, Bid(bid))), bid + 1, S)
         /\ Grows(es, Append(es, BibEntry(key, why, Bid(bid))))
<1>1. bid \in Int /\ bid + 1 \in Int /\ bid + 1 >= bid /\ bid >= bid
  BY DEF Apart
<1>2. Bid(bid) \in Ids /\ Bid(bid) \notin S /\ \A i \in DOMAIN es : es[i].id # Bid(bid)
  BY <1>1, BidsDiffer DEF Apart
<1>3. \A n \in Int : n >= bid + 1 => Bid(bid) # Bid(n)
  BY <1>1, BidsDiffer
<1>. QED
  BY <1>1, <1>2, <1>3, ApartWith

\* Entries that change but keep their keys and ids.
LEMMA ApartSame ==
  ASSUME NEW es, NEW bid, NEW S, Apart(es, bid, S), NEW fs \in Seq(EntryType), DOMAIN fs = DOMAIN es, Grows(es, fs),
         \A i \in DOMAIN fs : fs[i].crossref \in DOMAIN fs \cup {None}
  PROVE  Apart(fs, bid, S)
BY DEF Apart, Grows

\* A record of entries and an id.
LEMMA MadeIs ==
  /\ \A s \in Made : s = [entries |-> s.entries, bid |-> s.bid] /\ s.entries \in Seq(EntryType) /\ s.bid \in Int
  /\ \A fs \in Seq(EntryType), b \in Int :
       LET t == [entries |-> fs, bid |-> b] IN t \in Made /\ t.entries = fs /\ t.bid = b
BY DEF Made

\* find_or_make keeps the entries and finds one.
LEMMA FindOrMakeApart ==
  ASSUME NEW s \in Made, NEW S, Apart(s.entries, s.bid, S), NEW key \in Key, NEW why \in Reasons
  PROVE  /\ find_or_make(s, key, why) \in Made
         /\ Apart(find_or_make(s, key, why).entries, find_or_make(s, key, why).bid, S)
         /\ Grows(s.entries, find_or_make(s, key, why).entries)
         /\ find_or_make(s, key, why).bid >= s.bid
         /\ find_entry(find_or_make(s, key, why).entries, key) \in DOMAIN find_or_make(s, key, why).entries
<1>. DEFINE t == find_or_make(s, key, why)
            e == BibEntry(key, why, Bid(s.bid))
<1>1. s.entries \in Seq(EntryType) /\ s.bid \in Int
  BY DEF Made
<1>2. CASE find_entry(s.entries, key) # None
  <2>1. t = s
    BY <1>2 DEF find_or_make
  <2>2. find_entry(s.entries, key) \in DOMAIN s.entries
    BY <1>1, <1>2, FindEntryIs
  <2>. HIDE DEF t
  <2>. QED
    BY <1>1, <2>1, <2>2, GrowsOn DEF t
<1>3. CASE find_entry(s.entries, key) = None
  <2>. DEFINE fs == Append(s.entries, e)
              b == s.bid + 1
  <2>1. t = [s EXCEPT !.entries = fs, !.bid = b]
    BY <1>3 DEF find_or_make
  <2>2. e \in EntryType /\ e.key = key
    BY <1>1, BidsDiffer, NewEntry
  <2>3. fs \in Seq(EntryType) /\ Len(s.entries) + 1 \in DOMAIN fs /\ fs[Len(s.entries) + 1] = e
    BY <1>1, <2>2
  <2>4. find_entry(fs, key) \in DOMAIN fs
    BY <2>2, <2>3, FindEntryIs
  <2>5. b \in Int /\ b >= s.bid
    BY <1>1
  <2>6. Apart(fs, b, S) /\ Grows(s.entries, fs)
    BY ApartNew
  <2>. HIDE DEF fs, t, e, b
  <2>7. fs \in Seq(EntryType)
    BY <2>3
  <2>8. t \in Made /\ t.entries = fs /\ t.bid = b
    <3>1. s = [entries |-> s.entries, bid |-> s.bid]
      BY MadeIs
    <3>2. t = [entries |-> fs, bid |-> b]
      BY <2>1, <3>1
    <3>. QED
      BY <2>7, <2>5, <3>2, MadeIs
  <2>. QED
    BY <2>4, <2>6, <2>8, <2>5 DEF t
<1>. QED
  BY <1>2, <1>3

\* A field, the type, the parent or the cross reference of an entry changes.
LEMMA EntryChanges ==
  ASSUME NEW s \in Made, NEW S, Apart(s.entries, s.bid, S), NEW n \in DOMAIN s.entries, NEW e \in EntryType,
         e.id = s.entries[n].id, e.key = s.entries[n].key, e.why = s.entries[n].why, e.explicit = s.entries[n].explicit,
         e.crossref \in DOMAIN s.entries \cup {None}
  PROVE  /\ [s EXCEPT !.entries[n] = e] \in Made
         /\ Apart([s EXCEPT !.entries[n] = e].entries, [s EXCEPT !.entries[n] = e].bid, S)
         /\ Grows(s.entries, [s EXCEPT !.entries[n] = e].entries)
         /\ [s EXCEPT !.entries[n] = e].bid = s.bid
<1>. DEFINE fs == [s.entries EXCEPT ![n] = e]
<1>1. s.entries \in Seq(EntryType)
  BY DEF Made
<1>2. fs \in Seq(EntryType) /\ DOMAIN fs = DOMAIN s.entries
  BY <1>1
<1>3. Grows(s.entries, fs)
  BY <1>1, <1>2 DEF Grows
<1>. DEFINE t == [s EXCEPT !.entries[n] = e]
<1>4. t = [s EXCEPT !.entries = fs]
  OBVIOUS
<1>. HIDE DEF fs, t
<1>5. t \in Made /\ t.entries = fs /\ t.bid = s.bid
  <2>1. s = [entries |-> s.entries, bid |-> s.bid] /\ s.bid \in Int
    BY MadeIs
  <2>2. t = [entries |-> fs, bid |-> s.bid]
    BY <1>4, <2>1
  <2>. QED
    BY <1>2, <2>1, <2>2, MadeIs
<1>6. \A i \in DOMAIN fs : fs[i].crossref \in DOMAIN fs \cup {None}
  BY <1>1, <1>2 DEF Apart, fs
<1>7. Apart(fs, s.bid, S)
  BY <1>2, <1>3, <1>6, ApartSame
<1>. QED
  BY <1>3, <1>5, <1>7 DEF t

\* An entry with another type, parent or cross reference, or with another field.
LEMMA EntryWith ==
  ASSUME NEW e \in EntryType
  PROVE  /\ \A type \in Types \cup {Unknown} : LET f == [e EXCEPT !.type = type] IN
              f \in EntryType /\ f.id = e.id /\ f.key = e.key /\ f.why = e.why /\ f.explicit = e.explicit /\ f.crossref = e.crossref
         /\ \A parent \in Key : LET f == [e EXCEPT !.parent = parent] IN
              f \in EntryType /\ f.id = e.id /\ f.key = e.key /\ f.why = e.why /\ f.explicit = e.explicit /\ f.crossref = e.crossref
         /\ \A y \in Nat : LET f == [e EXCEPT !.crossref = y] IN
              f \in EntryType /\ f.id = e.id /\ f.key = e.key /\ f.why = e.why /\ f.explicit = e.explicit /\ f.crossref = y
         /\ \A name \in Names, v \in Int : LET f == [e EXCEPT !.fields[name] = v] IN
              f \in EntryType /\ f.id = e.id /\ f.key = e.key /\ f.why = e.why /\ f.explicit = e.explicit /\ f.crossref = e.crossref
<1>1. ASSUME NEW type \in Types \cup {Unknown}
      PROVE  LET f == [e EXCEPT !.type = type] IN
              f \in EntryType /\ f.id = e.id /\ f.key = e.key /\ f.why = e.why /\ f.explicit = e.explicit /\ f.crossref = e.crossref
  BY DEF EntryType
<1>2. ASSUME NEW parent \in Key
      PROVE  LET f == [e EXCEPT !.parent = parent] IN
              f \in EntryType /\ f.id = e.id /\ f.key = e.key /\ f.why = e.why /\ f.explicit = e.explicit /\ f.crossref = e.crossref
  BY DEF EntryType
<1>3. ASSUME NEW y \in Nat
      PROVE  LET f == [e EXCEPT !.crossref = y] IN
              f \in EntryType /\ f.id = e.id /\ f.key = e.key /\ f.why = e.why /\ f.explicit = e.explicit /\ f.crossref = y
  BY DEF EntryType
<1>4. ASSUME NEW name \in Names, NEW v \in Int
      PROVE  LET f == [e EXCEPT !.fields[name] = v] IN
              f \in EntryType /\ f.id = e.id /\ f.key = e.key /\ f.why = e.why /\ f.explicit = e.explicit /\ f.crossref = e.crossref
  BY DEF EntryType
<1>. QED
  BY <1>1, <1>2, <1>3, <1>4

\* t comes after s: it has the entries of s and perhaps more, with ids of their own.
Follows(s, t, S) == t \in Made /\ Apart(t.entries, t.bid, S) /\ Grows(s.entries, t.entries)

\* What follows what follows follows.
LEMMA FollowsOn ==
  ASSUME NEW s, NEW t, NEW u, NEW S, Follows(s, t, S), Follows(t, u, S)
  PROVE  Follows(s, u, S)
BY GrowsOn DEF Follows

\* An entry that changes is followed.
LEMMA ChangeFollows ==
  ASSUME NEW s \in Made, NEW S, Apart(s.entries, s.bid, S), NEW n \in DOMAIN s.entries, NEW e \in EntryType,
         e.id = s.entries[n].id, e.key = s.entries[n].key, e.why = s.entries[n].why, e.explicit = s.entries[n].explicit,
         e.crossref \in DOMAIN s.entries \cup {None}
  PROVE  Follows(s, [s EXCEPT !.entries[n] = e], S)
BY EntryChanges DEF Follows

\* The cross reference of an entry is stored.
LEMMA CrossrefFollows ==
  ASSUME NEW s \in Made, NEW S, Apart(s.entries, s.bid, S), NEW n \in DOMAIN s.entries, NEW key \in Key
  PROVE  Follows(s, parse_crossref(s, n, key), S)
<1>. DEFINE t == find_or_make(s, key, Creator)
            y == find_entry(t.entries, key)
            e == [t.entries[n] EXCEPT !.crossref = y]
            u == [t EXCEPT !.entries[n].crossref = y]
<1>1. Creator \in Reasons
  BY DEF Creator, Reasons
<1>2. Follows(s, t, S) /\ y \in DOMAIN t.entries
  BY <1>1, FindOrMakeApart DEF Follows
<1>3. parse_crossref(s, n, key) = IF y = n THEN t ELSE u
  BY DEF parse_crossref
<1>. HIDE DEF t, y
<1>4. t \in Made /\ Apart(t.entries, t.bid, S) /\ n \in DOMAIN t.entries /\ t.entries \in Seq(EntryType)
  BY <1>2, MadeIs DEF Follows, Grows
<1>5. y \in Nat /\ t.entries[n] \in EntryType
  BY <1>2, <1>4
<1>6. e \in EntryType /\ e.id = t.entries[n].id /\ e.key = t.entries[n].key /\ e.why = t.entries[n].why
      /\ e.explicit = t.entries[n].explicit /\ e.crossref \in DOMAIN t.entries
  BY <1>2, <1>5, EntryWith
<1>7. u = [t EXCEPT !.entries[n] = e]
  OBVIOUS
<1>. HIDE DEF e, u
<1>8. Follows(t, u, S)
  BY <1>4, <1>6, <1>7, ChangeFollows
<1>. QED
  BY <1>2, <1>3, <1>8, FollowsOn

\* A field is stored.
LEMMA FieldFollows ==
  ASSUME NEW s \in Made, NEW S, Apart(s.entries, s.bid, S), NEW n \in DOMAIN s.entries, NEW field \in Field,
         NEW C, macros \in [C -> Int]
  PROVE  Follows(s, store_field(s, n, field), S)
<1>1. s.entries[n].crossref \in DOMAIN s.entries \cup {None}
  BY DEF Apart
<1>2. s.entries \in Seq(EntryType) /\ s.entries[n] \in EntryType
  BY MadeIs
<1>3. Follows(s, s, S)
  BY GrowsOn DEF Follows
<1>4. CASE field.name # "crossref"
  <2>1. field.name \in Names /\ field.value \in Int
    BY <1>4 DEF Field
  <2>2. read_field(field.value) \in Int
    BY <2>1 DEF read_field
  <2>. DEFINE v == read_field(field.value)
              e == [s.entries[n] EXCEPT !.fields[field.name] = v]
              u == [s EXCEPT !.entries[n].fields[field.name] = v]
  <2>3. e \in EntryType /\ e.id = s.entries[n].id /\ e.key = s.entries[n].key /\ e.why = s.entries[n].why
        /\ e.explicit = s.entries[n].explicit /\ e.crossref \in DOMAIN s.entries \cup {None}
    BY <1>1, <1>2, <2>1, <2>2, EntryWith
  <2>4. u = [s EXCEPT !.entries[n] = e]
    OBVIOUS
  <2>5. store_field(s, n, field) \in {s, u}
    BY <1>4 DEF store_field
  <2>. HIDE DEF e, u
  <2>6. Follows(s, u, S)
    BY <2>3, <2>4, ChangeFollows
  <2>. QED
    BY <1>3, <2>5, <2>6
<1>5. CASE field.name = "crossref"
  <2>1. field.value \in Key
    BY <1>5 DEF Field, Names
  <2>. DEFINE e == [s.entries[n] EXCEPT !.parent = field.value]
              u == [s EXCEPT !.entries[n].parent = field.value]
  <2>2. e \in EntryType /\ e.id = s.entries[n].id /\ e.key = s.entries[n].key /\ e.why = s.entries[n].why
        /\ e.explicit = s.entries[n].explicit /\ e.crossref \in DOMAIN s.entries \cup {None}
    BY <1>1, <1>2, <2>1, EntryWith
  <2>3. u = [s EXCEPT !.entries[n] = e]
    OBVIOUS
  <2>4. store_field(s, n, field) = IF s.entries[n].parent # NoKey THEN s ELSE parse_crossref(u, n, field.value)
    BY <1>5 DEF store_field
  <2>. HIDE DEF e, u
  <2>5. Follows(s, u, S)
    BY <2>2, <2>3, ChangeFollows
  <2>6. Follows(u, parse_crossref(u, n, field.value), S)
    BY <2>1, <2>5, CrossrefFollows DEF Follows, Grows
  <2>. QED
    BY <1>3, <2>4, <2>5, <2>6, FollowsOn
<1>. QED
  BY <1>4, <1>5

\* The fields of an item are stored.
LEMMA FieldsFollow ==
  ASSUME NEW s \in Made, NEW S, Apart(s.entries, s.bid, S), NEW n \in DOMAIN s.entries, NEW fields \in Seq(Field),
         NEW C, macros \in [C -> Int]
  PROVE  Follows(s, store_fields(s, n, fields), S)
<1>. DEFINE V == { t \in Made : Follows(s, t, S) }
            N == Len(fields)
            E(r_) == [i \in 0..N |-> IF i = 0 THEN s ELSE store_field(r_[i - 1], n, fields[i])]
            F == [i \in 1..N |-> [t \in V |-> store_field(t, n, fields[i])]]
<1>1. \A i \in 1..N : fields[i] \in Field
  OBVIOUS
<1>2. N \in Nat
  OBVIOUS
<1>3. store_fields(s, n, fields) = (CHOOSE r : r = E(r))[N]
  BY DEF store_fields
<1>. HIDE DEF N
<1>4. s \in V
  BY GrowsOn DEF Follows
<1>5. \A i \in 1..N, t \in V : store_field(t, n, fields[i]) \in V
  <2>. TAKE i \in 1..N, t \in V
  <2>1. fields[i] \in Field
    BY <1>1
  <2>2. Follows(s, t, S) /\ t \in Made /\ Apart(t.entries, t.bid, S) /\ n \in DOMAIN t.entries
    BY DEF Follows, Grows
  <2>3. Follows(t, store_field(t, n, fields[i]), S)
    BY <2>1, <2>2, FieldFollows
  <2>4. Follows(s, store_field(t, n, fields[i]), S)
    BY <2>2, <2>3, FollowsOn
  <2>. QED
    BY <2>4 DEF Follows
<1>. HIDE DEF V
<1>6. F \in [1..N -> [V -> V]]
  BY <1>5
<1>7. \A i \in 1..N, t \in V : F[i][t] = store_field(t, n, fields[i])
  OBVIOUS
<1>. HIDE DEF F
<1>8. PICK r : Steps(N, V, F, s, r)
  <2>1. N \in Nat
    BY <1>2
  <2>. QED
    BY ONLY <2>1, <1>4, <1>6, RecursionExists
<1>9. r = E(r)
  <2>1. r \in [0..N -> V] /\ r[0] = s /\ \A i \in 1..N : r[i] = F[i][r[i - 1]]
    BY <1>8 DEF Steps
  <2>2. \A i \in 0..N : r[i] = IF i = 0 THEN s ELSE store_field(r[i - 1], n, fields[i])
    <3>. TAKE i \in 0..N
    <3>1. CASE i = 0
      BY <2>1, <3>1
    <3>2. CASE i # 0
      <4>1. i \in 1..N /\ i - 1 \in 0..N
        BY <1>2, <3>2
      <4>2. r[i - 1] \in V
        BY <2>1, <4>1
      <4>. QED
        BY <1>7, <2>1, <3>2, <4>1, <4>2
    <3>. QED
      BY <3>1, <3>2
  <2>. QED
    BY <2>1, <2>2
<1>. DEFINE R == CHOOSE r_1 : r_1 = E(r_1)
<1>10. R = E(R)
  BY <1>9, Zenon
<1>. HIDE DEF R
<1>11. R[0] = s /\ \A i \in 1..N : R[i] = store_field(R[i - 1], n, fields[i])
  <2>1. \A i \in 0..N : R[i] = IF i = 0 THEN s ELSE store_field(R[i - 1], n, fields[i])
    BY <1>10
  <2>. QED
    BY <1>2, <2>1
<1>12. R[N] \in V
  <2>1. N \in Nat
    BY <1>2
  <2>2. R[0] \in V
    BY <1>4, <1>11
  <2>3. \A i \in 1..N : R[i - 1] \in V => R[i] \in V
    BY <1>5, <1>11
  <2>. QED
    BY ONLY <2>1, <2>2, <2>3, RecursionStays
<1>. QED
  BY <1>3, <1>12 DEF R, V

\* An entry of a database is read.
LEMMA ReadFollows ==
  ASSUME NEW s \in Made, NEW S, Apart(s.entries, s.bid, S), NEW item \in Item, item.type # "string",
         NEW C, macros \in [C -> Int]
  PROVE  Follows(s, ReadEntry(s, item), S)
<1>. DEFINE t == see_new_entry(s, item)
            n == Wanted(t, item)
            e == [t.entries[n] EXCEPT !.type = find_type(item.type)]
            u == [t EXCEPT !.entries[n].type = find_type(item.type)]
<1>1. item.key \in Key /\ item.fields \in Seq(Field)
  BY DEF Item
<1>2. Follows(s, t, S)
  <2>1. Follows(s, s, S)
    BY GrowsOn DEF Follows
  <2>2. "all" \in Reasons
    BY DEF Reasons
  <2>3. Follows(s, find_or_make(s, item.key, "all"), S)
    BY <1>1, <2>2, FindOrMakeApart DEF Follows
  <2>. QED
    BY <2>1, <2>3 DEF see_new_entry
<1>3. ReadEntry(s, item) = IF n = None THEN t ELSE store_fields(u, n, item.fields)
  BY DEF ReadEntry
<1>. HIDE DEF t
<1>4. t \in Made /\ Apart(t.entries, t.bid, S) /\ t.entries \in Seq(EntryType)
  BY <1>2, MadeIs DEF Follows
<1>5. n # None => n \in DOMAIN t.entries
  BY <1>4, FindEntryIs DEF Wanted
<1>. HIDE DEF n
<1>6. ASSUME n # None PROVE Follows(t, store_fields(u, n, item.fields), S)
  <2>1. n \in DOMAIN t.entries /\ t.entries[n] \in EntryType
    BY <1>4, <1>5, <1>6
  <2>2. find_type(item.type) \in Types \cup {Unknown}
    BY DEF find_type
  <2>3. e \in EntryType /\ e.id = t.entries[n].id /\ e.key = t.entries[n].key /\ e.why = t.entries[n].why
        /\ e.explicit = t.entries[n].explicit /\ e.crossref = t.entries[n].crossref
    BY <2>1, <2>2, EntryWith
  <2>4. e.crossref \in DOMAIN t.entries \cup {None}
    BY <1>4, <2>1, <2>3 DEF Apart
  <2>5. u = [t EXCEPT !.entries[n] = e]
    OBVIOUS
  <2>. HIDE DEF e, u
  <2>6. Follows(t, u, S)
    BY <1>4, <2>1, <2>3, <2>4, <2>5, ChangeFollows
  <2>7. Follows(u, store_fields(u, n, item.fields), S)
    BY <1>1, <2>1, <2>6, FieldsFollow DEF Follows, Grows
  <2>. QED
    BY <2>6, <2>7, FollowsOn
<1>. QED
  BY <1>2, <1>3, <1>6, FollowsOn

\* Entries that are the same but for their fields.
Alike(es, fs) ==
  /\ fs \in Seq(EntryType) /\ DOMAIN fs = DOMAIN es
  /\ \A i \in DOMAIN es :
       /\ fs[i].id = es[i].id /\ fs[i].key = es[i].key /\ fs[i].why = es[i].why
       /\ fs[i].explicit = es[i].explicit /\ fs[i].type = es[i].type /\ fs[i].crossref = es[i].crossref

\* A cross reference gives fields only.
LEMMA UnCrossrefAlike ==
  ASSUME NEW es \in Seq(EntryType), NEW n \in DOMAIN es, es[n].crossref \in DOMAIN es \cup {None}
  PROVE  Alike(es, un_crossref(es, n))
<1>1. Alike(es, es)
  BY DEF Alike
<1>. DEFINE y == es[n].crossref
            fields == [f \in Names |-> IF es[n].fields[f] = 0 /\ f # "key" THEN es[y].fields[f] ELSE es[n].fields[f]]
            e == [es[n] EXCEPT !.fields = fields]
            fs == [es EXCEPT ![n] = e]
<1>2. un_crossref(es, n) = es \/ (y # None /\ un_crossref(es, n) = fs)
  BY DEF un_crossref, copy_from
<1>3. ASSUME y # None PROVE Alike(es, fs)
  <2>1. es[n] \in EntryType /\ es[y] \in EntryType
    BY <1>3
  <2>2. es[n].fields \in [Names -> Int] /\ es[y].fields \in [Names -> Int]
    BY <2>1 DEF EntryType
  <2>3. fields \in [Names -> Int]
    BY <2>2
  <2>. HIDE DEF fields
  <2>4. e \in EntryType /\ e.id = es[n].id /\ e.key = es[n].key /\ e.why = es[n].why
        /\ e.explicit = es[n].explicit /\ e.type = es[n].type /\ e.crossref = es[n].crossref
    BY <2>1, <2>3 DEF EntryType
  <2>. HIDE DEF e
  <2>. QED
    BY <2>4 DEF Alike
<1>. HIDE DEF fs
<1>. QED
  BY <1>1, <1>2, <1>3

\* Cross references give fields only.
LEMMA CompletedAlike ==
  ASSUME NEW es \in Seq(EntryType), \A i \in DOMAIN es : es[i].crossref \in DOMAIN es \cup {None}
  PROVE  Alike(es, Completed(es))
<1>. DEFINE V == { fs \in Seq(EntryType) : Alike(es, fs) }
            N == Len(es)
            E(r_) == [n \in 0..N |-> IF n = 0 THEN es ELSE un_crossref(r_[n - 1], n)]
            F == [n \in 1..N |-> [t \in V |-> un_crossref(t, n)]]
<1>1. DOMAIN es = 1..N
  OBVIOUS
<1>2. N \in Nat
  OBVIOUS
<1>3. Completed(es) = (CHOOSE r : r = E(r))[N]
  BY DEF Completed
<1>. HIDE DEF N
<1>4. es \in V
  BY DEF Alike
<1>5. \A n \in 1..N, t \in V : un_crossref(t, n) \in V
  <2>. TAKE n \in 1..N, t \in V
  <2>1. Alike(es, t) /\ n \in DOMAIN t /\ t \in Seq(EntryType)
    BY <1>1 DEF Alike
  <2>2. t[n].crossref \in DOMAIN t \cup {None}
    BY <1>1, <2>1 DEF Alike
  <2>3. Alike(t, un_crossref(t, n))
    BY <2>1, <2>2, UnCrossrefAlike
  <2>4. Alike(es, un_crossref(t, n))
    BY <2>1, <2>3 DEF Alike
  <2>. QED
    BY <2>4 DEF Alike
<1>. HIDE DEF V
<1>6. F \in [1..N -> [V -> V]]
  BY <1>5
<1>7. \A n \in 1..N, t \in V : F[n][t] = un_crossref(t, n)
  OBVIOUS
<1>. HIDE DEF F
<1>8. PICK r : Steps(N, V, F, es, r)
  <2>1. N \in Nat
    BY <1>2
  <2>. QED
    BY ONLY <2>1, <1>4, <1>6, RecursionExists
<1>9. r = E(r)
  <2>1. r \in [0..N -> V] /\ r[0] = es /\ \A n \in 1..N : r[n] = F[n][r[n - 1]]
    BY <1>8 DEF Steps
  <2>2. \A n \in 0..N : r[n] = IF n = 0 THEN es ELSE un_crossref(r[n - 1], n)
    <3>. TAKE n \in 0..N
    <3>1. CASE n = 0
      BY <2>1, <3>1
    <3>2. CASE n # 0
      <4>1. n \in 1..N /\ n - 1 \in 0..N
        BY <1>2, <3>2
      <4>2. r[n - 1] \in V
        BY <2>1, <4>1
      <4>. QED
        BY <1>7, <2>1, <3>2, <4>1, <4>2
    <3>. QED
      BY <3>1, <3>2
  <2>. QED
    BY <2>1, <2>2
<1>. DEFINE R == CHOOSE r_1 : r_1 = E(r_1)
<1>10. R = E(R)
  BY <1>9, Zenon
<1>. HIDE DEF R
<1>11. R[0] = es /\ \A n \in 1..N : R[n] = un_crossref(R[n - 1], n)
  <2>1. \A n \in 0..N : R[n] = IF n = 0 THEN es ELSE un_crossref(R[n - 1], n)
    BY <1>10
  <2>. QED
    BY <1>2, <2>1
<1>12. R[N] \in V
  <2>1. N \in Nat
    BY <1>2
  <2>2. R[0] \in V
    BY <1>4, <1>11
  <2>3. \A n \in 1..N : R[n - 1] \in V => R[n] \in V
    BY <1>5, <1>11
  <2>. QED
    BY ONLY <2>1, <2>2, <2>3, RecursionStays
<1>. QED
  BY <1>3, <1>12 DEF R, V

-----------------------------------------------------------------------------
(* The end of the text.                                                    *)

\* The citations of the table t: a solved one has the id of an element of S; an
\* unsolved one has an id that the program made, or none; an id is in one citation.
CitesOk(t, S, bid) ==
  /\ t \in Seq(CitationType)
  /\ \A i \in DOMAIN t : IF Unsolved(t[i]) THEN t[i].id \notin S /\ t[i].id \in Bids \cup {NoId}
                         ELSE t[i].id \in S /\ t[i].id # NoId
  /\ \A i, k \in DOMAIN t : t[i].id = t[k].id /\ t[i].id # NoId => i = k
  /\ \A m \in Int : m >= bid => \A i \in DOMAIN t : t[i].id # Bid(m)

\* There is an entry of the citation c.
HasEntry(es, c) ==
  \E i \in DOMAIN es : es[i].id = c.id /\ es[i].key = c.key /\ ~es[i].explicit /\ es[i].why = "cite"

DumpType == [entries : Seq(EntryType), bid : Int, reported : SUBSET Key]

\* The first n citations have an entry, or an error was signalled.
DumpOk(n, s, S) ==
  /\ s \in DumpType /\ Apart(s.entries, s.bid, S)
  /\ \A k \in DOMAIN citation_table : k > n /\ Unsolved(citation_table[k]) /\ citation_table[k].id # NoId =>
       \A i \in DOMAIN s.entries : s.entries[i].id # citation_table[k].id
  /\ \A m \in Int : m >= s.bid => \A k \in DOMAIN citation_table : citation_table[k].id # Bid(m)
  /\ \A k \in 1..n : Unsolved(citation_table[k]) /\ citation_table[k].id # NoId =>
       citation_table[k].key \in s.reported \/ HasEntry(s.entries, citation_table[k])

\* Entries that grow have the entries that they had.
LEMMA HasEntryStays ==
  ASSUME NEW es, NEW fs, Grows(es, fs), NEW c, HasEntry(es, c)
  PROVE  HasEntry(fs, c)
BY DEF Grows, HasEntry

\* What dump_bibtex does for a citation.
LEMMA DumpIs ==
  ASSUME NEW s \in DumpType, NEW item \in CitationType
  PROVE  /\ dump_bibtex(s, item) \in DumpType
         /\ \/ /\ dump_bibtex(s, item) = s /\ ~Unsolved(item)
            \/ /\ dump_bibtex(s, item) = [entries |-> s.entries, bid |-> s.bid, reported |-> s.reported \cup {item.key}]
            \/ /\ item.id = NoId
               /\ dump_bibtex(s, item) = [entries |-> Append(s.entries, BibEntry(item.key, "cite", Bid(s.bid))),
                                          bid |-> s.bid + 1, reported |-> s.reported]
            \/ /\ item.id # NoId /\ Unsolved(item)
               /\ dump_bibtex(s, item) = [entries |-> Append(s.entries, BibEntry(item.key, "cite", item.id)),
                                          bid |-> s.bid, reported |-> s.reported]
<1>1. s = [entries |-> s.entries, bid |-> s.bid, reported |-> s.reported] /\ s.bid \in Int
      /\ s.entries \in Seq(EntryType) /\ s.reported \in SUBSET Key
  BY DEF DumpType
<1>2. item.key \in Key /\ item.id \in Ids
  BY DEF CitationType
<1>3. \A id \in Ids : Append(s.entries, BibEntry(item.key, "cite", id)) \in Seq(EntryType)
  <2>. TAKE id \in Ids
  <2>1. BibEntry(item.key, "cite", id) \in EntryType
    BY <1>2, NewEntry DEF Reasons
  <2>. HIDE DEF BibEntry
  <2>. QED
    BY <1>1, <2>1
<1>4. \A es \in Seq(EntryType), b \in Int, r \in SUBSET Key : [entries |-> es, bid |-> b, reported |-> r] \in DumpType
  BY DEF DumpType
<1>5. CASE ~Unsolved(item)
  BY <1>5 DEF dump_bibtex
<1>6. CASE Unsolved(item) /\ \E e \in DOMAIN s.entries : s.entries[e].key = item.key
  <2>1. dump_bibtex(s, item) = [s EXCEPT !.reported = s.reported \cup {item.key}]
    BY <1>6 DEF dump_bibtex
  <2>2. dump_bibtex(s, item) = [entries |-> s.entries, bid |-> s.bid, reported |-> s.reported \cup {item.key}]
    BY <1>1, <2>1
  <2>. QED
    BY <1>1, <1>2, <1>4, <2>2
<1>7. CASE Unsolved(item) /\ ~(\E e \in DOMAIN s.entries : s.entries[e].key = item.key) /\ item.id = NoId
  <2>. DEFINE fs == Append(s.entries, BibEntry(item.key, "cite", Bid(s.bid)))
              b == s.bid + 1
  <2>1. dump_bibtex(s, item) = [s EXCEPT !.entries = fs, !.bid = b]
    BY <1>7 DEF dump_bibtex
  <2>2. b \in Int /\ fs \in Seq(EntryType)
    BY <1>1, <1>3, BidsDiffer
  <2>. HIDE DEF fs, b
  <2>3. dump_bibtex(s, item) = [entries |-> fs, bid |-> b, reported |-> s.reported]
    BY <1>1, <2>1
  <2>. QED
    BY <1>1, <1>4, <1>7, <2>2, <2>3 DEF fs, b
<1>8. CASE Unsolved(item) /\ ~(\E e \in DOMAIN s.entries : s.entries[e].key = item.key) /\ item.id # NoId
  <2>. DEFINE fs == Append(s.entries, BibEntry(item.key, "cite", item.id))
  <2>1. dump_bibtex(s, item) = [s EXCEPT !.entries = fs]
    BY <1>8 DEF dump_bibtex
  <2>2. fs \in Seq(EntryType)
    BY <1>2, <1>3
  <2>. HIDE DEF fs
  <2>3. dump_bibtex(s, item) = [entries |-> fs, bid |-> s.bid, reported |-> s.reported]
    BY <1>1, <2>1
  <2>. QED
    BY <1>1, <1>4, <1>8, <2>2, <2>3 DEF fs
<1>. QED
  BY <1>5, <1>6, <1>7, <1>8

\* The next citation has an entry, or an error is signalled.
LEMMA DumpStep ==
  ASSUME NEW S, NEW bid, CitesOk(citation_table, S, bid), NEW n \in DOMAIN citation_table, NEW s, DumpOk(n - 1, s, S)
  PROVE  DumpOk(n, dump_bibtex(s, citation_table[n]), S)
<1>. DEFINE ct == citation_table
            item == ct[n]
            t == dump_bibtex(s, item)
<1>1. ct \in Seq(CitationType) /\ DOMAIN ct \subseteq Nat /\ item \in CitationType
  BY DEF CitesOk
<1>2. /\ s \in DumpType /\ Apart(s.entries, s.bid, S) /\ s.bid \in Int
      /\ \A k \in DOMAIN ct : k > n - 1 /\ Unsolved(ct[k]) /\ ct[k].id # NoId =>
           \A i \in DOMAIN s.entries : s.entries[i].id # ct[k].id
      /\ \A m \in Int : m >= s.bid => \A k \in DOMAIN ct : ct[k].id # Bid(m)
      /\ \A k \in 1..(n - 1) : Unsolved(ct[k]) /\ ct[k].id # NoId => ct[k].key \in s.reported \/ HasEntry(s.entries, ct[k])
  BY DEF DumpOk, Apart
<1>3. \A i, k \in DOMAIN ct : ct[i].id = ct[k].id /\ ct[i].id # NoId => i = k
  BY DEF CitesOk
<1>4. item.key \in Key /\ item.id \in Ids /\ "cite" \in Reasons
  BY <1>1 DEF CitationType, Reasons
<1>5. t \in DumpType
  BY <1>1, <1>2, DumpIs
<1>. HIDE DEF ct
<1>6. ASSUME Grows(s.entries, t.entries), s.reported \subseteq t.reported, t.bid \in Int, t.bid >= s.bid, Apart(t.entries, t.bid, S),
             Unsolved(item) /\ item.id # NoId => item.key \in t.reported \/ HasEntry(t.entries, item),
             \A k \in DOMAIN ct : k > n /\ Unsolved(ct[k]) /\ ct[k].id # NoId =>
               \A i \in DOMAIN t.entries : t.entries[i].id # ct[k].id
      PROVE  DumpOk(n, t, S)
  <2>1. \A m \in Int : m >= t.bid => \A k \in DOMAIN ct : ct[k].id # Bid(m)
    BY <1>2, <1>6
  <2>2. ASSUME NEW k \in 1..n, Unsolved(ct[k]) /\ ct[k].id # NoId PROVE ct[k].key \in t.reported \/ HasEntry(t.entries, ct[k])
    <3>1. CASE k = n
      BY <1>6, <2>2, <3>1
    <3>2. CASE k # n
      <4>1. k \in 1..(n - 1)
        BY <1>1, <3>2
      <4>2. ct[k].key \in s.reported \/ HasEntry(s.entries, ct[k])
        BY <1>2, <2>2, <4>1
      <4>. QED
        BY <1>6, <4>2, HasEntryStays
    <3>. QED
      BY <3>1, <3>2
  <2>. HIDE DEF t
  <2>. QED
    BY <1>5, <1>6, <2>1, <2>2 DEF DumpOk, ct
<1>. SUFFICES DumpOk(n, t, S)
  BY DEF t, item, ct
<1>7. \A k \in DOMAIN ct : k > n => k > n - 1
  BY <1>1 DEF ct
<1>8. n > n - 1
  BY <1>1
<1>9. CASE t = s /\ ~Unsolved(item)
  <2>1. Grows(s.entries, s.entries)
    BY GrowsOn
  <2>. HIDE DEF t, item
  <2>. QED
    BY <1>2, <1>6, <1>7, <1>9, <2>1
<1>10. CASE t = [entries |-> s.entries, bid |-> s.bid, reported |-> s.reported \cup {item.key}]
  <2>1. Grows(s.entries, s.entries)
    BY GrowsOn
  <2>. HIDE DEF t, item
  <2>2. t.entries = s.entries /\ t.bid = s.bid /\ t.reported = s.reported \cup {item.key}
    BY <1>10
  <2>. QED
    BY <1>2, <1>6, <1>7, <2>1, <2>2
<1>11. CASE item.id = NoId /\ t = [entries |-> Append(s.entries, BibEntry(item.key, "cite", Bid(s.bid))),
                                  bid |-> s.bid + 1, reported |-> s.reported]
  <2>. DEFINE e == BibEntry(item.key, "cite", Bid(s.bid))
              fs == Append(s.entries, e)
  <2>1. Apart(fs, s.bid + 1, S) /\ Grows(s.entries, fs)
    BY <1>2, <1>4, ApartNew
  <2>2. e \in EntryType /\ e.id = Bid(s.bid)
    BY <1>2, <1>4, BidsDiffer, NewEntry
  <2>. HIDE DEF e
  <2>3. s.entries \in Seq(EntryType)
    BY <1>2 DEF Apart
  <2>4. \A i \in DOMAIN fs : fs[i] = e \/ (i \in DOMAIN s.entries /\ fs[i] = s.entries[i])
    BY <2>2, <2>3
  <2>. HIDE DEF fs
  <2>5. \A k \in DOMAIN ct : k > n /\ Unsolved(ct[k]) /\ ct[k].id # NoId =>
          \A i \in DOMAIN fs : fs[i].id # ct[k].id
    BY <1>2, <1>7, <2>2, <2>4
  <2>. HIDE DEF item, t
  <2>6. t.entries = fs /\ t.bid = s.bid + 1 /\ t.reported = s.reported
    BY <1>11 DEF fs, e
  <2>7. s.bid + 1 \in Int /\ s.bid + 1 >= s.bid
    BY <1>2
  <2>. QED
    BY <1>6, <1>11, <2>1, <2>5, <2>6, <2>7
<1>12. CASE item.id # NoId /\ Unsolved(item) /\ t = [entries |-> Append(s.entries, BibEntry(item.key, "cite", item.id)),
                                  bid |-> s.bid, reported |-> s.reported]
  <2>. DEFINE e == BibEntry(item.key, "cite", item.id)
              fs == Append(s.entries, e)
  <2>1. item.id \notin S
    BY <1>12 DEF CitesOk, ct
  <2>2. \A i \in DOMAIN s.entries : s.entries[i].id # item.id
    BY <1>2, <1>8, <1>12 DEF ct
  <2>3. \A m \in Int : m >= s.bid => item.id # Bid(m)
    BY <1>2 DEF ct
  <2>4. s.bid >= s.bid
    BY <1>2
  <2>5. Apart(fs, s.bid, S) /\ Grows(s.entries, fs)
    BY <1>2, <1>4, <2>1, <2>2, <2>3, <2>4, ApartWith
  <2>6. e \in EntryType /\ e.id = item.id /\ e.key = item.key /\ ~e.explicit /\ e.why = "cite"
    BY <1>4, NewEntry
  <2>. HIDE DEF e
  <2>7. s.entries \in Seq(EntryType)
    BY <1>2 DEF Apart
  <2>8. /\ \A i \in DOMAIN fs : fs[i] = e \/ (i \in DOMAIN s.entries /\ fs[i] = s.entries[i])
        /\ \E i \in DOMAIN fs : fs[i] = e
    <3>1. Len(s.entries) + 1 \in DOMAIN fs /\ fs[Len(s.entries) + 1] = e
      BY <2>6, <2>7
    <3>. QED
      BY <2>6, <2>7, <3>1
  <2>. HIDE DEF fs
  <2>9. \A k \in DOMAIN ct : k > n => k # n
    BY <1>1 DEF ct
  <2>10. n \in DOMAIN ct
    BY DEF ct
  <2>11. \A k \in DOMAIN ct : k > n /\ Unsolved(ct[k]) /\ ct[k].id # NoId =>
          \A i \in DOMAIN fs : fs[i].id # ct[k].id
    BY <1>2, <1>3, <1>7, <2>6, <2>8, <2>9, <2>10
  <2>. HIDE DEF t
  <2>12. HasEntry(fs, item)
    BY <2>6, <2>8 DEF HasEntry
  <2>. HIDE DEF item
  <2>13. t.entries = fs /\ t.bid = s.bid /\ t.reported = s.reported
    BY <1>12 DEF fs, e
  <2>. QED
    BY <1>2, <1>6, <2>5, <2>11, <2>13, <2>12, <2>4
<1>. QED
  BY <1>1, <1>2, <1>9, <1>10, <1>11, <1>12, DumpIs

\* All citations have an entry, or an error was signalled.
LEMMA DumpedOk ==
  ASSUME NEW S, NEW bid, CitesOk(citation_table, S, bid), NEW s, DumpOk(0, s, S)
  PROVE  DumpOk(Len(citation_table), Dumped(s), S)
<1>. DEFINE V == DumpType
            N == Len(citation_table)
            E(r_) == [n \in 0..N |-> IF n = 0 THEN s ELSE dump_bibtex(r_[n - 1], citation_table[n])]
            F == [n \in 1..N |-> [t \in V |-> dump_bibtex(t, citation_table[n])]]
<1>1. citation_table \in Seq(CitationType) /\ DOMAIN citation_table = 1..N /\ N \in Nat
  BY DEF CitesOk
<1>2. N \in Nat
  BY <1>1
<1>3. Dumped(s) = (CHOOSE r : r = E(r))[N]
  BY DEF Dumped
<1>. HIDE DEF N
<1>4. s \in V
  BY DEF DumpOk
<1>5. \A n \in 1..N, t \in V : dump_bibtex(t, citation_table[n]) \in V
  <2>. TAKE n \in 1..N, t \in V
  <2>1. citation_table[n] \in CitationType
    BY <1>1
  <2>. QED
    BY <2>1, DumpIs
<1>. HIDE DEF V
<1>6. F \in [1..N -> [V -> V]]
  BY <1>5
<1>7. \A n \in 1..N, t \in V : F[n][t] = dump_bibtex(t, citation_table[n])
  OBVIOUS
<1>. HIDE DEF F
<1>8. PICK r : Steps(N, V, F, s, r)
  <2>1. N \in Nat
    BY <1>2
  <2>. QED
    BY ONLY <2>1, <1>4, <1>6, RecursionExists
<1>9. r = E(r)
  <2>1. r \in [0..N -> V] /\ r[0] = s /\ \A n \in 1..N : r[n] = F[n][r[n - 1]]
    BY <1>8 DEF Steps
  <2>2. \A n \in 0..N : r[n] = IF n = 0 THEN s ELSE dump_bibtex(r[n - 1], citation_table[n])
    <3>. TAKE n \in 0..N
    <3>1. CASE n = 0
      BY <2>1, <3>1
    <3>2. CASE n # 0
      <4>1. n \in 1..N /\ n - 1 \in 0..N
        BY <1>2, <3>2
      <4>2. r[n - 1] \in V
        BY <2>1, <4>1
      <4>. QED
        BY <1>7, <2>1, <3>2, <4>1, <4>2
    <3>. QED
      BY <3>1, <3>2
  <2>. QED
    BY <2>1, <2>2
<1>. DEFINE R == CHOOSE r_1 : r_1 = E(r_1)
<1>10. R = E(R)
  BY <1>9, Zenon
<1>. HIDE DEF R
<1>11. R[0] = s /\ \A n \in 1..N : R[n] = dump_bibtex(R[n - 1], citation_table[n])
  <2>1. \A n \in 0..N : R[n] = IF n = 0 THEN s ELSE dump_bibtex(R[n - 1], citation_table[n])
    BY <1>10
  <2>. QED
    BY <1>2, <2>1
<1>. DEFINE W == {TRUE}
            G == [n \in 0..N |-> DumpOk(n, R[n], S)]
<1>12. G[N] \in W
  <2>1. N \in Nat
    BY <1>2
  <2>2. G[0] \in W
    <3>1. 0 \in 0..N
      BY <1>2
    <3>2. DumpOk(0, R[0], S)
      BY <1>11
    <3>. QED
      BY <3>1, <3>2
  <2>3. \A n \in 1..N : G[n - 1] \in W => G[n] \in W
    <3>. TAKE n \in 1..N
    <3>1. n - 1 \in 0..N /\ n \in 0..N /\ n \in DOMAIN citation_table
      BY <1>2, <1>1
    <3>. HAVE G[n - 1] \in W
    <3>2. DumpOk(n - 1, R[n - 1], S)
      BY <3>1
    <3>3. DumpOk(n, dump_bibtex(R[n - 1], citation_table[n]), S)
      BY <3>1, <3>2, DumpStep
    <3>4. R[n] = dump_bibtex(R[n - 1], citation_table[n])
      BY <1>11
    <3>5. DumpOk(n, R[n], S)
      BY <3>3, <3>4
    <3>. QED
      BY <3>1, <3>5
  <2>. HIDE DEF G, W
  <2>. QED
    BY ONLY <2>1, <2>2, <2>3, RecursionStays
<1>13. DumpOk(N, R[N], S)
  <2>1. N \in 0..N
    BY <1>2
  <2>2. G[N] = DumpOk(N, R[N], S)
    BY <2>1
  <2>3. G[N] = TRUE
    BY <1>12
  <2>. HIDE DEF G
  <2>. QED
    BY <2>2, <2>3
<1>. QED
  BY <1>3, <1>13 DEF R, N

-----------------------------------------------------------------------------
(* Citations.                                                              *)

\* A place that is found is one of a citation, or the next one.
LEMMA FindItemIs ==
  ASSUME NEW key, NEW from, citation_table \in Seq(CitationType)
  PROVE  /\ find_citation_item(key, from) \in 1..(Len(citation_table) + 1)
         /\ find_citation_star(key, from) \in 1..(Len(citation_table) + 1)
<1>1. DOMAIN citation_table = 1..Len(citation_table) /\ Len(citation_table) \in Nat
  OBVIOUS
<1>2. Matching(key, from) \in SUBSET (1..Len(citation_table)) /\ MatchingStar(key) \in SUBSET (1..Len(citation_table))
  BY <1>1 DEF Matching, MatchingStar
<1>3. Matching(key, from) # {} => First(Matching(key, from)) \in 1..Len(citation_table)
  BY <1>1, <1>2, FirstIs
<1>4. MatchingStar(key) # {} => First(MatchingStar(key)) \in 1..Len(citation_table)
  BY <1>1, <1>2, FirstIs
<1>5. find_citation_item(key, from) \in 1..(Len(citation_table) + 1)
  BY <1>1, <1>3 DEF find_citation_item
<1>. QED
  BY <1>1, <1>4, <1>5 DEF find_citation_star

\* A table with one more citation, which has no id.
LEMMA WithIs ==
  ASSUME NEW S, NEW bid, CitesOk(citation_table, S, bid), NoId \notin S, NEW key \in Key, NEW from \in Froms,
         NEW n \in 1..(Len(citation_table) + 1)
  PROVE  /\ CitesOk(With(n, key, from), S, bid) /\ n \in DOMAIN With(n, key, from)
         /\ \A i \in DOMAIN citation_table : i \in DOMAIN With(n, key, from) /\ With(n, key, from)[i] = citation_table[i]
<1>. DEFINE c == Citation(key, from)
            t == With(n, key, from)
<1>1. citation_table \in Seq(CitationType) /\ Len(citation_table) \in Nat /\ DOMAIN citation_table = 1..Len(citation_table)
  BY DEF CitesOk
<1>2. c \in CitationType /\ c.id = NoId /\ c.solved = NoId
  BY BidsDiffer DEF Citation, CitationType
<1>3. CASE n <= Len(citation_table)
  BY <1>1, <1>3 DEF With
<1>4. CASE n = Len(citation_table) + 1
  <2>1. ~(n <= Len(citation_table))
    BY <1>1, <1>4
  <2>2. t = Append(citation_table, c)
    BY <2>1 DEF With
  <2>. HIDE DEF t, c
  <2>3. /\ t \in Seq(CitationType) /\ DOMAIN t = DOMAIN citation_table \cup {n} /\ n \notin DOMAIN citation_table
        /\ t[n] = c /\ \A i \in DOMAIN citation_table : t[i] = citation_table[i]
    BY <1>1, <1>2, <1>4, <2>2
  <2>4. Unsolved(t[n]) /\ t[n].id = NoId
    BY <1>2, <2>3 DEF Unsolved
  <2>5. \A i \in DOMAIN t : IF Unsolved(t[i]) THEN t[i].id \notin S /\ t[i].id \in Bids \cup {NoId} ELSE t[i].id \in S /\ t[i].id # NoId
    BY <2>3, <2>4 DEF CitesOk
  <2>6. \A i, k \in DOMAIN t : t[i].id = t[k].id /\ t[i].id # NoId => i = k
    BY <2>3, <2>4 DEF CitesOk
  <2>7. \A m \in Int : m >= bid => \A i \in DOMAIN t : t[i].id # Bid(m)
    BY <2>3, <2>4, BidsDiffer DEF CitesOk
  <2>8. CitesOk(t, S, bid)
    BY <2>3, <2>5, <2>6, <2>7 DEF CitesOk
  <2>. QED
    BY <2>3, <2>8 DEF t
<1>. QED
  BY <1>1, <1>3, <1>4

\* The last id is new to S.
New(S) == last_bid \in Int /\ \A m \in Int : m >= last_bid => Bid(m) \notin S

\* A citation has an id.
LEMMA IdIs ==
  ASSUME NEW S, NEW t, CitesOk(t, S, last_bid), New(S), NEW n \in DOMAIN t
  PROVE  /\ IdOf(t, n) \in Ids /\ IdOf(t, n) # NoId /\ NextBid(t, n) \in Int /\ NextBid(t, n) >= last_bid
         /\ t[n].id # NoId => IdOf(t, n) = t[n].id
         /\ Unsolved(t[n]) => IdOf(t, n) \notin S /\ IdOf(t, n) \in Bids
         /\ \A i \in DOMAIN t : t[i].id = IdOf(t, n) => i = n
         /\ \A m \in Int : m >= NextBid(t, n) => IdOf(t, n) # Bid(m) /\ Bid(m) \notin S /\ \A i \in DOMAIN t : t[i].id # Bid(m)
<1>1. last_bid \in Int /\ last_bid >= last_bid /\ Bid(last_bid) \notin S /\ Bid(last_bid) \in Ids /\ Bid(last_bid) \in Bids /\ Bid(last_bid) # NoId
  BY BidsDiffer DEF New
<1>2. t[n] \in CitationType
  BY DEF CitesOk
<1>3. CASE t[n].id = NoId
  <2>1. IdOf(t, n) = Bid(last_bid) /\ NextBid(t, n) = last_bid + 1
    BY <1>3 DEF IdOf, NextBid
  <2>2. \A i \in DOMAIN t : t[i].id # Bid(last_bid)
    BY <1>1 DEF CitesOk
  <2>3. \A m \in Int : m >= last_bid + 1 => m >= last_bid /\ m # last_bid
    BY <1>1
  <2>4. \A m \in Int : m >= last_bid + 1 => Bid(last_bid) # Bid(m)
    BY <1>1, <2>3, BidsDiffer
  <2>5. last_bid + 1 \in Int /\ last_bid + 1 >= last_bid
    BY <1>1
  <2>. QED
    BY <1>1, <1>3, <2>1, <2>2, <2>3, <2>4, <2>5 DEF New, CitesOk
<1>4. CASE t[n].id # NoId
  <2>1. IdOf(t, n) = t[n].id /\ NextBid(t, n) = last_bid
    BY <1>4 DEF IdOf, NextBid
  <2>2. t[n].id \in Ids
    BY <1>2 DEF CitationType
  <2>. QED
    BY <1>1, <1>4, <2>1, <2>2 DEF New, CitesOk
<1>. QED
  BY <1>3, <1>4

\* A citation is given an id.
LEMMA IdGiven ==
  ASSUME NEW S, NEW t, CitesOk(t, S, last_bid), New(S), NEW n \in DOMAIN t
  PROVE  /\ CitesOk([t EXCEPT ![n].id = IdOf(t, n)], S, NextBid(t, n))
         /\ \A i \in DOMAIN t : t[i].id # NoId => [t EXCEPT ![n].id = IdOf(t, n)][i].id = t[i].id
         /\ DOMAIN [t EXCEPT ![n].id = IdOf(t, n)] = DOMAIN t /\ [t EXCEPT ![n].id = IdOf(t, n)][n].id = IdOf(t, n)
<1>. DEFINE id == IdOf(t, n)
            u == [t EXCEPT ![n].id = id]
<1>1. t \in Seq(CitationType) /\ t[n] \in CitationType /\ id \in Ids
  BY IdIs DEF CitesOk
<1>. HIDE DEF id
<1>2. [t[n] EXCEPT !.id = id] \in CitationType
  BY <1>1 DEF CitationType
<1>3. /\ u \in Seq(CitationType) /\ DOMAIN u = DOMAIN t /\ u[n].id = id /\ u[n].solved = t[n].solved
      /\ \A i \in DOMAIN t : i # n => u[i] = t[i]
  BY <1>1, <1>2 DEF CitationType
<1>. HIDE DEF u
<1>4. t[n].id # NoId => id = t[n].id
  BY IdIs DEF id
<1>5. Unsolved(u[n]) <=> Unsolved(t[n])
  BY <1>3 DEF Unsolved
<1>6. \A i \in DOMAIN u : IF Unsolved(u[i]) THEN u[i].id \notin S /\ u[i].id \in Bids \cup {NoId} ELSE u[i].id \in S /\ u[i].id # NoId
  <2>1. Unsolved(t[n]) => id \notin S /\ id \in Bids
    BY IdIs DEF id
  <2>. QED
    BY <1>3, <1>4, <1>5, <2>1 DEF CitesOk
<1>7. \A i, k \in DOMAIN u : u[i].id = u[k].id /\ u[i].id # NoId => i = k
  <2>1. \A i \in DOMAIN t : t[i].id = id => i = n
    BY IdIs DEF id
  <2>. QED
    BY <1>3, <2>1 DEF CitesOk
<1>8. \A m \in Int : m >= NextBid(t, n) => \A i \in DOMAIN u : u[i].id # Bid(m)
  <2>1. \A m \in Int : m >= NextBid(t, n) => id # Bid(m) /\ \A i \in DOMAIN t : t[i].id # Bid(m)
    BY IdIs DEF id
  <2>. QED
    BY <1>3, <2>1
<1>9. CitesOk(u, S, NextBid(t, n))
  BY <1>3, <1>6, <1>7, <1>8 DEF CitesOk
<1>. QED
  BY <1>3, <1>4, <1>9 DEF u, id

\* A citation is solved by an element with the given id, which no other has.
LEMMA Solved ==
  ASSUME NEW S, NEW t, NEW bid, CitesOk(t, S, bid), NEW n \in DOMAIN t, Unsolved(t[n]), NEW id \in Ids, id # NoId,
         \A i \in DOMAIN t : t[i].id = id => i = n, id \notin S,
         NEW b \in Int, \A m \in Int : m >= b => id # Bid(m) /\ \A i \in DOMAIN t : t[i].id # Bid(m)
  PROVE  CitesOk([t EXCEPT ![n].id = id, ![n].solved = id], S \cup {id}, b)
<1>. DEFINE u == [t EXCEPT ![n].id = id, ![n].solved = id]
            c == [t[n] EXCEPT !.id = id, !.solved = id]
<1>1. t \in Seq(CitationType) /\ t[n] \in CitationType
  BY DEF CitesOk
<1>2. c \in CitationType /\ c.id = id /\ c.solved = id
  BY <1>1 DEF CitationType
<1>3. u = [t EXCEPT ![n] = c]
  BY <1>1
<1>. HIDE DEF c, u
<1>4. /\ u \in Seq(CitationType) /\ DOMAIN u = DOMAIN t /\ u[n].id = id /\ u[n].solved = id
      /\ \A i \in DOMAIN t : i # n => u[i] = t[i]
  BY <1>1, <1>2, <1>3
<1>5. ~Unsolved(u[n])
  BY <1>4 DEF Unsolved
<1>6. \A i \in DOMAIN u : IF Unsolved(u[i]) THEN u[i].id \notin S \cup {id} /\ u[i].id \in Bids \cup {NoId}
                                             ELSE u[i].id \in S \cup {id} /\ u[i].id # NoId
  BY <1>4, <1>5 DEF CitesOk
<1>7. \A i, k \in DOMAIN u : u[i].id = u[k].id /\ u[i].id # NoId => i = k
  BY <1>4 DEF CitesOk
<1>8. \A m \in Int : m >= b => \A i \in DOMAIN u : u[i].id # Bid(m)
  BY <1>4
<1>9. CitesOk(u, S \cup {id}, b)
  BY <1>4, <1>6, <1>7, <1>8 DEF CitesOk
<1>. QED
  BY <1>9 DEF u

-----------------------------------------------------------------------------
(* The inductive invariant.                                                *)

\* The types of the state, and what is true at any time: the elements have ids of
\* their own, and each target is the id of a citation.
Linked ==
  /\ document \in DOMAIN Documents /\ phase \in {"text", "read", "done"} /\ last_bid \in Int
  /\ ids \in Seq(Ids) /\ Distinct(ids) /\ NoId \notin ToSet(ids)
  /\ citation_table \in Seq(CitationType)
  /\ refs \in Seq(Ids)
  /\ \A i \in DOMAIN refs : refs[i] # NoId /\ \E k \in DOMAIN citation_table : citation_table[k].id = refs[i]
  /\ reported \in SUBSET Key /\ macros \in [Uses.strings -> Int]
  /\ unread \in Seq(Seq(Item) \ {<<>>})
  /\ phase # "done" => output = <<>>

\* In the text, a citation has the id of an element if it is solved, and another id
\* or none if it is not; the entries are elements.
TextOk ==
  /\ CitesOk(citation_table, ToSet(ids), last_bid)
  /\ \A i \in DOMAIN all_entries :
       all_entries[i].explicit /\ all_entries[i].type # Unknown /\ all_entries[i].id \in ToSet(ids)

\* Then, each citation has the id of an element or of an entry, or an error was signalled.
CitationsKnown ==
  \A k \in DOMAIN citation_table : citation_table[k].id # NoId =>
    \/ citation_table[k].id \in ToSet(ids) \/ citation_table[k].key \in reported
    \/ HasEntry(all_entries, citation_table[k])

IInv ==
  /\ Linked /\ Apart(all_entries, last_bid, ToSet(ids))
  /\ IF phase = "text" THEN TextOk ELSE CitationsKnown
  /\ phase = "done" => IdsAreUnique /\ CitationsAreSolved

\* The ids that elements have of their own are not those that the program makes.
OwnIds == \A d \in DOMAIN Documents : Documents[d].ids \cap Bids = {}

\* The sets that the commands use.
LEMMA UsesAre ==
  ASSUME document \in DOMAIN Documents
  PROVE  /\ Uses.keys \subseteq Key /\ Uses.strings \subseteq Int /\ Uses.databases \subseteq Seq(Seq(Item) \ {<<>>})
         /\ Uses.from \subseteq Froms /\ Uses.ids \subseteq Ids /\ (OwnIds => Uses.ids \cap Bids = {})
BY BibliographyAssumption DEF Uses, Froms, Ids, OwnIds

\* The set of a longer sequence.
LEMMA ToSetAppend ==
  ASSUME NEW V, NEW s \in Seq(V), NEW x \in V
  PROVE  /\ ToSet(Append(s, x)) = ToSet(s) \cup {x} /\ Append(s, x) \in Seq(V)
         /\ Distinct(s) /\ x \notin ToSet(s) => Distinct(Append(s, x))
<1>. DEFINE t == Append(s, x)
<1>1. /\ t \in Seq(V) /\ DOMAIN t = DOMAIN s \cup {Len(s) + 1} /\ t[Len(s) + 1] = x
      /\ \A i \in DOMAIN s : t[i] = s[i] /\ i # Len(s) + 1
  OBVIOUS
<1>. HIDE DEF t
<1>2. ToSet(t) = ToSet(s) \cup {x}
  BY <1>1 DEF ToSet
<1>3. Distinct(s) /\ x \notin ToSet(s) => Distinct(t)
  BY <1>1 DEF ToSet, Distinct
<1>. QED
  BY <1>1, <1>2, <1>3 DEF t

\* In the text all entries are elements, so there is nothing to know but their ids.
LEMMA TextApart ==
  ASSUME NEW es, NEW bid, NEW S, Apart(es, bid, S), \A i \in DOMAIN es : es[i].explicit,
         NEW b \in Int, b >= bid, NEW T, \A m \in Int : m >= b => Bid(m) \notin T
  PROVE  Apart(es, b, T)
<1>1. bid \in Int
  BY DEF Apart
<1>2. \A m \in Int : m >= b => m >= bid
  BY <1>1
<1>. QED
  BY <1>2 DEF Apart

\* The invariant holds in the beginning.
LEMMA Starts == Init => IInv
<1>. SUFFICES ASSUME Init PROVE IInv
  OBVIOUS
<1>1. /\ document \in DOMAIN Documents /\ phase = "text" /\ citation_table = <<>> /\ unread = <<>> /\ last_bid = -1
      /\ refs = <<>> /\ ids = <<>> /\ macros = [m \in Uses.strings |-> 0] /\ all_entries = <<>> /\ output = <<>> /\ reported = {}
  BY DEF Init
<1>2. ToSet(ids) = {} /\ Distinct(ids)
  BY <1>1 DEF ToSet, Distinct
<1>3. macros \in [Uses.strings -> Int]
  BY <1>1
<1>4. Linked
  BY <1>1, <1>2, <1>3 DEF Linked
<1>5. Apart(all_entries, last_bid, ToSet(ids))
  BY <1>1, <1>2 DEF Apart
<1>6. TextOk
  BY <1>1, <1>2 DEF TextOk, CitesOk
<1>. QED
  BY <1>1, <1>4, <1>5, <1>6 DEF IInv

\* What the invariant says of the text.
LEMMA TextIs ==
  ASSUME IInv, phase = "text"
  PROVE  /\ Linked /\ Apart(all_entries, last_bid, ToSet(ids)) /\ CitesOk(citation_table, ToSet(ids), last_bid)
         /\ New(ToSet(ids)) /\ NoId \notin ToSet(ids) /\ output = <<>>
         /\ \A i \in DOMAIN all_entries :
              all_entries[i].explicit /\ all_entries[i].type # Unknown /\ all_entries[i].id \in ToSet(ids)
BY DEF IInv, TextOk, Linked, Apart, New

\* \cite
LEMMA CiteKeeps ==
  ASSUME IInv, NEW key \in Uses.keys, NEW from \in Uses.from, T_cite_one(key, from)
  PROVE  IInv'
<1>. DEFINE n == find_citation_item(key, from)
            t == With(n, key, from)
            id == IdOf(t, n)
            u == [t EXCEPT ![n].id = id]
            S == ToSet(ids)
<1>1. /\ phase = "text" /\ citation_table' = u /\ last_bid' = NextBid(t, n) /\ refs' = Append(refs, id)
      /\ UNCHANGED <<document, phase, nocite, omitcite_list, ids, entryVars, reported>>
  BY DEF T_cite_one, Allowed
<1>2. /\ Linked /\ Apart(all_entries, last_bid, S) /\ CitesOk(citation_table, S, last_bid) /\ New(S) /\ NoId \notin S
      /\ \A i \in DOMAIN all_entries : all_entries[i].explicit /\ all_entries[i].type # Unknown /\ all_entries[i].id \in S
  BY <1>1, TextIs
<1>3. key \in Key /\ from \in Froms
  <2>1. document \in DOMAIN Documents
    BY <1>2 DEF Linked
  <2>2. Uses.keys \subseteq Key /\ Uses.from \subseteq Froms /\ Uses.ids \subseteq Ids /\ (OwnIds => Uses.ids \cap Bids = {})
    BY <2>1, UsesAre
  <2>. QED
    BY <2>2
<1>4. n \in 1..(Len(citation_table) + 1)
  BY <1>2, FindItemIs DEF Linked
<1>. HIDE DEF n, S
<1>5. /\ CitesOk(t, S, last_bid) /\ n \in DOMAIN t
      /\ \A i \in DOMAIN citation_table : i \in DOMAIN t /\ t[i] = citation_table[i]
  BY <1>2, <1>3, <1>4, WithIs
<1>. HIDE DEF t
<1>6. /\ id \in Ids /\ id # NoId /\ NextBid(t, n) \in Int /\ NextBid(t, n) >= last_bid
      /\ \A m \in Int : m >= NextBid(t, n) => Bid(m) \notin S
  BY <1>2, <1>5, IdIs
<1>7. /\ CitesOk(u, S, NextBid(t, n)) /\ \A i \in DOMAIN t : t[i].id # NoId => u[i].id = t[i].id
      /\ DOMAIN u = DOMAIN t /\ u[n].id = id
  BY <1>2, <1>5, IdGiven
<1>. HIDE DEF u, id
<1>8. refs' \in Seq(Ids) /\ \A i \in DOMAIN refs' : refs'[i] = id \/ (i \in DOMAIN refs /\ refs'[i] = refs[i])
  BY <1>1, <1>2, <1>6 DEF Linked
<1>9. \A i \in DOMAIN refs' : refs'[i] # NoId /\ \E k \in DOMAIN citation_table' : citation_table'[k].id = refs'[i]
  <2>. TAKE i \in DOMAIN refs'
  <2>1. CASE refs'[i] = id
    BY <1>1, <1>5, <1>6, <1>7, <2>1
  <2>2. CASE i \in DOMAIN refs /\ refs'[i] = refs[i]
    <3>1. PICK k \in DOMAIN citation_table : citation_table[k].id = refs[i]
      BY <1>2, <2>2 DEF Linked
    <3>2. refs[i] # NoId
      BY <1>2, <2>2 DEF Linked
    <3>. QED
      BY <1>1, <1>5, <1>7, <2>2, <3>1, <3>2
  <2>. QED
    BY <1>8, <2>1, <2>2
<1>10. Linked'
  BY <1>1, <1>2, <1>6, <1>7, <1>8, <1>9 DEF Linked, CitesOk, entryVars, Uses
<1>11. Apart(all_entries, last_bid, S)'
  <2>1. Apart(all_entries, NextBid(t, n), S)
    BY <1>2, <1>6, TextApart
  <2>. QED
    BY <1>1, <2>1 DEF entryVars, S
<1>12. TextOk'
  BY <1>1, <1>2, <1>7 DEF TextOk, entryVars, S
<1>. QED
  BY <1>1, <1>10, <1>11, <1>12 DEF IInv, S

\* \nocite
LEMMA NociteKeeps ==
  ASSUME IInv, NEW key \in Uses.keys, T_nocite(key)
  PROVE  IInv'
<1>. DEFINE n == find_citation_item(key, "")
            t == With(n, key, "")
            S == ToSet(ids)
<1>1. /\ phase = "text" /\ citation_table' = t
      /\ UNCHANGED <<document, phase, nocite, omitcite_list, last_bid, refs, ids, entryVars, reported>>
  BY DEF T_nocite, Allowed
<1>2. /\ Linked /\ Apart(all_entries, last_bid, S) /\ CitesOk(citation_table, S, last_bid) /\ NoId \notin S
      /\ \A i \in DOMAIN all_entries : all_entries[i].explicit /\ all_entries[i].type # Unknown /\ all_entries[i].id \in S
  BY <1>1, TextIs
<1>3. key \in Key /\ "" \in Froms
  BY <1>2, UsesAre DEF Linked, Froms
<1>4. n \in 1..(Len(citation_table) + 1)
  BY <1>2, FindItemIs DEF Linked
<1>. HIDE DEF n, S
<1>5. CitesOk(t, S, last_bid) /\ \A i \in DOMAIN citation_table : i \in DOMAIN t /\ t[i] = citation_table[i]
  BY <1>2, <1>3, <1>4, WithIs
<1>. HIDE DEF t
<1>6. Linked'
  <2>1. \A i \in DOMAIN refs : refs[i] # NoId /\ \E k \in DOMAIN t : t[k].id = refs[i]
    BY <1>2, <1>5 DEF Linked
  <2>. QED
    BY <1>1, <1>2, <1>5, <2>1 DEF Linked, CitesOk, entryVars, Uses
<1>7. TextOk'
  BY <1>1, <1>2, <1>5 DEF TextOk, entryVars, S
<1>8. Apart(all_entries, last_bid, S)'
  BY <1>1, <1>2 DEF entryVars, S
<1>. QED
  BY <1>1, <1>6, <1>7, <1>8 DEF IInv, S

\* \bibitem and \XMLsolvecite
LEMMA SolveKeeps ==
  ASSUME OwnIds, IInv, NEW key \in Uses.keys, NEW from \in Uses.from, NEW star \in BOOLEAN, NEW my_id \in Uses.ids,
         solve_cite(key, from, star, my_id)
  PROVE  IInv'
<1>. DEFINE n == IF star THEN find_citation_star(key, from) ELSE find_citation_item(key, from)
            t == With(n, key, from)
            own == my_id # NoId
            id == IF own THEN my_id ELSE IdOf(t, n)
            u == [t EXCEPT ![n].id = id, ![n].solved = id]
            b == IF own THEN last_bid ELSE NextBid(t, n)
            S == ToSet(ids)
<1>1. /\ phase = "text" /\ my_id \notin S
      /\ IF CannotSolve(t[n], own)
         THEN reported' = reported \cup {key} /\ citation_table' = t /\ UNCHANGED <<last_bid, ids>>
         ELSE citation_table' = u /\ last_bid' = b /\ ids' = Append(ids, id) /\ UNCHANGED reported
      /\ UNCHANGED <<document, phase, nocite, omitcite_list, refs, entryVars>>
  BY DEF solve_cite, Allowed
<1>2. /\ Linked /\ Apart(all_entries, last_bid, S) /\ CitesOk(citation_table, S, last_bid) /\ New(S) /\ NoId \notin S
      /\ \A i \in DOMAIN all_entries : all_entries[i].explicit /\ all_entries[i].type # Unknown /\ all_entries[i].id \in S
  BY <1>1, TextIs
<1>3. key \in Key /\ from \in Froms /\ my_id \in Ids /\ my_id \notin Bids
  <2>1. document \in DOMAIN Documents
    BY <1>2 DEF Linked
  <2>2. Uses.keys \subseteq Key /\ Uses.from \subseteq Froms /\ Uses.ids \subseteq Ids /\ (OwnIds => Uses.ids \cap Bids = {})
    BY <2>1, UsesAre
  <2>. QED
    BY <2>2
<1>4. n \in 1..(Len(citation_table) + 1)
  BY <1>2, FindItemIs DEF Linked
<1>. HIDE DEF n, S
<1>5. /\ CitesOk(t, S, last_bid) /\ n \in DOMAIN t
      /\ \A i \in DOMAIN citation_table : i \in DOMAIN t /\ t[i] = citation_table[i]
  BY <1>2, <1>3, <1>4, WithIs
<1>. HIDE DEF t
<1>6. CASE CannotSolve(t[n], own)
  <2>1. reported' = reported \cup {key} /\ citation_table' = t /\ UNCHANGED <<last_bid, ids>>
    BY <1>1, <1>6
  <2>2. \A i \in DOMAIN refs : refs[i] # NoId /\ \E k \in DOMAIN t : t[k].id = refs[i]
    BY <1>2, <1>5 DEF Linked
  <2>3. Linked'
    BY <1>1, <1>2, <1>3, <1>5, <2>1, <2>2 DEF Linked, CitesOk, entryVars, Uses
  <2>4. TextOk'
    BY <1>1, <1>2, <1>5, <2>1 DEF TextOk, entryVars, S
  <2>5. Apart(all_entries, last_bid, S)'
    BY <1>1, <1>2, <2>1 DEF entryVars, S
  <2>. QED
    BY <1>1, <2>3, <2>4, <2>5 DEF IInv, S
<1>7. CASE ~CannotSolve(t[n], own)
  <2>1. citation_table' = u /\ last_bid' = b /\ ids' = Append(ids, id) /\ UNCHANGED reported
    BY <1>1, <1>7
  <2>2. Unsolved(t[n]) /\ (own => t[n].id = NoId)
    BY <1>7 DEF CannotSolve
  <2>3. /\ id \in Ids /\ id # NoId /\ id \notin S /\ b \in Int /\ b >= last_bid
        /\ \A i \in DOMAIN t : t[i].id = id => i = n
        /\ \A m \in Int : m >= b => id # Bid(m) /\ Bid(m) \notin S /\ \A i \in DOMAIN t : t[i].id # Bid(m)
        /\ t[n].id # NoId => id = t[n].id
    <3>1. CASE own
      <4>1. \A i \in DOMAIN t : t[i].id # my_id
        BY <1>1, <1>3, <1>5, <3>1 DEF CitesOk
      <4>2. last_bid \in Int /\ last_bid >= last_bid
        BY <1>2 DEF New
      <4>. QED
        BY <1>1, <1>2, <1>3, <1>5, <2>2, <3>1, <4>1, <4>2, BidsDiffer DEF New, CitesOk
    <3>2. CASE ~own
      BY <1>2, <1>5, <2>2, <3>2, IdIs
    <3>. QED
      BY <3>1, <3>2
  <2>. HIDE DEF id, b, own
  <2>4. CitesOk(u, S \cup {id}, b)
    BY <1>5, <2>2, <2>3, Solved
  <2>5. /\ DOMAIN u = DOMAIN t /\ \A i \in DOMAIN t : t[i].id # NoId => u[i].id = t[i].id
    <3>1. t \in Seq(CitationType) /\ t[n] \in CitationType
      BY <1>5 DEF CitesOk
    <3>2. \A i \in DOMAIN t : i # n => u[i] = t[i]
      BY <3>1
    <3>3. u[n].id = id
      BY <1>5, <3>1 DEF CitationType
    <3>. QED
      BY <2>3, <3>1, <3>2, <3>3
  <2>. HIDE DEF u
  <2>6. /\ ToSet(ids)' = S \cup {id} /\ ids' \in Seq(Ids) /\ Distinct(ids)'
    <3>1. ids \in Seq(Ids) /\ Distinct(ids)
      BY <1>2 DEF Linked
    <3>2. id \notin ToSet(ids)
      BY <2>3 DEF S
    <3>. QED
      BY <2>1, <2>3, <3>1, <3>2, ToSetAppend DEF S
  <2>7. \A i \in DOMAIN refs : refs[i] # NoId /\ \E k \in DOMAIN u : u[k].id = refs[i]
    BY <1>2, <1>5, <2>5 DEF Linked
  <2>8. Linked'
    BY <1>1, <1>2, <2>1, <2>3, <2>4, <2>6, <2>7 DEF Linked, CitesOk, entryVars, Uses
  <2>9. Apart(all_entries, last_bid, ToSet(ids))'
    <3>1. Apart(all_entries, b, S \cup {id})
      BY <1>2, <2>3, TextApart
    <3>. QED
      BY <1>1, <2>1, <2>6, <3>1 DEF entryVars
  <2>10. TextOk'
    BY <1>1, <1>2, <2>1, <2>4, <2>6 DEF TextOk, entryVars
  <2>. QED
    BY <1>1, <2>8, <2>9, <2>10 DEF IInv
<1>. QED
  BY <1>6, <1>7

\* \nocite{*} and \omitcite
LEMMA ListsKeep ==
  ASSUME IInv, set_nocite \/ \E key \in Uses.keys : T_omitcite(key)
  PROVE  IInv'
<1>1. UNCHANGED <<document, phase, citation_table, last_bid, refs, ids, entryVars, reported>>
  BY DEF set_nocite, T_omitcite
<1>2. /\ document' = document /\ phase' = phase /\ citation_table' = citation_table /\ last_bid' = last_bid /\ refs' = refs
      /\ ids' = ids /\ reported' = reported /\ unread' = unread /\ macros' = macros /\ all_entries' = all_entries
      /\ output' = output
  BY <1>1 DEF entryVars
<1>3. phase = "text"
  BY DEF set_nocite, T_omitcite, Allowed
<1>4. phase' # "done"
  BY <1>2, <1>3
<1>5. Linked' /\ Apart(all_entries, last_bid, ToSet(ids))' /\ TextOk'
  BY <1>2, <1>3 DEF IInv, Linked, TextOk, Uses
<1>. QED
  BY <1>2, <1>3, <1>4, <1>5 DEF IInv

\* \bibitem of the language of bibliographies
LEMMA BibitemKeeps ==
  ASSUME IInv, NEW key \in Uses.keys, exec_bibitem(key)
  PROVE  IInv'
<1>. DEFINE s0 == [entries |-> all_entries, bid |-> last_bid]
            s == find_or_make(s0, key, "all")
            n == find_entry(s.entries, key)
            S == ToSet(ids)
<1>1. /\ phase = "text"
      /\ IF s.entries[n].type # Unknown
         THEN reported' = reported \cup {key} /\ UNCHANGED <<last_bid, all_entries, ids>>
         ELSE /\ all_entries' = [s.entries EXCEPT ![n].type = "article", ![n].explicit = TRUE]
              /\ last_bid' = s.bid /\ ids' = Append(ids, s.entries[n].id) /\ UNCHANGED reported
      /\ UNCHANGED <<document, phase, citation_table, nocite, omitcite_list, biblio_src, unread, refs, macros, output>>
  BY DEF exec_bibitem, Allowed
<1>2. /\ Linked /\ Apart(all_entries, last_bid, S) /\ CitesOk(citation_table, S, last_bid) /\ New(S)
      /\ \A i \in DOMAIN all_entries : all_entries[i].explicit /\ all_entries[i].type # Unknown /\ all_entries[i].id \in S
  BY <1>1, TextIs
<1>3. key \in Key
  <2>1. document \in DOMAIN Documents
    BY <1>2 DEF Linked
  <2>. QED
    BY <2>1, UsesAre
<1>4. all_entries \in Seq(EntryType) /\ last_bid \in Int
  BY <1>2 DEF Apart
<1>5. CASE s.entries[n].type # Unknown
  <2>1. reported' = reported \cup {key} /\ UNCHANGED <<last_bid, all_entries, ids>>
    BY <1>1, <1>5
  <2>2. Linked'
    BY <1>1, <1>2, <1>3, <2>1 DEF Linked, Uses
  <2>3. TextOk'
    BY <1>1, <1>2, <2>1 DEF TextOk
  <2>4. Apart(all_entries, last_bid, S)'
    BY <1>2, <2>1
  <2>. QED
    BY <1>1, <2>2, <2>3, <2>4 DEF IInv
<1>6. CASE ~(s.entries[n].type # Unknown)
  <2>. DEFINE id == Bid(last_bid)
              e == BibEntry(key, "all", id)
              fs == Append(all_entries, e)
              es == [fs EXCEPT ![n].type = "article", ![n].explicit = TRUE]
  <2>1. find_entry(all_entries, key) = None
    <3>1. ASSUME find_entry(all_entries, key) # None PROVE FALSE
      <4>1. s = s0
        BY <1>4, <3>1 DEF find_or_make
      <4>2. n \in DOMAIN all_entries /\ s.entries = all_entries
        BY <1>4, <3>1, <4>1, FindEntryIs
      <4>. QED
        BY <1>2, <1>6, <4>2
    <3>. QED
      BY <3>1
  <2>2. s.entries = fs /\ s.bid = last_bid + 1
    <3>1. s = [s0 EXCEPT !.entries = fs, !.bid = last_bid + 1]
      BY <2>1 DEF find_or_make
    <3>. HIDE DEF s, fs
    <3>. QED
      BY <3>1
  <2>3. e \in EntryType /\ e.id = id /\ e.key = key /\ e.crossref = None
    BY <1>3, <1>4, BidsDiffer, NewEntry DEF Reasons
  <2>4. Apart(fs, last_bid + 1, S)
    BY <1>2, <1>3, ApartNew DEF Reasons
  <2>. HIDE DEF e, s, s0
  <2>5. /\ fs \in Seq(EntryType) /\ DOMAIN fs = DOMAIN all_entries \cup {Len(all_entries) + 1}
        /\ fs[Len(all_entries) + 1] = e /\ \A i \in DOMAIN all_entries : fs[i] = all_entries[i] /\ i # Len(all_entries) + 1
    BY <1>4, <2>3
  <2>6. n \in DOMAIN fs
    <3>1. fs[Len(all_entries) + 1].key = key /\ Len(all_entries) + 1 \in DOMAIN fs
      BY <2>3, <2>5
    <3>2. find_entry(fs, key) \in DOMAIN fs
      BY <2>5, <3>1, FindEntryIs
    <3>. QED
      BY <2>2, <3>2
  <2>. HIDE DEF n, fs
  <2>7. n = Len(all_entries) + 1
    BY <1>2, <1>6, <2>2, <2>5, <2>6
  <2>8. fs[n] = e /\ fs[n].id = id
    BY <2>3, <2>5, <2>7
  <2>9. /\ es \in Seq(EntryType) /\ DOMAIN es = DOMAIN fs
        /\ es[n].id = id /\ es[n].type = "article" /\ es[n].explicit /\ es[n].crossref = None
        /\ \A i \in DOMAIN fs : i # n => es[i] = fs[i]
    <3>. DEFINE f == [e EXCEPT !.type = "article", !.explicit = TRUE]
    <3>1. f \in EntryType /\ f.id = id /\ f.type = "article" /\ f.explicit = TRUE /\ f.crossref = None
      BY <2>3 DEF EntryType, Types
    <3>2. es = [fs EXCEPT ![n] = f]
      BY <2>5, <2>6, <2>8
    <3>. HIDE DEF f, es
    <3>. QED
      BY <2>5, <2>6, <3>1, <3>2
  <2>. HIDE DEF es
  <2>10. all_entries' = es /\ last_bid' = last_bid + 1 /\ ids' = Append(ids, id) /\ UNCHANGED reported
    BY <1>1, <1>6, <2>2, <2>8 DEF es
  <2>11. id \in Ids /\ id # NoId /\ id \notin S /\ \A m \in Int : m >= last_bid + 1 => id # Bid(m) /\ Bid(m) \notin S
    <3>1. \A m \in Int : m >= last_bid + 1 => m >= last_bid /\ m # last_bid
      BY <1>4
    <3>2. last_bid >= last_bid
      BY <1>4
    <3>. QED
      BY <1>2, <1>4, <3>1, <3>2, BidsDiffer DEF New
  <2>12. ToSet(ids)' = S \cup {id} /\ ids' \in Seq(Ids) /\ Distinct(ids)'
    <3>1. ids \in Seq(Ids) /\ Distinct(ids)
      BY <1>2 DEF Linked
    <3>. QED
      BY <2>10, <2>11, <3>1, ToSetAppend
  <2>13. last_bid + 1 \in Int
    BY <1>4
  <2>. HIDE DEF id
  <2>14. /\ \A i, k \in DOMAIN fs : fs[i].id = fs[k].id => i = k
         /\ \A m \in Int : m >= last_bid + 1 => \A i \in DOMAIN fs : fs[i].id # Bid(m)
         /\ \A i \in DOMAIN fs : fs[i].crossref \in DOMAIN fs \cup {None}
    BY <2>4 DEF Apart
  <2>15. \A i \in DOMAIN es : es[i].id = fs[i].id /\ es[i].explicit /\ es[i].type # Unknown /\ es[i].id \in S \cup {id}
                             /\ es[i].crossref \in DOMAIN es \cup {None}
    <3>1. "article" # Unknown
      BY DEF Unknown
    <3>. QED
      BY <1>2, <2>5, <2>7, <2>8, <2>9, <2>14, <3>1
  <2>16. Apart(es, last_bid + 1, S \cup {id})
    BY <2>9, <2>11, <2>13, <2>14, <2>15 DEF Apart
  <2>17. CitesOk(citation_table, S \cup {id}, last_bid + 1)
    <3>1. \A i \in DOMAIN citation_table : citation_table[i].id # id
      <4>1. last_bid >= last_bid
        BY <1>4
      <4>. QED
        BY <1>2, <1>4, <4>1 DEF CitesOk, id
    <3>2. \A m \in Int : m >= last_bid + 1 => m >= last_bid
      BY <1>4
    <3>. QED
      BY <1>2, <3>1, <3>2 DEF CitesOk
  <2>18. Linked'
    BY <1>1, <1>2, <2>10, <2>11, <2>12, <2>13 DEF Linked, Uses
  <2>19. TextOk'
    BY <1>1, <2>10, <2>12, <2>15, <2>17 DEF TextOk
  <2>20. Apart(all_entries, last_bid, ToSet(ids))'
    BY <2>10, <2>12, <2>16
  <2>. QED
    BY <1>1, <2>18, <2>19, <2>20 DEF IInv
<1>. QED
  BY <1>5, <1>6

\* The end of the text.
LEMMA AfterTextKeeps ==
  ASSUME IInv, after_main_text
  PROVE  IInv'
<1>. DEFINE s0 == [entries |-> all_entries, bid |-> last_bid, reported |-> reported]
            s == Dumped(s0)
            S == ToSet(ids)
            N == Len(citation_table)
<1>1. /\ phase = "text" /\ phase' = "read" /\ biblio_src' \in Uses.databases /\ unread' = biblio_src'
      /\ all_entries' = s.entries /\ last_bid' = s.bid /\ reported' = s.reported
      /\ UNCHANGED <<document, citation_table, nocite, omitcite_list, refs, ids, macros, output>>
  BY DEF after_main_text
<1>2. /\ Linked /\ Apart(all_entries, last_bid, S) /\ CitesOk(citation_table, S, last_bid) /\ New(S) /\ output = <<>>
      /\ \A i \in DOMAIN all_entries : all_entries[i].explicit /\ all_entries[i].type # Unknown /\ all_entries[i].id \in S
  BY <1>1, TextIs
<1>. HIDE DEF S
<1>3. DumpOk(0, s0, S)
  <2>1. all_entries \in Seq(EntryType) /\ last_bid \in Int /\ reported \in SUBSET Key
    BY <1>2 DEF Apart, Linked
  <2>2. s0 \in DumpType /\ s0.entries = all_entries /\ s0.bid = last_bid
    BY <2>1 DEF DumpType
  <2>. HIDE DEF s0
  <2>3. \A k \in DOMAIN citation_table : Unsolved(citation_table[k]) => citation_table[k].id \notin S
    BY <1>2 DEF CitesOk
  <2>. QED
    BY <1>2, <2>2, <2>3 DEF DumpOk, CitesOk
<1>. HIDE DEF s0
<1>4. DumpOk(N, s, S)
  BY <1>2, <1>3, DumpedOk
<1>. HIDE DEF s
<1>5. s \in DumpType /\ Apart(s.entries, s.bid, S) /\ s.bid \in Int /\ s.reported \in SUBSET Key
  BY <1>4 DEF DumpOk, Apart, DumpType
<1>6. unread' \in Seq(Seq(Item) \ {<<>>})
  <2>1. document \in DOMAIN Documents
    BY <1>2 DEF Linked
  <2>. QED
    BY <1>1, <2>1, UsesAre
<1>7. Linked'
  BY <1>1, <1>2, <1>5, <1>6 DEF Linked, Uses
<1>8. CitationsKnown'
  <2>1. \A k \in DOMAIN citation_table : k \in 1..N
    BY <1>2 DEF CitesOk
  <2>2. \A k \in DOMAIN citation_table : citation_table[k].id # NoId =>
          citation_table[k].id \in S \/ citation_table[k].key \in s.reported \/ HasEntry(s.entries, citation_table[k])
    BY <1>2, <1>4, <2>1 DEF DumpOk, CitesOk
  <2>. QED
    BY <1>1, <2>2 DEF CitationsKnown, S
<1>9. Apart(all_entries, last_bid, ToSet(ids))'
  BY <1>1, <1>5 DEF S
<1>. QED
  BY <1>1, <1>7, <1>8, <1>9 DEF IInv

-----------------------------------------------------------------------------
(* The databases and the bibliography.                                     *)

\* What the invariant says after the text.
LEMMA LaterIs ==
  ASSUME IInv, phase = "read"
  PROVE  /\ Linked /\ Apart(all_entries, last_bid, ToSet(ids)) /\ CitationsKnown /\ output = <<>>
         /\ all_entries \in Seq(EntryType) /\ last_bid \in Int /\ reported \in SUBSET Key
BY DEF IInv, Linked, Apart

\* An item of a database
LEMMA ParseKeeps ==
  ASSUME IInv, parse_one_item
  PROVE  IInv'
<1>. DEFINE file == Head(unread)
            item == Head(file)
            left == IF item.eof THEN <<>> ELSE Tail(file)
            s0 == [entries |-> all_entries, bid |-> last_bid]
            s == ReadEntry(s0, item)
            S == ToSet(ids)
            B == Seq(Item) \ {<<>>}
<1>1. /\ phase = "read" /\ unread # <<>>
      /\ unread' = (IF left = <<>> THEN Tail(unread) ELSE <<left>> \o Tail(unread))
      /\ \/ /\ item.type = "string" /\ macros' = [macros EXCEPT ![item.name] = item.value]
            /\ UNCHANGED <<all_entries, last_bid>>
         \/ /\ item.type # "string" /\ all_entries' = s.entries /\ last_bid' = s.bid /\ UNCHANGED macros
      /\ UNCHANGED <<document, phase, citation_table, nocite, omitcite_list, biblio_src, refs, ids, output, reported>>
  BY DEF parse_one_item
<1>2. /\ Linked /\ Apart(all_entries, last_bid, S) /\ CitationsKnown /\ output = <<>>
      /\ all_entries \in Seq(EntryType) /\ last_bid \in Int
  BY <1>1, LaterIs
<1>3. unread \in Seq(B) /\ macros \in [Uses.strings -> Int]
  BY <1>2 DEF Linked
<1>4. file \in Seq(Item) /\ file # <<>>
  BY <1>1, <1>3
<1>. HIDE DEF file
<1>5. item \in Item /\ left \in Seq(Item)
  BY <1>4
<1>. HIDE DEF left
<1>6. unread' \in Seq(B)
  <2>1. Tail(unread) \in Seq(B)
    BY <1>1, <1>3
  <2>2. ASSUME left # <<>> PROVE <<left>> \o Tail(unread) \in Seq(B)
    <3>1. left \in B
      BY <1>5, <2>2
    <3>. HIDE DEF B
    <3>. QED
      BY <2>1, <3>1
  <2>. QED
    BY <1>1, <2>1, <2>2
<1>. HIDE DEF item, s0, S
<1>7. CASE item.type = "string" /\ macros' = [macros EXCEPT ![item.name] = item.value] /\ UNCHANGED <<all_entries, last_bid>>
  <2>1. item.value \in Int
    BY <1>5, <1>7 DEF Item
  <2>2. macros' \in [Uses.strings -> Int]
    BY <1>3, <1>7, <2>1
  <2>3. Linked'
    BY <1>1, <1>2, <1>6, <1>7, <2>2 DEF Linked, Uses
  <2>4. CitationsKnown' /\ Apart(all_entries, last_bid, ToSet(ids))'
    BY <1>1, <1>2, <1>7 DEF CitationsKnown, S
  <2>. QED
    BY <1>1, <2>3, <2>4 DEF IInv
<1>8. CASE item.type # "string" /\ all_entries' = s.entries /\ last_bid' = s.bid /\ UNCHANGED macros
  <2>1. s0 \in Made /\ s0.entries = all_entries /\ s0.bid = last_bid
    BY <1>2, MadeIs DEF s0
  <2>2. Follows(s0, s, S)
    BY <1>2, <1>3, <1>5, <1>8, <2>1, ReadFollows
  <2>. HIDE DEF s
  <2>3. Apart(s.entries, s.bid, S) /\ Grows(all_entries, s.entries) /\ s.bid \in Int
    BY <2>1, <2>2 DEF Follows, Apart
  <2>4. Linked'
    BY <1>1, <1>2, <1>6, <1>8, <2>3 DEF Linked, Uses
  <2>5. Apart(all_entries, last_bid, ToSet(ids))'
    BY <1>1, <1>8, <2>3 DEF S
  <2>6. CitationsKnown'
    <3>1. \A k \in DOMAIN citation_table : HasEntry(all_entries, citation_table[k]) => HasEntry(s.entries, citation_table[k])
      BY <2>3, HasEntryStays
    <3>. QED
      BY <1>1, <1>2, <1>8, <3>1 DEF CitationsKnown
  <2>. QED
    BY <1>1, <2>4, <2>5, <2>6 DEF IInv
<1>. QED
  BY <1>1, <1>7, <1>8

\* Two sequences that follow each other have no element twice if none of them has and they have nothing in common.
LEMMA ConcatDistinct ==
  ASSUME NEW V, NEW s \in Seq(V), NEW t \in Seq(V), Distinct(s), Distinct(t), ToSet(s) \cap ToSet(t) = {}
  PROVE  s \o t \in Seq(V) /\ Distinct(s \o t) /\ ToSet(s \o t) \subseteq ToSet(s) \cup ToSet(t)
<1>. DEFINE u == s \o t
<1>1. u \in Seq(V) /\ DOMAIN u \subseteq Int /\ Len(s) \in Int
  OBVIOUS
<1>2. \A i \in DOMAIN u : (i \in DOMAIN s /\ u[i] = s[i]) \/ (i - Len(s) \in DOMAIN t /\ u[i] = t[i - Len(s)])
  OBVIOUS
<1>. HIDE DEF u
<1>3. ToSet(u) \subseteq ToSet(s) \cup ToSet(t)
  BY <1>2 DEF ToSet
<1>4. ASSUME NEW i \in DOMAIN u, NEW k \in DOMAIN u, u[i] = u[k] PROVE i = k
  <2>1. CASE i \in DOMAIN s /\ u[i] = s[i] /\ k \in DOMAIN s /\ u[k] = s[k]
    BY <1>4, <2>1 DEF Distinct
  <2>2. CASE i - Len(s) \in DOMAIN t /\ u[i] = t[i - Len(s)] /\ k - Len(s) \in DOMAIN t /\ u[k] = t[k - Len(s)]
    <3>1. i - Len(s) = k - Len(s)
      BY <1>4, <2>2 DEF Distinct
    <3>. QED
      BY <1>1, <3>1
  <2>3. \A j \in DOMAIN s, l \in DOMAIN t : s[j] # t[l]
    BY DEF ToSet
  <2>. QED
    BY <1>2, <1>4, <2>1, <2>2, <2>3
<1>. QED
  BY <1>1, <1>3, <1>4 DEF u, Distinct

\* The places of the entries that the bibliography has, in an order: each once.
LEMMA SortedIs ==
  ASSUME NEW es \in Seq(EntryType), NEW order \in Sorted(es)
  PROVE  /\ \E c \in Nat : DOMAIN order = 1..c
         /\ \A i \in DOMAIN order : order[i] \in DOMAIN es /\ Real(es[order[i]])
         /\ \A i, k \in DOMAIN order : order[i] = order[k] => i = k
         /\ \A j \in DOMAIN es : Real(es[j]) => \E i \in DOMAIN order : order[i] = j
         /\ \A i, k \in DOMAIN order : i < k => Less(SortLabel(es[order[i]], order[i]), SortLabel(es[order[k]], order[k]))
<1>. DEFINE real == { i \in DOMAIN es : Real(es[i]) }
<1>1. IsFiniteSet(real)
  <2>1. DOMAIN es = 1..Len(es) /\ Len(es) \in Int /\ 1 \in Int
    OBVIOUS
  <2>2. IsFiniteSet(DOMAIN es)
    BY <2>1, FS_Interval
  <2>. QED
    BY <2>2, FS_Subset
<1>2. Cardinality(real) \in Nat
  BY <1>1, FS_CardinalityType
<1>3. /\ order \in Bijection(1 .. Cardinality(real), real)
      /\ \A i, k \in DOMAIN order : i < k => Less(SortLabel(es[order[i]], order[i]), SortLabel(es[order[k]], order[k]))
  BY DEF Sorted
<1>. HIDE DEF real
<1>4. /\ order \in [1 .. Cardinality(real) -> real] /\ \A i, k \in DOMAIN order : order[i] = order[k] => i = k
      /\ \A j \in real : \E i \in 1 .. Cardinality(real) : order[i] = j
  BY <1>3 DEF Bijection, Injection, Surjection, IsInjective
<1>. QED
  BY <1>2, <1>3, <1>4 DEF real

\* The items of the bibliography are those of the table.
LEMMA PrintedIs ==
  ASSUME NEW table
  PROVE  /\ DOMAIN Printed(table) = DOMAIN table
         /\ \A i \in DOMAIN table : Printed(table)[i].id = table[i].id
BY DEF Printed

\* The bibliography
LEMMA WorkKeeps ==
  ASSUME IInv, work
  PROVE  IInv'
<1>. DEFINE es == Completed(all_entries)
            S == ToSet(ids)
            out == [i \in DOMAIN output' |-> output'[i].id]
<1>1. /\ phase = "read" /\ phase' = "done" /\ all_entries' = es
      /\ \E order \in Sorted(es) : output' = Printed([i \in DOMAIN order |-> es[order[i]]])
      /\ reported' = reported \cup { es[i].key : i \in { k \in DOMAIN es : es[k].type = Unknown } }
      /\ UNCHANGED <<document, citation_table, nocite, omitcite_list, biblio_src, unread, last_bid, refs, ids, macros>>
  BY DEF work
<1>2. /\ Linked /\ Apart(all_entries, last_bid, S) /\ CitationsKnown
      /\ all_entries \in Seq(EntryType) /\ last_bid \in Int /\ reported \in SUBSET Key
  BY <1>1, LaterIs
<1>3. Alike(all_entries, es)
  BY <1>2, CompletedAlike DEF Apart
<1>. HIDE DEF es
<1>4. es \in Seq(EntryType) /\ Grows(all_entries, es)
  BY <1>3 DEF Alike, Grows
<1>5. Apart(es, last_bid, S)
  <2>1. \A i \in DOMAIN es : es[i].crossref \in DOMAIN es \cup {None}
    BY <1>2, <1>3 DEF Apart, Alike
  <2>. QED
    BY <1>2, <1>3, <1>4, <2>1, ApartSame DEF Alike
<1>6. PICK order \in Sorted(es) : output' = Printed([i \in DOMAIN order |-> es[order[i]]])
  BY <1>1
<1>7. /\ \E c \in Nat : DOMAIN order = 1..c
      /\ \A i \in DOMAIN order : order[i] \in DOMAIN es /\ Real(es[order[i]])
      /\ \A i, k \in DOMAIN order : order[i] = order[k] => i = k
      /\ \A j \in DOMAIN es : Real(es[j]) => \E i \in DOMAIN order : order[i] = j
  BY <1>4, SortedIs
<1>8. DOMAIN output' = DOMAIN order /\ \A i \in DOMAIN order : output'[i].id = es[order[i]].id
  BY <1>6, PrintedIs
<1>9. /\ \A i \in DOMAIN es : es[i] \in EntryType /\ (~es[i].explicit => es[i].id \notin S)
      /\ \A i, k \in DOMAIN es : es[i].id = es[k].id => i = k
  BY <1>4, <1>5 DEF Apart
<1>10. /\ out \in Seq(Ids) /\ DOMAIN out = DOMAIN order /\ \A i \in DOMAIN order : out[i] = es[order[i]].id
  <2>1. \A i \in DOMAIN order : es[order[i]].id \in Ids
    BY <1>7, <1>9 DEF EntryType
  <2>2. out = [i \in DOMAIN order |-> es[order[i]].id]
    BY <1>8
  <2>. HIDE DEF out
  <2>3. PICK c \in Nat : DOMAIN order = 1..c
    BY <1>7
  <2>4. out \in [1..c -> Ids]
    BY <2>1, <2>2, <2>3
  <2>. QED
    BY <2>2, <2>3, <2>4
<1>. HIDE DEF out
<1>11. Distinct(out) /\ \A i \in DOMAIN out : out[i] \notin S
  BY <1>7, <1>9, <1>10 DEF Distinct, Real
<1>12. IdsAreUnique'
  <2>1. ids \in Seq(Ids) /\ Distinct(ids)
    BY <1>2 DEF Linked
  <2>2. ToSet(ids) \cap ToSet(out) = {}
    BY <1>11 DEF ToSet
  <2>3. Distinct(ids \o out)
    BY <1>10, <1>11, <2>1, <2>2, ConcatDistinct
  <2>. QED
    BY <1>1, <2>3 DEF IdsAreUnique, out
<1>13. reported \subseteq reported' /\ reported' \in SUBSET Key
      /\ \A i \in DOMAIN es : es[i].type = Unknown => es[i].key \in reported'
  BY <1>1, <1>2, <1>9 DEF EntryType
<1>14. \A k \in DOMAIN citation_table : citation_table[k].id # NoId =>
        \/ citation_table[k].id \in S \/ citation_table[k].key \in reported' \/ HasEntry(es, citation_table[k])
  <2>1. \A k \in DOMAIN citation_table : HasEntry(all_entries, citation_table[k]) => HasEntry(es, citation_table[k])
    BY <1>4, HasEntryStays
  <2>. QED
    BY <1>2, <1>13, <2>1 DEF CitationsKnown
<1>15. \A k \in DOMAIN citation_table : HasEntry(es, citation_table[k]) =>
        \/ citation_table[k].key \in reported' \/ \E i \in DOMAIN output' : output'[i].id = citation_table[k].id
  <2>. TAKE k \in DOMAIN citation_table
  <2>. HAVE HasEntry(es, citation_table[k])
  <2>1. PICK j \in DOMAIN es : es[j].id = citation_table[k].id /\ es[j].key = citation_table[k].key /\ ~es[j].explicit /\ es[j].why = "cite"
    BY DEF HasEntry
  <2>2. CASE es[j].type = Unknown
    BY <1>13, <2>1, <2>2
  <2>3. CASE es[j].type # Unknown
    <3>1. Real(es[j])
      BY <2>1, <2>3 DEF Real
    <3>. QED
      BY <1>7, <1>8, <2>1, <3>1
  <2>. QED
    BY <2>2, <2>3
<1>16. CitationsAreSolved'
  <2>1. \A i \in DOMAIN refs : refs[i] # NoId /\ \E k \in DOMAIN citation_table : citation_table[k].id = refs[i]
    BY <1>2 DEF Linked
  <2>2. \A i \in DOMAIN refs :
          \/ refs[i] \in S \/ \E k \in DOMAIN output' : output'[k].id = refs[i]
          \/ \E k \in DOMAIN citation_table : citation_table[k].id = refs[i] /\ citation_table[k].key \in reported'
    BY <1>14, <1>15, <2>1
  <2>. QED
    BY <1>1, <2>2 DEF CitationsAreSolved
<1>17. Linked'
  BY <1>1, <1>2, <1>13 DEF Linked, Uses
<1>18. CitationsKnown' /\ Apart(all_entries, last_bid, ToSet(ids))'
  BY <1>1, <1>5, <1>14 DEF CitationsKnown
<1>. QED
  BY <1>1, <1>12, <1>16, <1>17, <1>18 DEF IInv

\* A step that changes nothing
LEMMA StutterKeeps ==
  ASSUME IInv, UNCHANGED vars
  PROVE  IInv'
<1>1. /\ document' = document /\ phase' = phase /\ citation_table' = citation_table /\ last_bid' = last_bid /\ refs' = refs
      /\ ids' = ids /\ reported' = reported /\ unread' = unread /\ macros' = macros /\ all_entries' = all_entries
      /\ output' = output
  BY DEF vars
<1>2. Linked' /\ Apart(all_entries, last_bid, ToSet(ids))'
  BY <1>1 DEF IInv, Linked, Uses
<1>3. (TextOk <=> TextOk') /\ (CitationsKnown <=> CitationsKnown')
  BY <1>1 DEF TextOk, CitationsKnown
<1>4. phase = "done" => IdsAreUnique' /\ CitationsAreSolved'
  BY <1>1 DEF IInv, IdsAreUnique, CitationsAreSolved, Done
<1>. QED
  BY <1>1, <1>2, <1>3, <1>4 DEF IInv

\* The invariant holds.
LEMMA Invariant == OwnIds /\ Spec => []IInv
<1>. SUFFICES ASSUME OwnIds PROVE Spec => []IInv
  OBVIOUS
<1>1. ASSUME IInv, [Next]_vars PROVE IInv'
  <2>1. CASE UNCHANGED vars
    BY <1>1, <2>1, StutterKeeps
  <2>2. ASSUME NEW key \in Uses.keys, NEW from \in Uses.from, T_cite_one(key, from) PROVE IInv'
    BY <1>1, <2>2, CiteKeeps
  <2>3. ASSUME NEW key \in Uses.keys, T_nocite(key) \/ T_omitcite(key) \/ exec_bibitem(key) PROVE IInv'
    BY <1>1, <2>3, NociteKeeps, ListsKeep, BibitemKeeps
  <2>4. ASSUME NEW key \in Uses.keys, NEW from \in Uses.from, NEW star \in BOOLEAN, NEW id \in Uses.ids,
               solve_cite(key, from, star, id)
        PROVE  IInv'
    BY <1>1, <2>4, SolveKeeps
  <2>5. CASE set_nocite
    BY <1>1, <2>5, ListsKeep
  <2>6. CASE after_main_text
    BY <1>1, <2>6, AfterTextKeeps
  <2>7. CASE parse_one_item
    BY <1>1, <2>7, ParseKeeps
  <2>8. CASE work
    BY <1>1, <2>8, WorkKeeps
  <2>. QED
    BY <1>1, <2>1, <2>2, <2>3, <2>4, <2>5, <2>6, <2>7, <2>8 DEF Next
<1>. QED
  BY <1>1, Starts, PTL DEF Spec

\* What the invariant says in the end holds before: there is no bibliography.
LEMMA InvariantShows == IInv => IdsAreUnique /\ CitationsAreSolved
<1>. SUFFICES ASSUME IInv PROVE IdsAreUnique /\ CitationsAreSolved
  OBVIOUS
<1>1. CASE phase = "done"
  BY <1>1 DEF IInv
<1>2. CASE phase # "done"
  <2>1. CitationsAreSolved
    BY <1>2 DEF CitationsAreSolved, Done
  <2>2. output = <<>> /\ ids \in Seq(Ids) /\ Distinct(ids)
    BY <1>2 DEF IInv, Linked
  <2>3. [i \in DOMAIN output |-> output[i].id] = <<>>
    BY <2>2
  <2>4. ids \o <<>> = ids
    BY <2>2
  <2>5. IdsAreUnique
    BY <2>2, <2>3, <2>4 DEF IdsAreUnique
  <2>. QED
    BY <2>1, <2>5
<1>. QED
  BY <1>1, <1>2

\* An id is given to one element only.
THEOREM IdsAreUniqueHolds == OwnIds => (Spec => []IdsAreUnique)
BY Invariant, InvariantShows, PTL

\* The target of each citation is an element, or an error was signalled.
THEOREM CitationsAreSolvedHolds == OwnIds => (Spec => []CitationsAreSolved)
BY Invariant, InvariantShows, PTL

-----------------------------------------------------------------------------
(* Labels.                                                                 *)

\* The parts of a label are numbers.
LEMMA LabelIs ==
  ASSUME NEW e \in EntryType
  PROVE  /\ Label(e) \in Int \X Int \X Int
         /\ \A n : SortLabel(e, n)[1] = Label(e)[1] /\ SortLabel(e, n)[2] = Label(e)[3]
<1>1. e.fields \in [Names -> Int] /\ e.key \in Int \X Int
  BY DEF EntryType, Key
<1>2. \A f \in Names : e.fields[f] \in Int
  BY <1>1
<1>3. {"author", "editor", "key", "year"} \subseteq Names
  BY DEF Names
<1>4. Who(e) \in Int
  BY <1>2, <1>3 DEF Who
<1>5. Name(e)[1] \in Int /\ Name(e)[2] \in Int
  BY <1>1, <1>2, <1>3, <1>4 DEF Name, Upper
<1>6. TwoDigits(e) \in Int
  <2>1. FullYear(e.fields.year) \in Int
    BY <1>2, <1>3 DEF FullYear
  <2>. QED
    BY <2>1 DEF TwoDigits
<1>7. Name(e)[1] \div 10 \in Int
  BY <1>5
<1>. QED
  BY <1>5, <1>6, <1>7 DEF Label, SortLabel

\* Entries are sorted by the beginning of the name, and then by the year of the label.
LEMMA LessIs ==
  ASSUME NEW e \in EntryType, NEW f \in EntryType, NEW m, NEW n, Less(SortLabel(e, m), SortLabel(f, n))
  PROVE  \/ Label(e)[1] < Label(f)[1]
         \/ Label(e)[1] = Label(f)[1] /\ Label(e)[3] <= Label(f)[3]
<1>. DEFINE p == SortLabel(e, m)
            q == SortLabel(f, n)
<1>1. DOMAIN p = 1..6
  BY DEF SortLabel
<1>2. /\ p[1] = Label(e)[1] /\ p[2] = Label(e)[3] /\ q[1] = Label(f)[1] /\ q[2] = Label(f)[3]
      /\ p[1] \in Int /\ p[2] \in Int /\ q[1] \in Int /\ q[2] \in Int
  BY LabelIs
<1>. HIDE DEF p, q
<1>3. PICK i \in 1..6 : p[i] < q[i] /\ \A j \in 1 .. i-1 : p[j] = q[j]
  BY <1>1 DEF Less, p, q
<1>4. CASE i = 1
  BY <1>2, <1>3, <1>4
<1>5. CASE i = 2
  <2>1. 1 \in 1 .. i-1
    BY <1>5
  <2>. QED
    BY <1>2, <1>3, <1>5, <2>1
<1>6. CASE i > 2
  <2>1. 1 \in 1 .. i-1 /\ 2 \in 1 .. i-1
    BY <1>6
  <2>. QED
    BY <1>2, <1>3, <2>1
<1>. QED
  BY <1>4, <1>5, <1>6

\* The rank of an entry among those before it that have its label.
LEMMA ForwardIs ==
  ASSUME NEW c \in Nat, NEW table, DOMAIN table = 1..c, Len(table) = c
  PROVE  /\ DOMAIN forward_pass(table) = 1..c
         /\ \A i \in 1..c : forward_pass(table)[i] \in Nat
         /\ \A i \in 2..c : Label(table[i]) = Label(table[i - 1]) =>
              forward_pass(table)[i] = forward_pass(table)[i - 1] + 1
<1>. DEFINE V == Nat
            N == Len(table)
            D(i, r) == IF i > 1 /\ Label(table[i]) = Label(table[i - 1]) THEN r + 1 ELSE 0
            E(r_) == [i \in 0..N |-> IF i <= 1 THEN 0
                                      ELSE IF Label(table[i]) = Label(table[i - 1]) THEN r_[i - 1] + 1 ELSE 0]
            F == [i \in 1..N |-> [t \in V |-> D(i, t)]]
<1>1. forward_pass(table) = [i \in DOMAIN table |-> (CHOOSE r : r = E(r))[i]]
  BY DEF forward_pass
<1>2. N \in Nat
  OBVIOUS
<1>3. N \in Nat
  OBVIOUS
<1>. HIDE DEF N
<1>4. 0 \in V
  OBVIOUS
<1>5. \A i \in 1..N, t \in V : D(i, t) \in V
  BY DEF V
<1>. HIDE DEF V
<1>6. F \in [1..N -> [V -> V]]
  BY <1>5
<1>7. \A i \in 1..N, t \in V : F[i][t] = D(i, t)
  OBVIOUS
<1>. HIDE DEF F
<1>8. PICK r : Steps(N, V, F, 0, r)
  <2>1. N \in Nat
    BY <1>3
  <2>. QED
    BY ONLY <2>1, <1>4, <1>6, RecursionExists
<1>9. r = E(r)
  <2>1. r \in [0..N -> V] /\ r[0] = 0 /\ \A i \in 1..N : r[i] = F[i][r[i - 1]]
    BY <1>8 DEF Steps
  <2>2. \A i \in 0..N : r[i] = IF i <= 1 THEN 0
                                ELSE IF Label(table[i]) = Label(table[i - 1]) THEN r[i - 1] + 1 ELSE 0
    <3>. TAKE i \in 0..N
    <3>1. CASE i = 0
      BY <2>1, <3>1
    <3>2. CASE i # 0
      <4>1. i \in 1..N /\ i - 1 \in 0..N
        BY <1>3, <3>2
      <4>2. r[i - 1] \in V
        BY <2>1, <4>1
      <4>. QED
        BY <1>7, <2>1, <3>2, <4>1, <4>2
    <3>. QED
      BY <3>1, <3>2
  <2>. QED
    BY <2>1, <2>2
<1>. DEFINE R == CHOOSE r_1 : r_1 = E(r_1)
<1>10. R = E(R)
  BY <1>9, Zenon
<1>. HIDE DEF R
<1>11. R[0] = 0 /\ \A i \in 1..N : R[i] = D(i, R[i - 1])
  <2>1. \A i \in 0..N : R[i] = IF i <= 1 THEN 0
                                ELSE IF Label(table[i]) = Label(table[i - 1]) THEN R[i - 1] + 1 ELSE 0
    BY <1>10
  <2>. QED
    BY <1>3, <2>1
<1>12. \A i \in 0..N : R[i] \in Nat
  <2>. TAKE m \in 0..N
  <2>1. m \in Nat /\ \A i \in 1..m : i \in 1..N
    BY <1>3
  <2>2. R[0] \in Nat
    BY <1>11
  <2>3. \A i \in 1..m : R[i - 1] \in Nat => R[i] \in Nat
    BY <1>11, <2>1
  <2>. QED
    BY ONLY <2>1, <2>2, <2>3, RecursionStays
<1>13. \A i \in 1..c : forward_pass(table)[i] = R[i] /\ i \in 0..N /\ i \in 1..N
  BY <1>1 DEF R, N
<1>14. DOMAIN forward_pass(table) = 1..c
  BY <1>1
<1>15. \A i \in 2..c : Label(table[i]) = Label(table[i - 1]) => R[i] = R[i - 1] + 1
  BY <1>11, <1>13
<1>16. \A i \in 2..c : i \in 1..c /\ i - 1 \in 1..c
  OBVIOUS
<1>. QED
  BY <1>12, <1>13, <1>14, <1>15, <1>16

\* A sorted table of entries, with the items of the bibliography.
SortedTable(c, table) ==
  /\ DOMAIN table = 1..c /\ Len(table) = c /\ \A i \in 1..c : table[i] \in EntryType
  /\ \A i, k \in 1..c : i < k => \E m, n : Less(SortLabel(table[i], m), SortLabel(table[k], n))

\* A sequence of three with one more.
LEMMA AppendThree ==
  ASSUME NEW a, NEW b, NEW d, NEW x
  PROVE  Append(<<a, b, d>>, x) = <<a, b, d, x>>
<1>. DEFINE V == {a, b, d, x}
            s == <<a, b, d>>
            t == Append(s, x)
            u == <<a, b, d, x>>
<1>1. s \in Seq(V) /\ x \in V /\ Len(s) = 3 /\ s[1] = a /\ s[2] = b /\ s[3] = d
  OBVIOUS
<1>2. u \in Seq(V) /\ Len(u) = 4 /\ u[1] = a /\ u[2] = b /\ u[3] = d /\ u[4] = x
  OBVIOUS
<1>. HIDE DEF V, s, u
<1>3. s \in Seq(V) /\ x \in V
  BY <1>1
<1>4. t \in Seq(V) /\ Len(t) = Len(s) + 1 /\ t[Len(s) + 1] = x /\ \A i \in 1..Len(s) : t[i] = s[i]
  BY ONLY <1>3, AppendProperties
<1>. HIDE DEF t
<1>5. t \in Seq(V) /\ Len(t) = 4 /\ t[4] = x /\ \A i \in 1..3 : t[i] = s[i]
  BY <1>1, <1>4
<1>6. \A i \in 1..4 : t[i] = u[i]
  BY <1>1, <1>2, <1>5
<1>7. t = u
  BY <1>2, <1>5, <1>6, SeqEqual
<1>. QED
  BY <1>7 DEF t, s, u

\* The parts of the label of an item.
LEMMA ItemLabel ==
  ASSUME NEW c \in Nat, NEW table, SortedTable(c, table), NEW i \in 1..c
  PROVE  LET L == Label(table[i])
             x == reverse_pass(forward_pass(table))[i]
         IN /\ Printed(table)[i].label[1] = L[1] /\ Printed(table)[i].label[2] = L[2]
            /\ Printed(table)[i].label[3] = L[3] /\ Printed(table)[i].label[4] = x
            /\ Printed(table)[i].printed = call_type(table[i])
<1>. DEFINE L == Label(table[i])
            x == reverse_pass(forward_pass(table))[i]
<1>1. table[i] \in EntryType /\ DOMAIN table = 1..c
  BY DEF SortedTable
<1>2. Printed(table)[i].label = Append(L, x) /\ Printed(table)[i].printed = call_type(table[i])
  BY <1>1 DEF Printed
<1>3. L = <<L[1], L[2], L[3]>>
  BY <1>1, LabelIs
<1>. HIDE DEF L, x
<1>4. Append(L, x) = <<L[1], L[2], L[3], x>>
  <2>1. Append(<<L[1], L[2], L[3]>>, x) = <<L[1], L[2], L[3], x>>
    BY AppendThree
  <2>. QED
    BY <1>3, <2>1, Zenon
<1>. QED
  BY <1>2, <1>4 DEF L, x

\* Two items have different labels, unless there are labels that differ only by case.
LEMMA LabelsDiffer ==
  ASSUME NEW c \in Nat, NEW table, SortedTable(c, table),
         \A i, k \in 1..c : Label(table[i])[1] = Label(table[k])[1] /\ Label(table[i])[3] = Label(table[k])[3] =>
                             Label(table[i])[2] = Label(table[k])[2],
         NEW i \in 1..c, NEW k \in 1..c, i < k
  PROVE  Printed(table)[i].label # Printed(table)[k].label
<1>. DEFINE num == forward_pass(table)
            extra == reverse_pass(num)
            L(j) == Label(table[j])
<1>1. DOMAIN table = 1..c /\ Len(table) = c /\ \A j \in 1..c : table[j] \in EntryType
  BY DEF SortedTable
<1>2. \A j \in 1..c : L(j) \in Int \X Int \X Int
  BY <1>1, LabelIs
<1>3. \A j, l \in 1..c : j < l => L(j)[1] < L(l)[1] \/ (L(j)[1] = L(l)[1] /\ L(j)[3] <= L(l)[3])
  BY <1>1, LessIs DEF SortedTable
<1>4. /\ DOMAIN num = 1..c /\ \A j \in 1..c : num[j] \in Nat
      /\ \A j \in 2..c : L(j) = L(j - 1) => num[j] = num[j - 1] + 1
  BY <1>1, ForwardIs
<1>. HIDE DEF num
<1>5. \A j \in 1..c : extra[j] = num[j] \/ (num[j] = 0 /\ extra[j] = -1)
  BY <1>4 DEF reverse_pass
<1>. HIDE DEF extra
<1>. SUFFICES ASSUME L(i)[1] = L(k)[1], L(i)[3] = L(k)[3], extra[i] = extra[k] PROVE FALSE
  BY ItemLabel DEF extra, num
<1>6. \A j \in i..k : L(j) = L(i)
  <2>. TAKE j \in i..k
  <2>1. j \in 1..c
    OBVIOUS
  <2>2. L(j)[1] = L(i)[1] /\ L(j)[3] = L(i)[3]
    <3>1. CASE j = i
      BY <3>1
    <3>2. CASE j = k
      BY <3>2
    <3>3. CASE i < j /\ j < k
      <4>1. /\ L(i)[1] < L(j)[1] \/ (L(i)[1] = L(j)[1] /\ L(i)[3] <= L(j)[3])
            /\ L(j)[1] < L(k)[1] \/ (L(j)[1] = L(k)[1] /\ L(j)[3] <= L(k)[3])
        BY <1>3, <2>1, <3>3
      <4>2. L(i)[1] \in Int /\ L(j)[1] \in Int /\ L(k)[1] \in Int /\ L(i)[3] \in Int /\ L(j)[3] \in Int /\ L(k)[3] \in Int
        BY <1>2, <2>1
      <4>. HIDE DEF L
      <4>. QED
        BY <4>1, <4>2
    <3>. QED
      BY <3>1, <3>2, <3>3
  <2>3. L(j)[2] = L(i)[2]
    BY <2>1, <2>2
  <2>4. L(j) = <<L(j)[1], L(j)[2], L(j)[3]>> /\ L(i) = <<L(i)[1], L(i)[2], L(i)[3]>>
    BY <1>2, <2>1
  <2>. HIDE DEF L
  <2>. QED
    BY <2>2, <2>3, <2>4
<1>7. num[k] > num[i]
  <2>. DEFINE S == { j \in (i + 1)..k : ~(num[j] > num[i]) }
  <2>1. SUFFICES ASSUME S # {} PROVE FALSE
    OBVIOUS
  <2>2. PICK j \in S : \A l \in S : j <= l
    <3>1. S \in SUBSET Nat
      OBVIOUS
    <3>. QED
      BY <2>1, <3>1, LeastNatural
  <2>3. j \in 2..c /\ j \in i..k /\ j - 1 \in i..k /\ j - 1 \in 1..c /\ j \in 1..c
    BY <2>2
  <2>4. num[j] = num[j - 1] + 1
    BY <1>4, <1>6, <2>3
  <2>5. j - 1 = i \/ num[j - 1] > num[i]
    <3>1. j - 1 \notin S
      BY <2>2, <2>3
    <3>2. j - 1 = i \/ j - 1 \in (i + 1)..k
      BY <2>3
    <3>. QED
      BY <3>1, <3>2
  <2>6. num[j] \in Nat /\ num[i] \in Nat /\ num[j - 1] \in Nat
    BY <1>4, <2>3
  <2>. QED
    BY <2>2, <2>4, <2>5, <2>6
<1>8. num[i] \in Nat /\ num[k] \in Nat
  BY <1>4
<1>. QED
  BY <1>5, <1>7, <1>8

\* Lists of at most two fields.
LEMMA ShortLists ==
  /\ <<>> \in Seq(Names) /\ Distinct(<<>>) /\ ToSet(<<>>) = {}
  /\ \A a \in Names : <<a>> \in Seq(Names) /\ Distinct(<<a>>) /\ ToSet(<<a>>) = {a}
  /\ \A a, b \in Names : a # b => <<a, b>> \in Seq(Names) /\ Distinct(<<a, b>>) /\ ToSet(<<a, b>>) = {a, b}
<1>1. <<>> \in Seq(Names) /\ Distinct(<<>>) /\ ToSet(<<>>) = {}
  BY DEF Distinct, ToSet
<1>2. ASSUME NEW a \in Names PROVE <<a>> \in Seq(Names) /\ Distinct(<<a>>) /\ ToSet(<<a>>) = {a}
  <2>. DEFINE s == <<a>>
  <2>1. s \in Seq(Names) /\ DOMAIN s = {1} /\ s[1] = a
    OBVIOUS
  <2>. HIDE DEF s
  <2>2. Distinct(s) /\ ToSet(s) = {a}
    BY <2>1 DEF Distinct, ToSet
  <2>. QED
    BY <2>1, <2>2 DEF s
<1>3. ASSUME NEW a \in Names, NEW b \in Names, a # b
      PROVE  <<a, b>> \in Seq(Names) /\ Distinct(<<a, b>>) /\ ToSet(<<a, b>>) = {a, b}
  <2>. DEFINE s == <<a, b>>
  <2>1. s \in Seq(Names) /\ DOMAIN s = {1, 2} /\ s[1] = a /\ s[2] = b
    OBVIOUS
  <2>. HIDE DEF s
  <2>2. Distinct(s) /\ ToSet(s) = {a, b}
    BY <1>3, <2>1 DEF Distinct, ToSet
  <2>. QED
    BY <2>1, <2>2 DEF s
<1>. QED
  BY <1>1, <1>2, <1>3

\* No field is in two places of the list of a type.
LEMMA AllFieldsDiffer ==
  ASSUME NEW e
  PROVE  AllFields(e) \in Seq(Names) /\ Distinct(AllFields(e))
<1>. DEFINE A == format_author(e)
            B == IF e.type = "book" THEN <<"editor">> ELSE <<>>
            T == <<"title">>
            C == IF e.type = "proceedings" THEN <<"editor">> ELSE <<>>
            M == Middle(e.type)
            Y == <<"year", "note">>
            Ok(s) == s \in Seq(Names) /\ Distinct(s)
<1>1. {"author", "editor", "title", "booktitle", "journal", "year", "type", "note"} \subseteq Names
  BY DEF Names
<1>2. Ok(A) /\ ToSet(A) \subseteq {"author"}
  BY <1>1, ShortLists DEF format_author
<1>3. Ok(B) /\ ToSet(B) \subseteq {"editor"} /\ (e.type # "book" => ToSet(B) = {})
  BY <1>1, ShortLists
<1>4. Ok(T) /\ ToSet(T) = {"title"}
  BY <1>1, ShortLists
<1>5. Ok(C) /\ ToSet(C) \subseteq {"editor"} /\ (e.type # "proceedings" => ToSet(C) = {})
  BY <1>1, ShortLists
<1>6. Ok(M) /\ ToSet(M) \subseteq {"journal", "booktitle", "editor", "type"} /\ (e.type \in {"book", "proceedings"} => ToSet(M) = {})
  BY <1>1, ShortLists DEF Middle
<1>7. Ok(Y) /\ ToSet(Y) = {"year", "note"}
  BY <1>1, ShortLists
<1>8. AllFields(e) = A \o B \o T \o C \o M \o Y
  BY DEF AllFields
<1>. HIDE DEF A, B, T, C, M, Y
<1>9. Ok(A \o B) /\ ToSet(A \o B) \subseteq {"author"} \cup ToSet(B)
  <2>. DEFINE s == A
              t == B
  <2>1. Ok(s) /\ Ok(t) /\ ToSet(s) \cap ToSet(t) = {}
    BY <1>2, <1>3
  <2>. HIDE DEF s, t
  <2>2. Ok(s \o t) /\ ToSet(s \o t) \subseteq ToSet(s) \cup ToSet(t)
    BY <2>1, ConcatDistinct
  <2>3. ToSet(s) \cup ToSet(t) \subseteq {"author"} \cup ToSet(B)
    BY <1>2, <1>3 DEF s, t
  <2>. QED
    BY <2>2, <2>3 DEF s, t
<1>10. Ok((A \o B) \o T) /\ ToSet((A \o B) \o T) \subseteq {"author", "title"} \cup ToSet(B)
  <2>. DEFINE s == (A \o B)
              t == T
  <2>1. Ok(s) /\ Ok(t) /\ ToSet(s) \cap ToSet(t) = {}
    BY <1>3, <1>4, <1>9
  <2>. HIDE DEF s, t
  <2>2. Ok(s \o t) /\ ToSet(s \o t) \subseteq ToSet(s) \cup ToSet(t)
    BY <2>1, ConcatDistinct
  <2>3. ToSet(s) \cup ToSet(t) \subseteq {"author", "title"} \cup ToSet(B)
    BY <1>3, <1>4, <1>9 DEF s, t
  <2>. QED
    BY <2>2, <2>3 DEF s, t
<1>11. Ok((A \o B \o T) \o C) /\ ToSet((A \o B \o T) \o C) \subseteq {"author", "title"} \cup ToSet(B) \cup ToSet(C)
  <2>. DEFINE s == (A \o B \o T)
              t == C
  <2>1. Ok(s) /\ Ok(t) /\ ToSet(s) \cap ToSet(t) = {}
    BY <1>3, <1>5, <1>10
  <2>. HIDE DEF s, t
  <2>2. Ok(s \o t) /\ ToSet(s \o t) \subseteq ToSet(s) \cup ToSet(t)
    BY <2>1, ConcatDistinct
  <2>3. ToSet(s) \cup ToSet(t) \subseteq {"author", "title"} \cup ToSet(B) \cup ToSet(C)
    BY <1>3, <1>5, <1>10 DEF s, t
  <2>. QED
    BY <2>2, <2>3 DEF s, t
<1>12. Ok((A \o B \o T \o C) \o M) /\ ToSet((A \o B \o T \o C) \o M) \subseteq {"author", "title", "journal", "booktitle", "editor", "type"}
  <2>. DEFINE s == (A \o B \o T \o C)
              t == M
  <2>1. Ok(s) /\ Ok(t) /\ ToSet(s) \cap ToSet(t) = {}
    BY <1>3, <1>5, <1>6, <1>11
  <2>. HIDE DEF s, t
  <2>2. Ok(s \o t) /\ ToSet(s \o t) \subseteq ToSet(s) \cup ToSet(t)
    BY <2>1, ConcatDistinct
  <2>3. ToSet(s) \cup ToSet(t) \subseteq {"author", "title", "journal", "booktitle", "editor", "type"}
    BY <1>3, <1>5, <1>6, <1>11 DEF s, t
  <2>. QED
    BY <2>2, <2>3 DEF s, t
<1>13. Ok((A \o B \o T \o C \o M) \o Y) /\ ToSet((A \o B \o T \o C \o M) \o Y) \subseteq Names
  <2>. DEFINE s == (A \o B \o T \o C \o M)
              t == Y
  <2>1. Ok(s) /\ Ok(t) /\ ToSet(s) \cap ToSet(t) = {}
    BY <1>7, <1>12
  <2>. HIDE DEF s, t
  <2>2. Ok(s \o t) /\ ToSet(s \o t) \subseteq ToSet(s) \cup ToSet(t)
    BY <2>1, ConcatDistinct
  <2>3. ToSet(s) \cup ToSet(t) \subseteq Names
    BY <1>1, <1>7, <1>12 DEF s, t
  <2>. QED
    BY <2>2, <2>3 DEF s, t
<1>. QED
  BY <1>8, <1>13

\* No field is printed twice.
LEMMA CalledOnce ==
  ASSUME NEW e
  PROVE  Distinct(call_type(e))
<1>. DEFINE all == AllFields(e)
            V == Seq(Names)
            N == Len(all)
            Add(i, r) == IF e.fields[all[i]] # 0 \/ all[i] = "type" THEN Append(r, all[i]) ELSE r
            E(r_) == [i \in 0..N |-> IF i = 0 THEN <<>> ELSE Add(i, r_[i - 1])]
            F == [i \in 1..N |-> [t \in V |-> Add(i, t)]]
<1>1. all \in Seq(Names) /\ Distinct(all) /\ DOMAIN all = 1..N
  BY AllFieldsDiffer
<1>. HIDE DEF all
<1>2. N \in Nat
  BY <1>1
<1>3. call_type(e) = (CHOOSE r : r = E(r))[N]
  BY DEF call_type, all
<1>. HIDE DEF N
<1>4. <<>> \in V
  OBVIOUS
<1>5. \A i \in 1..N, t \in V : Add(i, t) \in V
  <2>. TAKE i \in 1..N, t \in V
  <2>1. all[i] \in Names
    BY <1>1 DEF N
  <2>2. Append(t, all[i]) \in V
    BY <2>1
  <2>. QED
    BY <2>2
<1>. HIDE DEF V
<1>6. F \in [1..N -> [V -> V]]
  BY <1>5
<1>7. \A i \in 1..N, t \in V : F[i][t] = Add(i, t)
  OBVIOUS
<1>. HIDE DEF F
<1>8. PICK r : Steps(N, V, F, <<>>, r)
  <2>1. N \in Nat
    BY <1>2
  <2>. QED
    BY ONLY <2>1, <1>4, <1>6, RecursionExists
<1>9. r = E(r)
  <2>1. r \in [0..N -> V] /\ r[0] = <<>> /\ \A i \in 1..N : r[i] = F[i][r[i - 1]]
    BY <1>8 DEF Steps
  <2>2. \A i \in 0..N : r[i] = IF i = 0 THEN <<>> ELSE Add(i, r[i - 1])
    <3>. TAKE i \in 0..N
    <3>1. CASE i = 0
      BY <2>1, <3>1
    <3>2. CASE i # 0
      <4>1. i \in 1..N /\ i - 1 \in 0..N
        BY <1>2, <3>2
      <4>2. r[i - 1] \in V
        BY <2>1, <4>1
      <4>. QED
        BY <1>7, <2>1, <3>2, <4>1, <4>2
    <3>. QED
      BY <3>1, <3>2
  <2>. QED
    BY <2>1, <2>2
<1>. DEFINE R == CHOOSE r_1 : r_1 = E(r_1)
<1>10. R = E(R)
  BY <1>9, Zenon
<1>. HIDE DEF R
<1>11. R[0] = <<>> /\ \A i \in 1..N : R[i] = Add(i, R[i - 1])
  <2>1. \A i \in 0..N : R[i] = IF i = 0 THEN <<>> ELSE Add(i, R[i - 1])
    BY <1>10
  <2>. QED
    BY <1>2, <2>1
<1>. DEFINE Once(n) == R[n] \in V /\ Distinct(R[n]) /\ ToSet(R[n]) \subseteq { all[j] : j \in 1..n }
            W == {TRUE}
            G == [n \in 0..N |-> Once(n)]
<1>12. G[N] \in W
  <2>1. N \in Nat
    BY <1>2
  <2>2. G[0] \in W
    <3>1. 0 \in 0..N
      BY <1>2
    <3>2. Once(0)
      BY <1>11, ShortLists DEF V
    <3>. HIDE DEF Once
    <3>. QED
      BY <3>1, <3>2
  <2>3. \A n \in 1..N : G[n - 1] \in W => G[n] \in W
    <3>. TAKE n \in 1..N
    <3>1. n - 1 \in 0..N /\ n \in 0..N /\ n \in DOMAIN all /\ all[n] \in Names
      BY <1>1, <1>2
    <3>. HAVE G[n - 1] \in W
    <3>2. Once(n - 1)
      BY <3>1
    <3>3. R[n] = IF e.fields[all[n]] # 0 \/ all[n] = "type" THEN Append(R[n - 1], all[n]) ELSE R[n - 1]
      BY <1>11
    <3>4. 1..n = 1..(n - 1) \cup {n}
      BY <3>1
    <3>5. { all[j] : j \in 1..n } = { all[j] : j \in 1..(n - 1) } \cup {all[n]}
      BY <3>4
    <3>6. all[n] \notin { all[j] : j \in 1..(n - 1) }
      <4>1. \A j \in 1..(n - 1) : j \in DOMAIN all /\ j # n
        BY <1>1, <1>2
      <4>. QED
        BY <1>1, <3>1, <4>1 DEF Distinct
    <3>7. Append(R[n - 1], all[n]) \in V /\ Distinct(Append(R[n - 1], all[n]))
          /\ ToSet(Append(R[n - 1], all[n])) = ToSet(R[n - 1]) \cup {all[n]}
      BY <3>1, <3>2, <3>6, ToSetAppend DEF V
    <3>8. Once(n)
      BY <3>2, <3>3, <3>5, <3>7
    <3>. HIDE DEF Once
    <3>. QED
      BY <3>1, <3>8
  <2>. HIDE DEF G, W
  <2>. QED
    BY ONLY <2>1, <2>2, <2>3, RecursionStays
<1>13. Distinct(R[N])
  <2>1. N \in 0..N
    BY <1>2
  <2>2. G[N] = Once(N)
    BY <2>1
  <2>3. G[N] = TRUE
    BY <1>12
  <2>. HIDE DEF G
  <2>. QED
    BY <2>2, <2>3
<1>. QED
  BY <1>3, <1>13 DEF R

\* The bibliography is that of a sorted table.
LEMMA WorkSorts ==
  ASSUME IInv, work
  PROVE  \E c, table : c \in Nat /\ SortedTable(c, table) /\ output' = Printed(table)
<1>. DEFINE es == Completed(all_entries)
<1>1. phase = "read" /\ \E order \in Sorted(es) : output' = Printed([i \in DOMAIN order |-> es[order[i]]])
  BY DEF work
<1>2. Apart(all_entries, last_bid, ToSet(ids)) /\ all_entries \in Seq(EntryType)
  BY <1>1, LaterIs
<1>3. Alike(all_entries, es)
  BY <1>2, CompletedAlike DEF Apart
<1>. HIDE DEF es
<1>4. es \in Seq(EntryType)
  BY <1>3 DEF Alike
<1>5. PICK order \in Sorted(es) : output' = Printed([i \in DOMAIN order |-> es[order[i]]])
  BY <1>1
<1>6. PICK c \in Nat : DOMAIN order = 1..c
  BY <1>4, SortedIs
<1>7. /\ \A i \in 1..c : order[i] \in DOMAIN es
      /\ \A i, k \in 1..c : i < k => Less(SortLabel(es[order[i]], order[i]), SortLabel(es[order[k]], order[k]))
  BY <1>4, <1>6, SortedIs
<1>. DEFINE table == [i \in DOMAIN order |-> es[order[i]]]
<1>8. table \in [1..c -> EntryType] /\ \A i \in 1..c : table[i] = es[order[i]]
  BY <1>4, <1>6, <1>7
<1>. HIDE DEF table
<1>9. Len(table) = c
  BY <1>8
<1>10. SortedTable(c, table)
  BY <1>7, <1>8, <1>9 DEF SortedTable
<1>. QED
  BY <1>5, <1>10 DEF table

\* The labels of a bibliography tell its entries apart.
LEMMA WorkLabels ==
  ASSUME IInv, work
  PROVE  LabelsTellApart'
<1>1. PICK c, table : c \in Nat /\ SortedTable(c, table) /\ output' = Printed(table)
  BY WorkSorts
<1>2. DOMAIN output' = 1..c
  BY <1>1, PrintedIs DEF SortedTable
<1>3. \A i \in 1..c : Distinct(output'[i].printed)
  BY <1>1, ItemLabel, CalledOnce
<1>4. ASSUME \A i, k \in 1..c : output'[i].label[1] = output'[k].label[1] /\ output'[i].label[3] = output'[k].label[3] =>
                                 output'[i].label[2] = output'[k].label[2],
             NEW i \in 1..c, NEW k \in 1..c, output'[i].label = output'[k].label
      PROVE  i = k
  <2>1. \A j, l \in 1..c : Label(table[j])[1] = Label(table[l])[1] /\ Label(table[j])[3] = Label(table[l])[3] =>
                           Label(table[j])[2] = Label(table[l])[2]
    <3>1. \A j \in 1..c : /\ output'[j].label[1] = Label(table[j])[1] /\ output'[j].label[2] = Label(table[j])[2]
                          /\ output'[j].label[3] = Label(table[j])[3]
      BY <1>1, ItemLabel
    <3>. QED
      BY <1>4, <3>1
  <2>2. ~(i < k) /\ ~(k < i)
    BY <1>1, <1>4, <2>1, LabelsDiffer
  <2>. QED
    BY <2>2
<1>. DEFINE labels == [i \in DOMAIN output' |-> output'[i].label]
            mixed == \E i, k \in DOMAIN output' :
                       labels[i][1] = labels[k][1] /\ labels[i][2] # labels[k][2] /\ labels[i][3] = labels[k][3]
<1>5. mixed \/ Distinct(labels)
  BY <1>2, <1>4 DEF Distinct
<1>. QED
  BY <1>2, <1>3, <1>5 DEF LabelsTellApart

\* Nothing else changes the bibliography.
LEMMA OutputStays ==
  ASSUME [Next]_vars
  PROVE  work \/ output' = output
<1>1. CASE UNCHANGED vars
  BY <1>1 DEF vars
<1>2. ASSUME NEW key, NEW from, T_cite_one(key, from) PROVE output' = output
  BY <1>2 DEF T_cite_one, entryVars
<1>3. ASSUME NEW key, T_nocite(key) \/ T_omitcite(key) \/ exec_bibitem(key) PROVE output' = output
  BY <1>3 DEF T_nocite, T_omitcite, exec_bibitem, entryVars
<1>4. ASSUME NEW key, NEW from, NEW star, NEW id, solve_cite(key, from, star, id) PROVE output' = output
  BY <1>4 DEF solve_cite, entryVars
<1>5. CASE set_nocite \/ after_main_text \/ parse_one_item
  BY <1>5 DEF set_nocite, after_main_text, parse_one_item, entryVars
<1>. QED
  BY <1>1, <1>2, <1>3, <1>4, <1>5 DEF Next

\* The labels of the bibliography tell the entries apart.
THEOREM LabelsTellApartHolds == OwnIds => (Spec => []LabelsTellApart)
<1>. SUFFICES ASSUME OwnIds PROVE Spec => []LabelsTellApart
  OBVIOUS
<1>1. Init => LabelsTellApart
  BY DEF Init, LabelsTellApart, Distinct
<1>2. IInv /\ LabelsTellApart /\ [Next]_vars => LabelsTellApart'
  <2>1. SUFFICES ASSUME IInv, LabelsTellApart, [Next]_vars PROVE LabelsTellApart'
    OBVIOUS
  <2>2. CASE work
    BY <2>1, <2>2, WorkLabels
  <2>3. CASE output' = output
    BY <2>1, <2>3 DEF LabelsTellApart
  <2>. QED
    BY <2>1, <2>2, <2>3, OutputStays
<1>3. Spec => []IInv
  BY Invariant
<1>. QED
  BY <1>1, <1>2, <1>3, PTL DEF Spec

=============================================================================
