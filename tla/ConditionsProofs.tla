------------------------- MODULE ConditionsProofs ---------------------------
(***************************************************************************)
(* Proofs about Conditions, for every set of texts of any length: however  *)
(* conditionals, and pieces of conditionals, occur inside tests, an        *)
(* activation of E_if_test finds its own entry on the stack of conditions. *)
(***************************************************************************)
EXTENDS Conditions, StackLemmas

Limits == {"if", "else", "or", "fi"}

\* The types of the two stacks.
StacksTypeOK == conditions \in Seq(Limits) /\ calls \in Seq(Call)

\* Entries are numbered from 1, and \ifcase skips as many \or as are left.
CountsOr ==
  \A j \in DOMAIN calls :
    /\ calls[j].sz # 0
    /\ calls[j].phase = "skip" /\ calls[j].kind = "case" => calls[j].n # 0

CInv == StacksTypeOK /\ CountsOr /\ CallsOwnEntries

-----------------------------------------------------------------------------
\* Lemmas about the two stacks.

\* The elements of the two stacks have their types.
LEMMA ElementTypes ==
  ASSUME StacksTypeOK
  PROVE  /\ conditions \in Seq(Limits) /\ calls \in Seq(Call)
         /\ Len(conditions) \in Nat /\ DOMAIN conditions = 1..Len(conditions)
         /\ Len(calls) \in Nat /\ DOMAIN calls = 1..Len(calls)
         /\ \A j \in DOMAIN calls : calls[j] \in Call /\ calls[j].sz \in Nat
<1>1. conditions \in Seq(Limits) /\ calls \in Seq(Call)
  BY DEF StacksTypeOK
<1>2. /\ Len(conditions) \in Nat /\ DOMAIN conditions = 1..Len(conditions)
      /\ Len(calls) \in Nat /\ DOMAIN calls = 1..Len(calls)
  BY <1>1, LenProperties
<1>3. \A j \in DOMAIN calls : calls[j] \in Call
  BY <1>1, <1>2, ElementOfSeq
<1>. QED
  BY <1>1, <1>2, <1>3 DEF Call

\* The entry of the innermost activation is the last one with the limit "if".
LEMMA TopEntry ==
  ASSUME CInv, calls # <<>>
  PROVE  /\ Len(calls) \in DOMAIN calls /\ Top = calls[Len(calls)] /\ Top \in Call
         /\ Top.sz \in DOMAIN conditions /\ conditions[Top.sz] = "if"
         /\ \A i \in DOMAIN conditions : conditions[i] = "if" => i <= Top.sz
         /\ \A j \in DOMAIN calls : j # Len(calls) => calls[j].sz < Top.sz
<1>1. /\ Len(calls) \in Nat \ {0} /\ DOMAIN calls = 1..Len(calls)
      /\ Top = calls[Len(calls)] /\ Top \in Call
  BY PoppedAt DEF CInv, StacksTypeOK, Top
<1>2. Len(conditions) \in Nat /\ DOMAIN conditions = 1..Len(conditions)
  BY LenProperties DEF CInv, StacksTypeOK
<1>3. \A j \in DOMAIN calls : calls[j].sz \in Nat \ {0}
  BY ElementTypes DEF CInv, CountsOr
<1>4. Top.sz \in DOMAIN conditions /\ conditions[Top.sz] = "if"
  BY <1>1, <1>2, <1>3 DEF CInv, CallsOwnEntries
<1>5. \A j \in DOMAIN calls : j # Len(calls) => calls[j].sz < Top.sz
  BY <1>1 DEF CInv, CallsOwnEntries
<1>6. \A i \in DOMAIN conditions : conditions[i] = "if" => i <= Top.sz
  <2>. TAKE i \in DOMAIN conditions
  <2>. HAVE conditions[i] = "if"
  <2>1. PICK j \in DOMAIN calls : calls[j].sz = i
    BY DEF CInv, CallsOwnEntries
  <2>. QED
    BY <1>1, <1>2, <1>3, <1>5, <2>1
<1>. QED
  BY <1>1, <1>4, <1>5, <1>6

\* An activation that is over leaves its entry with another limit.
LEMMA EntryDecided ==
  ASSUME CInv, calls # <<>>, NEW limit \in Limits \ {"if"},
         conditions' = [conditions EXCEPT ![Top.sz] = limit], calls' = Front(calls)
  PROVE  CInv'
<1>1. /\ Len(calls) \in DOMAIN calls /\ Top = calls[Len(calls)]
      /\ Top.sz \in DOMAIN conditions
      /\ \A j \in DOMAIN calls : j # Len(calls) => calls[j].sz < Top.sz
  BY TopEntry
<1>2. /\ calls \in Seq(Call) /\ conditions \in Seq(Limits)
      /\ DOMAIN calls = 1..Len(calls) /\ Len(calls) \in Nat
      /\ DOMAIN conditions = 1..Len(conditions) /\ Len(conditions) \in Nat
  BY LenProperties DEF CInv, StacksTypeOK
<1>3. /\ calls' \in Seq(Call) /\ DOMAIN calls' = 1..(Len(calls) - 1)
      /\ \A j \in 1..(Len(calls) - 1) : calls'[j] = calls[j]
  BY <1>2, PoppedAt
<1>4. /\ conditions' \in Seq(Limits) /\ Len(conditions') = Len(conditions)
      /\ DOMAIN conditions' = DOMAIN conditions
      /\ \A i \in DOMAIN conditions : conditions'[i] = IF i = Top.sz THEN limit ELSE conditions[i]
  BY <1>1, <1>2, ExceptSeq
<1>5. \A j \in DOMAIN calls : calls[j].sz \in Nat
  BY ElementTypes DEF CInv
<1>6. StacksTypeOK' /\ CountsOr'
  BY <1>2, <1>3, <1>4 DEF CInv, StacksTypeOK, CountsOr
<1>7. \A j \in DOMAIN calls' : calls'[j].sz <= Len(conditions') /\ conditions'[calls'[j].sz] = "if"
  <2>. TAKE j \in DOMAIN calls'
  <2>1. j \in DOMAIN calls /\ j # Len(calls) /\ calls'[j] = calls[j]
    BY <1>2, <1>3
  <2>2. calls[j].sz \in DOMAIN conditions /\ calls[j].sz # Top.sz /\ conditions[calls[j].sz] = "if"
    BY <1>1, <1>2, <1>5, <2>1 DEF CInv, CallsOwnEntries, CountsOr
  <2>. QED
    BY <1>2, <1>4, <2>1, <2>2
<1>8. \A i \in DOMAIN conditions' : conditions'[i] = "if" => \E j \in DOMAIN calls' : calls'[j].sz = i
  <2>. TAKE i \in DOMAIN conditions'
  <2>. HAVE conditions'[i] = "if"
  <2>1. i # Top.sz /\ conditions[i] = "if" /\ i \in DOMAIN conditions
    BY <1>4
  <2>2. PICK j \in DOMAIN calls : calls[j].sz = i
    BY <2>1 DEF CInv, CallsOwnEntries
  <2>3. j \in DOMAIN calls' /\ calls'[j].sz = i
    BY <1>1, <1>2, <1>3, <2>1, <2>2
  <2>. QED
    BY <2>3
<1>9. \A i, j \in DOMAIN calls' : i < j => calls'[i].sz < calls'[j].sz
  BY <1>2, <1>3 DEF CInv, CallsOwnEntries
<1>. QED
  BY <1>6, <1>7, <1>8, <1>9 DEF CInv, CallsOwnEntries

\* The innermost activation goes on with another phase or another count.
LEMMA CallGoesOn ==
  ASSUME CInv, calls # <<>>, NEW p \in {"test", "skip"}, NEW m \in Nat,
         p = "skip" /\ Top.kind = "case" => m # 0,
         calls' = [calls EXCEPT ![Len(calls)].phase = p, ![Len(calls)].n = m],
         UNCHANGED conditions
  PROVE  CInv'
<1>1. /\ calls \in Seq(Call) /\ Top = calls[Len(calls)]
      /\ DOMAIN calls = 1..Len(calls) /\ Len(calls) \in DOMAIN calls /\ Len(calls) \in Nat
      /\ \A j \in DOMAIN calls : calls[j] \in Call
  BY TopEntry, LenProperties, ElementOfSeq DEF CInv, StacksTypeOK
<1>2. /\ DOMAIN calls' = DOMAIN calls
      /\ \A j \in DOMAIN calls : /\ calls'[j] \in Call
                                 /\ calls'[j].sz = calls[j].sz /\ calls'[j].kind = calls[j].kind
                                 /\ j # Len(calls) => calls'[j] = calls[j]
      /\ calls'[Len(calls)].n = m /\ calls'[Len(calls)].phase = p
  BY <1>1 DEF Call
<1>3. calls' \in Seq(Call)
  <2>1. calls' = [calls EXCEPT ![Len(calls)] = calls'[Len(calls)]]
    BY <1>1
  <2>. QED
    BY <1>1, <1>2, <2>1, ExceptSeq
<1>4. StacksTypeOK'
  BY <1>3 DEF CInv, StacksTypeOK
<1>5. CountsOr'
  BY <1>1, <1>2 DEF CInv, CountsOr
<1>6. CallsOwnEntries'
  BY <1>2 DEF CInv, CallsOwnEntries
<1>. QED
  BY <1>4, <1>5, <1>6 DEF CInv

\* The last entry leaves the stack when its branch is decided.
LEMMA DecidedLeaves ==
  ASSUME CInv, conditions # <<>>, Last(conditions) # "if",
         conditions' = Front(conditions), UNCHANGED calls
  PROVE  CInv'
<1>1. /\ conditions \in Seq(Limits) /\ calls \in Seq(Call)
      /\ \A j \in DOMAIN calls : calls[j] \in Call
  BY ElementOfSeq, LenProperties DEF CInv, StacksTypeOK
<1>2. /\ Len(conditions) \in Nat \ {0} /\ DOMAIN conditions = 1..Len(conditions)
      /\ conditions' \in Seq(Limits) /\ Len(conditions') = Len(conditions) - 1
      /\ DOMAIN conditions' = 1..(Len(conditions) - 1)
      /\ \A i \in 1..(Len(conditions) - 1) : conditions'[i] = conditions[i]
      /\ conditions[Len(conditions)] # "if"
  BY <1>1, PoppedAt
<1>3. \A j \in DOMAIN calls : calls[j].sz \in 1..(Len(conditions) - 1)
  BY <1>1, <1>2 DEF CInv, CallsOwnEntries, CountsOr, Call
<1>. QED
  BY <1>1, <1>2, <1>3 DEF CInv, CallsOwnEntries, CountsOr, StacksTypeOK

\* The conditional of the innermost activation ends with its \fi.
LEMMA ActivationEnds ==
  ASSUME CInv, calls # <<>>, is_this_if(Top.sz), Ended
  PROVE  CInv'
<1>1. /\ Len(calls) \in DOMAIN calls /\ Top = calls[Len(calls)]
      /\ Len(conditions) = Top.sz /\ Top.sz \in DOMAIN conditions
      /\ \A j \in DOMAIN calls : j # Len(calls) => calls[j].sz < Top.sz
  BY TopEntry DEF is_this_if
<1>2. /\ calls \in Seq(Call) /\ conditions \in Seq(Limits) /\ conditions # <<>>
      /\ \A j \in DOMAIN calls : calls[j].sz \in Nat
  BY <1>1, ElementTypes DEF CInv
<1>3. /\ Len(calls) \in Nat /\ DOMAIN calls = 1..Len(calls)
      /\ calls' \in Seq(Call) /\ DOMAIN calls' = 1..(Len(calls) - 1)
      /\ \A j \in 1..(Len(calls) - 1) : calls'[j] = calls[j]
  BY <1>2, PoppedAt DEF Ended
<1>4. /\ Len(conditions) \in Nat \ {0} /\ DOMAIN conditions = 1..Len(conditions)
      /\ conditions' \in Seq(Limits) /\ Len(conditions') = Len(conditions) - 1
      /\ DOMAIN conditions' = 1..(Len(conditions) - 1)
      /\ \A i \in 1..(Len(conditions) - 1) : conditions'[i] = conditions[i]
  BY <1>2, PoppedAt DEF Ended
<1>5. \A j \in DOMAIN calls' : /\ j \in DOMAIN calls /\ calls'[j] = calls[j]
                               /\ calls[j].sz \in 1..(Len(conditions) - 1)
  BY <1>1, <1>2, <1>3, <1>4 DEF CInv, CountsOr
<1>6. \A i \in DOMAIN conditions' : conditions'[i] = "if" => \E j \in DOMAIN calls' : calls'[j].sz = i
  <2>. TAKE i \in DOMAIN conditions'
  <2>. HAVE conditions'[i] = "if"
  <2>1. i \in DOMAIN conditions /\ conditions[i] = "if" /\ i # Top.sz
    BY <1>1, <1>4
  <2>2. PICK j \in DOMAIN calls : calls[j].sz = i
    BY <2>1 DEF CInv, CallsOwnEntries
  <2>3. j \in DOMAIN calls' /\ calls'[j].sz = i
    BY <1>1, <1>3, <2>1, <2>2
  <2>. QED
    BY <2>3
<1>. QED
  BY <1>3, <1>4, <1>5, <1>6 DEF CInv, CallsOwnEntries, CountsOr, StacksTypeOK

-----------------------------------------------------------------------------
\* The invariant is preserved by every action.

\* The start of a conditional: the test of \if... gets an entry and a call.
LEMMA StartsCInv ==
  ASSUME CInv, E_if_test
  PROVE  CInv'
<1>. DEFINE c == [sz |-> Len(conditions) + 1, kind |-> Head(input), phase |-> "test", n |-> 0]
<1>1. /\ conditions \in Seq(Limits) /\ calls \in Seq(Call)
      /\ Len(conditions) \in Nat /\ DOMAIN conditions = 1..Len(conditions)
      /\ \A j \in DOMAIN calls : calls[j] \in Call
  BY LenProperties, ElementOfSeq DEF CInv, StacksTypeOK
<1>2. /\ conditions' = Append(conditions, "if") /\ calls' = Append(calls, c)
      /\ c \in Call
  BY <1>1 DEF E_if_test, Reads, Call
<1>3. /\ conditions' \in Seq(Limits)
      /\ Len(conditions') = Len(conditions) + 1
      /\ DOMAIN conditions' = 1..(Len(conditions) + 1)
      /\ \A i \in 1..Len(conditions) : conditions'[i] = conditions[i]
      /\ conditions'[Len(conditions) + 1] = "if"
  BY <1>1, <1>2, PushedAt DEF Limits
<1>. HIDE DEF c
<1>4. /\ calls' \in Seq(Call)
      /\ Len(calls) \in Nat /\ DOMAIN calls = 1..Len(calls)
      /\ DOMAIN calls' = 1..(Len(calls) + 1)
      /\ \A j \in 1..Len(calls) : calls'[j] = calls[j]
      /\ calls'[Len(calls) + 1] = c
  BY <1>1, <1>2, PushedAt
<1>5. c.sz = Len(conditions) + 1 /\ c.phase = "test"
  BY DEF c
<1>6. StacksTypeOK' /\ CountsOr'
  BY <1>1, <1>3, <1>4, <1>5 DEF CInv, StacksTypeOK, CountsOr
<1>7. \A j \in DOMAIN calls : calls[j].sz \in 1..Len(conditions)
  BY <1>1 DEF CInv, CallsOwnEntries, CountsOr, Call
<1>8. \A j \in DOMAIN calls' : calls'[j].sz <= Len(conditions') /\ conditions'[calls'[j].sz] = "if"
  BY <1>1, <1>3, <1>4, <1>5, <1>7 DEF CInv, CallsOwnEntries
<1>9. \A i \in DOMAIN conditions' : conditions'[i] = "if" => \E j \in DOMAIN calls' : calls'[j].sz = i
  <2>. TAKE i \in DOMAIN conditions'
  <2>. HAVE conditions'[i] = "if"
  <2>1. CASE i = Len(conditions) + 1
    <3>1. Len(calls) + 1 \in DOMAIN calls' /\ calls'[Len(calls) + 1].sz = i
      BY <1>4, <1>5, <2>1
    <3>. QED
      BY <3>1
  <2>2. CASE i # Len(conditions) + 1
    <3>1. i \in DOMAIN conditions /\ conditions[i] = "if"
      BY <1>1, <1>3, <2>2
    <3>2. PICK j \in DOMAIN calls : calls[j].sz = i
      BY <3>1 DEF CInv, CallsOwnEntries
    <3>3. j \in DOMAIN calls' /\ calls'[j].sz = i
      BY <1>4, <3>2
    <3>. QED
      BY <3>3
  <2>. QED
    BY <2>1, <2>2
<1>10. ASSUME NEW i \in DOMAIN calls', NEW j \in DOMAIN calls', i < j
       PROVE  calls'[i].sz < calls'[j].sz
  <2>1. i \in DOMAIN calls /\ calls'[i] = calls[i]
    BY <1>4, <1>10
  <2>2. CASE j = Len(calls) + 1
    BY <1>1, <1>4, <1>5, <1>7, <2>1, <2>2
  <2>3. CASE j # Len(calls) + 1
    BY <1>4, <1>10, <2>1, <2>3 DEF CInv, CallsOwnEntries
  <2>. QED
    BY <2>2, <2>3
<1>. QED
  BY <1>6, <1>8, <1>9, <1>10 DEF CInv, CallsOwnEntries

\* A test is over: the limit is set in the entry of the activation.
LEMMA TestedCInv ==
  ASSUME CInv, calls # <<>>, NEW v \in Nat, Tested(v)
  PROVE  CInv'
<1>1. CASE (Top.kind = "case" /\ v = 0) \/ (Top.kind # "case" /\ Holds(Top.kind, v))
  <2>1. PICK limit \in Limits \ {"if"} :
          conditions' = [conditions EXCEPT ![Top.sz] = limit] /\ calls' = Front(calls)
    BY <1>1 DEF Tested, Limits
  <2>. QED
    BY <2>1, EntryDecided
<1>2. CASE ~((Top.kind = "case" /\ v = 0) \/ (Top.kind # "case" /\ Holds(Top.kind, v)))
  <2>1. /\ calls' = [calls EXCEPT ![Len(calls)].phase = "skip", ![Len(calls)].n = v]
        /\ UNCHANGED conditions
    BY <1>2 DEF Tested
  <2>2. Top.kind = "case" => v # 0
    BY <1>2
  <2>. QED
    BY <2>1, <2>2, CallGoesOn
<1>. QED
  BY <1>1, <1>2

\* One turn of the loops that skip text.
LEMMA SkipCInv ==
  ASSUME CInv, Skip
  PROVE  CInv'
<1>. DEFINE tok == pass_text(input).tok
<1>1. calls # <<>> /\ Top.phase = "skip"
  BY DEF Skip
<1>2. /\ Len(calls) \in DOMAIN calls /\ Top = calls[Len(calls)] /\ Top \in Call
      /\ Top.sz \in DOMAIN conditions
      /\ \A i \in DOMAIN conditions : conditions[i] = "if" => i <= Top.sz
  BY <1>1, TopEntry
<1>3. conditions \in Seq(Limits)
  BY DEF CInv, StacksTypeOK
<1>4. /\ ~is_this_if(Top.sz) =>
           /\ conditions' = IF tok = "fi" THEN Front(conditions) ELSE conditions
           /\ UNCHANGED calls
      /\ is_this_if(Top.sz) =>
           \/ Ended
           \/ Chosen("fi")
           \/ Top.kind = "case" /\ Top.n = 1 /\ Chosen("or")
           \/ Top.kind = "case" /\ Top.n # 1 /\ calls' = [calls EXCEPT ![Len(calls)].n = @ - 1] /\ UNCHANGED conditions
           \/ UNCHANGED <<conditions, calls>>
  BY DEF Skip
<1>5. UNCHANGED <<conditions, calls>> => CInv'
  BY DEF CInv, StacksTypeOK, CountsOr, CallsOwnEntries
<1>6. CASE ~is_this_if(Top.sz) /\ tok # "fi"
  BY <1>4, <1>5, <1>6
<1>7. CASE ~is_this_if(Top.sz) /\ tok = "fi"
  <2>1. conditions # <<>> /\ Last(conditions) # "if"
    <3>1. conditions # <<>>
      BY <1>2, EmptySeq
    <3>2. Len(conditions) \in DOMAIN conditions /\ Last(conditions) = conditions[Len(conditions)]
      <4>1. Len(conditions) \in Nat \ {0} /\ DOMAIN conditions = 1..Len(conditions)
        BY <1>3, <3>1, PoppedAt
      <4>. QED
        BY <4>1 DEF Last
    <3>3. Top.sz # Len(conditions) /\ Top.sz \in 1..Len(conditions) /\ Len(conditions) \in Nat
      BY <1>2, <1>3, <1>7, LenProperties DEF is_this_if
    <3>. QED
      BY <1>2, <3>1, <3>2, <3>3
  <2>. QED
    BY <1>4, <1>7, <2>1, DecidedLeaves
<1>8. ASSUME NEW limit \in Limits \ {"if"}, Chosen(limit) PROVE CInv'
  BY <1>1, <1>8, EntryDecided DEF Chosen
<1>9. ASSUME Top.kind = "case", Top.n # 1, UNCHANGED conditions,
             calls' = [calls EXCEPT ![Len(calls)].n = @ - 1]
      PROVE  CInv'
  <2>1. Top.n \in Nat /\ Top.n # 0
    BY <1>1, <1>2, <1>9 DEF CInv, CountsOr, Call
  <2>2. calls \in Seq(Call) /\ \A j \in DOMAIN calls : calls[j] \in Call
    BY ElementOfSeq, LenProperties DEF CInv, StacksTypeOK
  <2>3. calls' = [calls EXCEPT ![Len(calls)].phase = "skip", ![Len(calls)].n = Top.n - 1]
    BY <1>1, <1>2, <1>9, <2>2 DEF Call
  <2>4. Top.n - 1 \in Nat /\ Top.n - 1 # 0
    BY <1>9, <2>1
  <2>. QED
    BY <1>1, <1>9, <2>3, <2>4, CallGoesOn
<1>. QED
  BY <1>1, <1>4, <1>5, <1>6, <1>7, <1>8, <1>9, ActivationEnds DEF Limits

\* Every step preserves the invariant.
LEMMA NextCInv == CInv /\ [Next]_vars => CInv'
<1>. SUFFICES ASSUME CInv, [Next]_vars PROVE CInv'
  OBVIOUS
<1>1. UNCHANGED <<conditions, calls>> => CInv'
  BY DEF CInv, StacksTypeOK, CountsOr, CallsOwnEntries
<1>2. CASE UNCHANGED vars
  BY <1>1, <1>2 DEF vars
<1>3. CASE E_if_test
  BY <1>3, StartsCInv
<1>4. CASE E_fi_or_else
  <2>1. \/ UNCHANGED <<conditions, calls>>
        \/ /\ conditions # <<>> /\ Last(conditions) # "if"
           /\ conditions' = Front(conditions) /\ UNCHANGED calls
    BY <1>4 DEF E_fi_or_else
  <2>. QED
    BY <1>1, <2>1, DecidedLeaves
<1>5. CASE Typeset
  BY <1>1, <1>5 DEF Typeset
<1>6. CASE TestDigit
  <2>1. Value(Head(input)) \in Nat
    BY <1>6 DEF TestDigit, Reads, Digits, Value
  <2>. QED
    BY <1>6, <2>1, TestedCInv DEF TestDigit
<1>7. CASE TestMissing
  BY <1>7, TestedCInv DEF TestMissing
<1>8. CASE Skip
  BY <1>8, SkipCInv
<1>9. CASE Terminate
  <2>1. conditions' = <<>> /\ calls' = <<>>
    BY <1>9 DEF Terminate
  <2>. QED
    BY <2>1, EmptySeq DEF CInv, StacksTypeOK, CountsOr, CallsOwnEntries
<1>. QED
  BY <1>2, <1>3, <1>4, <1>5, <1>6, <1>7, <1>8, <1>9 DEF Next

\* The invariant holds before the first conditional.
LEMMA InitCInv == Init => CInv
<1>. SUFFICES ASSUME Init PROVE CInv
  OBVIOUS
<1>1. conditions = <<>> /\ calls = <<>>
  BY DEF Init
<1>. QED
  BY <1>1, EmptySeq DEF CInv, StacksTypeOK, CountsOr, CallsOwnEntries

\* E_if_test never changes or pops the entry of another conditional: set_limit
\* and is_this_if, which use the size remembered before the test, are right
\* for every text, and back() is never called on an empty stack there.
THEOREM ActivationsKeepTheirEntries == Spec => []CallsOwnEntries
<1>1. CInv => CallsOwnEntries
  BY DEF CInv
<1>. QED
  BY <1>1, InitCInv, NextCInv, PTL DEF Spec

=============================================================================
