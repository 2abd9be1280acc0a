---------------------------- MODULE Expressions ----------------------------
(***************************************************************************)
(* \numexpr and \dimexpr: scan_expr with its stack of slots.  An operand is *)
(* read by ScanNumbers, a product that is divided is computed by Scale.     *)
(* \count0= and \dimen0= read one number.                                   *)
(***************************************************************************)
EXTENDS ScanNumbers, Scale

CONSTANT Documents  \* records with the fields command and text

VARIABLES
  document,  \* the one that is read, it never changes
  at,        \* what scan_expr does next
  slot,      \* W, the innermost expression
  estack,    \* the expressions around it
  operand,   \* f
  next       \* next_state, the operator that follows the operand

exprVars == <<document, at, slot, estack, operand, next>>
vars == <<exprVars, numberVars, scaleVars>>

Commands == {"count", "dimen", "numexpr", "dimexpr"}
OperatorOf == [t \in {"+", "-", "*", "/"} |->
  CASE t = "+" -> "add" [] t = "-" -> "sub" [] t = "*" -> "mult" [] t = "/" -> "div"]

\* ScanSlot::kill and the type that scan_expr gives
Fresh(type) ==
  [type |-> type, expr |-> 0, term |-> 0, numerator |-> 0,
   exprState |-> "none", termState |-> "none"]

TypeOfCommand(c) == IF c \in {"count", "numexpr"} THEN "int" ELSE "dimen"

\* Variant for a mutant: factors have the type of the expression.
NextTypeOfSlot == slot.type

\* ScanSlot::get_next_type: factors are integers.
NextType == IF slot.termState = "none" THEN slot.type ELSE "int"

Limit(type) == IF type = "int" THEN MaxInteger ELSE MaxDimension
Within(type, k) == k <= Limit(type) /\ -k <= Limit(type)
-----------------------------------------------------------------------------
Init ==
  /\ document \in Documents
  /\ input = document.text
  /\ number = IF document.command \in {"count", "dimen"}
              THEN [Idle EXCEPT !.at = "sign", !.type = TypeOfCommand(document.command)]
              ELSE Idle
  /\ at = IF document.command \in {"count", "dimen"} THEN "number" ELSE "operand"
  /\ curVal = [type |-> "int", value |-> 0] /\ errors = {}
  /\ slot = Fresh(TypeOfCommand(document.command)) /\ estack = <<>>
  /\ operand = 0 /\ next = "none"
  /\ Called([x |-> 0, n |-> 0, d |-> 1, max_answer |-> 0])

\* An open parenthesis begins an expression of the type that is expected.
OpenParen ==
  /\ at = "operand"
  /\ Head(DropSpaces(input)) = "("
  /\ input' = Tail(DropSpaces(input))
  /\ estack' = Append(estack, slot)
  /\ slot' = Fresh(NextType)
  /\ UNCHANGED <<document, at, operand, next, number, curVal, errors, scaleVars>>

\* scan_expr_arg: scan_int or scan_dimen is called.
StartOperand ==
  /\ at = "operand"
  /\ Head(DropSpaces(input)) # "("
  /\ input' = DropSpaces(input)
  /\ StartNumber(NextType)
  /\ at' = "number"
  /\ UNCHANGED <<document, slot, estack, operand, next, curVal, errors, scaleVars>>

ReadNumber ==
  /\ at = "number"
  /\ NumberNext
  /\ UNCHANGED <<exprVars, scaleVars>>

EndNumber ==
  /\ at = "number" /\ number.at = "done"
  /\ number' = Idle
  /\ operand' = curVal.value
  /\ at' = IF document.command \in {"count", "dimen"} THEN "end" ELSE "operator"
  /\ UNCHANGED <<document, slot, estack, next, input, curVal, errors, scaleVars>>

\* scan_expr_next: an operator, or the end: a \relax is read after the outer
\* expression, a parenthesis after an inner one, which may be missing.
ScanOperator ==
  /\ at = "operator"
  /\ at' = "term"
  /\ LET s == DropSpaces(input)
         token == Head(s) IN
     \/ /\ token \in DOMAIN OperatorOf
        /\ next' = OperatorOf[token]
        /\ input' = Tail(s)
        /\ UNCHANGED errors
     \/ /\ token \notin DOMAIN OperatorOf
        /\ next' = "none"
        /\ \/ /\ estack = <<>>
              /\ input' = IF token = "relax" THEN Tail(s) ELSE s
              /\ UNCHANGED errors
           \/ /\ estack # <<>> /\ token = ")"
              /\ input' = Tail(s)
              /\ UNCHANGED errors
           \/ /\ estack # <<>> /\ token # ")"
              /\ input' = s
              /\ errors' = errors \cup {"paren"}
  /\ UNCHANGED <<document, slot, estack, operand, number, curVal, scaleVars>>

\* check_overflow: factors are integers, whatever the term is.
OperandType == IF slot.termState = "none" THEN slot.type ELSE "int"
Checked == IF Within(OperandType, operand) THEN operand
           ELSE IF OperandType = "int" THEN 0 ELSE MaxDimension
CheckErrors == OverflowUnless(Within(OperandType, operand))

SetTerm(v, complaints) ==
  /\ slot' = [slot EXCEPT !.term = v]
  /\ errors' = errors \cup CheckErrors \cup complaints
  /\ at' = "add"

\* expr_mul: mult_integer and mult_scaled
Multiply ==
  LET fits == Within(slot.type, slot.term * Checked) IN
  SetTerm(IF fits THEN slot.term * Checked ELSE 0, OverflowUnless(fits))

\* ScaledInt::quotient, of the sizes, and then the sign
Divide ==
  LET q == Size(slot.term) \div Size(Checked)
      rest == Size(slot.term) - q * Size(Checked) IN
  SetTerm(Sign(slot.term) * Sign(Checked) *
            (IF 2 * rest >= Size(Checked) THEN q + 1 ELSE q), {})

\* ScanSlot::compute_term: the operand and what precedes it; a*b/ waits for c.
ComputeTerm ==
  /\ at = "term"
  /\ \/ /\ slot.termState = "none"
        /\ SetTerm(Checked, {})
        /\ UNCHANGED <<next, scaleVars>>
     \/ /\ slot.termState = "mult" /\ next # "div"
        /\ Multiply
        /\ UNCHANGED <<next, scaleVars>>
     \/ /\ slot.termState = "mult" /\ next = "div"
        /\ next' = "scale"
        /\ slot' = [slot EXCEPT !.numerator = Checked]
        /\ errors' = errors \cup CheckErrors
        /\ at' = "add"
        /\ UNCHANGED scaleVars
     \/ /\ slot.termState \in {"div", "scale"} /\ Checked = 0
        /\ SetTerm(slot.term, {"zero"})
        /\ UNCHANGED <<next, scaleVars>>
     \/ /\ slot.termState = "div" /\ Checked # 0
        /\ Divide
        /\ UNCHANGED <<next, scaleVars>>
     \/ /\ slot.termState = "scale" /\ Checked # 0
        /\ StartScale([x |-> slot.term, n |-> slot.numerator, d |-> Checked,
                       max_answer |-> Limit(slot.type)])
        /\ errors' = errors \cup CheckErrors
        /\ at' = "scaling"
        /\ UNCHANGED <<slot, next>>
  /\ UNCHANGED <<document, estack, operand, input, number, curVal>>

\* ScaledInt::scale runs, and returns.
ScaleTerm ==
  /\ at = "scaling"
  /\ ScaleNext
  /\ UNCHANGED <<exprVars, numberVars>>


EndScale ==
  /\ at = "scaling" /\ step \in {"done", "overflow"}
  /\ slot' = [slot EXCEPT !.term = value]
  /\ errors' = errors \cup OverflowUnless(step = "done")
  /\ at' = "add"
  /\ UNCHANGED <<document, estack, operand, next, input, number, curVal, scaleVars>>

\* SthInternal::add, of two values of one type
Sum(u, v) ==
  IF \/ u >= 0 /\ v <= Limit(slot.type) - u
     \/ u <= 0 /\ v >= -Limit(slot.type) - u
  THEN [value |-> u + v, complaints |-> {}]
  ELSE [value |-> Limit(slot.type), complaints |-> {"overflow"}]

\* ScanSlot::add_or_sub: the term goes on, or is added to the expression; after the
\* last term the expression is the operand of the one around it.
AddOrSub ==
  /\ at = "add"
  /\ \/ /\ next \in {"mult", "div", "scale"}
        /\ slot' = [slot EXCEPT !.termState = next]
        /\ at' = "operand"
        /\ UNCHANGED <<estack, operand, curVal, errors>>
     \/ /\ next \in {"none", "add", "sub"}
        /\ LET sum == CASE slot.exprState = "none" ->
                             [value |-> slot.term, complaints |-> {}]
                        [] slot.exprState = "add" -> Sum(slot.expr, slot.term)
                        [] slot.exprState = "sub" -> Sum(slot.expr, -slot.term) IN
           /\ errors' = errors \cup sum.complaints
           /\ \/ /\ next # "none"
                 /\ slot' = [slot EXCEPT !.termState = "none", !.exprState = next,
                                         !.expr = sum.value]
                 /\ at' = "operand"
                 /\ UNCHANGED <<estack, operand, curVal>>
              \/ /\ next = "none" /\ estack = <<>>
                 /\ curVal' = [type |-> slot.type, value |-> sum.value]
                 /\ at' = "end"
                 /\ UNCHANGED <<slot, estack, operand>>
              \/ /\ next = "none" /\ estack # <<>>
                 /\ operand' = sum.value
                 /\ slot' = Last(estack)
                 /\ estack' = Front(estack)
                 /\ at' = "operator"
                 /\ UNCHANGED curVal
  /\ UNCHANGED <<document, next, input, number, scaleVars>>

Next ==
  \/ OpenParen \/ StartOperand \/ ReadNumber \/ EndNumber
  \/ ScanOperator \/ ComputeTerm \/ ScaleTerm \/ EndScale \/ AddOrSub

Spec == Init /\ [][Next]_vars /\ WF_vars(Next)
-----------------------------------------------------------------------------

\* A document is read as it is meant: without an error on the way, none is
\* reported and the value is exact; otherwise the first error is reported.  What
\* follows is not read, but for one space, or the \relax that ends an expression.
IsAsMeant ==
  /\ document.errors = {} => errors = {} /\ curVal.value = document.value
  /\ document.errors \subseteq errors
  /\ input = document.rest

\* \numexpr and \dimexpr: precedences, a*b/c without an overflow of a*b, types of
\* factors, limits of every result on the way.
ExpressionIsExact ==
  at = "end" /\ document.command \in {"numexpr", "dimexpr"} => IsAsMeant

\* Numbers and dimensions: the value of the constant in its unit, rounded once for
\* the fraction and truncated once for the unit, and an error when it is too large.
NumberIsExact ==
  at = "end" /\ document.command \in {"count", "dimen"} => IsAsMeant

=============================================================================
