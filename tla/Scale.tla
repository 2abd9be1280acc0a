------------------------------- MODULE Scale -------------------------------
(***************************************************************************)
(* ScaledInt::scale: the value x*n/d, rounded, for \numexpr x*n/d, computed *)
(* without forming the product: what the division of n, then of x, by d     *)
(* leaves is multiplied by doubling one factor and halving the other, and   *)
(* every multiple of d is taken off on the way.                             *)
(***************************************************************************)
EXTENDS Integers

VARIABLES
  call,      \* the arguments, as given: [x, n, d, max_answer]
  step,      \* where the function is
  x, n, d,   \* the arguments, as they are changed
  sign,      \* of the result: -1 for the flag "negative" of the code
  a,         \* the part of the result that the two divisions give
  f,         \* the part that the loop gives
  r,         \* what remains in the loop, less d
  value      \* ScaledInt::value

scaleVars == <<call, step, x, n, d, sign, a, f, r, value>>

ScaleCalls == [x: Int, n: Int, d: Int \ {0}, max_answer: Nat]

Size(k) == IF k < 0 THEN -k ELSE k
Sign(k) == IF k < 0 THEN -1 ELSE 1

\* The call: the caller has excluded a zero divisor (SthInternal::scale).
Called(c) ==
  /\ call = c
  /\ step = "signs"
  /\ x = c.x /\ n = c.n /\ d = c.d
  /\ sign = 1
  /\ a = 0 /\ f = 0 /\ r = 0
  /\ value = c.x

\* The same, as a step of the caller.
StartScale(c) ==
  /\ call' = c
  /\ step' = "signs"
  /\ x' = c.x /\ n' = c.n /\ d' = c.d
  /\ sign' = 1
  /\ a' = 0 /\ f' = 0 /\ r' = 0
  /\ value' = c.x

\* The function returns v; the outer one gives it the sign.
Return(v) ==
  /\ step' = "done"
  /\ value' = sign * v
  /\ UNCHANGED <<call, sign>>

\* It returns true: the outer function shows an error, the value is 0.
Overflow ==
  /\ step' = "overflow"
  /\ value' = 0
  /\ UNCHANGED <<call, sign>>

\* Nothing to compute, or the arguments lose their signs.
Signs ==
  /\ step = "signs"
  /\ \/ /\ x = 0 \/ n = 0
        /\ Return(0)
        /\ UNCHANGED <<x, n, d, a, f, r>>
     \/ /\ x # 0 /\ n # 0
        /\ step' = "divide_n"
        /\ x' = Size(x) /\ n' = Size(n) /\ d' = Size(d)
        /\ sign' = Sign(d) * Sign(x) * Sign(n)
        /\ UNCHANGED <<call, a, f, r, value>>

DivideN ==
  /\ step = "divide_n"
  /\ LET t == n \div d IN
     \/ /\ t > call.max_answer \div x
        /\ Overflow
        /\ UNCHANGED <<x, n, d, a, f, r>>
     \/ /\ t <= call.max_answer \div x
        /\ a' = t * x
        /\ n' = n - t * d
        /\ \/ n' = 0 /\ Return(a')
           \/ /\ n' # 0 /\ step' = "divide_x"
              /\ UNCHANGED <<call, sign, value>>
        /\ UNCHANGED <<x, d, f, r>>

\* The smaller factor is the one that is halved.
Ordered(u, v) ==
  IF u < v THEN x' = v /\ n' = u ELSE x' = u /\ n' = v

DivideX ==
  /\ step = "divide_x"
  /\ LET t == x \div d
         rest == x - t * d IN
     \/ /\ t > (call.max_answer - a) \div n
        /\ Overflow
        /\ UNCHANGED <<x, n, d, a, f, r>>
     \/ /\ t <= (call.max_answer - a) \div n
        /\ a' = a + t * n
        /\ \/ /\ rest = 0 /\ Return(a')
              /\ x' = 0
              /\ UNCHANGED <<n, r>>
           \/ /\ rest # 0 /\ step' = "loop"
              /\ Ordered(rest, n)
              /\ r' = d \div 2 - d
              /\ UNCHANGED <<call, sign, value>>
        /\ UNCHANGED <<d, f>>

\* h, half of d rounded up
Half == d - d \div 2

\* Variant for a mutant: the sum is not compared with the largest answer.
AddLoopUnchecked(g) == Return(a + g)

\* After the loop, f is added unless the sum is too large.
AddLoop(g) ==
  IF g > call.max_answer - a THEN Overflow ELSE Return(a + g)

Turn ==
  /\ step = "loop"
  /\ LET carry == n % 2 = 1 /\ r + x >= 0
         half == n \div 2
         g == IF carry THEN f + 1 ELSE f IN
     /\ r' = IF n % 2 = 0 THEN r ELSE IF carry THEN r + x - d ELSE r + x
     /\ \/ /\ half = 0
           /\ AddLoop(g)
           /\ f' = g /\ n' = 0 /\ x' = x
        \/ /\ half # 0 /\ x < Half
           /\ x' = x + x /\ n' = half /\ f' = g
           /\ UNCHANGED <<call, step, sign, value>>
        \/ /\ half # 0 /\ x >= Half
           /\ f' = g + half
           /\ \/ /\ x + x = d
                 /\ AddLoop(g + half)
                 /\ x' = 0 /\ n' = half
              \/ /\ x + x # d
                 /\ Ordered(x - d + x, half)
                 /\ UNCHANGED <<call, step, sign, value>>
     /\ UNCHANGED <<d, a>>

ScaleNext == Signs \/ DivideN \/ DivideX \/ Turn

ScaleInit == \E c \in ScaleCalls : Called(c)

ScaleSpec == ScaleInit /\ [][ScaleNext]_scaleVars
-----------------------------------------------------------------------------
\* The types of the variables.
ScaleTypeOK ==
  /\ call \in ScaleCalls
  /\ step \in {"signs", "divide_n", "divide_x", "loop", "done", "overflow"}
  /\ x \in Int /\ n \in Int /\ d \in Int \ {0}
  /\ sign \in {-1, 1}
  /\ a \in Nat /\ f \in Nat /\ r \in Int /\ value \in Int

\* p/e to the nearest integer, a half is rounded up (p is not negative, e positive).
Rounded(p, e) == (2 * p + e) \div (2 * e)

\* The size and the sign of the answer of a call.
Answer(c) == Rounded(Size(c.x) * Size(c.n), Size(c.d))
AnswerSign(c) == Sign(c.d) * Sign(c.x) * Sign(c.n)

\* What is still to be computed: the divisions keep the product x*n, and the
\* loop keeps the comment of the code, -d<=r<0<n<=x<d and f + floor((xn+r+d)/d)
\* the answer, which is stated here without its division.
NothingIsLost ==
  LET product == Size(call.x) * Size(call.n) IN
  /\ step = "divide_n" => x * n = product
  /\ step = "divide_x" => a * d + x * n = product /\ n < d
  /\ step = "loop" =>
       /\ -d <= r /\ r < 0 /\ 0 < n /\ n <= x /\ x < d
       /\ (a + f) * d + x * n + r + d = product + d \div 2

\* The function returns the rounded value of x*n/d, or reports an overflow
\* exactly when this value is too large, though it never forms the product.
ScaleRounds ==
  /\ step = "done" => /\ Answer(call) <= call.max_answer
                      /\ value = AnswerSign(call) * Answer(call)
  /\ step = "overflow" => Answer(call) > call.max_answer /\ value = 0
=============================================================================
