---------------------------- MODULE ScaleProofs ----------------------------
(***************************************************************************)
(* ScaledInt::scale computes the rounded value of x*n/d for all arguments.  *)
(***************************************************************************)
EXTENDS Scale, TLAPS

\* What is true between the steps besides NothingIsLost: the signs are gone
\* after the first step, and the divisions leave something to do.
ArgumentsAreReduced ==
  /\ step = "signs" =>
       /\ x = call.x /\ n = call.n /\ d = call.d
       /\ sign = 1 /\ a = 0 /\ f = 0
  /\ step \in {"divide_n", "divide_x", "loop"} =>
       /\ d = Size(call.d) /\ sign = AnswerSign(call)
       /\ x > 0 /\ n > 0 /\ a <= call.max_answer
  /\ step \in {"divide_n", "divide_x"} => f = 0
  /\ step = "divide_n" => a = 0

ScaleInv == ScaleTypeOK /\ ArgumentsAreReduced /\ NothingIsLost /\ ScaleRounds
-----------------------------------------------------------------------------
\* Integer division, as the provers need it.
LEMMA Quotient ==
  ASSUME NEW p \in Nat, NEW e \in Nat \ {0}
  PROVE  /\ p \div e \in Nat
         /\ (p \div e) * e <= p
         /\ p < (p \div e) * e + e
  OBVIOUS

\* The quotient is the q with q * e <= p < (q + 1) * e.
LEMMA QuotientIsUnique ==
  ASSUME NEW p \in Int, NEW e \in Nat \ {0}, NEW q \in Int,
         q * e <= p, p < q * e + e
  PROVE  p \div e = q
  OBVIOUS

\* A natural number is two halves and a bit.
LEMMA Halves ==
  ASSUME NEW p \in Nat
  PROVE  /\ p \div 2 \in Nat /\ p % 2 \in {0, 1}
         /\ p = 2 * (p \div 2) + (p % 2)
  OBVIOUS

\* The comparison with max_answer \div x is that of the product.
LEMMA BoundOfProduct ==
  ASSUME NEW m \in Nat, NEW k \in Nat \ {0}, NEW t \in Int
  PROVE  t > m \div k <=> t * k > m
<1>1. /\ m \div k \in Nat
      /\ (m \div k) * k <= m
      /\ m < (m \div k) * k + k
  BY Quotient
<1> DEFINE b == m \div k
<1> HIDE DEF b
<1>2. b \in Nat /\ b * k <= m /\ m < b * k + k
  BY <1>1 DEF b
<1>3. ASSUME t > b PROVE t * k > m
  <2>1. t - b - 1 \in Nat BY <1>2, <1>3
  <2>2. (t - b - 1) * k >= 0 BY <2>1
  <2> QED BY <1>2, <2>2
<1>4. ASSUME ~(t > b) PROVE ~(t * k > m)
  <2>1. b - t \in Nat BY <1>2, <1>4
  <2>2. (b - t) * k >= 0 BY <2>1
  <2> QED BY <1>2, <2>2
<1> QED BY <1>3, <1>4 DEF b

\* The answer, from the half of the divisor rounded down.
LEMMA AnswerIs ==
  ASSUME NEW p \in Nat, NEW e \in Nat \ {0}, NEW q \in Int,
         q * e <= p + e \div 2, p + e \div 2 < q * e + e
  PROVE  Rounded(p, e) = q
<1>1. e \div 2 \in Nat /\ e % 2 \in {0, 1} /\ e = 2 * (e \div 2) + (e % 2)
  BY Halves
<1> DEFINE h == e \div 2
           b == e % 2
           u == q * e
<1>2. h \in Nat /\ b \in {0, 1} /\ e = 2 * h + b /\ u \in Int
  BY <1>1
<1>3. u <= p + h /\ p + h < u + e
  OBVIOUS
<1>4. q * (2 * e) = 2 * u
  OBVIOUS
<1> HIDE DEF h, b, u
<1>5. 2 * u <= 2 * p + e /\ 2 * p + e < 2 * u + 2 * e
  BY <1>2, <1>3
<1>6. (2 * p + e) \div (2 * e) = q
  BY <1>4, <1>5, QuotientIsUnique
<1> QED BY <1>6 DEF Rounded

\* The sizes and the sign of the arguments.
LEMMA Sizes ==
  ASSUME NEW c \in ScaleCalls
  PROVE  /\ Size(c.x) \in Nat /\ Size(c.n) \in Nat /\ Size(c.d) \in Nat \ {0}
         /\ Size(c.x) * Size(c.n) \in Nat
         /\ c.x # 0 => Size(c.x) > 0
         /\ c.n # 0 => Size(c.n) > 0
         /\ c.x = 0 \/ c.n = 0 => Size(c.x) * Size(c.n) = 0
         /\ AnswerSign(c) \in {-1, 1}
         /\ c.max_answer \in Nat
<1>1. c.x \in Int /\ c.n \in Int /\ c.d \in Int \ {0} /\ c.max_answer \in Nat
  BY DEF ScaleCalls
<1>2. /\ Size(c.x) \in Nat /\ Size(c.n) \in Nat /\ Size(c.d) \in Nat \ {0}
      /\ c.x # 0 => Size(c.x) > 0
      /\ c.n # 0 => Size(c.n) > 0
      /\ c.x = 0 => Size(c.x) = 0
      /\ c.n = 0 => Size(c.n) = 0
  BY <1>1 DEF Size
<1>3. AnswerSign(c) \in {-1, 1}
  BY <1>1 DEF AnswerSign, Sign
<1> QED BY <1>1, <1>2, <1>3

\* A call that has ended keeps the invariant when its result is right.
LEMMA EndedInv ==
  ASSUME ScaleTypeOK', step' \in {"done", "overflow"}, ScaleRounds'
  PROVE  ScaleInv'
  BY DEF ScaleInv, ArgumentsAreReduced, NothingIsLost

\* A return with the answer, and the report of an overflow, end the call as
\* ScaleRounds says.
LEMMA ReturnsAnswer ==
  ASSUME ScaleInv, NEW q \in Nat, q = Answer(call), q <= call.max_answer,
         sign = AnswerSign(call), Return(q)
  PROVE  ScaleRounds' /\ value' \in Int
  BY DEF Return, ScaleRounds, ScaleInv, ScaleTypeOK

\* Overflow is right when the answer exceeds max_answer.
LEMMA OverflowIsReal ==
  ASSUME Answer(call) > call.max_answer, Overflow
  PROVE  ScaleRounds' /\ value' \in Int
  BY DEF Overflow, ScaleRounds

\* The end of the loop compares before it returns.
LEMMA LoopAnswers ==
  ASSUME ScaleInv, NEW g \in Nat, a + g = Answer(call),
         sign = AnswerSign(call), AddLoop(g)
  PROVE  /\ ScaleRounds' /\ step' \in {"done", "overflow"}
         /\ call' = call /\ sign' = sign /\ value' \in Int
<1>1. a \in Nat /\ call.max_answer \in Nat
  BY Sizes DEF ScaleInv, ScaleTypeOK
<1>2. CASE g > call.max_answer - a
  <2>1. Answer(call) > call.max_answer
    BY <1>1, <1>2
  <2>2. Overflow
    BY <1>2 DEF AddLoop
  <2> QED BY <2>1, <2>2, OverflowIsReal DEF Overflow
<1>3. CASE ~(g > call.max_answer - a)
  <2>1. a + g \in Nat /\ a + g <= call.max_answer
    BY <1>1, <1>3
  <2>2. Return(a + g)
    BY <1>3 DEF AddLoop
  <2> QED BY <2>1, <2>2, ReturnsAnswer DEF Return
<1> QED BY <1>2, <1>3
-----------------------------------------------------------------------------
\* The call.
LEMMA ScaleInitInv == ScaleInit => ScaleInv
<1> SUFFICES ASSUME NEW c \in ScaleCalls, Called(c) PROVE ScaleInv
  BY DEF ScaleInit
<1>1. c.x \in Int /\ c.n \in Int /\ c.d \in Int \ {0}
  BY DEF ScaleCalls
<1> QED
  BY <1>1 DEF Called, ScaleInv, ScaleTypeOK, ArgumentsAreReduced, NothingIsLost,
              ScaleRounds

\* The early return of a product that is zero, and the signs.
LEMMA SignsInv == ScaleInv /\ Signs => ScaleInv'
<1> SUFFICES ASSUME ScaleInv, Signs PROVE ScaleInv'
  OBVIOUS
<1>1. /\ step = "signs" /\ call \in ScaleCalls /\ call' = call
      /\ x = call.x /\ n = call.n /\ d = call.d
      /\ sign = 1 /\ a = 0 /\ f = 0 /\ r \in Int /\ value \in Int
  BY DEF ScaleInv, ScaleTypeOK, ArgumentsAreReduced, Signs, Return
<1>2. x \in Int /\ n \in Int /\ d \in Int \ {0}
  BY DEF ScaleInv, ScaleTypeOK
<1>3. CASE x = 0 \/ n = 0
  <2>1. Answer(call) = 0
    <3>1. Size(call.x) * Size(call.n) = 0 /\ Size(call.d) \in Nat \ {0}
      BY <1>1, <1>3, Sizes
    <3> HIDE DEF Size
    <3>2. Size(call.d) \div 2 \in Nat /\ Size(call.d) \div 2 < Size(call.d)
      BY <3>1
    <3>3. Rounded(0, Size(call.d)) = 0
      BY <3>1, <3>2, AnswerIs
    <3> QED BY <3>1, <3>3 DEF Answer
  <2>2. Return(0) /\ UNCHANGED <<x, n, d, a, f, r>>
    BY <1>3 DEF Signs
  <2>3. AnswerSign(call) \in {-1, 1} /\ call.max_answer \in Nat
    BY <1>1, Sizes
  <2>4. value' = 0 /\ step' = "done" /\ sign' = 1
    BY <1>1, <2>2 DEF Return
  <2>5. ScaleRounds'
    BY <1>1, <2>1, <2>3, <2>4 DEF ScaleRounds
  <2>6. ScaleTypeOK'
    BY <1>1, <1>2, <2>2, <2>4 DEF ScaleTypeOK
  <2> QED BY <2>4, <2>5, <2>6, EndedInv
<1>4. CASE x # 0 /\ n # 0
  <2>1. /\ step' = "divide_n"
        /\ x' = Size(call.x) /\ n' = Size(call.n) /\ d' = Size(call.d)
        /\ sign' = AnswerSign(call)
        /\ UNCHANGED <<call, a, f, r, value>>
    BY <1>1, <1>4 DEF Signs, AnswerSign
  <2>2. /\ x' \in Nat /\ n' \in Nat /\ d' \in Nat \ {0} /\ x' > 0 /\ n' > 0
        /\ sign' \in {-1, 1} /\ call.max_answer \in Nat
    BY <1>1, <1>4, <2>1, Sizes
  <2> QED
    BY <1>1, <2>1, <2>2
    DEF ScaleInv, ScaleTypeOK, ArgumentsAreReduced, NothingIsLost, ScaleRounds
<1> QED BY <1>3, <1>4
\* A multiple of the divisor that is not larger bounds the answer from below.
LEMMA AnswerIsAtLeast ==
  ASSUME NEW p \in Nat, NEW e \in Nat \ {0}, NEW b \in Int, b * e <= p
  PROVE  Rounded(p, e) >= b
<1> DEFINE q == (2 * p + e) \div (2 * e)
<1>1. q \in Nat /\ 2 * p + e < q * (2 * e) + 2 * e
  <2>1. 2 * p + e \in Nat /\ 2 * e \in Nat \ {0}
    OBVIOUS
  <2> QED BY <2>1, Quotient
<1> HIDE DEF q
<1>2. q * (2 * e) = 2 * (q * e) /\ q * e \in Nat /\ b * e \in Int
  BY <1>1
<1>3. b * e < q * e + e
  BY <1>1, <1>2
<1>4. ASSUME q < b PROVE FALSE
  <2>1. b - q - 1 \in Nat
    BY <1>1, <1>4
  <2>2. (b - q - 1) * e >= 0
    BY <2>1
  <2> QED BY <1>1, <1>3, <2>2
<1> QED BY <1>1, <1>4 DEF q, Rounded

\* A product that the divisor divides is not rounded.
LEMMA AnswerIsExact ==
  ASSUME NEW p \in Nat, NEW e \in Nat \ {0}, NEW b \in Int, b * e = p
  PROVE  Rounded(p, e) = b
<1>1. e \div 2 \in Nat /\ e \div 2 < e
  OBVIOUS
<1> QED BY <1>1, AnswerIs

\* What the steps of the division have in common.
LEMMA InTheMiddle ==
  ASSUME ScaleInv, step \in {"divide_n", "divide_x", "loop"}
  PROVE  /\ x \in Nat \ {0} /\ n \in Nat \ {0} /\ d \in Nat \ {0}
         /\ a \in Nat /\ f \in Nat /\ r \in Int /\ value \in Int
         /\ sign \in {-1, 1} /\ sign = AnswerSign(call)
         /\ call \in ScaleCalls /\ call.max_answer \in Nat
         /\ a <= call.max_answer /\ d = Size(call.d)
         /\ Size(call.x) * Size(call.n) \in Nat
         /\ Answer(call) = Rounded(Size(call.x) * Size(call.n), d)
         /\ Answer(call) \in Int
<1>1. /\ x \in Int /\ n \in Int /\ x > 0 /\ n > 0
      /\ a \in Nat /\ f \in Nat /\ r \in Int /\ value \in Int
      /\ sign \in {-1, 1} /\ sign = AnswerSign(call)
      /\ call \in ScaleCalls /\ a <= call.max_answer /\ d = Size(call.d)
  BY DEF ScaleInv, ScaleTypeOK, ArgumentsAreReduced
<1>2. /\ d \in Nat \ {0} /\ call.max_answer \in Nat
      /\ Size(call.x) * Size(call.n) \in Nat
  BY <1>1, Sizes
<1> DEFINE p == Size(call.x) * Size(call.n)
<1> HIDE DEF p
<1>3. Rounded(p, d) \in Int
  BY <1>2 DEF p, Rounded
<1> QED BY <1>1, <1>2, <1>3 DEF Answer, p

\* The division of n: the part that is taken off is x times the quotient.
LEMMA DivideNInv == ScaleInv /\ DivideN => ScaleInv'
<1> SUFFICES ASSUME ScaleInv, DivideN PROVE ScaleInv'
  OBVIOUS
<1> DEFINE p == Size(call.x) * Size(call.n)
           t == n \div d
<1>1. step = "divide_n" /\ x * n = p /\ f = 0
  BY DEF DivideN, ScaleInv, NothingIsLost, ArgumentsAreReduced
<1>2. /\ x \in Nat \ {0} /\ n \in Nat \ {0} /\ d \in Nat \ {0}
      /\ f \in Nat /\ r \in Int /\ value \in Int
      /\ sign \in {-1, 1} /\ sign = AnswerSign(call)
      /\ call \in ScaleCalls /\ call.max_answer \in Nat
      /\ d = Size(call.d) /\ p \in Nat /\ Answer(call) = Rounded(p, d)
      /\ Answer(call) \in Int
  BY <1>1, InTheMiddle
<1>3. t \in Nat /\ t * d <= n /\ n < t * d + d
  BY <1>2, Quotient
<1>4. t > call.max_answer \div x <=> t * x > call.max_answer
  BY <1>2, <1>3, BoundOfProduct
<1>5. \/ /\ t > call.max_answer \div x
         /\ Overflow
         /\ UNCHANGED <<x, n, d, a, f, r>>
      \/ /\ t <= call.max_answer \div x
         /\ a' = t * x
         /\ n' = n - t * d
         /\ \/ n' = 0 /\ Return(a')
            \/ /\ n' # 0 /\ step' = "divide_x"
               /\ UNCHANGED <<call, sign, value>>
         /\ UNCHANGED <<x, d, f, r>>
  BY DEF DivideN
<1> HIDE DEF p, t
<1>6. (t * x) * d <= p /\ t * x \in Nat
  <2>1. n - t * d \in Nat
    BY <1>2, <1>3
  <2>2. x * (n - t * d) >= 0
    BY <1>2, <2>1
  <2> QED BY <1>1, <1>2, <1>3, <2>2
<1>7. CASE /\ t > call.max_answer \div x
           /\ Overflow
           /\ UNCHANGED <<x, n, d, a, f, r>>
  <2>1. Answer(call) > call.max_answer
    BY <1>2, <1>4, <1>6, <1>7, AnswerIsAtLeast
  <2>2. ScaleRounds' /\ value' \in Int
    BY <1>7, <2>1, OverflowIsReal
  <2>3. ScaleTypeOK' /\ step' = "overflow"
    BY <1>7, <2>2 DEF ScaleInv, ScaleTypeOK, Overflow
  <2> QED BY <2>2, <2>3, EndedInv
<1>8. CASE /\ t <= call.max_answer \div x
           /\ a' = t * x /\ n' = n - t * d
           /\ n' = 0 /\ Return(a')
           /\ UNCHANGED <<x, d, f, r>>
  <2>1. (t * x) * d = p
    <3>1. n = t * d
      BY <1>2, <1>3, <1>8
    <3>2. x * (t * d) = (t * x) * d
      BY <1>2, <1>3
    <3> QED BY <1>1, <3>1, <3>2
  <2>2. Answer(call) = t * x
    BY <1>2, <1>6, <2>1, AnswerIsExact
  <2>3. t * x <= call.max_answer
    BY <1>2, <1>3, <1>4, <1>6, <1>8, BoundOfProduct
  <2>4. ScaleRounds' /\ value' \in Int
    BY <1>2, <1>6, <1>8, <2>2, <2>3, ReturnsAnswer
  <2>5. ScaleTypeOK' /\ step' = "done"
    BY <1>2, <1>6, <1>8, <2>4 DEF ScaleTypeOK, Return
  <2> QED BY <2>4, <2>5, EndedInv
<1>9. CASE /\ t <= call.max_answer \div x
           /\ a' = t * x /\ n' = n - t * d
           /\ n' # 0 /\ step' = "divide_x"
           /\ UNCHANGED <<call, sign, value, x, d, f, r>>
  <2>1. n' \in Nat /\ n' > 0 /\ n' < d
    BY <1>2, <1>3, <1>9
  <2>2. t * x <= call.max_answer
    BY <1>2, <1>3, <1>4, <1>6, <1>9, BoundOfProduct
  <2>3. a' * d + x * n' = p
    BY <1>1, <1>2, <1>3, <1>9
  <2>4. p = Size(call.x) * Size(call.n)
    BY DEF p
  <2> QED
    BY <1>1, <1>2, <1>6, <1>9, <2>1, <2>2, <2>3, <2>4
    DEF ScaleInv, ScaleTypeOK, ArgumentsAreReduced, NothingIsLost, ScaleRounds
<1> QED BY <1>5, <1>7, <1>8, <1>9

\* The division of x: the part that is taken off is n times the quotient.
LEMMA DivideXInv == ScaleInv /\ DivideX => ScaleInv'
<1> SUFFICES ASSUME ScaleInv, DivideX PROVE ScaleInv'
  OBVIOUS
<1> DEFINE p == Size(call.x) * Size(call.n)
           t == x \div d
           rest == x - t * d
<1>1. step = "divide_x" /\ a * d + x * n = p /\ n < d /\ f = 0
  BY DEF DivideX, ScaleInv, NothingIsLost, ArgumentsAreReduced
<1>2. /\ x \in Nat \ {0} /\ n \in Nat \ {0} /\ d \in Nat \ {0} /\ a \in Nat
      /\ f \in Nat /\ r \in Int /\ value \in Int
      /\ sign \in {-1, 1} /\ sign = AnswerSign(call)
      /\ call \in ScaleCalls /\ call.max_answer \in Nat /\ a <= call.max_answer
      /\ d = Size(call.d) /\ p \in Nat /\ Answer(call) = Rounded(p, d)
      /\ Answer(call) \in Int
  BY <1>1, InTheMiddle
<1>3. t \in Nat /\ t * d <= x /\ x < t * d + d
  BY <1>2, Quotient
<1>4. t > (call.max_answer - a) \div n <=> t * n > call.max_answer - a
  <2>1. call.max_answer - a \in Nat
    BY <1>2
  <2> QED BY <1>2, <1>3, <2>1, BoundOfProduct
<1>5. \/ /\ t > (call.max_answer - a) \div n
         /\ Overflow
         /\ UNCHANGED <<x, n, d, a, f, r>>
      \/ /\ t <= (call.max_answer - a) \div n
         /\ a' = a + t * n
         /\ \/ /\ rest = 0 /\ Return(a')
               /\ x' = 0
               /\ UNCHANGED <<n, r>>
            \/ /\ rest # 0 /\ step' = "loop"
               /\ Ordered(rest, n)
               /\ r' = d \div 2 - d
               /\ UNCHANGED <<call, sign, value>>
         /\ UNCHANGED <<d, f>>
  BY DEF DivideX
<1>6. /\ rest \in Nat /\ rest < d /\ x = t * d + rest
  BY <1>2, <1>3
<1> HIDE DEF t, rest
<1> DEFINE b == a + t * n
<1>7. b \in Nat /\ b * d + rest * n = p
  <2>1. x * n = (t * n) * d + rest * n
    BY <1>2, <1>3, <1>6
  <2>2. b * d = a * d + (t * n) * d
    BY <1>2, <1>3
  <2> QED BY <1>1, <1>2, <1>3, <1>6, <2>1, <2>2
<1>8. /\ t > (call.max_answer - a) \div n => b > call.max_answer
      /\ t <= (call.max_answer - a) \div n => b <= call.max_answer
  <2>1. call.max_answer - a \in Nat
    BY <1>2
  <2>2. (call.max_answer - a) \div n \in Nat
    BY <1>2, <2>1, Quotient
  <2> QED BY <1>2, <1>3, <1>4, <2>2
<1> HIDE DEF b, p
<1>9. CASE /\ t > (call.max_answer - a) \div n
           /\ Overflow
           /\ UNCHANGED <<x, n, d, a, f, r>>
  <2>1. b * d <= p
    <3>1. rest * n >= 0 /\ rest * n \in Int /\ b * d \in Int
      BY <1>2, <1>6, <1>7
    <3> QED BY <1>2, <1>7, <3>1
  <2>2. Rounded(p, d) >= b
    BY <1>2, <1>7, <2>1, AnswerIsAtLeast
  <2>3. Answer(call) > call.max_answer
    BY <1>2, <1>7, <1>8, <1>9, <2>2
  <2>4. ScaleRounds' /\ value' \in Int
    BY <1>9, <2>3, OverflowIsReal
  <2>5. ScaleTypeOK' /\ step' = "overflow"
    BY <1>9, <2>4 DEF ScaleInv, ScaleTypeOK, Overflow
  <2> QED BY <2>4, <2>5, EndedInv
<1>10. CASE /\ t <= (call.max_answer - a) \div n
            /\ a' = b /\ rest = 0 /\ Return(b) /\ x' = 0
            /\ UNCHANGED <<n, r, d, f>>
  <2>1. b * d = p
    BY <1>2, <1>7, <1>10
  <2>2. Answer(call) = b
    BY <1>2, <1>7, <2>1, AnswerIsExact
  <2>3. b <= call.max_answer
    BY <1>8, <1>10
  <2>4. ScaleRounds' /\ value' \in Int
    BY <1>2, <1>7, <1>10, <2>2, <2>3, ReturnsAnswer
  <2>5. ScaleTypeOK' /\ step' = "done"
    BY <1>2, <1>7, <1>10, <2>4 DEF ScaleTypeOK, Return
  <2> QED BY <2>4, <2>5, EndedInv
<1>11. CASE /\ t <= (call.max_answer - a) \div n
            /\ a' = b /\ rest # 0 /\ step' = "loop" /\ Ordered(rest, n)
            /\ r' = d \div 2 - d
            /\ UNCHANGED <<call, sign, value, d, f>>
  <2>1. /\ x' \in Nat /\ n' \in Nat /\ 0 < n' /\ n' <= x' /\ x' < d
        /\ x' * n' = rest * n
    BY <1>1, <1>2, <1>6, <1>11 DEF Ordered
  <2>2. d \div 2 \in Nat /\ d \div 2 < d
    BY <1>2
  <2>3. r' \in Int /\ -d <= r' /\ r' < 0 /\ r' + d = d \div 2
    BY <1>2, <1>11, <2>2
  <2>4. (a' + f') * d + x' * n' + r' + d = p + d \div 2
    <3>1. a' + f' = b
      BY <1>1, <1>7, <1>11
    <3>2. b * d \in Int /\ x' * n' \in Int
      BY <1>2, <1>7, <2>1
    <3> QED BY <1>2, <1>7, <2>1, <2>2, <2>3, <3>1, <3>2
  <2>5. p = Size(call.x) * Size(call.n) /\ b <= call.max_answer
    BY <1>8, <1>11 DEF p
  <2> QED
    BY <1>2, <1>7, <1>11, <2>1, <2>3, <2>4, <2>5
    DEF ScaleInv, ScaleTypeOK, ArgumentsAreReduced, NothingIsLost, ScaleRounds
<1> QED BY <1>5, <1>9, <1>10, <1>11 DEF b

\* One turn of the loop: n is halved, and x doubled and reduced; what d takes
\* away is counted by f.
LEMMA TurnInv == ScaleInv /\ Turn => ScaleInv'
<1> SUFFICES ASSUME ScaleInv, Turn PROVE ScaleInv'
  OBVIOUS
<1> DEFINE p == Size(call.x) * Size(call.n)
           half == n \div 2
           carry == n % 2 = 1 /\ r + x >= 0
           g == IF carry THEN f + 1 ELSE f
           s == IF n % 2 = 0 THEN r ELSE IF carry THEN r + x - d ELSE r + x
<1>1. /\ step = "loop"
      /\ -d <= r /\ r < 0 /\ 0 < n /\ n <= x /\ x < d
      /\ (a + f) * d + x * n + r + d = p + d \div 2
  BY DEF Turn, ScaleInv, NothingIsLost
<1>2. /\ x \in Nat \ {0} /\ n \in Nat \ {0} /\ d \in Nat \ {0} /\ a \in Nat
      /\ f \in Nat /\ r \in Int /\ value \in Int
      /\ sign \in {-1, 1} /\ sign = AnswerSign(call)
      /\ call \in ScaleCalls /\ call.max_answer \in Nat /\ a <= call.max_answer
      /\ d = Size(call.d) /\ p \in Nat /\ Answer(call) = Rounded(p, d)
      /\ Answer(call) \in Int
  BY <1>1, InTheMiddle
<1>3. /\ r' = s
      /\ \/ /\ half = 0
            /\ AddLoop(g)
            /\ f' = g /\ n' = 0 /\ x' = x
         \/ /\ half # 0 /\ x < Half
            /\ x' = x + x /\ n' = half /\ f' = g
            /\ UNCHANGED <<call, step, sign, value>>
         \/ /\ half # 0 /\ x >= Half
            /\ f' = g + half
            /\ \/ /\ x + x = d
                  /\ AddLoop(g + half)
                  /\ x' = 0 /\ n' = half
               \/ /\ x + x # d
                  /\ Ordered(x - d + x, half)
                  /\ UNCHANGED <<call, step, sign, value>>
      /\ UNCHANGED <<d, a>>
  BY DEF Turn
<1>4. half \in Nat /\ n % 2 \in {0, 1} /\ n = 2 * half + (n % 2)
  BY <1>2, Halves
<1>5. /\ g \in Nat /\ s \in Int /\ -d <= s /\ s < 0
      /\ x * (n % 2) + r + f * d = s + g * d
  <2>1. CASE n % 2 = 0
    BY <1>1, <1>2, <2>1
  <2>2. CASE n % 2 = 1 /\ r + x >= 0
    <3>1. g = f + 1 /\ s = r + x - d /\ g * d = f * d + d
      BY <1>2, <2>2
    <3> QED BY <1>1, <1>2, <2>2, <3>1
  <2>3. CASE n % 2 = 1 /\ ~(r + x >= 0)
    BY <1>1, <1>2, <2>3
  <2> QED BY <1>4, <2>1, <2>2, <2>3
<1> DEFINE b == d \div 2
<1>6. b \in Nat /\ d % 2 \in {0, 1} /\ d = 2 * b + (d % 2) /\ Half = d - b
  BY <1>2, Halves DEF Half
<1> HIDE DEF p, half, carry, g, s, b
<1>7. (a + g) * d + (x + x) * half + s + d = p + b
  <2>1. x * n = (x + x) * half + x * (n % 2)
    BY <1>2, <1>4
  <2>2. (a + f) * d = a * d + f * d /\ (a + g) * d = a * d + g * d
    BY <1>2, <1>5
  <2>3. (a + f) * d + x * n + r + d = p + b
    BY <1>1 DEF b
  <2>4. /\ x * n \in Int /\ (x + x) * half \in Int /\ x * (n % 2) \in Int
        /\ a * d \in Int /\ f * d \in Int /\ g * d \in Int
    BY <1>2, <1>4, <1>5
  <2> QED BY <1>2, <1>5, <1>6, <2>1, <2>2, <2>3, <2>4
<1>8. ASSUME NEW q \in Nat, (a + q) * d + s + d = p + b
      PROVE  Answer(call) = a + q
  <2>1. (a + q) * d \in Int /\ a + q \in Int
    BY <1>2
  <2>2. (a + q) * d <= p + b /\ p + b < (a + q) * d + d
    BY <1>2, <1>5, <1>6, <1>8, <2>1
  <2> QED BY <1>2, <2>1, <2>2, AnswerIs DEF b
<1>9. CASE half = 0 /\ AddLoop(g) /\ f' = g /\ n' = 0 /\ x' = x
  <2>1. Answer(call) = a + g
    <3>1. (x + x) * half = 0 /\ (a + g) * d \in Int
      BY <1>2, <1>5, <1>9
    <3>2. (a + g) * d + s + d = p + b
      BY <1>2, <1>5, <1>6, <1>7, <3>1
    <3> QED BY <1>5, <1>8, <3>2
  <2>2. /\ ScaleRounds' /\ step' \in {"done", "overflow"}
        /\ call' = call /\ sign' = sign /\ value' \in Int
    BY <1>2, <1>5, <1>9, <2>1, LoopAnswers
  <2>3. ScaleTypeOK'
    BY <1>2, <1>3, <1>5, <1>9, <2>2 DEF ScaleTypeOK
  <2> QED BY <2>2, <2>3, EndedInv
<1>10. CASE /\ half # 0 /\ x < Half
            /\ x' = x + x /\ n' = half /\ f' = g
            /\ UNCHANGED <<call, step, sign, value>>
  <2>1. /\ x' \in Nat /\ n' \in Nat /\ 0 < n' /\ n' <= x' /\ x' < d
    BY <1>1, <1>2, <1>4, <1>6, <1>10
  <2>2. (a' + f') * d' + x' * n' + r' + d' = p + d' \div 2
    BY <1>3, <1>7, <1>10 DEF b
  <2>3. p = Size(call.x) * Size(call.n)
    BY DEF p
  <2> QED
    BY <1>1, <1>2, <1>3, <1>5, <1>10, <2>1, <2>2, <2>3
    DEF ScaleInv, ScaleTypeOK, ArgumentsAreReduced, NothingIsLost, ScaleRounds
<1>11. ASSUME half # 0, x >= Half
       PROVE  /\ x - d + x \in Nat /\ x - d + x < d
              /\ half \in Nat /\ 0 < half /\ half < d
              /\ (a + (g + half)) * d + (x - d + x) * half + s + d = p + b
  <2>1. x - d + x \in Nat /\ x - d + x < d /\ 0 < half /\ half < d
    BY <1>1, <1>2, <1>4, <1>6, <1>11
  <2>2. /\ (a + (g + half)) * d = (a + g) * d + half * d
        /\ (x - d + x) * half = (x + x) * half - half * d
    BY <1>2, <1>4, <1>5
  <2>3. (a + g) * d \in Int /\ half * d \in Int /\ (x + x) * half \in Int
    BY <1>2, <1>4, <1>5
  <2> QED BY <1>2, <1>4, <1>5, <1>6, <1>7, <2>1, <2>2, <2>3
<1>12. CASE /\ half # 0 /\ x >= Half /\ f' = g + half
            /\ x + x = d /\ AddLoop(g + half) /\ x' = 0 /\ n' = half
  <2>1. x - d + x = 0 /\ g + half \in Nat
    BY <1>2, <1>4, <1>5, <1>12
  <2>2. (a + (g + half)) * d + s + d = p + b
    <3>1. (x - d + x) * half = 0
      BY <1>4, <2>1
    <3>2. (a + (g + half)) * d \in Int
      BY <1>2, <2>1
    <3> QED BY <1>2, <1>5, <1>6, <1>11, <1>12, <3>1, <3>2
  <2>3. Answer(call) = a + (g + half)
    BY <1>8, <2>1, <2>2
  <2>4. /\ ScaleRounds' /\ step' \in {"done", "overflow"}
        /\ call' = call /\ sign' = sign /\ value' \in Int
    BY <1>2, <1>12, <2>1, <2>3, LoopAnswers
  <2>5. ScaleTypeOK'
    BY <1>2, <1>3, <1>4, <1>5, <1>12, <2>1, <2>4 DEF ScaleTypeOK
  <2> QED BY <2>4, <2>5, EndedInv
<1>13. CASE /\ half # 0 /\ x >= Half /\ f' = g + half
            /\ x + x # d /\ Ordered(x - d + x, half)
            /\ UNCHANGED <<call, step, sign, value>>
  <2>1. x - d + x # 0 /\ f' \in Nat
    <3>1. x - d + x # 0
      BY <1>2, <1>13
    <3>2. g + half \in Nat
      BY <1>4, <1>5
    <3> QED BY <1>13, <3>1, <3>2
  <2>2. /\ x' \in Nat /\ n' \in Nat /\ 0 < n' /\ n' <= x' /\ x' < d
        /\ x' * n' = (x - d + x) * half
    BY <1>11, <1>13, <2>1 DEF Ordered
  <2>3. (a' + f') * d' + x' * n' + r' + d' = p + d' \div 2
    BY <1>3, <1>11, <1>13, <2>2 DEF b
  <2>4. p = Size(call.x) * Size(call.n)
    BY DEF p
  <2> QED
    BY <1>1, <1>2, <1>3, <1>5, <1>13, <2>1, <2>2, <2>3, <2>4
    DEF ScaleInv, ScaleTypeOK, ArgumentsAreReduced, NothingIsLost, ScaleRounds
<1> QED BY <1>3, <1>9, <1>10, <1>12, <1>13
-----------------------------------------------------------------------------
\* The invariant holds in every state of a call.
THEOREM ScaleInvariant == ScaleSpec => []ScaleInv
<1>1. ScaleInv /\ [ScaleNext]_scaleVars => ScaleInv'
  <2> SUFFICES ASSUME ScaleInv, [ScaleNext]_scaleVars PROVE ScaleInv'
    OBVIOUS
  <2>1. CASE Signs
    BY <2>1, SignsInv
  <2>2. CASE DivideN
    BY <2>2, DivideNInv
  <2>3. CASE DivideX
    BY <2>3, DivideXInv
  <2>4. CASE Turn
    BY <2>4, TurnInv
  <2>5. CASE UNCHANGED scaleVars
    BY <2>5
    DEF scaleVars, ScaleInv, ScaleTypeOK, ArgumentsAreReduced, NothingIsLost,
        ScaleRounds
  <2> QED BY <2>1, <2>2, <2>3, <2>4, <2>5 DEF ScaleNext
<1> QED BY ScaleInitInv, <1>1, PTL DEF ScaleSpec

\* ScaledInt::scale returns x*n/d, rounded, or reports an overflow exactly when
\* this is larger than the largest answer, for all arguments (ScaledInt.cpp).
THEOREM ScaleIsExact == ScaleSpec => []ScaleRounds
<1>1. ScaleInv => ScaleRounds
  BY DEF ScaleInv
<1> QED BY <1>1, ScaleInvariant, PTL

\* The invariant that the comment of the loop states holds at each of its turns.
THEOREM LoopKeepsTheSum == ScaleSpec => []NothingIsLost
<1>1. ScaleInv => NothingIsLost
  BY DEF ScaleInv
<1> QED BY <1>1, ScaleInvariant, PTL
=============================================================================
