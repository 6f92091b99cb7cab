------------------------------- MODULE Words -------------------------------
(***************************************************************************)
(* Integers of one, two or four bytes as sequences of bytes, low byte      *)
(* first: what the IR's operations mean, independently of any recipe.      *)
(***************************************************************************)
EXTENDS Integers, SequencesExt

Zeros(n) == [j \in 1..n |-> 0]
Complement(x) == [j \in DOMAIN x |-> 255 - x[j]]

\* x + y + c, modulo 256^n.
AddC(x, y, c) ==
    LET carry[j \in 0..Len(x)] == IF j = 0 THEN c ELSE (x[j] + y[j] + carry[j - 1]) \div 256
    IN  [j \in DOMAIN x |-> (x[j] + y[j] + carry[j - 1]) % 256]

AddW(x, y) == AddC(x, y, 0)
SubW(x, y) == AddC(x, Complement(y), 1)
Negate(x) == SubW(Zeros(Len(x)), x)

Sign(x) == x[Len(x)] \div 128
Extend(x, n, b) == [j \in 1..n |-> IF j <= Len(x) THEN x[j] ELSE b]
ZeroExtend(x, n) == Extend(x, n, 0)
SignExtend(x, n) == Extend(x, n, 255 * Sign(x))

\* The highest byte in which they differ decides.
LessU(x, y) ==
    \E j \in DOMAIN x : x[j] < y[j] /\ \A k \in j + 1..Len(x) : x[k] = y[k]
LessS(x, y) == IF Sign(x) # Sign(y) THEN Sign(x) = 1 ELSE LessU(x, y)

TestBit(x, b) == (x[b \div 8 + 1] \div 2^(b % 8)) % 2 = 1

\* Bit b of the result is bit from[b] of x, or fill.
MoveBits(x, From(_), fill) ==
    LET bits == 0..8 * Len(x) - 1
        bit(b) == IF From(b) \in bits THEN TestBit(x, From(b)) ELSE fill
    IN  [j \in DOMAIN x |->
            FoldLeft(LAMBDA acc, k : 2 * acc + (IF bit(8 * j - k) THEN 1 ELSE 0), 0,
                     [k \in 1..8 |-> k])]

Shl(x, k) == MoveBits(x, LAMBDA b : b - k, FALSE)
Lshr(x, k) == MoveBits(x, LAMBDA b : b + k, FALSE)
Ashr(x, k) == MoveBits(x, LAMBDA b : b + k, Sign(x) = 1)

\* Partial products, bit by bit of y.
MulW(x, y) ==
    FoldLeft(LAMBDA acc, b : IF TestBit(y, b - 1) THEN AddW(acc, Shl(x, b - 1)) ELSE acc,
             Zeros(Len(x)), [b \in 1..8 * Len(y) |-> b])

\* Long division, a bit of the dividend at a time from the highest.  A
\* divisor of zero leaves the dividend and sets every bit of the quotient.
DivideW(x, y) ==
    LET n == Len(x)
        wide == ZeroExtend(y, n + 1)
        Step(s, b) ==
            LET up == Shl(s.rem, 1)
                r == IF TestBit(x, 8 * n - b) THEN [up EXCEPT ![1] = @ + 1] ELSE up
                fits == ~LessU(r, wide)
                q == Shl(s.quo, 1)
            IN  [quo |-> IF fits THEN [q EXCEPT ![1] = @ + 1] ELSE q,
                 rem |-> IF fits THEN SubW(r, wide) ELSE r]
        done == FoldLeft(Step, [quo |-> Zeros(n), rem |-> Zeros(n + 1)], [b \in 1..8 * n |-> b])
    IN  [quo |-> done.quo, rem |-> SubSeq(done.rem, 1, n)]

Absolute(x) == IF Sign(x) = 1 THEN Negate(x) ELSE x
=============================================================================
