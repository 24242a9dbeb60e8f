------------------------------- MODULE Money -------------------------------
(***************************************************************************)
(* The arithmetic of money.Money on minor units: integer division as Go    *)
(* does it, rounding half to even, interest for a number of days, and the  *)
(* split of an amount into parts.  Amounts are unbounded here: int64       *)
(* overflow is not modelled.                                               *)
(***************************************************************************)
EXTENDS Integers

(* Go's / and %, which truncate towards zero.                              *)
Quo(n, d) == IF n >= 0 THEN n \div d ELSE -((-n) \div d)
Remainder(n, d) == n - d * Quo(n, d)

AbsOf(n) == IF n < 0 THEN -n ELSE n

AwayFromZero(n, q) == IF n < 0 THEN q - 1 ELSE q + 1

(* Mutant of RoundHalfEven: half is rounded away from zero.                *)
RoundHalfUp(num, den) ==
    LET q == Quo(num, den)
        r == AbsOf(Remainder(num, den))
    IN  IF 2 * r >= den THEN AwayFromZero(num, q) ELSE q

RoundHalfEven(num, den) ==
    LET q == Quo(num, den)
        r == AbsOf(Remainder(num, den))
        half == den \div 2
    IN  IF r > half \/ (r = half /\ q % 2 # 0)
        THEN AwayFromZero(num, q)
        ELSE q

(* x is num / den rounded to the nearest integer, and to the even one of   *)
(* two that are equally near: what the rounding is for.                    *)
IsNearestEven(x, num, den) ==
    LET off == AbsOf(2 * (x * den - num))
    IN  off <= den /\ (off = den => x % 2 = 0)

(* A rate is in basis points.                                              *)
ApplyRate(amount, bps) == RoundHalfEven(amount * bps, 10000)

InterestForDays(amount, bps, days) ==
    RoundHalfEven(amount * bps * days, 10000 * 365)

(* What a rate and interest for a number of days are for.                  *)
RateIsRounded(amount, bps) ==
    IsNearestEven(ApplyRate(amount, bps), amount * bps, 10000)
InterestIsRounded(amount, bps, days) ==
    IsNearestEven(InterestForDays(amount, bps, days), amount * bps * days, 3650000)

(* Mutant of Allocate: the remainder goes to the first parts unsigned.     *)
AllocateUnsigned(amount, n) ==
    LET base == Quo(amount, n)
        rem == AbsOf(Remainder(amount, n))
    IN  [i \in 1..n |-> IF i <= rem THEN base + 1 ELSE base]

(* The n parts of Allocate; its index i is one less than ours.             *)
Allocate(amount, n) ==
    LET base == Quo(amount, n)
        rem == Remainder(amount, n)
    IN  [i \in 1..n |->
            IF rem > 0 /\ i <= rem THEN base + 1
            ELSE IF rem < 0 /\ i <= -rem THEN base - 1
            ELSE base]

=============================================================================
