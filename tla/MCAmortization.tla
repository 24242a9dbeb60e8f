-------------------------- MODULE MCAmortization --------------------------
(***************************************************************************)
(* Small instances of Amortization for TLC.                                *)
(***************************************************************************)
EXTENDS Amortization, TLC

(* r / (1 - (1 + r)^-m) for r = 0.015, the monthly rate of 1800 basis      *)
(* points, in millionths, for m = 1, 2, ...; for the principals below it   *)
(* gives the payment that float64 arithmetic gives.                        *)
PaymentOfOne == <<1015000, 511278, 343383, 259445, 209089, 175525,
                  151556, 133584, 119610, 108434, 99294, 91680>>

TableAnnuity(p, bps, m) == (2 * p * PaymentOfOne[m] + 1000000) \div 2000000

(* The personal loan's rate, over up to a year.                            *)
PersonalLoans ==
    [principal : 450..600, bps : {1800}, months : 1..12]

(* Loans without interest.                                                 *)
ZeroRateLoans == [principal : 1..130, bps : {0}, months : 1..12]

Loans == PersonalLoans \cup ZeroRateLoans

(* 73 and 365 days at 1800 basis points give ties.                         *)
SomeDays == {1, 30, 73, 365}

(* Seven years at the personal loan's rate, for which float64 arithmetic   *)
(* gives a payment of 631.                                                 *)
SevenYears == {[principal |-> 30000, bps |-> 1800, months |-> 84]}
SevenYearAnnuity(p, bps, m) == 631

=============================================================================
