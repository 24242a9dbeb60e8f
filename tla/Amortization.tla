---------------------------- MODULE Amortization ----------------------------
(***************************************************************************)
(* loan.Schedule: the loop that builds the installments of a loan, one     *)
(* iteration a step.  The fixed payment comes out of floating-point        *)
(* arithmetic; when there is interest it is the parameter Annuity here.    *)
(***************************************************************************)
EXTENDS MoneyText

CONSTANTS
    Loan,               \* the loans tried: [principal, bps, months] records
    Annuity(_, _, _),   \* round(p * r / (1 - (1 + r)^-months)), r = bps/120000
    Days                \* the numbers of days that RoundingIsBankers speaks of

ASSUME AmortizationAssumption ==
    /\ Days \subseteq Nat
    /\ Loan \subseteq [principal : Nat \ {0}, bps : Nat, months : Nat \ {0}]
    /\ \A l \in Loan : Annuity(l.principal, l.bps, l.months) \in Int

VARIABLES
    loan,       \* the arguments of the call
    balance,    \* what remains to be paid back
    schedule    \* the installments so far

vars == <<loan, balance, schedule>>

(* math.Ceil of a quotient of positive integers.                           *)
CeilDiv(n, d) == (n + d - 1) \div d

(* Mutant of Payment: integer division, which rounds down.                 *)
PaymentDown(l) ==
    IF l.bps = 0 THEN l.principal \div l.months
    ELSE Annuity(l.principal, l.bps, l.months)

Payment(l) ==
    IF l.bps = 0 THEN CeilDiv(l.principal, l.months)
    ELSE Annuity(l.principal, l.bps, l.months)

(* Mutant of PrincipalPart: the last installment is like the others.       *)
PrincipalPartAlways(l, i, bal) ==
    Payment(l) - InterestForDays(bal, l.bps, 30)

(* Installment i of a loan whose balance is bal: the last one pays off     *)
(* what remains.                                                           *)
PrincipalPart(l, i, bal) ==
    IF i = l.months THEN bal ELSE Payment(l) - InterestForDays(bal, l.bps, 30)

(* Mutant of Installment: the interest since the loan was paid out.        *)
InstallmentSince(l, i, bal) ==
    LET interest == InterestForDays(bal, l.bps, 30 * i)
        part == IF i = l.months THEN bal ELSE Payment(l) - interest
    IN  [interest |-> interest, principal |-> part, balance |-> bal - part]

Installment(l, i, bal) ==
    [interest  |-> InterestForDays(bal, l.bps, 30),
     principal |-> PrincipalPart(l, i, bal),
     balance   |-> bal - PrincipalPart(l, i, bal)]

Finished == Len(schedule) = loan.months

-----------------------------------------------------------------------------
Init ==
    /\ loan \in Loan
    /\ balance = loan.principal
    /\ schedule = <<>>

Iterate ==
    /\ ~Finished
    /\ LET inst == Installment(loan, Len(schedule) + 1, balance)
       IN  /\ schedule' = Append(schedule, inst)
           /\ balance' = inst.balance
    /\ UNCHANGED loan

Next == Iterate

Spec == Init /\ [][Next]_vars

-----------------------------------------------------------------------------
(* Properties                                                              *)

TypeOK ==
    /\ loan \in Loan
    /\ balance \in Int
    /\ schedule \in Seq([interest : Int, principal : Int, balance : Int])
    /\ Len(schedule) <= loan.months

(* The balance before installment i.                                       *)
BalanceBefore(i) == IF i = 1 THEN loan.principal ELSE schedule[i - 1].balance

(* "the final installment paying off the exact remaining balance so no     *)
(* cent is lost to rounding" (schedule.go): each installment takes its     *)
(* principal off the balance left by the one before, and the last one      *)
(* leaves nothing, whatever payment the floating-point formula gave.       *)
BalancesChain ==
    /\ \A i \in DOMAIN schedule :
          schedule[i].balance = BalanceBefore(i) - schedule[i].principal
    /\ balance = BalanceBefore(Len(schedule) + 1)
    /\ Finished => balance = 0

(* The principal parts add up to the principal ("principal sums exactly to *)
(* the loan amount", schedule_test.go).                                    *)
PrincipalSumsExactly ==
    LET repaid == [i \in DOMAIN schedule |-> schedule[i].principal]
    IN  Finished => SumFunction(repaid) = loan.principal

(* The payment is more than the first month's interest.                    *)
CoversInterest(l) == Payment(l) > InterestForDays(l.principal, l.bps, 30)

(* "Early installments are mostly interest on the large remaining balance; *)
(* later ones are mostly principal" (LoanView.tsx): although interest is   *)
(* rounded each month, it never rises from one installment to the next,    *)
(* and every fixed payment pays back some principal and no less than the   *)
(* one before.                                                             *)
PaymentsGain ==
    CoversInterest(loan) =>
    \A i \in DOMAIN schedule :
        /\ i < loan.months => schedule[i].principal > 0
        /\ i > 1 => schedule[i].interest <= schedule[i - 1].interest
        /\ 1 < i /\ i < loan.months =>
               schedule[i].principal >= schedule[i - 1].principal

(* "... until the last installment pays the balance to exactly zero"       *)
(* (LoanView.tsx): something is owed until then.                           *)
SomethingIsOwed == ~Finished => balance > 0

(* "zero rate splits principal evenly with no interest"                    *)
(* (schedule_test.go): no installment asks for more than the payment, and  *)
(* none for a negative amount, which the payment's rounding up leaves true *)
(* only of principals that are large enough for the term.                  *)
ZeroRateIsEven ==
    loan.bps = 0 =>
        \A i \in DOMAIN schedule :
            /\ schedule[i].interest = 0
            /\ schedule[i].principal <= Payment(loan)
            /\ loan.principal >= (loan.months - 1) * (loan.months - 1) =>
                   schedule[i].principal >= 0

(* What is still owed, and the same amount overdrawn.                      *)
BothSigns == {balance, -balance}

(* InterestForDays and ApplyRate are banker's rounding ("using banker's    *)
(* rounding", money.go) at the loan's rate, on amounts of either sign.     *)
RoundingIsBankers ==
    \A amount \in BothSigns :
        /\ RateIsRounded(amount, loan.bps)
        /\ \A days \in Days : InterestIsRounded(amount, loan.bps, days)

(* "Allocate splits the amount into n parts that sum exactly to the        *)
(* original" (money.go), and no two parts differ by more than one unit.    *)
AllocationIsExact ==
    \A amount \in BothSigns, n \in 1..loan.months :
        LET share == Allocate(amount, n)
        IN  /\ SumFunction(share) = amount
            /\ \A i, j \in 1..n : AbsOf(share[i] - share[j]) <= 1

(* What the API writes of an amount it reads as the same amount (what      *)
(* TestParseStringRoundTrip of money_test.go samples), whether the         *)
(* currency has no minor unit, cents or mills.                             *)
StringParsesBack ==
    \A amount \in BothSigns, e \in {0, 2, 3} : ReadsBack(amount, e)

=============================================================================
