------------------------- MODULE AmortizationProofs -------------------------
(***************************************************************************)
(* Whatever payment the floating-point formula gives, for any loan, the    *)
(* balances of a schedule chain, its last installment leaves nothing, and  *)
(* payments that cover the first interest gain on the principal; the       *)
(* amounts are rounded, split, written and read without losing anything.   *)
(***************************************************************************)
EXTENDS Amortization, ArithmeticProofs

LEMMA LoanType ==
    ASSUME NEW l \in Loan
    PROVE  /\ l.principal \in Nat \ {0}
           /\ l.bps \in Nat
           /\ l.months \in Nat \ {0}
           /\ Annuity(l.principal, l.bps, l.months) \in Int
  BY AmortizationAssumption

LEMMA PaymentInt ==
    ASSUME NEW l \in Loan
    PROVE  Payment(l) \in Int
<1>1. CeilDiv(l.principal, l.months) \in Int
  BY LoanType DEF CeilDiv
<1> QED BY <1>1, LoanType DEF Payment

(* An installment takes its principal off the balance; the last one takes  *)
(* all of it.                                                              *)
LEMMA InstallmentFacts ==
    ASSUME NEW l \in Loan, NEW i \in Nat, NEW bal \in Int
    PROVE  LET inst == Installment(l, i, bal)
           IN  /\ inst \in [interest : Int, principal : Int, balance : Int]
               /\ inst.balance = bal - inst.principal
               /\ i = l.months => inst.balance = 0
<1> DEFINE interest == InterestForDays(bal, l.bps, 30)
           part == PrincipalPart(l, i, bal)
<1>1. interest \in Int
  BY InterestInt, LoanType
<1>2. part \in Int /\ (i = l.months => part = bal)
  <2>1. Payment(l) \in Int
    BY PaymentInt
  <2> QED BY <1>1, <2>1 DEF PrincipalPart
<1>3. Installment(l, i, bal) =
          [interest |-> interest, principal |-> part, balance |-> bal - part]
  BY DEF Installment
<1> HIDE DEF interest, part
<1> QED BY <1>1, <1>2, <1>3

-----------------------------------------------------------------------------
IInv == TypeOK /\ BalancesChain

LEMMA InitIInv == Init => IInv
<1> SUFFICES ASSUME Init PROVE IInv
  OBVIOUS
<1> USE DEF Init
<1>1. loan.principal \in Int /\ loan.months \in Nat \ {0}
  BY LoanType
<1>2. schedule = <<>> /\ Len(schedule) = 0 /\ DOMAIN schedule = {}
  OBVIOUS
<1>3. TypeOK
  BY <1>1, <1>2 DEF TypeOK
<1>4. BalancesChain
  BY <1>1, <1>2 DEF BalancesChain, BalanceBefore, Finished
<1> QED BY <1>3, <1>4 DEF IInv

LEMMA StepIInv == IInv /\ [Next]_vars => IInv'
<1> SUFFICES ASSUME IInv, [Next]_vars PROVE IInv'
  OBVIOUS
<1> USE DEF IInv
<1>1. CASE Iterate
  <2> DEFINE Inst == [interest : Int, principal : Int, balance : Int]
  <2>0. PICK n \in Nat : n = Len(schedule)
    BY DEF TypeOK
  <2> DEFINE inst == Installment(loan, n + 1, balance)
  <2>1. /\ loan \in Loan /\ loan' = loan
        /\ balance \in Int
        /\ schedule \in Seq(Inst)
        /\ n <= loan.months /\ n # loan.months
    BY <1>1, <2>0 DEF TypeOK, Iterate, Finished
  <2>2. loan.months \in Nat
    BY <2>1, LoanType
  <2>3. schedule' = Append(schedule, inst) /\ balance' = inst.balance
    BY <1>1, <2>0 DEF Iterate
  <2>4. /\ inst \in Inst
        /\ inst.balance = balance - inst.principal
        /\ n + 1 = loan.months => inst.balance = 0
    <3>1. n + 1 \in Nat
      OBVIOUS
    <3> QED BY <3>1, <2>1, InstallmentFacts, Zenon
  <2>5. /\ balance = BalanceBefore(n + 1)
        /\ \A i \in 1..n :
              schedule[i].balance = BalanceBefore(i) - schedule[i].principal
    <3>1. DOMAIN schedule = 1..n
      BY <2>0, <2>1
    <3>2. balance = BalanceBefore(Len(schedule) + 1)
      BY DEF BalancesChain
    <3>3. \A i \in DOMAIN schedule :
              schedule[i].balance = BalanceBefore(i) - schedule[i].principal
      BY DEF BalancesChain
    <3> QED BY <3>1, <3>2, <3>3, <2>0
  <2> HIDE DEF inst
  <2>6. /\ Len(schedule') = n + 1
        /\ DOMAIN schedule' = 1..(n + 1)
        /\ schedule'[n + 1] = inst
        /\ \A i \in 1..n : schedule'[i] = schedule[i]
        /\ schedule' \in Seq(Inst)
    BY <2>0, <2>1, <2>3, <2>4
  <2>7. TypeOK'
    BY <2>1, <2>2, <2>3, <2>4, <2>6 DEF TypeOK
  <2>8. \A i \in 1..(n + 1) : BalanceBefore(i)' = BalanceBefore(i)
    <3> SUFFICES ASSUME NEW i \in 1..(n + 1)
                 PROVE  BalanceBefore(i)' = BalanceBefore(i)
      OBVIOUS
    <3>1. i # 1 => i - 1 \in 1..n
      OBVIOUS
    <3> QED BY <3>1, <2>1, <2>6 DEF BalanceBefore
  <2>9. \A i \in 1..(n + 1) :
            schedule'[i].balance = BalanceBefore(i)' - schedule'[i].principal
    <3> SUFFICES ASSUME NEW i \in 1..(n + 1)
                 PROVE  schedule'[i].balance
                            = BalanceBefore(i)' - schedule'[i].principal
      OBVIOUS
    <3>1. CASE i \in 1..n
      BY <3>1, <2>5, <2>6, <2>8
    <3>2. CASE i = n + 1
      BY <3>2, <2>4, <2>5, <2>6, <2>8
    <3> QED BY <3>1, <3>2, <2>1
  <2>10. BalanceBefore(n + 2)' = balance'
    <3>1. n + 2 # 1 /\ (n + 2) - 1 = n + 1
      OBVIOUS
    <3> QED BY <3>1, <2>3, <2>6 DEF BalanceBefore
  <2>11. Finished' => balance' = 0
    BY <2>1, <2>3, <2>4, <2>6 DEF Finished
  <2>12. BalancesChain'
    <3>1. balance' = BalanceBefore(Len(schedule) + 1)'
      BY <2>1, <2>6, <2>10 DEF BalanceBefore
    <3> QED BY <3>1, <2>6, <2>9, <2>11, Zenon DEF BalancesChain
  <2> QED BY <2>7, <2>12
<1>2. CASE UNCHANGED vars
  BY <1>2 DEF vars, TypeOK, BalancesChain, BalanceBefore, Finished
<1> QED BY <1>1, <1>2 DEF Next

(* "the final installment paying off the exact remaining balance so no     *)
(* cent is lost to rounding" (schedule.go), for every loan and every       *)
(* payment that the floating-point formula may give.                       *)
THEOREM NoCentLost == Spec => []BalancesChain
<1>1. Spec => []IInv
  BY InitIInv, StepIInv, PTL DEF Spec
<1>2. IInv => BalancesChain
  BY DEF IInv
<1> QED BY <1>1, <1>2, PTL

-----------------------------------------------------------------------------
(* What an iteration appends, as installment n + 1.                        *)
Iterated(n, inst) ==
    /\ n = Len(schedule) /\ n \in Nat /\ n + 1 <= loan.months
    /\ inst = Installment(loan, n + 1, balance)
    /\ inst.balance = balance - inst.principal /\ inst.principal \in Int
    /\ loan' = loan /\ balance' = inst.balance
    /\ schedule' = Append(schedule, inst)
    /\ DOMAIN schedule = 1..n /\ DOMAIN schedule' = 1..(n + 1)
    /\ schedule'[n + 1] = inst /\ \A i \in 1..n : schedule'[i] = schedule[i]

LEMMA IterateFacts ==
    ASSUME IInv, Iterate PROVE \E n, inst : Iterated(n, inst)
<1> DEFINE Inst == [interest : Int, principal : Int, balance : Int]
<1>1. PICK n \in Nat : n = Len(schedule)
  BY DEF IInv, TypeOK
<1>2. PICK inst : inst = Installment(loan, n + 1, balance)
  OBVIOUS
<1>3. /\ loan \in Loan /\ balance \in Int /\ schedule \in Seq(Inst)
      /\ loan.months \in Nat /\ n <= loan.months /\ n # loan.months
  BY <1>1, LoanType DEF IInv, TypeOK, Iterate, Finished
<1>4. inst \in Inst /\ inst.balance = balance - inst.principal
  <2>1. n + 1 \in Nat
    OBVIOUS
  <2> QED
    BY <1>2, <1>3, <2>1, InstallmentFacts, Zenon
<1>5. inst.principal \in Int
  BY <1>4
<1>6. /\ schedule' = Append(schedule, inst) /\ balance' = inst.balance
      /\ loan' = loan
  BY <1>1, <1>2 DEF Iterate
<1> HIDE DEF Inst
<1>7. /\ DOMAIN schedule = 1..n /\ DOMAIN schedule' = 1..(n + 1)
      /\ schedule'[n + 1] = inst /\ \A i \in 1..n : schedule'[i] = schedule[i]
  BY <1>1, <1>3, <1>4, <1>6
<1>8. n + 1 <= loan.months
  BY <1>3
<1>9. Iterated(n, inst)
  BY <1>1, <1>2, <1>4, <1>5, <1>6, <1>7, <1>8 DEF Iterated
<1> QED
  BY <1>9

(* What was repaid and what remains make up the principal.                 *)
Principals(s) == [i \in DOMAIN s |-> s[i].principal]
RepaidOf(s) == SumFunctionOnSet(Principals(s), DOMAIN s)

Repaid == RepaidOf(schedule) + balance = loan.principal

LEMMA InitRepaid == Init => Repaid
<1> SUFFICES ASSUME Init PROVE Repaid
  OBVIOUS
<1>1. DOMAIN schedule = {} /\ balance = loan.principal /\ loan.principal \in Int
  BY LoanType DEF Init
<1>2. RepaidOf(schedule) = 0
  BY <1>1, SumEmpty DEF RepaidOf
<1> QED
  BY <1>1, <1>2 DEF Repaid

LEMMA ScheduleTypes ==
    ASSUME IInv
    PROVE  /\ IsFiniteSet(DOMAIN schedule)
           /\ \A i \in DOMAIN schedule : Principals(schedule)[i] \in Int
<1> DEFINE Inst == [interest : Int, principal : Int, balance : Int]
<1>1. schedule \in Seq(Inst)
  BY DEF IInv, TypeOK
<1>2. \A x \in Inst : x.principal \in Int
  OBVIOUS
<1> HIDE DEF Inst
<1>3. /\ DOMAIN schedule = 1..Len(schedule) /\ Len(schedule) \in Nat
      /\ \A i \in DOMAIN schedule : schedule[i] \in Inst
  BY <1>1
<1> QED
  BY <1>2, <1>3, FS_Interval DEF Principals

LEMMA StepRepaid == IInv /\ Repaid /\ [Next]_vars => Repaid'
<1> SUFFICES ASSUME IInv, Repaid, [Next]_vars PROVE Repaid'
  OBVIOUS
<1>1. CASE Iterate
  <2>1. PICK n, inst : Iterated(n, inst)
    BY <1>1, IterateFacts
  <2>2. PICK s, t : s = schedule /\ t = schedule'
    OBVIOUS
  <2>3. /\ DOMAIN s = 1..n /\ DOMAIN t = 1..(n + 1) /\ n \in Nat
        /\ t[n + 1] = inst /\ (\A i \in 1..n : t[i] = s[i])
        /\ inst.principal \in Int /\ inst.balance = balance - inst.principal
        /\ loan' = loan /\ balance' = inst.balance
    BY <2>1, <2>2 DEF Iterated
  <2>4. IsFiniteSet(DOMAIN s) /\ \A i \in DOMAIN s : Principals(s)[i] \in Int
    BY <2>2, ScheduleTypes
  <2>5. PICK f, h : f = Principals(s) /\ h = Principals(t)
    OBVIOUS
  <2>6. /\ \A i \in DOMAIN s : h[i] = f[i] /\ h[i] \in Int
        /\ h[n + 1] = inst.principal
        /\ n + 1 \notin DOMAIN s /\ DOMAIN t = DOMAIN s \cup {n + 1}
    BY <2>3, <2>4, <2>5 DEF Principals
  <2>7. RepaidOf(t) = inst.principal + SumFunctionOnSet(h, DOMAIN s)
    <3>1. \A i \in DOMAIN s \cup {n + 1} : h[i] \in Int
      BY <2>3, <2>6
    <3>2. SumFunctionOnSet(h, DOMAIN s \cup {n + 1}) = h[n + 1] + SumFunctionOnSet(h, DOMAIN s)
      BY <2>4, <2>6, <3>1, SumAdd
    <3> QED
      BY <2>5, <2>6, <3>2 DEF RepaidOf
  <2>8. SumFunctionOnSet(h, DOMAIN s) = RepaidOf(s) /\ RepaidOf(s) \in Int
    BY <2>4, <2>5, <2>6, SumSame, SumType DEF RepaidOf
  <2>9. RepaidOf(s) + balance = loan.principal /\ balance \in Int
    BY <2>2 DEF Repaid, IInv, TypeOK
  <2>10. RepaidOf(t) + (balance - inst.principal) = loan.principal
    BY <2>3, <2>7, <2>8, <2>9
  <2> QED
    BY <2>2, <2>3, <2>10 DEF Repaid
<1>2. CASE UNCHANGED vars
  BY <1>2 DEF vars, Repaid
<1> QED
  BY <1>1, <1>2 DEF Next

(* "principal sums exactly to the loan amount" (schedule_test.go), for     *)
(* every loan and every payment that the floating-point formula may give.  *)
THEOREM PrincipalAlwaysSums == Spec => []PrincipalSumsExactly
<1>1. IInv /\ Repaid => PrincipalSumsExactly
  <2> SUFFICES ASSUME IInv, Repaid, Finished
               PROVE  SumFunction(Principals(schedule)) = loan.principal
    BY DEF PrincipalSumsExactly, Principals
  <2>1. balance = 0
    BY DEF IInv, BalancesChain
  <2>2. SumFunction(Principals(schedule)) = RepaidOf(schedule)
    <3>1. DOMAIN Principals(schedule) = DOMAIN schedule
      BY DEF Principals
    <3> QED
      BY <3>1, SumFunctionIsOnDomain DEF RepaidOf
  <2>3. RepaidOf(schedule) \in Int
    BY ScheduleTypes, SumType DEF RepaidOf
  <2> QED
    BY <2>1, <2>2, <2>3 DEF Repaid
<1> QED
  BY <1>1, InitIInv, StepIInv, InitRepaid, StepRepaid, PTL DEF Spec

-----------------------------------------------------------------------------
(* Loans without interest                                                  *)

(* The payment, months times, covers the principal by less than a unit a   *)
(* month.                                                                  *)
LEMMA CeilDivBounds ==
    ASSUME NEW n \in Nat \ {0}, NEW d \in Nat \ {0}
    PROVE  /\ CeilDiv(n, d) \in Nat
           /\ n <= d * CeilDiv(n, d) /\ d * CeilDiv(n, d) <= n + d - 1
<1>1. PICK k \in Nat : k = n + d - 1
  OBVIOUS
<1>2. PICK q \in Int, r \in 0..(d - 1) : /\ q = k \div d /\ r = k % d
                                       /\ k = d * q + r
  BY DivMod
<1>3. q \in Nat
  <2>1. SUFFICES ASSUME q <= -1 PROVE FALSE
    OBVIOUS
  <2>2. d * q <= -d
    BY <2>1
  <2> QED
    BY <1>1, <1>2, <2>2
<1>4. CeilDiv(n, d) = q
  BY <1>1, <1>2 DEF CeilDiv
<1>5. d * q \in Int
  OBVIOUS
<1> QED
  BY <1>1, <1>2, <1>3, <1>4, <1>5

(* What is left for the last month is at most the payment, and not         *)
(* negative when the principal is large enough for the term.               *)
LEMMA LastIsEven ==
    ASSUME NEW n \in Nat \ {0}, NEW m \in Nat \ {0}, NEW p \in Nat,
           n <= m * p, m * p <= n + m - 1
    PROVE  /\ n - (m - 1) * p <= p
           /\ n >= (m - 1) * (m - 1) => n - (m - 1) * p >= 0
<1>1. (m - 1) * p = m * p - p /\ m * p \in Int
  OBVIOUS
<1>2. n - (m - 1) * p <= p
  BY <1>1
<1>3. ASSUME n >= (m - 1) * (m - 1), (m - 1) * p > n PROVE FALSE
  <2>1. p <= m - 2 /\ m >= 2
    BY <1>1, <1>3
  <2>2. PICK a \in Nat : a = m - 1
    OBVIOUS
  <2>3. a * p <= a * (a - 1)
    BY <2>1, <2>2
  <2>4. a * (a - 1) = a * a - a /\ a * a \in Int /\ a * p \in Int
    OBVIOUS
  <2>5. n >= a * a /\ a * p > n
    BY <1>3, <2>2
  <2> QED
    BY <2>1, <2>2, <2>3, <2>4, <2>5
<1> QED
  BY <1>1, <1>2, <1>3

LEMMA NoInterest ==
    ASSUME NEW amount \in Int PROVE InterestForDays(amount, 0, 30) = 0
<1>1. PICK d \in Nat \ {0} : d = 10000 * 365 /\ d > 0
  BY SMT
<1>2. amount * 0 * 30 = 0
  BY SMT
<1>3. Quo(0, d) = 0 /\ Remainder(0, d) = 0
  <2>1. 0 \div d = 0 /\ d * 0 = 0
    OBVIOUS
  <2> QED
    BY <2>1 DEF Quo, Remainder
<1>4. d \div 2 \in Int /\ d \div 2 >= 0
  OBVIOUS
<1>5. RoundHalfEven(0, d) = 0
  BY <1>3, <1>4 DEF RoundHalfEven, AbsOf
<1> QED
  BY <1>1, <1>2, <1>5, SMT DEF InterestForDays

(* The installments of a loan without interest.                            *)
Even ==
    loan.bps = 0 =>
        /\ Len(schedule) < loan.months =>
               balance = loan.principal - Len(schedule) * Payment(loan)
        /\ \A i \in DOMAIN schedule :
              /\ schedule[i].interest = 0
              /\ schedule[i].principal =
                    IF i = loan.months
                    THEN loan.principal - (loan.months - 1) * Payment(loan)
                    ELSE Payment(loan)

LEMMA InitEven == Init => Even
<1> SUFFICES ASSUME Init PROVE Even
  OBVIOUS
<1>1. /\ Len(schedule) = 0 /\ DOMAIN schedule = {} /\ balance = loan.principal
      /\ loan.principal \in Int /\ Payment(loan) \in Int
  BY LoanType, PaymentInt DEF Init
<1>2. 0 * Payment(loan) = 0
  BY <1>1
<1> QED
  BY <1>1, <1>2 DEF Even

LEMMA StepEven == IInv /\ Even /\ [Next]_vars => Even'
<1> SUFFICES ASSUME IInv, Even, [Next]_vars PROVE Even'
  OBVIOUS
<1>1. CASE Iterate
  <2> SUFFICES ASSUME loan.bps = 0 PROVE Even'
    BY <1>1 DEF Even, Iterate
  <2>1. PICK n, inst : Iterated(n, inst)
    BY <1>1, IterateFacts
  <2>2. PICK p \in Int : p = Payment(loan)
    BY PaymentInt DEF IInv, TypeOK
  <2>3. PICK m \in Nat \ {0} : m = loan.months
    BY LoanType DEF IInv, TypeOK
  <2>4. PICK c \in Int : c = loan.principal
    BY LoanType DEF IInv, TypeOK
  <2>5. /\ n \in Nat /\ n + 1 <= m /\ loan' = loan
        /\ balance' = balance - inst.principal
        /\ DOMAIN schedule = 1..n /\ DOMAIN schedule' = 1..(n + 1)
        /\ schedule'[n + 1] = inst /\ (\A i \in 1..n : schedule'[i] = schedule[i])
        /\ Len(schedule') = n + 1
    <3>1. /\ n \in Nat /\ n + 1 <= m /\ loan' = loan
          /\ balance' = balance - inst.principal
          /\ DOMAIN schedule = 1..n /\ DOMAIN schedule' = 1..(n + 1)
          /\ schedule'[n + 1] = inst /\ (\A i \in 1..n : schedule'[i] = schedule[i])
      BY <2>1, <2>3 DEF Iterated
    <3>2. TypeOK'
      BY <1>1, StepIInv DEF IInv, Next
    <3>3. Len(schedule') \in Nat /\ DOMAIN schedule' = 1..Len(schedule')
      BY <3>2 DEF TypeOK
    <3> QED
      BY <3>1, <3>3
  <2>6. balance = c - n * p
    BY <2>1, <2>2, <2>3, <2>4, <2>5 DEF Even, Iterated
  <2>7. /\ inst.interest = 0
        /\ inst.principal = IF n + 1 = m THEN balance ELSE p
    <3>1. balance \in Int
      BY DEF IInv, TypeOK
    <3>2. InterestForDays(balance, loan.bps, 30) = 0
      BY <3>1, NoInterest
    <3>3. /\ inst.interest = 0
          /\ inst.principal = PrincipalPart(loan, n + 1, balance)
      BY <2>1, <3>2 DEF Iterated, Installment
    <3>4. PrincipalPart(loan, n + 1, balance) = IF n + 1 = m THEN balance ELSE p
      BY <2>2, <2>3, <3>2 DEF PrincipalPart
    <3> QED
      BY <3>3, <3>4
  <2>8. n + 1 < m => balance' = c - (n + 1) * p
    <3>1. (n + 1) * p = n * p + p /\ n * p \in Int
      BY <2>5
    <3> QED
      BY <2>5, <2>6, <2>7, <3>1
  <2>9. ASSUME NEW i \in 1..(n + 1)
        PROVE  /\ schedule'[i].interest = 0
               /\ schedule'[i].principal = IF i = m THEN c - (m - 1) * p ELSE p
    <3>1. CASE i \in 1..n
      BY <2>2, <2>3, <2>4, <2>5, <3>1 DEF Even
    <3>2. CASE i = n + 1
      <4>1. n + 1 = m => n = m - 1
        BY <2>5
      <4> QED
        BY <2>5, <2>6, <2>7, <3>2, <4>1
    <3> QED
      BY <2>5, <3>1, <3>2
  <2>10. Payment(loan)' = p
    BY <2>2, <2>5 DEF Payment, CeilDiv
  <2> QED
    BY <2>3, <2>4, <2>5, <2>8, <2>9, <2>10 DEF Even
<1>2. CASE UNCHANGED vars
  BY <1>2 DEF vars, Even, Payment, CeilDiv
<1> QED
  BY <1>1, <1>2 DEF Next

(* "zero rate splits principal evenly with no interest"                    *)
(* (schedule_test.go), for every principal and term.                       *)
THEOREM ZeroRateAlwaysEven == Spec => []ZeroRateIsEven
<1>1. IInv /\ Even => ZeroRateIsEven
  <2> SUFFICES ASSUME IInv, Even, loan.bps = 0, NEW i \in DOMAIN schedule
               PROVE  /\ schedule[i].interest = 0
                      /\ schedule[i].principal <= Payment(loan)
                      /\ loan.principal >= (loan.months - 1) * (loan.months - 1) =>
                             schedule[i].principal >= 0
    BY DEF ZeroRateIsEven
  <2>1. loan.principal \in Nat \ {0} /\ loan.months \in Nat \ {0}
    BY LoanType DEF IInv, TypeOK
  <2>2. PICK n \in Nat \ {0}, m \in Nat \ {0}, p \in Nat :
            n = loan.principal /\ m = loan.months /\ p = Payment(loan)
    BY <2>1, CeilDivBounds DEF Payment
  <2>3. n <= m * p /\ m * p <= n + m - 1
    BY <2>2, CeilDivBounds DEF Payment
  <2>4. /\ n - (m - 1) * p <= p
        /\ n >= (m - 1) * (m - 1) => n - (m - 1) * p >= 0
    BY <2>3, LastIsEven
  <2>5. /\ schedule[i].interest = 0
        /\ schedule[i].principal = IF i = m THEN n - (m - 1) * p ELSE p
    BY <2>2 DEF Even
  <2>6. schedule[i].principal <= p /\ (n >= (m - 1) * (m - 1) => schedule[i].principal >= 0)
    BY <2>4, <2>5
  <2> QED
    BY <2>2, <2>5, <2>6
<1> QED
  BY <1>1, InitIInv, StepIInv, InitEven, StepEven, PTL DEF Spec

-----------------------------------------------------------------------------
(* Money, on the amounts of a schedule                                     *)

LEMMA AmountsType == IInv => /\ BothSigns \subseteq Int
                             /\ loan.bps \in Nat /\ loan.months \in Nat
<1> SUFFICES ASSUME IInv
             PROVE  /\ BothSigns \subseteq Int
                    /\ loan.bps \in Nat /\ loan.months \in Nat
  OBVIOUS
<1> QED
  BY AmortizationAssumption DEF IInv, TypeOK, BothSigns

(* Interest is rounded to the nearest unit, ties to even, whatever the     *)
(* loan, the number of days and the sign of the amount.                    *)
THEOREM RoundingAlwaysBankers == Spec => []RoundingIsBankers
<1>1. IInv => RoundingIsBankers
  <2> SUFFICES ASSUME IInv PROVE RoundingIsBankers
    OBVIOUS
  <2>1. BothSigns \subseteq Int /\ loan.bps \in Nat /\ Days \subseteq Nat
    BY AmountsType, AmortizationAssumption
  <2>2. PICK bps \in Nat : bps = loan.bps
    BY <2>1
  <2>3. \A amount \in Int :
            /\ RateIsRounded(amount, bps)
            /\ \A days \in Nat : InterestIsRounded(amount, bps, days)
    BY RatesAreBankersRounding, Zenon
  <2> QED
    BY <2>1, <2>2, <2>3 DEF RoundingIsBankers
<1> QED
  BY <1>1, InitIInv, StepIInv, PTL DEF Spec

(* No unit is lost when an amount of a schedule is split into parts.       *)
THEOREM AllocationAlwaysExact == Spec => []AllocationIsExact
<1>1. IInv => AllocationIsExact
  <2> SUFFICES ASSUME IInv, NEW amount \in BothSigns, NEW n \in 1..loan.months
               PROVE  LET share == Allocate(amount, n)
                      IN  /\ SumFunction(share) = amount
                          /\ \A i, j \in 1..n : AbsOf(share[i] - share[j]) <= 1
    BY DEF AllocationIsExact
  <2>1. amount \in Int /\ n \in Nat \ {0}
    BY AmountsType
  <2> QED
    BY <2>1, AllocateLosesNothing
<1> QED
  BY <1>1, InitIInv, StepIInv, PTL DEF Spec

-----------------------------------------------------------------------------
(* The text form of Money                                                  *)

(* A function on 0..k that obeys the recursion of Factor.                  *)
FactorUpto(h, k) == h = [n \in 0..k |-> IF n = 0 THEN 1 ELSE 10 * h[n - 1]]

LEMMA FactorsExist == ASSUME NEW k \in Nat PROVE \E h : FactorUpto(h, k)
<1> DEFINE Bad == {n \in Nat : ~ \E h : FactorUpto(h, n)}
<1> SUFFICES ASSUME Bad # {} PROVE FALSE
  OBVIOUS
<1>1. PICK n \in Bad : \A j \in Bad : n <= j
  <2>1. Bad \subseteq Nat
    OBVIOUS
  <2> HIDE DEF Bad
  <2> QED
    BY <2>1, LeastNatural
<1>2. n \in Nat /\ ~ \E h : FactorUpto(h, n)
  BY <1>1
<1>3. CASE n = 0
  <2> DEFINE g == [j \in 0..n |-> 1]
  <2>1. FactorUpto(g, n)
    BY <1>3 DEF FactorUpto
  <2> QED
    BY <1>2, <2>1
<1>4. CASE n # 0
  <2>1. n - 1 \in Nat /\ ~(n <= n - 1)
    BY <1>2, <1>4
  <2>2. PICK h : FactorUpto(h, n - 1)
    BY <1>1, <2>1
  <2> DEFINE g == [j \in 0..n |-> IF j = 0 THEN 1 ELSE 10 * h[j - 1]]
  <2>3. ASSUME NEW j \in 0..(n - 1) PROVE g[j] = h[j]
    BY <1>2, <2>2 DEF FactorUpto
  <2>4. ASSUME NEW j \in 0..n, j # 0 PROVE g[j - 1] = h[j - 1]
    <3>1. j - 1 \in 0..(n - 1)
      BY <1>2, <2>4
    <3> HIDE DEF g
    <3> QED
      BY <2>3, <3>1
  <2>5. g = [j \in 0..n |-> IF j = 0 THEN 1 ELSE 10 * g[j - 1]]
    BY <2>4
  <2> QED
    BY <1>2, <2>5 DEF FactorUpto
<1> QED
  BY <1>3, <1>4

LEMMA FactorsAgree ==
    ASSUME NEW k \in Nat, NEW m \in Nat, NEW h, NEW g,
           FactorUpto(h, k), FactorUpto(g, m), NEW n \in Nat, n <= k, n <= m
    PROVE  h[n] = g[n]
<1> DEFINE Bad == {j \in 0..n : h[j] # g[j]}
<1> SUFFICES ASSUME Bad # {} PROVE FALSE
  OBVIOUS
<1>1. PICK j \in Bad : \A i \in Bad : j <= i
  <2>1. Bad \subseteq Nat
    OBVIOUS
  <2> HIDE DEF Bad
  <2> QED
    BY <2>1, LeastNatural
<1>2. j \in 0..k /\ j \in 0..m /\ h[j] # g[j]
  BY <1>1
<1>3. /\ h[j] = IF j = 0 THEN 1 ELSE 10 * h[j - 1]
      /\ g[j] = IF j = 0 THEN 1 ELSE 10 * g[j - 1]
  BY <1>2 DEF FactorUpto
<1>4. CASE j = 0
  BY <1>2, <1>3, <1>4
<1>5. CASE j # 0
  <2>1. j - 1 \in 0..n /\ ~(j <= j - 1)
    BY <1>1, <1>5
  <2>2. h[j - 1] = g[j - 1]
    BY <1>1, <2>1
  <2> QED
    BY <1>2, <1>3, <1>5, <2>2
<1> QED
  BY <1>4, <1>5

LEMMA FactorUnfolds ==
    ASSUME NEW e \in Nat
    PROVE  Factor[e] = IF e = 0 THEN 1 ELSE 10 * Factor[e - 1]
<1> DEFINE H(k) == CHOOSE h : FactorUpto(h, k)
           F == [n \in Nat |-> H(n)[n]]
<1>1. \A k \in Nat : FactorUpto(H(k), k)
  BY FactorsExist
<1>2. ASSUME NEW n \in Nat PROVE F[n] = IF n = 0 THEN 1 ELSE 10 * F[n - 1]
  <2>1. H(n)[n] = IF n = 0 THEN 1 ELSE 10 * H(n)[n - 1]
    <3> HIDE DEF H
    <3>1. H(n) = [j \in 0..n |-> IF j = 0 THEN 1 ELSE 10 * H(n)[j - 1]]
      BY <1>1 DEF FactorUpto
    <3>2. n \in 0..n
      OBVIOUS
    <3> QED
      BY <3>1, <3>2
  <2>2. CASE n = 0
    BY <2>1, <2>2
  <2>3. CASE n # 0
    <3>1. n - 1 \in Nat /\ n - 1 <= n
      BY <2>3
    <3>2. H(n)[n - 1] = H(n - 1)[n - 1]
      BY <1>1, <3>1, FactorsAgree
    <3> HIDE DEF H
    <3> QED
      BY <2>1, <2>3, <3>1, <3>2
  <2> QED
    BY <2>2, <2>3
<1>3. F = [n \in Nat |-> IF n = 0 THEN 1 ELSE 10 * F[n - 1]]
  <2>1. F = [n \in Nat |-> F[n]]
    OBVIOUS
  <2> HIDE DEF F
  <2> QED
    BY <1>2, <2>1
<1>4. Factor = [n \in Nat |-> IF n = 0 THEN 1 ELSE 10 * Factor[n - 1]]
  <2> HIDE DEF F
  <2> QED
    BY <1>3 DEF Factor
<1> QED
  BY <1>4

LEMMA Factors ==
    /\ Factor[0] = 1 /\ Factor[1] = 10 /\ Factor[2] = 100 /\ Factor[3] = 1000
<1>1. Factor[0] = 1
  BY FactorUnfolds
<1>2. Factor[1] = 10 * Factor[1 - 1] /\ 1 - 1 = 0
  BY FactorUnfolds
<1>3. Factor[2] = 10 * Factor[2 - 1] /\ 2 - 1 = 1
  BY FactorUnfolds
<1>4. Factor[3] = 10 * Factor[3 - 1] /\ 3 - 1 = 2
  BY FactorUnfolds
<1> QED
  BY <1>1, <1>2, <1>3, <1>4

LEMMA SumUpTo ==
    ASSUME NEW k \in Nat, NEW f, \A i \in 1..(k + 1) : f[i] \in Int
    PROVE  SumFunctionOnSet(f, 1..(k + 1)) = f[k + 1] + SumFunctionOnSet(f, 1..k)
<1>1. IsFiniteSet(1..k) /\ k + 1 \notin 1..k /\ 1..(k + 1) = (1..k) \cup {k + 1}
  BY FS_Interval
<1> QED
  BY <1>1, SumAdd

(* The number that the digits d stand for.                                 *)
LEMMA ValueSplits ==
    ASSUME NEW e \in {0, 2, 3}, NEW d, \A i \in 1..e : d[i] \in Int
    PROVE  /\ e = 0 => Value(d, e) = 0
           /\ e = 2 => Value(d, e) = 10 * d[1] + d[2]
           /\ e = 3 => Value(d, e) = 100 * d[1] + 10 * d[2] + d[3]
<1> DEFINE f == [i \in 1..e |-> d[i] * Factor[e - i]]
           Sum(k) == SumFunctionOnSet(f, 1..k)
<1>1. Value(d, e) = Sum(e)
  BY SumFunctionIsOnDomain DEF Value
<1>2. Sum(0) = 0
  <2>1. 1..0 = {}
    OBVIOUS
  <2> QED
    BY <2>1, SumEmpty
<1>3. \A i \in 1..e : f[i] \in Int
  <2>1. ASSUME NEW i \in 1..e PROVE d[i] * Factor[e - i] \in Int
    <3>1. e - i \in {0, 1, 2}
      OBVIOUS
    <3>2. Factor[e - i] \in Int
      BY <3>1, Factors
    <3> QED
      BY <3>2
  <2> QED
    BY <2>1
<1>4. ASSUME NEW k \in 0..(e - 1) PROVE Sum(k + 1) = f[k + 1] + Sum(k)
  <2>1. k \in Nat /\ \A i \in 1..(k + 1) : i \in 1..e
    OBVIOUS
  <2> HIDE DEF f
  <2> QED
    BY <1>3, <2>1, SumUpTo
<1>5. CASE e = 0
  BY <1>1, <1>2, <1>5
<1>6. CASE e = 2
  <2>1. f[1] = d[1] * Factor[2 - 1] /\ f[2] = d[2] * Factor[2 - 2]
    BY <1>6
  <2>2. d[1] \in Int /\ d[2] \in Int
    BY <1>6
  <2> HIDE DEF f, Sum
  <2>3. f[1] = 10 * d[1] /\ f[2] = d[2]
    BY <2>1, <2>2, Factors
  <2>4. Sum(0 + 1) = f[0 + 1] + Sum(0) /\ Sum(1 + 1) = f[1 + 1] + Sum(1)
    <3>1. 0 \in 0..(e - 1) /\ 1 \in 0..(e - 1)
      BY <1>6
    <3> QED
      BY <1>4, <3>1
  <2>5. Sum(1) = f[1] + Sum(0) /\ Sum(2) = f[2] + Sum(1)
    BY <2>4
  <2> QED
    BY <1>1, <1>2, <1>6, <2>2, <2>3, <2>5
<1>7. CASE e = 3
  <2>1. /\ f[1] = d[1] * Factor[3 - 1] /\ f[2] = d[2] * Factor[3 - 2]
        /\ f[3] = d[3] * Factor[3 - 3]
    BY <1>7
  <2>2. d[1] \in Int /\ d[2] \in Int /\ d[3] \in Int
    BY <1>7
  <2> HIDE DEF f, Sum
  <2>3. f[1] = 100 * d[1] /\ f[2] = 10 * d[2] /\ f[3] = d[3]
    BY <2>1, <2>2, Factors
  <2>4. /\ Sum(0 + 1) = f[0 + 1] + Sum(0) /\ Sum(1 + 1) = f[1 + 1] + Sum(1)
        /\ Sum(2 + 1) = f[2 + 1] + Sum(2)
    BY <1>4, <1>7
  <2>5. Sum(1) = f[1] + Sum(0) /\ Sum(2) = f[2] + Sum(1) /\ Sum(3) = f[3] + Sum(2)
    BY <2>4
  <2> QED
    BY <1>1, <1>2, <1>7, <2>2, <2>3, <2>5
<1> QED
  BY <1>5, <1>6, <1>7

(* A number below Factor[e] is the value of its digits.                    *)
LEMMA DigitsAddUp ==
    ASSUME NEW e \in {0, 2, 3}, NEW n \in Nat, n < Factor[e]
    PROVE  /\ \A i \in 1..e : Padded(n, e)[i] \in Int
           /\ Value(Padded(n, e), e) = n
<1> DEFINE d == Padded(n, e)
<1>1. ASSUME NEW i \in 1..e PROVE d[i] = (n \div Factor[e - i]) % 10
  BY DEF Padded
<1>2. ASSUME NEW i \in 1..e PROVE d[i] \in Int
  <2>1. e - i \in {0, 1, 2}
    OBVIOUS
  <2>2. Factor[e - i] \in {1, 10, 100}
    BY <2>1, Factors
  <2> QED
    BY <1>1, <2>2
<1>3. CASE e = 0
  BY <1>2, <1>3, Factors, ValueSplits
<1>4. CASE e = 2
  <2>1. d[1] = (n \div 10) % 10 /\ d[2] = (n \div 1) % 10
    <3>1. d[1] = (n \div Factor[2 - 1]) % 10 /\ d[2] = (n \div Factor[2 - 2]) % 10
      BY <1>1, <1>4
    <3> QED
      BY <3>1, Factors
  <2>2. n < 100
    BY <1>4, Factors
  <2>3. 10 * ((n \div 10) % 10) + ((n \div 1) % 10) = n
    BY <2>2
  <2>4. Value(d, e) = 10 * d[1] + d[2]
    <3> HIDE DEF d
    <3> QED
      BY <1>2, <1>4, ValueSplits
  <2> QED
    BY <1>2, <2>1, <2>3, <2>4
<1>5. CASE e = 3
  <2>1. d[1] = (n \div 100) % 10 /\ d[2] = (n \div 10) % 10 /\ d[3] = (n \div 1) % 10
    <3>1. /\ d[1] = (n \div Factor[3 - 1]) % 10 /\ d[2] = (n \div Factor[3 - 2]) % 10
          /\ d[3] = (n \div Factor[3 - 3]) % 10
      BY <1>1, <1>5
    <3> QED
      BY <3>1, Factors
  <2>2. n < 1000
    BY <1>5, Factors
  <2>3. 100 * ((n \div 100) % 10) + 10 * ((n \div 10) % 10) + ((n \div 1) % 10) = n
    <3>1. n \div 1 = n /\ n = 10 * (n \div 10) + (n % 10)
      OBVIOUS
    <3>2. PICK q \in Nat : q = n \div 10
      OBVIOUS
    <3>3. n \div 100 = q \div 10 /\ (n \div 100) % 10 = n \div 100
      BY <2>2, <3>2
    <3>4. q = 10 * (q \div 10) + (q % 10)
      OBVIOUS
    <3> QED
      BY <3>1, <3>2, <3>3, <3>4
  <2>4. Value(d, e) = 100 * d[1] + 10 * d[2] + d[3]
    <3> HIDE DEF d
    <3> QED
      BY <1>2, <1>5, ValueSplits
  <2> QED
    BY <1>2, <2>1, <2>3, <2>4
<1> QED
  BY <1>2, <1>3, <1>4, <1>5

LEMMA TextReadsBack ==
    ASSUME NEW amount \in Int, NEW e \in {0, 2, 3} PROVE ReadsBack(amount, e)
<1> DEFINE F == Factor[e]
           a == AbsOf(amount)
           whole == a \div F
           r == a % F
           frac == Padded(r, e)
           text == [neg |-> amount < 0, whole |-> whole, frac |-> frac]
<1>1. String(amount, e) = text
  BY DEF String
<1>2. F \in {1, 100, 1000}
  BY Factors
<1>3. a \in Nat /\ (IF amount < 0 THEN -a ELSE a) = amount
  BY DEF AbsOf
<1>4. r \in Nat /\ r < F /\ whole \in Nat /\ whole * F + r = a
  <2> HIDE DEF F, a
  <2>1. \A n \in Nat : n = 1 * (n \div 1) + (n % 1) /\ n % 1 \in 0..0 /\ n \div 1 \in Nat
    OBVIOUS
  <2>2. \A n \in Nat : /\ n = 100 * (n \div 100) + (n % 100)
                       /\ n % 100 \in 0..99 /\ n \div 100 \in Nat
    OBVIOUS
  <2>3. \A n \in Nat : /\ n = 1000 * (n \div 1000) + (n % 1000)
                       /\ n % 1000 \in 0..999 /\ n \div 1000 \in Nat
    OBVIOUS
  <2>4. CASE F = 1
    BY <1>3, <2>1, <2>4
  <2>5. CASE F = 100
    BY <1>3, <2>2, <2>5
  <2>6. CASE F = 1000
    BY <1>3, <2>3, <2>6
  <2> QED
    BY <1>2, <2>4, <2>5, <2>6
<1>5. (\A i \in 1..e : frac[i] \in Int) /\ Value(frac, e) = r
  <2> HIDE DEF r
  <2> QED
    BY <1>4, DigitsAddUp
<1>6. frac \in Seq(Int) /\ Len(frac) = e /\ DOMAIN frac = 1..e
  <2>1. frac = [i \in 1..e |-> frac[i]]
    BY DEF Padded
  <2> HIDE DEF frac
  <2>2. frac \in [1..e -> Int] /\ e \in Nat
    BY <1>5, <2>1
  <2> QED
    BY <2>2
<1>7. frac = [i \in 1..e |-> frac[i]]
  BY DEF Padded
<1> HIDE DEF F, a, whole, r, frac
(* A text with the same sign, whole part and filled digits is read so.     *)
<1>8. ASSUME NEW t, t.neg = text.neg, t.whole = whole, Filled(t.frac, e) = frac
      PROVE  Parse(t, e) = amount
  <2>1. Parse(t, e) = IF amount < 0 THEN -(whole * F + r) ELSE whole * F + r
    BY <1>5, <1>8 DEF Parse, F
  <2> QED
    BY <1>3, <1>4, <2>1
<1>9. Filled(text.frac, e) = frac
  BY <1>6, <1>7 DEF Filled
<1>10. Parse(text, e) = amount
  BY <1>8, <1>9
<1>11. ASSUME NEW k \in 0..e, \A i \in (k + 1)..e : text.frac[i] = 0
       PROVE  Parse([text EXCEPT !.frac = SubSeq(@, 1, k)], e) = amount
  <2> DEFINE s == SubSeq(frac, 1, k)
             t == [text EXCEPT !.frac = SubSeq(@, 1, k)]
  <2>1. t.neg = text.neg /\ t.whole = whole /\ t.frac = s
    OBVIOUS
  <2>2. Len(s) = k /\ \A i \in 1..k : s[i] = frac[i]
    BY <1>6
  <2>3. Filled(s, e) = frac
    <3>1. ASSUME NEW i \in 1..e PROVE (IF i <= k THEN s[i] ELSE 0) = frac[i]
      BY <1>11, <2>2
    <3> HIDE DEF s
    <3>2. Filled(s, e) = [i \in 1..e |-> IF i <= k THEN s[i] ELSE 0]
      BY <2>2 DEF Filled
    <3> QED
      BY <1>7, <3>1, <3>2
  <2> HIDE DEF s, t
  <2>4. Parse(t, e) = amount
    BY <1>8, <2>1, <2>3
  <2> QED
    BY <2>4 DEF t
<1>12. ParseFails([text EXCEPT !.frac = Append(@, 0)], e)
  <2>1. Len(Append(frac, 0)) = e + 1
    BY <1>6
  <2> QED
    BY <2>1 DEF ParseFails
<1>13. Len(text.frac) = e
  BY <1>6
<1> HIDE DEF text
<1> QED
  BY <1>1, <1>10, <1>11, <1>12, <1>13 DEF ReadsBack

(* Whatever the loan: what String writes of an amount of a schedule, and   *)
(* what is left of it without its last zeros, Parse reads as that amount.  *)
THEOREM StringsAlwaysParse == Spec => []StringParsesBack
<1>1. IInv => StringParsesBack
  BY AmountsType, TextReadsBack DEF StringParsesBack
<1> QED
  BY <1>1, InitIInv, StepIInv, PTL DEF Spec

-----------------------------------------------------------------------------
(* Payments that gain on the interest                                      *)

LEMMA ProductGrows ==
    ASSUME NEW a \in Int, NEW b \in Int, a <= b, NEW k \in Nat
    PROVE  a * k \in Int /\ b * k \in Int /\ a * k <= b * k
<1>1. PICK d \in Nat : d = b - a
  OBVIOUS
<1>2. d * k \in Nat /\ a * k \in Int /\ b * k \in Int
  OBVIOUS
<1>3. b * k = a * k + d * k
  BY <1>1
<1> QED
  BY <1>2, <1>3

(* What is larger is not rounded to less.                                  *)
LEMMA NearestEvenGrows ==
    ASSUME NEW den \in Nat \ {0}, NEW m \in Int, NEW n \in Int, m <= n,
           NEW x \in Int, NEW z \in Int,
           IsNearestEven(x, m, den), IsNearestEven(z, n, den)
    PROVE  x <= z
<1>1. PICK i \in Int, j \in Int : i = x * den /\ j = z * den
  OBVIOUS
<1>2. /\ 2 * (i - m) <= den /\ (2 * (i - m) = den => x % 2 = 0)
      /\ 2 * (n - j) <= den /\ (2 * (n - j) = den => z % 2 = 0)
  BY <1>1 DEF IsNearestEven, AbsOf
<1>3. x >= z + 1 => j + den <= i
  <2>1. (z + 1) * den = j + den
    BY <1>1
  <2> QED
    BY <1>1, <2>1, ProductGrows
<1>4. x >= z + 1 => /\ 2 * (i - m) = den /\ 2 * (n - j) = den
                    /\ i = j + den
  BY <1>1, <1>2, <1>3
<1>5. x >= z + 2 => j + den + den <= i
  <2>1. (z + 2) * den = j + den + den
    BY <1>1
  <2> QED
    BY <1>1, <2>1, ProductGrows
<1>6. x >= z + 1 => x = z + 1
  BY <1>1, <1>4, <1>5
<1>7. ~(x = z + 1 /\ x % 2 = 0 /\ z % 2 = 0)
  OBVIOUS
<1> QED
  BY <1>2, <1>4, <1>6, <1>7

(* The interest of a smaller amount is not more.                           *)
LEMMA InterestGrows ==
    ASSUME NEW a \in Int, NEW b \in Int, a <= b, NEW bps \in Nat
    PROVE  InterestForDays(a, bps, 30) <= InterestForDays(b, bps, 30)
<1>1. PICK m \in Int, n \in Int :
          m = a * bps * 30 /\ n = b * bps * 30 /\ m <= n
  <2>1. PICK i \in Int, j \in Int : i = a * bps /\ j = b * bps /\ i <= j
    BY ProductGrows
  <2> QED
    BY <2>1
<1>2. PICK x \in Int, z \in Int : /\ x = InterestForDays(a, bps, 30)
                                  /\ z = InterestForDays(b, bps, 30)
  BY InterestInt
<1>3. PICK den \in Nat \ {0} : den = 3650000
  BY SMT
<1>4. IsNearestEven(x, m, den) /\ IsNearestEven(z, n, den)
  <2>1. InterestIsRounded(a, bps, 30) /\ InterestIsRounded(b, bps, 30)
    BY RatesAreBankersRounding, SMT
  <2> QED
    BY <1>1, <1>2, <1>3, <2>1, SMT DEF InterestIsRounded
<1>5. x <= z
  BY <1>1, <1>2, <1>3, <1>4, NearestEvenGrows, SMT
<1> QED
  BY <1>2, <1>5, SMT

(* Every installment is the one of its balance, and if the payment covers  *)
(* the first month's interest no balance is above the principal.           *)
Gaining ==
    /\ \A i \in DOMAIN schedule :
          /\ schedule[i].interest = InterestForDays(BalanceBefore(i), loan.bps, 30)
          /\ i < loan.months =>
                 schedule[i].principal = Payment(loan) - schedule[i].interest
    /\ CoversInterest(loan) =>
          \A i \in DOMAIN schedule :
              /\ BalanceBefore(i) <= loan.principal
              /\ i < loan.months => schedule[i].principal > 0

LEMMA InitGaining == Init => Gaining
<1> SUFFICES ASSUME Init PROVE Gaining
  OBVIOUS
<1>1. DOMAIN schedule = {}
  BY DEF Init
<1> QED
  BY <1>1 DEF Gaining

LEMMA BalanceTypes ==
    ASSUME IInv
    PROVE  /\ \A i \in DOMAIN schedule :
                 /\ i \in Nat \ {0} /\ i <= loan.months
                 /\ schedule[i].principal \in Int /\ schedule[i].interest \in Int
                 /\ BalanceBefore(i) \in Int
                 /\ i > 1 => i - 1 \in DOMAIN schedule
           /\ loan \in Loan /\ loan.principal \in Nat \ {0} /\ loan.bps \in Nat
           /\ loan.months \in Nat \ {0} /\ Payment(loan) \in Int
<1> DEFINE Inst == [interest : Int, principal : Int, balance : Int]
<1>1. schedule \in Seq(Inst) /\ loan \in Loan /\ Len(schedule) <= loan.months
  BY DEF IInv, TypeOK
<1>2. PICK n \in Nat : n = Len(schedule) /\ DOMAIN schedule = 1..n
  BY <1>1
<1>3. /\ loan.principal \in Nat \ {0} /\ loan.bps \in Nat
      /\ loan.months \in Nat \ {0} /\ Payment(loan) \in Int
  BY <1>1, LoanType, PaymentInt
<1>4. \A x \in Inst : x.principal \in Int /\ x.interest \in Int /\ x.balance \in Int
  OBVIOUS
<1> HIDE DEF Inst
<1>5. \A i \in 1..n : schedule[i] \in Inst
  BY <1>1, <1>2
<1>6. ASSUME NEW i \in 1..n
      PROVE  /\ i \in Nat \ {0} /\ i <= loan.months
             /\ i > 1 => i - 1 \in 1..n
  BY <1>1, <1>2, <1>3
<1>7. ASSUME NEW i \in 1..n PROVE BalanceBefore(i) \in Int
  <2>1. i = 1 \/ i - 1 \in 1..n
    OBVIOUS
  <2> QED
    BY <1>3, <1>4, <1>5, <2>1 DEF BalanceBefore
<1> QED
  BY <1>1, <1>2, <1>3, <1>4, <1>5, <1>6, <1>7

(* A balance is the one before less the principal paid.                    *)
LEMMA BalanceFalls ==
    ASSUME IInv, NEW i \in DOMAIN schedule, i > 1
    PROVE  BalanceBefore(i) = BalanceBefore(i - 1) - schedule[i - 1].principal
<1>1. i - 1 \in DOMAIN schedule
  BY BalanceTypes
<1>2. schedule[i - 1].balance = BalanceBefore(i - 1) - schedule[i - 1].principal
  BY <1>1 DEF IInv, BalancesChain
<1>3. i # 1
  OBVIOUS
<1> QED
  BY <1>2, <1>3 DEF BalanceBefore

LEMMA StepGaining == IInv /\ Gaining /\ [Next]_vars => Gaining'
<1> SUFFICES ASSUME IInv, Gaining, [Next]_vars PROVE Gaining'
  OBVIOUS
<1>1. CASE Iterate
  <2>1. PICK n, inst : Iterated(n, inst)
    BY <1>1, IterateFacts
  <2>2. /\ n \in Nat /\ DOMAIN schedule = 1..n /\ DOMAIN schedule' = 1..(n + 1)
        /\ schedule'[n + 1] = inst /\ \A i \in 1..n : schedule'[i] = schedule[i]
        /\ loan' = loan /\ n = Len(schedule)
        /\ inst = Installment(loan, n + 1, balance)
    BY <2>1 DEF Iterated
  <2>3. PICK p, k : p = Payment(loan) /\ k = CoversInterest(loan)
    OBVIOUS
  <2>4. p = Payment(loan)' /\ k = CoversInterest(loan)'
    BY <2>2, <2>3 DEF Payment, CoversInterest
  <2>5. \A i \in 1..(n + 1) : BalanceBefore(i)' = BalanceBefore(i)
    <3> SUFFICES ASSUME NEW i \in 1..(n + 1)
                 PROVE  BalanceBefore(i)' = BalanceBefore(i)
      OBVIOUS
    <3>1. i = 1 \/ i - 1 \in 1..n
      BY <2>2
    <3> QED
      BY <2>2, <3>1 DEF BalanceBefore
  <2>6. BalanceBefore(n + 1) = balance /\ balance \in Int
    BY <2>2 DEF IInv, TypeOK, BalancesChain
  <2>7. /\ loan.principal \in Int /\ loan.bps \in Nat /\ loan.months \in Nat
        /\ p \in Int
    BY <2>3, BalanceTypes
  <2>8. PICK x \in Int : x = InterestForDays(balance, loan.bps, 30)
    BY <2>6, <2>7, InterestInt
  <2>9. inst.interest = x /\ (n + 1 < loan.months => inst.principal = p - x)
    BY <2>2, <2>3, <2>7, <2>8 DEF Installment, PrincipalPart
  <2>10. k => balance <= loan.principal
    <3>1. CASE n = 0
      BY <2>6, <2>7, <3>1 DEF BalanceBefore
    <3>2. CASE n > 0
      <4>1. n \in DOMAIN schedule /\ n + 1 # 1 /\ (n + 1) - 1 = n
        BY <2>2, <3>2
      <4>2. balance = BalanceBefore(n) - schedule[n].principal
        <5>1. schedule[n].balance = BalanceBefore(n) - schedule[n].principal
          BY <4>1 DEF IInv, BalancesChain
        <5> QED
          BY <2>6, <4>1, <5>1 DEF BalanceBefore
      <4>3. n < loan.months
        BY <2>1, <2>7 DEF Iterated
      <4>4. k => BalanceBefore(n) <= loan.principal /\ schedule[n].principal > 0
        BY <2>3, <4>1, <4>3 DEF Gaining
      <4>5. BalanceBefore(n) \in Int /\ schedule[n].principal \in Int
        BY <4>1, BalanceTypes
      <4> QED
        BY <2>7, <4>2, <4>4, <4>5
    <3> QED
      BY <2>2, <3>1, <3>2
  <2>11. k /\ n + 1 < loan.months => inst.principal > 0
    <3> SUFFICES ASSUME k, n + 1 < loan.months PROVE inst.principal > 0
      OBVIOUS
    <3>1. PICK y \in Int : y = InterestForDays(loan.principal, loan.bps, 30)
      BY <2>7, InterestInt
    <3>2. x <= y
      BY <2>6, <2>7, <2>8, <2>10, <3>1, InterestGrows
    <3>3. p > y
      BY <2>3, <3>1 DEF CoversInterest
    <3> QED
      BY <2>7, <2>8, <2>9, <3>1, <3>2, <3>3
  <2>12. ASSUME NEW i \in 1..(n + 1)
         PROVE  /\ schedule'[i].interest = InterestForDays(BalanceBefore(i), loan.bps, 30)
                /\ i < loan.months =>
                       schedule'[i].principal = p - schedule'[i].interest
                /\ k => /\ BalanceBefore(i) <= loan.principal
                        /\ i < loan.months => schedule'[i].principal > 0
    <3>1. CASE i \in 1..n
      BY <2>2, <2>3, <3>1 DEF Gaining
    <3>2. CASE i = n + 1
      BY <2>2, <2>6, <2>8, <2>9, <2>10, <2>11, <3>2
    <3> QED
      BY <2>2, <3>1, <3>2
  <2> QED
    BY <2>2, <2>4, <2>5, <2>12 DEF Gaining
<1>2. CASE UNCHANGED vars
  BY <1>2 DEF vars, Gaining, BalanceBefore, CoversInterest, Payment
<1> QED
  BY <1>1, <1>2 DEF Next

(* "Early installments are mostly interest on the large remaining balance; *)
(* later ones are mostly principal" (LoanView.tsx), for every loan whose   *)
(* payment covers the first month's interest and every such payment that   *)
(* the floating-point formula may give: interest never rises and every     *)
(* fixed payment pays back no less than the one before.                    *)
THEOREM PaymentsAlwaysGain == Spec => []PaymentsGain
<1>1. IInv /\ Gaining => PaymentsGain
  <2> SUFFICES ASSUME IInv, Gaining, CoversInterest(loan), NEW i \in DOMAIN schedule
               PROVE  /\ i < loan.months => schedule[i].principal > 0
                      /\ i > 1 => schedule[i].interest <= schedule[i - 1].interest
                      /\ 1 < i /\ i < loan.months =>
                             schedule[i].principal >= schedule[i - 1].principal
    BY DEF PaymentsGain
  <2>1. i < loan.months => schedule[i].principal > 0
    BY DEF Gaining
  <2>2. ASSUME i > 1
        PROVE  /\ schedule[i].interest <= schedule[i - 1].interest
               /\ i < loan.months =>
                      schedule[i].principal >= schedule[i - 1].principal
    <3>1. PICK j : j = i - 1 /\ j \in DOMAIN schedule /\ j < loan.months
      BY <2>2, BalanceTypes
    <3>2. /\ loan.bps \in Nat /\ loan.months \in Nat /\ Payment(loan) \in Int
          /\ schedule[i].interest \in Int /\ schedule[j].interest \in Int
          /\ schedule[j].principal \in Int
          /\ BalanceBefore(i) \in Int /\ BalanceBefore(j) \in Int
      BY <3>1, BalanceTypes
    <3>3. schedule[j].principal > 0
      BY <3>1 DEF Gaining
    <3>4. BalanceBefore(i) = BalanceBefore(j) - schedule[j].principal
      BY <2>2, <3>1, BalanceFalls
    <3>5. BalanceBefore(i) <= BalanceBefore(j)
      BY <3>2, <3>3, <3>4
    <3>6. InterestForDays(BalanceBefore(i), loan.bps, 30)
              <= InterestForDays(BalanceBefore(j), loan.bps, 30)
      BY <3>2, <3>5, InterestGrows
    <3>7. /\ schedule[i].interest = InterestForDays(BalanceBefore(i), loan.bps, 30)
          /\ schedule[j].interest = InterestForDays(BalanceBefore(j), loan.bps, 30)
          /\ schedule[j].principal = Payment(loan) - schedule[j].interest
          /\ i < loan.months =>
                 schedule[i].principal = Payment(loan) - schedule[i].interest
      BY <3>1 DEF Gaining
    <3> QED
      BY <3>1, <3>2, <3>6, <3>7
  <2> QED
    BY <2>1, <2>2
<1> QED
  BY <1>1, InitIInv, StepIInv, InitGaining, StepGaining, PTL DEF Spec

=============================================================================
