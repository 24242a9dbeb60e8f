-------------------------------- MODULE Loans --------------------------------
(***************************************************************************)
(* The loan service over Postgres (READ COMMITTED).  Repay reads the loan  *)
(* and its next installment before it locks the deposit account's row,     *)
(* then checks, posts and marks under that lock.  Tellers deposit and      *)
(* withdraw in one step, as MoneyMovement shows they may.                  *)
(***************************************************************************)
EXTENDS Integers, Sequences, FiniteSets, Functions

CONSTANTS
    Account,        \* deposit accounts
    Loan,           \* loans that may be taken out
    DepositOf,      \* loan -> the account it is paid into and repaid from
    Terms,          \* loan -> its installments, as Schedule builds them
    Request,        \* originations and repayments in flight together
    Cash, Receivable, Income,   \* the bank's GL accounts 1000, 1100 and 4000
    Teller,         \* amounts of deposits and withdrawals
    MaxCash         \* bound: no deposit is made once the bank holds this much

NoRequest == "nobody"

ASSUME LoansAssumption ==
    /\ IsFiniteSet(Loan)
    /\ NoRequest \notin Request
    /\ DepositOf \in [Loan -> Account]
    /\ \A l \in Loan :
          Terms[l] \in Seq([principal : Int, interest : Int]) \ {<<>>}
    /\ Teller \subseteq Nat \ {0}
    /\ MaxCash \in Nat
    /\ Cardinality({Cash, Receivable, Income}) = 3
    /\ {Cash, Receivable, Income} \cap Account = {}

VARIABLES
    balance,    \* GL account -> credits minus debits over committed lines
    frozen,     \* the accounts that are not active
    loan,       \* loan -> "none", "active" or "closed"
    paid,       \* loan -> numbers of its installments marked paid
    pc,         \* request -> where it is
    job,        \* request -> the loan it is about and the installment it read
    locked      \* account -> the request that has its row, or NoRequest

vars == <<balance, frozen, loan, paid, pc, job, locked>>

Gl == Account \cup {Cash, Receivable, Income}
NoJob == [loan |-> "none", inst |-> 0]

Numbers(l) == DOMAIN Terms[l]
Due(l) == Numbers(l) \ paid[l]

Principal(l) ==
    SumFunction([i \in Numbers(l) |-> Terms[l][i].principal])

(* ErrInvalidPrincipal.                                                    *)
ASSUME PrincipalAssumption == \A l \in Loan : Principal(l) > 0

(* What request r is about.                                                *)
LoanOf(r) == job[r].loan
Row(r) == DepositOf[LoanOf(r)]
Inst(r) == Terms[LoanOf(r)][job[r].inst]
Total(r) == Inst(r).principal + Inst(r).interest

-----------------------------------------------------------------------------
(* Rows and transactions                                                   *)

(* The transaction ends, by COMMIT or by ROLLBACK.                         *)
End(r) ==
    /\ pc' = [pc EXCEPT ![r] = "idle"]
    /\ job' = [job EXCEPT ![r] = NoJob]
    /\ locked' = [a \in Account |->
                     IF locked[a] = r THEN NoRequest ELSE locked[a]]

(* Mutant of Granted: GetAccountByID in the place of GetAccountForUpdate.  *)
GrantedToAll(a) == TRUE

(* SELECT ... FOR UPDATE returns once nobody else has the row.             *)
Granted(a) == locked[a] = NoRequest

(* Mutant of LinesAccepted: the CHECK admits a line of zero.               *)
LinesAcceptedZero(r) == Inst(r).principal >= 0 /\ Inst(r).interest >= 0

(* CHECK (amount_minor > 0) on journal_line.                               *)
LinesAccepted(r) == Inst(r).principal > 0 /\ Inst(r).interest > 0

-----------------------------------------------------------------------------
(* Originate                                                               *)

(* A fresh loan, and an account that turns out to be active.               *)
LockForLoan(r, l) ==
    /\ pc[r] = "idle"
    /\ loan[l] = "none"
    /\ \A q \in Request : pc[q] = "disburse" => LoanOf(q) # l
    /\ Granted(DepositOf[l])
    /\ DepositOf[l] \notin frozen
    /\ pc' = [pc EXCEPT ![r] = "disburse"]
    /\ job' = [job EXCEPT ![r] = [loan |-> l, inst |-> 0]]
    /\ locked' = [locked EXCEPT ![DepositOf[l]] = r]
    /\ UNCHANGED <<balance, frozen, loan, paid>>

(* The loan, its installments and the posting, at the COMMIT.              *)
Disburse(r) ==
    /\ pc[r] = "disburse"
    /\ loan' = [loan EXCEPT ![LoanOf(r)] = "active"]
    /\ balance' = [balance EXCEPT ![Receivable] = @ - Principal(LoanOf(r)),
                                  ![Row(r)] = @ + Principal(LoanOf(r))]
    /\ End(r)
    /\ UNCHANGED <<frozen, paid>>

-----------------------------------------------------------------------------
(* Repay                                                                   *)

ReadLoan(r, l) ==
    /\ pc[r] = "idle"
    /\ loan[l] = "active"
    /\ pc' = [pc EXCEPT ![r] = "next"]
    /\ job' = [job EXCEPT ![r] = [loan |-> l, inst |-> 0]]
    /\ UNCHANGED <<balance, frozen, loan, paid, locked>>

(* Mutant of NextDue: the ORDER BY installment_no is descending.           *)
LastDue(l) == CHOOSE i \in Due(l) : \A j \in Due(l) : j <= i

NextDue(l) == CHOOSE i \in Due(l) : \A j \in Due(l) : i <= j

(* No lock is held yet.                                                    *)
ReadNextDue(r) ==
    /\ pc[r] = "next"
    /\ Due(LoanOf(r)) # {}
    /\ job' = [job EXCEPT ![r].inst = NextDue(LoanOf(r))]
    /\ pc' = [pc EXCEPT ![r] = "lock"]
    /\ UNCHANGED <<balance, frozen, loan, paid, locked>>

NothingDue(r) ==
    /\ pc[r] = "next"
    /\ Due(LoanOf(r)) = {}
    /\ End(r)
    /\ UNCHANGED <<balance, frozen, loan, paid>>

LockRow(r) ==
    /\ pc[r] = "lock"
    /\ Granted(Row(r))
    /\ Row(r) \notin frozen
    /\ locked' = [locked EXCEPT ![Row(r)] = r]
    /\ pc' = [pc EXCEPT ![r] = "check"]
    /\ UNCHANGED <<balance, frozen, loan, paid, job>>

RefuseRow(r) ==
    /\ pc[r] = "lock"
    /\ Granted(Row(r))
    /\ Row(r) \in frozen
    /\ End(r)
    /\ UNCHANGED <<balance, frozen, loan, paid>>

Check(r) ==
    /\ pc[r] = "check"
    /\ balance[Row(r)] >= Total(r)
    /\ pc' = [pc EXCEPT ![r] = "post"]
    /\ UNCHANGED <<balance, frozen, loan, paid, job, locked>>

RefuseFunds(r) ==
    /\ pc[r] = "check"
    /\ balance[Row(r)] < Total(r)
    /\ End(r)
    /\ UNCHANGED <<balance, frozen, loan, paid>>

(* A line of zero is refused by the database and the whole transaction     *)
(* with it.                                                                *)
RefuseLines(r) ==
    /\ pc[r] = "post"
    /\ ~LinesAccepted(r)
    /\ End(r)
    /\ UNCHANGED <<balance, frozen, loan, paid>>

(* Mutant of Repaid: the legs of principal and interest are swapped.       *)
RepaidSwapped(r) ==
    [balance EXCEPT ![Row(r)] = @ - Total(r),
                    ![Receivable] = @ + Inst(r).interest,
                    ![Income] = @ + Inst(r).principal]

(* The three lines of repaymentRule.                                       *)
Repaid(r) ==
    [balance EXCEPT ![Row(r)] = @ - Total(r),
                    ![Receivable] = @ + Inst(r).principal,
                    ![Income] = @ + Inst(r).interest]

(* Mutant of NoneLeft: the installment is not yet marked when they are     *)
(* counted.                                                                *)
NoneLeftBefore(r) == Due(LoanOf(r)) = {}

(* CountDueInstallments after MarkInstallmentPaid is zero.                 *)
NoneLeft(r) == Due(LoanOf(r)) \ {job[r].inst} = {}

(* Post, MarkInstallmentPaid, CountDueInstallments and UpdateLoanStatus:   *)
(* the row lock keeps other requests off this loan, and nobody sees any of *)
(* it before the COMMIT.                                                   *)
Repay(r) ==
    /\ pc[r] = "post"
    /\ LinesAccepted(r)
    /\ balance' = Repaid(r)
    /\ paid' = [paid EXCEPT ![LoanOf(r)] = @ \cup {job[r].inst}]
    /\ loan' = [loan EXCEPT ![LoanOf(r)] = IF NoneLeft(r) THEN "closed" ELSE @]
    /\ End(r)
    /\ UNCHANGED frozen

(* The client gives up, a statement fails or the server stops.             *)
Rollback(r) ==
    /\ pc[r] # "idle"
    /\ End(r)
    /\ UNCHANGED <<balance, frozen, loan, paid>>

-----------------------------------------------------------------------------
(* Deposits, withdrawals and changes of status by others                   *)

Deposit(a, n) ==
    /\ Granted(a)
    /\ a \notin frozen
    /\ -balance[Cash] + n <= MaxCash
    /\ balance' = [balance EXCEPT ![Cash] = @ - n, ![a] = @ + n]
    /\ UNCHANGED <<frozen, loan, paid, pc, job, locked>>

Withdraw(a, n) ==
    /\ Granted(a)
    /\ a \notin frozen
    /\ balance[a] >= n
    /\ balance' = [balance EXCEPT ![Cash] = @ + n, ![a] = @ - n]
    /\ UNCHANGED <<frozen, loan, paid, pc, job, locked>>

(* Freeze and Unfreeze wait for the row like everybody else.               *)
SetFrozen(a) ==
    /\ Granted(a)
    /\ frozen' \in {frozen \cup {a}, frozen \ {a}}
    /\ UNCHANGED <<balance, loan, paid, pc, job, locked>>

-----------------------------------------------------------------------------
Init ==
    /\ balance = [g \in Gl |-> 0]
    /\ frozen = {}
    /\ loan = [l \in Loan |-> "none"]
    /\ paid = [l \in Loan |-> {}]
    /\ pc = [r \in Request |-> "idle"]
    /\ job = [r \in Request |-> NoJob]
    /\ locked = [a \in Account |-> NoRequest]

Next ==
    \/ \E r \in Request :
          \/ \E l \in Loan : LockForLoan(r, l) \/ ReadLoan(r, l)
          \/ Disburse(r)
          \/ ReadNextDue(r) \/ NothingDue(r)
          \/ LockRow(r) \/ RefuseRow(r)
          \/ Check(r) \/ RefuseFunds(r)
          \/ RefuseLines(r) \/ Repay(r)
          \/ Rollback(r)
    \/ \E a \in Account :
          \/ \E n \in Teller : Deposit(a, n) \/ Withdraw(a, n)
          \/ SetFrozen(a)

Spec == Init /\ [][Next]_vars

-----------------------------------------------------------------------------
(* Properties                                                              *)

(* What the bank still has to get back, by the installments marked due.    *)
Outstanding(l) ==
    IF loan[l] = "none" THEN 0
    ELSE Principal(l)
         - SumFunction([i \in paid[l] |-> Terms[l][i].principal])

OutstandingAll == SumFunction([l \in Loan |-> Outstanding(l)])

(* A repayment never takes the deposit account below zero, although it     *)
(* competes with withdrawals and with other repayments.                    *)
NoOverdraft == \A a \in Account : balance[a] >= 0

(* A loan is closed exactly when its last installment is marked paid, and  *)
(* installments are marked in the order of their numbers, although each    *)
(* repayment chose its installment before it had the lock.                 *)
ClosedIffPaid ==
    \A l \in Loan :
        /\ loan[l] = "closed" <=> loan[l] # "none" /\ Due(l) = {}
        /\ \A i \in paid[l], j \in Due(l) : i < j

(* Every installment marked paid was paid for: the receivable is never     *)
(* more than the installments still due.                                   *)
MarkedIsPaidFor == -balance[Receivable] <= OutstandingAll

(* "repayment with zero interest still posts a zero-amount income line"    *)
(* (rules_test.go), which the database refuses: an installment with a part *)
(* that is not positive is never paid, nor is any after it, the loan is    *)
(* never closed, and its client owes the rest however often they repay.    *)
Unpayable(l) ==
    {i \in Numbers(l) : Terms[l][i].principal <= 0 \/ Terms[l][i].interest <= 0}

UnpayableStopsLoan ==
    \A l \in Loan : \A i \in Unpayable(l) :
        /\ loan[l] # "closed"
        /\ \A j \in paid[l] : j < i

(* "Pay the next due installment out of the loan's deposit account"        *)
(* (api/openapi.yaml): what a repayment pays was due until then.           *)
PaysWhatIsDue ==
    [][balance'[Receivable] > balance[Receivable] =>
          \E l \in Loan : paid'[l] # paid[l]]_vars

=============================================================================
