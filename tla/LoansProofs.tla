----------------------------- MODULE LoansProofs -----------------------------
(***************************************************************************)
(* Proofs about Loans, for any accounts, loans, terms, requests and        *)
(* amounts: deposit accounts are not overdrawn, a loan is closed when it   *)
(* is paid, and what is marked paid was paid for.                          *)
(***************************************************************************)
EXTENDS Loans, ArithmeticProofs

TypeOK ==
    /\ balance \in [Gl -> Int]
    /\ frozen \subseteq Account
    /\ loan \in [Loan -> {"none", "active", "closed"}]
    /\ paid \in [Loan -> SUBSET Nat]
    /\ \A l \in Loan : paid[l] \subseteq Numbers(l)
    /\ pc \in [Request -> {"idle", "disburse", "next", "lock", "check", "post"}]
    /\ job \in [Request -> [loan : Loan \cup {"none"}, inst : Nat]]
    /\ locked \in [Account -> Request \cup {NoRequest}]
    /\ \A r \in Request : pc[r] # "idle" => LoanOf(r) \in Loan

(* The installment that a repayment read is still the first of those due,  *)
(* or has been paid by another one meanwhile.                              *)
Chosen(r) ==
    pc[r] \in {"lock", "check", "post"} =>
        /\ job[r].inst \in Numbers(LoanOf(r))
        /\ \A i \in Due(LoanOf(r)) : job[r].inst <= i

(* Only one request takes out a loan, and before anyone repays it.         *)
Originates(r) ==
    /\ pc[r] \in {"next", "lock", "check", "post"} => loan[LoanOf(r)] # "none"
    /\ pc[r] = "disburse" =>
          /\ loan[LoanOf(r)] = "none"
          /\ \A q \in Request : pc[q] = "disburse" /\ LoanOf(q) = LoanOf(r) => q = r

(* A request that has the row of the deposit account has it alone, and     *)
(* what it found there is there until it posts.                            *)
HasRow(r) == pc[r] \in {"disburse", "check", "post"} => locked[Row(r)] = r
HasFunds(r) == pc[r] = "post" => balance[Row(r)] >= Total(r)

RequestsGood ==
    \A r \in Request : Chosen(r) /\ Originates(r) /\ HasRow(r) /\ HasFunds(r)

NothingPaidBefore == \A l \in Loan : loan[l] = "none" => paid[l] = {}

(* The inductive invariant.                                                *)
IInv ==
    /\ TypeOK
    /\ RequestsGood
    /\ NothingPaidBefore
    /\ NoOverdraft
    /\ ClosedIffPaid

-----------------------------------------------------------------------------
(* The constants                                                           *)

LEMMA BankAccounts ==
    /\ Cash # Receivable /\ Cash # Income /\ Receivable # Income
    /\ Cash \notin Account /\ Receivable \notin Account /\ Income \notin Account
<1>1. Cardinality({Cash, Receivable, Income}) = 3
  BY LoansAssumption
<1>2. ASSUME NEW x, NEW y PROVE Cardinality({x, y}) # 3
  <2>1. IsFiniteSet({x}) /\ Cardinality({x}) = 1 /\ {x} \cup {y} = {x, y}
    BY FS_Singleton
  <2>2. Cardinality({x} \cup {y}) = IF y \in {x} THEN 1 ELSE 2
    BY <2>1, FS_AddElement
  <2> QED
    BY <2>1, <2>2
<1>3. ASSUME NEW x, NEW y, {Cash, Receivable, Income} = {x, y} PROVE FALSE
  BY <1>1, <1>2, <1>3
<1>4. Cash # Receivable
  BY <1>3
<1>5. Cash # Income
  BY <1>3
<1>6. Receivable # Income
  BY <1>3
<1> QED
  BY <1>4, <1>5, <1>6, LoansAssumption

LEMMA LoanFacts ==
    ASSUME NEW l \in Loan
    PROVE  /\ DepositOf[l] \in Account
           /\ Numbers(l) \subseteq Nat \ {0} /\ Numbers(l) # {}
           /\ IsFiniteSet(Numbers(l))
           /\ \A i \in Numbers(l) : /\ Terms[l][i].principal \in Int
                                    /\ Terms[l][i].interest \in Int
           /\ Principal(l) \in Int /\ Principal(l) > 0
<1>1. Terms[l] \in Seq([principal : Int, interest : Int]) \ {<<>>}
  BY LoansAssumption
<1>2. /\ Numbers(l) = 1..Len(Terms[l]) /\ Len(Terms[l]) \in Nat \ {0}
      /\ \A i \in Numbers(l) : /\ Terms[l][i].principal \in Int
                               /\ Terms[l][i].interest \in Int
  <2> DEFINE t == Terms[l]
             R == [principal : Int, interest : Int]
  <2>1. t \in Seq(R) /\ t # <<>>
    BY <1>1
  <2>2. \A x \in R : x.principal \in Int /\ x.interest \in Int
    OBVIOUS
  <2> HIDE DEF t, R
  <2>3. DOMAIN t = 1..Len(t) /\ Len(t) \in Nat \ {0} /\ \A i \in DOMAIN t : t[i] \in R
    BY <2>1
  <2>4. \A i \in DOMAIN t : t[i].principal \in Int /\ t[i].interest \in Int
    BY <2>2, <2>3
  <2> QED
    BY <2>3, <2>4 DEF t, Numbers
<1>3. IsFiniteSet(Numbers(l))
  BY <1>2, FS_Interval
<1> DEFINE p == [i \in Numbers(l) |-> Terms[l][i].principal]
<1>4. SumFunctionOnSet(p, Numbers(l)) \in Int
  <2>1. \A i \in Numbers(l) : p[i] \in Int
    BY <1>2
  <2> HIDE DEF p
  <2> QED
    BY <1>3, <2>1, SumType
<1>5. Principal(l) = SumFunctionOnSet(p, Numbers(l))
  <2>1. DOMAIN p = Numbers(l)
    OBVIOUS
  <2> QED
    BY <2>1, SumFunctionIsOnDomain, Zenon DEF Principal
<1>6. DepositOf[l] \in Account /\ Principal(l) > 0
  BY LoansAssumption, PrincipalAssumption
<1>7. Numbers(l) \subseteq Nat \ {0} /\ Numbers(l) # {}
  <2>1. ASSUME NEW n \in Nat \ {0} PROVE 1..n \subseteq Nat \ {0} /\ 1 \in 1..n
    OBVIOUS
  <2> QED
    BY <1>2, <2>1
<1>8. Principal(l) \in Int
  BY <1>4, <1>5, Zenon
<1> QED
  BY <1>2, <1>3, <1>6, <1>7, <1>8, Zenon

(* What a request that is under way is about.                              *)
LEMMA RequestFacts ==
    ASSUME TypeOK, NEW r \in Request, pc[r] # "idle"
    PROVE  /\ LoanOf(r) \in Loan /\ Row(r) \in Account /\ Row(r) \in Gl
           /\ job[r].inst \in Numbers(LoanOf(r)) =>
                 /\ Inst(r).principal \in Int /\ Inst(r).interest \in Int
                 /\ Total(r) \in Int
                 /\ LinesAccepted(r) => Total(r) > 0
<1>1. LoanOf(r) \in Loan
  BY DEF TypeOK
<1>2. Row(r) \in Account /\ Row(r) \in Gl
  BY <1>1, LoanFacts DEF Row, Gl
<1>3. job[r].inst \in Numbers(LoanOf(r)) =>
          Inst(r).principal \in Int /\ Inst(r).interest \in Int
  BY <1>1, LoanFacts DEF Inst
<1> QED
  BY <1>1, <1>2, <1>3 DEF Total, LinesAccepted

-----------------------------------------------------------------------------
(* The end of a transaction                                                *)

LEMMA EndFacts ==
    ASSUME TypeOK, NEW r \in Request, End(r)
    PROVE  /\ pc' \in [Request -> {"idle", "disburse", "next", "lock", "check", "post"}]
           /\ job' \in [Request -> [loan : Loan \cup {"none"}, inst : Nat]]
           /\ locked' \in [Account -> Request \cup {NoRequest}]
           /\ pc'[r] = "idle"
           /\ \A q \in Request : pc'[q] # "idle" =>
                 q # r /\ pc'[q] = pc[q] /\ job'[q] = job[q]
           /\ \A a \in Account : locked[a] # r => locked'[a] = locked[a]
           /\ \A q \in Request : pc'[q] # "idle" => LoanOf(q)' \in Loan
<1>1. /\ pc' = [pc EXCEPT ![r] = "idle"] /\ job' = [job EXCEPT ![r] = NoJob]
      /\ locked' = [a \in Account |-> IF locked[a] = r THEN NoRequest ELSE locked[a]]
  BY DEF End
<1>2. /\ pc' \in [Request -> {"idle", "disburse", "next", "lock", "check", "post"}]
      /\ job' \in [Request -> [loan : Loan \cup {"none"}, inst : Nat]]
      /\ locked' \in [Account -> Request \cup {NoRequest}]
  BY <1>1 DEF TypeOK, NoJob
<1>3. /\ pc'[r] = "idle"
      /\ \A q \in Request : pc'[q] # "idle" =>
            q # r /\ pc'[q] = pc[q] /\ job'[q] = job[q]
      /\ \A a \in Account : locked[a] # r => locked'[a] = locked[a]
  BY <1>1 DEF TypeOK
<1> QED
  BY <1>2, <1>3 DEF TypeOK, LoanOf

(* What a request knows does not change as long as it does not move, the   *)
(* rows it has stay its own, and the loans and the funds are as before.    *)
LEMMA StaysGood ==
    ASSUME RequestsGood, TypeOK, NEW q \in Request, pc'[q] # "idle",
           pc'[q] = pc[q], job'[q] = job[q], UNCHANGED <<loan, paid>>,
           HasRow(q)', HasFunds(q)',
           \A p \in Request : pc'[p] = "disburse" =>
               pc[p] = "disburse" /\ job'[p] = job[p]
    PROVE  Chosen(q)' /\ Originates(q)' /\ HasRow(q)' /\ HasFunds(q)'
<1>1. LoanOf(q)' = LoanOf(q)
  BY DEF LoanOf
<1>2. Chosen(q)'
  BY <1>1 DEF RequestsGood, Chosen, Due, Numbers
<1>3. Originates(q)'
  BY <1>1 DEF RequestsGood, Originates, LoanOf
<1> QED
  BY <1>2, <1>3

(* A transaction that ends without having changed anything.                *)
LEMMA EndKeeps ==
    ASSUME IInv, NEW r \in Request, End(r), UNCHANGED <<balance, frozen, loan, paid>>
    PROVE  IInv'
<1> USE DEF IInv
<1>1. TypeOK'
  BY EndFacts DEF TypeOK, Numbers
<1>2. ASSUME NEW q \in Request
      PROVE  Chosen(q)' /\ Originates(q)' /\ HasRow(q)' /\ HasFunds(q)'
  <2>1. CASE pc'[q] = "idle"
    BY <2>1 DEF Chosen, Originates, HasRow, HasFunds
  <2>2. CASE pc'[q] # "idle"
    <3>1. q # r /\ pc'[q] = pc[q] /\ job'[q] = job[q]
      BY <2>2, EndFacts
    <3>2. Row(q)' = Row(q) /\ Row(q) \in Account /\ Total(q)' = Total(q)
      BY <2>2, <3>1, RequestFacts DEF Row, LoanOf, Total, Inst
    <3>3. HasRow(q)'
      BY <3>1, <3>2, EndFacts DEF RequestsGood, HasRow
    <3>4. HasFunds(q)'
      BY <3>1, <3>2 DEF RequestsGood, HasFunds
    <3>5. \A p \in Request : pc'[p] = "disburse" =>
              pc[p] = "disburse" /\ job'[p] = job[p]
      BY EndFacts
    <3> QED
      BY <2>2, <3>1, <3>3, <3>4, <3>5, StaysGood
  <2> QED
    BY <2>1, <2>2
<1>3. NothingPaidBefore' /\ NoOverdraft' /\ ClosedIffPaid'
  BY DEF NothingPaidBefore, NoOverdraft, ClosedIffPaid, Due, Numbers
<1> QED
  BY <1>1, <1>2, <1>3 DEF RequestsGood

-----------------------------------------------------------------------------
(* The steps that open, read and lock                                      *)

LEMMA RowStays ==
    ASSUME IInv, NEW q \in Request, pc'[q] # "idle",
           pc'[q] = pc[q], job'[q] = job[q],
           pc[q] \in {"disburse", "check", "post"} => locked'[Row(q)] = locked[Row(q)],
           pc[q] = "post" => balance'[Row(q)] = balance[Row(q)]
    PROVE  HasRow(q)' /\ HasFunds(q)'
<1>1. Row(q)' = Row(q) /\ Total(q)' = Total(q)
  BY DEF Row, LoanOf, Total, Inst
<1> QED
  BY <1>1 DEF IInv, RequestsGood, HasRow, HasFunds

LEMMA LoansStay ==
    ASSUME IInv, UNCHANGED <<loan, paid>>
    PROVE  NothingPaidBefore' /\ ClosedIffPaid'
BY DEF IInv, NothingPaidBefore, ClosedIffPaid, Due, Numbers

LEMMA LockForLoanKeeps ==
    ASSUME IInv, NEW r \in Request, NEW l \in Loan, LockForLoan(r, l) PROVE IInv'
<1> USE DEF IInv
<1>1. /\ pc' = [pc EXCEPT ![r] = "disburse"]
      /\ job' = [job EXCEPT ![r] = [loan |-> l, inst |-> 0]]
      /\ locked' = [locked EXCEPT ![DepositOf[l]] = r]
      /\ UNCHANGED <<balance, frozen, loan, paid>>
      /\ loan[l] = "none" /\ locked[DepositOf[l]] = NoRequest
      /\ \A q \in Request : pc[q] = "disburse" => LoanOf(q) # l
  BY DEF LockForLoan, Granted
<1>2. DepositOf[l] \in Account /\ NoRequest \notin Request
  BY LoanFacts, LoansAssumption
<1>3. /\ pc'[r] = "disburse" /\ job'[r].loan = l /\ locked'[DepositOf[l]] = r
      /\ \A q \in Request \ {r} : pc'[q] = pc[q] /\ job'[q] = job[q]
      /\ \A a \in Account \ {DepositOf[l]} : locked'[a] = locked[a]
  BY <1>1, <1>2 DEF TypeOK
<1>4. TypeOK'
  <2>1. /\ pc' \in [Request -> {"idle", "disburse", "next", "lock", "check", "post"}]
        /\ job' \in [Request -> [loan : Loan \cup {"none"}, inst : Nat]]
        /\ locked' \in [Account -> Request \cup {NoRequest}]
    BY <1>1 DEF TypeOK
  <2>2. \A q \in Request : pc'[q] # "idle" => LoanOf(q)' \in Loan
    BY <1>3 DEF TypeOK, LoanOf
  <2> QED
    BY <1>1, <2>1, <2>2 DEF TypeOK, Numbers
<1>5. Chosen(r)' /\ Originates(r)' /\ HasRow(r)' /\ HasFunds(r)'
  <2>1. LoanOf(r)' = l /\ Row(r)' = DepositOf[l]
    BY <1>3 DEF Row, LoanOf
  <2>2. Originates(r)'
    <3>1. \A q \in Request : pc'[q] = "disburse" /\ LoanOf(q)' = l => q = r
      BY <1>1, <1>3 DEF LoanOf
    <3> QED
      BY <1>1, <1>3, <2>1, <3>1 DEF Originates
  <2> QED
    BY <1>3, <2>1, <2>2 DEF Chosen, HasRow, HasFunds
<1>6. ASSUME NEW q \in Request \ {r}
      PROVE  Chosen(q)' /\ Originates(q)' /\ HasRow(q)' /\ HasFunds(q)'
  <2>1. CASE pc'[q] = "idle"
    BY <2>1 DEF Chosen, Originates, HasRow, HasFunds
  <2>2. CASE pc'[q] # "idle"
    <3>1. pc'[q] = pc[q] /\ job'[q] = job[q] /\ LoanOf(q)' = LoanOf(q)
      BY <1>3 DEF LoanOf
    <3>2. Chosen(q)'
      BY <1>1, <3>1 DEF RequestsGood, Chosen, Due, Numbers
    <3>3. Originates(q)'
      <4>1. \A p \in Request : pc'[p] = "disburse" /\ LoanOf(p)' = LoanOf(q)'
                                   /\ pc[q] = "disburse" => p = q
        BY <1>1, <1>3, <3>1 DEF RequestsGood, Originates, LoanOf
      <4> QED
        BY <1>1, <3>1, <4>1 DEF RequestsGood, Originates
    <3>4. pc[q] \in {"disburse", "check", "post"} => locked'[Row(q)] = locked[Row(q)]
      <4>1. Row(q) \in Account
        BY <2>2, <3>1, RequestFacts
      <4> QED
        BY <1>1, <1>2, <1>3, <4>1 DEF RequestsGood, HasRow
    <3> QED
      BY <1>1, <2>2, <3>1, <3>2, <3>3, <3>4, RowStays
  <2> QED
    BY <2>1, <2>2
<1> QED
  BY <1>1, <1>4, <1>5, <1>6, LoansStay DEF RequestsGood, NoOverdraft

(* A request moves on, with the loans as they were.                        *)
LEMMA MovesOn ==
    ASSUME IInv, NEW r \in Request, UNCHANGED <<loan, paid>>, TypeOK', NoOverdraft',
           pc'[r] # "disburse",
           Chosen(r)', Originates(r)', HasRow(r)', HasFunds(r)',
           \A q \in Request \ {r} :
               /\ pc'[q] = pc[q] /\ job'[q] = job[q]
               /\ pc[q] \in {"disburse", "check", "post"} =>
                     locked'[Row(q)] = locked[Row(q)]
               /\ pc[q] = "post" => balance'[Row(q)] = balance[Row(q)]
    PROVE  IInv'
<1> USE DEF IInv
<1>1. ASSUME NEW q \in Request \ {r}
      PROVE  Chosen(q)' /\ Originates(q)' /\ HasRow(q)' /\ HasFunds(q)'
  <2>1. CASE pc'[q] = "idle"
    BY <2>1 DEF Chosen, Originates, HasRow, HasFunds
  <2>2. CASE pc'[q] # "idle"
    <3>1. HasRow(q)' /\ HasFunds(q)'
      BY <2>2, RowStays
    <3>2. \A p \in Request : pc'[p] = "disburse" => pc[p] = "disburse" /\ job'[p] = job[p]
      OBVIOUS
    <3> QED
      BY <2>2, <3>1, <3>2, StaysGood
  <2> QED
    BY <2>1, <2>2
<1> QED
  BY <1>1, LoansStay DEF RequestsGood

LEMMA ReadLoanKeeps ==
    ASSUME IInv, NEW r \in Request, NEW l \in Loan, ReadLoan(r, l) PROVE IInv'
<1> USE DEF IInv
<1>1. /\ pc' = [pc EXCEPT ![r] = "next"]
      /\ job' = [job EXCEPT ![r] = [loan |-> l, inst |-> 0]]
      /\ UNCHANGED <<balance, frozen, loan, paid, locked>>
      /\ loan[l] = "active"
  BY DEF ReadLoan
<1>2. /\ pc'[r] = "next" /\ job'[r].loan = l
      /\ \A q \in Request \ {r} : pc'[q] = pc[q] /\ job'[q] = job[q]
  BY <1>1 DEF TypeOK
<1>3. TypeOK'
  <2>1. /\ pc' \in [Request -> {"idle", "disburse", "next", "lock", "check", "post"}]
        /\ job' \in [Request -> [loan : Loan \cup {"none"}, inst : Nat]]
    BY <1>1 DEF TypeOK
  <2>2. \A q \in Request : pc'[q] # "idle" => LoanOf(q)' \in Loan
    BY <1>2 DEF TypeOK, LoanOf
  <2> QED
    BY <1>1, <2>1, <2>2 DEF TypeOK, Numbers
<1>4. Chosen(r)' /\ Originates(r)' /\ HasRow(r)' /\ HasFunds(r)'
  BY <1>1, <1>2 DEF Chosen, Originates, HasRow, HasFunds, LoanOf
<1> QED
  BY <1>1, <1>2, <1>3, <1>4, MovesOn DEF NoOverdraft

(* ORDER BY installment_no LIMIT 1.                                        *)
LEMMA NextDueIsFirst ==
    ASSUME TypeOK, NEW l \in Loan, Due(l) # {}
    PROVE  NextDue(l) \in Due(l) /\ \A i \in Due(l) : NextDue(l) <= i
<1>1. Due(l) \subseteq Nat
  BY LoanFacts DEF Due
<1> QED
  BY <1>1, LeastNatural DEF NextDue

LEMMA ReadNextDueKeeps ==
    ASSUME IInv, NEW r \in Request, ReadNextDue(r) PROVE IInv'
<1> USE DEF IInv
<1> DEFINE l == LoanOf(r)
<1>1. /\ pc' = [pc EXCEPT ![r] = "lock"]
      /\ job' = [job EXCEPT ![r].inst = NextDue(l)]
      /\ UNCHANGED <<balance, frozen, loan, paid, locked>>
      /\ pc[r] = "next" /\ Due(l) # {}
  BY DEF ReadNextDue
<1>2. l \in Loan
  BY <1>1, RequestFacts
<1>3. /\ NextDue(l) \in Due(l) /\ NextDue(l) \in Numbers(l) /\ NextDue(l) \in Nat
      /\ \A i \in Due(l) : NextDue(l) <= i
  BY <1>1, <1>2, NextDueIsFirst, LoanFacts DEF Due
<1>4. /\ pc'[r] = "lock" /\ job'[r].loan = l /\ job'[r].inst = NextDue(l)
      /\ \A q \in Request \ {r} : pc'[q] = pc[q] /\ job'[q] = job[q]
  BY <1>1 DEF TypeOK, LoanOf
<1>5. TypeOK'
  <2>1. /\ pc' \in [Request -> {"idle", "disburse", "next", "lock", "check", "post"}]
        /\ job' \in [Request -> [loan : Loan \cup {"none"}, inst : Nat]]
    BY <1>1, <1>3 DEF TypeOK
  <2>2. \A q \in Request : pc'[q] # "idle" => LoanOf(q)' \in Loan
    BY <1>2, <1>4 DEF TypeOK, LoanOf
  <2> QED
    BY <1>1, <2>1, <2>2 DEF TypeOK, Numbers
<1>6. LoanOf(r)' = l /\ Due(l)' = Due(l) /\ Numbers(l)' = Numbers(l)
  BY <1>1, <1>4 DEF LoanOf, Due, Numbers
<1>7. Chosen(r)' /\ Originates(r)' /\ HasRow(r)' /\ HasFunds(r)'
  <2>1. Chosen(r)'
    BY <1>3, <1>4, <1>6 DEF Chosen
  <2>2. Originates(r)'
    BY <1>1, <1>4, <1>6 DEF RequestsGood, Originates
  <2> QED
    BY <1>4, <2>1, <2>2 DEF HasRow, HasFunds
<1> QED
  BY <1>1, <1>4, <1>5, <1>7, MovesOn DEF NoOverdraft

LEMMA LockRowKeeps ==
    ASSUME IInv, NEW r \in Request, LockRow(r) PROVE IInv'
<1> USE DEF IInv
<1>1. /\ pc' = [pc EXCEPT ![r] = "check"]
      /\ locked' = [locked EXCEPT ![Row(r)] = r]
      /\ UNCHANGED <<balance, frozen, loan, paid, job>>
      /\ pc[r] = "lock" /\ locked[Row(r)] = NoRequest
  BY DEF LockRow, Granted
<1>2. Row(r) \in Account /\ NoRequest \notin Request
  BY <1>1, RequestFacts, LoansAssumption
<1>3. /\ pc'[r] = "check" /\ locked'[Row(r)] = r
      /\ \A q \in Request \ {r} : pc'[q] = pc[q] /\ job'[q] = job[q]
      /\ \A a \in Account \ {Row(r)} : locked'[a] = locked[a]
  BY <1>1, <1>2 DEF TypeOK
<1>4. TypeOK'
  <2>1. /\ pc' \in [Request -> {"idle", "disburse", "next", "lock", "check", "post"}]
        /\ locked' \in [Account -> Request \cup {NoRequest}]
    BY <1>1 DEF TypeOK
  <2>2. \A q \in Request : pc'[q] # "idle" => LoanOf(q)' \in Loan
    BY <1>1, <1>3 DEF TypeOK, LoanOf
  <2> QED
    BY <1>1, <2>1, <2>2 DEF TypeOK, Numbers
<1>5. Chosen(r)' /\ Originates(r)' /\ HasRow(r)' /\ HasFunds(r)'
  <2>1. LoanOf(r)' = LoanOf(r) /\ Row(r)' = Row(r)
    BY <1>1 DEF LoanOf, Row
  <2>2. Chosen(r)'
    BY <1>1, <2>1 DEF RequestsGood, Chosen, Due, Numbers
  <2>3. Originates(r)'
    BY <1>1, <1>3, <2>1 DEF RequestsGood, Originates
  <2> QED
    BY <1>3, <2>1, <2>2, <2>3 DEF HasRow, HasFunds
<1>6. ASSUME NEW q \in Request \ {r}, pc[q] \in {"disburse", "check", "post"}
      PROVE  locked'[Row(q)] = locked[Row(q)]
  <2>1. Row(q) \in Account /\ locked[Row(q)] = q
    BY <1>6, RequestFacts DEF RequestsGood, HasRow
  <2> QED
    BY <1>1, <1>2, <1>3, <2>1
<1> QED
  BY <1>1, <1>3, <1>4, <1>5, <1>6, MovesOn DEF NoOverdraft

LEMMA CheckKeeps ==
    ASSUME IInv, NEW r \in Request, Check(r) PROVE IInv'
<1> USE DEF IInv
<1>1. /\ pc' = [pc EXCEPT ![r] = "post"]
      /\ UNCHANGED <<balance, frozen, loan, paid, job, locked>>
      /\ pc[r] = "check" /\ balance[Row(r)] >= Total(r)
  BY DEF Check
<1>2. /\ pc'[r] = "post"
      /\ \A q \in Request \ {r} : pc'[q] = pc[q] /\ job'[q] = job[q]
  BY <1>1 DEF TypeOK
<1>3. TypeOK'
  <2>1. pc' \in [Request -> {"idle", "disburse", "next", "lock", "check", "post"}]
    BY <1>1 DEF TypeOK
  <2>2. \A q \in Request : pc'[q] # "idle" => LoanOf(q)' \in Loan
    BY <1>1, <1>2 DEF TypeOK, LoanOf
  <2> QED
    BY <1>1, <2>1, <2>2 DEF TypeOK, Numbers
<1>4. Chosen(r)' /\ Originates(r)' /\ HasRow(r)' /\ HasFunds(r)'
  <2>1. LoanOf(r)' = LoanOf(r) /\ Row(r)' = Row(r) /\ Total(r)' = Total(r)
    BY <1>1 DEF LoanOf, Row, Total, Inst
  <2>2. Chosen(r)'
    BY <1>1, <2>1 DEF RequestsGood, Chosen, Due, Numbers
  <2>3. Originates(r)'
    BY <1>1, <1>2, <2>1 DEF RequestsGood, Originates
  <2>4. HasRow(r)' /\ HasFunds(r)'
    BY <1>1, <2>1 DEF RequestsGood, HasRow, HasFunds
  <2> QED
    BY <2>2, <2>3, <2>4
<1> QED
  BY <1>1, <1>2, <1>3, <1>4, MovesOn DEF NoOverdraft

-----------------------------------------------------------------------------
(* The steps that pay out, are repaid, or are somebody else's              *)

(* What the others know when a transaction ends that wrote the account     *)
(* whose row it had, and its loan.                                         *)
LEMMA OthersAtCommit ==
    ASSUME IInv, NEW r \in Request, pc[r] \in {"disburse", "post"}, End(r),
           \A a \in Account \ {Row(r)} : balance'[a] = balance[a],
           \A l \in Loan \ {LoanOf(r)} : loan'[l] = loan[l],
           loan'[LoanOf(r)] # "none",
           \A l \in Loan : paid[l] \subseteq paid'[l],
           NEW q \in Request, pc'[q] # "idle",
           pc[r] = "post" /\ pc[q] = "disburse" => LoanOf(q) # LoanOf(r)
    PROVE  Chosen(q)' /\ Originates(q)' /\ HasRow(q)' /\ HasFunds(q)'
<1> USE DEF IInv
<1>1. q # r /\ pc'[q] = pc[q] /\ job'[q] = job[q]
  BY EndFacts
<1>2. LoanOf(q)' = LoanOf(q) /\ LoanOf(q) \in Loan /\ LoanOf(r) \in Loan
  BY <1>1, RequestFacts DEF LoanOf
<1>3. Chosen(q)'
  BY <1>1, <1>2 DEF RequestsGood, Chosen, Due, Numbers
<1>4. Originates(q)'
  <2>1. pc[q] = "disburse" => LoanOf(q) # LoanOf(r)
    BY <1>1 DEF RequestsGood, Originates
  <2>2. \A p \in Request : pc'[p] = "disburse" =>
            pc[p] = "disburse" /\ LoanOf(p)' = LoanOf(p)
    BY EndFacts DEF LoanOf
  <2> QED
    BY <1>1, <1>2, <2>1, <2>2 DEF RequestsGood, Originates
<1>5. pc[q] \in {"disburse", "check", "post"} =>
          locked'[Row(q)] = locked[Row(q)] /\ Row(q) # Row(r)
  <2>1. locked[Row(r)] = r /\ Row(q) \in Account
    BY <1>1, RequestFacts DEF RequestsGood, HasRow
  <2>2. pc[q] \in {"disburse", "check", "post"} => locked[Row(q)] = q
    BY DEF RequestsGood, HasRow
  <2> QED
    BY <1>1, <2>1, <2>2, EndFacts
<1>6. pc[q] = "post" => balance'[Row(q)] = balance[Row(q)]
  BY <1>1, <1>5, RequestFacts
<1> QED
  BY <1>1, <1>3, <1>4, <1>5, <1>6, RowStays

LEMMA DisburseKeeps ==
    ASSUME IInv, NEW r \in Request, Disburse(r) PROVE IInv'
<1> USE DEF IInv
<1> DEFINE l == LoanOf(r)
<1>1. /\ pc[r] = "disburse" /\ End(r) /\ UNCHANGED <<frozen, paid>>
      /\ loan' = [loan EXCEPT ![l] = "active"]
      /\ balance' = [balance EXCEPT ![Receivable] = @ - Principal(l),
                                    ![Row(r)] = @ + Principal(l)]
  BY DEF Disburse
<1>2. l \in Loan /\ Row(r) \in Account /\ Principal(l) \in Int /\ Principal(l) > 0
  BY <1>1, RequestFacts, LoanFacts
<1>3. /\ balance' \in [Gl -> Int]
      /\ \A a \in Account \ {Row(r)} : balance'[a] = balance[a]
      /\ balance'[Row(r)] = balance[Row(r)] + Principal(l)
  BY <1>1, <1>2, BankAccounts DEF TypeOK, Gl
<1>4. /\ loan' \in [Loan -> {"none", "active", "closed"}]
      /\ loan'[l] = "active" /\ \A k \in Loan \ {l} : loan'[k] = loan[k]
  BY <1>1, <1>2 DEF TypeOK
<1>5. TypeOK'
  BY <1>1, <1>3, <1>4, EndFacts DEF TypeOK, Numbers
<1>6. ASSUME NEW q \in Request
      PROVE  Chosen(q)' /\ Originates(q)' /\ HasRow(q)' /\ HasFunds(q)'
  <2>1. CASE pc'[q] = "idle"
    BY <2>1 DEF Chosen, Originates, HasRow, HasFunds
  <2>2. CASE pc'[q] # "idle"
    BY <1>1, <1>3, <1>4, <2>2, OthersAtCommit
  <2> QED
    BY <2>1, <2>2
<1>7. NothingPaidBefore'
  BY <1>1, <1>4 DEF NothingPaidBefore
<1>8. NoOverdraft'
  BY <1>2, <1>3 DEF NoOverdraft, TypeOK, Gl
<1>9. ClosedIffPaid'
  <2>1. paid[l] = {} /\ Numbers(l) # {}
    BY <1>1, <1>2, LoanFacts DEF NothingPaidBefore, RequestsGood, Originates
  <2>2. \A k \in Loan : Due(k)' = Due(k)
    BY <1>1 DEF Due, Numbers
  <2> QED
    BY <1>1, <1>4, <2>1, <2>2 DEF ClosedIffPaid, Due
<1> QED
  BY <1>5, <1>6, <1>7, <1>8, <1>9 DEF RequestsGood

LEMMA RepayKeeps ==
    ASSUME IInv, NEW r \in Request, Repay(r) PROVE IInv'
<1> USE DEF IInv
<1> DEFINE l == LoanOf(r)
           i == job[r].inst
<1>1. /\ pc[r] = "post" /\ End(r) /\ UNCHANGED frozen /\ LinesAccepted(r)
      /\ balance' = Repaid(r)
      /\ paid' = [paid EXCEPT ![l] = @ \cup {i}]
      /\ loan' = [loan EXCEPT ![l] = IF NoneLeft(r) THEN "closed" ELSE @]
  BY DEF Repay
<1>2. /\ l \in Loan /\ Row(r) \in Account /\ i \in Numbers(l)
      /\ \A j \in Due(l) : i <= j
  BY <1>1, RequestFacts DEF RequestsGood, Chosen
<1>3. Inst(r).principal \in Int /\ Inst(r).interest \in Int /\ Total(r) \in Int
  BY <1>1, <1>2, RequestFacts
<1>4. /\ balance' \in [Gl -> Int]
      /\ \A a \in Account \ {Row(r)} : balance'[a] = balance[a]
      /\ balance'[Row(r)] = balance[Row(r)] - Total(r)
  BY <1>1, <1>2, <1>3, BankAccounts DEF TypeOK, Gl, Repaid
<1>5. /\ paid' \in [Loan -> SUBSET Nat] /\ paid'[l] = paid[l] \cup {i}
      /\ \A k \in Loan \ {l} : paid'[k] = paid[k]
      /\ \A k \in Loan : paid'[k] \subseteq Numbers(k)
  BY <1>1, <1>2, LoanFacts DEF TypeOK
<1>6. /\ loan[l] # "none"
      /\ loan' \in [Loan -> {"none", "active", "closed"}]
      /\ loan'[l] = IF NoneLeft(r) THEN "closed" ELSE loan[l]
      /\ \A k \in Loan \ {l} : loan'[k] = loan[k]
  BY <1>1, <1>2 DEF TypeOK, RequestsGood, Originates
<1>7. TypeOK'
  BY <1>1, <1>4, <1>5, <1>6, EndFacts DEF TypeOK, Numbers
<1>8. ASSUME NEW q \in Request
      PROVE  Chosen(q)' /\ Originates(q)' /\ HasRow(q)' /\ HasFunds(q)'
  <2>1. CASE pc'[q] = "idle"
    BY <2>1 DEF Chosen, Originates, HasRow, HasFunds
  <2>2. CASE pc'[q] # "idle"
    <3>1. pc[q] = "disburse" => LoanOf(q) # l
      BY <1>6 DEF RequestsGood, Originates
    <3>2. \A k \in Loan : paid[k] \subseteq paid'[k]
      BY <1>5
    <3> QED
      BY <1>1, <1>4, <1>6, <2>2, <3>1, <3>2, OthersAtCommit
  <2> QED
    BY <2>1, <2>2
<1>9. NothingPaidBefore'
  BY <1>5, <1>6 DEF NothingPaidBefore
<1>10. NoOverdraft'
  <2>1. balance[Row(r)] >= Total(r)
    BY <1>1 DEF RequestsGood, HasFunds
  <2>2. balance[Row(r)] \in Int
    BY <1>2 DEF TypeOK, Gl
  <2> QED
    BY <1>2, <1>3, <1>4, <2>1, <2>2 DEF NoOverdraft
<1>11. ClosedIffPaid'
  <2>1. \A k \in Loan : Due(k)' = IF k = l THEN Due(k) \ {i} ELSE Due(k)
    BY <1>2, <1>5 DEF Due, Numbers
  <2>2. ASSUME NEW k \in Loan, k = l
        PROVE  /\ loan'[k] = "closed" <=> loan'[k] # "none" /\ Due(k)' = {}
               /\ \A j \in paid'[k], m \in Due(k)' : j < m
    <3>1. Due(k) \subseteq Nat /\ i \in Nat
      BY <1>2, <2>2, LoanFacts DEF Due
    <3> QED
      BY <1>2, <1>5, <1>6, <2>1, <2>2, <3>1 DEF ClosedIffPaid, NoneLeft
  <2>3. ASSUME NEW k \in Loan \ {l}
        PROVE  /\ loan'[k] = "closed" <=> loan'[k] # "none" /\ Due(k)' = {}
               /\ \A j \in paid'[k], m \in Due(k)' : j < m
    BY <1>5, <1>6, <2>1 DEF ClosedIffPaid
  <2> QED
    BY <2>2, <2>3 DEF ClosedIffPaid
<1> QED
  BY <1>7, <1>8, <1>9, <1>10, <1>11 DEF RequestsGood

(* Nobody moves: a teller, or a change of status.                          *)
LEMMA OthersKeep ==
    ASSUME IInv, UNCHANGED <<loan, paid, pc, job, locked>>,
           frozen' \subseteq Account, balance' \in [Gl -> Int], NoOverdraft',
           \A r \in Request : pc[r] = "post" => balance'[Row(r)] = balance[Row(r)]
    PROVE  IInv'
<1> USE DEF IInv
<1>1. TypeOK'
  BY DEF TypeOK, Numbers, LoanOf
<1>2. ASSUME NEW q \in Request
      PROVE  Chosen(q)' /\ Originates(q)' /\ HasRow(q)' /\ HasFunds(q)'
  <2>1. CASE pc'[q] = "idle"
    BY <2>1 DEF Chosen, Originates, HasRow, HasFunds
  <2>2. CASE pc'[q] # "idle"
    BY <2>2, RowStays, StaysGood
  <2> QED
    BY <2>1, <2>2
<1> QED
  BY <1>1, <1>2, LoansStay DEF RequestsGood

LEMMA TellerKeeps ==
    ASSUME IInv, NEW a \in Account, NEW n \in Teller, Deposit(a, n) \/ Withdraw(a, n)
    PROVE  IInv'
<1> USE DEF IInv
<1>1. /\ locked[a] = NoRequest /\ UNCHANGED <<frozen, loan, paid, pc, job, locked>>
      /\ n \in Nat /\ NoRequest \notin Request
  BY LoansAssumption DEF Deposit, Withdraw, Granted
<1>2. /\ balance' \in [Gl -> Int]
      /\ \A b \in Account \ {a} : balance'[b] = balance[b]
      /\ balance'[a] >= 0
  <2>1. CASE Deposit(a, n)
    BY <1>1, <2>1, BankAccounts DEF Deposit, TypeOK, Gl, NoOverdraft
  <2>2. CASE Withdraw(a, n)
    BY <1>1, <2>2, BankAccounts DEF Withdraw, TypeOK, Gl, NoOverdraft
  <2> QED
    BY <2>1, <2>2
<1>3. NoOverdraft'
  BY <1>2 DEF NoOverdraft
<1>4. ASSUME NEW r \in Request, pc[r] = "post" PROVE balance'[Row(r)] = balance[Row(r)]
  <2>1. Row(r) \in Account /\ locked[Row(r)] = r
    BY <1>4, RequestFacts DEF RequestsGood, HasRow
  <2> QED
    BY <1>1, <1>2, <2>1
<1>5. frozen' \subseteq Account
  BY <1>1 DEF TypeOK
<1> QED
  BY <1>1, <1>2, <1>3, <1>4, <1>5, OthersKeep

LEMMA SetFrozenKeeps ==
    ASSUME IInv, NEW a \in Account, SetFrozen(a) PROVE IInv'
<1>1. /\ UNCHANGED <<balance, loan, paid, pc, job, locked>>
      /\ frozen' \subseteq Account
  BY DEF SetFrozen, IInv, TypeOK
<1>2. balance' \in [Gl -> Int] /\ NoOverdraft'
  BY <1>1 DEF IInv, TypeOK, NoOverdraft
<1> QED
  BY <1>1, <1>2, OthersKeep

-----------------------------------------------------------------------------
LEMMA InitGood == Init => IInv
<1> SUFFICES ASSUME Init PROVE IInv
  OBVIOUS
<1>1. TypeOK
  BY DEF Init, TypeOK, NoJob
<1>2. RequestsGood
  BY DEF Init, RequestsGood, Chosen, Originates, HasRow, HasFunds
<1>3. NothingPaidBefore /\ NoOverdraft
  BY DEF Init, NothingPaidBefore, NoOverdraft, Gl
<1>4. ClosedIffPaid
  BY DEF Init, ClosedIffPaid
<1> QED
  BY <1>1, <1>2, <1>3, <1>4 DEF IInv

LEMMA StepKeeps == IInv /\ [Next]_vars => IInv'
<1> SUFFICES ASSUME IInv, [Next]_vars PROVE IInv'
  OBVIOUS
<1>1. ASSUME NEW r \in Request, NEW l \in Loan, LockForLoan(r, l) \/ ReadLoan(r, l)
      PROVE  IInv'
  BY <1>1, LockForLoanKeeps, ReadLoanKeeps
<1>2. ASSUME NEW r \in Request, Disburse(r) \/ Repay(r) PROVE IInv'
  BY <1>2, DisburseKeeps, RepayKeeps
<1>3. ASSUME NEW r \in Request, ReadNextDue(r) \/ LockRow(r) \/ Check(r) PROVE IInv'
  BY <1>3, ReadNextDueKeeps, LockRowKeeps, CheckKeeps
<1>4. ASSUME NEW r \in Request,
             \/ NothingDue(r) \/ RefuseRow(r) \/ RefuseFunds(r)
             \/ RefuseLines(r) \/ Rollback(r)
      PROVE  IInv'
  BY <1>4, EndKeeps DEF NothingDue, RefuseRow, RefuseFunds, RefuseLines, Rollback
<1>5. ASSUME NEW a \in Account, NEW n \in Teller, Deposit(a, n) \/ Withdraw(a, n)
      PROVE  IInv'
  BY <1>5, TellerKeeps
<1>6. ASSUME NEW a \in Account, SetFrozen(a) PROVE IInv'
  BY <1>6, SetFrozenKeeps
<1>7. CASE UNCHANGED vars
  <2>1. UNCHANGED <<loan, paid, pc, job, locked, frozen, balance>>
    BY <1>7 DEF vars
  <2>2. frozen' \subseteq Account /\ balance' \in [Gl -> Int] /\ NoOverdraft'
    BY <2>1 DEF IInv, TypeOK, NoOverdraft
  <2> QED
    BY <2>1, <2>2, OthersKeep
<1> QED
  BY <1>1, <1>2, <1>3, <1>4, <1>5, <1>6, <1>7 DEF Next

LEMMA IInvHolds == Spec => []IInv
BY InitGood, StepKeeps, PTL DEF Spec

(* No repayment takes a deposit account below zero, whatever tellers and   *)
(* other repayments do meanwhile.                                          *)
THEOREM LoansNeverOverdraw == Spec => []NoOverdraft
<1>1. IInv => NoOverdraft
  BY DEF IInv
<1> QED
  BY <1>1, IInvHolds, PTL

(* A loan is closed exactly when its last installment is marked paid, and  *)
(* installments are marked in the order of their numbers, for any schedule *)
(* and any number of repayments at once.                                   *)
THEOREM LoansCloseWhenPaid == Spec => []ClosedIffPaid
<1>1. IInv => ClosedIffPaid
  BY DEF IInv
<1> QED
  BY <1>1, IInvHolds, PTL

-----------------------------------------------------------------------------
(* Installments that cannot be paid                                        *)

NoneUnpayablePaid == \A l \in Loan : paid[l] \cap Unpayable(l) = {}

LEMMA UnpayableStep == IInv /\ NoneUnpayablePaid /\ [Next]_vars => NoneUnpayablePaid'
<1> SUFFICES ASSUME IInv, NoneUnpayablePaid, [Next]_vars PROVE NoneUnpayablePaid'
  OBVIOUS
<1>1. CASE UNCHANGED paid
  BY <1>1 DEF NoneUnpayablePaid, Unpayable, Numbers
<1>2. ASSUME NEW r \in Request, Repay(r) PROVE NoneUnpayablePaid'
  <2> DEFINE l == LoanOf(r)
             i == job[r].inst
  <2>1. /\ LinesAccepted(r) /\ l \in Loan /\ i \in Numbers(l)
        /\ paid' = [paid EXCEPT ![l] = @ \cup {i}]
    BY <1>2 DEF Repay, IInv, TypeOK, RequestsGood, Chosen
  <2>2. i \notin Unpayable(l)
    <3>1. Terms[l][i].principal > 0 /\ Terms[l][i].interest > 0
      BY <2>1 DEF LinesAccepted, Inst
    <3>2. Terms[l][i].principal \in Int /\ Terms[l][i].interest \in Int
      BY <2>1, LoanFacts
    <3> QED
      BY <3>1, <3>2 DEF Unpayable
  <2>3. \A k \in Loan : paid'[k] = IF k = l THEN paid[k] \cup {i} ELSE paid[k]
    BY <2>1 DEF IInv, TypeOK
  <2>4. \A k : Unpayable(k)' = Unpayable(k)
    BY DEF Unpayable, Numbers
  <2> QED
    BY <2>2, <2>3, <2>4 DEF NoneUnpayablePaid
<1> QED
  BY <1>1, <1>2 DEF Next, vars, LockForLoan, ReadLoan, Disburse, ReadNextDue,
     NothingDue, LockRow, RefuseRow, Check, RefuseFunds, RefuseLines, Rollback,
     Deposit, Withdraw, SetFrozen

LEMMA UnpayableInit == Init => NoneUnpayablePaid
BY DEF Init, NoneUnpayablePaid

(* An installment with a part that is not positive stays due, and so do    *)
(* those after it, so that its loan is never closed, whatever the terms of *)
(* the loans are and however many repayments are tried.                    *)
THEOREM UnpayableInstallmentsStopLoans == Spec => []UnpayableStopsLoan
<1>1. IInv /\ NoneUnpayablePaid => UnpayableStopsLoan
  <2> SUFFICES ASSUME IInv, NoneUnpayablePaid, NEW l \in Loan, NEW i \in Unpayable(l)
               PROVE  loan[l] # "closed" /\ \A j \in paid[l] : j < i
    BY DEF UnpayableStopsLoan
  <2>1. i \in Due(l)
    BY DEF NoneUnpayablePaid, Unpayable, Due
  <2> QED
    BY <2>1 DEF IInv, ClosedIffPaid
<1> QED
  BY <1>1, IInvHolds, UnpayableInit, UnpayableStep, PTL DEF Spec

-----------------------------------------------------------------------------
(* What the bank has still to get back                                     *)

Parts(l) == [i \in Numbers(l) |-> Terms[l][i].principal]

LEMMA PaidBack ==
    ASSUME NEW l \in Loan, NEW S, S \subseteq Numbers(l)
    PROVE  /\ IsFiniteSet(S)
           /\ SumFunctionOnSet(Parts(l), S) \in Int
           /\ SumFunction([i \in S |-> Terms[l][i].principal]) =
                 SumFunctionOnSet(Parts(l), S)
           /\ \A i \in Numbers(l) \ S :
                 SumFunctionOnSet(Parts(l), S \cup {i}) =
                    Terms[l][i].principal + SumFunctionOnSet(Parts(l), S)
<1> DEFINE p == Parts(l)
           s == [i \in S |-> Terms[l][i].principal]
<1>1. IsFiniteSet(S)
  BY LoanFacts, FS_Subset
<1>2. /\ \A i \in Numbers(l) : p[i] \in Int /\ p[i] = Terms[l][i].principal
      /\ DOMAIN s = S /\ \A i \in S : s[i] = p[i]
  BY LoanFacts DEF Parts
<1> HIDE DEF p, s
<1>3. SumFunctionOnSet(p, S) \in Int
  BY <1>1, <1>2, SumType
<1>4. SumFunction(s) = SumFunctionOnSet(p, S)
  BY <1>1, <1>2, SumFunctionIsOnDomain, SumSame
<1>5. ASSUME NEW i \in Numbers(l) \ S
      PROVE  SumFunctionOnSet(p, S \cup {i}) =
                Terms[l][i].principal + SumFunctionOnSet(p, S)
  BY <1>1, <1>2, SumAdd
<1> QED
  BY <1>1, <1>3, <1>4, <1>5 DEF p, s

OutstandingIsWhatIsLeft ==
    \A l \in Loan :
        /\ Outstanding(l) = IF loan[l] = "none" THEN 0
                            ELSE Principal(l) - SumFunctionOnSet(Parts(l), paid[l])
        /\ Outstanding(l) \in Int

LEMMA OutstandingIs == TypeOK => OutstandingIsWhatIsLeft
<1> SUFFICES ASSUME TypeOK, NEW l \in Loan
             PROVE  /\ Outstanding(l) = IF loan[l] = "none" THEN 0
                          ELSE Principal(l) - SumFunctionOnSet(Parts(l), paid[l])
                    /\ Outstanding(l) \in Int
  BY DEF OutstandingIsWhatIsLeft
<1>1. paid[l] \subseteq Numbers(l) /\ Principal(l) \in Int
  BY LoanFacts DEF TypeOK
<1>2. /\ SumFunctionOnSet(Parts(l), paid[l]) \in Int
      /\ SumFunction([i \in paid[l] |-> Terms[l][i].principal]) =
            SumFunctionOnSet(Parts(l), paid[l])
  BY <1>1, PaidBack, Zenon
<1>3. Outstanding(l) = IF loan[l] = "none" THEN 0
                       ELSE Principal(l) - SumFunctionOnSet(Parts(l), paid[l])
  BY <1>2, Zenon DEF Outstanding
<1> QED
  BY <1>1, <1>2, <1>3

ByLoan == [l \in Loan |-> Outstanding(l)]

AllIsSumByLoan == OutstandingAll = SumFunctionOnSet(ByLoan, Loan)

LEMMA AllIsSum == AllIsSumByLoan
<1>1. DOMAIN ByLoan = Loan /\ OutstandingAll = SumFunction(ByLoan)
  BY DEF OutstandingAll, ByLoan
<1> QED
  BY <1>1, SumFunctionIsOnDomain DEF AllIsSumByLoan

(* One loan changes.                                                       *)
LEMMA OutstandingChanges ==
    ASSUME TypeOK, TypeOK', NEW k \in Loan,
           \A l \in Loan \ {k} : loan'[l] = loan[l] /\ paid'[l] = paid[l]
    PROVE  /\ OutstandingAll \in Int
           /\ OutstandingAll' = OutstandingAll + (Outstanding(k)' - Outstanding(k))
<1>1. OutstandingIsWhatIsLeft /\ OutstandingIsWhatIsLeft'
  BY OutstandingIs, PTL
<1>2. /\ \A l \in Loan : ByLoan[l] = Outstanding(l) /\ ByLoan[l] \in Int
      /\ \A l \in Loan : ByLoan'[l] = Outstanding(l)' /\ ByLoan'[l] \in Int
  BY <1>1 DEF OutstandingIsWhatIsLeft, ByLoan
<1>3. \A l \in Loan \ {k} : ByLoan'[l] = ByLoan[l]
  BY <1>1, <1>2 DEF OutstandingIsWhatIsLeft
<1>4. IsFiniteSet(Loan)
  BY LoansAssumption
<1> DEFINE f == ByLoan
           g == ByLoan'
<1>5. /\ SumFunctionOnSet(f, Loan) \in Int
      /\ SumFunctionOnSet(g, Loan) = SumFunctionOnSet(f, Loan) + (g[k] - f[k])
  <2> HIDE DEF f, g
  <2>1. \A l \in Loan : f[l] \in Int /\ g[l] \in Int
    BY <1>2 DEF f, g
  <2>2. \A l \in Loan \ {k} : g[l] = f[l]
    BY <1>3 DEF f, g
  <2> QED
    BY <1>4, <2>1, <2>2, SumUpdate, SumType
<1>6. AllIsSumByLoan /\ AllIsSumByLoan'
  BY AllIsSum, PTL
<1>7. OutstandingAll = SumFunctionOnSet(f, Loan) /\ OutstandingAll' = SumFunctionOnSet(g, Loan)
  BY <1>6 DEF AllIsSumByLoan
<1> QED
  BY <1>2, <1>5, <1>7

LEMMA OutstandingStays ==
    ASSUME TypeOK, TypeOK', UNCHANGED <<loan, paid>>
    PROVE  OutstandingAll' = OutstandingAll
<1>1. OutstandingIsWhatIsLeft /\ OutstandingIsWhatIsLeft'
  BY OutstandingIs, PTL
<1>2. ByLoan' = ByLoan
  BY <1>1 DEF OutstandingIsWhatIsLeft, ByLoan
<1>3. AllIsSumByLoan /\ AllIsSumByLoan'
  BY AllIsSum, PTL
<1> QED
  BY <1>2, <1>3 DEF AllIsSumByLoan

LEMMA DisburseLends ==
    ASSUME IInv, IInv', MarkedIsPaidFor, NEW r \in Request, Disburse(r)
    PROVE  MarkedIsPaidFor'
<1> USE DEF IInv
<1>1. PICK k \in Loan : k = LoanOf(r) /\ Row(r) \in Account
  BY RequestFacts DEF Disburse
<1>2. /\ pc[r] = "disburse" /\ UNCHANGED paid
      /\ loan' = [loan EXCEPT ![k] = "active"]
      /\ balance' = [balance EXCEPT ![Receivable] = @ - Principal(k),
                                    ![Row(r)] = @ + Principal(k)]
  BY <1>1 DEF Disburse
<1>3. /\ loan[k] = "none" /\ paid[k] = {} /\ loan'[k] = "active"
      /\ \A l \in Loan \ {k} : loan'[l] = loan[l] /\ paid'[l] = paid[l]
  BY <1>1, <1>2 DEF RequestsGood, Originates, NothingPaidBefore, TypeOK
<1>4. Outstanding(k) = 0 /\ Outstanding(k)' = Principal(k)
  <2>1. OutstandingIsWhatIsLeft /\ OutstandingIsWhatIsLeft'
    BY OutstandingIs, PTL
  <2>2. SumFunctionOnSet(Parts(k), {}) = 0 /\ Principal(k) \in Int
    BY SumEmpty, LoanFacts
  <2>3. Outstanding(k) = 0
    BY <1>3, <2>1 DEF OutstandingIsWhatIsLeft
  <2>4. Outstanding(k)' = Principal(k) - SumFunctionOnSet(Parts(k), paid'[k])
    BY <1>3, <2>1 DEF OutstandingIsWhatIsLeft
  <2>5. paid'[k] = {}
    BY <1>2, <1>3
  <2> QED
    BY <2>2, <2>3, <2>4, <2>5
<1>5. /\ balance[Receivable] \in Int /\ Principal(k) \in Int
      /\ balance'[Receivable] = balance[Receivable] - Principal(k)
  BY <1>1, <1>2, BankAccounts, LoanFacts DEF TypeOK, Gl
<1> QED
  BY <1>3, <1>4, <1>5, OutstandingChanges DEF MarkedIsPaidFor

LEMMA RepayPaysBack ==
    ASSUME IInv, IInv', MarkedIsPaidFor, NEW r \in Request, Repay(r)
    PROVE  MarkedIsPaidFor'
<1> USE DEF IInv
<1>1. PICK k \in Loan : k = LoanOf(r) /\ Row(r) \in Account
  BY RequestFacts DEF Repay
<1>2. PICK i \in Numbers(k) : i = job[r].inst
  BY <1>1 DEF Repay, RequestsGood, Chosen
<1>3. /\ pc[r] = "post" /\ LinesAccepted(r) /\ balance' = Repaid(r)
      /\ paid' = [paid EXCEPT ![k] = @ \cup {i}]
      /\ loan' = [loan EXCEPT ![k] = IF NoneLeft(r) THEN "closed" ELSE @]
  BY <1>1, <1>2 DEF Repay
<1>4. /\ loan[k] # "none" /\ loan'[k] # "none" /\ paid'[k] = paid[k] \cup {i}
      /\ \A l \in Loan \ {k} : loan'[l] = loan[l] /\ paid'[l] = paid[l]
  BY <1>1, <1>3 DEF RequestsGood, Originates, TypeOK
<1> DEFINE part == Terms[k][i].principal
<1>5. /\ balance[Receivable] \in Int /\ part \in Int /\ part > 0
      /\ balance'[Receivable] = balance[Receivable] + part
  <2>1. Inst(r) = Terms[k][i]
    BY <1>1, <1>2 DEF Inst
  <2>2. part \in Int /\ Terms[k][i].interest \in Int /\ part > 0
    BY <1>3, <2>1, LoanFacts DEF LinesAccepted
  <2> QED
    BY <1>1, <1>3, <2>1, <2>2, BankAccounts DEF Repaid, TypeOK, Gl
<1>6. OutstandingIsWhatIsLeft /\ OutstandingIsWhatIsLeft'
  BY OutstandingIs, PTL
<1> DEFINE left(S) == Principal(k) - SumFunctionOnSet(Parts(k), S)
<1>7. /\ Outstanding(k) = left(paid[k])
      /\ Outstanding(k)' = left(paid[k] \cup {i})
      /\ Outstanding(k) \in Int
  BY <1>4, <1>6 DEF OutstandingIsWhatIsLeft
<1>8. Outstanding(k)' >= Outstanding(k) - part
  <2>1. CASE i \in paid[k]
    <3>1. paid[k] \cup {i} = paid[k]
      BY <2>1
    <3>2. Outstanding(k)' = Outstanding(k)
      BY <1>7, <3>1, Zenon
    <3> HIDE DEF part
    <3> QED
      BY <1>5, <1>7, <3>2
  <2>2. CASE i \notin paid[k]
    <3>1. paid[k] \subseteq Numbers(k) /\ Principal(k) \in Int
      BY LoanFacts DEF TypeOK
    <3>2. /\ SumFunctionOnSet(Parts(k), paid[k]) \in Int
          /\ SumFunctionOnSet(Parts(k), paid[k] \cup {i}) =
                part + SumFunctionOnSet(Parts(k), paid[k])
      BY <2>2, <3>1, PaidBack
    <3> HIDE DEF part
    <3> QED
      BY <1>5, <1>7, <3>1, <3>2
  <2> QED
    BY <2>1, <2>2
<1>9. /\ OutstandingAll \in Int
      /\ OutstandingAll' = OutstandingAll + (Outstanding(k)' - Outstanding(k))
  BY <1>4, OutstandingChanges
<1>10. Outstanding(k)' \in Int
  BY <1>6 DEF OutstandingIsWhatIsLeft
<1> HIDE DEF part
<1> QED
  BY <1>5, <1>7, <1>8, <1>9, <1>10 DEF MarkedIsPaidFor

LEMMA MarkedStepKeeps == IInv /\ IInv' /\ MarkedIsPaidFor /\ [Next]_vars => MarkedIsPaidFor'
<1> SUFFICES ASSUME IInv, IInv', MarkedIsPaidFor, [Next]_vars PROVE MarkedIsPaidFor'
  OBVIOUS
<1>1. ASSUME NEW r \in Request, Disburse(r) \/ Repay(r) PROVE MarkedIsPaidFor'
  BY <1>1, DisburseLends, RepayPaysBack
<1>2. ASSUME UNCHANGED <<loan, paid>>, balance'[Receivable] = balance[Receivable]
      PROVE  MarkedIsPaidFor'
  BY <1>2, OutstandingStays DEF MarkedIsPaidFor, IInv
<1>3. ASSUME NEW r \in Request, NEW l \in Loan, LockForLoan(r, l) \/ ReadLoan(r, l)
      PROVE  MarkedIsPaidFor'
  BY <1>2, <1>3 DEF LockForLoan, ReadLoan
<1>4. ASSUME NEW r \in Request,
             \/ ReadNextDue(r) \/ NothingDue(r) \/ LockRow(r) \/ RefuseRow(r)
             \/ Check(r) \/ RefuseFunds(r) \/ RefuseLines(r) \/ Rollback(r)
      PROVE  MarkedIsPaidFor'
  BY <1>2, <1>4 DEF ReadNextDue, NothingDue, LockRow, RefuseRow, Check,
                    RefuseFunds, RefuseLines, Rollback
<1>5. ASSUME NEW a \in Account, NEW n \in Teller, Deposit(a, n) \/ Withdraw(a, n)
      PROVE  MarkedIsPaidFor'
  <2>1. a # Receivable /\ Cash # Receivable /\ Receivable \in Gl
    BY BankAccounts DEF Gl
  <2> QED
    BY <1>2, <1>5, <2>1 DEF Deposit, Withdraw, IInv, TypeOK
<1>6. ASSUME NEW a \in Account, SetFrozen(a) PROVE MarkedIsPaidFor'
  BY <1>2, <1>6 DEF SetFrozen
<1>7. CASE UNCHANGED vars
  BY <1>2, <1>7 DEF vars
<1> QED
  BY <1>1, <1>3, <1>4, <1>5, <1>6, <1>7 DEF Next

LEMMA MarkedInit == Init => MarkedIsPaidFor
<1> SUFFICES ASSUME Init PROVE MarkedIsPaidFor
  OBVIOUS
<1>1. \A l \in Loan : ByLoan[l] = 0
  BY DEF Init, ByLoan, Outstanding
<1>2. OutstandingAll = 0
  BY <1>1, AllIsSum, SumZero, LoansAssumption DEF AllIsSumByLoan
<1> QED
  BY <1>2 DEF Init, MarkedIsPaidFor, Gl

(* What is marked paid was paid for: whatever is lent, repaid and repaid   *)
(* twice, the bank's receivable is never more than the principal of the    *)
(* installments that are still due.                                        *)
THEOREM LoansMarkOnlyWhatIsPaid == Spec => []MarkedIsPaidFor
BY InitGood, MarkedInit, MarkedStepKeeps, IInvHolds, PTL DEF Spec

=============================================================================
