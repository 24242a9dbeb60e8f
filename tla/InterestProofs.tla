--------------------------- MODULE InterestProofs ---------------------------
(***************************************************************************)
(* Proofs about Interest, for any accounts, rate, numbers of days and jobs *)
(* that interleave.                                                        *)
(***************************************************************************)
EXTENDS Interest, ArithmeticProofs

Accruing == {"tick", "now", "list", "each", "insert"}
Capitalizing == {"sum", "mark", "commit"}
Accrual == [account : Account, date : Nat, amount : Int, capitalized : BOOLEAN]

TypeOK ==
    /\ clock \in Nat
    /\ balance \in [Account \cup {Expense} -> Int]
    /\ active \subseteq Account
    /\ accruals \in Seq(Accrual)
    /\ earlier \in 0..Len(accruals)
    /\ crossed \in BOOLEAN
    /\ at \in [Job -> {"idle"} \cup Accruing \cup Capitalizing]
    /\ left \in [Job -> Nat]
    /\ date \in [Job -> Nat]
    /\ todo \in [Job -> SUBSET Account]
    /\ current \in [Job -> Account \cup {NoAccount}]
    /\ found \in [Job -> Int]
    /\ marked \in [Job -> SUBSET Nat]
    /\ \A j \in Job : left[j] > 0 <=> at[j] \in Accruing
    /\ \A j \in Job : at[j] \in {"insert", "mark", "commit"} => current[j] \in Account
    /\ \A j \in Job : at[j] = "insert" => current[j] \notin todo[j]

(* The rows that this process inserted.                                    *)
New == (earlier + 1)..Len(accruals)

(* The accounts for which an advance has yet to insert the day that it     *)
(* moved the clock to.                                                     *)
ToCome(j) ==
    IF at[j] \in {"now", "list"} THEN Account
    ELSE IF at[j] = "each" THEN todo[j]
    ELSE IF at[j] = "insert" THEN todo[j] \cup {current[j]}
    ELSE {}

(* Advances that do not overlap: what is to come is not there yet.         *)
DatesFollowClock ==
    ~crossed =>
        /\ \A j, k \in Job : at[j] \in Accruing /\ at[k] \in Accruing => j = k
        /\ \A i \in New : accruals[i].date <= clock
        /\ \A j \in Job, i \in New :
              accruals[i].account \in ToCome(j) => accruals[i].date < clock
        /\ \A j \in Job : at[j] \in {"list", "each", "insert"} => date[j] = clock

(* A day that the clock has moved on is spent by one row of each account,  *)
(* or by one job that will insert it.                                      *)
RowsOf(a) == {i \in New : accruals[i].account = a}
ComingFor(a) == {j \in Job : a \in ToCome(j)}
DaysAreSpent ==
    \A a \in Account : Cardinality(RowsOf(a)) + Cardinality(ComingFor(a)) <= clock

-----------------------------------------------------------------------------
(* Most steps insert nothing, leave the clock alone and at most give up    *)
(* what is to come.                                                        *)

SameRows ==
    /\ Len(accruals') = Len(accruals)
    /\ \A i \in 1..Len(accruals) :
          /\ accruals'[i].account = accruals[i].account
          /\ accruals'[i].date = accruals[i].date

Shrinks ==
    /\ UNCHANGED <<clock, earlier, crossed>>
    /\ SameRows
    /\ \A j \in Job : at'[j] \in Accruing => at[j] \in Accruing
    /\ \A j \in Job, a \in Account : a \in ToCome(j)' => a \in ToCome(j)
    /\ \A j \in Job : at'[j] \in {"list", "each", "insert"} =>
          \/ date'[j] = clock
          \/ at[j] \in {"list", "each", "insert"} /\ date'[j] = date[j]

LEMMA RowFacts ==
    ASSUME TypeOK
    PROVE  /\ New \subseteq 1..Len(accruals) /\ Len(accruals) \in Nat /\ earlier \in Nat
           /\ earlier <= Len(accruals)
           /\ \A i \in 1..Len(accruals) :
                 /\ accruals[i] \in Accrual
                 /\ accruals[i].account \in Account /\ accruals[i].date \in Nat
                 /\ accruals[i].amount \in Int /\ accruals[i].capitalized \in BOOLEAN
<1>1. Len(accruals) \in Nat /\ earlier \in Nat /\ earlier <= Len(accruals)
  BY DEF TypeOK
<1>2. \A i \in 1..Len(accruals) : accruals[i] \in Accrual
  <2> HIDE DEF Accrual
  <2> QED
    BY DEF TypeOK
<1>3. \A x \in Accrual : /\ x.account \in Account /\ x.date \in Nat
                         /\ x.amount \in Int /\ x.capitalized \in BOOLEAN
  BY DEF Accrual
<1> QED
  BY <1>1, <1>2, <1>3 DEF New

LEMMA SameNew ==
    ASSUME TypeOK, Shrinks
    PROVE  /\ New' = New
           /\ \A i \in New : /\ accruals'[i].account = accruals[i].account
                             /\ accruals'[i].date = accruals[i].date
BY RowFacts DEF Shrinks, SameRows, New

LEMMA ShrinkKeepsDates ==
    ASSUME TypeOK, Shrinks, DatesFollowClock, AccruedOnceADay
    PROVE  DatesFollowClock' /\ AccruedOnceADay'
<1>1. AccruedOnceADay'
  BY SameNew DEF AccruedOnceADay, New, Shrinks
<1>2. ASSUME ~crossed'
      PROVE  /\ \A j, k \in Job : at'[j] \in Accruing /\ at'[k] \in Accruing => j = k
             /\ \A i \in New' : accruals'[i].date <= clock'
             /\ \A j \in Job, i \in New' :
                   accruals'[i].account \in ToCome(j)' => accruals'[i].date < clock'
             /\ \A j \in Job : at'[j] \in {"list", "each", "insert"} => date'[j] = clock'
  <2>1. ~crossed /\ clock' = clock
    BY <1>2 DEF Shrinks
  <2>2. \A i \in New : accruals[i].account \in Account
    BY RowFacts
  <2>3. \A j \in Job, i \in New' :
            accruals'[i].account \in ToCome(j)' => accruals'[i].date < clock'
    BY <2>1, <2>2, SameNew DEF DatesFollowClock, Shrinks
  <2> QED
    BY <2>1, <2>3, SameNew DEF DatesFollowClock, Shrinks
<1> QED
  BY <1>1, <1>2 DEF DatesFollowClock

LEMMA ComingFinite ==
    \A a : IsFiniteSet(ComingFor(a)) /\ Cardinality(ComingFor(a)) \in Nat
<1> SUFFICES ASSUME NEW a
             PROVE  IsFiniteSet(ComingFor(a)) /\ Cardinality(ComingFor(a)) \in Nat
  OBVIOUS
<1>1. ComingFor(a) \subseteq Job /\ IsFiniteSet(Job)
  BY InterestAssumption DEF ComingFor
<1> QED
  BY <1>1, FS_Subset, FS_CardinalityType

LEMMA RowsFinite ==
    ASSUME TypeOK, NEW a
    PROVE  IsFiniteSet(RowsOf(a)) /\ Cardinality(RowsOf(a)) \in Nat
<1>1. RowsOf(a) \subseteq 1..Len(accruals) /\ IsFiniteSet(1..Len(accruals))
  BY RowFacts, FS_Interval DEF RowsOf
<1> QED
  BY <1>1, FS_Subset, FS_CardinalityType

LEMMA ShrinkKeepsDays ==
    ASSUME TypeOK, Shrinks, DaysAreSpent PROVE DaysAreSpent'
<1> SUFFICES ASSUME NEW a \in Account
             PROVE  Cardinality(RowsOf(a)') + Cardinality(ComingFor(a)') <= clock'
  BY DEF DaysAreSpent
<1>1. RowsOf(a)' = RowsOf(a)
  BY SameNew DEF RowsOf
<1>2. ComingFor(a)' \subseteq ComingFor(a)
  BY DEF ComingFor, Shrinks
<1>3. Cardinality(ComingFor(a)') <= Cardinality(ComingFor(a)) /\ Cardinality(ComingFor(a)') \in Nat
  BY <1>2, ComingFinite, FS_Subset, FS_CardinalityType
<1>4. /\ Cardinality(RowsOf(a)) + Cardinality(ComingFor(a)) <= clock
      /\ clock' = clock /\ clock \in Nat
      /\ Cardinality(RowsOf(a)) \in Nat /\ Cardinality(ComingFor(a)) \in Nat
  BY RowsFinite, ComingFinite DEF DaysAreSpent, Shrinks, TypeOK
<1> QED
  BY <1>1, <1>3, <1>4

-----------------------------------------------------------------------------
(* Types                                                                   *)

LEMMA DailyInt ==
    ASSUME TypeOK, NEW a \in Account PROVE Daily(a) \in Int
BY InterestInt, InterestAssumption DEF Daily, TypeOK

LEMMA OpenFacts ==
    ASSUME TypeOK, NEW a
    PROVE  /\ Open(a) \subseteq 1..Len(accruals) /\ Open(a) \subseteq Nat
           /\ \A i \in Open(a) : ~accruals[i].capitalized
BY RowFacts DEF Open, TypeOK

(* The sum of some rows.                                                   *)
Amounts == [i \in DOMAIN accruals |-> accruals[i].amount]

LEMMA SumOfRows ==
    ASSUME TypeOK, NEW rows, rows \subseteq 1..Len(accruals)
    PROVE  /\ IsFiniteSet(rows)
           /\ SumOf(rows) = SumFunctionOnSet(Amounts, rows)
           /\ SumOf(rows) \in Int
<1>1. IsFiniteSet(rows)
  <2>1. IsFiniteSet(1..Len(accruals))
    BY RowFacts, FS_Interval
  <2> QED
    BY <2>1, FS_Subset
<1> DEFINE f == [i \in rows |-> accruals[i].amount]
<1>2. /\ DOMAIN f = rows
      /\ \A i \in rows : f[i] = Amounts[i] /\ Amounts[i] \in Int
  <2>1. DOMAIN accruals = 1..Len(accruals)
    BY DEF TypeOK
  <2> QED
    BY <2>1, RowFacts DEF Amounts
<1>3. SumOf(rows) = SumFunction(f)
  BY DEF SumOf
<1> HIDE DEF f
<1> QED
  BY <1>1, <1>2, <1>3, SumFunctionIsOnDomain, SumSame, SumType

LEMMA CapitalizedRows ==
    ASSUME TypeOK, NEW rows, NEW s, s = Capitalized(rows)
    PROVE  /\ s \in Seq(Accrual) /\ Len(s) = Len(accruals)
           /\ DOMAIN s = 1..Len(accruals)
           /\ \A i \in 1..Len(accruals) :
                 /\ s[i].account = accruals[i].account
                 /\ s[i].date = accruals[i].date
                 /\ s[i].amount = accruals[i].amount
                 /\ s[i].capitalized = (accruals[i].capitalized \/ i \in rows)
<1>1. DOMAIN accruals = 1..Len(accruals) /\ Len(accruals) \in Nat
  BY DEF TypeOK
<1>2. ASSUME NEW i \in 1..Len(accruals)
      PROVE  /\ s[i] \in Accrual
             /\ s[i].account = accruals[i].account
             /\ s[i].date = accruals[i].date
             /\ s[i].amount = accruals[i].amount
             /\ s[i].capitalized = (accruals[i].capitalized \/ i \in rows)
  <2>1. s[i] = [accruals[i] EXCEPT !.capitalized = @ \/ i \in rows]
    BY <1>1 DEF Capitalized
  <2>2. accruals[i] \in Accrual
    BY RowFacts
  <2> QED
    BY <2>1, <2>2 DEF Accrual
<1>3. s = [i \in 1..Len(accruals) |-> s[i]]
  BY <1>1 DEF Capitalized
<1> HIDE DEF Accrual
<1>4. s \in Seq(Accrual) /\ Len(s) = Len(accruals)
  BY <1>1, <1>2, <1>3
<1> QED
  BY <1>1, <1>2, <1>3, <1>4

(* A job that ends.                                                        *)
LEMMA IdleType ==
    ASSUME TypeOK, NEW j \in Job, Idle(j),
           UNCHANGED <<clock, balance, active, accruals, earlier, crossed>>
    PROVE  TypeOK' /\ Shrinks
<1>1. /\ at'[j] = "idle"
      /\ \A k \in Job \ {j} :
            /\ at'[k] = at[k] /\ left'[k] = left[k] /\ date'[k] = date[k]
            /\ todo'[k] = todo[k] /\ current'[k] = current[k]
  BY DEF Idle, TypeOK
<1>2. /\ at' \in [Job -> {"idle"} \cup Accruing \cup Capitalizing]
      /\ left' \in [Job -> Nat] /\ date' \in [Job -> Nat]
      /\ todo' \in [Job -> SUBSET Account]
      /\ current' \in [Job -> Account \cup {NoAccount}]
      /\ found' \in [Job -> Int] /\ marked' \in [Job -> SUBSET Nat]
  BY DEF Idle, TypeOK
<1>3. left'[j] = 0
  BY DEF Idle, TypeOK
<1>4. TypeOK'
  <2>1. \A k \in Job : /\ left'[k] > 0 <=> at'[k] \in Accruing
                       /\ at'[k] \in {"insert", "mark", "commit"} => current'[k] \in Account
                       /\ at'[k] = "insert" => current'[k] \notin todo'[k]
    <3> TAKE k \in Job
    <3>1. CASE k = j
      BY <1>1, <1>3, <3>1 DEF Accruing
    <3>2. CASE k # j
      BY <1>1, <3>2 DEF TypeOK
    <3> QED
      BY <3>1, <3>2
  <2> QED
    BY <1>2, <2>1 DEF TypeOK
<1>5. Shrinks
  BY <1>1 DEF Shrinks, SameRows, ToCome, Accruing
<1> QED
  BY <1>4, <1>5

(* A job that goes on to its next place.                                   *)
LEMMA WalkType ==
    ASSUME TypeOK, NEW j \in Job,
           \/ Now(j) \/ ListToAccrue(j) \/ NextDay(j) \/ ListToCapitalize(j) \/ Mark(j)
    PROVE  TypeOK' /\ Shrinks
<1>1. CASE Now(j)
  <2>1. TypeOK'
    BY <1>1 DEF Now, TypeOK, Accruing
  <2>2. Shrinks
    BY <1>1 DEF Now, TypeOK, Shrinks, SameRows, ToCome, Accruing
  <2> QED
    BY <2>1, <2>2
<1>2. CASE ListToAccrue(j)
  <2>1. TypeOK'
    BY <1>2 DEF ListToAccrue, TypeOK, Accruing
  <2>2. Shrinks
    BY <1>2 DEF ListToAccrue, TypeOK, Shrinks, SameRows, ToCome, Accruing
  <2> QED
    BY <2>1, <2>2
<1>3. CASE NextDay(j)
  <2>1. TypeOK'
    BY <1>3 DEF NextDay, TypeOK, Accruing
  <2>2. Shrinks
    BY <1>3 DEF NextDay, TypeOK, Shrinks, SameRows, ToCome, Accruing
  <2> QED
    BY <2>1, <2>2
<1>4. CASE ListToCapitalize(j)
  <2>1. TypeOK'
    BY <1>4 DEF ListToCapitalize, MayStart, TypeOK, Accruing, Capitalizing
  <2>2. Shrinks
    BY <1>4 DEF ListToCapitalize, MayStart, TypeOK, Shrinks, SameRows, ToCome, Accruing
  <2> QED
    BY <2>1, <2>2
<1>5. CASE Mark(j)
  <2>1. Open(current[j]) \subseteq Nat
    BY OpenFacts
  <2>2. TypeOK'
    BY <1>5, <2>1 DEF Mark, TypeOK, Accruing, Capitalizing
  <2>3. Shrinks
    BY <1>5 DEF Mark, TypeOK, Shrinks, SameRows, ToCome, Accruing
  <2> QED
    BY <2>2, <2>3
<1> QED
  BY <1>1, <1>2, <1>3, <1>4, <1>5

LEMMA ReadType ==
    ASSUME TypeOK, NEW j \in Job, NEW a \in Account, ReadBalance(j, a) \/ SumOpen(j, a)
    PROVE  TypeOK' /\ Shrinks
<1> DEFINE d == Daily(a)
           o == SumOf(Open(a))
<1>1. d \in Int /\ o \in Int
  BY DailyInt, OpenFacts, SumOfRows
<1>2. CASE ReadBalance(j, a)
  <2>1. /\ at[j] = "each" /\ a \in todo[j]
        /\ todo' = [todo EXCEPT ![j] = @ \ {a}]
        /\ \/ UNCHANGED <<at, current, found>>
           \/ /\ at' = [at EXCEPT ![j] = "insert"]
              /\ current' = [current EXCEPT ![j] = a]
              /\ found' = [found EXCEPT ![j] = d]
        /\ UNCHANGED <<clock, balance, active, accruals, earlier, crossed, left, date, marked>>
    BY <1>2 DEF ReadBalance
  <2> HIDE DEF d, o
  <2>2. TypeOK'
    BY <1>1, <2>1 DEF TypeOK, Accruing
  <2>3. Shrinks
    BY <2>1 DEF TypeOK, Shrinks, SameRows, ToCome, Accruing
  <2> QED
    BY <2>2, <2>3
<1>3. CASE SumOpen(j, a)
  <2>1. /\ at[j] = "sum" /\ a \in todo[j]
        /\ todo' = [todo EXCEPT ![j] = @ \ {a}]
        /\ \/ UNCHANGED <<at, current, found>>
           \/ /\ at' = [at EXCEPT ![j] = "mark"]
              /\ current' = [current EXCEPT ![j] = a]
              /\ found' = [found EXCEPT ![j] = o]
        /\ UNCHANGED <<clock, balance, active, accruals, earlier, crossed, left, date, marked>>
    BY <1>3 DEF SumOpen
  <2> HIDE DEF d, o
  <2>2. TypeOK'
    <3>1. /\ at' \in [Job -> {"idle"} \cup Accruing \cup Capitalizing]
          /\ todo' \in [Job -> SUBSET Account]
          /\ current' \in [Job -> Account \cup {NoAccount}]
          /\ found' \in [Job -> Int]
      BY <1>1, <2>1 DEF TypeOK, Capitalizing
    <3>2. \A k \in Job : at'[k] \in Accruing \/ at[k] \in Accruing => at'[k] = at[k]
      BY <2>1 DEF TypeOK, Accruing
    <3>3. \A k \in Job : at'[k] \in {"insert", "mark", "commit"} => current'[k] \in Account
      BY <2>1 DEF TypeOK
    <3>4. \A k \in Job : at'[k] = "insert" => current'[k] \notin todo'[k]
      BY <2>1 DEF TypeOK
    <3> QED
      BY <2>1, <3>1, <3>2, <3>3, <3>4 DEF TypeOK
  <2>3. Shrinks
    BY <2>1 DEF TypeOK, Shrinks, SameRows, ToCome, Accruing
  <2> QED
    BY <2>2, <2>3
<1> QED
  BY <1>2, <1>3

LEMMA CommitType ==
    ASSUME TypeOK, NEW j \in Job, CommitInterest(j) PROVE TypeOK' /\ Shrinks
<1>1. /\ at[j] = "commit" /\ at' = [at EXCEPT ![j] = "sum"]
      /\ balance' = [balance EXCEPT ![Expense] = @ - found[j],
                                    ![current[j]] = @ + found[j]]
      /\ accruals' = Capitalized(marked[j])
      /\ current' = [current EXCEPT ![j] = NoAccount]
      /\ found' = [found EXCEPT ![j] = 0]
      /\ marked' = [marked EXCEPT ![j] = {}]
      /\ UNCHANGED <<clock, active, earlier, crossed, left, date, todo>>
  BY DEF CommitInterest
<1>2. /\ accruals' \in Seq(Accrual) /\ Len(accruals') = Len(accruals)
      /\ SameRows
  BY <1>1, CapitalizedRows DEF SameRows
<1>3. balance' \in [Account \cup {Expense} -> Int]
  BY <1>1, InterestAssumption DEF TypeOK
<1>4. TypeOK'
  <2>1. /\ clock' \in Nat /\ active' \subseteq Account /\ crossed' \in BOOLEAN
        /\ earlier' \in 0..Len(accruals')
    BY <1>1, <1>2 DEF TypeOK
  <2>2. /\ at' \in [Job -> {"idle"} \cup Accruing \cup Capitalizing]
        /\ left' \in [Job -> Nat] /\ date' \in [Job -> Nat]
        /\ todo' \in [Job -> SUBSET Account]
        /\ current' \in [Job -> Account \cup {NoAccount}]
        /\ found' \in [Job -> Int] /\ marked' \in [Job -> SUBSET Nat]
    BY <1>1 DEF TypeOK, Capitalizing
  <2>3. \A k \in Job : /\ left'[k] > 0 <=> at'[k] \in Accruing
                       /\ at'[k] \in {"insert", "mark", "commit"} => current'[k] \in Account
                       /\ at'[k] = "insert" => current'[k] \notin todo'[k]
    BY <1>1 DEF TypeOK, Accruing
  <2> QED
    BY <1>2, <1>3, <2>1, <2>2, <2>3 DEF TypeOK
<1>5. Shrinks
  BY <1>1, <1>2 DEF TypeOK, Shrinks, ToCome, Accruing
<1> QED
  BY <1>4, <1>5

LEMMA OthersType ==
    ASSUME TypeOK, NEW a \in Account,
           \/ \E n \in Teller : Deposit(a, n) \/ Withdraw(a, n)
           \/ SetActive(a)
    PROVE  TypeOK' /\ Shrinks
<1>1. /\ UNCHANGED <<clock, accruals, earlier, crossed, jobVars>>
      /\ active' \subseteq Account
      /\ balance' \in [Account \cup {Expense} -> Int]
  <2>1. ASSUME NEW n \in Teller, Deposit(a, n)
        PROVE  balance' \in [Account \cup {Expense} -> Int]
    BY <2>1, InterestAssumption DEF Deposit, TypeOK
  <2>2. ASSUME NEW n \in Teller, Withdraw(a, n)
        PROVE  balance' \in [Account \cup {Expense} -> Int]
    BY <2>2, InterestAssumption DEF Withdraw, TypeOK
  <2>3. CASE SetActive(a)
    BY <2>3 DEF SetActive, TypeOK
  <2> QED
    BY <2>1, <2>2, <2>3 DEF Deposit, Withdraw, TypeOK
<1>2. TypeOK'
  BY <1>1 DEF TypeOK, jobVars
<1>3. Shrinks
  BY <1>1 DEF Shrinks, SameRows, ToCome, jobVars
<1> QED
  BY <1>2, <1>3

-----------------------------------------------------------------------------
(* The steps that begin an advance, move the clock, insert and forget      *)

LEMMA StartKeeps ==
    ASSUME TypeOK, DatesFollowClock, AccruedOnceADay, DaysAreSpent,
           NEW j \in Job, NEW n \in Days, StartAdvance(j, n)
    PROVE  TypeOK' /\ DatesFollowClock' /\ AccruedOnceADay' /\ DaysAreSpent'
<1>1. /\ at[j] = "idle" /\ n \in Nat /\ n > 0
      /\ crossed' = (crossed \/ \E k \in Job : left[k] > 0)
      /\ at' = [at EXCEPT ![j] = "tick"]
      /\ left' = [left EXCEPT ![j] = n]
      /\ UNCHANGED <<clock, balance, active, accruals, earlier,
                     date, todo, current, found, marked>>
  BY InterestAssumption DEF StartAdvance, MayAdvance, MayStart
<1>2. TypeOK'
  BY <1>1 DEF TypeOK, Accruing
<1>3. /\ New' = New /\ \A k \in Job : ToCome(k)' = ToCome(k)
  BY <1>1 DEF New, ToCome, TypeOK
<1>4. DatesFollowClock'
  <2>1. ASSUME ~crossed'
        PROVE  \A i, k \in Job : at'[i] \in Accruing /\ at'[k] \in Accruing => i = k
    BY <1>1, <2>1 DEF TypeOK
  <2> QED
    BY <1>1, <1>3, <2>1 DEF DatesFollowClock, TypeOK
<1>5. AccruedOnceADay'
  BY <1>1 DEF AccruedOnceADay
<1>6. DaysAreSpent'
  <2>1. ASSUME NEW a PROVE RowsOf(a)' = RowsOf(a) /\ ComingFor(a)' = ComingFor(a)
    BY <1>1, <1>3 DEF RowsOf, ComingFor
  <2> QED
    BY <1>1, <2>1 DEF DaysAreSpent
<1> QED
  BY <1>2, <1>4, <1>5, <1>6

LEMMA TickKeeps ==
    ASSUME TypeOK, DatesFollowClock, AccruedOnceADay, DaysAreSpent,
           NEW j \in Job, Tick(j)
    PROVE  TypeOK' /\ DatesFollowClock' /\ AccruedOnceADay' /\ DaysAreSpent'
<1>1. /\ at[j] = "tick" /\ at' = [at EXCEPT ![j] = "now"]
      /\ clock' = clock + 1
      /\ UNCHANGED <<balance, active, accruals, earlier, crossed,
                     left, date, todo, current, found, marked>>
  BY DEF Tick
<1>2. TypeOK'
  BY <1>1 DEF TypeOK, Accruing
<1>3. /\ New' = New /\ \A k \in Job \ {j} : at'[k] = at[k] /\ ToCome(k)' = ToCome(k)
  BY <1>1 DEF New, ToCome, TypeOK
<1>4. DatesFollowClock'
  <2> SUFFICES ASSUME ~crossed
               PROVE  /\ \A i, k \in Job : at'[i] \in Accruing /\ at'[k] \in Accruing => i = k
                      /\ \A i \in New : accruals[i].date <= clock'
                      /\ \A k \in Job, i \in New :
                            accruals[i].account \in ToCome(k)' => accruals[i].date < clock'
                      /\ \A k \in Job : at'[k] \in {"list", "each", "insert"} =>
                            date[k] = clock'
    BY <1>1, <1>3 DEF DatesFollowClock
  <2>1. \A i \in New : accruals[i].date \in Nat /\ accruals[i].date <= clock /\ clock \in Nat
    BY RowFacts DEF DatesFollowClock, TypeOK
  <2>2. \A k \in Job \ {j} : at[k] \notin Accruing
    BY <1>1 DEF DatesFollowClock, Accruing
  <2>3. at'[j] = "now"
    BY <1>1 DEF TypeOK
  <2> QED
    BY <1>1, <1>3, <2>1, <2>2, <2>3 DEF Accruing
<1>5. AccruedOnceADay'
  BY <1>1 DEF AccruedOnceADay
<1>6. DaysAreSpent'
  <2> SUFFICES ASSUME NEW a \in Account
               PROVE  Cardinality(RowsOf(a)') + Cardinality(ComingFor(a)') <= clock'
    BY DEF DaysAreSpent
  <2>1. RowsOf(a)' = RowsOf(a)
    BY <1>1, <1>3 DEF RowsOf
  <2>2. ComingFor(a)' = ComingFor(a) \cup {j} /\ j \notin ComingFor(a)
    BY <1>1, <1>3 DEF ComingFor, ToCome, TypeOK
  <2>3. Cardinality(ComingFor(a)') = Cardinality(ComingFor(a)) + 1
    BY <2>2, ComingFinite, FS_AddElement
  <2>4. /\ Cardinality(RowsOf(a)) + Cardinality(ComingFor(a)) <= clock /\ clock \in Nat
        /\ Cardinality(RowsOf(a)) \in Nat /\ Cardinality(ComingFor(a)) \in Nat
    BY RowsFinite, ComingFinite DEF DaysAreSpent, TypeOK
  <2> QED
    BY <1>1, <2>1, <2>3, <2>4
<1> QED
  BY <1>2, <1>4, <1>5, <1>6

LEMMA InsertFacts ==
    ASSUME TypeOK, NEW j \in Job, InsertAccrual(j)
    PROVE  /\ TypeOK'
           /\ New' = New \cup {Len(accruals) + 1} /\ Len(accruals) + 1 \notin New
           /\ \A i \in New : accruals'[i] = accruals[i]
           /\ accruals'[Len(accruals) + 1] =
                 [account |-> current[j], date |-> date[j],
                  amount |-> found[j], capitalized |-> FALSE]
           /\ current[j] \in ToCome(j) /\ ToCome(j)' = ToCome(j) \ {current[j]}
           /\ \A k \in Job \ {j} : at'[k] = at[k] /\ ToCome(k)' = ToCome(k)
<1> DEFINE e == [account |-> current[j], date |-> date[j],
                 amount |-> found[j], capitalized |-> FALSE]
<1>1. /\ at[j] = "insert" /\ at' = [at EXCEPT ![j] = "each"]
      /\ accruals' = Append(accruals, e)
      /\ current' = [current EXCEPT ![j] = NoAccount]
      /\ found' = [found EXCEPT ![j] = 0]
      /\ UNCHANGED <<clock, balance, active, earlier, crossed, left, date, todo, marked>>
  BY DEF InsertAccrual
<1>2. e \in Accrual
  BY <1>1 DEF TypeOK, Accrual
<1> HIDE DEF e
<1>3. /\ accruals' \in Seq(Accrual) /\ Len(accruals') = Len(accruals) + 1
      /\ accruals'[Len(accruals) + 1] = e
      /\ \A i \in 1..Len(accruals) : accruals'[i] = accruals[i]
  <2> HIDE DEF Accrual
  <2>1. accruals \in Seq(Accrual)
    BY DEF TypeOK
  <2> QED
    BY <1>1, <1>2, <2>1
<1>4. TypeOK'
  <2>1. earlier' \in 0..Len(accruals')
    BY <1>1, <1>3, RowFacts
  <2>2. /\ at' \in [Job -> {"idle"} \cup Accruing \cup Capitalizing]
        /\ current' \in [Job -> Account \cup {NoAccount}]
        /\ found' \in [Job -> Int]
    BY <1>1 DEF TypeOK, Accruing
  <2>3. \A k \in Job : /\ left'[k] > 0 <=> at'[k] \in Accruing
                       /\ at'[k] \in {"insert", "mark", "commit"} => current'[k] \in Account
                       /\ at'[k] = "insert" => current'[k] \notin todo'[k]
    BY <1>1 DEF TypeOK, Accruing
  <2> QED
    BY <1>1, <1>3, <2>1, <2>2, <2>3 DEF TypeOK
<1>5. /\ New' = New \cup {Len(accruals) + 1} /\ Len(accruals) + 1 \notin New
      /\ \A i \in New : accruals'[i] = accruals[i]
  BY <1>1, <1>3, RowFacts DEF New
<1>6. /\ current[j] \in ToCome(j) /\ ToCome(j)' = ToCome(j) \ {current[j]}
      /\ \A k \in Job \ {j} : at'[k] = at[k] /\ ToCome(k)' = ToCome(k)
  BY <1>1 DEF ToCome, TypeOK
<1> QED
  BY <1>3, <1>4, <1>5, <1>6 DEF e

LEMMA InsertKeepsDates ==
    ASSUME TypeOK, DatesFollowClock, AccruedOnceADay, NEW j \in Job, InsertAccrual(j)
    PROVE  DatesFollowClock' /\ AccruedOnceADay'
<1>1. CASE crossed
  BY <1>1 DEF InsertAccrual, DatesFollowClock, AccruedOnceADay
<1>2. CASE ~crossed
  <2> DEFINE n == Len(accruals) + 1
  <2>1. /\ at[j] = "insert" /\ at'[j] = "each"
        /\ UNCHANGED <<clock, crossed, date>>
        /\ \A k \in Job \ {j} : at[k] \notin Accruing /\ at'[k] = at[k]
        /\ date[j] = clock /\ clock \in Nat
    BY <1>2, InsertFacts DEF InsertAccrual, DatesFollowClock, Accruing, TypeOK
  <2>2. accruals'[n].account = current[j] /\ accruals'[n].date = clock
    <3>1. accruals'[n] = [account |-> current[j], date |-> date[j],
                          amount |-> found[j], capitalized |-> FALSE]
      BY InsertFacts, Zenon
    <3> QED
      BY <2>1, <3>1
  <2>3. \A k \in Job \ {j} : ToCome(k)' = {}
    BY <2>1 DEF ToCome, Accruing
  <2>4. /\ New' = New \cup {n} /\ \A i \in New : accruals'[i] = accruals[i]
        /\ ToCome(j)' = ToCome(j) \ {current[j]} /\ current[j] \in ToCome(j)
    BY InsertFacts
  <2> HIDE DEF n
  <2>5. \A i \in New : accruals[i].date \in Nat
    BY RowFacts
  <2>6. DatesFollowClock'
    <3>1. \A i, k \in Job : at'[i] \in Accruing /\ at'[k] \in Accruing => i = k
      BY <2>1
    <3>2. \A i \in New' : accruals'[i].date <= clock
      BY <1>2, <2>1, <2>2, <2>4 DEF DatesFollowClock
    <3>3. \A k \in Job, i \in New' :
              accruals'[i].account \in ToCome(k)' => accruals'[i].date < clock
      BY <1>2, <2>1, <2>2, <2>3, <2>4 DEF DatesFollowClock
    <3>4. \A k \in Job : at'[k] \in {"list", "each", "insert"} => date'[k] = clock
      BY <2>1 DEF Accruing
    <3> QED
      BY <2>1, <3>1, <3>2, <3>3, <3>4 DEF DatesFollowClock
  <2>7. AccruedOnceADay'
    <3>1. \A i \in New : accruals[i].account = current[j] => accruals[i].date < clock
      BY <1>2, <2>4 DEF DatesFollowClock
    <3>2. \A i, k \in New' : /\ accruals'[i].account = accruals'[k].account
                             /\ accruals'[i].date = accruals'[k].date
                             => i = k
      <4>1. \A i, k \in New : /\ accruals[i].account = accruals[k].account
                              /\ accruals[i].date = accruals[k].date
                              => i = k
        BY <1>2 DEF AccruedOnceADay, New
      <4> QED
        BY <2>1, <2>2, <2>4, <2>5, <3>1, <4>1
    <3> QED
      BY <3>2 DEF AccruedOnceADay, New
  <2> QED
    BY <2>6, <2>7
<1> QED
  BY <1>1, <1>2

LEMMA InsertKeepsDays ==
    ASSUME TypeOK, DaysAreSpent, NEW j \in Job, InsertAccrual(j)
    PROVE  DaysAreSpent'
<1> SUFFICES ASSUME NEW a \in Account
             PROVE  Cardinality(RowsOf(a)') + Cardinality(ComingFor(a)') <= clock'
  BY DEF DaysAreSpent
<1> DEFINE n == Len(accruals) + 1
<1>1. /\ New' = New \cup {n} /\ n \notin New /\ \A i \in New : accruals'[i] = accruals[i]
      /\ accruals'[n].account = current[j]
      /\ ToCome(j)' = ToCome(j) \ {current[j]} /\ current[j] \in ToCome(j)
      /\ \A k \in Job \ {j} : ToCome(k)' = ToCome(k)
      /\ clock' = clock
  <2>1. accruals'[n].account = current[j]
    <3>1. accruals'[n] = [account |-> current[j], date |-> date[j],
                          amount |-> found[j], capitalized |-> FALSE]
      BY InsertFacts, Zenon
    <3> QED
      BY <3>1
  <2>2. clock' = clock
    BY DEF InsertAccrual
  <2> QED
    BY <2>1, <2>2, InsertFacts, Zenon
<1>2. /\ Cardinality(RowsOf(a)) + Cardinality(ComingFor(a)) <= clock /\ clock \in Nat
      /\ IsFiniteSet(RowsOf(a)) /\ IsFiniteSet(ComingFor(a))
      /\ Cardinality(RowsOf(a)) \in Nat /\ Cardinality(ComingFor(a)) \in Nat
  BY RowsFinite, ComingFinite DEF DaysAreSpent, TypeOK
<1> HIDE DEF n
<1>3. CASE a = current[j]
  <2>1. RowsOf(a)' = RowsOf(a) \cup {n} /\ n \notin RowsOf(a)
    BY <1>1, <1>3 DEF RowsOf
  <2>2. ComingFor(a)' = ComingFor(a) \ {j} /\ j \in ComingFor(a)
    BY <1>1, <1>3 DEF ComingFor
  <2>3. Cardinality(RowsOf(a)') = Cardinality(RowsOf(a)) + 1
    BY <1>2, <2>1, FS_AddElement
  <2>4. Cardinality(ComingFor(a)') = Cardinality(ComingFor(a)) - 1
    BY <1>2, <2>2, FS_RemoveElement
  <2> QED
    BY <1>1, <1>2, <2>3, <2>4
<1>4. CASE a # current[j]
  <2>1. RowsOf(a)' = RowsOf(a) /\ ComingFor(a)' = ComingFor(a)
    BY <1>1, <1>4 DEF RowsOf, ComingFor
  <2> QED
    BY <1>1, <1>2, <2>1
<1> QED
  BY <1>3, <1>4

LEMMA RestartKeeps ==
    ASSUME TypeOK, Restart
    PROVE  TypeOK' /\ DatesFollowClock' /\ AccruedOnceADay' /\ DaysAreSpent'
<1>1. /\ clock' = 0 /\ earlier' = Len(accruals) /\ crossed' = FALSE
      /\ UNCHANGED <<balance, active, accruals>>
      /\ \A j \in Job : at'[j] = "idle" /\ left'[j] = 0
  BY DEF Restart, ClockAtStart
<1>2. TypeOK'
  <2>1. earlier' \in 0..Len(accruals')
    BY <1>1, RowFacts
  <2>2. /\ at' \in [Job -> {"idle"} \cup Accruing \cup Capitalizing]
        /\ left' \in [Job -> Nat] /\ date' \in [Job -> Nat]
        /\ todo' \in [Job -> SUBSET Account]
        /\ current' \in [Job -> Account \cup {NoAccount}]
        /\ found' \in [Job -> Int] /\ marked' \in [Job -> SUBSET Nat]
    BY DEF Restart
  <2>3. clock' \in Nat /\ crossed' \in BOOLEAN
    BY <1>1
  <2>4. \A j \in Job : /\ left'[j] > 0 <=> at'[j] \in Accruing
                       /\ at'[j] \in {"insert", "mark", "commit"} => current'[j] \in Account
                       /\ at'[j] = "insert" => current'[j] \notin todo'[j]
    BY <1>1 DEF Accruing
  <2> QED
    BY <1>1, <2>1, <2>2, <2>3, <2>4 DEF TypeOK
<1>3. New' = {} /\ Len(accruals) \in Nat
  BY <1>1, RowFacts DEF New
<1>4. \A j \in Job : ToCome(j)' = {}
  BY <1>1 DEF ToCome
<1>5. DatesFollowClock'
  BY <1>1, <1>3 DEF DatesFollowClock, Accruing
<1>6. AccruedOnceADay'
  BY <1>1, <1>3 DEF AccruedOnceADay, New
<1>7. DaysAreSpent'
  <2> SUFFICES ASSUME NEW a \in Account
               PROVE  Cardinality(RowsOf(a)') + Cardinality(ComingFor(a)') <= clock'
    BY DEF DaysAreSpent
  <2>1. RowsOf(a)' = {} /\ ComingFor(a)' = {}
    BY <1>3, <1>4 DEF RowsOf, ComingFor
  <2> QED
    BY <1>1, <2>1, FS_EmptySet
<1> QED
  BY <1>2, <1>5, <1>6, <1>7

-----------------------------------------------------------------------------
(* Accruals and days, whatever jobs overlap                                *)

IInv == TypeOK /\ DatesFollowClock /\ AccruedOnceADay /\ DaysAreSpent

LEMMA InitGood == Init => IInv
<1> SUFFICES ASSUME Init PROVE IInv
  OBVIOUS
<1>1. TypeOK
  <2>1. balance \in [Account \cup {Expense} -> Int] /\ accruals \in Seq(Accrual)
        /\ Len(accruals) = 0
    BY InterestAssumption DEF Init
  <2>2. earlier \in 0..Len(accruals)
    BY <2>1 DEF Init
  <2>3. /\ at \in [Job -> {"idle"} \cup Accruing \cup Capitalizing]
        /\ left \in [Job -> Nat] /\ date \in [Job -> Nat]
        /\ todo \in [Job -> SUBSET Account]
        /\ current \in [Job -> Account \cup {NoAccount}]
        /\ found \in [Job -> Int] /\ marked \in [Job -> SUBSET Nat]
    BY DEF Init
  <2>4. \A j \in Job : left[j] = 0 /\ at[j] = "idle"
    BY DEF Init
  <2>5. \A j \in Job : /\ left[j] > 0 <=> at[j] \in Accruing
                       /\ at[j] \in {"insert", "mark", "commit"} => current[j] \in Account
                       /\ at[j] = "insert" => current[j] \notin todo[j]
    BY <2>4 DEF Accruing
  <2>6. clock \in Nat /\ active \subseteq Account /\ crossed \in BOOLEAN
    BY DEF Init
  <2> QED
    BY <2>1, <2>2, <2>3, <2>5, <2>6 DEF TypeOK
<1>2. New = {}
  BY DEF Init, New
<1>3. \A j \in Job : ToCome(j) = {}
  BY DEF Init, ToCome
<1>4. DatesFollowClock /\ AccruedOnceADay
  BY <1>2, <1>3 DEF Init, DatesFollowClock, AccruedOnceADay, New, Accruing
<1>5. DaysAreSpent
  <2> SUFFICES ASSUME NEW a \in Account
               PROVE  Cardinality(RowsOf(a)) + Cardinality(ComingFor(a)) <= clock
    BY DEF DaysAreSpent
  <2>1. RowsOf(a) = {} /\ ComingFor(a) = {}
    BY <1>2, <1>3 DEF RowsOf, ComingFor
  <2> QED
    BY <2>1, FS_EmptySet DEF Init
<1> QED
  BY <1>1, <1>4, <1>5 DEF IInv

LEMMA ShrinkKeeps == ASSUME IInv, TypeOK' /\ Shrinks PROVE IInv'
BY ShrinkKeepsDates, ShrinkKeepsDays DEF IInv

LEMMA StepKeeps == IInv /\ [Next]_vars => IInv'
<1> SUFFICES ASSUME IInv, [Next]_vars PROVE IInv'
  OBVIOUS
<1>1. ASSUME NEW j \in Job, NEW n \in Days, StartAdvance(j, n) PROVE IInv'
  BY <1>1, StartKeeps DEF IInv
<1>2. ASSUME NEW j \in Job, Tick(j) PROVE IInv'
  BY <1>2, TickKeeps DEF IInv
<1>3. ASSUME NEW j \in Job, InsertAccrual(j) PROVE IInv'
  BY <1>3, InsertFacts, InsertKeepsDates, InsertKeepsDays DEF IInv
<1>4. ASSUME Restart PROVE IInv'
  BY <1>4, RestartKeeps DEF IInv
<1>5. ASSUME NEW j \in Job,
             \/ Now(j) \/ ListToAccrue(j) \/ NextDay(j) \/ ListToCapitalize(j) \/ Mark(j)
      PROVE  IInv'
  BY <1>5, WalkType, ShrinkKeeps DEF IInv
<1>6. ASSUME NEW j \in Job, LastDay(j) \/ AllCapitalized(j) \/ Abort(j) PROVE IInv'
  BY <1>6, IdleType, ShrinkKeeps DEF IInv, LastDay, AllCapitalized, Abort
<1>7. ASSUME NEW j \in Job, NEW a \in Account, ReadBalance(j, a) \/ SumOpen(j, a)
      PROVE  IInv'
  BY <1>7, ReadType, ShrinkKeeps DEF IInv
<1>8. ASSUME NEW j \in Job, CommitInterest(j) PROVE IInv'
  BY <1>8, CommitType, ShrinkKeeps DEF IInv
<1>9. ASSUME NEW a \in Account \ Quiet,
             \/ \E n \in Teller : Deposit(a, n) \/ Withdraw(a, n)
             \/ SetActive(a)
      PROVE  IInv'
  BY <1>9, OthersType, ShrinkKeeps DEF IInv
<1>10. CASE UNCHANGED vars
  <2>1. TypeOK'
    BY <1>10 DEF IInv, TypeOK, vars, jobVars
  <2>2. Shrinks
    BY <1>10 DEF Shrinks, SameRows, ToCome, vars, jobVars
  <2> QED
    BY <2>1, <2>2, ShrinkKeeps
<1> QED
  BY <1>1, <1>2, <1>3, <1>4, <1>5, <1>6, <1>7, <1>8, <1>9, <1>10 DEF Next

LEMMA IInvHolds == Spec => []IInv
BY InitGood, StepKeeps, PTL DEF Spec

(* No account gets two accruals for one business date, however many days   *)
(* are advanced, jobs fail half-way and are asked for again, unless two    *)
(* advances overlapped or the process was restarted.                       *)
THEOREM InterestOnceADay == Spec => []AccruedOnceADay
<1>1. IInv => AccruedOnceADay
  BY DEF IInv
<1> QED
  BY <1>1, IInvHolds, PTL

(* However advances overlap, no account earns more days of interest than   *)
(* the clock has moved on.                                                 *)
THEOREM InterestNoExtraDays == Spec => []NoExtraDays
<1>1. IInv => NoExtraDays
  <2> SUFFICES ASSUME IInv, NEW a \in Account
               PROVE  Cardinality(RowsOf(a)) <= clock
    BY DEF NoExtraDays, RowsOf, New
  <2>1. /\ Cardinality(RowsOf(a)) + Cardinality(ComingFor(a)) <= clock /\ clock \in Nat
        /\ Cardinality(RowsOf(a)) \in Nat /\ Cardinality(ComingFor(a)) \in Nat
    BY RowsFinite, ComingFinite DEF IInv, DaysAreSpent, TypeOK
  <2> QED
    BY <2>1
<1> QED
  BY <1>1, IInvHolds, PTL

-----------------------------------------------------------------------------
(* Payments, when no capitalization overlaps another job                   *)

PaidRows == {i \in DOMAIN accruals : accruals[i].capitalized}

CapitalizesAlone ==
    \A j \in Job : at[j] \in Capitalizing => \A k \in Job \ {j} : at[k] = "idle"

(* What a capitalization is about to pay is what its rows add up to, and   *)
(* none of them has been paid.                                             *)
KnowsRows(j) ==
    /\ at[j] = "mark" => found[j] = SumOf(Open(current[j]))
    /\ at[j] = "commit" =>
          /\ marked[j] \subseteq 1..Len(accruals)
          /\ marked[j] \cap PaidRows = {}
          /\ found[j] = SumOf(marked[j])

FoundIsOpen == \A j \in Job : KnowsRows(j)

(* An account that nobody touches has its accrual once an advance has come *)
(* to it.                                                                  *)
Accrued(a, d) == \E i \in New : accruals[i].account = a /\ accruals[i].date = d

QuietAccrued ==
    /\ Quiet \subseteq active
    /\ \A j \in Job : at[j] \in {"each", "insert"} =>
          \A a \in Quiet : a \notin ToCome(j) /\ Daily(a) # 0 => Accrued(a, date[j])

PInv == IInv /\ CapitalizesAlone /\ FoundIsOpen /\ PaidWhatAccrued /\ QuietAccrued

LEMMA AloneKept ==
    ASSUME "overlap" \notin MayHappen, TypeOK, CapitalizesAlone, [Next]_vars
    PROVE  CapitalizesAlone'
<1>1. ASSUME NEW j \in Job, NEW n \in Days, StartAdvance(j, n) PROVE CapitalizesAlone'
  BY <1>1 DEF StartAdvance, MayAdvance, MayStart, CapitalizesAlone, Capitalizing, TypeOK
<1>2. ASSUME NEW j \in Job, ListToCapitalize(j) PROVE CapitalizesAlone'
  BY <1>2 DEF ListToCapitalize, MayStart, CapitalizesAlone, Capitalizing, TypeOK
<1>3. ASSUME NEW j \in Job, NEW p, at' = [at EXCEPT ![j] = p], at[j] # "idle",
             p \in Capitalizing => at[j] \in Capitalizing
      PROVE  CapitalizesAlone'
  BY <1>3 DEF CapitalizesAlone, TypeOK, Capitalizing
<1>4. ASSUME UNCHANGED at PROVE CapitalizesAlone'
  BY <1>4 DEF CapitalizesAlone
<1>5. ASSUME NEW j \in Job,
             \/ Tick(j) \/ Now(j) \/ ListToAccrue(j) \/ InsertAccrual(j) \/ NextDay(j)
             \/ LastDay(j) \/ AllCapitalized(j) \/ Abort(j)
      PROVE  CapitalizesAlone'
  BY <1>3, <1>5 DEF Tick, Now, ListToAccrue, InsertAccrual, NextDay, LastDay,
                    AllCapitalized, Abort, Idle, Capitalizing
<1>6. ASSUME NEW j \in Job, Mark(j) \/ CommitInterest(j) PROVE CapitalizesAlone'
  BY <1>3, <1>6 DEF Mark, CommitInterest, Capitalizing
<1>7. ASSUME NEW j \in Job, NEW a \in Account, ReadBalance(j, a) \/ SumOpen(j, a)
      PROVE  CapitalizesAlone'
  <2>1. CASE UNCHANGED at
    BY <1>4, <2>1
  <2>2. CASE at[j] = "each" /\ at' = [at EXCEPT ![j] = "insert"]
    BY <1>3, <2>2 DEF Capitalizing
  <2>3. CASE at[j] = "sum" /\ at' = [at EXCEPT ![j] = "mark"]
    BY <1>3, <2>3 DEF Capitalizing
  <2> QED
    BY <1>7, <2>1, <2>2, <2>3 DEF ReadBalance, SumOpen
<1>8. ASSUME NEW a \in Account,
             \/ \E n \in Teller : Deposit(a, n) \/ Withdraw(a, n)
             \/ SetActive(a)
      PROVE  CapitalizesAlone'
  BY <1>4, <1>8 DEF Deposit, Withdraw, SetActive, jobVars
<1>9. ASSUME Restart PROVE CapitalizesAlone'
  BY <1>9 DEF Restart, CapitalizesAlone, Capitalizing
<1>10. CASE UNCHANGED vars
  BY <1>4, <1>10 DEF vars, jobVars
<1> QED
  BY <1>1, <1>2, <1>5, <1>6, <1>7, <1>8, <1>9, <1>10 DEF Next

LEMMA SumOfUnion ==
    ASSUME TypeOK, NEW R, R \subseteq 1..Len(accruals),
           NEW S, S \subseteq 1..Len(accruals), R \cap S = {}
    PROVE  SumOf(R \cup S) = SumOf(R) + SumOf(S)
<1>1. /\ IsFiniteSet(R) /\ SumOf(R) = SumFunctionOnSet(Amounts, R)
      /\ IsFiniteSet(S) /\ SumOf(S) = SumFunctionOnSet(Amounts, S)
  BY SumOfRows
<1>2. SumOf(R \cup S) = SumFunctionOnSet(Amounts, R \cup S)
  <2>1. R \cup S \subseteq 1..Len(accruals)
    OBVIOUS
  <2> QED
    BY <2>1, SumOfRows
<1>3. \A i \in R \cup S : Amounts[i] \in Int
  BY RowFacts DEF Amounts, TypeOK
<1>4. IsFiniteSet(R) /\ IsFiniteSet(S)
  BY <1>1
<1> DEFINE f == Amounts
<1>5. \A i \in R \cup S : f[i] \in Int
  BY <1>3
<1> HIDE DEF f
<1>6. SumFunctionOnSet(f, R \cup S) = SumFunctionOnSet(f, R) + SumFunctionOnSet(f, S)
  BY <1>4, <1>5, SumUnion
<1> QED
  BY <1>1, <1>2, <1>6, Zenon DEF f

(* What jobs know of the rows stays true as long as the rows are the same. *)
LEMMA PaidStays ==
    ASSUME PInv, UNCHANGED accruals, balance'[Expense] = balance[Expense],
           \A j \in Job : at'[j] \in {"mark", "commit"} =>
               /\ at'[j] = at[j] /\ found'[j] = found[j]
               /\ current'[j] = current[j] /\ marked'[j] = marked[j]
    PROVE  FoundIsOpen' /\ PaidWhatAccrued'
<1>1. PaidRows' = PaidRows
  BY DEF PaidRows
<1>2. PaidWhatAccrued'
  BY DEF PInv, PaidWhatAccrued, SumOf
<1>3. ASSUME NEW j \in Job PROVE KnowsRows(j)'
  <2>1. CASE at'[j] = "mark"
    <3>1. /\ at[j] = "mark" /\ found'[j] = found[j] /\ current'[j] = current[j]
          /\ found[j] = SumOf(Open(current[j]))
      BY <2>1 DEF PInv, FoundIsOpen, KnowsRows
    <3>2. Open(current[j])' = Open(current[j])
      BY <3>1 DEF Open
    <3>3. SumOf(Open(current[j]))' = SumOf(Open(current[j]))
      BY <3>2 DEF SumOf
    <3> QED
      BY <2>1, <3>1, <3>3 DEF KnowsRows
  <2>2. CASE at'[j] = "commit"
    <3>1. /\ at[j] = "commit" /\ found'[j] = found[j] /\ marked'[j] = marked[j]
          /\ found[j] = SumOf(marked[j])
          /\ marked[j] \subseteq 1..Len(accruals) /\ marked[j] \cap PaidRows = {}
      BY <2>2 DEF PInv, FoundIsOpen, KnowsRows
    <3>2. SumOf(marked[j])' = SumOf(marked[j])
      BY <3>1 DEF SumOf
    <3> QED
      BY <1>1, <2>2, <3>1, <3>2 DEF KnowsRows
  <2> QED
    BY <2>1, <2>2 DEF KnowsRows
<1> QED
  BY <1>2, <1>3 DEF FoundIsOpen

(* Nobody is about to pay anything, and nothing was paid.                  *)
LEMMA NoneAtWork ==
    ASSUME PInv, \A j \in Job : at'[j] \notin {"mark", "commit"}
    PROVE  FoundIsOpen'
BY DEF FoundIsOpen, KnowsRows

LEMMA InsertPaysNothing ==
    ASSUME PInv, NEW j \in Job, InsertAccrual(j)
    PROVE  FoundIsOpen' /\ PaidWhatAccrued'
<1> USE DEF PInv, IInv
<1>1. at[j] = "insert" /\ at'[j] = "each" /\ \A k \in Job \ {j} : at'[k] = at[k]
  BY DEF InsertAccrual, TypeOK
<1>2. \A k \in Job : at'[k] \notin {"mark", "commit"}
  BY <1>1 DEF CapitalizesAlone, Capitalizing
<1> DEFINE n == Len(accruals) + 1
<1>3. /\ DOMAIN accruals = 1..Len(accruals) /\ DOMAIN accruals' = 1..n
      /\ \A i \in 1..Len(accruals) : accruals'[i] = accruals[i]
      /\ accruals'[n].capitalized = FALSE
      /\ Len(accruals) \in Nat
  <2>1. accruals \in Seq(Accrual)
    BY DEF TypeOK
  <2> DEFINE e == [account |-> current[j], date |-> date[j],
                   amount |-> found[j], capitalized |-> FALSE]
  <2>2. accruals' = Append(accruals, e) /\ e.capitalized = FALSE
    BY DEF InsertAccrual
  <2> HIDE DEF e
  <2> QED
    BY <2>1, <2>2
<1>4. PaidRows' = PaidRows
  <2> HIDE DEF n
  <2>1. 1..n = 1..Len(accruals) \cup {n}
    BY <1>3 DEF n
  <2> QED
    BY <1>3, <2>1 DEF PaidRows
<1>5. [i \in PaidRows |-> accruals'[i].amount] = [i \in PaidRows |-> accruals[i].amount]
  BY <1>3 DEF PaidRows
<1>6. PaidWhatAccrued'
  <2>1. -balance[Expense] = SumFunction([i \in PaidRows |-> accruals[i].amount])
    BY DEF PaidWhatAccrued, PaidRows, SumOf
  <2>2. balance' = balance
    BY DEF InsertAccrual
  <2>3. -balance'[Expense] = SumFunction([i \in PaidRows' |-> accruals'[i].amount])
    BY <1>4, <1>5, <2>1, <2>2
  <2> QED
    BY <2>3 DEF PaidWhatAccrued, PaidRows, SumOf
<1> QED
  BY <1>2, <1>6, NoneAtWork

LEMMA CommitPays ==
    ASSUME PInv, NEW j \in Job, CommitInterest(j)
    PROVE  FoundIsOpen' /\ PaidWhatAccrued'
<1> USE DEF PInv, IInv
<1>1. /\ at[j] = "commit" /\ at'[j] = "sum" /\ \A k \in Job \ {j} : at'[k] = at[k]
      /\ current[j] \in Account
  BY DEF CommitInterest, TypeOK
<1>2. \A k \in Job : at'[k] \notin {"mark", "commit"}
  BY <1>1 DEF CapitalizesAlone, Capitalizing
<1>3. /\ marked[j] \subseteq 1..Len(accruals) /\ marked[j] \cap PaidRows = {}
      /\ found[j] = SumOf(marked[j])
  BY <1>1 DEF FoundIsOpen, KnowsRows
<1>4. /\ balance[Expense] \in Int /\ found[j] \in Int
      /\ balance'[Expense] = balance[Expense] - found[j]
  BY <1>1, InterestAssumption DEF CommitInterest, TypeOK
<1>5. /\ DOMAIN accruals' = 1..Len(accruals) /\ DOMAIN accruals = 1..Len(accruals)
      /\ \A i \in 1..Len(accruals) :
            /\ accruals'[i].amount = accruals[i].amount
            /\ accruals'[i].capitalized = (accruals[i].capitalized \/ i \in marked[j])
  <2>1. accruals' = Capitalized(marked[j])
    BY DEF CommitInterest
  <2>2. DOMAIN accruals = 1..Len(accruals)
    BY DEF TypeOK
  <2> QED
    BY <2>1, <2>2, CapitalizedRows
<1>6. PaidRows' = PaidRows \cup marked[j] /\ PaidRows \subseteq 1..Len(accruals)
  BY <1>3, <1>5 DEF PaidRows
<1>7. SumOf(PaidRows \cup marked[j]) = SumOf(PaidRows) + SumOf(marked[j])
  BY <1>3, <1>6, SumOfUnion
<1>8. SumFunction([i \in PaidRows' |-> accruals'[i].amount]) = SumOf(PaidRows \cup marked[j])
  <2>1. [i \in PaidRows' |-> accruals'[i].amount] =
            [i \in PaidRows \cup marked[j] |-> accruals[i].amount]
    BY <1>3, <1>5, <1>6
  <2> QED
    BY <2>1 DEF SumOf
<1>9. PaidWhatAccrued'
  <2>1. -balance[Expense] = SumOf(PaidRows)
    BY DEF PaidWhatAccrued, PaidRows
  <2>2. -balance'[Expense] = SumFunction([i \in PaidRows' |-> accruals'[i].amount])
    BY <1>3, <1>4, <1>7, <1>8, <2>1
  <2> QED
    BY <2>2 DEF PaidWhatAccrued, PaidRows, SumOf
<1> QED
  BY <1>2, <1>9, NoneAtWork

LEMMA PaymentsKept ==
    ASSUME PInv, [Next]_vars PROVE FoundIsOpen' /\ PaidWhatAccrued'
<1> DEFINE Good == FoundIsOpen' /\ PaidWhatAccrued'
<1> USE DEF PInv, IInv
<1>1. ASSUME UNCHANGED <<accruals, balance>>,
             \A j \in Job : at'[j] \in {"mark", "commit"} =>
                 /\ at'[j] = at[j] /\ found'[j] = found[j]
                 /\ current'[j] = current[j] /\ marked'[j] = marked[j]
      PROVE  Good
  BY <1>1, PaidStays
<1>2. ASSUME NEW j \in Job,
             \/ \E n \in Days : StartAdvance(j, n)
             \/ Tick(j) \/ Now(j) \/ ListToAccrue(j) \/ NextDay(j) \/ ListToCapitalize(j)
      PROVE  Good
  BY <1>1, <1>2 DEF StartAdvance, Tick, Now, ListToAccrue, NextDay, ListToCapitalize, TypeOK
<1>3. ASSUME NEW j \in Job, LastDay(j) \/ AllCapitalized(j) \/ Abort(j) PROVE Good
  BY <1>1, <1>3 DEF LastDay, AllCapitalized, Abort, Idle, TypeOK
<1>4. ASSUME NEW j \in Job, NEW a \in Account, ReadBalance(j, a) PROVE Good
  <2>1. UNCHANGED <<accruals, balance, marked>>
    BY <1>4 DEF ReadBalance
  <2>2. \A k \in Job : at'[k] \in {"mark", "commit"} =>
            at'[k] = at[k] /\ found'[k] = found[k] /\ current'[k] = current[k]
    BY <1>4 DEF ReadBalance, TypeOK
  <2> QED
    BY <1>1, <2>1, <2>2
<1>5. ASSUME NEW j \in Job, NEW a \in Account, SumOpen(j, a) PROVE Good
  <2>1. UNCHANGED <<accruals, balance, marked>> /\ at[j] = "sum"
    BY <1>5 DEF SumOpen
  <2>2. CASE UNCHANGED <<at, current, found>>
    BY <1>1, <2>1, <2>2
  <2>3. CASE /\ at' = [at EXCEPT ![j] = "mark"]
             /\ current' = [current EXCEPT ![j] = a]
             /\ found' = [found EXCEPT ![j] = SumOf(Open(a))]
    <3>1. \A k \in Job \ {j} : at'[k] \notin {"mark", "commit"}
      BY <2>1, <2>3 DEF CapitalizesAlone, Capitalizing, TypeOK
    <3>2. at'[j] = "mark" /\ current'[j] = a /\ found'[j] = SumOf(Open(a))
      BY <2>3 DEF TypeOK
    <3>3. Open(current[j])' = Open(a)
      BY <2>1, <3>2 DEF Open
    <3>4. SumOf(Open(current[j]))' = SumOf(Open(a))
      BY <2>1, <3>3 DEF SumOf
    <3>5. KnowsRows(j)'
      BY <3>2, <3>4 DEF KnowsRows
    <3>6. \A k \in Job \ {j} : KnowsRows(k)'
      BY <3>1 DEF KnowsRows
    <3>7. PaidWhatAccrued'
      BY <2>1 DEF PaidWhatAccrued, SumOf
    <3> QED
      BY <3>5, <3>6, <3>7 DEF FoundIsOpen
  <2> QED
    BY <1>5, <2>2, <2>3 DEF SumOpen
<1>6. ASSUME NEW j \in Job, Mark(j) PROVE Good
  <2>1. /\ at[j] = "mark" /\ UNCHANGED <<accruals, balance, found, current>>
        /\ at' = [at EXCEPT ![j] = "commit"]
        /\ marked' = [marked EXCEPT ![j] = Open(current[j])]
        /\ found[j] = SumOf(Open(current[j]))
    BY <1>6 DEF Mark, FoundIsOpen, KnowsRows
  <2>2. \A k \in Job \ {j} : at'[k] \notin {"mark", "commit"}
    BY <2>1 DEF CapitalizesAlone, Capitalizing, TypeOK
  <2>3. at'[j] = "commit" /\ marked'[j] = Open(current[j])
    BY <2>1 DEF TypeOK
  <2>4. /\ Open(current[j]) \subseteq 1..Len(accruals)
        /\ Open(current[j]) \cap PaidRows = {}
    BY OpenFacts DEF PaidRows
  <2>5. SumOf(marked[j])' = SumOf(Open(current[j])) /\ PaidRows' = PaidRows
    BY <2>1, <2>3 DEF SumOf, PaidRows
  <2>6. KnowsRows(j)'
    BY <2>1, <2>3, <2>4, <2>5 DEF KnowsRows
  <2>7. \A k \in Job \ {j} : KnowsRows(k)'
    BY <2>2 DEF KnowsRows
  <2>8. PaidWhatAccrued'
    BY <2>1 DEF PaidWhatAccrued, SumOf
  <2> QED
    BY <2>6, <2>7, <2>8 DEF FoundIsOpen
<1>7. ASSUME NEW j \in Job, InsertAccrual(j) PROVE Good
  BY <1>7, InsertPaysNothing
<1>8. ASSUME NEW j \in Job, CommitInterest(j) PROVE Good
  BY <1>8, CommitPays
<1>9. ASSUME NEW a \in Account,
             \/ \E n \in Teller : Deposit(a, n) \/ Withdraw(a, n)
             \/ SetActive(a)
      PROVE  Good
  <2>1. UNCHANGED <<accruals, jobVars>> /\ balance'[Expense] = balance[Expense]
    BY <1>9, InterestAssumption DEF Deposit, Withdraw, SetActive, TypeOK
  <2> QED
    BY <2>1, PaidStays DEF jobVars
<1>10. ASSUME Restart PROVE Good
  BY <1>1, <1>10 DEF Restart
<1>11. CASE UNCHANGED vars
  BY <1>1, <1>11 DEF vars, jobVars
<1> QED
  BY <1>2, <1>3, <1>4, <1>5, <1>6, <1>7, <1>8, <1>9, <1>10, <1>11 DEF Next

-----------------------------------------------------------------------------
(* Days that an advance is done with                                       *)

(* Nothing changes for the accounts that nobody touches.                   *)
LEMMA QuietStays ==
    ASSUME PInv, SameRows, UNCHANGED earlier, Quiet \subseteq active',
           \A a \in Quiet : balance'[a] = balance[a],
           \A j \in Job : at'[j] \in {"each", "insert"} =>
               \/ /\ at[j] \in {"each", "insert"} /\ date'[j] = date[j]
                  /\ \A a \in Quiet :
                        a \notin ToCome(j)' /\ Daily(a) # 0 => a \notin ToCome(j)
               \/ Quiet \subseteq ToCome(j)'
    PROVE  QuietAccrued'
<1> USE DEF PInv, IInv
<1>1. \A a \in Quiet : Daily(a)' = Daily(a)
  BY DEF Daily
<1>2. \A a, d : Accrued(a, d)' <=> Accrued(a, d)
  <2>1. New' = New /\ New \subseteq 1..Len(accruals)
    BY RowFacts DEF New, SameRows
  <2> QED
    BY <2>1 DEF Accrued, SameRows
<1>3. ASSUME NEW j \in Job, at'[j] \in {"each", "insert"}, NEW a \in Quiet,
             a \notin ToCome(j)', Daily(a)' # 0
      PROVE  Accrued(a, date[j])'
  <2>1. Accrued(a, date[j])
    BY <1>1, <1>3 DEF QuietAccrued
  <2>2. date'[j] = date[j]
    BY <1>3
  <2> QED
    BY <1>2, <2>1, <2>2
<1> QED
  BY <1>3 DEF QuietAccrued

LEMMA QuietKept ==
    ASSUME PInv, CapitalizesAlone', [Next]_vars PROVE QuietAccrued'
<1> USE DEF PInv, IInv
<1>1. Quiet \subseteq active /\ Quiet \subseteq Account
  BY InterestAssumption DEF QuietAccrued
<1>2. ASSUME SameRows, UNCHANGED <<earlier, balance, active>>,
             \A j \in Job : at'[j] \in {"each", "insert"} =>
                 at'[j] = at[j] /\ date'[j] = date[j] /\ ToCome(j)' = ToCome(j)
      PROVE  QuietAccrued'
  BY <1>1, <1>2, QuietStays
<1>3. ASSUME UNCHANGED accruals PROVE SameRows
  BY <1>3 DEF SameRows
<1>4. ASSUME NEW j \in Job,
             \/ \E n \in Days : StartAdvance(j, n)
             \/ Tick(j) \/ Now(j) \/ NextDay(j) \/ ListToCapitalize(j) \/ Mark(j)
      PROVE  QuietAccrued'
  <2>1. UNCHANGED <<accruals, earlier, balance, active>>
    BY <1>4 DEF StartAdvance, Tick, Now, NextDay, ListToCapitalize, Mark
  <2>2. ASSUME NEW k \in Job, at'[k] \in {"each", "insert"}
        PROVE  at'[k] = at[k] /\ date'[k] = date[k] /\ ToCome(k)' = ToCome(k)
    BY <1>4, <2>2 DEF StartAdvance, Tick, Now, NextDay, ListToCapitalize, Mark, TypeOK, ToCome
  <2> QED
    BY <1>2, <1>3, <2>1, <2>2
<1>5. ASSUME NEW j \in Job, LastDay(j) \/ AllCapitalized(j) \/ Abort(j) PROVE QuietAccrued'
  <2>1. UNCHANGED <<accruals, earlier, balance, active>>
    BY <1>5 DEF LastDay, AllCapitalized, Abort
  <2>2. ASSUME NEW k \in Job, at'[k] \in {"each", "insert"}
        PROVE  at'[k] = at[k] /\ date'[k] = date[k] /\ ToCome(k)' = ToCome(k)
    BY <1>5, <2>2 DEF LastDay, AllCapitalized, Abort, Idle, TypeOK, ToCome
  <2> QED
    BY <1>2, <1>3, <2>1, <2>2
<1>6. ASSUME NEW j \in Job, ListToAccrue(j) PROVE QuietAccrued'
  <2>1. UNCHANGED <<accruals, earlier, balance, active>>
    BY <1>6 DEF ListToAccrue
  <2>2. \A k \in Job \ {j} : /\ at'[k] = at[k] /\ date'[k] = date[k]
                             /\ ToCome(k)' = ToCome(k)
    BY <1>6 DEF ListToAccrue, TypeOK, ToCome
  <2>3. ToCome(j)' = active
    BY <1>6 DEF ListToAccrue, TypeOK, ToCome
  <2> QED
    BY <1>1, <1>3, <2>1, <2>2, <2>3, QuietStays
<1>7. ASSUME NEW j \in Job, NEW a \in Account, ReadBalance(j, a) PROVE QuietAccrued'
  <2>1. /\ UNCHANGED <<accruals, earlier, balance, active, date>>
        /\ at[j] = "each" /\ a \in todo[j]
        /\ todo' = [todo EXCEPT ![j] = @ \ {a}]
    BY <1>7 DEF ReadBalance
  <2>2. \A k \in Job \ {j} : at'[k] = at[k] /\ ToCome(k)' = ToCome(k)
    BY <1>7 DEF ReadBalance, TypeOK, ToCome
  <2>3. CASE Daily(a) = 0
    <3>1. UNCHANGED <<at, current>>
      BY <1>7, <2>3 DEF ReadBalance
    <3>2. ToCome(j)' = ToCome(j) \ {a}
      BY <2>1, <3>1 DEF ToCome, TypeOK
    <3> QED
      BY <1>1, <1>3, <2>1, <2>2, <2>3, <3>1, <3>2, QuietStays
  <2>4. CASE Daily(a) # 0
    <3>1. at'[j] = "insert" /\ current'[j] = a
      BY <1>7, <2>4 DEF ReadBalance, TypeOK
    <3>2. ToCome(j)' = ToCome(j)
      BY <2>1, <3>1 DEF ToCome, TypeOK
    <3> QED
      BY <1>1, <1>3, <2>1, <2>2, <3>1, <3>2, QuietStays
  <2> QED
    BY <2>3, <2>4
<1>8. ASSUME NEW j \in Job, NEW a \in Account, SumOpen(j, a) PROVE QuietAccrued'
  <2>1. /\ UNCHANGED <<accruals, earlier, balance, active, date>>
        /\ at[j] = "sum" /\ todo' = [todo EXCEPT ![j] = @ \ {a}]
    BY <1>8 DEF SumOpen
  <2>2. at'[j] \notin {"each", "insert"}
    BY <1>8 DEF SumOpen, TypeOK
  <2>3. \A k \in Job \ {j} : at'[k] = at[k] /\ ToCome(k)' = ToCome(k)
    BY <1>8 DEF SumOpen, TypeOK, ToCome
  <2> QED
    BY <1>2, <1>3, <2>1, <2>2, <2>3
<1>9. ASSUME NEW j \in Job, InsertAccrual(j) PROVE QuietAccrued'
  <2>1. UNCHANGED <<balance, active, date>> /\ at[j] = "insert"
    BY <1>9 DEF InsertAccrual
  <2>2. /\ New' = New \cup {Len(accruals) + 1}
        /\ \A i \in New : accruals'[i] = accruals[i]
        /\ ToCome(j)' = ToCome(j) \ {current[j]}
        /\ \A k \in Job \ {j} : at'[k] = at[k] /\ ToCome(k)' = ToCome(k)
    BY <1>9, InsertFacts, Zenon
  <2>3. /\ accruals'[Len(accruals) + 1].account = current[j]
        /\ accruals'[Len(accruals) + 1].date = date[j]
    <3>1. accruals'[Len(accruals) + 1] =
              [account |-> current[j], date |-> date[j],
               amount |-> found[j], capitalized |-> FALSE]
      BY <1>9, InsertFacts, Zenon
    <3> QED
      BY <3>1
  <2>4. \A a, d : Accrued(a, d) => Accrued(a, d)'
    BY <2>2 DEF Accrued
  <2>5. \E i \in New' : accruals'[i].account = current[j] /\ accruals'[i].date = date[j]
    <3> DEFINE n == Len(accruals) + 1
    <3>1. n \in New' /\ accruals'[n].account = current[j] /\ accruals'[n].date = date[j]
      BY <2>2, <2>3
    <3> HIDE DEF n
    <3> QED
      BY <3>1
  <2>6. \A a : Daily(a)' = Daily(a)
    BY <2>1 DEF Daily
  <2>7. ASSUME NEW k \in Job, at'[k] \in {"each", "insert"}, NEW a \in Quiet,
               a \notin ToCome(k)', Daily(a)' # 0
        PROVE  Accrued(a, date[k])'
    <3>1. CASE k = j /\ a = current[j]
      BY <2>1, <2>5, <3>1 DEF Accrued
    <3>2. CASE ~(k = j /\ a = current[j])
      <4>1. at[k] \in {"each", "insert"} /\ a \notin ToCome(k) /\ Daily(a) # 0
        BY <2>1, <2>2, <2>6, <2>7, <3>2 DEF InsertAccrual, TypeOK
      <4>2. Accrued(a, date[k])
        BY <4>1 DEF QuietAccrued
      <4> QED
        BY <2>1, <2>4, <4>2
    <3> QED
      BY <3>1, <3>2
  <2> QED
    BY <1>1, <2>1, <2>7 DEF QuietAccrued
<1>10. ASSUME NEW j \in Job, CommitInterest(j) PROVE QuietAccrued'
  <2>1. /\ at[j] = "commit" /\ at'[j] = "sum" /\ \A k \in Job \ {j} : at'[k] = at[k]
        /\ active' = active
    BY <1>10 DEF CommitInterest, TypeOK
  <2>2. \A k \in Job : at'[k] \notin {"each", "insert"}
    BY <2>1 DEF CapitalizesAlone, Capitalizing
  <2> QED
    BY <1>1, <2>1, <2>2 DEF QuietAccrued
<1>11. ASSUME NEW a \in Account \ Quiet,
              \/ \E n \in Teller : Deposit(a, n) \/ Withdraw(a, n)
              \/ SetActive(a)
       PROVE  QuietAccrued'
  <2>1. UNCHANGED <<accruals, earlier, jobVars>> /\ Quiet \subseteq active'
    BY <1>1, <1>11 DEF Deposit, Withdraw, SetActive
  <2>2. \A b \in Quiet : balance'[b] = balance[b]
    BY <1>1, <1>11 DEF Deposit, Withdraw, SetActive, TypeOK
  <2>3. \A k \in Job : at'[k] = at[k] /\ date'[k] = date[k] /\ ToCome(k)' = ToCome(k)
    BY <2>1 DEF ToCome, jobVars
  <2> QED
    BY <1>3, <2>1, <2>2, <2>3, QuietStays
<1>12. ASSUME Restart PROVE QuietAccrued'
  BY <1>1, <1>12 DEF Restart, QuietAccrued
<1>13. CASE UNCHANGED vars
  <2>1. UNCHANGED <<accruals, earlier, balance, active, at, date>>
        /\ \A k \in Job : ToCome(k)' = ToCome(k)
    BY <1>13 DEF vars, jobVars, ToCome
  <2> QED
    BY <1>2, <1>3, <2>1
<1> QED
  BY <1>4, <1>5, <1>6, <1>7, <1>8, <1>9, <1>10, <1>11, <1>12, <1>13 DEF Next

LEMMA PInvHolds == "overlap" \notin MayHappen => (Spec => []PInv)
<1> SUFFICES ASSUME "overlap" \notin MayHappen PROVE Spec => []PInv
  OBVIOUS
<1>1. Init => PInv
  <2> SUFFICES ASSUME Init PROVE PInv
    OBVIOUS
  <2>1. PaidWhatAccrued
    <3>1. {i \in DOMAIN accruals : accruals[i].capitalized} = {}
      BY DEF Init
    <3> DEFINE f == [i \in {} |-> accruals[i].amount]
    <3>2. DOMAIN f = {}
      OBVIOUS
    <3>3. SumOf({}) = SumFunction(f)
      BY DEF SumOf
    <3> HIDE DEF f
    <3>4. SumOf({}) = 0
      BY <3>2, <3>3, SumFunctionIsOnDomain, SumEmpty
    <3>5. balance[Expense] = 0
      BY DEF Init
    <3> QED
      BY <3>1, <3>4, <3>5 DEF PaidWhatAccrued
  <2>2. CapitalizesAlone /\ FoundIsOpen /\ QuietAccrued
    BY InterestAssumption
       DEF Init, CapitalizesAlone, FoundIsOpen, KnowsRows, QuietAccrued, Capitalizing
  <2> QED
    BY <2>1, <2>2, InitGood DEF PInv
<1>2. PInv /\ [Next]_vars => PInv'
  <2> SUFFICES ASSUME PInv, [Next]_vars PROVE PInv'
    OBVIOUS
  <2>1. IInv' /\ CapitalizesAlone'
    BY StepKeeps, AloneKept DEF PInv, IInv
  <2> QED
    BY <2>1, PaymentsKept, QuietKept DEF PInv
<1> QED
  BY <1>1, <1>2, PTL DEF Spec

(* The interest that the bank has paid is what the capitalized rows add up *)
(* to, whatever failed in between, provided that no capitalization         *)
(* overlaps another job (with one that does, it is not: CapitalizedTwice). *)
THEOREM InterestPaysWhatAccrued ==
    "overlap" \notin MayHappen => (Spec => []PaidWhatAccrued)
<1>1. PInv => PaidWhatAccrued
  BY DEF PInv
<1> QED
  BY <1>1, PInvHolds, PTL

(* An advance that is done with a day has the accruals of that day for the *)
(* accounts that nobody touches, however many advances overlap.            *)
THEOREM InterestDayIsAccrued ==
    "overlap" \notin MayHappen => (Spec => []DayIsAccrued)
<1>1. PInv => DayIsAccrued
  <2> SUFFICES ASSUME PInv, NEW j \in Job, at[j] = "each", todo[j] = {},
                      NEW a \in Quiet, Daily(a) # 0
               PROVE  Accrued(a, date[j])
    BY DEF DayIsAccrued, Accrued, New
  <2>1. a \notin ToCome(j)
    BY DEF ToCome
  <2> QED
    BY <2>1 DEF PInv, QuietAccrued
<1> QED
  BY <1>1, PInvHolds, PTL

=============================================================================
