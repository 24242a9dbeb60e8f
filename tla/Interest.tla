------------------------------ MODULE Interest ------------------------------
(***************************************************************************)
(* Interest on deposit accounts: the time machine's clock, the daily       *)
(* accrual run of POST /admin/clock/advance and the capitalization run of  *)
(* POST /admin/interest/capitalize.  No job holds a lock or a transaction  *)
(* across accounts; tellers deposit and withdraw in between.               *)
(***************************************************************************)
EXTENDS Money, Sequences, FiniteSets, Functions

CONSTANTS
    Account,    \* deposit accounts
    Expense,    \* GL account 5000, interest expense
    Rate,       \* the product's annual rate in basis points
    Opening,    \* what each account holds at the start
    Teller,     \* amounts of deposits and withdrawals
    Job,        \* admin requests that may be under way
    Days,       \* numbers of days that clients advance by
    Quiet,      \* accounts that nobody pays into, pays from or freezes
    MayHappen,  \* which of "abort", "restart", "advances" (of which several
                \* overlap) and "overlap" (of any jobs) may
    MaxBalance, \* bound: no deposit takes an account above this
    MaxDay,     \* bound: nobody asks for days later than this
    MaxRows     \* bound: no more accruals are inserted than this

ASSUME InterestAssumption ==
    /\ Rate \in Nat /\ Opening \in Nat
    /\ Teller \subseteq Nat \ {0} /\ Days \subseteq Int
    /\ Quiet \subseteq Account
    /\ IsFiniteSet(Job)
    /\ MayHappen \subseteq {"abort", "restart", "advances", "overlap"}
    /\ MaxBalance \in Nat /\ MaxDay \in Nat /\ MaxRows \in Nat
    /\ Expense \notin Account

VARIABLES
    clock,      \* clock.Fake: days since the process started
    balance,    \* GL account -> credits minus debits over committed lines
    active,     \* the accounts whose status is active
    accruals,   \* the rows of interest_accrual
    earlier,    \* history: how many of them an earlier process inserted
    crossed,    \* history: whether two advances of this process overlapped
    at,         \* job -> where it is
    left,       \* job -> days it still has to advance
    date,       \* job -> the business date it passed to Accrue
    todo,       \* job -> listed accounts it has not come to
    current,    \* job -> the account it is at
    found,      \* job -> the amount it read or computed for that account
    marked      \* job -> rows that its open transaction has marked

jobVars == <<at, left, date, todo, current, found, marked>>
vars == <<clock, balance, active, accruals, earlier, crossed, jobVars>>

NoAccount == "none"

Daily(a) == InterestForDays(balance[a], Rate, 1)

(* The rows of an account that are not capitalized.                        *)
Open(a) == {i \in DOMAIN accruals :
               accruals[i].account = a /\ ~accruals[i].capitalized}

SumOf(rows) == SumFunction([i \in rows |-> accruals[i].amount])

Idle(j) ==
    /\ at' = [at EXCEPT ![j] = "idle"]
    /\ left' = [left EXCEPT ![j] = 0]
    /\ date' = [date EXCEPT ![j] = 0]
    /\ todo' = [todo EXCEPT ![j] = {}]
    /\ current' = [current EXCEPT ![j] = NoAccount]
    /\ found' = [found EXCEPT ![j] = 0]
    /\ marked' = [marked EXCEPT ![j] = {}]

MayStart(j) ==
    /\ at[j] = "idle"
    /\ "overlap" \in MayHappen \/ \A k \in Job : at[k] = "idle"

MayAdvance(j) ==
    \/ MayStart(j)
    \/ /\ "advances" \in MayHappen
       /\ at[j] = "idle"
       /\ \A k \in Job : at[k] \notin {"sum", "mark", "commit"}

(* The days for which an advance has yet to move the clock.                *)
ToTick(j) == IF left[j] = 0 \/ at[j] = "tick" THEN left[j] ELSE left[j] - 1

-----------------------------------------------------------------------------
(* POST /admin/clock/advance                                               *)

StartAdvance(j, n) ==
    /\ MayAdvance(j)
    /\ n > 0
    /\ clock + n + SumFunction([k \in Job |-> ToTick(k)]) <= MaxDay
    /\ crossed' = (crossed \/ \E k \in Job : left[k] > 0)
    /\ at' = [at EXCEPT ![j] = "tick"]
    /\ left' = [left EXCEPT ![j] = n]
    /\ UNCHANGED <<clock, balance, active, accruals, earlier,
                   date, todo, current, found, marked>>

Tick(j) ==
    /\ at[j] = "tick"
    /\ clock' = clock + 1
    /\ at' = [at EXCEPT ![j] = "now"]
    /\ UNCHANGED <<balance, active, accruals, earlier, crossed,
                   left, date, todo, current, found, marked>>

(* Mutant of Now: the real clock, which has not been advanced.             *)
NowReal(j) ==
    /\ at[j] = "now"
    /\ date' = [date EXCEPT ![j] = 0]
    /\ at' = [at EXCEPT ![j] = "list"]
    /\ UNCHANGED <<clock, balance, active, accruals, earlier, crossed,
                   left, todo, current, found, marked>>

(* The clock is locked for Advance and again for Now, not in between.      *)
Now(j) ==
    /\ at[j] = "now"
    /\ date' = [date EXCEPT ![j] = clock]
    /\ at' = [at EXCEPT ![j] = "list"]
    /\ UNCHANGED <<clock, balance, active, accruals, earlier, crossed,
                   left, todo, current, found, marked>>

(* Mutant of ListToAccrue: the query is a :one instead of a :many.         *)
ListToAccrueOne(j) ==
    /\ at[j] = "list"
    /\ \E a \in active : todo' = [todo EXCEPT ![j] = {a}]
    /\ at' = [at EXCEPT ![j] = "each"]
    /\ UNCHANGED <<clock, balance, active, accruals, earlier, crossed,
                   left, date, current, found, marked>>

ListToAccrue(j) ==
    /\ at[j] = "list"
    /\ todo' = [todo EXCEPT ![j] = active]
    /\ at' = [at EXCEPT ![j] = "each"]
    /\ UNCHANGED <<clock, balance, active, accruals, earlier, crossed,
                   left, date, current, found, marked>>

(* Accounts come in any order: the query has no ORDER BY.  An account that *)
(* earns nothing is skipped.                                               *)
ReadBalance(j, a) ==
    /\ at[j] = "each"
    /\ a \in todo[j]
    /\ todo' = [todo EXCEPT ![j] = @ \ {a}]
    /\ IF Daily(a) = 0
       THEN UNCHANGED <<at, current, found>>
       ELSE /\ at' = [at EXCEPT ![j] = "insert"]
            /\ current' = [current EXCEPT ![j] = a]
            /\ found' = [found EXCEPT ![j] = Daily(a)]
    /\ UNCHANGED <<clock, balance, active, accruals, earlier, crossed, left, date, marked>>

InsertAccrual(j) ==
    /\ at[j] = "insert"
    /\ Len(accruals) < MaxRows
    /\ accruals' = Append(accruals,
                          [account |-> current[j], date |-> date[j],
                           amount |-> found[j], capitalized |-> FALSE])
    /\ at' = [at EXCEPT ![j] = "each"]
    /\ current' = [current EXCEPT ![j] = NoAccount]
    /\ found' = [found EXCEPT ![j] = 0]
    /\ UNCHANGED <<clock, balance, active, earlier, crossed, left, date, todo, marked>>

(* Mutant of NextDay: the clock is moved once for all the days.            *)
NextDayWithoutTick(j) ==
    /\ at[j] = "each"
    /\ todo[j] = {}
    /\ left[j] > 1
    /\ left' = [left EXCEPT ![j] = @ - 1]
    /\ at' = [at EXCEPT ![j] = "now"]
    /\ UNCHANGED <<clock, balance, active, accruals, earlier, crossed,
                   date, todo, current, found, marked>>

NextDay(j) ==
    /\ at[j] = "each"
    /\ todo[j] = {}
    /\ left[j] > 1
    /\ left' = [left EXCEPT ![j] = @ - 1]
    /\ at' = [at EXCEPT ![j] = "tick"]
    /\ UNCHANGED <<clock, balance, active, accruals, earlier, crossed,
                   date, todo, current, found, marked>>

LastDay(j) ==
    /\ at[j] = "each"
    /\ todo[j] = {}
    /\ left[j] = 1
    /\ Idle(j)
    /\ UNCHANGED <<clock, balance, active, accruals, earlier, crossed>>

-----------------------------------------------------------------------------
(* POST /admin/interest/capitalize                                         *)

ListToCapitalize(j) ==
    /\ MayStart(j)
    /\ todo' = [todo EXCEPT ![j] = active]
    /\ at' = [at EXCEPT ![j] = "sum"]
    /\ UNCHANGED <<clock, balance, active, accruals, earlier, crossed,
                   left, date, current, found, marked>>

(* The sum is read before the transaction begins.                          *)
SumOpen(j, a) ==
    /\ at[j] = "sum"
    /\ a \in todo[j]
    /\ todo' = [todo EXCEPT ![j] = @ \ {a}]
    /\ IF SumOf(Open(a)) = 0
       THEN UNCHANGED <<at, current, found>>
       ELSE /\ at' = [at EXCEPT ![j] = "mark"]
            /\ current' = [current EXCEPT ![j] = a]
            /\ found' = [found EXCEPT ![j] = SumOf(Open(a))]
    /\ UNCHANGED <<clock, balance, active, accruals, earlier, crossed, left, date, marked>>

(* Post, which nobody sees yet, and MarkAccrualsCapitalized, which waits   *)
(* for rows that another transaction has marked.                           *)
Mark(j) ==
    /\ at[j] = "mark"
    /\ \A k \in Job \ {j} : marked[k] \cap Open(current[j]) = {}
    /\ marked' = [marked EXCEPT ![j] = Open(current[j])]
    /\ at' = [at EXCEPT ![j] = "commit"]
    /\ UNCHANGED <<clock, balance, active, accruals, earlier, crossed,
                   left, date, todo, current, found>>

(* Mutant of Capitalized: the rows are not marked, so they stay open.      *)
CapitalizedNone(rows) == accruals

Capitalized(rows) ==
    [i \in DOMAIN accruals |->
        [accruals[i] EXCEPT !.capitalized = @ \/ i \in rows]]

CommitInterest(j) ==
    /\ at[j] = "commit"
    /\ balance' = [balance EXCEPT ![Expense] = @ - found[j],
                                  ![current[j]] = @ + found[j]]
    /\ accruals' = Capitalized(marked[j])
    /\ at' = [at EXCEPT ![j] = "sum"]
    /\ current' = [current EXCEPT ![j] = NoAccount]
    /\ found' = [found EXCEPT ![j] = 0]
    /\ marked' = [marked EXCEPT ![j] = {}]
    /\ UNCHANGED <<clock, active, earlier, crossed, left, date, todo>>

AllCapitalized(j) ==
    /\ at[j] = "sum"
    /\ todo[j] = {}
    /\ Idle(j)
    /\ UNCHANGED <<clock, balance, active, accruals, earlier, crossed>>

-----------------------------------------------------------------------------
(* A statement fails or the admin gives up: what was inserted or committed *)
(* stays, the open transaction does not.                                   *)
Abort(j) ==
    /\ "abort" \in MayHappen
    /\ at[j] # "idle"
    /\ Idle(j)
    /\ UNCHANGED <<clock, balance, active, accruals, earlier, crossed>>

(* clock.NewFake(time.Now()): fast-forwarded days are forgotten.           *)
ClockAtStart == 0

Restart ==
    /\ "restart" \in MayHappen
    /\ clock' = ClockAtStart
    /\ at' = [j \in Job |-> "idle"]
    /\ left' = [j \in Job |-> 0]
    /\ date' = [j \in Job |-> 0]
    /\ todo' = [j \in Job |-> {}]
    /\ current' = [j \in Job |-> NoAccount]
    /\ found' = [j \in Job |-> 0]
    /\ marked' = [j \in Job |-> {}]
    /\ earlier' = Len(accruals)
    /\ crossed' = FALSE
    /\ UNCHANGED <<balance, active, accruals>>

Deposit(a, n) ==
    /\ a \in active
    /\ balance[a] + n <= MaxBalance
    /\ balance' = [balance EXCEPT ![a] = @ + n]
    /\ UNCHANGED <<clock, active, accruals, earlier, crossed, jobVars>>

Withdraw(a, n) ==
    /\ a \in active
    /\ balance[a] >= n
    /\ balance' = [balance EXCEPT ![a] = @ - n]
    /\ UNCHANGED <<clock, active, accruals, earlier, crossed, jobVars>>

(* Freeze or Unfreeze.                                                     *)
SetActive(a) ==
    /\ active' \in {active \cup {a}, active \ {a}}
    /\ UNCHANGED <<clock, balance, accruals, earlier, crossed, jobVars>>

-----------------------------------------------------------------------------
Init ==
    /\ clock = 0
    /\ balance = [g \in Account \cup {Expense} |->
                     IF g = Expense THEN 0 ELSE Opening]
    /\ active = Account
    /\ accruals = <<>>
    /\ earlier = 0
    /\ crossed = FALSE
    /\ at = [j \in Job |-> "idle"]
    /\ left = [j \in Job |-> 0]
    /\ date = [j \in Job |-> 0]
    /\ todo = [j \in Job |-> {}]
    /\ current = [j \in Job |-> NoAccount]
    /\ found = [j \in Job |-> 0]
    /\ marked = [j \in Job |-> {}]

Next ==
    \/ \E j \in Job :
          \/ \E n \in Days : StartAdvance(j, n)
          \/ Tick(j) \/ Now(j) \/ ListToAccrue(j)
          \/ \E a \in Account : ReadBalance(j, a) \/ SumOpen(j, a)
          \/ InsertAccrual(j) \/ NextDay(j) \/ LastDay(j)
          \/ ListToCapitalize(j) \/ Mark(j) \/ CommitInterest(j)
          \/ AllCapitalized(j) \/ Abort(j)
    \/ \E a \in Account \ Quiet :
          \/ \E n \in Teller : Deposit(a, n) \/ Withdraw(a, n)
          \/ SetActive(a)
    \/ Restart

Spec == Init /\ [][Next]_vars

-----------------------------------------------------------------------------
(* Properties                                                              *)

(* "Capitalize posts the accumulated accruals for one account"             *)
(* (interest/service.go): the interest the bank has paid is exactly what   *)
(* the rows marked capitalized add up to, whatever failed in between.      *)
PaidWhatAccrued ==
    -balance[Expense] = SumOf({i \in DOMAIN accruals : accruals[i].capitalized})

(* "Accrue computes one day of interest" (interest/service.go): no account *)
(* gets two accruals for one business date, although jobs fail half-way    *)
(* and are asked for again.  A restart, which sets the clock back, makes a *)
(* process accrue days that an earlier one has accrued; and two advances   *)
(* that overlap may both see the date of the later tick.                   *)
AccruedOnceADay ==
    ~crossed =>
        \A i, k \in (earlier + 1)..Len(accruals) :
            /\ accruals[i].account = accruals[k].account
            /\ accruals[i].date = accruals[k].date
            => i = k

(* Advances that overlap may skip a date and accrue another one twice, but *)
(* no account ever earns more days of interest than the clock has moved    *)
(* on since the process started.                                           *)
NoExtraDays ==
    \A a \in Account :
        Cardinality({i \in (earlier + 1)..Len(accruals) :
                        accruals[i].account = a}) <= clock

(* "Fast-forward the time machine, running interest accrual for each day"  *)
(* (api/openapi.yaml): a day that an advance is done with has its accruals, *)
(* at least those of the accounts that nobody touched meanwhile.  A day    *)
(* whose accrual failed may be left behind.                                *)
DayIsAccrued ==
    \A j \in Job : at[j] = "each" /\ todo[j] = {} =>
        \A a \in Quiet : Daily(a) # 0 =>
            \E i \in (earlier + 1)..Len(accruals) :
                accruals[i].account = a /\ accruals[i].date = date[j]

=============================================================================
