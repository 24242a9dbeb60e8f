------------------------------- MODULE Journal -------------------------------
(***************************************************************************)
(* The journal: entries of debit and credit lines that handlers post and   *)
(* the reversal scenario reverses, and the readers that make statements    *)
(* and pages of history of it while it grows.  An entry gets its booking   *)
(* date when its handler looks at a clock and its created_at when its      *)
(* transaction begins, both before it commits.                             *)
(***************************************************************************)
EXTENDS Integers, Sequences, FiniteSets, Functions

CONSTANTS
    Account,        \* customer accounts, by their GL sub-accounts
    Cash, Receivable, Income, Expense,  \* GL accounts 1000, 1100, 4000, 5000
    Request,        \* the postings asked for: [kind, from, to, amount, second]
    Poster,         \* handlers that may be posting together
    Reader,         \* statements and histories that may be read together
    PageSize,       \* limit of a page of history
    MaxDay,         \* bound: last day
    MaxEntries,     \* bound: no handler begins once so many are booked
    MaxBegun,       \* bound: entries that are booked or under way
    MaxStamp        \* bound: the last microsecond in which one begins

Bank == {Cash, Receivable, Income, Expense}
Gl == Account \cup Bank

ASSUME JournalAssumption ==
    /\ Cardinality(Bank) = 4
    /\ Bank \cap Account = {}
    /\ IsFiniteSet(Account)
    /\ PageSize \in Nat \ {0} /\ MaxDay \in Nat
    /\ MaxEntries \in Nat /\ MaxBegun \in Nat /\ MaxStamp \in Nat \ {0}

VARIABLES
    journal,    \* the committed entries, in the order of their commits
    today,      \* the date of time.Now()
    clock,      \* the date of the time machine's clock
    job,        \* poster -> what it is doing
    reader      \* reader -> what it has read

vars == <<journal, today, clock, job, reader>>

NoJob == [step |-> "idle"]
NoRead == [what |-> "none"]

-----------------------------------------------------------------------------
(* Lines                                                                   *)

Debit(g, n) == [account |-> g, direction |-> "debit", amount |-> n]
Credit(g, n) == [account |-> g, direction |-> "credit", amount |-> n]

(* The posting rules, with the GL accounts that their callers give them.   *)
Rules(q) ==
    [deposit |-> <<Debit(Cash, q.amount), Credit(q.to, q.amount)>>,
     withdrawal |-> <<Debit(q.from, q.amount), Credit(Cash, q.amount)>>,
     transfer |-> <<Debit(q.from, q.amount), Credit(q.to, q.amount)>>,
     interest_credit |-> <<Debit(Expense, q.amount), Credit(q.to, q.amount)>>,
     disbursement |-> <<Debit(Receivable, q.amount), Credit(q.to, q.amount)>>,
     repayment |-> <<Debit(q.from, q.amount + q.second),
                     Credit(Receivable, q.amount), Credit(Income, q.second)>>]

LinesFor(q) == Rules(q)[q.kind]

Line == [account : Gl, direction : {"debit", "credit"}, amount : Int]

(* Callers give every rule the accounts that it has a line for, and none   *)
(* but the one for interest GL account 5000.                               *)
ASSUME RequestAssumption ==
    \A q \in Request :
        /\ LinesFor(q) \in Seq(Line)
        /\ q.kind # "interest_credit" =>
               \A i \in DOMAIN LinesFor(q) : LinesFor(q)[i].account # Expense

Signed(l) == IF l.direction = "credit" THEN l.amount ELSE -l.amount

(* Credits minus debits of some lines.                                     *)
Net(lines) == SumFunction([i \in DOMAIN lines |-> Signed(lines[i])])

(* The same, of the lines of one GL account.                               *)
NetOf(lines, g) ==
    SumFunction([i \in {k \in DOMAIN lines : lines[k].account = g} |-> Signed(lines[i])])

(* JournalEntry.Validate, for lines of one currency.                       *)
Valid(lines) == Len(lines) >= 2 /\ Net(lines) = 0

(* Mutants of Swapped: only the first line is swapped, or none.            *)
SwappedFirst(lines) ==
    [lines EXCEPT ![1].direction = IF @ = "credit" THEN "debit" ELSE "credit"]
SwappedNone(lines) == lines

(* The lines of a reversal.                                                *)
Swapped(lines) ==
    [i \in DOMAIN lines |->
        IF lines[i].direction = "credit"
        THEN Debit(lines[i].account, lines[i].amount)
        ELSE Credit(lines[i].account, lines[i].amount)]

-----------------------------------------------------------------------------
(* Queries                                                                 *)

(* The sum of an account's lines over the entries of E.                    *)
SumOver(E, g) == SumFunction([i \in E |-> NetOf(journal[i].lines, g)])

LedgerBalance(g) == SumOver(DOMAIN journal, g)

BalanceAsOf(g, before) ==
    SumOver({i \in DOMAIN journal : journal[i].date < before}, g)

(* Mutant of InPeriod: the period includes its last day.                   *)
InPeriodInclusive(from, to) ==
    {i \in DOMAIN journal : from <= journal[i].date /\ journal[i].date <= to}

(* LinesInPeriod, by the entries that the lines belong to.                 *)
InPeriod(from, to) ==
    {i \in DOMAIN journal : from <= journal[i].date /\ journal[i].date < to}

Touches(i, g) == \E k \in DOMAIN journal[i].lines :
                     journal[i].lines[k].account = g

Entries(g) == {i \in DOMAIN journal : Touches(i, g)}

(* ORDER BY created_at DESC: what the first n entries of E may be.  Those   *)
(* created in one microsecond come in any order, another one every time.   *)
Latest(n, E) ==
    {T \in SUBSET E : /\ Cardinality(T) = IF Cardinality(E) < n THEN Cardinality(E) ELSE n
                      /\ \A i \in T, j \in E \ T : journal[j].stamp <= journal[i].stamp}

(* Mutant of Pages: the page is cut before the account's entries are       *)
(* selected.                                                               *)
PagesUnfiltered(g, offset) ==
    {T \cap Entries(g) : T \in UNION {Latest(PageSize, DOMAIN journal \ S) :
                                         S \in Latest(offset, DOMAIN journal)}}

(* ListEntriesByAccount: what a page of an account's history may be, the   *)
(* latest created first, cut by LIMIT and OFFSET.                          *)
Pages(g, offset) ==
    UNION {Latest(PageSize, Entries(g) \ S) : S \in Latest(offset, Entries(g))}

-----------------------------------------------------------------------------
(* Posting                                                                 *)

Posting(p) == job[p].step = "post"

(* created_at is now(), when the transaction begins: in the microsecond in *)
(* which the last one of those that are left began, or in a later one.     *)
Stamps == {journal[i].stamp : i \in DOMAIN journal}
              \cup {job[p].entry.stamp : p \in {q \in Poster : Posting(q)}}
NextStamps == {n \in 1..MaxStamp : /\ \A s \in Stamps : s <= n
                                   /\ n = 1 \/ n - 1 \in Stamps \/ n \in Stamps}
MayBegin ==
    Len(journal) + Cardinality({p \in Poster : Posting(p)}) < MaxBegun

Entry(lines, date, stamp, reverses) ==
    [lines |-> lines, date |-> date, stamp |-> stamp,
     reverses |-> reverses]

(* Mutant of DateOfReversal: the reversal is booked on the original's day. *)
DateOfOriginal(i) == journal[i].date

DateOfReversal(i) == today

(* Interest is booked on the clock's date, all else on the real one.       *)
DateOf(q) == IF q.kind = "interest_credit" THEN clock ELSE today

(* A handler takes its date and begins its transaction.                    *)
Begin(p, q) ==
    /\ job[p] = NoJob
    /\ Len(journal) < MaxEntries /\ MayBegin
    /\ \E stamp \in NextStamps :
          job' = [job EXCEPT ![p] =
                     [step |-> "post", scenario |-> FALSE,
                      began |-> Len(journal),
                      entry |-> Entry(LinesFor(q), DateOf(q), stamp, 0)]]
    /\ UNCHANGED <<journal, today, clock, reader>>

(* The reversal scenario deposits into an account that it has opened, which *)
(* other handlers may have used since.                                     *)
BeginScenario(p, q) ==
    /\ job[p] = NoJob
    /\ Len(journal) < MaxEntries /\ MayBegin
    /\ q.kind = "deposit"
    /\ \E stamp \in NextStamps :
          job' = [job EXCEPT ![p] =
                     [step |-> "post", scenario |-> TRUE,
                      began |-> Len(journal),
                      entry |-> Entry(LinesFor(q), today, stamp, 0)]]
    /\ UNCHANGED <<journal, today, clock, reader>>

(* Its second transaction: ledger.Reverse.                                 *)
BeginReversal(p) ==
    /\ job[p].step = "reverse" /\ MayBegin
    /\ \E stamp \in NextStamps :
          LET i == job[p].original
          IN  job' = [job EXCEPT ![p] =
                         [step |-> "post", scenario |-> FALSE,
                          began |-> Len(journal),
                          entry |-> Entry(Swapped(journal[i].lines),
                                          DateOfReversal(i), stamp, i)]]
    /\ UNCHANGED <<journal, today, clock, reader>>

(* Interest, which account 5000 pays, and reversals are booked without a   *)
(* lock on the customer account's row.                                     *)
Locks(e) ==
    e.reverses = 0 /\ \A i \in DOMAIN e.lines : e.lines[i].account # Expense

(* Nobody else has had the lock on account a since k entries were booked.  *)
HeldSince(k, a) ==
    \A i \in (k + 1)..Len(journal) : Touches(i, a) => ~Locks(journal[i])

(* Mutant of Funded: the amount is not taken into account.                 *)
FundedBefore(e, began) ==
    e.reverses = 0 =>
        \E k \in began..Len(journal) :
            \A a \in Account : NetOf(e.lines, a) < 0 =>
                HeldSince(k, a) /\ SumOver(1..k, a) >= 0

(* A handler has looked at the funds of the customer account it debits,    *)
(* when k entries were booked, and has kept the row's lock from there on;  *)
(* a reversal looks at nothing.                                            *)
Funded(e, began) ==
    e.reverses = 0 =>
        \E k \in began..Len(journal) :
            \A a \in Account : NetOf(e.lines, a) < 0 =>
                HeldSince(k, a) /\ SumOver(1..k, a) + NetOf(e.lines, a) >= 0

(* CHECK (amount_minor > 0).                                               *)
Storable(lines) == \A i \in DOMAIN lines : lines[i].amount > 0

(* Post checks the entry; a reversal is not checked again.                 *)
Commit(p) ==
    /\ Posting(p)
    /\ job[p].entry.reverses = 0 => Valid(job[p].entry.lines)
    /\ Storable(job[p].entry.lines)
    /\ Funded(job[p].entry, job[p].began)
    /\ journal' = Append(journal, job[p].entry)
    /\ job' = [job EXCEPT ![p] =
                  IF job[p].scenario
                  THEN [step |-> "reverse", original |-> Len(journal')]
                  ELSE NoJob]
    /\ UNCHANGED <<today, clock, reader>>

(* An early return, an error or a rollback.                                *)
Abandon(p) ==
    /\ job[p] # NoJob
    /\ job' = [job EXCEPT ![p] = NoJob]
    /\ UNCHANGED <<journal, today, clock, reader>>

-----------------------------------------------------------------------------
(* Time                                                                    *)

DayPasses ==
    /\ today < MaxDay
    /\ today' = today + 1
    /\ UNCHANGED <<journal, clock, job, reader>>

(* POST /admin/clock/advance; the clock does not move by itself.           *)
Advance ==
    /\ clock < MaxDay
    /\ clock' = clock + 1
    /\ UNCHANGED <<journal, today, job, reader>>

(* The clock starts at the real date, and no request under way survives; a *)
(* client that pages goes on.                                              *)
Restart ==
    /\ clock' = today
    /\ job' = [p \in Poster |-> NoJob]
    /\ reader' = [r \in Reader |-> IF reader[r].what = "statement" THEN NoRead
                                    ELSE reader[r]]
    /\ UNCHANGED <<journal, today>>

-----------------------------------------------------------------------------
(* Readers                                                                 *)

(* No entry with a date before d can come any more: both clocks have       *)
(* passed it, and so has every handler that took its date earlier.         *)
Settled(d) ==
    /\ d <= today /\ d <= clock
    /\ \A p \in Poster : Posting(p) => d <= job[p].entry.date

(* Generate, its first query.                                              *)
ReadOpening(r, g, from) ==
    /\ reader[r] = NoRead
    /\ reader' = [reader EXCEPT ![r] =
                     [what |-> "statement", account |-> g, from |-> from,
                      opening |-> BalanceAsOf(g, from),
                      settled |-> Settled(from)]]
    /\ UNCHANGED <<journal, today, clock, job>>

(* The closing balance that the second query gives for a period up to to.  *)
Closing(r, to) ==
    reader[r].opening + SumOver(InPeriod(reader[r].from, to), reader[r].account)

ReadLines(r) ==
    /\ reader[r].what = "statement"
    /\ reader' = [reader EXCEPT ![r] = NoRead]
    /\ UNCHANGED <<journal, today, clock, job>>

(* A client reads the first page of an account's history, and the pages    *)
(* after it until one is not full.                                         *)
ReadHistory(r, g) ==
    /\ reader[r] = NoRead
    /\ \E page \in Pages(g, 0) :
          /\ Cardinality(page) = PageSize
          /\ reader' = [reader EXCEPT ![r] =
                           [what |-> "history", account |-> g,
                            offset |-> PageSize, owed |-> Entries(g) \ page]]
    /\ UNCHANGED <<journal, today, clock, job>>

ReadPage(r) ==
    /\ reader[r].what = "history"
    /\ LET h == reader[r]
       IN  \E page \in Pages(h.account, h.offset) :
              reader' = [reader EXCEPT ![r] =
                            IF Cardinality(page) < PageSize THEN NoRead
                            ELSE [what |-> "history", account |-> h.account,
                                  offset |-> h.offset + PageSize,
                                  owed |-> h.owed \ page]]
    /\ UNCHANGED <<journal, today, clock, job>>

-----------------------------------------------------------------------------
Init ==
    /\ journal = <<>>
    /\ today = 1
    /\ clock = 1
    /\ job = [p \in Poster |-> NoJob]
    /\ reader = [r \in Reader |-> NoRead]

Next ==
    \/ \E p \in Poster : \/ \E q \in Request : Begin(p, q) \/ BeginScenario(p, q)
                         \/ BeginReversal(p)
                         \/ Commit(p)
                         \/ Abandon(p)
    \/ DayPasses \/ Advance \/ Restart
    \/ \E r \in Reader :
          \/ \E g \in Account : \/ \E from \in 1..(MaxDay + 1) : ReadOpening(r, g, from)
                                \/ ReadHistory(r, g)
          \/ ReadLines(r)
          \/ ReadPage(r)

Spec == Init /\ [][Next]_vars

-----------------------------------------------------------------------------
(* Properties                                                              *)

(* The double-entry law: the entries balance, the reversals too, which     *)
(* nobody validates, and so does the sum of all GL accounts.               *)
BooksBalance ==
    /\ \A i \in DOMAIN journal : Valid(journal[i].lines)
    /\ SumFunction([g \in Gl |-> LedgerBalance(g)]) = 0

(* "compensates entry ..., and neither entry was deleted"                  *)
(* (education/http.go): a reversal undoes an earlier entry account by      *)
(* account, whatever was posted in between, and no entry is undone twice.  *)
ReversalsCompensate ==
    \A j \in DOMAIN journal : journal[j].reverses # 0 =>
        LET i == journal[j].reverses
        IN  /\ i < j
            /\ \A g \in Gl : NetOf(journal[i].lines, g)
                                 + NetOf(journal[j].lines, g) = 0
            /\ \A k \in DOMAIN journal : journal[k].reverses = i => k = j

(* A day that is settled stays so, and the balances as of it are final:    *)
(* no posting, reversal, advance or restart books anything before it.      *)
SettledDayStays ==
    \A d \in 1..(MaxDay + 1) :
        Settled(d) => /\ Settled(d)'
                      /\ journal' # journal =>
                             \A g \in Account : UNCHANGED BalanceAsOf(g, d)

ClosedDaysStay == [][SettledDayStays]_vars

(* "Generate a statement for a period (opening balance, lines, closing     *)
(* balance)" (api/openapi.yaml): although the opening balance and the      *)
(* lines are read one after the other, the closing balance is the account's *)
(* balance as of the end, as long as the period began on a settled day.    *)
StatementAddsUp ==
    \A r \in Reader : reader[r].what = "statement" =>
        \A to \in reader[r].from..(MaxDay + 1) :
            reader[r].settled =>
                Closing(r, to) = BalanceAsOf(reader[r].account, to)

(* The entries of an account that share their created_at with another.     *)
Tied(g) == {i \in Entries(g) : \E j \in Entries(g) \ {i} :
                                  journal[j].stamp = journal[i].stamp}

(* Paging through an account's history misses none of the entries that     *)
(* were there when it began, although entries booked meanwhile, in any     *)
(* order of their creation, shift the pages: only those that were created  *)
(* in the same microsecond as another entry of the account may change      *)
(* places between two pages, and be missed.                                *)
HistoryMissesNothing ==
    \A r \in Reader : reader[r].what = "history" =>
        LET g == reader[r].account
        IN  \A page \in Pages(g, reader[r].offset) :
               Cardinality(page) < PageSize =>
                   reader[r].owed \subseteq page \cup Tied(g)

(* What reversals have taken from a customer.                              *)
TakenBack(a) == -SumOver({i \in DOMAIN journal : journal[i].reverses # 0}, a)

(* No customer pays more than they were paid: without the deposits that    *)
(* were taken back no account is overdrawn, although a reversal does not   *)
(* wait until a handler that has looked at the funds is done.              *)
OnlyReversalsOverdraw ==
    \A a \in Account : LedgerBalance(a) + TakenBack(a) >= 0

(* Nothing would be different if balances were stored, instead of summed   *)
(* up whenever one is asked for: each commit is one entry of such books,   *)
(* and no other step is.                                                   *)
Balances == [g \in Gl |-> LedgerBalance(g)]
Moves == [i \in DOMAIN journal |-> [g \in Gl |-> NetOf(journal[i].lines, g)]]
Undone == {journal[i].reverses : i \in DOMAIN journal} \ {0}
Taken == [a \in Account |-> TakenBack(a)]

StoredBooks == INSTANCE Books WITH
    balance <- Balances, moves <- Moves, undone <- Undone, taken <- Taken
ImplementsBooks == StoredBooks!Spec

=============================================================================
