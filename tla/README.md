# kasa in TLA+

kasa is a small core-banking system: a Go API server over Postgres with
customer accounts, deposits, withdrawals and transfers, a double-entry ledger,
daily interest with a "time machine", loans, and idempotency keys. All state
that matters is in Postgres, at its default isolation level READ COMMITTED; the
server keeps only a clock, rate-limit buckets and metrics in memory. Every HTTP
request runs in a goroutine of its own, and what makes the system hard is what
several requests do to the same rows between each other's statements.

This directory holds the models of that logic, the TLC configurations that
check them and proofs that the TLA+ proof system checks.

    tlc -workers 2 -config MoneyMovement.cfg MCMoneyMovement
    tlc -workers 2 -config FrontDoor.cfg MCFrontDoor
    tlapm MoneyMovementProofs.tla
    tlapm FrontDoorProofs.tla
    tlapm IdempotencyProofs.tla
    tlapm LoansProofs.tla
    tlapm InterestProofs.tla
    tlapm JournalProofs.tla
    tlapm AmortizationProofs.tla
    tlapm ArithmeticProofs.tla

## 1. The system

Paths are relative to `src/backend`.

| Component | State | Operations | Interacts with | Must be true of it | Modelled in |
|---|---|---|---|---|---|
| Deposits and withdrawals (`internal/deposit`) | none of its own | `Deposit`, `Withdraw`, both `move`: Begin, lock the account row, check status and funds, post, Commit | account rows (`FOR UPDATE`), ledger | no overdraft; cash only for active accounts; all or nothing | `MoneyMovement`, `Bank` |
| Transfers (`internal/transfer`) | none | `Transfer`: the same with two rows, locked in the order of the id strings | the same; idempotency middleware | the same, and no deadlock but between two spellings of an account; everybody is answered | `MoneyMovement`, `Bank` |
| Accounts (`internal/account`) | `accounts` rows: status, GL sub-account | `OpenAccount`, `Freeze`, `Unfreeze`, `Close`; reads | `Close` reads the ledger | legal statuses, closed at zero | `MoneyMovement`, `Bank` (partly) |
| Ledger (`internal/ledger`) | `journal_entry`, `journal_line`, `chart_of_accounts` | `LinesFor`, `Validate`, `Post`, `Reverse`, `LedgerBalance` | called in everybody's transaction | what is posted adds up; no overdraft | `Journal`, `Books`; by its effect on balances elsewhere |
| Idempotency (`internal/platform/web/idempotency.go`) | `idempotency_key` rows | look up, run the handler, store | wraps `POST /transfers` | a key moves money once and answers truly | `Idempotency` |
| Loans (`internal/loan/service.go`) | `loans`, `loan_installments` | `Originate`, `Repay`; reads | account rows, ledger | installments are paid in order, for money; closed iff paid | `Loans` |
| Loan schedule (`internal/loan/schedule.go`) | none | `Schedule` | money | no cent lost; it amortizes | `Amortization` |
| Interest (`internal/interest`) | `interest_accrual` rows | `advance` with `Accrue`; `CapitalizeAll` | clock, ledger, accounts | every day accrued once; paid what accrued | `Interest` |
| Clock (`internal/platform/clock`) | an offset in memory | `Advance`, `Now` | interest | lost on restart | `Interest` |
| Money (`internal/shared/money`) | none | `InterestForDays`, `ApplyRate`, `Allocate`; `Parse`, `String` | schedule, interest, all handlers | banker's rounding, exact split, text that reads back | `Money`, `MoneyText` (partly) |
| Server life cycle (`cmd/api`, `internal/app`) | serving, draining, closing the pool | start, SIGTERM, Shutdown, `pool.Close`, exit, crash | everything | a stop rolls back, and it comes to an end | `FrontDoor`; `Rollback`, `Restart` elsewhere (partly) |
| Statements (`internal/statement`) | none | `Generate`: opening balance, then lines | ledger | opening, lines and closing agree | `Journal` |
| History (`internal/history`) | none | pages of an account's entries; one entry | ledger | no entry is missed, but where two share a microsecond | `Journal` (partly) |
| Education scenarios (`internal/education`) | none | open, deposit, reverse in three transactions | accounts, ledger | the reversal compensates | `Journal` (partly) |
| Customers (`internal/customer`) | `customers`, `credentials` rows | `Register`, `Login`; reads | pool, rate limiter | one customer per address, whole or not at all; who is registered can log in | `Customers`, `FrontDoor`, `Registry` |
| Rate limiter (`internal/platform/web/ratelimit.go`) | a token bucket per peer, in memory | `limiterFor`, `Allow` | in front of `/register`, `/login` and the money routes | burst and rate, and nobody is locked out | `RateLimit`, `FrontDoor` |
| Postgres pool (`internal/platform/postgres/pool.go`) | the connections that are out | acquire, release, `Close` | every transaction | nobody waits for ever | `Customers`, `FrontDoor` |
| Authentication (`internal/platform/auth`) | none | `Hash`, `Verify`; tokens | customers, guards | | `Customers` (partly) |
| Holds | `hold` rows | none: no service makes one | `Balances` | | no |
| Config, metrics, generated code, seed, frontend | | | | | no |

What is hard about it:

* a check and the write that relies on it are separate statements: funds,
  status, the next due installment, the sum of the accruals, the stored answer;
* row locks: who waits for whom, and whether everybody is served;
* a transaction may be rolled back at any statement (error, client gone, server
  stopped), and the jobs over all accounts are not one transaction;
* clients retry, with the same key or another body, while the first attempt may
  still be running;
* the restart of a process whose clock and rate limits live in memory, and a
  shutdown that gets its connections back from handlers it no longer waits for;
* two transactions that meet at a unique index, one of which is not decided yet;
* rounding, in a schedule that rounds twice a month.

## 2. The modules

    Bank  <--implements--  MoneyMovement  <--  MoneyMovementProofs  <--  MCMoneyMovement
                             |  (a request may be taken as one step)
             Idempotency, Loans, Interest   <--  MCIdempotency, MCLoans, MCInterest
    Books  <--implements--  Journal  <--  MCJournal, JournalProofs
    Money  <--  MoneyText  <--  Amortization  <--  MCAmortization, AmortizationProofs
    Money  <--  Interest
    Registry  <--implements--  FrontDoor  <--  MCFrontDoor, FrontDoorProofs
                                 |
                    RateLimit, Customers (its parts)
    Money  <--  ArithmeticProofs (sums, division, rounding)
    ArithmeticProofs  <--  AmortizationProofs, LoansProofs, InterestProofs, JournalProofs
    Idempotency, Loans, Interest, Journal  <--  IdempotencyProofs, LoansProofs, ...

**Bank** is what the system promises: each posting is one step that moves one
amount between two GL accounts and takes nobody below zero; deposits and
withdrawals want an active account; `Transfer` looks at no status, as in the
code. `SetStatus` promises little, again as in the code (see section 5).

**MoneyMovement** is the deposit, transfer and account services statement by
statement. `req`, `pc`, `toLock` and `held` are a request's arguments, its place
in the handler, the account ids it still has to lock and the rows it has;
`staff` is the same for `Freeze`, `Unfreeze` and `Close`, which run outside any
transaction. `Start` is the argument checks and `Begin`; `Lock` and `RefuseRow`
are `GetAccountForUpdate` with the early returns after it; `Check` and
`RefuseFunds` are `LedgerBalance` and the comparison; `Commit` is the posting and
the COMMIT, in one step because nobody sees the lines of an open transaction;
`Rollback` is every other way out. `Decide`, `CheckZero` and `Write` are the three
separate statements of an officer. Ids are numbers in the order of the strings
they stand for, and `Parse` maps an id to an account, since `uuid.Parse` accepts
several spellings of one. `Victim` is Postgres, which fails a statement of a cycle
of waiters. `balance[g]` is what `LedgerBalance` sums: credits
minus debits of the committed lines.

**Idempotency** is the middleware: `Send`, the lookup (`Replay`, `Conflict`,
`Miss`), the handler (`Move`, `Refuse`) and the insert (`Store`, `LoseAnswer`),
each in its own database access. A transfer is one step here; that this is a
fair view of it is what ImplementsBank says. `Awaited` and `Kept` name the keys
whose clients wait for an answer before they retry and whose inserts do not
fail; the other keys do both.

**Loans** has `Originate` (`LockForLoan`, `Disburse`) and `Repay` (`ReadLoan`,
`ReadNextDue`, `LockRow`, `Check`, `Repay`) with the refusals in between. The two
reads come before the lock, as in the code. Tellers and officers act in one step
when the row is free. `Terms` are installments as `Schedule` builds them.

**Money** is arithmetic without state: Go's truncating division, rounding half
to even, `InterestForDays`, `ApplyRate`, `Allocate`.

**MoneyText** is `String` and `Parse`: a text is its sign, its whole part and the
digits of its fraction, which a client may shorten by its last zeros.

**Amortization** is the loop of `Schedule`, an iteration a step. The payment of a
loan with interest comes from `math.Pow` and is the parameter `Annuity`; what
holds for any payment is kept apart from what needs the right one.

**Interest** is the two admin jobs account by account, with the statements of
`Accrue` and `Capitalize` apart. `Tick` and `Now` are the two uses of the clock's
mutex; `Mark` waits for rows that another open transaction has updated; `Abort`
leaves what was already inserted; `Restart` resets the clock. `MayHappen` says what
an instance includes: aborts, restarts, advances that overlap one another, or any
jobs that overlap. `earlier` and `crossed` are history variables: the number of rows
an earlier process inserted, and whether advances have overlapped.

**Journal** keeps the entries and their lines as data. A handler takes its booking
date and its `created_at` at `Begin`, and `Commit` is `Post` with its validation
and the COMMIT, which come in another order than the dates. Interest is booked on
the time machine's date, everything else on the real one; `Advance`, `DayPasses`
and `Restart` move the two. `BeginScenario` and `BeginReversal` are the two
postings of the reversal scenario, with other handlers in between. `created_at` is the
microsecond of the transaction's `now()`: it may be that of another transaction
(`NextStamps`), nothing makes it unique. A statement is two queries (`ReadOpening`,
then `ReadLines` with `Closing`), a history is page after page by OFFSET. The ORDER BY
has nothing to break a tie with, so a query of a page has several possible results
(`Latest`, `Pages`), and each query takes one of them anew. `settled` and `owed` are history variables in a reader's
record: whether the period began on a day that nothing can be booked before any
more, and the entries that the client has still to see. A check of funds comes some
time between `Begin` and `Commit`: `Funded` says that the handler has looked when k
entries were booked and has had the row's lock since (`HeldSince`), which keeps other
handlers out but neither interest nor reversals, which lock no row (`Locks`).

**Books** is what all that should amount to: a balance is stored for every GL account,
an entry moves money that is there, and an entry is undone at most once and as a whole.
`taken` is what undoing has taken from a customer, who may be overdrawn by that much.

**RateLimit** is the map of token buckets. A bucket keeps what it held when a
request was last let through and, in place of that time, its age in ticks; what it
holds now is computed on demand, as in `golang.org/x/time/rate`, which is external.

**Customers** is `Register` (`Begin`, `CreateCustomer` or `EmailTaken`,
`CreateCredential`, `Commit`) and `Login` over a pool: `conns` are the requests that
have one of its connections and `wrote` is what an open transaction has inserted.
An INSERT of an address that another open transaction has inserted waits until
that one is decided, which is what Postgres does at the unique index. `Normalize`
and `Valid` stand for lower case, trimming and the regular expression.

**FrontDoor** puts the two together with `main`: a request passes the limiter of its
peer (`Receive`, `Limited`), runs, and its answer arrives or is lost (`Reply`,
`ReplyLost`); SIGTERM drains the server, then the pool is closed, then the process
ends; it may crash at any time and starts again with empty buckets. `told` is a
history variable, the registrations that clients saw confirmed, and `credit` is
another: the bucket that WithinRate compares the lazy one with, which is filled at
every tick and charged for every request that is let through.

**Registry** is what a client may rely on: a customer joins in one step together
with the password, with an address nobody has, stays for good, and is confirmed
only then.

## 3. The runs

| Run | Instance | Checks |
|---|---|---|
| `movement` | 2 accounts, one of them in 2 spellings, 2 requests, 1 officer, amounts -1, 0, 1, with fairness | `IInv`, `NoOverdraft`, `DeadlockNeedsSpellings`, `CashOnlyForActive`, `ImplementsBank`, `EveryRequestIsAnswered` |
| `front_door` | 1 peer, 2 requests, 1 other handler, 2 connections, an address in 2 spellings and an invalid one, 2 passwords, bucket of 2 tokens, with fairness | `TypeOK`, `WithinRate`, `TakenIsTrue`, `ImplementsRegistry`, `RegisteredCanLogIn`, `NobodyIsLockedOut`, `EveryHandlerEnds`, `ShutdownCompletes` |
| `idempotency` | 3 attempts, 2 keys (one careful), 2 bodies | `AnswersAreReal`, `CarefulKeysMoveOnce`, `SettledForGood` |
| `schedule` | principals 450 to 600 at 1800 bps, 1 to 130 at 0 bps, 1 to 12 months | `BalancesChain`, `PrincipalSumsExactly`, `PaymentsGain`, `ZeroRateIsEven`, `RoundingIsBankers`, `AllocationIsExact`, `StringParsesBack` |
| `loans` | 1 account, 2 loans, 2 requests, tellers | `NoOverdraft`, `ClosedIffPaid`, `MarkedIsPaidFor`, `UnpayableStopsLoan` |
| `interest` | 2 accounts (one quiet), 2 advances that may overlap or 1 capitalization, tellers, freezes, aborts, restarts | `PaidWhatAccrued`, `AccruedOnceADay`, `DayIsAccrued`, `NoExtraDays` |
| `journal` | 2 accounts, 2 handlers, 1 reader, 2 days, pages of 1 entry | `BooksBalance`, `ReversalsCompensate`, `StatementAddsUp`, `HistoryMissesNothing`, `ClosedDaysStay`, `OnlyReversalsOverdraw` |
| `close_race`, `idempotency_overlap`, `loan_paid_twice`, `overpaid`, `capitalized_twice` | small | each refutes one sentence of the repository, section 5 |

*Bounds.* `MaxCash` stops deposits once the bank holds so much, `MaxBalance` does
so per account, `MaxMoves` ends the booking of transfers, `MaxDay` and `MaxRows`
end the days asked for and the accruals inserted. None cuts a request in the
middle of a hazard. Two requests are enough for any race of two checks and two
writes, which is what the code has; longer rings of waits need three or more
requests and are excluded for any number by the theorem DeadlockFree. In
`movement` one unit of cash makes a request fundable before and not after
another; amounts of zero and below exercise the argument checks; the ids are
1 and 3 for one account and 2 for the other, so that transfers between them can
be sorted in opposite orders. In `front_door` a token is two fractions and a tick
brings one, so that buckets are found empty, half full and full; there is one
address to compete for, three handlers compete for two connections, and there are
more ids than registrations that can succeed or be under way. In
`idempotency` three attempts let a retry overlap a first attempt while a third
replays. In `loans` the account holds enough for one installment and not two, or
for both, depending on the tellers; a loan of 100 minor units over two months has
installments with interest, and one of 40 over three has two whose interest rounds
to zero, the first of them with another after it. In `interest`
25000 minor units at 150 basis points earn one unit a day, a withdrawal makes
that nothing, and a restart on the first day puts the same dates in play again;
two advances of one day each are enough for one to see the date of the other.
In `journal` `MaxEntries` keeps handlers from beginning once two entries are
booked and `MaxBegun` keeps entries, booked or under way, to three; `MaxStamp` is the last
of three microseconds in which they may begin, so that three entries may have a stamp
each, in any order of their commits, or share one; and `MaxDay` ends the days of both
clocks. Two days and the day after are
a day before, in and after a period, and pages of one entry make a second and a
third page out of three; a scenario's deposit, a withdrawal and the reversal between the
withdrawal's look at the funds and its posting are three entries. In `schedule`
principals of a few hundred units make the monthly rounding as large a share of the
interest as it can be, and the annuity factors in `MCAmortization` have the digits that
those principals need. Rounding, splitting and
the text form are checked on every balance of a schedule and on the same amount
overdrawn; of the `Days` tried, 73 and 365 give ties at the rate of 1800 basis points.

*Symmetry* is used for requests, attempts and bodies where nothing orders them,
and in no run that checks liveness.

*Deadlock* is checked in every run but `schedule` and `overpaid`, where the loop ends.

*Fairness.* In MoneyMovement, `FairSpec` assumes strong fairness of `RequestStep(r)`:
a goroutine that can go on does so, and Postgres queues the waiters of a row, so
one that is free again and again is had. Strong and not weak, because a row that
a request waits for is taken by others in between. It also assumes that Postgres
does not leave a cycle of waiters alone (weak fairness of `Victim`): deadlock
detection is on by default. The officers are not fair and need not be, since no
request waits for them. `Start`, `Decide`, `Open`, `Rollback` and `GiveUp` are not
fair: nobody has to ask, and nobody has to give up.

In FrontDoor, time passes (`Tick`), handlers that can go on do so (`Step` or `Reply`,
strongly, because connections and undecided addresses come and go, and the pool
and Postgres queue their waiters), a handler returns its connection
(`OtherReturnsConn`), and `main` goes on to close the pool and to exit: `Shutdown`
has ten seconds. No client has to send anything, no signal has to come, and
nothing that fails has to.

*Mutants.* The definitions commented "Mutant of ..." are plausible mistakes in
the code: the row read without FOR UPDATE, ids locked in the order sent, an early
return that keeps the transaction open, a swapped posting, a count before the
mark. They are not part of any specification; each property is violated when the
definition it names is replaced by one of them.

## 4. What is proved

`MoneyMovementProofs` proves, for any sets of accounts, ids, amounts, requests
and officers and any `Parse`, from `MovementAssumption` alone:

* `Invariance`: `Spec => []IInv`. `IInv` is the type invariant, the exclusiveness
  of row locks, no overdraft, and for each request what its place in the handler
  entitles it to: it has locked exactly the rows of the ids it named and no
  longer waits for, in ascending order; the rows it has exist, and are active if
  the order is a deposit or a withdrawal; and once at the posting, the debited
  balance covers the amount. An officer's task is about an account that exists.
  The overdraft bound alone is not inductive: the posting needs the
  funds that an earlier statement found to be still there, and they are because
  every debit of a customer account is made under its row lock.
* `NeverOverdrawn`, `CashIsForActive`: the two properties, from that invariant.
  The second also needs that `Write` waits for the row lock.
* `Refinement`: `Spec => ImplementsBank`. `Commit` is the Bank's deposit,
  withdrawal or transfer, `Write` its `SetStatus`, everything else a stutter.
* `DeadlockFree`: `DeadlockNeedsSpellings` always, for ids below any bound. In a set
  of requests that all wait and spell their accounts alike, take one that holds a
  row with the largest id: whoever it waits for holds a larger one. That is the
  argument for the sorted order in `Transfer`, and it shows what the order has to
  be: one of rows. `NoDeadlockOfCanonicalIds` is the corollary for one spelling
  per account: there is no deadlock at all.

`MoneyMovementProofs` is extended by `MCMoneyMovement`, so `IInv` is checked by
TLC as well.

`FrontDoorProofs` proves from `FrontDoorAssumption`, which says of the addresses
that normalizing one twice is normalizing it once, and of the bucket that a
request costs something and no more than the burst:

* `RateIsKept`: `Spec => []WithinRate`. The invariant is that the lazy bucket of every
  peer, the one that a peer without a limiter would be given included, holds what
  `credit` does: a bucket that was left alone for any time and is then looked at is
  as full as one that is filled at every tick. WithinRate alone is not inductive.
* `TakenOnlyByCustomers`: `Spec => []TakenIsTrue`. A handler comes to say EMAIL_TAKEN
  only in the step that finds the row committed, and no step deletes a customer.
* `RegistryRefinement`: `Spec => ImplementsRegistry`. The invariant, `RegisterInv`, is
  the types; what each open transaction has inserted, by its handler's place
  (`Stages`); that no two customers, committed or inserted, have one id or one
  address (`Distinct`); that each credential is the only one of a customer
  (`Credentialed`); and that those who were told are members. The unique index is
  needed for `Distinct` between two open transactions: one that inserts an address
  which another has inserted waits. A `Commit` is then the register's `Join`, a
  `Reply` that says "created" its `Confirm`, everything else, crashes and shutdowns
  included, a stutter.
* `RegisteredAreLetIn`: `Spec => RegisteredCanLogIn`, from the same invariant. Only
  `Login` turns anybody away, and it finds the one credential of the one customer
  of the address.
* `TypesHold`: `Spec => []TypeOK`. That a customer's address is valid is not a matter
  of form: it holds because a registration does not begin with another.

`IdempotencyProofs` proves from `IdempotencyAssumption`:

* `AnswersReal`: `Spec => []AnswersAreReal`, because a stored answer is of a transfer that
  was booked for its key and body, and so is the one an attempt is about to store.
* `CarefulMovesOnce`: `Spec => []CarefulKeysMoveOnce`. A key whose client waits has one
  attempt under way at a time, and while nothing is stored for it nothing has been
  moved for it but by an attempt that is about to store its answer (`NotMovedYet`).
* `SettledKeysStay`: `Spec => SettledForGood`, the action property, for every key.

`LoansProofs` proves from `LoansAssumption` and `PrincipalAssumption`, which say that a
loan is of a positive sum and has at least one installment:

* `LoansNeverOverdraw`: `Spec => []NoOverdraft`. As in MoneyMovement, the funds that a
  repayment found are still there at its posting because it holds the row.
* `LoansCloseWhenPaid`: `Spec => []ClosedIffPaid`. The number that a repayment chose
  before it had the lock is the next due one or was paid meanwhile (`Chosen`),
  so marking it leaves no gap; a loan that is being disbursed has nothing paid.
* `LoansMarkOnlyWhatIsPaid`: `Spec => []MarkedIsPaidFor`, from what is still to be got
  back being a sum over the installments due, which a mark makes smaller by no more
  than was posted. Two repayments of one installment post twice and mark once.
* `UnpayableInstallmentsStopLoans`: `Spec => []UnpayableStopsLoan`. An installment with a
  part that is not positive is never marked, because its lines are refused, and
  `ClosedIffPaid` then keeps those after it and the loan from being marked and closed.

`InterestProofs` proves from `InterestAssumption`:

* `InterestOnceADay`: `Spec => []AccruedOnceADay`. Until advances cross, one of them is at
  work at a time, on the date that the clock shows, and the rows of the accounts it
  has still to come to are of earlier dates (`DatesFollowClock`).
* `InterestNoExtraDays`: `Spec => []NoExtraDays`. The rows of an account and the advances
  that have ticked and still have to come to it are together no more than the days
  that the clock shows (`DaysAreSpent`), whatever overlaps.
* `InterestPaysWhatAccrued` and `InterestDayIsAccrued`: PaidWhatAccrued and DayIsAccrued,
  if `"overlap" \notin MayHappen`, that is, if no capitalization runs beside another job.
  Without that PaidWhatAccrued is false, which is the run `capitalized_twice`. The
  sum that a capitalization found is that of the open rows, since nobody inserts one
  before it marks them (`FoundIsOpen`).

`JournalProofs` proves from `JournalAssumption` and `RequestAssumption`, that the rules
make lines of the GL accounts:

* `BooksAlwaysBalance` and `ReversalsAlwaysCompensate`: BooksBalance and
  ReversalsCompensate. The invariant (`CoreInv`) says that what is committed was
  validated or is the swap of an earlier entry, and so balances; that a handler
  about to reverse holds the swap of a committed entry, which nobody else is
  reversing and nobody has reversed. Reversals are not
  checked by the code: that one entry is undone once rests on the scenario, which
  reverses what it has itself posted.
* `SettledDaysAreFinal`: `Spec => ClosedDaysStay`. A handler that begins takes the date of
  a clock, and a settled day is before both and before those that are under way.
* `StatementsAlwaysAddUp`: `Spec => []StatementAddsUp`. Between the two queries of a
  statement entries are committed, but none before a settled day, so that the
  opening balance is still that of the entries before the period. The balance is
  then the sum over a disjoint union.
* `HistoriesMissNothing`: `Spec => []HistoryMissesNothing`. The entries still owed to a
  reader, if they share their stamp with no other of the account, have at least as many
  entries with a later stamp as the reader has skipped (`Behind`): an entry that is
  committed meanwhile adds to those or makes two stamps equal, and nothing takes one
  away. Such an entry is not among what OFFSET skips (`NotAmongFirst`), and a page that
  leaves it out is full and, with what was skipped, precedes it (`PageBefore`).
  Nothing is assumed of the stamps but that they are numbers: they may be equal, and
  may be those of a server clock that was set back.

* `OnlyReversalsEverOverdraw`: `Spec => []OnlyReversalsOverdraw`. What handlers have posted
  to an account, reversals apart, is never less than nothing (`Covered`): between a
  look at the funds and the posting the row's lock keeps other handlers out, reversals
  only make the sum that was seen smaller than the one without them, and interest, which
  takes no lock either, only adds to it. That reversals only take and interest only
  gives is the second invariant, `GiftsOnly`; it rests on the scenario, which reverses
  nothing but its own deposits, and on `RequestAssumption`.
* `JournalImplementsBooks`: `Spec => ImplementsBooks`, the refinement. A `Commit` is a `Post`
  or an `Undo` of Books, everything else a stutter. That is why the other modules may
  keep a balance as one number where the code sums lines. It is proved and not run:
  to sum up all lines of all accounts at every step takes TLC too long on an instance
  with readers, and with one of two handlers, one day and three entries it agrees.

`AmortizationProofs` proves from `AmortizationAssumption`, which says of the
floating-point payment only that it is an integer:

* `NoCentLost`: `Spec => []BalancesChain`, for every set of loans. The invariant is
  `BalancesChain` with the type invariant, which the arithmetic needs: `Finished`
  comes true only in a step with `i = months`, whose principal part is the whole
  balance.
* `PrincipalAlwaysSums`: `Spec => []PrincipalSumsExactly`. What was repaid and the
  balance add up to the principal at every iteration.
* `ZeroRateAlwaysEven`: `Spec => []ZeroRateIsEven`. After i installments the balance is
  the principal less i payments, and the payment exceeds the exact quotient by less
  than one unit.
* `PaymentsAlwaysGain`: `Spec => []PaymentsGain`, for every payment that is more than the
  first month's interest. Banker's rounding is monotone, so a balance that falls bears
  no more interest, and the payment gains on the principal again; the invariant
  (`Gaining`) also keeps the balance at or below the principal.
* `StringsAlwaysParse`: `Spec => []StringParsesBack`. The digits that `%0*d` writes are
  those of the remainder, and the factor that both sides use is a power of ten, defined
  by a recursive function whose equation has to be proved from a least counterexample.
* `RoundingAlwaysBankers`: `Spec => []RoundingIsBankers`, and `AllocationAlwaysExact`:
  `Spec => []AllocationIsExact`. The type invariant makes the amounts of a schedule
  integers, and `ArithmeticProofs` says the rest.

`ArithmeticProofs` has no state. `RatesAreBankersRounding` and `AllocateLosesNothing` are
what these two need of `InterestForDays`, `ApplyRate` and `Allocate`, for every amount
of either sign, rate, number of days and number of parts. Its lemmas about
`SumFunction` (a sum over a set with one element more, over a disjoint union, of a
function changed at one place, sorted by class) carry the proofs above. The library defines sums by recursion over sets, and the theorems for induction are
beyond the provers; these lemmas are proved by contradiction instead, from a
smallest set for which one fails.

Only model-checked: the liveness properties `EveryRequestIsAnswered`,
`NobodyIsLockedOut`, `EveryHandlerEnds` and `ShutdownCompletes`, which are beyond the
prover.

## 5. Where the code does not do what it says

Five runs end in a counterexample.

* `close_race`: `Close` reads a zero balance, a deposit commits, and the
  unconditional UPDATE closes an account that holds money
  (`internal/account/service.go:123`).
* `idempotency_overlap`: the lookup reserves nothing, so a retry that arrives
  while the first attempt runs books a second transfer
  (`internal/platform/web/idempotency.go:33`).
* `loan_paid_twice`: two repayments choose the same installment before either has
  the lock; both are charged, one installment is marked
  (`internal/loan/service.go:198`).
* `capitalized_twice`: two capitalizations read the same sum before either marks
  the rows; both pay it (`internal/interest/service.go:80`).
* `overpaid`: the payment is computed for a twelfth of the annual rate, the interest for
  30 days of 365. The difference adds up: a loan of 30000 over seven years at the
  product's rate is paid off before its last installment, which is negative, cannot be
  posted, and leaves the loan open for good (`internal/loan/schedule.go:44`). Nothing
  bounds the term but that it is positive (`internal/loan/http.go:70`).

Others are visible in the models as conditions of a property that holds:

* `DeadlockNeedsSpellings` leaves deadlocks between two spellings of an account, and
  they happen: with "A0.." and "a0.." for one row, a transfer from the first and
  one to the second are each sorted as strings and lock the rows in opposite
  orders. `EveryRequestIsAnswered` then rests on Postgres, which fails one of them.
  The same two spellings pass the test for a transfer to the same account
  (`internal/transfer/service.go:38`, `:61`).
* `RegisteredCanLogIn` is for addresses in their normal spelling: `Register` stores
  the address trimmed and in lower case, and `Login` looks up the string it is
  sent, so whoever registered as Bob@x.com has to log in as bob@x.com
  (`internal/customer/service.go:33`).
* `WithinRate` is for one process: a restart fills every bucket.
* `StringParsesBack` starts from texts that `String` writes. `Parse` also takes some
  that it does not: a second sign after the first, as in "--5", and an empty whole
  part, as in "." or "-" (`internal/shared/money/money.go:57`, `:76`).
* `SetStatus` of Bank may leave any status: an `Unfreeze` decided before a `Close`
  is written after it and reopens the account.
* `CarefulKeysMoveOnce` is for answers that are stored: the insert comes after
  the transfer's commit, in another transaction, and its error is ignored.
* `UnpayableStopsLoan`: an installment of a small loan may have no interest, as the
  second of three does for 40 units at 1800 basis points. Its posting then has a line
  of zero, which `CHECK (amount_minor > 0)` refuses (`RefuseLines`), so that it and those
  after it can never be paid and the loan can never be closed. The test says "repayment
  with zero interest still posts a zero-amount income line"
  (`internal/ledger/rules_test.go:78`), which is true of the rule and not of the database.
  The negative last installment of `overpaid` ends the same way. No property says of
  which loans the last installment can be paid: it is not so of all, and depends on the
  floating-point annuity.
* `ZeroRateIsEven` excludes negative installments only when the principal is at
  least `(months - 1)^2`: rounded up, the payment can repay a smaller one before
  the term is over.
* `AccruedOnceADay` is for one process, and until advances have overlapped: a restart
  sets the clock back, and two advances that tick before either looks at the date
  both accrue the later one and nobody the earlier. `NoExtraDays` is what is left
  then: nobody earns more days than have passed.
* `interest` has no capitalization beside another job: an accrual inserted between
  its sum and its UPDATE is marked as capitalized without being paid
  (`internal/platform/postgres/interest.sql.go:75`).
* `ReversalsCompensate` says that a reversal undoes its entry, not that the balance
  returns to 0.00, as the scenario tells its reader
  (`internal/education/http.go:115`): a posting in between stays, and after a
  withdrawal the reversal, which checks no funds, leaves the account overdrawn.
* `HistoryMissesNothing` leaves out the entries that share their `created_at` with another
  of the account's (`Tied`). It has microseconds and is not unique
  (`db/migrations/0004_ledger.sql:19`), and the history orders by nothing else
  (`internal/platform/postgres/history.sql.go:64`): such entries may change places
  between the queries of two pages, so that a client sees one twice and the other not
  at all.
* `ClosedDaysStay` and `StatementAddsUp` are for periods that begin on a day both
  clocks have reached. The time machine stands still while real days pass, so
  interest is booked on days whose statements have been read.
* `DayIsAccrued` is for days that an advance is done with: a day whose accrual
  failed is left behind, because the clock has already moved.

## 6. What is not modelled

Holds have no service. The signing and the expiry of tokens, response formats,
metrics, configuration and generated code have no state that these properties
speak of; a password is compared and a token is an answer. Idle and connect
timeouts of the pool only delay. The map of limiters grows with every address
and is never pruned, and nothing in the code bounds it. Int64 overflow of the
interest product is left out, because TLC's integers have 32 bits; `Parse` refuses
what does not fit. Due dates are left out of schedules. Currencies are left out:
accounts are opened in the product's currency, and there is one. `Balances`, the
lists of accounts and the view of one journal entry only read rows that never
change or one value that other modules read too.

## 7. Plan

1. *Done:* Bank and MoneyMovement with their proofs; Idempotency; Loans; Money,
   MoneyText and Amortization with its proof; Interest with overlapping advances;
   Journal; RateLimit, Customers and FrontDoor over Registry.
2. *Done:* the invariants, the action properties and the three refinements, proved for
   all values of the constants; then the text of amounts, the gain of payments, the
   overdrafts that reversals cause and the refinement of Books, which says that a
   balance summed over lines may be taken as one number.
3. *Left:* Interest together with the account life cycle, that is, what becomes of the
   open accruals of an account that is closed; a bound on the term below which the last
   installment is positive, which needs facts about the floating-point annuity.
