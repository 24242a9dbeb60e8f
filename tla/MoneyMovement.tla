--------------------------- MODULE MoneyMovement ---------------------------
(***************************************************************************)
(* The deposit, transfer and account services over Postgres (READ          *)
(* COMMITTED).  A request is one transaction: it locks the account rows it *)
(* needs with SELECT ... FOR UPDATE, checks them, inserts its journal      *)
(* lines and commits, each a step of its own, so the steps of several      *)
(* requests interleave.  An officer runs Freeze, Unfreeze or Close, which  *)
(* read, decide and write in separate statements outside any transaction.  *)
(***************************************************************************)
EXTENDS Integers, FiniteSets

CONSTANTS
    Account,    \* customer deposit accounts; each owns one GL sub-account
    Cash,       \* the bank's GL account 1000, which has no row in accounts
    Id,         \* account-id strings that clients send, in string order
    Parse,      \* uuid.Parse: the account that an id string denotes
    Amount,     \* amounts that clients send, in minor units
    Request,    \* requests that may be in flight together
    Officer,    \* callers of Freeze, Unfreeze and Close
    MaxCash     \* bound: no deposit is asked for once the bank holds this much

(* uuid.Parse accepts several spellings of one account, so Parse need not  *)
(* be one-to-one.                                                          *)
ASSUME MovementAssumption ==
    /\ Id \subseteq Nat
    /\ Parse \in [Id -> Account]
    /\ Amount \subseteq Int
    /\ MaxCash \in Nat
    /\ Cash \notin Account
    /\ Cash \notin Id

VARIABLES
    balance,    \* GL account -> credits minus debits over committed lines
    status,     \* account -> committed accounts.status
    req,        \* request -> what it was asked to do
    pc,         \* request -> where it is
    toLock,     \* request -> the ids it still has to lock
    held,       \* request -> the accounts whose row it has locked
    staff       \* officer -> what it is doing

movement == <<req, pc, toLock, held>>
vars == <<balance, status, movement, staff>>

Gl == Account \cup {Cash}
Status == {"absent", "active", "frozen", "closed"}

(* A request debits one GL account and credits another; "from" and "to"    *)
(* are as the client spelled them.                                         *)
Order == [kind : {"deposit", "withdrawal", "transfer"},
          from : Id \cup {Cash}, to : Id \cup {Cash}, amount : Amount]
NoOrder == [kind |-> "none", from |-> Cash, to |-> Cash, amount |-> 0]

Asked ==
    {o \in Order : /\ o.from = Cash <=> o.kind = "deposit"
                   /\ o.to = Cash <=> o.kind = "withdrawal"}

Op == {"freeze", "unfreeze", "close"}
Task == [op : Op, account : Account, step : {"balance", "write"}]
NoTask == [op |-> "none"]

AccountOf(x) == IF x = Cash THEN Cash ELSE Parse[x]

(* The ids a request names, as the client spelled them.                    *)
Ids(r) == {req[r].from, req[r].to} \ {Cash}

-----------------------------------------------------------------------------
(* Rows and transactions                                                   *)

(* Mutant of Free: a plain SELECT, which waits for nobody.                 *)
FreeWithoutForUpdate(a, r) == TRUE

(* A row lock is granted when no other transaction has it.                 *)
Free(a, r) == \A q \in Request \ {r} : a \notin held[q]

(* Mutant of NextId: the payer is locked first, then the payee.            *)
NextIdUnsorted(r) ==
    IF req[r].from \in toLock[r] THEN req[r].from ELSE req[r].to

(* The string-sorted order of Transfer; deposit and withdraw lock one row. *)
NextId(r) == CHOOSE i \in toLock[r] : \A j \in toLock[r] : i <= j
NextRow(r) == Parse[NextId(r)]

(* Mutant of RowAccepted: the row's status is not looked at.               *)
RowAcceptedAnyStatus(r) == status[NextRow(r)] # "absent"

(* The row must exist; deposit and withdraw also want the account active.  *)
RowAccepted(r) ==
    /\ status[NextRow(r)] # "absent"
    /\ req[r].kind # "transfer" => status[NextRow(r)] = "active"

(* Mutant of End: an early return with the transaction left open.          *)
EndLeakingLocks(r) ==
    /\ req' = [req EXCEPT ![r] = NoOrder]
    /\ pc' = [pc EXCEPT ![r] = "idle"]
    /\ toLock' = [toLock EXCEPT ![r] = {}]
    /\ UNCHANGED held

(* COMMIT, ROLLBACK or a lost connection: the transaction's locks go.      *)
End(r) ==
    /\ req' = [req EXCEPT ![r] = NoOrder]
    /\ pc' = [pc EXCEPT ![r] = "idle"]
    /\ toLock' = [toLock EXCEPT ![r] = {}]
    /\ held' = [held EXCEPT ![r] = {}]

Post(debit, credit, n) ==
    balance' = [balance EXCEPT ![debit] = @ - n, ![credit] = @ + n]

-----------------------------------------------------------------------------
(* Deposit, Withdraw and Transfer                                          *)

(* The argument checks and Begin; a request that fails them does nothing.  *)
Start(r, o) ==
    /\ pc[r] = "idle"
    /\ o.amount > 0
    /\ o.from # o.to
    /\ o.kind = "deposit" => -balance[Cash] < MaxCash
    /\ req' = [req EXCEPT ![r] = o]
    /\ pc' = [pc EXCEPT ![r] = "lock"]
    /\ toLock' = [toLock EXCEPT ![r] = {o.from, o.to} \ {Cash}]
    /\ UNCHANGED <<balance, status, held, staff>>

(* GetAccountForUpdate: wait for the row, lock it, look at its status.     *)
Lock(r) ==
    /\ pc[r] = "lock"
    /\ Free(NextRow(r), r)
    /\ RowAccepted(r)
    /\ held' = [held EXCEPT ![r] = @ \cup {NextRow(r)}]
    /\ toLock' = [toLock EXCEPT ![r] = @ \ {NextId(r)}]
    /\ pc' = [pc EXCEPT ![r] =
                IF toLock[r] # {NextId(r)} THEN "lock"
                ELSE IF req[r].kind = "deposit" THEN "commit"
                ELSE "check"]
    /\ UNCHANGED <<balance, status, req, staff>>

RefuseRow(r) ==
    /\ pc[r] = "lock"
    /\ Free(NextRow(r), r)
    /\ ~RowAccepted(r)
    /\ End(r)
    /\ UNCHANGED <<balance, status, staff>>

(* LedgerBalance of the debited account, compared with the amount.         *)
Funded(r) == balance[AccountOf(req[r].from)] >= req[r].amount

Check(r) ==
    /\ pc[r] = "check"
    /\ Funded(r)
    /\ pc' = [pc EXCEPT ![r] = "commit"]
    /\ UNCHANGED <<balance, status, req, toLock, held, staff>>

RefuseFunds(r) ==
    /\ pc[r] = "check"
    /\ ~Funded(r)
    /\ End(r)
    /\ UNCHANGED <<balance, status, staff>>

(* ledger.Post inserts the lines; they are seen by others at the COMMIT,   *)
(* which also releases the locks.                                          *)
Commit(r) ==
    /\ pc[r] = "commit"
    /\ Post(AccountOf(req[r].from), AccountOf(req[r].to), req[r].amount)
    /\ End(r)
    /\ UNCHANGED <<status, staff>>

(* The client gives up, a statement fails or the server stops: deferred    *)
(* Rollback, or Postgres when the connection is lost.                      *)
Rollback(r) ==
    /\ pc[r] # "idle"
    /\ End(r)
    /\ UNCHANGED <<balance, status, staff>>

(* A request waits for another one that holds the row it wants next.       *)
WaitsFor(r, q) ==
    /\ pc[r] = "lock"
    /\ q # r
    /\ NextRow(r) \in held[q]

Deadlocked(S) == S # {} /\ \A r \in S : \E q \in S : WaitsFor(r, q)

(* Postgres looks for a cycle of waiters and fails a statement of it, with *)
(* which the request rolls back.                                           *)
Victim(r) ==
    /\ \E S \in SUBSET Request :
          /\ r \in S
          /\ Deadlocked(S)
          /\ \A T \in (SUBSET S) \ {S} : ~Deadlocked(T)
    /\ Rollback(r)

-----------------------------------------------------------------------------
(* OpenAccount, Freeze, Unfreeze and Close                                 *)

Open(a) ==
    /\ status[a] = "absent"
    /\ status' = [status EXCEPT ![a] = "active"]
    /\ UNCHANGED <<balance, movement, staff>>

(* The transitions that account/domain.go allows, and where they lead.     *)
LegalFrom == [freeze |-> {"active"},
              unfreeze |-> {"frozen"},
              close |-> {"active", "frozen"}]

(* Mutant of Target: a status of customers, not of accounts.               *)
TargetSuspended ==
    [freeze |-> "suspended", unfreeze |-> "active", close |-> "closed"]

Target == [freeze |-> "frozen", unfreeze |-> "active", close |-> "closed"]

(* Get reads the row and the transition is decided on what it returned.    *)
Decide(f, op, a) ==
    /\ staff[f] = NoTask
    /\ status[a] \in LegalFrom[op]
    /\ staff' = [staff EXCEPT ![f] =
                    [op |-> op, account |-> a,
                     step |-> IF op = "close" THEN "balance" ELSE "write"]]
    /\ UNCHANGED <<balance, status, movement>>

(* Close reads the ledger balance in a statement of its own.               *)
CheckZero(f) ==
    /\ staff[f] # NoTask
    /\ staff[f].step = "balance"
    /\ staff' = [staff EXCEPT ![f] =
                    IF balance[staff[f].account] = 0
                    THEN [op |-> "close", account |-> staff[f].account,
                          step |-> "write"]
                    ELSE NoTask]
    /\ UNCHANGED <<balance, status, movement>>

(* Mutant of Unlocked: FOR KEY SHARE, which an UPDATE of status ignores.   *)
UnlockedKeyShare(a) == TRUE

(* setStatus: an unconditional UPDATE, which waits for the row lock.       *)
Unlocked(a) == \A r \in Request : a \notin held[r]

Write(f) ==
    /\ staff[f] # NoTask
    /\ staff[f].step = "write"
    /\ Unlocked(staff[f].account)
    /\ status' = [status EXCEPT ![staff[f].account] = Target[staff[f].op]]
    /\ staff' = [staff EXCEPT ![f] = NoTask]
    /\ UNCHANGED <<balance, movement>>

GiveUp(f) ==
    /\ staff[f] # NoTask
    /\ staff' = [staff EXCEPT ![f] = NoTask]
    /\ UNCHANGED <<balance, status, movement>>

-----------------------------------------------------------------------------
Init ==
    /\ balance = [g \in Gl |-> 0]
    /\ status = [a \in Account |-> "absent"]
    /\ req = [r \in Request |-> NoOrder]
    /\ pc = [r \in Request |-> "idle"]
    /\ toLock = [r \in Request |-> {}]
    /\ held = [r \in Request |-> {}]
    /\ staff = [f \in Officer |-> NoTask]

RequestStep(r) ==
    Lock(r) \/ RefuseRow(r) \/ Check(r) \/ RefuseFunds(r) \/ Commit(r)

OfficerStep(f) == CheckZero(f) \/ Write(f)

Next ==
    \/ \E r \in Request : \/ \E o \in Asked : Start(r, o)
                          \/ RequestStep(r)
                          \/ Rollback(r)
    \/ \E f \in Officer : \/ \E op \in Op, a \in Account : Decide(f, op, a)
                          \/ OfficerStep(f)
                          \/ GiveUp(f)
    \/ \E a \in Account : Open(a)

Spec == Init /\ [][Next]_vars

(* The server keeps executing what it has begun, Postgres serves the       *)
(* waiters of a row in turn, so a row that is free again and again is had, *)
(* and it does not leave a cycle of waiters as it is.                      *)
Fairness ==
    /\ \A r \in Request : SF_vars(RequestStep(r))
    /\ WF_vars(\E r \in Request : Victim(r))

FairSpec == Spec /\ Fairness

-----------------------------------------------------------------------------
(* Properties                                                              *)

TypeOK ==
    /\ balance \in [Gl -> Int]
    /\ status \in [Account -> Status]
    /\ req \in [Request -> Asked \cup {NoOrder}]
    /\ pc \in [Request -> {"idle", "lock", "check", "commit"}]
    /\ toLock \in [Request -> SUBSET Id]
    /\ held \in [Request -> SUBSET Account]
    /\ staff \in [Officer -> Task \cup {NoTask}]

(* No interleaving of withdrawals and transfers takes an account below     *)
(* zero: what TestConcurrentWithdrawalsNeverOverdraw samples with two      *)
(* goroutines.  It rests on the funds check being made under the row lock. *)
NoOverdraft == \A a \in Account : balance[a] >= 0

(* FOR UPDATE keeps a row to one transaction at a time.                    *)
LocksExclusive ==
    \A r, q \in Request : r # q => held[r] \cap held[q] = {}

(* The sorted locking order of Transfer excludes every deadlock among      *)
(* requests that spell their accounts alike: when requests all wait for    *)
(* one another, they name one account in two spellings, which is what the  *)
(* comparison of the strings (transfer/service.go, "lock both rows in a    *)
(* deterministic order") does not see.                                     *)
DeadlockNeedsSpellings ==
    \A S \in SUBSET Request : Deadlocked(S) =>
        \E r, q \in S : \E i \in Ids(r), j \in Ids(q) :
            i # j /\ Parse[i] = Parse[j]

(* Cash goes in or out of the bank only for an account that is active at   *)
(* the commit: the status read under the lock cannot change before it,     *)
(* because setStatus waits for the row.                                    *)
CashMovesForActive ==
    balance'[Cash] # balance[Cash] =>
        \E a \in Account : balance'[a] # balance[a] /\ status[a] = "active"

CashOnlyForActive == [][CashMovesForActive]_vars

(* Every step of the services is a step of the atomic bank, or no step.    *)
AtomicBank == INSTANCE Bank WITH balance <- balance, status <- status,
                                 Account <- Account, Cash <- Cash, Amount <- Amount
ImplementsBank == AtomicBank!Spec

(* Every request gets an answer: no lock is waited for for ever, in a      *)
(* deadlock of two spellings neither, because Postgres ends it.  With the  *)
(* requests the row locks go, so an officer's UPDATE, which waits for      *)
(* nothing else, finds its row free.                                       *)
EveryRequestIsAnswered == \A r \in Request : pc[r] # "idle" ~> pc[r] = "idle"

(* "account balance must be zero to close" (account/service.go).           *)
ClosedAtZero ==
    [][\A a \in Account :
          status[a] # "closed" /\ status'[a] = "closed" => balance[a] = 0]_vars

=============================================================================
