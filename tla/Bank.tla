-------------------------------- MODULE Bank --------------------------------
(***************************************************************************)
(* What kasa promises of customer money, with no locks, transactions or    *)
(* processes in sight: every posting happens in one step, it moves one     *)
(* amount between two general-ledger (GL) accounts, and nobody's money is  *)
(* taken below zero.  MoneyMovement implements this specification.         *)
(***************************************************************************)
EXTENDS Integers

CONSTANTS
    Account,    \* customer deposit accounts, each with a GL sub-account
    Cash,       \* the bank's own GL account, code 1000
    Amount      \* the amounts that may be asked for, in minor units

VARIABLES
    balance,    \* GL account -> credits minus debits (LedgerBalance)
    status      \* customer account -> its life-cycle status

bankVars == <<balance, status>>

Status == {"absent", "active", "frozen", "closed"}

(* One journal entry: debit one GL account and credit another.             *)
Post(debit, credit, n) ==
    balance' = [balance EXCEPT ![debit] = @ - n, ![credit] = @ + n]

Init ==
    /\ balance = [g \in Account \cup {Cash} |-> 0]
    /\ status = [a \in Account |-> "absent"]

Open(a) ==
    /\ status[a] = "absent"
    /\ status' = [status EXCEPT ![a] = "active"]
    /\ UNCHANGED balance

(* Money enters and leaves the bank only through active accounts...        *)
Deposit(a, n) ==
    /\ status[a] = "active"
    /\ Post(Cash, a, n)
    /\ UNCHANGED status

Withdraw(a, n) ==
    /\ status[a] = "active"
    /\ balance[a] >= n
    /\ Post(a, Cash, n)
    /\ UNCHANGED status

(* ... but Transfer looks at no status: any opened account can pay another. *)
Transfer(a, b, n) ==
    /\ status[a] # "absent" /\ status[b] # "absent"
    /\ balance[a] >= n
    /\ Post(a, b, n)
    /\ UNCHANGED status

(* Freeze, Unfreeze and Close write what they decided on an earlier read,  *)
(* so the status an account leaves is not promised, only the one it gets.  *)
SetStatus(a, s) ==
    /\ status[a] # "absent"
    /\ status' = [status EXCEPT ![a] = s]
    /\ UNCHANGED balance

Next ==
    \E a \in Account :
        \/ Open(a)
        \/ \E n \in {m \in Amount : m > 0} :
              \/ Deposit(a, n)
              \/ Withdraw(a, n)
              \/ \E b \in Account : Transfer(a, b, n)
        \/ \E s \in Status \ {"absent"} : SetStatus(a, s)

Spec == Init /\ [][Next]_bankVars

=============================================================================
