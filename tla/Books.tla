-------------------------------- MODULE Books --------------------------------
(***************************************************************************)
(* What kasa promises of its books, with no lines, dates, transactions or  *)
(* processes in sight: a balance is kept for every general-ledger (GL)     *)
(* account, every entry moves money between them in one step, no customer  *)
(* is debited what was not there, and an entry is undone at most once and  *)
(* as a whole.  Journal, where balances are sums over the lines of all     *)
(* entries, implements this specification.                                 *)
(***************************************************************************)
EXTENDS Integers, Sequences, Functions

CONSTANTS
    Account,    \* customer accounts, by their GL sub-accounts
    Gl          \* all GL accounts

VARIABLES
    balance,    \* GL account -> credits minus debits
    moves,      \* what each entry moved: sequence of GL account -> amount
    undone,     \* the entries that have been undone, by their places
    taken       \* customer account -> what undoing has taken from it

booksVars == <<balance, moves, undone, taken>>

Init ==
    /\ balance = [g \in Gl |-> 0]
    /\ moves = <<>>
    /\ undone = {}
    /\ taken = [a \in Account |-> 0]

(* What the entry of a step moves.                                         *)
Entry == moves'[Len(moves) + 1]

(* Money is moved, never made.                                             *)
Book ==
    /\ Len(moves') = Len(moves) + 1
    /\ moves' = Append(moves, Entry)
    /\ SumFunction(Entry) = 0
    /\ balance' = [g \in Gl |-> balance[g] + Entry[g]]

(* Money is there until it is spent, or undone; what is undone meanwhile   *)
(* may be spent.                                                           *)
Post ==
    /\ Book
    /\ \A a \in Account : Entry[a] < 0 => balance'[a] + taken[a] >= 0
    /\ UNCHANGED <<undone, taken>>

(* Only what customers got is undone; nobody is asked whether they still   *)
(* have it.                                                                *)
Undo(i) ==
    /\ i \notin undone
    /\ \A a \in Account : moves[i][a] >= 0
    /\ Book
    /\ Entry = [g \in Gl |-> -moves[i][g]]
    /\ undone' = undone \cup {i}
    /\ taken' = [a \in Account |-> taken[a] + moves[i][a]]

Next == Post \/ \E i \in DOMAIN moves : Undo(i)

Spec == Init /\ [][Next]_booksVars

=============================================================================
