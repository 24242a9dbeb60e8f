----------------------------- MODULE MCJournal -----------------------------
(***************************************************************************)
(* A small instance of Journal for TLC.                                    *)
(***************************************************************************)
EXTENDS Journal, TLC

CONSTANTS a, b

Ask(kind, from, to, second) ==
    [kind |-> kind, from |-> from, to |-> to, amount |-> 1, second |-> second]

(* Every kind of posting, with a as the account that is read.              *)
Asks == {Ask("deposit", "none", a, 0),
         Ask("withdrawal", a, "none", 0),
         Ask("transfer", a, b, 0),
         Ask("interest_credit", "none", a, 0),
         Ask("disbursement", "none", b, 0),
         Ask("repayment", a, "none", 1)}

Symmetry == Permutations(Poster)

=============================================================================
