------------------------------ MODULE MCLoans ------------------------------
(***************************************************************************)
(* Small instances of Loans for TLC.                                       *)
(***************************************************************************)
EXTENDS Loans, TLC

CONSTANTS a, l1, l2

(* What Schedule gives at 1800 basis points for a loan of 100 minor units  *)
(* over two months, and for one of 40 over three, of which the interest    *)
(* rounds to 0 once 27 are left.                                           *)
Hundred == <<[principal |-> 50, interest |-> 1], [principal |-> 50, interest |-> 1]>>
Forty == <<[principal |-> 13, interest |-> 1], [principal |-> 14, interest |-> 0],
           [principal |-> 13, interest |-> 0]>>

TwoLoans == (l1 :> Hundred) @@ (l2 :> Forty)
OneLoan == (l1 :> Hundred)

OneAccount == [l \in Loan |-> a]

Tellers == {3, 50}

Symmetry == Permutations(Request)

=============================================================================
