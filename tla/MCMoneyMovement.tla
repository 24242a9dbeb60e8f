-------------------------- MODULE MCMoneyMovement --------------------------
(***************************************************************************)
(* Small instances of MoneyMovement for TLC.                               *)
(***************************************************************************)
EXTENDS MoneyMovementProofs, TLC

CONSTANTS a, b

(* One spelling for each account, in the order of the account ids.         *)
CanonicalIds == {1, 2}
CanonicalParse == (1 :> a) @@ (2 :> b)

(* A second spelling of account b, on the other side of the id of a.       *)
SpelledIds == {1, 2, 3}
SpelledParse == (1 :> b) @@ (2 :> a) @@ (3 :> b)

(* Zero and negative amounts are asked for as well.                        *)
Amounts == {-1, 0, 1}
UnitAmounts == {1}

=============================================================================
