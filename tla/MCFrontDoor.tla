----------------------------- MODULE MCFrontDoor -----------------------------
(***************************************************************************)
(* A small instance of FrontDoor for TLC.                                  *)
(***************************************************************************)
EXTENDS FrontDoor, TLC

CONSTANTS x, X, bad, w1, w2, p1

(* One address in two spellings, and one that isValidEmail refuses.        *)
Spellings == (x :> x) @@ (X :> x) @@ (bad :> bad)

Ask(k, e, w) == [kind |-> k, email |-> e, password |-> w]
Requests == {Ask("register", x, w1), Ask("register", X, w2),
             Ask("register", bad, w1), Ask("login", x, w1)}

Peers == [r \in Request |-> p1]

=============================================================================
