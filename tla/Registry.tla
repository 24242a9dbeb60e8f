------------------------------ MODULE Registry ------------------------------
(***************************************************************************)
(* What kasa promises whoever registers: a customer comes into being in    *)
(* one step together with the password, no two of them have one e-mail     *)
(* address, nobody is ever forgotten, and only a customer who is in the    *)
(* register is told so.  FrontDoor implements this specification.          *)
(***************************************************************************)
CONSTANTS
    Address,    \* normalized e-mail addresses
    Password

VARIABLES
    members,    \* [email, password] of the customers
    told        \* those whose registration was confirmed

registryVars == <<members, told>>

Init == members = {} /\ told = {}

Join(e, w) ==
    /\ \A m \in members : m.email # e
    /\ members' = members \cup {[email |-> e, password |-> w]}
    /\ UNCHANGED told

Confirm(m) ==
    /\ told' = told \cup {m}
    /\ UNCHANGED members

Next ==
    \/ \E e \in Address, w \in Password : Join(e, w)
    \/ \E m \in members : Confirm(m)

Spec == Init /\ [][Next]_registryVars

=============================================================================
