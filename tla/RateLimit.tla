------------------------------ MODULE RateLimit ------------------------------
(***************************************************************************)
(* web.RateLimit: a map, guarded by a mutex, from the address of a peer to *)
(* its limiter, a token bucket of golang.org/x/time/rate.  A bucket is     *)
(* refilled lazily: it keeps what it held when a request was last let      *)
(* through and how long ago that was.  The clock is left out; a limiter    *)
(* has an age in ticks instead, which stops at Burst: by then it is full.  *)
(* limiterFor and Allow are one step here: a limiter is never replaced     *)
(* in its process, and Allow has a mutex of its own.                       *)
(***************************************************************************)
EXTENDS Integers

CONSTANTS
    Peer,       \* addresses that requests come from
    Burst,      \* what a full bucket holds, in fractions of a token
    Cost,       \* one token, in fractions
    Rate        \* fractions of a token that a tick brings

RateAssumption ==
    /\ Burst \in Nat /\ Cost \in Nat /\ Rate \in Nat
    /\ 0 < Rate /\ 0 < Cost /\ Cost <= Burst

VARIABLE limiters       \* peer seen by this process -> its limiter

Limiter == [tokens : 0..Burst, age : 0..Burst]

Least(m, n) == IF m <= n THEN m ELSE n

-----------------------------------------------------------------------------
NewLimiter == [tokens |-> Burst, age |-> 0]

limiterFor(p) == IF p \in DOMAIN limiters THEN limiters[p] ELSE NewLimiter

(* What the bucket holds now.                                              *)
advance(l) == Least(Burst, l.tokens + Rate * l.age)

Available(p) == advance(limiterFor(p))

(* Mutant of Put: a new limiter is not put into the map.                   *)
PutForgotten(p, l) ==
    limiters' = [q \in DOMAIN limiters |-> IF q = p THEN l ELSE limiters[q]]

Put(p, l) ==
    limiters' = [q \in DOMAIN limiters \cup {p} |->
                    IF q = p THEN l ELSE limiters[q]]

(* Allow takes a token...                                                  *)
Allow(p) ==
    /\ Available(p) >= Cost
    /\ Put(p, [tokens |-> Available(p) - Cost, age |-> 0])

(* Mutant of Refuse: the time of the last call is set, its refill is lost. *)
RefuseRestartsRefill(p) ==
    /\ Available(p) < Cost
    /\ Put(p, [tokens |-> limiterFor(p).tokens, age |-> 0])

(* ... or refuses, and leaves the limiter in the map as it is.             *)
Refuse(p) ==
    /\ Available(p) < Cost
    /\ Put(p, limiterFor(p))

Older(l) == [tokens |-> l.tokens, age |-> Least(l.age + 1, Burst)]

Tick == limiters' = [p \in DOMAIN limiters |-> Older(limiters[p])]

(* A process starts with an empty map, and every bucket is full again.     *)
NoLimiters == [p \in {} |-> NewLimiter]

Start == limiters' = NoLimiters

=============================================================================
