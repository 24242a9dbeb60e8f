------------------------------ MODULE FrontDoor ------------------------------
(***************************************************************************)
(* The server from its start to its end as those see it who are not logged *)
(* in: the rate limiter in front of /register and /login, their handlers   *)
(* over the pool, and main, which starts the process, drains it on SIGTERM *)
(* and closes the pool.                                                    *)
(***************************************************************************)
EXTENDS Integers, FiniteSets

CONSTANTS
    Peer, Burst, Cost, Rate,
    Email, Normalize, Valid, Password, Id, Request, Other, MaxConns,
    PeerOf,     \* request -> the peer it comes from
    Asked       \* what clients ask for

VARIABLES
    limiters,                                           \* RateLimit
    customers, credentials, req, pc, wrote, conns,      \* Customers
    server,     \* "serving", "draining", "closing" the pool, "stopped"
    told,       \* history: registrations that clients saw confirmed
    credit      \* history: peer -> what a bucket would hold that is refilled
                \* every tick and pays for every request that is handled

handlers == <<customers, credentials, req, pc, wrote, conns>>
vars == <<limiters, handlers, server, told, credit>>

L == INSTANCE RateLimit WITH
        limiters <- limiters,
        Peer <- Peer, Burst <- Burst, Cost <- Cost, Rate <- Rate

C == INSTANCE Customers WITH
        customers <- customers, credentials <- credentials,
        req <- req, pc <- pc, wrote <- wrote, conns <- conns,
        Email <- Email, Normalize <- Normalize, Valid <- Valid,
        Password <- Password, Id <- Id, Request <- Request, Other <- Other,
        MaxConns <- MaxConns

ASSUME FrontDoorAssumption ==
    /\ L!RateAssumption
    /\ C!CustomersAssumption
    /\ PeerOf \in [Request -> Peer]
    /\ Asked \subseteq C!Order

Running == server # "stopped"
PoolOpen == server \in {"serving", "draining"}

-----------------------------------------------------------------------------
(* The limiter comes before the handler.                                   *)

Receive(r, o) ==
    /\ server = "serving"
    /\ L!Allow(PeerOf[r])
    /\ C!Accept(r, o)
    /\ credit' = [credit EXCEPT ![PeerOf[r]] = @ - Cost]
    /\ UNCHANGED <<server, told>>

Limited(p) ==
    /\ server = "serving"
    /\ L!Refuse(p)
    /\ UNCHANGED <<handlers, server, told, credit>>

(* Begin and Login take a connection, which a closed pool refuses.         *)
Step(r) ==
    /\ \/ PoolOpen /\ (C!Begin(r) \/ C!Login(r))
       \/ ~PoolOpen /\ pc[r] \in {"begin", "lookup"} /\ C!Fail(r)
       \/ C!CreateCustomer(r)
       \/ C!EmailTaken(r)
       \/ C!CreateCredential(r)
       \/ C!Commit(r)
    /\ UNCHANGED <<limiters, server, told, credit>>

GiveUp(r) ==
    /\ C!Fail(r)
    /\ UNCHANGED <<limiters, server, told, credit>>

(* The answer reaches the client, or nobody is there to read it.           *)
Reply(r) ==
    /\ told' = IF pc[r] = "created"
               THEN told \cup {[email |-> req[r].email, password |-> req[r].password]}
               ELSE told
    /\ C!Return(r)
    /\ UNCHANGED <<limiters, server, credit>>

ReplyLost(r) ==
    /\ C!Return(r)
    /\ UNCHANGED <<limiters, server, told, credit>>

OtherTakesConn(o) ==
    /\ PoolOpen
    /\ C!OtherBegin(o)
    /\ UNCHANGED <<limiters, server, told, credit>>

OtherReturnsConn(o) ==
    /\ C!OtherEnd(o)
    /\ UNCHANGED <<limiters, server, told, credit>>

Tick ==
    /\ Running
    /\ L!Tick
    /\ credit' = [p \in Peer |-> L!Least(Burst, credit[p] + Rate)]
    /\ UNCHANGED <<handlers, server, told>>

-----------------------------------------------------------------------------
(* main                                                                    *)

Signal ==
    /\ server = "serving"
    /\ server' = "draining"
    /\ UNCHANGED <<limiters, handlers, told, credit>>

(* Shutdown returns when no handler runs, or when its ten seconds are up;  *)
(* then the deferred pool.Close() lets nobody have a connection any more.  *)
ClosePool ==
    /\ server = "draining"
    /\ server' = "closing"
    /\ UNCHANGED <<limiters, handlers, told, credit>>

Stop ==
    /\ server' = "stopped"
    /\ C!Halt
    /\ UNCHANGED <<limiters, told, credit>>

(* Close waits for the connections that are out, not for the handlers.     *)
Exit == server = "closing" /\ conns = {} /\ Stop

Crash == Running /\ Stop

Start ==
    /\ server = "stopped"
    /\ server' = "serving"
    /\ L!Start
    /\ credit' = [p \in Peer |-> Burst]
    /\ UNCHANGED <<handlers, told>>

-----------------------------------------------------------------------------
Init ==
    /\ C!Init
    /\ limiters = L!NoLimiters
    /\ server = "serving"
    /\ told = {}
    /\ credit = [p \in Peer |-> Burst]

Next ==
    \/ \E r \in Request : \/ \E o \in Asked : Receive(r, o)
                          \/ Step(r)
                          \/ GiveUp(r)
                          \/ Reply(r)
                          \/ ReplyLost(r)
    \/ \E p \in Peer : Limited(p)
    \/ \E o \in Other : OtherTakesConn(o) \/ OtherReturnsConn(o)
    \/ Tick \/ Signal \/ ClosePool \/ Exit \/ Crash \/ Start

Spec == Init /\ [][Next]_vars

(* Time passes, and the server goes on with what it has begun.  Postgres   *)
(* and the pool serve their waiters in turn, hence strong fairness.        *)
Fairness ==
    /\ WF_vars(Tick)
    /\ \A r \in Request : SF_vars(Step(r) \/ Reply(r))
    /\ \A o \in Other : WF_vars(OtherReturnsConn(o))
    /\ WF_vars(ClosePool)
    /\ WF_vars(Exit)

FairSpec == Spec /\ Fairness

-----------------------------------------------------------------------------
(* Properties                                                              *)

TypeOK ==
    /\ C!Type
    /\ DOMAIN limiters \subseteq Peer
    /\ \A p \in DOMAIN limiters : limiters[p] \in L!Limiter
    /\ server \in {"serving", "draining", "closing", "stopped"}

(* A peer gets no more requests handled, password guesses among them, than *)
(* the burst and the rate pay for, whatever it sends and however long the  *)
(* lazily refilled limiter was left alone.                                 *)
WithinRate == \A p \in Peer : credit[p] >= 0

(* EMAIL_TAKEN is said of customers only, never of a registration that is  *)
(* still under way and may be rolled back.                                 *)
TakenIsTrue ==
    \A r \in Request : pc[r] = "taken" =>
        \E c \in customers : c.email = Normalize[req[r].email]

(* Each registration is one step of the register, with its password, and   *)
(* is confirmed only once it is there for good.                            *)
Members ==
    {[email |-> x[1].email, password |-> x[2].password] :
        x \in {y \in customers \X credentials : y[1].id = y[2].customer_id}}
Told == {[email |-> Normalize[t.email], password |-> t.password] : t \in told}

Register == INSTANCE Registry WITH
    Address <- Valid, members <- Members, told <- Told
ImplementsRegistry == Register!Spec

(* Whoever was told "created" for an address in its normal spelling is not *)
(* turned away with it and the password.                                   *)
TurnedAway(r) == pc[r] = "lookup" /\ pc'[r] = "unauthorized"
RegisteredCanLogIn ==
    [][\A r \in Request : TurnedAway(r) =>
          [email |-> req[r].email, password |-> req[r].password] \notin
              {t \in told : Normalize[t.email] = t.email}]_vars

(* A peer that was refused can always come to have a token again, even if  *)
(* it never stops trying.                                                  *)
NobodyIsLockedOut == \A p \in Peer : []<>(Running => L!Available(p) >= Cost)

(* Every handler ends: none waits for ever for a connection of the pool or *)
(* for another registration of its address.                                *)
EveryHandlerEnds == \A r \in Request : pc[r] # "idle" ~> pc[r] = "idle"

(* A SIGTERM ends the process: pool.Close() gets all connections back.     *)
ShutdownCompletes == server = "draining" ~> server = "stopped"

=============================================================================
