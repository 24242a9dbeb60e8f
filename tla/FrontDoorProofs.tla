--------------------------- MODULE FrontDoorProofs ---------------------------
(***************************************************************************)
(* Proofs about FrontDoor, for any peers, rates, addresses and requests:   *)
(* what the rate limiter lets through, when EMAIL_TAKEN is said, that      *)
(* registration implements Registry, and that who is registered can log    *)
(* in.                                                                     *)
(***************************************************************************)
EXTENDS FrontDoor, TLAPS

(* What each limiter may hold, and that the lazily refilled bucket holds   *)
(* just what one holds that is refilled every tick.                        *)
LimiterTypeOK ==
    /\ DOMAIN limiters \subseteq Peer
    /\ \A p \in DOMAIN limiters : limiters[p] \in L!Limiter
    /\ credit \in [Peer -> Int]

LazyIsEager == \A p \in Peer : credit[p] = L!Available(p)

LimiterInv == LimiterTypeOK /\ LazyIsEager

-----------------------------------------------------------------------------
(* Lemmas about one bucket                                                 *)

LEMMA RateTypes ==
    /\ Burst \in Nat /\ Cost \in Nat /\ Rate \in Nat
    /\ 0 < Rate /\ 0 < Cost /\ Cost <= Burst
BY FrontDoorAssumption DEF L!RateAssumption

(* A bucket holds between nothing and the burst.                           *)
LEMMA AdvanceBounds ==
    ASSUME NEW l \in L!Limiter
    PROVE  L!advance(l) \in 0..Burst
<1>1. l.tokens \in 0..Burst /\ l.age \in 0..Burst
  BY DEF L!Limiter
<1>2. Rate * l.age \in Nat
  BY <1>1, RateTypes
<1> QED
  BY <1>1, <1>2, RateTypes DEF L!advance, L!Least

(* One that was just used holds what was put there.                        *)
LEMMA AdvanceFresh ==
    ASSUME NEW n \in 0..Burst
    PROVE  /\ [tokens |-> n, age |-> 0] \in L!Limiter
           /\ L!advance([tokens |-> n, age |-> 0]) = n
<1>1. Rate * 0 = 0
  BY RateTypes
<1> QED
  BY <1>1, RateTypes DEF L!advance, L!Least, L!Limiter

LEMMA NewLimiterFull ==
    /\ L!NewLimiter \in L!Limiter
    /\ L!advance(L!NewLimiter) = Burst
<1>1. Burst \in 0..Burst
  BY RateTypes
<1> QED
  BY <1>1, AdvanceFresh DEF L!NewLimiter

(* A tick brings a bucket what the rate says, up to the burst, although    *)
(* the age stops at Burst.                                                 *)
LEMMA AdvanceOlder ==
    ASSUME NEW l \in L!Limiter
    PROVE  /\ L!Older(l) \in L!Limiter
           /\ L!advance(L!Older(l)) = L!Least(Burst, L!advance(l) + Rate)
<1> DEFINE t == l.tokens
           a == l.age
<1>1. t \in 0..Burst /\ a \in 0..Burst
  BY DEF L!Limiter
<1>2. Rate * a \in Nat /\ Rate * (a + 1) = Rate * a + Rate /\ Rate * Burst >= Burst
  BY <1>1, RateTypes
<1>3. L!Older(l) = [tokens |-> t, age |-> IF a + 1 <= Burst THEN a + 1 ELSE Burst]
  BY DEF L!Older, L!Least
<1>4. L!Older(l) \in L!Limiter
  BY <1>1, <1>3, RateTypes DEF L!Limiter
<1>5. L!advance(l) = IF Burst <= t + Rate * a THEN Burst ELSE t + Rate * a
  BY DEF L!advance, L!Least
<1>6. CASE a + 1 <= Burst
  <2>1. L!advance(L!Older(l)) = L!Least(Burst, t + Rate * (a + 1))
    BY <1>3, <1>6 DEF L!advance
  <2> QED
    BY <1>1, <1>2, <1>4, <1>5, <2>1, RateTypes DEF L!Least
<1>7. CASE ~(a + 1 <= Burst)
  <2>1. a = Burst
    BY <1>1, <1>7, RateTypes
  <2>2. L!advance(L!Older(l)) = L!Least(Burst, t + Rate * Burst)
    BY <1>3, <1>7 DEF L!advance
  <2>3. L!advance(l) = Burst
    BY <1>1, <1>2, <1>5, <2>1, RateTypes
  <2> QED
    BY <1>1, <1>2, <1>4, <2>2, <2>3, RateTypes DEF L!Least
<1> QED
  BY <1>6, <1>7

(* The limiter of a peer, in the map or new, is a limiter.                 *)
LEMMA LimiterForType ==
    ASSUME LimiterTypeOK, NEW p \in Peer
    PROVE  L!limiterFor(p) \in L!Limiter /\ L!Available(p) \in 0..Burst
<1>1. L!limiterFor(p) \in L!Limiter
  BY NewLimiterFull DEF L!limiterFor, LimiterTypeOK
<1> QED
  BY <1>1, AdvanceBounds DEF L!Available

(* What Put changes: the bucket of one peer.                               *)
LEMMA PutOne ==
    ASSUME LimiterTypeOK, NEW p \in Peer, NEW l \in L!Limiter, L!Put(p, l)
    PROVE  /\ DOMAIN limiters' \subseteq Peer
           /\ \A q \in DOMAIN limiters' : limiters'[q] \in L!Limiter
           /\ L!Available(p)' = L!advance(l)
           /\ \A q \in Peer \ {p} : L!Available(q)' = L!Available(q)
<1>1. limiters' = [q \in DOMAIN limiters \cup {p} |-> IF q = p THEN l ELSE limiters[q]]
  BY DEF L!Put
<1>2. DOMAIN limiters' = DOMAIN limiters \cup {p}
  BY <1>1
<1>3. /\ DOMAIN limiters' \subseteq Peer
      /\ \A q \in DOMAIN limiters' : limiters'[q] \in L!Limiter
  BY <1>1, <1>2 DEF LimiterTypeOK
<1>4. limiters'[p] = l
  BY <1>1
<1>5. L!Available(p)' = L!advance(l)
  BY <1>2, <1>4 DEF L!Available, L!limiterFor, L!advance
<1>6. ASSUME NEW q \in Peer \ {p}
      PROVE  L!Available(q)' = L!Available(q)
  <2>1. q \in DOMAIN limiters' <=> q \in DOMAIN limiters
    BY <1>2
  <2>2. q \in DOMAIN limiters => limiters'[q] = limiters[q]
    BY <1>1
  <2> QED
    BY <2>1, <2>2 DEF L!Available, L!limiterFor, L!advance, L!NewLimiter
<1> QED
  BY <1>3, <1>5, <1>6

-----------------------------------------------------------------------------
(* The invariant of the limiters                                           *)

LEMMA LimiterInit == Init => LimiterInv
<1> SUFFICES ASSUME Init PROVE LimiterInv
  OBVIOUS
<1>1. limiters = [p \in {} |-> L!NewLimiter] /\ credit = [p \in Peer |-> Burst]
  BY DEF Init, L!NoLimiters
<1>2. DOMAIN limiters = {}
  BY <1>1
<1>3. LimiterTypeOK
  BY <1>1, <1>2, RateTypes DEF LimiterTypeOK
<1>4. LazyIsEager
  BY <1>1, <1>2, NewLimiterFull DEF LazyIsEager, L!Available, L!limiterFor
<1> QED
  BY <1>3, <1>4 DEF LimiterInv

LEMMA ReceiveKeeps ==
    ASSUME LimiterInv, NEW r \in Request, NEW o \in Asked, Receive(r, o)
    PROVE  LimiterInv'
<1> DEFINE p == PeerOf[r]
           n == L!Available(p) - Cost
<1>1. p \in Peer
  BY FrontDoorAssumption
<1>2. LimiterTypeOK /\ LazyIsEager
  BY DEF LimiterInv
<1>3. L!Available(p) \in 0..Burst
  BY <1>1, <1>2, LimiterForType
<1>4. /\ L!Available(p) >= Cost
      /\ L!Put(p, [tokens |-> n, age |-> 0])
      /\ credit' = [credit EXCEPT ![p] = @ - Cost]
  BY DEF Receive, L!Allow
<1>5. n \in 0..Burst
  BY <1>3, <1>4, RateTypes
<1>6. /\ [tokens |-> n, age |-> 0] \in L!Limiter
      /\ L!advance([tokens |-> n, age |-> 0]) = n
  BY <1>5, AdvanceFresh
<1>7. /\ DOMAIN limiters' \subseteq Peer
      /\ \A q \in DOMAIN limiters' : limiters'[q] \in L!Limiter
      /\ L!Available(p)' = n
      /\ \A q \in Peer \ {p} : L!Available(q)' = L!Available(q)
  <2> HIDE DEF p, n
  <2> QED
    BY <1>1, <1>2, <1>4, <1>6, PutOne
<1>8. LimiterTypeOK'
  BY <1>1, <1>2, <1>4, <1>7, RateTypes DEF LimiterTypeOK
<1>9. ASSUME NEW q \in Peer PROVE credit'[q] = L!Available(q)'
  <2>1. CASE q = p
    BY <1>1, <1>2, <1>4, <1>7, <2>1 DEF LazyIsEager, LimiterTypeOK
  <2>2. CASE q # p
    BY <1>1, <1>2, <1>4, <1>7, <2>2 DEF LazyIsEager, LimiterTypeOK
  <2> QED
    BY <2>1, <2>2
<1>10. LazyIsEager'
  BY <1>9 DEF LazyIsEager
<1> QED
  BY <1>8, <1>10 DEF LimiterInv

LEMMA LimitedKeeps ==
    ASSUME LimiterInv, NEW p \in Peer, Limited(p)
    PROVE  LimiterInv'
<1>1. LimiterTypeOK /\ LazyIsEager
  BY DEF LimiterInv
<1>2. L!limiterFor(p) \in L!Limiter
  BY <1>1, LimiterForType
<1>3. L!Put(p, L!limiterFor(p)) /\ credit' = credit
  BY DEF Limited, L!Refuse
<1>4. /\ DOMAIN limiters' \subseteq Peer
      /\ \A q \in DOMAIN limiters' : limiters'[q] \in L!Limiter
      /\ L!Available(p)' = L!advance(L!limiterFor(p))
      /\ \A q \in Peer \ {p} : L!Available(q)' = L!Available(q)
  BY <1>1, <1>2, <1>3, PutOne
<1>5. \A q \in Peer : L!Available(q)' = L!Available(q)
  BY <1>4 DEF L!Available
<1>6. LimiterTypeOK'
  BY <1>1, <1>3, <1>4 DEF LimiterTypeOK
<1>7. LazyIsEager'
  BY <1>1, <1>3, <1>5 DEF LazyIsEager
<1> QED
  BY <1>6, <1>7 DEF LimiterInv

LEMMA TickKeeps ==
    ASSUME LimiterInv, Tick
    PROVE  LimiterInv'
<1>1. LimiterTypeOK /\ LazyIsEager
  BY DEF LimiterInv
<1>2. /\ limiters' = [p \in DOMAIN limiters |-> L!Older(limiters[p])]
      /\ credit' = [p \in Peer |-> L!Least(Burst, credit[p] + Rate)]
  BY DEF Tick, L!Tick
<1>3. DOMAIN limiters' = DOMAIN limiters
  BY <1>2
<1>4. ASSUME NEW p \in DOMAIN limiters
      PROVE  /\ limiters'[p] \in L!Limiter
             /\ L!advance(limiters'[p]) = L!Least(Burst, L!advance(limiters[p]) + Rate)
  BY <1>1, <1>2, <1>4, AdvanceOlder DEF LimiterTypeOK
<1>5. \A p \in Peer : credit'[p] \in Int
  BY <1>1, <1>2, RateTypes DEF LimiterTypeOK, L!Least
<1>6. LimiterTypeOK'
  BY <1>1, <1>2, <1>3, <1>4, <1>5 DEF LimiterTypeOK
<1>7. ASSUME NEW p \in Peer PROVE credit'[p] = L!Available(p)'
  <2>1. credit'[p] = L!Least(Burst, L!Available(p) + Rate)
    BY <1>1, <1>2 DEF LazyIsEager
  <2>2. CASE p \in DOMAIN limiters
    BY <1>3, <1>4, <2>1, <2>2 DEF L!Available, L!limiterFor, L!advance
  <2>3. CASE p \notin DOMAIN limiters
    <3>1. L!Available(p) = Burst
      BY <2>3, NewLimiterFull DEF L!Available, L!limiterFor
    <3>2. L!Available(p)' = L!advance(L!NewLimiter)
      BY <1>3, <2>3 DEF L!Available, L!limiterFor, L!advance, L!NewLimiter
    <3> QED
      BY <2>1, <3>1, <3>2, NewLimiterFull, RateTypes DEF L!Least
  <2> QED
    BY <2>2, <2>3
<1>8. LazyIsEager'
  BY <1>7 DEF LazyIsEager
<1> QED
  BY <1>6, <1>8 DEF LimiterInv

LEMMA StartKeeps ==
    ASSUME LimiterInv, Start
    PROVE  LimiterInv'
<1>1. limiters' = [p \in {} |-> L!NewLimiter] /\ credit' = [p \in Peer |-> Burst]
  BY DEF Start, L!Start, L!NoLimiters
<1>2. DOMAIN limiters' = {}
  BY <1>1
<1>3. LimiterTypeOK'
  BY <1>1, <1>2, RateTypes DEF LimiterTypeOK
<1>4. ASSUME NEW p \in Peer PROVE credit'[p] = L!Available(p)'
  <2>1. L!Available(p)' = L!advance(L!NewLimiter)
    BY <1>2 DEF L!Available, L!limiterFor, L!advance, L!NewLimiter
  <2> QED
    BY <1>1, <2>1, NewLimiterFull
<1>5. LazyIsEager'
  BY <1>4 DEF LazyIsEager
<1> QED
  BY <1>3, <1>5 DEF LimiterInv

(* All other steps leave the limiters alone.                               *)
LEMMA OthersKeep ==
    ASSUME LimiterInv, UNCHANGED <<limiters, credit>>
    PROVE  LimiterInv'
<1>1. \A p \in Peer : L!Available(p)' = L!Available(p)
  BY DEF L!Available, L!limiterFor, L!advance, L!NewLimiter
<1> QED
  BY <1>1 DEF LimiterInv, LimiterTypeOK, LazyIsEager

LEMMA LimiterStep == LimiterInv /\ [Next]_vars => LimiterInv'
<1> SUFFICES ASSUME LimiterInv, [Next]_vars PROVE LimiterInv'
  OBVIOUS
<1>1. ASSUME NEW r \in Request, NEW o \in Asked, Receive(r, o) PROVE LimiterInv'
  BY <1>1, ReceiveKeeps
<1>2. ASSUME NEW p \in Peer, Limited(p) PROVE LimiterInv'
  BY <1>2, LimitedKeeps
<1>3. CASE Tick
  BY <1>3, TickKeeps
<1>4. CASE Start
  BY <1>4, StartKeeps
<1>5. ASSUME NEW r \in Request,
             Step(r) \/ GiveUp(r) \/ Reply(r) \/ ReplyLost(r)
      PROVE  LimiterInv'
  BY <1>5, OthersKeep DEF Step, GiveUp, Reply, ReplyLost
<1>6. ASSUME NEW o \in Other, OtherTakesConn(o) \/ OtherReturnsConn(o)
      PROVE  LimiterInv'
  BY <1>6, OthersKeep DEF OtherTakesConn, OtherReturnsConn
<1>7. CASE Signal \/ ClosePool \/ Exit \/ Crash
  BY <1>7, OthersKeep DEF Signal, ClosePool, Exit, Crash, Stop
<1>8. CASE UNCHANGED vars
  BY <1>8, OthersKeep DEF vars
<1> QED
  BY <1>1, <1>2, <1>3, <1>4, <1>5, <1>6, <1>7, <1>8 DEF Next

(* No peer gets more requests handled than its burst and rate pay for.     *)
THEOREM RateIsKept == Spec => []WithinRate
<1>1. LimiterInv => WithinRate
  <2> SUFFICES ASSUME LimiterInv, NEW p \in Peer PROVE credit[p] >= 0
    BY DEF WithinRate
  <2>1. L!Available(p) \in 0..Burst
    BY LimiterForType DEF LimiterInv
  <2> QED
    BY <2>1, RateTypes DEF LimiterInv, LazyIsEager
<1> QED
  BY <1>1, LimiterInit, LimiterStep, PTL DEF Spec

-----------------------------------------------------------------------------
(* EMAIL_TAKEN                                                             *)

Where == C!Answer \cup {"idle", "begin", "insert", "credential", "commit", "lookup"}

TakenInv ==
    /\ pc \in [Request -> Where]
    /\ DOMAIN req = Request
    /\ TakenIsTrue

(* A step of one handler keeps the invariant if it deletes no customer and *)
(* says EMAIL_TAKEN of one only.                                           *)
LEMMA OneHandler ==
    ASSUME TakenInv, NEW r \in Request, NEW where \in Where,
           customers \subseteq customers',
           C!Goto(r, where),
           DOMAIN req' = Request,
           \A q \in Request \ {r} : req'[q] = req[q],
           where = "taken" =>
               req'[r] = req[r] /\ \E c \in customers : c.email = C!Address(r)
    PROVE  TakenInv'
<1>1. pc' = [pc EXCEPT ![r] = where]
  BY DEF C!Goto
<1>2. pc' \in [Request -> Where]
  BY <1>1 DEF TakenInv
<1>3. ASSUME NEW q \in Request, pc'[q] = "taken"
      PROVE  \E c \in customers' : c.email = Normalize[req'[q].email]
  <2>1. CASE q = r
    <3>1. where = "taken"
      BY <1>1, <1>3, <2>1 DEF TakenInv
    <3>2. PICK c \in customers : c.email = Normalize[req[r].email]
      BY <3>1 DEF C!Address
    <3> QED
      BY <2>1, <3>1, <3>2
  <2>2. CASE q # r
    <3>1. pc[q] = "taken" /\ req'[q] = req[q]
      BY <1>1, <1>3, <2>2 DEF TakenInv
    <3>2. PICK c \in customers : c.email = Normalize[req[q].email]
      BY <3>1 DEF TakenInv, TakenIsTrue
    <3> QED
      BY <3>1, <3>2
  <2> QED
    BY <2>1, <2>2
<1>4. TakenIsTrue'
  BY <1>3 DEF TakenIsTrue
<1> QED
  BY <1>2, <1>4 DEF TakenInv

LEMMA TakenInit == Init => TakenInv
BY DEF Init, C!Init, TakenInv, TakenIsTrue, Where

LEMMA FailKeeps ==
    ASSUME TakenInv, NEW r \in Request, C!Fail(r)
    PROVE  TakenInv'
<1>1. C!Goto(r, "failed") /\ UNCHANGED <<customers, req>>
  BY DEF C!Fail, C!End
<1>2. "failed" \in Where
  BY DEF Where, C!Answer
<1> QED
  BY <1>1, <1>2, OneHandler DEF TakenInv

LEMMA ReturnKeeps ==
    ASSUME TakenInv, NEW r \in Request, C!Return(r)
    PROVE  TakenInv'
<1>1. /\ C!Goto(r, "idle") /\ customers' = customers
      /\ req' = [req EXCEPT ![r] = C!NoOrder]
  BY DEF C!Return
<1>2. DOMAIN req' = Request /\ \A q \in Request \ {r} : req'[q] = req[q]
  BY <1>1 DEF TakenInv
<1>3. "idle" \in Where
  BY DEF Where
<1> QED
  BY <1>1, <1>2, <1>3, OneHandler

LEMMA AcceptKeeps ==
    ASSUME TakenInv, NEW r \in Request, NEW o, C!Accept(r, o)
    PROVE  TakenInv'
<1>1. PICK where \in {"lookup", "begin", "failed"} : C!Goto(r, where)
  BY DEF C!Accept
<1>2. customers' = customers /\ req' = [req EXCEPT ![r] = o]
  BY DEF C!Accept
<1>3. DOMAIN req' = Request /\ \A q \in Request \ {r} : req'[q] = req[q]
  BY <1>2 DEF TakenInv
<1>4. where \in Where /\ where # "taken"
  BY DEF Where, C!Answer
<1> QED
  BY <1>1, <1>2, <1>3, <1>4, OneHandler

LEMMA StepKeeps ==
    ASSUME TakenInv, NEW r \in Request, Step(r)
    PROVE  TakenInv'
<1>1. CASE C!Begin(r) \/ C!CreateCustomer(r) \/ C!CreateCredential(r)
  <2>1. PICK where \in {"insert", "credential", "commit"} : C!Goto(r, where)
    BY <1>1 DEF C!Begin, C!CreateCustomer, C!CreateCredential
  <2>2. UNCHANGED <<customers, req>>
    BY <1>1 DEF C!Begin, C!CreateCustomer, C!CreateCredential
  <2>3. where \in Where /\ where # "taken"
    BY DEF Where
  <2> QED
    BY <2>1, <2>2, <2>3, OneHandler DEF TakenInv
<1>2. CASE C!Login(r)
  <2>1. PICK where \in {"token", "unauthorized"} : C!Goto(r, where)
    BY <1>2 DEF C!Login
  <2>2. UNCHANGED <<customers, req>>
    BY <1>2 DEF C!Login
  <2>3. where \in Where /\ where # "taken"
    BY DEF Where, C!Answer
  <2> QED
    BY <2>1, <2>2, <2>3, OneHandler DEF TakenInv
<1>3. CASE C!Fail(r)
  BY <1>3, FailKeeps
<1>4. CASE C!EmailTaken(r)
  <2>1. C!Goto(r, "taken") /\ UNCHANGED <<customers, req>>
    BY <1>4 DEF C!EmailTaken, C!End
  <2>2. \E c \in customers : c.email = C!Address(r)
    BY <1>4 DEF C!EmailTaken, C!Taken
  <2>3. "taken" \in Where
    BY DEF Where, C!Answer
  <2> QED
    BY <2>1, <2>2, <2>3, OneHandler DEF TakenInv
<1>5. CASE C!Commit(r)
  <2>1. C!Goto(r, "created") /\ customers \subseteq customers' /\ req' = req
    BY <1>5 DEF C!Commit, C!End
  <2>2. "created" \in Where
    BY DEF Where, C!Answer
  <2> QED
    BY <2>1, <2>2, OneHandler DEF TakenInv
<1> QED
  BY <1>1, <1>2, <1>3, <1>4, <1>5 DEF Step

LEMMA TakenStep == TakenInv /\ [Next]_vars => TakenInv'
<1> SUFFICES ASSUME TakenInv, [Next]_vars PROVE TakenInv'
  OBVIOUS
<1>1. ASSUME UNCHANGED <<customers, req, pc>> PROVE TakenInv'
  BY <1>1 DEF TakenInv, TakenIsTrue
<1>2. ASSUME NEW r \in Request, NEW o \in Asked, Receive(r, o) PROVE TakenInv'
  BY <1>2, AcceptKeeps DEF Receive
<1>3. ASSUME NEW r \in Request, Step(r) PROVE TakenInv'
  BY <1>3, StepKeeps
<1>4. ASSUME NEW r \in Request, GiveUp(r) PROVE TakenInv'
  BY <1>4, FailKeeps DEF GiveUp
<1>5. ASSUME NEW r \in Request, Reply(r) \/ ReplyLost(r) PROVE TakenInv'
  BY <1>5, ReturnKeeps DEF Reply, ReplyLost
<1>6. ASSUME NEW o \in Other, OtherTakesConn(o) \/ OtherReturnsConn(o)
      PROVE  TakenInv'
  BY <1>1, <1>6 DEF OtherTakesConn, OtherReturnsConn, C!OtherBegin, C!OtherEnd
<1>7. ASSUME NEW p \in Peer, Limited(p) PROVE TakenInv'
  BY <1>1, <1>7 DEF Limited, handlers
<1>8. CASE Tick \/ Signal \/ ClosePool \/ Start
  BY <1>1, <1>8 DEF Tick, Signal, ClosePool, Start, handlers
<1>9. CASE Exit \/ Crash
  <2>1. C!Halt
    BY <1>9 DEF Exit, Crash, Stop
  <2> QED
    BY <2>1 DEF C!Halt, TakenInv, TakenIsTrue, Where
<1>10. CASE UNCHANGED vars
  BY <1>1, <1>10 DEF vars, handlers
<1> QED
  BY <1>2, <1>3, <1>4, <1>5, <1>6, <1>7, <1>8, <1>9, <1>10 DEF Next

(* Nobody is told EMAIL_TAKEN on account of a registration that is rolled  *)
(* back.                                                                   *)
THEOREM TakenOnlyByCustomers == Spec => []TakenIsTrue
<1>1. TakenInv => TakenIsTrue
  BY DEF TakenInv
<1> QED
  BY <1>1, TakenInit, TakenStep, PTL DEF Spec

-----------------------------------------------------------------------------
(* Registrations                                                           *)

(* A customer e has been committed together with the password w.           *)
IsMember(e, w) ==
    \E c \in customers, k \in credentials :
        c.id = k.customer_id /\ c.email = e /\ k.password = w

RowsType == [customers : SUBSET C!Customer, credentials : SUBSET C!Credential]

(* What an open transaction has inserted, by where its handler is, and     *)
(* that a handler with the answer "created" speaks of a customer.          *)
StageIs(where, o, ins) ==
    /\ where \notin {"credential", "commit"} => ins = C!NoRows
    /\ where # "idle" => o \in C!Order
    /\ where \in {"begin", "insert", "credential", "commit"} => Normalize[o.email] \in Valid
    /\ where = "credential" =>
          \E c \in C!Customer : /\ ins = [customers |-> {c}, credentials |-> {}]
                                /\ c.email = Normalize[o.email]
    /\ where = "commit" =>
          \E c \in C!Customer :
              /\ ins = [customers |-> {c},
                        credentials |-> {[customer_id |-> c.id, password |-> o.password]}]
              /\ c.email = Normalize[o.email]
    /\ where = "created" => IsMember(Normalize[o.email], o.password)

Stages == \A r \in Request : StageIs(pc[r], req[r], wrote[r])

(* No two customers, committed or not, have one id or one address.         *)
Distinct ==
    /\ \A c, d \in customers : c.id = d.id \/ c.email = d.email => c = d
    /\ \A q \in Request : \A c \in wrote[q].customers : \A d \in customers :
          c.id # d.id /\ c.email # d.email
    /\ \A q, s \in Request : \A c \in wrote[q].customers : \A d \in wrote[s].customers :
          c.id = d.id \/ c.email = d.email => q = s

(* Each credential is the only one of a customer.                          *)
Credentialed ==
    /\ \A k \in credentials : \E c \in customers : c.id = k.customer_id
    /\ \A k, l \in credentials : k.customer_id = l.customer_id => k = l

ToldAreMembers == \A t \in told : IsMember(Normalize[t.email], t.password)

RegisterInv ==
    /\ C!Type /\ Stages /\ Distinct /\ Credentialed /\ ToldAreMembers

LEMMA RegisterInit == Init => RegisterInv
<1> SUFFICES ASSUME Init PROVE RegisterInv
  OBVIOUS
<1>1. /\ customers = {} /\ credentials = {} /\ told = {} /\ conns = {}
      /\ req = [r \in Request |-> C!NoOrder] /\ pc = [r \in Request |-> "idle"]
      /\ wrote = [r \in Request |-> C!NoRows]
  BY DEF Init, C!Init
<1>2. C!Type
  BY <1>1 DEF C!Type, C!NoRows
<1>3. Stages
  BY <1>1 DEF Stages, StageIs
<1>4. \A q \in Request : wrote[q].customers = {}
  BY <1>1 DEF C!NoRows
<1> QED
  BY <1>1, <1>2, <1>3, <1>4 DEF RegisterInv, Distinct, Credentialed, ToldAreMembers

LEMMA TypeFacts ==
    ASSUME C!Type
    PROVE  /\ customers \subseteq C!Customer /\ credentials \subseteq C!Credential
           /\ req \in [Request -> C!Order \cup {C!NoOrder}]
           /\ pc \in [Request -> Where]
           /\ wrote \in [Request -> RowsType]
           /\ conns \subseteq Request \cup Other
BY DEF C!Type, Where, RowsType

LEMMA NoRowsType == C!NoRows \in RowsType /\ C!NoRows.customers = {}
BY DEF C!NoRows, RowsType

(* A step of one handler that commits nothing and inserts no customer.     *)
LEMMA HandlerTells ==
    ASSUME RegisterInv, NEW r \in Request, NEW where \in Where,
           NEW o \in C!Order \cup {C!NoOrder}, NEW ins \in RowsType,
           pc' = [pc EXCEPT ![r] = where], req' = [req EXCEPT ![r] = o],
           wrote' = [wrote EXCEPT ![r] = ins], conns' \subseteq Request \cup Other,
           UNCHANGED <<customers, credentials>>, ToldAreMembers',
           ins.customers \subseteq wrote[r].customers,
           StageIs(where, o, ins)
    PROVE  RegisterInv'
<1>1. C!Type
  BY DEF RegisterInv
<1>2. /\ pc'[r] = where /\ req'[r] = o /\ wrote'[r] = ins
      /\ \A q \in Request \ {r} : pc'[q] = pc[q] /\ req'[q] = req[q] /\ wrote'[q] = wrote[q]
  BY <1>1, TypeFacts
<1>3. C!Type'
  <2>1. /\ pc' \in [Request -> Where] /\ req' \in [Request -> C!Order \cup {C!NoOrder}]
        /\ wrote' \in [Request -> RowsType]
        /\ customers' \subseteq C!Customer /\ credentials' \subseteq C!Credential
    BY <1>1, TypeFacts
  <2> QED
    BY <2>1 DEF C!Type, Where, RowsType, C!Customer, C!Credential, C!Order, C!NoOrder, C!Answer
<1>4. Stages'
  <2>1. \A q \in Request \ {r} : StageIs(pc'[q], req'[q], wrote'[q])
    BY <1>2 DEF RegisterInv, Stages
  <2>2. \A q \in Request : StageIs(pc'[q], req'[q], wrote'[q])
    BY <1>2, <2>1
  <2>3. \A e, w : IsMember(e, w)' <=> IsMember(e, w)
    BY DEF IsMember
  <2> QED
    BY <2>2, <2>3 DEF Stages, StageIs, C!NoRows, C!Order, C!Customer
<1>5. \A q \in Request : wrote'[q].customers \subseteq wrote[q].customers
  BY <1>2
<1>6. Distinct'
  BY <1>5 DEF RegisterInv, Distinct
<1>7. Credentialed'
  BY DEF RegisterInv, Credentialed
<1> QED
  BY <1>3, <1>4, <1>6, <1>7 DEF RegisterInv

LEMMA HandlerMoves ==
    ASSUME RegisterInv, NEW r \in Request, NEW where \in Where,
           NEW o \in C!Order \cup {C!NoOrder}, NEW ins \in RowsType,
           pc' = [pc EXCEPT ![r] = where], req' = [req EXCEPT ![r] = o],
           wrote' = [wrote EXCEPT ![r] = ins], conns' \subseteq Request \cup Other,
           UNCHANGED <<customers, credentials, told>>,
           ins.customers \subseteq wrote[r].customers,
           StageIs(where, o, ins)
    PROVE  RegisterInv'
<1>1. ToldAreMembers'
  BY DEF RegisterInv, ToldAreMembers, IsMember
<1> QED
  BY <1>1, HandlerTells

LEMMA Unmoved ==
    ASSUME RegisterInv, NEW r \in Request
    PROVE  /\ StageIs(pc[r], req[r], wrote[r]) /\ wrote[r] \in RowsType
           /\ req[r] \in C!Order \cup {C!NoOrder}
           /\ req = [req EXCEPT ![r] = req[r]] /\ wrote = [wrote EXCEPT ![r] = wrote[r]]
           /\ conns \subseteq Request \cup Other
BY TypeFacts DEF RegisterInv, Stages

LEMMA ReceiveRegisters ==
    ASSUME RegisterInv, NEW r \in Request, NEW o \in Asked, Receive(r, o)
    PROVE  RegisterInv'
<1>1. /\ pc[r] = "idle" /\ req' = [req EXCEPT ![r] = o]
      /\ UNCHANGED <<customers, credentials, wrote, conns, told>>
  BY DEF Receive, C!Accept
<1>2. PICK where \in {"lookup", "begin", "failed"} :
          /\ pc' = [pc EXCEPT ![r] = where]
          /\ where = "begin" => Normalize[o.email] \in Valid
  BY DEF Receive, C!Accept, C!Goto
<1>3. where \in Where /\ where \notin {"idle", "insert", "credential", "commit", "created"}
  BY DEF Where, C!Answer
<1>4. o \in C!Order
  BY FrontDoorAssumption
<1>5. wrote[r] = C!NoRows
  BY <1>1, Unmoved DEF StageIs
<1>6. StageIs(where, o, wrote[r])
  BY <1>2, <1>3, <1>4, <1>5 DEF StageIs
<1>7. wrote' = [wrote EXCEPT ![r] = wrote[r]] /\ conns' \subseteq Request \cup Other
  BY <1>1, Unmoved
<1> QED
  BY <1>1, <1>2, <1>3, <1>4, <1>6, <1>7, Unmoved, HandlerMoves

LEMMA EndRegisters ==
    ASSUME RegisterInv, NEW r \in Request,
           NEW where \in {"taken", "failed"}, C!End(r, where), pc[r] # "idle",
           UNCHANGED <<customers, credentials, req, told>>
    PROVE  RegisterInv'
<1>1. /\ pc' = [pc EXCEPT ![r] = where] /\ wrote' = [wrote EXCEPT ![r] = C!NoRows]
      /\ conns' \subseteq Request \cup Other
  BY Unmoved DEF C!End, C!Goto
<1>2. where \in Where /\ where \notin {"begin", "insert", "credential", "commit", "created"}
  BY DEF Where, C!Answer
<1>3. StageIs(where, req[r], C!NoRows)
  BY <1>2, Unmoved DEF StageIs
<1>4. req' = [req EXCEPT ![r] = req[r]]
  BY Unmoved
<1>5. C!NoRows \in RowsType /\ C!NoRows.customers \subseteq wrote[r].customers
  BY NoRowsType
<1> QED
  BY <1>1, <1>2, <1>3, <1>4, <1>5, Unmoved, HandlerMoves

LEMMA ReturnRegisters ==
    ASSUME RegisterInv, NEW r \in Request, C!Return(r), ToldAreMembers'
    PROVE  RegisterInv'
<1>1. /\ pc[r] \in C!Answer /\ pc' = [pc EXCEPT ![r] = "idle"]
      /\ req' = [req EXCEPT ![r] = C!NoOrder]
      /\ UNCHANGED <<customers, credentials, wrote, conns>>
  BY DEF C!Return, C!Goto
<1>2. wrote[r] = C!NoRows
  BY <1>1, Unmoved DEF StageIs, C!Answer
<1>3. StageIs("idle", C!NoOrder, wrote[r])
  BY <1>2 DEF StageIs
<1>4. "idle" \in Where
  BY DEF Where
<1>5. wrote' = [wrote EXCEPT ![r] = wrote[r]] /\ conns' \subseteq Request \cup Other
  BY <1>1, Unmoved
<1> QED
  BY <1>1, <1>3, <1>4, <1>5, Unmoved, HandlerTells

LEMMA BeginRegisters ==
    ASSUME RegisterInv, NEW r \in Request, C!Begin(r), UNCHANGED told
    PROVE  RegisterInv'
<1>1. /\ pc[r] = "begin" /\ pc' = [pc EXCEPT ![r] = "insert"]
      /\ conns' = conns \cup {r}
      /\ UNCHANGED <<customers, credentials, req, wrote>>
  BY DEF C!Begin, C!Goto
<1>2. StageIs("insert", req[r], wrote[r])
  BY <1>1, Unmoved DEF StageIs
<1>3. "insert" \in Where
  BY DEF Where
<1>4. /\ wrote' = [wrote EXCEPT ![r] = wrote[r]] /\ req' = [req EXCEPT ![r] = req[r]]
      /\ conns' \subseteq Request \cup Other
  BY <1>1, Unmoved
<1> QED
  BY <1>1, <1>2, <1>3, <1>4, Unmoved, HandlerMoves

LEMMA LoginRegisters ==
    ASSUME RegisterInv, NEW r \in Request, C!Login(r), UNCHANGED told
    PROVE  RegisterInv'
<1>1. pc[r] = "lookup" /\ UNCHANGED <<customers, credentials, req, wrote, conns>>
  BY DEF C!Login
<1>2. PICK where \in {"token", "unauthorized"} : pc' = [pc EXCEPT ![r] = where]
  BY DEF C!Login, C!Goto
<1>3. where \in Where /\ where \notin {"idle", "begin", "insert", "credential", "commit", "created"}
  BY DEF Where, C!Answer
<1>4. StageIs(where, req[r], wrote[r])
  BY <1>1, <1>3, Unmoved DEF StageIs
<1>5. /\ wrote' = [wrote EXCEPT ![r] = wrote[r]] /\ req' = [req EXCEPT ![r] = req[r]]
      /\ conns' \subseteq Request \cup Other
  BY <1>1, Unmoved
<1> QED
  BY <1>1, <1>2, <1>3, <1>4, <1>5, Unmoved, HandlerMoves

(* What the two INSERTs of a transaction make of its rows.                 *)
LEMMA InsertCustomers ==
    ASSUME wrote \in [Request -> [customers : SUBSET C!Customer,
                                 credentials : SUBSET C!Credential]],
           NEW r \in Request, NEW x,
           wrote' = [wrote EXCEPT ![r].customers = @ \cup {x}]
    PROVE  wrote' = [wrote EXCEPT ![r] = [customers |-> wrote[r].customers \cup {x},
                                          credentials |-> wrote[r].credentials]]
<1>1. wrote'[r] = [customers |-> wrote[r].customers \cup {x}, credentials |-> wrote[r].credentials]
  OBVIOUS
<1>2. /\ \A q \in Request \ {r} : wrote'[q] = wrote[q]
      /\ wrote' = [q \in Request |-> wrote'[q]]
  OBVIOUS
<1>3. PICK ins : ins = [customers |-> wrote[r].customers \cup {x}, credentials |-> wrote[r].credentials]
  OBVIOUS
<1>4. wrote' = [wrote EXCEPT ![r] = ins]
  BY <1>1, <1>2, <1>3
<1> QED
  BY <1>3, <1>4, Zenon

LEMMA InsertCredentials ==
    ASSUME wrote \in [Request -> [customers : SUBSET C!Customer,
                                 credentials : SUBSET C!Credential]],
           NEW r \in Request, NEW x,
           wrote' = [wrote EXCEPT ![r].credentials = @ \cup {x}]
    PROVE  wrote' = [wrote EXCEPT ![r] = [customers |-> wrote[r].customers,
                                          credentials |-> wrote[r].credentials \cup {x}]]
<1>1. wrote'[r] = [customers |-> wrote[r].customers, credentials |-> wrote[r].credentials \cup {x}]
  OBVIOUS
<1>2. /\ \A q \in Request \ {r} : wrote'[q] = wrote[q]
      /\ wrote' = [q \in Request |-> wrote'[q]]
  OBVIOUS
<1>3. PICK ins : ins = [customers |-> wrote[r].customers, credentials |-> wrote[r].credentials \cup {x}]
  OBVIOUS
<1>4. wrote' = [wrote EXCEPT ![r] = ins]
  BY <1>1, <1>2, <1>3
<1> QED
  BY <1>3, <1>4, Zenon

LEMMA CreateCredentialRegisters ==
    ASSUME RegisterInv, NEW r \in Request, C!CreateCredential(r), UNCHANGED told
    PROVE  RegisterInv'
<1>1. /\ pc[r] = "credential" /\ pc' = [pc EXCEPT ![r] = "commit"]
      /\ wrote' = [wrote EXCEPT ![r].credentials = @ \cup C!CredentialRows(r)]
      /\ UNCHANGED <<customers, credentials, req, conns>>
  BY DEF C!CreateCredential, C!Goto
<1>2. PICK c \in C!Customer : /\ wrote[r] = [customers |-> {c}, credentials |-> {}]
                              /\ c.email = Normalize[req[r].email]
  BY <1>1, Unmoved DEF StageIs
<1>3. PICK k : k = [customer_id |-> c.id, password |-> req[r].password]
  OBVIOUS
<1>4. C!CredentialRows(r) = {k}
  BY <1>2, <1>3 DEF C!CredentialRows
<1>5. PICK ins : ins = [customers |-> {c}, credentials |-> {k}]
  OBVIOUS
<1>6. wrote' = [wrote EXCEPT ![r] = ins]
  <2>1. wrote \in [Request -> [customers : SUBSET C!Customer, credentials : SUBSET C!Credential]]
    BY TypeFacts DEF RegisterInv, RowsType
  <2>2. wrote' = [wrote EXCEPT ![r] = [customers |-> wrote[r].customers,
                                       credentials |-> wrote[r].credentials \cup {k}]]
    BY <1>1, <1>4, <2>1, InsertCredentials, Zenon
  <2>3. wrote[r].customers = {c} /\ wrote[r].credentials \cup {k} = {k}
    BY <1>2
  <2> QED
    BY <1>5, <2>2, <2>3, Zenon
<1>7. req[r] \in C!Order /\ Normalize[req[r].email] \in Valid
  BY <1>1, Unmoved DEF StageIs
<1>8. k \in C!Credential
  BY <1>3, <1>7 DEF C!Credential, C!Order, C!Customer
<1>9. ins \in RowsType /\ ins.customers \subseteq wrote[r].customers
  BY <1>2, <1>5, <1>8 DEF RowsType
<1>10. StageIs("commit", req[r], ins)
  BY <1>2, <1>3, <1>5, <1>7 DEF StageIs
<1>11. "commit" \in Where
  BY DEF Where
<1>12. req' = [req EXCEPT ![r] = req[r]] /\ conns' \subseteq Request \cup Other
  BY <1>1, Unmoved
<1> QED
  BY <1>1, <1>6, <1>7, <1>9, <1>10, <1>11, <1>12, HandlerMoves

(* The INSERT of a customer: the index sees to the address, the generator  *)
(* to the id.                                                              *)
LEMMA CreateCustomerRegisters ==
    ASSUME RegisterInv, NEW r \in Request, C!CreateCustomer(r), UNCHANGED told
    PROVE  RegisterInv'
<1>1. /\ pc[r] = "insert" /\ pc' = [pc EXCEPT ![r] = "credential"]
      /\ ~C!Undecided(r) /\ ~C!Taken(r) /\ C!FreshIds # {}
      /\ wrote' = [wrote EXCEPT ![r].customers =
                      @ \cup {[id |-> C!NewId, email |-> C!Address(r)]}]
      /\ UNCHANGED <<customers, credentials, req, conns, told>>
  BY DEF C!CreateCustomer, C!Goto
<1>2. PICK i, e : i = C!NewId /\ e = Normalize[req[r].email]
  OBVIOUS
<1>3. /\ i \in Id /\ \A c \in customers : c.id # i
      /\ \A q \in Request : \A c \in wrote[q].customers : c.id # i
  <2>1. i \in C!FreshIds
    BY <1>1, <1>2 DEF C!NewId
  <2> QED
    BY <2>1 DEF C!FreshIds
<1>4. /\ \A c \in customers : c.email # e
      /\ \A q \in Request \ {r} : \A c \in wrote[q].customers : c.email # e
  BY <1>1, <1>2 DEF C!Taken, C!Undecided, C!Address
<1>5. req[r] \in C!Order /\ e \in Valid /\ wrote[r] = C!NoRows
  BY <1>1, <1>2, Unmoved DEF StageIs
<1>6. PICK c : c = [id |-> i, email |-> e]
  OBVIOUS
<1>7. c \in C!Customer /\ c.id = i /\ c.email = e
  BY <1>3, <1>5, <1>6 DEF C!Customer
<1>8. PICK ins : ins = [customers |-> {c}, credentials |-> {}]
  OBVIOUS
<1>9. ins \in RowsType /\ ins.customers = {c}
  BY <1>7, <1>8 DEF RowsType
<1>10. wrote' = [wrote EXCEPT ![r] = ins]
  <2>1. wrote \in [Request -> [customers : SUBSET C!Customer, credentials : SUBSET C!Credential]]
    BY TypeFacts DEF RegisterInv, RowsType
  <2>2. wrote' = [wrote EXCEPT ![r].customers = @ \cup {c}]
    BY <1>1, <1>2, <1>6, Zenon DEF C!Address
  <2>3. wrote' = [wrote EXCEPT ![r] = [customers |-> wrote[r].customers \cup {c},
                                       credentials |-> wrote[r].credentials]]
    BY <2>1, <2>2, InsertCustomers, Zenon
  <2>4. wrote[r].customers \cup {c} = {c} /\ wrote[r].credentials = {}
    BY <1>5 DEF C!NoRows
  <2> QED
    BY <1>8, <2>3, <2>4, Zenon
<1>11. StageIs("credential", req[r], ins)
  BY <1>2, <1>5, <1>7, <1>8 DEF StageIs
<1>12. C!Type
  BY DEF RegisterInv
<1>13. /\ pc'[r] = "credential" /\ req' = req /\ wrote'[r] = ins
       /\ \A q \in Request \ {r} : pc'[q] = pc[q] /\ wrote'[q] = wrote[q]
  BY <1>1, <1>10, <1>12, TypeFacts
<1>14. C!Type'
  <2>1. "credential" \in Where
    BY DEF Where
  <2>2. /\ pc' \in [Request -> Where] /\ req' \in [Request -> C!Order \cup {C!NoOrder}]
        /\ wrote' \in [Request -> RowsType] /\ conns' \subseteq Request \cup Other
        /\ customers' \subseteq C!Customer /\ credentials' \subseteq C!Credential
    BY <1>1, <1>9, <1>10, <1>12, <2>1, TypeFacts
  <2> QED
    BY <2>2 DEF C!Type, Where, RowsType, C!Customer, C!Credential, C!Order, C!NoOrder, C!Answer
<1>15. Stages'
  <2>1. \A q \in Request : StageIs(pc'[q], req'[q], wrote'[q])
    BY <1>11, <1>13, Unmoved
  <2>2. \A f, w : IsMember(f, w)' <=> IsMember(f, w)
    BY <1>1 DEF IsMember
  <2> QED
    BY <2>1, <2>2 DEF Stages, StageIs, C!NoRows, C!Order, C!Customer
<1>16. Distinct'
  <2>1. \A q \in Request : \A d \in wrote'[q].customers : \A f \in customers :
            d.id # f.id /\ d.email # f.email
    BY <1>3, <1>4, <1>7, <1>9, <1>13 DEF RegisterInv, Distinct
  <2>2. \A q, s \in Request : \A d \in wrote'[q].customers : \A f \in wrote'[s].customers :
            d.id = f.id \/ d.email = f.email => q = s
    BY <1>3, <1>4, <1>7, <1>9, <1>13 DEF RegisterInv, Distinct
  <2> QED
    BY <1>1, <2>1, <2>2 DEF RegisterInv, Distinct
<1>17. Credentialed' /\ ToldAreMembers'
  BY <1>1 DEF RegisterInv, Credentialed, ToldAreMembers, IsMember
<1> QED
  BY <1>14, <1>15, <1>16, <1>17 DEF RegisterInv

(* COMMIT: the rows, of nobody else's id or address, become visible.       *)
LEMMA CommitRegisters ==
    ASSUME RegisterInv, NEW r \in Request, C!Commit(r), UNCHANGED told
    PROVE  RegisterInv'
<1>1. /\ pc[r] = "commit" /\ pc' = [pc EXCEPT ![r] = "created"]
      /\ wrote' = [wrote EXCEPT ![r] = C!NoRows] /\ conns' = conns \ {r}
      /\ customers' = customers \cup wrote[r].customers
      /\ credentials' = credentials \cup wrote[r].credentials
      /\ UNCHANGED <<req, told>>
  BY DEF C!Commit, C!End, C!Goto
<1>2. PICK c \in C!Customer :
          /\ wrote[r] = [customers |-> {c},
                         credentials |-> {[customer_id |-> c.id, password |-> req[r].password]}]
          /\ c.email = Normalize[req[r].email]
  BY <1>1, Unmoved DEF StageIs
<1>3. PICK k : k = [customer_id |-> c.id, password |-> req[r].password]
  OBVIOUS
<1>4. req[r] \in C!Order
  BY <1>1, Unmoved DEF StageIs
<1>5. k \in C!Credential /\ k.customer_id = c.id /\ k.password = req[r].password
  BY <1>3, <1>4 DEF C!Credential, C!Order, C!Customer
<1>6. /\ customers' = customers \cup {c} /\ credentials' = credentials \cup {k}
      /\ wrote[r].customers = {c}
  BY <1>1, <1>2, <1>3
<1>7. C!Type
  BY DEF RegisterInv
<1>8. /\ pc'[r] = "created" /\ wrote'[r] = C!NoRows
      /\ \A q \in Request \ {r} : pc'[q] = pc[q] /\ wrote'[q] = wrote[q]
  BY <1>1, <1>7, TypeFacts
<1>9. C!Type'
  <2>1. "created" \in Where
    BY DEF Where, C!Answer
  <2>2. /\ pc' \in [Request -> Where] /\ req' \in [Request -> C!Order \cup {C!NoOrder}]
        /\ wrote' \in [Request -> RowsType] /\ conns' \subseteq Request \cup Other
        /\ customers' \subseteq C!Customer /\ credentials' \subseteq C!Credential
    BY <1>1, <1>5, <1>6, <1>7, <2>1, TypeFacts, NoRowsType
  <2> QED
    BY <2>2 DEF C!Type, Where, RowsType, C!Customer, C!Credential, C!Order, C!NoOrder, C!Answer
<1>10. \A e, w : IsMember(e, w) => IsMember(e, w)'
  BY <1>6 DEF IsMember
<1>11. IsMember(c.email, k.password)'
  BY <1>5, <1>6 DEF IsMember
<1>12. Stages'
  <2>1. \A q \in Request \ {r} : StageIs(pc[q], req[q], wrote[q])
    BY DEF RegisterInv, Stages
  <2>2. ASSUME NEW q \in Request \ {r} PROVE StageIs(pc[q], req[q], wrote[q])'
    <3>1. /\ pc'[q] = pc[q] /\ req'[q] = req[q] /\ wrote'[q] = wrote[q]
          /\ StageIs(pc[q], req[q], wrote[q])
      BY <1>1, <1>8, <2>1
    <3>2. PICK e, w : e = Normalize[req[q].email] /\ w = req[q].password
      OBVIOUS
    <3>3. pc[q] = "created" => IsMember(e, w)
      BY <3>1, <3>2, Zenon DEF StageIs
    <3>4. pc[q] = "created" => IsMember(e, w)'
      BY <1>10, <3>3
    <3>5. /\ pc'[q] # "idle" => req'[q] \in C!Order
          /\ pc'[q] \in {"begin", "insert", "credential", "commit"} =>
                Normalize[req'[q].email] \in Valid
          /\ pc'[q] = "created" => IsMember(Normalize[req[q].email], req[q].password)'
      BY <3>1, <3>2, <3>4 DEF StageIs, IsMember
    <3> QED
      BY <3>1, <3>5 DEF StageIs, C!NoRows, C!Order, C!Customer
  <2>3. StageIs(pc[r], req[r], wrote[r])'
    BY <1>1, <1>2, <1>4, <1>5, <1>8, <1>11 DEF StageIs, C!NoRows, C!Order, C!Customer
  <2> QED
    BY <2>2, <2>3 DEF Stages
<1>13. \A q \in Request : wrote'[q].customers \subseteq wrote[q].customers
  BY <1>8, NoRowsType
<1>14. \A d \in customers : c.id # d.id /\ c.email # d.email
  BY <1>6 DEF RegisterInv, Distinct
<1>15. Distinct'
  <2>1. \A d, e \in customers' : d.id = e.id \/ d.email = e.email => d = e
    BY <1>6, <1>14 DEF RegisterInv, Distinct
  <2>2. \A q \in Request : \A d \in wrote'[q].customers : d.id # c.id /\ d.email # c.email
    BY <1>6, <1>8, NoRowsType DEF RegisterInv, Distinct
  <2>3. \A q \in Request : \A d \in wrote'[q].customers : \A e \in customers' :
            d.id # e.id /\ d.email # e.email
    BY <1>6, <1>13, <2>2 DEF RegisterInv, Distinct
  <2>4. \A q, s \in Request : \A d \in wrote'[q].customers : \A e \in wrote'[s].customers :
            d.id = e.id \/ d.email = e.email => q = s
    BY <1>13 DEF RegisterInv, Distinct
  <2> QED
    BY <2>1, <2>3, <2>4 DEF Distinct
<1>16. Credentialed'
  BY <1>5, <1>6, <1>14 DEF RegisterInv, Credentialed
<1>17. ToldAreMembers'
  BY <1>1, <1>10 DEF RegisterInv, ToldAreMembers
<1> QED
  BY <1>9, <1>12, <1>15, <1>16, <1>17 DEF RegisterInv

LEMMA StepRegisters ==
    ASSUME RegisterInv, NEW r \in Request, Step(r)
    PROVE  RegisterInv'
<1>1. UNCHANGED told
  BY DEF Step
<1>2. CASE C!Begin(r)
  BY <1>1, <1>2, BeginRegisters
<1>3. CASE C!Login(r)
  BY <1>1, <1>3, LoginRegisters
<1>4. CASE C!Fail(r)
  BY <1>1, <1>4, EndRegisters DEF C!Fail
<1>5. CASE C!CreateCustomer(r)
  BY <1>1, <1>5, CreateCustomerRegisters
<1>6. CASE C!EmailTaken(r)
  BY <1>1, <1>6, EndRegisters DEF C!EmailTaken
<1>7. CASE C!CreateCredential(r)
  BY <1>1, <1>7, CreateCredentialRegisters
<1>8. CASE C!Commit(r)
  BY <1>1, <1>8, CommitRegisters
<1> QED
  BY <1>2, <1>3, <1>4, <1>5, <1>6, <1>7, <1>8 DEF Step

(* What a client is told of is a customer since the COMMIT.                *)
LEMMA ReplyRegisters ==
    ASSUME RegisterInv, NEW r \in Request, Reply(r) \/ ReplyLost(r)
    PROVE  RegisterInv'
<1>1. C!Return(r) /\ UNCHANGED <<customers, credentials>>
  BY DEF Reply, ReplyLost, C!Return
<1>2. \/ told' = told
      \/ /\ pc[r] = "created"
         /\ told' = told \cup {[email |-> req[r].email, password |-> req[r].password]}
  BY DEF Reply, ReplyLost
<1>3. pc[r] = "created" => IsMember(Normalize[req[r].email], req[r].password)
  BY Unmoved DEF StageIs
<1>4. ToldAreMembers'
  BY <1>1, <1>2, <1>3 DEF RegisterInv, ToldAreMembers, IsMember
<1> QED
  BY <1>1, <1>4, ReturnRegisters

LEMMA StillRegisters ==
    ASSUME RegisterInv, UNCHANGED <<customers, credentials, req, pc, wrote, told>>,
           conns' \subseteq Request \cup Other
    PROVE  RegisterInv'
<1>1. C!Type'
  <2>1. /\ pc' \in [Request -> Where] /\ req' \in [Request -> C!Order \cup {C!NoOrder}]
        /\ wrote' \in [Request -> RowsType]
        /\ customers' \subseteq C!Customer /\ credentials' \subseteq C!Credential
    BY TypeFacts DEF RegisterInv
  <2> QED
    BY <2>1 DEF C!Type, Where, RowsType, C!Customer, C!Credential, C!Order, C!NoOrder, C!Answer
<1>2. Stages'
  <2>1. \A q \in Request : StageIs(pc'[q], req'[q], wrote'[q])
    BY DEF RegisterInv, Stages
  <2>2. \A e, w : IsMember(e, w)' <=> IsMember(e, w)
    BY DEF IsMember
  <2> QED
    BY <2>1, <2>2 DEF Stages, StageIs, C!NoRows, C!Order, C!Customer
<1>3. Distinct' /\ Credentialed' /\ ToldAreMembers'
  BY DEF RegisterInv, Distinct, Credentialed, ToldAreMembers, IsMember
<1> QED
  BY <1>1, <1>2, <1>3 DEF RegisterInv

LEMMA HaltRegisters ==
    ASSUME RegisterInv, C!Halt, UNCHANGED told
    PROVE  RegisterInv'
<1>1. /\ UNCHANGED <<customers, credentials, told>> /\ conns' = {}
      /\ req' = [r \in Request |-> C!NoOrder] /\ pc' = [r \in Request |-> "idle"]
      /\ wrote' = [r \in Request |-> C!NoRows]
  BY DEF C!Halt
<1>2. C!Type'
  <2>1. "idle" \in Where
    BY DEF Where
  <2>2. /\ pc' \in [Request -> Where] /\ req' \in [Request -> C!Order \cup {C!NoOrder}]
        /\ wrote' \in [Request -> RowsType] /\ conns' \subseteq Request \cup Other
        /\ customers' \subseteq C!Customer /\ credentials' \subseteq C!Credential
    BY <1>1, <2>1, TypeFacts, NoRowsType DEF RegisterInv
  <2> QED
    BY <2>2 DEF C!Type, Where, RowsType, C!Customer, C!Credential, C!Order, C!NoOrder, C!Answer
<1>3. Stages'
  BY <1>1 DEF Stages, StageIs, C!NoRows, C!Order, C!Customer
<1>4. \A q \in Request : wrote'[q].customers = {}
  BY <1>1, NoRowsType
<1>5. Distinct' /\ Credentialed' /\ ToldAreMembers'
  BY <1>1, <1>4 DEF RegisterInv, Distinct, Credentialed, ToldAreMembers, IsMember
<1> QED
  BY <1>2, <1>3, <1>5 DEF RegisterInv

LEMMA RegisterStep == RegisterInv /\ [Next]_vars => RegisterInv'
<1> SUFFICES ASSUME RegisterInv, [Next]_vars PROVE RegisterInv'
  OBVIOUS
<1>1. conns \subseteq Request \cup Other
  BY TypeFacts DEF RegisterInv
<1>2. ASSUME NEW r \in Request, NEW o \in Asked, Receive(r, o) PROVE RegisterInv'
  BY <1>2, ReceiveRegisters
<1>3. ASSUME NEW r \in Request, Step(r) PROVE RegisterInv'
  BY <1>3, StepRegisters
<1>4. ASSUME NEW r \in Request, GiveUp(r) PROVE RegisterInv'
  BY <1>4, EndRegisters DEF GiveUp, C!Fail
<1>5. ASSUME NEW r \in Request, Reply(r) \/ ReplyLost(r) PROVE RegisterInv'
  BY <1>5, ReplyRegisters
<1>6. ASSUME NEW o \in Other, OtherTakesConn(o) \/ OtherReturnsConn(o)
      PROVE  RegisterInv'
  <2>1. /\ UNCHANGED <<customers, credentials, req, pc, wrote, told>>
        /\ conns' \subseteq Request \cup Other
    BY <1>1, <1>6 DEF OtherTakesConn, OtherReturnsConn, C!OtherBegin, C!OtherEnd
  <2> QED
    BY <2>1, StillRegisters
<1>7. ASSUME NEW p \in Peer, Limited(p) PROVE RegisterInv'
  BY <1>1, <1>7, StillRegisters DEF Limited, handlers
<1>8. CASE Tick \/ Signal \/ ClosePool \/ Start
  BY <1>1, <1>8, StillRegisters DEF Tick, Signal, ClosePool, Start, handlers
<1>9. CASE Exit \/ Crash
  BY <1>9, HaltRegisters DEF Exit, Crash, Stop
<1>10. CASE UNCHANGED vars
  BY <1>1, <1>10, StillRegisters DEF vars, handlers
<1> QED
  BY <1>2, <1>3, <1>4, <1>5, <1>6, <1>7, <1>8, <1>9, <1>10 DEF Next

LEMMA Registers == Spec => []RegisterInv
BY RegisterInit, RegisterStep, PTL DEF Spec

-----------------------------------------------------------------------------
(* What the server can be                                                  *)

ServerType == server \in {"serving", "draining", "closing", "stopped"}

LEMMA ServerInit == Init => ServerType
BY DEF Init, ServerType

LEMMA ServerStep == ServerType /\ [Next]_vars => ServerType'
<1> SUFFICES ASSUME ServerType, [Next]_vars PROVE ServerType'
  OBVIOUS
<1>1. CASE UNCHANGED server
  BY <1>1 DEF ServerType
<1>2. CASE Signal \/ ClosePool \/ Exit \/ Crash \/ Start
  BY <1>2 DEF Signal, ClosePool, Exit, Crash, Stop, Start, ServerType
<1> QED
  BY <1>1, <1>2 DEF Next, vars, Receive, Limited, Step, GiveUp, Reply, ReplyLost,
     OtherTakesConn, OtherReturnsConn, Tick

(* The limiters, the rows, the handlers and the server are what they are   *)
(* declared to be.                                                         *)
THEOREM TypesHold == Spec => []TypeOK
<1>1. LimiterInv /\ RegisterInv /\ ServerType => TypeOK
  BY DEF LimiterInv, LimiterTypeOK, RegisterInv, ServerType, TypeOK
<1> QED
  BY <1>1, LimiterInit, LimiterStep, Registers, ServerInit, ServerStep, PTL DEF Spec

-----------------------------------------------------------------------------
(* FrontDoor implements Registry                                           *)

Entry(e, w) == [email |-> e, password |-> w]

MembersAre == \A m : m \in Members <=> \E e, w : m = Entry(e, w) /\ IsMember(e, w)
ToldAre == \A m : m \in Told <=> \E t \in told : m = Entry(Normalize[t.email], t.password)

LEMMA MembersFact == MembersAre
<1> SUFFICES ASSUME NEW m
             PROVE  m \in Members <=> \E e, w : m = Entry(e, w) /\ IsMember(e, w)
  BY DEF MembersAre
<1>1. ASSUME m \in Members PROVE \E e, w : m = Entry(e, w) /\ IsMember(e, w)
  <2>1. PICK x \in customers \X credentials :
            x[1].id = x[2].customer_id /\ m = [email |-> x[1].email, password |-> x[2].password]
    BY <1>1 DEF Members
  <2>2. PICK c, k : c = x[1] /\ k = x[2]
    OBVIOUS
  <2>3. c \in customers /\ k \in credentials
    BY <2>1, <2>2
  <2>4. m = Entry(c.email, k.password) /\ IsMember(c.email, k.password)
    BY <2>1, <2>2, <2>3 DEF Entry, IsMember
  <2> QED
    BY <2>4
<1>2. ASSUME NEW e, NEW w, m = Entry(e, w), IsMember(e, w) PROVE m \in Members
  <2>1. PICK c \in customers, k \in credentials :
            c.id = k.customer_id /\ c.email = e /\ k.password = w
    BY <1>2 DEF IsMember
  <2>2. PICK x : x = <<c, k>>
    OBVIOUS
  <2>3. x \in customers \X credentials /\ x[1] = c /\ x[2] = k
    BY <2>2
  <2>4. x[1].id = x[2].customer_id /\ m = [email |-> x[1].email, password |-> x[2].password]
    BY <1>2, <2>1, <2>3 DEF Entry
  <2> QED
    BY <2>3, <2>4 DEF Members
<1> QED
  BY <1>1, <1>2

LEMMA ToldFact == ToldAre
BY DEF ToldAre, Told, Entry

LEMMA SameMembers ==
    UNCHANGED <<customers, credentials>> => UNCHANGED Members
BY DEF Members

LEMMA SameTold == UNCHANGED told => UNCHANGED Told
BY DEF Told

(* The members of the next state; MembersFact holds there as well.         *)
LEMMA MembersNext == MembersAre /\ MembersAre'
BY MembersFact, PTL

LEMMA ToldNext == ToldAre /\ ToldAre'
BY ToldFact, PTL

(* A COMMIT is a customer who joins with an address that nobody has.       *)
LEMMA CommitJoins ==
    ASSUME RegisterInv, NEW r \in Request, C!Commit(r), UNCHANGED told
    PROVE  Register!Next
<1>1. /\ pc[r] = "commit"
      /\ customers' = customers \cup wrote[r].customers
      /\ credentials' = credentials \cup wrote[r].credentials
  BY DEF C!Commit
<1>2. PICK c \in C!Customer :
          /\ wrote[r] = [customers |-> {c},
                         credentials |-> {[customer_id |-> c.id, password |-> req[r].password]}]
          /\ c.email = Normalize[req[r].email]
  BY <1>1, Unmoved DEF StageIs
<1>3. PICK k : k = [customer_id |-> c.id, password |-> req[r].password]
  OBVIOUS
<1>4. req[r] \in C!Order
  BY <1>1, Unmoved DEF StageIs
<1>5. /\ k.customer_id = c.id /\ k.password = req[r].password
      /\ k.password \in Password /\ c.email \in Valid
  BY <1>3, <1>4 DEF C!Order, C!Customer
<1>6. /\ customers' = customers \cup {c} /\ credentials' = credentials \cup {k}
      /\ wrote[r].customers = {c}
  BY <1>1, <1>2, <1>3
<1>7. \A d \in customers : c.id # d.id /\ c.email # d.email
  BY <1>6 DEF RegisterInv, Distinct
<1>8. \A l \in credentials : \E d \in customers : d.id = l.customer_id
  BY DEF RegisterInv, Credentialed
<1>9. \A e, w : IsMember(e, w)' <=> IsMember(e, w) \/ (e = c.email /\ w = k.password)
  BY <1>5, <1>6, <1>7, <1>8 DEF IsMember
<1>10. \A e, w : IsMember(e, w) => e # c.email
  BY <1>7 DEF IsMember
<1>11. Members' = Members \cup {Entry(c.email, k.password)}
  BY <1>9, MembersNext DEF MembersAre
<1>12. \A m \in Members : m.email # c.email
  BY <1>10, MembersNext DEF MembersAre, Entry
<1>13. Register!Join(c.email, k.password)
  BY <1>11, <1>12, SameTold DEF Register!Join, Entry
<1> QED
  BY <1>5, <1>13 DEF Register!Next

(* An answer that arrives confirms a member, or says nothing of the sort.  *)
LEMMA ReplyConfirms ==
    ASSUME RegisterInv, NEW r \in Request, Reply(r)
    PROVE  Register!Next \/ UNCHANGED <<Members, Told>>
<1>1. UNCHANGED Members
  BY SameMembers DEF Reply, C!Return
<1>2. CASE pc[r] # "created"
  BY <1>1, <1>2, SameTold DEF Reply
<1>3. CASE pc[r] = "created"
  <2>1. PICK t : t = [email |-> req[r].email, password |-> req[r].password]
    OBVIOUS
  <2>2. PICK m : m = Entry(Normalize[t.email], t.password)
    OBVIOUS
  <2>3. told' = told \cup {t}
    BY <1>3, <2>1 DEF Reply
  <2>4. Told' = Told \cup {m}
    BY <2>2, <2>3, ToldNext DEF ToldAre
  <2>5. IsMember(Normalize[t.email], t.password)
    BY <1>3, <2>1, Unmoved DEF StageIs
  <2>6. m \in Members
    BY <2>2, <2>5, MembersNext DEF MembersAre
  <2> QED
    BY <1>1, <2>4, <2>6 DEF Register!Next, Register!Confirm
<1> QED
  BY <1>2, <1>3

(* Every behaviour of the handlers, of crashes and of shutdowns is one of  *)
(* the register.                                                           *)
THEOREM RegistryRefinement == Spec => ImplementsRegistry
<1>1. Init => Register!Init
  <2> SUFFICES ASSUME Init PROVE Register!Init
    OBVIOUS
  <2>1. customers = {} /\ told = {}
    BY DEF Init, C!Init
  <2>2. Members = {}
    BY <2>1, MembersNext DEF MembersAre, IsMember
  <2>3. Told = {}
    BY <2>1, ToldNext DEF ToldAre
  <2> QED
    BY <2>2, <2>3 DEF Register!Init
<1>2. ASSUME RegisterInv, [Next]_vars PROVE [Register!Next]_(Register!registryVars)
  <2>1. CASE UNCHANGED <<customers, credentials, told>>
    BY <2>1, SameMembers, SameTold DEF Register!registryVars
  <2>2. ASSUME NEW r \in Request, Step(r) PROVE [Register!Next]_(Register!registryVars)
    <3>1. UNCHANGED told
      BY <2>2 DEF Step
    <3>2. CASE C!Commit(r)
      BY <1>2, <3>1, <3>2, CommitJoins
    <3>3. CASE ~C!Commit(r)
      <4>1. UNCHANGED <<customers, credentials>>
        BY <2>2, <3>3 DEF Step, C!Begin, C!Login, C!Fail, C!CreateCustomer, C!EmailTaken,
           C!CreateCredential
      <4> QED
        BY <2>1, <3>1, <4>1
    <3> QED
      BY <3>2, <3>3
  <2>3. ASSUME NEW r \in Request, Reply(r) PROVE [Register!Next]_(Register!registryVars)
    BY <1>2, <2>3, ReplyConfirms DEF Register!registryVars
  <2>4. ASSUME NEW r \in Request, GiveUp(r) \/ ReplyLost(r) \/ \E o \in Asked : Receive(r, o)
        PROVE  UNCHANGED <<customers, credentials, told>>
    BY <2>4 DEF GiveUp, ReplyLost, Receive, C!Fail, C!Return, C!Accept
  <2>5. ASSUME NEW o \in Other, OtherTakesConn(o) \/ OtherReturnsConn(o)
        PROVE  UNCHANGED <<customers, credentials, told>>
    BY <2>5 DEF OtherTakesConn, OtherReturnsConn, C!OtherBegin, C!OtherEnd
  <2>6. ASSUME NEW p \in Peer, Limited(p) PROVE UNCHANGED <<customers, credentials, told>>
    BY <2>6 DEF Limited, handlers
  <2>7. ASSUME Tick \/ Signal \/ ClosePool \/ Exit \/ Crash \/ Start
        PROVE  UNCHANGED <<customers, credentials, told>>
    BY <2>7 DEF Tick, Signal, ClosePool, Exit, Crash, Start, Stop, C!Halt, handlers
  <2>8. CASE UNCHANGED vars
    BY <2>1, <2>8 DEF vars, handlers
  <2> QED
    BY <1>2, <2>1, <2>2, <2>3, <2>4, <2>5, <2>6, <2>7, <2>8 DEF Next
<1> QED
  BY <1>1, <1>2, Registers, PTL DEF Spec, ImplementsRegistry, Register!Spec

-----------------------------------------------------------------------------
(* Logging in                                                              *)

KnowsPassword(r) ==
    [email |-> req[r].email, password |-> req[r].password]
        \in {t \in told : Normalize[t.email] = t.email}

(* Login finds the one credential of the one customer of the address.      *)
LEMMA LoginFinds ==
    ASSUME RegisterInv, NEW r \in Request, C!Login(r), KnowsPassword(r)
    PROVE  pc'[r] # "unauthorized"
<1>1. IsMember(req[r].email, req[r].password)
  BY DEF RegisterInv, ToldAreMembers, KnowsPassword
<1>2. PICK c \in customers, k \in credentials :
          c.id = k.customer_id /\ c.email = req[r].email /\ k.password = req[r].password
  BY <1>1 DEF IsMember
<1>3. k \in C!Found(r)
  BY <1>2 DEF C!Found
<1>4. \A l \in C!Found(r) : l = k
  <2>1. SUFFICES ASSUME NEW l \in credentials, NEW d \in customers,
                        d.id = l.customer_id, d.email = req[r].email
                 PROVE  l = k
    BY DEF C!Found
  <2>2. d = c
    BY <1>2, <2>1 DEF RegisterInv, Distinct
  <2> QED
    BY <1>2, <2>1, <2>2 DEF RegisterInv, Credentialed
<1>5. pc' = [pc EXCEPT ![r] = "token"]
  BY <1>2, <1>3, <1>4 DEF C!Login, C!Goto, C!Verify
<1>6. pc \in [Request -> Where]
  BY TypeFacts DEF RegisterInv
<1> QED
  BY <1>5, <1>6

(* No step but Login's says "unauthorized".                                *)
LEMMA OnlyLoginRefuses ==
    ASSUME RegisterInv, [Next]_vars, NEW r \in Request, TurnedAway(r)
    PROVE  C!Login(r)
<1>1. pc[r] = "lookup" /\ pc'[r] = "unauthorized" /\ pc \in [Request -> Where]
  BY TypeFacts DEF TurnedAway, RegisterInv
<1>2. pc' # pc
  BY <1>1
<1>3. ASSUME NEW q \in Request, NEW where, pc' = [pc EXCEPT ![q] = where],
             where # "unauthorized"
      PROVE  FALSE
  BY <1>1, <1>3
<1>4. ASSUME NEW q \in Request, NEW o, Receive(q, o) PROVE FALSE
  BY <1>3, <1>4 DEF Receive, C!Accept, C!Goto
<1>5. ASSUME NEW q \in Request, Step(q) PROVE C!Login(r)
  <2>1. C!Login(q)
    BY <1>3, <1>5 DEF Step, C!Begin, C!Fail, C!CreateCustomer, C!EmailTaken,
       C!CreateCredential, C!Commit, C!End, C!Goto
  <2>2. q = r
    BY <1>1, <2>1 DEF C!Login, C!Goto
  <2> QED
    BY <2>1, <2>2
<1>6. ASSUME NEW q \in Request, GiveUp(q) \/ Reply(q) \/ ReplyLost(q) PROVE FALSE
  BY <1>3, <1>6 DEF GiveUp, Reply, ReplyLost, C!Fail, C!Return, C!End, C!Goto
<1>7. ASSUME NEW o \in Other, OtherTakesConn(o) \/ OtherReturnsConn(o) PROVE FALSE
  BY <1>2, <1>7 DEF OtherTakesConn, OtherReturnsConn, C!OtherBegin, C!OtherEnd
<1>8. ASSUME NEW p \in Peer, Limited(p) PROVE FALSE
  BY <1>2, <1>8 DEF Limited, handlers
<1>9. ASSUME Tick \/ Signal \/ ClosePool \/ Start \/ UNCHANGED vars PROVE FALSE
  BY <1>2, <1>9 DEF Tick, Signal, ClosePool, Start, vars, handlers
<1>10. ASSUME Exit \/ Crash PROVE FALSE
  BY <1>1, <1>10 DEF Exit, Crash, Stop, C!Halt
<1> QED
  BY <1>4, <1>5, <1>6, <1>7, <1>8, <1>9, <1>10 DEF Next

(* Whoever was told that the registration succeeded can log in.            *)
THEOREM RegisteredAreLetIn == Spec => RegisteredCanLogIn
<1>1. RegisterInv /\ [Next]_vars =>
        [\A r \in Request : TurnedAway(r) =>
            [email |-> req[r].email, password |-> req[r].password] \notin
                {t \in told : Normalize[t.email] = t.email}]_vars
  BY OnlyLoginRefuses, LoginFinds DEF TurnedAway, KnowsPassword
<1> QED
  BY <1>1, Registers, PTL DEF Spec, RegisteredCanLogIn

=============================================================================
