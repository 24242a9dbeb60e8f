------------------------ MODULE MoneyMovementProofs ------------------------
(***************************************************************************)
(* Proofs about MoneyMovement, for any accounts, requests and amounts.     *)
(***************************************************************************)
EXTENDS MoneyMovement, WellFoundedInduction, TLAPS

(* What a request has locked is what it named and no longer waits for; its *)
(* program counter says how far it is, and its order has valid arguments.  *)
Bookkept(r) ==
    /\ toLock[r] \subseteq Ids(r)
    /\ held[r] = {Parse[i] : i \in Ids(r) \ toLock[r]}
    /\ pc[r] = "lock" <=> toLock[r] # {}
    /\ pc[r] = "idle" => req[r] = NoOrder
    /\ pc[r] # "idle" => /\ req[r] \in Asked
                         /\ req[r].amount > 0
                         /\ req[r].from # req[r].to

Bookkeeping == \A r \in Request : Bookkept(r)

(* Ids are locked in ascending order.                                      *)
Ascending ==
    \A r \in Request :
        \A i \in Ids(r) \ toLock[r], j \in toLock[r] : i < j

(* What a request found under its locks still holds.                       *)
RowsGood(r) ==
    \A a \in held[r] : /\ status[a] # "absent"
                       /\ req[r].kind # "transfer" => status[a] = "active"
FundsGood(r) ==
    pc[r] = "commit" /\ req[r].kind # "deposit" => Funded(r)

ChecksHold == \A r \in Request : RowsGood(r) /\ FundsGood(r)

(* An officer works on an account that exists.                             *)
TasksOnOpened ==
    \A f \in Officer : staff[f] # NoTask => status[staff[f].account] # "absent"

(* The inductive invariant: who holds what agrees with what was asked, and *)
(* what a request or an officer has checked stays true until it is used.   *)
IInv ==
    /\ TypeOK
    /\ LocksExclusive
    /\ Bookkeeping
    /\ Ascending
    /\ ChecksHold
    /\ TasksOnOpened
    /\ NoOverdraft

-----------------------------------------------------------------------------
(* Among the one or two ids a request still has to lock there is a least.  *)
LEMMA NextIdIsLeast ==
    ASSUME MovementAssumption, TypeOK, Bookkeeping,
           NEW r \in Request, pc[r] = "lock"
    PROVE  /\ NextId(r) \in toLock[r]
           /\ \A j \in toLock[r] : NextId(r) <= j
           /\ NextId(r) \in Id
           /\ NextRow(r) \in Account
<1>1. /\ toLock[r] # {}
      /\ toLock[r] \subseteq Ids(r)
      /\ toLock[r] \subseteq Nat
  BY DEF Bookkeeping, Bookkept, TypeOK, MovementAssumption
<1>2. \E i \in toLock[r] : \A j \in toLock[r] : i <= j
  BY <1>1 DEF Ids
<1>3. /\ NextId(r) \in toLock[r]
      /\ \A j \in toLock[r] : NextId(r) <= j
  BY <1>2 DEF NextId
<1>. QED
  BY <1>3 DEF TypeOK, MovementAssumption, NextRow

(* Types ------------------------------------------------------------------*)
LEMMA EndTypes ==
    ASSUME TypeOK, NEW r \in Request, End(r)
    PROVE  /\ req' \in [Request -> Asked \cup {NoOrder}]
           /\ pc' \in [Request -> {"idle", "lock", "check", "commit"}]
           /\ toLock' \in [Request -> SUBSET Id]
           /\ held' \in [Request -> SUBSET Account]
BY DEF TypeOK, End

(* A posting leaves every balance an integer.                              *)
LEMMA PostTypes ==
    ASSUME TypeOK, NEW d \in Gl, NEW c \in Gl, NEW n \in Int, Post(d, c, n)
    PROVE  balance' \in [Gl -> Int]
BY DEF TypeOK, Post

(* What a valid request names.                                             *)
LEMMA OrderFacts ==
    ASSUME MovementAssumption, NEW o \in Asked
    PROVE  /\ o.amount \in Int
           /\ o.from \in Id \cup {Cash} /\ o.to \in Id \cup {Cash}
           /\ AccountOf(o.from) \in Gl /\ AccountOf(o.to) \in Gl
           /\ {o.from, o.to} \ {Cash} \subseteq Id
           /\ o.kind = "deposit" => AccountOf(o.from) = Cash
           /\ o.kind # "deposit" => /\ o.from \in Id
                                    /\ AccountOf(o.from) = Parse[o.from]
           /\ o.kind = "withdrawal" => AccountOf(o.to) = Cash
           /\ o.kind # "withdrawal" => /\ o.to \in Id
                                       /\ AccountOf(o.to) = Parse[o.to]
           /\ o.kind \in {"deposit", "withdrawal", "transfer"}
BY DEF MovementAssumption, Asked, Order, AccountOf, Gl

(* Every step of the services keeps the variables well-typed.              *)
LEMMA TypeInductive ==
    ASSUME MovementAssumption, TypeOK, Bookkeeping, [Next]_vars
    PROVE  TypeOK'
<1>1. ASSUME NEW r \in Request, NEW o \in Asked, Start(r, o)
      PROVE  TypeOK'
  BY <1>1, OrderFacts DEF Start, TypeOK
<1>2. ASSUME NEW r \in Request, Lock(r)
      PROVE  TypeOK'
  <2>1. NextId(r) \in toLock[r] /\ NextRow(r) \in Account
    BY <1>2, NextIdIsLeast DEF Lock
  <2>. QED
    BY <1>2, <2>1 DEF Lock, TypeOK
<1>3. ASSUME NEW r \in Request, RefuseRow(r) \/ RefuseFunds(r) \/ Rollback(r)
      PROVE  TypeOK'
  <2>1. End(r) /\ UNCHANGED <<balance, status, staff>>
    BY <1>3 DEF RefuseRow, RefuseFunds, Rollback
  <2>. QED
    BY <2>1, EndTypes DEF TypeOK
<1>4. ASSUME NEW r \in Request, Check(r)
      PROVE  TypeOK'
  BY <1>4 DEF Check, TypeOK
<1>5. ASSUME NEW r \in Request, Commit(r)
      PROVE  TypeOK'
  <2>1. req[r] \in Asked
    BY <1>5 DEF Commit, Bookkeeping, Bookkept
  <2>2. balance' \in [Gl -> Int]
    BY <1>5, <2>1, OrderFacts, PostTypes DEF Commit
  <2>. QED
    BY <1>5, <2>2, EndTypes DEF Commit, TypeOK
<1>6. ASSUME NEW f \in Officer, NEW op \in Op, NEW a \in Account, Decide(f, op, a)
      PROVE  TypeOK'
  BY <1>6 DEF Decide, TypeOK, Task, movement
<1>7. ASSUME NEW f \in Officer, CheckZero(f)
      PROVE  TypeOK'
  <2>1. staff[f] \in Task
    BY <1>7 DEF CheckZero, TypeOK
  <2>2. [op |-> "close", account |-> staff[f].account, step |-> "write"] \in Task
    BY <2>1 DEF Task, Op
  <2>. QED
    BY <1>7, <2>2 DEF CheckZero, TypeOK, movement
<1>8. ASSUME NEW f \in Officer, Write(f)
      PROVE  TypeOK'
  BY <1>8 DEF Write, TypeOK, Task, Op, Target, Status, movement
<1>9. ASSUME NEW f \in Officer, GiveUp(f)
      PROVE  TypeOK'
  BY <1>9 DEF GiveUp, TypeOK, movement
<1>10. ASSUME NEW a \in Account, Open(a)
       PROVE  TypeOK'
  BY <1>10 DEF Open, TypeOK, Status, movement
<1>11. CASE UNCHANGED vars
  BY <1>11 DEF vars, movement, TypeOK
<1>. QED
  BY <1>1, <1>2, <1>3, <1>4, <1>5, <1>6, <1>7, <1>8, <1>9, <1>10, <1>11
     DEF Next, RequestStep, OfficerStep

(* Bookkeeping and locks --------------------------------------------------*)
LEMMA SameBookkept ==
    ASSUME NEW r \in Request, Bookkept(r),
           req'[r] = req[r], pc'[r] = pc[r], toLock'[r] = toLock[r], held'[r] = held[r]
    PROVE  Bookkept(r)'
BY DEF Bookkept, Ids

(* A request that begins has locked nothing and waits for all its ids.     *)
LEMMA StartBookkeeping ==
    ASSUME MovementAssumption, TypeOK, Bookkeeping,
           NEW r \in Request, NEW o \in Asked, Start(r, o)
    PROVE  Bookkeeping'
<1>1. ASSUME NEW q \in Request, q # r
      PROVE  Bookkept(q)'
  BY <1>1, SameBookkept DEF Bookkeeping, Start, TypeOK
<1>2. Bookkept(r)'
  <2>1. held'[r] = {}
    BY DEF Start, Bookkeeping, Bookkept, Ids, NoOrder
  <2>2. /\ req'[r] = o
        /\ pc'[r] = "lock"
        /\ toLock'[r] = {o.from, o.to} \ {Cash}
    BY DEF Start, TypeOK
  <2>3. toLock'[r] # {} /\ Ids(r)' = toLock'[r]
    BY <2>2 DEF Ids, Start
  <2>. QED
    BY <2>1, <2>2, <2>3 DEF Bookkept, Start
<1>. QED
  BY <1>1, <1>2 DEF Bookkeeping

(* A locked id moves from what is waited for to what is held.              *)
LEMMA LockBookkeeping ==
    ASSUME MovementAssumption, TypeOK, Bookkeeping, NEW r \in Request, Lock(r)
    PROVE  Bookkeeping'
<1>1. ASSUME NEW q \in Request, q # r
      PROVE  Bookkept(q)'
  BY <1>1, SameBookkept DEF Bookkeeping, Lock, TypeOK
<1>2. Bookkept(r)'
  <2>1. /\ NextId(r) \in toLock[r]
        /\ NextRow(r) = Parse[NextId(r)]
    BY NextIdIsLeast DEF Lock, NextRow
  <2>2. /\ toLock'[r] = toLock[r] \ {NextId(r)}
        /\ held'[r] = held[r] \cup {Parse[NextId(r)]}
        /\ req'[r] = req[r]
        /\ Ids(r)' = Ids(r)
    BY <2>1 DEF Lock, TypeOK, Ids
  <2>3. /\ toLock[r] \subseteq Ids(r)
        /\ held[r] = {Parse[i] : i \in Ids(r) \ toLock[r]}
        /\ pc[r] = "lock"
    BY DEF Bookkeeping, Bookkept, Lock
  <2>4. held'[r] = {Parse[i] : i \in Ids(r)' \ toLock'[r]}
    BY <2>1, <2>2, <2>3
  <2>5. pc'[r] = "lock" <=> toLock'[r] # {}
    BY <2>1, <2>2 DEF Lock, TypeOK
  <2>6. pc'[r] # "idle"
    BY DEF Lock, TypeOK
  <2>. QED
    BY <2>2, <2>3, <2>4, <2>5, <2>6 DEF Bookkeeping, Bookkept
<1>. QED
  BY <1>1, <1>2 DEF Bookkeeping

(* COMMIT and ROLLBACK leave nothing held and nothing waited for.          *)
LEMMA EndBookkeeping ==
    ASSUME MovementAssumption, TypeOK, Bookkeeping, NEW r \in Request, End(r)
    PROVE  Bookkeeping'
<1>1. ASSUME NEW q \in Request, q # r
      PROVE  Bookkept(q)'
  BY <1>1, SameBookkept DEF Bookkeeping, End, TypeOK
<1>2. Bookkept(r)'
  BY DEF End, TypeOK, Bookkept, Ids, NoOrder
<1>. QED
  BY <1>1, <1>2 DEF Bookkeeping

(* Every step either leaves the requests' locks alone, or begins, extends  *)
(* or ends one request's.                                                  *)
LEMMA StepKinds ==
    ASSUME [Next]_vars
    PROVE  \/ UNCHANGED movement
           \/ \E r \in Request : \/ \E o \in Asked : Start(r, o)
                                 \/ Lock(r)
                                 \/ Check(r)
                                 \/ End(r)
BY DEF Next, vars, RequestStep, OfficerStep, RefuseRow, RefuseFunds, Commit,
       Rollback, Decide, CheckZero, Write, GiveUp, Open

(* The four ways a request can change keep it consistent.                  *)
LEMMA BookkeepingInductive ==
    ASSUME MovementAssumption, TypeOK, Bookkeeping, [Next]_vars
    PROVE  Bookkeeping'
<1>1. ASSUME NEW r \in Request, Check(r)
      PROVE  Bookkeeping'
  <2>1. ASSUME NEW q \in Request, q # r
        PROVE  Bookkept(q)'
    BY <1>1, <2>1, SameBookkept DEF Bookkeeping, Check, TypeOK
  <2>2. Bookkept(r)'
    BY <1>1 DEF Bookkeeping, Bookkept, Check, TypeOK, Ids
  <2>. QED
    BY <2>1, <2>2 DEF Bookkeeping
<1>2. CASE UNCHANGED movement
  BY <1>2, SameBookkept DEF movement, Bookkeeping
<1>. QED
  BY <1>1, <1>2, StepKinds, StartBookkeeping, LockBookkeeping, EndBookkeeping

(* FOR UPDATE never gives a row to two transactions.                       *)
LEMMA LocksInductive ==
    ASSUME MovementAssumption, TypeOK, Bookkeeping, LocksExclusive, [Next]_vars
    PROVE  LocksExclusive'
<1>1. ASSUME NEW r \in Request, Lock(r)
      PROVE  LocksExclusive'
  <2>1. /\ held'[r] = held[r] \cup {NextRow(r)}
        /\ \A q \in Request \ {r} : held'[q] = held[q] /\ NextRow(r) \notin held[q]
    BY <1>1 DEF Lock, Free, TypeOK
  <2>. QED
    BY <2>1 DEF LocksExclusive
<1>2. ASSUME NEW r \in Request, End(r)
      PROVE  LocksExclusive'
  BY <1>2 DEF End, TypeOK, LocksExclusive
<1>3. ASSUME NEW r \in Request, Check(r)
      PROVE  LocksExclusive'
  BY <1>3 DEF Check, LocksExclusive
<1>4. CASE UNCHANGED movement
  BY <1>4 DEF movement, LocksExclusive
<1>5. ASSUME NEW r \in Request, NEW o \in Asked, Start(r, o)
      PROVE  LocksExclusive'
  BY <1>5 DEF Start, LocksExclusive
<1>. QED
  BY <1>1, <1>2, <1>3, <1>4, <1>5, StepKinds

(* What the locks protect -------------------------------------------------*)

(* Past the locking phase a request holds every row it named.              *)
LEMMA HoldsAll ==
    ASSUME MovementAssumption, Bookkeeping,
           NEW r \in Request, pc[r] \in {"check", "commit"}
    PROVE  /\ req[r] \in Asked
           /\ req[r].amount \in Int /\ req[r].amount > 0
           /\ AccountOf(req[r].from) \in Gl /\ AccountOf(req[r].to) \in Gl
           /\ req[r].kind # "deposit" => AccountOf(req[r].from) \in held[r]
           /\ req[r].kind # "withdrawal" => AccountOf(req[r].to) \in held[r]
           /\ req[r].kind = "deposit" => AccountOf(req[r].from) = Cash
           /\ req[r].kind = "withdrawal" => AccountOf(req[r].to) = Cash
<1>1. /\ req[r] \in Asked
      /\ req[r].amount > 0
      /\ held[r] = {Parse[i] : i \in Ids(r)}
  BY DEF Bookkeeping, Bookkept
<1>2. /\ req[r].kind # "deposit" => req[r].from \in Ids(r)
      /\ req[r].kind # "withdrawal" => req[r].to \in Ids(r)
  BY <1>1 DEF Asked, Ids, Order
<1>. QED
  BY <1>1, <1>2, OrderFacts

(* A commit lowers the balance of the debited GL account only, and by the  *)
(* amount of the order.                                                    *)
LEMMA CommitEffect ==
    ASSUME MovementAssumption, TypeOK, Bookkeeping,
           NEW r \in Request, Commit(r), NEW g \in Gl
    PROVE  /\ g # AccountOf(req[r].from) => balance'[g] >= balance[g]
           /\ balance'[g] >= balance[g] - req[r].amount
<1>1. /\ AccountOf(req[r].from) \in Gl /\ AccountOf(req[r].to) \in Gl
      /\ req[r].amount \in Int /\ req[r].amount > 0
  BY HoldsAll DEF Commit
<1>. QED
  BY <1>1 DEF Commit, Post, TypeOK

(* Funds found under the lock are still there at the commit.               *)
LEMMA FundsInductive ==
    ASSUME MovementAssumption, TypeOK, Bookkeeping, LocksExclusive, ChecksHold,
           [Next]_vars, NEW q \in Request
    PROVE  FundsGood(q)'
<1>1. ASSUME NEW r \in Request, Commit(r)
      PROVE  FundsGood(q)'
  <2>1. CASE q = r
    BY <1>1, <2>1 DEF Commit, End, TypeOK, FundsGood
  <2>2. CASE q # r /\ pc[q] = "commit" /\ req[q].kind # "deposit"
    <3>1. /\ AccountOf(req[q].from) \in held[q]
          /\ AccountOf(req[q].from) \in Gl
          /\ req[q].amount \in Int
      BY <2>2, HoldsAll
    <3>2. AccountOf(req[r].from) \in held[r] \cup {Cash}
      BY <1>1, HoldsAll DEF Commit
    <3>3. AccountOf(req[q].from) # AccountOf(req[r].from)
      BY <2>2, <3>1, <3>2 DEF LocksExclusive, TypeOK, MovementAssumption
    <3>4. balance'[AccountOf(req[q].from)] >= balance[AccountOf(req[q].from)]
      BY <1>1, <3>1, <3>3, CommitEffect
    <3>5. balance[AccountOf(req[q].from)] >= req[q].amount
      BY <2>2 DEF ChecksHold, FundsGood, Funded
    <3>6. /\ balance[AccountOf(req[q].from)] \in Int
          /\ balance'[AccountOf(req[q].from)] \in Int
      BY <3>1, TypeInductive DEF TypeOK
    <3>7. req'[q] = req[q]
      BY <1>1, <2>2 DEF Commit, End, TypeOK
    <3>8. Funded(q)'
      BY <3>1, <3>4, <3>5, <3>6, <3>7 DEF Funded, AccountOf
    <3>. QED
      BY <3>8 DEF FundsGood
  <2>3. CASE q # r /\ ~(pc[q] = "commit" /\ req[q].kind # "deposit")
    BY <1>1, <2>3 DEF Commit, End, TypeOK, FundsGood
  <2>. QED
    BY <2>1, <2>2, <2>3
<1>2. ASSUME NEW r \in Request, Check(r)
      PROVE  FundsGood(q)'
  BY <1>2 DEF Check, TypeOK, ChecksHold, FundsGood, Funded, AccountOf
<1>3. ASSUME NEW r \in Request, NEW o \in Asked, Start(r, o)
      PROVE  FundsGood(q)'
  BY <1>3 DEF Start, TypeOK, ChecksHold, FundsGood, Funded, AccountOf
<1>4. ASSUME NEW r \in Request, Lock(r)
      PROVE  FundsGood(q)'
  BY <1>4 DEF Lock, TypeOK, ChecksHold, FundsGood, Funded, AccountOf
<1>5. ASSUME NEW r \in Request, RefuseRow(r) \/ RefuseFunds(r) \/ Rollback(r)
      PROVE  FundsGood(q)'
  <2>1. End(r) /\ UNCHANGED balance
    BY <1>5 DEF RefuseRow, RefuseFunds, Rollback
  <2>. QED
    BY <2>1 DEF End, TypeOK, ChecksHold, FundsGood, Funded, AccountOf
<1>6. ASSUME UNCHANGED <<balance, movement>>
      PROVE  FundsGood(q)'
  BY <1>6 DEF movement, ChecksHold, FundsGood, Funded, AccountOf
<1>. QED
  BY <1>1, <1>2, <1>3, <1>4, <1>5, <1>6
     DEF Next, RequestStep, OfficerStep, Decide, CheckZero, Write, GiveUp, Open, vars

(* A status found under the lock is still there at the commit.             *)
LEMMA RowsInductive ==
    ASSUME MovementAssumption, TypeOK, Bookkeeping, ChecksHold,
           [Next]_vars, NEW q \in Request
    PROVE  RowsGood(q)'
<1>1. RowsGood(q)
  BY DEF ChecksHold
<1>2. ASSUME NEW f \in Officer, Write(f)
      PROVE  RowsGood(q)'
  <2>1. staff[f] \in Task
    BY <1>2 DEF Write, TypeOK
  <2>2. staff[f].account \notin held[q] /\ held' = held /\ req' = req
    BY <1>2 DEF Write, Unlocked, movement
  <2>3. \A a \in held[q] : status'[a] = status[a]
    BY <1>2, <2>2 DEF Write, TypeOK
  <2>. QED
    BY <1>1, <2>2, <2>3 DEF RowsGood
<1>3. ASSUME NEW a \in Account, Open(a)
      PROVE  RowsGood(q)'
  BY <1>1, <1>3 DEF Open, TypeOK, RowsGood, movement
<1>4. ASSUME NEW r \in Request, Lock(r)
      PROVE  RowsGood(q)'
  BY <1>1, <1>4 DEF Lock, RowAccepted, TypeOK, RowsGood
<1>5. ASSUME NEW r \in Request, NEW o \in Asked, Start(r, o)
      PROVE  RowsGood(q)'
  <2>1. held[r] = {}
    BY <1>5 DEF Start, Bookkeeping, Bookkept, Ids, NoOrder
  <2>. QED
    BY <1>1, <1>5, <2>1 DEF Start, TypeOK, RowsGood
<1>6. ASSUME NEW r \in Request, End(r), UNCHANGED status
      PROVE  RowsGood(q)'
  BY <1>1, <1>6 DEF End, TypeOK, RowsGood
<1>7. ASSUME NEW r \in Request, Check(r)
      PROVE  RowsGood(q)'
  BY <1>1, <1>7 DEF Check, RowsGood
<1>8. ASSUME UNCHANGED <<status, movement>>
      PROVE  RowsGood(q)'
  BY <1>1, <1>8 DEF movement, RowsGood
<1>. QED
  BY <1>2, <1>3, <1>4, <1>5, <1>6, <1>7, <1>8
     DEF Next, RequestStep, OfficerStep, RefuseRow, RefuseFunds, Commit, Rollback,
         Decide, CheckZero, GiveUp, vars

(* Transfer goes on locking in ascending order.                            *)
LEMMA AscendingInductive ==
    ASSUME MovementAssumption, TypeOK, Bookkeeping, Ascending, [Next]_vars
    PROVE  Ascending'
<1>1. ASSUME NEW r \in Request, Lock(r)
      PROVE  Ascending'
  <2>1. /\ NextId(r) \in toLock[r]
        /\ \A j \in toLock[r] : NextId(r) <= j
        /\ toLock[r] \subseteq Nat
    BY <1>1, NextIdIsLeast DEF Lock, TypeOK, MovementAssumption
  <2>2. \A q \in Request : Ids(q)' = Ids(q)
    BY <1>1 DEF Lock, Ids
  <2>3. /\ toLock'[r] = toLock[r] \ {NextId(r)}
        /\ \A q \in Request \ {r} : toLock'[q] = toLock[q]
    BY <1>1 DEF Lock, TypeOK
  <2>. QED
    BY <2>1, <2>2, <2>3 DEF Ascending
<1>2. ASSUME NEW r \in Request, NEW o \in Asked, Start(r, o)
      PROVE  Ascending'
  BY <1>2 DEF Start, TypeOK, Ascending, Ids
<1>3. ASSUME NEW r \in Request, End(r)
      PROVE  Ascending'
  BY <1>3 DEF End, TypeOK, Ascending, Ids
<1>4. ASSUME NEW r \in Request, Check(r)
      PROVE  Ascending'
  BY <1>4 DEF Check, Ascending, Ids
<1>5. CASE UNCHANGED movement
  BY <1>5 DEF movement, Ascending, Ids
<1>. QED
  BY <1>1, <1>2, <1>3, <1>4, <1>5, StepKinds

(* Officers only ever decide on accounts that exist.                       *)
LEMMA TasksInductive ==
    ASSUME MovementAssumption, TypeOK, TasksOnOpened, [Next]_vars
    PROVE  TasksOnOpened'
<1>1. ASSUME NEW f \in Officer, NEW op \in Op, NEW a \in Account, Decide(f, op, a)
      PROVE  TasksOnOpened'
  <2>1. status[a] # "absent"
    BY <1>1 DEF Decide, LegalFrom, Op
  <2>. QED
    BY <1>1, <2>1 DEF Decide, TypeOK, TasksOnOpened
<1>2. ASSUME NEW f \in Officer, CheckZero(f)
      PROVE  TasksOnOpened'
  BY <1>2 DEF CheckZero, TypeOK, TasksOnOpened
<1>3. ASSUME NEW f \in Officer, Write(f)
      PROVE  TasksOnOpened'
  <2>1. staff[f] \in Task
    BY <1>3 DEF Write, TypeOK
  <2>2. Target[staff[f].op] # "absent"
    BY <2>1 DEF Task, Op, Target
  <2>3. \A a \in Account : status[a] # "absent" => status'[a] # "absent"
    BY <1>3, <2>1, <2>2 DEF Write, TypeOK, Task
  <2>. QED
    BY <1>3, <2>3 DEF Write, TypeOK, Task, TasksOnOpened
<1>4. ASSUME NEW a \in Account, Open(a)
      PROVE  TasksOnOpened'
  BY <1>4 DEF Open, TypeOK, Task, TasksOnOpened
<1>5. ASSUME NEW f \in Officer, GiveUp(f)
      PROVE  TasksOnOpened'
  BY <1>5 DEF GiveUp, TypeOK, TasksOnOpened
<1>6. ASSUME UNCHANGED <<status, staff>>
      PROVE  TasksOnOpened'
  BY <1>6 DEF TasksOnOpened
<1>. QED
  BY <1>1, <1>2, <1>3, <1>4, <1>5, <1>6
     DEF Next, RequestStep, OfficerStep, Start, Lock, RefuseRow, Check, RefuseFunds,
         Commit, Rollback, vars

(* No commit takes an account below zero.                                  *)
LEMMA OverdraftInductive ==
    ASSUME MovementAssumption, TypeOK, Bookkeeping, ChecksHold, NoOverdraft,
           [Next]_vars
    PROVE  NoOverdraft'
<1>1. ASSUME NEW r \in Request, Commit(r), NEW a \in Account
      PROVE  balance'[a] >= 0
  <2>1. /\ a \in Gl /\ balance[a] \in Int /\ balance[a] >= 0
        /\ balance'[a] \in Int
    BY TypeInductive DEF TypeOK, NoOverdraft, Gl
  <2>2. CASE a # AccountOf(req[r].from)
    BY <1>1, <2>1, <2>2, CommitEffect
  <2>3. CASE a = AccountOf(req[r].from)
    <3>1. /\ req[r].kind # "deposit"
          /\ req[r].amount \in Int
      BY <1>1, <2>3, HoldsAll DEF Commit, MovementAssumption
    <3>2. balance[a] >= req[r].amount
      BY <1>1, <2>3, <3>1 DEF Commit, ChecksHold, FundsGood, Funded
    <3>. QED
      BY <1>1, <2>1, <3>1, <3>2, CommitEffect
  <2>. QED
    BY <2>2, <2>3
<1>2. CASE UNCHANGED balance
  BY <1>2 DEF NoOverdraft
<1>. QED
  BY <1>1, <1>2
     DEF Next, RequestStep, OfficerStep, Start, Lock, RefuseRow, Check, RefuseFunds,
         Rollback, Decide, CheckZero, Write, GiveUp, Open, vars, NoOverdraft

-----------------------------------------------------------------------------
(* The inductive invariant                                                 *)

LEMMA InitIInv == ASSUME MovementAssumption, Init PROVE IInv
<1>1. /\ TypeOK /\ LocksExclusive /\ ChecksHold /\ TasksOnOpened /\ NoOverdraft
  BY DEF Init, TypeOK, Gl, Status, MovementAssumption, LocksExclusive, ChecksHold,
         RowsGood, FundsGood, TasksOnOpened, NoOverdraft
<1>2. Bookkeeping /\ Ascending
  BY DEF Init, Bookkeeping, Bookkept, Ids, NoOrder, Ascending
<1>. QED
  BY <1>1, <1>2 DEF IInv

(* The invariant is inductive.                                             *)
LEMMA NextIInv == ASSUME MovementAssumption, IInv, [Next]_vars PROVE IInv'
<1>1. TypeOK' /\ Bookkeeping' /\ Ascending' /\ LocksExclusive' /\ TasksOnOpened'
  BY TypeInductive, BookkeepingInductive, AscendingInductive, LocksInductive,
     TasksInductive DEF IInv
<1>2. ChecksHold'
  BY FundsInductive, RowsInductive DEF IInv, ChecksHold
<1>. QED
  BY <1>1, <1>2, OverdraftInductive DEF IInv

(* The conjunction of the facts above is an invariant of every run of the  *)
(* services, whatever the accounts, the clients and the spellings of ids.  *)
THEOREM Invariance == Spec => []IInv
BY InitIInv, NextIInv, MovementAssumption, PTL DEF Spec

(* Variables keep their types.                                             *)
THEOREM TypeCorrect == Spec => []TypeOK
<1>1. IInv => TypeOK
  BY DEF IInv
<1>. QED
  BY Invariance, <1>1, PTL

(* However many withdrawals and transfers run together, no account goes    *)
(* below zero.                                                             *)
THEOREM NeverOverdrawn == Spec => []NoOverdraft
<1>1. IInv => NoOverdraft
  BY DEF IInv
<1>. QED
  BY Invariance, <1>1, PTL

(* A row is locked by one request at a time.                               *)
THEOREM MutualExclusion == Spec => []LocksExclusive
<1>1. IInv => LocksExclusive
  BY DEF IInv
<1>. QED
  BY Invariance, <1>1, PTL

-----------------------------------------------------------------------------
(* Consequences of the invariant                                           *)

(* Cash moves only for an account that is active when the money moves.     *)
THEOREM CashIsForActive == Spec => CashOnlyForActive
<1>1. ASSUME IInv, [Next]_vars, balance'[Cash] # balance[Cash]
      PROVE  CashMovesForActive
  <2>. SUFFICES \E a \in Account : balance'[a] # balance[a] /\ status[a] = "active"
    BY DEF CashMovesForActive
  <2>1. PICK r \in Request : Commit(r)
    BY <1>1 DEF Next, RequestStep, OfficerStep, Start, Lock, RefuseRow, Check,
                RefuseFunds, Rollback, Decide, CheckZero, Write, GiveUp, Open, vars
  <2>2. /\ req[r] \in Asked
        /\ AccountOf(req[r].from) \in Gl /\ AccountOf(req[r].to) \in Gl
        /\ req[r].amount \in Int /\ req[r].amount > 0
    BY <1>1, <2>1, HoldsAll, MovementAssumption DEF IInv, Commit
  <2>3. \A g \in Gl : g \notin {AccountOf(req[r].from), AccountOf(req[r].to)} =>
                          balance'[g] = balance[g]
    BY <1>1, <2>1, <2>2 DEF IInv, Commit, Post, TypeOK
  <2>4. AccountOf(req[r].from) = Cash \/ AccountOf(req[r].to) = Cash
    BY <1>1, <2>3 DEF Gl
  <2>5. req[r].kind # "transfer"
    <3>1. \A i \in Id : Parse[i] # Cash
      BY MovementAssumption DEF MovementAssumption
    <3>2. /\ req[r].kind # "deposit" => AccountOf(req[r].from) # Cash
          /\ req[r].kind # "withdrawal" => AccountOf(req[r].to) # Cash
      <4>1. req[r] \in Asked
        BY <2>2
      <4>. QED
        BY <4>1, <3>1, OrderFacts, MovementAssumption
    <3>. QED
      BY <2>4, <3>2
  <2>6. CASE req[r].kind = "deposit"
    <3>1. /\ AccountOf(req[r].to) \in held[r]
          /\ AccountOf(req[r].from) = Cash
      BY <1>1, <2>1, <2>6, HoldsAll, MovementAssumption DEF IInv, Commit
    <3>2. /\ AccountOf(req[r].to) \in Account
          /\ status[AccountOf(req[r].to)] = "active"
      BY <1>1, <2>5, <3>1 DEF IInv, TypeOK, ChecksHold, RowsGood
    <3>3. balance'[AccountOf(req[r].to)] = balance[AccountOf(req[r].to)] + req[r].amount
      BY <1>1, <2>1, <2>2, <3>1, <3>2, MovementAssumption DEF IInv, Commit, Post, TypeOK
    <3>. QED
      BY <1>1, <2>2, <3>2, <3>3 DEF IInv, TypeOK
  <2>7. CASE req[r].kind = "withdrawal"
    <3>1. /\ AccountOf(req[r].from) \in held[r]
          /\ AccountOf(req[r].to) = Cash
      BY <1>1, <2>1, <2>7, HoldsAll, MovementAssumption DEF IInv, Commit
    <3>2. /\ AccountOf(req[r].from) \in Account
          /\ status[AccountOf(req[r].from)] = "active"
      BY <1>1, <2>5, <3>1 DEF IInv, TypeOK, ChecksHold, RowsGood
    <3>3. balance'[AccountOf(req[r].from)] = balance[AccountOf(req[r].from)] - req[r].amount
      BY <1>1, <2>1, <2>2, <3>1, <3>2, MovementAssumption DEF IInv, Commit, Post, TypeOK
    <3>. QED
      BY <1>1, <2>2, <3>2, <3>3 DEF IInv, TypeOK
  <2>. QED
    BY <2>2, <2>5, <2>6, <2>7, OrderFacts, MovementAssumption
<1>2. ASSUME IInv, [Next]_vars
      PROVE  [CashMovesForActive]_vars
  BY <1>1, <1>2 DEF CashMovesForActive
<1>. QED
  BY <1>2, Invariance, PTL DEF Spec, CashOnlyForActive

(* A set of requests that spell every account of theirs in one way.        *)
SpelledAlike(S) ==
    \A r, q \in S : \A i \in Ids(r), j \in Ids(q) : Parse[i] = Parse[j] => i = j

(* A request waits only for one that has locked past the wanted id.        *)
LEMMA WaitersAscend ==
    ASSUME MovementAssumption, IInv, NEW S \in SUBSET Request, SpelledAlike(S),
           NEW r \in S, NEW q \in S, WaitsFor(r, q), pc[q] = "lock"
    PROVE  NextId(r) < NextId(q)
<1>. r \in Request /\ q \in Request
  OBVIOUS
<1>1. /\ NextId(r) \in toLock[r]
      /\ NextRow(r) = Parse[NextId(r)]
      /\ NextId(q) \in toLock[q]
  BY NextIdIsLeast DEF WaitsFor, IInv, NextRow
<1>2. NextId(r) \in Ids(r)
  BY <1>1 DEF IInv, Bookkeeping, Bookkept
<1>3. PICK i \in Ids(q) \ toLock[q] : Parse[i] = Parse[NextId(r)]
  BY <1>1 DEF WaitsFor, IInv, Bookkeeping, Bookkept
<1>4. i = NextId(r)
  BY <1>2, <1>3 DEF SpelledAlike
<1>. QED
  BY <1>1, <1>3, <1>4 DEF IInv, Ascending

(* Among requests that spell their accounts alike the sorted locking order *)
(* excludes every deadlock: the one that waits for the greatest id waits   *)
(* for none of the others.                                                 *)
THEOREM DeadlockFree ==
    ASSUME NEW N \in Nat, \A i \in Id : i <= N
    PROVE  Spec => []DeadlockNeedsSpellings
<1>1. ASSUME IInv, NEW S \in SUBSET Request, Deadlocked(S), SpelledAlike(S)
      PROVE  FALSE
  <2>. S # {} /\ \A r \in S : \E q \in S : WaitsFor(r, q)
    BY <1>1 DEF Deadlocked
  <2>1. \A r \in S : NextId(r) \in Nat /\ NextId(r) <= N
    BY <1>1, NextIdIsLeast, MovementAssumption DEF WaitsFor, IInv
  <2> DEFINE Gaps == {N - NextId(r) : r \in S}
  <2>2. Gaps \subseteq Nat /\ Gaps # {}
    BY <1>1, <2>1
  <2>3. PICK x \in Gaps : \A y \in Gaps : ~(<<y, x>> \in OpToRel(<, Nat))
    <3> HIDE DEF Gaps
    <3>. QED
      BY <2>2, NatLessThanWellFounded, WFMin
  <2>4. PICK r \in S : x = N - NextId(r)
    BY <2>3
  <2>5. PICK q \in S : WaitsFor(r, q)
    BY <1>1
  <2>6. pc[q] = "lock"
    BY <1>1 DEF WaitsFor
  <2>7. NextId(r) < NextId(q)
    BY <1>1, <2>5, <2>6, WaitersAscend, MovementAssumption
  <2>8. N - NextId(q) \in Gaps /\ N - NextId(q) < x /\ N - NextId(q) \in Nat /\ x \in Nat
    BY <2>1, <2>4, <2>7
  <2>9. <<N - NextId(q), x>> \in OpToRel(<, Nat)
    <3>1. OpToRel(<, Nat) = {ss \in Nat \X Nat : ss[1] < ss[2]}
      BY Zenon DEF OpToRel
    <3>. QED
      BY <2>8, <3>1
  <2>. QED
    BY <2>3, <2>8, <2>9, Zenon
<1>2. IInv => DeadlockNeedsSpellings
  BY <1>1 DEF DeadlockNeedsSpellings, SpelledAlike
<1>. QED
  BY <1>2, Invariance, PTL

(* Where clients send the ids as uuid.String() prints them, one spelling   *)
(* for each account, no requests ever wait for one another.                *)
COROLLARY NoDeadlockOfCanonicalIds ==
    ASSUME NEW N \in Nat, \A i \in Id : i <= N,
           \A i, j \in Id : Parse[i] = Parse[j] => i = j
    PROVE  Spec => [](\A S \in SUBSET Request : ~Deadlocked(S))
<1>1. ASSUME IInv, DeadlockNeedsSpellings, NEW S \in SUBSET Request
      PROVE  ~Deadlocked(S)
  <2>1. SUFFICES ASSUME Deadlocked(S) PROVE FALSE
    OBVIOUS
  <2>2. PICK r \in S, q \in S :
          \E i \in Ids(r), j \in Ids(q) : i # j /\ Parse[i] = Parse[j]
    BY <1>1, <2>1 DEF DeadlockNeedsSpellings
  <2>3. pc[r] = "lock" /\ pc[q] = "lock"
    BY <2>1, <2>2 DEF Deadlocked, WaitsFor
  <2>4. req[r] \in Asked /\ req[q] \in Asked
    BY <1>1, <2>2, <2>3 DEF IInv, Bookkeeping, Bookkept
  <2>5. Ids(r) \subseteq Id /\ Ids(q) \subseteq Id
    BY <2>4, OrderFacts, MovementAssumption DEF Ids
  <2>. QED
    BY <2>2, <2>5
<1>2. IInv /\ DeadlockNeedsSpellings => \A S \in SUBSET Request : ~Deadlocked(S)
  BY <1>1
<1>. QED
  BY <1>2, Invariance, DeadlockFree, PTL

(* Every behaviour of the services is one of the atomic bank.              *)
THEOREM Refinement == Spec => ImplementsBank
<1>1. Init => AtomicBank!Init
  BY DEF Init, AtomicBank!Init, Gl
<1>2. ASSUME IInv, [Next]_vars
      PROVE  [AtomicBank!Next]_(AtomicBank!bankVars)
  <2>1. ASSUME NEW r \in Request, Commit(r)
        PROVE  AtomicBank!Next
    <3>1. /\ req[r] \in Asked
          /\ req[r].amount \in Amount /\ req[r].amount > 0
          /\ AccountOf(req[r].from) \in Gl /\ AccountOf(req[r].to) \in Gl
      BY <1>2, <2>1, HoldsAll, MovementAssumption DEF IInv, Commit, Asked, Order
    <3>2. AtomicBank!Post(AccountOf(req[r].from), AccountOf(req[r].to), req[r].amount)
      BY <2>1 DEF Commit, Post, AtomicBank!Post
    <3>3. \A a \in held[r] :
              /\ a \in Account /\ status[a] # "absent"
              /\ req[r].kind # "transfer" => status[a] = "active"
      BY <1>2 DEF IInv, TypeOK, ChecksHold, RowsGood
    <3>4. req[r].kind # "deposit" => balance[AccountOf(req[r].from)] >= req[r].amount
      BY <1>2, <2>1 DEF IInv, Commit, ChecksHold, FundsGood, Funded
    <3>5. CASE req[r].kind = "deposit"
      <4>1. AtomicBank!Deposit(AccountOf(req[r].to), req[r].amount)
        BY <1>2, <2>1, <3>2, <3>3, <3>5, HoldsAll, MovementAssumption
           DEF IInv, Commit, AtomicBank!Deposit
      <4>2. AccountOf(req[r].to) \in Account
        BY <1>2, <2>1, <3>3, <3>5, HoldsAll, MovementAssumption DEF IInv, Commit
      <4>. QED
        BY <3>1, <4>1, <4>2 DEF AtomicBank!Next
    <3>6. CASE req[r].kind = "withdrawal"
      <4>1. AtomicBank!Withdraw(AccountOf(req[r].from), req[r].amount)
        BY <1>2, <2>1, <3>2, <3>3, <3>4, <3>6, HoldsAll, MovementAssumption
           DEF IInv, Commit, AtomicBank!Withdraw
      <4>2. AccountOf(req[r].from) \in Account
        BY <1>2, <2>1, <3>3, <3>6, HoldsAll, MovementAssumption DEF IInv, Commit
      <4>. QED
        BY <3>1, <4>1, <4>2 DEF AtomicBank!Next
    <3>7. CASE req[r].kind = "transfer"
      <4>1. AtomicBank!Transfer(AccountOf(req[r].from), AccountOf(req[r].to), req[r].amount)
        BY <1>2, <2>1, <3>2, <3>3, <3>4, <3>7, HoldsAll, MovementAssumption
           DEF IInv, Commit, AtomicBank!Transfer
      <4>2. AccountOf(req[r].from) \in Account /\ AccountOf(req[r].to) \in Account
        BY <1>2, <2>1, <3>3, <3>7, HoldsAll, MovementAssumption DEF IInv, Commit
      <4>. QED
        BY <3>1, <4>1, <4>2 DEF AtomicBank!Next
    <3>. QED
      BY <3>1, <3>5, <3>6, <3>7, OrderFacts, MovementAssumption
  <2>2. ASSUME NEW f \in Officer, Write(f)
        PROVE  AtomicBank!Next
    <3>1. /\ staff[f] \in Task
          /\ status[staff[f].account] # "absent"
      BY <1>2, <2>2 DEF IInv, TypeOK, TasksOnOpened, Write
    <3>2. /\ staff[f].account \in Account
          /\ Target[staff[f].op] \in Status \ {"absent"}
      BY <3>1 DEF Task, Op, Target, Status
    <3>3. AtomicBank!SetStatus(staff[f].account, Target[staff[f].op])
      BY <2>2, <3>1 DEF Write, AtomicBank!SetStatus
    <3>. QED
      BY <3>2, <3>3 DEF AtomicBank!Next, AtomicBank!Status, Status
  <2>3. ASSUME NEW a \in Account, Open(a)
        PROVE  AtomicBank!Next
    BY <2>3 DEF Open, AtomicBank!Open, AtomicBank!Next
  <2>4. CASE UNCHANGED <<balance, status>>
    BY <2>4 DEF AtomicBank!bankVars
  <2>. QED
    BY <1>2, <2>1, <2>2, <2>3, <2>4
       DEF Next, RequestStep, OfficerStep, Start, Lock, RefuseRow, Check, RefuseFunds,
           Rollback, Decide, CheckZero, GiveUp, vars
<1>. QED
  BY <1>1, <1>2, Invariance, PTL DEF Spec, ImplementsBank, AtomicBank!Spec

=============================================================================
