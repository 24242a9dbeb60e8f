-------------------------- MODULE IdempotencyProofs --------------------------
(***************************************************************************)
(* Proofs about Idempotency, for any attempts, keys and bodies: what a     *)
(* client is told, what a settled key does, and which keys move money      *)
(* once.                                                                   *)
(***************************************************************************)
EXTENDS Idempotency, TLAPS

Row == [body : Body \cup {"none"}, entry : Nat]

TypeOK ==
    /\ stored \in [Key -> Row]
    /\ journal \in Seq(Ask)
    /\ asks \in [Attempt -> Ask \cup {NoAsk}]
    /\ pc \in [Attempt -> {"idle", "look", "run", "store"}]
    /\ entry \in [Attempt -> Nat]
    /\ told \subseteq [asked : Ask, entry : Nat]
    /\ \A a \in Attempt : pc[a] # "idle" => asks[a] \in Ask

(* Entry e was booked for what ask says.                                   *)
BookedFor(e, ask) == e \in DOMAIN journal /\ journal[e] = ask

(* An attempt that has moved money knows its own entry.                    *)
OwnEntries ==
    \A a \in Attempt : pc[a] = "store" => BookedFor(entry[a], asks[a])

(* A stored answer is that of a transfer with the same key and body.       *)
RowsReal ==
    \A k \in Key : stored[k] # NoRow =>
        BookedFor(stored[k].entry, [key |-> k, body |-> stored[k].body])

RealInv == TypeOK /\ OwnEntries /\ RowsReal /\ AnswersAreReal

(* Attempt a is under way with key k.                                      *)
Uses(a, k) == pc[a] # "idle" /\ asks[a].key = k

OneAttempt(k) ==
    \A a, b \in Attempt : Uses(a, k) /\ Uses(b, k) => a = b

(* While no answer is stored, only an attempt that is about to store one   *)
(* has moved money, and while one is about to move it nothing is stored.   *)
NotMovedYet(k) ==
    /\ stored[k] = NoRow /\ MovesOf(k) # {} =>
          \E a \in Attempt : pc[a] = "store" /\ asks[a].key = k
    /\ \A a \in Attempt : pc[a] = "run" /\ asks[a].key = k => stored[k] = NoRow

CarefulInv ==
    /\ \A k \in Awaited : OneAttempt(k)
    /\ \A k \in Awaited \cap Kept : NotMovedYet(k)
    /\ CarefulKeysMoveOnce

(* The inductive invariant.                                                *)
IInv == RealInv /\ CarefulInv

-----------------------------------------------------------------------------
(* The journal only grows                                                  *)

LEMMA MoveAppends ==
    ASSUME TypeOK, NEW a \in Attempt, Move(a)
    PROVE  /\ asks[a] \in Ask /\ Len(journal) \in Nat
           /\ journal' \in Seq(Ask)
           /\ DOMAIN journal = 1..Len(journal)
           /\ DOMAIN journal' = 1..(Len(journal) + 1)
           /\ \A i \in DOMAIN journal : journal'[i] = journal[i]
           /\ journal'[Len(journal) + 1] = asks[a]
           /\ entry' = [entry EXCEPT ![a] = Len(journal) + 1]
BY DEF Move, TypeOK

LEMMA BookedStays ==
    ASSUME TypeOK, NEW a \in Attempt, Move(a), NEW e, NEW ask, BookedFor(e, ask)
    PROVE  BookedFor(e, ask)'
BY MoveAppends DEF BookedFor

(* What all ends of a handler have in common.                              *)
LEMMA FinishTypes ==
    ASSUME TypeOK, NEW a \in Attempt, Finish(a)
    PROVE  /\ asks' \in [Attempt -> Ask \cup {NoAsk}]
           /\ pc' \in [Attempt -> {"idle", "look", "run", "store"}]
           /\ entry' \in [Attempt -> Nat]
           /\ pc'[a] = "idle"
           /\ \A b \in Attempt \ {a} : /\ pc'[b] = pc[b] /\ asks'[b] = asks[b]
                                       /\ entry'[b] = entry[b]
           /\ \A b \in Attempt : pc'[b] # "idle" => asks'[b] \in Ask
BY DEF TypeOK, Finish

-----------------------------------------------------------------------------
(* Answers are real                                                        *)

LEMMA RealInit == Init => RealInv
BY DEF Init, RealInv, TypeOK, OwnEntries, RowsReal, AnswersAreReal, Row, NoRow,
       NoAsk, Ask

LEMMA SendReal ==
    ASSUME RealInv, NEW a \in Attempt, NEW ask \in Ask, Send(a, ask)
    PROVE  RealInv'
BY DEF Send, RealInv, TypeOK, OwnEntries, RowsReal, AnswersAreReal, BookedFor

LEMMA MissReal ==
    ASSUME RealInv, NEW a \in Attempt, Miss(a)
    PROVE  RealInv'
BY DEF Miss, RealInv, TypeOK, OwnEntries, RowsReal, AnswersAreReal, BookedFor

LEMMA MoveReal ==
    ASSUME RealInv, NEW a \in Attempt, Move(a)
    PROVE  RealInv'
<1> USE DEF RealInv
<1>1. TypeOK'
  BY MoveAppends DEF Move, TypeOK
<1>2. OwnEntries'
  <2> SUFFICES ASSUME NEW b \in Attempt, pc'[b] = "store"
               PROVE  BookedFor(entry[b], asks[b])'
    BY DEF OwnEntries
  <2>1. CASE b = a
    BY <2>1, MoveAppends DEF Move, TypeOK, BookedFor
  <2>2. CASE b # a
    <3>1. pc[b] = "store" /\ entry'[b] = entry[b] /\ asks' = asks
      BY <2>2 DEF Move, TypeOK
    <3> QED
      BY <3>1, MoveAppends DEF OwnEntries, BookedFor
  <2> QED
    BY <2>1, <2>2
<1>3. RowsReal'
  BY MoveAppends DEF Move, RowsReal, BookedFor
<1>4. AnswersAreReal'
  BY MoveAppends DEF Move, AnswersAreReal
<1> QED
  BY <1>1, <1>2, <1>3, <1>4

(* An attempt ends: the rows stay or get one that is real, and the client  *)
(* is told nothing or of an entry booked for what it asked.                *)
LEMMA FinishReal ==
    ASSUME RealInv, NEW a \in Attempt, Finish(a), asks[a] \in Ask, UNCHANGED journal,
           stored' \in [Key -> Row], RowsReal',
           \/ told' = told
           \/ \E e \in Nat : BookedFor(e, asks[a]) /\ told' = Answer(a, e)
    PROVE  RealInv'
<1> USE DEF RealInv
<1>1. told' \subseteq [asked : Ask, entry : Nat] /\ AnswersAreReal'
  BY DEF TypeOK, AnswersAreReal, Answer, BookedFor
<1>2. TypeOK'
  BY <1>1, FinishTypes DEF TypeOK
<1>3. OwnEntries'
  BY FinishTypes DEF TypeOK, OwnEntries, BookedFor
<1> QED
  BY <1>1, <1>2, <1>3

LEMMA EndingReal ==
    ASSUME RealInv, NEW a \in Attempt,
           Replay(a) \/ Conflict(a) \/ Refuse(a) \/ LoseAnswer(a)
    PROVE  RealInv'
<1> USE DEF RealInv
<1>1. /\ Finish(a) /\ UNCHANGED <<stored, journal>> /\ asks[a] \in Ask
      /\ stored' \in [Key -> Row]
  BY DEF Replay, Conflict, Refuse, LoseAnswer, TypeOK
<1>2. RowsReal'
  BY <1>1 DEF RowsReal, BookedFor
<1>3. \/ told' = told
      \/ \E e \in Nat : BookedFor(e, asks[a]) /\ told' = Answer(a, e)
  <2>1. CASE Replay(a)
    <3> DEFINE k == asks[a].key
    <3>1. k \in Key /\ stored[k] # NoRow /\ stored[k].body = asks[a].body
      BY <1>1, <2>1 DEF Replay, SameRequest, Ask
    <3>2. [key |-> k, body |-> stored[k].body] = asks[a] /\ stored[k].entry \in Nat
      BY <1>1, <3>1 DEF TypeOK, Row, Ask
    <3>3. BookedFor(stored[k].entry, asks[a])
      BY <3>1, <3>2 DEF RowsReal
    <3> QED
      BY <2>1, <3>2, <3>3 DEF Replay
  <2>2. CASE LoseAnswer(a)
    BY <2>2 DEF LoseAnswer, OwnEntries, TypeOK
  <2> QED
    BY <2>1, <2>2 DEF Conflict, Refuse
<1> QED
  BY <1>1, <1>2, <1>3, FinishReal

LEMMA StoreReal ==
    ASSUME RealInv, NEW a \in Attempt, Store(a)
    PROVE  RealInv'
<1> USE DEF RealInv
<1> DEFINE k == asks[a].key
<1>1. /\ asks[a] \in Ask /\ k \in Key /\ asks[a].body \in Body
      /\ asks[a] = [key |-> k, body |-> asks[a].body]
      /\ entry[a] \in Nat
      /\ BookedFor(entry[a], asks[a])
  BY DEF Store, TypeOK, OwnEntries, Ask
<1>2. stored' \in [Key -> Row] /\ UNCHANGED journal
  BY <1>1 DEF Store, Inserted, TypeOK, Row
<1>3. RowsReal'
  <2> SUFFICES ASSUME NEW j \in Key, stored'[j] # NoRow
               PROVE  BookedFor(stored'[j].entry, [key |-> j, body |-> stored'[j].body])
    BY <1>2 DEF RowsReal, BookedFor
  <2>1. CASE j = k /\ stored[k] = NoRow
    BY <1>1, <2>1 DEF Store, Inserted, TypeOK
  <2>2. CASE ~(j = k /\ stored[k] = NoRow)
    <3>1. stored'[j] = stored[j]
      BY <1>1, <2>2 DEF Store, Inserted, TypeOK
    <3> QED
      BY <3>1 DEF RowsReal
  <2> QED
    BY <2>1, <2>2
<1> QED
  BY <1>1, <1>2, <1>3, FinishReal DEF Store

LEMMA RealStep == RealInv /\ [Next]_vars => RealInv'
<1> SUFFICES ASSUME RealInv, [Next]_vars PROVE RealInv'
  OBVIOUS
<1>1. CASE UNCHANGED vars
  BY <1>1 DEF vars, RealInv, TypeOK, OwnEntries, RowsReal, AnswersAreReal, BookedFor
<1> QED
  BY <1>1, SendReal, MissReal, MoveReal, EndingReal, StoreReal DEF Next

(* A client is only ever told of a transfer that was booked for the key    *)
(* and body it sent, whatever overlaps, is retried or is lost.             *)
THEOREM AnswersReal == Spec => []AnswersAreReal
<1>1. RealInv => AnswersAreReal
  BY DEF RealInv
<1> QED
  BY <1>1, RealInit, RealStep, PTL DEF Spec

-----------------------------------------------------------------------------
(* Careful keys                                                            *)

LEMMA CarefulInit == Init => CarefulInv
BY DEF Init, CarefulInv, OneAttempt, Uses, NotMovedYet, MovesOf,
       CarefulKeysMoveOnce, MovesOnce

(* Only Send lets a key be used by one more attempt.                       *)
LEMMA UsesShrink ==
    ASSUME NEW k, OneAttempt(k), \A a \in Attempt : Uses(a, k)' => Uses(a, k)
    PROVE  OneAttempt(k)'
BY DEF OneAttempt

(* Nothing is booked: only the attempts and the rows matter.               *)
LEMMA SameMoves ==
    ASSUME UNCHANGED journal
    PROVE  /\ \A k : MovesOf(k)' = MovesOf(k)
           /\ CarefulKeysMoveOnce' = CarefulKeysMoveOnce
BY DEF MovesOf, CarefulKeysMoveOnce, MovesOnce

LEMMA SendCareful ==
    ASSUME TypeOK, CarefulInv, NEW a \in Attempt, NEW ask \in Ask, Send(a, ask)
    PROVE  CarefulInv'
<1>1. /\ pc[a] = "idle" /\ pc' = [pc EXCEPT ![a] = "look"]
      /\ asks' = [asks EXCEPT ![a] = ask]
      /\ UNCHANGED <<stored, journal>>
  BY DEF Send
<1>2. ASSUME NEW k \in Awaited PROVE OneAttempt(k)'
  <2>1. CASE ask.key = k
    BY <1>1, <2>1 DEF Send, OneAttempt, Uses, TypeOK
  <2>2. CASE ask.key # k
    <3>1. \A b \in Attempt : Uses(b, k)' => Uses(b, k)
      BY <1>1, <2>2 DEF Uses, TypeOK
    <3> QED
      BY <3>1, UsesShrink DEF CarefulInv
  <2> QED
    BY <2>1, <2>2
<1>3. ASSUME NEW k \in Awaited \cap Kept PROVE NotMovedYet(k)'
  <2>1. \A b \in Attempt : pc'[b] \in {"run", "store"} =>
            b # a /\ pc'[b] = pc[b] /\ asks'[b] = asks[b]
    BY <1>1 DEF TypeOK
  <2>2. \A b \in Attempt : pc[b] = "store" => pc'[b] = "store" /\ asks'[b] = asks[b]
    BY <1>1 DEF TypeOK
  <2> QED
    BY <1>1, <2>1, <2>2, SameMoves DEF CarefulInv, NotMovedYet
<1> QED
  BY <1>1, <1>2, <1>3, SameMoves DEF CarefulInv

LEMMA MissCareful ==
    ASSUME TypeOK, CarefulInv, NEW a \in Attempt, Miss(a)
    PROVE  CarefulInv'
<1>1. /\ pc[a] = "look" /\ pc' = [pc EXCEPT ![a] = "run"]
      /\ stored[asks[a].key] = NoRow
      /\ UNCHANGED <<stored, journal, asks>>
  BY DEF Miss
<1>2. ASSUME NEW k \in Awaited PROVE OneAttempt(k)'
  <2>1. \A b \in Attempt : Uses(b, k)' => Uses(b, k)
    BY <1>1 DEF Uses, TypeOK
  <2> QED
    BY <2>1, UsesShrink DEF CarefulInv
<1>3. ASSUME NEW k \in Awaited \cap Kept PROVE NotMovedYet(k)'
  <2>1. \A b \in Attempt : pc'[b] = "run" => b = a \/ pc[b] = "run"
    BY <1>1 DEF TypeOK
  <2>2. \A b \in Attempt : pc[b] = "store" => pc'[b] = "store"
    BY <1>1 DEF TypeOK
  <2> QED
    BY <1>1, <2>1, <2>2, SameMoves DEF CarefulInv, NotMovedYet
<1> QED
  BY <1>1, <1>2, <1>3, SameMoves DEF CarefulInv

LEMMA MoveCareful ==
    ASSUME TypeOK, CarefulInv, NEW a \in Attempt, Move(a)
    PROVE  CarefulInv'
<1> DEFINE n == Len(journal) + 1
           key == asks[a].key
<1>1. /\ pc[a] = "run" /\ pc' = [pc EXCEPT ![a] = "store"]
      /\ UNCHANGED <<stored, asks>>
  BY DEF Move
<1>2. ASSUME NEW k \in Awaited PROVE OneAttempt(k)'
  <2>1. \A b \in Attempt : Uses(b, k)' => Uses(b, k)
    BY <1>1 DEF Uses, TypeOK
  <2> QED
    BY <2>1, UsesShrink DEF CarefulInv
<1>3. \A k : MovesOf(k)' = IF k = key THEN MovesOf(k) \cup {n} ELSE MovesOf(k)
  BY MoveAppends DEF MovesOf
<1>4. ASSUME NEW k \in Awaited \cap Kept PROVE NotMovedYet(k)'
  <2>1. pc'[a] = "store" /\ asks'[a].key = key
    BY <1>1 DEF TypeOK
  <2>2. \A b \in Attempt : pc[b] = "store" => pc'[b] = "store"
    BY <1>1 DEF TypeOK
  <2>3. \A b \in Attempt : pc'[b] = "run" => pc[b] = "run"
    BY <1>1 DEF TypeOK
  <2> HIDE DEF n, key
  <2> QED
    BY <1>1, <1>3, <2>1, <2>2, <2>3 DEF CarefulInv, NotMovedYet
<1>5. key \in Awaited \cap Kept => MovesOf(key) = {}
  <2> SUFFICES ASSUME key \in Awaited \cap Kept PROVE MovesOf(key) = {}
    OBVIOUS
  <2>1. stored[key] = NoRow
    BY <1>1 DEF CarefulInv, NotMovedYet
  <2>2. \A b \in Attempt : Uses(b, key) => b = a
    BY <1>1 DEF CarefulInv, OneAttempt, Uses
  <2>3. ~ \E b \in Attempt : pc[b] = "store" /\ asks[b].key = key
    BY <1>1, <2>2 DEF Uses
  <2> QED
    BY <2>1, <2>3 DEF CarefulInv, NotMovedYet
<1>6. CarefulKeysMoveOnce'
  <2> SUFFICES ASSUME NEW i \in DOMAIN journal', NEW j \in DOMAIN journal',
                      journal'[i].key = journal'[j].key,
                      journal'[i].key \in Awaited \cap Kept
               PROVE  i = j
    BY DEF CarefulKeysMoveOnce, MovesOnce
  <2>1. CASE i \in DOMAIN journal /\ j \in DOMAIN journal
    BY <2>1, MoveAppends DEF CarefulInv, CarefulKeysMoveOnce, MovesOnce
  <2>2. CASE i = n
    <3>1. journal'[j].key = key /\ key \in Awaited \cap Kept
      BY <2>2, MoveAppends
    <3>2. j \notin DOMAIN journal
      BY <1>5, <3>1, MoveAppends DEF MovesOf
    <3> QED
      BY <2>2, <3>2, MoveAppends
  <2>3. CASE j = n
    <3>1. journal'[i].key = key /\ key \in Awaited \cap Kept
      BY <2>3, MoveAppends
    <3>2. i \notin DOMAIN journal
      BY <1>5, <3>1, MoveAppends DEF MovesOf
    <3> QED
      BY <2>3, <3>2, MoveAppends
  <2> QED
    BY <2>1, <2>2, <2>3, MoveAppends
<1> QED
  BY <1>2, <1>4, <1>6 DEF CarefulInv

(* An attempt ends without storing anything: it had moved no money, or its *)
(* key is not one whose answers are kept.                                  *)
LEMMA EndingCareful ==
    ASSUME TypeOK, CarefulInv, NEW a \in Attempt, Finish(a),
           UNCHANGED <<stored, journal>>,
           pc[a] = "store" => asks[a].key \notin Kept
    PROVE  CarefulInv'
<1>1. ASSUME NEW k \in Awaited PROVE OneAttempt(k)'
  <2>1. \A b \in Attempt : Uses(b, k)' => Uses(b, k)
    BY FinishTypes DEF Uses
  <2> QED
    BY <2>1, UsesShrink DEF CarefulInv
<1>2. ASSUME NEW k \in Awaited \cap Kept PROVE NotMovedYet(k)'
  <2>1. \A b \in Attempt : pc'[b] = "run" => pc[b] = "run" /\ asks'[b] = asks[b]
    BY FinishTypes
  <2>2. \A b \in Attempt : pc[b] = "store" /\ asks[b].key = k =>
                               pc'[b] = "store" /\ asks'[b] = asks[b]
    BY FinishTypes
  <2> QED
    BY <2>1, <2>2, SameMoves DEF CarefulInv, NotMovedYet
<1> QED
  BY <1>1, <1>2, SameMoves DEF CarefulInv

LEMMA StoreCareful ==
    ASSUME RealInv, CarefulInv, NEW a \in Attempt, Store(a)
    PROVE  CarefulInv'
<1> DEFINE key == asks[a].key
<1>1. /\ pc[a] = "store" /\ Finish(a) /\ UNCHANGED journal /\ stored' = Inserted(a)
      /\ TypeOK
  BY DEF Store, RealInv
<1>2. ASSUME NEW k \in Awaited PROVE OneAttempt(k)'
  <2>1. \A b \in Attempt : Uses(b, k)' => Uses(b, k)
    BY <1>1, FinishTypes DEF Uses
  <2> QED
    BY <2>1, UsesShrink DEF CarefulInv
<1>3. /\ key \in Key /\ entry[a] \in DOMAIN journal /\ 0 \notin DOMAIN journal
  BY <1>1 DEF RealInv, OwnEntries, BookedFor, TypeOK, Ask
<1>4. stored'[key] # NoRow /\ \A k \in Key \ {key} : stored'[k] = stored[k]
  BY <1>1, <1>3 DEF Inserted, TypeOK, NoRow
<1>5. ASSUME NEW k \in Awaited \cap Kept PROVE NotMovedYet(k)'
  <2>1. CASE k = key
    <3>1. \A b \in Attempt : pc'[b] # "idle" => b # a /\ pc'[b] = pc[b] /\ asks'[b] = asks[b]
      BY <1>1, FinishTypes
    <3>2. \A b \in Attempt : Uses(b, key) => b = a
      BY <1>1, <2>1 DEF CarefulInv, OneAttempt, Uses
    <3>3. ~ \E b \in Attempt : pc'[b] = "run" /\ asks'[b].key = key
      BY <3>1, <3>2 DEF Uses
    <3> QED
      BY <1>4, <2>1, <3>3 DEF NotMovedYet
  <2>2. CASE k # key
    <3>1. \A b \in Attempt : pc'[b] = "run" => pc[b] = "run" /\ asks'[b] = asks[b]
      BY <1>1, FinishTypes
    <3>2. \A b \in Attempt : pc[b] = "store" /\ asks[b].key = k =>
                                 pc'[b] = "store" /\ asks'[b] = asks[b]
      BY <1>1, <2>2, FinishTypes
    <3>3. stored'[k] = stored[k]
      BY <1>4, <2>2, IdempotencyAssumption
    <3> QED
      BY <1>1, <3>1, <3>2, <3>3, SameMoves DEF CarefulInv, NotMovedYet
  <2> QED
    BY <2>1, <2>2
<1> QED
  BY <1>1, <1>2, <1>5, SameMoves DEF CarefulInv

LEMMA CarefulStep == IInv /\ [Next]_vars => CarefulInv'
<1> SUFFICES ASSUME IInv, [Next]_vars PROVE CarefulInv'
  OBVIOUS
<1>1. TypeOK /\ RealInv /\ CarefulInv
  BY DEF IInv, RealInv
<1>2. CASE UNCHANGED vars
  BY <1>1, <1>2 DEF vars, CarefulInv, OneAttempt, Uses, NotMovedYet, MovesOf,
                    CarefulKeysMoveOnce, MovesOnce
<1>3. ASSUME NEW a \in Attempt,
             Replay(a) \/ Conflict(a) \/ Refuse(a) \/ LoseAnswer(a)
      PROVE  CarefulInv'
  BY <1>1, <1>3, EndingCareful DEF Replay, Conflict, Refuse, LoseAnswer
<1> QED
  BY <1>1, <1>2, <1>3, SendCareful, MissCareful, MoveCareful, StoreCareful DEF Next

LEMMA Invariant == Spec => []IInv
<1>1. Init => IInv
  BY RealInit, CarefulInit DEF IInv
<1>2. IInv /\ [Next]_vars => IInv'
  BY RealStep, CarefulStep DEF IInv
<1> QED
  BY <1>1, <1>2, PTL DEF Spec

(* A key moves money once, if its client awaits an answer before it        *)
(* retries and the answer is kept.                                         *)
THEOREM CarefulMovesOnce == Spec => []CarefulKeysMoveOnce
<1>1. IInv => CarefulKeysMoveOnce
  BY DEF IInv, CarefulInv
<1> QED
  BY <1>1, Invariant, PTL

-----------------------------------------------------------------------------
(* Settled keys                                                            *)

LEMMA SettledStep == TypeOK /\ [Next]_vars => SettledStays
<1> SUFFICES ASSUME TypeOK, [Next]_vars, NEW k \in Key, Settled(k)
             PROVE  Settled(k)' /\ UNCHANGED <<stored[k], MovesOf(k)>>
  BY DEF SettledStays
<1>1. stored[k] # NoRow /\ \A a \in Attempt : asks[a].key = k => pc[a] # "run"
  BY DEF Settled
<1>2. CASE UNCHANGED vars
  BY <1>1, <1>2 DEF vars, Settled, MovesOf
<1>3. ASSUME NEW a \in Attempt, NEW ask \in Ask, Send(a, ask)
      PROVE  Settled(k)' /\ UNCHANGED <<stored[k], MovesOf(k)>>
  BY <1>1, <1>3 DEF Send, TypeOK, Settled, MovesOf
<1>4. ASSUME NEW a \in Attempt, Finish(a), UNCHANGED <<stored[k], journal>>
      PROVE  Settled(k)' /\ UNCHANGED <<stored[k], MovesOf(k)>>
  BY <1>1, <1>4, FinishTypes DEF Settled, MovesOf
<1>5. ASSUME NEW a \in Attempt,
             Replay(a) \/ Conflict(a) \/ Refuse(a) \/ LoseAnswer(a)
      PROVE  Settled(k)' /\ UNCHANGED <<stored[k], MovesOf(k)>>
  BY <1>4, <1>5 DEF Replay, Conflict, Refuse, LoseAnswer
<1>6. ASSUME NEW a \in Attempt, Miss(a)
      PROVE  Settled(k)' /\ UNCHANGED <<stored[k], MovesOf(k)>>
  BY <1>1, <1>6 DEF Miss, TypeOK, Settled, MovesOf
<1>7. ASSUME NEW a \in Attempt, Move(a)
      PROVE  Settled(k)' /\ UNCHANGED <<stored[k], MovesOf(k)>>
  <2>1. asks[a].key # k
    BY <1>1, <1>7 DEF Move
  <2>2. MovesOf(k)' = MovesOf(k)
    BY <1>7, <2>1, MoveAppends DEF MovesOf
  <2>3. Settled(k)'
    BY <1>1, <1>7 DEF Move, TypeOK, Settled
  <2> QED
    BY <1>7, <2>2, <2>3 DEF Move
<1>8. ASSUME NEW a \in Attempt, Store(a)
      PROVE  Settled(k)' /\ UNCHANGED <<stored[k], MovesOf(k)>>
  <2>1. stored'[k] = stored[k]
    BY <1>1, <1>8 DEF Store, Inserted, TypeOK
  <2> QED
    BY <1>4, <1>8, <2>1 DEF Store
<1> QED
  BY <1>2, <1>3, <1>5, <1>6, <1>7, <1>8 DEF Next

(* Once its answer is stored and nobody who missed it is under way, a key  *)
(* keeps its answer and moves no money any more.                           *)
THEOREM SettledKeysStay == Spec => SettledForGood
<1>1. IInv => TypeOK
  BY DEF IInv, RealInv
<1> QED
  BY <1>1, Invariant, SettledStep, PTL DEF Spec, SettledForGood

=============================================================================
