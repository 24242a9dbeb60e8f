---------------------------- MODULE Idempotency ----------------------------
(***************************************************************************)
(* The Idempotency middleware in front of POST /transfers.  It looks the   *)
(* key up, runs the handler on a miss and stores the answer of a success:  *)
(* three separate database accesses, none in the transfer's transaction.   *)
(* The transfer itself is one step, as MoneyMovement shows it may be.      *)
(***************************************************************************)
EXTENDS Integers, Sequences

CONSTANTS
    Attempt,        \* HTTP requests that may be in flight together
    Key,            \* Idempotency-Key values that clients choose
    Body,           \* request bodies, as told apart by their SHA-256
    Awaited,        \* keys that clients send again only after an answer
    Kept,           \* keys whose answers are stored without a failure
    MaxMoves        \* bound: no further transfer is booked after so many

ASSUME IdempotencyAssumption ==
    /\ Awaited \subseteq Key
    /\ Kept \subseteq Key
    /\ MaxMoves \in Nat

VARIABLES
    stored,     \* idempotency_key: key -> body hash and entry answered
    journal,    \* the transfers committed, in order: the key and body asked
    asks,       \* attempt -> its key and body while it is under way
    pc,         \* attempt -> where it is
    entry,      \* attempt -> the entry its own transfer made
    told        \* the 2xx answers clients have received

vars == <<stored, journal, asks, pc, entry, told>>

Ask == [key : Key, body : Body]
NoRow == [body |-> "none", entry |-> 0]
NoAsk == [key |-> "none", body |-> "none"]

Answer(a, e) == told \cup {[asked |-> asks[a], entry |-> e]}

(* Mutant of SameRequest: the hash is not compared.                        *)
AnyRequest(a) == stored[asks[a].key] # NoRow

(* The stored row was made by the same body.                               *)
SameRequest(a) ==
    /\ stored[asks[a].key] # NoRow
    /\ stored[asks[a].key].body = asks[a].body

(* The handler chain returns.                                              *)
Finish(a) ==
    /\ asks' = [asks EXCEPT ![a] = NoAsk]
    /\ pc' = [pc EXCEPT ![a] = "idle"]
    /\ entry' = [entry EXCEPT ![a] = 0]

-----------------------------------------------------------------------------
(* A client sends a key and body, for the first time or again.             *)
Send(a, ask) ==
    /\ pc[a] = "idle"
    /\ ask.key \in Awaited => \A b \in Attempt : asks[b].key # ask.key
    /\ asks' = [asks EXCEPT ![a] = ask]
    /\ pc' = [pc EXCEPT ![a] = "look"]
    /\ UNCHANGED <<stored, journal, entry, told>>

(* Mutant of Replay: the return after writing the stored answer is missing. *)
ReplayThenRun(a) ==
    /\ pc[a] = "look"
    /\ SameRequest(a)
    /\ told' = Answer(a, stored[asks[a].key].entry)
    /\ pc' = [pc EXCEPT ![a] = "run"]
    /\ UNCHANGED <<stored, journal, asks, entry>>

Replay(a) ==
    /\ pc[a] = "look"
    /\ SameRequest(a)
    /\ told' = Answer(a, stored[asks[a].key].entry)
    /\ Finish(a)
    /\ UNCHANGED <<stored, journal>>

(* 409 IDEMPOTENCY_CONFLICT.                                               *)
Conflict(a) ==
    /\ pc[a] = "look"
    /\ stored[asks[a].key] # NoRow
    /\ ~SameRequest(a)
    /\ Finish(a)
    /\ UNCHANGED <<stored, journal, told>>

Miss(a) ==
    /\ pc[a] = "look"
    /\ stored[asks[a].key] = NoRow
    /\ pc' = [pc EXCEPT ![a] = "run"]
    /\ UNCHANGED <<stored, journal, asks, entry, told>>

(* The handler commits its transfer.                                       *)
Move(a) ==
    /\ pc[a] = "run"
    /\ Len(journal) < MaxMoves
    /\ journal' = Append(journal, asks[a])
    /\ entry' = [entry EXCEPT ![a] = Len(journal')]
    /\ pc' = [pc EXCEPT ![a] = "store"]
    /\ UNCHANGED <<stored, asks, told>>

(* The lookup or the handler fails, or the client is gone before the       *)
(* commit: no 2xx, and nothing is stored.                                  *)
Refuse(a) ==
    /\ pc[a] \in {"look", "run"}
    /\ Finish(a)
    /\ UNCHANGED <<stored, journal, told>>

(* Mutant of Inserted: only 200 counts as a success, and a transfer is 201. *)
InsertedNever(a) == stored

(* The primary key refuses a second row, an error that is ignored.         *)
Inserted(a) ==
    IF stored[asks[a].key] = NoRow
    THEN [stored EXCEPT ![asks[a].key] =
             [body |-> asks[a].body, entry |-> entry[a]]]
    ELSE stored

Store(a) ==
    /\ pc[a] = "store"
    /\ stored' = Inserted(a)
    /\ told' = Answer(a, entry[a])
    /\ Finish(a)
    /\ UNCHANGED journal

(* The insert is not made: the client has gone, which cancels r.Context(), *)
(* the server stops, or the database fails and the error is ignored.       *)
LoseAnswer(a) ==
    /\ pc[a] = "store"
    /\ asks[a].key \notin Kept
    /\ told' \in {told, Answer(a, entry[a])}
    /\ Finish(a)
    /\ UNCHANGED <<stored, journal>>

-----------------------------------------------------------------------------
Init ==
    /\ stored = [k \in Key |-> NoRow]
    /\ journal = <<>>
    /\ asks = [a \in Attempt |-> NoAsk]
    /\ pc = [a \in Attempt |-> "idle"]
    /\ entry = [a \in Attempt |-> 0]
    /\ told = {}

Next ==
    \E a \in Attempt :
        \/ \E ask \in Ask : Send(a, ask)
        \/ Replay(a) \/ Conflict(a) \/ Miss(a)
        \/ Move(a) \/ Refuse(a)
        \/ Store(a) \/ LoseAnswer(a)

Spec == Init /\ [][Next]_vars

-----------------------------------------------------------------------------
(* Properties                                                              *)

(* The transfers booked under a key.                                       *)
MovesOf(k) == {i \in DOMAIN journal : journal[i].key = k}

(* Whatever overlaps, is retried or is lost, a client is only ever told of *)
(* a transfer that was booked for the key and body it sent.                *)
AnswersAreReal ==
    \A t \in told : /\ t.entry \in DOMAIN journal
                    /\ journal[t.entry] = t.asked

(* A key is settled when its answer is stored and no attempt that missed   *)
(* the row is still under way.                                             *)
Settled(k) ==
    /\ stored[k] # NoRow
    /\ \A a \in Attempt : asks[a].key = k => pc[a] # "run"

(* From then on the key keeps its answer and moves no money again, however *)
(* often and with whatever body it is sent.                                *)
SettledStays ==
    \A k \in Key :
        Settled(k) => Settled(k)' /\ UNCHANGED <<stored[k], MovesOf(k)>>

SettledForGood == [][SettledStays]_vars

(* The transfers booked under the keys of K have different keys.           *)
MovesOnce(K) ==
    \A i, j \in DOMAIN journal :
        journal[i].key = journal[j].key /\ journal[i].key \in K => i = j

(* A key moves money once, whatever attempts with other keys do, as long   *)
(* as its client awaits an answer before it retries and the answer is kept. *)
CarefulKeysMoveOnce == MovesOnce(Awaited \cap Kept)

(* "A retried request with the same key returns the original result        *)
(* instead of repeating the action" (web/src/Glossary.tsx): any key moves  *)
(* money once.                                                             *)
OneMovePerKey == MovesOnce(Key)

=============================================================================
