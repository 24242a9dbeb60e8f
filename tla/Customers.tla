------------------------------ MODULE Customers ------------------------------
(***************************************************************************)
(* Registration and login over a pool of Postgres connections.  Register   *)
(* is a transaction of two INSERTs, whose rows others see at its COMMIT;   *)
(* Login is one SELECT and a comparison of passwords.  These are the       *)
(* operations of the handlers; FrontDoor says when they run.               *)
(***************************************************************************)
EXTENDS Integers, FiniteSets

CONSTANTS
    Email,      \* e-mail addresses as clients spell them
    Normalize,  \* strings.ToLower(strings.TrimSpace(_)) of each spelling
    Valid,      \* the normalized addresses that isValidEmail accepts
    Password,
    Id,         \* what gen_random_uuid() may return
    Request,    \* registrations and logins that may be in flight together
    Other,      \* requests to the rest of the server
    MaxConns    \* connections of the pool

CustomersAssumption ==
    /\ Normalize \in [Email -> Email]
    /\ \A e \in Email : Normalize[Normalize[e]] = Normalize[e]
    /\ Valid \subseteq {Normalize[e] : e \in Email}
    /\ MaxConns \in Nat \ {0}

VARIABLES
    customers,      \* committed rows of customers
    credentials,    \* committed rows of credentials
    req,            \* request -> what it was asked to do
    pc,             \* request -> where it is, or the answer it has ready
    wrote,          \* request -> the rows its open transaction inserted
    conns           \* requests that have a connection of the pool

Customer == [id : Id, email : Valid]
Credential == [customer_id : Id, password : Password]

Order == [kind : {"register", "login"}, email : Email, password : Password]
NoOrder == [kind |-> "none"]
NoRows == [customers |-> {}, credentials |-> {}]

Answer == {"created", "taken", "token", "unauthorized", "failed"}

Type ==
    /\ customers \subseteq Customer
    /\ credentials \subseteq Credential
    /\ req \in [Request -> Order \cup {NoOrder}]
    /\ pc \in [Request -> Answer \cup {"idle", "begin", "insert", "credential",
                                     "commit", "lookup"}]
    /\ wrote \in [Request -> [customers : SUBSET Customer,
                              credentials : SUBSET Credential]]
    /\ conns \subseteq Request \cup Other

-----------------------------------------------------------------------------
Goto(r, where) == pc' = [pc EXCEPT ![r] = where]

FreeConn == Cardinality(conns) < MaxConns

(* Mutant of End: an early return without the deferred Rollback.           *)
EndLeakingConn(r, answer) ==
    /\ Goto(r, answer)
    /\ wrote' = [wrote EXCEPT ![r] = NoRows]
    /\ conns' = IF answer = "taken" THEN conns ELSE conns \ {r}

(* Commit or the deferred Rollback returns the connection to the pool.     *)
End(r, answer) ==
    /\ Goto(r, answer)
    /\ wrote' = [wrote EXCEPT ![r] = NoRows]
    /\ conns' = conns \ {r}

(* Mutant of Accept: the address is not looked at.                         *)
AcceptAnyAddress(r, o) ==
    /\ pc[r] = "idle"
    /\ req' = [req EXCEPT ![r] = o]
    /\ Goto(r, IF o.kind = "login" THEN "lookup" ELSE "begin")
    /\ UNCHANGED <<customers, credentials, wrote, conns>>

(* The arguments are decoded and NewCustomer looks at the address.         *)
Accept(r, o) ==
    /\ pc[r] = "idle"
    /\ req' = [req EXCEPT ![r] = o]
    /\ Goto(r, IF o.kind = "login" THEN "lookup"
               ELSE IF Normalize[o.email] \in Valid THEN "begin"
               ELSE "failed")
    /\ UNCHANGED <<customers, credentials, wrote, conns>>

-----------------------------------------------------------------------------
(* Register: CreateWithCredential                                          *)

Begin(r) ==
    /\ pc[r] = "begin"
    /\ FreeConn
    /\ conns' = conns \cup {r}
    /\ Goto(r, "insert")
    /\ UNCHANGED <<customers, credentials, req, wrote>>

Address(r) == Normalize[req[r].email]

(* Mutant of Undecided: a SELECT before the INSERT instead of the index.   *)
UndecidedNever(r) == FALSE

(* The unique index makes an INSERT wait for another transaction that has  *)
(* inserted the address and has not ended.                                 *)
Undecided(r) ==
    \E q \in Request \ {r} : \E c \in wrote[q].customers : c.email = Address(r)

Taken(r) == \E c \in customers : c.email = Address(r)

FreshIds ==
    {i \in Id : /\ \A c \in customers : c.id # i
               /\ \A q \in Request : \A c \in wrote[q].customers : c.id # i}
NewId == CHOOSE i \in FreshIds : TRUE

(* Bound: there are no more customers than Id has elements.                *)
CreateCustomer(r) ==
    /\ pc[r] = "insert"
    /\ ~Undecided(r)
    /\ ~Taken(r)
    /\ FreshIds # {}
    /\ wrote' = [wrote EXCEPT ![r].customers =
                    @ \cup {[id |-> NewId, email |-> Address(r)]}]
    /\ Goto(r, "credential")
    /\ UNCHANGED <<customers, credentials, req, conns>>

(* Mutant of EmailTaken: every error of the INSERT is taken for 23505.     *)
EmailTakenOnAnyError(r) ==
    /\ pc[r] = "insert"
    /\ ~Undecided(r)
    /\ End(r, "taken")
    /\ UNCHANGED <<customers, credentials, req>>

(* Error 23505, unique_violation, is ErrEmailTaken.                        *)
EmailTaken(r) ==
    /\ pc[r] = "insert"
    /\ ~Undecided(r)
    /\ Taken(r)
    /\ End(r, "taken")
    /\ UNCHANGED <<customers, credentials, req>>

(* Mutant of CredentialRows: the INSERT is left out.                       *)
CredentialRowsNone(r) == {}

CredentialRows(r) ==
    {[customer_id |-> c.id, password |-> req[r].password] : c \in wrote[r].customers}

CreateCredential(r) ==
    /\ pc[r] = "credential"
    /\ wrote' = [wrote EXCEPT ![r].credentials = @ \cup CredentialRows(r)]
    /\ Goto(r, "commit")
    /\ UNCHANGED <<customers, credentials, req, conns>>

Commit(r) ==
    /\ pc[r] = "commit"
    /\ customers' = customers \cup wrote[r].customers
    /\ credentials' = credentials \cup wrote[r].credentials
    /\ End(r, "created")
    /\ UNCHANGED req

-----------------------------------------------------------------------------
(* Login compares the password with the credential of the very string that *)
(* the client sent: unlike Register it does not normalize it.              *)
Found(r) ==
    {k \in credentials : \E c \in customers :
        c.id = k.customer_id /\ c.email = req[r].email}

Verify(password, k) == k.password = password

Login(r) ==
    /\ pc[r] = "lookup"
    /\ FreeConn
    /\ \/ \E k \in Found(r) :
             Goto(r, IF Verify(req[r].password, k) THEN "token" ELSE "unauthorized")
       \/ Found(r) = {} /\ Goto(r, "unauthorized")
    /\ UNCHANGED <<customers, credentials, req, wrote, conns>>

-----------------------------------------------------------------------------
(* A statement fails, the pool is closed or the client has gone.           *)
Fail(r) ==
    /\ pc[r] \notin Answer \cup {"idle"}
    /\ End(r, "failed")
    /\ UNCHANGED <<customers, credentials, req>>

(* The handler has written its answer and returns.                         *)
Return(r) ==
    /\ pc[r] \in Answer
    /\ Goto(r, "idle")
    /\ req' = [req EXCEPT ![r] = NoOrder]
    /\ UNCHANGED <<customers, credentials, wrote, conns>>

(* Other handlers use the same pool; none that has a connection asks for a *)
(* second one before it has returned the first.                            *)
OtherBegin(o) ==
    /\ o \notin conns
    /\ FreeConn
    /\ conns' = conns \cup {o}
    /\ UNCHANGED <<customers, credentials, req, pc, wrote>>

OtherEnd(o) ==
    /\ o \in conns
    /\ conns' = conns \ {o}
    /\ UNCHANGED <<customers, credentials, req, pc, wrote>>

(* The process ends: Postgres rolls back what was not committed.           *)
Halt ==
    /\ req' = [r \in Request |-> NoOrder]
    /\ pc' = [r \in Request |-> "idle"]
    /\ wrote' = [r \in Request |-> NoRows]
    /\ conns' = {}
    /\ UNCHANGED <<customers, credentials>>

Init ==
    /\ customers = {}
    /\ credentials = {}
    /\ req = [r \in Request |-> NoOrder]
    /\ pc = [r \in Request |-> "idle"]
    /\ wrote = [r \in Request |-> NoRows]
    /\ conns = {}

=============================================================================
