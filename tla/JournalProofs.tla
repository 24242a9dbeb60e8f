---------------------------- MODULE JournalProofs ----------------------------
(***************************************************************************)
(* Proofs about Journal, for any accounts, postings, handlers and readers: *)
(* the books balance, reversals compensate, settled days are final,        *)
(* statements add up, histories miss nothing, only reversals overdraw an   *)
(* account, and the journal implements Books.                              *)
(***************************************************************************)
EXTENDS Journal, ArithmeticProofs

-----------------------------------------------------------------------------
(* Lines                                                                   *)

SignedOf(lines) == [i \in DOMAIN lines |-> Signed(lines[i])]
Mine(lines, g) == {i \in DOMAIN lines : lines[i].account = g}

LEMMA LineFacts ==
    ASSUME NEW lines \in Seq(Line)
    PROVE  /\ DOMAIN lines = 1..Len(lines) /\ Len(lines) \in Nat
           /\ IsFiniteSet(DOMAIN lines)
           /\ \A i \in DOMAIN lines : lines[i] \in Line
           /\ \A i \in DOMAIN lines : lines[i].account \in Gl
           /\ \A i \in DOMAIN lines : SignedOf(lines)[i] \in Int
<1>1. /\ DOMAIN lines = 1..Len(lines) /\ Len(lines) \in Nat
      /\ \A i \in DOMAIN lines : lines[i] \in Line
  <2> HIDE DEF Line
  <2> QED
    OBVIOUS
<1>2. IsFiniteSet(DOMAIN lines)
  BY <1>1, FS_Interval
<1>3. \A l \in Line : l.account \in Gl /\ Signed(l) \in Int
  BY DEF Line, Signed
<1> QED
  BY <1>1, <1>2, <1>3 DEF SignedOf

LEMMA NetIs ==
    ASSUME NEW lines \in Seq(Line)
    PROVE  /\ Net(lines) = SumFunctionOnSet(SignedOf(lines), DOMAIN lines)
           /\ Net(lines) \in Int
<1>1. DOMAIN SignedOf(lines) = DOMAIN lines /\ Net(lines) = SumFunction(SignedOf(lines))
  BY DEF Net, SignedOf
<1> QED
  BY <1>1, LineFacts, SumFunctionIsOnDomain, SumType

LEMMA NetOfIs ==
    ASSUME NEW lines \in Seq(Line), NEW g
    PROVE  /\ IsFiniteSet(Mine(lines, g))
           /\ NetOf(lines, g) = SumFunctionOnSet(SignedOf(lines), Mine(lines, g))
           /\ NetOf(lines, g) \in Int
<1> DEFINE f == [i \in Mine(lines, g) |-> Signed(lines[i])]
<1>1. NetOf(lines, g) = SumFunction(f) /\ DOMAIN f = Mine(lines, g)
  BY DEF NetOf, Mine
<1>2. Mine(lines, g) \subseteq DOMAIN lines
  BY DEF Mine
<1>3. \A i \in Mine(lines, g) : f[i] = SignedOf(lines)[i] /\ SignedOf(lines)[i] \in Int
  BY <1>2, LineFacts DEF SignedOf
<1>4. IsFiniteSet(Mine(lines, g))
  BY <1>2, LineFacts, FS_Subset
<1> HIDE DEF f
<1> QED
  BY <1>1, <1>3, <1>4, SumFunctionIsOnDomain, SumSame, SumType

LEMMA GlFinite == IsFiniteSet(Gl)
<1>1. IsFiniteSet(Bank)
  <2>1. IsFiniteSet({}) /\ \A S, x : IsFiniteSet(S) => IsFiniteSet(S \cup {x})
    BY FS_EmptySet, FS_AddElement
  <2>2. Bank = {} \cup {Cash} \cup {Receivable} \cup {Income} \cup {Expense}
    BY DEF Bank
  <2> QED
    BY <2>1, <2>2
<1> QED
  BY <1>1, JournalAssumption, FS_Union DEF Gl

(* The lines of an entry, account by account, are all of its lines.        *)
LEMMA NetByAccount ==
    ASSUME NEW lines \in Seq(Line)
    PROVE  SumFunctionOnSet([g \in Gl |-> NetOf(lines, g)], Gl) = Net(lines)
<1> DEFINE c == [i \in DOMAIN lines |-> lines[i].account]
           f == SignedOf(lines)
           h == [g \in Gl |-> SumFunctionOnSet(f, ClassOf(c, DOMAIN lines, g))]
<1>1. \A g : ClassOf(c, DOMAIN lines, g) = Mine(lines, g)
  BY DEF ClassOf, Mine
<1>2. [g \in Gl |-> NetOf(lines, g)] = h
  BY <1>1, NetOfIs
<1>3. /\ \A i \in DOMAIN lines : c[i] \in Gl
      /\ \A i \in DOMAIN lines : f[i] \in Int
      /\ IsFiniteSet(DOMAIN lines)
  BY LineFacts
<1> HIDE DEF c, f
<1>4. SumFunctionOnSet(h, Gl) = SumFunctionOnSet(f, DOMAIN lines)
  BY <1>3, GlFinite, SumByClass
<1> QED
  BY <1>2, <1>4, NetIs DEF f

(* Swapping the direction of the lines negates every sum.                  *)
LEMMA SwappedFacts ==
    ASSUME NEW lines \in Seq(Line)
    PROVE  /\ Swapped(lines) \in Seq(Line) /\ Len(Swapped(lines)) = Len(lines)
           /\ Net(Swapped(lines)) = -Net(lines)
           /\ \A g : NetOf(Swapped(lines), g) = -NetOf(lines, g)
<1> DEFINE s == Swapped(lines)
<1>1. /\ DOMAIN s = DOMAIN lines
      /\ \A i \in DOMAIN lines :
            /\ s[i] \in Line /\ s[i].account = lines[i].account
            /\ Signed(s[i]) = -Signed(lines[i])
  <2>1. DOMAIN s = DOMAIN lines
    BY DEF Swapped
  <2>2. ASSUME NEW i \in DOMAIN lines
        PROVE  /\ s[i] \in Line /\ s[i].account = lines[i].account
               /\ Signed(s[i]) = -Signed(lines[i])
    <3>1. lines[i] \in Line
      BY LineFacts
    <3>2. s[i] = IF lines[i].direction = "credit"
                 THEN Debit(lines[i].account, lines[i].amount)
                 ELSE Credit(lines[i].account, lines[i].amount)
      BY DEF Swapped
    <3> QED
      BY <3>1, <3>2 DEF Line, Debit, Credit, Signed
  <2> QED
    BY <2>1, <2>2
<1>2. s \in Seq(Line) /\ Len(s) = Len(lines)
  <2>1. s = [i \in 1..Len(lines) |-> s[i]]
    BY LineFacts DEF Swapped
  <2>2. DOMAIN lines = 1..Len(lines) /\ Len(lines) \in Nat
    BY LineFacts
  <2>3. \A i \in 1..Len(lines) : s[i] \in Line
    BY <1>1, <2>2
  <2> HIDE DEF Line, s
  <2> QED
    BY <2>1, <2>2, <2>3
<1> HIDE DEF s
<1>3. \A i \in DOMAIN lines : /\ SignedOf(lines)[i] \in Int
                              /\ SignedOf(s)[i] = -SignedOf(lines)[i]
  BY <1>1, LineFacts DEF SignedOf
<1>4. Net(s) = -Net(lines)
  <2>1. SumFunctionOnSet(SignedOf(s), DOMAIN lines) =
            -SumFunctionOnSet(SignedOf(lines), DOMAIN lines)
    BY <1>3, LineFacts, SumNegated
  <2> QED
    BY <1>1, <1>2, <2>1, NetIs
<1>5. ASSUME NEW g PROVE NetOf(s, g) = -NetOf(lines, g)
  <2>1. Mine(s, g) = Mine(lines, g) /\ Mine(lines, g) \subseteq DOMAIN lines
    BY <1>1 DEF Mine
  <2>2. SumFunctionOnSet(SignedOf(s), Mine(lines, g)) =
            -SumFunctionOnSet(SignedOf(lines), Mine(lines, g))
    BY <1>3, <2>1, NetOfIs, SumNegated
  <2> QED
    BY <1>2, <2>1, <2>2, NetOfIs
<1> QED
  BY <1>2, <1>4, <1>5 DEF s

-----------------------------------------------------------------------------
(* Types                                                                   *)

EntryType == [lines : Seq(Line), date : Nat, stamp : Nat, reverses : Nat]

JobType(x) ==
    /\ x.step \in {"idle", "post", "reverse"}
    /\ x.step = "idle" => x = NoJob
    /\ x.step = "post" => x.entry \in EntryType /\ x.scenario \in BOOLEAN
    /\ x.step = "reverse" => x.original \in Nat

TypeOK ==
    /\ journal \in Seq(EntryType)
    /\ today \in Nat /\ clock \in Nat
    /\ job = [p \in Poster |-> job[p]]
    /\ reader = [r \in Reader |-> reader[r]]
    /\ \A p \in Poster : JobType(job[p])

LEMMA EntryFacts ==
    ASSUME TypeOK
    PROVE  /\ DOMAIN journal = 1..Len(journal) /\ Len(journal) \in Nat
           /\ IsFiniteSet(DOMAIN journal)
           /\ \A i \in DOMAIN journal :
                 /\ journal[i] \in EntryType
                 /\ journal[i].lines \in Seq(Line) /\ journal[i].date \in Nat
                 /\ journal[i].stamp \in Nat /\ journal[i].reverses \in Nat
<1>1. /\ DOMAIN journal = 1..Len(journal) /\ Len(journal) \in Nat
      /\ \A i \in DOMAIN journal : journal[i] \in EntryType
  <2>1. journal \in Seq(EntryType)
    BY DEF TypeOK
  <2> HIDE DEF EntryType
  <2> QED
    BY <2>1
<1>2. IsFiniteSet(DOMAIN journal)
  BY <1>1, FS_Interval
<1>3. \A e \in EntryType : /\ e.lines \in Seq(Line) /\ e.date \in Nat
                           /\ e.stamp \in Nat /\ e.reverses \in Nat
  <2> DEFINE S == Seq(Line)
  <2> HIDE DEF S
  <2>1. \A e \in [lines : S, date : Nat, stamp : Nat, reverses : Nat] :
            e.lines \in S /\ e.date \in Nat /\ e.stamp \in Nat /\ e.reverses \in Nat
    OBVIOUS
  <2> QED
    BY <2>1 DEF EntryType, S
<1> QED
  BY <1>1, <1>2, <1>3

LEMMA NextStampsAreNat == NextStamps \subseteq Nat
BY DEF NextStamps

-----------------------------------------------------------------------------
(* The invariant                                                           *)

(* The entry that poster p is going to reverse, or is reversing.           *)
Target(p) ==
    IF job[p].step = "reverse" THEN job[p].original
    ELSE IF job[p].step = "post" THEN job[p].entry.reverses
    ELSE 0

JobGood(p) ==
    /\ Target(p) \in 0..Len(journal)
    /\ job[p].step = "reverse" => Target(p) # 0
    /\ job[p].step = "post" =>
          /\ Target(p) # 0 => job[p].entry.lines = Swapped(journal[Target(p)].lines)
          /\ job[p].scenario => Target(p) = 0
    /\ Target(p) # 0 =>
          /\ \A q \in Poster : Target(q) = Target(p) => q = p
          /\ \A k \in DOMAIN journal : journal[k].reverses # Target(p)

JobsGood == \A p \in Poster : JobGood(p)

EntryGood(j) ==
    /\ Valid(journal[j].lines)
    /\ journal[j].reverses # 0 =>
          /\ journal[j].reverses \in 1..(j - 1)
          /\ journal[j].lines = Swapped(journal[journal[j].reverses].lines)
          /\ \A k \in DOMAIN journal : journal[k].reverses = journal[j].reverses => k = j

EntriesGood == \A j \in DOMAIN journal : EntryGood(j)

GlobalZero == SumFunction([g \in Gl |-> LedgerBalance(g)]) = 0

(* What a handler sets out to post.                                        *)
Asked(p, e) ==
    /\ e \in EntryType /\ e.reverses = 0
    /\ e.date \in {today, clock}
    /\ \E b \in BOOLEAN :
          job' = [job EXCEPT ![p] = [step |-> "post", scenario |-> b,
                                     began |-> Len(journal), entry |-> e]]

LEMMA EntryIs ==
    ASSUME NEW lines \in Seq(Line), NEW d \in Nat, NEW n \in NextStamps, NEW i \in Nat
    PROVE  Entry(lines, d, n, i) \in EntryType
<1>1. n \in Nat
  BY NextStampsAreNat
<1> DEFINE S == Seq(Line)
<1> HIDE DEF S
<1>2. \A l \in S : [lines |-> l, date |-> d, stamp |-> n, reverses |-> i]
          \in [lines : S, date : Nat, stamp : Nat, reverses : Nat]
  BY <1>1
<1> QED
  BY <1>2 DEF Entry, EntryType, S

LEMMA BeginAsks ==
    ASSUME TypeOK, NEW p \in Poster, NEW q \in Request,
           Begin(p, q) \/ BeginScenario(p, q)
    PROVE  /\ UNCHANGED <<journal, today, clock, reader>>
           /\ job[p] = NoJob
           /\ \E e \in EntryType : Asked(p, e)
<1>1. UNCHANGED <<journal, today, clock, reader>> /\ job[p] = NoJob
  BY DEF Begin, BeginScenario
<1> DEFINE e(d, n) == Entry(LinesFor(q), d, n, 0)
<1>2. ASSUME NEW d \in {today, clock}, NEW n \in NextStamps
      PROVE  e(d, n) \in EntryType /\ e(d, n).reverses = 0 /\ e(d, n).date = d
  <2>1. d \in Nat /\ LinesFor(q) \in Seq(Line)
    BY RequestAssumption DEF TypeOK
  <2>2. e(d, n) \in EntryType
    BY <2>1, EntryIs
  <2> QED
    BY <2>2 DEF Entry
<1>3. \E d \in {today, clock}, n \in NextStamps, b \in BOOLEAN :
          job' = [job EXCEPT ![p] = [step |-> "post", scenario |-> b,
                                     began |-> Len(journal), entry |-> e(d, n)]]
  BY DEF Begin, BeginScenario, DateOf
<1>4. PICK d \in {today, clock}, n \in NextStamps : \E b \in BOOLEAN :
          job' = [job EXCEPT ![p] = [step |-> "post", scenario |-> b,
                                     began |-> Len(journal), entry |-> e(d, n)]]
  BY <1>3
<1>5. Asked(p, e(d, n))
  BY <1>2, <1>4 DEF Asked
<1> QED
  BY <1>1, <1>2, <1>5

CoreInv == TypeOK /\ JobsGood /\ EntriesGood /\ GlobalZero

(* Steps that book nothing.                                                *)

LEMMA JournalStays ==
    ASSUME CoreInv, UNCHANGED journal PROVE EntriesGood' /\ GlobalZero'
BY DEF CoreInv, EntriesGood, EntryGood, GlobalZero, LedgerBalance, SumOver

LEMMA JobsStay ==
    ASSUME CoreInv, UNCHANGED <<journal, job>>, today' \in Nat, clock' \in Nat,
           reader' = [r \in Reader |-> reader'[r]]
    PROVE  CoreInv'
<1>1. TypeOK'
  BY DEF CoreInv, TypeOK
<1>2. \A p \in Poster : JobGood(p)'
  BY DEF CoreInv, JobsGood, JobGood, Target
<1> QED
  BY <1>1, <1>2, JournalStays DEF CoreInv, JobsGood

(* A job becomes x, and the others go on.                                  *)
LEMMA JobBecomes ==
    ASSUME CoreInv, UNCHANGED <<journal, today, clock, reader>>,
           NEW p \in Poster, NEW x, job' = [job EXCEPT ![p] = x], JobType(x),
           JobGood(p)',
           \A q \in Poster \ {p} : Target(p)' # 0 => Target(q) # Target(p)'
    PROVE  CoreInv'
<1> USE DEF CoreInv
<1>1. job'[p] = x /\ \A q \in Poster \ {p} : job'[q] = job[q]
  BY DEF TypeOK
<1>2. TypeOK'
  <2>1. job' = [q \in Poster |-> job'[q]]
    BY DEF TypeOK
  <2>2. \A q \in Poster : JobType(job'[q])
    BY <1>1 DEF TypeOK
  <2> QED
    BY <2>1, <2>2 DEF TypeOK
<1>3. ASSUME NEW q \in Poster \ {p} PROVE JobGood(q)'
  <2>1. Target(q)' = Target(q) /\ job'[q] = job[q] /\ JobGood(q)
    BY <1>1 DEF Target, JobsGood
  <2>2. Target(q) # 0 => \A r \in Poster : Target(r)' = Target(q) => r = q
    <3> SUFFICES ASSUME Target(q) # 0, NEW r \in Poster, Target(r)' = Target(q)
                 PROVE  r = q
      OBVIOUS
    <3>1. CASE r = p
      BY <3>1
    <3>2. CASE r # p
      <4>1. Target(r)' = Target(r)
        BY <1>1, <3>2 DEF Target
      <4> QED
        BY <2>1, <4>1 DEF JobGood
    <3> QED
      BY <3>1, <3>2
  <2> QED
    BY <2>1, <2>2 DEF JobGood
<1> QED
  BY <1>2, <1>3, JournalStays DEF JobsGood

LEMMA AskedKeeps ==
    ASSUME CoreInv, UNCHANGED <<journal, today, clock, reader>>,
           NEW p \in Poster, NEW e \in EntryType, Asked(p, e)
    PROVE  CoreInv'
<1>1. PICK b \in BOOLEAN :
          job' = [job EXCEPT ![p] = [step |-> "post", scenario |-> b,
                                     began |-> Len(journal), entry |-> e]]
  BY DEF Asked
<1> DEFINE x == [step |-> "post", scenario |-> b, began |-> Len(journal),
                 entry |-> e]
<1>2. x.step = "post" /\ x.entry = e /\ x.scenario = b /\ e.reverses = 0
  BY DEF Asked
<1> HIDE DEF x
<1>3. JobType(x)
  BY <1>2 DEF JobType
<1>4. job' = [job EXCEPT ![p] = x] /\ job'[p] = x
  BY <1>1 DEF x, CoreInv, TypeOK
<1>5. Target(p)' = 0
  BY <1>2, <1>4 DEF Target
<1>6. JobGood(p)'
  BY <1>2, <1>4, <1>5, EntryFacts DEF JobGood, CoreInv
<1> QED
  BY <1>3, <1>4, <1>5, <1>6, JobBecomes

LEMMA ReversalKeeps ==
    ASSUME CoreInv, NEW p \in Poster, BeginReversal(p) PROVE CoreInv'
<1> USE DEF CoreInv
<1>0. PICK n \in NextStamps :
          LET i == job[p].original
          IN  job' = [job EXCEPT ![p] =
                         [step |-> "post", scenario |-> FALSE, began |-> Len(journal),
                          entry |-> Entry(Swapped(journal[i].lines), DateOfReversal(i), n, i)]]
  BY DEF BeginReversal
<1> DEFINE i == Target(p)
           e == Entry(Swapped(journal[i].lines), today, n, i)
           x == [step |-> "post", scenario |-> FALSE, began |-> Len(journal),
                 entry |-> e]
<1>1. /\ job[p].step = "reverse"
      /\ i = job[p].original /\ i \in DOMAIN journal /\ i \in Nat \ {0}
      /\ UNCHANGED <<journal, today, clock, reader>>
  <2>1. job[p].step = "reverse" /\ i = job[p].original
    BY DEF BeginReversal, Target
  <2>2. i \in 0..Len(journal) /\ i # 0
    BY <2>1 DEF JobsGood, JobGood
  <2> QED
    BY <2>1, <2>2, EntryFacts DEF BeginReversal
<1>2. job' = [job EXCEPT ![p] = x] /\ job'[p] = x
  BY <1>0, <1>1 DEF DateOfReversal, TypeOK
<1>3. /\ e \in EntryType /\ e.lines = Swapped(journal[i].lines)
      /\ e.reverses = i
  <2>1. Swapped(journal[i].lines) \in Seq(Line) /\ today \in Nat
    BY <1>1, EntryFacts, SwappedFacts DEF TypeOK
  <2>2. e \in EntryType
    BY <1>1, <2>1, EntryIs
  <2> QED
    BY <2>2 DEF Entry
<1>4. x.step = "post" /\ x.entry = e /\ x.scenario = FALSE
  OBVIOUS
<1> HIDE DEF e, x
<1>5. Target(p)' = Target(p) /\ Target(p) # 0
  BY <1>1, <1>2, <1>3, <1>4 DEF Target
<1>6. JobType(x)
  BY <1>3, <1>4 DEF JobType
<1>7. \A q \in Poster : Target(q) = Target(p) => q = p
  BY <1>5 DEF JobsGood, JobGood
<1>8. JobGood(p)'
  <2>1. /\ Target(p) \in 0..Len(journal)
        /\ \A k \in DOMAIN journal : journal[k].reverses # Target(p)
    BY <1>5 DEF JobsGood, JobGood
  <2>2. \A q \in Poster : Target(q)' = Target(p) => q = p
    <3>1. \A q \in Poster \ {p} : Target(q)' = Target(q)
      BY <1>2 DEF Target, TypeOK
    <3> QED
      BY <1>7, <3>1
  <2> QED
    BY <1>1, <1>2, <1>3, <1>4, <1>5, <2>1, <2>2 DEF JobGood
<1> QED
  BY <1>1, <1>2, <1>4, <1>5, <1>6, <1>7, <1>8, JobBecomes

LEMMA NoJobIs == JobType(NoJob) /\ NoJob.step = "idle"
BY DEF JobType, NoJob

LEMMA AbandonKeeps ==
    ASSUME CoreInv, NEW p \in Poster, Abandon(p) PROVE CoreInv'
<1>1. job' = [job EXCEPT ![p] = NoJob] /\ UNCHANGED <<journal, today, clock, reader>>
  BY DEF Abandon
<1>2. job'[p] = NoJob
  BY <1>1 DEF CoreInv, TypeOK
<1>3. Target(p)' = 0
  BY <1>2, NoJobIs DEF Target
<1>4. JobGood(p)'
  BY <1>1, <1>2, <1>3, NoJobIs, EntryFacts DEF JobGood, CoreInv
<1> QED
  BY <1>1, <1>3, <1>4, NoJobIs, JobBecomes

LEMMA RestartKeeps ==
    ASSUME CoreInv, Restart PROVE CoreInv'
<1>1. UNCHANGED <<journal, today>> /\ clock' = today
  BY DEF Restart
<1>2. job' = [p \in Poster |-> NoJob]
  BY DEF Restart
<1>3. \A p \in Poster : job'[p] = NoJob
  BY <1>2
<1>4. TypeOK'
  <2>1. job' = [p \in Poster |-> job'[p]]
    BY <1>2
  <2>2. reader' = [r \in Reader |-> reader'[r]]
    BY DEF Restart
  <2> QED
    BY <1>1, <1>3, <2>1, <2>2, NoJobIs DEF TypeOK, CoreInv
<1>5. \A p \in Poster : Target(p)' = 0
  BY <1>3, NoJobIs DEF Target
<1>6. JobsGood'
  BY <1>1, <1>3, <1>5, NoJobIs, EntryFacts DEF JobsGood, JobGood, CoreInv
<1> QED
  BY <1>1, <1>4, <1>6, JournalStays DEF CoreInv

-----------------------------------------------------------------------------
(* The step that books an entry                                            *)

(* SumOver, of any sequence of entries.                                    *)
SumIn(s, E, g) == SumFunction([i \in E |-> NetOf(s[i].lines, g)])
NetsIn(s, g) == [i \in DOMAIN s |-> NetOf(s[i].lines, g)]

LEMMA SeqFacts ==
    ASSUME NEW s \in Seq(EntryType)
    PROVE  /\ DOMAIN s = 1..Len(s) /\ Len(s) \in Nat /\ IsFiniteSet(DOMAIN s)
           /\ \A i \in DOMAIN s : s[i].lines \in Seq(Line)
<1>1. DOMAIN s = 1..Len(s) /\ Len(s) \in Nat /\ \A i \in DOMAIN s : s[i] \in EntryType
  <2> HIDE DEF EntryType
  <2> QED
    OBVIOUS
<1>2. \A e \in EntryType : e.lines \in Seq(Line)
  <2> DEFINE S == Seq(Line)
  <2> HIDE DEF S
  <2>1. \A e \in [lines : S, date : Nat, stamp : Nat, reverses : Nat] : e.lines \in S
    OBVIOUS
  <2> QED
    BY <2>1 DEF EntryType, S
<1> QED
  BY <1>1, <1>2, FS_Interval

LEMMA SumInIs ==
    ASSUME NEW s \in Seq(EntryType), NEW E, E \subseteq DOMAIN s, NEW g
    PROVE  /\ IsFiniteSet(E)
           /\ \A i \in E : NetsIn(s, g)[i] \in Int
           /\ SumIn(s, E, g) = SumFunctionOnSet(NetsIn(s, g), E)
           /\ SumIn(s, E, g) \in Int
<1> DEFINE f == [i \in E |-> NetOf(s[i].lines, g)]
<1>1. SumIn(s, E, g) = SumFunction(f) /\ DOMAIN f = E
  BY DEF SumIn
<1>2. \A i \in E : f[i] = NetsIn(s, g)[i] /\ NetsIn(s, g)[i] \in Int
  BY SeqFacts, NetOfIs DEF NetsIn
<1>3. IsFiniteSet(E)
  BY SeqFacts, FS_Subset
<1> HIDE DEF f
<1> QED
  BY <1>1, <1>2, <1>3, SumFunctionIsOnDomain, SumSame, SumType

(* t is s with e appended: sums over entries of s stay, and a sum with the  *)
(* new entry gains the net of its lines.                                   *)
AppendSums(s, e, t, g, E) ==
    /\ DOMAIN t = DOMAIN s \cup {Len(s) + 1} /\ Len(s) + 1 \notin DOMAIN s
    /\ SumIn(s, E, g) \in Int /\ NetOf(e.lines, g) \in Int
    /\ SumIn(t, E, g) = SumIn(s, E, g)
    /\ SumIn(t, E \cup {Len(s) + 1}, g) = SumIn(s, E, g) + NetOf(e.lines, g)

LEMMA SumAppended ==
    ASSUME NEW s \in Seq(EntryType), NEW e \in EntryType,
           NEW t, t = Append(s, e), NEW g, NEW E, E \subseteq DOMAIN s
    PROVE  AppendSums(s, e, t, g, E)
<1> DEFINE n == Len(s) + 1
<1>1. /\ t \in Seq(EntryType) /\ Len(t) = n /\ t[n] = e
      /\ \A i \in 1..Len(s) : t[i] = s[i]
      /\ DOMAIN t = 1..n /\ Len(s) \in Nat /\ DOMAIN s = 1..Len(s)
  <2> HIDE DEF EntryType
  <2> QED
    OBVIOUS
<1>2. DOMAIN t = DOMAIN s \cup {n} /\ n \notin DOMAIN s
  BY <1>1
<1>3. SumIn(t, E, g) = SumIn(s, E, g)
  <2>1. [i \in E |-> NetOf(t[i].lines, g)] = [i \in E |-> NetOf(s[i].lines, g)]
    BY <1>1
  <2> QED
    BY <2>1 DEF SumIn
<1> DEFINE f == NetsIn(t, g)
           F == E \cup {n}
<1>4. F \subseteq DOMAIN t /\ n \notin E /\ E \subseteq DOMAIN t
  BY <1>2
<1>5. f[n] = NetOf(e.lines, g)
  BY <1>1, <1>2 DEF NetsIn
<1> HIDE DEF n, f
<1>6. /\ IsFiniteSet(E) /\ \A i \in F : f[i] \in Int
      /\ SumIn(t, F, g) = SumFunctionOnSet(f, F)
      /\ SumIn(t, E, g) = SumFunctionOnSet(f, E) /\ SumIn(t, E, g) \in Int
  BY <1>1, <1>4, SumInIs DEF f
<1>7. SumFunctionOnSet(f, F) = f[n] + SumFunctionOnSet(f, E)
  BY <1>4, <1>6, SumAdd
<1>8. SumIn(t, F, g) = SumIn(s, E, g) + NetOf(e.lines, g)
  <2>1. f[n] \in Int
    BY <1>6
  <2> HIDE DEF F
  <2> QED
    BY <1>3, <1>5, <1>6, <1>7, <2>1
<1>9. SumIn(s, E, g) \in Int /\ NetOf(e.lines, g) \in Int
  BY <1>3, <1>5, <1>6 DEF F
<1> QED
  BY <1>1, <1>2, <1>3, <1>8, <1>9 DEF n, AppendSums

(* What Commit does: e becomes entry n.                                    *)
Committed(p, e, n) ==
    /\ job[p].step = "post" /\ e \in EntryType
    /\ UNCHANGED <<today, clock, reader>>
    /\ journal' = Append(journal, e)
    /\ journal' \in Seq(EntryType) /\ Len(journal') = n
    /\ DOMAIN journal' = DOMAIN journal \cup {n} /\ n \notin DOMAIN journal
    /\ n \in Nat \ {0} /\ \A i \in DOMAIN journal : i < n
    /\ journal'[n] = e /\ \A i \in DOMAIN journal : journal'[i] = journal[i]
    /\ e.lines \in Seq(Line) /\ Valid(e.lines)
    /\ Target(p) = e.reverses
    /\ job' = [job EXCEPT ![p] =
                  IF job[p].scenario THEN [step |-> "reverse", original |-> n]
                  ELSE NoJob]

LEMMA CommitFacts ==
    ASSUME CoreInv, NEW p \in Poster, Commit(p)
    PROVE  \E e, n : /\ e = job[p].entry /\ n = Len(journal) + 1
                    /\ Committed(p, e, n)
<1>0. PICK e, n : e = job[p].entry /\ n = Len(journal) + 1
  OBVIOUS
<1> USE DEF CoreInv
<1>1. /\ job[p].step = "post" /\ e \in EntryType /\ UNCHANGED <<today, clock, reader>>
      /\ journal' = Append(journal, e) /\ Target(p) = e.reverses
  BY <1>0 DEF Commit, Posting, TypeOK, JobType, Target
<1>2. journal \in Seq(EntryType)
  BY DEF TypeOK
<1>3. /\ journal' \in Seq(EntryType) /\ Len(journal') = n
      /\ DOMAIN journal' = DOMAIN journal \cup {n} /\ n \notin DOMAIN journal
      /\ journal'[n] = e /\ \A i \in DOMAIN journal : journal'[i] = journal[i]
  <2> HIDE DEF EntryType
  <2> QED
    BY <1>0, <1>1, <1>2
<1>4. n \in Nat \ {0} /\ \A i \in DOMAIN journal : i < n
  BY <1>0, EntryFacts
<1>5. e.lines \in Seq(Line)
  <2>1. e = journal'[n] /\ n \in DOMAIN journal'
    BY <1>3
  <2> QED
    BY <1>3, <2>1, SeqFacts
<1>6. Valid(e.lines)
  <2>1. CASE e.reverses = 0
    BY <1>0, <1>1, <2>1 DEF Commit
  <2>2. CASE e.reverses # 0
    <3>1. /\ Target(p) \in DOMAIN journal
          /\ e.lines = Swapped(journal[Target(p)].lines)
      BY <1>0, <1>1, <2>2, EntryFacts DEF JobsGood, JobGood
    <3>2. /\ journal[Target(p)].lines \in Seq(Line) /\ Valid(journal[Target(p)].lines)
      BY <3>1, EntryFacts DEF EntriesGood, EntryGood
    <3> QED
      BY <3>1, <3>2, SwappedFacts DEF Valid
  <2> QED
    BY <2>1, <2>2
<1>7. job' = [job EXCEPT ![p] =
                 IF job[p].scenario THEN [step |-> "reverse", original |-> n]
                 ELSE NoJob]
  BY <1>3 DEF Commit
<1> QED
  BY <1>0, <1>1, <1>3, <1>4, <1>5, <1>6, <1>7 DEF Committed

LEMMA CommitKeepsEntries ==
    ASSUME CoreInv, NEW p \in Poster, Commit(p) PROVE EntriesGood'
<1> USE DEF CoreInv
<1>0. PICK e, n : /\ e = job[p].entry /\ n = Len(journal) + 1
                  /\ Committed(p, e, n)
  BY CommitFacts
<1>1. /\ DOMAIN journal' = DOMAIN journal \cup {n} /\ n \in Nat \ {0}
      /\ \A i \in DOMAIN journal : i < n
      /\ journal'[n] = e /\ \A i \in DOMAIN journal : journal'[i] = journal[i]
      /\ Valid(e.lines) /\ Target(p) = e.reverses /\ job[p].step = "post"
  BY <1>0 DEF Committed
<1>2. \A k \in DOMAIN journal : Target(p) # 0 => journal[k].reverses # Target(p)
  BY DEF JobsGood, JobGood
<1>3. DOMAIN journal = 1..Len(journal) /\ n = Len(journal) + 1 /\ Len(journal) \in Nat
  BY <1>0, EntryFacts
<1>4. ASSUME NEW j \in DOMAIN journal PROVE EntryGood(j)'
  <2>1. EntryGood(j) /\ journal'[j] = journal[j]
    BY <1>1 DEF EntriesGood
  <2>2. ASSUME journal[j].reverses # 0
        PROVE  /\ journal[j].reverses \in 1..(j - 1)
               /\ journal[j].reverses \in DOMAIN journal
               /\ \A k \in DOMAIN journal' :
                     journal'[k].reverses = journal[j].reverses => k = j
    <3>1. /\ journal[j].reverses \in 1..(j - 1)
          /\ \A k \in DOMAIN journal : journal[k].reverses = journal[j].reverses => k = j
      BY <2>1, <2>2 DEF EntryGood
    <3>2. e.reverses # journal[j].reverses
      BY <1>1, <1>2, <2>2
    <3> QED
      BY <1>1, <1>3, <3>1, <3>2
  <2> QED
    BY <1>1, <2>1, <2>2 DEF EntryGood
<1>5. EntryGood(n)'
  <2>1. ASSUME Target(p) # 0
        PROVE  /\ Target(p) \in 1..(n - 1) /\ Target(p) \in DOMAIN journal
               /\ e.lines = Swapped(journal[Target(p)].lines)
    BY <1>0, <1>1, <1>3, <2>1 DEF JobsGood, JobGood
  <2> QED
    BY <1>1, <1>2, <2>1 DEF EntryGood
<1> QED
  BY <1>1, <1>4, <1>5 DEF EntriesGood

LEMMA CommitKeepsJobs ==
    ASSUME CoreInv, NEW p \in Poster, Commit(p)
    PROVE  TypeOK' /\ JobsGood'
<1> USE DEF CoreInv
<1>0. PICK e, n : /\ e = job[p].entry /\ n = Len(journal) + 1
                  /\ Committed(p, e, n)
  BY CommitFacts
<1> DEFINE x == IF job[p].scenario THEN [step |-> "reverse", original |-> n] ELSE NoJob
<1>1. /\ job[p].step = "post" /\ UNCHANGED <<today, clock, reader>>
      /\ journal' \in Seq(EntryType) /\ Len(journal') = n
      /\ DOMAIN journal' = DOMAIN journal \cup {n} /\ n \notin DOMAIN journal
      /\ n \in Nat \ {0} /\ \A i \in DOMAIN journal : i < n
      /\ journal'[n] = e /\ \A i \in DOMAIN journal : journal'[i] = journal[i]
      /\ Target(p) = e.reverses
      /\ job' = [job EXCEPT ![p] = x]
  BY <1>0 DEF Committed
<1>2. DOMAIN journal = 1..Len(journal) /\ n = Len(journal) + 1 /\ Len(journal) \in Nat
  BY <1>0, EntryFacts
<1>3. /\ JobType(x) /\ x.step # "post"
      /\ x.step = "reverse" => x.original = n /\ Target(p) = 0
  <2>1. CASE job[p].scenario
    BY <1>1, <2>1 DEF JobType, JobsGood, JobGood
  <2>2. CASE ~job[p].scenario
    BY <2>2, NoJobIs
  <2> QED
    BY <2>1, <2>2
<1> HIDE DEF x
<1>4. job'[p] = x /\ \A q \in Poster \ {p} : job'[q] = job[q] /\ Target(q)' = Target(q)
  BY <1>1 DEF TypeOK, Target
<1>5. TypeOK'
  <2>1. job' = [q \in Poster |-> job'[q]]
    BY <1>1 DEF TypeOK
  <2>2. \A q \in Poster : JobType(job'[q])
    BY <1>3, <1>4 DEF TypeOK
  <2> QED
    BY <1>1, <2>1, <2>2 DEF TypeOK
<1>6. Target(p)' = IF x.step = "reverse" THEN n ELSE 0
  BY <1>3, <1>4 DEF Target
<1>7. ASSUME NEW q \in Poster \ {p} PROVE JobGood(q)'
  <2>1. JobGood(q) /\ job'[q] = job[q] /\ Target(q)' = Target(q)
    BY <1>4 DEF JobsGood
  <2>2. Target(q) # 0 => Target(q) \in DOMAIN journal
    BY <1>2, <2>1 DEF JobGood
  <2>3. ASSUME Target(q) # 0
        PROVE  /\ \A r \in Poster : Target(r)' = Target(q) => r = q
               /\ \A k \in DOMAIN journal' : journal'[k].reverses # Target(q)
    <3>1. Target(p) # Target(q) /\ Target(p)' # Target(q)
      BY <1>1, <1>6, <2>1, <2>2, <2>3 DEF JobGood
    <3> QED
      BY <1>1, <1>4, <2>1, <2>3, <3>1 DEF JobGood
  <2>4. Target(q) \in 0..Len(journal')
    BY <1>1, <1>2, <2>1 DEF JobGood
  <2> QED
    BY <1>1, <2>1, <2>2, <2>3, <2>4 DEF JobGood
<1>8. JobGood(p)'
  <2>1. ASSUME x.step = "reverse"
        PROVE  /\ \A q \in Poster : Target(q)' = n => q = p
               /\ \A k \in DOMAIN journal' : journal'[k].reverses # n
    <3>1. \A q \in Poster \ {p} : Target(q) # n
      BY <1>2 DEF JobsGood, JobGood
    <3>2. \A k \in DOMAIN journal : journal[k].reverses # n
      <4> SUFFICES ASSUME NEW k \in DOMAIN journal, journal[k].reverses = n PROVE FALSE
        OBVIOUS
      <4>1. journal[k].reverses \in 1..(k - 1)
        BY <1>1 DEF EntriesGood, EntryGood
      <4> QED
        BY <1>2, <4>1
    <3> QED
      BY <1>1, <1>3, <1>4, <2>1, <3>1, <3>2
  <2>2. Target(p)' \in 0..Len(journal')
    BY <1>1, <1>6
  <2> QED
    BY <1>1, <1>3, <1>4, <1>6, <2>1, <2>2 DEF JobGood
<1> QED
  BY <1>5, <1>7, <1>8 DEF JobsGood

LEMMA SumOverIs ==
    /\ \A E, g : SumOver(E, g) = SumIn(journal, E, g)
    /\ \A g : LedgerBalance(g) = SumIn(journal, DOMAIN journal, g)
BY DEF SumOver, SumIn, LedgerBalance

(* An entry is added to the balances of the accounts it has lines of.      *)
LEMMA CommitBooks ==
    ASSUME CoreInv, NEW p \in Poster, NEW e, NEW n, Committed(p, e, n), NEW g
    PROVE  /\ LedgerBalance(g) \in Int /\ NetOf(e.lines, g) \in Int
           /\ LedgerBalance(g)' = LedgerBalance(g) + NetOf(e.lines, g)
<1>1. PICK s : s = journal
  OBVIOUS
<1>2. PICK t : t = journal'
  OBVIOUS
<1>3. /\ s \in Seq(EntryType) /\ e \in EntryType /\ t = Append(s, e)
      /\ e.lines \in Seq(Line)
  BY <1>1, <1>2 DEF CoreInv, TypeOK, Committed
<1>4. AppendSums(s, e, t, g, DOMAIN s)
  BY <1>3, SumAppended
<1>6. LedgerBalance(g) = SumIn(s, DOMAIN s, g)
  BY <1>1 DEF SumIn, LedgerBalance, SumOver
<1>7. LedgerBalance(g)' = SumIn(t, DOMAIN t, g)
  BY <1>2 DEF SumIn, LedgerBalance, SumOver
<1> QED
  BY <1>4, <1>6, <1>7 DEF AppendSums

LEMMA CommitKeepsBalance ==
    ASSUME CoreInv, NEW p \in Poster, Commit(p) PROVE GlobalZero'
<1>1. PICK e, n : /\ e = job[p].entry /\ n = Len(journal) + 1
                  /\ Committed(p, e, n)
  BY CommitFacts
<1>2. PICK f : f = [g \in Gl |-> LedgerBalance(g)]
  OBVIOUS
<1>3. PICK h : h = [g \in Gl |-> LedgerBalance(g)']
  OBVIOUS
<1>4. PICK d : d = [g \in Gl |-> NetOf(e.lines, g)]
  OBVIOUS
<1>5. \A g \in Gl : f[g] \in Int /\ d[g] \in Int /\ h[g] = f[g] + d[g]
  BY <1>1, <1>2, <1>3, <1>4, CommitBooks
<1>6. SumFunctionOnSet(h, Gl) = SumFunctionOnSet(f, Gl) + SumFunctionOnSet(d, Gl)
  BY <1>5, GlFinite, SumPlus
<1>7. SumFunctionOnSet(d, Gl) = 0
  <2>1. e.lines \in Seq(Line) /\ Valid(e.lines)
    BY <1>1 DEF Committed
  <2> QED
    BY <1>4, <2>1, NetByAccount DEF Valid
<1>8. SumFunctionOnSet(f, Gl) = 0
  <2>1. DOMAIN f = Gl /\ SumFunction(f) = 0
    BY <1>2 DEF CoreInv, GlobalZero
  <2> QED
    BY <2>1, SumFunctionIsOnDomain
<1>9. SumFunction(h) = 0
  <2>1. DOMAIN h = Gl
    BY <1>3
  <2> QED
    BY <1>6, <1>7, <1>8, <2>1, SumFunctionIsOnDomain
<1> QED
  BY <1>3, <1>9 DEF GlobalZero

LEMMA CommitKeeps ==
    ASSUME CoreInv, NEW p \in Poster, Commit(p) PROVE CoreInv'
BY CommitKeepsBalance, CommitKeepsEntries, CommitKeepsJobs DEF CoreInv

-----------------------------------------------------------------------------
(* The core invariant is kept                                              *)

LEMMA CoreInit == Init => CoreInv
<1> SUFFICES ASSUME Init PROVE CoreInv
  OBVIOUS
<1>1. /\ journal = <<>> /\ DOMAIN journal = {} /\ Len(journal) = 0
      /\ today = 1 /\ clock = 1
      /\ job = [p \in Poster |-> NoJob] /\ reader = [r \in Reader |-> NoRead]
  BY DEF Init
<1>2. TypeOK
  <2>1. journal \in Seq(EntryType)
    <3> HIDE DEF EntryType
    <3> QED
      BY <1>1
  <2> QED
    BY <1>1, <2>1, NoJobIs DEF TypeOK
<1>3. \A p \in Poster : Target(p) = 0
  BY <1>1, NoJobIs DEF Target
<1>4. JobsGood
  BY <1>1, <1>3, NoJobIs DEF JobsGood, JobGood
<1>5. EntriesGood
  BY <1>1 DEF EntriesGood
<1>6. GlobalZero
  <2> DEFINE f == [g \in Gl |-> LedgerBalance(g)]
  <2>1. \A g : LedgerBalance(g) = 0
    <3> SUFFICES ASSUME NEW g PROVE LedgerBalance(g) = 0
      OBVIOUS
    <3> DEFINE k == [i \in {} |-> NetOf(journal[i].lines, g)]
    <3>1. LedgerBalance(g) = SumFunction(k) /\ DOMAIN k = {}
      BY <1>1 DEF LedgerBalance, SumOver
    <3> HIDE DEF k
    <3> QED
      BY <3>1, SumFunctionIsOnDomain, SumEmpty
  <2>2. DOMAIN f = Gl /\ \A g \in Gl : f[g] = 0
    BY <2>1
  <2> HIDE DEF f
  <2>3. SumFunction(f) = 0
    BY <2>2, GlFinite, SumFunctionIsOnDomain, SumZero
  <2> QED
    BY <2>3 DEF f, GlobalZero
<1> QED
  BY <1>2, <1>4, <1>5, <1>6 DEF CoreInv

(* What readers do changes nothing but what they have read.                *)
Reads ==
    \E r \in Reader :
        \/ \E g \in Account : \/ \E from \in 1..(MaxDay + 1) : ReadOpening(r, g, from)
                              \/ ReadHistory(r, g)
        \/ ReadLines(r)
        \/ ReadPage(r)

LEMMA ReadsFacts ==
    ASSUME CoreInv, Reads
    PROVE  /\ UNCHANGED <<journal, today, clock, job>>
           /\ reader' = [r \in Reader |-> reader'[r]]
<1>1. reader = [r \in Reader |-> reader[r]]
  BY DEF CoreInv, TypeOK
<1>2. PICK r \in Reader :
        \/ \E g \in Account : \/ \E from \in 1..(MaxDay + 1) : ReadOpening(r, g, from)
                              \/ ReadHistory(r, g)
        \/ ReadLines(r)
        \/ ReadPage(r)
  BY DEF Reads
<1>3. \E x : reader' = [reader EXCEPT ![r] = x]
  BY <1>2 DEF ReadOpening, ReadHistory, ReadLines, ReadPage
<1> QED
  BY <1>1, <1>2, <1>3 DEF ReadOpening, ReadHistory, ReadLines, ReadPage

LEMMA CoreStep == CoreInv /\ [Next]_vars => CoreInv'
<1> SUFFICES ASSUME CoreInv, [Next]_vars PROVE CoreInv'
  OBVIOUS
<1>1. ASSUME NEW p \in Poster, NEW q \in Request, Begin(p, q) \/ BeginScenario(p, q)
      PROVE  CoreInv'
  <2>1. /\ UNCHANGED <<journal, today, clock, reader>>
        /\ \E e \in EntryType : Asked(p, e)
    BY <1>1, BeginAsks DEF CoreInv
  <2> QED
    BY <2>1, AskedKeeps
<1>2. ASSUME NEW p \in Poster, BeginReversal(p) PROVE CoreInv'
  BY <1>2, ReversalKeeps
<1>3. ASSUME NEW p \in Poster, Commit(p) PROVE CoreInv'
  BY <1>3, CommitKeeps
<1>4. ASSUME NEW p \in Poster, Abandon(p) PROVE CoreInv'
  BY <1>4, AbandonKeeps
<1>5. CASE DayPasses \/ Advance
  BY <1>5, JobsStay DEF DayPasses, Advance, CoreInv, TypeOK
<1>6. CASE Restart
  BY <1>6, RestartKeeps
<1>7. CASE Reads
  BY <1>7, ReadsFacts, JobsStay DEF CoreInv, TypeOK
<1>8. CASE UNCHANGED vars
  BY <1>8, JobsStay DEF vars, CoreInv, TypeOK
<1> QED
  BY <1>1, <1>2, <1>3, <1>4, <1>5, <1>6, <1>7, <1>8 DEF Next, Reads

(* Entries balance, reversals undo one entry each and no two handlers have *)
(* the same one to undo: the invariant that the theorems below rest on.    *)
THEOREM CoreHolds == Spec => []CoreInv
BY CoreInit, CoreStep, PTL DEF Spec

(* The double-entry law: at any time every entry balances, also the        *)
(* reversals that nobody validates, and so do all GL accounts together.    *)
THEOREM BooksAlwaysBalance == Spec => []BooksBalance
<1>1. CoreInv => BooksBalance
  BY DEF CoreInv, EntriesGood, EntryGood, GlobalZero, BooksBalance
<1> QED
  BY <1>1, CoreHolds, PTL

(* A reversal undoes an earlier entry account by account, and none is      *)
(* undone twice.                                                           *)
THEOREM ReversalsAlwaysCompensate == Spec => []ReversalsCompensate
<1>1. CoreInv => ReversalsCompensate
  <2> SUFFICES ASSUME CoreInv, NEW j \in DOMAIN journal, NEW i,
                      i = journal[j].reverses, i # 0
               PROVE  /\ i < j
                      /\ \A g \in Gl : NetOf(journal[i].lines, g)
                                           + NetOf(journal[j].lines, g) = 0
                      /\ \A k \in DOMAIN journal : journal[k].reverses = i => k = j
    BY DEF ReversalsCompensate
  <2>1. /\ i \in 1..(j - 1) /\ journal[j].lines = Swapped(journal[i].lines)
        /\ \A k \in DOMAIN journal : journal[k].reverses = i => k = j
    BY DEF CoreInv, EntriesGood, EntryGood
  <2>2. i \in DOMAIN journal /\ i < j
    BY <2>1, EntryFacts DEF CoreInv
  <2>3. journal[i].lines \in Seq(Line)
    BY <2>2, EntryFacts DEF CoreInv
  <2>4. ASSUME NEW g PROVE NetOf(journal[i].lines, g) + NetOf(journal[j].lines, g) = 0
    <3>1. /\ NetOf(journal[i].lines, g) \in Int
          /\ NetOf(journal[j].lines, g) = -NetOf(journal[i].lines, g)
      BY <2>1, <2>3, NetOfIs, SwappedFacts
    <3> QED
      BY <3>1
  <2> QED
    BY <2>1, <2>2, <2>4
<1> QED
  BY <1>1, CoreHolds, PTL


-----------------------------------------------------------------------------
(* Settled days                                                            *)

(* Entries dated before d.                                                 *)
DatedBefore(s, d) == {i \in DOMAIN s : s[i].date < d}

LEMMA BalanceAsOfIs ==
    ASSUME CoreInv, NEW g, NEW d
    PROVE  /\ DatedBefore(journal, d) \subseteq DOMAIN journal
           /\ BalanceAsOf(g, d) = SumIn(journal, DatedBefore(journal, d), g)
           /\ BalanceAsOf(g, d) \in Int
<1>1. journal \in Seq(EntryType)
  BY DEF CoreInv, TypeOK
<1>2. DatedBefore(journal, d) \subseteq DOMAIN journal
  BY DEF DatedBefore
<1>3. BalanceAsOf(g, d) = SumIn(journal, DatedBefore(journal, d), g)
  BY DEF BalanceAsOf, SumOver, SumIn, DatedBefore
<1> QED
  BY <1>1, <1>2, <1>3, SumInIs

LEMMA CommitAfterSettled ==
    ASSUME CoreInv, NEW p \in Poster, Commit(p), NEW d \in Nat, Settled(d)
    PROVE  Settled(d)' /\ \A g : BalanceAsOf(g, d)' = BalanceAsOf(g, d)
<1>1. PICK e, n : /\ e = job[p].entry /\ n = Len(journal) + 1
                  /\ Committed(p, e, n)
  BY CommitFacts
<1>2. job[p].step = "post" /\ d <= e.date /\ e.date \in Nat
  <2>1. e \in EntryType /\ job[p].step = "post"
    BY <1>1 DEF Committed
  <2>2. e.date \in Nat
    BY <2>1 DEF EntryType
  <2> QED
    BY <1>1, <2>1, <2>2 DEF Settled, Posting
<1>3. Settled(d)'
  <2>1. ASSUME NEW q \in Poster, Posting(q)' PROVE Posting(q) /\ job'[q] = job[q]
    <3>1. q # p
      <4>1. job'[p].step # "post"
        BY <1>1, NoJobIs DEF Committed, CoreInv, TypeOK
      <4> QED
        BY <2>1, <4>1 DEF Posting
    <3>2. job'[q] = job[q]
      BY <1>1, <3>1 DEF Committed, CoreInv, TypeOK
    <3> QED
      BY <2>1, <3>2 DEF Posting
  <2>2. UNCHANGED <<today, clock>>
    BY <1>1 DEF Committed
  <2> QED
    BY <2>1, <2>2 DEF Settled
<1>4. ASSUME NEW g PROVE BalanceAsOf(g, d)' = BalanceAsOf(g, d)
  <2>1. PICK s : s = journal
    OBVIOUS
  <2>2. PICK t : t = journal'
    OBVIOUS
  <2>3. /\ s \in Seq(EntryType) /\ e \in EntryType /\ t = Append(s, e)
        /\ DOMAIN t = DOMAIN s \cup {n} /\ t[n] = e /\ \A i \in DOMAIN s : t[i] = s[i]
    BY <1>1, <2>1, <2>2 DEF CoreInv, TypeOK, Committed
  <2>4. DatedBefore(t, d) = DatedBefore(s, d)
    BY <1>2, <2>3 DEF DatedBefore
  <2>5. PICK E : E = DatedBefore(s, d)
    OBVIOUS
  <2>6. E \subseteq DOMAIN s
    BY <2>5 DEF DatedBefore
  <2>7. AppendSums(s, e, t, g, E)
    BY <2>3, <2>6, SumAppended
  <2>8. BalanceAsOf(g, d) = SumIn(s, E, g)
    BY <2>1, <2>5 DEF BalanceAsOf, SumOver, SumIn, DatedBefore
  <2>9. BalanceAsOf(g, d)' = SumIn(t, E, g)
    BY <2>2, <2>4, <2>5 DEF BalanceAsOf, SumOver, SumIn, DatedBefore
  <2> QED
    BY <2>7, <2>8, <2>9 DEF AppendSums
<1> QED
  BY <1>3, <1>4

(* A handler that begins takes a date that is not settled.                 *)
LEMMA BeginAfterSettled ==
    ASSUME CoreInv, NEW p \in Poster, NEW q \in Request,
           Begin(p, q) \/ BeginScenario(p, q), NEW d \in Nat, Settled(d)
    PROVE  Settled(d)'
<1>1. UNCHANGED <<today, clock>> /\ \E e \in EntryType : Asked(p, e)
  BY BeginAsks DEF CoreInv
<1>2. PICK e \in EntryType : Asked(p, e)
  BY <1>1
<1>3. d <= e.date
  BY <1>2 DEF Asked, Settled
<1>4. job'[p].entry = e /\ \A r \in Poster \ {p} : job'[r] = job[r]
  BY <1>2 DEF Asked, CoreInv, TypeOK
<1>5. \A r \in Poster : Posting(r)' => d <= job'[r].entry.date
  BY <1>3, <1>4 DEF Settled, Posting
<1> QED
  BY <1>1, <1>5 DEF Settled

LEMMA ReversalAfterSettled ==
    ASSUME CoreInv, NEW p \in Poster, BeginReversal(p), NEW d \in Nat, Settled(d)
    PROVE  Settled(d)'
<1>1. PICK e : /\ e.date = today
               /\ job' = [job EXCEPT ![p] = [step |-> "post", scenario |-> FALSE,
                                             began |-> Len(journal), entry |-> e]]
  BY DEF BeginReversal, Entry, DateOfReversal
<1>2. job'[p].entry = e /\ \A r \in Poster \ {p} : job'[r] = job[r]
  BY <1>1 DEF CoreInv, TypeOK
<1>3. \A r \in Poster : Posting(r)' => d <= job'[r].entry.date
  BY <1>1, <1>2 DEF Settled, Posting
<1> QED
  BY <1>3 DEF BeginReversal, Settled

LEMMA SettledStep ==
    ASSUME CoreInv, [Next]_vars, NEW d \in Nat, Settled(d)
    PROVE  Settled(d)' /\ \A g : BalanceAsOf(g, d)' = BalanceAsOf(g, d)
<1>1. UNCHANGED journal => \A g : BalanceAsOf(g, d)' = BalanceAsOf(g, d)
  BY DEF BalanceAsOf, SumOver
<1>2. ASSUME NEW p \in Poster, NEW q \in Request, Begin(p, q) \/ BeginScenario(p, q)
      PROVE  Settled(d)' /\ UNCHANGED journal
  BY <1>2, BeginAfterSettled DEF Begin, BeginScenario
<1>3. ASSUME NEW p \in Poster, BeginReversal(p) PROVE Settled(d)' /\ UNCHANGED journal
  BY <1>3, ReversalAfterSettled DEF BeginReversal
<1>4. ASSUME NEW p \in Poster, Commit(p)
      PROVE  Settled(d)' /\ \A g : BalanceAsOf(g, d)' = BalanceAsOf(g, d)
  BY <1>4, CommitAfterSettled
<1>5. ASSUME NEW p \in Poster, Abandon(p) PROVE Settled(d)' /\ UNCHANGED journal
  <2>1. \A q \in Poster : Posting(q)' => Posting(q) /\ job'[q] = job[q]
    BY <1>5, NoJobIs DEF Abandon, Posting, CoreInv, TypeOK
  <2> QED
    BY <1>5, <2>1 DEF Abandon, Settled
<1>6. CASE DayPasses \/ Advance
  BY <1>1, <1>6 DEF DayPasses, Advance, Settled, Posting, CoreInv, TypeOK
<1>7. CASE Restart
  <2>1. \A q \in Poster : ~Posting(q)'
    BY <1>7, NoJobIs DEF Restart, Posting
  <2> QED
    BY <1>1, <1>7, <2>1 DEF Restart, Settled
<1>8. CASE Reads
  BY <1>1, <1>8, ReadsFacts DEF Settled, Posting
<1>9. CASE UNCHANGED vars
  BY <1>1, <1>9 DEF vars, Settled, Posting
<1> QED
  BY <1>1, <1>2, <1>3, <1>4, <1>5, <1>6, <1>7, <1>8, <1>9 DEF Next, Reads

(* A day that no clock shows and no handler holds any more is final: no    *)
(* posting, reversal, advance or restart books anything before it.         *)
THEOREM SettledDaysAreFinal == Spec => ClosedDaysStay
<1>1. CoreInv /\ [Next]_vars => [SettledDayStays]_vars
  <2>1. MaxDay \in Nat
    BY JournalAssumption
  <2> QED
    BY <2>1, SettledStep DEF SettledDayStays
<1> QED
  BY <1>1, CoreHolds, PTL DEF Spec, ClosedDaysStay

-----------------------------------------------------------------------------
(* Statements                                                              *)

StatementGood(x) ==
    x.what = "statement" =>
        /\ x.from \in Nat
        /\ x.settled => Settled(x.from) /\ x.opening = BalanceAsOf(x.account, x.from)

StatementsGood == \A r \in Reader : StatementGood(reader[r])

LEMMA NoReadIs == NoRead.what = "none"
BY DEF NoRead

LEMMA StatementsInit == Init => StatementsGood
BY NoReadIs DEF Init, StatementsGood, StatementGood

LEMMA StatementsStep ==
    CoreInv /\ StatementsGood /\ [Next]_vars => StatementsGood'
<1> SUFFICES ASSUME CoreInv, StatementsGood, [Next]_vars, NEW r \in Reader
             PROVE  StatementGood(reader[r])'
  BY DEF StatementsGood
<1>1. CASE reader'[r] = reader[r]
  <2>1. ASSUME reader[r].what = "statement", reader[r].settled
        PROVE  /\ Settled(reader[r].from)'
               /\ reader[r].opening = BalanceAsOf(reader[r].account, reader[r].from)'
    <3>1. PICK d \in Nat, g \in {reader[r].account} : d = reader[r].from
      BY <2>1 DEF StatementsGood, StatementGood
    <3>2. Settled(d) /\ reader[r].opening = BalanceAsOf(g, d)
      BY <2>1, <3>1 DEF StatementsGood, StatementGood
    <3>3. Settled(d)' /\ BalanceAsOf(g, d)' = BalanceAsOf(g, d)
      BY <3>2, SettledStep
    <3> QED
      BY <1>1, <3>1, <3>2, <3>3
  <2> QED
    BY <1>1, <2>1 DEF StatementsGood, StatementGood
<1>2. CASE reader'[r] # reader[r]
  <2>1. CASE Restart
    BY <1>2, <2>1, NoReadIs DEF Restart, StatementGood
  <2>2. CASE Reads
    <3>1. UNCHANGED <<journal, today, clock, job>>
      BY <2>2, ReadsFacts
    <3>2. PICK s \in Reader :
             \/ \E g \in Account : \/ \E from \in 1..(MaxDay + 1) : ReadOpening(s, g, from)
                                   \/ ReadHistory(s, g)
             \/ ReadLines(s)
             \/ ReadPage(s)
      BY <2>2 DEF Reads
    <3>3. s = r /\ \A x : reader' = [reader EXCEPT ![s] = x] => reader'[r] = x
      BY <1>2, <3>2 DEF ReadOpening, ReadHistory, ReadLines, ReadPage, CoreInv, TypeOK
    <3>4. ASSUME NEW g \in Account, NEW from \in 1..(MaxDay + 1), ReadOpening(r, g, from)
          PROVE  StatementGood(reader[r])'
      <4>1. reader'[r] = [what |-> "statement", account |-> g, from |-> from,
                          opening |-> BalanceAsOf(g, from), settled |-> Settled(from)]
        BY <3>3, <3>4 DEF ReadOpening
      <4>2. /\ reader'[r].from = from /\ reader'[r].account = g
            /\ reader'[r].opening = BalanceAsOf(g, from)
            /\ reader'[r].settled = Settled(from)
        BY <4>1
      <4>3. /\ Settled(from)' <=> Settled(from)
            /\ BalanceAsOf(g, from)' = BalanceAsOf(g, from)
        BY <3>1 DEF Settled, Posting, BalanceAsOf, SumOver
      <4>4. from \in Nat
        BY JournalAssumption
      <4> QED
        BY <4>2, <4>3, <4>4 DEF StatementGood
    <3>5. CASE ReadLines(r)
      BY <3>3, <3>5, NoReadIs DEF ReadLines, StatementGood
    <3>6. ASSUME NEW g \in Account, ReadHistory(r, g) PROVE StatementGood(reader[r])'
      <4>1. PICK owed :
               reader' = [reader EXCEPT ![r] = [what |-> "history", account |-> g,
                                                offset |-> PageSize, owed |-> owed]]
        BY <3>6 DEF ReadHistory
      <4>2. reader'[r].what = "history"
        BY <3>3, <4>1
      <4> QED
        BY <4>2 DEF StatementGood
    <3>7. CASE ReadPage(r)
      BY <3>3, <3>7, NoReadIs DEF ReadPage, StatementGood
    <3> QED
      BY <3>2, <3>3, <3>4, <3>5, <3>6, <3>7
  <2> QED
    BY <1>2, <2>1, <2>2 DEF Next, vars, Reads, Begin, BeginScenario, BeginReversal,
       Commit, Abandon, DayPasses, Advance
<1> QED
  BY <1>1, <1>2


LEMMA StatementsAddUp == CoreInv /\ StatementsGood => StatementAddsUp
<1> SUFFICES ASSUME CoreInv, StatementsGood, NEW r \in Reader,
                    reader[r].what = "statement",
                    NEW to \in reader[r].from..(MaxDay + 1), reader[r].settled
             PROVE  Closing(r, to) = BalanceAsOf(reader[r].account, to)
  BY DEF StatementAddsUp
<1>1. PICK from \in Nat, g \in {reader[r].account}, s \in {journal} :
          from = reader[r].from
  BY DEF StatementsGood, StatementGood
<1>2. reader[r].opening = BalanceAsOf(g, from)
  BY <1>1 DEF StatementsGood, StatementGood
<1>3. to \in Int /\ from <= to
  BY <1>1, JournalAssumption
<1> DEFINE E == DatedBefore(s, from)
           F == {i \in DOMAIN s : from <= s[i].date /\ s[i].date < to}
           G == DatedBefore(s, to)
<1>4. s \in Seq(EntryType) /\ \A i \in DOMAIN s : s[i].date \in Nat
  BY <1>1, EntryFacts DEF CoreInv, TypeOK
<1>5. /\ E \subseteq DOMAIN s /\ F \subseteq DOMAIN s /\ G \subseteq DOMAIN s
      /\ E \cap F = {} /\ E \cup F = G
  BY <1>3, <1>4 DEF DatedBefore
<1>6. /\ BalanceAsOf(g, from) = SumIn(s, E, g)
      /\ BalanceAsOf(g, to) = SumIn(s, G, g)
      /\ SumOver(InPeriod(from, to), g) = SumIn(s, F, g)
  BY <1>1 DEF BalanceAsOf, SumOver, SumIn, InPeriod, DatedBefore
<1> HIDE DEF E, F, G
<1>7. SumIn(s, G, g) = SumIn(s, E, g) + SumIn(s, F, g)
  <2>1. /\ IsFiniteSet(E) /\ IsFiniteSet(F)
        /\ SumIn(s, E, g) = SumFunctionOnSet(NetsIn(s, g), E)
        /\ SumIn(s, F, g) = SumFunctionOnSet(NetsIn(s, g), F)
        /\ SumIn(s, G, g) = SumFunctionOnSet(NetsIn(s, g), G)
        /\ \A i \in G : NetsIn(s, g)[i] \in Int
    BY <1>4, <1>5, SumInIs
  <2>2. SumFunctionOnSet(NetsIn(s, g), E \cup F) =
            SumFunctionOnSet(NetsIn(s, g), E) + SumFunctionOnSet(NetsIn(s, g), F)
    BY <1>5, <2>1, SumUnion
  <2> QED
    BY <1>5, <2>1, <2>2
<1>8. Closing(r, to) = BalanceAsOf(g, from) + SumOver(InPeriod(from, to), g)
  BY <1>1, <1>2 DEF Closing
<1> QED
  BY <1>1, <1>6, <1>7, <1>8

(* Whatever is posted between the two queries of a statement, its closing  *)
(* balance is the account's balance as of its end, provided that the       *)
(* statement begins on a settled day.                                      *)
THEOREM StatementsAlwaysAddUp == Spec => []StatementAddsUp
BY CoreInit, CoreStep, StatementsInit, StatementsStep, StatementsAddUp, PTL DEF Spec

-----------------------------------------------------------------------------
(* Pages                                                                   *)

(* What the first n elements of M may be, the latest first.                *)
LatestIn(n, M, st) ==
    {T \in SUBSET M : /\ Cardinality(T) = IF Cardinality(M) < n THEN Cardinality(M) ELSE n
                      /\ \A i \in T, j \in M \ T : st[j] <= st[i]}

Above(M, st, i) == {j \in M : st[j] > st[i]}
RankOf(M, st, i) == Cardinality(Above(M, st, i))
Lone(M, st, i) == \A j \in M \ {i} : st[j] # st[i]

Stamped(M, st) == IsFiniteSet(M) /\ \A i \in M : st[i] \in Nat

LEMMA RankType ==
    ASSUME NEW M, NEW st, Stamped(M, st), NEW i
    PROVE  IsFiniteSet(Above(M, st, i)) /\ RankOf(M, st, i) \in Nat
<1>1. Above(M, st, i) \subseteq M
  BY DEF Above
<1> QED
  BY <1>1, FS_Subset, FS_CardinalityType DEF Stamped, RankOf

(* The first n do not reach an entry that n others precede.                *)
LEMMA NotAmongFirst ==
    ASSUME NEW M, NEW st, Stamped(M, st), NEW n \in Nat,
           NEW S \in LatestIn(n, M, st), NEW i \in M, RankOf(M, st, i) >= n
    PROVE  i \notin S
<1> SUFFICES ASSUME i \in S PROVE FALSE
  OBVIOUS
<1>1. S \subseteq M /\ IsFiniteSet(S) /\ Cardinality(S) \in Nat
      /\ IsFiniteSet(M) /\ Cardinality(M) \in Nat
  BY FS_Subset, FS_CardinalityType DEF LatestIn, Stamped
<1>2. Cardinality(S) <= n
  BY <1>1 DEF LatestIn
<1>3. Above(M, st, i) \subseteq S
  <2> SUFFICES ASSUME NEW j \in M, st[j] > st[i], j \notin S PROVE FALSE
    BY DEF Above
  <2>1. st[j] <= st[i] /\ st[i] \in Nat /\ st[j] \in Nat
    BY DEF LatestIn, Stamped
  <2> QED
    BY <2>1
<1>4. i \notin Above(M, st, i) /\ IsFiniteSet(Above(M, st, i))
      /\ RankOf(M, st, i) \in Nat
  <2>1. ~(st[i] > st[i])
    BY DEF Stamped
  <2> QED
    BY <2>1, RankType DEF Above
<1>5. Cardinality(Above(M, st, i) \cup {i}) = RankOf(M, st, i) + 1
  BY <1>4, FS_AddElement DEF RankOf
<1>6. Cardinality(Above(M, st, i) \cup {i}) <= Cardinality(S)
  BY <1>1, <1>3, FS_Subset
<1> QED
  BY <1>1, <1>2, <1>4, <1>5, <1>6

(* What is first without an entry that is alone with its stamp precedes it. *)
LEMMA FirstPrecede ==
    ASSUME NEW M, NEW st, Stamped(M, st), NEW D \in SUBSET M, NEW n,
           NEW S \in LatestIn(n, D, st), NEW i \in D \ S, Lone(M, st, i)
    PROVE  S \subseteq Above(M, st, i)
<1> SUFFICES ASSUME NEW k \in S PROVE k \in Above(M, st, i)
  OBVIOUS
<1>1. k \in M \ {i} /\ i \in M /\ st[i] <= st[k] /\ st[k] # st[i]
  BY DEF LatestIn, Lone
<1>2. st[i] \in Nat /\ st[k] \in Nat
  BY <1>1 DEF Stamped
<1> QED
  BY <1>1, <1>2 DEF Above

(* The first n are n, if they leave one out.                               *)
LEMMA FirstAreMany ==
    ASSUME NEW D, IsFiniteSet(D), NEW st, NEW n \in Nat,
           NEW S \in LatestIn(n, D, st), NEW i \in D \ S
    PROVE  Cardinality(S) = n /\ IsFiniteSet(S)
<1>1. S \subseteq D /\ IsFiniteSet(S) /\ Cardinality(S) \in Nat
      /\ Cardinality(D) \in Nat
  BY FS_Subset, FS_CardinalityType DEF LatestIn
<1>2. Cardinality(S) # Cardinality(D)
  BY <1>1, FS_Subset
<1> QED
  BY <1>1, <1>2 DEF LatestIn

(* A page P after o others that leaves out an entry behind them, alone     *)
(* with its stamp, is full, and precedes it.                               *)
LEMMA PageBefore ==
    ASSUME NEW M, NEW st, Stamped(M, st), NEW o \in Nat,
           NEW S \in LatestIn(o, M, st), NEW P \in LatestIn(PageSize, M \ S, st),
           NEW i \in M \ P, Lone(M, st, i), RankOf(M, st, i) >= o
    PROVE  Cardinality(P) = PageSize /\ RankOf(M, st, i) >= o + PageSize
<1>1. PageSize \in Nat /\ IsFiniteSet(M) /\ IsFiniteSet(M \ S)
  BY JournalAssumption, FS_Subset DEF Stamped
<1>2. i \in M \ S /\ i \in (M \ S) \ P
  BY NotAmongFirst
<1>3. /\ Cardinality(S) = o /\ Cardinality(P) = PageSize
      /\ IsFiniteSet(S) /\ IsFiniteSet(P)
  BY <1>1, <1>2, FirstAreMany
<1>4. S \subseteq Above(M, st, i)
  BY <1>2, FirstPrecede
<1>5. P \subseteq Above(M, st, i)
  BY <1>2, FirstPrecede
<1>6. S \cap P = {}
  BY DEF LatestIn
<1>7. Cardinality(S \cup P) = o + PageSize
  <2>1. Cardinality({}) = 0
    BY FS_EmptySet
  <2> QED
    BY <1>1, <1>3, <1>6, <2>1, FS_Union
<1>8. Cardinality(S \cup P) <= RankOf(M, st, i)
  BY <1>4, <1>5, RankType, FS_Subset DEF RankOf
<1> QED
  BY <1>3, <1>7, <1>8

(* Entries that are added move others to later ranks only.                 *)
LEMMA RanksGrow ==
    ASSUME NEW N, NEW st, Stamped(N, st), NEW M, M \subseteq N,
           NEW sm, \A j \in M : sm[j] = st[j], NEW i \in M
    PROVE  /\ RankOf(M, sm, i) <= RankOf(N, st, i)
           /\ Lone(N, st, i) => Lone(M, sm, i)
<1>1. Above(M, sm, i) \subseteq Above(N, st, i)
  BY DEF Above
<1>2. IsFiniteSet(Above(N, st, i))
  BY RankType
<1>3. Lone(N, st, i) => Lone(M, sm, i)
  BY DEF Lone
<1> QED
  BY <1>1, <1>2, <1>3, FS_Subset DEF RankOf

-----------------------------------------------------------------------------
(* Histories                                                               *)

TouchingIn(s, g) == {i \in DOMAIN s : \E k \in DOMAIN s[i].lines : s[i].lines[k].account = g}
StampsOf(s) == [i \in DOMAIN s |-> s[i].stamp]
RankIn(s, g, i) == RankOf(TouchingIn(s, g), StampsOf(s), i)
LoneIn(s, g, i) == Lone(TouchingIn(s, g), StampsOf(s), i)
LatestOf(n, E) == LatestIn(n, E, StampsOf(journal))

LEMMA EntriesIs == \A g : Entries(g) = TouchingIn(journal, g)
BY DEF Entries, Touches, TouchingIn

LEMMA TiedIs ==
    \A g : \A i \in Entries(g) : i \notin Tied(g) => LoneIn(journal, g, i)
BY EntriesIs DEF Tied, LoneIn, Lone, StampsOf, TouchingIn

LEMMA PagesIs ==
    ASSUME NEW g, NEW o, NEW page \in Pages(g, o)
    PROVE  \E S \in LatestOf(o, Entries(g)) : page \in LatestOf(PageSize, Entries(g) \ S)
<1>1. ASSUME NEW n, NEW E, E \subseteq DOMAIN journal
      PROVE  Latest(n, E) = LatestOf(n, E)
  <2>1. ASSUME NEW T \in SUBSET E
        PROVE  (\A i \in T, j \in E \ T : journal[j].stamp <= journal[i].stamp)
                   <=> \A i \in T, j \in E \ T : StampsOf(journal)[j] <= StampsOf(journal)[i]
    <3>1. \A i \in E : StampsOf(journal)[i] = journal[i].stamp
      BY <1>1 DEF StampsOf
    <3> QED
      BY <3>1
  <2> QED
    BY <2>1 DEF Latest, LatestOf, LatestIn
<1>2. Entries(g) \subseteq DOMAIN journal
  BY DEF Entries
<1>3. PICK S \in Latest(o, Entries(g)) : page \in Latest(PageSize, Entries(g) \ S)
  BY DEF Pages
<1>4. Entries(g) \ S \subseteq DOMAIN journal
  BY <1>2
<1> QED
  BY <1>1, <1>2, <1>3, <1>4

LEMMA EntriesStamped ==
    ASSUME CoreInv, NEW g
    PROVE  Stamped(TouchingIn(journal, g), StampsOf(journal))
<1>1. TouchingIn(journal, g) \subseteq DOMAIN journal
  BY DEF TouchingIn
<1>2. IsFiniteSet(TouchingIn(journal, g))
  BY <1>1, EntryFacts, FS_Subset DEF CoreInv
<1>3. \A i \in TouchingIn(journal, g) :
          StampsOf(journal)[i] = journal[i].stamp /\ journal[i].stamp \in Nat
  BY <1>1, EntryFacts DEF StampsOf, CoreInv
<1> QED
  BY <1>2, <1>3 DEF Stamped

JournalStamped == \A g : Stamped(TouchingIn(journal, g), StampsOf(journal))

LEMMA AllStamped == CoreInv => JournalStamped
BY EntriesStamped DEF JournalStamped

(* What a client that pages is owed, and what no other entry shares its    *)
(* stamp with, comes after at least as many as the client has skipped.     *)
Behind(owed, g, o) ==
    /\ o \in Nat /\ owed \subseteq TouchingIn(journal, g)
    /\ \A i \in owed : LoneIn(journal, g, i) => RankIn(journal, g, i) >= o

HistoryGood(x) == x.what = "history" => Behind(x.owed, x.account, x.offset)

HistoriesGood == \A r \in Reader : HistoryGood(reader[r])

LEMMA HistoriesInit == Init => HistoriesGood
BY NoReadIs DEF Init, HistoriesGood, HistoryGood

(* No entry comes to rank earlier, whatever is booked, and none that       *)
(* shares its stamp comes to be alone with it.                             *)
RanksLater(s, t) ==
    \A g : /\ TouchingIn(s, g) \subseteq TouchingIn(t, g)
           /\ \A i \in TouchingIn(s, g) :
                 /\ RankIn(s, g, i) \in Nat /\ RankIn(t, g, i) \in Nat
                 /\ RankIn(s, g, i) <= RankIn(t, g, i)
                 /\ LoneIn(t, g, i) => LoneIn(s, g, i)

LEMMA RanksOnlyGrow ==
    ASSUME CoreInv, CoreInv', [Next]_vars PROVE RanksLater(journal, journal')
<1>1. PICK s, t : s = journal /\ t = journal'
  OBVIOUS
<1>2. \A g : Stamped(TouchingIn(s, g), StampsOf(s)) /\ Stamped(TouchingIn(t, g), StampsOf(t))
  <2>1. JournalStamped'
    BY AllStamped, PTL
  <2> QED
    BY <1>1, <2>1, EntriesStamped DEF JournalStamped
<1>3. \A i \in DOMAIN s : i \in DOMAIN t /\ t[i] = s[i]
  <2>1. ASSUME NEW p \in Poster, Commit(p)
        PROVE  \A i \in DOMAIN s : i \in DOMAIN t /\ t[i] = s[i]
    BY <1>1, <2>1, CommitFacts DEF Committed
  <2>2. UNCHANGED journal \/ \E p \in Poster : Commit(p)
    BY DEF Next, vars, Begin, BeginScenario, BeginReversal, Abandon, DayPasses,
       Advance, Restart, ReadOpening, ReadHistory, ReadLines, ReadPage
  <2> QED
    BY <1>1, <2>1, <2>2
<1>4. ASSUME NEW g
      PROVE  /\ TouchingIn(s, g) \subseteq TouchingIn(t, g)
             /\ \A i \in TouchingIn(s, g) : StampsOf(s)[i] = StampsOf(t)[i]
  BY <1>3 DEF TouchingIn, StampsOf
<1>5. ASSUME NEW g, NEW i \in TouchingIn(s, g)
      PROVE  /\ RankIn(s, g, i) \in Nat /\ RankIn(t, g, i) \in Nat
             /\ RankIn(s, g, i) <= RankIn(t, g, i)
             /\ LoneIn(t, g, i) => LoneIn(s, g, i)
  BY <1>2, <1>4, RanksGrow, RankType DEF RankIn, LoneIn
<1> QED
  BY <1>1, <1>4, <1>5 DEF RanksLater

(* A page that is read is not behind the next one, and is full when it     *)
(* leaves out an entry that is owed and alone with its stamp.              *)
LEMMA NextPage ==
    ASSUME CoreInv, NEW g, NEW o, NEW owed, Behind(owed, g, o),
           NEW page \in Pages(g, o)
    PROVE  /\ Behind(owed \ page, g, o + PageSize)
           /\ \A i \in owed \ page : LoneIn(journal, g, i) => Cardinality(page) = PageSize
<1>1. PageSize \in Nat /\ o \in Nat /\ o + PageSize \in Nat
  BY JournalAssumption DEF Behind
<1>2. PICK S \in LatestOf(o, Entries(g)) : page \in LatestOf(PageSize, Entries(g) \ S)
  BY PagesIs
<1>3. ASSUME NEW i \in owed \ page, LoneIn(journal, g, i)
      PROVE  RankIn(journal, g, i) >= o + PageSize /\ Cardinality(page) = PageSize
  <2>1. i \in TouchingIn(journal, g) \ page /\ RankIn(journal, g, i) >= o
    BY <1>3 DEF Behind
  <2>2. Stamped(TouchingIn(journal, g), StampsOf(journal))
    BY EntriesStamped
  <2> QED
    BY <1>1, <1>2, <1>3, <2>1, <2>2, EntriesIs, PageBefore DEF LatestOf, RankIn, LoneIn
<1> QED
  BY <1>1, <1>3 DEF Behind

LEMMA HistoriesStep ==
    CoreInv /\ CoreInv' /\ HistoriesGood /\ [Next]_vars => HistoriesGood'
<1> SUFFICES ASSUME CoreInv, CoreInv', HistoriesGood, [Next]_vars, NEW r \in Reader
             PROVE  HistoryGood(reader[r])'
  BY DEF HistoriesGood
<1>1. CASE reader'[r] = reader[r]
  <2> SUFFICES ASSUME reader[r].what = "history"
               PROVE  Behind(reader[r].owed, reader[r].account, reader[r].offset)'
    BY <1>1 DEF HistoryGood
  <2>1. PICK g, o, owed : /\ g = reader[r].account /\ o = reader[r].offset
                          /\ owed = reader[r].owed
    OBVIOUS
  <2>2. Behind(owed, g, o)
    BY <2>1 DEF HistoriesGood, HistoryGood
  <2>3. RanksLater(journal, journal')
    BY RanksOnlyGrow
  <2>4. owed \subseteq TouchingIn(journal', g)
    BY <2>2, <2>3 DEF Behind, RanksLater
  <2>5. ASSUME NEW i \in owed, LoneIn(journal', g, i) PROVE RankIn(journal', g, i) >= o
    <3>1. i \in TouchingIn(journal, g) /\ o \in Nat
      BY <2>2 DEF Behind
    <3>2. /\ RankIn(journal, g, i) \in Nat /\ RankIn(journal', g, i) \in Nat
          /\ RankIn(journal, g, i) <= RankIn(journal', g, i) /\ LoneIn(journal, g, i)
      BY <2>3, <2>5, <3>1 DEF RanksLater
    <3>3. RankIn(journal, g, i) >= o
      BY <2>2, <3>2 DEF Behind
    <3> QED
      BY <3>1, <3>2, <3>3
  <2> QED
    BY <1>1, <2>1, <2>2, <2>4, <2>5 DEF Behind
<1>2. CASE reader'[r] # reader[r]
  <2>1. CASE Restart
    BY <1>2, <2>1, NoReadIs DEF Restart, HistoryGood
  <2>2. CASE Reads
    <3>1. UNCHANGED journal
      BY <2>2, ReadsFacts
    <3>2. PICK s \in Reader :
             \/ \E g \in Account : \/ \E from \in 1..(MaxDay + 1) : ReadOpening(s, g, from)
                                   \/ ReadHistory(s, g)
             \/ ReadLines(s)
             \/ ReadPage(s)
      BY <2>2 DEF Reads
    <3>3. s = r /\ \A x : reader' = [reader EXCEPT ![s] = x] => reader'[r] = x
      BY <1>2, <3>2 DEF ReadOpening, ReadHistory, ReadLines, ReadPage, CoreInv, TypeOK
    <3>4. ASSUME NEW g, NEW o, NEW owed, Behind(owed, g, o), NEW page \in Pages(g, o),
                 reader'[r] = [what |-> "history", account |-> g,
                               offset |-> o + PageSize, owed |-> owed \ page]
          PROVE  HistoryGood(reader[r])'
      <4>1. Behind(owed \ page, g, o + PageSize)
        BY <3>4, NextPage
      <4>2. PICK rest, next : rest = owed \ page /\ next = o + PageSize
        OBVIOUS
      <4>3. /\ reader'[r].account = g /\ reader'[r].offset = next
            /\ reader'[r].owed = rest
        BY <3>4, <4>2
      <4>4. Behind(rest, g, next)'
        BY <3>1, <4>1, <4>2 DEF Behind
      <4> QED
        BY <4>3, <4>4 DEF HistoryGood, Behind
    <3>5. CASE ReadLines(r)
      BY <3>3, <3>5, NoReadIs DEF ReadLines, HistoryGood
    <3>6. ASSUME NEW g \in Account, ReadHistory(r, g) PROVE HistoryGood(reader[r])'
      <4>1. PICK page \in Pages(g, 0) :
               reader' = [reader EXCEPT ![r] =
                             [what |-> "history", account |-> g,
                              offset |-> PageSize, owed |-> Entries(g) \ page]]
        BY <3>6 DEF ReadHistory
      <4>2. reader'[r] = [what |-> "history", account |-> g,
                          offset |-> 0 + PageSize, owed |-> Entries(g) \ page]
        <5>1. 0 + PageSize = PageSize
          BY JournalAssumption
        <5> QED
          BY <3>3, <4>1, <5>1
      <4>3. Behind(Entries(g), g, 0)
        <5>1. \A i : RankIn(journal, g, i) \in Nat
          BY EntriesStamped, RankType DEF RankIn
        <5> QED
          BY <5>1, EntriesIs DEF Behind
      <4> QED
        BY <3>4, <4>1, <4>2, <4>3
    <3>7. CASE ReadPage(r)
      <4>1. CASE reader'[r] = NoRead
        BY <4>1, NoReadIs DEF HistoryGood
      <4>2. CASE reader'[r] # NoRead
        <5>1. PICK g, o, owed : /\ g = reader[r].account /\ o = reader[r].offset
                                /\ owed = reader[r].owed
          OBVIOUS
        <5>2. Behind(owed, g, o)
          BY <3>7, <5>1 DEF HistoriesGood, HistoryGood, ReadPage
        <5>3. PICK page \in Pages(g, o) :
                 reader' = [reader EXCEPT ![r] =
                               IF Cardinality(page) < PageSize THEN NoRead
                               ELSE [what |-> "history", account |-> g,
                                     offset |-> o + PageSize, owed |-> owed \ page]]
          BY <3>7, <5>1 DEF ReadPage
        <5>4. reader'[r] = [what |-> "history", account |-> g,
                            offset |-> o + PageSize, owed |-> owed \ page]
          BY <3>3, <4>2, <5>3
        <5> QED
          BY <3>4, <5>2, <5>4
      <4> QED
        BY <4>1, <4>2
    <3>8. ASSUME NEW g \in Account, NEW from \in 1..(MaxDay + 1), ReadOpening(r, g, from)
          PROVE  HistoryGood(reader[r])'
      <4>1. reader'[r] = [what |-> "statement", account |-> g, from |-> from,
                          opening |-> BalanceAsOf(g, from), settled |-> Settled(from)]
        BY <3>3, <3>8 DEF ReadOpening
      <4>2. reader'[r].what = "statement"
        BY <4>1
      <4> QED
        BY <4>2 DEF HistoryGood
    <3> QED
      BY <3>2, <3>3, <3>5, <3>6, <3>7, <3>8
  <2> QED
    BY <1>2, <2>1, <2>2 DEF Next, vars, Reads, Begin, BeginScenario, BeginReversal,
       Commit, Abandon, DayPasses, Advance
<1> QED
  BY <1>1, <1>2

LEMMA HistoriesComplete == CoreInv /\ HistoriesGood => HistoryMissesNothing
<1> SUFFICES ASSUME CoreInv, HistoriesGood, NEW r \in Reader,
                    reader[r].what = "history",
                    NEW page \in Pages(reader[r].account, reader[r].offset),
                    Cardinality(page) < PageSize,
                    NEW i \in reader[r].owed,
                    i \notin page \cup Tied(reader[r].account)
             PROVE  FALSE
  BY DEF HistoryMissesNothing
<1>1. PICK g, o, owed : /\ g = reader[r].account /\ o = reader[r].offset
                        /\ owed = reader[r].owed
  OBVIOUS
<1>2. Behind(owed, g, o)
  BY <1>1 DEF HistoriesGood, HistoryGood
<1>3. i \in owed \ page /\ i \in Entries(g) /\ LoneIn(journal, g, i)
  BY <1>1, <1>2, EntriesIs, TiedIs DEF Behind
<1>4. Cardinality(page) = PageSize /\ PageSize \in Nat
  BY <1>1, <1>2, <1>3, NextPage, JournalAssumption
<1> QED
  BY <1>4

(* A client that pages through an account's history until a page is not    *)
(* full has seen every entry that was there when it began and shares its   *)
(* created_at with no other of the account's entries, although entries are *)
(* booked meanwhile, in any order of their creation, and although those    *)
(* that do share theirs come in another order with every query.            *)
THEOREM HistoriesMissNothing == Spec => []HistoryMissesNothing
BY CoreInit, CoreStep, HistoriesInit, HistoriesStep, HistoriesComplete, PTL DEF Spec

-----------------------------------------------------------------------------
(* What reversals take                                                     *)

(* Lines that take nothing from customers.                                 *)
Gives(lines) == \A i \in DOMAIN lines :
                    lines[i].account \in Account => lines[i].direction = "credit"

(* What is posted without a lock gives.                                    *)
FreeGives(e) == e.reverses = 0 /\ ~Locks(e) => Gives(e.lines)

JobGives(p) ==
    /\ Posting(p) => job[p].began \in 0..Len(journal) /\ FreeGives(job[p].entry)
    /\ Posting(p) /\ job[p].scenario => Gives(job[p].entry.lines)
    /\ Target(p) # 0 => Gives(journal[Target(p)].lines)

EntryGives(j) ==
    /\ Storable(journal[j].lines) /\ FreeGives(journal[j])
    /\ journal[j].reverses # 0 => Gives(journal[journal[j].reverses].lines)

(* Only deposits are reversed, only interest is posted without a lock, and *)
(* no handler began later than now.                                        *)
GiftsOnly ==
    /\ \A p \in Poster : JobGives(p)
    /\ \A j \in DOMAIN journal : EntryGives(j)

LEMMA GiftsInit == Init => GiftsOnly
<1> SUFFICES ASSUME Init PROVE GiftsOnly
  OBVIOUS
<1>1. DOMAIN journal = {} /\ job = [p \in Poster |-> NoJob]
  BY DEF Init
<1>2. \A p \in Poster : job[p].step = "idle"
  BY <1>1, NoJobIs
<1> QED
  BY <1>1, <1>2 DEF GiftsOnly, JobGives, Posting, Target

LEMMA DepositGives ==
    ASSUME NEW q \in Request, q.kind = "deposit" PROVE Gives(LinesFor(q))
<1>1. LinesFor(q) = <<Debit(Cash, q.amount), Credit(q.to, q.amount)>>
  BY DEF LinesFor, Rules
<1>2. Cash \notin Account
  BY JournalAssumption DEF Bank
<1> QED
  BY <1>1, <1>2 DEF Gives, Debit, Credit

LEMMA FreeIsInterest ==
    ASSUME NEW q \in Request, NEW e, e.lines = LinesFor(q)
    PROVE  FreeGives(e)
<1>1. CASE q.kind = "interest_credit"
  <2>1. LinesFor(q) = <<Debit(Expense, q.amount), Credit(q.to, q.amount)>>
    BY <1>1 DEF LinesFor, Rules
  <2>2. Expense \notin Account
    BY JournalAssumption DEF Bank
  <2>3. Gives(LinesFor(q))
    BY <2>1, <2>2 DEF Gives, Debit, Credit
  <2> QED
    BY <2>3 DEF FreeGives
<1>2. CASE q.kind # "interest_credit"
  BY <1>2, RequestAssumption DEF FreeGives, Locks
<1> QED
  BY <1>1, <1>2

(* Steps that book nothing and give one poster another job.                *)
LEMMA GiftsStay ==
    ASSUME CoreInv, GiftsOnly, UNCHANGED journal, NEW p \in Poster,
           \A q \in Poster \ {p} : job'[q] = job[q], JobGives(p)'
    PROVE  GiftsOnly'
<1>1. ASSUME NEW q \in Poster \ {p} PROVE JobGives(q)'
  <2>1. JobGives(q) /\ job'[q] = job[q]
    BY DEF GiftsOnly
  <2> QED
    BY <2>1 DEF JobGives, Posting, Target
<1>2. \A j \in DOMAIN journal : EntryGives(j)'
  BY DEF GiftsOnly, EntryGives
<1> QED
  BY <1>1, <1>2 DEF GiftsOnly

LEMMA GiftsBegin ==
    ASSUME CoreInv, GiftsOnly, NEW p \in Poster, NEW q \in Request,
           Begin(p, q) \/ BeginScenario(p, q)
    PROVE  GiftsOnly'
<1>1. PICK e, b :
          /\ job' = [job EXCEPT ![p] = [step |-> "post", scenario |-> b,
                                        began |-> Len(journal), entry |-> e]]
          /\ e.reverses = 0 /\ FreeGives(e) /\ (b => Gives(e.lines))
  <2> DEFINE e(d, n) == Entry(LinesFor(q), d, n, 0)
  <2>1. \A d, n : /\ e(d, n).reverses = 0 /\ FreeGives(e(d, n))
                  /\ e(d, n).lines = LinesFor(q)
    <3>1. \A d, n : e(d, n).reverses = 0 /\ e(d, n).lines = LinesFor(q)
      BY DEF Entry
    <3> HIDE DEF e
    <3> QED
      BY <3>1, FreeIsInterest
  <2>2. CASE Begin(p, q)
    <3>1. PICK n : job' = [job EXCEPT ![p] = [step |-> "post", scenario |-> FALSE,
                                              began |-> Len(journal),
                                              entry |-> e(DateOf(q), n)]]
      BY <2>2 DEF Begin
    <3>2. PICK x : x = e(DateOf(q), n)
      OBVIOUS
    <3>3. x.reverses = 0 /\ FreeGives(x)
      BY <2>1, <3>2
    <3> QED
      BY <3>1, <3>2, <3>3
  <2>3. CASE BeginScenario(p, q)
    <3>1. PICK n : job' = [job EXCEPT ![p] = [step |-> "post", scenario |-> TRUE,
                                              began |-> Len(journal),
                                              entry |-> e(today, n)]]
      BY <2>3 DEF BeginScenario
    <3>2. PICK x : x = e(today, n)
      OBVIOUS
    <3>3. x.reverses = 0 /\ FreeGives(x) /\ Gives(x.lines)
      BY <2>1, <2>3, <3>2, DepositGives DEF BeginScenario
    <3> QED
      BY <3>1, <3>2, <3>3
  <2> QED
    BY <2>2, <2>3
<1>2. /\ job'[p].step = "post" /\ job'[p].entry = e /\ job'[p].scenario = b
      /\ job'[p].began = Len(journal)
      /\ \A r \in Poster \ {p} : job'[r] = job[r]
  BY <1>1 DEF CoreInv, TypeOK
<1>3. UNCHANGED journal
  BY DEF Begin, BeginScenario
<1>4. Len(journal) \in Nat
  BY EntryFacts DEF CoreInv
<1>5. JobGives(p)'
  <2>1. Target(p)' = 0
    BY <1>1, <1>2 DEF Target
  <2> QED
    BY <1>1, <1>2, <1>3, <1>4, <2>1 DEF JobGives, Posting
<1> QED
  BY <1>2, <1>3, <1>5, GiftsStay

LEMMA GiftsReversal ==
    ASSUME CoreInv, GiftsOnly, NEW p \in Poster, BeginReversal(p)
    PROVE  GiftsOnly'
<1>1. PICK e : /\ job' = [job EXCEPT ![p] = [step |-> "post", scenario |-> FALSE,
                                             began |-> Len(journal), entry |-> e]]
               /\ e.reverses = job[p].original
  <2> DEFINE i == job[p].original
             e(n) == Entry(Swapped(journal[i].lines), DateOfReversal(i), n, i)
  <2>1. PICK n : job' = [job EXCEPT ![p] = [step |-> "post", scenario |-> FALSE,
                                            began |-> Len(journal), entry |-> e(n)]]
    BY DEF BeginReversal
  <2>2. e(n).reverses = i
    BY DEF Entry
  <2> HIDE DEF e
  <2> QED
    BY <2>1, <2>2
<1>2. /\ job'[p].step = "post" /\ job'[p].entry = e /\ job'[p].scenario = FALSE
      /\ job'[p].began = Len(journal)
      /\ \A r \in Poster \ {p} : job'[r] = job[r]
  BY <1>1 DEF CoreInv, TypeOK
<1>3. job[p].step = "reverse" /\ UNCHANGED journal /\ Len(journal) \in Nat
  BY EntryFacts DEF BeginReversal, CoreInv
<1>4. Target(p)' = Target(p)
  BY <1>1, <1>2, <1>3 DEF Target
<1>5. JobGives(p)'
  <2>1. FreeGives(e)
    BY <1>1, <1>3 DEF CoreInv, JobsGood, JobGood, FreeGives, Target
  <2> QED
    BY <1>2, <1>3, <1>4, <2>1 DEF GiftsOnly, JobGives, Posting
<1> QED
  BY <1>2, <1>3, <1>5, GiftsStay

LEMMA GiftsAbandon ==
    ASSUME CoreInv, GiftsOnly, NEW p \in Poster, Abandon(p)
    PROVE  GiftsOnly'
<1>1. /\ job'[p].step = "idle" /\ UNCHANGED journal
      /\ \A r \in Poster \ {p} : job'[r] = job[r]
  BY NoJobIs DEF Abandon, CoreInv, TypeOK
<1>2. JobGives(p)'
  BY <1>1 DEF JobGives, Posting, Target
<1> QED
  BY <1>1, <1>2, GiftsStay

LEMMA GiftsCommit ==
    ASSUME CoreInv, GiftsOnly, NEW p \in Poster, Commit(p)
    PROVE  GiftsOnly'
<1>0. PICK e, n : /\ e = job[p].entry /\ n = Len(journal) + 1
                  /\ Committed(p, e, n)
  BY CommitFacts
<1>1. /\ job[p].step = "post"
      /\ DOMAIN journal' = DOMAIN journal \cup {n} /\ n \in Nat \ {0}
      /\ Len(journal') = n
      /\ journal'[n] = e /\ \A i \in DOMAIN journal : journal'[i] = journal[i]
      /\ Target(p) = e.reverses
      /\ job' = [job EXCEPT ![p] =
                    IF job[p].scenario THEN [step |-> "reverse", original |-> n]
                    ELSE NoJob]
  BY <1>0 DEF Committed
<1>2. DOMAIN journal = 1..Len(journal) /\ Len(journal) \in Nat
  BY EntryFacts DEF CoreInv
<1>3. \A q \in Poster : Target(q) \in 0..Len(journal)
  BY DEF CoreInv, JobsGood, JobGood
<1>4. /\ job'[p] = IF job[p].scenario THEN [step |-> "reverse", original |-> n]
                   ELSE NoJob
      /\ \A q \in Poster \ {p} : job'[q] = job[q]
  BY <1>1 DEF CoreInv, TypeOK
<1>5. JobGives(p)'
  <2>1. CASE job[p].scenario
    <3>1. Gives(e.lines)
      BY <1>0, <1>1, <2>1 DEF GiftsOnly, JobGives, Posting
    <3>2. Target(p)' = n /\ ~Posting(p)'
      BY <1>4, <2>1 DEF Target, Posting
    <3> QED
      BY <1>1, <3>1, <3>2 DEF JobGives
  <2>2. CASE ~job[p].scenario
    <3>1. job'[p].step = "idle"
      BY <1>4, <2>2, NoJobIs
    <3> QED
      BY <3>1 DEF JobGives, Posting, Target
  <2> QED
    BY <2>1, <2>2
<1>6. ASSUME NEW q \in Poster \ {p} PROVE JobGives(q)'
  <2>1. JobGives(q) /\ job'[q] = job[q]
    BY <1>4 DEF GiftsOnly
  <2>2. Target(q)' = Target(q) /\ (Posting(q)' <=> Posting(q))
    BY <2>1 DEF Target, Posting
  <2>3. Target(q) # 0 => journal'[Target(q)] = journal[Target(q)]
    BY <1>1, <1>2, <1>3
  <2>4. Posting(q) => /\ job[q].began \in 0..Len(journal')
                      /\ FreeGives(job[q].entry)
    BY <1>0, <1>1, <1>2, <2>1 DEF JobGives
  <2> QED
    BY <2>1, <2>2, <2>3, <2>4 DEF JobGives
<1>7. ASSUME NEW j \in DOMAIN journal PROVE EntryGives(j)'
  <2>1. EntryGives(j) /\ journal'[j] = journal[j]
    BY <1>1 DEF GiftsOnly
  <2>2. journal[j].reverses # 0 => journal[j].reverses \in DOMAIN journal
    BY <1>2 DEF CoreInv, EntriesGood, EntryGood
  <2> QED
    BY <1>1, <2>1, <2>2 DEF EntryGives
<1>8. EntryGives(n)'
  <2>1. Storable(e.lines) /\ FreeGives(e)
    BY <1>0, <1>1 DEF Commit, GiftsOnly, JobGives, Posting
  <2>2. e.reverses # 0 => /\ Gives(journal[e.reverses].lines)
                          /\ e.reverses \in DOMAIN journal
    BY <1>1, <1>2, <1>3 DEF GiftsOnly, JobGives
  <2> QED
    BY <1>1, <2>1, <2>2 DEF EntryGives
<1> QED
  BY <1>1, <1>5, <1>6, <1>7, <1>8 DEF GiftsOnly

LEMMA GiftsStep == CoreInv /\ GiftsOnly /\ [Next]_vars => GiftsOnly'
<1> SUFFICES ASSUME CoreInv, GiftsOnly, [Next]_vars PROVE GiftsOnly'
  OBVIOUS
<1>1. UNCHANGED <<journal, job>> => GiftsOnly'
  BY DEF GiftsOnly, JobGives, EntryGives, Posting, Target
<1>2. ASSUME NEW p \in Poster, NEW q \in Request, Begin(p, q) \/ BeginScenario(p, q)
      PROVE  GiftsOnly'
  BY <1>2, GiftsBegin
<1>3. ASSUME NEW p \in Poster, BeginReversal(p) PROVE GiftsOnly'
  BY <1>3, GiftsReversal
<1>4. ASSUME NEW p \in Poster, Commit(p) PROVE GiftsOnly'
  BY <1>4, GiftsCommit
<1>5. ASSUME NEW p \in Poster, Abandon(p) PROVE GiftsOnly'
  BY <1>5, GiftsAbandon
<1>6. CASE DayPasses \/ Advance
  BY <1>1, <1>6 DEF DayPasses, Advance
<1>7. CASE Restart
  <2>1. UNCHANGED journal /\ \A p \in Poster : job'[p].step = "idle"
    BY <1>7, NoJobIs DEF Restart
  <2>2. \A p \in Poster : JobGives(p)'
    BY <2>1 DEF JobGives, Posting, Target
  <2>3. \A j \in DOMAIN journal : EntryGives(j)'
    BY <2>1 DEF GiftsOnly, EntryGives
  <2> QED
    BY <2>1, <2>2, <2>3 DEF GiftsOnly
<1>8. CASE Reads
  BY <1>1, <1>8, ReadsFacts
<1>9. CASE UNCHANGED vars
  BY <1>1, <1>9 DEF vars
<1> QED
  BY <1>2, <1>3, <1>4, <1>5, <1>6, <1>7, <1>8, <1>9 DEF Next, Reads

(* A reversed deposit gave every customer something or nothing.            *)
LEMMA GivenIsPositive ==
    ASSUME NEW lines \in Seq(Line), Storable(lines), Gives(lines), NEW a \in Account
    PROVE  NetOf(lines, a) \in Nat
<1>1. ASSUME NEW i \in Mine(lines, a) PROVE SignedOf(lines)[i] \in Nat
  <2>1. i \in DOMAIN lines /\ lines[i].account = a
    BY DEF Mine
  <2>2. lines[i].direction = "credit" /\ lines[i].amount > 0
    BY <2>1 DEF Gives, Storable
  <2>3. SignedOf(lines)[i] = lines[i].amount /\ SignedOf(lines)[i] \in Int
    BY <2>1, <2>2, LineFacts DEF SignedOf, Signed
  <2> QED
    BY <2>2, <2>3
<1>2. IsFiniteSet(Mine(lines, a))
  BY NetOfIs
<1> QED
  BY <1>1, <1>2, NetOfIs, SumNotNegative

LEMMA ReversalsTake ==
    ASSUME CoreInv, GiftsOnly, NEW j \in DOMAIN journal, journal[j].reverses # 0,
           NEW a \in Account
    PROVE  -NetOf(journal[j].lines, a) \in Nat
<1>1. PICK i : i = journal[j].reverses
  OBVIOUS
<1>2. i \in DOMAIN journal /\ journal[j].lines = Swapped(journal[i].lines)
  BY <1>1, EntryFacts DEF CoreInv, EntriesGood, EntryGood
<1>3. /\ journal[i].lines \in Seq(Line)
      /\ Storable(journal[i].lines) /\ Gives(journal[i].lines)
  BY <1>1, <1>2, EntryFacts DEF CoreInv, GiftsOnly, EntryGives
<1>4. NetOf(journal[i].lines, a) \in Nat
  BY <1>3, GivenIsPositive
<1>5. NetOf(journal[j].lines, a) = -NetOf(journal[i].lines, a)
  BY <1>2, <1>3, SwappedFacts
<1> QED
  BY <1>4, <1>5

(* The entries of handlers, and those of reversals.                        *)
Posted(s) == {i \in DOMAIN s : s[i].reverses = 0}
Taking(s) == {i \in DOMAIN s : s[i].reverses # 0}

(* What is posted to an account while a handler has its lock adds to it.   *)
LEMMA LateGives ==
    ASSUME CoreInv, GiftsOnly, NEW a \in Account, NEW j \in DOMAIN journal,
           journal[j].reverses = 0, Touches(j, a) => ~Locks(journal[j])
    PROVE  NetOf(journal[j].lines, a) \in Nat
<1>1. PICK lines : lines = journal[j].lines
  OBVIOUS
<1>2. lines \in Seq(Line) /\ Storable(lines)
  BY <1>1, EntryFacts DEF CoreInv, GiftsOnly, EntryGives
<1>3. CASE Touches(j, a)
  <2>1. Gives(lines)
    BY <1>1, <1>3 DEF GiftsOnly, EntryGives, FreeGives
  <2> QED
    BY <1>1, <1>2, <2>1, GivenIsPositive
<1>4. CASE ~Touches(j, a)
  <2>1. Mine(lines, a) = {}
    BY <1>1, <1>4 DEF Mine, Touches
  <2>2. NetOf(lines, a) = 0
    BY <1>2, <2>1, NetOfIs, SumEmpty
  <2> QED
    BY <1>1, <2>2
<1> QED
  BY <1>3, <1>4

(* Whatever reversals a handler misses, it sees no more than an account    *)
(* has without any of them.                                                *)
LEMMA SeenIsThere ==
    ASSUME CoreInv, GiftsOnly, NEW a \in Account
    PROVE  /\ LedgerBalance(a) \in Int /\ TakenBack(a) \in Int
           /\ LedgerBalance(a) + TakenBack(a) = SumOver(Posted(journal), a)
           /\ \A k \in 0..Len(journal) : HeldSince(k, a) =>
                  /\ SumOver(1..k, a) \in Int
                  /\ SumOver(1..k, a) <= SumOver(Posted(journal), a)
<1> DEFINE f == NetsIn(journal, a)
           Sum(E) == SumFunctionOnSet(f, E)
           P == Posted(journal)
           T == Taking(journal)
<1>1. journal \in Seq(EntryType)
  BY DEF CoreInv, TypeOK
<1>2. ASSUME NEW E, E \subseteq DOMAIN journal
      PROVE  /\ IsFiniteSet(E) /\ SumOver(E, a) = Sum(E) /\ Sum(E) \in Int
             /\ \A i \in E : f[i] \in Int
  <2>1. SumOver(E, a) = SumIn(journal, E, a)
    BY SumOverIs
  <2> QED
    BY <1>1, <1>2, <2>1, SumInIs
<1>3. P \subseteq DOMAIN journal /\ T \subseteq DOMAIN journal
      /\ P \cup T = DOMAIN journal /\ P \cap T = {}
  BY DEF Posted, Taking
<1>4. \A j \in T : f[j] \in Int /\ -f[j] \in Nat
  BY <1>2, <1>3, ReversalsTake DEF NetsIn, Taking
<1> HIDE DEF f
<1>5. Sum(DOMAIN journal) = Sum(P) + Sum(T)
  <2>1. \A i \in P \cup T : f[i] \in Int
    BY <1>2, <1>3
  <2> HIDE DEF P, T
  <2> QED
    BY <1>2, <1>3, <2>1, SumUnion
<1>6. LedgerBalance(a) = Sum(DOMAIN journal) /\ TakenBack(a) = -Sum(T)
  <2>1. TakenBack(a) = -SumOver(T, a)
    BY DEF TakenBack, Taking
  <2> QED
    BY <1>2, <1>3, <2>1 DEF LedgerBalance
<1>7. Sum(DOMAIN journal) \in Int /\ Sum(P) \in Int /\ Sum(T) \in Int
      /\ SumOver(P, a) = Sum(P)
  BY <1>2, <1>3
<1>8. ASSUME NEW k \in 0..Len(journal), HeldSince(k, a)
      PROVE  SumOver(1..k, a) \in Int /\ SumOver(1..k, a) <= SumOver(P, a)
  <2> DEFINE Q == {j \in P : j <= k}
             L == {j \in P : k < j}
             R == {j \in T : j <= k}
             g == [j \in R |-> -f[j]]
  <2>1. DOMAIN journal = 1..Len(journal) /\ Len(journal) \in Nat
    BY EntryFacts DEF CoreInv
  <2>2. /\ 1..k = Q \cup R /\ Q \cap R = {}
        /\ P = Q \cup L /\ Q \cap L = {}
        /\ Q \subseteq P /\ L \subseteq P /\ R \subseteq T
    BY <1>3, <2>1
  <2>3. \A j \in L : f[j] \in Nat
    <3> SUFFICES ASSUME NEW j \in L PROVE f[j] \in Nat
      OBVIOUS
    <3>1. j \in DOMAIN journal /\ journal[j].reverses = 0 /\ j \in (k + 1)..Len(journal)
      BY <2>1 DEF Posted
    <3>2. NetOf(journal[j].lines, a) \in Nat
      BY <1>8, <3>1, LateGives DEF HeldSince
    <3> QED
      BY <3>1, <3>2 DEF f, NetsIn
  <2> HIDE DEF P, T, Q, L, R
  <2>4. /\ IsFiniteSet(Q) /\ IsFiniteSet(L) /\ IsFiniteSet(R)
        /\ Sum(Q) \in Int /\ Sum(L) \in Int /\ Sum(R) \in Int
        /\ \A j \in P \cup T : f[j] \in Int
    BY <1>2, <1>3, <2>2
  <2>5. Sum(P) = Sum(Q) + Sum(L)
    <3>1. \A i \in Q \cup L : f[i] \in Int
      BY <2>2, <2>4
    <3> QED
      BY <2>2, <2>4, <3>1, SumUnion
  <2>6. SumOver(1..k, a) = Sum(Q) + Sum(R)
    <3>1. \A i \in Q \cup R : f[i] \in Int
      BY <2>2, <2>4
    <3>2. Sum(Q \cup R) = Sum(Q) + Sum(R)
      BY <2>2, <2>4, <3>1, SumUnion
    <3> QED
      BY <1>2, <1>3, <2>2, <3>2
  <2>7. Sum(L) \in Nat
    BY <2>3, <2>4, SumNotNegative
  <2>8. -Sum(R) \in Nat
    <3>1. \A j \in R : f[j] \in Int /\ g[j] = -f[j] /\ g[j] \in Nat
      BY <1>4, <2>2
    <3> HIDE DEF g
    <3>2. SumFunctionOnSet(g, R) = -Sum(R) /\ SumFunctionOnSet(g, R) \in Nat
      BY <2>4, <3>1, SumNegated, SumNotNegative
    <3> QED
      BY <3>2
  <2> HIDE DEF Sum
  <2> QED
    BY <1>7, <2>4, <2>5, <2>6, <2>7, <2>8
<1> HIDE DEF Sum, P, T
<1>9. LedgerBalance(a) + TakenBack(a) = SumOver(P, a)
  BY <1>5, <1>6, <1>7
<1> QED
  BY <1>6, <1>7, <1>8, <1>9 DEF P

(* A commit adds to what was posted, or to what was taken back.            *)
LEMMA CommitAdds ==
    ASSUME CoreInv, GiftsOnly, NEW p \in Poster, NEW e, NEW n, Committed(p, e, n),
           NEW a
    PROVE  /\ SumOver(Posted(journal), a) \in Int /\ SumOver(Taking(journal), a) \in Int
           /\ NetOf(e.lines, a) \in Int
           /\ SumOver(Posted(journal), a)'
                  = SumOver(Posted(journal), a)
                        + (IF e.reverses = 0 THEN NetOf(e.lines, a) ELSE 0)
           /\ SumOver(Taking(journal), a)'
                  = SumOver(Taking(journal), a)
                        + (IF e.reverses = 0 THEN 0 ELSE NetOf(e.lines, a))
<1>1. PICK s, t : s = journal /\ t = journal'
  OBVIOUS
<1>2. /\ s \in Seq(EntryType) /\ e \in EntryType /\ t = Append(s, e)
      /\ DOMAIN t = DOMAIN s \cup {n} /\ n \notin DOMAIN s
      /\ t[n] = e /\ \A i \in DOMAIN s : t[i] = s[i]
  BY <1>1 DEF CoreInv, TypeOK, Committed
<1>3. \A E : SumOver(E, a) = SumIn(s, E, a) /\ SumOver(E, a)' = SumIn(t, E, a)
  BY <1>1 DEF SumOver, SumIn
<1>4. \A E : E \subseteq DOMAIN s => AppendSums(s, e, t, a, E)
  BY <1>2, SumAppended
<1>5. /\ SumOver(Posted(journal), a) = SumIn(s, Posted(s), a)
      /\ SumOver(Taking(journal), a) = SumIn(s, Taking(s), a)
      /\ SumOver(Posted(journal), a)' = SumIn(t, Posted(t), a)
      /\ SumOver(Taking(journal), a)' = SumIn(t, Taking(t), a)
  BY <1>1 DEF SumOver, SumIn
<1>6. Posted(s) \subseteq DOMAIN s /\ Taking(s) \subseteq DOMAIN s
  BY DEF Posted, Taking
<1>7. n = Len(s) + 1
  <2> HIDE DEF EntryType
  <2>1. DOMAIN t = 1..(Len(s) + 1) /\ DOMAIN s = 1..Len(s) /\ Len(s) \in Nat
    BY <1>2
  <2> QED
    BY <1>2, <2>1
<1>8. /\ Posted(t) = IF e.reverses = 0 THEN Posted(s) \cup {n} ELSE Posted(s)
      /\ Taking(t) = IF e.reverses = 0 THEN Taking(s) ELSE Taking(s) \cup {n}
  BY <1>2 DEF Posted, Taking
<1>9. ASSUME NEW E, E \subseteq DOMAIN s
      PROVE  /\ SumIn(s, E, a) \in Int /\ NetOf(e.lines, a) \in Int
             /\ SumIn(t, E, a) = SumIn(s, E, a) + 0
             /\ SumIn(t, E \cup {n}, a) = SumIn(s, E, a) + NetOf(e.lines, a)
  <2>1. AppendSums(s, e, t, a, E)
    BY <1>4, <1>9
  <2>2. /\ SumIn(s, E, a) \in Int /\ NetOf(e.lines, a) \in Int
        /\ SumIn(t, E, a) = SumIn(s, E, a)
        /\ SumIn(t, E \cup {n}, a) = SumIn(s, E, a) + NetOf(e.lines, a)
    BY <1>7, <2>1, Zenon DEF AppendSums
  <2>3. SumIn(s, E, a) = SumIn(s, E, a) + 0
    BY <2>2
  <2> QED
    BY <2>2, <2>3, Zenon
<1>10. PICK v \in Int, w \in Int, m \in Int :
          v = SumIn(s, Posted(s), a) /\ w = SumIn(s, Taking(s), a) /\ m = NetOf(e.lines, a)
  BY <1>6, <1>9
<1>11. e.reverses = 0 => SumIn(t, Posted(t), a) = v + m /\ SumIn(t, Taking(t), a) = w + 0
  BY <1>6, <1>8, <1>9, <1>10, Zenon
<1>12. e.reverses # 0 => SumIn(t, Posted(t), a) = v + 0 /\ SumIn(t, Taking(t), a) = w + m
  BY <1>6, <1>8, <1>9, <1>10, Zenon
<1> QED
  BY <1>5, <1>10, <1>11, <1>12

(* What handlers have posted never takes more from a customer than it gave. *)
Covered == \A a \in Account : SumOver(Posted(journal), a) >= 0

LEMMA CoveredInit == Init => Covered
<1> SUFFICES ASSUME Init, NEW a \in Account PROVE SumOver(Posted(journal), a) >= 0
  BY DEF Covered
<1> DEFINE f == [i \in {} |-> NetOf(journal[i].lines, a)]
<1>1. SumOver(Posted(journal), a) = SumFunction(f) /\ DOMAIN f = {}
  BY DEF SumOver, Init, Posted
<1> HIDE DEF f
<1>2. SumFunction(f) = 0
  BY <1>1, SumFunctionIsOnDomain, SumEmpty
<1> QED
  BY <1>1, <1>2

LEMMA CoveredCommit ==
    ASSUME CoreInv, GiftsOnly, Covered, NEW p \in Poster, Commit(p) PROVE Covered'
<1>1. PICK e, n : /\ e = job[p].entry /\ n = Len(journal) + 1
                  /\ Committed(p, e, n)
  BY CommitFacts
<1> SUFFICES ASSUME NEW a \in Account PROVE SumOver(Posted(journal), a)' >= 0
  BY DEF Covered
<1>2. PICK m \in Int, x \in Int : /\ m = NetOf(e.lines, a)
                                 /\ x = SumOver(Posted(journal), a)
  BY <1>1, CommitAdds
<1>3. SumOver(Posted(journal), a)' = x + (IF e.reverses = 0 THEN m ELSE 0)
  BY <1>1, <1>2, CommitAdds
<1>4. x >= 0
  BY <1>2 DEF Covered
<1>5. e.reverses = 0 /\ m < 0 => x + m >= 0
  <2> SUFFICES ASSUME e.reverses = 0, m < 0 PROVE x + m >= 0
    OBVIOUS
  <2>1. PICK k \in job[p].began..Len(journal) :
            HeldSince(k, a) /\ SumOver(1..k, a) + m >= 0
    BY <1>1, <1>2 DEF Commit, Funded
  <2>2. k \in 0..Len(journal)
    <3>1. job[p].began \in 0..Len(journal) /\ Len(journal) \in Nat
      BY EntryFacts DEF CoreInv, GiftsOnly, JobGives, Commit
    <3> QED
      BY <2>1, <3>1
  <2>3. SumOver(1..k, a) \in Int /\ SumOver(1..k, a) <= x
    BY <1>2, <2>1, <2>2, SeenIsThere
  <2> QED
    BY <2>1, <2>3
<1> QED
  BY <1>3, <1>4, <1>5

LEMMA CoveredStep == CoreInv /\ GiftsOnly /\ Covered /\ [Next]_vars => Covered'
<1> SUFFICES ASSUME CoreInv, GiftsOnly, Covered, [Next]_vars PROVE Covered'
  OBVIOUS
<1>1. UNCHANGED journal => Covered'
  BY DEF Covered, SumOver, Posted
<1>2. ASSUME NEW p \in Poster, Commit(p) PROVE Covered'
  BY <1>2, CoveredCommit
<1>3. (\E p \in Poster : Commit(p)) \/ UNCHANGED journal
  BY ReadsFacts
     DEF Next, Begin, BeginScenario, BeginReversal, Abandon, DayPasses, Advance,
         Restart, Reads, vars
<1> QED
  BY <1>1, <1>2, <1>3

(* Only reversals overdraw an account: although no check of funds waits    *)
(* for one, customers never pay more than they were paid.                  *)
THEOREM OnlyReversalsEverOverdraw == Spec => []OnlyReversalsOverdraw
<1>1. CoreInv /\ GiftsOnly /\ Covered => OnlyReversalsOverdraw
  BY SeenIsThere DEF Covered, OnlyReversalsOverdraw
<1> QED
  BY <1>1, CoreInit, CoreStep, GiftsInit, GiftsStep, CoveredInit, CoveredStep, PTL
     DEF Spec

-----------------------------------------------------------------------------
(* Stored books                                                            *)

(* What an entry moves.                                                    *)
MoveOf(e) == [g \in Gl |-> NetOf(e.lines, g)]
MovesOf(s) == [i \in DOMAIN s |-> MoveOf(s[i])]

LEMMA MovesAppended ==
    ASSUME NEW s \in Seq(EntryType), NEW e \in EntryType, e.lines \in Seq(Line),
           NEW t, t = Append(s, e)
    PROVE  /\ MoveOf(e) \in [Gl -> Int]
           /\ Len(MovesOf(s)) = Len(s) /\ Len(s) \in Nat
           /\ Len(MovesOf(t)) = Len(s) + 1
           /\ MovesOf(t) = Append(MovesOf(s), MoveOf(e))
           /\ MovesOf(t)[Len(s) + 1] = MoveOf(e)
<1> DEFINE M == [Gl -> Int]
<1>1. MoveOf(e) \in M
  BY NetOfIs DEF MoveOf
<1>2. \A i \in DOMAIN s : MoveOf(s[i]) \in M
  BY SeqFacts, NetOfIs DEF MoveOf
<1>3. /\ DOMAIN s = 1..Len(s) /\ Len(s) \in Nat
      /\ DOMAIN t = 1..(Len(s) + 1) /\ t[Len(s) + 1] = e
      /\ \A i \in DOMAIN s : t[i] = s[i]
  <2> HIDE DEF EntryType
  <2> QED
    OBVIOUS
<1>4. PICK n \in Nat : n = Len(s)
  BY <1>3
<1>5. PICK u, w, m : u = MovesOf(s) /\ w = MovesOf(t) /\ m = MoveOf(e)
  OBVIOUS
<1>6. m \in M
  BY <1>1, <1>5
<1> HIDE DEF M
<1>7. u \in [1..n -> M]
  BY <1>2, <1>3, <1>4, <1>5 DEF MovesOf
<1>8. w \in [1..(n + 1) -> M] /\ w[n + 1] = m /\ \A i \in 1..n : w[i] = u[i]
  <2>1. DOMAIN w = 1..(n + 1) /\ DOMAIN u = 1..n
    BY <1>3, <1>4, <1>5 DEF MovesOf
  <2>2. w = [i \in 1..(n + 1) |-> w[i]]
    BY <2>1, <1>5 DEF MovesOf
  <2>3. w[n + 1] = m
    BY <1>3, <1>4, <1>5 DEF MovesOf
  <2>4. ASSUME NEW i \in 1..n PROVE w[i] = u[i] /\ w[i] \in M
    <3>1. i \in DOMAIN s /\ i \in DOMAIN t /\ t[i] = s[i]
      BY <1>3, <1>4
    <3> QED
      BY <1>2, <1>5, <3>1 DEF MovesOf
  <2>5. \A i \in 1..(n + 1) : i \in 1..n \/ i = n + 1
    OBVIOUS
  <2>6. \A i \in 1..(n + 1) : w[i] \in M
    BY <1>6, <2>3, <2>4, <2>5
  <2> QED
    BY <2>2, <2>3, <2>4, <2>6
<1>9. /\ u \in Seq(M) /\ Len(u) = n
      /\ w \in Seq(M) /\ Len(w) = n + 1
  BY <1>7, <1>8
<1>10. w = Append(u, m)
  <2>1. PICK v : v = Append(u, m)
    OBVIOUS
  <2>2. v \in Seq(M) /\ Len(v) = n + 1 /\ v[n + 1] = m /\ \A i \in 1..n : v[i] = u[i]
    BY <1>6, <1>9, <2>1
  <2>3. v \in [1..(n + 1) -> M]
    BY <2>2
  <2>4. \A i \in 1..(n + 1) : v[i] = w[i]
    BY <1>8, <2>2
  <2> QED
    BY <1>8, <2>1, <2>3, <2>4
<1> QED
  BY <1>1, <1>4, <1>5, <1>8, <1>9, <1>10 DEF M

LEMMA MovesIs == Moves = MovesOf(journal) /\ Moves' = MovesOf(journal')
BY DEF Moves, MovesOf, MoveOf

(* Books sums as Journal does.                                             *)
LEMMA SumsAgree == ASSUME NEW f PROVE StoredBooks!SumFunction(f) = SumFunction(f)
BY DEF SumFunction, SumFunctionOnSet, FoldFunctionOnSet, MapThenFoldSet,
       StoredBooks!SumFunction, StoredBooks!SumFunctionOnSet,
       StoredBooks!FoldFunctionOnSet, StoredBooks!MapThenFoldSet

(* A commit is an entry of the stored books.                               *)
LEMMA CommitIsBooked ==
    ASSUME CoreInv, NEW p \in Poster, NEW e, NEW n, Committed(p, e, n)
    PROVE  /\ StoredBooks!Book /\ StoredBooks!Entry = MoveOf(e)
           /\ \A g \in Gl : /\ Balances[g] \in Int /\ MoveOf(e)[g] \in Int
                            /\ Balances'[g] = Balances[g] + MoveOf(e)[g]
<1>1. PICK s, t, m : s = journal /\ t = journal' /\ m = MoveOf(e)
  OBVIOUS
<1>2. /\ s \in Seq(EntryType) /\ e \in EntryType /\ e.lines \in Seq(Line)
      /\ t = Append(s, e) /\ Valid(e.lines)
  BY <1>1 DEF CoreInv, TypeOK, Committed
<1>3. /\ m \in [Gl -> Int]
      /\ Len(Moves) = Len(s) /\ Len(Moves') = Len(s) + 1
      /\ Moves' = Append(Moves, m) /\ Moves'[Len(s) + 1] = m
  <2>1. Moves = MovesOf(s) /\ Moves' = MovesOf(t)
    BY <1>1, MovesIs
  <2> HIDE DEF EntryType
  <2>2. /\ MoveOf(e) \in [Gl -> Int]
        /\ Len(MovesOf(s)) = Len(s) /\ Len(MovesOf(t)) = Len(s) + 1
        /\ MovesOf(t) = Append(MovesOf(s), MoveOf(e))
        /\ MovesOf(t)[Len(s) + 1] = MoveOf(e)
    BY <1>2, MovesAppended
  <2> QED
    BY <1>1, <2>1, <2>2, Zenon
<1>4. StoredBooks!Entry = m
  BY <1>3 DEF StoredBooks!Entry
<1>5. SumFunction(m) = 0
  <2>1. DOMAIN m = Gl /\ m = [g \in Gl |-> NetOf(e.lines, g)]
    BY <1>1 DEF MoveOf
  <2>2. SumFunctionOnSet(m, Gl) = 0
    BY <1>2, <2>1, NetByAccount DEF Valid
  <2> QED
    BY <2>1, <2>2, SumFunctionIsOnDomain
<1>6. ASSUME NEW g \in Gl
      PROVE  /\ Balances[g] \in Int /\ m[g] \in Int
             /\ Balances'[g] = Balances[g] + m[g]
  <2>1. /\ LedgerBalance(g) \in Int /\ NetOf(e.lines, g) \in Int
        /\ LedgerBalance(g)' = LedgerBalance(g) + NetOf(e.lines, g)
    BY CommitBooks
  <2>2. Balances[g] = LedgerBalance(g) /\ Balances'[g] = LedgerBalance(g)'
    BY DEF Balances
  <2>3. m[g] = NetOf(e.lines, g)
    BY <1>1 DEF MoveOf
  <2> QED
    BY <2>1, <2>2, <2>3
<1>7. Balances' = [g \in Gl |-> Balances[g] + m[g]]
  <2>1. Balances' = [g \in Gl |-> LedgerBalance(g)'] /\ DOMAIN Balances' = Gl
    BY DEF Balances
  <2>2. Balances' = [g \in Gl |-> Balances'[g]]
    BY <2>1
  <2> QED
    BY <1>6, <2>2
<1>8. StoredBooks!Book
  <2>1. Len(Moves') = Len(Moves) + 1
    BY <1>3
  <2> QED
    BY <1>3, <1>4, <1>5, <1>7, <2>1, SumsAgree, Zenon DEF StoredBooks!Book
<1> QED
  BY <1>1, <1>4, <1>6, <1>8

LEMMA UndoneGrows ==
    ASSUME CoreInv, NEW p \in Poster, NEW e, NEW n, Committed(p, e, n)
    PROVE  Undone' = IF e.reverses = 0 THEN Undone ELSE Undone \cup {e.reverses}
<1>1. /\ DOMAIN journal' = DOMAIN journal \cup {n} /\ n \notin DOMAIN journal
      /\ journal'[n] = e /\ \A i \in DOMAIN journal : journal'[i] = journal[i]
  BY DEF Committed
<1>2. {journal'[i].reverses : i \in DOMAIN journal'}
          = {journal[i].reverses : i \in DOMAIN journal} \cup {e.reverses}
  BY <1>1
<1>3. /\ Undone = {journal[i].reverses : i \in DOMAIN journal} \ {0}
      /\ Undone' = {journal'[i].reverses : i \in DOMAIN journal'} \ {0}
  BY DEF Undone
<1> QED
  BY <1>2, <1>3

LEMMA TakenGrows ==
    ASSUME CoreInv, GiftsOnly, NEW p \in Poster, NEW e, NEW n, Committed(p, e, n),
           NEW a \in Account
    PROVE  /\ Taken[a] \in Int /\ MoveOf(e)[a] \in Int
           /\ Taken'[a] = Taken[a] - (IF e.reverses = 0 THEN 0 ELSE MoveOf(e)[a])
<1>1. PICK w \in Int, m \in Int : w = SumOver(Taking(journal), a) /\ m = NetOf(e.lines, a)
  BY CommitAdds
<1>2. SumOver(Taking(journal), a)' = w + (IF e.reverses = 0 THEN 0 ELSE m)
  BY <1>1, CommitAdds
<1>3. TakenBack(a) = -SumOver(Taking(journal), a)
  BY DEF TakenBack, Taking
<1>4. TakenBack(a)' = -(SumOver(Taking(journal), a)')
  BY DEF TakenBack, Taking
<1>5. Taken[a] = TakenBack(a) /\ Taken'[a] = TakenBack(a)'
  BY DEF Taken
<1>6. MoveOf(e)[a] = m
  BY <1>1 DEF MoveOf, Gl
<1> QED
  BY <1>1, <1>2, <1>3, <1>4, <1>5, <1>6

LEMMA CommitRefines ==
    ASSUME CoreInv, GiftsOnly, Covered, NEW p \in Poster, Commit(p)
    PROVE  StoredBooks!Next
<1>1. PICK e, n : /\ e = job[p].entry /\ n = Len(journal) + 1
                  /\ Committed(p, e, n)
  BY CommitFacts
<1>2. PICK m : m = MoveOf(e)
  OBVIOUS
<1>3. StoredBooks!Book /\ StoredBooks!Entry = m
  BY <1>1, <1>2, CommitIsBooked
<1>4. \A a \in Account : /\ Taken[a] \in Int /\ m[a] \in Int
                         /\ Taken'[a] = Taken[a] - (IF e.reverses = 0 THEN 0 ELSE m[a])
  BY <1>1, <1>2, TakenGrows
<1>5. /\ Taken = [a \in Account |-> Taken[a]]
      /\ Taken' = [a \in Account |-> Taken'[a]]
  BY DEF Taken
<1>6. CASE e.reverses = 0
  <2>1. Undone' = Undone
    BY <1>1, <1>6, UndoneGrows
  <2>2. Taken' = Taken
    <3>1. \A a \in Account : Taken'[a] = Taken[a]
      BY <1>4, <1>6
    <3> QED
      BY <1>5, <3>1
  <2>3. ASSUME NEW a \in Account, m[a] < 0
        PROVE  Balances'[a] + Taken[a] >= 0
    <3>1. PICK x \in Int : x = SumOver(Posted(journal), a)
      BY <1>1, CommitAdds
    <3>2. Taken[a] = TakenBack(a) /\ Balances[a] = LedgerBalance(a)
      BY DEF Taken, Balances, Gl
    <3>3. Balances[a] + Taken[a] = x
      BY <3>1, <3>2, SeenIsThere
    <3>4. Balances[a] \in Int /\ m[a] \in Int /\ Balances'[a] = Balances[a] + m[a]
      BY <1>1, <1>2, CommitIsBooked DEF Gl
    <3>5. x + m[a] >= 0
      <4>1. m[a] = NetOf(e.lines, a)
        BY <1>2 DEF MoveOf, Gl
      <4>2. SumOver(Posted(journal), a)' = x + m[a]
        BY <1>1, <1>6, <3>1, <4>1, CommitAdds
      <4>3. Covered'
        BY CoveredCommit
      <4> QED
        BY <4>2, <4>3 DEF Covered
    <3>6. Taken[a] \in Int
      BY <1>4
    <3> QED
      BY <3>3, <3>4, <3>5, <3>6
  <2>4. StoredBooks!Post
    BY <1>3, <2>1, <2>2, <2>3 DEF StoredBooks!Post
  <2> QED
    BY <2>4 DEF StoredBooks!Next
<1>7. CASE e.reverses # 0
  <2>1. PICK i : i = e.reverses /\ i \in DOMAIN journal /\ i # 0
    BY <1>1, <1>7, EntryFacts DEF Committed, CoreInv, JobsGood, JobGood
  <2>2. i = Target(p) /\ e.lines = Swapped(journal[i].lines)
    BY <1>1, <2>1 DEF Committed, CoreInv, JobsGood, JobGood
  <2>3. i \notin Undone
    BY <2>1, <2>2 DEF Undone, CoreInv, JobsGood, JobGood
  <2>4. DOMAIN Moves = DOMAIN journal /\ Moves[i] = MoveOf(journal[i])
    BY <2>1, MovesIs DEF MovesOf
  <2>5. /\ journal[i].lines \in Seq(Line) /\ Storable(journal[i].lines)
        /\ Gives(journal[i].lines)
    BY <2>1, <2>2, EntryFacts DEF CoreInv, GiftsOnly, JobGives, EntryGives
  <2>6. \A a \in Account : Moves[i][a] \in Nat
    BY <2>4, <2>5, GivenIsPositive DEF MoveOf, Gl
  <2>7. m = [g \in Gl |-> -Moves[i][g]]
    <3>1. \A g \in Gl : NetOf(e.lines, g) = -Moves[i][g]
      BY <2>2, <2>4, <2>5, SwappedFacts DEF MoveOf
    <3> QED
      BY <1>2, <3>1 DEF MoveOf
  <2>8. Undone' = Undone \cup {i}
    BY <1>1, <1>7, <2>1, UndoneGrows
  <2>9. Taken' = [a \in Account |-> Taken[a] + Moves[i][a]]
    <3>1. ASSUME NEW a \in Account PROVE Taken'[a] = Taken[a] + Moves[i][a]
      <4>1. m[a] = -Moves[i][a] /\ Moves[i][a] \in Int
        BY <2>6, <2>7 DEF Gl
      <4>2. Taken'[a] = Taken[a] - m[a] /\ Taken[a] \in Int
        BY <1>4, <1>7
      <4> QED
        BY <4>1, <4>2
    <3> QED
      BY <1>5, <3>1
  <2>10. \A a \in Account : Moves[i][a] >= 0
    BY <2>6
  <2>11. StoredBooks!Undo(i)
    BY <1>3, <2>3, <2>7, <2>8, <2>9, <2>10 DEF StoredBooks!Undo
  <2> QED
    BY <2>1, <2>4, <2>11 DEF StoredBooks!Next
<1> QED
  BY <1>6, <1>7

LEMMA BooksInit == Init => StoredBooks!Init
<1> SUFFICES ASSUME Init PROVE StoredBooks!Init
  OBVIOUS
<1>1. journal = <<>> /\ DOMAIN journal = {}
  BY DEF Init
<1>2. ASSUME NEW g, NEW E, E = {} PROVE SumOver(E, g) = 0
  <2> DEFINE k == [i \in E |-> NetOf(journal[i].lines, g)]
  <2>1. SumOver(E, g) = SumFunction(k) /\ DOMAIN k = {}
    BY <1>2 DEF SumOver
  <2> HIDE DEF k
  <2> QED
    BY <2>1, SumFunctionIsOnDomain, SumEmpty
<1>3. Balances = [g \in Gl |-> 0]
  BY <1>1, <1>2 DEF Balances, LedgerBalance
<1>4. Taken = [a \in Account |-> 0]
  BY <1>1, <1>2 DEF Taken, TakenBack
<1>5. Moves = <<>> /\ Undone = {}
  BY <1>1 DEF Moves, Undone
<1> QED
  BY <1>3, <1>4, <1>5 DEF StoredBooks!Init

(* Balances that are summed up over all lines whenever one is asked for    *)
(* are those of books that store them: every commit of an entry is one     *)
(* step of such books, and every other step of the handlers, the clocks    *)
(* and the readers is none.                                                *)
THEOREM JournalImplementsBooks == Spec => ImplementsBooks
<1>1. CoreInv /\ GiftsOnly /\ Covered /\ [Next]_vars
          => [StoredBooks!Next]_(StoredBooks!booksVars)
  <2> SUFFICES ASSUME CoreInv, GiftsOnly, Covered, [Next]_vars
               PROVE  [StoredBooks!Next]_(StoredBooks!booksVars)
    OBVIOUS
  <2>1. (\E p \in Poster : Commit(p)) \/ UNCHANGED journal
    BY ReadsFacts
       DEF Next, Begin, BeginScenario, BeginReversal, Abandon, DayPasses, Advance,
           Restart, Reads, vars
  <2>2. CASE \E p \in Poster : Commit(p)
    BY <2>2, CommitRefines
  <2>3. CASE UNCHANGED journal
    <3>1. UNCHANGED <<Balances, Moves, Undone, Taken>>
      BY <2>3 DEF Balances, Moves, Undone, Taken, LedgerBalance, TakenBack, SumOver
    <3> QED
      BY <3>1 DEF StoredBooks!booksVars
  <2> QED
    BY <2>1, <2>2, <2>3
<1> QED
  BY <1>1, BooksInit, CoreInit, CoreStep, GiftsInit, GiftsStep, CoveredInit,
     CoveredStep, PTL DEF Spec, ImplementsBooks, StoredBooks!Spec

=============================================================================
