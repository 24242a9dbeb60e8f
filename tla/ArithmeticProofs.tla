-------------------------- MODULE ArithmeticProofs --------------------------
(***************************************************************************)
(* Facts about the sums that balances, statements and interest are stated  *)
(* with: SumFunctionOnSet(f, S) for a finite set S.  The library defines   *)
(* it by recursion over the subsets of S; each fact about all finite sets  *)
(* is proved here from a smallest set that would be a counterexample.      *)
(* And facts about the rounding of money.                                  *)
(***************************************************************************)
EXTENDS Money, Functions, FiniteSetTheorems, WellFoundedInduction, TLAPS

Pick(s) == CHOOSE x \in s : TRUE

(* One unfolding of the recursion, with h for the sums of smaller sets.    *)
Unfold(f, h, s) == IF s = {} THEN 0 ELSE f[Pick(s)] + h[s \ {Pick(s)}]

(* h holds the sums of f over the sets of U.                               *)
SumsOver(f, h, U) == h = [s \in U |-> Unfold(f, h, s)]

PartialSums(f, S) == CHOOSE h : SumsOver(f, h, SUBSET S)

LEMMA PickIn == ASSUME NEW s, s # {} PROVE Pick(s) \in s
BY DEF Pick

(* A set of finite sets has one that contains no other.                    *)
LEMMA SmallestSet ==
    ASSUME NEW S, IsFiniteSet(S), NEW B, B \subseteq SUBSET S, B # {}
    PROVE  \E T \in B : \A U \in B : U \subseteq T => U = T
<1>1. IsWellFoundedOn(StrictSubsetOrdering(S), SUBSET S)
  BY FS_StrictSubsetOrderingWellFounded, FS_FiniteSubsetsOfFinite
<1>2. PICK T \in B : \A U \in B : ~(<<U, T>> \in StrictSubsetOrdering(S))
  BY <1>1, WFMin
<1> QED
  BY <1>2 DEF StrictSubsetOrdering

(* A set of naturals has a least element.                                  *)
LEMMA LeastNatural ==
    ASSUME NEW B, B \subseteq Nat, B # {}
    PROVE  \E n \in B : \A m \in B : n <= m
<1>1. PICK n \in B : \A m \in B : ~(<<m, n>> \in OpToRel(<, Nat))
  BY NatLessThanWellFounded, WFMin
<1>2. OpToRel(<, Nat) = {ss \in Nat \X Nat : ss[1] < ss[2]}
  BY Zenon DEF OpToRel
<1>3. ASSUME NEW m \in B PROVE n <= m
  <2>1. m \in Nat /\ n \in Nat
    OBVIOUS
  <2>2. m < n => <<m, n>> \in OpToRel(<, Nat)
    BY <1>2, <2>1
  <2>3. ~(m < n)
    BY <1>1, <2>2, Zenon
  <2> QED
    BY <2>1, <2>3
<1> QED
  BY <1>3

(* The definition of the library, in the words of this module.             *)
LEMMA SumExpanded ==
    ASSUME NEW f, NEW S
    PROVE  SumFunctionOnSet(f, S) = PartialSums(f, S)[S]
BY DEF SumFunctionOnSet, FoldFunctionOnSet, MapThenFoldSet, Pick,
       PartialSums, SumsOver, Unfold

LEMMA SumFunctionIsOnDomain ==
    ASSUME NEW f PROVE SumFunction(f) = SumFunctionOnSet(f, DOMAIN f)
BY DEF SumFunction

-----------------------------------------------------------------------------
(* The recursion is well-founded                                           *)

(* Sums of the sets of at most n elements can be extended to n + 1.        *)
LEMMA SumsExist ==
    ASSUME NEW f, NEW S, IsFiniteSet(S)
    PROVE  \E h : SumsOver(f, h, SUBSET S)
<1> DEFINE Upto(n) == {s \in SUBSET S : Cardinality(s) <= n}
           Bad == {n \in Nat : ~ \E h : SumsOver(f, h, Upto(n))}
<1>1. \A s \in SUBSET S : IsFiniteSet(s) /\ Cardinality(s) \in Nat
  BY FS_Subset, FS_CardinalityType
<1>2. Bad = {}
  <2> SUFFICES ASSUME Bad # {} PROVE FALSE
    OBVIOUS
  <2>1. PICK n \in Bad : \A m \in Bad : n <= m
    BY LeastNatural
  <2>2. n \in Nat /\ ~ \E h : SumsOver(f, h, Upto(n))
    BY <2>1
  <2>3. CASE n = 0
    <3> DEFINE g == [s \in Upto(0) |-> 0]
    <3>1. \A s \in Upto(0) : s = {}
      BY <1>1, FS_EmptySet
    <3>2. SumsOver(f, g, Upto(0))
      BY <3>1 DEF SumsOver, Unfold
    <3> QED
      BY <2>2, <2>3, <3>2
  <2>4. CASE n # 0
    <3>1. n - 1 \in Nat /\ ~(n <= n - 1)
      BY <2>2, <2>4
    <3>2. PICK h : SumsOver(f, h, Upto(n - 1))
      BY <2>1, <3>1
    <3> DEFINE g == [s \in Upto(n) |-> Unfold(f, h, s)]
    <3>3. ASSUME NEW s \in Upto(n), s # {}
          PROVE  g[s \ {Pick(s)}] = h[s \ {Pick(s)}]
      <4> DEFINE t == s \ {Pick(s)}
      <4>1. Pick(s) \in s
        BY <3>3, PickIn
      <4>2. Cardinality(t) = Cardinality(s) - 1
        BY <1>1, <4>1, FS_RemoveElement
      <4>3. t \in Upto(n - 1) /\ t \in Upto(n)
        BY <1>1, <2>2, <4>2
      <4>4. h[t] = Unfold(f, h, t)
        BY <3>2, <4>3 DEF SumsOver
      <4> QED
        BY <4>3, <4>4
    <3>4. ASSUME NEW s \in Upto(n) PROVE Unfold(f, g, s) = Unfold(f, h, s)
      <4> HIDE DEF g, Upto
      <4> QED
        BY <3>3 DEF Unfold
    <3>5. SumsOver(f, g, Upto(n))
      BY <3>4 DEF SumsOver
    <3> QED
      BY <2>2, <3>5
  <2> QED
    BY <2>3, <2>4
<1>3. Cardinality(S) \in Nat
  BY FS_CardinalityType
<1>4. Upto(Cardinality(S)) = SUBSET S
  BY FS_Subset
<1> QED
  BY <1>2, <1>3, <1>4

(* So the recursion equation holds.                                        *)
LEMMA PartialSumsUnfold ==
    ASSUME NEW f, NEW S, IsFiniteSet(S), NEW T \in SUBSET S
    PROVE  PartialSums(f, S)[T] = Unfold(f, PartialSums(f, S), T)
<1>1. SumsOver(f, PartialSums(f, S), SUBSET S)
  BY SumsExist DEF PartialSums
<1> QED
  BY <1>1 DEF SumsOver

(* A sum depends on the values of the set's own elements and on nothing    *)
(* else.                                                                   *)
LEMMA PartialSumsAgree ==
    ASSUME NEW f, NEW S, IsFiniteSet(S), NEW g, NEW R, IsFiniteSet(R),
           NEW T \in SUBSET (S \cap R), \A x \in T : f[x] = g[x]
    PROVE  PartialSums(f, S)[T] = PartialSums(g, R)[T]
<1> DEFINE F == PartialSums(f, S)
           G == PartialSums(g, R)
           Bad == {U \in SUBSET T : F[U] # G[U]}
<1>1. IsFiniteSet(T)
  BY FS_Subset
<1>2. \A U \in SUBSET T : F[U] = Unfold(f, F, U) /\ G[U] = Unfold(g, G, U)
  BY PartialSumsUnfold
<1>3. Bad = {}
  <2> SUFFICES ASSUME Bad # {} PROVE FALSE
    OBVIOUS
  <2>1. PICK U \in Bad : \A V \in Bad : V \subseteq U => V = U
    <3>1. Bad \subseteq SUBSET T
      OBVIOUS
    <3> HIDE DEF Bad
    <3> QED
      BY <1>1, <3>1, SmallestSet
  <2>2. U # {}
    BY <1>2 DEF Unfold
  <2>3. Pick(U) \in U
    BY <2>2, PickIn
  <2>4. F[U \ {Pick(U)}] = G[U \ {Pick(U)}]
    BY <2>1, <2>3
  <2>5. f[Pick(U)] = g[Pick(U)]
    BY <2>3
  <2> HIDE DEF F, G
  <2> QED
    BY <1>2, <2>1, <2>2, <2>4, <2>5 DEF Unfold
<1> QED
  BY <1>3

-----------------------------------------------------------------------------
(* What the proofs of the components use                                   *)

LEMMA SumEmpty == ASSUME NEW f PROVE SumFunctionOnSet(f, {}) = 0
BY SumExpanded, PartialSumsUnfold, FS_EmptySet DEF Unfold

(* Equal values have equal sums.                                           *)
LEMMA SumSame ==
    ASSUME NEW S, IsFiniteSet(S), NEW f, NEW g, \A x \in S : f[x] = g[x]
    PROVE  SumFunctionOnSet(f, S) = SumFunctionOnSet(g, S)
BY SumExpanded, PartialSumsAgree

LEMMA SumPicked ==
    ASSUME NEW S, IsFiniteSet(S), NEW f, S # {}
    PROVE  /\ Pick(S) \in S
           /\ SumFunctionOnSet(f, S) =
                 f[Pick(S)] + SumFunctionOnSet(f, S \ {Pick(S)})
<1> DEFINE T == S \ {Pick(S)}
<1>1. IsFiniteSet(T) /\ T \subseteq S
  BY FS_Subset
<1>2. PartialSums(f, S)[S] = f[Pick(S)] + PartialSums(f, S)[T]
  BY PartialSumsUnfold DEF Unfold
<1>3. PartialSums(f, S)[T] = PartialSums(f, T)[T]
  BY <1>1, PartialSumsAgree
<1> QED
  BY <1>2, <1>3, SumExpanded, PickIn

LEMMA SumType ==
    ASSUME NEW S, IsFiniteSet(S), NEW f, \A x \in S : f[x] \in Int
    PROVE  SumFunctionOnSet(f, S) \in Int
<1> DEFINE Bad == {T \in SUBSET S : SumFunctionOnSet(f, T) \notin Int}
<1> SUFFICES ASSUME Bad # {} PROVE FALSE
  OBVIOUS
<1>1. PICK T \in Bad : \A U \in Bad : U \subseteq T => U = T
  <2>1. Bad \subseteq SUBSET S
    OBVIOUS
  <2> HIDE DEF Bad
  <2> QED
    BY <2>1, SmallestSet
<1>2. IsFiniteSet(T) /\ T # {}
  <2>1. T \in SUBSET S /\ SumFunctionOnSet(f, T) \notin Int
    BY <1>1
  <2>2. IsFiniteSet(T)
    BY <2>1, FS_Subset
  <2>3. T # {}
    <3>1. SumFunctionOnSet(f, {}) \in Int
      BY SumEmpty
    <3> QED
      BY <2>1, <3>1
  <2> QED
    BY <2>2, <2>3
<1>3. /\ Pick(T) \in T
      /\ SumFunctionOnSet(f, T) = f[Pick(T)] + SumFunctionOnSet(f, T \ {Pick(T)})
  BY <1>2, SumPicked
<1>4. SumFunctionOnSet(f, T \ {Pick(T)}) \in Int
  BY <1>1, <1>3
<1> QED
  BY <1>1, <1>3, <1>4

(* Any element may be taken out first.                                     *)
LEMMA SumRemove ==
    ASSUME NEW S, IsFiniteSet(S), NEW f, \A x \in S : f[x] \in Int, NEW x \in S
    PROVE  SumFunctionOnSet(f, S) = f[x] + SumFunctionOnSet(f, S \ {x})
<1> DEFINE Sum(T) == SumFunctionOnSet(f, T)
           Bad == {T \in SUBSET S : \E y \in T : Sum(T) # f[y] + Sum(T \ {y})}
<1> SUFFICES ASSUME Bad # {} PROVE FALSE
  OBVIOUS
<1>1. PICK T \in Bad : \A U \in Bad : U \subseteq T => U = T
  <2>1. Bad \subseteq SUBSET S
    OBVIOUS
  <2> HIDE DEF Bad
  <2> QED
    BY <2>1, SmallestSet
<1>2. PICK y \in T : Sum(T) # f[y] + Sum(T \ {y})
  BY <1>1
<1> DEFINE p == Pick(T)
<1>3. \A U \in SUBSET S : IsFiniteSet(U) /\ Sum(U) \in Int
  BY FS_Subset, SumType
<1>4. p \in T /\ Sum(T) = f[p] + Sum(T \ {p})
  BY <1>2, <1>3, SumPicked
<1> HIDE DEF p
<1>5. p # y
  BY <1>2, <1>4
<1>6. Sum(T \ {p}) = f[y] + Sum((T \ {p}) \ {y})
  BY <1>1, <1>2, <1>4, <1>5
<1>7. Sum(T \ {y}) = f[p] + Sum((T \ {y}) \ {p})
  BY <1>1, <1>2, <1>4, <1>5
<1>8. (T \ {p}) \ {y} = (T \ {y}) \ {p}
  OBVIOUS
<1>9. f[p] \in Int /\ f[y] \in Int /\ Sum((T \ {y}) \ {p}) \in Int
  BY <1>2, <1>3, <1>4
<1> DEFINE rest == Sum((T \ {y}) \ {p})
<1>10. /\ Sum(T) = f[p] + (f[y] + rest)
       /\ Sum(T \ {y}) = f[p] + rest
       /\ rest \in Int
  BY <1>4, <1>6, <1>7, <1>8, <1>9
<1> HIDE DEF rest, Sum
<1> QED
  BY <1>2, <1>9, <1>10

LEMMA SumAdd ==
    ASSUME NEW S, IsFiniteSet(S), NEW x, x \notin S, NEW f,
           \A y \in S \cup {x} : f[y] \in Int
    PROVE  SumFunctionOnSet(f, S \cup {x}) = f[x] + SumFunctionOnSet(f, S)
<1>1. IsFiniteSet(S \cup {x}) /\ (S \cup {x}) \ {x} = S
  BY FS_AddElement
<1> QED
  BY <1>1, SumRemove

(* The value of one element changes.                                       *)
LEMMA SumUpdate ==
    ASSUME NEW S, IsFiniteSet(S), NEW x \in S, NEW f, NEW g,
           \A y \in S : f[y] \in Int, g[x] \in Int,
           \A y \in S \ {x} : g[y] = f[y]
    PROVE  SumFunctionOnSet(g, S) = SumFunctionOnSet(f, S) + (g[x] - f[x])
<1> DEFINE R == S \ {x}
<1>1. IsFiniteSet(R)
  BY FS_Subset
<1>2. /\ SumFunctionOnSet(f, S) = f[x] + SumFunctionOnSet(f, R)
      /\ SumFunctionOnSet(g, S) = g[x] + SumFunctionOnSet(g, R)
  BY SumRemove
<1>3. SumFunctionOnSet(f, R) = SumFunctionOnSet(g, R)
  BY <1>1, SumSame
<1>4. SumFunctionOnSet(f, R) \in Int /\ f[x] \in Int
  BY <1>1, SumType
<1> QED
  BY <1>2, <1>3, <1>4

LEMMA SumUnion ==
    ASSUME NEW S, IsFiniteSet(S), NEW R, IsFiniteSet(R), S \cap R = {},
           NEW f, \A x \in S \cup R : f[x] \in Int
    PROVE  SumFunctionOnSet(f, S \cup R) =
              SumFunctionOnSet(f, S) + SumFunctionOnSet(f, R)
<1> DEFINE Sum(T) == SumFunctionOnSet(f, T)
           Bad == {T \in SUBSET R : Sum(S \cup T) # Sum(S) + Sum(T)}
<1> SUFFICES ASSUME Bad # {} PROVE FALSE
  OBVIOUS
<1>1. PICK T \in Bad : \A U \in Bad : U \subseteq T => U = T
  <2>1. Bad \subseteq SUBSET R
    OBVIOUS
  <2> HIDE DEF Bad
  <2> QED
    BY <2>1, SmallestSet
<1>2. T \in SUBSET R /\ Sum(S \cup T) # Sum(S) + Sum(T)
  BY <1>1
<1>3. Sum(S) \in Int /\ Sum({}) = 0
  BY SumType, SumEmpty
<1>4. PICK x \in T : TRUE
  <2> SUFFICES ASSUME T = {} PROVE FALSE
    OBVIOUS
  <2>1. Sum(S \cup {}) # Sum(S) + Sum({}) /\ S \cup {} = S
    BY <1>2
  <2> HIDE DEF Sum
  <2> QED
    BY <1>3, <2>1
<1> DEFINE U == T \ {x}
<1>5. Sum(S \cup U) = Sum(S) + Sum(U)
  <2>1. U \in SUBSET R /\ U \subseteq T /\ U # T
    BY <1>2, <1>4
  <2> QED
    BY <1>1, <2>1
<1>6. /\ IsFiniteSet(T) /\ IsFiniteSet(U) /\ IsFiniteSet(S \cup U)
  <2>1. IsFiniteSet(T) /\ IsFiniteSet(U)
    BY <1>2, FS_Subset
  <2> QED
    BY <2>1, FS_Union
<1>7. Sum(T) = f[x] + Sum(U)
  BY <1>2, <1>4, <1>6, SumRemove
<1>8. Sum(S \cup T) = f[x] + Sum(S \cup U)
  <2>1. S \cup T = (S \cup U) \cup {x} /\ x \notin S \cup U
    BY <1>2, <1>4
  <2>2. \A y \in (S \cup U) \cup {x} : f[y] \in Int
    BY <1>2, <1>4
  <2> QED
    BY <1>6, <2>1, <2>2, SumAdd
<1>9. f[x] \in Int /\ Sum(U) \in Int
  BY <1>2, <1>4, <1>6, SumType
<1> HIDE DEF Sum, U
<1> QED
  BY <1>2, <1>3, <1>5, <1>7, <1>8, <1>9

(* The sum of two functions, element by element.                           *)
LEMMA SumPlus ==
    ASSUME NEW S, IsFiniteSet(S), NEW f, NEW g, NEW h,
           \A x \in S : f[x] \in Int /\ g[x] \in Int /\ h[x] = f[x] + g[x]
    PROVE  SumFunctionOnSet(h, S) = SumFunctionOnSet(f, S) + SumFunctionOnSet(g, S)
<1> DEFINE F(T) == SumFunctionOnSet(f, T)
           G(T) == SumFunctionOnSet(g, T)
           H(T) == SumFunctionOnSet(h, T)
           Bad == {T \in SUBSET S : H(T) # F(T) + G(T)}
<1> SUFFICES ASSUME Bad # {} PROVE FALSE
  OBVIOUS
<1>1. PICK T \in Bad : \A U \in Bad : U \subseteq T => U = T
  <2>1. Bad \subseteq SUBSET S
    OBVIOUS
  <2> HIDE DEF Bad
  <2> QED
    BY <2>1, SmallestSet
<1>2. T \in SUBSET S /\ H(T) # F(T) + G(T)
  BY <1>1
<1>3. F({}) = 0 /\ G({}) = 0 /\ H({}) = 0
  BY SumEmpty
<1>4. PICK x \in T : TRUE
  <2> SUFFICES ASSUME T = {} PROVE FALSE
    OBVIOUS
  <2>1. H({}) # F({}) + G({})
    BY <1>2
  <2> HIDE DEF F, G, H
  <2> QED
    BY <1>3, <2>1
<1> DEFINE U == T \ {x}
<1>5. H(U) = F(U) + G(U)
  <2>1. U \in SUBSET S /\ U \subseteq T /\ U # T
    BY <1>2, <1>4
  <2> QED
    BY <1>1, <2>1
<1>6. IsFiniteSet(T) /\ IsFiniteSet(U) /\ \A y \in T : h[y] \in Int
  BY <1>2, FS_Subset
<1>7. F(T) = f[x] + F(U) /\ G(T) = g[x] + G(U) /\ H(T) = h[x] + H(U)
  BY <1>2, <1>4, <1>6, SumRemove
<1>8. F(U) \in Int /\ G(U) \in Int /\ f[x] \in Int /\ g[x] \in Int /\ h[x] = f[x] + g[x]
  BY <1>2, <1>4, <1>6, SumType
<1> HIDE DEF F, G, H, U
<1> QED
  BY <1>2, <1>5, <1>7, <1>8

LEMMA SumZero ==
    ASSUME NEW S, IsFiniteSet(S), NEW f, \A x \in S : f[x] = 0
    PROVE  SumFunctionOnSet(f, S) = 0
<1> DEFINE sum == SumFunctionOnSet(f, S)
<1>1. sum \in Int
  BY SumType
<1>2. sum = sum + sum
  BY SumPlus
<1>3. sum = 0
  <2> HIDE DEF sum
  <2> QED
    BY <1>1, <1>2
<1> QED
  BY <1>3

LEMMA SumNegated ==
    ASSUME NEW S, IsFiniteSet(S), NEW f, NEW g,
           \A x \in S : f[x] \in Int /\ g[x] = -f[x]
    PROVE  SumFunctionOnSet(g, S) = -SumFunctionOnSet(f, S)
<1> DEFINE z == [x \in S |-> 0]
<1>1. \A x \in S : g[x] \in Int /\ z[x] = f[x] + g[x]
  OBVIOUS
<1>2. SumFunctionOnSet(z, S) = SumFunctionOnSet(f, S) + SumFunctionOnSet(g, S)
  <2> HIDE DEF z
  <2> QED
    BY <1>1, SumPlus
<1>3. SumFunctionOnSet(z, S) = 0
  BY SumZero
<1>4. SumFunctionOnSet(f, S) \in Int /\ SumFunctionOnSet(g, S) \in Int
  BY <1>1, SumType
<1> HIDE DEF z
<1> QED
  BY <1>2, <1>3, <1>4

LEMMA SumNotNegative ==
    ASSUME NEW S, IsFiniteSet(S), NEW f, \A x \in S : f[x] \in Nat
    PROVE  SumFunctionOnSet(f, S) \in Nat
<1> DEFINE Sum(T) == SumFunctionOnSet(f, T)
           Bad == {T \in SUBSET S : Sum(T) \notin Nat}
<1> SUFFICES ASSUME Bad # {} PROVE FALSE
  OBVIOUS
<1>1. PICK T \in Bad : \A U \in Bad : U \subseteq T => U = T
  <2>1. Bad \subseteq SUBSET S
    OBVIOUS
  <2> HIDE DEF Bad
  <2> QED
    BY <2>1, SmallestSet
<1>2. T \in SUBSET S /\ Sum(T) \notin Nat
  BY <1>1
<1>3. PICK x \in T : TRUE
  <2> SUFFICES ASSUME T = {} PROVE FALSE
    OBVIOUS
  <2>1. Sum({}) = 0 /\ Sum({}) \notin Nat
    BY <1>2, SumEmpty
  <2> QED
    BY <2>1
<1> DEFINE U == T \ {x}
<1>4. Sum(U) \in Nat
  <2>1. U \in SUBSET S /\ U \subseteq T /\ U # T
    BY <1>2, <1>3
  <2> QED
    BY <1>1, <2>1
<1>5. Sum(T) = f[x] + Sum(U) /\ f[x] \in Nat
  <2>1. IsFiniteSet(T) /\ (\A y \in T : f[y] \in Int) /\ f[x] \in Nat
    BY <1>2, FS_Subset
  <2> QED
    BY <2>1, SumRemove
<1> HIDE DEF Sum, U
<1> QED
  BY <1>2, <1>4, <1>5

(* A sum may be taken class by class.                                      *)
ClassOf(c, T, k) == {x \in T : c[x] = k}

LEMMA SumByClass ==
    ASSUME NEW S, IsFiniteSet(S), NEW K, IsFiniteSet(K), NEW c,
           \A x \in S : c[x] \in K, NEW f, \A x \in S : f[x] \in Int
    PROVE  SumFunctionOnSet([k \in K |-> SumFunctionOnSet(f, ClassOf(c, S, k))], K)
              = SumFunctionOnSet(f, S)
<1> DEFINE Sum(T) == SumFunctionOnSet(f, T)
           Parts(T) == [k \in K |-> Sum(ClassOf(c, T, k))]
           All(T) == SumFunctionOnSet(Parts(T), K)
           Bad == {T \in SUBSET S : All(T) # Sum(T)}
<1> SUFFICES ASSUME Bad # {} PROVE FALSE
  OBVIOUS
<1>1. PICK T \in Bad : \A U \in Bad : U \subseteq T => U = T
  <2>1. Bad \subseteq SUBSET S
    OBVIOUS
  <2> HIDE DEF Bad
  <2> QED
    BY <2>1, SmallestSet
<1>2. T \in SUBSET S /\ All(T) # Sum(T)
  BY <1>1
<1>3. PICK x \in T : TRUE
  <2> SUFFICES ASSUME T = {} PROVE FALSE
    OBVIOUS
  <2>1. All({}) # Sum({})
    BY <1>2
  <2>2. \A k \in K : ClassOf(c, {}, k) = {}
    BY DEF ClassOf
  <2>3. Sum({}) = 0 /\ \A k \in K : Parts({})[k] = 0
    BY <2>2, SumEmpty
  <2>4. All({}) = 0
    <3> DEFINE p == Parts({})
    <3>1. \A k \in K : p[k] = 0
      BY <2>3
    <3> HIDE DEF p
    <3>2. SumFunctionOnSet(p, K) = 0
      BY <3>1, SumZero
    <3> QED
      BY <3>2 DEF p
  <2> QED
    BY <2>1, <2>3, <2>4
<1> DEFINE U == T \ {x}
<1>4. All(U) = Sum(U)
  <2>1. U \in SUBSET S /\ U \subseteq T /\ U # T
    BY <1>2, <1>3
  <2> QED
    BY <1>1, <2>1
<1>5. IsFiniteSet(T) /\ IsFiniteSet(U)
  BY <1>2, FS_Subset
<1>6. Sum(T) = f[x] + Sum(U) /\ Sum(U) \in Int /\ f[x] \in Int
  BY <1>2, <1>3, <1>5, SumRemove, SumType
<1>7. ASSUME NEW k \in K
      PROVE  Parts(T)[k] \in Int /\ Parts(U)[k] \in Int
  <2>1. ClassOf(c, T, k) \in SUBSET S /\ ClassOf(c, U, k) \in SUBSET S
    BY <1>2 DEF ClassOf
  <2>2. IsFiniteSet(ClassOf(c, T, k)) /\ IsFiniteSet(ClassOf(c, U, k))
    BY <2>1, FS_Subset
  <2> QED
    BY <2>1, <2>2, SumType
<1>8. ASSUME NEW k \in K \ {c[x]} PROVE Parts(T)[k] = Parts(U)[k]
  <2>1. ClassOf(c, T, k) = ClassOf(c, U, k)
    BY <1>8 DEF ClassOf
  <2> QED
    BY <2>1
<1>9. c[x] \in K /\ Parts(T)[c[x]] = f[x] + Parts(U)[c[x]]
  <2> DEFINE C == ClassOf(c, T, c[x])
  <2>1. c[x] \in K /\ x \in C /\ C \in SUBSET S /\ C \ {x} = ClassOf(c, U, c[x])
    BY <1>2, <1>3 DEF ClassOf
  <2>2. IsFiniteSet(C) /\ \A y \in C : f[y] \in Int
    BY <2>1, FS_Subset
  <2>3. Sum(C) = f[x] + Sum(C \ {x})
    <3> HIDE DEF C
    <3> QED
      BY <2>1, <2>2, SumRemove
  <2> QED
    BY <2>1, <2>3
<1>10. All(T) = All(U) + (Parts(T)[c[x]] - Parts(U)[c[x]])
  <2> DEFINE p == Parts(T)
             q == Parts(U)
  <2>1. /\ \A k \in K : q[k] \in Int
        /\ p[c[x]] \in Int
        /\ \A k \in K \ {c[x]} : p[k] = q[k]
    BY <1>7, <1>8, <1>9
  <2> HIDE DEF p, q
  <2>2. SumFunctionOnSet(p, K) = SumFunctionOnSet(q, K) + (p[c[x]] - q[c[x]])
    BY <1>9, <2>1, SumUpdate
  <2> QED
    BY <2>2 DEF p, q
<1>11. Parts(U)[c[x]] \in Int
  BY <1>7, <1>9
<1>12. Parts(T)[c[x]] - Parts(U)[c[x]] = f[x]
  <2> DEFINE n == Parts(U)[c[x]]
             m == Parts(T)[c[x]]
  <2>1. n \in Int /\ m = f[x] + n
    BY <1>9, <1>11
  <2> HIDE DEF n, m
  <2>2. m - n = f[x]
    BY <1>6, <2>1
  <2> QED
    BY <2>2 DEF n, m
<1> HIDE DEF Sum, All, Parts, U
<1> QED
  BY <1>2, <1>4, <1>6, <1>10, <1>12

(* The elements of one value.                                              *)
LEMMA SumConstant ==
    ASSUME NEW S, IsFiniteSet(S), NEW c \in Int, NEW f, \A x \in S : f[x] = c
    PROVE  SumFunctionOnSet(f, S) = Cardinality(S) * c
<1> DEFINE Sum(T) == SumFunctionOnSet(f, T)
           Bad == {T \in SUBSET S : Sum(T) # Cardinality(T) * c}
<1>1. SUFFICES Bad = {}
  OBVIOUS
<1>2. SUFFICES ASSUME Bad # {} PROVE FALSE
  OBVIOUS
<1>3. PICK T \in Bad : \A U \in Bad : U \subseteq T => U = T
  <2>1. Bad \subseteq SUBSET S
    OBVIOUS
  <2> HIDE DEF Bad
  <2> QED
    BY <1>2, <2>1, SmallestSet
<1>4. T \subseteq S /\ IsFiniteSet(T) /\ Sum(T) # Cardinality(T) * c
  BY <1>3, FS_Subset
<1>5. T # {}
  <2>1. Sum({}) = 0 /\ Cardinality({}) = 0 /\ 0 * c = 0
    BY SumEmpty, FS_EmptySet
  <2> HIDE DEF Sum
  <2> QED
    BY <1>4, <2>1 DEF Sum
<1>6. PICK x : x \in T
  BY <1>5
<1>7. PICK R : R = T \ {x}
  OBVIOUS
<1>8. /\ R \subseteq S /\ R \notin Bad /\ IsFiniteSet(R)
      /\ Cardinality(R) = Cardinality(T) - 1 /\ Cardinality(T) \in Nat
  <2>1. R \subseteq S /\ R \subseteq T /\ R # T
    BY <1>4, <1>6, <1>7
  <2>2. R \notin Bad
    BY <1>3, <2>1
  <2> QED
    BY <1>4, <1>6, <1>7, <2>1, <2>2, FS_RemoveElement, FS_CardinalityType
<1>9. Sum(T) = c + Sum(R)
  <2>1. f[x] = c /\ \A y \in T : f[y] \in Int
    BY <1>4, <1>6
  <2> QED
    BY <1>4, <1>6, <1>7, <2>1, SumRemove
<1>10. Sum(R) = Cardinality(R) * c
  BY <1>8
<1>11. PICK k \in Nat : k = Cardinality(T)
  BY <1>8
<1>12. c + (k - 1) * c = k * c
  OBVIOUS
<1> HIDE DEF Sum, Bad
<1>13. Sum(T) # k * c /\ Sum(T) = c + (k - 1) * c
  BY <1>4, <1>8, <1>9, <1>10, <1>11 DEF Sum
<1> QED
  BY <1>12, <1>13

-----------------------------------------------------------------------------
(* Go's division gives an integer; so do the rounding and the interest.    *)
LEMMA QuoInt ==
    ASSUME NEW n \in Int, NEW d \in Nat, d > 0
    PROVE  Quo(n, d) \in Int
  BY DEF Quo

LEMMA RoundInt ==
    ASSUME NEW n \in Int, NEW d \in Nat, d > 0
    PROVE  RoundHalfEven(n, d) \in Int
<1> DEFINE q == Quo(n, d)
<1>1. q \in Int
  BY QuoInt
<1>2. AwayFromZero(n, q) \in Int
  <2> HIDE DEF q
  <2> QED BY <1>1 DEF AwayFromZero
<1>3. RoundHalfEven(n, d) \in {q, AwayFromZero(n, q)}
  BY Zenon DEF RoundHalfEven
<1> QED BY <1>1, <1>2, <1>3

LEMMA InterestInt ==
    ASSUME NEW amount \in Int, NEW bps \in Nat, NEW days \in Nat
    PROVE  InterestForDays(amount, bps, days) \in Int
<1>1. amount * bps \in Int
  OBVIOUS
<1>2. (amount * bps) * days \in Int
  BY <1>1
<1>3. \A n \in Int, d \in Nat : d > 0 => RoundHalfEven(n, d) \in Int
  BY RoundInt
<1>4. RoundHalfEven((amount * bps) * days, 10000 * 365) \in Int
  <2> DEFINE n == (amount * bps) * days
             d == 10000 * 365
  <2>1. n \in Int /\ d \in Nat /\ d > 0
    BY <1>2
  <2> HIDE DEF n, d
  <2>2. RoundHalfEven(n, d) \in Int
    BY <2>1, <1>3
  <2> QED BY <2>2 DEF n, d
<1> QED BY <1>4 DEF InterestForDays

LEMMA DivMod ==
    ASSUME NEW n \in Nat, NEW d \in Nat, d > 0
    PROVE  /\ n \div d \in Int /\ n % d \in 0..(d - 1)
           /\ n = d * (n \div d) + (n % d)
<1>1. n \div d \in Int
  OBVIOUS
<1>2. n % d \in 0..(d - 1)
  OBVIOUS
<1>3. n % d = n - d * (n \div d)
  OBVIOUS
<1>4. PICK q \in Int : q = n \div d
  BY <1>1
<1>5. PICK r \in 0..(d - 1) : r = n % d
  BY <1>2
<1>6. r = n - d * q
  BY <1>3, <1>4, <1>5, Zenon
<1>7. n = d * q + r
  <2>1. d * q \in Int
    OBVIOUS
  <2> QED
    BY <1>6, <2>1
<1> QED
  BY <1>1, <1>2, <1>4, <1>5, <1>7, Zenon

(* Go's quotient is towards zero.                                          *)
LEMMA QuoRemainder ==
    ASSUME NEW n \in Int, NEW d \in Nat \ {0}
    PROVE  /\ Quo(n, d) \in Int /\ Remainder(n, d) \in Int
           /\ n = d * Quo(n, d) + Remainder(n, d)
           /\ n >= 0 => Remainder(n, d) \in 0..(d - 1)
           /\ n < 0 => -Remainder(n, d) \in 0..(d - 1)
<1>1. CASE n >= 0
  <2>0. n \in Nat /\ d \in Nat /\ d > 0
    BY <1>1
  <2>1. n \div d \in Int /\ n % d \in 0..(d - 1) /\ n = d * (n \div d) + (n % d)
    BY <2>0, DivMod, Zenon
  <2>2. Quo(n, d) = n \div d
    BY <1>1 DEF Quo
  <2>3. Remainder(n, d) = n % d
    BY <2>1, <2>2 DEF Remainder
  <2> QED
    BY <1>1, <2>1, <2>2, <2>3
<1>2. CASE n < 0
  <2>0. -n \in Nat /\ d \in Nat /\ d > 0
    BY <1>2
  <2>1. /\ (-n) \div d \in Int /\ (-n) % d \in 0..(d - 1)
        /\ -n = d * ((-n) \div d) + ((-n) % d)
    BY <2>0, DivMod, Zenon
  <2>2. PICK q \in Int, r \in 0..(d - 1) : q = (-n) \div d /\ r = (-n) % d
    BY <2>1
  <2>3. Quo(n, d) = -q
    BY <1>2, <2>2 DEF Quo
  <2>4. d * (-q) = -(d * q) /\ d * q \in Int
    BY <2>2
  <2>5. n = d * (-q) - r
    BY <2>1, <2>2, <2>4
  <2>6. Remainder(n, d) = -r
    BY <2>2, <2>3, <2>4, <2>5 DEF Remainder
  <2> QED
    BY <1>2, <2>2, <2>3, <2>5, <2>6
<1> QED
  BY <1>1, <1>2

(* Money is rounded to the nearest unit, and to the even one of two that   *)
(* are equally near, whatever the amount and its sign.                     *)
LEMMA RoundsToNearestEven ==
    ASSUME NEW num \in Int, NEW den \in Nat \ {0}, den % 2 = 0
    PROVE  IsNearestEven(RoundHalfEven(num, den), num, den)
<1>1. PICK q \in Int, m \in Int : q = Quo(num, den) /\ m = Remainder(num, den)
  BY QuoRemainder
<1>2. /\ num = den * q + m
      /\ num >= 0 => m \in 0..(den - 1)
      /\ num < 0 => -m \in 0..(den - 1)
  BY <1>1, QuoRemainder
<1>3. PICK half \in Nat : den = 2 * half /\ half = den \div 2
  OBVIOUS
<1>4. PICK r \in 0..(den - 1) : r = AbsOf(m)
  BY <1>2 DEF AbsOf
<1>5. PICK x : x = RoundHalfEven(num, den)
  OBVIOUS
<1>6. x = IF r > half \/ (r = half /\ q % 2 # 0) THEN AwayFromZero(num, q) ELSE q
  BY <1>1, <1>3, <1>4, <1>5 DEF RoundHalfEven
<1>7. \/ x = q /\ ~(r > half) /\ (r = half => q % 2 = 0)
      \/ /\ r >= half /\ (r = half => q % 2 # 0)
         /\ x = IF num < 0 THEN q - 1 ELSE q + 1
  BY <1>3, <1>6 DEF AwayFromZero
<1>8. PICK off \in Nat : /\ off = AbsOf(2 * (x * den - num))
                         /\ x = q => off = 2 * r
                         /\ x # q => off = 2 * (den - r)
  <2>1. q * den = den * q /\ den * q \in Int
    OBVIOUS
  <2>2. /\ (q + 1) * den = den * q + den
        /\ (q - 1) * den = den * q - den
    OBVIOUS
  <2>3. CASE x = q
    <3>1. x * den - num = -m
      BY <1>2, <2>1, <2>3
    <3> QED
      BY <1>4, <2>3, <3>1 DEF AbsOf
  <2>4. CASE x # q /\ num >= 0
    <3>1. x * den - num = den - m /\ r = m
      BY <1>2, <1>4, <1>7, <2>1, <2>2, <2>4 DEF AbsOf
    <3> QED
      BY <1>4, <2>4, <3>1 DEF AbsOf
  <2>5. CASE x # q /\ num < 0
    <3>1. x * den - num = -den - m /\ r = -m
      BY <1>2, <1>4, <1>7, <2>1, <2>2, <2>5 DEF AbsOf
    <3> QED
      BY <1>4, <2>5, <3>1 DEF AbsOf
  <2> QED
    BY <2>3, <2>4, <2>5
<1>9. /\ x \in Int /\ off \in Nat
      /\ \/ x = q /\ r <= half /\ (r = half => q % 2 = 0) /\ off = 2 * r
         \/ /\ x \in {q - 1, q + 1} /\ r >= half /\ (r = half => q % 2 # 0)
            /\ off = 4 * half - 2 * r
  <2>1. r \in Nat /\ half \in Nat /\ q \in Int
    BY <1>1, <1>3, <1>4
  <2>2. 2 * (den - r) = 4 * half - 2 * r
    BY <1>3, <2>1
  <2>3. off \in Nat /\ (x = q => off = 2 * r) /\ (x # q => off = 4 * half - 2 * r)
    <3>1. x = q => off = 2 * r
      BY <1>8
    <3>2. x # q => off = 2 * (den - r)
      BY <1>8
    <3> QED
      BY <2>2, <3>1, <3>2, Zenon
  <2>4. CASE x = q /\ ~(r > half) /\ (r = half => q % 2 = 0)
    BY <2>1, <2>3, <2>4
  <2>5. CASE /\ r >= half /\ (r = half => q % 2 # 0)
             /\ x = IF num < 0 THEN q - 1 ELSE q + 1
    <3>1. x \in {q - 1, q + 1} /\ x # q
      BY <2>1, <2>5
    <3> QED
      BY <2>1, <2>3, <2>5, <3>1
  <2> QED
    BY <1>7, <2>4, <2>5
<1>10. off <= 2 * half /\ (off = 2 * half => x % 2 = 0)
  <2>1. q % 2 # 0 => (q + 1) % 2 = 0 /\ (q - 1) % 2 = 0
    BY <1>1
  <2>2. r \in Nat /\ half \in Nat
    BY <1>3, <1>4
  <2>3. CASE x = q /\ r <= half /\ (r = half => q % 2 = 0) /\ off = 2 * r
    BY <2>2, <2>3
  <2>4. CASE /\ x \in {q - 1, q + 1} /\ r >= half /\ (r = half => q % 2 # 0)
             /\ off = 4 * half - 2 * r
    <3>1. off <= 2 * half /\ (off = 2 * half => r = half)
      BY <2>2, <2>4
    <3>2. r = half => x % 2 = 0
      BY <2>1, <2>4
    <3> QED
      BY <3>1, <3>2
  <2> QED
    BY <1>9, <2>3, <2>4
<1>11. off = AbsOf(2 * (RoundHalfEven(num, den) * den - num))
  BY <1>5, <1>8
<1> QED
  BY <1>3, <1>5, <1>10, <1>11 DEF IsNearestEven

(* A rate and the interest for a number of days are banker's rounding of   *)
(* the exact quotient, for amounts of either sign ("using banker's         *)
(* rounding", money.go).                                                   *)
THEOREM RatesAreBankersRounding ==
    \A amount \in Int, bps \in Nat :
        /\ RateIsRounded(amount, bps)
        /\ \A days \in Nat : InterestIsRounded(amount, bps, days)
<1> SUFFICES ASSUME NEW amount \in Int, NEW bps \in Nat
             PROVE  /\ RateIsRounded(amount, bps)
                    /\ \A days \in Nat : InterestIsRounded(amount, bps, days)
  OBVIOUS
<1>1. PICK k \in Int : k = amount * bps
  OBVIOUS
<1>2. PICK d \in Nat \ {0} : d = 10000 /\ d % 2 = 0
  BY SMT
<1>3. PICK y \in Nat \ {0} : y = 3650000 /\ y % 2 = 0 /\ y = 10000 * 365
  BY SMT
<1>4. IsNearestEven(RoundHalfEven(k, d), k, d)
  BY <1>2, RoundsToNearestEven
<1>5. ApplyRate(amount, bps) = RoundHalfEven(k, d)
  BY <1>1, <1>2, SMT DEF ApplyRate
<1>6. ASSUME NEW days \in Nat
      PROVE  /\ IsNearestEven(RoundHalfEven(k * days, y), k * days, y)
             /\ InterestForDays(amount, bps, days) = RoundHalfEven(k * days, y)
  <2>1. k * days \in Int
    OBVIOUS
  <2>2. IsNearestEven(RoundHalfEven(k * days, y), k * days, y)
    BY <1>3, <2>1, RoundsToNearestEven
  <2>3. InterestForDays(amount, bps, days) = RoundHalfEven(k * days, y)
    BY <1>1, <1>3, SMT DEF InterestForDays
  <2> QED
    BY <2>2, <2>3
<1> QED
  BY <1>1, <1>2, <1>3, <1>4, <1>5, <1>6, SMT DEF RateIsRounded, InterestIsRounded

(* "Allocate splits the amount into n parts that sum exactly to the        *)
(* original" (money.go), whatever the amount and its sign, and no two      *)
(* parts differ by more than one unit.                                     *)
THEOREM AllocateLosesNothing ==
    ASSUME NEW amount \in Int, NEW n \in Nat \ {0}
    PROVE  LET share == Allocate(amount, n)
           IN  /\ SumFunction(share) = amount
               /\ \A i, j \in 1..n : AbsOf(share[i] - share[j]) <= 1
<1>1. PICK b \in Int, m \in Int : b = Quo(amount, n) /\ m = Remainder(amount, n)
  BY QuoRemainder
<1>2. amount = n * b + m /\ (m \in 0..(n - 1) \/ -m \in 0..(n - 1))
  <2>1. amount >= 0 \/ amount < 0
    OBVIOUS
  <2> QED
    BY <1>1, <2>1, QuoRemainder, Zenon
<1>3. PICK c \in 0..(n - 1), u \in {1, -1} : m = c * u
  <2>1. m = m * 1 /\ m = (-m) * (-1)
    OBVIOUS
  <2> QED
    BY <1>2, <2>1
<1>4. PICK share : share = Allocate(amount, n)
  OBVIOUS
<1>5. /\ DOMAIN share = 1..n
      /\ \A i \in 1..n : share[i] = IF i <= c THEN b + u ELSE b
  <2>1. share = [i \in 1..n |-> IF m > 0 /\ i <= m THEN b + 1
                                ELSE IF m < 0 /\ i <= -m THEN b - 1
                                ELSE b]
    BY <1>1, <1>4, Zenon DEF Allocate
  <2>2. CASE u = 1
    BY <1>3, <2>1, <2>2
  <2>3. CASE u = -1
    BY <1>3, <2>1, <2>3
  <2> QED
    BY <2>2, <2>3
<1> DEFINE S == 1..c
           T == (c + 1)..n
<1>6. /\ IsFiniteSet(S) /\ IsFiniteSet(T) /\ S \cap T = {} /\ S \cup T = 1..n
      /\ Cardinality(S) = c /\ Cardinality(T) = n - c
  <2>1. IsFiniteSet(S) /\ IsFiniteSet(T) /\ Cardinality(S) = c /\ Cardinality(T) = n - c
    BY FS_Interval
  <2>2. S \cap T = {} /\ S \cup T = 1..n
    OBVIOUS
  <2> QED
    BY <2>1, <2>2
<1>7. (\A i \in S : share[i] = b + u) /\ (\A i \in T : share[i] = b)
  BY <1>5
<1>8. /\ SumFunctionOnSet(share, S) = c * (b + u)
      /\ SumFunctionOnSet(share, T) = (n - c) * b
  <2>1. b + u \in Int
    OBVIOUS
  <2> HIDE DEF S, T
  <2> QED
    BY <1>6, <1>7, <2>1, SumConstant
<1>9. SumFunction(share) = SumFunctionOnSet(share, S) + SumFunctionOnSet(share, T)
  <2>1. \A i \in S \cup T : share[i] \in Int
    BY <1>7
  <2>2. SumFunction(share) = SumFunctionOnSet(share, S \cup T)
    BY <1>5, <1>6, SumFunctionIsOnDomain
  <2> HIDE DEF S, T
  <2> QED
    BY <1>6, <2>1, <2>2, SumUnion
<1>10. c * (b + u) + (n - c) * b = n * b + c * u
  OBVIOUS
<1>11. SumFunction(share) = amount
  BY <1>2, <1>3, <1>8, <1>9, <1>10
<1>12. ASSUME NEW i \in 1..n, NEW j \in 1..n PROVE AbsOf(share[i] - share[j]) <= 1
  <2>1. share[i] \in {b, b + u} /\ share[j] \in {b, b + u}
    BY <1>5
  <2>2. share[i] - share[j] \in {0, 1, -1}
    BY <2>1
  <2> QED
    BY <2>2 DEF AbsOf
<1> QED
  BY <1>4, <1>11, <1>12, Zenon

=============================================================================
