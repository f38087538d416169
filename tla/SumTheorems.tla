----------------------------- MODULE SumTheorems -----------------------------
(***************************************************************************)
(* Facts about SumFunctionOnSet(f, S), the sum of f[x] over a finite set   *)
(* S, on which the conservation properties of the ledgers rest.            *)
(*                                                                         *)
(* The library defines the sum by a recursive function over the subsets    *)
(* of S that takes one element at a time, picked by CHOOSE.  That the      *)
(* recursion has a solution, and that the order does not matter, is proved *)
(* by induction over S in the form of a smallest counterexample: the       *)
(* strict-subset ordering on the subsets of a finite set is well-founded,  *)
(* so a non-empty set of counterexamples has a minimal element.            *)
(*                                                                         *)
(* The same argument gives what the ordered queries rest on: a finite set  *)
(* that is totally ordered has a last member (LastOf), of integers a       *)
(* greatest one (Greatest), and counting the members before each lists     *)
(* them all without repetition (Ranked).  Last, what INSERT, UPDATE and    *)
(* DELETE do to a table, and what ORDER BY event_time, id lists.           *)
(***************************************************************************)
EXTENDS Integers, FiniteSets, Functions, Tables, FiniteSetTheorems, TLAPS

(* The body of the loop of Chosen. *)
TakeIf(S, q, r, taken, x) == IF x \in S THEN Append(taken, x) ELSE taken

Choice == INSTANCE FoldTheorems WITH Op <- TakeIf

(* A non-empty set of subsets of a finite set has a minimal member.        *)
LEMMA SmallestSubset ==
    ASSUME NEW S, IsFiniteSet(S), NEW Bad \in SUBSET (SUBSET S), Bad # {}
    PROVE  \E T \in Bad : \A U \in Bad : U \subseteq T => U = T
<1>1. IsWellFoundedOn(StrictSubsetOrdering(S), FiniteSubsetsOf(S))
  BY FS_StrictSubsetOrderingWellFounded
<1>2. Bad \subseteq FiniteSubsetsOf(S)
  BY FS_FiniteSubsetsOfFinite
<1>3. PICK T \in Bad : \A U \in Bad : ~ <<U, T>> \in StrictSubsetOrdering(S)
  BY <1>1, <1>2, WFMin
<1>4. \A U \in Bad : U \subseteq T => U = T
  BY <1>3 DEF StrictSubsetOrdering
<1> QED BY <1>4

(* A non-empty finite set whose members an ordering R compares has a last   *)
(* member.                                                                  *)
LEMMA LastOf ==
    ASSUME NEW S, IsFiniteSet(S), S # {}, NEW R,
           \A x, y \in S : x # y => <<x, y>> \in R \/ <<y, x>> \in R,
           \A x, y, z \in S : <<x, y>> \in R /\ <<y, z>> \in R => <<x, z>> \in R
    PROVE  \E m \in S : \A y \in S : y # m => <<y, m>> \in R
<1> DEFINE Ends(T) == \E m \in T : \A y \in T : y # m => <<y, m>> \in R
           Bad == {T \in SUBSET S : T # {} /\ ~ Ends(T)}
<1> SUFFICES ASSUME Bad # {} PROVE FALSE
  OBVIOUS
<1>1. PICK T \in Bad : \A U \in Bad : U \subseteq T => U = T
  <2> HIDE DEF Bad
  <2>1. Bad \in SUBSET (SUBSET S)
    BY DEF Bad
  <2> QED BY <2>1, SmallestSubset
<1>2. T \in SUBSET S /\ T # {} /\ ~ Ends(T)
  BY <1>1
<1>3. PICK x \in T : TRUE
  BY <1>2
<1>4. T \ {x} # {}
  BY <1>2, <1>3
<1>5. Ends(T \ {x})
  <2> HIDE DEF Ends
  <2> QED BY <1>1, <1>2, <1>3, <1>4
<1>6. PICK m \in T \ {x} : \A y \in T \ {x} : y # m => <<y, m>> \in R
  BY <1>5
<1>7. CASE <<x, m>> \in R
  BY <1>2, <1>6, <1>7
<1>8. CASE <<m, x>> \in R
  <2>1. \A y \in T : y # x => <<y, x>> \in R
    BY <1>2, <1>3, <1>6, <1>8
  <2> QED BY <1>2, <1>3, <2>1
<1> QED BY <1>2, <1>3, <1>6, <1>7, <1>8

(* A non-empty finite set of integers has a greatest member. *)
LEMMA Greatest ==
    ASSUME NEW S, IsFiniteSet(S), S # {}, S \subseteq Int
    PROVE  \E m \in S : \A y \in S : y <= m
<1> DEFINE R == {p \in S \X S : p[1] < p[2]}
<1>1. \A x, y \in S : <<x, y>> \in R <=> x < y
  OBVIOUS
<1>2. /\ \A x, y \in S : x # y => <<x, y>> \in R \/ <<y, x>> \in R
      /\ \A x, y, z \in S : <<x, y>> \in R /\ <<y, z>> \in R => <<x, z>> \in R
  <2> HIDE DEF R
  <2> QED BY <1>1
<1>3. \E m \in S : \A y \in S : y # m => <<y, m>> \in R
  <2> HIDE DEF R
  <2> QED BY <1>2, LastOf
<1>4. PICK m \in S : \A y \in S : y # m => <<y, m>> \in R
  BY <1>3
<1>5. ASSUME NEW y \in S PROVE y <= m
  <2> y \in Int /\ m \in Int
    OBVIOUS
  <2>1. CASE y = m
    BY <2>1
  <2>2. CASE y # m
    <3> HIDE DEF R
    <3>1. <<y, m>> \in R
      BY <1>4, <2>2
    <3>2. y < m
      BY <1>1, <3>1
    <3> QED BY <3>2
  <2> QED BY <2>1, <2>2
<1> QED BY <1>5

(* The members of S that R places before x. *)
Below(S, R, x) == {y \in S : <<y, x>> \in R}

StrictOrder(S, R) ==
    /\ \A x, y \in S : x # y => <<x, y>> \in R \/ <<y, x>> \in R
    /\ \A x, y \in S : <<x, y>> \in R => <<y, x>> \notin R
    /\ \A x, y, z \in S : <<x, y>> \in R /\ <<y, z>> \in R => <<x, z>> \in R

(* A strict ordering of a finite set has a member of every rank. *)
LEMMA Ranked ==
    ASSUME NEW S, IsFiniteSet(S), NEW R, StrictOrder(S, R)
    PROVE  \A n \in 1 .. Cardinality(S) : \E x \in S : Cardinality(Below(S, R, x)) = n - 1
<1> DEFINE AllRanks(T) ==
               \A n \in 1 .. Cardinality(T) : \E x \in T : Cardinality(Below(T, R, x)) = n - 1
           Bad == {T \in SUBSET S : ~ AllRanks(T)}
<1> SUFFICES ASSUME Bad # {} PROVE FALSE
  OBVIOUS
<1>1. PICK T \in Bad : \A U \in Bad : U \subseteq T => U = T
  <2> HIDE DEF Bad
  <2>1. Bad \in SUBSET (SUBSET S)
    BY DEF Bad
  <2> QED BY <2>1, SmallestSubset
<1>2. T \in SUBSET S /\ ~ AllRanks(T)
  BY <1>1
<1>3. IsFiniteSet(T) /\ Cardinality(T) \in Nat
  BY <1>2, FS_Subset, FS_CardinalityType
<1>4. T # {}
  <2>1. CASE T = {}
    <3>1. Cardinality(T) = 0
      BY <2>1, FS_EmptySet
    <3>2. 1 .. Cardinality(T) = {}
      BY <3>1
    <3> QED BY <1>2, <3>2
  <2> QED BY <2>1
<1>5. PICK m \in T : \A y \in T : y # m => <<y, m>> \in R
  <2>1. /\ \A x, y \in T : x # y => <<x, y>> \in R \/ <<y, x>> \in R
        /\ \A x, y, z \in T : <<x, y>> \in R /\ <<y, z>> \in R => <<x, z>> \in R
    BY <1>2 DEF StrictOrder
  <2> QED BY <1>3, <1>4, <2>1, LastOf
<1> DEFINE U == T \ {m}
<1>6. /\ Cardinality(U) = Cardinality(T) - 1
      /\ U \in SUBSET S /\ U \subseteq T /\ U # T
  BY <1>2, <1>3, FS_RemoveElement
<1>7. AllRanks(U)
  <2> HIDE DEF U, AllRanks
  <2> QED BY <1>1, <1>6
<1>8. ASSUME NEW n \in 1 .. Cardinality(T)
      PROVE  \E x \in T : Cardinality(Below(T, R, x)) = n - 1
  <2>1. CASE n = Cardinality(T)
    <3>1. Below(T, R, m) = U
      BY <1>2, <1>5 DEF Below, StrictOrder
    <3> HIDE DEF U
    <3> QED BY <1>6, <2>1, <3>1
  <2>2. CASE n # Cardinality(T)
    <3>1. n \in 1 .. Cardinality(U)
      <4> HIDE DEF U
      <4> QED BY <1>3, <1>6, <2>2
    <3>2. PICK x \in U : Cardinality(Below(U, R, x)) = n - 1
      <4> HIDE DEF U
      <4> QED BY <1>7, <3>1
    <3>3. Below(T, R, x) = Below(U, R, x)
      BY <1>2, <1>5 DEF Below, StrictOrder
    <3> QED BY <3>2, <3>3
  <2> QED BY <2>1, <2>2
<1> QED BY <1>2, <1>8
-----------------------------------------------------------------------------
(* The recursion behind the sum has exactly one solution.                  *)

Picked(s) == CHOOSE x \in s : TRUE

IsSumTable(F, f, S) ==
    F = [s \in SUBSET S |-> IF s = {} THEN 0 ELSE f[Picked(s)] + F[s \ {Picked(s)}]]

SumTable(f, S) == CHOOSE F : IsSumTable(F, f, S)

(* The library's fold is the last entry of the table. *)
LEMMA SumIsTableEntry ==
    ASSUME NEW f, NEW S
    PROVE  SumFunctionOnSet(f, S) = SumTable(f, S)[S]
  BY DEF SumFunctionOnSet, FoldFunctionOnSet, MapThenFoldSet, SumTable, IsSumTable, Picked

(* Two tables agree on the subsets they share.                             *)
LEMMA SumTablesAgree ==
    ASSUME NEW f, NEW S, IsFiniteSet(S), NEW T, NEW F, NEW G,
           IsSumTable(F, f, S), IsSumTable(G, f, T)
    PROVE  \A s \in SUBSET S : s \subseteq T => F[s] = G[s]
<1> DEFINE Bad == {s \in SUBSET S : s \subseteq T /\ F[s] # G[s]}
<1> SUFFICES ASSUME Bad # {} PROVE FALSE
  OBVIOUS
<1>1. PICK s \in Bad : \A u \in Bad : u \subseteq s => u = s
  <2> HIDE DEF Bad
  <2>1. Bad \in SUBSET (SUBSET S)
    BY DEF Bad
  <2> QED BY <2>1, SmallestSubset
<1>2. s \in SUBSET S /\ s \in SUBSET T /\ F[s] # G[s]
  BY <1>1
<1>3. s # {}
  BY <1>2 DEF IsSumTable
<1>4. Picked(s) \in s
  BY <1>3 DEF Picked
<1>5. F[s \ {Picked(s)}] = G[s \ {Picked(s)}]
  BY <1>1, <1>2, <1>4
<1>6. /\ F[s] = f[Picked(s)] + F[s \ {Picked(s)}]
      /\ G[s] = f[Picked(s)] + G[s \ {Picked(s)}]
  BY <1>2, <1>3 DEF IsSumTable
<1> QED BY <1>2, <1>5, <1>6

(* Every finite set has a table. *)
LEMMA SumTableExists ==
    ASSUME NEW f, NEW S, IsFiniteSet(S)
    PROVE  IsSumTable(SumTable(f, S), f, S)
<1> DEFINE Bad == {T \in SUBSET S : ~ IsSumTable(SumTable(f, T), f, T)}
<1> SUFFICES ASSUME Bad # {} PROVE FALSE
  OBVIOUS
<1>1. PICK T \in Bad : \A U \in Bad : U \subseteq T => U = T
  <2> HIDE DEF Bad
  <2>1. Bad \in SUBSET (SUBSET S)
    BY DEF Bad
  <2> QED BY <2>1, SmallestSubset
<1>2. T \in SUBSET S /\ ~ IsSumTable(SumTable(f, T), f, T)
  BY <1>1
<1>3. \A U \in SUBSET T : U # T => IsFiniteSet(U) /\ IsSumTable(SumTable(f, U), f, U)
  BY <1>1, <1>2, FS_Subset
<1> DEFINE Entry(u) == SumTable(f, u)[u]
           F == [s \in SUBSET T |-> IF s = {} THEN 0
                                    ELSE f[Picked(s)] + Entry(s \ {Picked(s)})]
<1>4. ASSUME NEW u \in SUBSET T, u # T
      PROVE  F[u] = Entry(u)
  <2>1. IsSumTable(SumTable(f, u), f, u) /\ IsFiniteSet(u)
    BY <1>3, <1>4
  <2>2. CASE u = {}
    <3>1. SumTable(f, u)[u] = 0
      BY <2>1, <2>2 DEF IsSumTable
    <3> QED BY <2>2, <3>1
  <2>3. CASE u # {}
    <3> DEFINE v == u \ {Picked(u)}
    <3>1. v \in SUBSET u /\ v \in SUBSET T /\ v # T
      BY <1>4
    <3>2. IsSumTable(SumTable(f, v), f, v) /\ IsFiniteSet(v)
      BY <1>3, <3>1
    <3>3. SumTable(f, v)[v] = SumTable(f, u)[v]
      <4> HIDE DEF v
      <4> QED BY <2>1, <3>1, <3>2, SumTablesAgree
    <3>4. SumTable(f, u)[u] = f[Picked(u)] + SumTable(f, u)[v]
      BY <2>1, <2>3 DEF IsSumTable
    <3>5. F[u] = f[Picked(u)] + SumTable(f, v)[v]
      BY <2>3
    <3> QED BY <3>3, <3>4, <3>5
  <2> QED BY <2>2, <2>3
<1>5. IsSumTable(F, f, T)
  <2>1. ASSUME NEW s \in SUBSET T, s # {}
        PROVE  Entry(s \ {Picked(s)}) = F[s \ {Picked(s)}]
    <3>1. Picked(s) \in s
      BY <2>1 DEF Picked
    <3>2. s \ {Picked(s)} \in SUBSET T /\ s \ {Picked(s)} # T
      BY <3>1
    <3> HIDE DEF F, Entry
    <3> QED BY <1>4, <3>2
  <2>2. F = [s \in SUBSET T |-> IF s = {} THEN 0 ELSE f[Picked(s)] + F[s \ {Picked(s)}]]
    <3> HIDE DEF Entry
    <3> QED BY <2>1
  <2> HIDE DEF F
  <2> QED BY <2>2 DEF IsSumTable
<1> HIDE DEF F
<1> QED BY <1>2, <1>5 DEF SumTable
-----------------------------------------------------------------------------
(* The recursion equation, for any finite set.                             *)
LEMMA SumRecursion ==
    ASSUME NEW f, NEW S, IsFiniteSet(S)
    PROVE  /\ SumFunctionOnSet(f, {}) = 0
           /\ S # {} => SumFunctionOnSet(f, S)
                          = f[Picked(S)] + SumFunctionOnSet(f, S \ {Picked(S)})
<1>1. SumFunctionOnSet(f, {}) = 0
  <2>1. IsSumTable(SumTable(f, {}), f, {})
    BY SumTableExists, FS_EmptySet
  <2>2. SumTable(f, {})[{}] = 0
    BY <2>1 DEF IsSumTable
  <2> QED BY <2>2, SumIsTableEntry
<1>2. ASSUME S # {}
      PROVE  SumFunctionOnSet(f, S) = f[Picked(S)] + SumFunctionOnSet(f, S \ {Picked(S)})
  <2> DEFINE U == S \ {Picked(S)}
  <2>1. U \in SUBSET S
    OBVIOUS
  <2> HIDE DEF U
  <2>2. IsFiniteSet(U)
    BY <2>1, FS_Subset
  <2>3. IsSumTable(SumTable(f, S), f, S) /\ IsSumTable(SumTable(f, U), f, U)
    BY <2>2, SumTableExists
  <2>4. SumTable(f, U)[U] = SumTable(f, S)[U]
    BY <2>1, <2>2, <2>3, SumTablesAgree
  <2>5. SumTable(f, S)[S] = f[Picked(S)] + SumTable(f, S)[U]
    BY <1>2, <2>3 DEF IsSumTable, U
  <2>6. SumFunctionOnSet(f, S) = f[Picked(S)] + SumFunctionOnSet(f, U)
    BY <2>4, <2>5, SumIsTableEntry
  <2> QED BY <2>6 DEF U
<1> QED BY <1>1, <1>2

(* An empty sum is zero. *)
LEMMA SumEmpty == \A f : SumFunctionOnSet(f, {}) = 0
  BY SumRecursion, FS_EmptySet

(* A sum of integers is an integer. *)
LEMMA SumInt ==
    ASSUME NEW f, NEW S, IsFiniteSet(S), \A x \in S : f[x] \in Int
    PROVE  SumFunctionOnSet(f, S) \in Int
<1> DEFINE Bad == {s \in SUBSET S : SumFunctionOnSet(f, s) \notin Int}
<1> SUFFICES ASSUME Bad # {} PROVE FALSE
  OBVIOUS
<1>1. PICK s \in Bad : \A u \in Bad : u \subseteq s => u = s
  <2> HIDE DEF Bad
  <2>1. Bad \in SUBSET (SUBSET S)
    BY DEF Bad
  <2> QED BY <2>1, SmallestSubset
<1>2. s \in SUBSET S /\ IsFiniteSet(s) /\ SumFunctionOnSet(f, s) \notin Int
  BY <1>1, FS_Subset
<1>3. s # {}
  BY <1>2, SumEmpty
<1>4. Picked(s) \in s
  BY <1>3 DEF Picked
<1>5. SumFunctionOnSet(f, s \ {Picked(s)}) \in Int
  BY <1>1, <1>2, <1>4
<1>6. SumFunctionOnSet(f, s) = f[Picked(s)] + SumFunctionOnSet(f, s \ {Picked(s)})
  BY <1>2, <1>3, SumRecursion
<1>7. f[Picked(s)] \in Int
  BY <1>2, <1>4
<1> QED BY <1>2, <1>5, <1>6, <1>7

(* Any element may be taken out first.                                     *)
LEMMA SumTake ==
    ASSUME NEW f, NEW S, IsFiniteSet(S), \A x \in S : f[x] \in Int, NEW y \in S
    PROVE  SumFunctionOnSet(f, S) = SumFunctionOnSet(f, S \ {y}) + f[y]
<1> DEFINE Sum(s) == SumFunctionOnSet(f, s)
           Splits(s) == \A z \in s : Sum(s) = Sum(s \ {z}) + f[z]
           Bad == {s \in SUBSET S : ~ Splits(s)}
<1> SUFFICES ASSUME Bad # {} PROVE FALSE
  OBVIOUS
<1>1. PICK s \in Bad : \A u \in Bad : u \subseteq s => u = s
  <2> HIDE DEF Bad
  <2>1. Bad \in SUBSET (SUBSET S)
    BY DEF Bad
  <2> QED BY <2>1, SmallestSubset
<1>2. s \in SUBSET S /\ ~ Splits(s) /\ IsFiniteSet(s)
  BY <1>1, FS_Subset
<1>3. \A u \in SUBSET s : u # s => Splits(u)
  <2> HIDE DEF Splits
  <2> QED BY <1>1, <1>2
<1>4. \A u \in SUBSET s : Sum(u) \in Int
  <2>1. \A u \in SUBSET s : IsFiniteSet(u)
    BY <1>2, FS_Subset
  <2> QED BY <1>2, <2>1, SumInt
<1>5. \A z \in s : f[z] \in Int
  BY <1>2
<1> HIDE DEF Bad
<1>6. Splits(s)
  <2> SUFFICES ASSUME NEW z \in s PROVE Sum(s) = Sum(s \ {z}) + f[z]
    OBVIOUS
  <2> DEFINE x == Picked(s)
             rest == s \ {x, z}
  <2>1. x \in s
    BY DEF Picked
  <2>2. Sum(s) = f[x] + Sum(s \ {x})
    BY <1>2, SumRecursion
  <2> HIDE DEF x, Sum
  <2>3. CASE x = z
    <3>1. Sum(s \ {x}) \in Int /\ f[x] \in Int
      BY <1>4, <1>5, <2>1
    <3> QED BY <2>2, <2>3, <3>1
  <2>4. CASE x # z
    <3>1. (s \ {x}) \ {z} = rest /\ (s \ {z}) \ {x} = rest
      OBVIOUS
    <3>2. Sum(s \ {x}) = Sum(rest) + f[z]
      <4>1. Sum(s \ {x}) = Sum((s \ {x}) \ {z}) + f[z]
        BY <1>3, <2>1, <2>4
      <4> QED BY <3>1, <4>1
    <3>3. Sum(s \ {z}) = Sum(rest) + f[x]
      <4>1. Sum(s \ {z}) = Sum((s \ {z}) \ {x}) + f[x]
        BY <1>3, <2>1, <2>4
      <4> QED BY <3>1, <4>1
    <3>4. Sum(rest) \in Int /\ f[x] \in Int /\ f[z] \in Int
      BY <1>4, <1>5, <2>1
    <3> HIDE DEF rest
    <3> HIDE DEF Splits
    <3> QED BY <2>2, <3>2, <3>3, <3>4
  <2> QED BY <2>3, <2>4
<1> QED BY <1>2, <1>6

(* Adding an element adds its value. *)
LEMMA SumAdd ==
    ASSUME NEW f, NEW S, IsFiniteSet(S), NEW y, y \notin S,
           \A x \in S \cup {y} : f[x] \in Int
    PROVE  SumFunctionOnSet(f, S \cup {y}) = SumFunctionOnSet(f, S) + f[y]
<1>1. IsFiniteSet(S \cup {y})
  BY FS_AddElement
<1>2. (S \cup {y}) \ {y} = S
  OBVIOUS
<1>3. SumFunctionOnSet(f, S \cup {y}) = SumFunctionOnSet(f, (S \cup {y}) \ {y}) + f[y]
  <2> DEFINE T == S \cup {y}
  <2>1. y \in T /\ IsFiniteSet(T) /\ \A x \in T : f[x] \in Int
    BY <1>1
  <2> HIDE DEF T
  <2>2. SumFunctionOnSet(f, T) = SumFunctionOnSet(f, T \ {y}) + f[y]
    BY <2>1, SumTake
  <2> QED BY <2>2 DEF T
<1> QED BY <1>2, <1>3

(* Only the values on the set matter. *)
LEMMA SumSame ==
    ASSUME NEW f, NEW g, NEW S, IsFiniteSet(S), \A x \in S : f[x] = g[x]
    PROVE  SumFunctionOnSet(f, S) = SumFunctionOnSet(g, S)
<1> DEFINE Bad == {s \in SUBSET S : SumFunctionOnSet(f, s) # SumFunctionOnSet(g, s)}
<1> SUFFICES ASSUME Bad # {} PROVE FALSE
  OBVIOUS
<1>1. PICK s \in Bad : \A u \in Bad : u \subseteq s => u = s
  <2> HIDE DEF Bad
  <2>1. Bad \in SUBSET (SUBSET S)
    BY DEF Bad
  <2> QED BY <2>1, SmallestSubset
<1>2. s \in SUBSET S /\ IsFiniteSet(s) /\ SumFunctionOnSet(f, s) # SumFunctionOnSet(g, s)
  BY <1>1, FS_Subset
<1>3. s # {}
  BY <1>2, SumEmpty
<1>4. Picked(s) \in s
  BY <1>3 DEF Picked
<1>5. SumFunctionOnSet(f, s \ {Picked(s)}) = SumFunctionOnSet(g, s \ {Picked(s)})
  BY <1>1, <1>2, <1>4
<1>6. /\ SumFunctionOnSet(f, s) = f[Picked(s)] + SumFunctionOnSet(f, s \ {Picked(s)})
      /\ SumFunctionOnSet(g, s) = g[Picked(s)] + SumFunctionOnSet(g, s \ {Picked(s)})
  BY <1>2, <1>3, SumRecursion
<1>7. f[Picked(s)] = g[Picked(s)]
  BY <1>2, <1>4
<1> QED BY <1>2, <1>5, <1>6, <1>7

(* A sum of naturals is a natural number. *)
LEMMA SumNat ==
    ASSUME NEW f, NEW S, IsFiniteSet(S), \A x \in S : f[x] \in Nat
    PROVE  SumFunctionOnSet(f, S) \in Nat
<1> DEFINE Bad == {s \in SUBSET S : SumFunctionOnSet(f, s) \notin Nat}
<1> SUFFICES ASSUME Bad # {} PROVE FALSE
  OBVIOUS
<1>1. PICK s \in Bad : \A u \in Bad : u \subseteq s => u = s
  <2> HIDE DEF Bad
  <2>1. Bad \in SUBSET (SUBSET S)
    BY DEF Bad
  <2> QED BY <2>1, SmallestSubset
<1>2. s \in SUBSET S /\ IsFiniteSet(s) /\ SumFunctionOnSet(f, s) \notin Nat
  BY <1>1, FS_Subset
<1>3. s # {}
  BY <1>2, SumEmpty
<1>4. Picked(s) \in s
  BY <1>3 DEF Picked
<1>5. SumFunctionOnSet(f, s \ {Picked(s)}) \in Nat
  BY <1>1, <1>2, <1>4
<1>6. SumFunctionOnSet(f, s) = f[Picked(s)] + SumFunctionOnSet(f, s \ {Picked(s)})
  BY <1>2, <1>3, SumRecursion
<1>7. f[Picked(s)] \in Nat
  BY <1>2, <1>4
<1> QED BY <1>2, <1>5, <1>6, <1>7

(* It is no smaller than any of its terms. *)
LEMMA SumBoundsTerm ==
    ASSUME NEW f, NEW S, IsFiniteSet(S), \A x \in S : f[x] \in Nat, NEW y \in S
    PROVE  f[y] <= SumFunctionOnSet(f, S)
<1>1. SumFunctionOnSet(f, S) = SumFunctionOnSet(f, S \ {y}) + f[y]
  BY SumTake
<1>2. SumFunctionOnSet(f, S \ {y}) \in Nat
  <2>1. IsFiniteSet(S \ {y})
    BY FS_RemoveElement
  <2> QED BY <2>1, SumNat
<1> QED BY <1>1, <1>2

(* Terms that differ at one element only. *)
LEMMA SumChange ==
    ASSUME NEW f, NEW g, NEW S, IsFiniteSet(S), NEW y \in S,
           \A x \in S : f[x] \in Int, g[y] \in Int,
           \A x \in S : x # y => g[x] = f[x]
    PROVE  SumFunctionOnSet(g, S) = SumFunctionOnSet(f, S) - f[y] + g[y]
<1>1. IsFiniteSet(S \ {y})
  BY FS_RemoveElement
<1>2. SumFunctionOnSet(g, S) = SumFunctionOnSet(g, S \ {y}) + g[y]
  <2>1. \A x \in S : g[x] \in Int
    OBVIOUS
  <2> QED BY <2>1, SumTake
<1>3. SumFunctionOnSet(f, S) = SumFunctionOnSet(f, S \ {y}) + f[y]
  BY SumTake
<1>4. SumFunctionOnSet(g, S \ {y}) = SumFunctionOnSet(f, S \ {y})
  <2>1. \A x \in S \ {y} : g[x] = f[x]
    OBVIOUS
  <2> QED BY <1>1, <2>1, SumSame
<1>5. SumFunctionOnSet(f, S \ {y}) \in Int
  BY <1>1, SumInt
<1> QED BY <1>2, <1>3, <1>4, <1>5

(* Disjoint parts add up. *)
LEMMA SumSplit ==
    ASSUME NEW f, NEW S, NEW T, IsFiniteSet(S), IsFiniteSet(T), S \cap T = {},
           \A x \in S \cup T : f[x] \in Int
    PROVE  SumFunctionOnSet(f, S \cup T) = SumFunctionOnSet(f, S) + SumFunctionOnSet(f, T)
<1> DEFINE Sum(s) == SumFunctionOnSet(f, s)
           Adds(s) == Sum(S \cup s) = Sum(S) + Sum(s)
           Bad == {s \in SUBSET T : ~ Adds(s)}
<1> SUFFICES ASSUME Bad # {} PROVE FALSE
  OBVIOUS
<1>1. PICK s \in Bad : \A u \in Bad : u \subseteq s => u = s
  <2> HIDE DEF Bad
  <2>1. Bad \in SUBSET (SUBSET T)
    BY DEF Bad
  <2> QED BY <2>1, SmallestSubset
<1>2. s \in SUBSET T /\ ~ Adds(s) /\ IsFiniteSet(s)
  BY <1>1, FS_Subset
<1>3. Sum(S) \in Int
  BY SumInt
<1>4. s # {}
  BY <1>2, <1>3, SumEmpty
<1> DEFINE x == Picked(s)
           u == s \ {x}
<1>5. x \in s
  BY <1>4 DEF Picked
<1>6. Adds(u)
  <2> HIDE DEF Adds, x
  <2> QED BY <1>1, <1>2, <1>5
<1>7. IsFiniteSet(u) /\ IsFiniteSet(S \cup u)
  BY <1>2, FS_RemoveElement, FS_Union
<1>8. s = u \cup {x} /\ S \cup s = (S \cup u) \cup {x} /\ x \notin S \cup u
  BY <1>2, <1>5
<1>9. (\A z \in s : f[z] \in Int) /\ (\A z \in (S \cup u) \cup {x} : f[z] \in Int)
      /\ \A z \in u \cup {x} : f[z] \in Int
  BY <1>2, <1>5
<1> HIDE DEF x, u
<1>10. Sum(u \cup {x}) = Sum(u) + f[x]
  BY <1>7, <1>8, <1>9, SumAdd
<1>11. Sum((S \cup u) \cup {x}) = Sum(S \cup u) + f[x]
  BY <1>7, <1>8, <1>9, SumAdd
<1>12. Sum(u) \in Int /\ f[x] \in Int
  BY <1>7, <1>9, SumInt
<1> HIDE DEF Sum, Bad
<1>13. Sum(s) = Sum(u) + f[x] /\ Sum(S \cup s) = Sum(S \cup u) + f[x]
  BY <1>8, <1>10, <1>11
<1> QED BY <1>2, <1>3, <1>6, <1>12, <1>13

(* Terms that are nowhere larger have no larger sum. *)
LEMMA SumMonotone ==
    ASSUME NEW f, NEW g, NEW S, IsFiniteSet(S),
           \A x \in S : f[x] \in Int /\ g[x] \in Int /\ f[x] <= g[x]
    PROVE  SumFunctionOnSet(f, S) <= SumFunctionOnSet(g, S)
<1> DEFINE F(s) == SumFunctionOnSet(f, s)
           G(s) == SumFunctionOnSet(g, s)
           Bad == {s \in SUBSET S : ~ (F(s) <= G(s))}
<1> SUFFICES ASSUME Bad # {} PROVE FALSE
  OBVIOUS
<1>1. PICK s \in Bad : \A u \in Bad : u \subseteq s => u = s
  <2> HIDE DEF Bad
  <2>1. Bad \in SUBSET (SUBSET S)
    BY DEF Bad
  <2> QED BY <2>1, SmallestSubset
<1>2. s \in SUBSET S /\ IsFiniteSet(s) /\ ~ (F(s) <= G(s))
  BY <1>1, FS_Subset
<1>3. s # {}
  BY <1>2, SumEmpty
<1> DEFINE x == Picked(s)
<1>4. x \in s
  BY <1>3 DEF Picked
<1>5. F(s) = f[x] + F(s \ {x}) /\ G(s) = g[x] + G(s \ {x})
  BY <1>2, <1>3, SumRecursion
<1> HIDE DEF x, F, G
<1>6. F(s \ {x}) <= G(s \ {x})
  BY <1>1, <1>2, <1>4
<1>7. F(s \ {x}) \in Int /\ G(s \ {x}) \in Int
  <2>1. IsFiniteSet(s \ {x})
    BY <1>2, FS_RemoveElement
  <2> QED BY <1>2, <2>1, SumInt DEF F, G
<1>8. f[x] \in Int /\ g[x] \in Int /\ f[x] <= g[x]
  BY <1>2, <1>4
<1> QED BY <1>2, <1>5, <1>6, <1>7, <1>8

(* A sum of zeros is zero. *)
LEMMA SumZero ==
    ASSUME NEW f, NEW S, IsFiniteSet(S), \A x \in S : f[x] = 0
    PROVE  SumFunctionOnSet(f, S) = 0
<1> DEFINE Bad == {s \in SUBSET S : SumFunctionOnSet(f, s) # 0}
<1> SUFFICES ASSUME Bad # {} PROVE FALSE
  OBVIOUS
<1>1. PICK s \in Bad : \A u \in Bad : u \subseteq s => u = s
  <2> HIDE DEF Bad
  <2>1. Bad \in SUBSET (SUBSET S)
    BY DEF Bad
  <2> QED BY <2>1, SmallestSubset
<1>2. s \in SUBSET S /\ IsFiniteSet(s) /\ SumFunctionOnSet(f, s) # 0
  BY <1>1, FS_Subset
<1>3. s # {}
  BY <1>2, SumEmpty
<1>4. Picked(s) \in s
  BY <1>3 DEF Picked
<1>5. SumFunctionOnSet(f, s \ {Picked(s)}) = 0
  BY <1>1, <1>2, <1>4
<1>6. SumFunctionOnSet(f, s) = f[Picked(s)] + SumFunctionOnSet(f, s \ {Picked(s)})
  BY <1>2, <1>3, SumRecursion
<1>7. f[Picked(s)] = 0
  BY <1>2, <1>4
<1> QED BY <1>2, <1>5, <1>6, <1>7

(* A part of a sum, and what is outside it. *)
LEMMA SumPart ==
    ASSUME NEW f, NEW S, IsFiniteSet(S), NEW T \in SUBSET S, \A x \in S : f[x] \in Int
    PROVE  SumFunctionOnSet(f, S) = SumFunctionOnSet(f, T) + SumFunctionOnSet(f, S \ T)
<1>1. IsFiniteSet(T) /\ IsFiniteSet(S \ T)
  BY FS_Subset, FS_Difference
<1>2. T \cap (S \ T) = {} /\ T \cup (S \ T) = S
  OBVIOUS
<1> DEFINE R == S \ T
<1>3. SumFunctionOnSet(f, T \cup R) = SumFunctionOnSet(f, T) + SumFunctionOnSet(f, R)
  <2>1. IsFiniteSet(R) /\ T \cap R = {} /\ \A x \in T \cup R : f[x] \in Int
    BY <1>1
  <2> HIDE DEF R
  <2> QED BY <1>1, <2>1, SumSplit
<1> QED BY <1>2, <1>3

(* Elements with no value can be left out. *)
LEMMA SumSupport ==
    ASSUME NEW f, NEW S, IsFiniteSet(S), NEW T \in SUBSET S, \A x \in S : f[x] \in Int,
           \A x \in S : x \notin T => f[x] = 0
    PROVE  SumFunctionOnSet(f, S) = SumFunctionOnSet(f, T)
<1>1. IsFiniteSet(T) /\ IsFiniteSet(S \ T)
  BY FS_Subset, FS_Difference
<1>2. SumFunctionOnSet(f, S) = SumFunctionOnSet(f, T) + SumFunctionOnSet(f, S \ T)
  BY SumPart
<1>3. SumFunctionOnSet(f, S \ T) = 0
  <2>1. \A x \in S \ T : f[x] = 0
    OBVIOUS
  <2> QED BY <1>1, <2>1, SumZero
<1>4. SumFunctionOnSet(f, T) \in Int
  BY <1>1, SumInt
<1> QED BY <1>2, <1>3, <1>4

(* The elements of S whose key is k, or is among K. *)
Group(S, key, k) == {x \in S : key[x] = k}
Groups(S, key, K) == {x \in S : key[x] \in K}

(* Summing the sums of the groups sums the members of the groups. *)
LEMMA SumByGroup ==
    ASSUME NEW f, NEW S, IsFiniteSet(S), \A x \in S : f[x] \in Int,
           NEW key, NEW g, NEW T, IsFiniteSet(T),
           \A k \in T : g[k] = SumFunctionOnSet(f, Group(S, key, k))
    PROVE  SumFunctionOnSet(g, T) = SumFunctionOnSet(f, Groups(S, key, T))
<1> DEFINE Of(s) == Groups(S, key, s)
           Adds(s) == SumFunctionOnSet(g, s) = SumFunctionOnSet(f, Of(s))
           Bad == {s \in SUBSET T : ~ Adds(s)}
<1> SUFFICES ASSUME Bad # {} PROVE FALSE
  OBVIOUS
<1>1. PICK s \in Bad : \A u \in Bad : u \subseteq s => u = s
  <2> HIDE DEF Bad
  <2>1. Bad \in SUBSET (SUBSET T)
    BY DEF Bad
  <2> QED BY <2>1, SmallestSubset
<1>2. s \in SUBSET T /\ ~ Adds(s) /\ IsFiniteSet(s)
  BY <1>1, FS_Subset
<1>3. s # {}
  <2>1. Of({}) = {}
    BY DEF Groups
  <2> QED BY <1>2, <2>1, SumEmpty
<1> DEFINE k == Picked(s)
           u == s \ {k}
           group == Group(S, key, k)
<1>4. k \in s
  BY <1>3 DEF Picked
<1>5. Adds(u)
  <2> HIDE DEF Adds, k
  <2> QED BY <1>1, <1>2, <1>4
<1>6. SumFunctionOnSet(g, s) = g[k] + SumFunctionOnSet(g, u)
  BY <1>2, <1>3, SumRecursion
<1>7. g[k] = SumFunctionOnSet(f, group)
  BY <1>2, <1>4
<1>8. Of(s) = Of(u) \cup group /\ Of(u) \cap group = {}
  BY <1>4 DEF Group, Groups
<1>9. IsFiniteSet(Of(u)) /\ IsFiniteSet(group) /\ Of(u) \in SUBSET S /\ group \in SUBSET S
  <2>1. Of(u) \in SUBSET S /\ group \in SUBSET S
    BY DEF Group, Groups
  <2> HIDE DEF Of, group
  <2> QED BY <2>1, FS_Subset
<1> DEFINE A == Of(u)
<1> HIDE DEF group
<1>10. SumFunctionOnSet(f, A \cup group) = SumFunctionOnSet(f, A) + SumFunctionOnSet(f, group)
  <2>1. /\ IsFiniteSet(A) /\ IsFiniteSet(group) /\ A \cap group = {}
        /\ \A x \in A \cup group : f[x] \in Int
    BY <1>8, <1>9
  <2> HIDE DEF A
  <2> QED BY <2>1, SumSplit
<1>11. SumFunctionOnSet(f, A) \in Int /\ SumFunctionOnSet(f, group) \in Int
  <2>1. (\A x \in A : f[x] \in Int) /\ \A x \in group : f[x] \in Int
    BY <1>9
  <2>2. IsFiniteSet(A)
    BY <1>9
  <2> HIDE DEF A
  <2> QED BY <1>9, <2>1, <2>2, SumInt
<1>12. SumFunctionOnSet(g, u) = SumFunctionOnSet(f, A)
  BY <1>5
<1>13. SumFunctionOnSet(f, Of(s)) = SumFunctionOnSet(f, A \cup group)
  BY <1>8
<1> HIDE DEF A, Of, u, k
<1>14. SumFunctionOnSet(g, s) = SumFunctionOnSet(f, Of(s))
  BY <1>6, <1>7, <1>10, <1>11, <1>12, <1>13
<1> QED BY <1>2, <1>14

(* A sum may be taken over other keys: f over S is g over T when h matches   *)
(* their members one to one.                                                *)
LEMMA SumMatched ==
    ASSUME NEW f, NEW S, IsFiniteSet(S), \A x \in S : f[x] \in Int,
           NEW g, NEW T, IsFiniteSet(T), NEW h,
           \A x \in S : h[x] \in T /\ g[h[x]] = f[x],
           \A x, y \in S : h[x] = h[y] => x = y,
           \A k \in T : \E x \in S : h[x] = k
    PROVE  SumFunctionOnSet(g, T) = SumFunctionOnSet(f, S)
<1>1. ASSUME NEW k \in T
      PROVE  g[k] = SumFunctionOnSet(f, Group(S, h, k))
  <2>1. PICK x \in S : h[x] = k
    OBVIOUS
  <2>2. Group(S, h, k) = {x}
    BY <2>1 DEF Group
  <2>3. SumFunctionOnSet(f, {x}) = SumFunctionOnSet(f, {}) + f[x]
    <3> DEFINE none == {x} \ {x}
    <3>1. IsFiniteSet(none) /\ x \notin none /\ \A y \in none \cup {x} : f[y] \in Int
      BY FS_EmptySet
    <3>2. none = {} /\ none \cup {x} = {x}
      OBVIOUS
    <3> HIDE DEF none
    <3>3. SumFunctionOnSet(f, none \cup {x}) = SumFunctionOnSet(f, none) + f[x]
      BY <3>1, SumAdd
    <3> QED BY <3>2, <3>3
  <2>4. f[x] \in Int /\ g[k] = f[x]
    BY <2>1
  <2> QED BY <2>2, <2>3, <2>4, SumEmpty
<1>2. SumFunctionOnSet(g, T) = SumFunctionOnSet(f, Groups(S, h, T))
  BY <1>1, SumByGroup
<1>3. Groups(S, h, T) = S
  BY DEF Groups
<1> QED BY <1>2, <1>3

(* The sum of multiples is the multiple of the sum. *)
LEMMA SumTimes ==
    ASSUME NEW f, NEW g, NEW k \in Int, NEW S, IsFiniteSet(S),
           \A x \in S : f[x] \in Int /\ g[x] = f[x] * k
    PROVE  SumFunctionOnSet(g, S) = SumFunctionOnSet(f, S) * k
<1> DEFINE F(s) == SumFunctionOnSet(f, s)
           G(s) == SumFunctionOnSet(g, s)
           Bad == {s \in SUBSET S : G(s) # F(s) * k}
<1> SUFFICES ASSUME Bad # {} PROVE FALSE
  OBVIOUS
<1>1. PICK s \in Bad : \A u \in Bad : u \subseteq s => u = s
  <2> HIDE DEF Bad
  <2>1. Bad \in SUBSET (SUBSET S)
    BY DEF Bad
  <2> QED BY <2>1, SmallestSubset
<1>2. s \in SUBSET S /\ IsFiniteSet(s) /\ G(s) # F(s) * k
  BY <1>1, FS_Subset
<1>3. s # {}
  BY <1>2, SumEmpty
<1> DEFINE x == Picked(s)
<1>4. x \in s
  BY <1>3 DEF Picked
<1>5. F(s) = f[x] + F(s \ {x}) /\ G(s) = g[x] + G(s \ {x})
  BY <1>2, <1>3, SumRecursion
<1> HIDE DEF x, F, G
<1>6. G(s \ {x}) = F(s \ {x}) * k
  BY <1>1, <1>2, <1>4
<1>7. F(s \ {x}) \in Int
  <2>1. IsFiniteSet(s \ {x})
    BY <1>2, FS_RemoveElement
  <2> QED BY <1>2, <2>1, SumInt DEF F
<1>8. f[x] \in Int /\ g[x] = f[x] * k
  BY <1>2, <1>4
<1>9. \A m, n \in Int : m * k + n * k = (m + n) * k
  BY Z3
<1> QED BY <1>2, <1>5, <1>6, <1>7, <1>8, <1>9

(* The sum of sums. *)
LEMMA SumPlus ==
    ASSUME NEW f, NEW g, NEW h, NEW S, IsFiniteSet(S),
           \A x \in S : f[x] \in Int /\ g[x] \in Int /\ h[x] = f[x] + g[x]
    PROVE  SumFunctionOnSet(h, S) = SumFunctionOnSet(f, S) + SumFunctionOnSet(g, S)
<1> DEFINE F(s) == SumFunctionOnSet(f, s)
           G(s) == SumFunctionOnSet(g, s)
           H(s) == SumFunctionOnSet(h, s)
           Bad == {s \in SUBSET S : H(s) # F(s) + G(s)}
<1> SUFFICES ASSUME Bad # {} PROVE FALSE
  OBVIOUS
<1>1. PICK s \in Bad : \A u \in Bad : u \subseteq s => u = s
  <2> HIDE DEF Bad
  <2>1. Bad \in SUBSET (SUBSET S)
    BY DEF Bad
  <2> QED BY <2>1, SmallestSubset
<1>2. s \in SUBSET S /\ IsFiniteSet(s) /\ H(s) # F(s) + G(s)
  BY <1>1, FS_Subset
<1>3. s # {}
  <2> SUFFICES ASSUME s = {} PROVE FALSE
    OBVIOUS
  <2>1. F(s) = 0 /\ G(s) = 0 /\ H(s) = 0
    BY SumEmpty
  <2> HIDE DEF F, G, H
  <2> QED BY <1>2, <2>1
<1> DEFINE x == Picked(s)
<1>4. x \in s
  BY <1>3 DEF Picked
<1>5. F(s) = f[x] + F(s \ {x}) /\ G(s) = g[x] + G(s \ {x}) /\ H(s) = h[x] + H(s \ {x})
  BY <1>2, <1>3, SumRecursion
<1> HIDE DEF x, F, G, H
<1>6. H(s \ {x}) = F(s \ {x}) + G(s \ {x})
  BY <1>1, <1>2, <1>4
<1>7. F(s \ {x}) \in Int /\ G(s \ {x}) \in Int
  <2>1. IsFiniteSet(s \ {x})
    BY <1>2, FS_RemoveElement
  <2> QED BY <1>2, <2>1, SumInt DEF F, G
<1>8. f[x] \in Int /\ g[x] \in Int /\ h[x] = f[x] + g[x]
  BY <1>2, <1>4
<1> QED BY <1>2, <1>5, <1>6, <1>7, <1>8

(* The values of a function on a finite set are finitely many, and so are   *)
(* the members of two finite sets.                                         *)
LEMMA FiniteImage ==
    ASSUME NEW f, NEW S, IsFiniteSet(S)
    PROVE  IsFiniteSet({f[x] : x \in S})
<1> DEFINE T == {f[x] : x \in S}
           g == [x \in S |-> f[x]]
<1>1. g \in Surjection(S, T)
  BY DEF Surjection
<1> HIDE DEF T, g
<1>2. IsFiniteSet(T)
  BY <1>1, FS_Surjection
<1> QED BY <1>2 DEF T

LEMMA FiniteUnion ==
    ASSUME NEW S, IsFiniteSet(S), NEW T, IsFiniteSet(T)
    PROVE  IsFiniteSet(S \cup T)
  BY FS_Union

(* The sum over group k of the values f, a table of naturals over D.       *)
GroupSum(f, key, k) == SumFunctionOnSet(f, Group(DOMAIN f, key, k))

(* A group of a finite table, and its sum. *)
LEMMA GroupNat ==
    ASSUME NEW D, IsFiniteSet(D), NEW f \in [D -> Nat], NEW key, NEW k
    PROVE  /\ Group(D, key, k) \in SUBSET D /\ IsFiniteSet(Group(D, key, k))
           /\ GroupSum(f, key, k) = SumFunctionOnSet(f, Group(D, key, k))
           /\ GroupSum(f, key, k) \in Nat
<1>1. Group(D, key, k) \in SUBSET D
  BY DEF Group
<1>2. IsFiniteSet(Group(D, key, k))
  BY <1>1, FS_Subset
<1>3. \A x \in Group(D, key, k) : f[x] \in Nat
  BY <1>1
<1>4. SumFunctionOnSet(f, Group(D, key, k)) \in Nat
  BY <1>2, <1>3, SumNat
<1>5. DOMAIN f = D
  OBVIOUS
<1> QED BY <1>1, <1>2, <1>4, <1>5 DEF GroupSum

(* A group without members sums to nothing. *)
LEMMA GroupEmpty ==
    ASSUME NEW f, NEW key, NEW k, \A x \in DOMAIN f : key[x] # k
    PROVE  GroupSum(f, key, k) = 0
<1>1. Group(DOMAIN f, key, k) = {}
  BY DEF Group
<1> QED BY <1>1, SumEmpty DEF GroupSum

(* A new entry adds its value to its own group. *)
LEMMA GroupAdded ==
    ASSUME NEW D, IsFiniteSet(D), NEW f \in [D -> Nat], NEW n, n \notin D,
           NEW g \in [D \cup {n} -> Nat], NEW key, NEW other,
           \A x \in D : g[x] = f[x] /\ other[x] = key[x], NEW k
    PROVE  GroupSum(g, other, k) = GroupSum(f, key, k) + (IF other[n] = k THEN g[n] ELSE 0)
<1> DEFINE S == Group(D, key, k)
           T == Group(D \cup {n}, other, k)
<1>1. /\ S \in SUBSET D /\ IsFiniteSet(S) /\ n \notin S
      /\ GroupSum(f, key, k) = SumFunctionOnSet(f, S) /\ GroupSum(f, key, k) \in Nat
  BY GroupNat
<1>2. GroupSum(g, other, k) = SumFunctionOnSet(g, T)
  <2>1. DOMAIN g = D \cup {n}
    OBVIOUS
  <2> QED BY <2>1 DEF GroupSum
<1>3. SumFunctionOnSet(g, S) = SumFunctionOnSet(f, S)
  <2>1. \A x \in S : g[x] = f[x] /\ g[x] \in Int /\ f[x] \in Int
    BY <1>1
  <2> HIDE DEF S
  <2> QED BY <1>1, <2>1, SumSame
<1>4. CASE other[n] = k
  <2>1. T = S \cup {n}
    BY <1>4 DEF Group
  <2>2. \A x \in S \cup {n} : g[x] \in Int
    BY <1>1
  <2> HIDE DEF S, T
  <2>3. SumFunctionOnSet(g, S \cup {n}) = SumFunctionOnSet(g, S) + g[n]
    BY <1>1, <2>2, SumAdd
  <2> QED BY <1>1, <1>2, <1>3, <1>4, <2>1, <2>3
<1>5. CASE other[n] # k
  <2>1. T = S
    BY <1>5 DEF Group
  <2> HIDE DEF S, T
  <2> QED BY <1>1, <1>2, <1>3, <1>5, <2>1
<1> QED BY <1>4, <1>5

(* Fewer entries of no greater values have no greater sum in any group. *)
LEMMA GroupFewer ==
    ASSUME NEW D, IsFiniteSet(D), NEW f \in [D -> Nat], NEW E \in SUBSET D, NEW g \in [E -> Nat],
           NEW key, NEW other, \A x \in E : g[x] <= f[x] /\ other[x] = key[x], NEW k
    PROVE  GroupSum(g, other, k) <= GroupSum(f, key, k)
<1> DEFINE S == Group(D, key, k)
           T == Group(E, other, k)
<1>1. /\ S \in SUBSET D /\ IsFiniteSet(S) /\ GroupSum(f, key, k) = SumFunctionOnSet(f, S)
  BY GroupNat
<1>2. /\ T \in SUBSET E /\ IsFiniteSet(T) /\ GroupSum(g, other, k) = SumFunctionOnSet(g, T)
  <2>1. IsFiniteSet(E)
    BY FS_Subset
  <2> QED BY <2>1, GroupNat
<1>3. T \in SUBSET S
  BY DEF Group
<1> HIDE DEF S, T
<1>4. SumFunctionOnSet(g, T) <= SumFunctionOnSet(f, T)
  <2>1. \A x \in T : g[x] \in Int /\ f[x] \in Int /\ g[x] <= f[x]
    BY <1>2
  <2> QED BY <1>2, <2>1, SumMonotone
<1>5. SumFunctionOnSet(f, S) = SumFunctionOnSet(f, T) + SumFunctionOnSet(f, S \ T)
  <2>1. \A x \in S : f[x] \in Int
    BY <1>1
  <2> QED BY <1>1, <1>3, <2>1, SumPart
<1>6. SumFunctionOnSet(f, S \ T) \in Nat
  <2>1. IsFiniteSet(S \ T) /\ \A x \in S \ T : f[x] \in Nat
    BY <1>1, FS_Subset
  <2> QED BY <2>1, SumNat
<1>7. SumFunctionOnSet(f, T) \in Nat /\ SumFunctionOnSet(g, T) \in Nat
  <2>1. \A x \in T : f[x] \in Nat /\ g[x] \in Nat
    BY <1>2
  <2> QED BY <1>2, <2>1, SumNat
<1> QED BY <1>1, <1>2, <1>4, <1>5, <1>6, <1>7

(* Entries of other groups do not count. *)
LEMMA GroupSame ==
    ASSUME NEW D, IsFiniteSet(D), NEW f \in [D -> Nat], NEW E \in SUBSET D, NEW g \in [E -> Nat],
           NEW key, NEW other, NEW k,
           \A x \in E : g[x] = f[x] /\ other[x] = key[x],
           \A x \in D : x \notin E => key[x] # k
    PROVE  GroupSum(g, other, k) = GroupSum(f, key, k)
<1> DEFINE S == Group(D, key, k)
<1>1. /\ S \in SUBSET D /\ IsFiniteSet(S) /\ GroupSum(f, key, k) = SumFunctionOnSet(f, S)
  BY GroupNat
<1>2. GroupSum(g, other, k) = SumFunctionOnSet(g, Group(E, other, k))
  <2>1. DOMAIN g = E
    OBVIOUS
  <2> QED BY <2>1 DEF GroupSum
<1>3. Group(E, other, k) = S /\ S \in SUBSET E
  BY DEF Group
<1> HIDE DEF S
<1>4. \A x \in S : g[x] = f[x] /\ g[x] \in Int /\ f[x] \in Int
  BY <1>1, <1>3
<1>5. SumFunctionOnSet(g, S) = SumFunctionOnSet(f, S)
  BY <1>1, <1>4, SumSame
<1> QED BY <1>1, <1>2, <1>3, <1>5

(* A changed entry changes its own group's sum. *)
LEMMA GroupChanged ==
    ASSUME NEW D, IsFiniteSet(D), NEW f \in [D -> Nat], NEW g \in [D -> Nat], NEW i \in D,
           NEW key, NEW other, NEW k,
           \A x \in D : other[x] = key[x],
           \A x \in D : x # i => g[x] = f[x]
    PROVE  GroupSum(g, other, k) = GroupSum(f, key, k) + (IF key[i] = k THEN g[i] - f[i] ELSE 0)
<1> DEFINE S == Group(D, key, k)
<1>1. /\ S \in SUBSET D /\ IsFiniteSet(S)
      /\ GroupSum(f, key, k) = SumFunctionOnSet(f, S) /\ GroupSum(f, key, k) \in Nat
  BY GroupNat
<1>2. Group(D, other, k) = S
  BY DEF Group
<1>3. GroupSum(g, other, k) = SumFunctionOnSet(g, S)
  <2>1. DOMAIN g = D
    OBVIOUS
  <2> QED BY <1>2, <2>1 DEF GroupSum
<1>4. i \in S <=> key[i] = k
  BY DEF Group
<1> HIDE DEF S
<1>5. \A x \in S : f[x] \in Int /\ g[x] \in Int
  BY <1>1
<1>6. CASE key[i] = k
  <2>1. SumFunctionOnSet(g, S) = SumFunctionOnSet(f, S) - f[i] + g[i]
    BY <1>1, <1>4, <1>5, <1>6, SumChange
  <2>2. f[i] \in Nat /\ g[i] \in Nat
    OBVIOUS
  <2> QED BY <1>1, <1>3, <1>6, <2>1, <2>2
<1>7. CASE key[i] # k
  <2>1. \A x \in S : g[x] = f[x]
    BY <1>1, <1>4, <1>7
  <2>2. SumFunctionOnSet(g, S) = SumFunctionOnSet(f, S)
    BY <1>1, <2>1, SumSame
  <2> QED BY <1>1, <1>3, <1>7, <2>2
<1> QED BY <1>6, <1>7

(* The sums of the first values of a list. *)
LEMMA RunningSum ==
    ASSUME NEW N \in Nat, NEW v, \A n \in 1 .. N : v[n] \in Int,
           NEW P, \A n \in 0 .. N : P[n] = SumFunctionOnSet(v, 1 .. n)
    PROVE  /\ P[0] = 0
           /\ \A n \in 0 .. N : P[n] \in Int
           /\ \A n \in 1 .. N : P[n] = P[n - 1] + v[n]
<1>1. P[0] = 0
  <2>1. 1 .. 0 = {} /\ 0 \in 0 .. N
    OBVIOUS
  <2> QED BY <2>1, SumEmpty
<1>2. ASSUME NEW n \in 0 .. N PROVE P[n] \in Int
  <2> DEFINE D == 1 .. n
  <2>1. IsFiniteSet(D) /\ \A x \in D : v[x] \in Int
    BY FS_Interval
  <2> HIDE DEF D
  <2>2. SumFunctionOnSet(v, D) \in Int
    BY <2>1, SumInt
  <2> QED BY <2>2 DEF D
<1>3. ASSUME NEW n \in 1 .. N PROVE P[n] = P[n - 1] + v[n]
  <2> DEFINE D == 1 .. (n - 1)
  <2>1. IsFiniteSet(D) /\ n \notin D
    BY FS_Interval
  <2>2. \A x \in D \cup {n} : v[x] \in Int
    OBVIOUS
  <2>3. D \cup {n} = 1 .. n /\ n \in 0 .. N /\ n - 1 \in 0 .. N
    OBVIOUS
  <2> HIDE DEF D
  <2>4. SumFunctionOnSet(v, D \cup {n}) = SumFunctionOnSet(v, D) + v[n]
    BY <2>1, <2>2, SumAdd
  <2> QED BY <2>3, <2>4 DEF D
<1> QED BY <1>1, <1>2, <1>3

-----------------------------------------------------------------------------
(* Tables.                                                                 *)

TableOf(rows) == UNION {[D -> rows] : D \in SUBSET (Nat \ {0})}

(* A table is a member of the set of all tables of its rows. *)
LEMMA TableInSet == ASSUME NEW T, NEW R, IsTable(T, R) PROVE T \in TableOf(R)
  BY DEF IsTable, TableOf

(* An empty table. *)
LEMMA EmptyTable == \A R : IsTable(<<>>, R)
<1>1. DOMAIN <<>> = {}
  OBVIOUS
<1> QED BY <1>1, FS_EmptySet DEF IsTable

(* The next primary key is a fresh one. *)
LEMMA FreshKey ==
    ASSUME NEW T, NEW R, IsTable(T, R)
    PROVE  NextId(T) \in Nat \ {0} /\ NextId(T) \notin DOMAIN T
<1> DEFINE K == {0} \cup DOMAIN T
<1>1. IsFiniteSet(K) /\ K \subseteq Nat /\ K # {}
  <2>1. IsFiniteSet(DOMAIN T \cup {0})
    BY FS_AddElement DEF IsTable
  <2>2. K = DOMAIN T \cup {0}
    OBVIOUS
  <2>3. K \subseteq Nat /\ K # {}
    BY DEF IsTable
  <2> HIDE DEF K
  <2> QED BY <2>1, <2>2, <2>3
<1>2. PICK m \in K : \A y \in K : y <= m
  <2> HIDE DEF K
  <2>1. K \subseteq Int
    BY <1>1
  <2> QED BY <1>1, <2>1, Greatest
<1>3. Max(K) \in K /\ \A y \in K : y <= Max(K)
  <2> HIDE DEF K
  <2>1. \A y \in K : m >= y
    BY <1>1, <1>2
  <2>2. Max(K) \in K /\ \A y \in K : Max(K) >= y
    BY <1>2, <2>1 DEF Max
  <2> QED BY <1>1, <2>2
<1>4. Max(K) \in Nat /\ NextId(T) = Max(K) + 1 /\ 0 <= Max(K)
  BY <1>1, <1>3 DEF NextId
<1> HIDE DEF K
<1>5. ASSUME NextId(T) \in DOMAIN T PROVE FALSE
  <2>1. NextId(T) <= Max(K)
    BY <1>3, <1>5 DEF K
  <2> QED BY <1>4, <2>1
<1> QED BY <1>4, <1>5

(* INSERT adds one row and leaves the others alone. *)
LEMMA InsertRow ==
    ASSUME NEW T, NEW R, IsTable(T, R), NEW row
    PROVE  /\ DOMAIN Insert(T, row) = DOMAIN T \cup {NextId(T)}
           /\ Insert(T, row)[NextId(T)] = row
           /\ \A i \in DOMAIN T : Insert(T, row)[i] = T[i]
<1>1. NextId(T) \notin DOMAIN T
  BY FreshKey
<1> QED BY <1>1 DEF Insert

(* INSERT of a typed row leaves a typed table. *)
LEMMA InsertTyped ==
    ASSUME NEW T, NEW R, IsTable(T, R), NEW row, row \in R
    PROVE  IsTable(Insert(T, row), R)
<1>1. NextId(T) \in Nat \ {0} /\ NextId(T) \notin DOMAIN T
  BY FreshKey
<1>2. IsFiniteSet(DOMAIN T \cup {NextId(T)})
  BY FS_AddElement DEF IsTable
<1> QED BY <1>1, <1>2 DEF Insert, IsTable

(* DELETE leaves the other rows alone. *)
LEMMA WithoutRows ==
    ASSUME NEW T, NEW R, IsTable(T, R), NEW S
    PROVE  /\ IsTable(Without(T, S), R)
           /\ DOMAIN Without(T, S) = DOMAIN T \ S
           /\ \A i \in DOMAIN T \ S : Without(T, S)[i] = T[i]
<1>1. IsFiniteSet(DOMAIN T \ S)
  BY FS_Subset DEF IsTable
<1> QED BY <1>1 DEF Without, Restrict, IsTable

(* UPDATE changes one row. *)
LEMMA UpdateRow ==
    ASSUME NEW T, NEW R, IsTable(T, R), NEW i \in DOMAIN T, NEW row \in R
    PROVE  /\ IsTable([T EXCEPT ![i] = row], R)
           /\ DOMAIN [T EXCEPT ![i] = row] = DOMAIN T
           /\ [T EXCEPT ![i] = row][i] = row
           /\ \A k \in DOMAIN T : k # i => [T EXCEPT ![i] = row][k] = T[k]
  BY DEF IsTable
-----------------------------------------------------------------------------
(* The order of a list of rows.                                           *)

(* A finite set of primary keys. *)
KeySet(S) == IsFiniteSet(S) /\ S \subseteq Nat

(* ORDER BY event_time, id lists members of the set it orders. *)
TimeOrder(S, time) ==
    {p \in S \X S : \/ time[p[1]] < time[p[2]]
                    \/ time[p[1]] = time[p[2]] /\ p[1] < p[2]}

(* Every rank of that order is taken, once. *)
LEMMA TimeRanks ==
    ASSUME NEW S, KeySet(S), NEW time, \A x \in S : time[x] \in Nat
    PROVE  \A n \in 1 .. Cardinality(S) : \E x \in S :
             Cardinality({y \in S : time[y] < time[x] \/ (time[y] = time[x] /\ y < x)}) = n - 1
<1> DEFINE R == TimeOrder(S, time)
<1>1. \A x, y \in S : <<x, y>> \in R <=> (time[x] < time[y] \/ (time[x] = time[y] /\ x < y))
  BY DEF TimeOrder
<1>2. StrictOrder(S, R)
  <2> HIDE DEF R
  <2> \A x \in S : x \in Nat /\ time[x] \in Nat
    BY DEF KeySet
  <2>1. \A x, y \in S : x # y => <<x, y>> \in R \/ <<y, x>> \in R
    BY <1>1
  <2>2. \A x, y \in S : <<x, y>> \in R => <<y, x>> \notin R
    BY <1>1
  <2>3. \A x, y, z \in S : <<x, y>> \in R /\ <<y, z>> \in R => <<x, z>> \in R
    BY <1>1
  <2> QED BY <2>1, <2>2, <2>3 DEF StrictOrder
<1>3. \A n \in 1 .. Cardinality(S) : \E x \in S : Cardinality(Below(S, R, x)) = n - 1
  <2> HIDE DEF R
  <2>1. IsFiniteSet(S)
    BY DEF KeySet
  <2> QED BY <1>2, <2>1, Ranked
<1>4. \A x \in S : Below(S, R, x)
                     = {y \in S : time[y] < time[x] \/ (time[y] = time[x] /\ y < x)}
  <2> HIDE DEF R
  <2> QED BY <1>1 DEF Below
<1> HIDE DEF R
<1> QED BY <1>3, <1>4

(* The events to replay, in order. *)
LEMMA EventsInOrder ==
    ASSUME NEW S, KeySet(S), NEW evs,
           \A x \in S : evs[x].time \in Nat
    PROVE  InTimeOrder(evs, S) \in Seq(S)
<1> DEFINE key == [x \in S |-> evs[x].time]
           Before(x) == {y \in S : key[y] < key[x] \/ (key[y] = key[x] /\ y < x)}
           Ahead(x) == {y \in S : Sooner(LAMBDA i : evs[i].time, y, x)}
           Nth(n) == CHOOSE x \in S : Cardinality(Ahead(x)) = n - 1
<1>1. \A n \in 1 .. Cardinality(S) : \E x \in S : Cardinality(Before(x)) = n - 1
  <2>1. \A x \in S : key[x] \in Nat
    OBVIOUS
  <2> HIDE DEF key
  <2> QED BY <2>1, TimeRanks
<1>2. \A x \in S : Before(x) = Ahead(x)
  BY DEF Sooner
<1>3. \A n \in 1 .. Cardinality(S) : \E x \in S : Cardinality(Ahead(x)) = n - 1
  <2> HIDE DEF Before, Ahead
  <2> QED BY <1>1, <1>2
<1>4. \A n \in 1 .. Cardinality(S) : Nth(n) \in S
  <2> HIDE DEF Ahead
  <2> QED BY <1>3
<1>5. Cardinality(S) \in Nat
  BY FS_CardinalityType DEF KeySet
<1>6. InTimeOrder(evs, S) = [n \in 1 .. Cardinality(S) |-> Nth(n)]
  BY DEF InOrder, InTimeOrder
<1>7. [n \in 1 .. Cardinality(S) |-> Nth(n)] \in Seq(S)
  <2> HIDE DEF Nth
  <2> QED BY <1>4, <1>5
<1> QED BY <1>6, <1>7

(* The sums of the first n values. *)
Sums(v, N) == [n \in 0 .. N |-> {SumFunctionOnSet(v, 1 .. n)}]

LEMMA PrefixSums ==
    ASSUME NEW N \in Nat, NEW v, \A n \in 1 .. N : v[n] \in Int
    PROVE  /\ 0 \in Sums(v, N)[0]
           /\ \A n \in 1 .. N : \A x \in Sums(v, N)[n - 1] : x \in Int /\ x + v[n] \in Sums(v, N)[n]
           /\ \A x \in Sums(v, N)[N] : x = SumFunctionOnSet(v, 1 .. N)
<1> DEFINE Sum(n) == SumFunctionOnSet(v, 1 .. n)
<1>1. Sum(0) = 0
  <2>1. 1 .. 0 = {}
    OBVIOUS
  <2> QED BY <2>1, SumEmpty
<1>2. ASSUME NEW n \in 1 .. N PROVE Sum(n - 1) \in Int /\ Sum(n) = Sum(n - 1) + v[n]
  <2> DEFINE D == 1 .. (n - 1)
  <2>1. IsFiniteSet(D) /\ n \notin D
    BY FS_Interval
  <2>2. \A k \in D \cup {n} : v[k] \in Int
    OBVIOUS
  <2>3. D \cup {n} = 1 .. n
    OBVIOUS
  <2> HIDE DEF D
  <2>4. SumFunctionOnSet(v, D \cup {n}) = SumFunctionOnSet(v, D) + v[n]
    BY <2>1, <2>2, SumAdd
  <2>5. SumFunctionOnSet(v, D) \in Int
    BY <2>1, <2>2, SumInt
  <2> QED BY <2>3, <2>4, <2>5 DEF D
<1>3. \A n \in 0 .. N : Sums(v, N)[n] = {Sum(n)}
  BY DEF Sums
<1> HIDE DEF Sum
<1>4. 0 \in Sums(v, N)[0]
  BY <1>1, <1>3
<1>5. ASSUME NEW n \in 1 .. N, NEW x \in Sums(v, N)[n - 1]
      PROVE  x \in Int /\ x + v[n] \in Sums(v, N)[n]
  <2>1. n \in 0 .. N /\ n - 1 \in 0 .. N
    OBVIOUS
  <2>2. x = Sum(n - 1) /\ Sum(n) \in Sums(v, N)[n]
    BY <1>3, <2>1
  <2> QED BY <1>2, <2>2
<1>6. \A x \in Sums(v, N)[N] : x = Sum(N)
  <2>1. N \in 0 .. N
    OBVIOUS
  <2> QED BY <1>3, <2>1
<1> QED BY <1>4, <1>5, <1>6 DEF Sum
-----------------------------------------------------------------------------
(* Filtered lists.                                                         *)

(* A filtered list holds only members of the filter. *)
LEMMA ChosenList ==
    ASSUME NEW E, NEW list \in Seq(E), NEW S
    PROVE  Chosen(list, S) \in Seq(S \cap E)
<1>1. \A taken \in Seq(S \cap E) : \A x \in E : TakeIf(S, S, S, taken, x) \in Seq(S \cap E)
  BY DEF TakeIf
<1>2. <<>> \in Seq(S \cap E)
  OBVIOUS
<1>3. Choice!Folded(S, S, S, <<>>, list) \in Seq(S \cap E)
  BY <1>1, <1>2, Choice!Stays
<1>4. Chosen(list, S) = Choice!Folded(S, S, S, <<>>, list)
  BY DEF Chosen, TakeIf, Choice!Folded, Choice!FoldLeft, Choice!MapThenFoldSet,
         FoldLeft, MapThenFoldSet, Choice!Max, Max
<1> QED BY <1>3, <1>4

(* Where the members of a filtered list stand in the list. *)
Places(list, n, S) == {i \in 1 .. n : list[i] \in S}

Matching(h, taken, list, n, S) ==
    /\ h \in [1 .. Len(taken) -> Places(list, n, S)]
    /\ \A j, k \in 1 .. Len(taken) : h[j] = h[k] => j = k
    /\ \A i \in Places(list, n, S) : \E k \in 1 .. Len(taken) : h[k] = i
    /\ \A k \in 1 .. Len(taken) : taken[k] = list[h[k]]

(* A filtered list holds each member of the filter once for each place.    *)
LEMMA ChosenPlaces ==
    ASSUME NEW E, NEW list \in Seq(E), NEW S
    PROVE  \E h : Matching(h, Chosen(list, S), list, Len(list), S)
<1> DEFINE N == Len(list)
           X == [n \in 0 .. N |-> {t \in Seq(E) : \E h : Matching(h, t, list, n, S)}]
<1>1. N \in Nat
  OBVIOUS
<1>2. <<>> \in X[0]
  <2>1. <<>> \in Seq(E) /\ Len(<<>>) = 0
    OBVIOUS
  <2>2. Matching([k \in 1 .. 0 |-> 0], <<>>, list, 0, S)
    BY DEF Matching, Places
  <2> QED BY <1>1, <2>1, <2>2
<1>3. ASSUME NEW n \in 1 .. N, NEW t \in X[n - 1]
      PROVE  TakeIf(S, S, S, t, list[n]) \in X[n]
  <2>1. n \in 0 .. N /\ n - 1 \in 0 .. N /\ list[n] \in E /\ n \in Nat
    BY <1>1
  <2>2. t \in Seq(E)
    BY <2>1
  <2>3. PICK h : Matching(h, t, list, n - 1, S)
    BY <2>1
  <2> DEFINE m == Len(t)
  <2>4. m \in Nat
    BY <2>2
  <2>5. CASE list[n] \notin S
    <3>1. Places(list, n, S) = Places(list, n - 1, S)
      BY <2>1, <2>5 DEF Places
    <3>2. Matching(h, t, list, n, S)
      BY <2>3, <3>1 DEF Matching
    <3> QED BY <2>1, <2>2, <2>5, <3>2 DEF TakeIf
  <2>6. CASE list[n] \in S
    <3> DEFINE more == Append(t, list[n])
               g == [k \in 1 .. m + 1 |-> IF k = m + 1 THEN n ELSE h[k]]
    <3>1. more \in Seq(E) /\ Len(more) = m + 1 /\ more[m + 1] = list[n]
      BY <2>1, <2>2
    <3>2. \A k \in 1 .. m : more[k] = t[k] /\ k \in 1 .. m + 1 /\ k # m + 1
      BY <2>2, <2>4
    <3>3. /\ Places(list, n, S) = Places(list, n - 1, S) \cup {n}
          /\ \A i \in Places(list, n - 1, S) : i # n
      BY <2>1, <2>6 DEF Places
    <3>4. \A k \in 1 .. m : g[k] = h[k] /\ h[k] \in Places(list, n - 1, S)
      BY <2>3, <3>2 DEF Matching
    <3>5. g[m + 1] = n /\ m + 1 \in 1 .. m + 1
      BY <2>4
    <3>6. \A k \in 1 .. m + 1 : k \in 1 .. m \/ k = m + 1
      <4> HIDE DEF m
      <4> QED BY <2>4
    <3>7. g \in [1 .. m + 1 -> Places(list, n, S)]
      BY <3>3, <3>4, <3>5, <3>6
    <3> HIDE DEF g, more
    <3>8. \A j, k \in 1 .. m + 1 : g[j] = g[k] => j = k
      <4>1. \A j, k \in 1 .. m : h[j] = h[k] => j = k
        BY <2>3 DEF Matching
      <4> QED BY <3>3, <3>4, <3>5, <3>6, <4>1
    <3>9. \A i \in Places(list, n, S) : \E k \in 1 .. m + 1 : g[k] = i
      <4>1. \A i \in Places(list, n - 1, S) : \E k \in 1 .. m : h[k] = i
        BY <2>3 DEF Matching
      <4> QED BY <3>2, <3>3, <3>4, <3>5, <4>1
    <3>10. \A k \in 1 .. m + 1 : more[k] = list[g[k]]
      <4>1. \A k \in 1 .. m : t[k] = list[h[k]]
        BY <2>3 DEF Matching
      <4> QED BY <3>1, <3>2, <3>4, <3>5, <3>6, <4>1
    <3>11. Matching(g, more, list, n, S)
      BY <3>1, <3>7, <3>8, <3>9, <3>10 DEF Matching
    <3>12. TakeIf(S, S, S, t, list[n]) = more
      BY <2>6 DEF TakeIf, more
    <3> QED BY <2>1, <3>1, <3>11, <3>12
  <2> QED BY <2>5, <2>6
<1>4. Choice!Folded(S, S, S, <<>>, list) \in X[N]
  <2> HIDE DEF X
  <2> QED BY <1>2, <1>3, Choice!Advances
<1>5. Chosen(list, S) = Choice!Folded(S, S, S, <<>>, list)
  BY DEF Chosen, TakeIf, Choice!Folded, Choice!FoldLeft, Choice!MapThenFoldSet,
         FoldLeft, MapThenFoldSet, Choice!Max, Max
<1>6. N \in 0 .. N
  BY <1>1
<1> QED BY <1>4, <1>5, <1>6

(* A list is one of its members. *)
LEMMA Members ==
    ASSUME NEW E, NEW list \in Seq(E)
    PROVE  list \in Seq(ToSet(list)) /\ ToSet(list) \subseteq E
  BY DEF ToSet

(* A filtered list and its members. *)
LEMMA ChosenMembers ==
    ASSUME NEW E, NEW list \in Seq(E), NEW S, S \subseteq ToSet(list)
    PROVE  /\ Chosen(list, S) \in Seq(ToSet(Chosen(list, S)))
           /\ ToSet(Chosen(list, S)) \subseteq S /\ S \subseteq E
           /\ Chosen(list, S) \in Seq(S)
<1>1. list \in Seq(ToSet(list)) /\ ToSet(list) \subseteq E
  BY Members
<1>2. Chosen(list, S) \in Seq(S)
  <2>1. Chosen(list, S) \in Seq(S \cap ToSet(list))
    BY <1>1, ChosenList
  <2>2. S \cap ToSet(list) = S
    OBVIOUS
  <2> QED BY <2>1, <2>2
<1>3. Chosen(list, S) \in Seq(ToSet(Chosen(list, S))) /\ ToSet(Chosen(list, S)) \subseteq S
  BY <1>2, Members
<1> QED BY <1>1, <1>2, <1>3

(* The values at the places a filter keeps. *)
LEMMA ChosenSum ==
    ASSUME NEW E, NEW list \in Seq(E), NEW S, NEW f, \A i \in DOMAIN list : f[i] \in Int,
           NEW v, \A n \in DOMAIN Chosen(list, S) : \A i \in DOMAIN list :
                     Chosen(list, S)[n] = list[i] => v[n] = f[i]
    PROVE  /\ \A n \in 1 .. Len(Chosen(list, S)) : v[n] \in Int
           /\ SumFunctionOnSet(v, 1 .. Len(Chosen(list, S)))
                = SumFunctionOnSet(f, Places(list, Len(list), S))
<1> DEFINE taken == Chosen(list, S)
           D == 1 .. Len(taken)
           P == Places(list, Len(list), S)
<1>1. PICK h : Matching(h, taken, list, Len(list), S)
  BY ChosenPlaces
<1>2. taken \in Seq(S \cap ToSet(list))
  <2>1. list \in Seq(ToSet(list))
    BY Members
  <2> QED BY <2>1, ChosenList
<1>3. IsFiniteSet(D) /\ DOMAIN taken = D
  <2>1. Len(taken) \in Nat /\ DOMAIN taken = 1 .. Len(taken)
    BY <1>2
  <2> QED BY <2>1, FS_Interval
<1>4. P \subseteq DOMAIN list /\ IsFiniteSet(P)
  <2> DEFINE all == 1 .. Len(list)
  <2>1. Len(list) \in Nat /\ DOMAIN list = all
    OBVIOUS
  <2>2. P \subseteq all
    BY DEF Places
  <2>3. IsFiniteSet(all)
    BY <2>1, FS_Interval
  <2> HIDE DEF P, all
  <2>4. IsFiniteSet(P)
    BY <2>2, <2>3, FS_Subset
  <2> QED BY <2>1, <2>2, <2>4
<1>5. \A n \in D : h[n] \in P /\ taken[n] = list[h[n]]
  BY <1>1 DEF Matching
<1>6. /\ \A j, k \in D : h[j] = h[k] => j = k
      /\ \A i \in P : \E k \in D : h[k] = i
  BY <1>1 DEF Matching
<1>7. \A n \in D : v[n] \in Int /\ f[h[n]] = v[n]
  <2> HIDE DEF D, P, taken
  <2> QED BY <1>3, <1>4, <1>5 DEF taken
<1> HIDE DEF D, P
<1>8. SumFunctionOnSet(f, P) = SumFunctionOnSet(v, D)
  BY <1>3, <1>4, <1>5, <1>6, <1>7, SumMatched
<1> QED BY <1>7, <1>8 DEF D, P
=============================================================================
