----------------------------- MODULE FoldTheorems -----------------------------
(***************************************************************************)
(* What a left fold of the library keeps: a set that holds the first value *)
(* and that every turn stays in holds the result.  The handlers' loops are *)
(* such folds; a module that proves something about one takes an instance  *)
(* of this module for it, with Op for the body of the loop and p, q, r for *)
(* what the body reads besides the running value and the list's member.    *)
(***************************************************************************)
EXTENDS Integers, Sequences, SequencesExt, FiniteSets, FiniteSetTheorems, TLAPS

CONSTANT Op(_, _, _, _, _)

(* A finite set of positions. *)
Positions(S) == IsFiniteSet(S) /\ S \subseteq Int

LEMMA SomePositions == ASSUME NEW S, Positions(S), NEW T \in SUBSET S PROVE Positions(T)
  BY FS_Subset DEF Positions

(* A non-empty set of sets of positions has a minimal member. *)
LEMMA SmallestSet ==
    ASSUME NEW S, Positions(S), NEW Bad \in SUBSET (SUBSET S), Bad # {}
    PROVE  \E T \in Bad : \A U \in Bad : U \subseteq T => U = T
<1>1. IsWellFoundedOn(StrictSubsetOrdering(S), FiniteSubsetsOf(S))
  BY FS_StrictSubsetOrderingWellFounded DEF Positions
<1>2. Bad \subseteq FiniteSubsetsOf(S)
  BY FS_FiniteSubsetsOfFinite DEF Positions
<1>3. PICK T \in Bad : \A U \in Bad : ~ <<U, T>> \in StrictSubsetOrdering(S)
  BY <1>1, <1>2, WFMin
<1>4. \A U \in Bad : U \subseteq T => U = T
  BY <1>3 DEF StrictSubsetOrdering
<1> QED BY <1>4

(* The greatest position of a set is its member. *)
LEMMA MaxInSet ==
    ASSUME NEW S, Positions(S), S # {}
    PROVE  Max(S) \in S
<1> DEFINE Ends(T) == \E m \in T : \A y \in T : y <= m
           Bad == {T \in SUBSET S : T # {} /\ ~ Ends(T)}
<1>1. S \subseteq Int
  BY DEF Positions
<1>2. ASSUME Bad # {} PROVE FALSE
  <2>1. PICK T \in Bad : \A U \in Bad : U \subseteq T => U = T
    <3> HIDE DEF Bad
    <3>1. Bad \in SUBSET (SUBSET S)
      BY DEF Bad
    <3> QED BY <1>2, <3>1, SmallestSet
  <2>2. T \in SUBSET S /\ T # {} /\ ~ Ends(T)
    BY <2>1
  <2>3. PICK x \in T : TRUE
    BY <2>2
  <2>4. T \ {x} # {}
    BY <1>1, <2>2, <2>3
  <2>5. Ends(T \ {x})
    <3> HIDE DEF Ends
    <3> QED BY <2>1, <2>2, <2>3, <2>4
  <2>6. PICK m \in T \ {x} : \A y \in T \ {x} : y <= m
    BY <2>5
  <2>7. \A y \in T : y \in Int
    BY <1>1, <2>2
  <2> QED BY <2>2, <2>3, <2>6, <2>7
<1>3. Ends(S)
  <2> HIDE DEF Ends
  <2> QED BY <1>2
<1> QED BY <1>1, <1>3 DEF Max
-------------------------------------------------------------------------------
(* The runs of a fold.                                                     *)

Folded(p, q, r, base, seq) == FoldLeft(LAMBDA x, y : Op(p, q, r, x, y), base, seq)

(* The value after the turns in s, given by the values F after fewer.      *)
After(p, q, r, base, seq, F, s) ==
    IF s = {} THEN base ELSE Op(p, q, r, F[s \ {Max(s)}], seq[Max(s)])

IsRun(F, p, q, r, base, seq, S) ==
    F = [s \in SUBSET S |-> After(p, q, r, base, seq, F, s)]

RunOver(p, q, r, base, seq, S) == CHOOSE F : IsRun(F, p, q, r, base, seq, S)

(* The library's fold is the last entry of the run. *)
LEMMA FoldedIsEntry ==
    ASSUME NEW p, NEW q, NEW r, NEW base, NEW seq
    PROVE  Folded(p, q, r, base, seq)
             = RunOver(p, q, r, base, seq, DOMAIN seq)[DOMAIN seq]
  BY DEF Folded, FoldLeft, MapThenFoldSet, RunOver, IsRun, After

(* Two runs agree on the subsets they share. *)
LEMMA RunsAgree ==
    ASSUME NEW p, NEW q, NEW r, NEW base, NEW seq,
           NEW S, Positions(S), NEW T, NEW F, NEW G,
           IsRun(F, p, q, r, base, seq, S), IsRun(G, p, q, r, base, seq, T)
    PROVE  \A s \in SUBSET S : s \subseteq T => F[s] = G[s]
<1> DEFINE Bad == {s \in SUBSET S : s \subseteq T /\ F[s] # G[s]}
<1> SUFFICES ASSUME Bad # {} PROVE FALSE
  OBVIOUS
<1>1. PICK s \in Bad : \A u \in Bad : u \subseteq s => u = s
  <2> HIDE DEF Bad
  <2>1. Bad \in SUBSET (SUBSET S)
    BY DEF Bad
  <2> QED BY <2>1, SmallestSet
<1>2. s \in SUBSET S /\ s \in SUBSET T /\ F[s] # G[s]
  BY <1>1
<1>3. /\ F[s] = After(p, q, r, base, seq, F, s)
      /\ G[s] = After(p, q, r, base, seq, G, s)
  BY <1>2 DEF IsRun
<1>4. s # {}
  BY <1>2, <1>3 DEF After
<1>5. Max(s) \in s
  <2>1. Positions(s)
    BY <1>2, SomePositions
  <2> QED BY <1>4, <2>1, MaxInSet
<1>6. F[s \ {Max(s)}] = G[s \ {Max(s)}]
  BY <1>1, <1>2, <1>5
<1> QED BY <1>2, <1>3, <1>6 DEF After

(* There is a run over every finite set. *)
LEMMA RunExists ==
    ASSUME NEW p, NEW q, NEW r, NEW base, NEW seq, NEW S, Positions(S)
    PROVE  IsRun(RunOver(p, q, r, base, seq, S), p, q, r, base, seq, S)
<1> DEFINE Table(u) == RunOver(p, q, r, base, seq, u)
           Runs(u) == IsRun(Table(u), p, q, r, base, seq, u)
           Bad == {T \in SUBSET S : ~ Runs(T)}
<1> SUFFICES ASSUME Bad # {} PROVE FALSE
  OBVIOUS
<1>1. PICK T \in Bad : \A U \in Bad : U \subseteq T => U = T
  <2> HIDE DEF Bad
  <2>1. Bad \in SUBSET (SUBSET S)
    BY DEF Bad
  <2> QED BY <2>1, SmallestSet
<1>2. T \in SUBSET S /\ ~ Runs(T)
  BY <1>1
<1>3. \A U \in SUBSET T : U # T => Positions(U) /\ Runs(U)
  <2> HIDE DEF Runs
  <2> QED BY <1>1, <1>2, SomePositions
<1> DEFINE Entry(u) == Table(u)[u]
           F == [s \in SUBSET T |->
                   IF s = {} THEN base ELSE Op(p, q, r, Entry(s \ {Max(s)}), seq[Max(s)])]
<1>4. ASSUME NEW u \in SUBSET T, u # T
      PROVE  F[u] = Entry(u)
  <2>1. Runs(u) /\ Positions(u)
    <3> HIDE DEF Runs
    <3> QED BY <1>3, <1>4
  <2>2. Table(u)[u] = After(p, q, r, base, seq, Table(u), u)
    <3> HIDE DEF Table
    <3> QED BY <2>1 DEF IsRun
  <2>3. CASE u = {}
    <3> HIDE DEF Table
    <3> QED BY <2>2, <2>3 DEF After
  <2>4. CASE u # {}
    <3> DEFINE v == u \ {Max(u)}
    <3>1. v \in SUBSET u /\ v \in SUBSET T /\ v # T
      BY <1>4, <2>1, <2>4, MaxInSet
    <3>2. Runs(v) /\ Positions(v)
      <4> HIDE DEF Runs, v
      <4> QED BY <1>3, <3>1
    <3>3. Table(v)[v] = Table(u)[v]
      <4>1. \A s \in SUBSET v : s \subseteq u => Table(v)[s] = Table(u)[s]
        <5> HIDE DEF v
        <5> QED BY <2>1, <3>2, RunsAgree
      <4> QED BY <3>1, <4>1
    <3> HIDE DEF Table
    <3> QED BY <1>4, <2>2, <2>4, <3>3 DEF After
  <2> QED BY <2>3, <2>4
<1>5. IsRun(F, p, q, r, base, seq, T)
  <2>1. ASSUME NEW s \in SUBSET T, s # {}
        PROVE  Entry(s \ {Max(s)}) = F[s \ {Max(s)}]
    <3>1. Positions(s)
      BY <1>2, <2>1, SomePositions
    <3>2. Max(s) \in s
      BY <2>1, <3>1, MaxInSet
    <3>3. s \ {Max(s)} \in SUBSET T /\ s \ {Max(s)} # T
      BY <3>2
    <3> HIDE DEF F, Entry
    <3> QED BY <1>4, <3>3
  <2>2. F = [s \in SUBSET T |-> After(p, q, r, base, seq, F, s)]
    <3> HIDE DEF Entry
    <3> QED BY <2>1 DEF After
  <2> HIDE DEF F
  <2> QED BY <2>2 DEF IsRun
<1> HIDE DEF F
<1> QED BY <1>2, <1>5 DEF RunOver

(* A set that every turn of the fold stays in holds its result. *)
THEOREM Stays ==
    ASSUME NEW p, NEW q, NEW r, NEW X, NEW base \in X, NEW S, NEW seq \in Seq(S),
           \A x \in X : \A y \in S : Op(p, q, r, x, y) \in X
    PROVE  Folded(p, q, r, base, seq) \in X
<1> DEFINE D == DOMAIN seq
           F == RunOver(p, q, r, base, seq, D)
           Bad == {s \in SUBSET D : F[s] \notin X}
<1>1. Positions(D)
  <2>1. D = 1 .. Len(seq) /\ Len(seq) \in Nat
    OBVIOUS
  <2>2. IsFiniteSet(1 .. Len(seq))
    BY <2>1, FS_Interval
  <2> HIDE DEF D
  <2> QED BY <2>1, <2>2 DEF Positions
<1>2. F = [s \in SUBSET D |-> After(p, q, r, base, seq, F, s)]
  <2>1. IsRun(F, p, q, r, base, seq, D)
    <3> HIDE DEF D
    <3> QED BY <1>1, RunExists DEF D
  <2> HIDE DEF F
  <2> QED BY <2>1 DEF IsRun
<1>3. ASSUME Bad # {} PROVE FALSE
  <2>1. PICK s \in Bad : \A u \in Bad : u \subseteq s => u = s
    <3>1. Bad \in SUBSET (SUBSET D)
      OBVIOUS
    <3>2. Positions(D)
      BY <1>1
    <3> HIDE DEF Bad, D
    <3> QED BY <1>3, <3>1, <3>2, SmallestSet
  <2> HIDE DEF F
  <2>2. s \in SUBSET D /\ F[s] \notin X
    BY <2>1
  <2>3. F[s] = After(p, q, r, base, seq, F, s)
    BY <1>2, <2>2
  <2>4. s # {}
    BY <2>2, <2>3 DEF After
  <2>5. Max(s) \in s
    <3>1. Positions(s)
      <4> HIDE DEF D
      <4> QED BY <1>1, <2>2, SomePositions
    <3> QED BY <2>4, <3>1, MaxInSet
  <2>6. F[s \ {Max(s)}] \in X
    BY <2>1, <2>2, <2>5
  <2>7. seq[Max(s)] \in S
    BY <2>2, <2>5
  <2> QED BY <2>2, <2>3, <2>4, <2>6, <2>7 DEF After
<1>4. F[D] \in X
  <2> HIDE DEF F
  <2> QED BY <1>3
<1> QED BY <1>4, FoldedIsEntry

(* The values after each turn of the fold. *)
THEOREM Turns ==
    ASSUME NEW p, NEW q, NEW r, NEW base, NEW S, NEW seq \in Seq(S)
    PROVE  \E V : /\ V[0] = base /\ V[Len(seq)] = Folded(p, q, r, base, seq)
                  /\ \A n \in 1 .. Len(seq) : V[n] = Op(p, q, r, V[n - 1], seq[n])
<1> DEFINE N == Len(seq)
           D == DOMAIN seq
           F == RunOver(p, q, r, base, seq, D)
           V == [n \in 0 .. N |-> F[1 .. n]]
<1>1. N \in Nat /\ D = 1 .. N
  OBVIOUS
<1>2. Positions(D)
  <2>1. IsFiniteSet(1 .. N)
    BY <1>1, FS_Interval
  <2> HIDE DEF D, N
  <2> QED BY <1>1, <2>1 DEF Positions
<1>3. F = [s \in SUBSET D |-> After(p, q, r, base, seq, F, s)]
  <2>1. IsRun(F, p, q, r, base, seq, D)
    <3> HIDE DEF D
    <3> QED BY <1>2, RunExists DEF D
  <2> HIDE DEF F
  <2> QED BY <2>1 DEF IsRun
<1>4. Folded(p, q, r, base, seq) = F[D]
  BY FoldedIsEntry
<1> HIDE DEF D, F, N
<1>5. V[0] = base /\ V[N] = Folded(p, q, r, base, seq)
  <2>1. 1 .. 0 = {} /\ {} \in SUBSET D /\ 0 \in 0 .. N /\ N \in 0 .. N
    BY <1>1
  <2>2. F[{}] = base
    BY <1>3, <2>1 DEF After
  <2> QED BY <1>1, <1>4, <2>1, <2>2
<1>6. ASSUME NEW n \in 1 .. N PROVE V[n] = Op(p, q, r, V[n - 1], seq[n])
  <2> DEFINE s == 1 .. n
  <2>1. n \in Nat /\ n \in s /\ \A y \in s : y \in Int /\ y <= n
    BY <1>1
  <2>2. s \in SUBSET D /\ s \ {n} = 1 .. (n - 1)
    BY <1>1
  <2>3. V[n] = F[s] /\ V[n - 1] = F[1 .. (n - 1)]
    <3>1. n \in 0 .. N /\ n - 1 \in 0 .. N
      BY <1>1
    <3> QED BY <3>1
  <2> HIDE DEF s, V
  <2>4. Max(s) = n
    <3>1. \A y \in s : n >= y
      BY <2>1
    <3>2. Max(s) \in s /\ Max(s) >= n
      BY <2>1, <3>1 DEF Max
    <3>3. Max(s) \in Int /\ Max(s) <= n
      BY <2>1, <3>2
    <3> QED BY <2>1, <3>2, <3>3
  <2>5. F[s] = After(p, q, r, base, seq, F, s)
    BY <1>3, <2>2
  <2> QED BY <2>1, <2>2, <2>3, <2>4, <2>5 DEF After
<1> QED BY <1>5, <1>6 DEF N

(* When the turns of the fold lead from each of a sequence of sets to the  *)
(* next one, the result is in the last.                                    *)
THEOREM Advances ==
    ASSUME NEW p, NEW q, NEW r, NEW S, NEW seq \in Seq(S), NEW X, NEW base \in X[0],
           \A n \in 1 .. Len(seq) : \A x \in X[n - 1] : Op(p, q, r, x, seq[n]) \in X[n]
    PROVE  Folded(p, q, r, base, seq) \in X[Len(seq)]
<1> DEFINE N == Len(seq)
<1>1. PICK V : /\ V[0] = base /\ V[N] = Folded(p, q, r, base, seq)
               /\ \A n \in 1 .. N : V[n] = Op(p, q, r, V[n - 1], seq[n])
  BY Turns
<1> DEFINE Misses(s) == \E n \in 0 .. N : s = 1 .. n /\ V[n] \notin X[n]
           Bad == {s \in SUBSET (1 .. N) : Misses(s)}
<1>2. N \in Nat
  OBVIOUS
<1> HIDE DEF N
<1>3. ASSUME Bad # {} PROVE FALSE
  <2>1. PICK s \in Bad : \A u \in Bad : u \subseteq s => u = s
    <3> DEFINE D == 1 .. N
    <3>1. Bad \in SUBSET (SUBSET D)
      OBVIOUS
    <3>2. Positions(D)
      BY <1>2, FS_Interval DEF Positions
    <3> HIDE DEF Bad, D
    <3> QED BY <1>3, <3>1, <3>2, SmallestSet
  <2>2. PICK n \in 0 .. N : s = 1 .. n /\ V[n] \notin X[n]
    BY <2>1
  <2>3. n # 0 /\ n \in 1 .. N
    BY <1>1, <1>2, <2>2
  <2>4. V[n - 1] \in X[n - 1]
    <3> DEFINE u == 1 .. (n - 1)
    <3>1. /\ u \in SUBSET (1 .. N) /\ u \subseteq s /\ n \in s /\ n \notin u
          /\ n - 1 \in 0 .. N
      BY <1>2, <2>2, <2>3
    <3>2. ~ Misses(u)
      BY <2>1, <3>1
    <3> QED BY <3>1, <3>2
  <2>5. V[n] \in X[n]
    BY <1>1, <2>3, <2>4 DEF N
  <2> QED BY <2>2, <2>5
<1>4. V[N] \in X[N]
  <2>1. 1 .. N \notin Bad
    BY <1>3
  <2>2. ~ Misses(1 .. N)
    BY <2>1
  <2> QED BY <1>2, <2>2
<1> QED BY <1>1, <1>4 DEF N
===============================================================================
